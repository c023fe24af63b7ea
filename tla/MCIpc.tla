------------------------------- MODULE MCIpc -------------------------------
(***************************************************************************)
(* The objects tasks communicate through, for TLC: futexes, pipes, eventfd,    *)
(* timerfd, SysV semaphores, messages and shared memory, unix sockets, poll,   *)
(* select and epoll.  A behaviour uses one of them, the one that focus names;    *)
(* the variables of the others are unused.  The module extends Pipe with the    *)
(* constants of "bytes"; what is said of a pipe is the same for all three.       *)
(***************************************************************************)
EXTENDS Pipe

VARIABLES focus,
          word, call, reg, hit, users, queue,
          counter, nonblocking, lease, ecall, owed,
          clock, tf, rcall, told,
          sem, next_id, key_id, undo, scall, base,
          gqueue, g_next, g_key, next_sequence, gcall, got, failed,
          seg, h_next, h_key, attachments, reserved, aspace, maps, hcall,
          fdt, fds, tab, sock, inbox, bound, node, ut, chans,
          ready, pfds, ptab, emaps, owners, erefs, interests, given, pt,
          term, pairs, sessions, desc, tt, made, due

futexVars == <<word, call, reg, hit, users, queue>>
eventVars == <<counter, nonblocking, lease, ecall, owed>>
timerVars == <<clock, tf, rcall, told>>
semVars == <<sem, next_id, key_id, undo, scall, base>>
msgVars == <<gqueue, g_next, g_key, next_sequence, gcall, got, failed>>
shmVars == <<seg, h_next, h_key, attachments, reserved, aspace, maps, hcall>>
sockVars == <<fdt, fds, tab, sock, inbox, bound, node, ut, chans>>
pollVars == <<ready, pfds, ptab, emaps, owners, erefs, interests, given, pt>>
ptyVars == <<term, pairs, sessions, desc, tt, made, due>>
allVars == <<focus, futexVars, pvars, eventVars, timerVars, semVars, msgVars, shmVars, sockVars, pollVars, ptyVars>>

Wait    == INSTANCE Futex WITH FTask <- {1, 2, 3}, FKey <- {1}, FOps <- {"wait", "store"}
Timeout == INSTANCE Futex WITH FTask <- {1, 2}, FKey <- {1}, FOps <- {"wait", "store", "timeout", "exit", "bitset"}
WakeOp  == INSTANCE Futex WITH FTask <- {1, 2}, FKey <- {1, 2}, FOps <- {"wait", "wakeop", "exit", "wake"}
Requeue == INSTANCE Futex WITH FTask <- {1, 2}, FKey <- {1, 2}, FOps <- {"wait", "requeue"}
Packet  == INSTANCE Pipe WITH PTask <- {1, 2}, PCap <- {1, 2}, PBuf <- 2, PMaxLen <- 2, PModes <- {TRUE},
             POps <- {"write", "lease", "signal"}
Named   == INSTANCE Pipe WITH PTask <- {1, 2}, PCap <- {1, 2}, PBuf <- 2, PMaxLen <- 2, PModes <- {FALSE},
             POps <- {"read", "write", "fifo", "setcap", "close"}
Event   == INSTANCE EventFd WITH ETask <- {1, 2, 3}, MaxCounter <- 2, Semaphore <- FALSE
Counter == INSTANCE EventFd WITH ETask <- {1, 2, 3}, MaxCounter <- 2, Semaphore <- TRUE
Timer   == INSTANCE TimerFd WITH RTask <- {1, 2}, TfMaxNow <- 3, TfMaxSpan <- 2, TfMaxGen <- 2
Op(i, n, u, w) == [num |-> i, op |-> n, undo |-> u, nowait |-> w]
Sem     == INSTANCE SysvSem WITH STask <- {1, 2}, NSem <- 2, SemMax <- 2, NextIds <- 1,
             SOps <- {"exit", "rmid", "setval", "setall", "signal", "timeout"},
             SemCalls <- {<<Op(1, -1, TRUE, FALSE)>>,
                          <<Op(2, 1, FALSE, FALSE), Op(1, 1, TRUE, FALSE)>>,
                          <<Op(2, 0, FALSE, FALSE), Op(1, -1, FALSE, TRUE)>>}
Get(k, x, c, n) == [want |-> k, except |-> x, cap |-> c, noerror |-> n]
Msg     == INSTANCE SysvMsg WITH GTask <- {1, 2}, QIds <- 1, Kind <- {1, 2}, Size <- {1, 2}, QBytes <- {1, 3},
             MaxMsg <- 3, queue <- gqueue,
             Wants <- {Get(0, FALSE, 1, FALSE), Get(-2, FALSE, 1, TRUE), Get(1, TRUE, 2, FALSE)}
Shared  == INSTANCE Shm WITH HTask <- {1, 2}, MaxSeg <- 2, Base <- {1}, HOps <- {"fork", "exec", "rmid", "exit"}

Listen  == INSTANCE UnixSock WITH UTask <- {1, 2}, Fd <- {1, 2}, Sock <- {1, 2}, Name <- {"p"}, PathName <- {"p"},
             InboxMax <- 1, QueueMax <- 1, MaxPacket <- 1,
             UOps <- {"socket", "stream", "bind", "listen", "connect", "accept", "close", "fork", "signal"}
Unlinks == INSTANCE UnixSock WITH UTask <- {1, 2}, Fd <- {1, 2}, Sock <- {1, 2}, Name <- {"p"}, PathName <- {"p"},
             InboxMax <- 1, QueueMax <- 1, MaxPacket <- 1,
             UOps <- {"socket", "stream", "bind", "listen", "connect", "accept", "close", "unlink", "signal"}
Pairs   == INSTANCE UnixSock WITH UTask <- {1, 2}, Fd <- {1, 2}, Sock <- {1, 2}, Name <- {"p"}, PathName <- {},
             InboxMax <- 1, QueueMax <- 1, MaxPacket <- 2,
             UOps <- {"pair", "dgram", "stream", "send", "recv", "close", "fork", "fault", "exit"}
Inboxes == INSTANCE UnixSock WITH UTask <- {1, 2}, Fd <- {1, 2}, Sock <- {1, 2}, Name <- {"p"}, PathName <- {},
             InboxMax <- 1, QueueMax <- 1, MaxPacket <- 2,
             UOps <- {"socket", "dgram", "bind", "send", "connect", "recv", "fork", "nonblock"}
Copies  == INSTANCE UnixSock WITH UTask <- {1, 2}, Fd <- {1, 2}, Sock <- {1, 2}, Name <- {"p"}, PathName <- {},
             InboxMax <- 1, QueueMax <- 1, MaxPacket <- 1,
             UOps <- {"socket", "dgram", "bind", "recv", "close", "dup", "open", "fork", "signal"}
Threads == INSTANCE UnixSock WITH UTask <- {1, 2}, Fd <- {1, 2}, Sock <- {1, 2}, Name <- {"p"}, PathName <- {},
             InboxMax <- 1, QueueMax <- 1, MaxPacket <- 1,
             UOps <- {"socket", "dgram", "bind", "send", "recv", "thread"}
Alone   == INSTANCE Polling WITH PoTask <- {1}, PFd <- {1, 2}, Obj <- {1, 2}, Modes <- {}, MaxEvents <- 1,
             fds <- pfds, tab <- ptab, maps <- emaps, refs <- erefs,
             PoOps <- {"poll", "select", "signal", "ready"}
Polls   == INSTANCE Polling WITH PoTask <- {1, 2}, PFd <- {1}, Obj <- {1}, Modes <- {}, MaxEvents <- 1,
             fds <- pfds, tab <- ptab, maps <- emaps, refs <- erefs,
             PoOps <- {"poll", "signal", "ready", "share", "close", "open"}
Level   == INSTANCE Polling WITH PoTask <- {1, 2}, PFd <- {1, 2}, Obj <- {1}, Modes <- {"level"}, MaxEvents <- 1,
             fds <- pfds, tab <- ptab, maps <- emaps, refs <- erefs,
             PoOps <- {"create", "share", "epoll", "ctl", "ready"}
Mixed   == INSTANCE Polling WITH PoTask <- {1}, PFd <- {1, 2, 3}, Obj <- {1, 2}, Modes <- {"level", "edge_once"}, MaxEvents <- 1,
             fds <- pfds, tab <- ptab, maps <- emaps, refs <- erefs,
             PoOps <- {"create", "epoll", "ctl", "ready"}
Nested  == INSTANCE Polling WITH PoTask <- {1}, PFd <- {1, 2}, Obj <- {1}, Modes <- {"level", "edge"}, MaxEvents <- 1,
             fds <- pfds, tab <- ptab, maps <- emaps, refs <- erefs,
             PoOps <- {"create", "ctl", "ready", "poll"}
Epfds   == INSTANCE Polling WITH PoTask <- {1, 2}, PFd <- {1, 2}, Obj <- {1}, Modes <- {}, MaxEvents <- 1,
             fds <- pfds, tab <- ptab, maps <- emaps, refs <- erefs,
             PoOps <- {"create", "fork", "exit", "dup", "close", "open"}
Sharers == INSTANCE Polling WITH PoTask <- {1, 2, 3}, PFd <- {1, 2}, Obj <- {1}, Modes <- {}, MaxEvents <- 1,
             fds <- pfds, tab <- ptab, maps <- emaps, refs <- erefs,
             PoOps <- {"create", "exit", "share"}

Lines   == INSTANCE Pty WITH PtThread <- {1, 2}, Desc <- {1, 2}, Term <- {1}, MAX_PTYS <- 1, QUEUE_CAPACITY <- 2, MaxByte <- 3,
             MaxLen <- 2, Controls <- {"newline", "erase", "kill", "eof", "intr"}, Modes <- {"canon"}, PtOps <- {"slave", "fault"}
Output  == INSTANCE Pty WITH PtThread <- {1, 2}, Desc <- {1, 2}, Term <- {1}, MAX_PTYS <- 1, QUEUE_CAPACITY <- 2, MaxByte <- 3,
             MaxLen <- 2, Controls <- {"newline"}, Modes <- {"loud"}, PtOps <- {"master", "fault"}
Settings == INSTANCE Pty WITH PtThread <- {1, 2}, Desc <- {1, 2}, Term <- {1}, MAX_PTYS <- 1, QUEUE_CAPACITY <- 3, MaxByte <- 2,
             MaxLen <- 2, Controls <- {"newline"}, Modes <- {"canon", "raw", "pair", "timed"}, PtOps <- {"slave"}
Flushes == INSTANCE Pty WITH PtThread <- {1, 2}, Desc <- {1, 2}, Term <- {1}, MAX_PTYS <- 1, QUEUE_CAPACITY <- 2, MaxByte <- 2,
             MaxLen <- 1, Controls <- {"newline"}, Modes <- {"raw", "loud"}, PtOps <- {"slave", "flush"}
Hangups == INSTANCE Pty WITH PtThread <- {1, 2}, Desc <- {1, 2, 3}, Term <- {1}, MAX_PTYS <- 1, QUEUE_CAPACITY <- 2, MaxByte <- 2,
             MaxLen <- 1, Controls <- {"intr"}, Modes <- {"canon"},
             PtOps <- {"slave", "master", "pgrp", "close", "signal", "nonblock"}
Ptmx    == INSTANCE Pty WITH PtThread <- {1, 2}, Desc <- {1, 2}, Term <- {1, 2}, MAX_PTYS <- 2, QUEUE_CAPACITY <- 1, MaxByte <- 0,
             MaxLen <- 1, Controls <- {}, Modes <- {"canon"}, PtOps <- {"alloc", "open", "lock", "close", "attach"}
Leaders == INSTANCE Pty WITH PtThread <- {1, 2}, Desc <- {1, 2}, Term <- {1, 2}, MAX_PTYS <- 2, QUEUE_CAPACITY <- 1, MaxByte <- 0,
             MaxLen <- 1, Controls <- {}, Modes <- {"canon"}, PtOps <- {"alloc", "open", "lock", "attach", "detach", "leader", "ctty"}

OfFutex == {"wait", "timeout", "wakeop", "requeue"}
OfPipe  == {"bytes", "packet", "named"}
OfSock  == {"listen", "unlinks", "pairs", "inboxes", "copies", "threads"}
OfPoll  == {"alone", "polls", "level", "mixed", "nested", "epfds", "sharers"}
OfPty   == {"lines", "output", "settings", "flushes", "hangups", "ptmx", "leaders"}
NoPty == /\ term = "unused" /\ pairs = "unused" /\ sessions = "unused" /\ desc = "unused" /\ tt = "unused"
         /\ made = "unused" /\ due = "unused"
NoPoll == /\ ready = "unused" /\ pfds = "unused" /\ ptab = "unused" /\ emaps = "unused" /\ owners = "unused"
          /\ erefs = "unused" /\ interests = "unused" /\ given = "unused" /\ pt = "unused"
NoFutex == /\ word = "unused" /\ call = "unused" /\ reg = "unused" /\ hit = "unused" /\ users = "unused"
           /\ queue = "unused"
NoEvent == /\ counter = "unused" /\ nonblocking = "unused" /\ lease = "unused" /\ ecall = "unused" /\ owed = "unused"
NoTimer == /\ clock = "unused" /\ tf = "unused" /\ rcall = "unused" /\ told = "unused"
NoSem == /\ sem = "unused" /\ next_id = "unused" /\ key_id = "unused" /\ undo = "unused" /\ scall = "unused"
         /\ base = "unused"
NoMsg == /\ gqueue = "unused" /\ g_next = "unused" /\ g_key = "unused" /\ next_sequence = "unused" /\ gcall = "unused"
         /\ got = "unused" /\ failed = "unused"
NoShm == /\ seg = "unused" /\ h_next = "unused" /\ h_key = "unused" /\ attachments = "unused" /\ reserved = "unused"
         /\ aspace = "unused" /\ maps = "unused" /\ hcall = "unused"
NoSock == /\ fdt = "unused" /\ fds = "unused" /\ tab = "unused" /\ sock = "unused" /\ inbox = "unused"
          /\ bound = "unused" /\ node = "unused" /\ ut = "unused" /\ chans = "unused"
Init ==
  /\ focus \in OfFutex \cup OfPipe \cup OfSock \cup OfPoll \cup OfPty \cup {"event", "counter", "timer", "sem", "msg", "shm"}
  /\ CASE focus = "wait" -> Wait!FInit [] focus = "timeout" -> Timeout!FInit
       [] focus \in {"wakeop", "requeue"} -> WakeOp!FInit [] OTHER -> NoFutex
  /\ CASE focus = "named" -> Named!PInit [] focus = "packet" -> Packet!PInit [] OTHER -> PInit
  /\ focus \in OfPipe \/ ends[1] # {}       \* one start for what is not in focus
  /\ IF focus \in {"event", "counter"} THEN Event!EInit ELSE NoEvent
  /\ IF focus = "timer" THEN Timer!TfInit ELSE NoTimer
  /\ IF focus = "sem" THEN Sem!SInit ELSE NoSem
  /\ IF focus = "msg" THEN Msg!GInit ELSE NoMsg
  /\ IF focus = "shm" THEN Shared!HInit ELSE NoShm
  /\ IF focus \in OfSock THEN Pairs!UxInit ELSE NoSock
  /\ CASE focus = "alone" -> Alone!PoInit [] focus = "polls" -> Polls!PoInit
       [] focus \in {"level", "epfds"} -> Level!PoInit [] focus = "mixed" -> Mixed!PoInit
       [] focus = "nested" -> Nested!PoInit [] focus = "sharers" -> Sharers!PoInit [] OTHER -> NoPoll
  /\ CASE focus = "hangups" -> Hangups!PtInit [] focus = "ptmx" -> Ptmx!PtInit [] focus = "leaders" -> Leaders!PtInit
       [] focus \in OfPty -> Lines!PtInit [] OTHER -> NoPty

FutexNext == \/ focus = "wait" /\ Wait!FNext
             \/ focus = "timeout" /\ Timeout!FNext
             \/ focus = "wakeop" /\ WakeOp!FNext
             \/ focus = "requeue" /\ Requeue!FNext
PipeNext == \/ focus = "bytes" /\ PNext
            \/ focus = "packet" /\ Packet!PNext
            \/ focus = "named" /\ Named!PNext
SockNext == \/ focus = "listen" /\ Listen!UxNext
            \/ focus = "unlinks" /\ Unlinks!UxNext
            \/ focus = "pairs" /\ Pairs!UxNext
            \/ focus = "inboxes" /\ Inboxes!UxNext
            \/ focus = "copies" /\ Copies!UxNext
            \/ focus = "threads" /\ Threads!UxNext
PollNext == \/ focus = "alone" /\ Alone!PoNext
            \/ focus = "polls" /\ Polls!PoNext
            \/ focus = "level" /\ Level!PoNext
            \/ focus = "mixed" /\ Mixed!PoNext
            \/ focus = "nested" /\ Nested!PoNext
            \/ focus = "epfds" /\ Epfds!PoNext
            \/ focus = "sharers" /\ Sharers!PoNext
PtyNext == \/ focus = "lines" /\ Lines!PtNext
           \/ focus = "output" /\ Output!PtNext
           \/ focus = "settings" /\ Settings!PtNext
           \/ focus = "flushes" /\ Flushes!PtNext
           \/ focus = "hangups" /\ Hangups!PtNext
           \/ focus = "ptmx" /\ Ptmx!PtNext
           \/ focus = "leaders" /\ Leaders!PtNext
EventNext == \/ focus = "event" /\ Event!ENext
             \/ focus = "counter" /\ Counter!ENext

Next ==
  /\ UNCHANGED focus
  /\ \/ FutexNext /\ UNCHANGED <<pvars, eventVars, timerVars, semVars, msgVars, shmVars, sockVars, pollVars, ptyVars>>
     \/ PipeNext /\ UNCHANGED <<futexVars, eventVars, timerVars, semVars, msgVars, shmVars, sockVars, pollVars, ptyVars>>
     \/ EventNext /\ UNCHANGED <<futexVars, pvars, timerVars, semVars, msgVars, shmVars, sockVars, pollVars, ptyVars>>
     \/ SockNext /\ UNCHANGED <<futexVars, pvars, eventVars, timerVars, semVars, msgVars, shmVars, pollVars, ptyVars>>
     \/ PollNext /\ UNCHANGED <<futexVars, pvars, eventVars, timerVars, semVars, msgVars, shmVars, sockVars, ptyVars>>
     \/ /\ focus = "timer" /\ Timer!TfNext
        /\ UNCHANGED <<futexVars, pvars, eventVars, semVars, msgVars, shmVars, sockVars, pollVars, ptyVars>>
     \/ /\ focus = "sem" /\ Sem!SNext
        /\ UNCHANGED <<futexVars, pvars, eventVars, timerVars, msgVars, shmVars, sockVars, pollVars, ptyVars>>
     \/ /\ focus = "msg" /\ Msg!GNext
        /\ UNCHANGED <<futexVars, pvars, eventVars, timerVars, semVars, shmVars, sockVars, pollVars, ptyVars>>
     \/ /\ focus = "shm" /\ Shared!HNext
        /\ UNCHANGED <<futexVars, pvars, eventVars, timerVars, semVars, msgVars, sockVars, pollVars, ptyVars>>
     \/ /\ PtyNext
        /\ UNCHANGED <<futexVars, pvars, eventVars, timerVars, semVars, msgVars, shmVars, sockVars, pollVars>>
Spec == Init /\ [][Next]_allVars

-----------------------------------------------------------------------------
(* Type correctness of the component in focus.                               *)
IpcTypes ==
  CASE focus = "wait" -> Wait!FTypeOK [] focus = "timeout" -> Timeout!FTypeOK
    [] focus \in {"wakeop", "requeue"} -> WakeOp!FTypeOK
    [] focus \in OfPipe -> PTypeOK
    [] focus \in {"event", "counter"} -> Event!ETypeOK [] focus = "timer" -> Timer!TfTypeOK
    [] focus = "sem" -> Sem!STypeOK [] focus = "msg" -> Msg!GTypeOK [] focus = "shm" -> Shared!HTypeOK
    [] focus \in {"listen", "unlinks"} -> Listen!UxTypeOK [] focus \in OfSock -> Pairs!UxTypeOK
    [] focus = "alone" -> Alone!PoTypeOK [] focus = "polls" -> Polls!PoTypeOK [] focus = "mixed" -> Mixed!PoTypeOK
    [] focus = "nested" -> Nested!PoTypeOK [] focus = "sharers" -> Sharers!PoTypeOK [] focus \in OfPoll -> Level!PoTypeOK
    [] focus = "hangups" -> Hangups!PtTypeOK [] focus \in {"ptmx", "leaders"} -> Leaders!PtTypeOK
    [] focus = "settings" -> Settings!PtTypeOK [] OTHER -> Lines!PtTypeOK

(* Futex: whoever sleeps on a word that has changed since he compared it is    *)
(* about to be woken, and a futex queue is released when, and only when, no    *)
(* registration and no operation holds it.                                    *)
(* EventFd and TimerFd: what the readers are told adds up to what was written,  *)
(* or expired, across leases whose copy to user space failed, and nobody       *)
(* sleeps on an eventfd that is ready without a wake on its way.               *)
(* SysvSem: the waiter counts are those of the sleepers, and undoing what is    *)
(* recorded for the tasks takes a set back to what the others made of it.      *)
(* SysvMsg: a message that is marked for a receiver is removed once, and       *)
(* given back if the copy to user space failed.                              *)
(* Shm: nattch is the number of attachments and of attaches under way, and no   *)
(* page table maps the frames of a segment that is gone.                      *)
CountsExact ==
  CASE focus = "wait" -> Wait!NoLostWake /\ Wait!UsersCounted
    [] focus = "timeout" -> Timeout!NoLostWake /\ Timeout!UsersCounted
    [] focus \in OfFutex -> WakeOp!NoLostWake /\ WakeOp!UsersCounted
    [] focus = "event" -> Event!Conserved /\ Event!NobodySleepsReady
    [] focus = "counter" -> Counter!Conserved /\ Counter!NobodySleepsReady
    [] focus = "timer" -> Timer!ExpirationsExact
    [] focus = "sem" -> Sem!WaitersCounted /\ Sem!UndoExact [] focus = "msg" -> Msg!DeliveredOnce
    [] focus = "shm" -> Shared!AttachCounts /\ Shared!FramesHeld
    [] OTHER -> TRUE
(* UnixSock: the descriptor of a process and FD_TABLE name the same socket, a    *)
(* name leads to the socket that is bound to it and goes with it, no connection *)
(* is in two places, and datagrams are delivered once, in order, a failed copy  *)
(* included; no reader sleeps on a socket that has a datagram.  Threads that    *)
(* share a table do not keep the first two.                                   *)
(* Polling: a call reports what was ready from its first to its last step and   *)
(* returns nothing only after its deadline, and the registry of epoll          *)
(* descriptors agrees with the tables, through dup, fork, sharing and exits.    *)
(* Pty: bytes pass the line discipline once and in order, through failed       *)
(* copies; nobody sleeps while there is something to do; open ends, numbers      *)
(* and sessions agree with what is open; and a control event never waits with   *)
(* nobody on the way to deliver it.                                            *)
EndpointsSound ==
  /\ focus \in OfSock => Pairs!NoReaderForgotten
  /\ focus = "settings" => Settings!SleepersSound
  /\ focus \in {"lines", "output", "flushes", "hangups"} => Lines!SleepersSound
  /\ CASE focus \in {"listen", "unlinks"} -> Listen!RegistrationsAgree /\ Listen!NamesOwned /\ Listen!EndsDistinct
       [] focus \in {"copies", "inboxes", "pairs"} ->
         Pairs!RegistrationsAgree /\ Pairs!NamesOwned /\ Pairs!EndsDistinct /\ Pairs!DatagramsInOrder
       [] focus = "threads" -> Pairs!DatagramsInOrder
       [] focus = "alone" -> Alone!SteadyReported /\ Alone!ZeroMeansExpired
       [] focus = "polls" -> Polls!SteadyReported /\ Polls!ZeroMeansExpired
       [] focus = "level" -> Level!SteadyReported /\ Level!ZeroMeansExpired
       [] focus = "mixed" -> Mixed!SteadyReported /\ Mixed!ZeroMeansExpired
       [] focus = "nested" -> Nested!SteadyReported /\ Nested!ZeroMeansExpired /\ Nested!EpollsRegistered
       [] focus = "epfds" -> Epfds!EpollsRegistered
       [] focus = "sharers" -> Sharers!EpollsRegistered
       [] focus = "settings" -> Settings!BytesExact
       [] focus \in {"lines", "output", "flushes"} -> Lines!BytesExact
       [] focus = "hangups" -> Hangups!BytesExact /\ Hangups!EndsCounted /\ Hangups!EventsTaken
       [] focus \in {"ptmx", "leaders"} -> Leaders!NumbersUnique /\ Leaders!EndsCounted /\ Leaders!SessionsAgree
       [] OTHER -> TRUE
=============================================================================
