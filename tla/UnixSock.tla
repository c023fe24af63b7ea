------------------------------ MODULE UnixSock ------------------------------
(***************************************************************************)
(* Unix domain sockets (syscall-impl unix_sock.rs with the calls of sys/net   *)
(* that reach it).  A socket is known twice: by the descriptor in the table    *)
(* of the task, and by FD_TABLE, which maps a task and a descriptor number to  *)
(* the socket and which every socket call consults.  BOUND maps a name to      *)
(* the queue of connections of a listener or to the inbox of a datagram        *)
(* socket.  FD_TABLE, BOUND, every socket and every inbox have locks of their  *)
(* own; a call is cut where it holds none.  The bytes of a stream are those of *)
(* two crossed pipes (module Pipe): here a stream is a channel with two ends.   *)
(***************************************************************************)
EXTENDS Integers, Sequences, SequencesExt, FiniteSets

CONSTANTS UTask,        \* tasks; task 1 runs first
          Fd,           \* descriptor numbers
          Sock,         \* socket objects, naturals above 0
          Name,         \* names a socket can be bound to
          PathName,     \* those of them that are paths of the file system
          InboxMax,     \* UNIX_DGRAM_INBOX_MAX
          QueueMax,     \* UNIX_ACCEPT_QUEUE_MAX
          MaxPacket,    \* bound on the datagrams sent to one inbox
          UOps          \* the calls the tasks make

VARIABLES fdt,          \* FD_TABLE: <<task, fd>> -> socket, 0 for none
          fds,          \* the descriptors of a table: a socket, 0 for none, File for another file
          tab,          \* the table of a task, 0 when the task does not exist
          sock, inbox, bound,
          node,         \* socket nodes in the file system
          ut,           \* where a task is in its call
          chans         \* channels made so far
uxVars == <<fdt, fds, tab, sock, inbox, bound, node, ut, chans>>

File == -1
NoSock == [type |-> "none", nb |-> FALSE, key |-> "none", listening |-> FALSE, end |-> <<0, 0>>,
           peer |-> "none", peerInbox |-> 0]
NoEntry == [used |-> FALSE, type |-> "none", listening |-> FALSE, q |-> <<>>, inbox |-> 0, owner |-> 0]
EmptyInbox == [q |-> <<>>, res |-> 0, closed |-> FALSE, sent |-> 0, gone |-> <<>>]
Idle == [pc |-> "idle", fd |-> 0, fd2 |-> 0, s |-> 0, s2 |-> 0, key |-> "none", then |-> "idle"]
MaxChan == Cardinality(Sock)

UxInit ==
  /\ fdt = [k \in UTask \X Fd |-> 0]
  /\ tab = [t \in UTask |-> IF t = 1 THEN 1 ELSE 0]
  /\ fds = [t \in UTask |-> [d \in Fd |-> 0]]
  /\ sock = [s \in Sock |-> NoSock] /\ inbox = [s \in Sock |-> EmptyInbox]
  /\ bound = [k \in Name |-> NoEntry] /\ node = {}
  /\ ut = [t \in UTask |-> Idle] /\ chans = 0

At(t, pc) == ut[t].pc = pc
May(op) == op \in UOps
Ready(t) == tab[t] # 0 /\ At(t, "idle")
Goto(t, r) == ut' = [ut EXCEPT ![t] = r]
Return(t) == Goto(t, Idle)
(* A socket object lives while a table, FD_TABLE or a call refers to it, an inbox   *)
(* while its socket does, a connected one refers to it or a call pushes to it.      *)
Held(s) == \/ \E k \in DOMAIN fdt : fdt[k] = s
           \/ \E t \in UTask, d \in Fd : fds[t][d] = s
           \/ \E t \in UTask : s \in {ut[t].s, ut[t].s2}
InboxHeld(s) == Held(s) \/ \E x \in Sock : (Held(x) /\ sock[x].peerInbox = s) \/ \E k \in Name : bound[k].used /\ bound[k].inbox = s
FreeSocks == {s \in Sock : ~InboxHeld(s)}
FreeFds(t) == {d \in Fd : fds[tab[t]][d] = 0}
Lowest(D) == CHOOSE d \in D : \A e \in D : d <= e
(* A channel's end e is open while a live socket has it or a listener queues it.      *)
-----------------------------------------------------------------------------
(***************************************************************************)
(* FD_TABLE.                                                                *)
(***************************************************************************)
lookup_current(t, d) == fdt[<<t, d>>]
register(T, t, d, s) == [T EXCEPT ![<<t, d>>] = s]
unregistered(T, t, d) == [T EXCEPT ![<<t, d>>] = 0]
still_referenced(T, s) == \E k \in DOMAIN T : T[k] = s
(* The last registration of a socket goes: the cleanup runs after the lock.           *)
unregister(t, d, then) ==
  LET s == fdt[<<t, d>>] T == unregistered(fdt, t, d) IN
  /\ fdt' = T
  /\ Goto(t, [ut[t] EXCEPT !.pc = IF s # 0 /\ ~still_referenced(T, s) THEN "cleanup" ELSE then,
                           !.s = IF s # 0 /\ ~still_referenced(T, s) THEN s ELSE 0, !.then = then])
Wakeable(s) == {t \in UTask : At(t, "asleep") /\ ut[t].s2 = s}
woken(U, s) == [t \in UTask |-> IF t \in Wakeable(s) THEN [U[t] EXCEPT !.pc = "acquire"] ELSE U[t]]
cleanup_removed_socket(t) ==
  LET s == ut[t].s IN
  /\ At(t, "cleanup")
  /\ inbox' = IF sock[s].type = "dgram" THEN [inbox EXCEPT ![s].closed = TRUE] ELSE inbox
  /\ ut' = woken([ut EXCEPT ![t].pc = "unbind"], s)
  /\ UNCHANGED <<fdt, fds, tab, sock, bound, node, chans>>
UnbindName(t) ==
  LET k == sock[ut[t].s].key IN
  /\ At(t, "unbind")
  /\ bound' = IF k = "none" THEN bound ELSE [bound EXCEPT ![k] = NoEntry]
  /\ Goto(t, [ut[t] EXCEPT !.pc = ut[t].then, !.s = 0])
  /\ UNCHANGED <<fdt, fds, tab, sock, inbox, node, chans>>

-----------------------------------------------------------------------------
(***************************************************************************)
(* socket, socketpair: the descriptor first, then the registration.           *)
(***************************************************************************)
alloc_unix_socket(type, nb) == [NoSock EXCEPT !.type = type, !.nb = nb]
sys_socket(t) ==
  /\ May("socket") /\ Ready(t)
  /\ \E s \in FreeSocks, type \in {"stream", "dgram"}, nb \in BOOLEAN :
       /\ May(type) /\ s = Lowest(FreeSocks) /\ (nb => May("nonblock")) /\ FreeFds(t) # {}
       /\ sock' = [sock EXCEPT ![s] = alloc_unix_socket(type, nb)]
       /\ inbox' = [inbox EXCEPT ![s] = EmptyInbox]
       /\ fds' = [fds EXCEPT ![tab[t]][Lowest(FreeFds(t))] = s]
       /\ Goto(t, [Idle EXCEPT !.pc = "register", !.fd = Lowest(FreeFds(t)), !.s = s])
  /\ UNCHANGED <<fdt, tab, bound, node, chans>>
Register(t) ==
  /\ At(t, "register")
  /\ fdt' = register(fdt, t, ut[t].fd, ut[t].s)
  /\ Goto(t, IF ut[t].s2 = 0 THEN Idle
             ELSE [ut[t] EXCEPT !.fd = ut[t].fd2, !.s = ut[t].s2, !.fd2 = ut[t].fd, !.s2 = 0, !.then = "pair"])
  /\ UNCHANGED <<fds, tab, sock, inbox, bound, node, chans>>
alloc_unix_dgram_pair(s, r, nb) == [alloc_unix_socket("dgram", nb) EXCEPT !.peer = "pair", !.peerInbox = r]
alloc_unix_stream_pair(c, side, nb) == [alloc_unix_socket("stream", nb) EXCEPT !.peer = "pair", !.end = <<c, side>>]
sys_socketpair(t) ==
  /\ May("pair") /\ Ready(t) /\ Cardinality(FreeSocks) >= 2 /\ Cardinality(FreeFds(t)) >= 2
  /\ LET s == Lowest(FreeSocks) r == Lowest(FreeSocks \ {s})
         d == Lowest(FreeFds(t)) e == Lowest(FreeFds(t) \ {d}) IN
     /\ \/ /\ May("dgram") /\ UNCHANGED chans
           /\ sock' = [sock EXCEPT ![s] = alloc_unix_dgram_pair(s, r, FALSE), ![r] = alloc_unix_dgram_pair(r, s, FALSE)]
        \/ /\ May("stream") /\ chans < MaxChan /\ chans' = chans + 1
           /\ sock' = [sock EXCEPT ![s] = alloc_unix_stream_pair(chans + 1, 1, FALSE),
                                   ![r] = alloc_unix_stream_pair(chans + 1, 2, FALSE)]
     /\ inbox' = [inbox EXCEPT ![s] = EmptyInbox, ![r] = EmptyInbox]
     /\ fds' = [fds EXCEPT ![tab[t]][d] = s, ![tab[t]][e] = r]
     /\ Goto(t, [Idle EXCEPT !.pc = "register", !.fd = d, !.s = s, !.fd2 = e, !.s2 = r])
  /\ UNCHANGED <<fdt, tab, bound, node>>
(* The numbers do not reach user space: both descriptors are taken back.                *)
PairFault(t) ==
  /\ May("fault") /\ At(t, "register") /\ ut[t].then = "pair"
  /\ fdt' = unregistered(fdt, t, ut[t].fd2)
  /\ fds' = [fds EXCEPT ![tab[t]][ut[t].fd] = 0, ![tab[t]][ut[t].fd2] = 0]
  /\ inbox' = [inbox EXCEPT ![fdt[<<t, ut[t].fd2>>]].closed = TRUE, ![ut[t].s].closed = TRUE]
  /\ Return(t)
  /\ UNCHANGED <<tab, sock, bound, node, chans>>

-----------------------------------------------------------------------------
(***************************************************************************)
(* close, dup, dup3, fork, clone, exit.                                      *)
(***************************************************************************)
sys_close(t) ==
  /\ May("close") /\ Ready(t)
  /\ \E d \in Fd :
       /\ fds[tab[t]][d] # 0 \/ fdt[<<t, d>>] # 0
       /\ fds' = [fds EXCEPT ![tab[t]][d] = 0]
       /\ Goto(t, IF fdt[<<t, d>>] # 0 THEN [Idle EXCEPT !.pc = "unregister", !.fd = d] ELSE Idle)
  /\ UNCHANGED <<fdt, tab, sock, inbox, bound, node, chans>>
Unregister(t) ==
  /\ At(t, "unregister") /\ unregister(t, ut[t].fd, "idle")
  /\ UNCHANGED <<fds, tab, sock, inbox, bound, node, chans>>
(* Another kind of file takes a descriptor.                                         *)
OpenFile(t) ==
  /\ May("open") /\ Ready(t) /\ FreeFds(t) # {}
  /\ fds' = [fds EXCEPT ![tab[t]][Lowest(FreeFds(t))] = File]
  /\ UNCHANGED <<fdt, tab, sock, inbox, bound, node, ut, chans>>
sys_dup3(t) ==
  /\ May("dup") /\ Ready(t)
  /\ \E d, e \in Fd :
       /\ d # e /\ fds[tab[t]][d] # 0
       /\ fds' = [fds EXCEPT ![tab[t]][e] = fds[tab[t]][d]]
       /\ Goto(t, [Idle EXCEPT !.pc = "dup", !.fd = d, !.fd2 = e])
  /\ UNCHANGED <<fdt, tab, sock, inbox, bound, node, chans>>
duplicate_registration(t) ==
  LET s == fdt[<<t, ut[t].fd>>] old == fdt[<<t, ut[t].fd2>>]
      T == [fdt EXCEPT ![<<t, ut[t].fd2>>] = s] IN
  /\ At(t, "dup") /\ fdt' = T
  /\ Goto(t, IF old # 0 /\ ~still_referenced(T, old) THEN [Idle EXCEPT !.pc = "cleanup", !.s = old] ELSE Idle)
  /\ UNCHANGED <<fds, tab, sock, inbox, bound, node, chans>>
(* The child's registrations follow its table; it starts after both.                    *)
Clone(t, shared) ==
  /\ Ready(t)
  /\ \E c \in UTask :
       /\ tab[c] = 0 /\ At(c, "idle")
       /\ LET new == IF shared THEN tab[t] ELSE Lowest(UTask \ Range(tab)) IN
          /\ tab' = [tab EXCEPT ![c] = new]
          /\ fds' = [fds EXCEPT ![new] = fds[tab[t]]]
       /\ ut' = [ut EXCEPT ![t].pc = "clone", ![t].fd = c, ![c].pc = "born"]
  /\ UNCHANGED <<fdt, sock, inbox, bound, node, chans>>
copy_fds_from_parent(t) ==
  LET c == ut[t].fd IN
  /\ At(t, "clone")
  /\ fdt' = [k \in DOMAIN fdt |-> IF k[1] = c /\ fdt[<<t, k[2]>>] # 0 THEN fdt[<<t, k[2]>>] ELSE fdt[k]]
  /\ ut' = [ut EXCEPT ![t] = Idle, ![c] = Idle]
  /\ UNCHANGED <<fds, tab, sock, inbox, bound, node, chans>>
fork(t) == May("fork") /\ Clone(t, FALSE)
clone_thread(t) == May("thread") /\ Clone(t, TRUE)
Exit(t) ==
  /\ May("exit") /\ Ready(t)
  /\ tab' = [tab EXCEPT ![t] = 0]
  /\ fds' = IF \E x \in UTask \ {t} : tab[x] = tab[t] THEN fds ELSE [fds EXCEPT ![tab[t]] = [d \in Fd |-> 0]]
  /\ Goto(t, [Idle EXCEPT !.pc = "drop_task"])
  /\ UNCHANGED <<fdt, sock, inbox, bound, node, chans>>
drop_task(t) ==
  LET left == {d \in Fd : fdt[<<t, d>>] # 0} IN
  /\ At(t, "drop_task")
  /\ IF left = {} THEN Return(t) /\ UNCHANGED fdt ELSE unregister(t, Lowest(left), "drop_task")
  /\ UNCHANGED <<fds, tab, sock, inbox, bound, node, chans>>

-----------------------------------------------------------------------------
(***************************************************************************)
(* bind, listen, connect, accept, shutdown.                                  *)
(***************************************************************************)
Calls(t, s, d) == Ready(t) /\ s = lookup_current(t, d) /\ s # 0
bind(t) ==
  /\ May("bind")
  /\ \E d \in Fd, s \in Sock, k \in Name :
       /\ Calls(t, s, d) /\ sock[s].key = "none"
       /\ k \in PathName => k \notin node                     \* else EADDRINUSE
       /\ node' = IF k \in PathName THEN node \cup {k} ELSE node
       /\ Goto(t, [Idle EXCEPT !.pc = "bind", !.s = s, !.key = k])
  /\ UNCHANGED <<fdt, fds, tab, sock, inbox, bound, chans>>
BindName(t) ==
  LET s == ut[t].s k == ut[t].key IN
  /\ At(t, "bind") /\ Return(t)
  /\ IF bound[k].used THEN UNCHANGED <<sock, bound>>          \* EADDRINUSE
     ELSE /\ bound' = [bound EXCEPT ![k] = [used |-> TRUE, type |-> sock[s].type, listening |-> FALSE, q |-> <<>>,
                                            inbox |-> IF sock[s].type = "dgram" THEN s ELSE 0, owner |-> s]]
          /\ sock' = [sock EXCEPT ![s].key = k]
  /\ UNCHANGED <<fdt, fds, tab, inbox, node, chans>>
(* unlink of the socket's path, by any task.                                          *)
Unlink(t) ==
  /\ May("unlink") /\ Ready(t)
  /\ \E k \in node : node' = node \ {k}
  /\ UNCHANGED <<fdt, fds, tab, sock, inbox, bound, ut, chans>>
listen(t) ==
  /\ May("listen")
  /\ \E d \in Fd, s \in Sock :
       /\ Calls(t, s, d) /\ sock[s].key # "none" /\ sock[s].type = "stream"
       /\ sock' = [sock EXCEPT ![s].listening = TRUE]
       /\ bound' = IF bound[sock[s].key].used THEN [bound EXCEPT ![sock[s].key].listening = TRUE] ELSE bound
  /\ UNCHANGED <<fdt, fds, tab, inbox, node, ut, chans>>
connect_stream(t) ==
  /\ May("connect") /\ chans < MaxChan
  /\ \E d \in Fd, s \in Sock, k \in Name :
       /\ Calls(t, s, d) /\ sock[s].type = "stream" /\ sock[s].end[1] = 0
       /\ bound[k].used /\ bound[k].type = "stream" /\ bound[k].listening       \* else ECONNREFUSED
       /\ Len(bound[k].q) < QueueMax                                            \* else EAGAIN
       /\ bound' = [bound EXCEPT ![k].q = Append(@, <<chans + 1, 2>>)]
       /\ sock' = [sock EXCEPT ![s].end = <<chans + 1, 1>>, ![s].peer = k]
       /\ chans' = chans + 1
  /\ UNCHANGED <<fdt, fds, tab, inbox, node, ut>>
connect_dgram(t) ==
  /\ May("connect")
  /\ \E d \in Fd, s \in Sock, k \in Name :
       /\ Calls(t, s, d) /\ sock[s].type = "dgram"
       /\ sock' = [sock EXCEPT ![s].peer = k, ![s].peerInbox = 0]
  /\ UNCHANGED <<fdt, fds, tab, inbox, bound, node, ut, chans>>
(* accept polls the queue of the name its socket had, one tick at a time.                *)
accept(t) ==
  /\ May("accept")
  /\ \E d \in Fd, s \in Sock :
       /\ Calls(t, s, d) /\ sock[s].type = "stream" /\ sock[s].listening
       /\ Goto(t, [Idle EXCEPT !.pc = "accept", !.s = s, !.key = sock[s].key])
  /\ UNCHANGED <<fdt, fds, tab, sock, inbox, bound, node, chans>>
accept_queue_pop(t) ==
  LET k == ut[t].key IN
  /\ At(t, "accept")
  /\ \/ /\ bound[k].used /\ bound[k].q # <<>> /\ FreeSocks # {}
        /\ LET a == Lowest(FreeSocks) IN
           /\ bound' = [bound EXCEPT ![k].q = Tail(@)]
           /\ sock' = [sock EXCEPT ![a] = [NoSock EXCEPT !.type = "stream", !.nb = sock[ut[t].s].nb, !.end = Head(bound[k].q)]]
           /\ inbox' = [inbox EXCEPT ![a] = EmptyInbox]
           /\ IF FreeFds(t) = {} THEN Return(t) /\ UNCHANGED fds          \* ENOMEM: the connection is dropped
              ELSE /\ fds' = [fds EXCEPT ![tab[t]][Lowest(FreeFds(t))] = a]
                   /\ Goto(t, [Idle EXCEPT !.pc = "register", !.fd = Lowest(FreeFds(t)), !.s = a])
     \/ /\ ~bound[k].used \/ (bound[k].q = <<>> /\ (sock[ut[t].s].nb \/ May("signal")))
        /\ Return(t) /\ UNCHANGED <<fds, sock, inbox, bound>>             \* EINVAL, EAGAIN, EINTR
  /\ UNCHANGED <<fdt, tab, node, chans>>
set_nonblocking(t) ==
  /\ May("nonblock")
  /\ \E d \in Fd, s \in Sock, nb \in BOOLEAN :
       /\ Calls(t, s, d) /\ sock' = [sock EXCEPT ![s].nb = nb]
  /\ UNCHANGED <<fdt, fds, tab, inbox, bound, node, ut, chans>>

-----------------------------------------------------------------------------
(***************************************************************************)
(* Datagrams: the destination is found under the lock of BOUND, the push is    *)
(* made under the lock of the inbox.                                         *)
(***************************************************************************)
sendto(t) ==
  /\ May("send")
  /\ \E d \in Fd, s \in Sock, k \in Name \cup {"none"} :
       /\ Calls(t, s, d) /\ sock[s].type = "dgram"
       /\ LET to == IF k = "none" /\ sock[s].peerInbox # 0 THEN sock[s].peerInbox
                    ELSE LET key == IF k = "none" THEN sock[s].peer ELSE k IN
                         IF key \in Name /\ bound[key].used /\ bound[key].type = "dgram" THEN bound[key].inbox ELSE 0
          IN /\ to # 0                                                    \* else ENOTCONN, ECONNREFUSED
             /\ inbox[to].sent + Cardinality({x \in UTask : At(x, "push") /\ ut[x].s2 = to}) < MaxPacket
             /\ Goto(t, [Idle EXCEPT !.pc = "push", !.s = s, !.s2 = to])
  /\ UNCHANGED <<fdt, fds, tab, sock, inbox, bound, node, chans>>
push(t) ==
  LET i == inbox[ut[t].s2] IN
  /\ At(t, "push")
  /\ IF i.closed \/ Len(i.q) + (IF i.res # 0 THEN 1 ELSE 0) >= InboxMax
     THEN Return(t) /\ UNCHANGED inbox                                     \* ECONNREFUSED, EAGAIN
     ELSE /\ inbox' = [inbox EXCEPT ![ut[t].s2] = [@ EXCEPT !.q = Append(@, i.sent + 1), !.sent = @ + 1]]
          /\ Goto(t, [ut[t] EXCEPT !.pc = "wake"])
  /\ UNCHANGED <<fdt, fds, tab, sock, bound, node, chans>>
(* wake_all of the inbox's readers, after its lock is released.                          *)
WakeReaders(t) ==
  /\ At(t, "wake")
  /\ ut' = [woken(ut, ut[t].s2) EXCEPT ![t] = Idle]
  /\ UNCHANGED <<fdt, fds, tab, sock, inbox, bound, node, chans>>
recvfrom(t) ==
  /\ May("recv")
  /\ \E d \in Fd, s \in Sock :
       /\ Calls(t, s, d) /\ sock[s].type = "dgram"
       /\ Goto(t, [Idle EXCEPT !.pc = "acquire", !.s2 = s])
  /\ UNCHANGED <<fdt, fds, tab, sock, inbox, bound, node, chans>>
Blocked(i) == ~i.closed /\ (i.res # 0 \/ i.q = <<>>)
acquire(t) ==
  LET i == inbox[ut[t].s2] IN
  /\ At(t, "acquire")
  /\ \/ i.closed /\ Return(t) /\ UNCHANGED inbox                          \* BadFd
     \/ /\ ~Blocked(i) /\ ~i.closed
        /\ inbox' = [inbox EXCEPT ![ut[t].s2] = [@ EXCEPT !.q = Tail(@), !.res = Head(i.q)]]
        /\ Goto(t, [ut[t] EXCEPT !.pc = "lease"])
     \/ /\ Blocked(i) /\ UNCHANGED inbox
        /\ IF sock[ut[t].s2].nb THEN Return(t) ELSE Goto(t, [ut[t] EXCEPT !.pc = "sleep"])
  /\ UNCHANGED <<fdt, fds, tab, sock, bound, node, chans>>
(* wait_current_while looks at the inbox again with the wait queue locked.                *)
wait_current_while(t) ==
  /\ At(t, "sleep")
  /\ Goto(t, [ut[t] EXCEPT !.pc = IF Blocked(inbox[ut[t].s2]) THEN "asleep" ELSE "acquire"])
  /\ UNCHANGED <<fdt, fds, tab, sock, inbox, bound, node, chans>>
Interrupt(t) ==
  /\ May("signal") /\ At(t, "asleep") /\ Return(t)
  /\ UNCHANGED <<fdt, fds, tab, sock, inbox, bound, node, chans>>
(* The copy to user space: all of it, nothing, or a part of it.                          *)
finish(t) ==
  LET i == inbox[ut[t].s2] IN
  /\ At(t, "lease")
  /\ \E how \in {"complete", "nothing", "part"} :
       /\ how # "complete" => May("fault")
       /\ inbox' = [inbox EXCEPT ![ut[t].s2] =
            [i EXCEPT !.res = 0, !.q = IF how = "nothing" THEN <<i.res>> \o @ ELSE @,
                      !.gone = IF how = "nothing" THEN @ ELSE Append(@, i.res)]]
  /\ Goto(t, [ut[t] EXCEPT !.pc = "wake"])
  /\ UNCHANGED <<fdt, fds, tab, sock, bound, node, chans>>
UxNext ==
  \E t \in UTask :
    \/ sys_socket(t) \/ Register(t) \/ sys_socketpair(t) \/ PairFault(t) \/ sys_close(t) \/ Unregister(t) \/ OpenFile(t)
    \/ sys_dup3(t) \/ duplicate_registration(t) \/ fork(t) \/ clone_thread(t) \/ copy_fds_from_parent(t)
    \/ Exit(t) \/ drop_task(t) \/ cleanup_removed_socket(t) \/ UnbindName(t)
    \/ bind(t) \/ BindName(t) \/ Unlink(t) \/ listen(t) \/ connect_stream(t) \/ connect_dgram(t) \/ accept(t)
    \/ accept_queue_pop(t) \/ set_nonblocking(t)
    \/ sendto(t) \/ push(t) \/ WakeReaders(t) \/ recvfrom(t) \/ acquire(t) \/ wait_current_while(t) \/ Interrupt(t)
    \/ finish(t)
UxSpec == UxInit /\ [][UxNext]_uxVars

-----------------------------------------------------------------------------
(* Type correctness.                                                         *)
UxTypeOK ==
  /\ fdt \in [UTask \X Fd -> Sock \cup {0}]
  /\ fds \in [UTask -> [Fd -> Sock \cup {0, File}]] /\ tab \in [UTask -> UTask \cup {0}]
  /\ \A s \in Sock : inbox[s].res \in 0 .. MaxPacket /\ sock[s].key \in Name \cup {"none"}
  /\ \A k \in Name : bound[k].owner \in Sock \cup {0} /\ Len(bound[k].q) <= QueueMax
  /\ node \subseteq PathName

(* Every socket call goes through FD_TABLE: what it holds for a task and a           *)
(* descriptor is the socket of that descriptor, but for a call that is about to     *)
(* register or unregister it.                                                   *)
RegistrationsAgree ==
  \A t \in UTask, d \in Fd :
    \/ tab[t] # 0 /\ LET s == fds[tab[t]][d] IN fdt[<<t, d>>] = IF s = File THEN 0 ELSE s
    \/ tab[t] = 0 /\ (fdt[<<t, d>>] = 0 \/ At(t, "drop_task") \/ ut[t].then = "drop_task")
    \/ ut[t].pc \in {"register", "unregister", "dup", "cleanup", "unbind", "born"}

(* A name in BOUND leads to the socket that is bound to it, and that socket is         *)
(* registered or about to give the name up: a name is neither lost nor left behind.  *)
NamesOwned ==
  /\ \A k \in Name : bound[k].used =>
       /\ sock[bound[k].owner].key = k
       /\ \/ still_referenced(fdt, bound[k].owner)
          \/ \E t \in UTask : ut[t].pc \in {"cleanup", "unbind"} /\ ut[t].s = bound[k].owner
  /\ \A s \in Sock : (still_referenced(fdt, s) /\ sock[s].key # "none") => bound[sock[s].key].owner = s

(* No connection is in two places: an end of a channel is queued once or belongs to    *)
(* one socket.                                                                  *)
EndsDistinct ==
  /\ \A s, r \in Sock : (s # r /\ Held(s) /\ Held(r) /\ sock[s].end[1] # 0) => sock[s].end # sock[r].end
  /\ \A k \in Name : /\ IsInjective(bound[k].q)
                     /\ \A s \in Sock : Held(s) => sock[s].end \notin Range(bound[k].q)

(* The datagrams of an inbox are delivered in the order in which they were accepted,    *)
(* none twice and none lost but for those a failed copy consumed; a failed copy puts  *)
(* its datagram back in front, within the limit.                                   *)
DatagramsInOrder ==
  \A s \in Sock :
    LET i == inbox[s] IN
    /\ i.gone \o (IF i.res # 0 THEN <<i.res>> ELSE <<>>) \o i.q = [n \in 1 .. i.sent |-> n]
    /\ Len(i.q) + (IF i.res # 0 THEN 1 ELSE 0) <= InboxMax

(* A reader asleep on an inbox has nothing to read there, or a wake is on its way; and   *)
(* it is not left asleep on an inbox that is closed.                                *)
NoReaderForgotten ==
  \A t \in UTask : At(t, "asleep") =>
    \/ Blocked(inbox[ut[t].s2])
    \/ \E x \in UTask : At(x, "wake") /\ ut[x].s2 = ut[t].s2
=============================================================================
