-------------------------------- MODULE Pty --------------------------------
(***************************************************************************)
(* UNIX98 pseudo terminals: the registry of pairs and sessions, the line       *)
(* discipline between master and slave, reads that reserve bytes while they    *)
(* are copied to the user, hang-up, and the events that control characters      *)
(* leave for the system call layer.                                           *)
(*                                                                         *)
(* A plain byte is a positive number, new for each byte, so that loss,         *)
(* repetition and reordering show. One step is one critical section of the     *)
(* registry or of a terminal, with the wakes that follow it: whoever sleeps    *)
(* checks its condition again under the scheduler's lock.                     *)
(***************************************************************************)
EXTENDS Integers, Sequences, FiniteSets, SequencesExt

CONSTANTS
  PtThread,   \* threads; each may be the leader of a session of its own
  Desc,       \* open file descriptions
  Term,       \* identities of terminals (TerminalId), never used twice
  MAX_PTYS,   \* pty numbers are 0 .. MAX_PTYS - 1
  QUEUE_CAPACITY,
  MaxByte,    \* how many plain bytes are written in a behaviour
  MaxLen,     \* longest read and longest write
  Controls,   \* keys other than plain bytes that the master may send
  Modes,      \* settings a TCSETS may choose
  PtOps       \* operations of this instance; without "race" no pair is allocated while another is
              \* being dropped and no input is flushed under a reservation, both of which the code allows

VARIABLES
  term,       \* SharedTerminal and its PtyState
  pairs,      \* PtyRegistry.pairs: number -> terminal (weak)
  sessions,   \* PtyRegistry.sessions: session -> terminal
  desc,       \* open descriptions: terminal, end, whether a descriptor refers to it
  tt,         \* what each thread is doing
  made,       \* terminals created and bytes written so far
  due         \* history: bytes accepted and not yet delivered, per direction

ptVars == <<term, pairs, sessions, desc, tt, made, due>>
-----------------------------------------------------------------------------
(* Keys and output marks that are not plain bytes.                           *)
Newline == 0
Erase == -1
Kill == -2
Eof == -3
Intr == -4
Return == -5       \* the '\r' that ONLCR adds
Echo == -6         \* a byte the line discipline itself prints

KeyOf == [newline |-> Newline, erase |-> Erase, kill |-> Kill, eof |-> Eof, intr |-> Intr]
None == 0
Numbers == 0 .. MAX_PTYS - 1
(* Settings of a terminal: TtyTermios reduced to ICANON, VMIN, VTIME and ECHO. *)
Mode == [canon |-> [canon |-> TRUE, vmin |-> 1, vtime |-> 0, echo |-> FALSE],
         loud  |-> [canon |-> TRUE, vmin |-> 1, vtime |-> 0, echo |-> TRUE],
         raw   |-> [canon |-> FALSE, vmin |-> 1, vtime |-> 0, echo |-> FALSE],
         pair  |-> [canon |-> FALSE, vmin |-> 2, vtime |-> 0, echo |-> FALSE],
         timed |-> [canon |-> FALSE, vmin |-> 0, vtime |-> 1, echo |-> FALSE]]

PtyState(number) ==
  [number |-> number, locked |-> TRUE, mode |-> "canon", fg |-> 0, sid |-> 0,
   rd |-> <<>>, ed |-> <<>>, eof |-> FALSE, out |-> <<>>, reading |-> {},
   opens |-> [master |-> 1, slave |-> 0], hup |-> [master |-> FALSE, slave |-> FALSE], events |-> <<>>]
Idle == [pc |-> "idle", d |-> None, k |-> None, len |-> 0, data |-> <<>>, timed |-> FALSE, empty |-> FALSE,
         id |-> None, fd |-> None, then |-> "idle"]

Canonical(s) == Mode[s.mode].canon
QueueOf(s, e) == IF e = "master" THEN s.out ELSE s.rd
WithQueue(s, e, q) == IF e = "master" THEN [s EXCEPT !.out = q] ELSE [s EXCEPT !.rd = q]
Other(e) == IF e = "master" THEN "slave" ELSE "master"

slave_readable_for(s, n) ==
  \/ s.eof \/ s.hup.master
  \/ IF Canonical(s) THEN s.rd # <<>>
     ELSE LET minimum == IF Mode[s.mode].vmin < n THEN Mode[s.mode].vmin ELSE n IN
          IF minimum = 0 THEN s.rd # <<>> \/ Mode[s.mode].vtime = 0
          ELSE Len(s.rd) >= minimum
master_readable_now(s) == s.out # <<>> \/ s.hup.slave
Readable(s, e, n) == IF e = "master" THEN master_readable_now(s) ELSE slave_readable_for(s, n)
poll_writable(s, e) ==
  IF e = "master" THEN ~s.hup.slave /\ Len(s.rd) + Len(s.ed) < QUEUE_CAPACITY
  ELSE ~s.hup.master /\ s.opens.master # 0 /\ Len(s.out) < QUEUE_CAPACITY

-----------------------------------------------------------------------------
(* The line discipline.                                                      *)
push_master_bytes(s, bytes) ==
  LET room == QUEUE_CAPACITY - Len(s.out) IN
  [s EXCEPT !.out = @ \o SubSeq(bytes, 1, IF room < Len(bytes) THEN room ELSE Len(bytes))]
EchoIf(s, n) == IF Mode[s.mode].echo THEN push_master_bytes(s, [i \in 1 .. n |-> Echo]) ELSE s
emit_signal(s, sig) == IF s.fg # 0 THEN [s EXCEPT !.events = Append(@, <<s.fg, sig>>)] ELSE s
feed_canonical(s, b) ==
  CASE b = Erase -> IF s.ed = <<>> THEN s ELSE EchoIf([s EXCEPT !.ed = Front(@)], 3)
    [] b = Kill -> EchoIf([s EXCEPT !.ed = <<>>], 4)
    [] b = Eof -> IF s.ed = <<>> THEN [s EXCEPT !.eof = TRUE]
                  ELSE [s EXCEPT !.rd = @ \o s.ed, !.ed = <<>>]
    [] b = Newline ->
         LET line == s.rd \o s.ed IN
         EchoIf([s EXCEPT !.rd = IF Len(line) < QUEUE_CAPACITY THEN Append(line, Newline) ELSE line,
                          !.ed = <<>>], 2)
    [] OTHER -> IF Len(s.ed) + Len(s.rd) < QUEUE_CAPACITY THEN EchoIf([s EXCEPT !.ed = Append(@, b)], 1) ELSE s
feed_master_byte(s, b) ==
  IF b = Intr THEN emit_signal(EchoIf([s EXCEPT !.ed = <<>>], 4), "int")
  ELSE IF Canonical(s) THEN feed_canonical(s, b)
  ELSE IF Len(s.rd) < QUEUE_CAPACITY THEN EchoIf([s EXCEPT !.rd = Append(@, b)], 1) ELSE s
(* What a slave's write puts on the master's queue, byte by byte until the     *)
(* next one does not fit; the result counts the bytes it took.                 *)
Expanded(b) == IF b = Newline THEN <<Return, Newline>> ELSE <<b>>
write_slave(s, input) ==
  FoldLeft(LAMBDA r, b : IF ~r.full /\ Len(r.out) + Len(Expanded(b)) <= QUEUE_CAPACITY
                         THEN [r EXCEPT !.out = @ \o Expanded(b), !.n = @ + 1]
                         ELSE [r EXCEPT !.full = TRUE],
           [out |-> s.out, n |-> 0, full |-> FALSE], input)

-----------------------------------------------------------------------------
(* References: an open description lives while a descriptor or a call refers   *)
(* to it (EndpointLease), a terminal while a description or a look-up does.    *)
InUse(ds, ps, d) == ds[d].fd \/ \E t \in PtThread : ps[t].d = d
Strong(ds, ps, k) == \/ \E d \in Desc : ds[d].term = k /\ InUse(ds, ps, d)
                     \/ \E t \in PtThread : ps[t].k = k
Live(k) == Strong(desc, tt, k)
Registered == {n \in Numbers : pairs[n] # None}
ById(k) == k \in Term /\ Live(k) /\ \E n \in Registered : pairs[n] = k
Go(t, pc) == tt' = [tt EXCEPT ![t].pc = pc]
At(t, pc) == tt[t].pc = pc
TermOf(t) == desc[tt[t].d].term
EndOf(t) == desc[tt[t].d].end
On(ps, x, k) == ps[x].d # None /\ desc[ps[x].d].term = k

(* wake_all of a wait queue of terminal k: kind "rsleep" at an end waits for   *)
(* data, "wsleep" for space.                                                  *)
Woken(ps, k, kinds) ==
  [x \in PtThread |->
     IF On(ps, x, k) /\ <<ps[x].pc, desc[ps[x].d].end>> \in kinds
     THEN [ps[x] EXCEPT !.pc = IF @ = "rsleep" THEN "prepare" ELSE "write"] ELSE ps[x]]
SpaceQueues == {"wsleep"} \X {"master", "slave"}
ReadQueue(e) == {<<"rsleep", e>>}

Unused == {d \in Desc : ~InUse(desc, tt, d) /\ desc[d].term = None}
FreeDesc == [term |-> None, end |-> "none", fd |-> FALSE]
NewDesc(k, e) == [term |-> k, end |-> e, fd |-> TRUE]
-----------------------------------------------------------------------------
(* Opens.                                                                    *)
allocate_pty(t) ==
  /\ At(t, "idle") /\ "alloc" \in PtOps /\ made.terms < Cardinality(Term)
  /\ "race" \in PtOps \/ \A x \in PtThread : tt[x].pc # "drop"
  /\ LET kept == [n \in Numbers |-> IF pairs[n] # None /\ Live(pairs[n]) THEN pairs[n] ELSE None]
         k == made.terms + 1 IN
     \E n \in Numbers, d \in Unused :
       /\ kept[n] = None /\ \A m \in 0 .. n - 1 : kept[m] # None
       /\ pairs' = [kept EXCEPT ![n] = k]
       /\ term' = [term EXCEPT ![k] = PtyState(n)]
       /\ desc' = [desc EXCEPT ![d] = NewDesc(k, "master")]
       /\ made' = [made EXCEPT !.terms = k]
  /\ UNCHANGED <<sessions, tt, due>>
(* The look-up of open_pty_slave and of terminal_by_id: the registry's lock     *)
(* is dropped before the terminal's is taken.                                 *)
LookUp(t, k, then) ==
  /\ ById(k)
  /\ tt' = [tt EXCEPT ![t] = [Idle EXCEPT !.pc = then, !.k = k]]
  /\ UNCHANGED <<term, pairs, sessions, desc, made, due>>
open_pts(t) == At(t, "idle") /\ "open" \in PtOps /\ \E n \in Registered : LookUp(t, pairs[n], "open")
terminal_for_session(t) == At(t, "idle") /\ "ctty" \in PtOps /\ t \in DOMAIN sessions /\ LookUp(t, sessions[t], "opentty")
(* Both end with a description of the slave; a locked slave is refused.        *)
open_pty_slave(t) ==
  LET k == tt[t].k IN
  /\ At(t, "open")
  /\ IF term[k].locked THEN Go(t, "letgo") /\ UNCHANGED <<term, desc>>
     ELSE \E d \in Unused :
          /\ term' = [term EXCEPT ![k].opens.slave = @ + 1, ![k].hup.slave = FALSE]
          /\ desc' = [desc EXCEPT ![d] = NewDesc(k, "slave")]
          /\ tt' = [tt EXCEPT ![t] = [Idle EXCEPT !.pc = "opened", !.d = d]]
  /\ UNCHANGED <<pairs, sessions, made, due>>
terminal_by_id(t) ==
  LET k == tt[t].k IN
  /\ At(t, "opentty")
  /\ \E d \in Unused :
       /\ term' = [term EXCEPT ![k].opens.slave = @ + 1]
       /\ desc' = [desc EXCEPT ![d] = NewDesc(k, "slave")]
  /\ tt' = [tt EXCEPT ![t] = Idle]
  /\ UNCHANGED <<pairs, sessions, made, due>>
-----------------------------------------------------------------------------
(* Sessions.                                                                 *)
attach_session(k, sid) ==
  IF (sid \in DOMAIN sessions /\ sessions[sid] # k) \/ term[k].sid \notin {0, sid}
  THEN UNCHANGED <<term, sessions>>
  ELSE /\ term' = [term EXCEPT ![k].sid = sid, ![k].fg = sid]
       /\ sessions' = [x \in DOMAIN sessions \cup {sid} |-> IF x = sid THEN k ELSE sessions[x]]
(* The open of a slave by a session leader makes it the controlling terminal.   *)
openat_attach(t) ==
  /\ At(t, "opened") /\ Go(t, "put")
  /\ IF "attach" \in PtOps /\ term[TermOf(t)].sid = 0 THEN attach_session(TermOf(t), t) ELSE UNCHANGED <<term, sessions>>
  /\ UNCHANGED <<pairs, desc, made, due>>
HasFd(d) == desc[d].fd
TIOCSCTTY(t) ==
  /\ At(t, "idle") /\ "attach" \in PtOps
  /\ \E d \in Desc : HasFd(d) /\ desc[d].end = "slave" /\ attach_session(desc[d].term, t)
  /\ UNCHANGED <<pairs, desc, tt, made, due>>
Without(sid) == [x \in DOMAIN sessions \ {sid} |-> sessions[x]]
detach_session(t) ==
  /\ At(t, "idle") /\ "detach" \in PtOps
  /\ \E d \in Desc : /\ HasFd(d) /\ term[desc[d].term].sid = t
                     /\ term' = [term EXCEPT ![desc[d].term].sid = 0, ![desc[d].term].fg = 0]
  /\ sessions' = Without(t)
  /\ UNCHANGED <<pairs, desc, tt, made, due>>
(* The exit of a session leader: the session is forgotten under the registry's *)
(* lock, the terminal's side under its own. The thread does nothing after it.   *)
detach_session_by_sid(t) ==
  /\ At(t, "idle") /\ "leader" \in PtOps
  /\ sessions' = Without(t)
  /\ IF t \in DOMAIN sessions /\ ById(sessions[t])
     THEN tt' = [tt EXCEPT ![t] = [Idle EXCEPT !.pc = "detach", !.k = sessions[t]]]
     ELSE Go(t, "exited")
  /\ UNCHANGED <<term, pairs, desc, made, due>>
detach_terminal(t) ==
  /\ At(t, "detach")
  /\ term' = IF term[tt[t].k].sid = t THEN [term EXCEPT ![tt[t].k].sid = 0, ![tt[t].k].fg = 0] ELSE term
  /\ tt' = [tt EXCEPT ![t].pc = "letgo", ![t].then = "exited"]
  /\ UNCHANGED <<pairs, sessions, desc, made, due>>
-----------------------------------------------------------------------------
(* Releases. The last reference to a description closes its end, the last one   *)
(* to the terminal removes it from the registry, in a critical section of its  *)
(* own.                                                                      *)
EndpointLease_drop(s, e) ==
  LET left == IF s.opens[e] = 0 THEN 0 ELSE s.opens[e] - 1
      s1 == [s EXCEPT !.opens[e] = left, !.hup[e] = @ \/ left = 0] IN
  IF e = "master" /\ left = 0 THEN emit_signal(emit_signal(s1, "hup"), "cont") ELSE s1
Onward(t, pc) == IF pc \in {"idle", "exited"} THEN [Idle EXCEPT !.pc = pc] ELSE [Idle EXCEPT !.pc = pc, !.id = tt[t].id, !.fd = tt[t].fd]
Released(t, ds, ps, k) ==
  [ps EXCEPT ![t] = IF Strong(ds, ps, k) THEN Onward(t, tt[t].then)
                    ELSE [Idle EXCEPT !.pc = "drop", !.then = tt[t].then, !.id = k, !.fd = tt[t].fd]]
put(t) ==
  LET d == tt[t].d
      k == desc[d].term
      ps == [tt EXCEPT ![t].d = None, ![t].k = None]
      ds == [desc EXCEPT ![d] = FreeDesc] IN
  /\ At(t, "put")
  /\ IF InUse(desc, ps, d) THEN tt' = Released(t, desc, ps, k) /\ UNCHANGED <<term, desc>>
     ELSE LET s == EndpointLease_drop(term[k], desc[d].end) IN
          /\ term' = [term EXCEPT ![k] = s]
          /\ desc' = ds
          /\ tt' = Released(t, ds, Woken(ps, k, SpaceQueues \cup (IF s.hup.slave THEN ReadQueue("master") ELSE {})
                                                           \cup (IF s.hup.master THEN ReadQueue("slave") ELSE {})), k)
  /\ UNCHANGED <<pairs, sessions, made, due>>
letgo(t) ==
  /\ At(t, "letgo")
  /\ tt' = Released(t, desc, [tt EXCEPT ![t].k = None], tt[t].k)
  /\ UNCHANGED <<term, pairs, sessions, desc, made, due>>
SharedTerminal_drop(t) ==
  LET k == tt[t].id IN
  /\ At(t, "drop")
  /\ pairs' = [pairs EXCEPT ![term[k].number] = None]
  /\ sessions' = [x \in {y \in DOMAIN sessions : sessions[y] # k} |-> sessions[x]]
  /\ tt' = [tt EXCEPT ![t] = Onward(t, tt[t].then)]
  /\ UNCHANGED <<term, desc, made, due>>
sys_close(t) ==
  /\ At(t, "idle") /\ "close" \in PtOps
  /\ \E d \in Desc :
       /\ HasFd(d) /\ ("share" \in PtOps \/ \A x \in PtThread : tt[x].d # d)
       /\ desc' = [desc EXCEPT ![d].fd = FALSE]
       /\ tt' = [tt EXCEPT ![t] = [Idle EXCEPT !.pc = "put", !.d = d, !.id = desc[d].term, !.then = "dispatch"]]
  /\ UNCHANGED <<term, pairs, sessions, made, due>>
(* dispatch_terminal_events after a close, by the identity of the terminal,     *)
(* and dispatch_pty_control_events after a write, through the descriptor.      *)
take_control_events(t) ==
  LET k == IF At(t, "dispatch") THEN tt[t].id ELSE IF HasFd(tt[t].fd) THEN desc[tt[t].fd].term ELSE None IN
  /\ tt[t].pc \in {"dispatch", "written"}
  /\ term' = IF ById(k) THEN [term EXCEPT ![k].events = <<>>] ELSE term
  /\ tt' = [tt EXCEPT ![t] = Idle]
  /\ UNCHANGED <<pairs, sessions, desc, made, due>>
-----------------------------------------------------------------------------
(* Reads.                                                                    *)
read(t) ==
  /\ At(t, "idle")
  /\ \E d \in Desc, n \in 1 .. MaxLen :
       /\ HasFd(d) /\ desc[d].end \in PtOps
       /\ "crowd" \in PtOps \/ \A x \in PtThread : tt[x].d = d => tt[x].len = 0
       /\ tt' = [tt EXCEPT ![t] = [Idle EXCEPT !.pc = "prepare", !.d = d, !.len = n]]
  /\ UNCHANGED <<term, pairs, sessions, desc, made, due>>
(* A reservation moves bytes out of the queue; one at a time for each end.     *)
Reserve(t, s, e) ==
  LET q == QueueOf(s, e)
      n == IF tt[t].len < Len(q) THEN tt[t].len ELSE Len(q) IN
  /\ term' = [term EXCEPT ![TermOf(t)] = [WithQueue(s, e, SubSeq(q, n + 1, Len(q))) EXCEPT !.reading = @ \cup {e}]]
  /\ tt' = [tt EXCEPT ![t].pc = "copy", ![t].data = SubSeq(q, 1, n)]
prepare_read(t) ==
  /\ At(t, "prepare")
  /\ LET s == term[TermOf(t)]
         e == EndOf(t)
         pending == e \in s.reading \/ ~Readable(s, e, tt[t].len)
         ended == QueueOf(s, e) = <<>> /\ (s.hup[Other(e)] \/ (e = "slave" /\ s.eof)) IN
     \/ pending /\ tt' = [tt EXCEPT ![t].pc = "settings"] /\ UNCHANGED term
     \/ pending /\ "nonblock" \in PtOps /\ Go(t, "put") /\ UNCHANGED term
     \/ ~pending /\ ended /\ Go(t, "put")
        /\ term' = IF e = "slave" THEN [term EXCEPT ![TermOf(t)].eof = FALSE] ELSE term
     \/ ~pending /\ ~ended /\ Reserve(t, s, e)
  /\ UNCHANGED <<pairs, sessions, desc, made, due>>
(* read_settings and readable_len, before the wait.                           *)
read_settings(t) ==
  /\ At(t, "settings")
  /\ LET s == term[TermOf(t)] IN
     tt' = [tt EXCEPT ![t].pc = "wait", ![t].timed = EndOf(t) = "slave" /\ ~Canonical(s) /\ Mode[s.mode].vtime # 0,
                      ![t].empty = Mode[s.mode].vmin = 0 /\ QueueOf(s, EndOf(t)) = <<>>]
  /\ UNCHANGED <<term, pairs, sessions, desc, made, due>>
wait_readable(t) ==
  /\ At(t, "wait")
  /\ Go(t, IF Readable(term[TermOf(t)], EndOf(t), tt[t].len) THEN "prepare" ELSE "rsleep")
  /\ UNCHANGED <<term, pairs, sessions, desc, made, due>>
ReadTimesOut(t) ==
  /\ At(t, "rsleep") /\ tt[t].timed
  /\ Go(t, IF tt[t].empty THEN "put" ELSE "partial")
  /\ UNCHANGED <<term, pairs, sessions, desc, made, due>>
prepare_partial(t) ==
  LET s == term[TermOf(t)]
      e == EndOf(t) IN
  /\ At(t, "partial")
  /\ IF e \in s.reading \/ QueueOf(s, e) = <<>> THEN Go(t, "prepare") /\ UNCHANGED term
     ELSE Reserve(t, s, e)
  /\ UNCHANGED <<pairs, sessions, desc, made, due>>
Interrupted(t) ==
  /\ tt[t].pc \in {"rsleep", "wsleep"} /\ "signal" \in PtOps
  /\ Go(t, "put")
  /\ UNCHANGED <<term, pairs, sessions, desc, made, due>>
IsData(b) == b # Echo
(* What the copy has left is pushed back in front of the queue, last byte first. *)
PutBack_forwards(data, c, q) == Reverse(SubSeq(data, c + 1, Len(data))) \o q
PutBack(data, c, q) == SubSeq(data, c + 1, Len(data)) \o q
finish(t) ==
  /\ At(t, "copy")
  /\ \E c \in 0 .. Len(tt[t].data) :
       LET k == TermOf(t)
           e == EndOf(t)
           s == term[k] IN
       /\ c = Len(tt[t].data) \/ "fault" \in PtOps
       /\ term' = [term EXCEPT ![k] = [WithQueue(s, e, PutBack(tt[t].data, c, QueueOf(s, e)))
                                         EXCEPT !.reading = @ \ {e}]]
       /\ tt' = Woken([tt EXCEPT ![t].pc = "put", ![t].data = <<>>], k, SpaceQueues)
       /\ due' = [due EXCEPT ![k].got[e] = @ + Len(SelectSeq(SubSeq(tt[t].data, 1, c), IsData))]
  /\ UNCHANGED <<pairs, sessions, desc, made>>
-----------------------------------------------------------------------------
(* Writes. A write takes as many bytes as there is room for, and waits only     *)
(* when there is none.                                                        *)
Fresh(n) == [i \in 1 .. n |-> made.bytes + i]
Inputs ==
  {Fresh(n) : n \in 1 .. MaxLen} \cup {<<KeyOf[c]>> : c \in Controls}
  \cup {Append(Fresh(n), KeyOf[c]) : n \in 1 .. MaxLen - 1, c \in Controls}
write(t) ==
  /\ At(t, "idle")
  /\ \E d \in Desc, input \in Inputs :
       /\ HasFd(d) /\ Other(desc[d].end) \in PtOps
       /\ desc[d].end = "slave" => \A i \in 1 .. Len(input) : input[i] >= 0
       /\ made.bytes + Len(input) <= MaxByte
       /\ made' = [made EXCEPT !.bytes = @ + Len(input)]
       /\ tt' = [tt EXCEPT ![t] = [Idle EXCEPT !.pc = "write", !.d = d, !.fd = d, !.data = input, !.then = "written"]]
  /\ UNCHANGED <<term, pairs, sessions, desc, due>>
Done(t, ps, then) == [ps EXCEPT ![t].pc = "put", ![t].data = <<>>, ![t].then = then]
Key(b, s) == [b |-> b, raw |-> ~Canonical(s) /\ b # Intr]
write_master(t, k, s) ==
  LET room == QUEUE_CAPACITY - (Len(s.rd) + Len(s.ed))
      taken == SubSeq(tt[t].data, 1, IF room < Len(tt[t].data) THEN room ELSE Len(tt[t].data)) IN
  /\ term' = [term EXCEPT ![k] = FoldLeft(feed_master_byte, s, taken)]
  /\ tt' = Woken(Done(t, tt, "written"), k, ReadQueue("master") \cup ReadQueue("slave"))
  /\ due' = [due EXCEPT ![k].keys = @ \o [i \in 1 .. Len(taken) |-> Key(taken[i], s)]]
try_write(t) ==
  /\ At(t, "write")
  /\ LET k == TermOf(t)
         s == term[k]
         e == EndOf(t)
         dead == s.hup.slave \/ (e = "slave" /\ s.opens.master = 0)
         w == write_slave(s, tt[t].data)
         full == IF e = "master" THEN Len(s.rd) + Len(s.ed) >= QUEUE_CAPACITY ELSE w.n = 0 IN
     \/ dead /\ tt' = Done(t, tt, "idle") /\ UNCHANGED <<term, due>>
     \/ ~dead /\ full /\ Go(t, "wwait") /\ UNCHANGED <<term, due>>
     \/ ~dead /\ full /\ "nonblock" \in PtOps /\ tt' = Done(t, tt, "idle") /\ UNCHANGED <<term, due>>
     \/ ~dead /\ ~full /\ e = "master" /\ write_master(t, k, s)
     \/ /\ ~dead /\ ~full /\ e = "slave"
        /\ term' = [term EXCEPT ![k].out = w.out]
        /\ tt' = Woken(Done(t, tt, "written"), k, ReadQueue("master"))
        /\ due' = [due EXCEPT ![k].sent = @ \o SubSeq(w.out, Len(s.out) + 1, Len(w.out))]
  /\ UNCHANGED <<pairs, sessions, desc, made>>
wait_writable(t) ==
  /\ At(t, "wwait")
  /\ Go(t, IF poll_writable(term[TermOf(t)], EndOf(t)) THEN "write" ELSE "wsleep")
  /\ UNCHANGED <<term, pairs, sessions, desc, made, due>>
-----------------------------------------------------------------------------
(* ioctl: TCSETS and TCSETSF, TIOCSPTLCK, TIOCSPGRP.                           *)
set_termios(t) ==
  /\ At(t, "idle")
  /\ \E d \in Desc, m \in Modes, flush \in BOOLEAN :
       LET k == desc[d].term
           s == term[k] IN
       /\ HasFd(d) /\ (flush \/ m # s.mode)
       /\ flush => "flush" \in PtOps /\ ("race" \in PtOps \/ "slave" \notin s.reading)
       /\ term' = [term EXCEPT ![k] =
            IF flush THEN [s EXCEPT !.rd = <<>>, !.ed = <<>>, !.eof = FALSE, !.mode = m]
            ELSE IF Canonical(s) /\ ~Mode[m].canon THEN [s EXCEPT !.rd = @ \o s.ed, !.ed = <<>>, !.mode = m]
            ELSE [s EXCEPT !.mode = m]]
       /\ tt' = Woken(tt, k, ReadQueue("slave"))
       /\ due' = IF flush THEN [due EXCEPT ![k].keys = <<>>, ![k].got.slave = 0]
                 ELSE IF Canonical(s) /\ ~Mode[m].canon /\ s.ed # <<>>
                 THEN [due EXCEPT ![k].keys = Append(@, [b |-> Eof, raw |-> FALSE])] ELSE due
  /\ UNCHANGED <<pairs, sessions, desc, made>>
set_locked(t) ==
  /\ At(t, "idle") /\ "lock" \in PtOps
  /\ \E d \in Desc, v \in BOOLEAN :
       HasFd(d) /\ desc[d].end = "master" /\ term' = [term EXCEPT ![desc[d].term].locked = v]
  /\ UNCHANGED <<pairs, sessions, desc, tt, made, due>>
set_foreground_pgid(t) ==
  /\ At(t, "idle") /\ "pgrp" \in PtOps
  /\ \E d \in Desc : HasFd(d) /\ term' = [term EXCEPT ![desc[d].term].fg = t]
  /\ UNCHANGED <<pairs, sessions, desc, tt, made, due>>
-----------------------------------------------------------------------------
(* A pair that has been opened at both ends, unless the instance allocates.    *)
PtInit ==
  /\ term = [k \in Term |-> IF k = 1 /\ "alloc" \notin PtOps
                            THEN [PtyState(0) EXCEPT !.locked = FALSE, !.opens.slave = 1] ELSE PtyState(0)]
  /\ pairs = [n \in Numbers |-> IF n = 0 /\ "alloc" \notin PtOps THEN 1 ELSE None]
  /\ sessions = <<>>
  /\ desc = [d \in Desc |-> IF "alloc" \in PtOps \/ d > 2 THEN FreeDesc ELSE NewDesc(1, IF d = 1 THEN "master" ELSE "slave")]
  /\ tt = [t \in PtThread |-> Idle]
  /\ made = [terms |-> IF "alloc" \in PtOps THEN 0 ELSE 1, bytes |-> 0]
  /\ due = [k \in Term |-> [keys |-> <<>>, sent |-> <<>>, got |-> [master |-> 0, slave |-> 0]]]
PtStep(t) ==
  \/ allocate_pty(t) \/ open_pts(t) \/ terminal_for_session(t) \/ open_pty_slave(t) \/ terminal_by_id(t)
  \/ openat_attach(t) \/ TIOCSCTTY(t) \/ detach_session(t) \/ detach_session_by_sid(t) \/ detach_terminal(t)
  \/ put(t) \/ letgo(t) \/ SharedTerminal_drop(t) \/ sys_close(t) \/ take_control_events(t)
  \/ read(t) \/ prepare_read(t) \/ read_settings(t) \/ wait_readable(t) \/ ReadTimesOut(t) \/ prepare_partial(t)
  \/ Interrupted(t) \/ finish(t)
  \/ write(t) \/ try_write(t) \/ wait_writable(t)
  \/ set_termios(t) \/ set_locked(t) \/ set_foreground_pgid(t)
PtNext == \E t \in PtThread : PtStep(t)
PtSpec == PtInit /\ [][PtNext]_ptVars
-----------------------------------------------------------------------------
PtTypeOK ==
  /\ \A k \in Term : /\ term[k].mode \in DOMAIN Mode /\ term[k].reading \subseteq {"master", "slave"}
                     /\ Len(term[k].rd) + Len(term[k].ed) <= QUEUE_CAPACITY + MaxLen
                     /\ Len(term[k].out) <= QUEUE_CAPACITY + MaxLen
  /\ \A n \in Numbers : pairs[n] \in Term \cup {None}
  /\ \A sid \in DOMAIN sessions : sid \in PtThread /\ sessions[sid] \in Term
  /\ \A d \in Desc : desc[d].term \in Term \cup {None} /\ desc[d].fd \in BOOLEAN
  /\ \A t \in PtThread : tt[t].d \in Desc \cup {None} /\ (tt[t].d # None => desc[tt[t].d].term # None)

(* What the slave reads, by definition: a byte typed in a line survives to the  *)
(* end of the line unless a later erase, kill or interrupt takes it back; a     *)
(* byte typed in raw mode counts at once.                                     *)
Commits(x) == ~x.raw /\ x.b \in {Newline, Eof}
Survives(h, i) ==
  \/ h[i].raw
  \/ /\ ~h[i].raw /\ h[i].b >= 0
     /\ h[i].b = Newline \/
        \E c \in i + 1 .. Len(h) :
          /\ Commits(h[c])
          /\ \A j \in i + 1 .. c - 1 : ~Commits(h[j]) /\ h[j].b \notin {Kill, Intr}
          /\ \A j \in i + 1 .. c - 1 : Cardinality({x \in i + 1 .. j : h[x].b = Erase}) <= Cardinality({x \in i + 1 .. j : h[x].b > 0})
Committed(h) == LET index == SelectSeq([i \in 1 .. Len(h) |-> i], LAMBDA i : Survives(h, i)) IN
                [i \in 1 .. Len(index) |-> h[index[i]].b]
Held(k, e) ==
  LET busy == {t \in PtThread : tt[t].pc = "copy" /\ TermOf(t) = k /\ EndOf(t) = e} IN
  IF busy = {} THEN <<>> ELSE tt[CHOOSE t \in busy : TRUE].data
Rest(q, n) == SubSeq(q, n + 1, Len(q))
(* pty.rs prepare_read, finish, feed_master_byte, write: every byte the line    *)
(* discipline commits reaches the slave's readers once and in order, and every *)
(* byte of the slave's output the master's, through partial and failed copies. *)
BytesExact ==
  \A k \in 1 .. made.terms :
    /\ Held(k, "slave") \o term[k].rd = Rest(Committed(due[k].keys), due[k].got.slave)
    /\ SelectSeq(Held(k, "master") \o term[k].out, IsData) = Rest(due[k].sent, due[k].got.master)
(* wait_readable, wait_writable: nobody sleeps for data that is there, for      *)
(* space that is there, or for an end that has hung up; a read that has taken *)
(* bytes wakes the writers when its copy has ended.                            *)
SleepersSound ==
  \A t \in PtThread :
    /\ tt[t].pc = "rsleep" => ~Readable(term[TermOf(t)], EndOf(t), tt[t].len)
    /\ tt[t].pc = "wsleep" => /\ \/ ~poll_writable(term[TermOf(t)], EndOf(t))
                                 \/ Other(EndOf(t)) \in term[TermOf(t)].reading
                              /\ ~term[TermOf(t)].hup[Other(EndOf(t))]
(* allocate_pty, SharedTerminal::drop: a terminal that is open is registered    *)
(* under its number, so that no two have the same one.                        *)
NumbersUnique == \A k \in 1 .. made.terms : Live(k) => pairs[term[k].number] = k
(* EndpointLease: the counts of open ends are those of the descriptions in use, *)
(* and an end has hung up exactly when its last description is gone.            *)
EndsCounted ==
  \A k \in 1 .. made.terms : Live(k) => \A e \in {"master", "slave"} :
    LET open == {d \in Desc : desc[d].term = k /\ desc[d].end = e} IN
    /\ term[k].opens[e] = Cardinality(open)
    /\ term[k].hup[e] => open = {}
(* attach_session, detach_session: a session and its terminal name each other.  *)
SessionsAgree ==
  /\ \A sid \in DOMAIN sessions : Live(sessions[sid]) => term[sessions[sid]].sid = sid
  /\ \A k \in 1 .. made.terms : Live(k) /\ term[k].sid # 0 =>
       \/ term[k].sid \in DOMAIN sessions /\ sessions[term[k].sid] = k
       \/ tt[term[k].sid].pc = "detach"
(* dispatch_terminal_events, dispatch_pty_control_events: an event of an open   *)
(* terminal never waits with nobody on the way to deliver it.                  *)
EventsTaken ==
  \A k \in 1 .. made.terms : Live(k) /\ term[k].events # <<>> =>
    \E t \in PtThread : \/ tt[t].then \in {"dispatch", "written"} /\ (On(tt, t, k) \/ tt[t].id = k)
                        \/ tt[t].pc = "dispatch" /\ tt[t].id = k
                        \/ tt[t].pc = "written" /\ desc[tt[t].fd].term = k
=============================================================================
