------------------------------ MODULE SysvMsg ------------------------------
(***************************************************************************)
(* SysV message queues (syscall-impl sys/ipc/sysv_msg.rs).  A receiver marks   *)
(* the message it selected, copies it to the user without the lock and then    *)
(* removes it; a failed copy takes the mark back.  Waiting is polling.         *)
(***************************************************************************)
EXTENDS Integers, Sequences, FiniteSets, FiniteSetsExt, SequencesExt

CONSTANTS GTask, QIds, Kind, Size, QBytes,   \* tasks, ids 1 .. QIds, message kinds and sizes, limits for IPC_SET
          MaxMsg,       \* sends
          Wants         \* what receivers ask for: records [want, except, cap, noerror]

VARIABLES queue,        \* queue[id]: [live, qbytes, bytes, msgs]
          g_next, g_key, next_sequence,
          gcall,        \* gcall[t]: the call in progress
          got, failed   \* messages received; receivers told EIDRM while the queue lives
gvars == <<queue, g_next, g_key, next_sequence, gcall, got, failed>>

QId == 1 .. QIds
NoQueue == [live |-> FALSE, qbytes |-> Max(QBytes), bytes |-> 0, msgs |-> <<>>]
GNone == [pc |-> "idle", id |-> 0, observed |-> FALSE, msg |-> <<>>, seq |-> 0]
GIn(t, l) == gcall[t].pc = l
GReturn(t) == gcall' = [gcall EXCEPT ![t] = GNone]
Begin(t, l, id, m) == gcall' = [gcall EXCEPT ![t] = [GNone EXCEPT !.pc = l, !.id = id, !.msg = m]]
Seen(t) == gcall' = [gcall EXCEPT ![t].observed = TRUE]

GInit ==
  /\ queue = [id \in QId |-> NoQueue] /\ g_next = 1 /\ g_key = 0 /\ next_sequence = 1
  /\ gcall = [t \in GTask |-> GNone] /\ got = {} /\ failed = FALSE

sys_msgget(t) ==
  /\ GIn(t, "idle") /\ g_key = 0 /\ g_next \in QId
  /\ queue' = [queue EXCEPT ![g_next] = [NoQueue EXCEPT !.live = TRUE]] /\ g_key' = g_next /\ g_next' = g_next + 1
  /\ UNCHANGED <<next_sequence, gcall, got, failed>>

(* A send that finds no room tries again after a tick.                         *)
sys_msgsnd(t, id, kind, size) ==
  /\ GIn(t, "idle") /\ Begin(t, "send", id, [kind |-> kind, size |-> size])
  /\ UNCHANGED <<queue, g_next, g_key, next_sequence, got, failed>>
send_try(t) ==
  LET id == gcall[t].id  m == gcall[t].msg IN
  /\ GIn(t, "send")
  /\ \/ (~queue[id].live \/ m.size > queue[id].qbytes) /\ GReturn(t) /\ UNCHANGED <<queue, next_sequence>>
     \/ /\ queue[id].live /\ m.size <= queue[id].qbytes /\ queue[id].bytes + m.size > queue[id].qbytes
        /\ (GReturn(t) \/ Seen(t))   \* IPC_NOWAIT or a signal, or another try
        /\ UNCHANGED <<queue, next_sequence>>
     \/ /\ queue[id].live /\ queue[id].bytes + m.size <= queue[id].qbytes /\ next_sequence <= MaxMsg
        /\ queue' = [queue EXCEPT ![id].bytes = @ + m.size,
                                  ![id].msgs = Append(@, [seq |-> next_sequence, kind |-> m.kind, size |-> m.size, by |-> 0])]
        /\ next_sequence' = next_sequence + 1 /\ GReturn(t)
  /\ UNCHANGED <<g_next, g_key, got, failed>>

-----------------------------------------------------------------------------
message_matches(kind, w) ==
  IF w.want = 0 THEN TRUE
  ELSE IF w.want > 0 THEN (kind = w.want) # w.except
  ELSE kind <= -w.want
(* The first that matches; for a negative request the first of the least kind. *)
candidates(msgs, w) == {i \in DOMAIN msgs : msgs[i].by = 0 /\ message_matches(msgs[i].kind, w)}
select_message(msgs, w) ==
  LET C == candidates(msgs, w)
      least == {i \in C : w.want >= 0 \/ \A j \in C : msgs[i].kind <= msgs[j].kind}
  IN IF C = {} THEN 0 ELSE Min(least)

sys_msgrcv(t, id, w) ==
  /\ GIn(t, "idle") /\ Begin(t, "recv", id, w)
  /\ UNCHANGED <<queue, g_next, g_key, next_sequence, got, failed>>
recv_try(t) ==
  LET id == gcall[t].id  w == gcall[t].msg  i == select_message(queue[id].msgs, w) IN
  /\ GIn(t, "recv")
  /\ \/ ~queue[id].live /\ GReturn(t) /\ UNCHANGED queue
     \/ queue[id].live /\ i = 0 /\ (GReturn(t) \/ Seen(t)) /\ UNCHANGED queue
     \/ /\ queue[id].live /\ i # 0
        /\ IF queue[id].msgs[i].size > w.cap /\ ~w.noerror THEN GReturn(t) /\ UNCHANGED queue
           ELSE /\ queue' = [queue EXCEPT ![id].msgs[i].by = t]
                /\ gcall' = [gcall EXCEPT ![t].pc = "copy", ![t].seq = queue[id].msgs[i].seq]
  /\ UNCHANGED <<g_next, g_key, next_sequence, got, failed>>
Marked(t) == LET q == queue[gcall[t].id].msgs IN {i \in DOMAIN q : q[i].seq = gcall[t].seq /\ q[i].by = t}
unreserve_message(t) ==
  /\ GIn(t, "copy") /\ GReturn(t)
  /\ queue' = [queue EXCEPT ![gcall[t].id].msgs =
                 [i \in DOMAIN @ |-> IF i \in Marked(t) THEN [@[i] EXCEPT !.by = 0] ELSE @[i]]]
  /\ UNCHANGED <<g_next, g_key, next_sequence, got, failed>>
recv_remove(t) ==
  LET id == gcall[t].id IN
  /\ GIn(t, "copy") /\ GReturn(t)
  /\ IF queue[id].live /\ Marked(t) # {}
     THEN LET i == Min(Marked(t)) IN
          /\ queue' = [queue EXCEPT ![id].bytes = Max({0, @ - queue[id].msgs[i].size}), ![id].msgs = RemoveAt(@, i)]
          /\ got' = got \cup {gcall[t].seq} /\ UNCHANGED failed
     ELSE UNCHANGED <<queue, got>> /\ failed' = (failed \/ queue[id].live)
  /\ UNCHANGED <<g_next, g_key, next_sequence>>

ctl_rmid(t, id) ==
  /\ GIn(t, "idle") /\ queue[id].live /\ queue' = [queue EXCEPT ![id] = NoQueue]
  /\ g_key' = (IF g_key = id THEN 0 ELSE g_key) /\ UNCHANGED <<g_next, next_sequence, gcall, got, failed>>
ctl_set(t, id, n) ==
  /\ GIn(t, "idle") /\ queue[id].live /\ queue' = [queue EXCEPT ![id].qbytes = n]
  /\ UNCHANGED <<g_next, g_key, next_sequence, gcall, got, failed>>

GNext ==
  \E t \in GTask :
    \/ sys_msgget(t) \/ send_try(t) \/ recv_try(t) \/ unreserve_message(t) \/ recv_remove(t)
    \/ \E id \in QId : \/ \E k \in Kind, n \in Size : sys_msgsnd(t, id, k, n)
                       \/ \E w \in Wants : sys_msgrcv(t, id, w)
                       \/ ctl_rmid(t, id) \/ \E n \in QBytes : ctl_set(t, id, n)
GSpec == GInit /\ [][GNext]_gvars

-----------------------------------------------------------------------------
GTypeOK == /\ next_sequence \in 1 .. MaxMsg + 1 /\ got \subseteq 1 .. MaxMsg
           /\ \A t \in GTask : gcall[t].pc \in {"idle", "send", "recv", "copy"}

(* A marked message stays its receiver's until it is removed or given back: a  *)
(* receiver that copied a message out is told EIDRM only if the queue is gone, *)
(* each mark belongs to a receiver still copying, and a queue's byte count is  *)
(* the size of what it holds, so that neither a failed copy nor a removal      *)
(* loses a message or room.                                                    *)
DeliveredOnce ==
  /\ ~failed
  /\ \A id \in QId : LET q == queue[id].msgs IN
       /\ queue[id].bytes = MapThenSumSet(LAMBDA i : q[i].size, DOMAIN q)
       /\ \A i \in DOMAIN q : /\ q[i].seq \notin got
                              /\ q[i].by # 0 => (GIn(q[i].by, "copy") /\ gcall[q[i].by].seq = q[i].seq)

(* Messages of one kind that nobody has marked are in the order they were sent, *)
(* also when a mark in the middle was given back.                              *)
SentOrder == \A id \in QId : \A i, j \in DOMAIN queue[id].msgs : i < j => queue[id].msgs[i].seq < queue[id].msgs[j].seq
=============================================================================
