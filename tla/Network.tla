------------------------------- MODULE Network -------------------------------
(***************************************************************************)
(* INET sockets: the kernel's wrapper of smoltcp (network-impl/impl-smoltcp),  *)
(* the shared socket objects of wateros-network and the socket system calls.   *)
(* The wrapper's state is one record, everything in it is done under the       *)
(* NETWORK_STACK lock.  smoltcp itself is external: its TCP is reduced to the   *)
(* states the wrapper asks for, over the loopback device; the bytes of a        *)
(* connection are numbered.                                                  *)
(***************************************************************************)
EXTENDS Integers, Sequences, FiniteSets, TLC, SequencesExt, FiniteSetsExt

CONSTANTS NTask, NObj, NHandle,   \* tasks, socket objects, slots of the SocketSet
          NPort, Ephemeral, Far,  \* ports; the first ephemeral one; one that never answers
          Binds, Dests,           \* ports the calls name
          MaxListen, MaxReserve,  \* bounds: listeners made, reservations of a socket
          Slots,                  \* TCP_LISTEN_BACKLOG_MAX
          Window, MaxBytes,       \* a TCP buffer; bytes sent on a connection
          QueueLimit,             \* UDP_LOOPBACK_QUEUE_PACKET_LIMIT
          ConnectTime, MaxClock,  \* TCP_CONNECT_TIMEOUT_MS; the last tick
          Setup,                  \* the sockets there are at the start: "none", "listening" or "connected"
          NOps                    \* "socket", "bind", "listen", "connect", "accept", "send", "recv", "udp", "full",
                                  \* "fault", "share", "shutdown", "close", "batch"; "stale", "rebind"

VARIABLES net,     \* NetworkStack: sockets, metas, groups, pending closes, loopback queues, counters
          obj,     \* SocketShared: the handle, and how many descriptors and calls refer to it
          call     \* what each task is doing
nvars == <<net, obj, call>>

Closed == [st |-> "closed", port |-> 0, rport |-> 0, peer |-> 0, tx |-> <<>>, rx |-> <<>>, sent |-> 0, out |-> <<>>,
           fin |-> FALSE, eof |-> FALSE]
NoUse == [h |-> 0, fds |-> 0]
Idle == [pc |-> "idle", o |-> 0]
NewMeta(kind) == [kind |-> kind, state |-> "created", port |-> 0, lis |-> FALSE, group |-> 0, peer |-> 0, est |-> FALSE,
                  err |-> "", deadline |-> -1, resv |-> 0, nres |-> 1]
Drop(f, X) == [x \in DOMAIN f \ X |-> f[x]]
FreeHandles(S) == NHandle \ DOMAIN S.sock
(* SocketSet::add takes the first free slot, so a handle is used again.        *)
add(S, k, m) == LET h == Min(FreeHandles(S)) IN [S EXCEPT !.sock = (h :> k) @@ @, !.meta = (h :> m) @@ @]
next_ephemeral_port(S) == [S EXCEPT !.port = IF @ + 1 \in NPort THEN @ + 1 ELSE Ephemeral]

tcp_listener_slot_count(backlog) == Min({Max({backlog, 1}) + 1, Slots})
tcp_is_connected(k) == k.st \in {"est", "finwait", "closewait"}
tcp_is_accept_ready(k) == k.st \in {"est", "closewait"}
may_recv(k) == k.st \in {"est", "finwait"} \/ k.rx # <<>>
may_send(k) == k.st \in {"est", "closewait"}
tcp_close(k) == [k EXCEPT !.st = CASE @ \in {"listen", "synsent"} -> "closed" [] @ = "est" -> "finwait"
                                   [] @ = "closewait" -> "lastack" [] OTHER -> @]

(***************************************************************************)
(* The wrapper's operations on the state, each under one lock.                *)
(***************************************************************************)
Result(S, r) == [s |-> S, r |-> r]
bind(S, h, p) ==
  LET q == IF p = 0 THEN S.port ELSE p
      T == IF p = 0 THEN next_ephemeral_port(S) ELSE S
  IN IF S.meta[h].kind = "udp" /\ S.sock[h].port # 0 THEN Result(T, "addrinuse")
     ELSE Result([T EXCEPT !.meta[h].state = "bound", !.meta[h].port = q,
                           !.sock[h].port = IF S.meta[h].kind = "udp" THEN q ELSE @], "ok")
ensure_udp_bound(S, h) == IF S.meta[h].state = "created" THEN bind(S, h, 0).s ELSE S
connect(S, h, p) ==
  LET m == S.meta[h]
      T == IF m.state = "created" THEN next_ephemeral_port(S) ELSE S
      q == IF m.state = "created" THEN S.port ELSE m.port
  IN IF m.kind = "udp"
     THEN LET U == ensure_udp_bound(S, h)
          IN Result([U EXCEPT !.meta[h].state = "connected", !.meta[h].est = TRUE, !.meta[h].peer = p], "ok")
     ELSE IF m.state \notin {"created", "bound"} \/ (m.state = "bound" /\ m.port = 0) THEN Result(S, "invalid")
     ELSE IF S.sock[h].st # "closed" THEN Result(T, "refused")
     ELSE Result([T EXCEPT !.sock[h] = [Closed EXCEPT !.st = "synsent", !.port = q, !.rport = p],
                           !.meta[h] = [m EXCEPT !.state = "connecting", !.port = q, !.est = FALSE, !.err = "",
                                                 !.deadline = S.clock + ConnectTime, !.peer = p]], "ok")
(* The listener's own socket and more of them, so that several connections can  *)
(* be established before one is accepted.                                     *)
new_tcp_listener_socket(p) == [Closed EXCEPT !.st = "listen", !.port = p]
SlotMeta(g, p) == [NewMeta("tcp") EXCEPT !.state = "listening", !.port = p, !.lis = TRUE, !.group = g]
register_tcp_listener_slot(S, g, p) ==
  LET h == Min(FreeHandles(S))
  IN [add(S, new_tcp_listener_socket(p), SlotMeta(g, p)) EXCEPT !.group[g] = Append(@, h)]
listen(S, h, backlog) ==
  LET m == S.meta[h]
      g == S.next
      n == tcp_listener_slot_count(backlog)
      T == [S EXCEPT !.next = @ + 1, !.sock[h] = new_tcp_listener_socket(m.port), !.group = (g :> <<h>>) @@ @,
                     !.meta[h] = [m EXCEPT !.state = "listening", !.lis = TRUE, !.group = g]]
  IN IF m.kind # "tcp" THEN Result(S, "type")
     ELSE IF m.state # "bound" THEN Result(S, "notbound")
     ELSE IF S.sock[h].st # "closed" /\ ~(S.sock[h].st = "listen" /\ S.sock[h].port = m.port) THEN Result(S, "addrinuse")
     ELSE Result(FoldLeft(LAMBDA U, i : register_tcp_listener_slot(U, g, m.port), T, [i \in 1 .. n - 1 |-> i]), "ok")
(* An established slot leaves the pool for its new owner and is replaced; when   *)
(* it is the listener's own handle, the listener moves to another slot.        *)
accept(S, h) ==
  LET m == S.meta[h]
      slots == S.group[m.group]
      ready == SelectSeq(slots, LAMBDA x : tcp_is_accept_ready(S.sock[x]))
      e == Head(ready)
      T == [S EXCEPT !.meta[e] = [@ EXCEPT !.state = "connected", !.est = TRUE, !.lis = FALSE, !.group = 0,
                                           !.peer = S.sock[e].rport],
                     !.group[m.group] = SelectSeq(@, LAMBDA x : x # e)]
      U == register_tcp_listener_slot(T, m.group, m.port)
  IN IF ~m.lis \/ m.state # "listening" THEN [s |-> S, r |-> "notlistening", e |-> 0, h |-> h]
     ELSE IF ready = <<>> THEN [s |-> S, r |-> "none", e |-> 0, h |-> h]
     ELSE [s |-> U, r |-> "ok", e |-> e, h |-> IF e = h THEN Head(U.group[m.group]) ELSE h]
(* A listener goes with all of its slots; a TCP socket that still has to close   *)
(* stays in the set without metadata until the protocol is done.              *)
close(S, h) ==
  LET m == S.meta[h]
      slots == ToSet(S.group[m.group])
      k == tcp_close(S.sock[h])
  IN IF m.group # 0
     THEN [S EXCEPT !.sock = Drop(@, slots), !.meta = Drop(@, slots), !.group = Drop(@, {m.group}), !.pending = @ \ slots]
     ELSE IF m.kind = "tcp" /\ k.st # "closed"
     THEN [S EXCEPT !.sock[h] = k, !.meta = Drop(@, {h}), !.pending = @ \cup {h}]
     ELSE [S EXCEPT !.sock = Drop(@, {h}), !.meta = Drop(@, {h}), !.udp = Drop(@, {h})]
shutdown(S, h) ==
  IF S.meta[h].kind = "udp" THEN S ELSE [S EXCEPT !.sock[h] = tcp_close(@), !.meta[h].state = "closed"]

(* Datagrams to this machine never leave the wrapper: one connected to the sender *)
(* comes first, then one that is bound; there is room or the packet is dropped.  *)
try_push_one_more(q, packet) == IF Len(q) > QueueLimit THEN q ELSE Append(q, packet)
try_push(q, packet) == IF Len(q) >= QueueLimit THEN q ELSE Append(q, packet)
deliver_loopback_udp(S, from, p, data) ==
  LET of == {h \in DOMAIN S.meta : S.meta[h].kind = "udp" /\ S.meta[h].port = p}
      connected == {h \in of : S.meta[h].state = "connected" /\ S.meta[h].peer = from}
      bound == {h \in of : S.meta[h].state = "bound"}
      to == IF connected # {} THEN connected ELSE bound
      h == Min(to)
  IN IF to = {} THEN S
     ELSE [S EXCEPT !.udp = (h :> try_push(IF h \in DOMAIN @ THEN @[h] ELSE <<>>, [from |-> from, to |-> p, data |-> data])) @@ @]
send_udp_to(S, h, p, data) ==
  LET T == ensure_udp_bound(S, h) IN deliver_loopback_udp(T, T.meta[h].port, p, data)

(* Receiving: data is looked at and reserved, and consumed once it was copied.   *)
queued(S, h) == IF h \in DOMAIN S.udp THEN S.udp[h] ELSE <<>>
can_recv(S, h) == S.meta[h].resv = 0 /\ (IF S.meta[h].kind = "tcp" THEN S.sock[h].rx # <<>> ELSE queued(S, h) # <<>>)
peeked(S, h, n) == IF S.meta[h].kind = "udp" THEN SubSeq(queued(S, h), 1, Min({1, Len(queued(S, h))}))
                   ELSE SubSeq(S.sock[h].rx, 1, Min({n, Len(S.sock[h].rx)}))
prepare_recv_again(S, h, n) ==
  LET data == peeked(S, h, n)
  IN IF data = <<>> THEN Result(S, IF S.meta[h].kind = "udp" \/ may_recv(S.sock[h]) THEN "empty" ELSE "finished")
     ELSE Result([S EXCEPT !.meta[h].resv = @ + 1, !.meta[h].nres = @ + 1], "ok")
prepare_recv(S, h, n) ==
  LET data == peeked(S, h, n)
  IN IF S.meta[h].resv # 0 THEN Result(S, "busy")
     ELSE IF data = <<>> THEN Result([S EXCEPT !.meta[h].nres = @ + 1],
                                     IF S.meta[h].kind = "udp" \/ may_recv(S.sock[h]) THEN "empty" ELSE "finished")
     ELSE Result([S EXCEPT !.meta[h].resv = S.meta[h].nres, !.meta[h].nres = @ + 1], "ok")
finish_recv(S, h, id, data, copied) ==
  IF h \notin DOMAIN S.meta \/ S.meta[h].resv # id THEN Result(S, "invalid")
  ELSE LET T == [S EXCEPT !.meta[h].resv = 0]
       IN IF copied = 0 THEN Result(T, "fault")
          ELSE IF S.meta[h].kind = "udp" THEN Result([T EXCEPT !.udp[h] = Tail(@)], "ok")
          ELSE Result([T EXCEPT !.sock[h].rx = SubSeq(@, copied + 1, Len(@)),
                                !.sock[h].out = @ \o SubSeq(data, 1, copied)], "ok")

(* Connecting sockets learn what became of them, closed ones go.               *)
settle_connected(S) ==
  LET settled(h) == LET m == S.meta[h] IN
        IF m.state = "connecting" /\ tcp_is_connected(S.sock[h])
        THEN [m EXCEPT !.state = "connected", !.est = TRUE, !.err = "", !.deadline = -1] ELSE m
      gone == {h \in S.pending : S.sock[h].st = "closed"}
  IN [S EXCEPT !.meta = [h \in DOMAIN @ |-> settled(h)], !.pending = @ \ gone, !.sock = Drop(@, gone)]
settle(S) ==
  LET settled(h) == LET m == S.meta[h] IN
        IF m.state # "connecting" THEN m
        ELSE IF tcp_is_connected(S.sock[h])
        THEN [m EXCEPT !.state = "connected", !.est = TRUE, !.err = "", !.deadline = -1]
        ELSE IF S.sock[h].st = "closed"
        THEN [m EXCEPT !.state = "closed", !.est = FALSE, !.deadline = -1,
                       !.err = IF S.clock >= m.deadline THEN "timedout" ELSE "refused"]
        ELSE m
      gone == {h \in S.pending : S.sock[h].st = "closed"}
  IN [S EXCEPT !.meta = [h \in DOMAIN @ |-> settled(h)], !.pending = @ \ gone, !.sock = Drop(@, gone)]
poll_socket_events == net' = settle(net) /\ net' # net /\ UNCHANGED <<obj, call>>

(* At the start there is no socket, or there is what a server has after its own  *)
(* socket, bind and listen, and after a client's connect and the accept.       *)
NetworkStack == [sock |-> <<>>, meta |-> <<>>, group |-> <<>>, pending |-> {}, udp |-> <<>>, port |-> Ephemeral,
                 next |-> 1, clock |-> 0]
Listener == listen(bind(add(NetworkStack, Closed, NewMeta("tcp")), 1, 1).s, 1, 1).s
Joined(S, h, l) == [S EXCEPT !.sock[h].st = "est", !.sock[h].peer = l,
                             !.sock[l] = [@ EXCEPT !.st = "est", !.peer = h, !.rport = S.sock[h].port]]
Client == LET c == tcp_listener_slot_count(1) + 1
          IN settle(Joined(connect(add(Listener, Closed, NewMeta("tcp")), c, 1).s, c, 1))
Started == CASE Setup = "none" -> [s |-> NetworkStack, h |-> <<>>]
             [] Setup = "listening" -> [s |-> Listener, h |-> <<1>>]
             [] Setup = "connected" -> LET a == accept(Client, 1)
                                       IN [s |-> close(a.s, a.h), h |-> <<tcp_listener_slot_count(1) + 1, a.e>>]
NInit ==
  /\ net = Started.s
  /\ obj = [o \in NObj |-> IF o \in DOMAIN Started.h THEN [h |-> Started.h[o], fds |-> 1] ELSE NoUse]
  /\ call = [t \in NTask |-> Idle]

(***************************************************************************)
(* smoltcp's protocol steps, inside of Interface::poll.                      *)
(***************************************************************************)
Accepting(p) == {l \in DOMAIN net.sock : net.sock[l].st = "listen" /\ net.sock[l].port = p}
Syn(h) ==
  /\ net.sock[h].st = "synsent" /\ net.sock[h].rport # Far
  /\ \E ls \in {Accepting(net.sock[h].rport)} :
       \/ /\ ls # {}
          /\ \E l \in {Min(ls)} :
               net' = Joined(net, h, l)
       \/ ls = {} /\ net' = [net EXCEPT !.sock[h].st = "closed"]
SynTimeout(h) ==
  /\ net.sock[h].st = "synsent" /\ h \in DOMAIN net.meta /\ net.clock >= net.meta[h].deadline
  /\ net' = [net EXCEPT !.sock[h].st = "closed"]
(* The other end of a connection, if it is still there.                       *)
Peer(S, h) == {g \in DOMAIN S.sock \cap {S.sock[h].peer} : S.sock[g].peer = h /\ S.sock[g].st \notin {"closed", "listen"}}
Segment(h) ==
  /\ net.sock[h].tx # <<>>
  /\ \E g \in Peer(net, h) :
       /\ Len(net.sock[g].rx) < Window
       /\ net' = [net EXCEPT !.sock[h].tx = Tail(@), !.sock[g].rx = Append(@, Head(net.sock[h].tx))]
Fin(h) ==
  /\ net.sock[h].st \in {"finwait", "lastack"} /\ net.sock[h].tx = <<>> /\ ~net.sock[h].fin
  /\ \E g \in Peer(net, h) :
       net' = [net EXCEPT !.sock[h].fin = TRUE,
                          !.sock[h].st = IF net.sock[g].fin THEN "closed" ELSE @,
                          !.sock[g].st = IF net.sock[g].fin THEN "closed" ELSE IF @ = "est" THEN "closewait" ELSE @]
Reset(h) ==
  /\ net.sock[h].st \in {"est", "closewait", "finwait", "lastack"} /\ Peer(net, h) = {}
  /\ (net.sock[h].tx # <<>> \/ net.sock[h].st \in {"finwait", "lastack"})
  /\ net' = [net EXCEPT !.sock[h].st = "closed", !.sock[h].tx = <<>>]
iface_poll ==
  /\ \E h \in DOMAIN net.sock : Syn(h) \/ SynTimeout(h) \/ Segment(h) \/ Fin(h) \/ Reset(h)
  /\ UNCHANGED <<obj, call>>
Clock == (\E h \in DOMAIN net.meta : net.meta[h].deadline > net.clock) /\ net.clock < MaxClock /\ net' = [net EXCEPT !.clock = @ + 1] /\ UNCHANGED <<obj, call>>

(***************************************************************************)
(* Socket objects: the last descriptor or call to let go closes the socket.    *)
(***************************************************************************)
Users(o) == obj[o].fds + Cardinality({t \in NTask : call[t].o = o})
Open(o) == obj[o].fds > 0
H(o) == obj[o].h
release(S, o, more) == IF Users(o) = 1 /\ more = 0 THEN close(S, obj[o].h) ELSE S
FreeObjs == {o \in NObj : obj[o] = NoUse}
Handles(n) == Cardinality(FreeHandles(net)) >= n
Fresh(t) == call[t].pc = "idle"
sys_socket(t, kind) ==
  /\ Fresh(t) /\ FreeObjs # {} /\ Handles(1)
  /\ \E o \in {Min(FreeObjs)} : obj' = [obj EXCEPT ![o] = [h |-> Min(FreeHandles(net)), fds |-> 1]]
  /\ net' = add(net, Closed, NewMeta(kind)) /\ UNCHANGED call
sys_bind(t, o, p) ==
  /\ Fresh(t) /\ Open(o) /\ (net.meta[H(o)].state = "created" \/ "rebind" \in NOps)
  /\ net' = bind(net, H(o), p).s /\ UNCHANGED <<obj, call>>
sys_listen(t, o, backlog) ==
  /\ Fresh(t) /\ Open(o) /\ net.next <= MaxListen /\ Handles(tcp_listener_slot_count(backlog) - 1)
  /\ net' = listen(net, H(o), backlog).s /\ UNCHANGED <<obj, call>>
sys_shutdown(t, o) == Fresh(t) /\ Open(o) /\ net' = shutdown(net, H(o)) /\ UNCHANGED <<obj, call>>
sys_dup(t, o) == Fresh(t) /\ Open(o) /\ obj[o].fds < 2 /\ obj' = [obj EXCEPT ![o].fds = @ + 1] /\ UNCHANGED <<net, call>>
sys_close(t, o) ==
  /\ Fresh(t) /\ Open(o)
  /\ net' = release(net, o, 0)
  /\ obj' = [obj EXCEPT ![o] = IF Users(o) = 1 THEN NoUse ELSE [@ EXCEPT !.fds = @ - 1]]
  /\ UNCHANGED call
(* A call lets go of its object, with what it did to the state.                *)
Return(t, S) ==
  \E o \in {call[t].o} :
    /\ net' = release(S, o, 0)
    /\ obj' = [obj EXCEPT ![o] = IF Users(o) = 1 THEN NoUse ELSE @]
    /\ call' = [call EXCEPT ![t] = Idle]

sys_connect(t, o, p) ==
  /\ Fresh(t) /\ Open(o)
  /\ net.meta[H(o)].kind = "tcp" => ~tcp_is_connected(net.sock[H(o)])
  /\ \E r \in {connect(net, H(o), p)} :
       /\ net' = r.s
       /\ call' = [call EXCEPT ![t] = IF r.r = "ok" /\ net.meta[H(o)].kind = "tcp" THEN [pc |-> "connecting", o |-> o] ELSE @]
  /\ UNCHANGED obj
(* Connected, failed, or interrupted by a signal.                             *)
wait_connected(t) ==
  LET h == H(call[t].o) IN
  /\ call[t].pc = "connecting"
  /\ \/ tcp_is_connected(net.sock[h]) /\ may_send(net.sock[h])
     \/ net.meta[h].state = "closed"
  /\ Return(t, net)
Interrupt(t) == call[t].pc \in {"connecting", "accepting", "recv"} /\ Return(t, net)

sys_accept4(t, o) ==
  /\ Fresh(t) /\ Open(o) /\ net.meta[H(o)].kind = "tcp" /\ net.meta[H(o)].lis
  /\ call' = [call EXCEPT ![t] = [pc |-> "accepting", o |-> o]] /\ UNCHANGED <<net, obj>>
(* One try: the connection gets an object and a descriptor; without a free       *)
(* descriptor the object is dropped, which closes the connection.             *)
accept_inner(t) ==
  LET o == call[t].o IN
  /\ call[t].pc = "accepting" /\ Handles(1) /\ FreeObjs # {}
  /\ \E a \in {accept(net, H(o))} :
       \/ a.r = "notlistening" /\ Return(t, net)
       \/ /\ a.r = "ok" /\ Users(o) > 1
          /\ \/ /\ \E n \in {Min(FreeObjs)} : obj' = [obj EXCEPT ![o].h = a.h, ![n] = [h |-> a.e, fds |-> 1]]
                /\ net' = a.s
             \/ "full" \in NOps /\ obj' = [obj EXCEPT ![o].h = a.h] /\ net' = close(a.s, a.e)
          /\ call' = [call EXCEPT ![t] = Idle]

(* A send of a byte; capacity is looked up first, send_slice takes what fits.    *)
send(o) ==
  \E k \in {net.sock[H(o)]} :
  /\ may_send(k) /\ Len(k.tx) < Window /\ k.sent < MaxBytes
  /\ net' = [net EXCEPT !.sock[H(o)].tx = Append(@, k.sent + 1), !.sock[H(o)].sent = @ + 1]
send_connected_socket(t, o) ==
  Fresh(t) /\ Open(o) /\ net.meta[H(o)].kind = "tcp" /\ send(o) /\ UNCHANGED <<obj, call>>
send_udp_blocking(o, p, data) == net' = send_udp_to(net, H(o), p, data)
sys_sendto(t, o, p, data) ==
  Fresh(t) /\ Open(o) /\ net.meta[H(o)].kind = "udp" /\ send_udp_blocking(o, p, data) /\ UNCHANGED <<obj, call>>
(* sendmsg, and each message of sendmmsg: what fits is sent, nothing is waited for.  *)
sendmsg_one(t, o, p, data) ==
  /\ Fresh(t) /\ Open(o) /\ UNCHANGED <<obj, call>>
  /\ \/ net.meta[H(o)].kind = "udp" /\ send_udp_blocking(o, p, data)
     \/ net.meta[H(o)].kind = "tcp" /\ send(o)

(* recvmmsg is the same for several messages; n is 1 for the others.          *)
sys_recvmmsg(t, o, n) ==
  /\ Fresh(t) /\ Open(o) /\ ("stale" \in NOps \/ ~net.meta[H(o)].lis) /\ net.meta[H(o)].nres <= MaxReserve
  /\ call' = [call EXCEPT ![t] = [pc |-> "recv", o |-> o, kind |-> net.meta[H(o)].kind, left |-> n, got |-> 0]]
  /\ UNCHANGED <<net, obj>>
(* After the first, MSG_WAITFORONE takes what is there; a deadline ends the call too. *)
BatchEnds(t) ==
  /\ call[t].pc = "recv" /\ call[t].got > 0 /\ ~can_recv(net, H(call[t].o)) /\ Return(t, net)
(* The snapshot, then the reservation: two locks.                             *)
PrepareReceive(t) ==
  LET h == H(call[t].o) IN
  /\ call[t].pc = "recv"
  /\ \/ can_recv(net, h) /\ call' = [call EXCEPT ![t].pc = "prepare"] /\ UNCHANGED <<net, obj>>
     \/ /\ ~can_recv(net, h) /\ call[t].kind = "tcp" /\ ~may_recv(net.sock[h])
        /\ Return(t, [net EXCEPT !.sock[h].eof = TRUE])
Reserve(t, n) ==
  LET h == H(call[t].o) IN
  /\ call[t].pc = "prepare"
  /\ \E r \in {prepare_recv(net, h, n)} :
       \/ /\ r.r = "ok" /\ net' = r.s /\ UNCHANGED obj
          /\ call' = [call EXCEPT ![t] = [h |-> h, id |-> r.s.meta[h].resv, data |-> peeked(net, h, n)]
                                         @@ [call[t] EXCEPT !.pc = "copy"]]
       \/ r.r \in {"busy", "empty"} /\ net' = r.s /\ call' = [call EXCEPT ![t].pc = "recv"] /\ UNCHANGED obj
       \/ r.r = "finished" /\ Return(t, [r.s EXCEPT !.sock[h].eof = TRUE])
(* What was copied is consumed; a fault, or MSG_PEEK, consumes nothing.        *)
FinishReceive(t, copied) ==
  LET c == call[t] IN
  /\ c.pc = "copy" /\ copied <= Len(c.data)
  /\ \E r \in {finish_recv(net, c.h, c.id, c.data, copied)} :
       \/ (r.r # "ok" \/ c.left = 1) /\ Return(t, r.s)
       \/ /\ r.r = "ok" /\ c.left > 1 /\ net' = r.s /\ UNCHANGED obj
          /\ call' = [call EXCEPT ![t] = [pc |-> "recv", o |-> c.o, kind |-> c.kind, left |-> c.left - 1, got |-> c.got + 1]]
(* SO_ERROR takes the error away.                                            *)
get_sockopt(t, o) ==
  /\ Fresh(t) /\ Open(o) /\ net.meta[H(o)].err # ""
  /\ net' = [net EXCEPT !.meta[H(o)].err = ""] /\ UNCHANGED <<obj, call>>

On(op) == op \in NOps
NetSteps == iface_poll \/ poll_socket_events \/ Clock
Calls ==
  \E t \in NTask :
    \/ On("socket") /\ \E kind \in (IF On("udp") THEN {"udp"} ELSE {"tcp"}) : sys_socket(t, kind)
    \/ \E o \in NObj : \/ On("bind") /\ \E p \in Binds : sys_bind(t, o, p)
                       \/ On("listen") /\ sys_listen(t, o, 1)
                       \/ On("shutdown") /\ sys_shutdown(t, o)
                       \/ On("share") /\ sys_dup(t, o)
                       \/ On("close") /\ sys_close(t, o)
                       \/ On("connect") /\ ((\E p \in Dests : sys_connect(t, o, p)) \/ get_sockopt(t, o))
                       \/ On("accept") /\ sys_accept4(t, o)
                       \/ On("send") /\ send_connected_socket(t, o)
                       \/ On("udp") /\ \E p \in Dests, data \in 1 .. MaxBytes : sys_sendto(t, o, p, data)
                       \/ On("batch") /\ \E p \in Dests, data \in 1 .. MaxBytes : sendmsg_one(t, o, p, data)
                       \/ On("recv") /\ \E n \in {1} \cup (IF On("batch") THEN {2} ELSE {}) : sys_recvmmsg(t, o, n)
    \/ wait_connected(t) \/ accept_inner(t) \/ PrepareReceive(t) \/ BatchEnds(t)
    \/ On("fault") /\ Interrupt(t)
    \/ \E n \in 1 .. 2 : Reserve(t, n)
    \/ \E n \in (IF On("fault") THEN 0 .. 2 ELSE 1 .. 2) : FinishReceive(t, n)
NNext == NetSteps \/ Calls
NSpec == NInit /\ [][NNext]_nvars

-----------------------------------------------------------------------------
NTypeOK ==
  /\ DOMAIN net.meta \subseteq DOMAIN net.sock /\ DOMAIN net.sock \subseteq NHandle
  /\ \A h \in DOMAIN net.udp : Len(net.udp[h]) <= QueueLimit
  /\ \A o \in NObj : obj[o].fds \in 0 .. 2

(* stack/tcp.rs, socket.rs: every socket of the set belongs to one object, to the  *)
(* pool of one listener that is still open, or is on its way out; a pool keeps its  *)
(* size through accept, and the listener stays in its pool.                     *)
Used == {o \in NObj : obj[o] # NoUse}
HandlesOwned ==
  /\ DOMAIN net.sock = DOMAIN net.meta \cup net.pending /\ DOMAIN net.meta \cap net.pending = {}
  /\ \A o \in Used : H(o) \in DOMAIN net.meta
  /\ \A o, q \in Used : o # q => H(o) # H(q)
  /\ \A h \in DOMAIN net.meta : net.meta[h].group = 0 => \E o \in Used : H(o) = h
  /\ \A h \in DOMAIN net.meta : net.meta[h].group # 0 =>
       net.meta[h].group \in DOMAIN net.group /\ h \in ToSet(net.group[net.meta[h].group])
  /\ \A g \in DOMAIN net.group :
       /\ Len(net.group[g]) = tcp_listener_slot_count(1) /\ IsInjective(net.group[g])
       /\ \A h \in ToSet(net.group[g]) : net.meta[h].group = g
       /\ Cardinality({o \in Used : H(o) \in ToSet(net.group[g])}) = 1

(* A reservation is held by one call, and a call that copies holds one.          *)
Copying(h) == {t \in NTask : call[t].pc = "copy" /\ call[t].h = h}
ReservationsHeld ==
  \A h \in DOMAIN net.meta :
    /\ Cardinality(Copying(h)) = (IF net.meta[h].resv = 0 THEN 0 ELSE 1)
    /\ \A t \in Copying(h) : call[t].id = net.meta[h].resv

(* What the users got, what waits in the two buffers and nothing else is what the  *)
(* other end sent, in order, whatever faults, peeks and second readers there were.  *)
Numbers(k) == [i \in 1 .. k |-> i]
StreamsExact ==
  \A h \in DOMAIN net.sock : \A g \in Peer(net, h) :
    net.sock[g].out \o net.sock[g].rx \o net.sock[h].tx = Numbers(net.sock[h].sent)
(* End of file is told only when everything was read.                          *)
EofHonest ==
  \A h \in DOMAIN net.sock : net.sock[h].eof => \A g \in Peer(net, h) : Len(net.sock[h].out) = net.sock[g].sent

(* A datagram a socket holds was sent to its port.                             *)
DatagramsForMe == \A h \in DOMAIN net.udp : h \in DOMAIN net.meta /\ \A i \in DOMAIN net.udp[h] : net.udp[h][i].to = net.meta[h].port

(* bind: two sockets that wait for traffic do not have the same port.            *)
PortsUnique ==
  \A o, q \in Used : o # q /\ net.meta[H(o)].kind = net.meta[H(q)].kind
    /\ net.meta[H(o)].state \in {"bound", "listening"} /\ net.meta[H(q)].state \in {"bound", "listening"} =>
       net.meta[H(o)].port # net.meta[H(q)].port

(* Every connect comes to an end: answered, refused or timed out.                *)
ConnectsEnd == \A t \in NTask : call[t].pc = "connecting" ~> call[t].pc # "connecting"
NFair == /\ WF_nvars(iface_poll) /\ WF_nvars(poll_socket_events) /\ WF_nvars(Clock)
         /\ \A t \in NTask : WF_nvars(wait_connected(t))
=============================================================================
