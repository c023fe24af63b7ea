------------------------------ MODULE Polling ------------------------------
(***************************************************************************)
(* poll, select and epoll (syscall-impl poll_engine.rs, epoll_fd.rs and        *)
(* sys/poll).  A call looks at its descriptors one after the other, each look   *)
(* under a lock of its own, waits at most a tick on one of them and looks       *)
(* again.  An epoll instance is found through a registry of its own, keyed by   *)
(* task and descriptor; its interests are copied at the start of a scan and     *)
(* each copy is written back after its descriptor was looked at.  What a        *)
(* descriptor is ready for is abstracted to whether it is ready for what the    *)
(* caller asked; the tick a wait lasts is a step.  There is one instance.       *)
(***************************************************************************)
EXTENDS Integers, FiniteSets, FiniteSetsExt

CONSTANTS PoTask,       \* tasks; task 1 runs first
          PFd,          \* descriptor numbers
          Obj,          \* pollable files
          Modes,        \* the interests epoll_ctl installs: level or edge, each or once
          MaxEvents,    \* maxevents of an epoll_wait
          PoOps         \* the calls the tasks make

VARIABLES ready,        \* the files that are ready
          fds,          \* the descriptors of a table: a file, Ep, or 0
          tab,          \* the table of a task, 0 when it does not exist
          maps, owners, refs,   \* EpollFdRegistry
          interests,    \* EpollInstance.interests
          given,        \* interests reported by a call that returned, since the last ADD or MOD
          pt            \* where a task is in its call
poVars == <<ready, fds, tab, maps, owners, refs, interests, given, pt>>

Ep == -1
NoMap == {-1}
NoInterest == [mode |-> "none", once |-> FALSE, edge_ready |-> FALSE, armed |-> FALSE]
Interest(m, e) == [mode |-> IF m \in {"edge", "edge_once"} THEN "edge" ELSE "level",
                   once |-> m \in {"level_once", "edge_once"}, edge_ready |-> e, armed |-> TRUE]
Idle == [pc |-> "idle", kind |-> "none", phase |-> "none", set |-> {}, left |-> {}, waits |-> {}, out |-> {},
         snap |-> [d \in PFd |-> NoInterest], timed |-> "never", sig |-> FALSE, steady |-> {}, fd |-> 0]

PoInit ==
  /\ ready \in SUBSET Obj
  /\ fds = [t \in PoTask |-> [d \in PFd |-> IF t = 1 /\ d \in Obj THEN d ELSE 0]]
  /\ tab = [t \in PoTask |-> IF t = 1 THEN 1 ELSE 0]
  /\ maps = [t \in PoTask |-> NoMap] /\ owners = [t \in PoTask |-> 0] /\ refs = [t \in PoTask |-> 0]
  /\ interests = [d \in PFd |-> NoInterest] /\ given = {}
  /\ pt = [t \in PoTask |-> Idle]

May(op) == op \in PoOps
At(t, pc) == pt[t].pc = pc
Free(t) == tab[t] # 0 /\ At(t, "idle")
Goto(t, r) == pt' = [pt EXCEPT ![t] = r]
File(t, d) == fds[tab[t]][d]
Live == {tab[t] : t \in PoTask} \ {0}
(* handle_refs counts the descriptors of the instance; at 0 the interests go.        *)
Handles(f) == {k \in Live \X PFd : f[k[1]][k[2]] = Ep}
is_closed == Handles(fds) = {}
AfterClose(f) == IF Handles(f) = {} THEN [d \in PFd |-> NoInterest] ELSE interests
InterestSet == {d \in PFd : interests[d] # NoInterest}

-----------------------------------------------------------------------------
(* Looking at one descriptor.                                                *)
poll_socket_revents(o) == o \in ready
(* An epoll descriptor is ready when a descriptor it watches is ready.                *)
poll_revents_epoll(t) == \E d \in InterestSet : File(t, d) \in Obj /\ poll_socket_revents(File(t, d))
poll_revents_fd(t, d) ==
  CASE File(t, d) = 0 -> "nval"
    [] File(t, d) = Ep -> IF poll_revents_epoll(t) THEN "in" ELSE "none"
    [] OTHER -> IF poll_socket_revents(File(t, d)) THEN "in" ELSE "none"

(* A descriptor is no longer steady once it was not ready, closed, or its interest    *)
(* changed, at some moment of the call.                                          *)
Unsteady(keep(_, _)) ==
  [t \in PoTask |-> [pt[t] EXCEPT !.steady = {d \in @ : keep(t, d)}]]

(* Another task, a device or a peer makes a file ready or uses it up.                *)
Toggle(o) ==
  /\ May("ready")
  /\ ready' = IF o \in ready THEN ready \ {o} ELSE ready \cup {o}
  /\ pt' = Unsteady(LAMBDA t, d : File(t, d) # o)
  /\ UNCHANGED <<fds, tab, maps, owners, refs, interests, given>>
(* Time passes the deadline; a signal becomes deliverable.                          *)
Expire(t) ==
  /\ pt[t].timed = "pending" /\ pt' = [pt EXCEPT ![t].timed = "expired"]
  /\ UNCHANGED <<ready, fds, tab, maps, owners, refs, interests, given>>
Signal(t) ==
  /\ May("signal") /\ pt[t].pc \notin {"idle", "done"} /\ ~pt[t].sig
  /\ pt' = [pt EXCEPT ![t].sig = TRUE]
  /\ UNCHANGED <<ready, fds, tab, maps, owners, refs, interests, given>>

-----------------------------------------------------------------------------
(* EpollFdRegistry.                                                          *)
effective_owner(t) == IF owners[t] # 0 THEN owners[t] ELSE t
Map(m, o) == IF m[o] = NoMap THEN {} ELSE m[o]
lookup(t, d) == d \in Map(maps, effective_owner(t))
(* ensure_owner gives the task a map of its own even when it uses another's.          *)
ensured_maps(t) == [maps EXCEPT ![t] = IF @ = NoMap THEN {} ELSE @]
ensured_refs(t) == [refs EXCEPT ![t] = IF @ = 0 THEN 1 ELSE @]
register(t, d) ==
  /\ maps' = [ensured_maps(t) EXCEPT ![effective_owner(t)] = (IF @ = NoMap THEN {} ELSE @) \cup {d}]
  /\ refs' = ensured_refs(t) /\ UNCHANGED owners
remove(t, d) ==
  /\ maps' = [maps EXCEPT ![effective_owner(t)] = IF @ = NoMap THEN @ ELSE @ \ {d}]
  /\ UNCHANGED <<owners, refs>>
release_task(t) ==
  LET o == effective_owner(t) IN
  /\ owners' = [owners EXCEPT ![t] = 0]
  /\ refs' = [refs EXCEPT ![o] = IF @ = 0 THEN 0 ELSE @ - 1]
  /\ maps' = CASE refs[o] = 0 -> [maps EXCEPT ![t] = NoMap]
               [] refs[o] = 1 -> [maps EXCEPT ![o] = NoMap]
               [] OTHER -> maps
(* A child's number is new: it has no owner, map or count yet.                       *)
copy_from_parent(c, t) ==
  /\ maps' = [maps EXCEPT ![c] = Map(maps, effective_owner(t))]
  /\ refs' = [refs EXCEPT ![c] = 1] /\ UNCHANGED owners
share_from_parent(c, t) ==
  /\ maps' = ensured_maps(t)
  /\ owners' = [owners EXCEPT ![c] = effective_owner(t)]
  /\ refs' = [ensured_refs(t) EXCEPT ![effective_owner(t)] = @ + 1]

(* The descriptor is in the table before the registry knows it.                      *)
epoll_create1(t) ==
  /\ May("create") /\ Free(t) /\ is_closed
  /\ \A x \in PoTask : pt[x].kind # "epoll"
  /\ \E d \in PFd :
       /\ File(t, d) = 0 /\ \A x \in PFd : x < d => File(t, x) # 0
       /\ fds' = [fds EXCEPT ![tab[t]][d] = Ep]
       /\ Goto(t, [Idle EXCEPT !.pc = "register", !.fd = d])
  /\ given' = {}
  /\ UNCHANGED <<ready, tab, maps, owners, refs, interests>>
Register(t) ==
  /\ At(t, "register") /\ register(t, pt[t].fd) /\ Goto(t, Idle)
  /\ UNCHANGED <<ready, fds, tab, interests, given>>
(* dup, dup3 and F_DUPFD: looked up first, registered after the table changed.        *)
sys_dup3(t) ==
  /\ May("dup") /\ Free(t)
  /\ \E d, e \in PFd :
       /\ d # e /\ File(t, d) # 0
       /\ fds' = [fds EXCEPT ![tab[t]][e] = File(t, d)]
       /\ interests' = AfterClose(fds')
       /\ pt' = [Unsteady(LAMBDA x, y : tab[x] # tab[t] \/ y # e) EXCEPT
                   ![t] = CASE lookup(t, d) /\ lookup(t, e) -> [Idle EXCEPT !.pc = "replace", !.fd = e]
                            [] lookup(t, d) -> [Idle EXCEPT !.pc = "register", !.fd = e]
                            [] lookup(t, e) -> [Idle EXCEPT !.pc = "unregister", !.fd = e]
                            [] OTHER -> Idle]
  /\ UNCHANGED <<ready, tab, maps, owners, refs, given>>
sys_close(t) ==
  /\ May("close") /\ Free(t)
  /\ \E d \in PFd :
       /\ File(t, d) # 0
       /\ fds' = [fds EXCEPT ![tab[t]][d] = 0]
       /\ interests' = AfterClose(fds')
       /\ pt' = [Unsteady(LAMBDA x, y : tab[x] # tab[t] \/ y # d) EXCEPT
                   ![t] = IF lookup(t, d) THEN [Idle EXCEPT !.pc = "unregister", !.fd = d] ELSE Idle]
  /\ UNCHANGED <<ready, tab, maps, owners, refs, given>>
Unregister(t) ==
  /\ pt[t].pc \in {"unregister", "replace"} /\ remove(t, pt[t].fd)
  /\ Goto(t, IF At(t, "replace") THEN [pt[t] EXCEPT !.pc = "register"] ELSE Idle)
  /\ UNCHANGED <<ready, fds, tab, interests, given>>
Open(t) ==
  /\ May("open") /\ Free(t)
  /\ \E o \in Obj, d \in PFd : /\ File(t, d) = 0 /\ \A x \in PFd : x < d => File(t, x) # 0
                              /\ fds' = [fds EXCEPT ![tab[t]][d] = o]
  /\ UNCHANGED <<ready, tab, maps, owners, refs, interests, given, pt>>
(* clone: the table is copied or shared first, the registry next; then the child runs. *)
Clone(t, shared) ==
  /\ May(IF shared THEN "share" ELSE "fork") /\ Free(t)
  /\ \E c \in PoTask :
       /\ tab[c] = 0 /\ At(c, "idle") /\ \A x \in PoTask : x < c => tab[x] # 0 \/ ~At(x, "idle")
       /\ tab' = [tab EXCEPT ![c] = IF shared THEN tab[t] ELSE c]
       /\ fds' = IF shared THEN fds ELSE [fds EXCEPT ![c] = fds[tab[t]]]
       /\ pt' = [pt EXCEPT ![t] = [Idle EXCEPT !.pc = "clone", !.kind = IF shared THEN "share" ELSE "copy", !.fd = c],
                           ![c].pc = "born"]
  /\ UNCHANGED <<ready, maps, owners, refs, interests, given>>
CloneRegistry(t) ==
  /\ At(t, "clone")
  /\ IF pt[t].kind = "share" THEN share_from_parent(pt[t].fd, t) ELSE copy_from_parent(pt[t].fd, t)
  /\ pt' = [pt EXCEPT ![t] = Idle, ![pt[t].fd] = Idle]
  /\ UNCHANGED <<ready, fds, tab, interests, given>>
(* The table is dropped first, the registry next.                                   *)
Exit(t) ==
  /\ May("exit") /\ Free(t)
  /\ tab' = [tab EXCEPT ![t] = 0]
  /\ fds' = IF \E x \in PoTask \ {t} : tab[x] = tab[t] THEN fds ELSE [fds EXCEPT ![tab[t]] = [d \in PFd |-> 0]]
  /\ interests' = AfterClose(fds')
  /\ Goto(t, [Idle EXCEPT !.pc = "drop_task"])
  /\ UNCHANGED <<ready, maps, owners, refs, given>>
drop_task(t) ==
  /\ At(t, "drop_task") /\ release_task(t) /\ Goto(t, [Idle EXCEPT !.pc = "dead"])
  /\ UNCHANGED <<ready, fds, tab, interests, given>>

(* epoll_ctl: readiness is looked at before the instance is locked, and an edge        *)
(* interest starts as already seen when the descriptor is ready.                      *)
epoll_ctl(t) ==
  /\ May("ctl") /\ Free(t) /\ \E e \in PFd : lookup(t, e)
  /\ \E d \in PFd :
       \/ /\ poll_revents_fd(t, d) # "nval" /\ ~lookup(t, d)
          /\ \E m \in Modes :
               interests' = [interests EXCEPT ![d] = Interest(m, m \in {"edge", "edge_once"} /\ poll_revents_fd(t, d) = "in")]
          /\ given' = given \ {d}
          /\ pt' = Unsteady(LAMBDA x, y : pt[x].kind # "epoll" \/ y # d)
       \/ /\ interests[d] # NoInterest
          /\ interests' = [interests EXCEPT ![d] = NoInterest] /\ given' = given \ {d}
          /\ pt' = Unsteady(LAMBDA x, y : pt[x].kind # "epoll" \/ y # d)
  /\ UNCHANGED <<ready, fds, tab, maps, owners, refs>>

-----------------------------------------------------------------------------
(* The calls.  A scan takes the descriptors in ascending order; its phase says what   *)
(* follows it.                                                                   *)
Steady(t, set) == {d \in set : File(t, d) \in ready}
StartScan(r, phase) ==
  [r EXCEPT !.pc = "scan", !.phase = phase, !.out = {},
            !.left = IF r.kind = "epoll" THEN InterestSet ELSE r.set,
            !.snap = IF r.kind = "epoll" THEN interests ELSE @]
Return(r) == [r EXCEPT !.pc = "done", !.left = {}, !.waits = {}, !.snap = Idle.snap]
Interrupted(r) == [Return(r) EXCEPT !.phase = "eintr", !.out = {}]
Invalid(r) == [Return(r) EXCEPT !.phase = "ebadf", !.out = {}]

(* The timeout is none, one that has passed at once, or one to come.                 *)
do_poll_with_deadline(t) ==
  /\ May("poll") /\ Free(t)
  /\ \E S \in SUBSET PFd \ {{}}, d \in {"never", "expired", "pending"} :
       Goto(t, StartScan([Idle EXCEPT !.kind = "poll", !.set = S, !.timed = d, !.steady = Steady(t, S)], "first"))
  /\ UNCHANGED <<ready, fds, tab, maps, owners, refs, interests, given>>
do_pselect_with_deadline(t) ==
  /\ May("select") /\ Free(t)
  /\ \E S \in SUBSET PFd \ {{}}, d \in {"never", "expired", "pending"} :
       Goto(t, StartScan([Idle EXCEPT !.kind = "select", !.set = S, !.timed = d, !.steady = Steady(t, S)], "first"))
  /\ UNCHANGED <<ready, fds, tab, maps, owners, refs, interests, given>>
do_epoll_wait(t) ==
  /\ May("epoll") /\ Free(t) /\ \E e \in PFd : lookup(t, e)
  /\ \E d \in {"never", "expired", "pending"} :
       Goto(t, [Idle EXCEPT !.pc = "top", !.kind = "epoll", !.timed = d,
                  !.steady = Steady(t, {x \in InterestSet : interests[x].mode = "level" /\ ~interests[x].once})])
  /\ UNCHANGED <<ready, fds, tab, maps, owners, refs, interests, given>>
(* The top of the epoll loop.                                                      *)
EpollTop(t) ==
  /\ At(t, "top")
  /\ Goto(t, IF is_closed THEN Invalid(pt[t]) ELSE StartScan(pt[t], "loop"))
  /\ UNCHANGED <<ready, fds, tab, maps, owners, refs, interests, given>>

(* One descriptor of poll's scan: a bad one counts as ready.                          *)
scan_pollfds(t) ==
  /\ At(t, "scan") /\ pt[t].kind = "poll" /\ pt[t].left # {}
  /\ LET d == Min(pt[t].left) IN
     Goto(t, [pt[t] EXCEPT !.left = @ \ {d}, !.out = IF poll_revents_fd(t, d) # "none" THEN @ \cup {d} ELSE @])
  /\ UNCHANGED <<ready, fds, tab, maps, owners, refs, interests, given>>
(* One of select's: a bad one ends the call with EBADF, but for the scan that only    *)
(* decides whether to wait on, which takes it for not ready.                        *)
scan_fd_sets(t) ==
  /\ At(t, "scan") /\ pt[t].kind = "select" /\ pt[t].left # {}
  /\ LET d == Min(pt[t].left)
         r == poll_revents_fd(t, d) IN
     Goto(t, CASE r = "nval" /\ pt[t].phase # "still" -> Invalid(pt[t])
               [] r = "nval" -> [pt[t] EXCEPT !.left = {}, !.out = {}]
               [] OTHER -> [pt[t] EXCEPT !.left = @ \ {d}, !.out = IF r = "in" THEN @ \cup {d} ELSE @])
  /\ UNCHANGED <<ready, fds, tab, maps, owners, refs, interests, given>>
(* One of epoll's: the copy decides, and is written back if the interest still exists. *)
Consumed(i, in) ==
  CASE i.mode = "edge" /\ ~in -> [i EXCEPT !.edge_ready = FALSE]
    [] i.mode = "edge" /\ i.edge_ready -> i
    [] i.mode = "edge" -> [i EXCEPT !.edge_ready = TRUE, !.armed = ~i.once]
    [] OTHER -> IF in /\ i.once THEN [i EXCEPT !.armed = FALSE] ELSE i
Reports(i, in) == in /\ ~(i.mode = "edge" /\ i.edge_ready)
scan_epoll_ready(t) ==
  /\ At(t, "scan") /\ pt[t].kind = "epoll" /\ pt[t].left # {}
  /\ LET d == Min(pt[t].left)
         i == pt[t].snap[d]
         r == poll_revents_fd(t, d)
         skip == (i.once /\ ~i.armed) \/ r = "nval" IN
     /\ Goto(t, [pt[t] EXCEPT !.left = @ \ {d}, !.snap[d] = NoInterest,
                   !.out = IF ~skip /\ Reports(i, r = "in") /\ Cardinality(@) < MaxEvents THEN @ \cup {d} ELSE @])
     /\ interests' = IF skip \/ interests[d] = NoInterest THEN interests
                     ELSE [interests EXCEPT ![d] = Consumed(i, r = "in")]
  /\ UNCHANGED <<ready, fds, tab, maps, owners, refs, given>>
(* The end of a scan.  poll returns what the scan found; select scans once more to     *)
(* write the sets back, and returns what the second scan found.                      *)
expired(r) == r.timed = "expired"
ToWait(r) == [r EXCEPT !.pc = "wait", !.waits = IF r.kind = "epoll" THEN InterestSet ELSE r.set]
AfterScan(r) ==
  CASE r.phase = "first" /\ r.kind = "poll" ->
         IF r.out # {} \/ expired(r) THEN Return(r) ELSE StartScan(r, "loop")
    [] r.phase = "first" ->
         IF r.out # {} THEN StartScan(r, "final") ELSE IF expired(r) THEN StartScan(r, "zero") ELSE StartScan(r, "loop")
    [] r.phase = "loop" ->
         CASE r.out # {} -> IF r.kind = "select" THEN StartScan(r, "final") ELSE Return(r)
           [] r.out = {} /\ r.sig /\ r.kind # "epoll" -> Interrupted(r)
           [] r.out = {} /\ ~(r.sig /\ r.kind # "epoll") /\ expired(r) ->
                IF r.kind = "select" THEN StartScan(r, "zero") ELSE Return(r)
           [] OTHER -> ToWait(r)
    [] r.phase = "still" ->
         IF r.out = {} /\ ~expired(r) THEN [r EXCEPT !.pc = "tick"] ELSE [r EXCEPT !.pc = "again"]
    [] r.phase = "spin" -> [r EXCEPT !.pc = IF r.out # {} THEN "again" ELSE "sleep"]
    [] r.phase = "final" -> Return(r)
    [] r.phase = "zero" -> Return([r EXCEPT !.out = {}])
ScanEnd(t) ==
  /\ At(t, "scan") /\ pt[t].left = {} /\ Goto(t, AfterScan(pt[t]))
  /\ UNCHANGED <<ready, fds, tab, maps, owners, refs, interests, given>>
(* A scan that finds something before the next wait starts the loop again.            *)
Again(t) ==
  /\ At(t, "again")
  /\ Goto(t, LET r == [pt[t] EXCEPT !.waits = {}] IN
             IF r.kind = "epoll" THEN [r EXCEPT !.pc = "top"] ELSE StartScan(r, "loop"))
  /\ UNCHANGED <<ready, fds, tab, maps, owners, refs, interests, given>>
(* poll_wait_pipe_fds, poll_wait_monitored_fds, epoll_wait_interests: before the wait   *)
(* on a descriptor the call looks at all of them again; without one that can be waited *)
(* on, select yields and looks, and the call sleeps a tick.                          *)
poll_wait_fds(t) ==
  /\ At(t, "wait")
  /\ Goto(t, IF pt[t].waits = {} THEN [pt[t] EXCEPT !.pc = "slept"] ELSE StartScan(pt[t], "still"))
  /\ UNCHANGED <<ready, fds, tab, maps, owners, refs, interests, given>>
WaitTick(t) ==
  /\ At(t, "tick")
  /\ LET d == Min(pt[t].waits) IN
     \/ Goto(t, [pt[t] EXCEPT !.pc = "wait", !.waits = @ \ {d}])
     \/ pt[t].sig /\ File(t, d) # 0 /\ Goto(t, Interrupted(pt[t]))
  /\ UNCHANGED <<ready, fds, tab, maps, owners, refs, interests, given>>
(* Whether a descriptor was waited on is left open: a socket cannot be.               *)
SleepTick(t) ==
  /\ At(t, "slept")
  /\ \/ Goto(t, [pt[t] EXCEPT !.pc = "again"])
     \/ pt[t].kind = "select" /\ Goto(t, StartScan(pt[t], "spin"))
     \/ pt[t].sig /\ Goto(t, Interrupted(pt[t]))
  /\ UNCHANGED <<ready, fds, tab, maps, owners, refs, interests, given>>
SpinSleep(t) ==
  /\ At(t, "sleep")
  /\ \/ Goto(t, [pt[t] EXCEPT !.pc = "again"])
     \/ pt[t].sig /\ Goto(t, Interrupted(pt[t]))
  /\ UNCHANGED <<ready, fds, tab, maps, owners, refs, interests, given>>
Done(t) ==
  /\ At(t, "done") /\ Goto(t, Idle)
  /\ given' = IF pt[t].kind = "epoll" THEN given \cup pt[t].out ELSE given
  /\ UNCHANGED <<ready, fds, tab, maps, owners, refs, interests>>

PoNext ==
  \/ \E o \in Obj : Toggle(o)
  \/ \E t \in PoTask :
       \/ Expire(t) \/ Signal(t) \/ epoll_create1(t) \/ Register(t) \/ sys_dup3(t) \/ sys_close(t) \/ Unregister(t)
       \/ Open(t) \/ (\E shared \in BOOLEAN : Clone(t, shared)) \/ CloneRegistry(t) \/ Exit(t) \/ drop_task(t) \/ epoll_ctl(t)
       \/ do_poll_with_deadline(t) \/ do_pselect_with_deadline(t) \/ do_epoll_wait(t) \/ EpollTop(t)
       \/ scan_pollfds(t) \/ scan_fd_sets(t) \/ scan_epoll_ready(t) \/ ScanEnd(t) \/ Again(t)
       \/ poll_wait_fds(t) \/ WaitTick(t) \/ SleepTick(t) \/ SpinSleep(t) \/ Done(t)
PoSpec == PoInit /\ [][PoNext]_poVars

-----------------------------------------------------------------------------
(* Type correctness.                                                         *)
PoTypeOK ==
  /\ ready \subseteq Obj /\ tab \in [PoTask -> PoTask \cup {0}]
  /\ fds \in [PoTask -> [PFd -> Obj \cup {0, Ep}]]
  /\ owners \in [PoTask -> PoTask \cup {0}] /\ \A t \in PoTask : refs[t] \in 0 .. Cardinality(PoTask)
  /\ \A t \in PoTask : maps[t] = NoMap \/ maps[t] \subseteq PFd
  /\ \A t \in PoTask : pt[t].left \subseteq PFd /\ pt[t].out \subseteq PFd

(* A call that returns without an error reports every descriptor that was ready from   *)
(* its first to its last step, whatever the others did meanwhile; epoll_wait may leave *)
(* some to the next call when its array is full, and promises it for level interests.  *)
SteadyReported ==
  \A t \in PoTask : (At(t, "done") /\ pt[t].phase \notin {"eintr", "ebadf"}) =>
    \/ pt[t].steady \subseteq pt[t].out
    \/ pt[t].kind = "epoll" /\ Cardinality(pt[t].out) = MaxEvents

(* poll and epoll_wait return 0 only when the deadline has passed.  select's second     *)
(* scan may find nothing left, so it promises less.                                *)
ZeroMeansExpired ==
  \A t \in PoTask : (At(t, "done") /\ pt[t].kind \in {"poll", "epoll"} /\ pt[t].out = {}) =>
    pt[t].timed = "expired" \/ pt[t].phase \in {"eintr", "ebadf"}

(* The registry knows the epoll descriptors of every task and no other descriptor, but  *)
(* for the call that is about to bring it up to date; a map lives while a task uses it.  *)
EpollsRegistered ==
  /\ \A t \in PoTask, d \in PFd :
       (tab[t] # 0 /\ ~At(t, "born")) =>
          \/ lookup(t, d) <=> File(t, d) = Ep
          \/ \E x \in PoTask : tab[x] = tab[t] /\ pt[x].fd = d /\ pt[x].pc \in {"register", "unregister", "replace"}
  /\ \A t \in PoTask : (tab[t] # 0 /\ ~At(t, "born") /\ owners[t] # 0) =>
       refs[owners[t]] > 0 /\ maps[owners[t]] # NoMap

(* EPOLLONESHOT: an interest that was disarmed has been reported, or is about to be by  *)
(* the scan that disarmed it.                                                     *)
OneShotReported ==
  \A d \in PFd : (interests[d].once /\ ~interests[d].armed) =>
    d \in given \/ \E t \in PoTask : pt[t].kind = "epoll" /\ pt[t].phase = "loop" /\ d \in pt[t].out
=============================================================================
