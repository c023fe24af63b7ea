-------------------------------- MODULE Shm --------------------------------
(***************************************************************************)
(* SysV shared memory: the registry of segments and attachments (ipc-shm       *)
(* registry.rs) and the calls that keep it in step with the page tables        *)
(* (syscall-impl sys/ipc/shm.rs).  The registry's lock is never held while an  *)
(* address space is changed, so attach, detach, fork and exit are made of      *)
(* several steps.  The frames of a segment are free exactly when it is gone.   *)
(***************************************************************************)
EXTENDS Naturals, FiniteSets, FiniteSetsExt

CONSTANTS HTask, MaxSeg, Base,   \* tasks (numbers; the least starts), segments, attach addresses
          HOps                   \* subset of {"fork", "thread", "exec", "rmid", "exit"}

VARIABLES seg,          \* seg[id]: [live, nattch, removed, keyed]
          h_next,       \* next segment id
          h_key,        \* the segment the one key names, 0 if none
          attachments,  \* attachments[t]: set of [id, base]
          reserved,     \* reserved[t]: segment of t's attach reservation or 0
          aspace,       \* aspace[t]: address space of t, 0 if t is not there
          maps,         \* maps[a][b]: segment mapped at b in space a or 0
          hcall         \* hcall[t]: what t is doing
hvars == <<seg, h_next, h_key, attachments, reserved, aspace, maps, hcall>>

SegId == 1 .. MaxSeg
NoSeg == [live |-> FALSE, nattch |-> 0, removed |-> FALSE, keyed |-> FALSE]
HNone == [pc |-> "run", id |-> 0, base |-> 0, left |-> {}, then |-> "run"]
HIn(t, l) == aspace[t] # 0 /\ hcall[t].pc = l
HGo(t, r) == hcall' = [hcall EXCEPT ![t] = r]
Empty == [b \in Base |-> 0]
Users(a) == {t \in HTask : aspace[t] = a}

HInit ==
  /\ seg = [id \in SegId |-> NoSeg] /\ h_next = 1 /\ h_key = 0
  /\ attachments = [t \in HTask |-> {}] /\ reserved = [t \in HTask |-> 0]
  /\ aspace = [t \in HTask |-> IF t = Min(HTask) THEN t ELSE 0]
  /\ maps = [a \in HTask |-> Empty] /\ hcall = [t \in HTask |-> HNone]

-----------------------------------------------------------------------------
(* Dropping a reference; the last one of a removed segment frees its frames,    *)
(* and takes the segment's key out of the index whatever the key names by then. *)
Gone(S, id) == S[id].removed /\ S[id].nattch = 1
detach_attachment(S, id) == IF Gone(S, id) THEN [S EXCEPT ![id] = NoSeg] ELSE [S EXCEPT ![id].nattch = @ - 1]
remove_key(id, gone) == h_key' = IF gone /\ seg[id].keyed THEN 0 ELSE h_key
create_or_get(t, keyed) ==
  /\ HIn(t, "run") /\ (keyed => h_key = 0) /\ h_next \in SegId
  /\ seg' = [seg EXCEPT ![h_next].live = TRUE, ![h_next].keyed = keyed]
  /\ h_key' = (IF keyed THEN h_next ELSE h_key) /\ h_next' = h_next + 1
  /\ UNCHANGED <<attachments, reserved, aspace, maps, hcall>>
mark_removed(t, id) ==
  /\ "rmid" \in HOps /\ HIn(t, "run") /\ seg[id].live /\ remove_key(id, TRUE)
  /\ seg' = [seg EXCEPT ![id] = IF @.nattch = 0 THEN NoSeg ELSE [@ EXCEPT !.removed = TRUE]]
  /\ UNCHANGED <<h_next, attachments, reserved, aspace, maps, hcall>>

(* shmat: reserve, map, commit or cancel.                                     *)
begin_attach(t, id) ==
  /\ HIn(t, "run") /\ seg[id].live
  /\ seg' = [seg EXCEPT ![id].nattch = @ + 1] /\ reserved' = [reserved EXCEPT ![t] = id]
  /\ HGo(t, [HNone EXCEPT !.pc = "map", !.id = id]) /\ UNCHANGED <<h_next, h_key, attachments, aspace, maps>>
map_attach_pages(t, b) ==
  /\ HIn(t, "map")
  /\ \/ maps[aspace[t]][b] = 0 /\ maps' = [maps EXCEPT ![aspace[t]][b] = hcall[t].id]
        /\ HGo(t, [hcall[t] EXCEPT !.pc = "finish", !.base = b])
     \/ maps[aspace[t]][b] # 0 /\ HGo(t, [hcall[t] EXCEPT !.pc = "cancel"]) /\ UNCHANGED maps
  /\ UNCHANGED <<seg, h_next, h_key, attachments, reserved, aspace>>
finish_attach(t) ==
  /\ HIn(t, "finish") /\ HGo(t, HNone) /\ reserved' = [reserved EXCEPT ![t] = 0]
  /\ attachments' = [attachments EXCEPT ![t] = @ \cup {[id |-> hcall[t].id, base |-> hcall[t].base]}]
  /\ UNCHANGED <<seg, h_next, h_key, aspace, maps>>
cancel_attach_reservation(t) ==
  /\ HIn(t, "cancel") /\ HGo(t, HNone) /\ reserved' = [reserved EXCEPT ![t] = 0]
  /\ seg' = detach_attachment(seg, hcall[t].id)
  /\ remove_key(hcall[t].id, Gone(seg, hcall[t].id)) /\ UNCHANGED <<h_next, attachments, aspace, maps>>

(* shmdt: find the attachment, unmap it, then give the reference back.         *)
sys_shmdt(t, x) ==
  /\ HIn(t, "run") /\ x \in attachments[t]
  /\ HGo(t, [HNone EXCEPT !.pc = "unmap", !.left = {x}]) /\ UNCHANGED <<seg, h_next, h_key, attachments, reserved, aspace, maps>>
(* Unmapping, in order; a range that is not wholly the segment's is refused,    *)
(* and its attachment stays.                                                   *)
unmap_shared_range(t, x) ==
  /\ HIn(t, "unmap") /\ x \in hcall[t].left /\ \A y \in hcall[t].left : x.base <= y.base
  /\ IF maps[aspace[t]][x.base] # 0
     THEN maps' = [maps EXCEPT ![aspace[t]][x.base] = 0] /\ HGo(t, [hcall[t] EXCEPT !.pc = "detach"])
     ELSE UNCHANGED maps /\ HGo(t, [hcall[t] EXCEPT !.left = @ \ {x}])
  /\ UNCHANGED <<seg, h_next, h_key, attachments, reserved, aspace>>
detach(t, x) ==
  /\ HIn(t, "detach") /\ x \in hcall[t].left /\ \A y \in hcall[t].left : x.base <= y.base
  /\ attachments' = [attachments EXCEPT ![t] = @ \ {x}] /\ seg' = detach_attachment(seg, x.id)
  /\ remove_key(x.id, Gone(seg, x.id))
  /\ HGo(t, [hcall[t] EXCEPT !.pc = "unmap", !.left = @ \ {x}])
  /\ UNCHANGED <<h_next, reserved, aspace, maps>>

(* A task that exits, or execs, first detaches everything it is recorded for.  *)
drop_task_attachments(t, why) ==
  /\ HIn(t, "run") /\ why \in HOps \cap {"exit", "exec"}
  /\ why = "exit" \/ Users(aspace[t]) = {t}   \* exec ended the other threads
  /\ HGo(t, [HNone EXCEPT !.pc = "unmap", !.left = attachments[t], !.then = why])
  /\ UNCHANGED <<seg, h_next, h_key, attachments, reserved, aspace, maps>>
(* The attachments are gone; shmdt returns, exec gets a new space, exit leaves.  *)
(* A space nobody runs in is destroyed; its entries of segments are only       *)
(* forgotten.                                                                 *)
FreeSpaces == HTask \ {aspace[u] : u \in HTask}
dropped(t) ==
  /\ HIn(t, "unmap") /\ hcall[t].left = {}
  /\ LET why == hcall[t].then  a == aspace[t] IN
     /\ aspace' = IF why = "exit" THEN [aspace EXCEPT ![t] = 0] ELSE aspace
     /\ maps' = IF why # "run" /\ Users(a) = {t} THEN [maps EXCEPT ![a] = Empty] ELSE maps
  /\ HGo(t, HNone) /\ UNCHANGED <<seg, h_next, h_key, attachments, reserved>>

-----------------------------------------------------------------------------
(* fork: the space is copied with its shared entries, then the attachments of   *)
(* the calling task.  A thread runs in the process's space without attachments  *)
(* of its own.                                                                *)
fork_space(t, c, how) ==
  /\ how \in HOps \cap {"fork", "thread"} /\ HIn(t, "run") /\ aspace[c] = 0 /\ attachments[c] = {}
  /\ LET a == IF how = "fork" THEN Min(FreeSpaces) ELSE aspace[t] IN
     /\ aspace' = [aspace EXCEPT ![c] = a] /\ maps' = [maps EXCEPT ![a] = maps[aspace[t]]]
  /\ hcall' = IF how = "thread" THEN hcall
              ELSE [hcall EXCEPT ![t] = [HNone EXCEPT !.pc = "fork", !.id = c], ![c] = [HNone EXCEPT !.pc = "new"]]
  /\ UNCHANGED <<seg, h_next, h_key, attachments, reserved>>
Inherits(t) ==
  LET c == hcall[t].id IN
  /\ HIn(t, "fork") /\ attachments' = [attachments EXCEPT ![c] = attachments[t]]
  /\ hcall' = [hcall EXCEPT ![t] = HNone, ![c] = HNone] /\ UNCHANGED <<h_next, h_key, reserved, aspace, maps>>
fork_task(t) ==
  /\ Inherits(t)
  /\ seg' = [id \in SegId |-> [seg[id] EXCEPT !.nattch = @ + Cardinality({x \in attachments[t] : x.id = id})]]

HNext ==
  \E t \in HTask :
    \/ finish_attach(t) \/ cancel_attach_reservation(t) \/ dropped(t) \/ fork_task(t)
    \/ \E keyed \in BOOLEAN : create_or_get(t, keyed)
    \/ \E id \in SegId : mark_removed(t, id) \/ begin_attach(t, id)
    \/ \E b \in Base : map_attach_pages(t, b)
    \/ \E x \in attachments[t] : sys_shmdt(t, x) \/ unmap_shared_range(t, x) \/ detach(t, x)
    \/ \E why \in {"exit", "exec"} : drop_task_attachments(t, why)
    \/ \E c \in HTask, how \in {"fork", "thread"} : fork_space(t, c, how)
HSpec == HInit /\ [][HNext]_hvars

-----------------------------------------------------------------------------
HTypeOK ==
  /\ \A id \in SegId : seg[id].nattch \in Nat /\ (seg[id].nattch > 0 => seg[id].live) /\ (seg[id].live => id < h_next)
  /\ \A t \in HTask : attachments[t] \subseteq [id : SegId, base : Base] /\ reserved[t] \in SegId \cup {0}

(* The attach count of a segment is the number of attachments and of attaches   *)
(* under way, across failed maps, forks, exits and removals.                   *)
AttachCounts ==
  \A id \in SegId :
    seg[id].nattch = MapThenSumSet(LAMBDA t : Cardinality({x \in attachments[t] : x.id = id}), HTask)
                     + Cardinality({t \in HTask : reserved[t] = id})

(* No page table maps the frames of a segment that is gone: RMID, detach, exit  *)
(* and exec free them only after the last space that holds them let go.        *)
FramesHeld == \A a \in HTask, b \in Base : (Users(a) # {} /\ maps[a][b] # 0) => seg[maps[a][b]].live

(* A segment that was not removed is the one its key names.  The code breaks    *)
(* this: the last detach of a removed segment removes the key a second time,    *)
(* when a new segment may own it.                                              *)
KeyNames == \A id \in SegId : (seg[id].live /\ seg[id].keyed /\ ~seg[id].removed) => h_key = id
=============================================================================
