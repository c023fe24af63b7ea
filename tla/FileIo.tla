------------------------------- MODULE FileIo -------------------------------
(***************************************************************************)
(* Reads, writes and transfers between descriptors: sys/fs/io.rs, transfer.rs, *)
(* sendfile.rs, fallocate.rs and truncate.rs over memfds (memfd.rs) with the   *)
(* open file description of vfs-api handle.rs, and over pipes.                *)
(*                                                                         *)
(* A call is cut wherever the code releases the description's reservation,    *)
(* the lock of the memfd or of the pipe.  A byte is a small number.  Pipes    *)
(* keep what the calls use of them: the queue, its read lease and its ends;    *)
(* module Pipe has their own protocol.  A call that fails before it changes    *)
(* anything is not a step.                                                   *)
(***************************************************************************)
EXTENDS Integers, Sequences, FiniteSets

CONSTANTS FTask,      \* calling threads; their descriptors share the descriptions
          Ofd,        \* open file descriptions of memfds
          Pip,        \* pipes
          Inode, InodeOf, Content,   \* memfds, the one a description is of, its first bytes
          Queued, Cap,\* what a pipe holds first, and its capacity
          Chunk,      \* IO_CHUNK
          Into,       \* the ends that calls write to
          MaxSize,    \* bound: length of a file, of a request, of all that goes into a pipe or is read
          FOps        \* the calls a behaviour may make

VARIABLES inode,      \* data, seals, writable_shared_mappings of a memfd
          ofd,        \* VfsOpenDescriptionState: offset, O_APPEND, the active reservation
          pipe,       \* queue, lease holder, open ends
          th,         \* the call of each thread
          got, put    \* bytes a source has handed over; bytes put into a pipe
fvars == <<inode, ofd, pipe, th, got, put>>

Seals == {"seal", "shrink", "grow", "write", "future_write", "exec"}
Endpoint == Ofd \cup Pip
FMin(a, b) == IF a < b THEN a ELSE b
Zeros(n) == [i \in 1 .. n |-> 0]
NoCall == [op |-> "none", pc |-> "idle", src |-> "-", dst |-> "-", spos |-> 0, dpos |-> 0, sexp |-> TRUE,
           dexp |-> TRUE, want |-> 0, done |-> 0, buf |-> <<>>, w |-> 0, err |-> "none", cause |-> "none",
           from |-> <<>>, to |-> <<>>]
Iov == {[len |-> k, ok |-> b] : k \in {0, 2}, b \in BOOLEAN}

FTypeOK ==
  /\ \A i \in Inode : /\ inode[i].data \in Seq(Nat) /\ Len(inode[i].data) <= MaxSize + MaxSize
                      /\ inode[i].seals \subseteq Seals /\ inode[i].maps \in 0 .. 2
  /\ \A o \in Ofd : /\ ofd[o].offset \in Nat /\ ofd[o].append \in BOOLEAN
                    /\ ofd[o].owner \in FTask \cup {0} /\ ofd[o].at \in Nat
  /\ \A p \in Pip : /\ Len(pipe[p].buf) <= Cap /\ pipe[p].owner \in FTask \cup {0}
                    /\ pipe[p].reader \in BOOLEAN /\ pipe[p].writer \in BOOLEAN
  /\ DOMAIN th = FTask
  /\ \A t \in FTask : th[t].done <= th[t].want /\ th[t].w <= Len(th[t].buf)

(* MemFdHandle::new: a sealable file has no seals, any other one F_SEAL_SEAL    *)
(* (sys_memfd_create); the test content is as if written.                     *)
FInit ==
  /\ inode = [i \in Inode |-> [data |-> Content, seals |-> {}, maps |-> 0]]
  /\ ofd = [o \in Ofd |-> [offset |-> 0, append |-> "append" \in FOps, owner |-> 0, at |-> 0]]
  /\ pipe = [p \in Pip |-> [buf |-> Queued, owner |-> 0, reader |-> TRUE, writer |-> TRUE]]
  /\ th = [t \in FTask |-> NoCall]
  /\ got = [e \in Endpoint |-> <<>>]
  /\ put = [p \in Pip |-> Queued]

Data(o) == inode[InodeOf[o]].data
At(t, pc) == th[t].pc = pc
Call(t, r) == th[t].pc = "idle" /\ th' = [th EXCEPT ![t] = r]
Go(t, pc) == th' = [th EXCEPT ![t].pc = pc]
(* The end of a call; what it was stays for the properties about results.      *)
Done(t, r) == th' = [th EXCEPT ![t] = IF "result" \in FOps THEN [r EXCEPT !.pc = "idle", !.buf = <<>>, !.w = 0]
                                      ELSE NoCall]
Return(t, e) == Done(t, [th[t] EXCEPT !.err = e])

-----------------------------------------------------------------------------
(* The open file description.                                                *)
Idle(o) == ofd[o].owner = 0
begin_read_busy(t, o) == ofd' = [ofd EXCEPT ![o].owner = t, ![o].at = ofd[o].offset]
begin_read(t, o) == /\ Idle(o)
                    /\ ofd' = [ofd EXCEPT ![o].owner = t, ![o].at = ofd[o].offset]
retarget_read(t, o, at) == ofd[o].owner = t /\ ofd' = [ofd EXCEPT ![o].at = at]
finish_read(t, o, copied) ==
  ofd[o].owner = t /\ ofd' = [ofd EXCEPT ![o].owner = 0, ![o].offset = ofd[o].at + copied, ![o].at = 0]
cancel_read(t, o) == ofd[o].owner = t /\ ofd' = [ofd EXCEPT ![o].owner = 0, ![o].at = 0]
set_offset_if_idle(o, at) == Idle(o) /\ ofd' = [ofd EXCEPT ![o].offset = at]

(* The memfd.                                                                *)
Overlay(data, at, bytes) ==
  LET end == at + Len(bytes)
  IN  [i \in 1 .. (IF end > Len(data) THEN end ELSE Len(data)) |->
         IF i > at /\ i <= end THEN bytes[i - at] ELSE IF i <= Len(data) THEN data[i] ELSE 0]
MayWrite_to_grow(i, end) == "write" \notin inode[i].seals
MayWrite(i, end) ==
  /\ "write" \notin inode[i].seals
  /\ end > Len(inode[i].data) => "grow" \notin inode[i].seals
write_at(i, at, bytes) == inode' = [inode EXCEPT ![i].data = Overlay(@, at, bytes)]
MayTruncate(i, len) ==
  LET f == inode[i]
  IN  /\ "write" \notin f.seals
      /\ len < Len(f.data) => "shrink" \notin f.seals
      /\ len > Len(f.data) => "grow" \notin f.seals
Resized(data, len) == [k \in 1 .. len |-> IF k <= Len(data) THEN data[k] ELSE 0]
truncate(i, len) == MayTruncate(i, len) /\ inode' = [inode EXCEPT ![i].data = Resized(@, len)]

(* add_seals: nothing new is no change; F_SEAL_WRITE needs that no writable    *)
(* shared mapping holds a lease.                                             *)
add_seals(i, s) ==
  /\ "seal" \in FOps
  /\ ~(s \subseteq inode[i].seals) /\ "seal" \notin inode[i].seals
  /\ "write" \in s \ inode[i].seals => inode[i].maps = 0
  /\ inode' = [inode EXCEPT ![i].seals = @ \cup s]
  /\ UNCHANGED <<ofd, pipe, th, got, put>>
(* prepare_mapping of a shared writable mapping, and the drop of its lease.    *)
begin_mapping(i) ==
  /\ "map" \in FOps /\ inode[i].maps < 2
  /\ inode[i].seals \cap {"write", "future_write"} = {}
  /\ inode' = [inode EXCEPT ![i].maps = @ + 1]
  /\ UNCHANGED <<ofd, pipe, th, got, put>>
drop_mapping(i) ==
  /\ inode[i].maps > 0
  /\ inode' = [inode EXCEPT ![i].maps = @ - 1]
  /\ UNCHANGED <<ofd, pipe, th, got, put>>

-----------------------------------------------------------------------------
(* read and readv.  User memory is a sequence of iovecs, each good or bad.     *)
Before(iov, j) == LET upto[k \in 0 .. Len(iov)] == IF k = 0 THEN 0 ELSE upto[k - 1] + iov[k].len
                  IN  upto[j - 1]
total_len(iov) == Before(iov, Len(iov) + 1)
Lands(iov, k) == \E j \in 1 .. Len(iov) : /\ Before(iov, j) < k /\ k <= Before(iov, j) + iov[j].len
                                          /\ iov[j].ok
(* IovScatterCursor::write: how many of n bytes land before the first that    *)
(* faults.                                                                   *)
scatter_progress(iov, n) ==
  CHOOSE c \in 0 .. n : /\ \A k \in 1 .. c : Lands(iov, k)
                        /\ c < n => ~Lands(iov, c + 1)
Vectors == IF "vec" \in FOps THEN {<<a>> : a \in Iov} \cup {<<a, b>> : a \in Iov, b \in Iov}
           ELSE {<<[len |-> n, ok |-> b]>> : n \in 1 .. MaxSize, b \in {TRUE, "fault" \notin FOps}}

(* Nothing to read is a result at once; the descriptor is leased, the transfer  *)
(* is at most SYSCALL_IO_MAX.                                                *)
sys_readv(t, e, iov) ==
  /\ "read" \in FOps /\ total_len(iov) > 0 /\ Len(got[e]) <= MaxSize
  /\ Call(t, [NoCall EXCEPT !.op = "read", !.pc = "acquire", !.src = e,
                            !.want = FMin(total_len(iov), MaxSize), !.to = iov])
  /\ UNCHANGED <<inode, ofd, pipe, got, put>>

sys_read(t, e, iov) == Len(iov) = 1 /\ sys_readv(t, e, iov)

(* MemFdPreparedRead::acquire reserves the offset and then takes the bytes     *)
(* under the lock of the file; an offset behind the end makes the slice panic. *)
Want(t) == IF th[t].op = "read" THEN th[t].want ELSE FMin(th[t].want - th[t].done, Chunk)
Acquire(t) ==
  /\ At(t, "acquire") /\ th[t].src \in Ofd
  /\ begin_read(t, th[t].src)
  /\ Go(t, "stage") /\ UNCHANGED <<inode, pipe, got, put>>
Loaded(t, pc, bytes) == th' = [th EXCEPT ![t].pc = pc, ![t].buf = bytes, ![t].w = 0]
Leased(t, bytes) == Loaded(t, IF th[t].op = "read" THEN "copy" ELSE IF bytes = <<>> THEN "finish" ELSE "write", bytes)
Stage(t) ==
  /\ At(t, "stage")
  /\ LET o == th[t].src
         data == Data(o)
         at == ofd[o].at
     IN  \/ /\ at <= Len(data)
            /\ Leased(t, SubSeq(data, at + 1, FMin(Len(data), at + Want(t))))
            /\ UNCHANGED ofd
         \/ /\ at > Len(data) /\ Go(t, "panicked") /\ UNCHANGED ofd
         \/ /\ "oom" \in FOps /\ at < Len(data)
            /\ cancel_read(t, o)
            /\ Return(t, "ENOMEM")
  /\ UNCHANGED <<inode, pipe, got, put>>
(* A lease on a pipe: not while another holds one, not while it is empty and a  *)
(* writer is left.                                                           *)
PipeLease(t) ==
  /\ At(t, "acquire") /\ th[t].src \in Pip
  /\ LET p == pipe[th[t].src]
     IN  /\ p.owner = 0 /\ (p.buf # <<>> \/ ~p.writer)
         /\ Leased(t, SubSeq(p.buf, 1, FMin(Len(p.buf), Want(t))))
  /\ pipe' = [pipe EXCEPT ![th[t].src].owner = t]
  /\ UNCHANGED <<inode, ofd, got, put>>

(* VfsReadLease::finish: the source loses what arrived, nothing if nothing did. *)
FinishLease(t, copied) ==
  LET e == th[t].src
  IN  IF e \in Ofd
      THEN finish_read(t, e, copied) /\ UNCHANGED pipe
      ELSE /\ pipe' = [pipe EXCEPT ![e].owner = 0, ![e].buf = SubSeq(@, copied + 1, Len(@))]
           /\ UNCHANGED ofd
Hand(t, n) == got' = [got EXCEPT ![th[t].src] = @ \o SubSeq(th[t].buf, 1, n)]
finish_scattered_read(t) ==
  /\ At(t, "copy")
  /\ LET n == Len(th[t].buf)
         copied == scatter_progress(th[t].to, n)
     IN  /\ FinishLease(t, copied)
         /\ Hand(t, copied)
         /\ Done(t, [th[t] EXCEPT !.done = copied, !.err = IF copied = 0 /\ n > 0 THEN "EFAULT" ELSE "none"])
  /\ UNCHANGED <<inode, put>>

-----------------------------------------------------------------------------
(* write and writev.  gather_imported_iovecs: one bad iovec fails the call      *)
(* before anything is written.                                              *)
Bytes(t, n) == [k \in 1 .. n |-> 10 + t]
gather_imported_iovecs(iov) == \A j \in 1 .. Len(iov) : iov[j].len > 0 => iov[j].ok
sys_writev(t, e, iov) ==
  /\ "write" \in FOps /\ total_len(iov) > 0 /\ gather_imported_iovecs(iov)
  /\ Call(t, [NoCall EXCEPT !.op = "write", !.pc = "reserve", !.dst = e, !.want = total_len(iov),
                            !.buf = Bytes(t, FMin(total_len(iov), MaxSize))])
  /\ UNCHANGED <<inode, ofd, pipe, got, put>>
sys_write(t, e, iov) == Len(iov) = 1 /\ sys_writev(t, e, iov)
(* write_fd asks again while the description is busy.                         *)
write_fd(t) ==
  /\ At(t, "reserve") /\ th[t].dst \in Ofd
  /\ begin_read(t, th[t].dst)
  /\ Go(t, IF ofd[th[t].dst].append THEN "target" ELSE "store")
  /\ UNCHANGED <<inode, pipe, got, put>>
Retarget(t) ==
  /\ At(t, "target")
  /\ retarget_read(t, th[t].dst, Len(Data(th[t].dst)))
  /\ Go(t, "store") /\ UNCHANGED <<inode, pipe, got, put>>
Store(t) ==
  /\ At(t, "store")
  /\ LET o == th[t].dst
         at == ofd[o].at
     IN  \/ /\ MayWrite(InodeOf[o], at + Len(th[t].buf)) /\ at + Len(th[t].buf) <= MaxSize
            /\ write_at(InodeOf[o], at, th[t].buf)
            /\ Go(t, "commit") /\ UNCHANGED ofd
         \/ /\ ~MayWrite(InodeOf[o], at + Len(th[t].buf)) \/ at + Len(th[t].buf) > MaxSize \/ "oom" \in FOps
            /\ cancel_read(t, o)
            /\ IF th[t].op = "write" THEN Return(t, "EPERM")
               ELSE th' = [th EXCEPT ![t].pc = "finish", ![t].err = "EPERM"]
            /\ UNCHANGED inode
  /\ UNCHANGED <<pipe, got, put>>
Commit(t) ==
  /\ At(t, "commit")
  /\ finish_read(t, th[t].dst, Len(th[t].buf))
  /\ IF th[t].op = "write" THEN Done(t, [th[t] EXCEPT !.done = Len(th[t].buf)])
     ELSE th' = [th EXCEPT ![t].pc = "finish", ![t].w = Len(th[t].buf)]
  /\ UNCHANGED <<inode, pipe, got, put>>

(* pwrite64 looks at O_APPEND, then at the size, then writes; pwritev goes      *)
(* straight to its offset.                                                   *)
sys_pwrite64(t, o, at, n) ==
  /\ "pwrite" \in FOps
  /\ Call(t, [NoCall EXCEPT !.op = "pwrite", !.pc = IF ofd[o].append THEN "size" ELSE "put", !.dst = o,
                            !.dpos = at, !.want = n, !.buf = Bytes(t, n)])
  /\ UNCHANGED <<inode, ofd, pipe, got, put>>
AppendAt(t) ==
  /\ At(t, "size") /\ th' = [th EXCEPT ![t].pc = "put", ![t].dpos = Len(Data(th[t].dst))]
  /\ UNCHANGED <<inode, ofd, pipe, got, put>>
pwritev_at(t, o, at, n) ==
  /\ "pwritev" \in FOps
  /\ Call(t, [NoCall EXCEPT !.op = "pwrite", !.pc = "put", !.dst = o, !.dpos = at, !.want = n, !.buf = Bytes(t, n)])
  /\ UNCHANGED <<inode, ofd, pipe, got, put>>
Pwrite(t) ==
  /\ At(t, "put")
  /\ LET i == InodeOf[th[t].dst]
         end == th[t].dpos + Len(th[t].buf)
     IN  IF MayWrite(i, end) /\ end <= MaxSize
         THEN /\ write_at(i, th[t].dpos, th[t].buf)
              /\ Done(t, [th[t] EXCEPT !.done = th[t].want])
         ELSE Return(t, "EPERM") /\ UNCHANGED inode
  /\ UNCHANGED <<ofd, pipe, got, put>>

(* preadv: chunk by chunk until a short one, the end, or a fault.              *)
preadv_at(t, o, at, iov) ==
  /\ "preadv" \in FOps /\ total_len(iov) > 0
  /\ Call(t, [NoCall EXCEPT !.op = "preadv", !.pc = "pread", !.src = o, !.spos = at,
                            !.want = FMin(total_len(iov), MaxSize), !.to = iov])
  /\ UNCHANGED <<inode, ofd, pipe, got, put>>
PreadChunk(t) ==
  /\ At(t, "pread")
  /\ LET c == th[t]
         data == Data(c.src)
         chunk == FMin(Chunk, c.want - c.done)
         read == IF c.spos >= Len(data) THEN 0 ELSE FMin(chunk, Len(data) - c.spos)
         landed == scatter_progress(c.to, c.done + read)
         next == [c EXCEPT !.done = landed, !.spos = c.spos + read,
                           !.from = c.from \o SubSeq(data, c.spos + 1, c.spos + landed - c.done),
                           !.err = IF landed = 0 /\ read > 0 THEN "EFAULT" ELSE "none"]
     IN  IF read < chunk \/ landed < c.done + read \/ c.done + read = c.want
         THEN Done(t, next) ELSE th' = [th EXCEPT ![t] = next]
  /\ UNCHANGED <<inode, ofd, pipe, got, put>>

(* preadv2 and pwritev2 without flags: an offset of -1 is the current one.      *)
sys_preadv2(t, o, at, iov) ==
  "v2" \in FOps /\ IF at = -1 THEN sys_readv(t, o, iov) ELSE preadv_at(t, o, at, iov)
sys_pwritev2(t, o, at, n) ==
  "v2" \in FOps /\ IF at = -1 THEN sys_writev(t, o, <<[len |-> n, ok |-> TRUE]>>) ELSE pwritev_at(t, o, at, n)

(* lseek: SEEK_END takes the size in one lock and stores the offset in another. *)
sys_lseek(t, o, at) ==
  /\ "seek" \in FOps /\ At(t, "idle") /\ set_offset_if_idle(o, at)
  /\ UNCHANGED <<inode, pipe, th, got, put>>
SeekEnd(t, o) ==
  /\ "seek" \in FOps
  /\ Call(t, [NoCall EXCEPT !.op = "seek", !.pc = "setend", !.dst = o, !.dpos = Len(Data(o))])
  /\ UNCHANGED <<inode, ofd, pipe, got, put>>
SetEnd(t) ==
  /\ At(t, "setend") /\ set_offset_if_idle(th[t].dst, th[t].dpos)
  /\ Return(t, "none") /\ UNCHANGED <<inode, pipe, got, put>>

(* ftruncate of a memfd does not touch the offset; fallocate compares the size  *)
(* in one lock and extends in another.                                       *)
sys_ftruncate(t, o, len) ==
  /\ "truncate" \in FOps /\ At(t, "idle") /\ truncate(InodeOf[o], len)
  /\ UNCHANGED <<ofd, pipe, th, got, put>>
sys_fallocate(t, o, end) ==
  /\ "fallocate" \in FOps /\ Len(Data(o)) < end
  /\ Call(t, [NoCall EXCEPT !.op = "fallocate", !.pc = "extend", !.dst = o, !.want = end])
  /\ UNCHANGED <<inode, ofd, pipe, got, put>>
Extend(t) ==
  /\ At(t, "extend")
  /\ \/ truncate(InodeOf[th[t].dst], th[t].want) /\ Return(t, "none")
     \/ ~MayTruncate(InodeOf[th[t].dst], th[t].want) /\ Return(t, "EPERM") /\ UNCHANGED inode
  /\ UNCHANGED <<ofd, pipe, got, put>>

-----------------------------------------------------------------------------
(* Transfers.  A file end of copy_file_range and splice has a FileCursor: an    *)
(* offset of the caller, or the current one, read here and stored at the end.  *)
validate_access(e) == e \in Pip
validate_regular(e, write) == e \in Ofd /\ (write => ~ofd[e].append)
ranges_overlap(a, b, len) == len > 0 /\ a < b + len /\ b < a + len
(* nonblocking_pipe_limit: a snapshot of what is queued or free.               *)
nonblocking_pipe_limit(nb, s, d, n) ==
  LET m == IF nb /\ s \in Pip THEN FMin(n, Len(pipe[s].buf)) ELSE n
  IN  IF nb /\ d \in Pip THEN FMin(m, Cap - Len(pipe[d].buf)) ELSE m
Transfer(t, op, s, d, sp, dp, se, de, n) ==
  /\ n > 0 /\ (d \in Pip => Len(put[d]) + n <= MaxSize)
  /\ Call(t, [NoCall EXCEPT !.op = op, !.src = s, !.dst = d, !.spos = sp, !.dpos = dp, !.sexp = se, !.dexp = de,
                            !.want = n, !.pc = IF se THEN IF de THEN "fetch" ELSE "import_out" ELSE "import_in",
                            !.from = IF s \in Ofd /\ "result" \in FOps THEN Data(s) ELSE <<>>,
                            !.to = IF d \in Ofd /\ "result" \in FOps THEN Data(d) ELSE <<>>])
  /\ UNCHANGED <<inode, ofd, pipe, got, put>>
sys_copy_file_range(t, s, d, sp, dp, se, de, n) ==
  /\ "copy" \in FOps /\ validate_regular(s, FALSE) /\ validate_regular(d, TRUE)
  /\ Transfer(t, "copy", s, d, sp, dp, se, de, n)
sys_splice(t, s, d, sp, dp, se, de, n, nb) ==
  /\ "splice" \in FOps /\ (validate_access(s) \/ validate_access(d))
  /\ IF validate_access(s) THEN se ELSE validate_regular(s, FALSE)
  /\ IF validate_access(d) THEN de ELSE validate_regular(d, TRUE)
  /\ Transfer(t, "splice", s, d, sp, dp, se, de, nonblocking_pipe_limit(nb, s, d, n))
sys_tee(t, s, d, n, nb) ==
  /\ "tee" \in FOps /\ s \in Pip /\ d \in Pip /\ s # d
  /\ Transfer(t, "tee", s, d, 0, 0, TRUE, TRUE, nonblocking_pipe_limit(nb, s, d, n))
sys_sendfile(t, s, d, n) ==
  /\ "send" \in FOps /\ Transfer(t, "send", s, d, 0, 0, TRUE, TRUE, n)
sendfile_positional(t, s, d, sp, n) ==
  /\ "sendat" \in FOps /\ s \in Ofd /\ Transfer(t, "sendat", s, d, sp, 0, TRUE, TRUE, n)
sys_vmsplice(t, d, iov, nb) ==
  /\ "vmsplice" \in FOps /\ d \in Pip /\ total_len(iov) > 0
  /\ LET n == nonblocking_pipe_limit(nb, "-", d, total_len(iov))
     IN  /\ n > 0 /\ Len(put[d]) + n <= MaxSize
         /\ Call(t, [NoCall EXCEPT !.op = "vmsplice", !.pc = "fetch", !.dst = d, !.want = n, !.to = iov])
  /\ UNCHANGED <<inode, ofd, pipe, got, put>>

(* FileCursor::import of a current offset fails while the description is busy; *)
(* copy_file_range then refuses overlapping ranges of one file.               *)
import(t) ==
  /\ th[t].pc \in {"import_in", "import_out"}
  /\ LET in == At(t, "import_in")
         o == IF in THEN th[t].src ELSE th[t].dst
     IN  IF Idle(o)
         THEN th' = IF in THEN [th EXCEPT ![t].spos = ofd[o].offset,
                                          ![t].pc = IF th[t].dexp THEN "fetch" ELSE "import_out"]
                    ELSE [th EXCEPT ![t].dpos = ofd[o].offset, ![t].pc = "fetch"]
         ELSE Return(t, "EBUSY")
  /\ UNCHANGED <<inode, ofd, pipe, got, put>>
Overlaps(t) ==
  /\ th[t].op = "copy" /\ th[t].done = 0 /\ InodeOf[th[t].src] = InodeOf[th[t].dst]
  /\ ranges_overlap(th[t].spos, th[t].dpos, th[t].want)

(* The next chunk of the loop: a lease on a pipe or for a sequential sendfile,  *)
(* read_at for the others, user memory for vmsplice.                         *)
Fetch(t) ==
  /\ At(t, "fetch")
  /\ LET c == th[t]
         data == IF c.src \in Ofd THEN Data(c.src) ELSE <<>>
         n == FMin(Chunk, c.want - c.done)
         j == CHOOSE k \in 1 .. Len(c.to) : Before(c.to, k) <= c.done /\ c.done < Before(c.to, k) + c.to[k].len
         part == FMin(n, Before(c.to, j) + c.to[j].len - c.done)
     IN  CASE Overlaps(t) -> Return(t, "EINVAL")
           [] c.op = "vmsplice" /\ c.to[j].ok -> Loaded(t, "write", Bytes(t, part))
           [] c.op = "vmsplice" /\ ~c.to[j].ok -> Return(t, IF c.done = 0 THEN "EFAULT" ELSE "none")
           [] c.op = "send" \/ c.src \in Pip -> Go(t, "acquire")
           [] OTHER -> LET bytes == IF c.spos >= Len(data) THEN <<>>
                                    ELSE SubSeq(data, c.spos + 1, FMin(Len(data), c.spos + n))
                       IN  Loaded(t, IF bytes = <<>> THEN "publish_in" ELSE "write", bytes)
  /\ UNCHANGED <<inode, ofd, pipe, got, put>>

(* write_at_all and write_output: into a pipe as far as it has room, again and   *)
(* again until all is written, it breaks or a signal comes.                   *)
Failed(t, e) == th' = [th EXCEPT ![t].pc = "finish", ![t].err = e, ![t].cause = e]
write_at_all(t) ==
  /\ At(t, "write") /\ th[t].dst \in Pip
  /\ LET d == th[t].dst
         rest == SubSeq(th[t].buf, th[t].w + 1, Len(th[t].buf))
         n == FMin(Cap - Len(pipe[d].buf), Len(rest))
     IN  \/ /\ pipe[d].reader /\ n > 0
            /\ pipe' = [pipe EXCEPT ![d].buf = @ \o SubSeq(rest, 1, n)]
            /\ put' = [put EXCEPT ![d] = @ \o SubSeq(rest, 1, n)]
            /\ th' = [th EXCEPT ![t].w = @ + n, ![t].pc = IF n = Len(rest) THEN "finish" ELSE "write"]
         \/ /\ ~pipe[d].reader /\ Failed(t, "EPIPE") /\ UNCHANGED <<pipe, put>>
         \/ /\ "signal" \in FOps /\ pipe[d].reader /\ n = 0
            /\ Failed(t, "EINTR") /\ UNCHANGED <<pipe, put>>
  /\ UNCHANGED <<inode, ofd, got>>
WriteAt(t) ==
  /\ At(t, "write") /\ th[t].dst \in Ofd /\ th[t].op \in {"copy", "splice"}
  /\ LET i == InodeOf[th[t].dst]
         end == th[t].dpos + Len(th[t].buf)
     IN  \/ /\ MayWrite(i, end) /\ end <= MaxSize
            /\ write_at(i, th[t].dpos, th[t].buf)
            /\ th' = [th EXCEPT ![t].w = Len(th[t].buf), ![t].pc = "finish"]
         \/ /\ ~MayWrite(i, end) \/ end > MaxSize \/ "oom" \in FOps
            /\ Failed(t, "EPERM") /\ UNCHANGED inode
  /\ UNCHANGED <<ofd, pipe, got, put>>
write_output(t) ==
  /\ At(t, "write") /\ th[t].dst \in Ofd /\ th[t].op \in {"send", "sendat"}
  /\ \/ begin_read(t, th[t].dst) /\ Go(t, IF ofd[th[t].dst].append THEN "target" ELSE "store")
     \/ ~Idle(th[t].dst) /\ Failed(t, "EBUSY") /\ UNCHANGED ofd
  /\ UNCHANGED <<inode, pipe, got, put>>

(* The end of a round: the lease is finished with what was written, nothing of   *)
(* it for tee.  A lease of which nothing was written because of an error is a   *)
(* fault, and that replaces the error.                                       *)
Leases(t) == th[t].src \in Pip \/ th[t].op = "send"
consumed(t) == IF th[t].op = "tee" THEN 0 ELSE th[t].w
FinishRound(t) ==
  /\ At(t, "finish")
  /\ IF Leases(t) THEN FinishLease(t, consumed(t)) ELSE UNCHANGED <<ofd, pipe>>
  /\ IF th[t].src \in Endpoint /\ (Leases(t) \/ ~th[t].sexp) /\ th[t].op # "tee" THEN Hand(t, th[t].w) ELSE UNCHANGED got
  /\ LET c == th[t]
         fault == Leases(t) /\ c.op # "tee" /\ c.w = 0 /\ c.err # "none"
         more == c.err = "none" /\ c.w > 0 /\ c.w = Len(c.buf) /\ c.done + c.w < c.want /\ c.op # "tee"
     IN  th' = [th EXCEPT ![t].done = @ + c.w, ![t].spos = @ + c.w, ![t].dpos = @ + c.w, ![t].w = 0, ![t].buf = <<>>,
                          ![t].err = IF fault THEN "EFAULT" ELSE @, ![t].pc = IF more THEN "fetch" ELSE "publish_in"]
  /\ UNCHANGED <<inode, put>>

(* An error if nothing was moved, else the cursors are stored; a busy           *)
(* description fails the call then.                                          *)
finish_result(t) == IF th[t].done > 0 THEN "none" ELSE th[t].err
publish(t) ==
  /\ th[t].pc \in {"publish_in", "publish_out"}
  /\ LET in == At(t, "publish_in")
         o == IF in THEN th[t].src ELSE th[t].dst
         own == IF in THEN ~th[t].sexp ELSE ~th[t].dexp
         last == finish_result(t)
     IN  CASE last # "none" -> Return(t, last) /\ UNCHANGED ofd
           [] last = "none" /\ own /\ Idle(o) ->
                /\ set_offset_if_idle(o, IF in THEN th[t].spos ELSE th[t].dpos)
                /\ IF in THEN Go(t, "publish_out") ELSE Return(t, "none")
           [] last = "none" /\ own /\ ~Idle(o) -> Return(t, "EBUSY") /\ UNCHANGED ofd
           [] OTHER -> /\ IF in THEN Go(t, "publish_out") ELSE Return(t, "none")
                       /\ UNCHANGED ofd
  /\ UNCHANGED <<inode, pipe, got, put>>

(* Others at the pipe: plain writes to it, and the last close of an end.       *)
PipeWrite(t, p) ==
  /\ "feed" \in FOps /\ At(t, "idle") /\ pipe[p].writer /\ pipe[p].reader
  /\ Len(pipe[p].buf) < Cap /\ Len(put[p]) < MaxSize
  /\ pipe' = [pipe EXCEPT ![p].buf = Append(@, 1)] /\ put' = [put EXCEPT ![p] = Append(@, 1)]
  /\ UNCHANGED <<inode, ofd, th, got>>
CloseEnd(p, e) ==
  /\ "close" \in FOps
  /\ pipe[p][e] /\ pipe' = [pipe EXCEPT ![p][e] = FALSE]
  /\ UNCHANGED <<inode, ofd, th, got, put>>
SetAppend(o) ==
  /\ "setfl" \in FOps
  /\ ofd' = [ofd EXCEPT ![o].append = ~@] /\ UNCHANGED <<inode, pipe, th, got, put>>

FCalls(t) ==
  \/ \E e \in Endpoint, iov \in Vectors : sys_read(t, e, iov) \/ ("vec" \in FOps /\ sys_readv(t, e, iov))
  \/ \E o \in Ofd \cap Into, iov \in Vectors : sys_write(t, o, iov) \/ ("vec" \in FOps /\ sys_writev(t, o, iov))
  \/ \E o \in Ofd, at \in 0 .. MaxSize - 1 :
       \/ \E n \in 1 .. 2 : sys_pwrite64(t, o, at, n) \/ pwritev_at(t, o, at, n)
       \/ \E iov \in Vectors : preadv_at(t, o, at, iov)
       \/ \E a \in {-1, at}, iov \in Vectors : sys_preadv2(t, o, a, iov) \/ sys_pwritev2(t, o, a, total_len(iov))
       \/ sys_lseek(t, o, at) \/ SeekEnd(t, o) \/ sys_ftruncate(t, o, at) \/ sys_fallocate(t, o, at + 1)
  \/ \E s \in Endpoint, d \in Into, n \in 1 .. MaxSize, nb \in {FALSE, "nonblock" \in FOps} :
       \/ \E sp \in 0 .. 1, dp \in 0 .. 1, se \in {TRUE, "current" \notin FOps}, de \in {TRUE, "current" \notin FOps} :
            \/ sys_copy_file_range(t, s, d, sp, dp, se, de, n)
            \/ sys_splice(t, s, d, sp, dp, se, de, n, nb)
       \/ sys_tee(t, s, d, n, nb) \/ sys_sendfile(t, s, d, n)
       \/ \E sp \in 0 .. 1 : sendfile_positional(t, s, d, sp, n)
       \/ \E iov \in Vectors : sys_vmsplice(t, d, iov, nb)
  \/ \E p \in Pip : PipeWrite(t, p)
FSteps(t) ==
  \/ Acquire(t) \/ Stage(t) \/ PipeLease(t) \/ finish_scattered_read(t)
  \/ write_fd(t) \/ Retarget(t) \/ Store(t) \/ Commit(t) \/ AppendAt(t) \/ Pwrite(t) \/ PreadChunk(t)
  \/ SetEnd(t) \/ Extend(t)
  \/ import(t) \/ Fetch(t) \/ write_at_all(t) \/ WriteAt(t) \/ write_output(t) \/ FinishRound(t) \/ publish(t)
FNext ==
  \/ \E t \in FTask : FCalls(t) \/ FSteps(t)
  \/ \E i \in Inode : \/ \E s \in SUBSET {"write", "grow", "shrink", "seal"} : add_seals(i, s)
                      \/ begin_mapping(i) \/ drop_mapping(i)
  \/ \E p \in Pip, e \in {"reader", "writer"} : CloseEnd(p, e)
  \/ \E o \in Ofd : SetAppend(o)
FSpec == FInit /\ [][FNext]_fvars

-----------------------------------------------------------------------------
(* Properties.                                                              *)

(* A reservation of a description, or a lease of a pipe, belongs to a call that *)
(* is under way and will end it: every way out of a call finishes or cancels   *)
(* what it holds, else all other readers of the description spin for ever.     *)
LeasesEnd ==
  /\ \A o \in Ofd : ofd[o].owner # 0 =>
       LET c == th[ofd[o].owner]
       IN  \/ o = c.src /\ c.pc \in {"stage", "copy"}
           \/ o = c.src /\ c.op = "send" /\ c.pc \in {"write", "target", "store", "commit", "finish"}
           \/ o = c.dst /\ c.pc \in {"target", "store", "commit"}
  /\ \A p \in Pip : pipe[p].owner # 0 =>
       LET c == th[pipe[p].owner]
       IN  p = c.src /\ c.pc \in {"copy", "write", "target", "store", "commit", "finish"}

(* What went into a pipe is what its readers got, in order, and what is still   *)
(* queued: a splice, a sendfile or a read that moves less than it leased gives  *)
(* the rest back, and tee takes nothing.                                     *)
PipesConserved == \A p \in Pip : put[p] = got[p] \o pipe[p].buf

(* Readers that share a description split the file among them: no byte is read   *)
(* twice and none is skipped, whatever faults and partial writes there are.     *)
(* Calls that move the offset themselves are not among FOps then.              *)
ReadsInOrder == \A o \in Ofd : got[o] = SubSeq(Data(o), 1, ofd[o].offset)

(* A thread that is alone: a call that moved n bytes from one file to another    *)
(* changed exactly those n bytes of the target, to what the source had, and a   *)
(* cursor of its own stands n bytes further.                                  *)
TransfersExact ==
  \A t \in FTask :
    LET c == th[t]
    IN  c.pc = "idle" /\ c.op \in {"copy", "splice"} /\ c.dst \in Ofd /\ c.src \in Ofd /\ c.err \in {"none", "EPERM"} =>
          /\ Data(c.dst) = Overlay(c.to, c.dpos - c.done, SubSeq(c.from, c.spos - c.done + 1, c.spos))
          /\ ~c.sexp => (c.err = "none" => ofd[c.src].offset = c.spos)
          /\ ~c.dexp => (c.err = "none" => ofd[c.dst].offset = c.dpos)

(* A preadv returns a run of the file, and reports a fault only if nothing      *)
(* landed; what landed is what the good iovecs before the first bad one hold.  *)
VectorsExact ==
  \A t \in FTask :
    LET c == th[t]
    IN  c.pc = "idle" /\ c.op = "preadv" =>
          /\ Len(c.from) = c.done /\ (c.err = "EFAULT" => c.done = 0)
          /\ \A k \in 1 .. c.done : Lands(c.to, k)

(* Writers in append mode never overwrite each other: the file has grown by all *)
(* that the calls report written.                                            *)
AppendsKept ==
  \A o \in Ofd : \A t \in FTask :
    th[t].pc = "idle" /\ th[t].op \in {"write", "pwrite"} /\ th[t].dst = o /\ th[t].done > 0 =>
      Cardinality({k \in 1 .. Len(Data(o)) : Data(o)[k] = 10 + t}) >= th[t].done

(* A sealed file keeps what its seals promise: with F_SEAL_WRITE its bytes and   *)
(* no writable shared mapping, with F_SEAL_GROW and F_SEAL_SHRINK its length,   *)
(* and seals stay.                                                          *)
KeepsSeals ==
  \A i \in Inode :
    LET f == inode[i]
        g == inode'[i]
    IN  /\ f.seals \subseteq g.seals
        /\ "seal" \in f.seals => g.seals = f.seals
        /\ "write" \in f.seals => g.data = f.data /\ g.maps = 0
        /\ "grow" \in f.seals => Len(g.data) <= Len(f.data)
        /\ "shrink" \in f.seals => Len(g.data) >= Len(f.data)
SealsHold == [][KeepsSeals]_fvars

(* fallocate never makes a file shorter.  It does: between its look at the size *)
(* and its truncate another call may have extended the file further.          *)
FallocateKeeps ==
  [][\A t \in FTask : th[t].pc = "extend" /\ th'[t].pc = "idle" =>
       \A i \in Inode : Len(inode'[i].data) >= Len(inode[i].data)]_fvars

(* No read panics.  A read of a memfd whose offset is behind its end does.       *)
NoPanic == \A t \in FTask : th[t].pc # "panicked"

(* A transfer into a pipe without readers that moved nothing says EPIPE.  With   *)
(* a lease as its source it says EFAULT, and raises no SIGPIPE.                *)
BrokenPipeTold ==
  \A t \in FTask : th[t].pc = "idle" /\ th[t].cause = "EPIPE" /\ th[t].done = 0 => th[t].err = "EPIPE"
=============================================================================
