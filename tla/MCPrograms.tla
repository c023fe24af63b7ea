---------------------------- MODULE MCPrograms ----------------------------
(***************************************************************************)
(* Programs and their network for TLC: the loading of an image with its stack  *)
(* and interpreters, the cache of read-only pages of images, and the sockets.  *)
(* A behaviour uses one component, the one that focus names.  The module        *)
(* extends ReadonlyPages, with the constants of "texts", so that its properties *)
(* and the theorems speak of the same definitions; "mmaps" has variables of its *)
(* own.                                                                      *)
(***************************************************************************)
EXTENDS ReadonlyPages, Sequences

VARIABLES focus, ld, space, ex, stack, mfile, mver, mwrite, mcache, mtick, mframe, mcall, mheld, net, obj, ncall

loadVars == <<ld, space, ex, stack>>
mmapVars == <<mfile, mver, mwrite, mcache, mtick, mframe, mcall, mheld>>
pageVars == <<rvars, mmapVars>>
netVars == <<net, obj, ncall>>
allVars == <<focus, loadVars, pageVars, netVars>>

Seg(va, off, filesz, memsz, flags) == [va |-> va, off |-> off, filesz |-> filesz, memsz |-> memsz, flags |-> flags]
Linker == [kind |-> "dyn", tag |-> 200, len |-> 8, entry |-> 1, interp |-> FALSE,
           segs |-> <<Seg(0, 0, 4, 4, {"r", "x"}), Seg(4, 4, 2, 3, {"r", "w"})>>]
Static == [kind |-> "exec", tag |-> 100, len |-> 8, entry |-> 17, interp |-> FALSE,
           segs |-> <<Seg(17, 1, 3, 3, {"r", "x"}), Seg(20, 4, 2, 9, {"r", "w"})>>]
Dynamic == [kind |-> "dyn", tag |-> 100, len |-> 8, entry |-> 2, interp |-> TRUE,
            segs |-> <<Seg(1, 1, 3, 3, {"x"}), Seg(4, 4, 0, 6, {})>>]
Joined == [kind |-> "exec", tag |-> 100, len |-> 9, entry |-> 17, interp |-> FALSE,
           segs |-> <<Seg(17, 1, 5, 5, {"r", "x"}), Seg(23, 7, 2, 5, {"r", "w"})>>]
Prog(kind, to, args, libc) == [kind |-> kind, to |-> to, args |-> args, libc |-> libc]
Chain == [x \in {"/elf", "/s1", "/s2", "/loop", "/text", "/none", "/busybox", "/glibc/busybox"} |->
            CASE x \in {"/elf", "/busybox", "/glibc/busybox"} -> Prog("elf", "", <<>>, "")
              [] x = "/s1" -> Prog("script", "/elf", <<"-a">>, "")
              [] x = "/s2" -> Prog("script", "/s1", <<>>, "")
              [] x = "/loop" -> Prog("script", "/loop", <<>>, "")
              [] x = "/text" -> Prog("text", "", <<>>, "/glibc/busybox")
              [] OTHER -> Prog("none", "", <<>>, "")]
Aux == <<<<3, 64>>, <<0, 0>>>>
Loads == INSTANCE Elf WITH PageSize <- 4, PieBase <- 16, InterpBase <- 48, KernelPages <- {0}, StackTop <- 28,
           StackPages <- 4, Premap <- 2, Gap <- 1, MmapBase <- 10, Frames <- {4, 9, 14}, Pools <- {0, 1}, Depth <- 3,
           Interp <- Linker, Image <- {Static, Dynamic}, Ways <- {"lazy", "eager"}, Programs <- Chain,
           Argvs <- {<<>>, <<1>>, <<1, 2>>}, Envps <- {<<>>, <<1>>, <<1, 1>>}, Auxv <- Aux, Room <- 24
Embeds == INSTANCE Elf WITH PageSize <- 4, PieBase <- 16, InterpBase <- 48, KernelPages <- {0}, StackTop <- 28,
           StackPages <- 4, Premap <- 2, Gap <- 1, MmapBase <- 10, Frames <- {4, 9, 14}, Pools <- {1}, Depth <- 1,
           Interp <- Linker, Image <- {Joined}, Ways <- {"eager", "bytes"}, Programs <- Chain,
           Argvs <- {<<>>}, Envps <- {<<>>}, Auxv <- Aux, Room <- 24

Mmaps == INSTANCE ReadonlyPages WITH RTask <- {1}, RWriter <- {8, 9}, RPage <- {1, 2}, RFrame <- {1, 2}, Kinds <- {"mmap"},
           file <- mfile, ver <- mver, write <- mwrite, cache <- mcache, tick <- mtick, frame <- mframe, call <- mcall,
           held <- mheld

Streams == INSTANCE Network WITH call <- ncall, NTask <- {1, 2}, NObj <- 1 .. 2, NHandle <- 1 .. 5, NPort <- 1 .. 4, Ephemeral <- 3,
             Far <- 9, Binds <- {1}, Dests <- {1}, MaxListen <- 1, MaxReserve <- 2, Slots <- 2, Window <- 2, MaxBytes <- 1,
             QueueLimit <- 1, ConnectTime <- 1, MaxClock <- 1, Setup <- "connected",
             NOps <- {"send", "recv", "fault", "shutdown", "close", "batch"}
LastTick == 2
Accepts == INSTANCE Network WITH call <- ncall, NTask <- {1, 2}, NObj <- 1 .. 3, NHandle <- 1 .. 5, NPort <- 1 .. 4, Ephemeral <- 3,
             Far <- 9, Binds <- {1}, Dests <- {1, 9}, MaxListen <- 1, MaxReserve <- 2, Slots <- 2, Window <- 2, MaxBytes <- 2,
             QueueLimit <- 1, ConnectTime <- 1, MaxClock <- LastTick, Setup <- "listening",
             NOps <- {"socket", "connect", "accept"}
Crowds  == INSTANCE Network WITH call <- ncall, NTask <- {1}, NObj <- 1 .. 2, NHandle <- 1 .. 4, NPort <- 1 .. 4, Ephemeral <- 3,
             Far <- 9, Binds <- {1}, Dests <- {1}, MaxListen <- 1, MaxReserve <- 2, Slots <- 2, Window <- 2, MaxBytes <- 2,
             QueueLimit <- 1, ConnectTime <- 1, MaxClock <- 0, Setup <- "listening",
             NOps <- {"socket", "connect", "accept", "close", "full"}
Packets == INSTANCE Network WITH call <- ncall, NTask <- {1, 2}, NObj <- 1 .. 2, NHandle <- 1 .. 2, NPort <- 1 .. 4, Ephemeral <- 3,
             Far <- 9, Binds <- {1}, Dests <- {1}, MaxListen <- 1, MaxReserve <- 2, Slots <- 2, Window <- 2, MaxBytes <- 2,
             QueueLimit <- 1, ConnectTime <- 1, MaxClock <- 0, Setup <- "none",
             NOps <- {"socket", "bind", "udp", "connect", "recv", "fault", "batch"}
Servers == INSTANCE Network WITH call <- ncall, NTask <- {1}, NObj <- 1 .. 2, NHandle <- 1 .. 4, NPort <- 1 .. 4, Ephemeral <- 3,
             Far <- 9, Binds <- {1}, Dests <- {1}, MaxListen <- 1, MaxReserve <- 2, Slots <- 2, Window <- 2, MaxBytes <- 2,
             QueueLimit <- 1, ConnectTime <- 1, MaxClock <- 1, Setup <- "none",
             NOps <- {"socket", "bind", "listen", "connect"}

Shared  == INSTANCE Network WITH call <- ncall, NTask <- {1}, NObj <- 1 .. 2, NHandle <- 1 .. 5, NPort <- 1 .. 4, Ephemeral <- 3,
             Far <- 9, Binds <- {1}, Dests <- {1}, MaxListen <- 1, MaxReserve <- 2, Slots <- 2, Window <- 2, MaxBytes <- 1,
             QueueLimit <- 1, ConnectTime <- 1, MaxClock <- 1, Setup <- "connected",
             NOps <- {"send", "recv", "share", "close"}

OfLoads == {"loads", "embeds"}
OfPages == {"texts", "mmaps"}
OfNet == {"streams", "accepts", "crowds", "packets", "servers", "shared"}
Init ==
  /\ focus \in OfLoads \cup OfPages \cup OfNet
  /\ CASE focus = "loads" -> Loads!EInit [] focus = "embeds" -> Embeds!EInit
       [] OTHER -> ld = "unused" /\ space = "unused" /\ ex = "unused" /\ stack = "unused"
  /\ RInit
  /\ CASE focus = "mmaps" -> Mmaps!RInit
       [] OTHER -> /\ mfile = "unused" /\ mver = "unused" /\ mwrite = "unused" /\ mcache = "unused"
                   /\ mtick = "unused" /\ mframe = "unused" /\ mcall = "unused" /\ mheld = "unused"
  /\ CASE focus = "streams" -> Streams!NInit [] focus = "accepts" -> Accepts!NInit [] focus = "crowds" -> Crowds!NInit
       [] focus = "packets" -> Packets!NInit [] focus = "servers" -> Servers!NInit [] focus = "shared" -> Shared!NInit
       [] OTHER -> net = "unused" /\ obj = "unused" /\ ncall = "unused"
LoadNext == \/ focus = "loads" /\ Loads!ENext
            \/ focus = "embeds" /\ Embeds!ENext
PageNext == \/ focus = "texts" /\ RNext /\ UNCHANGED mmapVars
            \/ focus = "mmaps" /\ Mmaps!RNext /\ UNCHANGED rvars
NetNext == \/ focus = "streams" /\ Streams!NNext
           \/ focus = "accepts" /\ Accepts!NNext
           \/ focus = "crowds" /\ Crowds!NNext
           \/ focus = "packets" /\ Packets!NNext
           \/ focus = "servers" /\ Servers!NNext
           \/ focus = "shared" /\ Shared!NNext
Next ==
  /\ UNCHANGED focus
  /\ \/ LoadNext /\ UNCHANGED <<pageVars, netVars>>
     \/ PageNext /\ UNCHANGED <<loadVars, netVars>>
     \/ NetNext /\ UNCHANGED <<loadVars, pageVars>>
(* The stack is polled at every interrupt of the timer, which also moves the     *)
(* clock; a task that waits for its connection looks again after each poll.     *)
Spec == /\ Init /\ [][Next]_allVars
        /\ WF_allVars(focus = "accepts" /\ Accepts!iface_poll /\ UNCHANGED <<focus, loadVars, pageVars>>)
        /\ WF_allVars(focus = "accepts" /\ Accepts!poll_socket_events /\ UNCHANGED <<focus, loadVars, pageVars>>)
        /\ WF_allVars(focus = "accepts" /\ Accepts!Clock /\ UNCHANGED <<focus, loadVars, pageVars>>)
        /\ \A t \in {1, 2} : WF_allVars(focus = "accepts" /\ Accepts!wait_connected(t) /\ UNCHANGED <<focus, loadVars, pageVars>>)

-----------------------------------------------------------------------------
(* Type correctness of the components.                                       *)
ProgramTypes ==
  /\ RTypeOK
  /\ CASE focus = "loads" -> Loads!ETypeOK [] focus = "embeds" -> Embeds!ETypeOK
    [] focus = "texts" -> TRUE [] focus = "mmaps" -> Mmaps!RTypeOK
    [] focus = "streams" -> Streams!NTypeOK [] focus = "accepts" -> Accepts!NTypeOK [] focus = "crowds" -> Crowds!NTypeOK
    [] focus = "packets" -> Packets!NTypeOK [] focus = "shared" -> Shared!NTypeOK [] OTHER -> Servers!NTypeOK
(* Elf: whichever way an image is mapped, memory holds what its segments say,    *)
(* areas keep apart, frames come back, arguments arrive.  Where the pages of a   *)
(* cache have variables of their own, ReadonlyPagesSound is asserted here.      *)
(* Network: every slot of the stack has one owner, reservations end with their   *)
(* calls, streams lose and repeat nothing, an end of stream is an end, and a     *)
(* datagram reaches the port it was sent to.                                   *)
ProgramsSound ==
  /\ focus \in OfLoads =>
       IF focus = "loads"
       THEN /\ Loads!ImageExact /\ Loads!LayoutDisjoint /\ Loads!FramesReturned
            /\ Loads!ArgumentsKept /\ Loads!StackAsPromised /\ Loads!WellFormedLoads
       ELSE Embeds!ImageExact /\ Embeds!LayoutDisjoint /\ Embeds!FramesReturned /\ Embeds!WellFormedLoads
  /\ focus = "mmaps" => Mmaps!ReadonlyPagesSound
  /\ focus \in OfNet =>
    CASE focus = "streams" -> Streams!HandlesOwned /\ Streams!ReservationsHeld /\ Streams!StreamsExact /\ Streams!EofHonest
      [] focus = "accepts" -> Accepts!HandlesOwned /\ Accepts!ReservationsHeld /\ Accepts!EofHonest
      [] focus = "crowds" -> Crowds!HandlesOwned /\ Crowds!ReservationsHeld
      [] focus = "packets" -> Packets!HandlesOwned /\ Packets!ReservationsHeld /\ Packets!DatagramsForMe
      [] focus = "shared" -> Shared!HandlesOwned /\ Shared!ReservationsHeld /\ Shared!StreamsExact
      [] OTHER -> Servers!HandlesOwned
(* tcp.rs: a connect ends, accepted, refused or timed out, when the stack is     *)
(* polled and the clock moves (it stops at the bound of the instance).          *)
ConnectsEnd ==
  \A t \in {1, 2} : (focus = "accepts" /\ ncall[t].pc = "connecting")
                      ~> (focus = "accepts" /\ (ncall[t].pc # "connecting" \/ net.clock = LastTick))
=============================================================================
