------------------------------- MODULE Timers -------------------------------
(***************************************************************************)
(* The timers that end in signals (ipc-signal timer.rs): setitimer, with the  *)
(* index of deadlines of ITIMER_REAL, the CPU timers, and POSIX timers.  The  *)
(* timer interrupt of a CPU (timer_tick) reads the clock and then takes the   *)
(* registry's lock once for each kind; the handlers of several CPUs and the  *)
(* system calls interleave between.                                         *)
(***************************************************************************)
EXTENDS Integers, FiniteSets

CONSTANTS TProc,     \* process ids
          TCpu,      \* CPUs
          TimerId,   \* POSIX timer ids
          MaxNow,    \* bound of the clock
          MaxSpan,   \* longest value and interval
          MaxGen,    \* bound of how often a timer is set
          TOps       \* which of the timers the behaviour sets: "real", "virtual", "posix"

VARIABLES now,       \* the clock
          ucpu,      \* ucpu[p]: CPU time accounted to p
          real, virt,     \* interval timers of p
          index,     \* real_deadlines: entries [at, pid, gen]
          posix,     \* posix[p][id]
          tick,      \* tick[c]: where the handler of CPU c is, the time it read
          last,      \* last[c]: LAST_ACCOUNTING_NS
          sent       \* the signals generated by the last step
tvars == <<now, ucpu, real, virt, index, posix, tick, last, sent>>

ASSUME TimerAssumption == MaxNow \in Nat /\ MaxSpan \in Nat /\ MaxGen \in Nat

Never == -1
Off == [interval |-> 0, deadline |-> Never, gen |-> 0, base |-> Never, periods |-> 0]
NoTimer == [Off EXCEPT !.gen = -1]
Span == 0 .. MaxSpan
IdleTick == [pc |-> "idle", now |-> 0, user |-> FALSE]

Deadline == Never .. MaxNow + MaxSpan
Timer == [interval : Span, deadline : Deadline, gen : -1 .. MaxGen, base : Deadline, periods : Nat]
TmTypeOK ==
  /\ now \in 0 .. MaxNow /\ ucpu \in [TProc -> 0 .. MaxNow] /\ last \in [TCpu -> 0 .. MaxNow]
  /\ real \in [TProc -> Timer] /\ virt \in [TProc -> Timer] /\ posix \in [TProc -> [TimerId -> Timer]]
  /\ index \subseteq [at : 0 .. MaxNow + MaxSpan, pid : TProc, gen : 0 .. MaxGen]
  /\ tick \in [TCpu -> [pc : {"idle", "cpu", "real", "posix"}, now : 0 .. MaxNow, user : BOOLEAN]]
TmInit ==
  /\ now = 0 /\ ucpu = [p \in TProc |-> 0] /\ real = [p \in TProc |-> Off] /\ virt = real
  /\ index = {} /\ posix = [p \in TProc |-> [i \in TimerId |-> NoTimer]]
  /\ tick = [c \in TCpu |-> IdleTick] /\ last = [c \in TCpu |-> 0] /\ sent = {}

Pass == now < MaxNow /\ now' = now + 1 /\ sent' = {}
        /\ UNCHANGED <<ucpu, real, virt, index, posix, tick, last>>

-----------------------------------------------------------------------------
(* One interval timer.  base and periods record what was asked for and how    *)
(* many periods have been accounted for, to compare with.                    *)
replace(tm, value, interval, t) ==
  LET d == IF value = 0 THEN Never ELSE t + value IN
  [interval |-> interval, deadline |-> d, gen |-> tm.gen + 1, base |-> d, periods |-> 0]
Due(tm, t) == tm.deadline # Never /\ tm.deadline <= t
Periods(tm, t) == IF tm.interval = 0 THEN 1 ELSE (t - tm.deadline) \div tm.interval + 1
expire_from_now(tm, t) ==
  IF ~Due(tm, t) THEN tm ELSE
  [tm EXCEPT !.deadline = IF tm.interval = 0 THEN Never ELSE t + tm.interval, !.periods = @ + 1]
expire(tm, t) ==
  IF ~Due(tm, t) THEN tm ELSE
  [tm EXCEPT !.deadline = IF tm.interval = 0 THEN Never ELSE @ + Periods(tm, t) * tm.interval,
             !.periods = @ + Periods(tm, t)]

(* setitimer: the clock is read before the registry's lock is taken; the old   *)
(* entry of the index stays.                                                 *)
ReadClock == {t \in 0 .. now : t >= now - 1}
set_timer_real(p, value, interval, t) ==
  LET tm == replace(real[p], value, interval, t) IN
  /\ "real" \in TOps /\ real[p].gen < MaxGen /\ t \in ReadClock
  /\ real' = [real EXCEPT ![p] = tm]
  /\ index' = IF tm.deadline = Never THEN index
              ELSE index \cup {[at |-> tm.deadline, pid |-> p, gen |-> tm.gen]}
  /\ sent' = {} /\ UNCHANGED <<now, ucpu, virt, posix, tick, last>>
set_timer_virtual(p, value, interval) ==
  /\ "virtual" \in TOps /\ virt[p].gen < MaxGen
  /\ virt' = [virt EXCEPT ![p] = replace(@, value, interval, ucpu[p])]
  /\ sent' = {} /\ UNCHANGED <<now, ucpu, real, index, posix, tick, last>>

create_posix_timer(p, i) ==
  /\ "posix" \in TOps /\ posix[p][i] = NoTimer /\ posix' = [posix EXCEPT ![p][i] = Off]
  /\ sent' = {} /\ UNCHANGED <<now, ucpu, real, virt, index, tick, last>>
set_posix_timer(p, i, value, interval, absolute, t) ==
  /\ posix[p][i] # NoTimer /\ posix[p][i].gen < MaxGen /\ t \in ReadClock
  /\ posix' = [posix EXCEPT ![p][i] = replace(@, value, interval, IF absolute THEN 0 ELSE t)]
  /\ sent' = {} /\ UNCHANGED <<now, ucpu, real, virt, index, tick, last>>
delete_posix_timer(p, i) ==
  /\ posix[p][i] # NoTimer /\ posix' = [posix EXCEPT ![p][i] = NoTimer]
  /\ sent' = {} /\ UNCHANGED <<now, ucpu, real, virt, index, tick, last>>

(* The system calls: bad arguments change nothing; timer_create whose copy of   *)
(* the id to the user fails deletes the timer again, so it may also leave       *)
(* nothing behind.                                                           *)
sys_setitimer(p, value, interval) ==
  \/ set_timer_virtual(p, value, interval)
  \/ \E t \in 0 .. now : set_timer_real(p, value, interval, t)
sys_timer_create(p, i) == create_posix_timer(p, i)
sys_timer_settime(p, i, value, interval) ==
  \E absolute \in BOOLEAN, t \in 0 .. now : set_posix_timer(p, i, value, interval, absolute, t)
sys_timer_delete(p, i) == delete_posix_timer(p, i)

-----------------------------------------------------------------------------
(* timer_tick. *)
timer_tick(c, user) ==
  /\ tick[c].pc = "idle" /\ tick' = [tick EXCEPT ![c] = [pc |-> "cpu", now |-> now, user |-> user]]
  /\ sent' = {} /\ UNCHANGED <<now, ucpu, real, virt, index, posix, last>>
account_cpu(c, p) ==
  LET elapsed == IF tick[c].now > last[c] THEN tick[c].now - last[c] ELSE 0
      u == IF tick[c].user THEN ucpu[p] + elapsed ELSE ucpu[p] IN
  /\ tick[c].pc = "cpu" /\ tick' = [tick EXCEPT ![c].pc = "real"]
  /\ u <= MaxNow
  /\ last' = [last EXCEPT ![c] = tick[c].now]
  /\ ucpu' = [ucpu EXCEPT ![p] = u] /\ virt' = [virt EXCEPT ![p] = expire(@, u)]
  /\ sent' = IF Due(virt[p], u) THEN {<<p, "vtalrm">>} ELSE {}
  /\ UNCHANGED <<now, real, index, posix>>
(* The entries that are due leave the index; only one with the generation and   *)
(* the deadline of its timer fires, and a periodic one goes in again.         *)
Current(e) == real[e.pid].gen = e.gen /\ real[e.pid].deadline = e.at
expire_realtime(c) ==
  LET t == tick[c].now
      due == {e \in index : e.at <= t}
      hit == {e.pid : e \in {d \in due : Current(d)}}
      new == [p \in TProc |-> IF p \in hit THEN expire(real[p], t) ELSE real[p]] IN
  /\ tick[c].pc = "real" /\ tick' = [tick EXCEPT ![c].pc = "posix"]
  /\ real' = new
  /\ index' = (index \ due) \cup {[at |-> new[p].deadline, pid |-> p, gen |-> new[p].gen] :
                                    p \in {q \in hit : new[q].deadline # Never}}
  /\ sent' = {<<p, "alrm">> : p \in hit}
  /\ UNCHANGED <<now, ucpu, virt, posix, last>>
expire_posix_timers(c) ==
  LET t == tick[c].now IN
  /\ tick[c].pc = "posix" /\ tick' = [tick EXCEPT ![c] = IdleTick]
  /\ posix' = [p \in TProc |-> [i \in TimerId |-> expire(posix[p][i], t)]]
  /\ sent' = {<<x[1], "timer", x[2]>> : x \in {y \in TProc \X TimerId : Due(posix[y[1]][y[2]], t)}}
  /\ UNCHANGED <<now, ucpu, real, virt, index, last>>

TmNext ==
  \/ Pass
  \/ \E p \in TProc, v, n \in Span :
       sys_setitimer(p, v, n) \/ \E i \in TimerId : sys_timer_settime(p, i, v, n)
  \/ \E p \in TProc, i \in TimerId : sys_timer_create(p, i) \/ sys_timer_delete(p, i)
  \/ \E c \in TCpu : \/ \E u \in BOOLEAN : timer_tick(c, u)
                     \/ \E p \in TProc : account_cpu(c, p)
                     \/ expire_realtime(c) \/ expire_posix_timers(c)
TmSpec == TmInit /\ [][TmNext]_tvars

-----------------------------------------------------------------------------
(* An armed ITIMER_REAL can expire: the index has an entry with its deadline    *)
(* and its generation, whatever older entries it was set over.               *)
RealIndexed ==
  \A p \in TProc : real[p].deadline # Never =>
    [at |-> real[p].deadline, pid |-> p, gen |-> real[p].gen] \in index

(* A timer never fires before the time asked for, an entry left by an earlier   *)
(* setitimer fires nothing, and a disarmed or deleted timer stays silent.     *)
FiresDue ==
  \A p \in TProc :
    /\ <<p, "alrm">> \in sent' => Due(real[p], now)
    /\ <<p, "vtalrm">> \in sent' => Due(virt[p], ucpu'[p])
    /\ \A i \in TimerId : <<p, "timer", i>> \in sent' => Due(posix[p][i], now)

(* However late the handler is, a periodic timer that fires is set to the      *)
(* first of its deadlines after the time the handler goes by: it does not fire  *)
(* twice for a period and its next signal is at most one period away.         *)
NextAfter(tm, t) == tm.interval # 0 => tm.deadline \in t + 1 .. t + tm.interval
CatchesUp ==
  \A p \in TProc :
    /\ <<p, "alrm">> \in sent' => \E c \in TCpu : NextAfter(real'[p], tick[c].now)
    /\ <<p, "vtalrm">> \in sent' => NextAfter(virt'[p], ucpu'[p])
    /\ \A i \in TimerId :
         <<p, "timer", i>> \in sent' => \E c \in TCpu : NextAfter(posix'[p][i], tick[c].now)

(* Periods are neither lost nor counted twice, and do not drift: the deadline   *)
(* is the first one plus the periods that expired.                           *)
OnGrid(tm) == (tm.deadline # Never /\ tm.interval # 0) => tm.deadline = tm.base + tm.periods * tm.interval
NoDrift ==
  \A p \in TProc : OnGrid(real[p]) /\ OnGrid(virt[p]) /\ \A i \in TimerId : OnGrid(posix[p][i])

(* Timers: an armed interval timer is in the index of deadlines with its own   *)
(* generation; no timer fires early, whatever entries earlier settings left    *)
(* in the index, and periodic timers neither lose periods nor drift.          *)
TimersExact == /\ [](RealIndexed /\ NoDrift)
               /\ [][FiresDue /\ CatchesUp]_tvars
=============================================================================
