------------------------------ MODULE Timeouts ------------------------------
(***************************************************************************)
(* The timers: the timeout list of src/src/lwIP/core/timeouts.c on the     *)
(* clock of src/src/lwIP/arch/time.c, with the start-up order of           *)
(* src/src/nanotube.c.                                                     *)
(*                                                                         *)
(* time is real time, which the code does not see; sys_now is what it      *)
(* sees. The clock jumps back to 0 in timer_init, after the cyclic timers  *)
(* have been set, and again whenever it has counted to ClockPeriod. Each   *)
(* timer in the list keeps, next to the number that the code computes, the *)
(* real time at which the clock will show it unless it jumps. Handlers run *)
(* in the middle of sys_check_timeouts: they take time, and may set and    *)
(* cancel timers. There may be no memory for a timer, and sys_timeout does *)
(* not tell its caller.                                                    *)
(***************************************************************************)
EXTENDS Integers, Sequences, FiniteSetsExt

CONSTANTS
    Word,          \* 2^32: times are computed modulo this
    ClockPeriod,   \* 2^27: sys_now is timer_3_Counter >> 5
    StartCounters, \* what the counter may hold when lwip_init runs
    Cyclic,        \* the cyclic timers (ARP, IP reassembly, DNS): a function to intervals
    TcpInterval,   \* TCP_TMR_INTERVAL
    OneShot,       \* the other handlers
    Msecs,         \* the times that they are set for
    MaxTime        \* bound on time

\* The clock counts a small part of the range (a 32nd), and no timer is set for more than
\* a quarter of it ("Timeout time too long", sys_timeout).
ASSUME TimeoutsAssumption ==
    /\ Word \in Nat /\ Word % 4 = 0
    /\ ClockPeriod \in Nat \ {0} /\ 4 * ClockPeriod <= Word
    /\ StartCounters \subseteq 0 .. ClockPeriod - 1
    /\ \A m \in Msecs \cup {TcpInterval} \cup {Cyclic[h] : h \in DOMAIN Cyclic} :
          m \in Nat /\ 4 * m <= Word
    /\ "tcp" \notin DOMAIN Cyclic \cup OneShot /\ DOMAIN Cyclic \cap OneShot = {}
    /\ MaxTime \in Nat

VARIABLES
    time, clock,         \* real time, and timer_3_Counter >> 5
    next_timeout,        \* the list
    tcp_timer_active,    \* tcpip_tcp_timer_active
    tcp_pcbs,            \* tcp_active_pcbs || tcp_tw_pcbs
    at,                  \* "boot", "main", "check" or "handler"
    lost,                \* history: handlers that go on, but for whose timer there was no memory
    now, current,        \* locals of sys_check_timeouts: sys_now(), and the timer that expired
    since                \* real time when sys_check_timeouts last started

timer_vars ==
    <<time, clock, next_timeout, tcp_timer_active, tcp_pcbs, at, lost, now, current, since>>

sys_now == clock

LWIP_MAX_TIMEOUT == Word \div 2 - 1
TIME_LESS_THAN(t, compare_to) == (t - compare_to) % Word > LWIP_MAX_TIMEOUT

\* A timer is put into the list in place i, or the one in place i is taken out of it.
Linked(list, i, t) == SubSeq(list, 1, i - 1) \o <<t>> \o SubSeq(list, i, Len(list))
Unlinked(list, i) == SubSeq(list, 1, i - 1) \o SubSeq(list, i + 1, Len(list))

\* Mutant of sys_timeout_abs: looks at the first timer only.
insert_at_an_end(list, t) ==
    {list, IF list # <<>> /\ TIME_LESS_THAN(t.time, list[1].time)
           THEN Linked(list, 1, t) ELSE Linked(list, Len(list) + 1, t)}
\* What becomes of the list: there is no memory for the timer, or it is put before the
\* first one that is due later.
sys_timeout_abs(list, t) ==
    LET later == {i \in DOMAIN list : TIME_LESS_THAN(t.time, list[i].time)}
    IN  {list, Linked(list, IF later = {} THEN Len(list) + 1 ELSE Min(later), t)}

\* A timer for the time at which the clock shows t.
Timer(h, t) == [h |-> h, time |-> t % Word, due |-> time + (t - sys_now)]

sys_timeout(list, msecs, h) == sys_timeout_abs(list, Timer(h, sys_now + msecs))

sys_untimeout(list, h) ==
    LET set == {i \in DOMAIN list : list[i].h = h}
    IN  IF set = {} THEN list ELSE Unlinked(list, Min(set))

NoTimer == [h |-> "none", time |-> 0, due |-> 0]

TimersInit ==
    /\ time = 0
    /\ clock \in StartCounters
    /\ next_timeout = <<>>
    /\ tcp_timer_active = FALSE
    /\ tcp_pcbs = FALSE
    /\ at = "boot"
    /\ lost = {}
    /\ now = 0
    /\ current = NoTimer
    /\ since = 0

IsSet(h) == \E i \in DOMAIN next_timeout : next_timeout[i].h = h

\* The timer of a handler that goes on is set: the new list is one of lists.
Started(h, lists) ==
    /\ next_timeout' \in lists
    /\ lost' = IF next_timeout' = next_timeout THEN lost \cup {h} ELSE lost

\* lwip_init: one round of the loop in sys_timeouts_init, which sets the cyclic timers,
\* before timer_init.
sys_timeouts_init(h) ==
    /\ at = "boot" /\ ~IsSet(h) /\ h \notin lost
    /\ Started(h, sys_timeout(next_timeout, Cyclic[h], h))
    /\ UNCHANGED <<time, clock, tcp_timer_active, tcp_pcbs, at, now, current, since>>

timer_init ==
    /\ at = "boot" /\ \A h \in DOMAIN Cyclic : IsSet(h) \/ h \in lost
    /\ clock' = 0
    /\ at' = "main"
    /\ UNCHANGED <<time, next_timeout, tcp_timer_active, tcp_pcbs, lost, now, current, since>>

\* The counter has 32 bits, of which sys_now shows the upper 27.
Tick ==
    /\ time < MaxTime
    /\ at \in {"main", "handler"}
    /\ time' = time + 1
    /\ clock' = IF clock + 1 = ClockPeriod THEN 0 ELSE clock + 1
    /\ UNCHANGED <<next_timeout, tcp_timer_active, tcp_pcbs, at, lost, now, current, since>>

\* The application, or a handler, sets or cancels a timer. No handler sets a timer
\* that is set.
Set(h) ==
    /\ at \in {"main", "handler"}
    /\ ~IsSet(h)
    /\ \E msecs \in Msecs : next_timeout' \in sys_timeout(next_timeout, msecs, h)
    /\ UNCHANGED <<time, clock, tcp_timer_active, tcp_pcbs, at, lost, now, current, since>>

Cancel(h) ==
    /\ at \in {"main", "handler"}
    /\ next_timeout' = sys_untimeout(next_timeout, h)
    /\ UNCHANGED <<time, clock, tcp_timer_active, tcp_pcbs, at, lost, now, current, since>>

\* A pcb is registered: tcp_timer_needed.
tcp_timer_needed ==
    /\ at \in {"main", "handler"}
    /\ tcp_pcbs' = TRUE
    /\ tcp_timer_active' = TRUE
    /\ IF tcp_timer_active THEN UNCHANGED <<next_timeout, lost>>
       ELSE Started("tcp", sys_timeout(next_timeout, TcpInterval, "tcp"))
    /\ UNCHANGED <<time, clock, at, now, current, since>>

\* The last pcb is gone. The timer finds out when it runs.
PcbsGone ==
    /\ at \in {"main", "handler"}
    /\ tcp_pcbs /\ tcp_pcbs' = FALSE
    /\ UNCHANGED <<time, clock, next_timeout, tcp_timer_active, at, lost, now, current, since>>

sys_check_timeouts ==
    /\ at = "main"
    /\ at' = "check"
    /\ now' = sys_now
    /\ since' = time
    /\ UNCHANGED <<time, clock, next_timeout, tcp_timer_active, tcp_pcbs, lost, current>>

\* The first timer has expired: its handler is called.
Expire ==
    /\ at = "check"
    /\ next_timeout # <<>> /\ ~TIME_LESS_THAN(now, Head(next_timeout).time)
    /\ current' = Head(next_timeout)
    /\ next_timeout' = Tail(next_timeout)
    /\ at' = "handler"
    /\ UNCHANGED <<time, clock, tcp_timer_active, tcp_pcbs, lost, now, since>>

CheckDone ==
    /\ at = "check"
    /\ next_timeout # <<>> => TIME_LESS_THAN(now, Head(next_timeout).time)
    /\ at' = "main"
    /\ now' = 0
    /\ UNCHANGED <<time, clock, next_timeout, tcp_timer_active, tcp_pcbs, lost, current, since>>

\* A cyclic timer keeps to its interval unless it is already too late for that.
lwip_cyclic_timer(h) ==
    LET next == (current.time + Cyclic[h]) % Word
    IN  IF TIME_LESS_THAN(next, sys_now)
        THEN sys_timeout(next_timeout, Cyclic[h], h)
        ELSE sys_timeout_abs(next_timeout, Timer(h, next))

\* Mutant of TcpTimerDone: the timer is not switched off.
TcpTimerDoneM ==
    /\ IF tcp_pcbs THEN Started("tcp", sys_timeout(next_timeout, TcpInterval, "tcp"))
       ELSE UNCHANGED <<next_timeout, lost>>
    /\ UNCHANGED tcp_timer_active
\* tcpip_tcp_timer after tcp_tmr: goes on as long as there is a pcb.
TcpTimerDone ==
    /\ IF tcp_pcbs THEN Started("tcp", sys_timeout(next_timeout, TcpInterval, "tcp"))
       ELSE UNCHANGED <<next_timeout, lost>>
    /\ tcp_timer_active' = tcp_pcbs

\* The end of a handler. A one-shot handler has done all it does by now.
HandlerDone ==
    /\ at = "handler"
    /\ at' = "check"
    /\ CASE current.h = "tcp" -> TcpTimerDone
         [] current.h \in DOMAIN Cyclic ->
                Started(current.h, lwip_cyclic_timer(current.h)) /\ UNCHANGED tcp_timer_active
         [] current.h \in OneShot -> UNCHANGED <<next_timeout, tcp_timer_active, lost>>
    /\ current' = NoTimer
    /\ UNCHANGED <<time, clock, tcp_pcbs, now, since>>

TimersNext ==
    \/ \E h \in DOMAIN Cyclic : sys_timeouts_init(h)
    \/ timer_init \/ Tick
    \/ \E h \in OneShot : Set(h) \/ Cancel(h)
    \/ tcp_timer_needed \/ PcbsGone
    \/ sys_check_timeouts \/ Expire \/ HandlerDone \/ CheckDone

TimersSpec == TimersInit /\ [][TimersNext]_timer_vars

-----------------------------------------------------------------------------
\* Where the timer of h is in the list; that its handler is running; that it goes on: its
\* timer is set once, or is not set because the handler is going to set it again.
Places(h) == {i \in DOMAIN next_timeout : next_timeout[i].h = h}
Handling(h) == at = "handler" /\ current.h = h
GoingOn(h) == IF Handling(h) THEN Places(h) = {} ELSE \E i \in DOMAIN next_timeout : Places(h) = {i}

\* The clock has not jumped since the timer t was set; since sys_check_timeouts started.
InStep(t) == t.time - sys_now = t.due - time
Steady == sys_now - now = time - since

\* A timer set for msecs expires when msecs have passed: no handler is called before its
\* timer is due, unless the clock jumped while an earlier handler of the same round ran;
\* and when sys_check_timeouts returns, no timer is left that was due when it started,
\* unless the clock jumped after that timer was set.
OnTime ==
    [][ /\ at = "check" /\ at' = "handler" /\ Steady => current'.due <= since
        /\ at = "check" /\ at' = "main" =>
              \A i \in DOMAIN next_timeout :
                  InStep(next_timeout[i]) => next_timeout[i].due > since]_timer_vars

\* Wherever the numbers go, also across the overflow of the clock, no timer that was due
\* when sys_check_timeouts started is left when it returns ("overflow handled by
\* TIME_LESS_THAN macro", sys_timeout).
OverflowHandled ==
    [][at = "check" /\ at' = "main" =>
           \A i \in DOMAIN next_timeout : next_timeout[i].due > since]_timer_vars

\* The list is in the order in which the clock will show the numbers, those set before and
\* after a jump together: sys_check_timeouts stops at the first one that it has not shown.
ListInOrder ==
    \A i, j \in DOMAIN next_timeout : i < j => next_timeout[i].time <= next_timeout[j].time

\* Once started, every cyclic timer is set exactly once or being handled, however long
\* handlers take and whatever timers they set and cancel; a timer that there was no memory
\* for once is gone for good.
CyclicGoesOn ==
    at # "boot" => \A h \in DOMAIN Cyclic :
        IF h \in lost THEN ~Handling(h) /\ Places(h) = {} ELSE GoingOn(h)

\* The TCP timer is set once as long as there is a pcb, also when the last pcb goes
\* and another comes while its handler runs. If there was no memory for it once, it is
\* never set again: tcpip_tcp_timer_active says that it is running.
TcpTimerRuns ==
    /\ tcp_pcbs \/ "tcp" \in lost => tcp_timer_active
    /\ IF tcp_timer_active /\ "tcp" \notin lost THEN GoingOn("tcp")
       ELSE ~Handling("tcp") /\ Places("tcp") = {}

\* The list of timers is what the code that reads it relies on: it is in order, and of the
\* timers that have to go on none is set twice, and none is lost but for want of memory.
ListSound == ListInOrder /\ CyclicGoesOn /\ TcpTimerRuns
=============================================================================
