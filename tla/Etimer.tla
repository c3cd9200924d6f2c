------------------------------- MODULE Etimer -------------------------------
(***************************************************************************)
(* The event timers of etimer.c over timer.c (ctimer.c passes its calls    *)
(* on), and the one timer of Pico]OS that wakes the network thread for     *)
(* them.  The thread sets and stops timers between polls, when a packet    *)
(* makes it, and within the callbacks of a poll.  The clock wraps, and it  *)
(* goes on while the thread is in any of these: each timer_expired reads   *)
(* it, and update_time reads it before it sets the timer of Pico]OS.       *)
(***************************************************************************)
EXTENDS Lists

CONSTANTS
  Timers,
  ClockMod,    \* clock_time_t is a number modulo ClockMod
  Intervals,   \* that timers are set to
  MaxLate      \* how long the network thread is away from etimer_request_poll, or is in
               \* a function of etimer.c, at most

ASSUME EtimerAssumption ==
  /\ ClockMod \in Nat \ {0} /\ MaxLate \in Nat /\ Intervals \subseteq Nat \ {0}
  /\ \A k \in Intervals : k + 3 * MaxLate < ClockMod

VARIABLES
  clock,      \* clock_time()
  timerlist,  \* the timers on the list, by their order
  et,         \* struct etimer: active, start, interval
  wake,       \* etimer_timer: the ticks until it fires (0: it does not run), and fired
  poller,     \* where the network thread is in etimer.c: out of it, in the loop of
              \* etimer_request_poll (polling) with t the at-th timer, before the clock is
              \* read by update_time, or with what it read, now
  late,       \* how late the last callback was; how long etimer_timer has fired, or the
              \* thread has been in etimer.c
  missed      \* timers that had run out when update_time set etimer_timer for others

etvars == <<clock, timerlist, et, wake, poller, late, missed>>

Wrap(k) == k % ClockMod
Minus(i, j) == (i + ClockMod - j) % ClockMod

EtimerInit ==
  /\ clock = 0 /\ timerlist = <<>> /\ missed = {}
  /\ poller = [pc |-> "out", at |-> 1, now |-> 0]
  /\ et = [t \in Timers |-> [active |-> FALSE, start |-> 0, interval |-> 0]]
  /\ wake = [left |-> 0, fired |-> FALSE]
  /\ late = [last |-> 0, waits |-> 0]

-----------------------------------------------------------------------------
(* timer.c *)

TimerSet(interval) == [active |-> TRUE, start |-> clock, interval |-> interval]

\* timer_reset: from when it was to run out
TimerReset(e) == [e EXCEPT !.active = TRUE, !.start = Wrap(@ + e.interval)]

\* timer_expired: interval < clock_time() - start + 1
TimerExpired(e) == e.interval < Minus(clock, e.start) + 1

\* The unsigned distance to the end of the interval: far for one that is over
TimerRemaining(e, now) == Minus(Wrap(e.start + e.interval), now)

-----------------------------------------------------------------------------
(* etimer.c *)

OnList(t) == t \in Elements(timerlist)

\* add_timer of a timer with these fields, to a list
Listed(ts, t) == IF t \in Elements(ts) THEN ts ELSE <<t>> \o ts
AddTimer(t, e) == et' = [et EXCEPT ![t] = e] /\ timerlist' = Listed(timerlist, t)

\* etimer_stop
RemoveTimer(t) ==
  /\ OnList(t)
  /\ et' = [et EXCEPT ![t].active = FALSE]
  /\ timerlist' = Without(timerlist, {t})

\* Between polls, for a packet: etimer_set, etimer_stop, up to update_time
SetTimer(t) ==
  /\ poller.pc = "out"
  /\ \/ \E k \in Intervals : AddTimer(t, TimerSet(k))
     \/ RemoveTimer(t)
  /\ poller' = [poller EXCEPT !.pc = "update"]
  /\ missed' = missed \ {t}
  /\ UNCHANGED <<clock, wake, late>>

\* etimer_request_poll, when etimer_timer has fired
PollBegin ==
  /\ poller.pc = "out" /\ wake.fired
  /\ wake' = [wake EXCEPT !.fired = FALSE]
  /\ poller' = [poller EXCEPT !.pc = "poll"]
  /\ late' = [late EXCEPT !.last = 0, !.waits = 0]
  /\ UNCHANGED <<clock, timerlist, et, missed>>

\* The loop passes a timer that has not run out.
PollPass ==
  /\ poller.pc = "poll" /\ poller.at <= Len(timerlist)
  /\ ~TimerExpired(et[timerlist[poller.at]])
  /\ poller' = [poller EXCEPT !.at = @ + 1]
  /\ late' = [late EXCEPT !.last = 0]
  /\ UNCHANGED <<clock, timerlist, et, wake, missed>>

\* One that has leaves the list, and its callback may reset it, set it, set another timer,
\* or stop one: the loop begins again.
Callback ==
  /\ poller.pc = "poll" /\ poller.at <= Len(timerlist)
  /\ LET t == timerlist[poller.at]
         rest == Without(timerlist, {t})
         off == [et EXCEPT ![t].active = FALSE]
     IN /\ TimerExpired(et[t])
        /\ late' = [late EXCEPT !.last = IF t \in missed THEN @ ELSE
                                           Minus(clock, Wrap(et[t].start + et[t].interval))]
        /\ \/ et' = off /\ timerlist' = rest /\ missed' = missed \ {t}
           \/ et' = [off EXCEPT ![t] = TimerReset(@)] /\ timerlist' = <<t>> \o rest /\ UNCHANGED missed
           \/ \E u \in Timers, k \in Intervals :
                /\ et' = [off EXCEPT ![u] = TimerSet(k)] /\ timerlist' = Listed(rest, u)
                /\ missed' = missed \ {t, u}
           \/ \E u \in Elements(rest) :
                /\ et' = [off EXCEPT ![u].active = FALSE] /\ timerlist' = Without(rest, {u})
                /\ missed' = missed \ {t, u}
  /\ poller' = [poller EXCEPT !.at = 1]
  /\ UNCHANGED <<clock, wake>>

\* update_time, at the end of a poll or after a timer was set or stopped: now = clock_time().
UpdateTime ==
  /\ poller.pc = "update" \/ (poller.pc = "poll" /\ poller.at > Len(timerlist))
  /\ poller' = [pc |-> "set", at |-> 1, now |-> clock]
  /\ late' = [late EXCEPT !.last = 0]
  /\ UNCHANGED <<clock, timerlist, et, wake, missed>>

Distances == {TimerRemaining(et[t], poller.now) : t \in Elements(timerlist)}

\* Wrong: the last timer is waited for.
FarthestDistance == CHOOSE d \in Distances : \A k \in Distances : d >= k

NextDistance == CHOOSE d \in Distances : \A k \in Distances : d <= k

\* What etimer_timer is set to.  Pico]OS keeps the flag of a timer that has fired when it is
\* set again, and fires one that is set to 0 at once.
WakeNext ==
  IF timerlist = <<>> THEN [wake EXCEPT !.left = 0]
  ELSE [left |-> NextDistance, fired |-> wake.fired \/ NextDistance = 0]

\* The distance of one that was over looks far away.
Over == {t \in Elements(timerlist) :
           et[t].interval < Minus(poller.now, et[t].start)}

SetWake ==
  /\ poller.pc = "set"
  /\ wake' = WakeNext
  /\ poller' = [poller EXCEPT !.pc = "out", !.now = 0]
  /\ late' = [late EXCEPT !.waits = IF wake'.fired THEN @ ELSE 0]
  /\ missed' = IF wake'.fired THEN missed ELSE missed \cup Over
  /\ UNCHANGED <<clock, timerlist, et>>

\* A tick of the clock, no later than MaxLate after etimer_timer has fired or the thread
\* came to etimer.c
ClockTick ==
  /\ LET busy == wake.fired \/ poller.pc # "out"
     IN /\ busy => late.waits < MaxLate
        /\ late' = [late EXCEPT !.waits = IF busy THEN @ + 1 ELSE 0]
  /\ clock' = Wrap(clock + 1)
  /\ wake' = [left |-> IF wake.left = 0 THEN 0 ELSE wake.left - 1,
              fired |-> wake.fired \/ wake.left = 1]
  /\ UNCHANGED <<timerlist, et, poller, missed>>

EtimerNext ==
  \/ \E t \in Timers : SetTimer(t)
  \/ PollBegin \/ PollPass \/ Callback \/ UpdateTime \/ SetWake \/ ClockTick

EtimerSpec == EtimerInit /\ [][EtimerNext]_etvars

-----------------------------------------------------------------------------
(* Properties *)

\* etimer_timer has fired, or fires soon.
Awaited == wake.fired \/ wake.left \in 1 .. MaxLate

\* No callback comes before its time, nor later than etimer_timer was set late, the poll was
\* begun late and got to it late; and a timer that has run out has etimer_timer for it: setting
\* and stopping others, callbacks that set them and the wrap of the clock lose none, but for
\* those that run out between the poll's look at them and update_time's.
TimersOnTime ==
  /\ late.last <= 3 * MaxLate
  /\ \A t \in Elements(timerlist) :
       et[t].active /\ (poller.pc = "out" /\ TimerExpired(et[t]) /\ t \notin missed => Awaited)

\* "When the event timer expires, the event PROCESS_EVENT_TIMER will be posted" (etimer.h,
\* line 96): etimer_timer wakes the network thread for each timer that has run out.
TimerPosted ==
  \A t \in Elements(timerlist) : poller.pc = "out" /\ TimerExpired(et[t]) => Awaited
=============================================================================
