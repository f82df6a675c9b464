-------------------------- MODULE MCTriggerScheduler --------------------------
(***************************************************************************)
(* Instances of TriggerScheduler for TLC, and its specification under a    *)
(* clock that does not stop.                                               *)
(***************************************************************************)
EXTENDS TriggerScheduler

CONSTANTS p1, p2, cycle, rule, folder, mailbox, rss, a, b

OneLoop  == {p1}
TwoLoops == {p1, p2}
None     == {}
TwoItems == {a, b}

OneCycle   == {cycle}
TwoTimers  == {cycle, rule}
NoRule     == [s \in {} |-> {}]
TwoDates   == [s \in {rule} |-> {1, 2}]
OneFolder  == {folder}
OneMailbox == {mailbox}
OneRssFeed == {rss}

(* Two timers next to each other, and feeds by themselves.                 *)
JustTheCycle == {OneCycle}
FeedsAlone   == {TwoTimers, {folder}, {mailbox}, {rss}}
ShortAndLong == [s \in Feeds |-> IF s = rss THEN {a} ELSE {a, b}]

------------------------------------------------------------------------------
(* Where there are feeds alone the clock goes on for ever.  What they do   *)
(* depends on how long ago a date is, so that `now' can stay what it is    *)
(* while the dates of the rows grow older; one that can make no difference *)
(* any more grows no older.  The dates of what a loop has claimed are not  *)
(* looked at again.                                                        *)
NoTimers == \A s \in Timers : row[s].status = "none"

Older(date, oldest) == IF date = Never THEN Never ELSE Larger(date - 1, oldest)

(* A second goes by.                                                       *)
GrowOlder ==
  /\ NoTimers
  /\ row' = [s \in Schedules |-> [row[s] EXCEPT
       !.lastFiredAt = Older(@, now - Interval), !.retryAfter = Older(@, now)]]
  /\ UNCHANGED <<now, feedVars, instance, loopVars, mishaps, deploys>>

ClockNext == (Next /\ (NoTimers => now' = now)) \/ GrowOlder

ClockSpec == Init /\ [][ClockNext]_vars /\ Fairness /\ WF_vars(GrowOlder)
=============================================================================
