--------------------------- MODULE TriggerScheduler ---------------------------
(***************************************************************************)
(* The trigger schedules of deployed processes and the loops that fire     *)
(* them: claimDueSchedule, fireClaimedSchedule, persistFireResult and      *)
(* recordFireError (src/workers/trigger-scheduler.ts), with two kinds of   *)
(* trigger.  A TIMER (triggers/timer) returns a start request, which the   *)
(* scheduler turns into an instance together with the update of the row.   *)
(* A FEED (triggers/sharepoint-folder, graph-mailbox and rss) creates its  *)
(* instances inside fire(), one by one, asks the host about each and then  *)
(* inserts its START continuation or terminates it.  What it does not look *)
(* at twice, a folder knows from its cursor, a mailbox from the mails it   *)
(* has marked as read, and an rss feed only from the instances there are.  *)
(*                                                                         *)
(* ownerId and leaseUntil are left out: they are written, released and     *)
(* swept, but no filter reads them, so that two loops can hold the same    *)
(* schedule.  A MongoDB write of one document, and a transaction, is one   *)
(* step; now is the clock every one of them reads, in seconds.             *)
(***************************************************************************)
EXTENDS Integers, FiniteSets

CONSTANTS
  Schedulers,   (* The loops: triggerLoop, startTriggerScheduler.          *)
  Timers,       (* The start events with a cycle,                          *)
                (* R<Repetitions>/PT<Interval>S,                           *)
  RuleDates,    (* but for those with a rule, by them: its dates.          *)
  Folders, Mailboxes, RssFeeds,   (* The schedules that poll.              *)
  Skipping,     (* Those whose initialPolicy is skip-existing.             *)
  Items,        (* What their patterns let pass,                           *)
  Holds,        (* and which of it comes to each.                          *)
  Deployments,  (* The sets of schedules there may be.                     *)
  Interval, Repetitions,
  RetryBase, RetryCap,
  Never,        (* A date field that is not there, a cursor that is null.  *)
  MaxTime,      (* Bounds the clock.                                       *)
  MaxMishaps,   (* Bounds the errors and crashes of a behaviour,           *)
  MaxDeploys    (* and how often something is deployed again.              *)

Feeds     == Folders \cup Mailboxes \cup RssFeeds
Schedules == Timers \cup Feeds
Times     == 0..MaxTime
Keys      == Times \cup Items

Rules == DOMAIN RuleDates

(* Those dates that come after a time.                                     *)
DatesAfter(s, t) == { d \in RuleDates[s] : t < d }

ASSUME SchedulesAssumption ==
  /\ Timers \cap Feeds = {}
  /\ Rules \subseteq Timers
  /\ \A s \in Rules : RuleDates[s] \subseteq Nat /\ DatesAfter(s, 0) # {}
  /\ Folders \cap Mailboxes = {} /\ RssFeeds \cap (Folders \cup Mailboxes) = {}
  /\ Skipping \subseteq Folders \cup RssFeeds
  /\ Holds \in [Feeds -> SUBSET Items]
  /\ Items \cap Int = {}
  /\ Never \notin Int /\ Never \notin Items /\ \A c \in SUBSET Items : c # Never

ASSUME NumbersAssumption ==
  /\ Interval \in Nat \ {0} /\ Repetitions \in Nat \ {0}
  /\ RetryBase \in Nat \ {0} /\ RetryCap \in Nat \ {0}
  /\ MaxTime \in Nat /\ MaxMishaps \in Nat /\ MaxDeploys \in Nat

VARIABLES
  now,
  row,          (* TriggerSchedules, by schedule.                          *)
  published,    (* What each feed holds so far,                            *)
  read,         (* which mails are marked as read,                         *)
  passed,       (* and what a cursor was moved past without an instance    *)
                (* (history).                                              *)
  instance,     (* ProcessInstances, by (schedule, dedup key): the unique  *)
                (* index allows one of each.                               *)
  pc,           (* Where each loop is,                                     *)
  job,          (* the schedule it holds, as it was when it was claimed,   *)
  fire,         (* and the locals of its fire().                           *)
  mishaps, deploys

loopVars == <<pc, job, fire>>
feedVars == <<published, read, passed>>
vars == <<now, row, feedVars, instance, loopVars, mishaps, deploys>>

Places == {"idle", "claimed", "polled", "looked", "created", "marking", "fired"}

(* slot: the due time that a timer's instance was created for.             *)
(* starts: how many START continuations it has been given.                 *)
NoInstance == [status |-> "none", starts |-> 0, slot |-> Never]

Exists(s, k) == instance[<<s, k>>].status # "none"

(* todo: the items still to be looked at.  item: the one in hand.          *)
(* cursor, next: nextCursor and nextFireAt of the result.  skipped: what   *)
(* the cursor is to be moved past.                                         *)
NoFire == [todo |-> {}, item |-> Never, at |-> Never, cursor |-> Never, next |-> Never,
           skipped |-> {}]
NoJob  == [schedule |-> Never, doc |-> Never]

------------------------------------------------------------------------------
(* Time.                                                                   *)

Smaller(a, b) == IF a < b THEN a ELSE b
Larger(a, b)  == IF a < b THEN b ELSE a

(* computeRetryDelayMs: only polling schedules have an interval.           *)
RetryDelay(s, failures) ==
  Larger(Smaller(RetryCap, RetryBase * 2 ^ Smaller(Larger(1, failures) - 1, 30)),
         IF s \in Feeds THEN Interval ELSE 0)

(* The next date of a rule, unless COUNT or UNTIL have ended it.           *)
NextDate(s, t) ==
  IF DatesAfter(s, t) = {} THEN Never
  ELSE CHOOSE d \in DatesAfter(s, t) : \A e \in DatesAfter(s, t) : d <= e

(* Mutant: one repetition too many.                                        *)
Bug_NextFireAfter(s, t, remaining) ==
  IF s \in Rules THEN NextDate(s, t)
  ELSE IF remaining # Never /\ remaining < 0 THEN Never ELSE t + Interval

(* computeNextFireAfter.                                                   *)
NextFireAfter(s, t, remaining) ==
  IF s \in Rules THEN NextDate(s, t)
  ELSE IF remaining # Never /\ remaining <= 0 THEN Never ELSE t + Interval

------------------------------------------------------------------------------
(* Deployed at time 0, and the folders and mailboxes have been activated.  *)
Init ==
  /\ now = 0
  /\ \E D \in Deployments : row = [s \in Schedules |->
       [status |-> IF s \in D THEN "ACTIVE" ELSE "none",
        nextFireAt |-> IF s \in Timers THEN NextFireAfter(s, 0, Never) ELSE Never,
        lastFiredAt |-> Never, cursor |-> Never, failures |-> 0, retryAfter |-> Never]]
  /\ published = [s \in Feeds |-> {}]
  /\ read = [s \in Mailboxes |-> {}]
  /\ passed = [s \in Feeds |-> {}]
  /\ instance = [k \in Schedules \X Keys |-> NoInstance]
  /\ pc = [p \in Schedulers |-> "idle"]
  /\ job = [p \in Schedulers |-> NoJob]
  /\ fire = [p \in Schedulers |-> NoFire]
  /\ mishaps = 0
  /\ deploys = 0

Held(p) == job[p].schedule

GoIdle(p) ==
  /\ pc' = [pc EXCEPT ![p] = "idle"]
  /\ job' = [job EXCEPT ![p] = NoJob]
  /\ fire' = [fire EXCEPT ![p] = NoFire]

Mishap ==
  /\ mishaps < MaxMishaps
  /\ mishaps' = mishaps + 1

ClearBackoff(r) == [r EXCEPT !.failures = 0, !.retryAfter = Never]

(* Mutant: what has a backoff is not due, over or not.                     *)
Bug_Due(s) ==
  /\ row[s].status = "ACTIVE"
  /\ IF s \in Timers
     THEN row[s].nextFireAt # Never /\ row[s].nextFireAt <= now
     ELSE row[s].lastFiredAt # Never => now - row[s].lastFiredAt >= Interval
  /\ row[s].retryAfter = Never

(* The filter of claimDueSchedule.                                         *)
Due(s) ==
  /\ row[s].status = "ACTIVE"
  /\ IF s \in Timers
     THEN row[s].nextFireAt # Never /\ row[s].nextFireAt <= now
     ELSE row[s].lastFiredAt # Never => now - row[s].lastFiredAt >= Interval
  /\ row[s].retryAfter # Never => row[s].retryAfter <= now

(* Its order: by nextFireAt, and rows without that field come first.       *)
Before(s, u) ==
  \/ s \in Feeds /\ u \in Timers
  \/ s \in Timers /\ u \in Timers /\ row[s].nextFireAt < row[u].nextFireAt

Claim(p, s) ==
  /\ pc[p] = "idle"
  /\ Due(s) /\ \A u \in Schedules : Due(u) => ~Before(u, s)
  /\ pc' = [pc EXCEPT ![p] = "claimed"]
  /\ job' = [job EXCEPT ![p] = [schedule |-> s, doc |-> row[s]]]
  /\ UNCHANGED <<now, row, feedVars, instance, fire, mishaps, deploys>>

------------------------------------------------------------------------------
(* fire() of a timer: one start request, whose dedup key is the time of    *)
(* the call, and one repetition of a cycle less.                           *)
FireTimer(p) ==
  LET s == Held(p)
      reps == IF job[p].doc.cursor # Never THEN job[p].doc.cursor
              ELSE Repetitions
      left == IF s \in Rules THEN Never ELSE reps - 1
  IN
  /\ pc[p] = "claimed" /\ s \in Timers
  /\ fire' = [fire EXCEPT ![p] = [NoFire EXCEPT !.at = now, !.cursor = left,
                                   !.next = NextFireAfter(s, now, left)]]
  /\ pc' = [pc EXCEPT ![p] = "fired"]
  /\ UNCHANGED <<now, row, feedVars, instance, job, mishaps, deploys>>

(* fire() of a feed: what it lists, and the cursor it will return.         *)
List(p, items, cursor) ==
  /\ fire' = [fire EXCEPT ![p] = [NoFire EXCEPT !.todo = items, !.cursor = cursor]]
  /\ pc' = [pc EXCEPT ![p] = "polled"]
  /\ UNCHANGED <<now, row, feedVars, instance, job, deploys>>

(* No item is looked at, and the cursor moves past them all.               *)
Prime(p, items, cursor) ==
  /\ fire' = [fire EXCEPT ![p] = [NoFire EXCEPT !.cursor = cursor, !.skipped = items]]
  /\ pc' = [pc EXCEPT ![p] = "fired"]
  /\ UNCHANGED <<now, row, feedVars, instance, job, deploys>>

Seen(cursor) == IF cursor = Never THEN {} ELSE cursor

FirstPollSkips(p) == job[p].doc.cursor = Never /\ Held(p) \in Skipping

(* A folder gives the delta since the link in the cursor,                  *)
PollFolder(p) ==
  LET s == Held(p)  all == published[s] IN
  /\ pc[p] = "claimed" /\ s \in Folders
  /\ IF FirstPollSkips(p) THEN Prime(p, all, all)
     ELSE List(p, all \ Seen(job[p].doc.cursor), all)
  /\ UNCHANGED mishaps

(* which may have expired: then the cursor is primed anew.                 *)
DeltaExpires(p) ==
  LET s == Held(p)  all == published[s] IN
  /\ pc[p] = "claimed" /\ s \in Folders /\ job[p].doc.cursor # Never
  /\ Mishap
  /\ Prime(p, all \ job[p].doc.cursor, all)

(* A mailbox gives the unread mails; its cursor is carried along.          *)
PollMailbox(p) ==
  LET s == Held(p) IN
  /\ pc[p] = "claimed" /\ s \in Mailboxes
  /\ List(p, published[s] \ read[s], job[p].doc.cursor)
  /\ UNCHANGED mishaps

(* cursorFromItems: the newest date, which stands for all up to it.        *)
CursorFromItems(items, prior) == Seen(prior) \cup items

(* An rss feed gives all it holds, whatever the cursor.                    *)
PollRss(p) ==
  LET s == Held(p)  all == published[s]
      cursor == CursorFromItems(all, job[p].doc.cursor)
  IN
  /\ pc[p] = "claimed" /\ s \in RssFeeds
  /\ IF FirstPollSkips(p) THEN Prime(p, all, cursor) ELSE List(p, all, cursor)
  /\ UNCHANGED mishaps

(* On to the next item; but a mail has to be marked first.                 *)
HandOn(p, i, todo) ==
  LET mail == Held(p) \in Mailboxes IN
  /\ fire' = [fire EXCEPT ![p].todo = todo, ![p].item = IF mail THEN i ELSE Never]
  /\ pc' = [pc EXCEPT ![p] = IF mail THEN "marking" ELSE "polled"]

(* The next item: is there an instance for it already?                     *)
LookUp(p, i) ==
  /\ pc[p] = "polled" /\ i \in fire[p].todo
  /\ IF Exists(Held(p), i)
     THEN HandOn(p, i, fire[p].todo \ {i})
     ELSE /\ fire' = [fire EXCEPT ![p].todo = @ \ {i}, ![p].item = i]
          /\ pc' = [pc EXCEPT ![p] = "looked"]
  /\ UNCHANGED <<now, row, feedVars, instance, job, mishaps, deploys>>

(* startInstance with deferContinuation.  That it may have found one after *)
(* all (`deduplicated') is not looked at.                                  *)
CreateInstance(p) ==
  LET s == Held(p)  i == fire[p].item IN
  /\ pc[p] = "looked"
  /\ instance' = IF Exists(s, i) THEN instance
                 ELSE [instance EXCEPT ![<<s, i>>].status = "RUNNING"]
  /\ pc' = [pc EXCEPT ![p] = "created"]
  /\ UNCHANGED <<now, row, feedVars, job, fire, mishaps, deploys>>

(* The host's callback lets it start, or has it skipped.                   *)
InsertStart(p) ==
  /\ pc[p] = "created"
  /\ instance' = [instance EXCEPT ![<<Held(p), fire[p].item>>].starts = @ + 1]
  /\ HandOn(p, fire[p].item, fire[p].todo)
  /\ UNCHANGED <<now, row, feedVars, job, mishaps, deploys>>

(* Mutant: a skipped item is given its START all the same.                 *)
Bug_TerminateInstance(p) ==
  /\ pc[p] = "created"
  /\ instance' = [instance EXCEPT ![<<Held(p), fire[p].item>>].status = "TERMINATED",
                                  ![<<Held(p), fire[p].item>>].starts = @ + 1]
  /\ HandOn(p, fire[p].item, fire[p].todo)
  /\ UNCHANGED <<now, row, feedVars, job, mishaps, deploys>>

TerminateInstance(p) ==
  /\ pc[p] = "created"
  /\ instance' = [instance EXCEPT ![<<Held(p), fire[p].item>>].status = "TERMINATED"]
  /\ HandOn(p, fire[p].item, fire[p].todo)
  /\ UNCHANGED <<now, row, feedVars, job, mishaps, deploys>>

MarkAsRead(p) ==
  /\ pc[p] = "marking"
  /\ read' = [read EXCEPT ![Held(p)] = @ \cup {fire[p].item}]
  /\ pc' = [pc EXCEPT ![p] = "polled"]
  /\ fire' = [fire EXCEPT ![p].item = Never]
  /\ UNCHANGED <<now, row, published, passed, instance, job, mishaps, deploys>>

(* Mutant: the cursor is read when the items are done.                     *)
Bug_ItemsDone(p) ==
  /\ pc[p] = "polled" /\ fire[p].todo = {}
  /\ fire' = [fire EXCEPT ![p].cursor = published[Held(p)]]
  /\ pc' = [pc EXCEPT ![p] = "fired"]
  /\ UNCHANGED <<now, row, feedVars, instance, job, mishaps, deploys>>

ItemsDone(p) ==
  /\ pc[p] = "polled" /\ fire[p].todo = {}
  /\ pc' = [pc EXCEPT ![p] = "fired"]
  /\ UNCHANGED <<now, row, feedVars, instance, job, fire, mishaps, deploys>>

(* The loop of fire() over the items, and the whole of it by plugin.       *)
HandleItem(p) ==
  \/ \E i \in Items : LookUp(p, i)
  \/ CreateInstance(p) \/ InsertStart(p) \/ TerminateInstance(p)

FireFolder(p)  == PollFolder(p) \/ (Held(p) \in Folders /\ (HandleItem(p) \/ ItemsDone(p)))
FireMailbox(p) == PollMailbox(p) \/ (Held(p) \in Mailboxes /\ (HandleItem(p) \/ MarkAsRead(p) \/ ItemsDone(p)))
FireRss(p)     == PollRss(p) \/ (Held(p) \in RssFeeds /\ (HandleItem(p) \/ ItemsDone(p)))

------------------------------------------------------------------------------
(* What becomes of it.                                                     *)

(* Mutant: the row is written as it was claimed, its status included, and  *)
(* lastFiredAt is forgotten.                                               *)
Bug_Advanced(r, p) ==
  [ClearBackoff(job[p].doc) EXCEPT
     !.cursor = fire[p].cursor,
     !.nextFireAt = IF Held(p) \in Timers THEN fire[p].next ELSE @]

(* The row after a fire that succeeded.                                    *)
Advanced(r, p) ==
  LET s == Held(p)
      timed == IF s \in Feeds THEN r ELSE [r EXCEPT !.nextFireAt = fire[p].next]
  IN
  [ClearBackoff(timed) EXCEPT
     !.cursor = fire[p].cursor,
     !.lastFiredAt = now,
     !.status = IF s \in Timers /\ fire[p].next = Never THEN "EXHAUSTED" ELSE @]

(* persistFireResult asks for the date after the present one first, and    *)
(* nextSchedule throws when a rule has none.                               *)
NextScheduleThrows(p) == Held(p) \in Rules /\ NextFireAfter(Held(p), now, Never) = Never

(* The error is swallowed, and the row stays as it is: due.                *)
PersistThrows(p) ==
  /\ pc[p] = "fired" /\ NextScheduleThrows(p)
  /\ GoIdle(p)
  /\ UNCHANGED <<now, row, feedVars, instance, mishaps, deploys>>

(* The transaction of persistFireResult: the instance of a timer's start   *)
(* request, unless there is one with that key, and the schedule's row,     *)
(* whatever it holds by now.                                               *)
Persist(p) ==
  LET s == Held(p) IN
  /\ pc[p] = "fired" /\ ~NextScheduleThrows(p)
  /\ instance' = [k \in Schedules \X Keys |->
       IF s \in Timers /\ k = <<s, fire[p].at>> /\ ~Exists(s, fire[p].at)
       THEN [status |-> "RUNNING", starts |-> 1, slot |-> job[p].doc.nextFireAt]
       ELSE instance[k]]
  /\ row' = [row EXCEPT ![s] = Advanced(@, p)]
  /\ passed' = [u \in Feeds |->
       IF u = s THEN passed[u] \cup { i \in fire[p].skipped : ~Exists(u, i) } ELSE passed[u]]
  /\ GoIdle(p)
  /\ UNCHANGED <<now, read, published, mishaps, deploys>>

(* Mutant: the instance is created before the transaction, not in it.      *)
Bug_PersistFails(p) ==
  LET s == Held(p)  t == fire[p].at IN
  /\ pc[p] = "fired"
  /\ Mishap
  /\ instance' = IF s \in Timers /\ ~Exists(s, t)
                 THEN [instance EXCEPT ![<<s, t>>] = [status |-> "RUNNING", starts |-> 1,
                                                   slot |-> job[p].doc.nextFireAt]]
                 ELSE instance
  /\ GoIdle(p)
  /\ UNCHANGED <<now, row, feedVars, deploys>>

(* The transaction throws: that error is swallowed too.                    *)
PersistFails(p) ==
  /\ pc[p] = "fired"
  /\ Mishap
  /\ GoIdle(p)
  /\ UNCHANGED <<now, row, feedVars, instance, deploys>>

(* fire() throws: recordFireError counts from the document it has claimed. *)
FireFails(p) ==
  LET failures == job[p].doc.failures + 1 IN
  /\ pc[p] \in {"claimed", "polled", "looked", "created", "marking"}
  /\ Mishap
  /\ row' = [row EXCEPT ![Held(p)].failures = failures,
                        ![Held(p)].retryAfter = now + RetryDelay(Held(p), failures)]
  /\ GoIdle(p)
  /\ UNCHANGED <<now, feedVars, instance, deploys>>

(* The process dies.  (Sweeping its lease changes nothing.)                *)
Crash(p) ==
  /\ pc[p] # "idle"
  /\ Mishap
  /\ GoIdle(p)
  /\ UNCHANGED <<now, row, feedVars, instance, deploys>>

------------------------------------------------------------------------------
(* The world.                                                              *)

Tick ==
  /\ now < MaxTime
  /\ now' = now + 1
  /\ UNCHANGED <<row, feedVars, instance, loopVars, mishaps, deploys>>

Publish(s, i) ==
  /\ row[s].status # "none" /\ i \in Holds[s] \ published[s]
  /\ published' = [published EXCEPT ![s] = @ \cup {i}]
  /\ UNCHANGED <<now, row, read, passed, instance, loopVars, mishaps, deploys>>

Pause(s) ==
  /\ row[s].status = "ACTIVE"
  /\ row' = [row EXCEPT ![s].status = "PAUSED"]
  /\ UNCHANGED <<now, feedVars, instance, loopVars, mishaps, deploys>>

Resume(s) ==
  /\ row[s].status = "PAUSED"
  /\ row' = [row EXCEPT ![s] = [ClearBackoff(@) EXCEPT !.status = "ACTIVE"]]
  /\ UNCHANGED <<now, feedVars, instance, loopVars, mishaps, deploys>>

(* The definition is deployed again: syncTriggerSchedules.  A timer is     *)
(* ACTIVE after that, whatever it was; its cursor stays.  When a rule has  *)
(* no date left the deployment fails.                                      *)
Deploy(s) ==
  /\ deploys < MaxDeploys /\ row[s].status # "none"
  /\ s \in Timers => NextFireAfter(s, now, Never) # Never
  /\ deploys' = deploys + 1
  /\ row' = [row EXCEPT ![s] =
       IF s \in Feeds THEN ClearBackoff(@)
       ELSE [ClearBackoff(@) EXCEPT !.status = "ACTIVE",
                                    !.nextFireAt = NextFireAfter(s, now, Never)]]
  /\ UNCHANGED <<now, feedVars, instance, loopVars, mishaps>>

Step(p) ==
  \/ \E s \in Schedules : Claim(p, s)
  \/ FireTimer(p) \/ FireFolder(p) \/ FireMailbox(p) \/ FireRss(p)
  \/ Persist(p) \/ PersistThrows(p)

Next ==
  \/ \E p \in Schedulers : Step(p) \/ DeltaExpires(p) \/ PersistFails(p) \/ FireFails(p) \/ Crash(p)
  \/ Tick
  \/ \E s \in Schedules : Pause(s) \/ Resume(s) \/ Deploy(s)
  \/ \E s \in Feeds, i \in Items : Publish(s, i)

Spec == Init /\ [][Next]_vars

(* A loop goes on for as long as its process does, and no call it makes    *)
(* hangs.                                                                  *)
Fairness == \A p \in Schedulers : WF_vars(Step(p))

------------------------------------------------------------------------------
(* Properties.                                                             *)

Dates == Int \cup {Never}

Rows(s) ==
  [status : {"none", "ACTIVE", "PAUSED", "EXHAUSTED"}, nextFireAt : Dates, lastFiredAt : Dates,
   cursor : IF s \in Feeds THEN {Never} \cup SUBSET Items ELSE Dates, failures : Nat, retryAfter : Dates]

(* The documents and the locals have the types the code gives them: a feed *)
(* has a cursor of what it has seen, a timer one of repetitions, and only  *)
(* a loop that is at work holds a schedule.                                *)
TypeOK ==
  /\ now \in Times /\ mishaps \in 0..MaxMishaps /\ deploys \in 0..MaxDeploys
  /\ DOMAIN row = Schedules /\ \A s \in Schedules : row[s] \in Rows(s)
  /\ published \in [Feeds -> SUBSET Items] /\ passed \in [Feeds -> SUBSET Items]
  /\ read \in [Mailboxes -> SUBSET Items]
  /\ instance \in [Schedules \X Keys ->
       [status : {"none", "RUNNING", "TERMINATED"}, starts : Nat, slot : Dates]]
  /\ pc \in [Schedulers -> Places]
  /\ \A p \in Schedulers :
       IF pc[p] = "idle" THEN job[p] = NoJob /\ fire[p] = NoFire
       ELSE Held(p) \in Schedules /\ job[p].doc \in Rows(Held(p))

(* A due time of a timer starts one instance: a crash, or an error of the  *)
(* transaction, between the call of fire() and the update of the row does  *)
(* not make it two, though a retry has a new dedup key.                    *)
OneInstancePerDueTime ==
  \A s \in Timers : \A t, u \in Times :
    Exists(s, t) /\ Exists(s, u) /\ t # u => instance[<<s, t>>].slot # instance[<<s, u>>].slot

Started(s) == Cardinality({ t \in Times : Exists(s, t) })

(* R<n>/PT..: a cycle is EXHAUSTED when it has started n instances and not *)
(* before, and starts no more, but for one whenever it is deployed again.  *)
RepetitionsAreCounted ==
  TypeOK /\ \A s \in Timers \ Rules :
    /\ Started(s) <= Repetitions + deploys
    /\ row[s].status = "EXHAUSTED" => Started(s) >= Repetitions

(* A cursor never moves past an item that has no instance, unless it is a  *)
(* first poll or an expired link that skips it, and no mail without one is *)
(* marked as read: whatever fails or dies halfway through a list, the rest *)
(* is listed again.                                                        *)
NoItemIsSkipped ==
  /\ \A s \in Feeds : \A i \in Seen(row[s].cursor) : Exists(s, i) \/ i \in passed[s]
  /\ \A s \in Mailboxes : \A i \in read[s] : Exists(s, i)

(* An item gets one START continuation, and none when the host skipped it  *)
(* or a folder's cursor was moved past it.                                 *)
ItemsStartOnce ==
  \A s \in Feeds, i \in Items :
    /\ instance[<<s, i>>].starts <= 1
    /\ instance[<<s, i>>].status = "TERMINATED" => instance[<<s, i>>].starts = 0
    /\ s \in Folders /\ i \in passed[s] => instance[<<s, i>>].starts = 0

(* A fire that was under way when a schedule was paused does not set it    *)
(* going again: only the host's own calls do.                              *)
PausedStaysPaused ==
  [][\A s \in Schedules :
       row[s].status # "ACTIVE" /\ row'[s].status = "ACTIVE" => pc' = pc]_vars

(* What a feed holds comes to have an instance, unless a first poll or an  *)
(* expired link passes over it, and a mail that has one to be marked as    *)
(* read, if the schedule is left ACTIVE: no backoff lasts for ever, and    *)
(* what failed or died halfway through a list is gone through in the end.  *)
TakenUp(s, i) ==
  i \in passed[s] \/ (Exists(s, i) /\ (s \in Mailboxes => i \in read[s]))

ItemsAreTakenUp ==
  \A s \in Feeds, i \in Items :
    <>[](row[s].status = "ACTIVE") => (i \in published[s] ~> TakenUp(s, i))
=============================================================================
