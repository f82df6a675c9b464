----------------------------- MODULE EngineWorker -----------------------------
(***************************************************************************)
(* The in-process worker of the SDK (src/sdk/engineWorker.ts): a change    *)
(* stream and a fallback poll hand instances to a pool of instance         *)
(* workers, each of which drains one instance and calls the host's         *)
(* handlers; run() waits for the instance to come to rest; stop() waits    *)
(* for the workers.                                                        *)
(*                                                                         *)
(* JavaScript runs one callback at a time: a step is what happens from one *)
(* await to the next.  ContinuationQueue has what a continuation does to   *)
(* the documents; here it is consumed, and may insert others, call back    *)
(* and end the instance.  Every continuation is due when it is inserted,   *)
(* as all of the engine's are, and ownership is SingleServerOwnership,     *)
(* which accepts every instance.                                           *)
(***************************************************************************)
EXTENDS Naturals, FiniteSets

CONSTANTS
  Instances,
  Callers,      (* Calls of run(), one each.                               *)
  Workers,      (* Names for the promises of instance workers: PoolCap of  *)
                (* them or more.                                           *)
  PoolCap,
  Nobody,
  MaxInserts,   (* Bounds the continuations of a behaviour,                *)
  MaxCallbacks, (* the callbacks of a transition                           *)
  MaxMishaps    (* and the errors and gaps.                                *)

ASSUME EngineWorkerAssumption ==
  /\ IsFiniteSet(Workers) /\ PoolCap \in 1..Cardinality(Workers)
  /\ Nobody \notin Instances
  /\ MaxInserts \in Nat /\ MaxCallbacks \in Nat /\ MaxMishaps \in Nat

VARIABLES
  ready,        (* How many continuations of an instance are READY,        *)
  inserted,     (* and how many there have been of all instances.          *)
  events,       (* Inserts that the change stream has yet to deliver.      *)
  status,       (* Of the instances.                                       *)
  inFlight,     (* The keys of the map of that name.                       *)
  worker,       (* By promise: its instance, where it is, the callbacks it *)
                (* has still to make, and whether the instance has ended.  *)
  waiter,       (* By caller: the instance it waits for, and its answer.   *)
  poll,         (* What the fallback poll has found, and is going through. *)
  stopped,
  stop,         (* stop(): none, closing the stream, draining or done,     *)
  draining,     (* and the promises it awaits.                             *)
  mishaps,
  held, lapsed, (* How many continuations of an instance are IN_PROGRESS   *)
                (* without anyone at work on them, and with which lease.   *)
  process       (* The host's: up, down or, inside recover(), recovering.  *)

dbVars   == <<ready, inserted, events, status>>
stopVars == <<stopped, stop, draining>>
hostVars == <<held, lapsed, process>>
vars == <<dbVars, inFlight, worker, waiter, poll, stopVars, mishaps, hostVars>>

Work(i, at) == [of |-> i, at |-> at, todo |-> 0, ended |-> FALSE]
NoWork == Work(Nobody, "idle")

NoCall == [for |-> Nobody, answer |-> "none"]

Busy == { w \in Workers : worker[w].at # "idle" }
Free == CHOOSE w \in Workers : w \notin Busy

Waiting(c, i) == waiter[c] = [for |-> i, answer |-> "waiting"]

Mishap ==
  /\ mishaps < MaxMishaps
  /\ mishaps' = mishaps + 1

Nothing == [i \in Instances |-> 0]

Init ==
  /\ ready = Nothing
  /\ inserted = 0
  /\ events = Nothing
  /\ status = [i \in Instances |-> "RUNNING"]
  /\ inFlight = {}
  /\ worker = [w \in Workers |-> NoWork]
  /\ waiter = [c \in Callers |-> NoCall]
  /\ poll = {}
  /\ stopped = FALSE /\ stop = "none" /\ draining = {}
  /\ mishaps = 0
  /\ held = Nothing /\ lapsed = Nothing /\ process = "up"

------------------------------------------------------------------------------
(* The collection, and the change stream on it.                            *)

(* n continuations of i are inserted.                                      *)
Write(i, n) ==
  /\ inserted + n <= MaxInserts
  /\ inserted' = inserted + n
  /\ ready' = [ready EXCEPT ![i] = @ + n]
  /\ events' = IF process = "up" THEN [events EXCEPT ![i] = @ + n] ELSE events

(* The host starts an instance or answers a callback.                      *)
Insert(i) ==
  /\ process # "down" /\ status[i] = "RUNNING"
  /\ Write(i, 1)
  /\ UNCHANGED <<status, inFlight, worker, waiter, poll, stopVars, mishaps, hostVars>>

------------------------------------------------------------------------------
(* The pool.                                                               *)

CanSpawn(i) == i \notin inFlight /\ Cardinality(inFlight) < PoolCap

(* Mutant: the instance is reserved later than it is looked at.            *)
Bug_EnsureInstanceWorker(i) ==
  IF CanSpawn(i) /\ Busy # Workers
  THEN /\ worker' = [worker EXCEPT ![Free] = Work(i, "deciding")]
       /\ inFlight' = { worker[w].of : w \in { v \in Busy : worker[v].at # "deciding" } }
  ELSE UNCHANGED <<worker, inFlight>>

EnsureInstanceWorker(i) ==
  IF CanSpawn(i)
  THEN /\ worker' = [worker EXCEPT ![Free] = Work(i, "deciding")]
       /\ inFlight' = inFlight \cup {i}
  ELSE UNCHANGED <<worker, inFlight>>

(* awaitQuiescent, for run().  The client refuses run() after stop(); the  *)
(* class itself, which the SDK exports, does not.                          *)
Run(c, i) ==
  /\ process = "up" /\ waiter[c] = NoCall
  /\ waiter' = [waiter EXCEPT ![c] = [for |-> i, answer |-> "waiting"]]
  /\ EnsureInstanceWorker(i)
  /\ UNCHANGED <<dbVars, poll, stopVars, mishaps, hostVars>>

(* The change stream delivers an insert.                                   *)
ChangeEvent(i) ==
  /\ ~stopped /\ events[i] > 0
  /\ events' = [events EXCEPT ![i] = @ - 1]
  /\ EnsureInstanceWorker(i)
  /\ UNCHANGED <<ready, inserted, status, waiter, poll, stopVars, mishaps, hostVars>>

(* It breaks and is opened again: what was inserted meanwhile is missed.   *)
StreamGap ==
  /\ Mishap
  /\ \E i \in Instances : events[i] > 0
  /\ events' = Nothing
  /\ UNCHANGED <<ready, inserted, status, inFlight, worker, waiter, poll, stopVars, hostVars>>

Claimable == { i \in Instances : ready[i] > 0 }

(* Mutant: only the instances that are in flight.                          *)
Bug_PollFinds ==
  /\ process = "up" /\ poll = {} /\ ~stopped /\ Cardinality(inFlight) < PoolCap
  /\ Claimable \cap inFlight # {}
  /\ poll' = Claimable \cap inFlight
  /\ UNCHANGED <<dbVars, inFlight, worker, waiter, stopVars, mishaps, hostVars>>

(* The fallback poll.                                                      *)
PollFinds ==
  /\ process = "up" /\ poll = {} /\ ~stopped /\ Cardinality(inFlight) < PoolCap
  /\ Claimable \ inFlight # {}
  /\ poll' = Claimable \ inFlight
  /\ UNCHANGED <<dbVars, inFlight, worker, waiter, stopVars, mishaps, hostVars>>

(* stopped is not looked at before the whole list is through.              *)
PollSpawns(i) ==
  /\ i \in poll
  /\ IF Cardinality(inFlight) >= PoolCap THEN poll' = {} ELSE poll' = poll \ {i}
  /\ EnsureInstanceWorker(i)
  /\ UNCHANGED <<dbVars, waiter, stopVars, mishaps, hostVars>>

------------------------------------------------------------------------------
(* runInstanceWorker.                                                      *)

At(w, at)   == worker[w].at = at
Goes(w, at) == worker' = [worker EXCEPT ![w].at = at]

(* notifyWaiters and rejectWaiters.                                        *)
Answer(i, answer) ==
  waiter' = [c \in Callers |-> IF Waiting(c, i) THEN [waiter[c] EXCEPT !.answer = answer]
                                                ELSE waiter[c]]

(* The head of the loop: recover() has a loop of its own.                  *)
LoopHead == IF stopped \/ process = "recovering" THEN "leaving" ELSE "claiming"

(* shouldProcess and onClaim.                                              *)
Decide(w) ==
  /\ At(w, "deciding") /\ Goes(w, LoopHead)
  /\ UNCHANGED <<dbVars, inFlight, waiter, poll, stopVars, mishaps, hostVars>>

ClaimContinuation(w) ==
  LET i == worker[w].of IN
  /\ At(w, "claiming")
  /\ IF ready[i] = 0
     THEN Goes(w, "asking") /\ UNCHANGED ready
     ELSE Goes(w, "processing") /\ ready' = [ready EXCEPT ![i] = @ - 1]
  /\ UNCHANGED <<inserted, events, status, inFlight, waiter, poll, stopVars, mishaps, hostVars>>

(* Nothing was left to claim: getInstance, notifyWaiters.                  *)
Quiescent(w) ==
  /\ At(w, "asking")
  /\ Answer(worker[w].of, status[worker[w].of])
  /\ Goes(w, "leaving")
  /\ UNCHANGED <<dbVars, inFlight, poll, stopVars, mishaps, hostVars>>

(* With todo callbacks left: the next one, or the end of the loop's body.  *)
Continue(w, todo, ended) ==
  LET i == worker[w].of IN
  IF todo > 0
  THEN /\ worker' = [worker EXCEPT ![w].at = "dispatching", ![w].todo = todo, ![w].ended = ended]
       /\ UNCHANGED waiter
  ELSE /\ worker' = [worker EXCEPT ![w].at = IF ended THEN "leaving" ELSE LoopHead, ![w].todo = 0,
                                   ![w].ended = FALSE]
       /\ IF ended THEN Answer(i, "COMPLETED") ELSE UNCHANGED waiter

(* processContinuation, broadcastAll, markOutboxSent and, when the         *)
(* transition has ended the instance, getInstance.                         *)
Process(w, n, todo, ended) ==
  LET i == worker[w].of IN
  /\ At(w, "processing")
  /\ ended => status[i] = "RUNNING"
  /\ status[i] = "COMPLETED" => n = 0 /\ todo = 0
  /\ Write(i, n)
  /\ status' = IF ended THEN [status EXCEPT ![i] = "COMPLETED"] ELSE status
  /\ Continue(w, todo, ended)
  /\ UNCHANGED <<inFlight, poll, stopVars, mishaps, hostVars>>

(* A handler is called and returns, having inserted n answers.             *)
DispatchOutboxItem(w, n) ==
  /\ At(w, "dispatching")
  /\ Write(worker[w].of, n)
  /\ Continue(w, worker[w].todo - 1, worker[w].ended)
  /\ UNCHANGED <<status, inFlight, poll, stopVars, mishaps, hostVars>>

(* Mutant: the waiters are left alone.                                     *)
Bug_Fail(w) ==
  /\ process = "up"
  /\ worker[w].at \in {"claiming", "processing", "dispatching", "asking"} /\ Mishap
  /\ worker' = [worker EXCEPT ![w] = Work(worker[w].of, "leaving")]
  /\ held' = [held EXCEPT ![worker[w].of] = @ + IF At(w, "processing") THEN 1 ELSE 0]
  /\ UNCHANGED <<dbVars, inFlight, waiter, poll, stopVars, lapsed, process>>

(* How many of the continuations of i the workers hold.                    *)
Claimed(i) == Cardinality({ w \in Busy : worker[w].of = i /\ At(w, "processing") })

(* Any of these throws.  What was claimed stays IN_PROGRESS, and what was  *)
(* still to be called is not.                                              *)
Fail(w) ==
  /\ process = "up"
  /\ worker[w].at \in {"claiming", "processing", "dispatching", "asking"} /\ Mishap
  /\ Answer(worker[w].of, "rejected")
  /\ worker' = [worker EXCEPT ![w] = Work(worker[w].of, "leaving")]
  /\ held' = [held EXCEPT ![worker[w].of] = @ + IF At(w, "processing") THEN 1 ELSE 0]
  /\ UNCHANGED <<dbVars, inFlight, poll, stopVars, lapsed, process>>

(* onRelease, and the promise is settled.                                  *)
Leave(w) ==
  /\ At(w, "leaving")
  /\ inFlight' = inFlight \ {worker[w].of}
  /\ worker' = [worker EXCEPT ![w] = NoWork]
  /\ draining' = draining \ {w}
  /\ UNCHANGED <<dbVars, waiter, poll, stopped, stop, mishaps, hostVars>>

------------------------------------------------------------------------------
(* stop().                                                                 *)

Stop ==
  /\ process = "up" /\ stop = "none"
  /\ stopped' = TRUE /\ stop' = "closing"
  /\ UNCHANGED <<dbVars, inFlight, worker, waiter, poll, draining, mishaps, hostVars>>

(* Mutant: stop() returns once the stream is closed.                       *)
Bug_StreamClosed ==
  /\ stop = "closing"
  /\ stop' = "draining" /\ draining' = {}
  /\ UNCHANGED <<dbVars, inFlight, worker, waiter, poll, stopped, mishaps, hostVars>>

StreamClosed ==
  /\ stop = "closing"
  /\ stop' = "draining" /\ draining' = Busy
  /\ UNCHANGED <<dbVars, inFlight, worker, waiter, poll, stopped, mishaps, hostVars>>

StopReturns ==
  /\ stop = "draining" /\ draining = {}
  /\ stop' = "done"
  /\ UNCHANGED <<dbVars, inFlight, worker, waiter, poll, stopped, draining, mishaps, hostVars>>

------------------------------------------------------------------------------
(* A crash, and the start after it: init(), recover(), startEngineWorker(). *)

(* Whoever waited is gone too.  An error that recover() throws is a crash. *)
Crash ==
  /\ process # "down" /\ Mishap
  /\ process' = "down"
  /\ held' = [i \in Instances |-> held[i] + Claimed(i)]
  /\ events' = Nothing /\ inFlight' = {} /\ poll' = {}
  /\ worker' = [w \in Workers |-> NoWork] /\ waiter' = [c \in Callers |-> NoCall]
  /\ stopped' = FALSE /\ stop' = "none" /\ draining' = {}
  /\ UNCHANGED <<ready, inserted, status, lapsed>>

LeaseExpires(i) ==
  /\ held[i] > 0
  /\ held' = [held EXCEPT ![i] = @ - 1] /\ lapsed' = [lapsed EXCEPT ![i] = @ + 1]
  /\ UNCHANGED <<dbVars, inFlight, worker, waiter, poll, stopVars, mishaps, process>>

(* Mutant: what was claimed is left as it is.                              *)
Bug_SweepExpiredLeases ==
  /\ process = "down" /\ process' = "recovering"
  /\ UNCHANGED <<dbVars, inFlight, worker, waiter, poll, stopVars, mishaps, held, lapsed>>

(* recover() begins: no lease is looked at again after it.                 *)
SweepExpiredLeases ==
  /\ process = "down" /\ process' = "recovering"
  /\ ready' = [i \in Instances |-> ready[i] + lapsed[i]] /\ lapsed' = Nothing
  /\ UNCHANGED <<inserted, events, status, inFlight, worker, waiter, poll, stopVars, mishaps, held>>

(* A turn of its loop, one continuation of any instance: what follows is   *)
(* Process, the calls of the handlers, and Leave.                          *)
RecoverClaims(i) ==
  /\ process = "recovering" /\ Busy = {} /\ ready[i] > 0
  /\ ready' = [ready EXCEPT ![i] = @ - 1]
  /\ worker' = [worker EXCEPT ![Free] = Work(i, "processing")]
  /\ UNCHANGED <<inserted, events, status, inFlight, waiter, poll, stopVars, mishaps, hostVars>>

(* It finds nothing more, and the engine worker is started.                *)
StartEngineWorker ==
  /\ process = "recovering" /\ Busy = {} /\ Claimable = {}
  /\ process' = "up"
  /\ UNCHANGED <<dbVars, inFlight, worker, waiter, poll, stopVars, mishaps, held, lapsed>>

Restart == SweepExpiredLeases \/ (\E i \in Instances : RecoverClaims(i)) \/ StartEngineWorker

------------------------------------------------------------------------------
Step(w) ==
  \/ Decide(w) \/ ClaimContinuation(w) \/ Quiescent(w) \/ Leave(w)
  \/ \E n \in 0..1, todo \in 0..MaxCallbacks, ended \in BOOLEAN : Process(w, n, todo, ended)
  \/ \E n \in 0..1 : DispatchOutboxItem(w, n)

Next ==
  \/ \E i \in Instances : Insert(i) \/ ChangeEvent(i) \/ PollSpawns(i)
  \/ StreamGap \/ PollFinds
  \/ \E c \in Callers, i \in Instances : Run(c, i)
  \/ \E w \in Workers : Step(w) \/ Fail(w)
  \/ Stop \/ StreamClosed \/ StopReturns
  \/ Crash \/ Restart \/ \E i \in Instances : LeaseExpires(i)

Spec == Init /\ [][Next]_vars

(* Every call that is awaited returns or throws, handlers too, and timers  *)
(* expire.  The change stream owes nothing: the poll is there for that.    *)
(* A host that went down is started again, by whoever runs it.             *)
Fairness ==
  /\ \A w \in Workers : WF_vars(Step(w))
  /\ WF_vars(PollFinds) /\ \A i \in Instances : WF_vars(PollSpawns(i))
  /\ WF_vars(StreamClosed \/ StopReturns) /\ WF_vars(Restart)

LiveSpec == Spec /\ Fairness

------------------------------------------------------------------------------
(* Properties.                                                             *)

Places == {"idle", "deciding", "claiming", "asking", "processing", "dispatching", "leaving"}

(* A worker that has an instance is in the map, and is one that stop()     *)
(* awaits only while it runs; callbacks are left to make only while they   *)
(* are being made.  recover() does without the map.                        *)
TypeOK ==
  /\ ready \in [Instances -> Nat] /\ inserted \in 0..MaxInserts
  /\ events \in [Instances -> Nat]
  /\ status \in [Instances -> {"RUNNING", "COMPLETED"}]
  /\ worker \in [Workers -> [of : Instances \cup {Nobody}, at : Places, todo : 0..MaxCallbacks,
                             ended : BOOLEAN]]
  /\ inFlight = IF process = "up" THEN { worker[w].of : w \in Busy } ELSE {}
  /\ process = "down" => Busy = {}
  /\ \A w \in Workers : (worker[w].todo > 0) = At(w, "dispatching")
  /\ waiter \in [Callers -> [for : Instances \cup {Nobody},
                    answer : {"none", "waiting", "RUNNING", "COMPLETED", "rejected"}]]
  /\ poll \subseteq Instances
  /\ stop \in {"none", "closing", "draining", "done"} /\ stopped = (stop # "none")
  /\ draining \subseteq Busy /\ mishaps \in 0..MaxMishaps
  /\ held \in [Instances -> Nat] /\ lapsed \in [Instances -> Nat]
  /\ process \in {"up", "down", "recovering"}

(* Whoever asks for it and in whatever order, an instance has one worker   *)
(* at a time, and the pool no more than it may.                            *)
OneWorkerPerInstance ==
  /\ TypeOK
  /\ \A v, w \in Busy : v # w => worker[v].of # worker[w].of
  /\ Cardinality(Busy) <= PoolCap

(* run() is not answered while a continuation of the instance is being     *)
(* processed or a handler is still to be called for one.                   *)
NotBeforeTheHandlers ==
  [][\A c \in Callers : waiter[c].answer = "waiting" /\ waiter'[c].answer \in {"RUNNING", "COMPLETED"} =>
       \A w \in Workers : worker'[w].of = waiter[c].for =>
         worker'[w].at \notin {"processing", "dispatching"}]_vars

(* When stop() has returned, no continuation is claimed and no handler     *)
(* runs, though a run(), or a poll that was under way, may still start     *)
(* workers.                                                                *)
QuietAfterStop ==
  stop = "done" => \A w \in Busy : worker[w].at \in {"deciding", "leaving"}

(* No instance is forgotten: whichever events were missed, or came while   *)
(* its worker was about to leave or the pool was full, and if the process  *)
(* crashes, what is READY is taken in the end.                             *)
EveryContinuationIsTaken ==
  \A i \in Instances : ready[i] > 0 ~> ready[i] = 0 \/ stopped

(* What a process that crashed had claimed is dealt with by the recover()  *)
(* of the next one, if the lease has run out by then.                      *)
RecoverTakesWhatLapsed ==
  \A i \in Instances : process = "down" /\ lapsed[i] > 0 ~> lapsed[i] = 0 /\ ready[i] = 0

(* A run() for an instance that has something READY is answered, be it     *)
(* with an error.                                                          *)
RunsWithWorkAreAnswered ==
  \A c \in Callers, i \in Instances :
    Waiting(c, i) /\ ready[i] > 0 ~> ~Waiting(c, i) \/ stopped
=============================================================================
