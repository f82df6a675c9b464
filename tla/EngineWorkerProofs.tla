-------------------------- MODULE EngineWorkerProofs --------------------------
(***************************************************************************)
(* What holds of the in-process worker for any number of instances, calls  *)
(* of run() and workers, and any size of the pool.                         *)
(***************************************************************************)
EXTENDS EngineWorker, FiniteSetTheorems, TLAPS

Records == [of : Instances \cup {Nobody}, at : Places, todo : 0..MaxCallbacks, ended : BOOLEAN]

(* The types of all that is not about workers.                             *)
Types ==
  /\ ready \in [Instances -> Nat] /\ inserted \in 0..MaxInserts
  /\ events \in [Instances -> Nat]
  /\ status \in [Instances -> {"RUNNING", "COMPLETED"}]
  /\ waiter \in [Callers -> [for : Instances \cup {Nobody},
                    answer : {"none", "waiting", "RUNNING", "COMPLETED", "rejected"}]]
  /\ poll \subseteq Instances
  /\ stop \in {"none", "closing", "draining", "done"} /\ stopped = (stop # "none")
  /\ mishaps \in 0..MaxMishaps
  /\ held \in [Instances -> Nat] /\ lapsed \in [Instances -> Nat]
  /\ process \in {"up", "down", "recovering"}

(* The workers there are have an instance each, and no two the same.  The  *)
(* map has these instances; that there are not more workers than it has is *)
(* what keeps the pool small.                                              *)
Pool ==
  /\ worker \in [Workers -> Records]
  /\ \A w \in Workers : /\ worker[w].at = "idle" => worker[w] = NoWork
                        /\ worker[w].at # "idle" => worker[w].of \in Instances
                        /\ worker[w].todo > 0 <=> worker[w].at = "dispatching"
  /\ \A v, w \in Busy : v # w => worker[v].of # worker[w].of
  /\ Cardinality(Busy) <= PoolCap
  /\ inFlight = IF process = "up" THEN { worker[w].of : w \in Busy } ELSE {}
  /\ process = "down" => Busy = {}
  /\ draining \subseteq Busy

(* There are no events, polls and calls of stop() but in a process that is *)
(* up; so nothing but recover() starts workers in another.                 *)
Hosted ==
  process # "up" => poll = {} /\ stop = "none" /\ \A i \in Instances : events[i] = 0

(* A worker that stop() does not await has done nothing yet, or is done.   *)
Quiet ==
  /\ stop = "draining" => \A w \in Busy \ draining : worker[w].at \in {"deciding", "leaving"}
  /\ stop = "done" => \A w \in Busy : worker[w].at \in {"deciding", "leaving"}

IInv == Types /\ Pool /\ Hosted /\ Quiet

------------------------------------------------------------------------------
LEMMA Constants ==
  /\ IsFiniteSet(Workers) /\ PoolCap \in Nat /\ 1 <= PoolCap /\ PoolCap <= Cardinality(Workers)
  /\ Cardinality(Workers) \in Nat
  /\ Nobody \notin Instances /\ MaxInserts \in Nat /\ MaxCallbacks \in Nat /\ MaxMishaps \in Nat
<1>1. IsFiniteSet(Workers) /\ Cardinality(Workers) \in Nat
  BY EngineWorkerAssumption, FS_CardinalityType
<1> QED BY <1>1, EngineWorkerAssumption

LEMMA NoWorkFacts ==
  /\ NoWork \in Records /\ NoWork.at = "idle" /\ NoWork.todo = 0
BY Constants DEF NoWork, Work, Records, Places

LEMMA BusyIsFinite == IsFiniteSet(Busy) /\ Cardinality(Busy) \in Nat
<1>1. Busy \in SUBSET Workers
  BY DEF Busy
<1> QED BY <1>1, Constants, FS_Subset, FS_CardinalityType

LEMMA InitHolds == Init => IInv
<1> SUFFICES ASSUME Init PROVE IInv
  OBVIOUS
<1>1. Busy = {} /\ Cardinality(Busy) = 0
  BY NoWorkFacts, FS_EmptySet DEF Init, Busy
<1>2. Types
  <2>1. 0 \in 0..MaxInserts /\ 0 \in 0..MaxMishaps
    BY Constants
  <2>2. Nothing \in [Instances -> Nat]
    BY DEF Nothing
  <2> QED BY <2>1, <2>2 DEF Init, Types, NoCall
<1>3. Pool
  <2>1. worker \in [Workers -> Records] /\ \A w \in Workers : worker[w] = NoWork
    BY NoWorkFacts DEF Init
  <2>2. inFlight = {} /\ draining = {} /\ process = "up"
    BY DEF Init
  <2> QED BY <1>1, <2>1, <2>2, Constants, NoWorkFacts DEF Pool
<1>4. Hosted /\ Quiet
  BY DEF Init, Hosted, Quiet, Nothing
<1> QED BY <1>2, <1>3, <1>4 DEF IInv

------------------------------------------------------------------------------
(* The pool.                                                               *)

(* The map is as large as the workers are many.                            *)
LEMMA MapCountsWorkers ==
  ASSUME Pool, process = "up"
  PROVE  Cardinality(Busy) <= Cardinality(inFlight) /\ Cardinality(inFlight) \in Nat
<1> DEFINE f == [w \in Busy |-> worker[w].of]
<1>1. inFlight = { worker[w].of : w \in Busy }
  BY DEF Pool
<1>2. f \in Surjection(Busy, inFlight)
  BY <1>1 DEF Surjection
<1>3. f \in Injection(Busy, inFlight)
  BY <1>1 DEF Injection, IsInjective, Pool
<1>4. IsFiniteSet(inFlight)
  BY <1>2, BusyIsFinite, FS_Surjection
<1> QED BY <1>3, <1>4, FS_Injection, FS_CardinalityType

(* A worker is started, with a number that is free.                        *)
LEMMA WorkerStarts ==
  ASSUME Pool, NEW i \in Instances, NEW at \in Places \ {"idle", "dispatching"},
         Cardinality(Busy) < PoolCap, \A w \in Busy : worker[w].of # i,
         worker' = [worker EXCEPT ![Free] = Work(i, at)]
  PROVE  /\ worker' \in [Workers -> Records]
         /\ \A w \in Workers : /\ worker'[w].at = "idle" => worker'[w] = NoWork
                               /\ worker'[w].at # "idle" => worker'[w].of \in Instances
                               /\ worker'[w].todo > 0 <=> worker'[w].at = "dispatching"
         /\ \A v, w \in Busy' : v # w => worker'[v].of # worker'[w].of
         /\ Cardinality(Busy') <= PoolCap
         /\ Free \in Workers \ Busy /\ Busy' = Busy \cup {Free}
         /\ { worker'[w].of : w \in Busy' } = { worker[w].of : w \in Busy } \cup {i}
         /\ \A w \in Busy : worker'[w] = worker[w]
         /\ worker'[Free].at = at
<1> DEFINE new == Work(i, at)
<1>1. Free \in Workers \ Busy
  <2>1. Busy # Workers
    BY Constants, BusyIsFinite
  <2>2. \E w \in Workers : w \notin Busy
    BY <2>1 DEF Busy
  <2> QED BY <2>2 DEF Free
<1>2. new \in Records /\ new.of = i /\ new.at = at /\ new.todo = 0
  BY Constants DEF Work, Records
<1> HIDE DEF new
<1>3. worker' \in [Workers -> Records] /\ \A w \in Workers : worker'[w] = IF w = Free THEN new ELSE worker[w]
  BY <1>1, <1>2 DEF Pool, new
<1>4. Busy' = Busy \cup {Free}
  BY <1>1, <1>2, <1>3 DEF Busy
<1>5. Cardinality(Busy') <= PoolCap
  <2>1. Cardinality(Busy \cup {Free}) = Cardinality(Busy) + 1
    BY <1>1, BusyIsFinite, FS_AddElement
  <2> QED BY <1>4, <2>1, Constants, BusyIsFinite
<1>6. \A w \in Busy : w \in Workers /\ w # Free
  BY <1>1 DEF Busy
<1> HIDE DEF Pool
<1>7. \A w \in Workers : /\ worker'[w].at = "idle" => worker'[w] = NoWork
                         /\ worker'[w].at # "idle" => worker'[w].of \in Instances
                         /\ worker'[w].todo > 0 <=> worker'[w].at = "dispatching"
  BY <1>2, <1>3, Constants DEF Pool
<1>8. \A v, w \in Busy' : v # w => worker'[v].of # worker'[w].of
  BY <1>1, <1>2, <1>3, <1>4, <1>6 DEF Pool
<1>9. { worker'[w].of : w \in Busy' } = { worker[w].of : w \in Busy } \cup {i}
  BY <1>1, <1>2, <1>3, <1>4, <1>6
<1> QED BY <1>1, <1>2, <1>3, <1>4, <1>5, <1>6, <1>7, <1>8, <1>9

(* ensureInstanceWorker, from whoever calls it in a process that is up.    *)
LEMMA Ensured ==
  ASSUME IInv, NEW i \in Instances, EnsureInstanceWorker(i), process = "up", UNCHANGED <<stopVars, process>>
  PROVE  Pool' /\ Quiet'
<1>1. Pool /\ Quiet /\ inFlight = { worker[w].of : w \in Busy }
  BY DEF IInv, Pool
<1>2. CASE CanSpawn(i)
  <2>1. /\ worker' = [worker EXCEPT ![Free] = Work(i, "deciding")]
        /\ inFlight' = inFlight \cup {i} /\ i \notin inFlight /\ Cardinality(inFlight) < PoolCap
    BY <1>2 DEF EnsureInstanceWorker, CanSpawn
  <2>2. Cardinality(Busy) < PoolCap
    BY <1>1, <2>1, MapCountsWorkers, BusyIsFinite, Constants
  <2>3. \A w \in Busy : worker[w].of # i
    BY <1>1, <2>1
  <2>4. "deciding" \in Places \ {"idle", "dispatching"}
    BY DEF Places
  <2>5. /\ worker' \in [Workers -> Records]
        /\ \A w \in Workers : /\ worker'[w].at = "idle" => worker'[w] = NoWork
                              /\ worker'[w].at # "idle" => worker'[w].of \in Instances
                              /\ worker'[w].todo > 0 <=> worker'[w].at = "dispatching"
        /\ \A v, w \in Busy' : v # w => worker'[v].of # worker'[w].of
        /\ Cardinality(Busy') <= PoolCap
        /\ Free \in Workers \ Busy /\ Busy' = Busy \cup {Free}
        /\ { worker'[w].of : w \in Busy' } = { worker[w].of : w \in Busy } \cup {i}
        /\ \A w \in Busy : worker'[w] = worker[w]
        /\ worker'[Free].at = "deciding"
    BY <1>1, <2>1, <2>2, <2>3, <2>4, WorkerStarts
  <2>6. inFlight' = { worker'[w].of : w \in Busy' } /\ draining' \subseteq Busy' /\ process' = "up"
    BY <1>1, <2>1, <2>5 DEF Pool, stopVars
  <2>7. Pool'
    BY <2>5, <2>6 DEF Pool
  <2>8. Quiet'
    BY <1>1, <2>5 DEF Quiet, stopVars
  <2> QED BY <2>7, <2>8
<1>3. CASE ~CanSpawn(i)
  BY <1>1, <1>3 DEF EnsureInstanceWorker, Pool, Quiet, Busy, stopVars
<1> QED BY <1>2, <1>3

(* A step of a worker that has not come to its end: it stays in the map,   *)
(* and when stop() was called it decides for nothing.                      *)
LEMMA WorkerMoves ==
  ASSUME IInv, NEW w \in Workers, NEW new \in Records,
         worker[w].at \notin {"idle", "leaving"},
         worker' = [worker EXCEPT ![w] = new],
         new.of = worker[w].of, new.at # "idle", new.todo > 0 <=> new.at = "dispatching",
         worker[w].at = "deciding" /\ stopped => new.at = "leaving",
         UNCHANGED <<inFlight, stopVars, process>>
  PROVE  Pool' /\ Quiet' /\ Busy' = Busy
<1>1. Pool /\ Quiet /\ stopped = (stop # "none")
  BY DEF IInv, Types
<1>2. \A v \in Workers : worker'[v] = IF v = w THEN new ELSE worker[v]
  BY <1>1 DEF Pool
<1>3. Busy' = Busy /\ w \in Busy
  BY <1>2 DEF Busy
<1>4. worker' \in [Workers -> Records]
  BY <1>1 DEF Pool
<1>5. \A v \in Workers : worker'[v].of = worker[v].of
  BY <1>2
<1>6. { worker'[v].of : v \in Busy } = { worker[v].of : v \in Busy }
  BY <1>5 DEF Busy
<1>7. \A v \in Workers : /\ worker'[v].at = "idle" => worker'[v] = NoWork
                         /\ worker'[v].at # "idle" => worker'[v].of \in Instances
                         /\ worker'[v].todo > 0 <=> worker'[v].at = "dispatching"
  BY <1>1, <1>2 DEF Pool
<1>8. \A v, u \in Busy : v # u => worker'[v].of # worker'[u].of
  BY <1>1, <1>5 DEF Pool, Busy
<1>9. Pool'
  BY <1>1, <1>3, <1>4, <1>6, <1>7, <1>8 DEF Pool, stopVars
<1>10. Quiet'
  <2>1. \A v \in Busy : v # w => worker'[v] = worker[v]
    BY <1>2 DEF Busy
  <2>2. stop # "none" /\ worker[w].at \in {"deciding", "leaving"} => worker'[w].at = "leaving"
    <3>1. stop # "none" => stopped
      BY <1>1
    <3> QED BY <1>2, <3>1
  <2>3. stop' = stop /\ draining' = draining
    BY DEF stopVars
  <2> QED BY <1>1, <1>3, <2>1, <2>2, <2>3 DEF Quiet
<1> QED BY <1>3, <1>9, <1>10

LEMMA LeaveKeeps ==
  ASSUME IInv, NEW w \in Workers, Leave(w)
  PROVE  IInv'
<1>1. /\ worker[w].at = "leaving" /\ inFlight' = inFlight \ {worker[w].of}
      /\ worker' = [worker EXCEPT ![w] = NoWork] /\ draining' = draining \ {w}
      /\ UNCHANGED <<dbVars, waiter, poll, stopped, stop, mishaps, hostVars>>
  BY DEF Leave, At
<1>2. Types' /\ Hosted'
  BY <1>1 DEF IInv, Types, Hosted, dbVars, hostVars
<1>3. Pool /\ Quiet
  BY DEF IInv
<1>4. \A v \in Workers : worker'[v] = IF v = w THEN NoWork ELSE worker[v]
  BY <1>1, <1>3 DEF Pool
<1>5. Busy' = Busy \ {w} /\ w \in Busy
  BY <1>1, <1>4, NoWorkFacts DEF Busy
<1>6. Cardinality(Busy') <= PoolCap
  <2>1. Cardinality(Busy \ {w}) = Cardinality(Busy) - 1
    BY <1>5, BusyIsFinite, FS_RemoveElement
  <2> QED BY <1>3, <1>5, <2>1, BusyIsFinite, Constants DEF Pool
<1>7. { worker'[v].of : v \in Busy' } = { worker[v].of : v \in Busy } \ {worker[w].of}
  <2>1. \A v \in Busy' : v \in Workers /\ worker'[v] = worker[v] /\ worker[v].of # worker[w].of
    BY <1>3, <1>4, <1>5 DEF Pool, Busy
  <2>2. { worker'[v].of : v \in Busy' } = { worker[v].of : v \in Busy \ {w} }
    BY <1>5, <2>1
  <2> QED BY <1>5, <2>1, <2>2
<1>8. worker' \in [Workers -> Records]
  BY <1>1, <1>3, NoWorkFacts DEF Pool
<1>9. \A v \in Workers : /\ worker'[v].at = "idle" => worker'[v] = NoWork
                         /\ worker'[v].at # "idle" => worker'[v].of \in Instances
                         /\ worker'[v].todo > 0 <=> worker'[v].at = "dispatching"
  BY <1>3, <1>4, NoWorkFacts DEF Pool
<1>10. \A u, v \in Busy' : u # v => worker'[u].of # worker'[v].of
  BY <1>3, <1>4, <1>5 DEF Pool, Busy
<1>11. /\ inFlight' = IF process' = "up" THEN { worker'[v].of : v \in Busy' } ELSE {}
       /\ process' = "down" => Busy' = {}
       /\ draining' \subseteq Busy'
  BY <1>1, <1>3, <1>5, <1>7 DEF Pool, hostVars
<1>12. Pool'
  BY <1>6, <1>8, <1>9, <1>10, <1>11 DEF Pool
<1>13. Quiet'
  BY <1>1, <1>3, <1>4, <1>5 DEF Quiet, Busy
<1> QED BY <1>2, <1>12, <1>13 DEF IInv

(* No worker moves.                                                        *)
LEMMA WorkersRest ==
  ASSUME IInv, UNCHANGED <<worker, inFlight, draining>>,
         inFlight = IF process' = "up" THEN { worker[w].of : w \in Busy } ELSE {},
         process' = "down" => process = "down"
  PROVE  Pool' /\ Busy' = Busy
BY DEF IInv, Pool, Busy

------------------------------------------------------------------------------
(* The steps that start no worker, and those that may.                     *)

LEMMA WriteKeeps ==
  ASSUME IInv, NEW i \in Instances, NEW n \in 0..1, Write(i, n)
  PROVE  /\ ready' \in [Instances -> Nat] /\ inserted' \in 0..MaxInserts /\ events' \in [Instances -> Nat]
         /\ process # "up" => events' = events
<1>1. ready \in [Instances -> Nat] /\ inserted \in 0..MaxInserts /\ events \in [Instances -> Nat]
  BY DEF IInv, Types
<1>2. inserted' \in 0..MaxInserts
  BY <1>1, Constants DEF Write
<1>3. \A m \in Nat : m + n \in Nat
  OBVIOUS
<1> QED BY <1>1, <1>2, <1>3 DEF Write

LEMMA InsertKeeps ==
  ASSUME IInv, NEW i \in Instances, Insert(i)
  PROVE  IInv'
<1>1. Write(i, 1) /\ UNCHANGED <<status, inFlight, worker, waiter, poll, stopVars, mishaps, hostVars>>
  BY DEF Insert
<1>2. Types' /\ Hosted'
  <2>1. /\ ready' \in [Instances -> Nat] /\ inserted' \in 0..MaxInserts /\ events' \in [Instances -> Nat]
        /\ process # "up" => events' = events
    BY <1>1, WriteKeeps
  <2> QED BY <1>1, <2>1 DEF IInv, Types, Hosted, stopVars, hostVars
<1>3. Pool' /\ Busy' = Busy
  BY <1>1, WorkersRest DEF IInv, Pool, stopVars, hostVars
<1>4. Quiet'
  BY <1>1, <1>3 DEF IInv, Quiet, stopVars
<1> QED BY <1>2, <1>3, <1>4 DEF IInv

LEMMA RunKeeps ==
  ASSUME IInv, NEW c \in Callers, NEW i \in Instances, Run(c, i)
  PROVE  IInv'
<1>1. /\ process = "up" /\ waiter' = [waiter EXCEPT ![c] = [for |-> i, answer |-> "waiting"]]
      /\ EnsureInstanceWorker(i) /\ UNCHANGED <<dbVars, poll, stopVars, mishaps, hostVars>>
  BY DEF Run
<1>2. Pool' /\ Quiet'
  BY <1>1, Ensured DEF hostVars
<1>3. Types' /\ Hosted'
  BY <1>1 DEF IInv, Types, Hosted, dbVars, stopVars, hostVars
<1> QED BY <1>2, <1>3 DEF IInv

LEMMA ChangeEventKeeps ==
  ASSUME IInv, NEW i \in Instances, ChangeEvent(i)
  PROVE  IInv'
<1>1. /\ events[i] > 0 /\ events' = [events EXCEPT ![i] = @ - 1] /\ EnsureInstanceWorker(i)
      /\ UNCHANGED <<ready, inserted, status, waiter, poll, stopVars, mishaps, hostVars>>
  BY DEF ChangeEvent
<1>2. events \in [Instances -> Nat]
  BY DEF IInv, Types
<1>3. process = "up"
  BY <1>1 DEF IInv, Hosted
<1>4. Pool' /\ Quiet'
  BY <1>1, <1>3, Ensured DEF hostVars
<1>5. events' \in [Instances -> Nat]
  BY <1>1, <1>2
<1>6. Types' /\ Hosted'
  BY <1>1, <1>3, <1>5 DEF IInv, Types, Hosted, stopVars, hostVars
<1> QED BY <1>4, <1>6 DEF IInv

LEMMA PollSpawnsKeeps ==
  ASSUME IInv, NEW i \in Instances, PollSpawns(i)
  PROVE  IInv'
<1>1. /\ i \in poll /\ poll' \subseteq poll /\ EnsureInstanceWorker(i)
      /\ UNCHANGED <<dbVars, waiter, stopVars, mishaps, hostVars>>
  BY DEF PollSpawns
<1>2. process = "up"
  BY <1>1 DEF IInv, Hosted
<1>3. Pool' /\ Quiet'
  BY <1>1, <1>2, Ensured DEF hostVars
<1>4. Types' /\ Hosted'
  BY <1>1, <1>2 DEF IInv, Types, Hosted, dbVars, stopVars, hostVars
<1> QED BY <1>3, <1>4 DEF IInv

LEMMA MishapKeeps ==
  ASSUME IInv, Mishap
  PROVE  mishaps' \in 0..MaxMishaps
BY Constants DEF IInv, Types, Mishap

(* The steps of the stream, of the poll, and of stop().                    *)
LEMMA HostKeeps ==
  ASSUME IInv, StreamGap \/ PollFinds \/ Stop \/ StreamClosed \/ StopReturns
  PROVE  IInv'
<1>1. CASE StreamGap
  <2>1. /\ events' = Nothing /\ mishaps' \in 0..MaxMishaps
        /\ UNCHANGED <<ready, inserted, status, inFlight, worker, waiter, poll, stopVars, hostVars>>
    BY <1>1, MishapKeeps DEF StreamGap
  <2>2. Types' /\ Hosted'
    BY <2>1 DEF IInv, Types, Hosted, stopVars, hostVars, Nothing
  <2>3. Pool' /\ Busy' = Busy
    BY <2>1, WorkersRest DEF IInv, Pool, stopVars, hostVars
  <2>4. Quiet'
    BY <2>1, <2>3 DEF IInv, Quiet, stopVars
  <2> QED BY <2>2, <2>3, <2>4 DEF IInv
<1>2. CASE PollFinds
  <2>1. /\ process = "up" /\ poll' \subseteq Instances
        /\ UNCHANGED <<dbVars, inFlight, worker, waiter, stopVars, mishaps, hostVars>>
    BY <1>2 DEF PollFinds, Claimable
  <2>2. Types' /\ Hosted'
    BY <2>1 DEF IInv, Types, Hosted, dbVars, stopVars, hostVars
  <2>3. Pool' /\ Busy' = Busy
    BY <2>1, WorkersRest DEF IInv, Pool, stopVars, hostVars
  <2>4. Quiet'
    BY <2>1, <2>3 DEF IInv, Quiet, stopVars
  <2> QED BY <2>2, <2>3, <2>4 DEF IInv
<1>3. CASE Stop \/ StreamClosed \/ StopReturns
  <2>1. /\ process = "up" /\ UNCHANGED <<dbVars, inFlight, worker, waiter, poll, mishaps, hostVars>>
        /\ stop' \in {"closing", "draining", "done"} /\ stopped'
        /\ draining' \subseteq Busy
    BY <1>3 DEF Stop, StreamClosed, StopReturns, IInv, Hosted, Types, Pool
  <2>2. Types' /\ Hosted'
    <3>1. stopped' = (stop' # "none")
      <4>1. stopped' = TRUE
        BY <1>3 DEF Stop, StreamClosed, StopReturns, IInv, Types
      <4> QED BY <2>1, <4>1
    <3> QED BY <2>1, <3>1 DEF IInv, Types, Hosted, dbVars, hostVars
  <2>3. Busy' = Busy
    BY <2>1 DEF Busy
  <2>4. Pool'
    BY <2>1, <2>3 DEF IInv, Pool, hostVars
  <2>5. Quiet'
    BY <1>3, <2>1, <2>3 DEF IInv, Quiet, Stop, StreamClosed, StopReturns
  <2> QED BY <2>2, <2>4, <2>5 DEF IInv
<1> QED BY <1>1, <1>2, <1>3

------------------------------------------------------------------------------
(* runInstanceWorker.                                                      *)

Answers == {"none", "waiting", "RUNNING", "COMPLETED", "rejected"}

LEMMA AnswerKeeps ==
  ASSUME IInv, NEW i, NEW answer \in Answers, Answer(i, answer)
  PROVE  /\ waiter' \in [Callers -> [for : Instances \cup {Nobody}, answer : Answers]]
         /\ \A c \in Callers : waiter'[c] # waiter[c] =>
              waiter[c].for = i /\ waiter'[c].for = i /\ waiter'[c].answer = answer
<1>1. waiter \in [Callers -> [for : Instances \cup {Nobody}, answer : Answers]]
  BY DEF IInv, Types, Answers
<1> DEFINE told(c) == [waiter[c] EXCEPT !.answer = answer]
<1>2. \A c \in Callers : /\ told(c) \in [for : Instances \cup {Nobody}, answer : Answers]
                         /\ told(c).for = waiter[c].for /\ told(c).answer = answer
  BY <1>1
<1> HIDE DEF told
<1>3. waiter' = [c \in Callers |-> IF Waiting(c, i) THEN told(c) ELSE waiter[c]]
  BY DEF Answer, told
<1>4. \A c \in Callers : Waiting(c, i) => waiter[c].for = i
  BY DEF Waiting
<1> HIDE DEF Waiting
<1> QED BY <1>1, <1>2, <1>3, <1>4

LEMMA WorkerTyped ==
  ASSUME IInv, NEW w \in Workers
  PROVE  /\ worker[w] \in Records /\ worker \in [Workers -> Records]
         /\ worker[w].at # "idle" => worker[w].of \in Instances
         /\ worker[w].todo > 0 <=> worker[w].at = "dispatching"
         /\ worker[w].todo \in Nat
BY Constants DEF IInv, Pool, Records

LEMMA DecideKeeps ==
  ASSUME IInv, NEW w \in Workers, Decide(w)
  PROVE  IInv'
<1> DEFINE new == [worker[w] EXCEPT !.at = LoopHead]
<1>1. /\ worker[w].at = "deciding" /\ worker' = [worker EXCEPT ![w] = new]
      /\ UNCHANGED <<dbVars, inFlight, waiter, poll, stopVars, mishaps, hostVars>>
  BY DEF Decide, At, Goes
<1>2. LoopHead \in {"leaving", "claiming"} /\ (stopped => LoopHead = "leaving")
  BY DEF LoopHead
<1>3. /\ new \in Records /\ new.of = worker[w].of /\ new.at = LoopHead /\ new.todo = worker[w].todo
  BY <1>2, WorkerTyped DEF Records, Places
<1> HIDE DEF new
<1>4. new.at # "idle" /\ (new.todo > 0 <=> new.at = "dispatching")
  BY <1>1, <1>2, <1>3, WorkerTyped
<1>5. Pool' /\ Quiet' /\ Busy' = Busy
  BY <1>1, <1>2, <1>3, <1>4, WorkerMoves DEF hostVars
<1>6. Types' /\ Hosted'
  BY <1>1 DEF IInv, Types, Hosted, dbVars, stopVars, hostVars
<1> QED BY <1>5, <1>6 DEF IInv

LEMMA ClaimKeeps ==
  ASSUME IInv, NEW w \in Workers, ClaimContinuation(w)
  PROVE  IInv'
<1>1. PICK at \in {"asking", "processing"} : worker' = [worker EXCEPT ![w].at = at]
  BY DEF ClaimContinuation, Goes
<1> DEFINE new == [worker[w] EXCEPT !.at = at]
<1>2. /\ worker[w].at = "claiming" /\ worker' = [worker EXCEPT ![w] = new]
      /\ UNCHANGED <<inserted, events, status, inFlight, waiter, poll, stopVars, mishaps, hostVars>>
  BY <1>1 DEF ClaimContinuation, At
<1>3. new \in Records /\ new.of = worker[w].of /\ new.at = at /\ new.todo = worker[w].todo
  BY WorkerTyped DEF Records, Places
<1> HIDE DEF new
<1>4. new.at # "idle" /\ (new.todo > 0 <=> new.at = "dispatching")
  BY <1>2, <1>3, WorkerTyped
<1>5. Pool' /\ Quiet' /\ Busy' = Busy
  BY <1>2, <1>3, <1>4, WorkerMoves DEF hostVars
<1>6. ready' \in [Instances -> Nat]
  <2>1. ready \in [Instances -> Nat] /\ worker[w].of \in Instances
    BY <1>2, WorkerTyped DEF IInv, Types
  <2>2. CASE ready[worker[w].of] = 0
    BY <2>1, <2>2 DEF ClaimContinuation
  <2>3. CASE ready[worker[w].of] # 0
    <3>1. ready' = [ready EXCEPT ![worker[w].of] = @ - 1]
      BY <2>3 DEF ClaimContinuation
    <3> QED BY <2>1, <2>3, <3>1
  <2> QED BY <2>2, <2>3
<1>7. Types' /\ Hosted'
  BY <1>2, <1>6 DEF IInv, Types, Hosted, stopVars, hostVars
<1> QED BY <1>5, <1>7 DEF IInv

LEMMA QuiescentKeeps ==
  ASSUME IInv, NEW w \in Workers, Quiescent(w)
  PROVE  IInv'
<1> DEFINE new == [worker[w] EXCEPT !.at = "leaving"]
<1>1. /\ worker[w].at = "asking" /\ worker' = [worker EXCEPT ![w] = new]
      /\ Answer(worker[w].of, status[worker[w].of])
      /\ UNCHANGED <<dbVars, inFlight, poll, stopVars, mishaps, hostVars>>
  BY DEF Quiescent, At, Goes
<1>2. new \in Records /\ new.of = worker[w].of /\ new.at = "leaving" /\ new.todo = worker[w].todo
  BY WorkerTyped DEF Records, Places
<1> HIDE DEF new
<1>3. new.todo > 0 <=> new.at = "dispatching"
  BY <1>1, <1>2, WorkerTyped
<1>4. Pool' /\ Quiet' /\ Busy' = Busy
  BY <1>1, <1>2, <1>3, WorkerMoves DEF hostVars
<1>5. status[worker[w].of] \in Answers
  BY <1>1, WorkerTyped DEF IInv, Types, Answers
<1>6. waiter' \in [Callers -> [for : Instances \cup {Nobody}, answer : Answers]]
  BY <1>1, <1>5, AnswerKeeps
<1>7. Types' /\ Hosted'
  BY <1>1, <1>6 DEF IInv, Types, Hosted, dbVars, stopVars, hostVars, Answers
<1> QED BY <1>4, <1>7 DEF IInv

(* The end of a step of the loop's body.                                   *)
LEMMA ContinueKeeps ==
  ASSUME IInv, NEW w \in Workers, NEW todo \in 0..MaxCallbacks, NEW ended \in BOOLEAN,
         Continue(w, todo, ended), worker[w].at \in {"processing", "dispatching"},
         UNCHANGED <<inFlight, stopVars, process>>
  PROVE  /\ Pool' /\ Quiet' /\ Busy' = Busy
         /\ waiter' \in [Callers -> [for : Instances \cup {Nobody}, answer : Answers]]
         /\ \A c \in Callers : waiter'[c] # waiter[c] =>
              waiter[c].for = worker'[w].of /\ worker'[w].at = "leaving"
         /\ \A v \in Workers \ {w} : worker'[v] = worker[v]
<1> DEFINE at == IF todo > 0 THEN "dispatching" ELSE IF ended THEN "leaving" ELSE LoopHead
           over == IF todo > 0 THEN ended ELSE FALSE
           new == [[[worker[w] EXCEPT !.at = at] EXCEPT !.todo = todo] EXCEPT !.ended = over]
<1>1. todo \in Nat
  BY Constants
<1>2. over \in BOOLEAN
  OBVIOUS
<1>3. at \in Places /\ at # "idle" /\ (todo > 0 <=> at = "dispatching")
  BY DEF LoopHead, Places
<1>4. worker' = [worker EXCEPT ![w] = new]
  <2>1. CASE todo > 0
    BY <2>1, WorkerTyped DEF Continue
  <2>2. CASE ~(todo > 0)
    <3>1. todo = 0
      BY <1>1, <2>2
    <3> QED BY <2>2, <3>1, WorkerTyped DEF Continue
  <2> QED BY <2>1, <2>2
<1>5. ~(todo > 0) /\ ended => at = "leaving"
  OBVIOUS
<1> HIDE DEF at, over
<1>6. new \in Records /\ new.of = worker[w].of /\ new.at = at /\ new.todo = todo
  BY <1>2, <1>3, WorkerTyped DEF Records
<1> HIDE DEF new
<1>7. Pool' /\ Quiet' /\ Busy' = Busy
  BY <1>3, <1>4, <1>6, WorkerMoves
<1>8. worker'[w].at = at /\ worker'[w].of = worker[w].of /\ \A v \in Workers \ {w} : worker'[v] = worker[v]
  BY <1>4, <1>6, WorkerTyped
<1>9. CASE waiter' = waiter
  BY <1>7, <1>8, <1>9 DEF IInv, Types, Answers
<1>10. CASE ~(todo > 0) /\ ended /\ Answer(worker[w].of, "COMPLETED")
  <2>1. "COMPLETED" \in Answers
    BY DEF Answers
  <2>2. /\ waiter' \in [Callers -> [for : Instances \cup {Nobody}, answer : Answers]]
        /\ \A c \in Callers : waiter'[c] # waiter[c] => waiter[c].for = worker[w].of
    BY <1>10, <2>1, AnswerKeeps
  <2> QED BY <1>5, <1>7, <1>8, <1>10, <2>2
<1>11. waiter' = waiter \/ (~(todo > 0) /\ ended /\ Answer(worker[w].of, "COMPLETED"))
  BY DEF Continue
<1> QED BY <1>9, <1>10, <1>11

LEMMA ProcessKeeps ==
  ASSUME IInv, NEW w \in Workers, NEW n \in 0..1, NEW todo \in 0..MaxCallbacks, NEW ended \in BOOLEAN,
         Process(w, n, todo, ended)
  PROVE  IInv'
<1>1. /\ worker[w].at = "processing" /\ Write(worker[w].of, n) /\ Continue(w, todo, ended)
      /\ status' = IF ended THEN [status EXCEPT ![worker[w].of] = "COMPLETED"] ELSE status
      /\ UNCHANGED <<inFlight, poll, stopVars, mishaps, hostVars>>
  BY DEF Process, At
<1>2. worker[w].of \in Instances
  BY <1>1, WorkerTyped
<1>3. /\ Pool' /\ Quiet'
      /\ waiter' \in [Callers -> [for : Instances \cup {Nobody}, answer : Answers]]
  BY <1>1, ContinueKeeps DEF hostVars
<1>4. /\ ready' \in [Instances -> Nat] /\ inserted' \in 0..MaxInserts /\ events' \in [Instances -> Nat]
      /\ process # "up" => events' = events
  BY <1>1, <1>2, WriteKeeps
<1>5. status' \in [Instances -> {"RUNNING", "COMPLETED"}]
  BY <1>1 DEF IInv, Types
<1>6. Types' /\ Hosted'
  BY <1>1, <1>3, <1>4, <1>5 DEF IInv, Types, Hosted, stopVars, hostVars, Answers
<1> QED BY <1>3, <1>6 DEF IInv

LEMMA DispatchKeeps ==
  ASSUME IInv, NEW w \in Workers, NEW n \in 0..1, DispatchOutboxItem(w, n)
  PROVE  IInv'
<1> DEFINE todo == worker[w].todo - 1
<1>1. /\ worker[w].at = "dispatching" /\ Write(worker[w].of, n) /\ Continue(w, todo, worker[w].ended)
      /\ UNCHANGED <<status, inFlight, poll, stopVars, mishaps, hostVars>>
  BY DEF DispatchOutboxItem, At
<1>2. worker[w].of \in Instances /\ todo \in 0..MaxCallbacks /\ worker[w].ended \in BOOLEAN
  BY <1>1, WorkerTyped, Constants DEF Records
<1> HIDE DEF todo
<1>3. /\ Pool' /\ Quiet'
      /\ waiter' \in [Callers -> [for : Instances \cup {Nobody}, answer : Answers]]
  BY <1>1, <1>2, ContinueKeeps DEF hostVars
<1>4. /\ ready' \in [Instances -> Nat] /\ inserted' \in 0..MaxInserts /\ events' \in [Instances -> Nat]
      /\ process # "up" => events' = events
  BY <1>1, <1>2, WriteKeeps
<1>5. Types' /\ Hosted'
  BY <1>1, <1>3, <1>4 DEF IInv, Types, Hosted, stopVars, hostVars, Answers
<1> QED BY <1>3, <1>5 DEF IInv

LEMMA FailKeeps ==
  ASSUME IInv, NEW w \in Workers, Fail(w)
  PROVE  IInv'
<1> DEFINE new == Work(worker[w].of, "leaving")
           more == IF At(w, "processing") THEN 1 ELSE 0
<1>1. /\ worker[w].at \in {"claiming", "processing", "dispatching", "asking"}
      /\ worker' = [worker EXCEPT ![w] = new] /\ Answer(worker[w].of, "rejected")
      /\ held' = [held EXCEPT ![worker[w].of] = @ + more]
      /\ UNCHANGED <<dbVars, inFlight, poll, stopVars, lapsed, process>>
  BY DEF Fail
<1>2. mishaps' \in 0..MaxMishaps
  BY MishapKeeps DEF Fail
<1>3. new \in Records /\ new.of = worker[w].of /\ new.at = "leaving" /\ new.todo = 0
  BY WorkerTyped, Constants DEF Work, Records, Places
<1> HIDE DEF new, more
<1>4. Pool' /\ Quiet' /\ Busy' = Busy
  <2>1. /\ worker[w].at \notin {"idle", "leaving"} /\ worker[w].at # "deciding" /\ new.at # "idle"
        /\ new.todo > 0 <=> new.at = "dispatching"
    BY <1>1, <1>3
  <2> QED BY <1>1, <1>3, <2>1, WorkerMoves
<1>5. "rejected" \in Answers
  BY DEF Answers
<1>6. waiter' \in [Callers -> [for : Instances \cup {Nobody}, answer : Answers]]
  BY <1>1, <1>5, AnswerKeeps
<1>7. held' \in [Instances -> Nat]
  <2>1. more \in Nat
    BY DEF more
  <2>2. worker[w].of \in Instances /\ held \in [Instances -> Nat]
    BY <1>1, WorkerTyped DEF IInv, Types
  <2> QED BY <1>1, <2>1, <2>2
<1>8. Types' /\ Hosted'
  BY <1>1, <1>2, <1>6, <1>7 DEF IInv, Types, Hosted, dbVars, stopVars, Answers
<1> QED BY <1>4, <1>8 DEF IInv

------------------------------------------------------------------------------
(* A crash, and the start after it.                                        *)

LEMMA CrashKeeps ==
  ASSUME IInv, Crash
  PROVE  IInv'
<1>1. /\ process' = "down" /\ held' = [i \in Instances |-> held[i] + Claimed(i)]
      /\ events' = Nothing /\ inFlight' = {} /\ poll' = {}
      /\ worker' = [w \in Workers |-> NoWork] /\ waiter' = [c \in Callers |-> NoCall]
      /\ stopped' = FALSE /\ stop' = "none" /\ draining' = {}
      /\ UNCHANGED <<ready, inserted, status, lapsed>>
  BY DEF Crash
<1>2. mishaps' \in 0..MaxMishaps
  BY MishapKeeps DEF Crash
<1>3. \A i \in Instances : Claimed(i) \in Nat
  <2> SUFFICES ASSUME NEW i \in Instances PROVE Claimed(i) \in Nat
    OBVIOUS
  <2> DEFINE theirs == { w \in Busy : worker[w].of = i /\ At(w, "processing") }
  <2>1. theirs \in SUBSET Busy
    OBVIOUS
  <2> HIDE DEF theirs
  <2>2. Cardinality(theirs) \in Nat
    BY <2>1, BusyIsFinite, FS_Subset, FS_CardinalityType
  <2> QED BY <2>2 DEF Claimed, theirs
<1>4. held' \in [Instances -> Nat] /\ events' \in [Instances -> Nat] /\ \A i \in Instances : events'[i] = 0
  BY <1>1, <1>3 DEF IInv, Types, Nothing
<1>5. stopped' = (stop' # "none")
  BY <1>1
<1>6. waiter' \in [Callers -> [for : Instances \cup {Nobody}, answer : Answers]]
  BY <1>1 DEF NoCall, Answers
<1>7. Types' /\ Hosted'
  BY <1>1, <1>2, <1>4, <1>5, <1>6 DEF IInv, Types, Hosted, Answers
<1>8. \A w \in Workers : worker'[w] = NoWork
  BY <1>1
<1>9. Busy' = {} /\ worker' \in [Workers -> Records]
  BY <1>1, <1>8, NoWorkFacts DEF Busy
<1>10. Cardinality(Busy') <= PoolCap
  BY <1>9, Constants, FS_EmptySet
<1>11. Pool'
  BY <1>1, <1>8, <1>9, <1>10, NoWorkFacts DEF Pool
<1>12. Quiet'
  BY <1>1 DEF Quiet
<1> QED BY <1>7, <1>11, <1>12 DEF IInv

LEMMA LeaseExpiresKeeps ==
  ASSUME IInv, NEW i \in Instances, LeaseExpires(i)
  PROVE  IInv'
<1>1. /\ held[i] > 0 /\ held' = [held EXCEPT ![i] = @ - 1] /\ lapsed' = [lapsed EXCEPT ![i] = @ + 1]
      /\ UNCHANGED <<dbVars, inFlight, worker, waiter, poll, stopVars, mishaps, process>>
  BY DEF LeaseExpires
<1>2. held' \in [Instances -> Nat] /\ lapsed' \in [Instances -> Nat]
  BY <1>1 DEF IInv, Types
<1>3. Types' /\ Hosted'
  BY <1>1, <1>2 DEF IInv, Types, Hosted, dbVars, stopVars
<1>4. Pool' /\ Busy' = Busy
  BY <1>1, WorkersRest DEF IInv, Pool, stopVars
<1>5. Quiet'
  BY <1>1, <1>4 DEF IInv, Quiet, stopVars
<1> QED BY <1>3, <1>4, <1>5 DEF IInv

LEMMA RestartKeeps ==
  ASSUME IInv, Restart
  PROVE  IInv'
<1>1. CASE SweepExpiredLeases
  <2>1. /\ process = "down" /\ process' = "recovering"
        /\ ready' = [i \in Instances |-> ready[i] + lapsed[i]] /\ lapsed' = Nothing
        /\ UNCHANGED <<inserted, events, status, inFlight, worker, waiter, poll, stopVars, mishaps, held>>
    BY <1>1 DEF SweepExpiredLeases
  <2>2. ready' \in [Instances -> Nat] /\ lapsed' \in [Instances -> Nat]
    BY <2>1 DEF IInv, Types, Nothing
  <2>3. Types' /\ Hosted'
    BY <2>1, <2>2 DEF IInv, Types, Hosted, stopVars
  <2>4. Pool' /\ Busy' = Busy
    BY <2>1, WorkersRest DEF IInv, Pool, stopVars
  <2>5. Quiet'
    BY <2>1, <2>4 DEF IInv, Quiet, stopVars
  <2> QED BY <2>3, <2>4, <2>5 DEF IInv
<1>2. ASSUME NEW i \in Instances, RecoverClaims(i) PROVE IInv'
  <2>1. /\ process = "recovering" /\ Busy = {} /\ ready[i] > 0 /\ ready' = [ready EXCEPT ![i] = @ - 1]
        /\ worker' = [worker EXCEPT ![Free] = Work(i, "processing")]
        /\ UNCHANGED <<inserted, events, status, inFlight, waiter, poll, stopVars, mishaps, hostVars>>
    BY <1>2 DEF RecoverClaims
  <2>2. ready' \in [Instances -> Nat]
    BY <2>1 DEF IInv, Types
  <2>3. Types' /\ Hosted'
    BY <2>1, <2>2 DEF IInv, Types, Hosted, stopVars, hostVars
  <2>4. Cardinality(Busy) < PoolCap /\ \A w \in Busy : worker[w].of # i
    BY <2>1, FS_EmptySet, Constants
  <2>5. "processing" \in Places \ {"idle", "dispatching"} /\ Pool
    BY DEF Places, IInv
  <2>6. /\ worker' \in [Workers -> Records]
        /\ \A w \in Workers : /\ worker'[w].at = "idle" => worker'[w] = NoWork
                              /\ worker'[w].at # "idle" => worker'[w].of \in Instances
                              /\ worker'[w].todo > 0 <=> worker'[w].at = "dispatching"
        /\ \A v, w \in Busy' : v # w => worker'[v].of # worker'[w].of
        /\ Cardinality(Busy') <= PoolCap
    BY <2>1, <2>4, <2>5, WorkerStarts
  <2>7. Pool'
    BY <2>1, <2>5, <2>6 DEF Pool, hostVars, stopVars
  <2>8. Quiet'
    BY <2>1 DEF IInv, Hosted, Quiet, stopVars
  <2> QED BY <2>3, <2>7, <2>8 DEF IInv
<1>3. CASE StartEngineWorker
  <2>1. /\ process = "recovering" /\ Busy = {} /\ process' = "up"
        /\ UNCHANGED <<dbVars, inFlight, worker, waiter, poll, stopVars, mishaps, held, lapsed>>
    BY <1>3 DEF StartEngineWorker
  <2>2. Types' /\ Hosted'
    BY <2>1 DEF IInv, Types, Hosted, dbVars, stopVars
  <2>3. inFlight = { worker[w].of : w \in Busy }
    BY <2>1 DEF IInv, Pool
  <2>4. Pool' /\ Busy' = Busy
    BY <2>1, <2>3, WorkersRest DEF stopVars
  <2>5. Quiet'
    BY <2>1, <2>4 DEF IInv, Quiet, stopVars
  <2> QED BY <2>2, <2>4, <2>5 DEF IInv
<1> QED BY <1>1, <1>2, <1>3 DEF Restart

------------------------------------------------------------------------------
(* The steps together.                                                     *)

LEMMA StepHolds == IInv /\ [Next]_vars => IInv'
<1> SUFFICES ASSUME IInv, [Next]_vars PROVE IInv'
  OBVIOUS
<1>1. CASE UNCHANGED vars
  <2>1. UNCHANGED <<dbVars, inFlight, worker, waiter, poll, stopVars, mishaps, hostVars>>
    BY <1>1 DEF vars
  <2>2. Types' /\ Hosted'
    BY <2>1 DEF IInv, Types, Hosted, dbVars, stopVars, hostVars
  <2>3. Pool' /\ Busy' = Busy
    BY <2>1, WorkersRest DEF IInv, Pool, stopVars, hostVars
  <2>4. Quiet'
    BY <2>1, <2>3 DEF IInv, Quiet, stopVars
  <2> QED BY <2>2, <2>3, <2>4 DEF IInv
<1>2. ASSUME NEW i \in Instances, Insert(i) \/ ChangeEvent(i) \/ PollSpawns(i) \/ LeaseExpires(i)
      PROVE  IInv'
  BY <1>2, InsertKeeps, ChangeEventKeeps, PollSpawnsKeeps, LeaseExpiresKeeps
<1>3. CASE StreamGap \/ PollFinds \/ Stop \/ StreamClosed \/ StopReturns
  BY <1>3, HostKeeps
<1>4. ASSUME NEW c \in Callers, NEW i \in Instances, Run(c, i) PROVE IInv'
  BY <1>4, RunKeeps
<1>5. ASSUME NEW w \in Workers, Step(w) PROVE IInv'
  <2>1. CASE Decide(w) \/ ClaimContinuation(w) \/ Quiescent(w) \/ Leave(w)
    BY <2>1, DecideKeeps, ClaimKeeps, QuiescentKeeps, LeaveKeeps
  <2>2. ASSUME NEW n \in 0..1, NEW todo \in 0..MaxCallbacks, NEW ended \in BOOLEAN, Process(w, n, todo, ended)
        PROVE  IInv'
    BY <2>2, ProcessKeeps
  <2>3. ASSUME NEW n \in 0..1, DispatchOutboxItem(w, n) PROVE IInv'
    BY <2>3, DispatchKeeps
  <2> QED BY <1>5, <2>1, <2>2, <2>3 DEF Step
<1>6. ASSUME NEW w \in Workers, Fail(w) PROVE IInv'
  BY <1>6, FailKeeps
<1>7. CASE Crash \/ Restart
  BY <1>7, CrashKeeps, RestartKeeps
<1> QED BY <1>1, <1>2, <1>3, <1>4, <1>5, <1>6, <1>7 DEF Next

(* Whatever the stream, the poll, run(), stop() and crashes do to each     *)
(* other: the workers are those of the instances in the map, one each,     *)
(* only a process that is up has events, polls and calls of stop(), and    *)
(* while stop() drains, a worker it does not await does nothing.           *)
THEOREM WorkerInvariance == Spec => []IInv
<1>1. Init => IInv
  BY InitHolds
<1>2. IInv /\ [Next]_vars => IInv'
  BY StepHolds
<1> QED BY <1>1, <1>2, PTL DEF Spec

(* An instance has at most one worker at a time, and there are never more  *)
(* than the pool may have, though three callers look at the map.           *)
THEOREM OneWorkerEach == Spec => []OneWorkerPerInstance
<1>1. IInv => OneWorkerPerInstance
  <2> SUFFICES ASSUME IInv PROVE OneWorkerPerInstance
    OBVIOUS
  <2>1. \A w \in Workers : (worker[w].todo > 0) = At(w, "dispatching")
    BY DEF IInv, Pool, At
  <2>2. TypeOK
    BY <2>1 DEF IInv, Types, Pool, Records, TypeOK
  <2> QED BY <2>2 DEF IInv, Pool, OneWorkerPerInstance
<1> QED BY <1>1, WorkerInvariance, PTL

(* When stop() has returned no continuation is claimed and no handler      *)
(* runs, however late a run() or a poll starts a worker.                   *)
THEOREM StopIsQuiet == Spec => []QuietAfterStop
<1>1. IInv => QuietAfterStop
  BY DEF IInv, Quiet, QuietAfterStop
<1> QED BY <1>1, WorkerInvariance, PTL

LEMMA NobodyElse ==
  ASSUME Pool', NEW w \in Workers, worker'[w].at = "leaving"
  PROVE  \A v \in Workers : worker'[v].of = worker'[w].of => worker'[v].at \notin {"processing", "dispatching"}
BY DEF Pool, Busy

(* run() is not answered before the handlers have been called for all that *)
(* the transitions of the instance asked for.                              *)
THEOREM RunsAnswerLast == Spec => NotBeforeTheHandlers
<1> DEFINE Answered(c) == waiter[c].answer = "waiting" /\ waiter'[c].answer \in {"RUNNING", "COMPLETED"}
           Over(c) == \A w \in Workers : worker'[w].of = waiter[c].for =>
                        worker'[w].at \notin {"processing", "dispatching"}
           Last == \A c \in Callers : Answered(c) => Over(c)
<1>1. IInv /\ [Next]_vars => [Last]_vars
  <2> SUFFICES ASSUME IInv, Next, NEW c \in Callers, Answered(c) PROVE Over(c)
    OBVIOUS
  <2>1. waiter'[c] # waiter[c] /\ waiter[c].answer = "waiting"
        /\ waiter'[c].answer \in {"RUNNING", "COMPLETED"} /\ waiter' # waiter
    OBVIOUS
  <2>2. IInv' /\ Pool'
    BY StepHolds DEF IInv
  <2>3. ASSUME NEW w \in Workers, waiter[c].for = worker'[w].of, worker'[w].at = "leaving" PROVE Over(c)
    BY <2>2, <2>3, NobodyElse
  <2>4. ASSUME NEW w \in Workers, Quiescent(w) PROVE Over(c)
    <3>1. /\ worker[w].at = "asking" /\ worker' = [worker EXCEPT ![w].at = "leaving"]
          /\ Answer(worker[w].of, status[worker[w].of])
      BY <2>4 DEF Quiescent, At, Goes
    <3>2. worker'[w].of = worker[w].of /\ worker'[w].at = "leaving"
      BY <3>1, WorkerTyped DEF Records
    <3>3. status[worker[w].of] \in Answers
      BY <3>1, WorkerTyped DEF IInv, Types, Answers
    <3>4. waiter[c].for = worker[w].of
      BY <2>1, <3>1, <3>3, AnswerKeeps
    <3> QED BY <2>3, <3>2, <3>4
  <2>5. ASSUME NEW w \in Workers, NEW n \in 0..1, NEW todo \in 0..MaxCallbacks, NEW ended \in BOOLEAN,
               Process(w, n, todo, ended)
        PROVE  Over(c)
    <3>1. /\ worker[w].at = "processing" /\ Continue(w, todo, ended) /\ UNCHANGED <<inFlight, stopVars, process>>
      BY <2>5 DEF Process, At, hostVars
    <3>2. waiter[c].for = worker'[w].of /\ worker'[w].at = "leaving"
      BY <2>1, <3>1, ContinueKeeps
    <3> QED BY <2>3, <3>2
  <2>6. ASSUME NEW w \in Workers, NEW n \in 0..1, DispatchOutboxItem(w, n) PROVE Over(c)
    <3> DEFINE todo == worker[w].todo - 1
    <3>1. /\ worker[w].at = "dispatching" /\ Continue(w, todo, worker[w].ended)
          /\ UNCHANGED <<inFlight, stopVars, process>>
      BY <2>6 DEF DispatchOutboxItem, At, hostVars
    <3>2. todo \in 0..MaxCallbacks /\ worker[w].ended \in BOOLEAN
      BY <3>1, WorkerTyped, Constants DEF Records
    <3> HIDE DEF todo
    <3>3. waiter[c].for = worker'[w].of /\ worker'[w].at = "leaving"
      BY <2>1, <3>1, <3>2, ContinueKeeps
    <3> QED BY <2>3, <3>3
  <2>7. ASSUME NEW w \in Workers, Fail(w) PROVE FALSE
    <3>1. Answer(worker[w].of, "rejected") /\ "rejected" \in Answers
      BY <2>7 DEF Fail, Answers
    <3> QED BY <2>1, <3>1, AnswerKeeps
  <2>8. ASSUME NEW d \in Callers, NEW i \in Instances, Run(d, i) PROVE FALSE
    <3>1. waiter[d] = NoCall /\ waiter' = [waiter EXCEPT ![d] = [for |-> i, answer |-> "waiting"]]
      BY <2>8 DEF Run
    <3>2. waiter'[c] = waiter[c] \/ waiter[c] = NoCall
      BY <3>1 DEF IInv, Types
    <3> QED BY <2>1, <3>2 DEF NoCall
  <2>9. ASSUME Crash PROVE FALSE
    BY <2>1, <2>9 DEF Crash, NoCall
  <2>10. ASSUME NEW i \in Instances, Insert(i) \/ ChangeEvent(i) \/ PollSpawns(i) \/ LeaseExpires(i)
         PROVE  FALSE
    BY <2>1, <2>10 DEF Insert, ChangeEvent, PollSpawns, LeaseExpires
  <2>11. ASSUME StreamGap \/ PollFinds \/ Stop \/ StreamClosed \/ StopReturns \/ Restart PROVE FALSE
    BY <2>1, <2>11 DEF StreamGap, PollFinds, Stop, StreamClosed, StopReturns, Restart, SweepExpiredLeases,
                       RecoverClaims, StartEngineWorker
  <2>12. ASSUME NEW w \in Workers, Decide(w) \/ ClaimContinuation(w) \/ Leave(w) PROVE FALSE
    BY <2>1, <2>12 DEF Decide, ClaimContinuation, Leave
  <2> QED BY <2>4, <2>5, <2>6, <2>7, <2>8, <2>9, <2>10, <2>11, <2>12 DEF Next, Step
<1>2. Spec => [][Last]_vars
  BY <1>1, WorkerInvariance, PTL DEF Spec
<1> QED BY <1>2 DEF NotBeforeTheHandlers

=============================================================================
