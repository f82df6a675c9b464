----------------------- MODULE InstanceLifecycleProofs -----------------------
(***************************************************************************)
(* What holds of starts and purges for any number of callers, workers and  *)
(* instances.                                                              *)
(***************************************************************************)
EXTENDS InstanceLifecycle, TLAPS

Statuses == {"none", "RUNNING", "COMPLETED"}
AllKeys  == {Absent} \cup { KeyOf[c] : c \in Callers }

Shape ==
  /\ instance \in [Ids -> [status : Statuses, parent : Ids \cup {Absent}, key : AllKeys]]
  /\ state \in [Ids -> {Absent} \cup 0..2]
  /\ cont \in [Ids -> [Steps -> {"none", "READY", "IN_PROGRESS", "DONE"}]]
  /\ rows \in [Ids -> SUBSET Collections]
  /\ used \subseteq Ids
  /\ caller \in [Callers -> [at : {"idle", "writing", "refused", "deferred", "done", "error"},
                             answer : Ids \cup {Absent}]]
  /\ worker \in [Workers -> [at : {"idle", "claimed", "state", "read", "failed"},
                             of : Ids \cup {Absent}, step : Steps, ver : 0..2]]
  /\ purge \in [at : {"none", "walking", "deleting", "returned", "error"}, ids : SUBSET Ids,
                frontier : SUBSET Ids, left : SUBSET Collections]
  /\ purges \in Nat

(* Whatever is in anyone's hands is about an instance there has been, and  *)
(* about the others there are no documents.  Before the first purge there  *)
(* is no purge under way, and a running instance has its two documents.    *)
Tidy ==
  /\ \A i \in Ids \ used : Nothing(i)
  /\ \A c \in Callers :
       /\ caller[c].answer # Absent => caller[c].answer \in used \ DOMAIN Family
       /\ caller[c].at = "deferred" => caller[c].answer # Absent
  /\ \A w \in Workers : worker[w].at # "idle" => worker[w].of \in used
  /\ calls \subseteq used
  /\ purge.ids \subseteq used
  /\ purges = 0 => purge = NoPurge
  /\ purges = 0 => \A i \in Ids :
       /\ Exists(i) = (state[i] # Absent)
       /\ (instance[i].status = "COMPLETED") = (state[i] = 2)

(* What the unique index and the order of the ids have to do with answers: *)
(* an answer is never older than the instance that has its key.            *)
Keyed ==
  /\ \A i, j \in Ids :
       Exists(i) /\ Exists(j) /\ instance[i].key = instance[j].key /\ instance[i].key # Absent => i = j
  /\ \A c \in Callers, j \in Ids :
       caller[c].answer # Absent /\ KeyOf[c] # Absent /\ Exists(j) /\ instance[j].key = KeyOf[c] =>
         caller[c].answer <= j
  /\ \A c \in Callers :
       caller[c].answer # Absent /\ Exists(caller[c].answer) =>
         instance[caller[c].answer].key = KeyOf[c]
  /\ \A i \in used \ DOMAIN Family, j \in Ids \ used : i < j
  /\ \A i \in DOMAIN Family : i \in used /\ instance[i].key = Absent
  /\ \A c \in Callers :
       /\ caller[c].at = "refused" /\ purges = 0 => WithKey(KeyOf[c]) # {}
       /\ caller[c].at = "error" => purges > 0

IInv == Shape /\ Tidy /\ Keyed

------------------------------------------------------------------------------
LEMMA Numbers == Absent \notin Nat /\ Ids \subseteq Nat /\ Absent \notin Ids
BY LifecycleAssumption

LEMMA InitHolds == Init => IInv
<1> SUFFICES ASSUME Init PROVE IInv
  OBVIOUS
<1> USE LifecycleAssumption, Numbers
<1>1. Shape
  BY DEF Init, Shape, Statuses, AllKeys, Steps, START, TOKEN, Collections, NoWork, NoPurge, NoInstance
<1>2. Tidy
  BY DEF Init, Tidy, Nothing, Exists, NoInstance, NoWork, NoPurge, Steps
<1>3. Keyed
  <2>1. \A i \in Ids : instance[i].key = Absent
    BY DEF Init, NoInstance
  <2> QED BY <2>1 DEF Init, Keyed
<1> QED BY <1>1, <1>2, <1>3 DEF IInv

------------------------------------------------------------------------------
(* What a step that hands out no instance and answers nobody must keep.    *)
LEMMA KeyedKept ==
  ASSUME IInv, UNCHANGED <<used, caller, purges>>,
         \A i \in Ids : Exists(i)' => Exists(i) /\ instance'[i].key = instance[i].key,
         \A i \in Ids : instance'[i].key \in {instance[i].key, Absent},
         purges = 0 => \A i \in Ids : Exists(i) => Exists(i)'
  PROVE  Keyed'
<1>1. \A c \in Callers : caller[c].answer # Absent => caller[c].answer \in Ids
  BY DEF IInv, Shape
<1>2. \A k : purges = 0 => WithKey(k) \subseteq WithKey(k)'
  BY DEF WithKey
<1>3. \A i \in DOMAIN Family : i \in Ids
  BY LifecycleAssumption
<1> QED BY <1>1, <1>2, <1>3 DEF IInv, Keyed

------------------------------------------------------------------------------
(* startInstance.                                                          *)

LEMMA WithKeyFacts ==
  ASSUME IInv, NEW k, NEW i \in WithKey(k)
  PROVE  /\ i \in used \ DOMAIN Family /\ i \in Ids /\ Exists(i)
         /\ instance[i].key = k /\ k # Absent /\ i # Absent
BY Numbers DEF WithKey, IInv, Tidy, Keyed, Nothing

(* The answer is the instance that has the key.                            *)
LEMMA AnswerStep ==
  ASSUME IInv, NEW c \in Callers, NEW i \in WithKey(KeyOf[c]), CallerGoes(c, "done", i),
         UNCHANGED <<docs, used, worker, calls, purge, purges>>
  PROVE  IInv'
<1> USE Numbers
<1>1. /\ i \in used \ DOMAIN Family /\ i \in Ids /\ Exists(i)
      /\ instance[i].key = KeyOf[c] /\ KeyOf[c] # Absent /\ i # Absent
  BY WithKeyFacts
<1>2. Shape'
  BY <1>1 DEF IInv, Shape, CallerGoes, docs
<1>3. Tidy'
  BY <1>1 DEF IInv, Shape, Tidy, CallerGoes, docs, Exists, Nothing
<1>4. Keyed'
  <2>1. \A d \in Callers : caller'[d] = IF d = c THEN [at |-> "done", answer |-> i] ELSE caller[d]
    BY DEF CallerGoes, IInv, Shape
  <2>2. \A j \in Ids : Exists(j) /\ instance[j].key = KeyOf[c] => j = i
    BY <1>1 DEF IInv, Keyed
  <2>3. UNCHANGED <<instance, used, purges>>
    BY DEF docs
  <2>4. i <= i
    <3>1. i \in Nat
      BY <1>1
    <3> QED BY <3>1
  <2> QED BY <1>1, <2>1, <2>2, <2>3, <2>4 DEF IInv, Keyed, WithKey, Exists
<1> QED BY <1>2, <1>3, <1>4 DEF IInv

(* A call goes on without an answer.                                       *)
LEMMA NoAnswerStep ==
  ASSUME IInv, NEW c \in Callers, NEW at \in {"writing", "refused", "error"},
         CallerGoes(c, at, Absent), UNCHANGED <<docs, used, worker, calls, purge, purges>>,
         at = "refused" => WithKey(KeyOf[c]) # {}, at = "error" => purges > 0
  PROVE  IInv'
<1> USE Numbers
<1>2. Shape'
  BY DEF IInv, Shape, CallerGoes, docs
<1>3. Tidy'
  BY DEF IInv, Shape, Tidy, CallerGoes, docs, Exists, Nothing
<1>4. Keyed'
  <2>1. \A d \in Callers : caller'[d] = IF d = c THEN [at |-> at, answer |-> Absent] ELSE caller[d]
    BY DEF CallerGoes, IInv, Shape
  <2>2. UNCHANGED <<instance, used, purges>>
    BY DEF docs
  <2> QED BY <2>1, <2>2 DEF IInv, Keyed, WithKey, Exists
<1> QED BY <1>2, <1>3, <1>4 DEF IInv

LEMMA FindByKeyStep ==
  ASSUME IInv, NEW c \in Callers, FindByKey(c)
  PROVE  IInv'
<1>1. CASE WithKey(KeyOf[c]) = {}
  <2>1. CallerGoes(c, "writing", Absent) /\ UNCHANGED <<docs, used, worker, calls, purge, purges>>
    BY <1>1 DEF FindByKey, bounds
  <2> QED BY <2>1, NoAnswerStep
<1>2. CASE WithKey(KeyOf[c]) # {}
  <2>1. PICK i \in WithKey(KeyOf[c]) : CallerGoes(c, "done", i)
    BY <1>2 DEF FindByKey
  <2>2. UNCHANGED <<docs, used, worker, calls, purge, purges>>
    BY DEF FindByKey, bounds
  <2> QED BY <2>1, <2>2, AnswerStep
<1> QED BY <1>1, <1>2

LEMMA FindWinnerStep ==
  ASSUME IInv, NEW c \in Callers, FindWinner(c)
  PROVE  IInv'
<1>1. CASE WithKey(KeyOf[c]) = {}
  <2>1. CallerGoes(c, "error", Absent) /\ UNCHANGED <<docs, used, worker, calls, purge, purges>>
    BY <1>1 DEF FindWinner, bounds
  <2>2. purges > 0
    BY <1>1 DEF FindWinner, IInv, Keyed, Shape
  <2> QED BY <2>1, <2>2, NoAnswerStep
<1>2. CASE WithKey(KeyOf[c]) # {}
  <2>1. PICK i \in WithKey(KeyOf[c]) : CallerGoes(c, "done", i)
    BY <1>2 DEF FindWinner
  <2>2. UNCHANGED <<docs, used, worker, calls, purge, purges>>
    BY DEF FindWinner, bounds
  <2> QED BY <2>1, <2>2, AnswerStep
<1> QED BY <1>1, <1>2

LEMMA CreateStep ==
  ASSUME IInv, NEW c \in Callers, NEW i \in Ids, IsFresh(i), WithKey(KeyOf[c]) = {},
         CreateWith(c, i), UNCHANGED <<worker, calls, purge, bounds>>
  PROVE  IInv'
<1> USE Numbers
<1> DEFINE new == [status |-> "RUNNING", key |-> KeyOf[c], parent |-> Absent]
<1>1. /\ i \notin used /\ Nothing(i) /\ i # Absent
      /\ i \notin DOMAIN Family
      /\ instance' = [instance EXCEPT ![i] = new]
  BY DEF IsFresh, IInv, Tidy, Keyed, CreateWith
<1>2. \A j \in Ids : instance'[j] = IF j = i THEN new ELSE instance[j]
  BY <1>1 DEF IInv, Shape
<1>3. PICK at \in {"deferred", "done"} : CallerGoes(c, at, i)
  BY DEF CreateWith
<1>4. \A d \in Callers : caller'[d] = IF d = c THEN [at |-> at, answer |-> i] ELSE caller[d]
  BY <1>3 DEF CallerGoes, IInv, Shape
<1>5. Shape'
  <2>1. instance' \in [Ids -> [status : Statuses, parent : Ids \cup {Absent}, key : AllKeys]]
    BY <1>1 DEF IInv, Shape, Statuses, AllKeys
  <2>2. state' \in [Ids -> {Absent} \cup 0..2]
    BY DEF CreateWith, IInv, Shape
  <2>3. cont' \in [Ids -> [Steps -> {"none", "READY", "IN_PROGRESS", "DONE"}]]
    <3>1. cont' = cont \/ cont' = [cont EXCEPT ![i][1] = "READY"]
      BY DEF CreateWith, START
    <3> QED BY <3>1 DEF IInv, Shape, Steps
  <2>4. caller' \in [Callers -> [at : {"idle", "writing", "refused", "deferred", "done", "error"},
                                 answer : Ids \cup {Absent}]]
    BY <1>3 DEF CallerGoes, IInv, Shape
  <2> QED BY <2>1, <2>2, <2>3, <2>4 DEF CreateWith, IInv, Shape, bounds
<1>6. Tidy'
  <2>1. \A j \in Ids : state'[j] = IF j = i THEN 0 ELSE state[j]
    BY DEF CreateWith, IInv, Shape
  <2>2. \A j \in Ids : j # i => cont'[j] = cont[j]
    BY DEF CreateWith, IInv, Shape
  <2>3. \A j \in Ids \ used' : Nothing(j)'
    BY <1>2, <2>1, <2>2 DEF CreateWith, IInv, Tidy, Nothing, Exists
  <2>4. \A d \in Callers : /\ caller'[d].answer # Absent => caller'[d].answer \in used' \ DOMAIN Family
                           /\ caller'[d].at = "deferred" => caller'[d].answer # Absent
    BY <1>1, <1>4 DEF CreateWith, IInv, Tidy
  <2>5. purges = 0 => \A j \in Ids : /\ Exists(j)' = (state'[j] # Absent)
                                     /\ (instance'[j].status = "COMPLETED") = (state'[j] = 2)
    BY <1>2, <2>1 DEF IInv, Tidy, Exists
  <2> QED BY <2>3, <2>4, <2>5 DEF CreateWith, IInv, Tidy, bounds
<1>7. Keyed'
  <2>1. \A j \in Ids : Exists(j) /\ KeyOf[c] # Absent => instance[j].key # KeyOf[c]
    BY DEF WithKey
  <2>2. \A d \in Callers : caller[d].answer # Absent => caller[d].answer < i
    BY <1>1 DEF IInv, Tidy, Keyed
  <2>3. \A j \in Ids \ used' : i < j
    BY <1>1 DEF IsFresh, CreateWith
  <2>4. used' = used \cup {i} /\ purges' = purges
    BY DEF CreateWith, bounds
  <2>5. \A j \in Ids : Exists(j)' <=> (j = i \/ Exists(j))
    BY <1>2 DEF Exists
  <2>6. \A j, k \in Ids : Exists(j)' /\ Exists(k)' /\ instance'[j].key = instance'[k].key
                          /\ instance'[j].key # Absent => j = k
    <3> SUFFICES ASSUME NEW j \in Ids, NEW k \in Ids, Exists(j)', Exists(k)',
                        instance'[j].key = instance'[k].key, instance'[j].key # Absent, j # k
                 PROVE  FALSE
      OBVIOUS
    <3>1. CASE j = i
      <4>1. Exists(k) /\ instance[k].key = KeyOf[c]
        BY <3>1, <1>2, <2>5
      <4> QED BY <3>1, <4>1, <1>2, <2>1
    <3>2. CASE k = i
      <4>1. Exists(j) /\ instance[j].key = KeyOf[c]
        BY <3>2, <1>2, <2>5
      <4> QED BY <3>2, <4>1, <1>2, <2>1
    <3>3. CASE j # i /\ k # i
      <4>1. Exists(j) /\ Exists(k) /\ instance[j].key = instance[k].key /\ instance[j].key # Absent
        BY <3>3, <1>2, <2>5
      <4> QED BY <4>1 DEF IInv, Keyed
    <3> QED BY <3>1, <3>2, <3>3
  <2>7. \A d \in Callers, j \in Ids :
          caller'[d].answer # Absent /\ KeyOf[d] # Absent /\ Exists(j)' /\ instance'[j].key = KeyOf[d] =>
            caller'[d].answer <= j
    <3> SUFFICES ASSUME NEW d \in Callers, NEW j \in Ids, caller'[d].answer # Absent, KeyOf[d] # Absent,
                        Exists(j)', instance'[j].key = KeyOf[d]
                 PROVE  caller'[d].answer <= j
      OBVIOUS
    <3>1. CASE d = c
      <4>1. j = i
        BY <3>1, <1>2, <2>1, <2>5
      <4> QED BY <3>1, <4>1, <1>4
    <3>2. CASE d # c /\ j = i
      BY <3>2, <1>4, <2>2, <1>1 DEF IInv, Shape
    <3>3. CASE d # c /\ j # i
      BY <3>3, <1>2, <1>4, <2>5 DEF IInv, Keyed
    <3> QED BY <3>1, <3>2, <3>3
  <2>8. \A d \in Callers : caller'[d].answer # Absent /\ instance'[caller'[d].answer].status # "none" =>
          instance'[caller'[d].answer].key = KeyOf[d]
    <3> SUFFICES ASSUME NEW d \in Callers, caller'[d].answer # Absent, instance'[caller'[d].answer].status # "none"
                 PROVE  instance'[caller'[d].answer].key = KeyOf[d]
      OBVIOUS
    <3>1. CASE d = c
      BY <3>1, <1>2, <1>4
    <3>2. CASE d # c
      <4>1. caller[d].answer \in Ids /\ caller[d].answer # i /\ caller'[d].answer = caller[d].answer
        BY <3>2, <1>1, <1>4, <2>2 DEF IInv, Tidy, Shape
      <4>2. Exists(caller[d].answer)
        BY <4>1, <1>2 DEF Exists
      <4> QED BY <4>1, <4>2, <1>2 DEF IInv, Keyed
    <3> QED BY <3>1, <3>2
  <2>9. \A j \in used' \ DOMAIN Family, k \in Ids \ used' : j < k
    BY <2>3, <2>4 DEF IInv, Keyed
  <2>10. \A j \in DOMAIN Family : j \in used' /\ instance'[j].key = Absent
    BY <1>1, <1>2, <2>4 DEF IInv, Keyed, Shape
  <2>11. \A d \in Callers : /\ caller'[d].at = "refused" /\ purges' = 0 => WithKey(KeyOf[d])' # {}
                            /\ caller'[d].at = "error" => purges' > 0
    <3>1. \A k : WithKey(k) \subseteq WithKey(k)'
      BY <1>1, <1>2, <2>5 DEF WithKey, Nothing
    <3> QED BY <3>1, <1>4, <2>4 DEF IInv, Keyed
  <2> QED BY <2>6, <2>7, <2>8, <2>9, <2>10, <2>11 DEF Keyed, Exists
<1> QED BY <1>5, <1>6, <1>7 DEF IInv

LEMMA WriteStartInstanceStep ==
  ASSUME IInv, NEW c \in Callers, WriteStartInstance(c)
  PROVE  IInv'
<1>1. CASE WithKey(KeyOf[c]) # {} /\ CallerGoes(c, "refused", Absent) /\ UNCHANGED <<docs, used>>
  <2>1. UNCHANGED <<docs, used, worker, calls, purge, purges>>
    BY <1>1 DEF WriteStartInstance, bounds
  <2> QED BY <1>1, <2>1, NoAnswerStep
<1>2. CASE WithKey(KeyOf[c]) = {} /\ \E i \in Ids : IsFresh(i) /\ CreateWith(c, i)
  <2>1. PICK i \in Ids : IsFresh(i) /\ CreateWith(c, i)
    BY <1>2
  <2>2. UNCHANGED <<worker, calls, purge, bounds>>
    BY DEF WriteStartInstance
  <2> QED BY <1>2, <2>1, <2>2, CreateStep
<1> QED BY <1>1, <1>2 DEF WriteStartInstance

LEMMA InsertStartStep ==
  ASSUME IInv, NEW c \in Callers, InsertStart(c)
  PROVE  IInv'
<1> USE Numbers
<1> DEFINE i == caller[c].answer
<1>1. i \in used /\ i \in Ids /\ i # Absent
  BY DEF InsertStart, IInv, Shape, Tidy
<1>2. caller' = [caller EXCEPT ![c] = [at |-> "done", answer |-> i]]
  BY DEF InsertStart, CallerGoes
<1>3. UNCHANGED <<instance, state, rows, used, worker, calls, purge, purges>>
  BY DEF InsertStart, bounds
<1> HIDE DEF i
<1>4. cont' = [cont EXCEPT ![i][START] = "READY"]
  BY DEF InsertStart, i
<1>5. Shape'
  BY <1>1, <1>2, <1>3, <1>4 DEF IInv, Shape, Steps, START
<1>6. Tidy'
  <2>1. \A j \in Ids \ used' : Nothing(j)'
    BY <1>1, <1>3, <1>4 DEF IInv, Shape, Tidy, Nothing, Exists
  <2> QED BY <1>1, <1>2, <1>3, <2>1 DEF IInv, Shape, Tidy, Exists, i
<1>7. Keyed'
  <2>1. \A d \in Callers : /\ caller'[d].answer = caller[d].answer
                           /\ caller'[d].at \in {caller[d].at, "done"}
    BY <1>2 DEF i, IInv, Shape
  <2> QED BY <1>3, <2>1 DEF IInv, Keyed, WithKey, Exists
<1> QED BY <1>5, <1>6, <1>7 DEF IInv

------------------------------------------------------------------------------
(* The host, and the workers.                                              *)

LEMMA AdoptStep ==
  ASSUME IInv, NEW parent \in Ids, NEW i \in Ids, Adopt(parent, i)
  PROVE  IInv'
<1>1. \A j \in Ids : /\ instance'[j].status = instance[j].status
                     /\ instance'[j].key = instance[j].key
  BY DEF Adopt, IInv, Shape
<1>2. UNCHANGED <<state, cont, rows, used, caller, worker, calls, purge, purges>>
  BY DEF Adopt, bounds
<1>3. Shape'
  <2>1. [instance[i] EXCEPT !.parent = parent]
          \in [status : Statuses, parent : Ids \cup {Absent}, key : AllKeys]
    BY DEF IInv, Shape
  <2>2. instance' = [instance EXCEPT ![i] = [instance[i] EXCEPT !.parent = parent]]
    BY DEF Adopt
  <2>3. instance' \in [Ids -> [status : Statuses, parent : Ids \cup {Absent}, key : AllKeys]]
    BY <2>1, <2>2 DEF IInv, Shape
  <2> QED BY <1>2, <2>3 DEF IInv, Shape
<1>4. Tidy'
  BY <1>1, <1>2 DEF IInv, Tidy, Nothing, Exists
<1>5. Keyed'
  BY <1>1, <1>2, KeyedKept DEF Exists
<1> QED BY <1>3, <1>4, <1>5 DEF IInv

(* What a step of a worker that commits nothing may do: it puts itself     *)
(* somewhere else, and a continuation that is there into another status.   *)
WorkerMoves(w) ==
  /\ worker' \in [Workers -> [at : {"idle", "claimed", "state", "read", "failed"},
                              of : Ids \cup {Absent}, step : Steps, ver : 0..2]]
  /\ \A v \in Workers : worker'[v].at # "idle" => worker'[v].of \in used
  /\ cont' \in [Ids -> [Steps -> {"none", "READY", "IN_PROGRESS", "DONE"}]]
  /\ \A i \in Ids, s \in Steps : cont[i][s] = "none" => cont'[i][s] = "none"
  /\ UNCHANGED <<instance, state, rows, used, caller, calls, purge, purges>>

LEMMA WorkerMovesStep ==
  ASSUME IInv, NEW w, WorkerMoves(w)
  PROVE  IInv'
<1>1. Shape'
  BY DEF WorkerMoves, IInv, Shape
<1>2. Tidy'
  BY DEF WorkerMoves, IInv, Tidy, Nothing, Exists
<1>3. Keyed'
  BY KeyedKept DEF WorkerMoves, Exists
<1> QED BY <1>1, <1>2, <1>3 DEF IInv

LEMMA ClaimMoves ==
  ASSUME IInv, NEW w \in Workers, NEW i \in Ids, NEW s \in Steps, Claim(w, i, s)
  PROVE  WorkerMoves(w)
<1>1. i \in used
  BY DEF Claim, IInv, Tidy, Nothing
<1>2. /\ worker' = [worker EXCEPT ![w] = [at |-> "claimed", of |-> i, step |-> s, ver |-> 0]]
      /\ cont' = [cont EXCEPT ![i][s] = "IN_PROGRESS"] /\ cont[i][s] = "READY"
      /\ UNCHANGED <<instance, state, rows, used, caller, calls, purge, purges>>
  BY DEF Claim
<1> QED BY <1>1, <1>2 DEF WorkerMoves, IInv, Shape, Tidy

LEMMA ReadStateMoves ==
  ASSUME IInv, NEW w \in Workers, ReadState(w)
  PROVE  WorkerMoves(w)
<1> USE Numbers DEF NoWork, Steps, START
<1>1. worker[w].of \in Ids
  BY DEF ReadState, IInv, Shape, Tidy
<1>2. UNCHANGED <<cont, instance, state, rows, used, caller, calls, purge, purges>>
  BY DEF ReadState, docs, bounds
<1>3. CASE state[worker[w].of] = Absent
  BY <1>2, <1>3 DEF ReadState, WorkerMoves, IInv, Shape, Tidy
<1>4. CASE state[worker[w].of] # Absent
  <2> DEFINE next == [worker[w] EXCEPT !.at = "state", !.ver = state[worker[w].of]]
  <2>1. worker' = [worker EXCEPT ![w] = next]
    BY <1>4 DEF ReadState, IInv, Shape
  <2>2. state[worker[w].of] \in 0..2
    BY <1>1, <1>4 DEF IInv, Shape
  <2>3. /\ next \in [at : {"idle", "claimed", "state", "read", "failed"},
                    of : Ids \cup {Absent}, step : Steps, ver : 0..2]
        /\ next.of \in used
    <3>1. /\ worker[w] \in [at : {"idle", "claimed", "state", "read", "failed"},
                           of : Ids \cup {Absent}, step : Steps, ver : 0..2]
          /\ worker[w].of \in used
      BY DEF ReadState, IInv, Shape, Tidy
    <3> QED BY <2>2, <3>1
  <2> HIDE DEF next
  <2> QED BY <1>2, <2>1, <2>3 DEF WorkerMoves, IInv, Shape, Tidy
<1> QED BY <1>3, <1>4

LEMMA ReadInstanceMoves ==
  ASSUME IInv, NEW w \in Workers, ReadInstance(w)
  PROVE  WorkerMoves(w)
<1> USE Numbers DEF NoWork, Steps, START
<1>1. UNCHANGED <<cont, instance, state, rows, used, caller, calls, purge, purges>>
  BY DEF ReadInstance, docs, bounds
<1> QED BY <1>1 DEF ReadInstance, WorkerMoves, IInv, Shape, Tidy

LEMMA SetContMoves ==
  ASSUME IInv, NEW w \in Workers, worker[w].at # "idle",
         NEW status \in {"READY", "DONE"}, SetCont(w, status),
         worker' = [worker EXCEPT ![w] = NoWork],
         UNCHANGED <<instance, state, rows, used, caller, calls, purge, purges>>
  PROVE  WorkerMoves(w)
<1> USE Numbers DEF NoWork, Steps, START
<1> DEFINE i == worker[w].of  s == worker[w].step
<1>1. i \in Ids /\ s \in Steps
  BY DEF IInv, Shape, Tidy
<1>2. cont' = IF cont[i][s] = "none" THEN cont ELSE [cont EXCEPT ![i][s] = status]
  BY DEF SetCont
<1> HIDE DEF i, s
<1> QED BY <1>1, <1>2 DEF WorkerMoves, IInv, Shape, Tidy

LEMMA ConflictMoves ==
  ASSUME IInv, NEW w \in Workers, Conflict(w)
  PROVE  WorkerMoves(w)
BY DEF Conflict, Goes, docs, bounds, WorkerMoves, IInv, Shape, Tidy

LEMMA SweepStep ==
  ASSUME IInv, NEW i \in Ids, NEW s \in Steps, Sweep(i, s)
  PROVE  IInv'
<1>1. WorkerMoves(0)
  BY DEF Sweep, bounds, WorkerMoves, IInv, Shape, Tidy
<1> QED BY <1>1, WorkerMovesStep

LEMMA CommitStep ==
  ASSUME IInv, NEW w \in Workers, Commit(w)
  PROVE  IInv'
<1> USE Numbers DEF NoWork, Steps, START, TOKEN
<1> DEFINE i == worker[w].of  s == worker[w].step
           updated == [cont[i] EXCEPT ![s] = IF @ = "none" THEN @ ELSE "DONE"]
<1>1. /\ i \in used /\ i \in Ids /\ s \in 1..2
      /\ state[i] = s - 1 /\ state[i] # Absent
  BY DEF Commit, IsOpen, VersionMatches, IInv, Shape, Tidy
<1>2. /\ state' = [state EXCEPT ![i] = s]
      /\ instance' = IF s = 2 /\ Exists(i) THEN [instance EXCEPT ![i].status = "COMPLETED"]
                     ELSE instance
      /\ cont' = [cont EXCEPT ![i] = IF s = 1 THEN [updated EXCEPT ![2] = "READY"] ELSE updated]
      /\ rows' = [rows EXCEPT ![i] = @ \cup Logs]
      /\ calls' = IF s = 2 THEN calls \cup {i} ELSE calls
      /\ worker' = [worker EXCEPT ![w] = NoWork]
      /\ UNCHANGED <<used, caller, purge, purges>>
  <2>1. worker[w].ver + 1 = s
    BY <1>1 DEF Commit, IsOpen, IInv, Shape
  <2>2. /\ state' = [state EXCEPT ![i] = s]
        /\ UNCHANGED <<used, caller, purge, purges>>
    BY <2>1 DEF Commit, bounds
  <2> QED BY <2>2 DEF Commit
<1> HIDE DEF i, s
<1>3. updated \in [Steps -> {"none", "READY", "IN_PROGRESS", "DONE"}]
  BY <1>1 DEF IInv, Shape
<1> HIDE DEF updated
<1>4. /\ instance' \in [Ids -> [status : Statuses, parent : Ids \cup {Absent}, key : AllKeys]]
      /\ \A j \in Ids : /\ instance'[j].key = instance[j].key
                        /\ Exists(j)' <=> Exists(j)
                        /\ j # i => instance'[j].status = instance[j].status
                        /\ j = i => instance'[j].status = IF s = 2 /\ Exists(j) THEN "COMPLETED"
                                                          ELSE instance[j].status
  <2> DEFINE done == [instance[i] EXCEPT !.status = "COMPLETED"]
  <2>1. /\ done \in [status : Statuses, parent : Ids \cup {Absent}, key : AllKeys]
        /\ done.status = "COMPLETED" /\ done.key = instance[i].key
    <3>1. instance[i] \in [status : Statuses, parent : Ids \cup {Absent}, key : AllKeys]
      BY <1>1 DEF IInv, Shape
    <3>2. "COMPLETED" \in Statuses
      BY DEF Statuses
    <3> QED BY <3>1, <3>2
  <2>2. instance' = IF s = 2 /\ Exists(i) THEN [instance EXCEPT ![i] = done] ELSE instance
    BY <1>2
  <2> HIDE DEF done
  <2>3. CASE s = 2 /\ Exists(i)
    BY <1>1, <2>1, <2>2, <2>3 DEF IInv, Shape, Exists
  <2>4. CASE ~(s = 2 /\ Exists(i))
    BY <1>1, <2>2, <2>4 DEF IInv, Shape, Exists
  <2> QED BY <2>3, <2>4
<1>5. Shape'
  BY <1>1, <1>2, <1>3, <1>4 DEF IInv, Shape, Collections
<1>6. Tidy'
  <2>1. \A j \in Ids \ used' : Nothing(j)'
    BY <1>1, <1>2, <1>4 DEF IInv, Shape, Tidy, Nothing
  <2>2. \A v \in Workers : worker'[v].at # "idle" => worker'[v].of \in used'
    BY <1>2 DEF IInv, Shape, Tidy
  <2>3. ASSUME purges = 0, NEW j \in Ids
        PROVE  /\ Exists(j)' <=> (state'[j] # Absent)
               /\ (instance'[j].status = "COMPLETED") = (state'[j] = 2)
    <3>1. CASE j = i
      <4>1. Exists(j) /\ instance[j].status # "COMPLETED"
        <5>1. Exists(j) = (state[j] # Absent) /\ (instance[j].status = "COMPLETED") = (state[j] = 2)
          BY <2>3 DEF IInv, Tidy
        <5>2. state[j] # Absent /\ state[j] # 2
          BY <3>1, <1>1
        <5> QED BY <5>1, <5>2
      <4>2. state'[j] = s /\ s # Absent
        BY <3>1, <1>1, <1>2 DEF IInv, Shape
      <4> QED BY <3>1, <4>1, <4>2, <1>1, <1>4
    <3>2. CASE j # i
      <4>1. state'[j] = state[j]
        BY <3>2, <1>2 DEF IInv, Shape
      <4> QED BY <3>2, <4>1, <2>3, <1>4 DEF IInv, Tidy
    <3> QED BY <3>1, <3>2
  <2> QED BY <1>1, <1>2, <2>1, <2>2, <2>3 DEF IInv, Tidy, Exists
<1>7. Keyed'
  BY <1>2, <1>4, KeyedKept
<1> QED BY <1>5, <1>6, <1>7 DEF IInv

LEMMA ProjectStep ==
  ASSUME IInv, NEW i \in Ids, Project(i)
  PROVE  IInv'
<1>1. i \in used
  BY DEF Project, IInv, Tidy
<1>2. /\ rows' = [rows EXCEPT ![i] = @ \cup {"tasks"}] /\ calls' = calls \ {i}
      /\ UNCHANGED <<instance, state, cont, used, caller, worker, purge, purges>>
  BY DEF Project, bounds
<1>3. Shape'
  BY <1>1, <1>2 DEF IInv, Shape, Collections
<1>4. Tidy'
  BY <1>1, <1>2 DEF IInv, Shape, Tidy, Nothing, Exists
<1>5. Keyed'
  BY <1>2, KeyedKept DEF Exists
<1> QED BY <1>3, <1>4, <1>5 DEF IInv

LEMMA FindRootStep ==
  ASSUME IInv, NEW i \in Ids, FindRoot(i)
  PROVE  IInv'
<1>1. i \in used
  BY DEF FindRoot, IInv, Tidy, Nothing
<1>2. /\ purge' = [at |-> "walking", ids |-> {i}, frontier |-> {i}, left |-> {}]
      /\ purges' = purges + 1 /\ purges' \in Nat /\ purges' > 0
      /\ UNCHANGED <<docs, used, caller, worker, calls>>
  BY DEF FindRoot, IInv, Shape
<1>3. Shape'
  BY <1>2 DEF IInv, Shape, docs
<1>4. Tidy'
  BY <1>1, <1>2 DEF IInv, Tidy, Nothing, Exists, docs
<1>5. Keyed'
  BY <1>2 DEF IInv, Keyed, WithKey, Exists, docs
<1> QED BY <1>3, <1>4, <1>5 DEF IInv

(* What a step of a purge under way does that deletes nothing.             *)
LEMMA PurgeMovesStep ==
  ASSUME IInv, purge # NoPurge,
         purge' \in [at : {"none", "walking", "deleting", "returned", "error"}, ids : SUBSET Ids,
                     frontier : SUBSET Ids, left : SUBSET Collections],
         purge'.ids \subseteq used,
         UNCHANGED <<docs, used, caller, worker, calls, purges>>
  PROVE  IInv'
<1>1. purges # 0
  BY DEF IInv, Tidy
<1>2. Shape'
  BY DEF IInv, Shape, docs
<1>3. Tidy'
  BY <1>1 DEF IInv, Tidy, Nothing, Exists, docs
<1>4. Keyed'
  BY DEF IInv, Keyed, WithKey, Exists, docs
<1> QED BY <1>2, <1>3, <1>4 DEF IInv

LEMMA WalkStep ==
  ASSUME IInv, Walk
  PROVE  IInv'
<1> DEFINE children == Children(purge.frontier)
           last == [purge EXCEPT !.at = "deleting", !.left = Collections]
           next == [purge EXCEPT !.ids = @ \cup children, !.frontier = children]
<1>1. children \subseteq used /\ children \subseteq Ids
  BY DEF Children, IInv, Tidy, Nothing
<1>2. purge # NoPurge /\ UNCHANGED <<docs, used, caller, worker, calls, purges>>
  BY DEF Walk, NoPurge, bounds
<1>3. purge' \in {last, next}
  BY DEF Walk
<1> HIDE DEF children
<1>4. purge' = last \/ purge' = next
  BY <1>3
<1>5. /\ last \in [at : {"none", "walking", "deleting", "returned", "error"}, ids : SUBSET Ids,
                   frontier : SUBSET Ids, left : SUBSET Collections]
      /\ last.ids = purge.ids
  BY DEF IInv, Shape
<1>6. /\ next \in [at : {"none", "walking", "deleting", "returned", "error"}, ids : SUBSET Ids,
                   frontier : SUBSET Ids, left : SUBSET Collections]
      /\ next.ids = purge.ids \cup children
  BY <1>1 DEF IInv, Shape
<1> HIDE DEF last, next
<1>7. purge.ids \subseteq used
  BY DEF IInv, Tidy
<1> QED BY <1>1, <1>2, <1>4, <1>5, <1>6, <1>7, PurgeMovesStep

LEMMA DeleteFailsStep ==
  ASSUME IInv, NEW coll \in Collections, DeleteFails(coll)
  PROVE  IInv'
<1> DEFINE next == [purge EXCEPT !.left = @ \ {coll}, !.at = "error"]
<1>1. purge # NoPurge /\ purge' = next /\ UNCHANGED <<docs, used, caller, worker, calls, purges>>
  BY DEF DeleteFails, NoPurge
<1>2. /\ next \in [at : {"none", "walking", "deleting", "returned", "error"}, ids : SUBSET Ids,
                   frontier : SUBSET Ids, left : SUBSET Collections]
      /\ next.ids = purge.ids /\ next.ids \subseteq used
  BY DEF IInv, Shape, Tidy
<1> HIDE DEF next
<1> QED BY <1>1, <1>2, PurgeMovesStep

LEMMA DeleteStep ==
  ASSUME IInv, NEW coll \in Collections, Delete(coll)
  PROVE  IInv'
<1> USE Numbers
<1> DEFINE next == [purge EXCEPT !.left = @ \ {coll},
                                 !.at = IF @ = "deleting" /\ purge.left = {coll} THEN "returned" ELSE @]
<1>1. purges # 0
  BY DEF Delete, NoPurge, IInv, Tidy
<1>2. purge' = next
  BY DEF Delete
<1>3. /\ next \in [at : {"none", "walking", "deleting", "returned", "error"}, ids : SUBSET Ids,
                   frontier : SUBSET Ids, left : SUBSET Collections]
      /\ next.ids = purge.ids
  BY DEF IInv, Shape
<1> HIDE DEF next
<1>4. /\ \/ instance' = instance
         \/ instance' = [j \in Ids |-> IF j \in purge.ids THEN NoInstance ELSE instance[j]]
      /\ \/ state' = state
         \/ state' = [j \in Ids |-> IF j \in purge.ids THEN Absent ELSE state[j]]
      /\ \/ cont' = cont
         \/ cont' = [j \in Ids |-> IF j \in purge.ids THEN [s \in Steps |-> "none"] ELSE cont[j]]
      /\ rows' = [j \in Ids |-> IF j \in purge.ids THEN rows[j] \ {coll} ELSE rows[j]]
      /\ UNCHANGED <<used, caller, worker, calls, purges>>
  BY DEF Delete, bounds
<1>5. /\ instance' \in [Ids -> [status : Statuses, parent : Ids \cup {Absent}, key : AllKeys]]
      /\ \A j \in Ids : /\ instance'[j].key \in {instance[j].key, Absent}
                        /\ Exists(j)' => Exists(j) /\ instance'[j].key = instance[j].key
  <2>1. NoInstance \in [status : Statuses, parent : Ids \cup {Absent}, key : AllKeys]
    BY DEF NoInstance, Statuses, AllKeys
  <2>2. NoInstance.status = "none" /\ NoInstance.key = Absent
    BY DEF NoInstance
  <2> QED BY <1>4, <2>1, <2>2 DEF IInv, Shape, Exists
<1>6. Shape'
  BY <1>2, <1>3, <1>4, <1>5 DEF IInv, Shape
<1>7. Tidy'
  <2>1. \A j \in Ids \ used' : Nothing(j)'
    BY <1>4, <1>5 DEF IInv, Tidy, Nothing
  <2> QED BY <1>1, <1>2, <1>3, <1>4, <2>1 DEF IInv, Tidy
<1>8. Keyed'
  BY <1>1, <1>4, <1>5, KeyedKept
<1> QED BY <1>6, <1>7, <1>8 DEF IInv

------------------------------------------------------------------------------
LEMMA StepHolds == IInv /\ [Next]_vars => IInv'
<1> SUFFICES ASSUME IInv, [Next]_vars PROVE IInv'
  OBVIOUS
<1>1. ASSUME NEW c \in Callers, FindByKey(c) PROVE IInv'
  BY <1>1, FindByKeyStep
<1>2. ASSUME NEW c \in Callers, WriteStartInstance(c) PROVE IInv'
  BY <1>2, WriteStartInstanceStep
<1>3. ASSUME NEW c \in Callers, FindWinner(c) PROVE IInv'
  BY <1>3, FindWinnerStep
<1>4. ASSUME NEW c \in Callers, InsertStart(c) PROVE IInv'
  BY <1>4, InsertStartStep
<1>5. ASSUME NEW i \in Ids, NEW j \in Ids, Adopt(i, j) PROVE IInv'
  BY <1>5, AdoptStep
<1>6. ASSUME NEW i \in Ids, Project(i) PROVE IInv'
  BY <1>6, ProjectStep
<1>7. ASSUME NEW i \in Ids, FindRoot(i) PROVE IInv'
  BY <1>7, FindRootStep
<1>8. ASSUME NEW i \in Ids, NEW s \in Steps, Sweep(i, s) PROVE IInv'
  BY <1>8, SweepStep
<1>9. ASSUME NEW i \in Ids, NEW s \in Steps, NEW w \in Workers, Claim(w, i, s) PROVE IInv'
  BY <1>9, ClaimMoves, WorkerMovesStep
<1>10. ASSUME NEW w \in Workers, ReadState(w) PROVE IInv'
  BY <1>10, ReadStateMoves, WorkerMovesStep
<1>11. ASSUME NEW w \in Workers, ReadInstance(w) PROVE IInv'
  BY <1>11, ReadInstanceMoves, WorkerMovesStep
<1>12. ASSUME NEW w \in Workers, MarkNoOp(w) PROVE IInv'
  <2>1. /\ worker[w].at # "idle" /\ SetCont(w, "DONE") /\ worker' = [worker EXCEPT ![w] = NoWork]
        /\ UNCHANGED <<instance, state, rows, used, caller, calls, purge, purges>>
    BY <1>12 DEF MarkNoOp, bounds
  <2> QED BY <2>1, SetContMoves, WorkerMovesStep
<1>13. ASSUME NEW w \in Workers, Commit(w) PROVE IInv'
  BY <1>13, CommitStep
<1>14. ASSUME NEW w \in Workers, Conflict(w) PROVE IInv'
  BY <1>14, ConflictMoves, WorkerMovesStep
<1>15. ASSUME NEW w \in Workers, Release(w) PROVE IInv'
  <2>1. /\ worker[w].at # "idle" /\ SetCont(w, "READY") /\ worker' = [worker EXCEPT ![w] = NoWork]
        /\ UNCHANGED <<instance, state, rows, used, caller, calls, purge, purges>>
    BY <1>15 DEF Release, bounds
  <2> QED BY <2>1, SetContMoves, WorkerMovesStep
<1>16. ASSUME Walk PROVE IInv'
  BY <1>16, WalkStep
<1>17. ASSUME NEW coll \in Collections, Delete(coll) PROVE IInv'
  BY <1>17, DeleteStep
<1>18. ASSUME NEW coll \in Collections, DeleteFails(coll) PROVE IInv'
  BY <1>18, DeleteFailsStep
<1>19. CASE UNCHANGED vars
  BY <1>19 DEF vars, docs, history, bounds, IInv, Shape, Tidy, Keyed, WithKey, Exists, Nothing
<1> QED BY <1>1, <1>2, <1>3, <1>4, <1>5, <1>6, <1>7, <1>8, <1>9, <1>10, <1>11, <1>12, <1>13,
           <1>14, <1>15, <1>16, <1>17, <1>18, <1>19 DEF Next

(* The inductive invariant: documents have their types, everything in      *)
(* anyone's hands is about an instance there has been, and an answer of    *)
(* startInstance is never older than the instance that has its key.        *)
THEOREM LifecycleInvariance == Spec => []IInv
<1>1. Init => IInv
  BY InitHolds
<1>2. IInv /\ [Next]_vars => IInv'
  BY StepHolds
<1> QED BY <1>1, <1>2, PTL DEF Spec

(* An instance and its state document are inserted together and updated    *)
(* together (writeStartInstance, processContinuation), and until the first *)
(* purge each is there, and completed, when the other is.                  *)
THEOREM DocumentsComeTogether == Spec => []LifecycleInv
<1>1. IInv => LifecycleInv
  BY DEF IInv, Shape, Tidy, LifecycleInv, Statuses, AllKeys
<1> QED BY <1>1, LifecycleInvariance, PTL

(* Calls of startInstance with the same idempotency key are answered with  *)
(* the same instance, unless the one that was given first is purged; the   *)
(* unique index is what it takes, whatever the calls read before.          *)
THEOREM CallersAreGivenTheSame == Spec => []CallersAgree
<1>1. IInv => CallersAgree
  <2> SUFFICES ASSUME IInv PROVE CallersAgree
    OBVIOUS
  <2> USE Numbers
  <2>1. ASSUME NEW c \in Callers, NEW d \in Callers,
               caller[c].answer \in Ids, caller[d].answer \in Ids,
               KeyOf[c] # Absent, KeyOf[c] = KeyOf[d], caller[c].answer < caller[d].answer,
               Exists(caller[c].answer)
        PROVE  FALSE
    <3>1. instance[caller[c].answer].key = KeyOf[d]
      BY <2>1 DEF IInv, Keyed
    <3>2. caller[d].answer <= caller[c].answer
      BY <2>1, <3>1 DEF IInv, Keyed
    <3>3. caller[c].answer \in Nat /\ caller[d].answer \in Nat
      BY <2>1
    <3> QED BY <2>1, <3>2, <3>3
  <2>2. \A c \in Callers : caller[c].at = "error" => purges > 0
    BY DEF IInv, Keyed
  <2> QED BY <2>1, <2>2 DEF CallersAgree
<1> QED BY <1>1, LifecycleInvariance, PTL

------------------------------------------------------------------------------
(* What NothingComesBack says of a step.                                   *)
StaysAway ==
  \A i \in used : state[i] = Absent =>
    /\ state'[i] = Absent /\ (~Exists(i) => ~Exists(i)')
    /\ rows'[i] \subseteq rows[i] \cup {"tasks"}
    /\ cont'[i][TOKEN] # "none" => cont[i][TOKEN] # "none"

LEMMA WorkerMovesAway ==
  ASSUME IInv, NEW w, WorkerMoves(w)
  PROVE  StaysAway
BY DEF WorkerMoves, StaysAway, IInv, Shape, Steps, TOKEN, Exists

LEMMA DocsKept ==
  ASSUME UNCHANGED docs
  PROVE  StaysAway
BY DEF docs, StaysAway, Exists

LEMMA CreateAway ==
  ASSUME IInv, NEW c \in Callers, WriteStartInstance(c)
  PROVE  StaysAway
<1>1. CASE UNCHANGED docs
  BY <1>1, DocsKept
<1>2. CASE \E i \in Ids : IsFresh(i) /\ CreateWith(c, i)
  <2>1. PICK i \in Ids : i \notin used /\ CreateWith(c, i)
    BY <1>2 DEF IsFresh
  <2>2. \A j \in used : /\ j \in Ids /\ j # i /\ instance'[j] = instance[j]
                        /\ state'[j] = state[j] /\ cont'[j] = cont[j] /\ rows' = rows
    BY <2>1 DEF CreateWith, IInv, Shape
  <2> QED BY <2>2 DEF StaysAway, Exists
<1> QED BY <1>1, <1>2 DEF WriteStartInstance, docs

LEMMA CommitAway ==
  ASSUME IInv, NEW w \in Workers, Commit(w)
  PROVE  StaysAway
<1> USE Numbers
<1> DEFINE i == worker[w].of
<1>1. i \in Ids /\ state[i] # Absent
  BY DEF Commit, VersionMatches, IInv, Shape, Tidy
<1>2. \A j \in Ids : j # i => /\ instance'[j] = instance[j] /\ state'[j] = state[j]
                              /\ cont'[j] = cont[j] /\ rows'[j] = rows[j]
  BY <1>1 DEF Commit, IInv, Shape
<1>3. used \subseteq Ids
  BY DEF IInv, Shape
<1> HIDE DEF i
<1> QED BY <1>1, <1>2, <1>3 DEF StaysAway, Exists

LEMMA DeleteAway ==
  ASSUME IInv, NEW coll \in Collections, Delete(coll)
  PROVE  StaysAway
<1> SUFFICES ASSUME NEW i \in used, state[i] = Absent
             PROVE  /\ state'[i] = Absent /\ (~Exists(i) => ~Exists(i)')
                    /\ rows'[i] \subseteq rows[i] \cup {"tasks"}
                    /\ cont'[i][TOKEN] # "none" => cont[i][TOKEN] # "none"
  BY DEF StaysAway
<1>1. i \in Ids
  BY DEF IInv, Shape
<1>2. state'[i] = Absent
  BY <1>1 DEF Delete, IInv, Shape
<1>3. Exists(i)' => Exists(i)
  BY <1>1 DEF Delete, IInv, Shape, NoInstance, Exists
<1>4. rows'[i] \subseteq rows[i]
  BY <1>1 DEF Delete, IInv, Shape
<1>5. cont'[i][TOKEN] # "none" => cont[i][TOKEN] # "none"
  BY <1>1 DEF Delete, IInv, Shape, Steps, TOKEN
<1> QED BY <1>2, <1>3, <1>4, <1>5

(* Once the state document of an instance is deleted no worker brings the  *)
(* instance back, though it may have read it before (the filter { _id,     *)
(* version } of processContinuation is why): what is still inserted about  *)
(* it comes from the projection of earlier callbacks or from               *)
(* insertStartContinuation.                                                *)
THEOREM WhatIsPurgedStaysAway == Spec => NothingComesBack
<1> USE DEF Steps, START, TOKEN
<1>1. ASSUME IInv, Next PROVE StaysAway
  <2>1. ASSUME NEW c \in Callers, FindByKey(c) \/ FindWinner(c) PROVE StaysAway
    BY <2>1, DocsKept DEF FindByKey, FindWinner
  <2>2. ASSUME NEW c \in Callers, WriteStartInstance(c) PROVE StaysAway
    BY <1>1, <2>2, CreateAway
  <2>3. ASSUME NEW c \in Callers, InsertStart(c) PROVE StaysAway
    <3>1. \A i \in used : i \in Ids /\ cont'[i][TOKEN] = cont[i][TOKEN]
      BY <1>1, <2>3 DEF InsertStart, IInv, Shape
    <3>2. UNCHANGED <<instance, state, rows>>
      BY <2>3 DEF InsertStart
    <3> QED BY <3>1, <3>2 DEF StaysAway, Exists
  <2>4. ASSUME NEW i \in Ids, NEW j \in Ids, Adopt(i, j) PROVE StaysAway
    <3>1. \A k \in used : Exists(k)' => Exists(k)
      BY <1>1, <2>4 DEF Adopt, Exists, IInv, Shape
    <3>2. UNCHANGED <<cont, state, rows>>
      BY <2>4 DEF Adopt
    <3> QED BY <3>1, <3>2 DEF StaysAway
  <2>5. ASSUME NEW i \in Ids, Project(i) PROVE StaysAway
    <3>1. \A k \in used : rows'[k] \subseteq rows[k] \cup {"tasks"}
      BY <1>1, <2>5 DEF Project, IInv, Shape
    <3>2. UNCHANGED <<cont, state, instance>>
      BY <2>5 DEF Project
    <3> QED BY <3>1, <3>2 DEF StaysAway, Exists
  <2>6. ASSUME NEW i \in Ids, FindRoot(i) PROVE StaysAway
    BY <2>6, DocsKept DEF FindRoot
  <2>7. ASSUME NEW i \in Ids, NEW s \in Steps, Sweep(i, s) PROVE StaysAway
    <3>1. WorkerMoves(0)
      BY <1>1, <2>7 DEF Sweep, bounds, WorkerMoves, IInv, Shape, Tidy
    <3> QED BY <1>1, <3>1, WorkerMovesAway
  <2>8. ASSUME NEW i \in Ids, NEW s \in Steps, NEW w \in Workers, Claim(w, i, s) PROVE StaysAway
    BY <1>1, <2>8, ClaimMoves, WorkerMovesAway
  <2>9. ASSUME NEW w \in Workers, ReadState(w) \/ ReadInstance(w) \/ Conflict(w) PROVE StaysAway
    BY <2>9, DocsKept DEF ReadState, ReadInstance, Conflict
  <2>10. ASSUME NEW w \in Workers, MarkNoOp(w) \/ Release(w) PROVE StaysAway
    <3>1. PICK status \in {"READY", "DONE"} :
            /\ worker[w].at # "idle" /\ SetCont(w, status) /\ worker' = [worker EXCEPT ![w] = NoWork]
            /\ UNCHANGED <<instance, state, rows, used, caller, calls, purge, purges>>
      BY <2>10 DEF MarkNoOp, Release, bounds
    <3> QED BY <1>1, <3>1, SetContMoves, WorkerMovesAway
  <2>11. ASSUME NEW w \in Workers, Commit(w) PROVE StaysAway
    BY <1>1, <2>11, CommitAway
  <2>12. ASSUME Walk PROVE StaysAway
    BY <2>12, DocsKept DEF Walk
  <2>13. ASSUME NEW coll \in Collections, Delete(coll) PROVE StaysAway
    BY <1>1, <2>13, DeleteAway
  <2>14. ASSUME NEW coll \in Collections, DeleteFails(coll) PROVE StaysAway
    BY <2>14, DocsKept DEF DeleteFails
  <2> QED BY <1>1, <2>1, <2>2, <2>3, <2>4, <2>5, <2>6, <2>7, <2>8, <2>9, <2>10, <2>11, <2>12,
             <2>13, <2>14 DEF Next
<1>2. IInv /\ [Next]_vars => [StaysAway]_vars
  BY <1>1
<1> QED BY <1>2, LifecycleInvariance, PTL DEF Spec, NothingComesBack, StaysAway

------------------------------------------------------------------------------
(* purgeInstance.                                                          *)

(* Instance i has nothing in the collection.                               *)
GoneFrom(coll, i) ==
  /\ coll \notin rows[i]
  /\ coll = "instances" => ~Exists(i)
  /\ coll = "state" => state[i] = Absent
  /\ coll = "continuations" => \A s \in Steps : cont[i][s] = "none"

(* The walk: whatever set has what has been found, and the children of its *)
(* members but for those whose children have been found, has all of the    *)
(* descendants there were when the purge began.                            *)
Closed(S) ==
  purge.ids \subseteq S /\ Children(S \ (purge.ids \ purge.frontier)) \subseteq S

Walking ==
  /\ purge.left = {} /\ purge.frontier \subseteq purge.ids
  /\ \A S \in SUBSET Ids : Closed(S) => tree \subseteq S

(* And the deletions: what is done is done, but for what was disturbed.    *)
Deleting ==
  /\ tree \subseteq purge.ids
  /\ \A i \in tree \ disturbed, coll \in Collections \ purge.left : GoneFrom(coll, i)

PurgeInv ==
  /\ tree \subseteq used
  /\ purge.at = "walking" => Walking
  /\ purge.at \in {"deleting", "returned"} => Deleting
  /\ purge.at = "returned" => purge.left = {}

(* What a step that is not a purge's may do to the family and to what is   *)
(* gone.                                                                   *)
LeavesGone ==
  /\ UNCHANGED <<purge, tree>> /\ used \subseteq used' /\ disturbed \subseteq disturbed'
  /\ \A i \in Ids : Exists(i) /\ instance[i].parent # Absent =>
                     Exists(i)' /\ instance'[i].parent = instance[i].parent
  /\ \A i \in used \ disturbed', coll \in Collections : GoneFrom(coll, i) => GoneFrom(coll, i)'

LEMMA LeavesGoneStep ==
  ASSUME IInv, PurgeInv, LeavesGone
  PROVE  PurgeInv'
<1> USE DEF LeavesGone
<1>1. ASSUME NEW S \in SUBSET Ids PROVE Children(S) \subseteq Children(S)'
  <2>1. Absent \notin S
    BY Numbers
  <2> QED BY <2>1 DEF Children
<1>2. purge' = purge /\ tree' = tree /\ tree' \subseteq used'
  BY DEF PurgeInv
<1>3. ASSUME purge.at = "walking" PROVE Walking'
  <2>1. Walking
    BY <1>3 DEF PurgeInv
  <2>2. ASSUME NEW S \in SUBSET Ids, Closed(S)' PROVE Closed(S)
    <3>1. PICK R \in SUBSET Ids : R = S \ (purge.ids \ purge.frontier)
      OBVIOUS
    <3>2. Children(R)' \subseteq S /\ purge.ids \subseteq S
      BY <1>2, <2>2, <3>1 DEF Closed, Children, Exists
    <3>3. Children(R) \subseteq S
      BY <1>1, <3>2
    <3> QED BY <3>1, <3>2, <3>3 DEF Closed
  <2> QED BY <1>2, <2>1, <2>2 DEF Walking
<1>4. ASSUME Deleting PROVE Deleting'
  <2>1. \A i \in tree' \ disturbed', coll \in Collections \ purge'.left : GoneFrom(coll, i)'
    BY <1>2, <1>4 DEF Deleting, PurgeInv
  <2> QED BY <1>2, <1>4, <2>1 DEF Deleting
<1> QED BY <1>2, <1>3, <1>4 DEF PurgeInv

(* The steps of callers, of the host and of the projection.                *)
LEMMA DocsLeaveGone ==
  ASSUME UNCHANGED <<docs, used, purge, history>>
  PROVE  LeavesGone
BY DEF docs, history, LeavesGone, GoneFrom, Exists

LEMMA CreateLeavesGone ==
  ASSUME IInv, NEW c \in Callers, WriteStartInstance(c)
  PROVE  LeavesGone
<1>1. CASE UNCHANGED <<docs, used>>
  BY <1>1, DocsLeaveGone DEF WriteStartInstance
<1>2. CASE \E i \in Ids : IsFresh(i) /\ CreateWith(c, i)
  <2>1. PICK i \in Ids : i \notin used /\ CreateWith(c, i)
    BY <1>2 DEF IsFresh
  <2>2. \A j \in Ids : j # i => /\ instance'[j] = instance[j] /\ state'[j] = state[j]
                                /\ cont'[j] = cont[j] /\ rows' = rows
    BY <2>1 DEF CreateWith, IInv, Shape
  <2>3. ~Exists(i) /\ used \subseteq Ids /\ used \subseteq used'
    BY <2>1 DEF IInv, Shape, Tidy, Nothing, CreateWith
  <2>4. UNCHANGED <<purge, tree, disturbed>>
    BY DEF WriteStartInstance, history
  <2> QED BY <2>1, <2>2, <2>3, <2>4 DEF LeavesGone, GoneFrom, Exists
<1> QED BY <1>1, <1>2 DEF WriteStartInstance

LEMMA InsertStartLeavesGone ==
  ASSUME IInv, NEW c \in Callers, InsertStart(c)
  PROVE  LeavesGone
<1> DEFINE i == caller[c].answer
<1>1. used \subseteq Ids /\ UNCHANGED <<instance, state, rows, used, purge, tree>>
  BY DEF IInv, Shape, InsertStart, Disturb
<1>2. disturbed' = disturbed \cup {i} /\ \A j \in Ids : j # i => cont'[j] = cont[j]
  BY DEF InsertStart, Disturb, IInv, Shape
<1> QED BY <1>1, <1>2 DEF LeavesGone, GoneFrom, Exists

LEMMA AdoptLeavesGone ==
  ASSUME IInv, NEW parent \in Ids, NEW i \in Ids, Adopt(parent, i)
  PROVE  LeavesGone
<1>1. UNCHANGED <<state, cont, rows, used, purge, tree, disturbed>>
  BY DEF Adopt, history
<1>2. \A j \in Ids : /\ instance'[j].status = instance[j].status
                     /\ j # i => instance'[j] = instance[j]
  BY DEF Adopt, IInv, Shape
<1>3. instance[i].parent = Absent
  BY DEF Adopt
<1>4. used \subseteq Ids
  BY DEF IInv, Shape
<1> QED BY <1>1, <1>2, <1>3, <1>4 DEF LeavesGone, GoneFrom, Exists

LEMMA ProjectLeavesGone ==
  ASSUME IInv, NEW i \in Ids, Project(i)
  PROVE  LeavesGone
<1>1. UNCHANGED <<instance, state, cont, used, purge, tree>> /\ disturbed' = disturbed \cup {i}
  BY DEF Project, Disturb
<1>2. used \subseteq Ids /\ \A j \in Ids : j # i => rows'[j] = rows[j]
  BY DEF Project, IInv, Shape
<1> QED BY <1>1, <1>2 DEF LeavesGone, GoneFrom, Exists

(* Those of the workers.                                                   *)
LEMMA WorkersLeaveGone ==
  ASSUME IInv, NEW w, WorkerMoves(w), UNCHANGED history
  PROVE  LeavesGone
<1>1. UNCHANGED <<instance, state, rows, used, purge, tree, disturbed>>
  BY DEF WorkerMoves, history
<1>2. used \subseteq Ids /\ \A i \in Ids, s \in Steps : cont[i][s] = "none" => cont'[i][s] = "none"
  BY DEF WorkerMoves, IInv, Shape
<1> QED BY <1>1, <1>2 DEF LeavesGone, GoneFrom, Exists

LEMMA CommitLeavesGone ==
  ASSUME IInv, NEW w \in Workers, Commit(w)
  PROVE  LeavesGone
<1>1. worker[w].of \in Ids /\ used \subseteq Ids
  BY DEF Commit, IInv, Shape, Tidy
<1> PICK i \in Ids : i = worker[w].of
  BY <1>1
<1>2. \A j \in Ids : j # i => /\ instance'[j] = instance[j] /\ state'[j] = state[j]
                              /\ cont'[j] = cont[j] /\ rows'[j] = rows[j]
  BY <1>1 DEF Commit, IInv, Shape
<1>3. Exists(i) => Exists(i)' /\ instance'[i].parent = instance[i].parent
  <2> DEFINE done == [instance[i] EXCEPT !.status = "COMPLETED"]
  <2>1. \A rec \in [status : Statuses, parent : Ids \cup {Absent}, key : AllKeys] :
          /\ [rec EXCEPT !.status = "COMPLETED"].status = "COMPLETED"
          /\ [rec EXCEPT !.status = "COMPLETED"].parent = rec.parent
    OBVIOUS
  <2>2. done.status = "COMPLETED" /\ done.parent = instance[i].parent
    BY <1>1, <2>1 DEF IInv, Shape
  <2>3. instance' = instance \/ instance' = [instance EXCEPT ![i] = done]
    BY DEF Commit
  <2> HIDE DEF done
  <2>4. instance' = instance \/ instance'[i] = done
    BY <1>1, <2>3 DEF IInv, Shape
  <2> QED BY <2>2, <2>4 DEF Exists
<1>4. UNCHANGED <<used, purge, tree>> /\ disturbed' = disturbed \cup {i}
  BY DEF Commit, Disturb
<1> QED BY <1>1, <1>2, <1>3, <1>4 DEF LeavesGone, GoneFrom, Exists

(* Those of the purge.                                                     *)
LEMMA FindRootPurges ==
  ASSUME IInv, NEW i \in Ids, FindRoot(i)
  PROVE  PurgeInv'
<1>1. /\ purge'.at = "walking" /\ purge'.ids = {i} /\ purge'.frontier = {i} /\ purge'.left = {}
      /\ tree' = Descendants(i) /\ Exists(i) /\ UNCHANGED <<instance, used>>
  BY DEF FindRoot, docs
<1>2. used \in SUBSET Ids /\ i \in used /\ \A S : Children(S) \subseteq used
  BY <1>1 DEF IInv, Shape, Tidy, Nothing, Children
<1>3. Descendants(i) \subseteq used
  BY <1>2 DEF Descendants
<1>4. ASSUME NEW S \in SUBSET Ids, Closed(S)' PROVE tree' \subseteq S
  <2>1. i \in S /\ S \ ({i} \ {i}) = S
    BY <1>1, <1>4 DEF Closed
  <2>2. Children(S) \subseteq S
    BY <1>1, <1>4, <2>1 DEF Closed, Children, Exists
  <2> QED BY <1>1, <2>1, <2>2 DEF Descendants
<1>5. Walking'
  BY <1>1, <1>4 DEF Walking
<1> QED BY <1>1, <1>3, <1>5 DEF PurgeInv

(* At the last level the list is closed itself.                            *)
LEMMA WalkPurges ==
  ASSUME IInv, PurgeInv, Walk
  PROVE  PurgeInv'
<1> DEFINE children == Children(purge.frontier)
<1>1. Walking /\ UNCHANGED <<instance, rows, state, cont, used, tree, disturbed>>
  BY DEF Walk, PurgeInv, docs, history
<1>2. purge \in [at : {"none", "walking", "deleting", "returned", "error"}, ids : SUBSET Ids,
                 frontier : SUBSET Ids, left : SUBSET Collections]
  BY DEF IInv, Shape
<1>3. CASE children = {}
  <2>1. /\ purge'.at = "deleting" /\ purge'.left = Collections /\ purge'.ids = purge.ids
    BY <1>2, <1>3 DEF Walk
  <2>2. purge.ids \ (purge.ids \ purge.frontier) = purge.frontier
    BY <1>1 DEF Walking
  <2>3. Closed(purge.ids)
    BY <1>3, <2>2 DEF Closed
  <2>4. tree \subseteq purge.ids
    BY <1>1, <1>2, <2>3 DEF Walking
  <2>5. Deleting'
    BY <1>1, <2>1, <2>4 DEF Deleting
  <2> QED BY <1>1, <2>1, <2>5 DEF PurgeInv
<1>4. CASE children # {}
  <2>1. /\ purge'.at = "walking" /\ purge'.left = {} /\ purge'.ids = purge.ids \cup children
        /\ purge'.frontier = children
    <3>1. \A p \in [at : {"none", "walking", "deleting", "returned", "error"}, ids : SUBSET Ids,
                    frontier : SUBSET Ids, left : SUBSET Collections] : \A c :
            LET q == [p EXCEPT !.ids = @ \cup c, !.frontier = c] IN
            q.at = p.at /\ q.left = p.left /\ q.ids = p.ids \cup c /\ q.frontier = c
      OBVIOUS
    <3>2. purge' = [purge EXCEPT !.ids = @ \cup children, !.frontier = children]
      BY <1>4 DEF Walk
    <3>3. purge.at = "walking" /\ purge.left = {}
      BY <1>1 DEF Walk, Walking
    <3> QED BY <1>2, <3>1, <3>2, <3>3
  <2>2. ASSUME NEW S \in SUBSET Ids, Closed(S)' PROVE tree \subseteq S
    <3>1. /\ purge.ids \cup children \subseteq S
          /\ Children(S \ ((purge.ids \cup children) \ children)) \subseteq S
      BY <1>1, <2>1, <2>2 DEF Closed, Children, Exists
    <3>2. Children(S \ (purge.ids \ purge.frontier)) \subseteq S
      <4> SUFFICES ASSUME NEW j \in Ids, Exists(j),
                          instance[j].parent \in S \ (purge.ids \ purge.frontier)
                   PROVE  j \in S
        BY DEF Children
      <4>1. CASE instance[j].parent \in purge.frontier
        BY <3>1, <4>1 DEF Children
      <4>2. CASE instance[j].parent \notin purge.frontier
        <5>1. instance[j].parent \in S \ ((purge.ids \cup children) \ children)
          BY <4>2
        <5> QED BY <3>1, <5>1 DEF Children
      <4> QED BY <4>1, <4>2
    <3>3. Closed(S)
      BY <3>1, <3>2 DEF Closed
    <3> QED BY <1>1, <3>3 DEF Walking
  <2>3. Walking'
    BY <1>1, <2>1, <2>2 DEF Walking
  <2> QED BY <1>1, <2>1, <2>3 DEF PurgeInv
<1> QED BY <1>3, <1>4

LEMMA DeletePurges ==
  ASSUME IInv, PurgeInv, NEW coll \in Collections, Delete(coll)
  PROVE  PurgeInv'
<1>1. purge \in [at : {"none", "walking", "deleting", "returned", "error"}, ids : SUBSET Ids,
                 frontier : SUBSET Ids, left : SUBSET Collections]
  BY DEF IInv, Shape
<1>2. /\ purge'.ids = purge.ids /\ purge'.left = purge.left \ {coll}
      /\ purge'.at = IF purge.at = "deleting" /\ purge.left = {coll} THEN "returned" ELSE purge.at
  <2>1. \A p \in [at : {"none", "walking", "deleting", "returned", "error"}, ids : SUBSET Ids,
                  frontier : SUBSET Ids, left : SUBSET Collections] : \A at, left :
          LET q == [p EXCEPT !.left = left, !.at = at] IN
          q.at = at /\ q.left = left /\ q.ids = p.ids
    OBVIOUS
  <2>2. purge' = [purge EXCEPT !.left = purge.left \ {coll},
                     !.at = IF purge.at = "deleting" /\ purge.left = {coll} THEN "returned" ELSE purge.at]
    BY <1>1 DEF Delete
  <2> QED BY <1>1, <2>1, <2>2
<1>3. UNCHANGED <<used, tree, disturbed>> /\ purge.at # "walking" /\ coll \in purge.left
  BY DEF Delete, history, PurgeInv, Walking
<1>4. ASSUME Deleting PROVE Deleting'
  <2>1. ASSUME NEW i \in tree \ disturbed, NEW other \in Collections \ purge'.left
        PROVE  GoneFrom(other, i)'
    <3>1. i \in purge.ids /\ i \in Ids
      BY <1>1, <1>4, <2>1 DEF Deleting
    <3>2. rows'[i] = rows[i] \ {coll}
      BY <3>1 DEF Delete
    <3>3. CASE other = coll
      BY <3>1, <3>2, <3>3 DEF Delete, GoneFrom, Exists, NoInstance
    <3>4. CASE other # coll
      <4>1. GoneFrom(other, i)
        BY <1>2, <1>4, <2>1, <3>4 DEF Deleting
      <4> QED BY <3>1, <3>2, <4>1 DEF Delete, GoneFrom, Exists, NoInstance
    <3> QED BY <3>3, <3>4
  <2> QED BY <1>2, <1>3, <1>4, <2>1 DEF Deleting
<1> QED BY <1>2, <1>3, <1>4 DEF PurgeInv

LEMMA DeleteFailsPurges ==
  ASSUME IInv, PurgeInv, NEW coll \in Collections, DeleteFails(coll)
  PROVE  PurgeInv'
<1>1. UNCHANGED <<used, tree>> /\ purge'.at = "error"
  BY DEF DeleteFails, history, IInv, Shape
<1> QED BY <1>1 DEF PurgeInv

LEMMA PurgeStep == IInv /\ PurgeInv /\ [Next]_vars => PurgeInv'
<1> SUFFICES ASSUME IInv, PurgeInv, [Next]_vars PROVE PurgeInv'
  OBVIOUS
<1>1. ASSUME LeavesGone PROVE PurgeInv'
  BY <1>1, LeavesGoneStep
<1>2. ASSUME NEW c \in Callers, FindByKey(c) \/ FindWinner(c) PROVE PurgeInv'
  BY <1>1, <1>2, DocsLeaveGone DEF FindByKey, FindWinner
<1>3. ASSUME NEW c \in Callers, WriteStartInstance(c) \/ InsertStart(c) PROVE PurgeInv'
  BY <1>1, <1>3, CreateLeavesGone, InsertStartLeavesGone
<1>4. ASSUME NEW i \in Ids, NEW j \in Ids, Adopt(i, j) PROVE PurgeInv'
  BY <1>1, <1>4, AdoptLeavesGone
<1>5. ASSUME NEW i \in Ids, Project(i) \/ FindRoot(i) PROVE PurgeInv'
  BY <1>1, <1>5, ProjectLeavesGone, FindRootPurges
<1>6. ASSUME NEW w, WorkerMoves(w), UNCHANGED history PROVE PurgeInv'
  BY <1>1, <1>6, WorkersLeaveGone
<1>7. ASSUME NEW i \in Ids, NEW s \in Steps, Sweep(i, s) PROVE PurgeInv'
  <2>1. WorkerMoves(0) /\ UNCHANGED history
    BY <1>7 DEF Sweep, bounds, WorkerMoves, IInv, Shape, Tidy
  <2> QED BY <1>6, <2>1
<1>8. ASSUME NEW i \in Ids, NEW s \in Steps, NEW w \in Workers, Claim(w, i, s) PROVE PurgeInv'
  <2>1. WorkerMoves(w)
    BY <1>8, ClaimMoves
  <2>2. UNCHANGED history
    BY <1>8 DEF Claim
  <2> QED BY <1>6, <2>1, <2>2
<1>9. ASSUME NEW w \in Workers, ReadState(w) \/ ReadInstance(w) \/ Conflict(w) PROVE PurgeInv'
  BY <1>1, <1>9, DocsLeaveGone DEF ReadState, ReadInstance, Conflict
<1>10. ASSUME NEW w \in Workers, MarkNoOp(w) \/ Release(w) PROVE PurgeInv'
  <2>1. PICK status \in {"READY", "DONE"} :
          /\ worker[w].at # "idle" /\ SetCont(w, status) /\ worker' = [worker EXCEPT ![w] = NoWork]
          /\ UNCHANGED <<instance, state, rows, used, caller, calls, purge, purges>>
    BY <1>10 DEF MarkNoOp, Release, bounds
  <2>2. UNCHANGED history
    BY <1>10 DEF MarkNoOp, Release
  <2>3. WorkerMoves(w)
    BY <2>1, SetContMoves
  <2> QED BY <1>6, <2>2, <2>3
<1>11. ASSUME NEW w \in Workers, Commit(w) PROVE PurgeInv'
  BY <1>1, <1>11, CommitLeavesGone
<1>12. ASSUME Walk PROVE PurgeInv'
  BY <1>12, WalkPurges
<1>13. ASSUME NEW coll \in Collections, Delete(coll) \/ DeleteFails(coll) PROVE PurgeInv'
  BY <1>13, DeletePurges, DeleteFailsPurges
<1>14. CASE UNCHANGED vars
  BY <1>1, <1>14, DocsLeaveGone DEF vars
<1> QED BY <1>2, <1>3, <1>4, <1>5, <1>7, <1>8, <1>9, <1>10, <1>11, <1>12, <1>13, <1>14 DEF Next

(* When purgeInstance has returned, nothing is left of the instance nor of *)
(* any descendant it had when the call began, in no collection, but for    *)
(* those that something was inserted about meanwhile, for any family and   *)
(* whatever callers, workers and projections do beside it.                 *)
THEOREM PurgesAreComplete == Spec => []PurgeLeavesNothing
<1>1. Init => PurgeInv
  BY DEF Init, PurgeInv, NoPurge
<1>2. IInv /\ PurgeInv => PurgeLeavesNothing
  <2> SUFFICES ASSUME IInv, PurgeInv, purge.at = "returned", NEW i \in tree \ disturbed
               PROVE  Nothing(i)
    BY DEF PurgeLeavesNothing
  <2>1. \A coll \in Collections : GoneFrom(coll, i)
    BY DEF PurgeInv, Deleting
  <2>2. rows[i] \subseteq Collections /\ {"instances", "state", "continuations"} \subseteq Collections
    BY DEF IInv, Shape, PurgeInv, Collections
  <2>3. rows[i] = {}
    BY <2>1, <2>2 DEF GoneFrom
  <2> QED BY <2>1, <2>2, <2>3 DEF GoneFrom, Nothing
<1> QED BY <1>1, <1>2, PurgeStep, LifecycleInvariance, PTL DEF Spec
=============================================================================
