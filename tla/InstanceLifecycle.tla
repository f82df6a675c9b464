-------------------------- MODULE InstanceLifecycle --------------------------
(***************************************************************************)
(* Instances from start to purge: startInstance with its idempotency key,  *)
(* insertStartContinuation and purgeInstance (src/instance/service.ts),    *)
(* beside the workers that process the instances' continuations            *)
(* (src/workers/processor.ts) and the projection of their callbacks.       *)
(*                                                                         *)
(* An instance goes through two steps, each one continuation: START, and a *)
(* token, which leads to a callback and completes it.  ContinuationQueue   *)
(* and TokenFlow have what a step is.  Here it is one that inserts rows    *)
(* about an instance which a purge may be deleting.                        *)
(***************************************************************************)
EXTENDS FiniteSets, Naturals

CONSTANTS
  Ids,         (* The uuids of the instances of a behaviour, numbers.      *)
  Callers,     (* Calls of startInstance.                                  *)
  KeyOf,       (* The idempotency key of each, or Absent.                  *)
  Deferred,    (* The callers that set deferContinuation.                  *)
  Workers,
  Family,      (* The parents of the instances there are to begin with:    *)
  Running,     (* these are at their token, the others have completed.     *)
  Adoptable,   (* Which instance may become the child of which.            *)
  Purgeable,   (* Which a host may purge.                                  *)
  Logs,        (* The collections that only commits insert into:           *)
               (* ProcessInstanceEvents, ProcessInstanceHistory, Outbox.   *)
  Absent,
  MaxClaims,   (* Bounds the claims of a behaviour,                        *)
  MaxPurges, MaxMishaps  (* its purges, and its crashes and errors.        *)

ASSUME LifecycleAssumption ==
  /\ Ids \subseteq Nat /\ Absent \notin Nat
  /\ Deferred \subseteq Callers /\ Running \subseteq DOMAIN Family /\ DOMAIN Family \subseteq Ids
  /\ \A i \in DOMAIN Family : Family[i] \in Ids \cup {Absent}
  /\ {MaxClaims, MaxPurges} \subseteq Nat /\ MaxMishaps \in Nat

Steps == 1..2
START == 1
TOKEN == 2

(* What purgeInstance deletes from.                                        *)
Collections == {"instances", "state", "continuations", "tasks"} \cup Logs

VARIABLES
  instance,   (* ProcessInstances: key, parentInstanceId and status.       *)
  state,      (* ProcessInstanceState: the version, or Absent.             *)
  cont,       (* Continuations, by instance and step.                      *)
  rows,       (* Which of the other collections have rows of an instance.  *)
  used,       (* History: the uuids there have been.                       *)
  caller,     (* Where each call of startInstance is, and its answer.      *)
  worker,     (* What each worker holds, and the version it has read.      *)
  calls,      (* The callbacks that are being projected, by instance.      *)
  purge,      (* The purge under way: its list and what is left of it.     *)
  tree,       (* History: what the root had for descendants as it began,   *)
  disturbed,  (* and what has been inserted into since.                    *)
  claims, purges, mishaps

docs    == <<instance, state, cont, rows>>
history == <<tree, disturbed>>
bounds  == <<claims, purges, mishaps>>
vars == <<docs, used, caller, worker, calls, purge, history, bounds>>

NoInstance == [status |-> "none", key |-> Absent, parent |-> Absent]
NoWork     == [at |-> "idle", of |-> Absent, step |-> START, ver |-> 0]
NoPurge    == [at |-> "none", ids |-> {}, frontier |-> {}, left |-> {}]

Exists(i) == instance[i].status # "none"

(* The uuids are handed out in their order.                                *)
IsFresh(i) == i \notin used /\ \A j \in Ids \ used : i <= j

Mishap ==
  /\ mishaps < MaxMishaps
  /\ mishaps' = mishaps + 1

(* Rows about i are inserted: history.                                     *)
Disturb(i) == disturbed' = disturbed \cup {i} /\ UNCHANGED tree

(* A family of instances without keys.  The START of those that run has    *)
(* been put back after its commit, as workerLoop does when it cannot mark  *)
(* the outbox.                                                             *)
Init ==
  /\ used = DOMAIN Family
  /\ instance = [i \in Ids |->
       IF i \in used
       THEN [key |-> Absent, parent |-> Family[i],
             status |-> IF i \in Running THEN "RUNNING" ELSE "COMPLETED"]
       ELSE NoInstance]
  /\ state = [i \in Ids |-> IF i \in Running THEN 1 ELSE IF i \in used THEN 2 ELSE Absent]
  /\ cont = [i \in Ids |-> [s \in Steps |->
       IF i \in Running THEN "READY" ELSE IF i \in used THEN "DONE" ELSE "none"]]
  /\ rows = [i \in Ids |-> IF i \in Running THEN Logs ELSE IF i \in used THEN Logs \cup {"tasks"} ELSE {}]
  /\ caller = [c \in Callers |-> [at |-> "idle", answer |-> Absent]]
  /\ worker = [w \in Workers |-> NoWork]
  /\ calls = {}
  /\ purge = NoPurge
  /\ tree = {} /\ disturbed = {}
  /\ claims = 0 /\ purges = 0 /\ mishaps = 0

------------------------------------------------------------------------------
(* startInstance.                                                          *)

WithKey(k) == { i \in Ids : Exists(i) /\ k # Absent /\ instance[i].key = k }

CallerGoes(c, at, answer) == caller' = [caller EXCEPT ![c] = [at |-> at, answer |-> answer]]

(* The fast path: an instance that has the key is the answer.              *)
FindByKey(c) ==
  /\ caller[c].at = "idle"
  /\ IF WithKey(KeyOf[c]) # {}
     THEN \E i \in WithKey(KeyOf[c]) : CallerGoes(c, "done", i)
     ELSE CallerGoes(c, "writing", Absent)
  /\ UNCHANGED <<docs, used, worker, calls, purge, history, bounds>>

(* Mutant: a crash may come between the instance and its state document.   *)
Bug_CreateWith(c, i) ==
  /\ instance' = [instance EXCEPT ![i] = [status |-> "RUNNING", key |-> KeyOf[c], parent |-> Absent]]
  /\ used' = used \cup {i}
  /\ CallerGoes(c, "done", i)
  /\ UNCHANGED <<state, cont, rows>>

(* The transaction of writeStartInstance, and with deferContinuation the   *)
(* START is the caller's to insert.                                        *)
CreateWith(c, i) ==
  /\ instance' = [instance EXCEPT ![i] = [status |-> "RUNNING", key |-> KeyOf[c], parent |-> Absent]]
  /\ state' = [state EXCEPT ![i] = 0]
  /\ used' = used \cup {i}
  /\ IF c \in Deferred
     THEN CallerGoes(c, "deferred", i) /\ UNCHANGED cont
     ELSE CallerGoes(c, "done", i) /\ cont' = [cont EXCEPT ![i][START] = "READY"]
  /\ UNCHANGED rows

(* Mutant: no unique index.                                                *)
Bug_WriteStartInstance(c) ==
  /\ caller[c].at = "writing"
  /\ \E i \in Ids : IsFresh(i) /\ CreateWith(c, i)
  /\ UNCHANGED <<worker, calls, purge, history, bounds>>

(* It is refused when another instance has the key by now.                 *)
WriteStartInstance(c) ==
  /\ caller[c].at = "writing"
  /\ \/ /\ WithKey(KeyOf[c]) # {}
        /\ CallerGoes(c, "refused", Absent)
        /\ UNCHANGED <<docs, used>>
     \/ /\ WithKey(KeyOf[c]) = {}
        /\ \E i \in Ids : IsFresh(i) /\ CreateWith(c, i)
  /\ UNCHANGED <<worker, calls, purge, history, bounds>>

(* Duplicate key: the winner is the answer, if it is still there.          *)
FindWinner(c) ==
  /\ caller[c].at = "refused"
  /\ IF WithKey(KeyOf[c]) # {}
     THEN \E i \in WithKey(KeyOf[c]) : CallerGoes(c, "done", i)
     ELSE CallerGoes(c, "error", Absent)
  /\ UNCHANGED <<docs, used, worker, calls, purge, history, bounds>>

(* insertStartContinuation looks for nothing.                              *)
InsertStart(c) ==
  /\ caller[c].at = "deferred"
  /\ CallerGoes(c, "done", caller[c].answer)
  /\ cont' = [cont EXCEPT ![caller[c].answer][START] = "READY"]
  /\ Disturb(caller[c].answer)
  /\ UNCHANGED <<instance, state, rows, used, worker, calls, purge, bounds>>

------------------------------------------------------------------------------
(* The host.                                                               *)

(* It makes an instance the child of another.                              *)
Adopt(parent, i) ==
  /\ <<parent, i>> \in Adoptable
  /\ Exists(parent) /\ Exists(i) /\ instance[i].parent = Absent
  /\ instance' = [instance EXCEPT ![i].parent = parent]
  /\ UNCHANGED <<state, cont, rows, used, caller, worker, calls, purge, history, bounds>>

------------------------------------------------------------------------------
(* The workers.                                                            *)

Goes(w, at) == worker' = [worker EXCEPT ![w].at = at]

(* updateOne by _id: nothing happens to one that is deleted.               *)
SetCont(w, status) ==
  LET i == worker[w].of  s == worker[w].step IN
  cont' = IF cont[i][s] = "none" THEN cont ELSE [cont EXCEPT ![i][s] = status]

Claim(w, i, s) ==
  /\ worker[w].at = "idle" /\ cont[i][s] = "READY"
  /\ claims < MaxClaims /\ claims' = claims + 1
  /\ cont' = [cont EXCEPT ![i][s] = "IN_PROGRESS"]
  /\ worker' = [worker EXCEPT ![w] = [at |-> "claimed", of |-> i, step |-> s, ver |-> 0]]
  /\ UNCHANGED <<instance, state, rows, used, caller, calls, purge, history, purges, mishaps>>

(* The two reads of processContinuation before its transaction.  When one  *)
(* finds nothing it returns, and the continuation stays IN_PROGRESS.       *)
ReadState(w) ==
  LET i == worker[w].of IN
  /\ worker[w].at = "claimed"
  /\ worker' = [worker EXCEPT ![w] = IF state[i] = Absent THEN NoWork
                                     ELSE [@ EXCEPT !.at = "state", !.ver = state[i]]]
  /\ UNCHANGED <<docs, used, caller, calls, purge, history, bounds>>

ReadInstance(w) ==
  /\ worker[w].at = "state"
  /\ worker' = [worker EXCEPT ![w] = IF Exists(@.of) THEN [@ EXCEPT !.at = "read"] ELSE NoWork]
  /\ UNCHANGED <<docs, used, caller, calls, purge, history, bounds>>

(* The subject of step s is in the state document at version s - 1.        *)
IsOpen(w) == worker[w].ver = worker[w].step - 1

MarkNoOp(w) ==
  /\ worker[w].at = "read" /\ ~IsOpen(w)
  /\ SetCont(w, "DONE")
  /\ worker' = [worker EXCEPT ![w] = NoWork]
  /\ UNCHANGED <<instance, state, rows, used, caller, calls, purge, history, bounds>>

(* Mutant: no version in the filter.                                       *)
Bug_VersionMatches(w) == TRUE

(* The filter { _id, version } of both writes to the state document.       *)
VersionMatches(w) == state[worker[w].of] = worker[w].ver

(* The transaction.  What it updates by _id may be gone; what it inserts   *)
(* it inserts.                                                             *)
Commit(w) ==
  LET i == worker[w].of  s == worker[w].step
      updated == [cont[i] EXCEPT ![s] = IF @ = "none" THEN @ ELSE "DONE"]
  IN
  /\ worker[w].at = "read" /\ IsOpen(w) /\ VersionMatches(w)
  /\ state' = [state EXCEPT ![i] = worker[w].ver + 1]
  /\ instance' = IF s = TOKEN /\ Exists(i) THEN [instance EXCEPT ![i].status = "COMPLETED"]
                 ELSE instance
  /\ cont' = [cont EXCEPT ![i] = IF s = START THEN [updated EXCEPT ![TOKEN] = "READY"]
                                 ELSE updated]
  /\ rows' = [rows EXCEPT ![i] = @ \cup Logs]
  /\ calls' = IF s = TOKEN THEN calls \cup {i} ELSE calls
  /\ Disturb(i)
  /\ worker' = [worker EXCEPT ![w] = NoWork]
  /\ UNCHANGED <<used, caller, purge, bounds>>

(* `Version conflict', which is what a deleted document looks like too.    *)
Conflict(w) ==
  /\ worker[w].at = "read" /\ IsOpen(w) /\ ~VersionMatches(w)
  /\ Goes(w, "failed")
  /\ UNCHANGED <<docs, used, caller, calls, purge, history, bounds>>

(* The catch block of workerLoop.                                          *)
Release(w) ==
  /\ worker[w].at = "failed"
  /\ SetCont(w, "READY")
  /\ worker' = [worker EXCEPT ![w] = NoWork]
  /\ UNCHANGED <<instance, state, rows, used, caller, calls, purge, history, bounds>>

(* A lease has run out, of a worker that died, returned or is slow.        *)
Sweep(i, s) ==
  /\ cont[i][s] = "IN_PROGRESS"
  /\ cont' = [cont EXCEPT ![i][s] = "READY"]
  /\ UNCHANGED <<instance, state, rows, used, caller, worker, calls, purge, history, bounds>>

(* A callback is projected: updateOne with upsert.                         *)
Project(i) ==
  /\ i \in calls
  /\ calls' = calls \ {i}
  /\ rows' = [rows EXCEPT ![i] = @ \cup {"tasks"}]
  /\ Disturb(i)
  /\ UNCHANGED <<instance, state, cont, used, caller, worker, purge, bounds>>

------------------------------------------------------------------------------
(* purgeInstance.                                                          *)

Children(parents) == { i \in Ids : Exists(i) /\ instance[i].parent \in parents }

(* The instance and all its descendants: what every set with it that has   *)
(* the children of its members has.                                        *)
Descendants(i) ==
  { j \in Ids : \A S \in SUBSET Ids : i \in S /\ Children(S) \subseteq S => j \in S }

(* A call for an instance that is there; for any other it returns null.    *)
FindRoot(i) ==
  /\ purge.at \in {"none", "returned", "error"} /\ purges < MaxPurges
  /\ i \in Purgeable /\ Exists(i)
  /\ purge' = [at |-> "walking", ids |-> {i}, frontier |-> {i}, left |-> {}]
  /\ purges' = purges + 1
  /\ tree' = Descendants(i) /\ disturbed' = {}
  /\ UNCHANGED <<docs, used, caller, worker, calls, claims, mishaps>>

(* Mutant: the children, and not theirs.                                   *)
Bug_Walk ==
  /\ purge.at = "walking"
  /\ purge' = [purge EXCEPT !.ids = @ \cup Children(purge.frontier), !.at = "deleting",
                            !.frontier = {}, !.left = Collections]
  /\ UNCHANGED <<docs, used, caller, worker, calls, history, bounds>>

(* A turn of the loop over the frontier; with no children left the         *)
(* deletions begin, all of them at once.                                   *)
Walk ==
  LET children == Children(purge.frontier) IN
  /\ purge.at = "walking"
  /\ purge' = IF children = {}
              THEN [purge EXCEPT !.at = "deleting", !.left = Collections]
              ELSE [purge EXCEPT !.ids = @ \cup children, !.frontier = children]
  /\ UNCHANGED <<docs, used, caller, worker, calls, history, bounds>>

(* The deletion from one collection is done, in whatever order; the call   *)
(* returns with the last, unless it has thrown before.                     *)
Delete(coll) ==
  LET Gone(i, none, doc) == IF i \in purge.ids THEN none ELSE doc IN
  /\ coll \in purge.left
  /\ purge' = [purge EXCEPT !.left = @ \ {coll},
                            !.at = IF @ = "deleting" /\ purge.left = {coll} THEN "returned" ELSE @]
  /\ instance' = IF coll # "instances" THEN instance
                 ELSE [i \in Ids |-> Gone(i, NoInstance, instance[i])]
  /\ state' = IF coll # "state" THEN state ELSE [i \in Ids |-> Gone(i, Absent, state[i])]
  /\ cont' = IF coll # "continuations" THEN cont
             ELSE [i \in Ids |-> Gone(i, [s \in Steps |-> "none"], cont[i])]
  /\ rows' = [i \in Ids |-> Gone(i, rows[i] \ {coll}, rows[i])]
  /\ UNCHANGED <<used, caller, worker, calls, history, bounds>>

(* One throws: so does the call, at once.  The others go on.  (A process   *)
(* that dies takes no further step, and no step has to be taken.)          *)
DeleteFails(coll) ==
  /\ coll \in purge.left /\ Mishap
  /\ purge' = [purge EXCEPT !.left = @ \ {coll}, !.at = "error"]
  /\ UNCHANGED <<docs, used, caller, worker, calls, history, claims, purges>>

Next ==
  \/ \E c \in Callers :
       \/ FindByKey(c) \/ WriteStartInstance(c) \/ FindWinner(c)
       \/ InsertStart(c)
  \/ \E i, j \in Ids : Adopt(i, j)
  \/ \E i \in Ids : Project(i) \/ FindRoot(i)
  \/ \E i \in Ids, s \in Steps : Sweep(i, s) \/ \E w \in Workers : Claim(w, i, s)
  \/ \E w \in Workers :
       \/ ReadState(w) \/ ReadInstance(w) \/ MarkNoOp(w)
       \/ Commit(w) \/ Conflict(w) \/ Release(w)
  \/ Walk
  \/ \E coll \in Collections : Delete(coll) \/ DeleteFails(coll)

Spec == Init /\ [][Next]_vars

------------------------------------------------------------------------------
(* Properties.                                                             *)

(* The calls that give the same key are given the same instance, unless    *)
(* the one that was given first has been purged since; and a call that is  *)
(* refused and finds no winner has met a purge.                            *)
CallersAgree ==
  /\ \A c, d \in Callers :
       LET i == caller[c].answer  j == caller[d].answer IN
       {i, j} \subseteq Ids /\ KeyOf[c] # Absent /\ KeyOf[c] = KeyOf[d] /\ i < j => ~Exists(i)
  /\ \A c \in Callers : caller[c].at = "error" => purges > 0

(* Once the state document of an instance is deleted no worker brings any  *)
(* of the instance back, though it may have read it before: what is still  *)
(* inserted about it comes from the projection of an earlier callback or   *)
(* from insertStartContinuation, which does not look.                      *)
NothingComesBack ==
  [][ \A i \in used : state[i] = Absent =>
        /\ state'[i] = Absent /\ (~Exists(i) => ~Exists(i)')
        /\ rows'[i] \subseteq rows[i] \cup {"tasks"}
        /\ cont'[i][TOKEN] # "none" => cont[i][TOKEN] # "none" ]_vars

Nothing(i) ==
  /\ ~Exists(i) /\ state[i] = Absent /\ rows[i] = {}
  /\ \A s \in Steps : cont[i][s] = "none"

(* When a purge has returned, nothing is left of the instance nor of any   *)
(* of the descendants it had when the purge began, in no collection, but   *)
(* for those that something was inserted about after that.                 *)
PurgeLeavesNothing ==
  purge.at = "returned" => \A i \in tree \ disturbed : Nothing(i)

(* An instance and its state document come together, and only a purge      *)
(* takes them apart.                                                       *)
LifecycleInv ==
  /\ instance \in [Ids -> [status : {"none", "RUNNING", "COMPLETED"}, parent : Ids \cup {Absent},
                           key : {Absent} \cup { KeyOf[c] : c \in Callers }]]
  /\ state \in [Ids -> {Absent} \cup 0..2]
  /\ \A i \in Ids \ used : Nothing(i)
  /\ \A i \in Ids : purges = 0 =>
       /\ Exists(i) = (state[i] # Absent)
       /\ (instance[i].status = "COMPLETED") = (state[i] = 2)
=============================================================================
