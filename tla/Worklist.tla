------------------------------- MODULE Worklist -------------------------------
(***************************************************************************)
(* How a user task gets from the engine to the worklist and back: the      *)
(* outbox, the broadcast by the worker that committed it                   *)
(* (src/server/index.ts, src/ws/broadcast.ts), the dispatcher that sends   *)
(* what was left behind (src/workers/outbox-dispatcher.ts), the projection *)
(* of callbacks and events to human tasks (src/worklist/projection.ts) and *)
(* the routes by which users claim and complete them                       *)
(* (src/worklist/routes.ts).                                               *)
(*                                                                         *)
(* One instance, and of its engine only what the worklist sees: work items *)
(* that are created, answered and done, and its end (TokenFlow has the     *)
(* rest).  A broadcast is not awaited: notifyHandlers runs on beside the   *)
(* worker, one database call at a time, and so do those of other           *)
(* broadcasts.                                                             *)
(***************************************************************************)
EXTENDS Naturals, Sequences, Bags, SequencesExt

CONSTANTS
  Servers,     (* Processes, each with a worker loop and a dispatcher.     *)
  Tasks,       (* Work items, and the human tasks that have their ids.     *)
  Users,
  NoOne,
  Direct,      (* The work items that the host may answer by itself,       *)
               (* through completeWorkItem.                                *)
  MaxMishaps   (* Bounds the crashes, errors and stalls of a behaviour.    *)

ASSUME WorklistAssumption ==
  /\ NoOne \notin Users \cup Tasks /\ IsFiniteSet(Tasks)
  /\ Direct \subseteq Tasks
  /\ MaxMishaps \in Nat

VARIABLES
  workItem,     (* In the state document: none, OPEN or DONE.              *)
  ended,        (* INSTANCE_COMPLETED has been committed.                  *)
  answered,     (* The items with a WORK_COMPLETED continuation.           *)
  outbox,       (* By the work item the row is about: its status; STALE is *)
                (* READY and older than stalenessMs.                       *)
  task,         (* HumanTasks.                                             *)
  worker,       (* What each worker has committed and not yet finished,    *)
  dispatcher,   (* and the stragglers each dispatcher has found or sent.   *)
  handlers,     (* The calls of the projection that are under way: a bag   *)
                (* of what each has still to write.                        *)
  form,         (* The task each user is about to complete.                *)
  broadcasts,   (* How often each callback has been broadcast.             *)
  mishaps

engineVars == <<workItem, ended>>
loopVars   == <<worker, dispatcher, handlers, broadcasts>>
userVars   == <<answered, form>>
vars == <<engineVars, outbox, task, loopVars, userVars, mishaps>>

NoTask == [status |-> "none", assignee |-> NoOne]
Idle   == [at |-> "idle", rows |-> {}, payload |-> <<>>]

(* The entries of a StreamPayload: callbacks, then lifecycle events.       *)
Callbacks(T) == SetToSeq({ [kind |-> "CALLBACK_WORK", of |-> t] : t \in T })
Completed(t) == << [kind |-> "WORK_ITEM_COMPLETED", of |-> t] >>
End          == << [kind |-> "INSTANCE_COMPLETED", of |-> NoOne] >>

Mishap ==
  /\ mishaps < MaxMishaps
  /\ mishaps' = mishaps + 1

Init ==
  /\ workItem = [t \in Tasks |-> "none"]
  /\ ended = FALSE
  /\ answered = {}
  /\ outbox = [t \in Tasks |-> "none"]
  /\ task = [t \in Tasks |-> NoTask]
  /\ worker = [s \in Servers |-> Idle]
  /\ dispatcher = [s \in Servers |-> Idle]
  /\ handlers = EmptyBag
  /\ form = [u \in Users |-> NoOne]
  /\ broadcasts = [t \in Tasks |-> 0]
  /\ mishaps = 0

------------------------------------------------------------------------------
(* The worker: processContinuation, broadcastAll, markOutboxSent.          *)

Commit(s, rows, payload) ==
  /\ worker[s].at = "idle"
  /\ worker' = [worker EXCEPT ![s] = [at |-> "committed", rows |-> rows, payload |-> payload]]
  /\ UNCHANGED <<task, dispatcher, handlers, form, answered, broadcasts, mishaps>>

(* A token reaches a user task, or a multi-instance one is resolved: work  *)
(* items and the rows of their callbacks, in one transaction.              *)
CreateWorkItems(s, T) ==
  /\ ~ended /\ T # {} /\ \A t \in T : workItem[t] = "none"
  /\ workItem' = [t \in Tasks |-> IF t \in T THEN "OPEN" ELSE workItem[t]]
  /\ outbox' = [t \in Tasks |-> IF t \in T THEN "READY" ELSE outbox[t]]
  /\ Commit(s, T, Callbacks(T))
  /\ UNCHANGED ended

(* WORK_COMPLETED.  Its events are not in the outbox.                      *)
CompleteWorkItem(s, t) ==
  /\ t \in answered /\ workItem[t] = "OPEN"
  /\ workItem' = [workItem EXCEPT ![t] = "DONE"]
  /\ Commit(s, {}, Completed(t))
  /\ UNCHANGED <<ended, outbox>>

EndInstance(s) ==
  /\ ~ended /\ \A t \in Tasks : workItem[t] # "OPEN"
  /\ ended' = TRUE
  /\ Commit(s, {}, End)
  /\ UNCHANGED <<workItem, outbox>>

(* A call of every handler, which nobody awaits.                           *)
Notify(payload, rows) ==
  /\ handlers' = handlers (+) SetToBag({payload})
  /\ broadcasts' = [t \in Tasks |-> broadcasts[t] + IF t \in rows THEN 1 ELSE 0]

(* markOutboxSent: what is still READY of these rows.                      *)
Sent(rows) ==
  [t \in Tasks |-> IF t \in rows /\ outbox[t] \in {"READY", "STALE"} THEN "SENT" ELSE outbox[t]]

BroadcastAll(s) ==
  /\ worker[s].at = "committed"
  /\ Notify(worker[s].payload, worker[s].rows)
  /\ worker' = [worker EXCEPT ![s] =
       IF worker[s].rows = {} THEN Idle ELSE [@ EXCEPT !.at = "broadcast"]]
  /\ UNCHANGED <<engineVars, outbox, task, dispatcher, userVars, mishaps>>

MarkOutboxSent(s) ==
  /\ worker[s].at = "broadcast"
  /\ outbox' = Sent(worker[s].rows)
  /\ worker' = [worker EXCEPT ![s] = Idle]
  /\ UNCHANGED <<engineVars, task, dispatcher, handlers, broadcasts, userVars, mishaps>>

(* It throws; the worker puts the continuation, which is DONE, back to     *)
(* READY and goes on.  Processed again it does nothing.                    *)
MarkFails(s) ==
  /\ worker[s].at = "broadcast" /\ Mishap
  /\ worker' = [worker EXCEPT ![s] = Idle]
  /\ UNCHANGED <<engineVars, outbox, task, dispatcher, handlers, broadcasts, userVars>>

------------------------------------------------------------------------------
(* The dispatcher: dispatchOutboxBatch.  Its batch is never full here.     *)

(* stalenessMs go by.  A mishap when a worker is still at the row.         *)
GrowStale(t) ==
  /\ outbox[t] = "READY"
  /\ outbox' = [outbox EXCEPT ![t] = "STALE"]
  /\ IF \E s \in Servers : t \in worker[s].rows THEN Mishap ELSE UNCHANGED mishaps
  /\ UNCHANGED <<engineVars, task, loopVars, userVars>>

(* Mutant: the rows that are not yet stale.                                *)
Bug_Stragglers == { t \in Tasks : outbox[t] = "READY" }

Stragglers == { t \in Tasks : outbox[t] = "STALE" }

FindStragglers(s) ==
  /\ dispatcher[s].at = "idle" /\ Stragglers # {}
  /\ dispatcher' = [dispatcher EXCEPT ![s] =
       [at |-> "found", rows |-> Stragglers, payload |-> Callbacks(Stragglers)]]
  /\ UNCHANGED <<engineVars, outbox, task, worker, handlers, broadcasts, userVars, mishaps>>

BroadcastOutbox(s) ==
  /\ dispatcher[s].at = "found"
  /\ Notify(dispatcher[s].payload, dispatcher[s].rows)
  /\ dispatcher' = [dispatcher EXCEPT ![s].at = "broadcast"]
  /\ UNCHANGED <<engineVars, outbox, task, worker, userVars, mishaps>>

MarkStragglersSent(s) ==
  /\ dispatcher[s].at = "broadcast"
  /\ outbox' = Sent(dispatcher[s].rows)
  /\ dispatcher' = [dispatcher EXCEPT ![s] = Idle]
  /\ UNCHANGED <<engineVars, task, worker, handlers, broadcasts, userVars, mishaps>>

------------------------------------------------------------------------------
(* The projection: createProjectionHandler.                                *)

(* Whatever there is of the task is set to OPEN; who has claimed it stays. *)
Upsert(t) == [task EXCEPT ![t].status = "OPEN"]

SetCompleted(t) == [task EXCEPT ![t].status = IF @ = "none" THEN @ ELSE "COMPLETED"]

(* Mutant: every task of the instance, whatever its status.                *)
Bug_CancelRest ==
  [t \in Tasks |-> IF task[t].status # "none" THEN [task[t] EXCEPT !.status = "CANCELED"] ELSE task[t]]

CancelRest ==
  [t \in Tasks |-> IF task[t].status \in {"OPEN", "CLAIMED"}
                   THEN [task[t] EXCEPT !.status = "CANCELED"] ELSE task[t]]

(* The next write of one of the calls under way.                           *)
Project(call) ==
  /\ task' = CASE call[1].kind = "CALLBACK_WORK"       -> Upsert(call[1].of)
               [] call[1].kind = "WORK_ITEM_COMPLETED" -> SetCompleted(call[1].of)
               [] call[1].kind = "INSTANCE_COMPLETED"  -> CancelRest
  /\ handlers' = (handlers (-) SetToBag({call}))
                   (+) (IF Len(call) = 1 THEN EmptyBag ELSE SetToBag({Tail(call)}))
  /\ UNCHANGED <<engineVars, outbox, worker, dispatcher, userVars, broadcasts, mishaps>>

(* It throws: the rest of the call is not done, nor tried again.           *)
ProjectFails(call) ==
  /\ Mishap
  /\ handlers' = handlers (-) SetToBag({call})
  /\ UNCHANGED <<engineVars, outbox, task, worker, dispatcher, userVars, broadcasts>>

------------------------------------------------------------------------------
(* The routes and the SDK's calls.                                         *)

(* Mutant: the filter has the id only.                                     *)
Bug_ActivateTask(u, t) ==
  /\ task[t].status \in {"OPEN", "CLAIMED"}
  /\ task' = [task EXCEPT ![t] = [status |-> "CLAIMED", assignee |-> u]]
  /\ UNCHANGED <<engineVars, outbox, loopVars, userVars, mishaps>>

(* activate and claim.                                                     *)
ActivateTask(u, t) ==
  /\ task[t].status = "OPEN"
  /\ task' = [task EXCEPT ![t] = [status |-> "CLAIMED", assignee |-> u]]
  /\ UNCHANGED <<engineVars, outbox, loopVars, userVars, mishaps>>

UnclaimTask(u, t) ==
  /\ task[t] = [status |-> "CLAIMED", assignee |-> u]
  /\ task' = [task EXCEPT ![t] = [status |-> "OPEN", assignee |-> NoOne]]
  /\ UNCHANGED <<engineVars, outbox, loopVars, userVars, mishaps>>

(* complete reads the task and may refuse,                                 *)
ReadTask(u, t) ==
  /\ form[u] = NoOne
  /\ \/ task[t].status = "OPEN"
     \/ task[t].status = "CLAIMED" /\ task[t].assignee = u
  /\ form' = [form EXCEPT ![u] = t]
  /\ UNCHANGED <<engineVars, outbox, task, loopVars, answered, mishaps>>

(* and then inserts a continuation, whatever the task has become.          *)
InsertCompletion(u) ==
  /\ form[u] # NoOne
  /\ answered' = answered \cup {form[u]}
  /\ form' = [form EXCEPT ![u] = NoOne]
  /\ UNCHANGED <<engineVars, outbox, task, loopVars, mishaps>>

(* completeWorkItem, once the callback has been seen.                      *)
AnswerDirectly(t) ==
  /\ t \in Direct \ answered /\ broadcasts[t] > 0
  /\ answered' = answered \cup {t}
  /\ UNCHANGED <<engineVars, outbox, task, loopVars, form, mishaps>>

------------------------------------------------------------------------------

(* What may be left of a bag.                                              *)
Fewer(B) ==
  { C \in UNION { [D -> 1..BagCardinality(B)] : D \in SUBSET BagToSet(B) } :
      \A x \in BagToSet(C) : C[x] \in 1..B[x] }

(* A process dies: its loops start again with nothing in hand, and some of *)
(* the handler calls under way (those that were its own) are gone.         *)
Crash(s) ==
  /\ Mishap
  /\ worker' = [worker EXCEPT ![s] = Idle]
  /\ dispatcher' = [dispatcher EXCEPT ![s] = Idle]
  /\ \E rest \in IF Servers = {s} THEN {EmptyBag} ELSE Fewer(handlers) : handlers' = rest
  /\ UNCHANGED <<engineVars, outbox, task, broadcasts, userVars>>

Worker(s)     == BroadcastAll(s) \/ MarkOutboxSent(s)
Dispatcher(s) == FindStragglers(s) \/ BroadcastOutbox(s) \/ MarkStragglersSent(s)

Next ==
  \/ \E s \in Servers :
       \/ \E T \in SUBSET Tasks : CreateWorkItems(s, T)
       \/ \E t \in Tasks : CompleteWorkItem(s, t)
       \/ EndInstance(s)
       \/ Worker(s) \/ MarkFails(s) \/ Dispatcher(s) \/ Crash(s)
  \/ \E call \in BagToSet(handlers) : Project(call) \/ ProjectFails(call)
  \/ \E t \in Tasks : GrowStale(t) \/ AnswerDirectly(t)
  \/ \E u \in Users : InsertCompletion(u)
  \/ \E u \in Users, t \in Tasks : ActivateTask(u, t) \/ UnclaimTask(u, t) \/ ReadTask(u, t)

Spec == Init /\ [][Next]_vars

(* The loops run as long as their process does, and time goes by.          *)
Fairness ==
  /\ \A s \in Servers : WF_vars(Worker(s)) /\ WF_vars(Dispatcher(s))
  /\ \A t \in Tasks : WF_vars(GrowStale(t))

LiveSpec == Spec /\ Fairness

------------------------------------------------------------------------------
(* Properties.                                                             *)

Jobs == [at : {"idle", "committed", "found", "broadcast"}, rows : SUBSET Tasks, payload : Seq(
  [kind : {"CALLBACK_WORK", "WORK_ITEM_COMPLETED", "INSTANCE_COMPLETED"}, of : Tasks \cup {NoOne}])]

(* The documents have the types the code gives them; a loop that has       *)
(* something in hand has something to broadcast, and a row belongs to a    *)
(* work item.                                                              *)
TypeOK ==
  /\ workItem \in [Tasks -> {"none", "OPEN", "DONE"}] /\ ended \in BOOLEAN
  /\ outbox \in [Tasks -> {"none", "READY", "STALE", "SENT"}]
  /\ \A t \in Tasks : (outbox[t] = "none") = (workItem[t] = "none")
  /\ task \in [Tasks -> [status : {"none", "OPEN", "CLAIMED", "COMPLETED", "CANCELED"},
                         assignee : Users \cup {NoOne}]]
  /\ \A s \in Servers : \A j \in {worker[s], dispatcher[s]} :
       j \in Jobs /\ ((j.at = "idle") = (j.payload = <<>>))
  /\ IsABag(handlers) /\ \A call \in BagToSet(handlers) : call # <<>>
  /\ answered \subseteq Tasks /\ form \in [Users -> Tasks \cup {NoOne}]
  /\ broadcasts \in [Tasks -> Nat] /\ mishaps \in 0..MaxMishaps

(* A task that a user has claimed is his until he returns it, completes it *)
(* or it is closed.                                                        *)
Keeps(t) ==
  task[t].status = "CLAIMED" /\ task'[t] # task[t] =>
    \/ task'[t].status \in {"COMPLETED", "CANCELED"}
    \/ UnclaimTask(task[t].assignee, t)

(* It is, whatever fails or dies, as long as the callback of the task has  *)
(* been broadcast once: only a repeated one takes it from him.             *)
OnlyRepeatsTakeTasksAway ==
  [][\A t \in Tasks : broadcasts[t] <= 1 => Keeps(t)]_vars

(* Nothing is still to be broadcast or projected.                          *)
AtRest ==
  /\ handlers = EmptyBag
  /\ \A s \in Servers : worker[s] = Idle /\ dispatcher[s] = Idle
  /\ \A t \in Tasks : outbox[t] \in {"none", "SENT"}

Listed(t) == task[t].status \in {"OPEN", "CLAIMED"}

(* The worklist is consistent with the engine once nothing is under way:   *)
(* what is on it is what is open.                                          *)
WorklistAgrees ==
  AtRest => \A t \in Tasks : Listed(t) = (workItem[t] = "OPEN")

(* It is, in whatever order the writes of the projection happen, for the   *)
(* tasks that are answered through it, if nothing failed, died or stalled; *)
(* and what was answered is then COMPLETED, also when the end of the       *)
(* instance has overtaken it.                                              *)
WorklistAgreesUndisturbed ==
  /\ TypeOK
  /\ AtRest /\ mishaps = 0 => \A t \in Tasks \ Direct :
       /\ Listed(t) = (workItem[t] = "OPEN")
       /\ (task[t].status = "COMPLETED") = (workItem[t] = "DONE")

(* Every callback is broadcast in the end: by the worker that committed    *)
(* it, or else by a dispatcher.                                            *)
EveryCallbackIsBroadcast ==
  \A t \in Tasks : outbox[t] # "none" ~> broadcasts[t] > 0
=============================================================================
