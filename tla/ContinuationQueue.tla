-------------------------- MODULE ContinuationQueue --------------------------
(***************************************************************************)
(* The durable continuation queue of one process instance and the workers  *)
(* that drain it: claimContinuation and processContinuation                *)
(* (src/workers/processor.ts), sweepExpiredLeases (src/workers/sweeper.ts) *)
(* and the loop around them (workerLoop, src/server/index.ts).             *)
(*                                                                         *)
(* What applyTransition computes is abstracted to the one thing the queue  *)
(* depends on.  A continuation is ABOUT a subject: the instance not yet    *)
(* started (START), an ACTIVE token (TOKEN_AT_NODE), an open work item     *)
(* (WORK_COMPLETED), a pending decision (DECISION_RECORDED) or a pending   *)
(* multi-instance entry (MULTI_INSTANCE_RESOLVED).  applyTransition is the *)
(* empty result when the subject is no longer in the state document, and   *)
(* otherwise takes it out and puts new ones in (TokenFlow has the detail). *)
(* Some subjects are sticky, they can stay in the state when a             *)
(* continuation about them is processed: a token parked at a parallel      *)
(* join, until its siblings arrive; a multi-instance entry, until its last *)
(* work item is completed; and what a continuation has no use for, such as *)
(* a multi-instance entry resolved to no items, or a token at a node the   *)
(* engine does nothing for.                                                *)
(*                                                                         *)
(* A MongoDB write of one document is one step; withTransaction is one     *)
(* step, guarded by the version check its filters make.                    *)
(***************************************************************************)
EXTENDS Naturals, FiniteSets

CONSTANTS
  Workers,     (* Claim loops, of one server process or of several.        *)
  Subjects,    (* Ids of everything a continuation can be about.           *)
  Tokens,      (* The subjects that are tokens: the commit that creates    *)
               (* one inserts its TOKEN_AT_NODE continuation.  The others  *)
               (* get theirs from a call of the host.                      *)
  Sticky,      (* The subjects that may stay open when they are processed. *)
  Start,       (* The subject of START.                                    *)
  Copies,      (* Tells apart the continuations about one subject.         *)
  First,       (* The copy the engine itself inserts.                      *)
  EventCounts, (* How many events one transition may emit.                 *)
  MaxMishaps   (* Bounds the crashes, failures and stalls of a behaviour.  *)

ASSUME SubjectsAssumption ==
  /\ Tokens \subseteq Subjects
  /\ Sticky \subseteq Subjects
  /\ Start \in Subjects \ (Tokens \cup Sticky)

ASSUME CopiesAssumption == First \in Copies

(* Every transition that is not the empty result emits an event first.     *)
ASSUME EventCountsAssumption == EventCounts \subseteq Nat \ {0}

ASSUME MaxMishapsAssumption == MaxMishaps \in Nat

(* The documents of the Continuations collection, by what they are about.  *)
Conts == Subjects \X Copies

Statuses == {"ABSENT", "READY", "IN_PROGRESS", "DONE"}
Leases   == {"none", "running", "expired"}
Places   == {"idle", "claimed", "read", "committed", "failed"}

VARIABLES
  status,       (* Continuations.status; ABSENT when not inserted yet.     *)
  lease,        (* Continuations.leaseUntil against the clock, while the   *)
                (* status is IN_PROGRESS (a DONE document keeps the field, *)
                (* where nothing reads it).                                *)
  open,         (* ProcessInstanceState: the subjects it carries ...       *)
  version,      (* ... its version ...                                     *)
  lastEventSeq, (* ... and its lastEventSeq.                               *)
  born,         (* History: every subject ever minted.                     *)
  events,       (* The ProcessInstanceEvents collection.                   *)
  pc,           (* Where each worker is in its loop.                       *)
  job,          (* The continuation a worker has claimed.                  *)
  snap,         (* The state document a worker has read.                   *)
  mishaps       (* Crashes, failures and stalls so far.                    *)

queueVars  == <<status, lease>>
stateVars  == <<open, version, lastEventSeq, born, events>>
workerVars == <<pc, job, snap>>
vars == <<queueVars, stateVars, workerVars, mishaps>>

Snapshots == [open : SUBSET Subjects, version : Nat, lastEventSeq : Nat]

Events == [seq : Nat, by : Conts, ver : Nat]

(* What the locals of a worker hold while they are not in use.             *)
NoJob      == <<Start, First>>
NoSnapshot == [open |-> {}, version |-> 0, lastEventSeq |-> 0]

TypeOK ==
  /\ status \in [Conts -> Statuses]
  /\ lease \in [Conts -> Leases]
  /\ open \in SUBSET Subjects
  /\ born \in SUBSET Subjects
  /\ version \in Nat
  /\ lastEventSeq \in Nat
  /\ events \in SUBSET Events
  /\ pc \in [Workers -> Places]
  /\ job \in [Workers -> Conts]
  /\ snap \in [Workers -> Snapshots]
  /\ mishaps \in Nat

------------------------------------------------------------------------------
(* insertStartContinuation has run: the instance exists, it has no token.  *)
Init ==
  /\ status = [c \in Conts |-> IF c = <<Start, First>> THEN "READY" ELSE "ABSENT"]
  /\ lease = [c \in Conts |-> "none"]
  /\ open = {Start}
  /\ born = {Start}
  /\ version = 0
  /\ lastEventSeq = 0
  /\ events = {}
  /\ pc = [w \in Workers |-> "idle"]
  /\ job = [w \in Workers |-> NoJob]
  /\ snap = [w \in Workers |-> NoSnapshot]
  /\ mishaps = 0

(* Worker w leaves the body of its loop, or moves on with its snapshot out *)
(* of scope.                                                               *)
GoIdle(w) ==
  /\ pc' = [pc EXCEPT ![w] = "idle"]
  /\ job' = [job EXCEPT ![w] = NoJob]
  /\ snap' = [snap EXCEPT ![w] = NoSnapshot]

Leave(w, place) ==
  /\ pc' = [pc EXCEPT ![w] = place]
  /\ snap' = [snap EXCEPT ![w] = NoSnapshot]
  /\ UNCHANGED job

SetStatus(c, s, l) ==
  /\ status' = [status EXCEPT ![c] = s]
  /\ lease' = [lease EXCEPT ![c] = l]

Mishap ==
  /\ mishaps < MaxMishaps
  /\ mishaps' = mishaps + 1

(* Mutants: the check is an equality no more, the processed subject stays. *)
Bug_VersionMatches(w) == snap[w].version <= version
Bug_Remaining(before, c, done) == before \ done

(* What is left of `before' when continuation c has been applied and has   *)
(* settled the sticky subjects `done' along the way.                       *)
Remaining(before, c, done) == before \ (done \cup ({c[1]} \ Sticky))

(* The n events of one commit, numbered on from seq.                       *)
Numbered(seq, n, c, ver) ==
  { [seq |-> seq + i, by |-> c, ver |-> ver] : i \in 1..n }

(* The filter of both writes to the state document in the transaction.     *)
VersionMatches(w) == snap[w].version = version

------------------------------------------------------------------------------
(* The worker.                                                             *)

(* Mutant: the claim forgets the lease.                                    *)
Bug_Claim(w, c) ==
  /\ pc[w] = "idle"
  /\ status[c] = "READY"
  /\ SetStatus(c, "IN_PROGRESS", "none")
  /\ pc' = [pc EXCEPT ![w] = "claimed"]
  /\ job' = [job EXCEPT ![w] = c]
  /\ UNCHANGED <<stateVars, snap, mishaps>>

(* claimContinuation: findOneAndUpdate READY -> IN_PROGRESS with a lease.  *)
Claim(w, c) ==
  /\ pc[w] = "idle"
  /\ status[c] = "READY"
  /\ SetStatus(c, "IN_PROGRESS", "running")
  /\ pc' = [pc EXCEPT ![w] = "claimed"]
  /\ job' = [job EXCEPT ![w] = c]
  /\ UNCHANGED <<stateVars, snap, mishaps>>

(* processContinuation reads the state document, outside any transaction.  *)
ReadState(w) ==
  /\ pc[w] = "claimed"
  /\ snap' = [snap EXCEPT ![w] = [open |-> open, version |-> version,
                                  lastEventSeq |-> lastEventSeq]]
  /\ pc' = [pc EXCEPT ![w] = "read"]
  /\ UNCHANGED <<queueVars, stateVars, job, mishaps>>

(* applyTransition came back empty: the continuation is marked DONE by its *)
(* _id alone, whatever has become of it meanwhile.                         *)
MarkNoOp(w) ==
  /\ pc[w] = "read"
  /\ job[w][1] \notin snap[w].open \ Sticky
  /\ SetStatus(job[w], "DONE", "none")
  /\ GoIdle(w)
  /\ UNCHANGED <<stateVars, mishaps>>

(* The transaction.  It reserves the event numbers on the document as it   *)
(* is, under the version check, inserts the events, overwrites the state   *)
(* with the patch computed from the snapshot, inserts a continuation for   *)
(* each new token and marks the claimed continuation DONE.                 *)
Commit(w, new, done, n) ==
  LET c == job[w] IN
  /\ pc[w] = "read"
  /\ c[1] \in snap[w].open
  /\ VersionMatches(w)
  /\ events' = events \cup Numbered(lastEventSeq, n, c, snap[w].version + 1)
  /\ open' = Remaining(snap[w].open, c, done) \cup new
  /\ version' = snap[w].version + 1
  /\ lastEventSeq' = snap[w].lastEventSeq + n
  /\ born' = born \cup new
  /\ status' = [d \in Conts |->
                  IF d = c THEN "DONE"
                  ELSE IF d[1] \in new \cap Tokens /\ d[2] = First THEN "READY"
                  ELSE status[d]]
  /\ lease' = [lease EXCEPT ![c] = "none"]
  /\ Leave(w, "committed")
  /\ UNCHANGED mishaps

(* Another worker has moved the version on: `Version conflict' is thrown.  *)
Conflict(w) ==
  /\ pc[w] = "read"
  /\ job[w][1] \in snap[w].open
  /\ ~VersionMatches(w)
  /\ Leave(w, "failed")
  /\ UNCHANGED <<queueVars, stateVars, mishaps>>

(* The outbox rows are broadcast and marked SENT; the loop goes round.     *)
Finish(w) ==
  /\ pc[w] = "committed"
  /\ GoIdle(w)
  /\ UNCHANGED <<queueVars, stateVars, mishaps>>

(* Any call to the database may throw, markOutboxSent after the commit     *)
(* included; all of them end in the same catch block.                      *)
Fail(w) ==
  /\ pc[w] \in {"claimed", "read", "committed"}
  /\ Mishap
  /\ Leave(w, "failed")
  /\ UNCHANGED <<queueVars, stateVars>>

(* Mutant: only the owner and the lease are removed.                       *)
Bug_Release(w) ==
  /\ pc[w] = "failed"
  /\ SetStatus(job[w], status[job[w]], "none")
  /\ GoIdle(w)
  /\ UNCHANGED <<stateVars, mishaps>>

(* The catch block of workerLoop puts the continuation back, by its _id:   *)
(* whoever holds it by now, and DONE or not.                               *)
Release(w) ==
  /\ pc[w] = "failed"
  /\ SetStatus(job[w], "READY", "none")
  /\ GoIdle(w)
  /\ UNCHANGED <<stateVars, mishaps>>

(* The process dies, or the catch block's own write throws.                *)
Crash(w) ==
  /\ pc[w] # "idle"
  /\ Mishap
  /\ GoIdle(w)
  /\ UNCHANGED <<queueVars, stateVars>>

------------------------------------------------------------------------------
(* The sweeper and the host.                                               *)

Held(c) == \E w \in Workers : pc[w] # "idle" /\ job[w] = c

(* 30 seconds pass.  Nothing renews a lease, so it also runs out under a   *)
(* worker that is merely slow; such a stall counts as a mishap.            *)
ExpireLease(c) ==
  /\ status[c] = "IN_PROGRESS"
  /\ lease[c] = "running"
  /\ lease' = [lease EXCEPT ![c] = "expired"]
  /\ IF Held(c) THEN Mishap ELSE UNCHANGED mishaps
  /\ UNCHANGED <<status, stateVars, workerVars>>

(* Mutant: only the owner and the lease are removed, as for schedules.     *)
Bug_Sweep(c) ==
  /\ status[c] = "IN_PROGRESS"
  /\ lease[c] = "expired"
  /\ SetStatus(c, "IN_PROGRESS", "none")
  /\ UNCHANGED <<stateVars, workerVars, mishaps>>

(* sweepExpiredLeases, one document of its updateMany at a time.           *)
Sweep(c) ==
  /\ status[c] = "IN_PROGRESS"
  /\ lease[c] = "expired"
  /\ SetStatus(c, "READY", "none")
  /\ UNCHANGED <<stateVars, workerVars, mishaps>>

(* completeWorkItem, submitDecision, submitMultiInstanceData, and a second *)
(* insertStartContinuation: a host that has seen the subject inserts a     *)
(* continuation about it, any number of times and however late.            *)
HostSubmits(c) ==
  /\ c[1] \in born \ Tokens
  /\ status[c] = "ABSENT"
  /\ SetStatus(c, "READY", "none")
  /\ UNCHANGED <<stateVars, workerVars, mishaps>>

Commits(w) ==
  \E new \in SUBSET (Subjects \ born), done \in SUBSET Sticky, n \in EventCounts :
    Commit(w, new, done, n)

WorkerStep(w) ==
  \/ \E c \in Conts : Claim(w, c)
  \/ ReadState(w)
  \/ MarkNoOp(w)
  \/ Commits(w)
  \/ Conflict(w)
  \/ Finish(w)
  \/ Release(w)

Next ==
  \/ \E w \in Workers : WorkerStep(w) \/ Fail(w) \/ Crash(w)
  \/ \E c \in Conts : ExpireLease(c) \/ Sweep(c) \/ HostSubmits(c)

Spec == Init /\ [][Next]_vars

(* The loops run for as long as the process does, and time passes.  The    *)
(* host owes nobody a call, and nothing has to fail.                       *)
Fairness ==
  /\ \A w \in Workers : WF_vars(WorkerStep(w))
  /\ \A c \in Conts : WF_vars(ExpireLease(c)) /\ WF_vars(Sweep(c))

LiveSpec == Spec /\ Fairness

------------------------------------------------------------------------------
(* Properties.                                                             *)

(* The log has no gap and no number twice, and ends at the number the      *)
(* state document says, whatever conflicts, retries and crashes there were *)
(* (the reservation of event numbers in processContinuation).              *)
EventLogContiguous ==
  /\ { e.seq : e \in events } = 1..lastEventSeq
  /\ \A e, f \in events : e.seq = f.seq => e = f

(* However often a continuation is retried, re-claimed under a worker that *)
(* still runs, or put back after it was DONE, and however many the host    *)
(* inserts, one commit at most takes effect for a subject that is not      *)
(* sticky.                                                                 *)
AppliedAtMostOnce ==
  \A e, f \in events :
    e.by[1] = f.by[1] /\ e.by[1] \notin Sticky => e.ver = f.ver

(* Why they hold: the inductive invariant.  Whoever is in the queue is     *)
(* about a subject that exists; a claimed continuation can be swept; a     *)
(* snapshot of the current version is the current state, and one that does *)
(* not carry the subject will not see it come back; what is DONE, and what *)
(* the log says was applied, is closed.                                    *)
QueueIsAboutBornSubjects ==
  /\ open \subseteq born
  /\ \A c \in Conts : status[c] # "ABSENT" => c[1] \in born
  /\ \A s \in born \cap Tokens : status[<<s, First>>] # "ABSENT"
  /\ \A w \in Workers : pc[w] # "idle" => status[job[w]] # "ABSENT"

ClaimsHaveLeases ==
  \A c \in Conts : status[c] = "IN_PROGRESS" => lease[c] # "none"

SnapshotsAreVersioned ==
  \A w \in Workers : pc[w] = "read" =>
    /\ snap[w].version <= version
    /\ snap[w].version = version =>
         snap[w].open = open /\ snap[w].lastEventSeq = lastEventSeq
    /\ job[w][1] \notin snap[w].open => job[w][1] \notin open

DoneIsClosed ==
  \A c \in Conts : status[c] = "DONE" /\ c[1] \notin Sticky => c[1] \notin open

AppliedIsClosed ==
  \A e \in events :
    /\ e.ver <= version
    /\ e.by[1] \notin Sticky => e.by[1] \in born \ open

QueueInv ==
  /\ TypeOK
  /\ QueueIsAboutBornSubjects
  /\ ClaimsHaveLeases
  /\ SnapshotsAreVersioned
  /\ DoneIsClosed
  /\ AppliedIsClosed
  /\ EventLogContiguous
  /\ AppliedAtMostOnce

(* A commit only appends to the log, after everything already there.       *)
LogIsAppendOnly ==
  [][ /\ events \subseteq events'
      /\ \A e \in events, f \in events' \ events : e.seq < f.seq ]_vars

Recoverable(c) ==
  \/ status[c] = "READY"
  \/ status[c] = "IN_PROGRESS" /\ lease[c] # "none"

(* No lost work: while a subject is open, the continuation of a token, and *)
(* any continuation a host has inserted about it, can still be claimed,    *)
(* now or after a sweep; it is never DONE with its effect missing.         *)
OpenSubjectsHaveWork ==
  \A c \in Conts :
    /\ c[1] \in open \ Sticky
    /\ (c[1] \in Tokens /\ c[2] = First) \/ status[c] # "ABSENT"
    => Recoverable(c)

(* No lost update: a commit computed from an old snapshot neither brings a *)
(* closed subject back nor drops one it was not about.                     *)
NoLostUpdate ==
  [][ /\ (born \ open) \cap open' = {}
      /\ \A s \in open \ open' :
           s \in Sticky \/ \E e \in events' \ events : e.by[1] = s ]_vars

(* The documents behave as one atomic applier, see AtomicInstance.         *)
Atomic == INSTANCE AtomicInstance
ImplementsAtomicInstance == Atomic!Spec

(* Every continuation that is READY is dealt with in the end, once crashes *)
(* and stalls stop, whichever worker died or stalled over it.              *)
EveryContinuationIsDone ==
  \A c \in Conts : status[c] = "READY" ~> status[c] = "DONE"
=============================================================================
