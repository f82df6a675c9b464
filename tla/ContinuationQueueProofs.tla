----------------------- MODULE ContinuationQueueProofs -----------------------
(***************************************************************************)
(* Safety of the continuation queue for every number of workers, subjects, *)
(* duplicate submissions and mishaps.  QueueInv is the inductive           *)
(* invariant; everything else follows from it.                             *)
(***************************************************************************)
EXTENDS ContinuationQueue, TLAPS

USE SubjectsAssumption, CopiesAssumption, EventCountsAssumption, MaxMishapsAssumption

(* The numbers of one commit are the n after seq, each once, and its       *)
(* events are events of the log's type.                                    *)
LEMMA NumberedFacts ==
  ASSUME NEW seq \in Nat, NEW n \in Nat \ {0}, NEW c \in Conts, NEW ver \in Nat
  PROVE  /\ Numbered(seq, n, c, ver) \subseteq Events
         /\ \A e \in Numbered(seq, n, c, ver) :
              e.seq \in (seq + 1)..(seq + n) /\ e.by = c /\ e.ver = ver
         /\ { e.seq : e \in Numbered(seq, n, c, ver) } = (seq + 1)..(seq + n)
         /\ \A e, f \in Numbered(seq, n, c, ver) : e.seq = f.seq => e = f
<1> DEFINE N == Numbered(seq, n, c, ver)
<1>1. \A e \in N : \E i \in 1..n : e = [seq |-> seq + i, by |-> c, ver |-> ver]
  BY DEF Numbered
<1>2. \A e \in N : e.seq \in (seq + 1)..(seq + n) /\ e.by = c /\ e.ver = ver
  BY <1>1
<1>3. N \subseteq Events
  BY <1>1 DEF Events
<1>4. ASSUME NEW k \in (seq + 1)..(seq + n)
      PROVE  \E e \in N : e.seq = k
  <2>1. k - seq \in 1..n /\ seq + (k - seq) = k
    OBVIOUS
  <2>2. [seq |-> k, by |-> c, ver |-> ver] \in N
    BY <2>1 DEF Numbered
  <2> QED BY <2>2
<1>5. { e.seq : e \in N } = (seq + 1)..(seq + n)
  BY <1>2, <1>4
<1>6. \A e, f \in N : e.seq = f.seq => e = f
  BY <1>1, <1>2
<1> QED BY <1>2, <1>3, <1>5, <1>6

LEMMA InitQueueInv == Init => QueueInv
BY DEF Init, QueueInv, TypeOK, QueueIsAboutBornSubjects, ClaimsHaveLeases,
       SnapshotsAreVersioned, DoneIsClosed, AppliedIsClosed, EventLogContiguous,
       AppliedAtMostOnce, Conts, Statuses, Leases, Places, NoJob, NoSnapshot,
       Snapshots, Events

(***************************************************************************)
(* The steps that leave the state document and the log alone.  A worker's  *)
(* or the queue's own bookkeeping can only disturb the parts about jobs,   *)
(* leases and DONE.                                                        *)
(***************************************************************************)
LEMMA ClaimQueueInv ==
  ASSUME QueueInv, NEW w \in Workers, NEW c \in Conts, Claim(w, c)
  PROVE  QueueInv'
<1> USE DEF QueueInv
<1>1. TypeOK'
  BY DEF Claim, TypeOK, SetStatus, Statuses, Leases, Places, stateVars
<1>2. QueueIsAboutBornSubjects'
  BY DEF Claim, SetStatus, QueueIsAboutBornSubjects, TypeOK, stateVars, Conts
<1>3. ClaimsHaveLeases'
  BY DEF Claim, SetStatus, ClaimsHaveLeases, TypeOK, stateVars
<1>4. SnapshotsAreVersioned'
  BY DEF Claim, SnapshotsAreVersioned, TypeOK, stateVars
<1>5. DoneIsClosed'
  BY DEF Claim, SetStatus, DoneIsClosed, TypeOK, stateVars
<1>6. AppliedIsClosed' /\ EventLogContiguous' /\ AppliedAtMostOnce'
  BY DEF Claim, AppliedIsClosed, EventLogContiguous, AppliedAtMostOnce, stateVars
<1> QED BY <1>1, <1>2, <1>3, <1>4, <1>5, <1>6

LEMMA ReadStateQueueInv ==
  ASSUME QueueInv, NEW w \in Workers, ReadState(w)
  PROVE  QueueInv'
<1> USE DEF QueueInv
<1>1. TypeOK'
  BY DEF ReadState, TypeOK, Places, Snapshots, queueVars, stateVars
<1>2. QueueIsAboutBornSubjects' /\ ClaimsHaveLeases' /\ DoneIsClosed'
  BY DEF ReadState, QueueIsAboutBornSubjects, ClaimsHaveLeases, DoneIsClosed, TypeOK,
         queueVars, stateVars
<1>3. SnapshotsAreVersioned'
  BY DEF ReadState, SnapshotsAreVersioned, TypeOK, stateVars
<1>4. AppliedIsClosed' /\ EventLogContiguous' /\ AppliedAtMostOnce'
  BY DEF ReadState, AppliedIsClosed, EventLogContiguous, AppliedAtMostOnce, stateVars
<1> QED BY <1>1, <1>2, <1>3, <1>4

LEMMA MarkNoOpQueueInv ==
  ASSUME QueueInv, NEW w \in Workers, MarkNoOp(w)
  PROVE  QueueInv'
<1> USE DEF QueueInv
<1>0. job[w] \in Conts /\ job[w][1] \notin open \ Sticky
  BY DEF MarkNoOp, SnapshotsAreVersioned, TypeOK
<1>1. TypeOK'
  BY DEF MarkNoOp, TypeOK, SetStatus, GoIdle, NoJob, NoSnapshot, Statuses, Leases,
         Places, Snapshots, stateVars, Conts
<1>2. QueueIsAboutBornSubjects'
  BY DEF MarkNoOp, SetStatus, GoIdle, QueueIsAboutBornSubjects, TypeOK, stateVars, Conts
<1>3. ClaimsHaveLeases'
  BY DEF MarkNoOp, SetStatus, ClaimsHaveLeases, TypeOK
<1>4. SnapshotsAreVersioned'
  BY DEF MarkNoOp, GoIdle, SnapshotsAreVersioned, TypeOK, stateVars
<1>5. DoneIsClosed'
  BY <1>0 DEF MarkNoOp, SetStatus, DoneIsClosed, TypeOK, stateVars
<1>6. AppliedIsClosed' /\ EventLogContiguous' /\ AppliedAtMostOnce'
  BY DEF MarkNoOp, AppliedIsClosed, EventLogContiguous, AppliedAtMostOnce, stateVars
<1> QED BY <1>1, <1>2, <1>3, <1>4, <1>5, <1>6

(* Conflict, Fail, Finish and Crash only move the worker out of `read'.    *)
LEMMA LeaveQueueInv ==
  ASSUME QueueInv, NEW w \in Workers,
         \/ pc[w] # "idle" /\ \E place \in Places : Leave(w, place)
         \/ GoIdle(w),
         pc'[w] # "read",
         UNCHANGED <<queueVars, stateVars>>,
         mishaps' \in Nat
  PROVE  QueueInv'
<1> USE DEF QueueInv
<1>1. TypeOK'
  <2>1. NoJob \in Conts /\ NoSnapshot \in Snapshots
    BY DEF NoJob, NoSnapshot, Conts, Snapshots
  <2>2. /\ pc' \in [Workers -> Places]
        /\ job' \in [Workers -> Conts]
        /\ snap' \in [Workers -> Snapshots]
    <3>1. CASE GoIdle(w)
      <4>1. "idle" \in Places
        BY DEF Places
      <4> QED BY <2>1, <3>1, <4>1 DEF TypeOK, GoIdle
    <3>2. CASE \E place \in Places : Leave(w, place)
      BY <2>1, <3>2 DEF TypeOK, Leave
    <3> QED BY <3>1, <3>2
  <2> QED BY <2>2 DEF TypeOK, queueVars, stateVars
<1>2. QueueIsAboutBornSubjects'
  BY DEF Leave, GoIdle, QueueIsAboutBornSubjects, TypeOK, queueVars, stateVars
<1>3. ClaimsHaveLeases' /\ DoneIsClosed'
  BY DEF ClaimsHaveLeases, DoneIsClosed, queueVars, stateVars
<1>4. SnapshotsAreVersioned'
  BY DEF Leave, GoIdle, SnapshotsAreVersioned, TypeOK, stateVars
<1>5. AppliedIsClosed' /\ EventLogContiguous' /\ AppliedAtMostOnce'
  BY DEF AppliedIsClosed, EventLogContiguous, AppliedAtMostOnce, stateVars
<1> QED BY <1>1, <1>2, <1>3, <1>4, <1>5

(* Putting a continuation about a born subject (back) to READY is safe in  *)
(* every state, DONE included: this is why the unconditional Release, the  *)
(* sweep of a lease whose worker still runs, and a second call of the host *)
(* do no harm.                                                             *)
LEMMA ReadyQueueInv ==
  ASSUME QueueInv, NEW c \in Conts, c[1] \in born,
         SetStatus(c, "READY", "none"),
         UNCHANGED workerVars \/ \E w \in Workers : GoIdle(w),
         UNCHANGED <<stateVars, mishaps>>
  PROVE  QueueInv'
<1> USE DEF QueueInv
<1>1. TypeOK'
  <2>1. NoJob \in Conts /\ NoSnapshot \in Snapshots /\ "idle" \in Places
    BY DEF NoJob, NoSnapshot, Conts, Snapshots, Places
  <2>2. /\ pc' \in [Workers -> Places]
        /\ job' \in [Workers -> Conts]
        /\ snap' \in [Workers -> Snapshots]
    BY <2>1 DEF TypeOK, GoIdle, workerVars
  <2>3. /\ status' \in [Conts -> Statuses]
        /\ lease' \in [Conts -> Leases]
    BY DEF TypeOK, SetStatus, Statuses, Leases
  <2> QED BY <2>2, <2>3 DEF TypeOK, stateVars
<1>2. QueueIsAboutBornSubjects'
  <2>1. \A d \in Conts : status'[d] # "ABSENT" => d[1] \in born'
    BY DEF SetStatus, QueueIsAboutBornSubjects, TypeOK, stateVars
  <2>2. \A s \in born' \cap Tokens : status'[<<s, First>>] # "ABSENT"
    BY DEF SetStatus, QueueIsAboutBornSubjects, TypeOK, stateVars, Conts
  <2>3. \A w \in Workers : pc'[w] # "idle" => status'[job'[w]] # "ABSENT"
    BY DEF SetStatus, GoIdle, QueueIsAboutBornSubjects, TypeOK, workerVars
  <2> QED BY <2>1, <2>2, <2>3 DEF QueueIsAboutBornSubjects, stateVars
<1>3. ClaimsHaveLeases'
  BY DEF SetStatus, ClaimsHaveLeases, TypeOK
<1>4. SnapshotsAreVersioned'
  BY DEF GoIdle, SnapshotsAreVersioned, TypeOK, stateVars, workerVars
<1>5. DoneIsClosed'
  BY DEF SetStatus, DoneIsClosed, TypeOK, stateVars
<1>6. AppliedIsClosed' /\ EventLogContiguous' /\ AppliedAtMostOnce'
  BY DEF AppliedIsClosed, EventLogContiguous, AppliedAtMostOnce, stateVars
<1> QED BY <1>1, <1>2, <1>3, <1>4, <1>5, <1>6

LEMMA ExpireLeaseQueueInv ==
  ASSUME QueueInv, NEW c \in Conts, ExpireLease(c)
  PROVE  QueueInv'
<1> USE DEF QueueInv
<1>1. TypeOK'
  BY DEF ExpireLease, Mishap, TypeOK, Leases, stateVars, workerVars
<1>2. ClaimsHaveLeases'
  BY DEF ExpireLease, ClaimsHaveLeases, TypeOK
<1>3. /\ QueueIsAboutBornSubjects' /\ SnapshotsAreVersioned' /\ DoneIsClosed'
      /\ AppliedIsClosed' /\ EventLogContiguous' /\ AppliedAtMostOnce'
  BY DEF ExpireLease, QueueIsAboutBornSubjects, SnapshotsAreVersioned, DoneIsClosed,
         AppliedIsClosed, EventLogContiguous, AppliedAtMostOnce, stateVars, workerVars
<1> QED BY <1>1, <1>2, <1>3

(***************************************************************************)
(* The transaction.  The version check makes the snapshot the current      *)
(* state, so the patch computed from it loses nothing and the numbers it   *)
(* writes are the numbers it has reserved.                                 *)
(***************************************************************************)
LEMMA CommitQueueInv ==
  ASSUME QueueInv, NEW w \in Workers, NEW new \in SUBSET (Subjects \ born),
         NEW done \in SUBSET Sticky, NEW n \in EventCounts, Commit(w, new, done, n)
  PROVE  QueueInv'
<1> USE DEF QueueInv
<1> DEFINE c == job[w]
           N == Numbered(lastEventSeq, n, c, version + 1)
<1>1. /\ c \in Conts /\ c[1] \in open /\ status[c] # "ABSENT"
      /\ n \in Nat \ {0} /\ version \in Nat /\ lastEventSeq \in Nat
      /\ pc[w] = "read"
  BY DEF Commit, VersionMatches, SnapshotsAreVersioned, TypeOK, QueueIsAboutBornSubjects
<1>2. /\ events' = events \cup N
      /\ open' = Remaining(open, c, done) \cup new
      /\ version' = version + 1
      /\ lastEventSeq' = lastEventSeq + n
      /\ born' = born \cup new
  BY DEF Commit, VersionMatches, SnapshotsAreVersioned, TypeOK
<1>3. /\ N \subseteq Events
      /\ \A e \in N : e.seq \in (lastEventSeq + 1)..(lastEventSeq + n)
                       /\ e.by = c /\ e.ver = version + 1
      /\ { e.seq : e \in N } = (lastEventSeq + 1)..(lastEventSeq + n)
      /\ \A e, f \in N : e.seq = f.seq => e = f
  <2>1. version + 1 \in Nat
    BY <1>1
  <2> HIDE DEF c
  <2> QED BY <1>1, <2>1, NumberedFacts, Zenon
<1>4. /\ open \subseteq born
      /\ Remaining(open, c, done) \subseteq open
      /\ c[1] \notin Sticky => c[1] \notin Remaining(open, c, done)
      /\ new \cap born = {}
  BY DEF Remaining, QueueIsAboutBornSubjects
<1> HIDE DEF N, c
<1>5. TypeOK'
  <2>1. /\ status' \in [Conts -> Statuses]
        /\ lease' \in [Conts -> Leases]
    BY DEF Commit, TypeOK, Statuses, Leases
  <2>2. /\ pc' \in [Workers -> Places]
        /\ job' \in [Workers -> Conts]
        /\ snap' \in [Workers -> Snapshots]
    BY DEF Commit, Leave, TypeOK, Places, Snapshots, NoSnapshot
  <2>3. /\ open' \in SUBSET Subjects /\ born' \in SUBSET Subjects
        /\ version' \in Nat /\ lastEventSeq' \in Nat
        /\ events' \in SUBSET Events
    BY <1>1, <1>2, <1>3, <1>4 DEF TypeOK
  <2> QED BY <2>1, <2>2, <2>3 DEF TypeOK, Commit
<1>6. QueueIsAboutBornSubjects'
  <2>1. open' \subseteq born'
    BY <1>2, <1>4
  <2>2. ASSUME NEW d \in Conts, status'[d] # "ABSENT"
        PROVE  d[1] \in born'
    BY <1>1, <1>2, <1>4, <2>2 DEF Commit, QueueIsAboutBornSubjects, c
  <2>3. ASSUME NEW s \in born' \cap Tokens
        PROVE  status'[<<s, First>>] # "ABSENT"
    BY <1>1, <1>2, <2>3 DEF Commit, QueueIsAboutBornSubjects, Conts
  <2>4. ASSUME NEW v \in Workers, pc'[v] # "idle"
        PROVE  status'[job'[v]] # "ABSENT"
    <3>1. job' = job /\ job[v] \in Conts /\ status[job[v]] # "ABSENT"
      BY <1>1, <2>4 DEF Commit, Leave, TypeOK, QueueIsAboutBornSubjects
    <3> QED BY <3>1 DEF Commit
  <2> QED BY <2>1, <2>2, <2>3, <2>4 DEF QueueIsAboutBornSubjects
<1>7. ClaimsHaveLeases'
  BY DEF Commit, ClaimsHaveLeases, TypeOK
<1>8. SnapshotsAreVersioned'
  <2> SUFFICES ASSUME NEW v \in Workers, pc'[v] = "read"
               PROVE  /\ snap'[v].version <= version'
                      /\ snap'[v].version # version'
                      /\ job'[v][1] \notin snap'[v].open => job'[v][1] \notin open'
    BY DEF SnapshotsAreVersioned
  <2>1. pc[v] = "read" /\ snap'[v] = snap[v] /\ job'[v] = job[v]
    BY DEF Commit, Leave, TypeOK
  <2>2. snap[v].version \in Nat /\ snap[v].version <= version
    BY <2>1 DEF SnapshotsAreVersioned, TypeOK, Snapshots
  <2>3. ASSUME job[v][1] \notin snap[v].open
        PROVE  job[v][1] \notin open'
    BY <1>2, <1>4, <2>1, <2>3 DEF SnapshotsAreVersioned, QueueIsAboutBornSubjects, TypeOK
  <2> QED BY <1>1, <1>2, <2>1, <2>2, <2>3
<1>9. DoneIsClosed'
  <2> SUFFICES ASSUME NEW d \in Conts, status'[d] = "DONE", d[1] \notin Sticky
               PROVE  d[1] \notin open'
    BY DEF DoneIsClosed
  <2>1. CASE d = c
    BY <1>1, <1>2, <1>4, <2>1
  <2>2. CASE d # c
    <3>1. status[d] = "DONE"
      BY <2>2 DEF Commit, c
    <3>2. d[1] \in born /\ d[1] \notin open
      BY <3>1 DEF DoneIsClosed, QueueIsAboutBornSubjects
    <3> QED BY <1>2, <1>4, <3>2
  <2> QED BY <2>1, <2>2
<1>10. AppliedIsClosed'
  <2> SUFFICES ASSUME NEW e \in events'
               PROVE  /\ e.ver <= version'
                      /\ e.by[1] \notin Sticky => e.by[1] \in born' \ open'
    BY DEF AppliedIsClosed
  <2>1. CASE e \in events
    <3>1. e.ver \in Nat /\ e.ver <= version
      BY <2>1 DEF AppliedIsClosed, TypeOK, Events
    <3>2. e.by[1] \notin Sticky => e.by[1] \in born \ open
      BY <2>1 DEF AppliedIsClosed
    <3> QED BY <1>1, <1>2, <1>4, <3>1, <3>2
  <2>2. CASE e \in N
    BY <1>1, <1>2, <1>3, <1>4, <2>2
  <2> QED BY <1>2, <2>1, <2>2
<1>11. EventLogContiguous'
  <2>1. \A e \in events : e.seq \in 1..lastEventSeq
    BY DEF EventLogContiguous
  <2>2. { e.seq : e \in events' } = 1..lastEventSeq'
    <3>1. { e.seq : e \in events' } = { e.seq : e \in events } \cup { e.seq : e \in N }
      BY <1>2
    <3>2. { e.seq : e \in events' } = (1..lastEventSeq) \cup ((lastEventSeq + 1)..(lastEventSeq + n))
      BY <1>3, <3>1 DEF EventLogContiguous
    <3> QED BY <1>1, <1>2, <3>2
  <2>3. ASSUME NEW e \in events', NEW f \in events', e.seq = f.seq
        PROVE  e = f
    <3>1. CASE e \in events /\ f \in events
      BY <2>3, <3>1 DEF EventLogContiguous
    <3>2. CASE e \in N /\ f \in N
      BY <1>3, <2>3, <3>2
    <3>3. ~(e \in events /\ f \in N) /\ ~(e \in N /\ f \in events)
      BY <1>1, <1>3, <2>1, <2>3
    <3> QED BY <1>2, <3>1, <3>2, <3>3
  <2> QED BY <2>2, <2>3 DEF EventLogContiguous
<1>12. AppliedAtMostOnce'
  <2> SUFFICES ASSUME NEW e \in events', NEW f \in events',
                      e.by[1] = f.by[1], e.by[1] \notin Sticky
               PROVE  e.ver = f.ver
    BY DEF AppliedAtMostOnce
  <2>1. CASE e \in events /\ f \in events
    BY <2>1 DEF AppliedAtMostOnce
  <2>2. CASE e \in N /\ f \in N
    BY <1>3, <2>2
  <2>3. ~(e \in events /\ f \in N) /\ ~(e \in N /\ f \in events)
    BY <1>1, <1>3 DEF AppliedIsClosed
  <2> QED BY <1>2, <2>1, <2>2, <2>3
<1> QED BY <1>5, <1>6, <1>7, <1>8, <1>9, <1>10, <1>11, <1>12

(* One step of the whole system, by cases on the actions.                  *)
LEMMA NextQueueInv == QueueInv /\ [Next]_vars => QueueInv'
<1> SUFFICES ASSUME QueueInv, [Next]_vars
             PROVE  QueueInv'
  OBVIOUS
<1>0. TypeOK /\ mishaps \in Nat
  BY DEF QueueInv, TypeOK
<1>1. ASSUME NEW w \in Workers, WorkerStep(w)
      PROVE  QueueInv'
  <2>1. ASSUME NEW c \in Conts, Claim(w, c)
        PROVE  QueueInv'
    BY <2>1, ClaimQueueInv
  <2>2. CASE ReadState(w)
    BY <2>2, ReadStateQueueInv
  <2>3. CASE MarkNoOp(w)
    BY <2>3, MarkNoOpQueueInv
  <2>4. CASE Commits(w)
    BY <2>4, CommitQueueInv DEF Commits
  <2>5. CASE Conflict(w)
    BY <1>0, <2>5, LeaveQueueInv DEF Conflict, Leave, Places, TypeOK
  <2>6. CASE Finish(w)
    BY <1>0, <2>6, LeaveQueueInv DEF Finish, GoIdle, TypeOK
  <2>7. CASE Release(w)
    <3>1. job[w] \in Conts /\ job[w][1] \in born
      BY <2>7 DEF Release, QueueInv, TypeOK, QueueIsAboutBornSubjects
    <3> QED BY <2>7, <3>1, ReadyQueueInv DEF Release
  <2> QED BY <1>1, <2>1, <2>2, <2>3, <2>4, <2>5, <2>6, <2>7 DEF WorkerStep
<1>2. ASSUME NEW w \in Workers, Fail(w)
      PROVE  QueueInv'
  <2>1. pc[w] # "idle" /\ Leave(w, "failed") /\ "failed" \in Places
    BY <1>2 DEF Fail, Places
  <2>2. pc'[w] = "failed"
    BY <1>0, <2>1 DEF Leave, TypeOK
  <2>3. mishaps' \in Nat /\ UNCHANGED <<queueVars, stateVars>>
    BY <1>0, <1>2 DEF Fail, Mishap
  <2> QED BY <2>1, <2>2, <2>3, LeaveQueueInv
<1>3. ASSUME NEW w \in Workers, Crash(w)
      PROVE  QueueInv'
  <2>1. GoIdle(w)
    BY <1>3 DEF Crash
  <2>2. pc'[w] = "idle"
    BY <1>0, <2>1 DEF GoIdle, TypeOK
  <2>3. mishaps' \in Nat /\ UNCHANGED <<queueVars, stateVars>>
    BY <1>0, <1>3 DEF Crash, Mishap
  <2> QED BY <2>1, <2>2, <2>3, LeaveQueueInv
<1>4. ASSUME NEW c \in Conts, ExpireLease(c)
      PROVE  QueueInv'
  BY <1>4, ExpireLeaseQueueInv
<1>5. ASSUME NEW c \in Conts, Sweep(c)
      PROVE  QueueInv'
  <2>1. c[1] \in born
    BY <1>5 DEF Sweep, QueueInv, QueueIsAboutBornSubjects
  <2> QED BY <1>5, <2>1, ReadyQueueInv DEF Sweep
<1>6. ASSUME NEW c \in Conts, HostSubmits(c)
      PROVE  QueueInv'
  BY <1>6, ReadyQueueInv DEF HostSubmits
<1>7. CASE UNCHANGED vars
  BY <1>7 DEF vars, queueVars, stateVars, workerVars, QueueInv, TypeOK,
              QueueIsAboutBornSubjects, ClaimsHaveLeases, SnapshotsAreVersioned,
              DoneIsClosed, AppliedIsClosed, EventLogContiguous, AppliedAtMostOnce
<1> QED BY <1>1, <1>2, <1>3, <1>4, <1>5, <1>6, <1>7 DEF Next

(***************************************************************************)
(* The theorems.                                                           *)
(***************************************************************************)

(* The inductive invariant holds in every reachable state.                 *)
THEOREM QueueInvariance == Spec => []QueueInv
<1>1. Init => QueueInv
  BY InitQueueInv
<1>2. QueueInv /\ [Next]_vars => QueueInv'
  BY NextQueueInv
<1> QED BY <1>1, <1>2, PTL DEF Spec

(* The event log never has a gap or a duplicate number, whatever workers   *)
(* do to each other.                                                       *)
THEOREM EventLogIsContiguous == Spec => []EventLogContiguous
<1>1. QueueInv => EventLogContiguous
  BY DEF QueueInv
<1> QED BY <1>1, QueueInvariance, PTL

(* No subject is applied twice, unless it is sticky.                       *)
THEOREM EffectAtMostOnce == Spec => []AppliedAtMostOnce
<1>1. QueueInv => AppliedAtMostOnce
  BY DEF QueueInv
<1> QED BY <1>1, QueueInvariance, PTL

(* No open subject loses its continuation: not to a crash, a conflict, a   *)
(* stale no-op or an unconditional release.                                *)
THEOREM NoLostWork == Spec => []OpenSubjectsHaveWork
<1>1. QueueInv => OpenSubjectsHaveWork
  <2> SUFFICES ASSUME QueueInv, NEW c \in Conts, c[1] \in open \ Sticky,
                      (c[1] \in Tokens /\ c[2] = First) \/ status[c] # "ABSENT"
               PROVE  Recoverable(c)
    BY DEF OpenSubjectsHaveWork
  <2>1. status[c] # "ABSENT"
    BY DEF QueueInv, QueueIsAboutBornSubjects, Conts
  <2>2. status[c] # "DONE"
    BY DEF QueueInv, DoneIsClosed
  <2>3. status[c] \in Statuses
    BY DEF QueueInv, TypeOK
  <2> QED BY <2>1, <2>2, <2>3 DEF QueueInv, ClaimsHaveLeases, Recoverable, Statuses
<1> QED BY <1>1, QueueInvariance, PTL

(* The log is append-only and grows upwards.                               *)
THEOREM LogOnlyGrows == Spec => LogIsAppendOnly
<1> DEFINE A == /\ events \subseteq events'
                /\ \A e \in events, f \in events' \ events : e.seq < f.seq
<1>1. ASSUME QueueInv, [Next]_vars
      PROVE  A
  <2>1. CASE \E w \in Workers : Commits(w)
    <3>1. PICK w \in Workers, new \in SUBSET (Subjects \ born), done \in SUBSET Sticky,
               n \in EventCounts : Commit(w, new, done, n)
      BY <2>1 DEF Commits
    <3> DEFINE N == Numbered(lastEventSeq, n, job[w], snap[w].version + 1)
    <3>2. events' = events \cup N
      BY <3>1 DEF Commit
    <3>3. /\ n \in Nat \ {0} /\ lastEventSeq \in Nat /\ job[w] \in Conts
          /\ snap[w].version + 1 \in Nat
      BY <1>1 DEF QueueInv, TypeOK, Snapshots
    <3>4. \A f \in N : f.seq \in (lastEventSeq + 1)..(lastEventSeq + n)
      <4> DEFINE ver == snap[w].version + 1
      <4>1. ver \in Nat
        BY <3>3
      <4> HIDE DEF ver
      <4>2. \A f \in Numbered(lastEventSeq, n, job[w], ver) :
              f.seq \in (lastEventSeq + 1)..(lastEventSeq + n)
        BY <3>3, <4>1, NumberedFacts
      <4> QED BY <4>2 DEF ver
    <3>5. \A e \in events : e.seq \in 1..lastEventSeq
      BY <1>1 DEF QueueInv, EventLogContiguous
    <3> HIDE DEF N
    <3> QED BY <3>2, <3>3, <3>4, <3>5
  <2>2. CASE ~(\E w \in Workers : Commits(w))
    <3>1. events' = events
      BY <1>1, <2>2 DEF Next, WorkerStep, Claim, ReadState, MarkNoOp, Conflict, Finish,
         Fail, Release, Crash, ExpireLease, Sweep, HostSubmits, vars, stateVars
    <3> QED BY <3>1
  <2> QED BY <2>1, <2>2
<1>2. QueueInv /\ [Next]_vars => [A]_vars
  BY <1>1
<1> QED BY <1>2, QueueInvariance, PTL DEF Spec, LogIsAppendOnly

(* A commit neither reopens a closed subject nor drops one it is not about. *)
THEOREM NoUpdateIsLost == Spec => NoLostUpdate
<1> DEFINE A == /\ (born \ open) \cap open' = {}
                /\ \A s \in open \ open' :
                     s \in Sticky \/ \E e \in events' \ events : e.by[1] = s
<1>1. ASSUME QueueInv, [Next]_vars
      PROVE  A
  <2>1. CASE \E w \in Workers : Commits(w)
    <3>1. PICK w \in Workers, new \in SUBSET (Subjects \ born), done \in SUBSET Sticky,
               n \in EventCounts : Commit(w, new, done, n)
      BY <2>1 DEF Commits
    <3>2. /\ open' = Remaining(open, job[w], done) \cup new
          /\ events' = events \cup Numbered(lastEventSeq, n, job[w], version + 1)
          /\ open \subseteq born
      BY <1>1, <3>1 DEF Commit, VersionMatches, QueueInv, SnapshotsAreVersioned,
                        QueueIsAboutBornSubjects
    <3>3. ASSUME NEW s \in open \ open', s \notin Sticky
          PROVE  \E e \in events' \ events : e.by[1] = s
      <4>1. s = job[w][1]
        BY <3>2, <3>3 DEF Remaining
      <4> DEFINE e == [seq |-> lastEventSeq + 1, by |-> job[w], ver |-> version + 1]
      <4>2. n \in Nat \ {0} /\ lastEventSeq \in Nat /\ version \in Nat
        BY <1>1 DEF QueueInv, TypeOK
      <4>3. e \in Numbered(lastEventSeq, n, job[w], version + 1)
        BY <4>2 DEF Numbered
      <4>4. e \notin events
        BY <1>1, <4>2 DEF QueueInv, AppliedIsClosed
      <4> QED BY <3>2, <4>1, <4>3, <4>4
    <3> QED BY <3>2, <3>3 DEF Remaining
  <2>2. CASE ~(\E w \in Workers : Commits(w))
    <3>1. open' = open
      BY <1>1, <2>2 DEF Next, WorkerStep, Claim, ReadState, MarkNoOp, Conflict, Finish,
         Fail, Release, Crash, ExpireLease, Sweep, HostSubmits, vars, stateVars
    <3> QED BY <3>1
  <2> QED BY <2>1, <2>2
<1>2. QueueInv /\ [Next]_vars => [A]_vars
  BY <1>1
<1> QED BY <1>2, QueueInvariance, PTL DEF Spec, NoLostUpdate

(* The queue implements the atomic applier: every committed transaction is *)
(* one step of it on the current documents, every other step a stutter.    *)
THEOREM Refinement == Spec => ImplementsAtomicInstance
<1>1. Init => Atomic!Init
  BY DEF Init, Atomic!Init
<1>2. ASSUME QueueInv, [Next]_vars
      PROVE  [Atomic!Next]_Atomic!vars
  <2>1. CASE \E w \in Workers : Commits(w)
    <3>1. PICK w \in Workers, new \in SUBSET (Subjects \ born), done \in SUBSET Sticky,
               n \in EventCounts : Commit(w, new, done, n)
      BY <2>1 DEF Commits
    <3>2. /\ snap[w].version = version /\ snap[w].open = open
          /\ snap[w].lastEventSeq = lastEventSeq /\ job[w] \in Subjects \X Copies
      BY <1>2, <3>1 DEF Commit, VersionMatches, QueueInv, SnapshotsAreVersioned, TypeOK, Conts
    <3>3. Atomic!Apply(job[w], new, done, n)
      BY <3>1, <3>2 DEF Commit, Atomic!Apply, Remaining, Atomic!Remaining, Numbered,
                        Atomic!Numbered
    <3>4. \E c \in Subjects \X Copies : Atomic!Apply(c, new, done, n)
      BY <3>2, <3>3, Zenon
    <3> QED BY <3>4, Zenon DEF Atomic!Next
  <2>2. CASE ~(\E w \in Workers : Commits(w))
    BY <1>2, <2>2 DEF Next, WorkerStep, Claim, ReadState, MarkNoOp, Conflict, Finish,
       Fail, Release, Crash, ExpireLease, Sweep, HostSubmits, vars, stateVars, Atomic!vars
  <2> QED BY <2>1, <2>2
<1>3. QueueInv /\ [Next]_vars => [Atomic!Next]_Atomic!vars
  BY <1>2
<1> QED BY <1>1, <1>3, QueueInvariance, PTL DEF Spec, ImplementsAtomicInstance, Atomic!Spec
=============================================================================
