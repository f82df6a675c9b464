--------------------------- MODULE AtomicInstance ---------------------------
(***************************************************************************)
(* What a process instance promises to whoever looks at its two documents  *)
(* only: the state (ProcessInstanceState) and the event log                *)
(* (ProcessInstanceEvents).  A step applies ONE thing the instance is      *)
(* waiting for, to the state as it is now, and appends the events of that  *)
(* step to the log in the same instant.  There are no workers, leases,     *)
(* snapshots or conflicts here; ContinuationQueue implements this module.  *)
(***************************************************************************)
EXTENDS Naturals

CONSTANTS
  Subjects,   (* Everything a continuation can be about.                   *)
  Sticky,     (* The subjects that stay open when they are processed.      *)
  Copies,     (* Tells apart the continuations about one subject.          *)
  Start,      (* The subject of the START continuation.                    *)
  EventCounts (* How many events one transition may emit.                  *)

VARIABLES
  open,         (* The subjects the state document still carries.          *)
  born,         (* The subjects ever minted; a uuid is never minted twice. *)
  version,      (* state.version                                           *)
  lastEventSeq, (* state.lastEventSeq                                      *)
  events        (* The event log.                                          *)

vars == <<open, born, version, lastEventSeq, events>>

Init ==
  /\ open = {Start}
  /\ born = {Start}
  /\ version = 0
  /\ lastEventSeq = 0
  /\ events = {}

(* What is left of `before' when continuation c has been applied and has   *)
(* settled the sticky subjects `done' along the way.                       *)
Remaining(before, c, done) == before \ (done \cup ({c[1]} \ Sticky))

(* The n events of one step, numbered on from seq, each with the           *)
(* continuation it comes from and the version it leads to.                 *)
Numbered(seq, n, c, ver) ==
  { [seq |-> seq + i, by |-> c, ver |-> ver] : i \in 1..n }

(* Apply continuation c to the open subject it is about; the step opens    *)
(* the subjects `new'.                                                     *)
Apply(c, new, done, n) ==
  /\ c[1] \in open
  /\ open' = Remaining(open, c, done) \cup new
  /\ born' = born \cup new
  /\ version' = version + 1
  /\ lastEventSeq' = lastEventSeq + n
  /\ events' = events \cup Numbered(lastEventSeq, n, c, version + 1)

Next ==
  \E c \in Subjects \X Copies, new \in SUBSET (Subjects \ born),
     done \in SUBSET Sticky, n \in EventCounts :
    Apply(c, new, done, n)

Spec == Init /\ [][Next]_vars
=============================================================================
