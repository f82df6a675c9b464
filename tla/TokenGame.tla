------------------------------ MODULE TokenGame ------------------------------
(***************************************************************************)
(* What the engine promises of a deployed process: the token game of its   *)
(* graph (readme/REQUIREMENTS.md, transition semantics).  A place is a     *)
(* flow, or a start event before it has run, and holds a number of tokens. *)
(* A node fires by taking tokens from its incoming places and putting      *)
(* tokens on outgoing ones.  A task takes its token when the work is done, *)
(* an exclusive gateway when the choice is made: neither the work items    *)
(* nor the decisions, the continuations, the parked tokens or the          *)
(* multi-instance bookkeeping of TokenFlow exist here.                     *)
(*                                                                         *)
(* It is stated for graphs where a subprocess has one activation at a time.*)
(***************************************************************************)
EXTENDS ProcessGraph

VARIABLES
  started,    (* START has run.                                            *)
  marking,    (* How many tokens each place holds.                         *)
  running,    (* How many activations each embedded subprocess has.        *)
  completed   (* INSTANCE_COMPLETED has been recorded.                     *)

vars == <<started, marking, running, completed>>

Ins(n)  == ToSet(Incoming[n])
Outs(n) == ToSet(Outgoing[n])

Subs == { Parent[n] : n \in Nodes } \ {TopLevel}

(* The marking after taking one token off each place of `from' and putting *)
(* one on each place of `to'.                                              *)
Moved(m, from, to) ==
  [p \in Places |-> (m[p] - (IF p \in from THEN 1 ELSE 0))
                         + (IF p \in to THEN 1 ELSE 0)]

Holds(from) == \A p \in from : marking[p] > 0

Move(from, to) ==
  /\ started
  /\ Holds(from)
  /\ marking' = Moved(marking, from, to)
  /\ UNCHANGED started

(* Nothing is left inside subprocess n, nested subprocesses included: n is *)
(* one of some subprocesses that have all those inside them among them,    *)
(* and nothing else in them.                                               *)
Drained(n, m, r) ==
  \E S \in SUBSET Subs :
    /\ n \in S
    /\ \A k \in Subs : Parent[k] \in S => k \in S
    /\ \A p \in Places : Parent[PlaceNode(p)] \in S => m[p] = 0
    /\ \A k \in Nodes : Parent[k] \in S => r[k] = 0

Init ==
  /\ started = FALSE
  /\ marking = [p \in Places |-> 0]
  /\ running = [n \in Nodes |-> 0]
  /\ completed = FALSE

Start ==
  /\ ~started
  /\ started' = TRUE
  /\ marking' = Moved(marking, {}, ToSet(StartNodes))
  /\ UNCHANGED <<running, completed>>

StartEvent(n) ==
  /\ Type[n] = "startEvent"
  /\ Move({n}, Outs(n))
  /\ UNCHANGED <<running, completed>>

(* A task or an external subprocess that is done: `normal node -> all      *)
(* outgoing (usually one)'.                                                *)
Work(n) ==
  /\ IsWork(n)
  /\ \E f \in Ins(n) : Move({f}, Outs(n))
  /\ UNCHANGED <<running, completed>>

(* An exclusive gateway: one token in, one out along a chosen flow.        *)
Exclusive(n) ==
  /\ Type[n] = "exclusiveGateway"
  /\ \E f \in Ins(n), g \in Outs(n) : Move({f}, {g})
  /\ UNCHANGED <<running, completed>>

Fork(n) ==
  /\ Type[n] = "parallelGateway"
  /\ Cardinality(Outs(n)) > 1
  /\ \E f \in Ins(n) : Move({f}, Outs(n))
  /\ UNCHANGED <<running, completed>>

Join(n) ==
  /\ Type[n] = "parallelGateway"
  /\ Cardinality(Outs(n)) <= 1
  /\ Ins(n) # {}
  /\ Move(Ins(n), Outs(n))
  /\ UNCHANGED <<running, completed>>

EnterSubProcess(n) ==
  /\ IsEmbedded(n)
  /\ \E f \in Ins(n) : Move({f}, ToSet(InnerStarts[n]))
  /\ running' = [running EXCEPT ![n] = @ + 1]
  /\ UNCHANGED completed

(* An end event takes its token; the last token of a subprocess ends it    *)
(* and goes on after it, the last token of all completes the instance.     *)
EndEvent(n) ==
  LET sub == Parent[n] IN
  /\ Type[n] = "endEvent"
  /\ \E f \in Ins(n) :
       LET left == Moved(marking, {f}, {}) IN
       \/ /\ sub = TopLevel
          /\ Move({f}, {})
          /\ completed' = \A p \in Places : left[p] = 0
          /\ UNCHANGED running
       \/ /\ sub # TopLevel
          /\ ~Drained(sub, left, running)
          /\ Move({f}, {})
          /\ UNCHANGED <<running, completed>>
       \/ /\ sub # TopLevel
          /\ Drained(sub, left, running)
          /\ Move({f}, Outs(sub))
          /\ running' = [running EXCEPT ![sub] = @ - 1]
          /\ UNCHANGED completed

Next ==
  \/ Start
  \/ \E n \in Nodes :
       \/ StartEvent(n) \/ Work(n) \/ Exclusive(n) \/ Fork(n) \/ Join(n)
       \/ EnterSubProcess(n) \/ EndEvent(n)

Spec == Init /\ [][Next]_vars
=============================================================================
