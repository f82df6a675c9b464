----------------------------- MODULE ProcessGraph -----------------------------
(***************************************************************************)
(* The normalised graph of a deployed process, as parseBpmnXml builds it   *)
(* (NormalizedGraph in src/model/types.ts, src/model/parser.ts) and as     *)
(* applyTransition reads it.                                               *)
(***************************************************************************)
EXTENDS SequencesExt

CONSTANTS
  Graph,      (* The elements of the process, in document order:           *)
              (*   nodes   the ids of its nodes                            *)
              (*   flows   the ids of its sequence flows                   *)
              (*   type    the type of each node                           *)
              (*   from, to  sourceRef and targetRef of each flow          *)
              (*   parent  the subprocess around each node                 *)
              (*   multi   the nodes with tri:multiInstanceData            *)
              (*   extended  the nodes with extension attributes           *)
  TopLevel,   (* The parent of a node that no subprocess encloses.         *)
  NoFlow      (* `undefined', where the code has it for a flow.            *)

Nodes == ToSet(Graph.nodes)
Flows == ToSet(Graph.flows)

Tasks == {"serviceTask", "userTask"}

(* The types the parser accepts and applyTransition does nothing for.      *)
Inert == {"inclusiveGateway", "intermediateCatchEvent", "intermediateThrowEvent",
          "boundaryEvent", "callActivity"}

NodeTypes == Tasks \cup Inert \cup
  {"startEvent", "endEvent", "subProcess", "exclusiveGateway", "parallelGateway"}

ASSUME GraphAssumption ==
  /\ Graph.nodes \in Seq(Nodes) /\ Graph.flows \in Seq(Flows)
  /\ Graph.type \in [Nodes -> NodeTypes]
  /\ Graph.from \in [Flows -> Nodes]
  /\ Graph.to \in [Flows -> Nodes]
  /\ Graph.parent \in [Nodes -> Nodes \cup {TopLevel}]
  /\ Graph.multi \subseteq Graph.extended
  /\ \A n \in Graph.multi : Graph.type[n] \in Tasks \cup {"subProcess"}
  /\ Graph.extended \subseteq Nodes
  /\ TopLevel \notin Nodes
  /\ NoFlow \notin Flows \cup Nodes

Type == Graph.type
To == Graph.to
Parent == Graph.parent

(* What a sequence has at these positions, in its order.                   *)
InOrder(seq, positions) ==
  [k \in 1..Cardinality(positions) |->
     seq[CHOOSE i \in positions : Cardinality({ j \in positions : j <= i }) = k]]

(* outgoingByNode, incomingByNode: in document order.                      *)
FlowsWith(end, n) ==
  InOrder(Graph.flows, { i \in DOMAIN Graph.flows : end[Graph.flows[i]] = n })

Outgoing == [n \in Nodes |-> FlowsWith(Graph.from, n)]
Incoming == [n \in Nodes |-> FlowsWith(Graph.to, n)]

StartsIn(p) ==
  InOrder(Graph.nodes, { i \in DOMAIN Graph.nodes :
    Type[Graph.nodes[i]] = "startEvent" /\ Parent[Graph.nodes[i]] = p })

(* startNodeIds, subprocessStartNodeIds.                                   *)
StartNodes == StartsIn(TopLevel)
InnerStarts == [n \in Nodes |-> StartsIn(n)]

(* `flows[0]?.id'.                                                         *)
FirstOf(flows) == IF flows = <<>> THEN NoFlow ELSE flows[1]

IsMulti(n) == n \in Graph.multi

(* A subprocess with a body, and one that points at another process.       *)
IsEmbedded(n) == Type[n] = "subProcess" /\ InnerStarts[n] # <<>>
IsExternal(n) ==
  Type[n] = "subProcess" /\ InnerStarts[n] = <<>> /\ n \in Graph.extended

(* The nodes whose token waits for the host to do work.                    *)
IsWork(n) == Type[n] \in Tasks \/ IsExternal(n)

(* Where a token can be: on a flow, or at a start event that has not run.  *)
Places == Flows \cup { n \in Nodes : Type[n] = "startEvent" }

PlaceNode(p) == IF p \in Flows THEN To[p] ELSE p
=============================================================================
