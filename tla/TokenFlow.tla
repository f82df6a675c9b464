------------------------------ MODULE TokenFlow ------------------------------
(***************************************************************************)
(* applyTransition (src/engine/transition.ts): how the state document of   *)
(* one process instance answers the continuations of its queue, the        *)
(* answers of the host among them.                                         *)
(*                                                                         *)
(* One step applies one continuation to the state, atomically: that is     *)
(* what the queue and its workers come down to (ContinuationQueue).  The   *)
(* continuations are taken in any order, and some kinds more than once: a  *)
(* continuation whose commit took effect can go back to READY, and the     *)
(* host can submit the same answer again.                                  *)
(*                                                                         *)
(* A token is named by a number, in the order in which the ids are minted; *)
(* a scope by the token that entered its subprocess, and a work item or a  *)
(* decision by the token that waits for it: the code mints one of these    *)
(* per token.  version, lastEventSeq, and the event log are those of       *)
(* ContinuationQueue.                                                      *)
(***************************************************************************)
EXTENDS ProcessGraph

CONSTANTS
  Root,        (* The id of the root scope.                                *)
  ItemCounts,  (* How many items the host may resolve a multi-instance to. *)
  Repeatable,  (* The kinds of continuation that may be applied again.     *)
  MaxRepeats,  (* Bounds how often that happens.                           *)
  MaxTokens    (* Bounds the tokens of a behaviour, where a graph loops.   *)

Kinds == {"START", "TOKEN_AT_NODE", "WORK_COMPLETED", "DECISION_RECORDED",
          "MULTI_INSTANCE_RESOLVED"}

ASSUME BoundsAssumption ==
  /\ Root \notin Nat
  /\ ItemCounts \subseteq Nat
  /\ Repeatable \subseteq Kinds
  /\ MaxRepeats \in Nat
  /\ MaxTokens \in Nat

VARIABLES
  tokens,       (* ProcessInstanceState.tokens, by tokenId: none is ever   *)
                (* removed.                                                *)
  scopes,       (* .scopes, by scopeId.                                    *)
  workItems,    (* .waits.workItems, by the token that waits.              *)
  decisions,    (* .waits.decisions, by the token that waits.              *)
  joinArrivals, (* .joinArrivals[nodeId][scopeId]: flow -> token.          *)
  miPending,    (* .multiInstancePending[nodeId-scopeId].                  *)
  status,       (* .status.                                                *)
  completions,  (* How many INSTANCE_COMPLETED events there are.           *)
  minted,       (* History: how many token ids have been minted,           *)
  via,          (* and the place where each of those tokens was put.       *)
  ready,        (* The continuations that wait in the queue,               *)
  applied,      (* those that have been applied,                           *)
  repeats       (* and how often one of those was applied again.           *)

waitVars  == <<workItems, decisions>>
docVars   == <<tokens, scopes, waitVars, joinArrivals, miPending, status, completions>>
mintVars  == <<minted, via>>
queueVars == <<ready, applied, repeats>>
vars == <<docVars, mintVars, queueVars>>

------------------------------------------------------------------------------
(* The continuations.                                                      *)

StartCont == [kind |-> "START"]

AtNode(t, n, s, f) ==
  [kind |-> "TOKEN_AT_NODE", token |-> t, node |-> n, scope |-> s, flow |-> f]

WorkCompleted(t) == [kind |-> "WORK_COMPLETED", item |-> t]

DecisionRecorded(t, f) ==
  [kind |-> "DECISION_RECORDED", decision |-> t, flow |-> f]

(* c: the continuation that had the host asked about the items.            *)
Resolved(c, k) ==
  [kind |-> "MULTI_INSTANCE_RESOLVED", token |-> c.token, key |-> <<c.node, c.scope>>,
   items |-> k]

(* The instance has been created, it has no token and no scope.            *)
Init ==
  /\ tokens = <<>>
  /\ scopes = <<>>
  /\ workItems = <<>>
  /\ decisions = <<>>
  /\ joinArrivals = <<>>
  /\ miPending = <<>>
  /\ status = "RUNNING"
  /\ completions = 0
  /\ minted = 0
  /\ via = <<>>
  /\ ready = {StartCont}
  /\ applied = {}
  /\ repeats = 0

Again(c) == c \in applied /\ c.kind \in Repeatable /\ repeats < MaxRepeats

Due(c) == (c \in ready \/ Again(c)) /\ minted <= MaxTokens

(* Continuation c is dealt with and has inserted `new'.                    *)
Answer(c, new) ==
  /\ Due(c)
  /\ ready' = (ready \ {c}) \cup new
  /\ applied' = applied \cup {c}
  /\ repeats' = IF c \in ready THEN repeats ELSE repeats + 1

NoOp(c) == Answer(c, {}) /\ UNCHANGED <<docVars, mintVars>>

------------------------------------------------------------------------------
(* Tokens.                                                                 *)

Status(t) == tokens[t].status
IsAlive(t) == Status(t) \in {"ACTIVE", "WAITING"}
Alive == { t \in DOMAIN tokens : IsAlive(t) }

Without(f, S) == Restrict(f, DOMAIN f \ S)

(* A function with what another has besides (TLC's @@).                    *)
f ++ g == [x \in DOMAIN f \cup DOMAIN g |-> IF x \in DOMAIN f THEN f[x] ELSE g[x]]

(* Mutant: a token that is consumed stays as it was.                       *)
Bug_Set(S, s) ==
  [t \in DOMAIN tokens |->
     IF t \in S /\ s = "WAITING" THEN [tokens[t] EXCEPT !.status = s] ELSE tokens[t]]

(* The tokens, those of S with a new status.                               *)
Set(S, s) ==
  [t \in DOMAIN tokens |->
     IF t \in S THEN [tokens[t] EXCEPT !.status = s] ELSE tokens[t]]

(* The ids the next k tokens get, and the places where they are put.       *)
Fresh(k) == minted + 1 .. minted + k

Mint(places) ==
  /\ minted' = minted + Len(places)
  /\ via' = via ++ [t \in Fresh(Len(places)) |-> places[t - minted]]

NewToken(n, s, st) == [node |-> n, scope |-> s, status |-> st]

(* Mutant: one continuation, however many tokens.                          *)
Bug_SendAlong(c, before, flows, s) ==
  /\ tokens' = before ++ [t \in Fresh(Len(flows)) |->
                            NewToken(To[flows[t - minted]], s, "ACTIVE")]
  /\ Mint(flows)
  /\ Answer(c, { AtNode(t, To[flows[t - minted]], s, flows[t - minted])
                 : t \in Fresh(Len(flows)) \cap {minted + 1} })

(* A new token on each flow, in one scope, and its continuation: c is      *)
(* answered, `before' are the tokens as it leaves them.                    *)
SendAlong(c, before, flows, s) ==
  /\ tokens' = before ++ [t \in Fresh(Len(flows)) |->
                            NewToken(To[flows[t - minted]], s, "ACTIVE")]
  /\ Mint(flows)
  /\ Answer(c, { AtNode(t, To[flows[t - minted]], s, flows[t - minted])
                 : t \in Fresh(Len(flows)) })

(* `outgoing[0]', as a sequence of at most one flow.                       *)
FirstOut(n) == IF Outgoing[n] = <<>> THEN <<>> ELSE <<Outgoing[n][1]>>

(* A new token at each start event, and its continuation.  Every turn of   *)
(* the loop patches the same tokens again, so that only the last of the    *)
(* new tokens is in the document.                                          *)
PlaceAtStarts(c, before, starts, s) ==
  /\ tokens' = before ++ [t \in Fresh(Len(starts)) \cap {minted + Len(starts)} |->
                            NewToken(starts[t - minted], s, "ACTIVE")]
  /\ Mint(starts)
  /\ Answer(c, { AtNode(t, starts[t - minted], s, FirstOf(Incoming[starts[t - minted]]))
                 : t \in Fresh(Len(starts)) })

------------------------------------------------------------------------------
(* START.                                                                  *)

Start(c) ==
  /\ c.kind = "START"
  /\ IF DOMAIN tokens # {}
     THEN NoOp(c)
     ELSE /\ scopes' = scopes ++ [s \in {Root} |-> [node |-> TopLevel, parent |-> Root]]
          /\ PlaceAtStarts(c, tokens, StartNodes, Root)
          /\ UNCHANGED <<waitVars, joinArrivals, miPending, status, completions>>

------------------------------------------------------------------------------
(* TOKEN_AT_NODE: one action per type of node.                             *)

(* The token of continuation c, which is still ACTIVE, is at a node ...    *)
AtWork(c) ==
  /\ c.kind = "TOKEN_AT_NODE"
  /\ c.token \in DOMAIN tokens
  /\ Status(c.token) = "ACTIVE"

(* ... and goes on from there along these flows, in the same scope.        *)
PassOn(c, flows) ==
  /\ SendAlong(c, Set({c.token}, "CONSUMED"), flows, c.scope)
  /\ UNCHANGED <<scopes, waitVars, joinArrivals, miPending, status, completions>>

(* Nothing to do: the token has moved on, or was never in the document, or *)
(* is at a node the engine does nothing for.                               *)
NothingToDo(c) ==
  /\ c.kind = "TOKEN_AT_NODE"
  /\ \/ ~AtWork(c)
     \/ Type[c.node] \in Inert
     \/ Type[c.node] = "subProcess" /\ ~IsEmbedded(c.node) /\ ~IsExternal(c.node)
  /\ NoOp(c)

StartEvent(c) ==
  /\ AtWork(c) /\ Type[c.node] = "startEvent"
  /\ PassOn(c, Outgoing[c.node])

(* Mutant: a token that waits for the host does not count.                 *)
Bug_OthersIn(c, s) ==
  { t \in Alive \ {c.token} : tokens[t].scope = s /\ Status(t) = "ACTIVE" }

OthersIn(c, s) == { t \in Alive \ {c.token} : tokens[t].scope = s }

InSubProcess(c) == c.scope \in DOMAIN scopes /\ c.scope # Root

(* Mutant: the scope is not removed.                                       *)
Bug_EndSubProcess(c) ==
  /\ AtWork(c) /\ Type[c.node] = "endEvent"
  /\ InSubProcess(c) /\ OthersIn(c, c.scope) = {}
  /\ SendAlong(c, Set({c.token}, "CONSUMED"), FirstOut(scopes[c.scope].node),
               scopes[c.scope].parent)
  /\ UNCHANGED <<scopes, waitVars, joinArrivals, miPending, status, completions>>

(* The last token of a subprocess: its scope ends and a token goes on      *)
(* after it, in the scope around it.                                       *)
EndSubProcess(c) ==
  /\ AtWork(c) /\ Type[c.node] = "endEvent"
  /\ InSubProcess(c) /\ OthersIn(c, c.scope) = {}
  /\ scopes' = Without(scopes, {c.scope})
  /\ SendAlong(c, Set({c.token}, "CONSUMED"), FirstOut(scopes[c.scope].node),
               scopes[c.scope].parent)
  /\ UNCHANGED <<waitVars, joinArrivals, miPending, status, completions>>

EndInSubProcess(c) ==
  /\ AtWork(c) /\ Type[c.node] = "endEvent"
  /\ InSubProcess(c) /\ OthersIn(c, c.scope) # {}
  /\ PassOn(c, <<>>)

EndEvent(c) ==
  /\ AtWork(c) /\ Type[c.node] = "endEvent"
  /\ ~InSubProcess(c)
  /\ SendAlong(c, Set({c.token}, "CONSUMED"), <<>>, c.scope)
  /\ IF Alive \ {c.token} = {}
     THEN status' = "COMPLETED" /\ completions' = completions + 1
     ELSE UNCHANGED <<status, completions>>
  /\ UNCHANGED <<scopes, waitVars, joinArrivals, miPending>>

EnterSubProcess(c) ==
  /\ AtWork(c) /\ IsEmbedded(c.node)
  /\ scopes' = scopes ++ [t \in {c.token} |-> [node |-> c.node, parent |-> c.scope]]
  /\ PlaceAtStarts(c, Set({c.token}, "CONSUMED"), InnerStarts[c.node], c.token)
  /\ UNCHANGED <<waitVars, joinArrivals, miPending, status, completions>>

NotMulti == <<>>

(* A task, or an external subprocess: the token waits for its work item.   *)
CreateWorkItem(c) ==
  /\ AtWork(c) /\ IsWork(c.node) /\ ~IsMulti(c.node)
  /\ tokens' = Set({c.token}, "WAITING")
  /\ workItems' = workItems ++
       [t \in {c.token} |-> [node |-> c.node, scope |-> c.scope, multi |-> NotMulti]]
  /\ Answer(c, {})
  /\ UNCHANGED <<scopes, decisions, joinArrivals, miPending, status, completions, mintVars>>

(* The multi-instance kind of these: the token is gone, an entry takes its *)
(* place until the host has said which items there are.                    *)
AskForItems(c) ==
  /\ AtWork(c) /\ IsWork(c.node) /\ IsMulti(c.node)
  /\ tokens' = Set({c.token}, "CONSUMED")
  /\ miPending' = [key \in {<<c.node, c.scope>>} |-> [parent |-> c.token, total |-> 0, completed |-> 0]]
                    ++ miPending
  /\ Answer(c, {})
  /\ UNCHANGED <<scopes, waitVars, joinArrivals, status, completions, mintVars>>

RequestDecision(c) ==
  /\ AtWork(c) /\ Type[c.node] = "exclusiveGateway"
  /\ Len(Outgoing[c.node]) > 1
  /\ tokens' = Set({c.token}, "WAITING")
  /\ decisions' = decisions ++ [t \in {c.token} |-> [node |-> c.node, scope |-> c.scope]]
  /\ Answer(c, {})
  /\ UNCHANGED <<scopes, workItems, joinArrivals, miPending, status, completions, mintVars>>

(* A merging gateway.  The new token's continuation names the flow the     *)
(* gateway lists first among its INCOMING ones.                            *)
PassThrough(c) ==
  LET out == FirstOut(c.node) IN
  /\ AtWork(c) /\ Type[c.node] = "exclusiveGateway"
  /\ Len(Outgoing[c.node]) <= 1
  /\ tokens' = Set({c.token}, "CONSUMED") ++
                 [t \in Fresh(Len(out)) |-> NewToken(To[out[1]], c.scope, "ACTIVE")]
  /\ Mint(out)
  /\ Answer(c, { AtNode(t, To[out[1]], c.scope, FirstOf(Incoming[c.node]))
                 : t \in Fresh(Len(out)) })
  /\ UNCHANGED <<scopes, waitVars, joinArrivals, miPending, status, completions>>

Fork(c) ==
  /\ AtWork(c) /\ Type[c.node] = "parallelGateway"
  /\ Len(Outgoing[c.node]) > 1
  /\ PassOn(c, Outgoing[c.node])

(* Mutant: each arrival starts a new record of the join.                   *)
Bug_Arrived(c) == [f \in {c.flow} |-> c.token]

(* The tokens that have arrived at the join, that of c among them, by the  *)
(* flow its continuation names (it names one: only a start event is        *)
(* entered without).                                                       *)
Arrived(c) ==
  LET key == <<c.node, c.scope>> IN
  [f \in {c.flow} |-> c.token]
    ++ (IF key \in DOMAIN joinArrivals THEN joinArrivals[key] ELSE <<>>)

AtJoin(c) ==
  /\ AtWork(c) /\ Type[c.node] = "parallelGateway"
  /\ Len(Outgoing[c.node]) <= 1

AllArrived(c) == ToSet(Incoming[c.node]) \subseteq DOMAIN Arrived(c)

(* The token is parked, ACTIVE, until the others are there.                *)
Park(c) ==
  /\ AtJoin(c) /\ ~AllArrived(c)
  /\ joinArrivals' = [key \in {<<c.node, c.scope>>} |-> Arrived(c)] ++ joinArrivals
  /\ Answer(c, {})
  /\ UNCHANGED <<tokens, scopes, waitVars, miPending, status, completions, mintVars>>

(* Mutant: the arrivals stay recorded when the join has fired.             *)
Bug_Join(c) ==
  /\ AtJoin(c) /\ AllArrived(c)
  /\ joinArrivals' = [key \in {<<c.node, c.scope>>} |-> Arrived(c)] ++ joinArrivals
  /\ SendAlong(c, Set({ Arrived(c)[f] : f \in ToSet(Incoming[c.node]) }, "CONSUMED"),
               FirstOut(c.node), c.scope)
  /\ UNCHANGED <<scopes, waitVars, miPending, status, completions>>

Join(c) ==
  /\ AtJoin(c) /\ AllArrived(c)
  /\ joinArrivals' = Without(joinArrivals, {<<c.node, c.scope>>})
  /\ SendAlong(c, Set({ Arrived(c)[f] : f \in ToSet(Incoming[c.node]) }, "CONSUMED"),
               FirstOut(c.node), c.scope)
  /\ UNCHANGED <<scopes, waitVars, miPending, status, completions>>

------------------------------------------------------------------------------
(* The answers of the host.                                                *)

(* Mutant: an off-by-one, the last item only counts as well.               *)
Bug_CountsOnly(key) ==
  /\ key \in DOMAIN miPending
  /\ miPending[key].completed + 1 <= miPending[key].total

(* WORK_COMPLETED for an item of multi-instance entry `key' that is not    *)
(* the last one only counts; every other one moves on.                     *)
CountsOnly(key) ==
  /\ key \in DOMAIN miPending
  /\ miPending[key].completed + 1 < miPending[key].total

CompleteWork(c) ==
  LET item == workItems[c.item]
      key  == item.multi
  IN
  /\ c.kind = "WORK_COMPLETED"
  /\ c.item \in DOMAIN workItems
  /\ workItems' = Without(workItems, {c.item})
  /\ miPending' = IF CountsOnly(key) THEN [miPending EXCEPT ![key].completed = @ + 1]
                  ELSE Without(miPending, {key})
  /\ SendAlong(c, Set({c.item}, "CONSUMED"),
               IF CountsOnly(key) THEN <<>> ELSE FirstOut(item.node), item.scope)
  /\ UNCHANGED <<scopes, decisions, joinArrivals, status, completions>>

(* MULTI_INSTANCE_RESOLVED: one waiting token and one work item per item.  *)
(* The entry is looked up by node and scope, whichever token was asked for.*)
FanOut(c) ==
  LET n == c.key[1]
      s == c.key[2]
  IN
  /\ c.kind = "MULTI_INSTANCE_RESOLVED"
  /\ c.key \in DOMAIN miPending /\ c.items > 0
  /\ miPending' = [miPending EXCEPT ![c.key].total = c.items]
  /\ tokens' = tokens ++ [t \in Fresh(c.items) |-> NewToken(n, s, "WAITING")]
  /\ workItems' = workItems ++
       [t \in Fresh(c.items) |-> [node |-> n, scope |-> s, multi |-> c.key]]
  /\ Mint([i \in 1..c.items |-> via[miPending[c.key].parent]])
  /\ Answer(c, {})
  /\ UNCHANGED <<scopes, decisions, joinArrivals, status, completions>>

(* Mutant: the decision stays pending.                                     *)
Bug_TakeDecision(c) ==
  /\ c.kind = "DECISION_RECORDED"
  /\ c.decision \in DOMAIN decisions
  /\ SendAlong(c, Set({c.decision}, "CONSUMED"), <<c.flow>>, decisions[c.decision].scope)
  /\ UNCHANGED <<scopes, waitVars, joinArrivals, miPending, status, completions>>

(* DECISION_RECORDED: whatever flow of the graph the host has named.       *)
TakeDecision(c) ==
  /\ c.kind = "DECISION_RECORDED"
  /\ c.decision \in DOMAIN decisions
  /\ decisions' = Without(decisions, {c.decision})
  /\ SendAlong(c, Set({c.decision}, "CONSUMED"), <<c.flow>>, decisions[c.decision].scope)
  /\ UNCHANGED <<scopes, workItems, joinArrivals, miPending, status, completions>>

(* Mutant: a node is asked about once per scope, as the idempotencyKey of   *)
(* its callback says: the answer in a second round is too late as well.    *)
Bug_TooLate(c) ==
  /\ \/ c.kind = "WORK_COMPLETED" /\ c.item \notin DOMAIN workItems
     \/ c.kind = "MULTI_INSTANCE_RESOLVED"
          /\ \E d \in applied : d.kind = c.kind /\ d.key = c.key
     \/ c.kind = "DECISION_RECORDED" /\ c.decision \notin DOMAIN decisions
  /\ NoOp(c)

TooLate(c) ==
  /\ \/ c.kind = "WORK_COMPLETED" /\ c.item \notin DOMAIN workItems
     \/ c.kind = "MULTI_INSTANCE_RESOLVED"
          /\ (c.key \notin DOMAIN miPending \/ c.items = 0)
     \/ c.kind = "DECISION_RECORDED" /\ c.decision \notin DOMAIN decisions
  /\ NoOp(c)

(* The CALLBACK_MULTI_INSTANCE_RESOLVE there have been, by what caused     *)
(* them: one for each token that came to the node, in whatever round, and  *)
(* answered whenever the host gets round to it.                            *)
Asked ==
  { c \in applied : c.kind = "TOKEN_AT_NODE" /\ IsWork(c.node) /\ IsMulti(c.node) }

(* The host answers what a callback has asked for: completeWorkItem,       *)
(* submitDecision with a flow it was offered, submitMultiInstanceData.  It *)
(* answers a callback whose kind is not Repeatable once.                   *)
Answers ==
  { WorkCompleted(t) : t \in DOMAIN workItems }
  \cup { Resolved(c, k) : c \in Asked, k \in ItemCounts }
  \cup UNION { { DecisionRecorded(t, f) : f \in ToSet(Outgoing[decisions[t].node]) }
               : t \in DOMAIN decisions }

SameQuestion(c, d) ==
  /\ c.kind = d.kind
  /\ c.kind = "DECISION_RECORDED" => c.decision = d.decision
  /\ c.kind = "MULTI_INSTANCE_RESOLVED" => c.token = d.token
  /\ c.kind = "WORK_COMPLETED" => c.item = d.item

HostAnswers(c) ==
  /\ c \in Answers \ (ready \cup applied)
  /\ c.kind \in Repeatable \/ \A d \in ready \cup applied : ~SameQuestion(c, d)
  /\ ready' = ready \cup {c}
  /\ UNCHANGED <<docVars, mintVars, applied, repeats>>

ApplyTransition(c) ==
  \/ Start(c)
  \/ NothingToDo(c) \/ StartEvent(c)
  \/ EndSubProcess(c) \/ EndInSubProcess(c) \/ EndEvent(c)
  \/ EnterSubProcess(c) \/ CreateWorkItem(c) \/ AskForItems(c)
  \/ RequestDecision(c) \/ PassThrough(c)
  \/ Fork(c) \/ Park(c) \/ Join(c)
  \/ CompleteWork(c) \/ FanOut(c) \/ TakeDecision(c) \/ TooLate(c)

Next ==
  \/ \E c \in ready \cup applied : ApplyTransition(c)
  \/ \E c \in Answers : HostAnswers(c)

Spec == Init /\ [][Next]_vars

------------------------------------------------------------------------------
(* Properties.                                                             *)

TokenIds == 1..minted
ScopeIds == TokenIds \cup {Root}

Continuations ==
  {StartCont}
  \cup [kind : {"TOKEN_AT_NODE"}, token : TokenIds, node : Nodes, scope : ScopeIds,
        flow : Flows \cup {NoFlow}]
  \cup [kind : {"WORK_COMPLETED"}, item : TokenIds]
  \cup [kind : {"DECISION_RECORDED"}, decision : TokenIds, flow : Flows]
  \cup [kind : {"MULTI_INSTANCE_RESOLVED"}, token : TokenIds, key : Nodes \X ScopeIds,
        items : ItemCounts]

TypeOK ==
  /\ DOMAIN tokens \subseteq TokenIds
  /\ tokens \in [DOMAIN tokens -> [node : Nodes, scope : ScopeIds,
                                   status : {"ACTIVE", "WAITING", "CONSUMED"}]]
  /\ DOMAIN scopes \subseteq ScopeIds
  /\ scopes \in [DOMAIN scopes -> [node : Nodes \cup {TopLevel}, parent : ScopeIds]]
  /\ DOMAIN workItems \subseteq DOMAIN tokens
  /\ workItems \in [DOMAIN workItems -> [node : Nodes, scope : ScopeIds,
                                         multi : {NotMulti} \cup (Nodes \X ScopeIds)]]
  /\ DOMAIN decisions \subseteq DOMAIN tokens
  /\ decisions \in [DOMAIN decisions -> [node : Nodes, scope : ScopeIds]]
  /\ DOMAIN joinArrivals \subseteq Nodes \X ScopeIds
  /\ \A key \in DOMAIN joinArrivals :
       /\ DOMAIN joinArrivals[key] \subseteq Flows
       /\ Range(joinArrivals[key]) \subseteq DOMAIN tokens
  /\ DOMAIN miPending \subseteq Nodes \X ScopeIds
  /\ miPending \in [DOMAIN miPending -> [parent : TokenIds, total : Nat, completed : Nat]]
  /\ status \in {"RUNNING", "COMPLETED"}
  /\ completions \in Nat
  /\ minted \in Nat
  /\ via \in [TokenIds -> Places]
  /\ ready \subseteq Continuations
  /\ applied \subseteq Continuations
  /\ repeats \in 0..MaxRepeats

(* No token is left behind: one that is ACTIVE has its continuation in the *)
(* queue, or is parked where the join that needs it will find it.          *)
HasWork(t) ==
  \E c \in ready : /\ c.kind = "TOKEN_AT_NODE"
                   /\ c.token = t
                   /\ c.node = tokens[t].node
                   /\ c.scope = tokens[t].scope

IsParked(t) ==
  LET key == <<tokens[t].node, tokens[t].scope>> IN
  /\ key \in DOMAIN joinArrivals
  /\ via[t] \in DOMAIN joinArrivals[key]
  /\ joinArrivals[key][via[t]] = t

ActiveTokensMove ==
  TypeOK /\ \A t \in DOMAIN tokens : Status(t) = "ACTIVE" => HasWork(t) \/ IsParked(t)

(* The tokens that wait are exactly those some work item or decision will  *)
(* release, and it is about the node and scope they are in: neither can a  *)
(* token wait for ever, nor an answer of the host move a token twice.      *)
WaitsMatchTokens ==
  /\ { t \in DOMAIN tokens : Status(t) = "WAITING" } = DOMAIN workItems \cup DOMAIN decisions
  /\ DOMAIN workItems \cap DOMAIN decisions = {}
  /\ \A t \in DOMAIN workItems :
       workItems[t].node = tokens[t].node /\ workItems[t].scope = tokens[t].scope
  /\ \A t \in DOMAIN decisions :
       decisions[t].node = tokens[t].node /\ decisions[t].scope = tokens[t].scope

(* What a join has recorded are ACTIVE tokens at that join and in that     *)
(* scope, each under an incoming flow of the join and under only one.      *)
JoinsHoldTheirTokens ==
  \A key \in DOMAIN joinArrivals :
    /\ DOMAIN joinArrivals[key] \subseteq ToSet(Incoming[key[1]])
    /\ IsInjective(joinArrivals[key])
    /\ \A t \in Range(joinArrivals[key]) :
         tokens[t] = NewToken(key[1], key[2], "ACTIVE")

(* A scope lasts as long as a token is in it, and as a scope inside it.    *)
LiveTokensHaveScopes ==
  /\ \A t \in Alive : tokens[t].scope \in DOMAIN scopes
  /\ \A s \in DOMAIN scopes : scopes[s].parent \in DOMAIN scopes

(* The counters of an entry agree with the work items that are open, no    *)
(* item outlives its entry, and the entry goes with the last item.         *)
CountsMatchItems ==
  /\ \A key \in DOMAIN miPending :
       miPending[key].total > 0 => miPending[key].completed < miPending[key].total
  /\ \A key \in DOMAIN miPending :
       Cardinality({ t \in DOMAIN workItems : workItems[t].multi = key })
         = miPending[key].total - miPending[key].completed
  /\ \A t \in DOMAIN workItems :
       workItems[t].multi \in {NotMulti} \cup DOMAIN miPending

(* The answer about the items of a token is not lost on the way: once it   *)
(* has been applied, the entry that took the token's place has its items,  *)
(* in whatever round, though the entry is named by node and scope alone.   *)
AnswersTakeEffect ==
  \A c \in applied, key \in DOMAIN miPending :
    c.kind = "MULTI_INSTANCE_RESOLVED" /\ c.items > 0 /\ c.key = key
    /\ miPending[key].parent = c.token => miPending[key].total > 0

(* A multi-instance node has as many items as the host has said, in every  *)
(* round, and is left with the last of them: neither does the process move *)
(* on early, nor twice, nor never.                                         *)
MultiInstanceCount == CountsMatchItems /\ AnswersTakeEffect

(* An instance that is COMPLETED has nothing left to do, and was completed *)
(* once.                                                                   *)
CompletedMeansNothingLeft ==
  /\ completions = IF status = "COMPLETED" THEN 1 ELSE 0
  /\ status = "COMPLETED" =>
       /\ Alive = {}
       /\ DOMAIN workItems = {} /\ DOMAIN decisions = {} /\ DOMAIN miPending = {}
       /\ DOMAIN scopes = {Root}

(* And one that has nothing left to do is COMPLETED: no way through the    *)
(* graph ends in an instance that neither runs nor is done.                *)
StallsOnlyWhenCompleted ==
  ready = {} /\ DOMAIN workItems = {} /\ DOMAIN decisions = {} /\ DOMAIN miPending = {}
    => status = "COMPLETED"

(* The token game: a token of the game is one that is alive, but for those *)
(* that stand for the items of a multi-instance node, which share the one  *)
(* its entry stands for.                                                   *)
IsItem(t) == t \in DOMAIN workItems /\ workItems[t].multi # NotMulti

Marking ==
  [p \in Places |->
     Cardinality({ t \in Alive : via[t] = p /\ ~IsItem(t) })
     + Cardinality({ key \in DOMAIN miPending : via[miPending[key].parent] = p })]

Game == INSTANCE TokenGame WITH
  started   <- Root \in DOMAIN scopes,
  marking   <- Marking,
  running   <- [n \in Nodes |-> Cardinality({ s \in DOMAIN scopes : scopes[s].node = n })],
  completed <- status = "COMPLETED"

(* Every transition is one move of the token game of the graph, or none.   *)
ImplementsTokenGame == Game!Spec
=============================================================================
