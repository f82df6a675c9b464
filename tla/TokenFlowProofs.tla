--------------------------- MODULE TokenFlowProofs ---------------------------
(***************************************************************************)
(* What holds of the token game of applyTransition for every graph, any    *)
(* answers of the host and any number of repeated continuations.           *)
(***************************************************************************)
EXTENDS TokenFlow, FiniteSetTheorems, SequenceTheorems, WellFoundedInduction,
        TLAPS

------------------------------------------------------------------------------
(* The graph: what InOrder picks.                                          *)

LEMMA InOrderPicks ==
  ASSUME NEW A, NEW seq \in Seq(A), NEW P \in SUBSET DOMAIN seq
  PROVE  /\ IsFiniteSet(P) /\ Cardinality(P) \in Nat
         /\ DOMAIN InOrder(seq, P) = 1..Cardinality(P)
         /\ \A k \in 1..Cardinality(P) : \E i \in P : InOrder(seq, P)[k] = seq[i]
         /\ \A i \in P : \E k \in 1..Cardinality(P) : InOrder(seq, P)[k] = seq[i]
<1> DEFINE upTo(i) == { j \in P : j <= i }
           rank == [i \in P |-> Cardinality(upTo(i))]
           N == Cardinality(P)
<1>1. /\ IsFiniteSet(P) /\ N \in Nat
      /\ \A i \in P : i \in Int
  <2>1. DOMAIN seq = 1..Len(seq) /\ Len(seq) \in Nat
    OBVIOUS
  <2>2. IsFiniteSet(DOMAIN seq)
    BY <2>1, FS_Interval
  <2> QED BY <2>1, <2>2, FS_Subset, FS_CardinalityType
<1>2. \A i \in P : IsFiniteSet(upTo(i)) /\ rank[i] \in 1..N
  <2> SUFFICES ASSUME NEW i \in P PROVE IsFiniteSet(upTo(i)) /\ rank[i] \in 1..N
    OBVIOUS
  <2>1. upTo(i) \in SUBSET P /\ i \in upTo(i)
    BY <1>1
  <2>2. IsFiniteSet(upTo(i)) /\ Cardinality(upTo(i)) <= N
    BY <1>1, <2>1, FS_Subset
  <2>3. Cardinality(upTo(i)) \in Nat
    BY <2>2, FS_CardinalityType
  <2>4. Cardinality(upTo(i)) # 0
    BY <2>1, <2>2, FS_EmptySet
  <2> QED BY <1>1, <2>2, <2>3, <2>4
<1>3. \A i, j \in P : i < j => rank[i] # rank[j]
  <2> SUFFICES ASSUME NEW i \in P, NEW j \in P, i < j PROVE rank[i] # rank[j]
    OBVIOUS
  <2>1. upTo(i) \in SUBSET upTo(j) /\ j \in upTo(j) /\ j \notin upTo(i)
    BY <1>1
  <2>2. IsFiniteSet(upTo(j))
    BY <1>2
  <2>3. upTo(i) # upTo(j)
    BY <2>1
  <2>4. Cardinality(upTo(j)) # Cardinality(upTo(i))
    BY <2>1, <2>2, <2>3, FS_Subset
  <2> QED BY <2>4
<1>4. \A i, j \in P : rank[i] = rank[j] => i = j
  <2>1. \A i, j \in P : i < j \/ j < i \/ i = j
    BY <1>1
  <2> QED BY <1>3, <2>1
<1> HIDE DEF rank
<1>5. rank \in Injection(P, 1..N)
  <2>1. rank \in [P -> 1..N]
    BY <1>2 DEF rank
  <2>2. IsInjective(rank)
    BY <1>4, <2>1 DEF IsInjective
  <2> QED BY <2>1, <2>2 DEF Injection
<1>6. rank \in Surjection(P, 1..N)
  <2>1. IsFiniteSet(1..N) /\ Cardinality(1..N) = N
    BY <1>1, FS_Interval
  <2> QED BY <1>5, <2>1, FS_Injection
<1> DEFINE at(k) == CHOOSE i \in P : Cardinality({ j \in P : j <= i }) = k
<1>7. \A k \in 1..N : at(k) \in P /\ rank[at(k)] = k
  <2> SUFFICES ASSUME NEW k \in 1..N PROVE at(k) \in P /\ rank[at(k)] = k
    OBVIOUS
  <2>1. \E i \in P : rank[i] = k
    BY <1>6 DEF Surjection
  <2>2. \E i \in P : Cardinality({ j \in P : j <= i }) = k
    BY <2>1 DEF rank
  <2>3. at(k) \in P /\ Cardinality({ j \in P : j <= at(k) }) = k
    BY <2>2
  <2> QED BY <2>3 DEF rank
<1>8. InOrder(seq, P) = [k \in 1..N |-> seq[at(k)]]
  BY DEF InOrder
<1> HIDE DEF at, N
<1>9. \A i \in P : rank[i] \in 1..N /\ at(rank[i]) = i
  BY <1>2, <1>4, <1>7
<1> QED BY <1>1, <1>7, <1>8, <1>9 DEF N

LEMMA InOrderSeq ==
  ASSUME NEW A, NEW seq \in Seq(A), NEW P \in SUBSET DOMAIN seq
  PROVE  LET picked == InOrder(seq, P) IN
         /\ picked \in Seq({ seq[i] : i \in P }) /\ Len(picked) = Cardinality(P)
         /\ ToSet(picked) = { seq[i] : i \in P }
<1> DEFINE picked == InOrder(seq, P)
           N == Cardinality(P)
<1>1. /\ N \in Nat /\ DOMAIN picked = 1..N
      /\ \A k \in 1..N : \E i \in P : picked[k] = seq[i]
      /\ \A i \in P : \E k \in 1..N : picked[k] = seq[i]
  BY InOrderPicks
<1>2. picked = [k \in 1..N |-> picked[k]]
  BY DEF InOrder
<1> HIDE DEF picked, N
<1>3. picked \in [1..N -> { seq[i] : i \in P }]
  BY <1>1, <1>2
<1>4. picked \in Seq({ seq[i] : i \in P }) /\ Len(picked) = N
  BY <1>1, <1>3
<1>5. ToSet(picked) = { seq[i] : i \in P }
  <2>1. ToSet(picked) = { picked[k] : k \in 1..N }
    BY <1>1 DEF ToSet
  <2> QED BY <1>1, <2>1
<1> QED BY <1>4, <1>5 DEF picked, N

LEMMA FlowsOfNodes ==
  \A n \in Nodes :
    /\ Outgoing[n] \in Seq(Flows) /\ ToSet(Outgoing[n]) = { f \in Flows : Graph.from[f] = n }
    /\ Incoming[n] \in Seq(Flows) /\ ToSet(Incoming[n]) = { f \in Flows : To[f] = n }
<1> DEFINE At(end, n) == { i \in DOMAIN Graph.flows : end[Graph.flows[i]] = n }
           picked(end, n) == { Graph.flows[i] : i \in At(end, n) }
<1>1. ASSUME NEW end, NEW n
      PROVE  /\ FlowsWith(end, n) \in Seq(Flows)
             /\ ToSet(FlowsWith(end, n)) = { f \in Flows : end[f] = n }
  <2>1. Graph.flows \in Seq(Flows) /\ At(end, n) \in SUBSET DOMAIN Graph.flows
    BY GraphAssumption
  <2>2. picked(end, n) = { f \in Flows : end[f] = n }
    BY DEF Flows, ToSet
  <2> HIDE DEF At
  <2>3. /\ InOrder(Graph.flows, At(end, n)) \in Seq(picked(end, n))
        /\ ToSet(InOrder(Graph.flows, At(end, n))) = picked(end, n)
    BY <2>1, InOrderSeq
  <2>4. FlowsWith(end, n) = InOrder(Graph.flows, At(end, n))
    BY DEF FlowsWith, At
  <2> HIDE DEF picked
  <2>5. FlowsWith(end, n) \in Seq(Flows)
    <3>1. picked(end, n) \subseteq Flows
      BY <2>2
    <3> QED BY <2>3, <2>4, <3>1, SeqMonotonic
  <2> QED BY <2>2, <2>3, <2>4, <2>5
<1> QED BY <1>1 DEF Outgoing, Incoming, To

LEMMA StartsOfScopes ==
  ASSUME NEW p
  PROVE  StartsIn(p) \in Seq({ n \in Nodes : Type[n] = "startEvent" /\ Parent[n] = p })
<1> DEFINE P == { i \in DOMAIN Graph.nodes :
                    Type[Graph.nodes[i]] = "startEvent" /\ Parent[Graph.nodes[i]] = p }
<1>1. Graph.nodes \in Seq(Nodes) /\ P \in SUBSET DOMAIN Graph.nodes
  BY GraphAssumption
<1>2. { Graph.nodes[i] : i \in P } \subseteq { n \in Nodes : Type[n] = "startEvent" /\ Parent[n] = p }
  BY DEF Nodes, ToSet
<1>3. StartsIn(p) = InOrder(Graph.nodes, P)
  BY DEF StartsIn
<1> HIDE DEF P
<1>4. InOrder(Graph.nodes, P) \in Seq({ Graph.nodes[i] : i \in P })
  BY <1>1, InOrderSeq
<1> QED BY <1>2, <1>3, <1>4, SeqMonotonic

(* The same facts in the form in which they are used.                      *)
Starts == { n \in Nodes : Type[n] = "startEvent" }

LEMMA GraphFacts ==
  /\ StartNodes \in Seq(Starts) /\ \A n \in Nodes : InnerStarts[n] \in Seq(Starts)
  /\ \A n \in Nodes : /\ Outgoing[n] \in Seq(Flows) /\ FirstOut(n) \in Seq(Flows)
                      /\ \A f \in ToSet(Outgoing[n]) : f \in Flows
                      /\ FirstOf(Incoming[n]) \in Flows \cup {NoFlow}
                      /\ Incoming[n] # <<>> => FirstOf(Incoming[n]) \in Flows
                      /\ Type[n] \in NodeTypes
  /\ \A f \in Flows : To[f] \in Nodes /\ Incoming[To[f]] # <<>>
  /\ NoFlow \notin Flows /\ TopLevel \notin Nodes
  /\ Flows \subseteq Places /\ Starts \subseteq Places
<1>1. StartNodes \in Seq(Starts) /\ \A n \in Nodes : InnerStarts[n] \in Seq(Starts)
  <2>1. \A p : { n \in Nodes : Type[n] = "startEvent" /\ Parent[n] = p } \subseteq Starts
    BY DEF Starts
  <2>2. \A p : StartsIn(p) \in Seq(Starts)
    BY <2>1, StartsOfScopes, SeqMonotonic
  <2> QED BY <2>2 DEF StartNodes, InnerStarts
<1>2. \A n \in Nodes : Outgoing[n] \in Seq(Flows) /\ FirstOut(n) \in Seq(Flows)
  BY FlowsOfNodes DEF FirstOut
<1>3. \A n \in Nodes : \A f \in ToSet(Outgoing[n]) : f \in Flows
  BY FlowsOfNodes
<1>4. \A n \in Nodes : /\ FirstOf(Incoming[n]) \in Flows \cup {NoFlow}
                       /\ Incoming[n] # <<>> => FirstOf(Incoming[n]) \in Flows
  BY FlowsOfNodes DEF FirstOf
<1>5. \A f \in Flows : To[f] \in Nodes
  BY GraphAssumption DEF To
<1>6. \A f \in Flows : Incoming[To[f]] # <<>>
  <2> SUFFICES ASSUME NEW f \in Flows, Incoming[To[f]] = <<>> PROVE FALSE
    OBVIOUS
  <2>1. f \in ToSet(Incoming[To[f]])
    BY <1>5, FlowsOfNodes
  <2>2. ToSet(<<>>) = {}
    BY DEF ToSet
  <2> QED BY <2>1, <2>2
<1>7. NoFlow \notin Flows /\ TopLevel \notin Nodes /\ \A n \in Nodes : Type[n] \in NodeTypes
  BY GraphAssumption DEF Type
<1>8. Flows \subseteq Places /\ Starts \subseteq Places
  BY DEF Places, Starts
<1> QED BY <1>1, <1>2, <1>3, <1>4, <1>5, <1>6, <1>7, <1>8

------------------------------------------------------------------------------
(* The invariant.                                                          *)

ScopesUpTo(m) == 1..m \cup {Root}
Statuses      == {"ACTIVE", "WAITING", "CONSUMED"}
Tokens(m)     == [node : Nodes, scope : ScopesUpTo(m), status : Statuses]
Work(m)       == [node : Nodes, scope : ScopesUpTo(m), multi : {NotMulti} \cup (Nodes \X ScopesUpTo(m))]

ContinuationsUpTo(m) ==
  {StartCont}
  \cup [kind : {"TOKEN_AT_NODE"}, token : 1..m, node : Nodes, scope : ScopesUpTo(m),
        flow : Flows \cup {NoFlow}]
  \cup [kind : {"WORK_COMPLETED"}, item : 1..m]
  \cup [kind : {"DECISION_RECORDED"}, decision : 1..m, flow : Flows]
  \cup [kind : {"MULTI_INSTANCE_RESOLVED"}, token : 1..m, key : Nodes \X ScopesUpTo(m),
        items : ItemCounts]

(* The types, part by part.                                                *)
TokensTyped ==
  /\ minted \in Nat
  /\ DOMAIN tokens \subseteq 1..minted
  /\ tokens \in [DOMAIN tokens -> Tokens(minted)]
  /\ via \in [1..minted -> Places]

QueueTyped ==
  /\ ready \subseteq ContinuationsUpTo(minted)
  /\ applied \subseteq ContinuationsUpTo(minted)
  /\ repeats \in 0..MaxRepeats

ScopesTyped ==
  /\ DOMAIN scopes \subseteq ScopesUpTo(minted)
  /\ scopes \in [DOMAIN scopes -> [node : Nodes \cup {TopLevel}, parent : ScopesUpTo(minted)]]

WaitsTyped ==
  /\ DOMAIN workItems \subseteq DOMAIN tokens
  /\ workItems \in [DOMAIN workItems -> Work(minted)]
  /\ DOMAIN decisions \subseteq DOMAIN tokens
  /\ decisions \in [DOMAIN decisions -> [node : Nodes, scope : ScopesUpTo(minted)]]

JoinsTyped ==
  /\ DOMAIN joinArrivals \subseteq Nodes \X ScopesUpTo(minted)
  /\ \A key \in DOMAIN joinArrivals :
       /\ DOMAIN joinArrivals[key] \subseteq Flows
       /\ \A f \in DOMAIN joinArrivals[key] : joinArrivals[key][f] \in DOMAIN tokens

EntriesTyped ==
  /\ DOMAIN miPending \subseteq Nodes \X ScopesUpTo(minted)
  /\ miPending \in [DOMAIN miPending -> [parent : 1..minted, total : Nat, completed : Nat]]

StatusTyped == status \in {"RUNNING", "COMPLETED"} /\ completions \in Nat

(* Every scope but the root one is that of a subprocess node.              *)
ScopesHaveNodes == \A s \in DOMAIN scopes : s # Root => scopes[s].node \in Nodes

(* A continuation names the token it is about as the document has it, and  *)
(* a flow unless it is for a start event; no other is about that token.    *)
AtNodes == { c \in ready \cup applied : c.kind = "TOKEN_AT_NODE" }

Named(c) ==
  /\ c.token \in DOMAIN tokens => tokens[c.token].node = c.node /\ tokens[c.token].scope = c.scope
  /\ Type[c.node] # "startEvent" => c.flow \in Flows /\ Incoming[c.node] # <<>>

NamesAgree ==
  /\ \A c \in AtNodes : Named(c)
  /\ \A c, d \in AtNodes : c.token = d.token => c = d

(* What a join has recorded is parked there, under the flow it came by.    *)
IsJoin(n) == Type[n] = "parallelGateway" /\ Len(Outgoing[n]) <= 1

ParkedAt(key, f, t) ==
  /\ tokens[t].node = key[1] /\ tokens[t].scope = key[2] /\ Status(t) = "ACTIVE"
  /\ \E c \in applied : c.kind = "TOKEN_AT_NODE" /\ c.token = t /\ c.flow = f

JoinsHoldParked ==
  \A key \in DOMAIN joinArrivals :
    /\ IsJoin(key[1])
    /\ \A f \in DOMAIN joinArrivals[key] : ParkedAt(key, f, joinArrivals[key][f])

IInv ==
  /\ TokensTyped /\ QueueTyped /\ ScopesTyped /\ WaitsTyped /\ JoinsTyped /\ EntriesTyped
  /\ StatusTyped /\ ScopesHaveNodes /\ NamesAgree /\ WaitsMatchTokens /\ JoinsHoldParked

LEMMA TypesAreParts ==
  TypeOK <=> /\ TokensTyped /\ QueueTyped /\ ScopesTyped /\ WaitsTyped /\ JoinsTyped
             /\ EntriesTyped /\ StatusTyped
BY DEF TypeOK, TokensTyped, QueueTyped, ScopesTyped, WaitsTyped, JoinsTyped, EntriesTyped,
       StatusTyped, TokenIds, ScopeIds, ScopesUpTo, Statuses, Tokens, Work, Continuations,
       ContinuationsUpTo, Range

LEMMA KindsOfContinuations ==
  ASSUME NEW m \in Nat, NEW c \in ContinuationsUpTo(m)
  PROVE  /\ c.kind = "START" => c = StartCont
         /\ c.kind = "TOKEN_AT_NODE" => /\ c.token \in 1..m /\ c.node \in Nodes
                                        /\ c.scope \in ScopesUpTo(m) /\ c.flow \in Flows \cup {NoFlow}
         /\ c.kind = "WORK_COMPLETED" => c.item \in 1..m
         /\ c.kind = "DECISION_RECORDED" => c.decision \in 1..m /\ c.flow \in Flows
         /\ c.kind = "MULTI_INSTANCE_RESOLVED" => /\ c.token \in 1..m /\ c.key \in Nodes \X ScopesUpTo(m)
                                                  /\ c.items \in ItemCounts
BY DEF ContinuationsUpTo, StartCont

LEMMA NewContinuation ==
  ASSUME NEW m \in Nat, NEW t \in 1..m, NEW n \in Nodes, NEW s \in ScopesUpTo(m), NEW f \in Flows \cup {NoFlow}
  PROVE  /\ AtNode(t, n, s, f) \in ContinuationsUpTo(m) /\ AtNode(t, n, s, f).kind = "TOKEN_AT_NODE"
         /\ AtNode(t, n, s, f).token = t /\ AtNode(t, n, s, f).node = n
         /\ AtNode(t, n, s, f).scope = s /\ AtNode(t, n, s, f).flow = f
BY DEF ContinuationsUpTo, AtNode

LEMMA IdsGrow ==
  ASSUME NEW m \in Nat, NEW k \in Nat, m <= k
  PROVE  /\ 1..m \subseteq 1..k /\ ScopesUpTo(m) \subseteq ScopesUpTo(k)
         /\ ContinuationsUpTo(m) \subseteq ContinuationsUpTo(k)
<1>1. 1..m \subseteq 1..k
  OBVIOUS
<1>2. ScopesUpTo(m) \subseteq ScopesUpTo(k)
  BY <1>1 DEF ScopesUpTo
<1> HIDE DEF ScopesUpTo
<1>3. ContinuationsUpTo(m) \subseteq ContinuationsUpTo(k)
  BY <1>1, <1>2 DEF ContinuationsUpTo
<1> QED BY <1>1, <1>2, <1>3

------------------------------------------------------------------------------
(* What a step does to the tokens: those of S get a status, N is new.      *)

Moved(S, st, N) ==
  /\ minted' \in Nat /\ minted <= minted' /\ N \subseteq minted + 1 .. minted'
  /\ DOMAIN tokens' = DOMAIN tokens \cup N
  /\ \A t \in DOMAIN tokens :
       /\ tokens'[t].node = tokens[t].node /\ tokens'[t].scope = tokens[t].scope
       /\ tokens'[t].status = IF t \in S THEN st ELSE tokens[t].status

LEMMA SetTokens ==
  ASSUME TokensTyped, NEW S, NEW st \in Statuses
  PROVE  /\ DOMAIN Set(S, st) = DOMAIN tokens
         /\ \A t \in DOMAIN tokens :
              /\ Set(S, st)[t] \in Tokens(minted)
              /\ Set(S, st)[t].node = tokens[t].node /\ Set(S, st)[t].scope = tokens[t].scope
              /\ Set(S, st)[t].status = IF t \in S THEN st ELSE tokens[t].status
<1>1. \A t \in DOMAIN tokens : tokens[t] \in Tokens(minted)
  BY DEF TokensTyped
<1>2. DOMAIN Set(S, st) = DOMAIN tokens
  BY DEF Set
<1>3. \A t \in DOMAIN tokens : Set(S, st)[t] = IF t \in S THEN [tokens[t] EXCEPT !.status = st] ELSE tokens[t]
  BY DEF Set
<1>4. \A r \in Tokens(minted) : /\ [r EXCEPT !.status = st] \in Tokens(minted)
                                /\ [r EXCEPT !.status = st].node = r.node
                                /\ [r EXCEPT !.status = st].scope = r.scope
                                /\ [r EXCEPT !.status = st].status = st
  BY DEF Tokens
<1> HIDE DEF Set, Tokens
<1> QED BY <1>1, <1>2, <1>3, <1>4

LEMMA MintGrows ==
  ASSUME TokensTyped, NEW places \in Seq(Places), Mint(places)
  PROVE  /\ minted' = minted + Len(places) /\ minted' \in Nat /\ minted <= minted'
         /\ Fresh(Len(places)) = minted + 1 .. minted' /\ Len(places) \in Nat
         /\ via' \in [1..minted' -> Places]
         /\ \A t \in 1..minted : via'[t] = via[t]
         /\ \A t \in Fresh(Len(places)) : via'[t] = places[t - minted] /\ t - minted \in DOMAIN places
<1>1. /\ minted \in Nat /\ Len(places) \in Nat /\ DOMAIN places = 1..Len(places)
      /\ minted' = minted + Len(places) /\ via \in [1..minted -> Places]
      /\ \A i \in 1..Len(places) : places[i] \in Places
  BY DEF Mint, TokensTyped
<1> DEFINE F == Fresh(Len(places))
           g == [t \in F |-> places[t - minted]]
<1>2. F = minted + 1 .. minted' /\ \A t \in F : t - minted \in 1..Len(places)
  BY <1>1 DEF Fresh
<1>3. 1..minted' = (1..minted) \cup F
  BY <1>1, <1>2
<1>4. via' = [t \in (1..minted) \cup F |-> IF t \in 1..minted THEN via[t] ELSE g[t]]
  BY <1>1 DEF Mint, ++
<1>5. \A t \in F : t \notin 1..minted /\ g[t] = places[t - minted] /\ g[t] \in Places
  BY <1>1, <1>2
<1> HIDE DEF F, g
<1>6. via' \in [1..minted' -> Places]
  <2>1. \A t \in (1..minted) \cup F : (IF t \in 1..minted THEN via[t] ELSE g[t]) \in Places
    BY <1>1, <1>5
  <2>2. via' \in [(1..minted) \cup F -> Places]
    BY <1>4, <2>1
  <2> QED BY <1>3, <2>2
<1>7. \A t \in 1..minted : via'[t] = via[t]
  BY <1>4
<1>8. \A t \in F : via'[t] = places[t - minted] /\ t - minted \in DOMAIN places
  BY <1>1, <1>2, <1>4, <1>5
<1> QED BY <1>1, <1>2, <1>6, <1>7, <1>8 DEF F

LEMMA TokensStep ==
  ASSUME TokensTyped, NEW S, NEW st \in Statuses, NEW places \in Seq(Places), Mint(places),
         NEW N \in SUBSET Fresh(Len(places)), NEW new, DOMAIN new = N,
         \A t \in N : new[t] \in Tokens(minted'),
         tokens' = Set(S, st) ++ new
  PROVE  /\ TokensTyped' /\ Moved(S, st, N)
         /\ \A t \in N : tokens'[t] = new[t] /\ t \notin DOMAIN tokens
<1>1. /\ minted' \in Nat /\ minted <= minted' /\ N \subseteq minted + 1 .. minted'
      /\ via' \in [1..minted' -> Places]
  BY MintGrows
<1>2. /\ DOMAIN Set(S, st) = DOMAIN tokens
      /\ \A t \in DOMAIN tokens :
              /\ Set(S, st)[t] \in Tokens(minted)
              /\ Set(S, st)[t].node = tokens[t].node /\ Set(S, st)[t].scope = tokens[t].scope
              /\ Set(S, st)[t].status = IF t \in S THEN st ELSE tokens[t].status
  BY SetTokens
<1> DEFINE before == Set(S, st)
<1>3. tokens' = [t \in DOMAIN tokens \cup N |-> IF t \in DOMAIN tokens THEN before[t] ELSE new[t]]
  BY <1>2 DEF ++
<1> HIDE DEF before
<1>4. DOMAIN tokens \subseteq 1..minted /\ minted \in Nat
  BY DEF TokensTyped
<1>5. \A t \in N : t \notin DOMAIN tokens /\ t \in 1..minted'
  BY <1>1, <1>4
<1>6. DOMAIN tokens' = DOMAIN tokens \cup N /\ DOMAIN tokens' \subseteq 1..minted'
  <2>1. DOMAIN tokens' = DOMAIN tokens \cup N
    BY <1>3
  <2>2. DOMAIN tokens \subseteq 1..minted'
    BY <1>1, <1>4
  <2> QED BY <1>5, <2>1, <2>2
<1>7. /\ \A t \in DOMAIN tokens : tokens'[t] = before[t]
      /\ \A t \in N : tokens'[t] = new[t]
  BY <1>3, <1>5
<1>8. Tokens(minted) \subseteq Tokens(minted')
  BY <1>1, <1>4, IdsGrow DEF Tokens
<1>9. tokens' \in [DOMAIN tokens' -> Tokens(minted')]
  BY <1>2, <1>3, <1>6, <1>7, <1>8 DEF before
<1>10. TokensTyped'
  BY <1>1, <1>6, <1>9 DEF TokensTyped
<1>11. Moved(S, st, N)
  BY <1>1, <1>2, <1>6, <1>7 DEF Moved, before
<1> QED BY <1>5, <1>7, <1>10, <1>11

LEMMA TokensOnly ==
  ASSUME TokensTyped, NEW S, NEW st \in Statuses, tokens' = Set(S, st), UNCHANGED mintVars
  PROVE  TokensTyped' /\ Moved(S, st, {})
<1>1. /\ DOMAIN Set(S, st) = DOMAIN tokens
      /\ \A t \in DOMAIN tokens :
              /\ Set(S, st)[t] \in Tokens(minted)
              /\ Set(S, st)[t].node = tokens[t].node /\ Set(S, st)[t].scope = tokens[t].scope
              /\ Set(S, st)[t].status = IF t \in S THEN st ELSE tokens[t].status
  BY SetTokens
<1>2. minted' = minted /\ via' = via
  BY DEF mintVars
<1>3. tokens' = [t \in DOMAIN tokens |-> tokens'[t]]
  BY DEF Set
<1>4. TokensTyped'
  BY <1>1, <1>2, <1>3 DEF TokensTyped
<1>5. Moved(S, st, {})
  BY <1>1, <1>2 DEF TokensTyped, Moved
<1> QED BY <1>4, <1>5

(* The queue after a step that sends new continuations, one per token.     *)
LEMMA QueueStep ==
  ASSUME IInv, NEW c \in ready \cup applied, NEW conts, Answer(c, conts),
         NEW S, NEW st, NEW N, Moved(S, st, N),
         \A d \in conts :
           /\ d \in ContinuationsUpTo(minted') /\ d.kind = "TOKEN_AT_NODE"
           /\ d.token \notin 1..minted
           /\ d.token \in N => tokens'[d.token].node = d.node /\ tokens'[d.token].scope = d.scope
           /\ Type[d.node] # "startEvent" => d.flow \in Flows /\ Incoming[d.node] # <<>>,
         \A d, e \in conts : d.token = e.token => d = e
  PROVE  QueueTyped' /\ NamesAgree' /\ applied \subseteq applied'
<1>1. /\ ready' = (ready \ {c}) \cup conts /\ applied' = applied \cup {c}
      /\ repeats' = IF c \in ready THEN repeats ELSE repeats + 1
      /\ c \in ready \/ repeats < MaxRepeats
  BY DEF Answer, Due, Again
<1>2. /\ minted \in Nat /\ minted' \in Nat /\ minted <= minted'
      /\ DOMAIN tokens' = DOMAIN tokens \cup N /\ DOMAIN tokens \subseteq 1..minted
  BY DEF IInv, TokensTyped, Moved
<1>3. ready \subseteq ContinuationsUpTo(minted) /\ applied \subseteq ContinuationsUpTo(minted)
  BY DEF IInv, QueueTyped
<1>4. ContinuationsUpTo(minted) \subseteq ContinuationsUpTo(minted')
  BY <1>2, IdsGrow
<1>5. repeats' \in 0..MaxRepeats
  BY <1>1, BoundsAssumption DEF IInv, QueueTyped
<1>6. QueueTyped'
  BY <1>1, <1>3, <1>4, <1>5 DEF QueueTyped
<1>7. AtNodes' \subseteq AtNodes \cup conts
  BY <1>1 DEF AtNodes
<1>8. \A d \in AtNodes : d.token \in 1..minted /\ Named(d) /\ d \in ContinuationsUpTo(minted)
  BY <1>2, <1>3, KindsOfContinuations DEF IInv, NamesAgree, AtNodes
<1>9. \A d \in AtNodes : Named(d)'
  <2> SUFFICES ASSUME NEW d \in AtNodes PROVE Named(d)'
    OBVIOUS
  <2>1. d.token \in DOMAIN tokens' => d.token \in DOMAIN tokens
    BY <1>2, <1>8 DEF Moved
  <2> QED BY <1>8, <2>1 DEF Named, Moved
<1>10. \A d \in conts : Named(d)'
  BY <1>2 DEF Named
<1>11. \A d, e \in AtNodes' : d.token = e.token => d = e
  BY <1>7, <1>8 DEF IInv, NamesAgree
<1>12. NamesAgree'
  BY <1>7, <1>9, <1>10, <1>11 DEF NamesAgree
<1> QED BY <1>1, <1>6, <1>12

(* A step that sends no continuation and mints no token.                   *)
LEMMA QuietStep ==
  ASSUME IInv, NEW c \in ready \cup applied, Answer(c, {}),
         NEW S, NEW st, NEW N, Moved(S, st, N)
  PROVE  QueueTyped' /\ NamesAgree' /\ applied \subseteq applied'
BY QueueStep

LEMMA SendAlongStep ==
  ASSUME IInv, NEW c \in ready \cup applied, NEW S, NEW st \in Statuses,
         NEW flows \in Seq(Flows), NEW s \in ScopesUpTo(minted),
         SendAlong(c, Set(S, st), flows, s)
  PROVE  LET N == Fresh(Len(flows)) IN
         /\ TokensTyped' /\ QueueTyped' /\ NamesAgree' /\ Moved(S, st, N)
         /\ applied \subseteq applied' /\ \A t \in N : HasWork(t)'
         /\ \A t \in N : /\ t \notin DOMAIN tokens /\ tokens'[t].status = "ACTIVE"
                         /\ t - minted \in DOMAIN flows
                         /\ via'[t] = flows[t - minted]
                         /\ tokens'[t] = NewToken(To[flows[t - minted]], s, "ACTIVE")
<1> DEFINE N == Fresh(Len(flows))
           at(t) == flows[t - minted]
           new == [t \in N |-> NewToken(To[at(t)], s, "ACTIVE")]
           conts == { AtNode(t, To[at(t)], s, at(t)) : t \in N }
<1>1. TokensTyped
  BY DEF IInv
<1>2. flows \in Seq(Places)
  BY GraphFacts, SeqMonotonic
<1>3. Mint(flows) /\ tokens' = Set(S, st) ++ new /\ Answer(c, conts)
  BY DEF SendAlong
<1>4. /\ minted \in Nat /\ minted' \in Nat /\ minted <= minted'
      /\ N = minted + 1 .. minted'
      /\ \A t \in N : via'[t] = at(t) /\ t - minted \in DOMAIN flows
  BY <1>1, <1>2, <1>3, MintGrows DEF TokensTyped
<1>5. \A t \in N : at(t) \in Flows /\ To[at(t)] \in Nodes /\ Incoming[To[at(t)]] # <<>>
  BY <1>4, GraphFacts
<1>6. s \in ScopesUpTo(minted')
  BY <1>4, IdsGrow
<1> HIDE DEF at, N
<1>7. \A t \in N : new[t] \in Tokens(minted')
  BY <1>5, <1>6 DEF NewToken, Tokens, Statuses
<1>8. DOMAIN new = N /\ \A t \in N : new[t] = NewToken(To[at(t)], s, "ACTIVE")
  OBVIOUS
<1> HIDE DEF new
<1>9. N \in SUBSET Fresh(Len(flows))
  BY DEF N
<1>10. /\ TokensTyped' /\ Moved(S, st, N)
       /\ \A t \in N : tokens'[t] = new[t] /\ t \notin DOMAIN tokens
  BY <1>1, <1>2, <1>3, <1>7, <1>8, <1>9, TokensStep
<1>11. \A t \in N : /\ AtNode(t, To[at(t)], s, at(t)) \in ContinuationsUpTo(minted')
                    /\ AtNode(t, To[at(t)], s, at(t)).kind = "TOKEN_AT_NODE"
                    /\ AtNode(t, To[at(t)], s, at(t)).token = t
                    /\ AtNode(t, To[at(t)], s, at(t)).node = To[at(t)]
                    /\ AtNode(t, To[at(t)], s, at(t)).scope = s
                    /\ AtNode(t, To[at(t)], s, at(t)).flow = at(t)
  <2>1. \A t \in N : t \in 1..minted'
    BY <1>4
  <2> QED BY <1>4, <1>5, <1>6, <2>1, NewContinuation
<1>12. \A t \in N : /\ t \notin 1..minted
                    /\ tokens'[t].node = To[at(t)] /\ tokens'[t].scope = s
                    /\ tokens'[t].status = "ACTIVE"
  BY <1>4, <1>8, <1>10 DEF NewToken
<1>13. /\ \A d \in conts :
           /\ d \in ContinuationsUpTo(minted') /\ d.kind = "TOKEN_AT_NODE"
           /\ d.token \notin 1..minted
           /\ d.token \in N => tokens'[d.token].node = d.node /\ tokens'[d.token].scope = d.scope
           /\ Type[d.node] # "startEvent" => d.flow \in Flows /\ Incoming[d.node] # <<>>
       /\ \A d, e \in conts : d.token = e.token => d = e
  BY <1>5, <1>11, <1>12
<1>14. \A t \in N : HasWork(t)'
  <2>1. conts \subseteq ready'
    BY <1>3 DEF Answer
  <2>2. \A t \in N : AtNode(t, To[at(t)], s, at(t)) \in ready'
    BY <2>1
  <2> QED BY <1>11, <1>12, <2>2 DEF HasWork
<1> HIDE DEF conts
<1>15. QueueTyped' /\ NamesAgree' /\ applied \subseteq applied'
  BY <1>3, <1>10, <1>13, QueueStep
<1>16. \A t \in N : /\ t \notin DOMAIN tokens /\ tokens'[t].status = "ACTIVE"
                    /\ t - minted \in DOMAIN flows
                    /\ via'[t] = flows[t - minted]
                    /\ tokens'[t] = NewToken(To[flows[t - minted]], s, "ACTIVE")
  BY <1>4, <1>8, <1>10, <1>12 DEF at
<1> QED BY <1>10, <1>14, <1>15, <1>16 DEF N

(* Only the last of the new tokens is in the document.                     *)
LastFresh(k) == Fresh(k) \cap {minted + k}

LEMMA PlaceAtStartsStep ==
  ASSUME IInv, NEW c \in ready \cup applied, NEW S, NEW st \in Statuses,
         NEW starts \in Seq(Starts), NEW s \in ScopesUpTo(minted),
         PlaceAtStarts(c, Set(S, st), starts, s)
  PROVE  LET N == LastFresh(Len(starts)) IN
         /\ TokensTyped' /\ QueueTyped' /\ NamesAgree' /\ Moved(S, st, N)
         /\ applied \subseteq applied' /\ \A t \in N : HasWork(t)'
         /\ \A t \in N : /\ t \notin DOMAIN tokens /\ tokens'[t].status = "ACTIVE"
                         /\ tokens'[t].node \in Starts /\ tokens'[t].scope = s
                         /\ t - minted \in DOMAIN starts
                         /\ via'[t] = starts[t - minted] /\ tokens'[t].node = starts[t - minted]
<1> DEFINE F == Fresh(Len(starts))
           N == LastFresh(Len(starts))
           at(t) == starts[t - minted]
           in(t) == FirstOf(Incoming[at(t)])
           new == [t \in N |-> NewToken(at(t), s, "ACTIVE")]
           conts == { AtNode(t, at(t), s, in(t)) : t \in F }
<1>1. TokensTyped
  BY DEF IInv
<1>2. starts \in Seq(Places)
  BY GraphFacts, SeqMonotonic
<1>3. Mint(starts) /\ tokens' = Set(S, st) ++ new /\ Answer(c, conts)
  BY DEF PlaceAtStarts, LastFresh
<1>4. /\ minted \in Nat /\ minted' \in Nat /\ minted <= minted'
      /\ F = minted + 1 .. minted'
      /\ \A t \in F : t - minted \in DOMAIN starts /\ via'[t] = starts[t - minted]
  BY <1>1, <1>2, <1>3, MintGrows DEF TokensTyped
<1>5. \A t \in F : /\ at(t) \in Nodes /\ at(t) \in Starts /\ Type[at(t)] = "startEvent"
                   /\ in(t) \in Flows \cup {NoFlow}
  <2>1. \A t \in F : at(t) \in Starts
    BY <1>4
  <2> QED BY <2>1, GraphFacts DEF Starts
<1>6. s \in ScopesUpTo(minted')
  BY <1>4, IdsGrow
<1>7. N \in SUBSET F /\ N \in SUBSET Fresh(Len(starts))
  BY DEF LastFresh
<1> HIDE DEF at, in, N, F
<1>8. \A t \in N : new[t] \in Tokens(minted')
  BY <1>5, <1>6, <1>7 DEF NewToken, Tokens, Statuses
<1>9. DOMAIN new = N /\ \A t \in N : new[t] = NewToken(at(t), s, "ACTIVE")
  OBVIOUS
<1> HIDE DEF new
<1>10. /\ TokensTyped' /\ Moved(S, st, N)
       /\ \A t \in N : tokens'[t] = new[t] /\ t \notin DOMAIN tokens
  BY <1>1, <1>2, <1>3, <1>7, <1>8, <1>9, TokensStep
<1>11. \A t \in F : /\ AtNode(t, at(t), s, in(t)) \in ContinuationsUpTo(minted')
                    /\ AtNode(t, at(t), s, in(t)).kind = "TOKEN_AT_NODE"
                    /\ AtNode(t, at(t), s, in(t)).token = t
                    /\ AtNode(t, at(t), s, in(t)).node = at(t)
                    /\ AtNode(t, at(t), s, in(t)).scope = s
                    /\ AtNode(t, at(t), s, in(t)).flow = in(t)
  <2>1. \A t \in F : t \in 1..minted'
    BY <1>4
  <2> QED BY <1>4, <1>5, <1>6, <2>1, NewContinuation
<1>12. \A t \in N : /\ tokens'[t].node = at(t) /\ tokens'[t].scope = s
                    /\ tokens'[t].status = "ACTIVE"
  BY <1>9, <1>10 DEF NewToken
<1>13. /\ \A d \in conts :
           /\ d \in ContinuationsUpTo(minted') /\ d.kind = "TOKEN_AT_NODE"
           /\ d.token \notin 1..minted
           /\ d.token \in N => tokens'[d.token].node = d.node /\ tokens'[d.token].scope = d.scope
           /\ Type[d.node] # "startEvent" => d.flow \in Flows /\ Incoming[d.node] # <<>>
       /\ \A d, e \in conts : d.token = e.token => d = e
  <2>1. \A t \in F : t \notin 1..minted
    BY <1>4
  <2> QED BY <1>5, <1>11, <1>12, <2>1
<1>14. \A t \in N : HasWork(t)'
  <2>1. conts \subseteq ready'
    BY <1>3 DEF Answer
  <2>2. \A t \in N : AtNode(t, at(t), s, in(t)) \in ready'
    BY <1>7, <2>1
  <2> QED BY <1>7, <1>11, <1>12, <2>2 DEF HasWork
<1> HIDE DEF conts
<1>15. QueueTyped' /\ NamesAgree' /\ applied \subseteq applied'
  BY <1>3, <1>10, <1>13, QueueStep
<1>16. \A t \in N : /\ t \notin DOMAIN tokens /\ tokens'[t].status = "ACTIVE"
                    /\ tokens'[t].node \in Starts /\ tokens'[t].scope = s
                    /\ t - minted \in DOMAIN starts
                    /\ via'[t] = starts[t - minted] /\ tokens'[t].node = starts[t - minted]
  BY <1>4, <1>5, <1>7, <1>10, <1>12 DEF at
<1> QED BY <1>10, <1>14, <1>15, <1>16 DEF N, F

(* What is not touched keeps its part of the invariant.                    *)
LEMMA ScopesKept ==
  ASSUME IInv, NEW S, NEW st, NEW N, Moved(S, st, N), UNCHANGED scopes
  PROVE  ScopesTyped' /\ ScopesHaveNodes'
<1>1. ScopesUpTo(minted) \subseteq ScopesUpTo(minted')
  BY IdsGrow DEF IInv, TokensTyped, Moved
<1> QED BY <1>1 DEF IInv, ScopesTyped, ScopesHaveNodes

LEMMA EntriesKept ==
  ASSUME IInv, NEW S, NEW st, NEW N, Moved(S, st, N), UNCHANGED miPending
  PROVE  EntriesTyped'
<1>1. ScopesUpTo(minted) \subseteq ScopesUpTo(minted') /\ 1..minted \subseteq 1..minted'
  BY IdsGrow DEF IInv, TokensTyped, Moved
<1> QED BY <1>1 DEF IInv, EntriesTyped

LEMMA WaitsKept ==
  ASSUME IInv, NEW S, NEW st, NEW N, Moved(S, st, N), UNCHANGED waitVars,
         st # "WAITING", \A t \in S \cap DOMAIN tokens : Status(t) = "ACTIVE",
         \A t \in N : t \notin DOMAIN tokens /\ tokens'[t].status = "ACTIVE"
  PROVE  WaitsTyped' /\ WaitsMatchTokens'
<1>1. workItems' = workItems /\ decisions' = decisions
  BY DEF waitVars
<1>2. ScopesUpTo(minted) \subseteq ScopesUpTo(minted')
  BY IdsGrow DEF IInv, TokensTyped, Moved
<1>3. DOMAIN tokens' = DOMAIN tokens \cup N
  BY DEF Moved
<1>4. Work(minted) \subseteq Work(minted')
  BY <1>2 DEF Work
<1>5. WaitsTyped'
  BY <1>1, <1>2, <1>3, <1>4 DEF IInv, WaitsTyped
<1>6. { t \in DOMAIN tokens' : Status(t)' = "WAITING" } = { t \in DOMAIN tokens : Status(t) = "WAITING" }
  BY <1>3 DEF Moved, Status
<1>7. \A t \in DOMAIN workItems \cup DOMAIN decisions :
        tokens'[t].node = tokens[t].node /\ tokens'[t].scope = tokens[t].scope
  BY DEF Moved, IInv, WaitsTyped
<1> QED BY <1>1, <1>5, <1>6, <1>7 DEF IInv, WaitsMatchTokens

LEMMA JoinsKept ==
  ASSUME IInv, NEW S, NEW st, NEW N, Moved(S, st, N), UNCHANGED joinArrivals, applied \subseteq applied',
         \A key \in DOMAIN joinArrivals : \A f \in DOMAIN joinArrivals[key] : joinArrivals[key][f] \notin S
  PROVE  JoinsTyped' /\ JoinsHoldParked'
<1>1. ScopesUpTo(minted) \subseteq ScopesUpTo(minted') /\ DOMAIN tokens' = DOMAIN tokens \cup N
  BY IdsGrow DEF IInv, TokensTyped, Moved
<1>2. JoinsTyped'
  BY <1>1 DEF IInv, JoinsTyped
<1>3. \A key \in DOMAIN joinArrivals : \A f \in DOMAIN joinArrivals[key] :
        ParkedAt(key, f, joinArrivals[key][f])'
  BY DEF IInv, JoinsTyped, JoinsHoldParked, ParkedAt, Moved, Status
<1>4. \A key \in DOMAIN joinArrivals : IsJoin(key[1])'
  BY DEF IInv, JoinsHoldParked, IsJoin
<1> QED BY <1>2, <1>3, <1>4 DEF JoinsHoldParked

(* The token of a continuation that is at work.                            *)
LEMMA AtWorkFacts ==
  ASSUME IInv, NEW c \in ready \cup applied, AtWork(c)
  PROVE  /\ c \in AtNodes /\ c \in ContinuationsUpTo(minted)
         /\ c.token \in 1..minted /\ c.token \in DOMAIN tokens
         /\ c.node \in Nodes /\ c.scope \in ScopesUpTo(minted)
         /\ tokens[c.token].node = c.node /\ tokens[c.token].scope = c.scope
         /\ tokens[c.token].status = "ACTIVE"
         /\ Type[c.node] # "startEvent" => c.flow \in Flows /\ Incoming[c.node] # <<>>
         /\ \A key \in DOMAIN joinArrivals : \A f \in DOMAIN joinArrivals[key] :
              joinArrivals[key][f] = c.token => IsJoin(c.node) /\ key = <<c.node, c.scope>>
<1>1. c \in AtNodes /\ c \in ContinuationsUpTo(minted) /\ c.kind = "TOKEN_AT_NODE" /\ minted \in Nat
  BY DEF AtNodes, AtWork, IInv, QueueTyped, TokensTyped
<1>2. c.token \in 1..minted /\ c.node \in Nodes /\ c.scope \in ScopesUpTo(minted)
  BY <1>1, KindsOfContinuations
<1>3. /\ c.token \in DOMAIN tokens /\ tokens[c.token].status = "ACTIVE"
      /\ tokens[c.token].node = c.node /\ tokens[c.token].scope = c.scope
      /\ Type[c.node] # "startEvent" => c.flow \in Flows /\ Incoming[c.node] # <<>>
  BY <1>1 DEF AtWork, Status, IInv, NamesAgree, Named
<1>4. ASSUME NEW key \in DOMAIN joinArrivals, NEW f \in DOMAIN joinArrivals[key],
             joinArrivals[key][f] = c.token
      PROVE  IsJoin(c.node) /\ key = <<c.node, c.scope>>
  <2>1. key \in Nodes \X ScopesUpTo(minted)
    BY DEF IInv, JoinsTyped
  <2>2. IsJoin(key[1]) /\ key[1] = c.node /\ key[2] = c.scope
    BY <1>3, <1>4 DEF IInv, JoinsHoldParked, ParkedAt
  <2> QED BY <2>1, <2>2
<1> QED BY <1>1, <1>2, <1>3, <1>4

(* The token of c is consumed, and new ones go on from there.              *)
LEMMA PassOnStep ==
  ASSUME IInv, NEW c \in ready \cup applied, AtWork(c), ~IsJoin(c.node),
         NEW flows \in Seq(Flows), NEW s \in ScopesUpTo(minted),
         SendAlong(c, Set({c.token}, "CONSUMED"), flows, s),
         UNCHANGED <<waitVars, joinArrivals, miPending>>
  PROVE  /\ TokensTyped' /\ QueueTyped' /\ WaitsTyped' /\ JoinsTyped' /\ EntriesTyped'
         /\ NamesAgree' /\ WaitsMatchTokens' /\ JoinsHoldParked'
         /\ Moved({c.token}, "CONSUMED", Fresh(Len(flows)))
<1> DEFINE N == Fresh(Len(flows))
<1>1. /\ TokensTyped' /\ QueueTyped' /\ NamesAgree' /\ Moved({c.token}, "CONSUMED", N)
      /\ applied \subseteq applied'
      /\ \A t \in N : t \notin DOMAIN tokens /\ tokens'[t].status = "ACTIVE"
  BY SendAlongStep DEF Statuses
<1> HIDE DEF N
<1>2. /\ tokens[c.token].status = "ACTIVE"
      /\ \A key \in DOMAIN joinArrivals : \A f \in DOMAIN joinArrivals[key] :
           joinArrivals[key][f] \notin {c.token}
  BY AtWorkFacts
<1>3. UNCHANGED waitVars /\ UNCHANGED joinArrivals /\ UNCHANGED miPending
  OBVIOUS
<1>4. WaitsTyped' /\ WaitsMatchTokens'
  BY <1>1, <1>2, <1>3, WaitsKept DEF Status
<1>5. JoinsTyped' /\ JoinsHoldParked'
  BY <1>1, <1>2, <1>3, JoinsKept
<1>6. EntriesTyped'
  BY <1>1, <1>3, EntriesKept
<1> QED BY <1>1, <1>4, <1>5, <1>6 DEF N

------------------------------------------------------------------------------
(* One lemma per action.                                                   *)

LEMMA UnmovedTokens ==
  ASSUME IInv, UNCHANGED <<tokens, mintVars>>
  PROVE  TokensTyped' /\ Moved({}, "CONSUMED", {})
BY DEF IInv, TokensTyped, Moved, mintVars

LEMMA NoOpKeeps ==
  ASSUME IInv, NEW c \in ready \cup applied, NoOp(c)
  PROVE  IInv'
<1>1. Answer(c, {}) /\ UNCHANGED <<tokens, mintVars>> /\ UNCHANGED waitVars /\ UNCHANGED scopes
      /\ UNCHANGED joinArrivals /\ UNCHANGED miPending /\ UNCHANGED <<status, completions>>
  BY DEF NoOp, docVars
<1>2. TokensTyped' /\ Moved({}, "CONSUMED", {})
  BY <1>1, UnmovedTokens
<1>3. QueueTyped' /\ NamesAgree' /\ applied \subseteq applied'
  BY <1>1, <1>2, QuietStep
<1>4. ScopesTyped' /\ ScopesHaveNodes' /\ EntriesTyped'
  BY <1>1, <1>2, ScopesKept, EntriesKept
<1>5. WaitsTyped' /\ WaitsMatchTokens'
  BY <1>1, <1>2, WaitsKept
<1>6. JoinsTyped' /\ JoinsHoldParked'
  BY <1>1, <1>2, <1>3, JoinsKept
<1>7. StatusTyped'
  BY <1>1 DEF IInv, StatusTyped
<1> QED BY <1>2, <1>3, <1>4, <1>5, <1>6, <1>7 DEF IInv

LEMMA HostAnswersKeeps ==
  ASSUME IInv, NEW c \in Answers, HostAnswers(c)
  PROVE  IInv'
<1>1. /\ ready' = ready \cup {c} /\ applied' = applied /\ repeats' = repeats
      /\ UNCHANGED <<tokens, mintVars>> /\ UNCHANGED waitVars /\ UNCHANGED scopes
      /\ UNCHANGED joinArrivals /\ UNCHANGED miPending /\ UNCHANGED <<status, completions>>
  BY DEF HostAnswers, docVars
<1>2. TokensTyped' /\ Moved({}, "CONSUMED", {}) /\ minted' = minted /\ tokens' = tokens
  BY <1>1, UnmovedTokens DEF mintVars
<1>3. c \in ContinuationsUpTo(minted) /\ c.kind # "TOKEN_AT_NODE"
  <2> DEFINE Mine == c \in ContinuationsUpTo(minted) /\ c.kind # "TOKEN_AT_NODE"
  <2>1. DOMAIN workItems \subseteq 1..minted /\ DOMAIN decisions \subseteq 1..minted
    BY DEF IInv, TokensTyped, WaitsTyped
  <2>2. ASSUME NEW t \in DOMAIN workItems, c = WorkCompleted(t)
        PROVE  Mine
    BY <2>1, <2>2 DEF WorkCompleted, ContinuationsUpTo
  <2>3. ASSUME NEW t \in DOMAIN decisions, NEW f \in ToSet(Outgoing[decisions[t].node]),
               c = DecisionRecorded(t, f)
        PROVE  Mine
    <3>1. f \in Flows /\ t \in 1..minted
      BY <2>1, GraphFacts DEF IInv, WaitsTyped
    <3> QED BY <2>3, <3>1 DEF DecisionRecorded, ContinuationsUpTo
  <2>4. ASSUME NEW q \in Asked, NEW k \in ItemCounts, c = Resolved(q, k)
        PROVE  Mine
    <3>1. q \in ContinuationsUpTo(minted) /\ q.kind = "TOKEN_AT_NODE" /\ minted \in Nat
      BY DEF Asked, IInv, QueueTyped, TokensTyped
    <3>2. q.token \in 1..minted /\ q.node \in Nodes /\ q.scope \in ScopesUpTo(minted)
      BY <3>1, KindsOfContinuations
    <3> QED BY <2>4, <3>2 DEF Resolved, ContinuationsUpTo
  <2>5. CASE c \in { WorkCompleted(t) : t \in DOMAIN workItems }
    BY <2>2, <2>5
  <2>6. CASE c \in UNION { { DecisionRecorded(t, f) : f \in ToSet(Outgoing[decisions[t].node]) }
                         : t \in DOMAIN decisions }
    BY <2>3, <2>6
  <2>7. CASE c \in { Resolved(q, k) : q \in Asked, k \in ItemCounts }
    BY <2>4, <2>7
  <2> QED BY <2>5, <2>6, <2>7 DEF Answers
<1>4. QueueTyped'
  BY <1>1, <1>2, <1>3 DEF IInv, QueueTyped
<1>5. NamesAgree'
  <2>1. AtNodes' = AtNodes
    BY <1>1, <1>3 DEF AtNodes
  <2>2. \A d \in AtNodes : Named(d)'
    BY <1>2 DEF IInv, NamesAgree, Named
  <2> QED BY <2>1, <2>2 DEF IInv, NamesAgree
<1>6. ScopesTyped' /\ ScopesHaveNodes' /\ EntriesTyped'
  BY <1>1, <1>2, ScopesKept, EntriesKept
<1>7. WaitsTyped' /\ WaitsMatchTokens'
  BY <1>1, <1>2, WaitsKept
<1>8. JoinsTyped' /\ JoinsHoldParked'
  BY <1>1, <1>2, JoinsKept
<1>9. StatusTyped'
  BY <1>1 DEF IInv, StatusTyped
<1> QED BY <1>2, <1>4, <1>5, <1>6, <1>7, <1>8, <1>9 DEF IInv

LEMMA StartKeeps ==
  ASSUME IInv, NEW c \in ready \cup applied, Start(c)
  PROVE  IInv'
<1>1. CASE DOMAIN tokens # {}
  BY <1>1, NoOpKeeps DEF Start
<1>2. CASE DOMAIN tokens = {}
  <2> DEFINE N == LastFresh(Len(StartNodes))
             root == [s \in {Root} |-> [node |-> TopLevel, parent |-> Root]]
  <2>1. /\ scopes' = scopes ++ root /\ PlaceAtStarts(c, tokens, StartNodes, Root)
        /\ UNCHANGED waitVars /\ UNCHANGED joinArrivals /\ UNCHANGED miPending
        /\ UNCHANGED <<status, completions>>
    BY <1>2 DEF Start
  <2>2. Set({}, "CONSUMED") = tokens
    BY DEF Set, IInv, TokensTyped
  <2>3. Root \in ScopesUpTo(minted) /\ "CONSUMED" \in Statuses /\ StartNodes \in Seq(Starts)
    BY GraphFacts DEF ScopesUpTo, Statuses
  <2>4. PlaceAtStarts(c, Set({}, "CONSUMED"), StartNodes, Root)
    BY <2>1, <2>2
  <2>5. /\ TokensTyped' /\ QueueTyped' /\ NamesAgree' /\ Moved({}, "CONSUMED", N)
        /\ applied \subseteq applied'
        /\ \A t \in N : t \notin DOMAIN tokens /\ tokens'[t].status = "ACTIVE"
    <3>1. /\ TokensTyped' /\ QueueTyped' /\ NamesAgree' /\ Moved({}, "CONSUMED", N)
          /\ applied \subseteq applied'
          /\ \A t \in N : /\ t \notin DOMAIN tokens /\ tokens'[t].status = "ACTIVE"
                          /\ tokens'[t].node \in Starts /\ tokens'[t].scope = Root
      BY <2>3, <2>4, PlaceAtStartsStep
    <3> QED BY <3>1
  <2> HIDE DEF N
  <2>6. EntriesTyped' /\ WaitsTyped' /\ WaitsMatchTokens' /\ JoinsTyped' /\ JoinsHoldParked'
    BY <2>1, <2>5, EntriesKept, WaitsKept, JoinsKept
  <2>7. ScopesTyped' /\ ScopesHaveNodes'
    <3>1. ScopesUpTo(minted) \subseteq ScopesUpTo(minted') /\ Root \in ScopesUpTo(minted')
      BY <2>5, IdsGrow DEF IInv, TokensTyped, Moved, ScopesUpTo
    <3>2. scopes' = [s \in DOMAIN scopes \cup {Root} |->
                       IF s \in DOMAIN scopes THEN scopes[s] ELSE [node |-> TopLevel, parent |-> Root]]
      BY <2>1 DEF ++
    <3>3. DOMAIN scopes' = DOMAIN scopes \cup {Root}
      BY <3>2
    <3> QED BY <3>1, <3>2, <3>3 DEF IInv, ScopesTyped, ScopesHaveNodes
  <2>8. StatusTyped'
    BY <2>1 DEF IInv, StatusTyped
  <2> QED BY <2>5, <2>6, <2>7, <2>8 DEF IInv
<1> QED BY <1>1, <1>2

LEMMA NothingToDoKeeps ==
  ASSUME IInv, NEW c \in ready \cup applied, NothingToDo(c) \/ TooLate(c)
  PROVE  IInv'
BY NoOpKeeps DEF NothingToDo, TooLate

(* The actions that only pass the token on.                                *)
LEMMA PassOnKeeps ==
  ASSUME IInv, NEW c \in ready \cup applied, AtWork(c), ~IsJoin(c.node),
         NEW flows \in Seq(Flows), PassOn(c, flows)
  PROVE  IInv'
<1>1. c.scope \in ScopesUpTo(minted)
  BY AtWorkFacts
<1>2. /\ SendAlong(c, Set({c.token}, "CONSUMED"), flows, c.scope)
      /\ UNCHANGED <<waitVars, joinArrivals, miPending>> /\ UNCHANGED scopes
      /\ UNCHANGED <<status, completions>>
  BY DEF PassOn
<1>3. /\ TokensTyped' /\ QueueTyped' /\ WaitsTyped' /\ JoinsTyped' /\ EntriesTyped'
      /\ NamesAgree' /\ WaitsMatchTokens' /\ JoinsHoldParked'
      /\ Moved({c.token}, "CONSUMED", Fresh(Len(flows)))
  BY <1>1, <1>2, PassOnStep
<1>4. ScopesTyped' /\ ScopesHaveNodes' /\ StatusTyped'
  BY <1>2, <1>3, ScopesKept DEF IInv, StatusTyped
<1> QED BY <1>3, <1>4 DEF IInv

LEMMA PassOnActionsKeep ==
  ASSUME IInv, NEW c \in ready \cup applied, StartEvent(c) \/ EndInSubProcess(c) \/ Fork(c)
  PROVE  IInv'
<1>1. AtWork(c) /\ c.node \in Nodes
  BY AtWorkFacts DEF StartEvent, EndInSubProcess, Fork
<1>2. Outgoing[c.node] \in Seq(Flows) /\ <<>> \in Seq(Flows)
  BY <1>1, GraphFacts
<1>3. ~IsJoin(c.node)
  BY <1>2 DEF StartEvent, EndInSubProcess, Fork, IsJoin
<1>4. PassOn(c, Outgoing[c.node]) \/ PassOn(c, <<>>)
  BY DEF StartEvent, EndInSubProcess, Fork
<1> QED BY <1>1, <1>2, <1>3, <1>4, PassOnKeeps

LEMMA EndSubProcessKeeps ==
  ASSUME IInv, NEW c \in ready \cup applied, EndSubProcess(c)
  PROVE  IInv'
<1>1. /\ AtWork(c) /\ ~IsJoin(c.node)
      /\ c.scope \in DOMAIN scopes /\ c.scope # Root
  BY DEF EndSubProcess, InSubProcess, IsJoin
<1> DEFINE flows == FirstOut(scopes[c.scope].node)
           s == scopes[c.scope].parent
<1>2. flows \in Seq(Flows) /\ s \in ScopesUpTo(minted)
  BY <1>1, GraphFacts DEF IInv, ScopesTyped, ScopesHaveNodes
<1>3. /\ SendAlong(c, Set({c.token}, "CONSUMED"), flows, s)
      /\ UNCHANGED <<waitVars, joinArrivals, miPending>>
      /\ UNCHANGED <<status, completions>> /\ scopes' = Without(scopes, {c.scope})
  BY DEF EndSubProcess
<1> HIDE DEF flows, s
<1>4. /\ TokensTyped' /\ QueueTyped' /\ WaitsTyped' /\ JoinsTyped' /\ EntriesTyped'
      /\ NamesAgree' /\ WaitsMatchTokens' /\ JoinsHoldParked'
      /\ Moved({c.token}, "CONSUMED", Fresh(Len(flows)))
  BY <1>1, <1>2, <1>3, PassOnStep
<1>5. ScopesTyped' /\ ScopesHaveNodes'
  <2>1. ScopesUpTo(minted) \subseteq ScopesUpTo(minted')
    BY <1>4, IdsGrow DEF IInv, TokensTyped, Moved
  <2>2. scopes' = [x \in DOMAIN scopes \ {c.scope} |-> scopes[x]]
    BY <1>3 DEF Without, Restrict
  <2>3. DOMAIN scopes' = DOMAIN scopes \ {c.scope}
    BY <2>2
  <2> QED BY <2>1, <2>2, <2>3 DEF IInv, ScopesTyped, ScopesHaveNodes
<1>6. StatusTyped'
  BY <1>3 DEF IInv, StatusTyped
<1> QED BY <1>4, <1>5, <1>6 DEF IInv

LEMMA EndEventKeeps ==
  ASSUME IInv, NEW c \in ready \cup applied, EndEvent(c)
  PROVE  IInv'
<1>1. AtWork(c) /\ ~IsJoin(c.node) /\ c.scope \in ScopesUpTo(minted) /\ <<>> \in Seq(Flows)
  BY AtWorkFacts DEF EndEvent, IsJoin
<1>2. /\ SendAlong(c, Set({c.token}, "CONSUMED"), <<>>, c.scope)
      /\ UNCHANGED <<waitVars, joinArrivals, miPending>> /\ UNCHANGED scopes
  BY DEF EndEvent
<1>3. /\ TokensTyped' /\ QueueTyped' /\ WaitsTyped' /\ JoinsTyped' /\ EntriesTyped'
      /\ NamesAgree' /\ WaitsMatchTokens' /\ JoinsHoldParked'
      /\ Moved({c.token}, "CONSUMED", Fresh(Len(<<>>)))
  BY <1>1, <1>2, PassOnStep
<1>4. ScopesTyped' /\ ScopesHaveNodes'
  BY <1>2, <1>3, ScopesKept
<1>5. StatusTyped'
  BY DEF EndEvent, IInv, StatusTyped
<1> QED BY <1>3, <1>4, <1>5 DEF IInv

LEMMA EnterSubProcessKeeps ==
  ASSUME IInv, NEW c \in ready \cup applied, EnterSubProcess(c)
  PROVE  IInv'
<1> DEFINE starts == InnerStarts[c.node]
           N == LastFresh(Len(starts))
           inner == [t \in {c.token} |-> [node |-> c.node, parent |-> c.scope]]
<1>1. AtWork(c) /\ ~IsJoin(c.node)
  BY DEF EnterSubProcess, IsEmbedded, IsJoin
<1>2. /\ c.token \in 1..minted /\ c.node \in Nodes /\ c.scope \in ScopesUpTo(minted)
      /\ tokens[c.token].status = "ACTIVE"
      /\ \A key \in DOMAIN joinArrivals : \A f \in DOMAIN joinArrivals[key] :
           joinArrivals[key][f] \notin {c.token}
  BY <1>1, AtWorkFacts
<1>3. starts \in Seq(Starts) /\ c.token \in ScopesUpTo(minted) /\ "CONSUMED" \in Statuses
  BY <1>2, GraphFacts DEF ScopesUpTo, Statuses
<1>4. /\ PlaceAtStarts(c, Set({c.token}, "CONSUMED"), starts, c.token)
      /\ scopes' = scopes ++ inner
      /\ UNCHANGED waitVars /\ UNCHANGED joinArrivals /\ UNCHANGED miPending
      /\ UNCHANGED <<status, completions>>
  BY DEF EnterSubProcess
<1> HIDE DEF starts
<1>5. /\ TokensTyped' /\ QueueTyped' /\ NamesAgree' /\ Moved({c.token}, "CONSUMED", N)
      /\ applied \subseteq applied'
      /\ \A t \in N : t \notin DOMAIN tokens /\ tokens'[t].status = "ACTIVE"
  <2>1. /\ TokensTyped' /\ QueueTyped' /\ NamesAgree' /\ Moved({c.token}, "CONSUMED", N)
        /\ applied \subseteq applied'
        /\ \A t \in N : /\ t \notin DOMAIN tokens /\ tokens'[t].status = "ACTIVE"
                        /\ tokens'[t].node \in Starts /\ tokens'[t].scope = c.token
    BY <1>3, <1>4, PlaceAtStartsStep
  <2> QED BY <2>1
<1> HIDE DEF N
<1>6. EntriesTyped' /\ WaitsTyped' /\ WaitsMatchTokens' /\ JoinsTyped' /\ JoinsHoldParked'
  BY <1>2, <1>4, <1>5, EntriesKept, WaitsKept, JoinsKept DEF Status
<1>7. ScopesTyped' /\ ScopesHaveNodes'
  <2>1. ScopesUpTo(minted) \subseteq ScopesUpTo(minted')
    BY <1>5, IdsGrow DEF IInv, TokensTyped, Moved
  <2>2. scopes' = [x \in DOMAIN scopes \cup {c.token} |->
                     IF x \in DOMAIN scopes THEN scopes[x] ELSE [node |-> c.node, parent |-> c.scope]]
    BY <1>4 DEF ++
  <2>3. DOMAIN scopes' = DOMAIN scopes \cup {c.token}
    BY <2>2
  <2>4. c.token \in ScopesUpTo(minted') /\ c.scope \in ScopesUpTo(minted')
    BY <1>2, <1>3, <2>1
  <2> QED BY <1>2, <2>1, <2>2, <2>3, <2>4 DEF IInv, ScopesTyped, ScopesHaveNodes
<1>8. StatusTyped'
  BY <1>4 DEF IInv, StatusTyped
<1> QED BY <1>5, <1>6, <1>7, <1>8 DEF IInv

(* A token that waits from now on, and what waits with it.                 *)
LEMMA WaitStep ==
  ASSUME IInv, NEW c \in ready \cup applied, AtWork(c), ~IsJoin(c.node), NEW st \in Statuses,
         tokens' = Set({c.token}, st), Answer(c, {}),
         UNCHANGED <<scopes, joinArrivals, status, completions, mintVars>>
  PROVE  /\ TokensTyped' /\ QueueTyped' /\ ScopesTyped' /\ JoinsTyped' /\ StatusTyped'
         /\ ScopesHaveNodes' /\ NamesAgree' /\ JoinsHoldParked'
         /\ Moved({c.token}, st, {}) /\ minted' = minted
<1>1. UNCHANGED mintVars /\ UNCHANGED scopes /\ UNCHANGED joinArrivals /\ TokensTyped
  BY DEF IInv
<1>2. TokensTyped' /\ Moved({c.token}, st, {})
  BY <1>1, TokensOnly
<1>3. QueueTyped' /\ NamesAgree' /\ applied \subseteq applied'
  BY <1>2, QuietStep
<1>4. ScopesTyped' /\ ScopesHaveNodes'
  BY <1>1, <1>2, ScopesKept
<1>5. JoinsTyped' /\ JoinsHoldParked'
  <2>1. \A key \in DOMAIN joinArrivals : \A f \in DOMAIN joinArrivals[key] :
          joinArrivals[key][f] \notin {c.token}
    BY AtWorkFacts
  <2> QED BY <1>1, <1>2, <1>3, <2>1, JoinsKept
<1>6. StatusTyped' /\ minted' = minted
  BY DEF IInv, StatusTyped, mintVars
<1> QED BY <1>2, <1>3, <1>4, <1>5, <1>6

(* The tokens that wait, when c.token is one more.                         *)
LEMMA OneMoreWaits ==
  ASSUME IInv, NEW t \in DOMAIN tokens, Status(t) = "ACTIVE", Moved({t}, "WAITING", {})
  PROVE  /\ { u \in DOMAIN tokens' : Status(u)' = "WAITING" }
              = DOMAIN workItems \cup DOMAIN decisions \cup {t}
         /\ DOMAIN tokens' = DOMAIN tokens
         /\ t \notin DOMAIN workItems /\ t \notin DOMAIN decisions
<1>1. DOMAIN tokens' = DOMAIN tokens
  BY DEF Moved
<1>2. \A u \in DOMAIN tokens : Status(u)' = "WAITING" <=> Status(u) = "WAITING" \/ u = t
  BY DEF Moved, Status
<1>3. { u \in DOMAIN tokens : Status(u) = "WAITING" } = DOMAIN workItems \cup DOMAIN decisions
  BY DEF IInv, WaitsMatchTokens
<1>4. { u \in DOMAIN tokens' : Status(u)' = "WAITING" }
        = { u \in DOMAIN tokens : Status(u) = "WAITING" } \cup {t}
  BY <1>1, <1>2
<1>5. t \notin { u \in DOMAIN tokens : Status(u) = "WAITING" }
  OBVIOUS
<1> QED BY <1>1, <1>3, <1>4, <1>5

LEMMA CreateWorkItemKeeps ==
  ASSUME IInv, NEW c \in ready \cup applied, CreateWorkItem(c)
  PROVE  IInv'
<1> DEFINE item == [node |-> c.node, scope |-> c.scope, multi |-> NotMulti]
<1>1. /\ AtWork(c) /\ ~IsJoin(c.node) /\ "WAITING" \in Statuses
      /\ tokens' = Set({c.token}, "WAITING") /\ Answer(c, {})
      /\ UNCHANGED <<scopes, joinArrivals, status, completions, mintVars>>
      /\ UNCHANGED miPending /\ decisions' = decisions
      /\ workItems' = workItems ++ [t \in {c.token} |-> item]
  BY DEF CreateWorkItem, IsWork, IsExternal, IsJoin, Tasks, Statuses
<1>2. /\ TokensTyped' /\ QueueTyped' /\ ScopesTyped' /\ JoinsTyped' /\ StatusTyped'
      /\ ScopesHaveNodes' /\ NamesAgree' /\ JoinsHoldParked'
      /\ Moved({c.token}, "WAITING", {}) /\ minted' = minted
  BY <1>1, WaitStep
<1>3. EntriesTyped'
  BY <1>1, <1>2, EntriesKept
<1>4. /\ c.token \in DOMAIN tokens /\ c.node \in Nodes /\ c.scope \in ScopesUpTo(minted)
      /\ tokens[c.token].node = c.node /\ tokens[c.token].scope = c.scope
      /\ Status(c.token) = "ACTIVE"
  BY <1>1, AtWorkFacts DEF Status
<1>5. /\ { u \in DOMAIN tokens' : Status(u)' = "WAITING" }
           = DOMAIN workItems \cup DOMAIN decisions \cup {c.token}
      /\ DOMAIN tokens' = DOMAIN tokens
      /\ c.token \notin DOMAIN workItems /\ c.token \notin DOMAIN decisions
  BY <1>2, <1>4, OneMoreWaits
<1>6. /\ DOMAIN workItems' = DOMAIN workItems \cup {c.token}
      /\ workItems'[c.token] = item /\ \A t \in DOMAIN workItems : workItems'[t] = workItems[t]
      /\ workItems' = [t \in DOMAIN workItems' |-> workItems'[t]]
  <2>1. workItems' = [t \in DOMAIN workItems \cup {c.token} |->
                        IF t \in DOMAIN workItems THEN workItems[t] ELSE item]
    BY <1>1 DEF ++
  <2> HIDE DEF item
  <2>2. DOMAIN workItems' = DOMAIN workItems \cup {c.token}
    BY <2>1
  <2> QED BY <1>5, <2>1, <2>2
<1>7. item \in Work(minted) /\ item.node = c.node /\ item.scope = c.scope
  BY <1>4 DEF Work
<1> HIDE DEF item
<1>8. WaitsTyped'
  <2>1. workItems' \in [DOMAIN workItems' -> Work(minted)]
    BY <1>6, <1>7 DEF IInv, WaitsTyped
  <2> QED BY <1>1, <1>2, <1>4, <1>5, <1>6, <2>1 DEF IInv, WaitsTyped
<1>9. WaitsMatchTokens'
  <2>1. \A t \in DOMAIN tokens : tokens'[t].node = tokens[t].node /\ tokens'[t].scope = tokens[t].scope
    BY <1>2 DEF Moved
  <2>2. DOMAIN workItems \subseteq DOMAIN tokens /\ DOMAIN decisions \subseteq DOMAIN tokens
    BY DEF IInv, WaitsTyped
  <2>3. { t \in DOMAIN tokens' : Status(t)' = "WAITING" } = DOMAIN workItems' \cup DOMAIN decisions'
    BY <1>1, <1>5, <1>6
  <2>4. DOMAIN workItems' \cap DOMAIN decisions' = {}
    BY <1>1, <1>5, <1>6 DEF IInv, WaitsMatchTokens
  <2>5. \A t \in DOMAIN workItems' :
          workItems'[t].node = tokens'[t].node /\ workItems'[t].scope = tokens'[t].scope
    <3>1. \A t \in DOMAIN workItems :
            workItems'[t].node = tokens'[t].node /\ workItems'[t].scope = tokens'[t].scope
      BY <1>6, <2>1, <2>2 DEF IInv, WaitsMatchTokens
    <3>2. /\ workItems'[c.token].node = tokens'[c.token].node
          /\ workItems'[c.token].scope = tokens'[c.token].scope
      BY <1>4, <1>6, <1>7, <2>1
    <3> QED BY <1>6, <3>1, <3>2
  <2>6. \A t \in DOMAIN decisions' :
          decisions'[t].node = tokens'[t].node /\ decisions'[t].scope = tokens'[t].scope
    BY <1>1, <2>1, <2>2 DEF IInv, WaitsMatchTokens
  <2> QED BY <2>3, <2>4, <2>5, <2>6 DEF WaitsMatchTokens
<1> QED BY <1>2, <1>3, <1>8, <1>9 DEF IInv

LEMMA RequestDecisionKeeps ==
  ASSUME IInv, NEW c \in ready \cup applied, RequestDecision(c)
  PROVE  IInv'
<1> DEFINE question == [node |-> c.node, scope |-> c.scope]
<1>1. /\ AtWork(c) /\ ~IsJoin(c.node) /\ "WAITING" \in Statuses
      /\ tokens' = Set({c.token}, "WAITING") /\ Answer(c, {})
      /\ UNCHANGED <<scopes, joinArrivals, status, completions, mintVars>>
      /\ UNCHANGED miPending /\ workItems' = workItems
      /\ decisions' = decisions ++ [t \in {c.token} |-> question]
  BY DEF RequestDecision, IsJoin, Statuses
<1>2. /\ TokensTyped' /\ QueueTyped' /\ ScopesTyped' /\ JoinsTyped' /\ StatusTyped'
      /\ ScopesHaveNodes' /\ NamesAgree' /\ JoinsHoldParked'
      /\ Moved({c.token}, "WAITING", {}) /\ minted' = minted
  BY <1>1, WaitStep
<1>3. EntriesTyped'
  BY <1>1, <1>2, EntriesKept
<1>4. /\ c.token \in DOMAIN tokens /\ c.node \in Nodes /\ c.scope \in ScopesUpTo(minted)
      /\ tokens[c.token].node = c.node /\ tokens[c.token].scope = c.scope
      /\ Status(c.token) = "ACTIVE"
  BY <1>1, AtWorkFacts DEF Status
<1>5. /\ { u \in DOMAIN tokens' : Status(u)' = "WAITING" }
           = DOMAIN workItems \cup DOMAIN decisions \cup {c.token}
      /\ DOMAIN tokens' = DOMAIN tokens
      /\ c.token \notin DOMAIN workItems /\ c.token \notin DOMAIN decisions
  BY <1>2, <1>4, OneMoreWaits
<1>6. /\ DOMAIN decisions' = DOMAIN decisions \cup {c.token}
      /\ decisions'[c.token] = question /\ \A t \in DOMAIN decisions : decisions'[t] = decisions[t]
      /\ decisions' = [t \in DOMAIN decisions' |-> decisions'[t]]
  <2>1. decisions' = [t \in DOMAIN decisions \cup {c.token} |->
                        IF t \in DOMAIN decisions THEN decisions[t] ELSE question]
    BY <1>1 DEF ++
  <2> HIDE DEF question
  <2>2. DOMAIN decisions' = DOMAIN decisions \cup {c.token}
    BY <2>1
  <2> QED BY <1>5, <2>1, <2>2
<1>7. /\ question \in [node : Nodes, scope : ScopesUpTo(minted)]
      /\ question.node = c.node /\ question.scope = c.scope
  BY <1>4
<1> HIDE DEF question
<1>8. WaitsTyped'
  <2>1. decisions' \in [DOMAIN decisions' -> [node : Nodes, scope : ScopesUpTo(minted)]]
    BY <1>6, <1>7 DEF IInv, WaitsTyped
  <2> QED BY <1>1, <1>2, <1>4, <1>5, <1>6, <2>1 DEF IInv, WaitsTyped
<1>9. WaitsMatchTokens'
  <2>1. \A t \in DOMAIN tokens : tokens'[t].node = tokens[t].node /\ tokens'[t].scope = tokens[t].scope
    BY <1>2 DEF Moved
  <2>2. DOMAIN workItems \subseteq DOMAIN tokens /\ DOMAIN decisions \subseteq DOMAIN tokens
    BY DEF IInv, WaitsTyped
  <2>3. { t \in DOMAIN tokens' : Status(t)' = "WAITING" } = DOMAIN workItems' \cup DOMAIN decisions'
    BY <1>1, <1>5, <1>6
  <2>4. DOMAIN workItems' \cap DOMAIN decisions' = {}
    BY <1>1, <1>5, <1>6 DEF IInv, WaitsMatchTokens
  <2>5. \A t \in DOMAIN decisions' :
          decisions'[t].node = tokens'[t].node /\ decisions'[t].scope = tokens'[t].scope
    <3>1. \A t \in DOMAIN decisions :
            decisions'[t].node = tokens'[t].node /\ decisions'[t].scope = tokens'[t].scope
      BY <1>6, <2>1, <2>2 DEF IInv, WaitsMatchTokens
    <3>2. /\ decisions'[c.token].node = tokens'[c.token].node
          /\ decisions'[c.token].scope = tokens'[c.token].scope
      BY <1>4, <1>6, <1>7, <2>1
    <3> QED BY <1>6, <3>1, <3>2
  <2>6. \A t \in DOMAIN workItems' :
          workItems'[t].node = tokens'[t].node /\ workItems'[t].scope = tokens'[t].scope
    BY <1>1, <2>1, <2>2 DEF IInv, WaitsMatchTokens
  <2> QED BY <2>3, <2>4, <2>5, <2>6 DEF WaitsMatchTokens
<1> QED BY <1>2, <1>3, <1>8, <1>9 DEF IInv

LEMMA AskForItemsKeeps ==
  ASSUME IInv, NEW c \in ready \cup applied, AskForItems(c)
  PROVE  IInv'
<1> DEFINE entry == [parent |-> c.token, total |-> 0, completed |-> 0]
           k == <<c.node, c.scope>>
<1>1. /\ AtWork(c) /\ ~IsJoin(c.node) /\ "CONSUMED" \in Statuses
      /\ tokens' = Set({c.token}, "CONSUMED") /\ Answer(c, {})
      /\ UNCHANGED <<scopes, joinArrivals, status, completions, mintVars>>
      /\ UNCHANGED waitVars
      /\ miPending' = [key \in {k} |-> entry] ++ miPending
  BY DEF AskForItems, IsWork, IsExternal, IsJoin, Tasks, Statuses
<1>2. /\ TokensTyped' /\ QueueTyped' /\ ScopesTyped' /\ JoinsTyped' /\ StatusTyped'
      /\ ScopesHaveNodes' /\ NamesAgree' /\ JoinsHoldParked'
      /\ Moved({c.token}, "CONSUMED", {}) /\ minted' = minted
  BY <1>1, WaitStep
<1>3. /\ c.token \in 1..minted /\ c.node \in Nodes /\ c.scope \in ScopesUpTo(minted)
      /\ Status(c.token) = "ACTIVE"
  BY <1>1, AtWorkFacts DEF Status
<1>4. WaitsTyped' /\ WaitsMatchTokens'
  BY <1>1, <1>2, <1>3, WaitsKept
<1>5. EntriesTyped'
  <2>1. entry \in [parent : 1..minted, total : Nat, completed : Nat] /\ k \in Nodes \X ScopesUpTo(minted)
    BY <1>3
  <2> HIDE DEF entry, k
  <2>2. miPending' = [key \in {k} \cup DOMAIN miPending |->
                        IF key \in {k} THEN [x \in {k} |-> entry][key] ELSE miPending[key]]
    BY <1>1 DEF ++
  <2>3. \A key \in {k} \cup DOMAIN miPending :
          miPending'[key] \in [parent : 1..minted, total : Nat, completed : Nat]
    BY <2>1, <2>2 DEF IInv, EntriesTyped
  <2>4. DOMAIN miPending' = {k} \cup DOMAIN miPending
    BY <2>2
  <2>5. miPending' \in [DOMAIN miPending' -> [parent : 1..minted, total : Nat, completed : Nat]]
    BY <2>2, <2>3, <2>4
  <2> QED BY <1>2, <2>1, <2>4, <2>5 DEF IInv, EntriesTyped
<1> QED BY <1>2, <1>4, <1>5 DEF IInv

LEMMA PassThroughStep ==
  ASSUME IInv, NEW c \in ready \cup applied, PassThrough(c)
  PROVE  LET N == Fresh(Len(FirstOut(c.node))) IN
         /\ TokensTyped' /\ QueueTyped' /\ NamesAgree' /\ Moved({c.token}, "CONSUMED", N)
         /\ applied \subseteq applied' /\ \A t \in N : HasWork(t)'
         /\ \A t \in N : /\ t \notin DOMAIN tokens /\ tokens'[t].status = "ACTIVE"
                         /\ Outgoing[c.node] # <<>> /\ Outgoing[c.node][1] \in Flows
                         /\ via'[t] = Outgoing[c.node][1]
                         /\ tokens'[t] = NewToken(To[Outgoing[c.node][1]], c.scope, "ACTIVE")
<1> DEFINE out == FirstOut(c.node)
           N == Fresh(Len(out))
           f == Outgoing[c.node][1]
           in == FirstOf(Incoming[c.node])
           new == [t \in N |-> NewToken(To[out[1]], c.scope, "ACTIVE")]
           conts == { AtNode(t, To[out[1]], c.scope, in) : t \in N }
<1>1. /\ AtWork(c) /\ TokensTyped /\ Type[c.node] = "exclusiveGateway"
      /\ tokens' = Set({c.token}, "CONSUMED") ++ new /\ Mint(out) /\ Answer(c, conts)
  BY DEF PassThrough, IInv
<1>2. /\ c.node \in Nodes /\ c.scope \in ScopesUpTo(minted) /\ Incoming[c.node] # <<>>
      /\ "CONSUMED" \in Statuses
  BY <1>1, AtWorkFacts DEF Statuses
<1>3. in \in Flows /\ out \in Seq(Flows) /\ Outgoing[c.node] \in Seq(Flows)
  BY <1>2, GraphFacts
<1>4. out \in Seq(Places)
  BY <1>3, GraphFacts, SeqMonotonic
<1>5. /\ minted \in Nat /\ minted' \in Nat /\ minted <= minted' /\ minted' = minted + Len(out)
      /\ N = minted + 1 .. minted'
      /\ \A t \in N : via'[t] = out[t - minted] /\ t - minted \in DOMAIN out
  BY <1>1, <1>4, MintGrows DEF TokensTyped
<1>6. \A t \in N : Outgoing[c.node] # <<>> /\ Len(out) = 1 /\ out[1] = f /\ t - minted = 1
  <2>1. CASE Outgoing[c.node] = <<>>
    <3>1. out = <<>>
      BY <2>1 DEF FirstOut
    <3>2. N = {}
      BY <1>5, <3>1
    <3> QED BY <3>2
  <2>2. CASE Outgoing[c.node] # <<>>
    <3>1. out = <<f>>
      BY <2>2 DEF FirstOut
    <3>2. Len(out) = 1 /\ out[1] = f /\ DOMAIN out = {1}
      BY <3>1
    <3> QED BY <1>5, <2>2, <3>2
  <2> QED BY <2>1, <2>2
<1>7. \A t \in N : f \in Flows /\ To[f] \in Nodes /\ Incoming[To[f]] # <<>>
  <2>1. Outgoing[c.node] # <<>> => f \in Flows
    BY <1>3
  <2> QED BY <1>6, <2>1, GraphFacts
<1>8. c.scope \in ScopesUpTo(minted')
  BY <1>2, <1>5, IdsGrow
<1> HIDE DEF out, f, in, N
<1>9. \A t \in N : new[t] \in Tokens(minted') /\ new[t] = NewToken(To[f], c.scope, "ACTIVE")
  BY <1>6, <1>7, <1>8 DEF NewToken, Tokens, Statuses
<1>10. DOMAIN new = N
  OBVIOUS
<1> HIDE DEF new
<1>11. N \in SUBSET Fresh(Len(out))
  BY DEF N
<1>12. /\ TokensTyped' /\ Moved({c.token}, "CONSUMED", N)
       /\ \A t \in N : tokens'[t] = new[t] /\ t \notin DOMAIN tokens
  BY <1>1, <1>2, <1>4, <1>9, <1>10, <1>11, TokensStep
<1>13. \A t \in N : /\ AtNode(t, To[f], c.scope, in) \in ContinuationsUpTo(minted')
                    /\ AtNode(t, To[f], c.scope, in).kind = "TOKEN_AT_NODE"
                    /\ AtNode(t, To[f], c.scope, in).token = t
                    /\ AtNode(t, To[f], c.scope, in).node = To[f]
                    /\ AtNode(t, To[f], c.scope, in).scope = c.scope
                    /\ AtNode(t, To[f], c.scope, in).flow = in
  <2>1. \A t \in N : t \in 1..minted'
    BY <1>5
  <2> QED BY <1>3, <1>5, <1>7, <1>8, <2>1, NewContinuation
<1>14. \A t \in N : /\ t \notin 1..minted
                    /\ tokens'[t].node = To[f] /\ tokens'[t].scope = c.scope
                    /\ tokens'[t].status = "ACTIVE"
  <2>1. \A t \in N : t \notin 1..minted
    BY <1>5
  <2>2. \A t \in N : tokens'[t] = NewToken(To[f], c.scope, "ACTIVE")
    BY <1>9, <1>12
  <2> QED BY <2>1, <2>2 DEF NewToken
<1>15. \A d \in conts : \E t \in N : d = AtNode(t, To[f], c.scope, in)
  BY <1>6
<1>16. \A t \in N : HasWork(t)'
  <2>1. conts \subseteq ready'
    BY <1>1 DEF Answer
  <2>2. \A t \in N : AtNode(t, To[f], c.scope, in) \in ready'
    BY <1>6, <2>1
  <2> QED BY <1>13, <1>14, <2>2 DEF HasWork
<1> HIDE DEF conts
<1>17. /\ \A d \in conts :
           /\ d \in ContinuationsUpTo(minted') /\ d.kind = "TOKEN_AT_NODE"
           /\ d.token \notin 1..minted
           /\ d.token \in N => tokens'[d.token].node = d.node /\ tokens'[d.token].scope = d.scope
           /\ Type[d.node] # "startEvent" => d.flow \in Flows /\ Incoming[d.node] # <<>>
       /\ \A d, e \in conts : d.token = e.token => d = e
  BY <1>3, <1>7, <1>13, <1>14, <1>15
<1>18. QueueTyped' /\ NamesAgree' /\ applied \subseteq applied'
  <2>1. Answer(c, conts)
    BY <1>1
  <2>2. Moved({c.token}, "CONSUMED", N)
    BY <1>12
  <2> QED BY <1>17, <2>1, <2>2, QueueStep
<1>19. \A t \in N : /\ t \notin DOMAIN tokens /\ tokens'[t].status = "ACTIVE"
                    /\ Outgoing[c.node] # <<>> /\ f \in Flows
                    /\ via'[t] = f
                    /\ tokens'[t] = NewToken(To[f], c.scope, "ACTIVE")
  BY <1>5, <1>6, <1>7, <1>9, <1>12, <1>14
<1> QED BY <1>12, <1>16, <1>18, <1>19 DEF N, f, out

LEMMA PassThroughKeeps ==
  ASSUME IInv, NEW c \in ready \cup applied, PassThrough(c)
  PROVE  IInv'
<1> DEFINE N == Fresh(Len(FirstOut(c.node)))
<1>1. /\ TokensTyped' /\ QueueTyped' /\ NamesAgree' /\ Moved({c.token}, "CONSUMED", N)
      /\ applied \subseteq applied'
      /\ \A t \in N : t \notin DOMAIN tokens /\ tokens'[t].status = "ACTIVE"
  BY PassThroughStep
<1> HIDE DEF N
<1>2. /\ AtWork(c) /\ ~IsJoin(c.node) /\ UNCHANGED scopes /\ UNCHANGED waitVars
      /\ UNCHANGED joinArrivals /\ UNCHANGED miPending /\ UNCHANGED <<status, completions>>
  BY DEF PassThrough, IsJoin
<1>3. /\ tokens[c.token].status = "ACTIVE"
      /\ \A key \in DOMAIN joinArrivals : \A f \in DOMAIN joinArrivals[key] :
           joinArrivals[key][f] \notin {c.token}
  BY <1>2, AtWorkFacts
<1>4. WaitsTyped' /\ WaitsMatchTokens'
  BY <1>1, <1>2, <1>3, WaitsKept DEF Status
<1>5. JoinsTyped' /\ JoinsHoldParked' /\ EntriesTyped' /\ ScopesTyped' /\ ScopesHaveNodes'
  BY <1>1, <1>2, <1>3, JoinsKept, EntriesKept, ScopesKept
<1>6. StatusTyped'
  BY <1>2 DEF IInv, StatusTyped
<1> QED BY <1>1, <1>4, <1>5, <1>6 DEF IInv

(* What has arrived at a join.                                             *)
LEMMA ArrivedFacts ==
  ASSUME IInv, NEW c \in ready \cup applied, AtJoin(c)
  PROVE  LET k == <<c.node, c.scope>> IN
         /\ c.flow \in Flows /\ Arrived(c)[c.flow] = c.token /\ c.flow \in DOMAIN Arrived(c)
         /\ IsJoin(c.node) /\ k \in Nodes \X ScopesUpTo(minted)
         /\ DOMAIN Arrived(c) \subseteq Flows
         /\ \A f \in DOMAIN Arrived(c) :
              f = c.flow \/ (k \in DOMAIN joinArrivals /\ f \in DOMAIN joinArrivals[k]
                             /\ Arrived(c)[f] = joinArrivals[k][f])
         /\ \A f \in DOMAIN Arrived(c) :
              /\ Arrived(c)[f] \in DOMAIN tokens
              /\ tokens[Arrived(c)[f]].node = c.node /\ tokens[Arrived(c)[f]].scope = c.scope
              /\ tokens[Arrived(c)[f]].status = "ACTIVE"
         /\ k \in DOMAIN joinArrivals => DOMAIN joinArrivals[k] \subseteq DOMAIN Arrived(c)
<1> DEFINE k == <<c.node, c.scope>>
           old == IF k \in DOMAIN joinArrivals THEN joinArrivals[k] ELSE <<>>
           one == [f \in {c.flow} |-> c.token]
           all == Arrived(c)
<1>1. /\ IsJoin(c.node) /\ AtWork(c) /\ Type[c.node] # "startEvent"
  BY DEF AtJoin, IsJoin
<1>2. /\ c.flow \in Flows /\ c.token \in DOMAIN tokens /\ c.node \in Nodes
      /\ c.scope \in ScopesUpTo(minted)
      /\ tokens[c.token].node = c.node /\ tokens[c.token].scope = c.scope
      /\ tokens[c.token].status = "ACTIVE"
  BY <1>1, AtWorkFacts
<1>3. all = one ++ old
  BY DEF Arrived
<1>4. DOMAIN one = {c.flow} /\ one[c.flow] = c.token
  OBVIOUS
<1> HIDE DEF one
<1>5. all = [f \in {c.flow} \cup DOMAIN old |-> IF f \in {c.flow} THEN one[f] ELSE old[f]]
  BY <1>3, <1>4 DEF ++
<1> HIDE DEF all
<1>6. DOMAIN all = {c.flow} \cup DOMAIN old /\ all[c.flow] = c.token
  BY <1>4, <1>5
<1>7. \A f \in DOMAIN all : f = c.flow \/ (f \in DOMAIN old /\ all[f] = old[f])
  BY <1>5, <1>6
<1>8. k \in DOMAIN joinArrivals => old = joinArrivals[k]
  OBVIOUS
<1>9. k \notin DOMAIN joinArrivals => DOMAIN old = {}
  OBVIOUS
<1> HIDE DEF old
<1>10. \A f \in DOMAIN all :
         f = c.flow \/ (k \in DOMAIN joinArrivals /\ f \in DOMAIN joinArrivals[k]
                        /\ all[f] = joinArrivals[k][f])
  BY <1>7, <1>8, <1>9
<1>11. k \in DOMAIN joinArrivals =>
         /\ DOMAIN joinArrivals[k] \subseteq Flows
         /\ \A f \in DOMAIN joinArrivals[k] :
              /\ joinArrivals[k][f] \in DOMAIN tokens
              /\ tokens[joinArrivals[k][f]].node = c.node
              /\ tokens[joinArrivals[k][f]].scope = c.scope
              /\ tokens[joinArrivals[k][f]].status = "ACTIVE"
  <2> SUFFICES ASSUME k \in DOMAIN joinArrivals
               PROVE  /\ DOMAIN joinArrivals[k] \subseteq Flows
                      /\ \A f \in DOMAIN joinArrivals[k] :
                           /\ joinArrivals[k][f] \in DOMAIN tokens
                           /\ tokens[joinArrivals[k][f]].node = c.node
                           /\ tokens[joinArrivals[k][f]].scope = c.scope
                           /\ tokens[joinArrivals[k][f]].status = "ACTIVE"
    OBVIOUS
  <2>1. JoinsTyped /\ JoinsHoldParked
    BY DEF IInv
  <2>2. /\ DOMAIN joinArrivals[k] \subseteq Flows
        /\ \A f \in DOMAIN joinArrivals[k] : joinArrivals[k][f] \in DOMAIN tokens
    BY <2>1 DEF JoinsTyped
  <2>3. \A f \in DOMAIN joinArrivals[k] : ParkedAt(k, f, joinArrivals[k][f])
    BY <2>1 DEF JoinsHoldParked
  <2>4. k[1] = c.node /\ k[2] = c.scope
    OBVIOUS
  <2> QED BY <2>2, <2>3, <2>4 DEF ParkedAt, Status
<1>12. DOMAIN all \subseteq Flows
  BY <1>2, <1>6, <1>8, <1>9, <1>11
<1>13. \A f \in DOMAIN all : /\ all[f] \in DOMAIN tokens
                             /\ tokens[all[f]].node = c.node /\ tokens[all[f]].scope = c.scope
                             /\ tokens[all[f]].status = "ACTIVE"
  BY <1>2, <1>6, <1>10, <1>11
<1>14. k \in DOMAIN joinArrivals => DOMAIN joinArrivals[k] \subseteq DOMAIN all
  BY <1>6, <1>8
<1>15. k \in Nodes \X ScopesUpTo(minted) /\ c.flow \in DOMAIN all
  BY <1>2, <1>6
<1> QED BY <1>1, <1>2, <1>6, <1>10, <1>12, <1>13, <1>14, <1>15 DEF all

LEMMA ParkKeeps ==
  ASSUME IInv, NEW c \in ready \cup applied, Park(c)
  PROVE  IInv'
<1> DEFINE k == <<c.node, c.scope>>
           all == Arrived(c)
<1>1. /\ AtJoin(c) /\ Answer(c, {}) /\ UNCHANGED <<tokens, mintVars>> /\ UNCHANGED waitVars
      /\ UNCHANGED scopes /\ UNCHANGED miPending /\ UNCHANGED <<status, completions>>
      /\ joinArrivals' = [key \in {k} |-> all] ++ joinArrivals
      /\ AtWork(c)
  BY DEF Park, AtJoin
<1>2. TokensTyped' /\ Moved({}, "CONSUMED", {}) /\ tokens' = tokens /\ minted' = minted
  BY <1>1, UnmovedTokens DEF mintVars
<1>3. QueueTyped' /\ NamesAgree' /\ applied \subseteq applied'
  BY <1>1, <1>2, QuietStep
<1>4. ScopesTyped' /\ ScopesHaveNodes' /\ EntriesTyped'
  BY <1>1, <1>2, ScopesKept, EntriesKept
<1>5. WaitsTyped' /\ WaitsMatchTokens'
  BY <1>1, <1>2, WaitsKept
<1>6. /\ c.flow \in Flows /\ all[c.flow] = c.token /\ c.flow \in DOMAIN all
      /\ IsJoin(c.node) /\ k \in Nodes \X ScopesUpTo(minted)
      /\ DOMAIN all \subseteq Flows
      /\ \A f \in DOMAIN all :
           f = c.flow \/ (k \in DOMAIN joinArrivals /\ f \in DOMAIN joinArrivals[k]
                          /\ all[f] = joinArrivals[k][f])
      /\ \A f \in DOMAIN all : all[f] \in DOMAIN tokens
  BY <1>1, ArrivedFacts
<1>7. c.kind = "TOKEN_AT_NODE" /\ c \in applied'
  BY <1>1 DEF AtWork, Answer
<1>8. /\ tokens[c.token].node = c.node /\ tokens[c.token].scope = c.scope
      /\ tokens[c.token].status = "ACTIVE"
  BY <1>1, AtWorkFacts
<1> HIDE DEF all
<1>9. /\ DOMAIN joinArrivals' = {k} \cup DOMAIN joinArrivals
      /\ joinArrivals'[k] = all
      /\ \A key \in DOMAIN joinArrivals : key # k => joinArrivals'[key] = joinArrivals[key]
  <2>1. joinArrivals' = [key \in {k} \cup DOMAIN joinArrivals |->
                           IF key \in {k} THEN [x \in {k} |-> all][key] ELSE joinArrivals[key]]
    BY <1>1 DEF ++
  <2> HIDE DEF k
  <2> QED BY <2>1
<1>10. JoinsTyped'
  BY <1>2, <1>6, <1>9 DEF IInv, JoinsTyped
<1>11. ASSUME NEW key \in DOMAIN joinArrivals, NEW f \in DOMAIN joinArrivals[key],
               NEW t, t = joinArrivals[key][f]
       PROVE  ParkedAt(key, f, t)'
  BY <1>2, <1>3, <1>11 DEF IInv, JoinsHoldParked, ParkedAt, Status
<1>12. ParkedAt(k, c.flow, c.token)'
  BY <1>2, <1>7, <1>8 DEF ParkedAt, Status
<1>13. ASSUME NEW f \in DOMAIN all, NEW t, t = all[f]
       PROVE  ParkedAt(k, f, t)'
  BY <1>6, <1>11, <1>12, <1>13
<1>14. JoinsHoldParked'
  <2>1. \A key \in DOMAIN joinArrivals' : IsJoin(key[1])'
    BY <1>6, <1>9 DEF IInv, JoinsHoldParked, IsJoin
  <2>2. ASSUME NEW key \in DOMAIN joinArrivals', NEW f \in DOMAIN joinArrivals'[key]
        PROVE  ParkedAt(key, f, joinArrivals[key][f])'
    <3>1. CASE key = k
      BY <1>9, <1>13, <2>2, <3>1
    <3>2. CASE key # k
      BY <1>9, <1>11, <2>2, <3>2
    <3> QED BY <3>1, <3>2
  <2> QED BY <2>1, <2>2 DEF JoinsHoldParked
<1>15. StatusTyped'
  BY <1>1 DEF IInv, StatusTyped
<1> QED BY <1>2, <1>3, <1>4, <1>5, <1>10, <1>14, <1>15 DEF IInv

LEMMA JoinKeeps ==
  ASSUME IInv, NEW c \in ready \cup applied, Join(c)
  PROVE  IInv'
<1> DEFINE k == <<c.node, c.scope>>
           all == Arrived(c)
           S == { all[f] : f \in ToSet(Incoming[c.node]) }
           flows == FirstOut(c.node)
           N == Fresh(Len(flows))
<1>1. /\ AtJoin(c) /\ ToSet(Incoming[c.node]) \subseteq DOMAIN all
      /\ SendAlong(c, Set(S, "CONSUMED"), flows, c.scope)
      /\ UNCHANGED waitVars /\ UNCHANGED scopes /\ UNCHANGED miPending
      /\ UNCHANGED <<status, completions>>
      /\ joinArrivals' = Without(joinArrivals, {k})
  BY DEF Join, AllArrived
<1>2. c.node \in Nodes /\ c.scope \in ScopesUpTo(minted) /\ "CONSUMED" \in Statuses
  BY <1>1, AtWorkFacts DEF AtJoin, Statuses
<1>3. flows \in Seq(Flows)
  BY <1>2, GraphFacts
<1> HIDE DEF flows, S
<1>4. /\ TokensTyped' /\ QueueTyped' /\ NamesAgree' /\ Moved(S, "CONSUMED", N)
      /\ applied \subseteq applied'
      /\ \A t \in N : t \notin DOMAIN tokens /\ tokens'[t].status = "ACTIVE"
  BY <1>1, <1>2, <1>3, SendAlongStep
<1> HIDE DEF N
<1>5. \A t \in S : /\ t \in DOMAIN tokens /\ tokens[t].status = "ACTIVE"
                   /\ tokens[t].node = c.node /\ tokens[t].scope = c.scope
  <2>1. \A f \in DOMAIN all :
          /\ all[f] \in DOMAIN tokens /\ tokens[all[f]].status = "ACTIVE"
          /\ tokens[all[f]].node = c.node /\ tokens[all[f]].scope = c.scope
    BY <1>1, ArrivedFacts
  <2> QED BY <1>1, <2>1 DEF S
<1>6. WaitsTyped' /\ WaitsMatchTokens'
  BY <1>1, <1>4, <1>5, WaitsKept DEF Status
<1>7. EntriesTyped' /\ ScopesTyped' /\ ScopesHaveNodes'
  BY <1>1, <1>4, EntriesKept, ScopesKept
<1>8. StatusTyped'
  BY <1>1 DEF IInv, StatusTyped
<1>9. /\ DOMAIN joinArrivals' = DOMAIN joinArrivals \ {k}
      /\ \A key \in DOMAIN joinArrivals' : joinArrivals'[key] = joinArrivals[key]
  <2> HIDE DEF k
  <2>1. joinArrivals' = [key \in DOMAIN joinArrivals \ {k} |-> joinArrivals[key]]
    BY <1>1 DEF Without, Restrict
  <2> QED BY <2>1
<1>10. JoinsTyped'
  <2>1. ScopesUpTo(minted) \subseteq ScopesUpTo(minted') /\ DOMAIN tokens' = DOMAIN tokens \cup N
    BY <1>4, IdsGrow DEF IInv, TokensTyped, Moved
  <2> QED BY <1>9, <2>1 DEF IInv, JoinsTyped
<1>11. ASSUME NEW key \in DOMAIN joinArrivals, key # k, NEW f \in DOMAIN joinArrivals[key],
              NEW t, t = joinArrivals[key][f]
       PROVE  ParkedAt(key, f, t)'
  <2>1. ParkedAt(key, f, t) /\ t \in DOMAIN tokens /\ key \in Nodes \X ScopesUpTo(minted)
    BY <1>11 DEF IInv, JoinsTyped, JoinsHoldParked
  <2>2. t \notin S
    BY <1>5, <1>11, <2>1 DEF ParkedAt
  <2> QED BY <1>4, <2>1, <2>2 DEF ParkedAt, Moved, Status
<1>12. JoinsHoldParked'
  <2>1. \A key \in DOMAIN joinArrivals' : IsJoin(key[1])'
    BY <1>9 DEF IInv, JoinsHoldParked, IsJoin
  <2>2. ASSUME NEW key \in DOMAIN joinArrivals', NEW f \in DOMAIN joinArrivals'[key]
        PROVE  ParkedAt(key, f, joinArrivals[key][f])'
    BY <1>9, <1>11, <2>2
  <2> QED BY <2>1, <2>2 DEF JoinsHoldParked
<1> QED BY <1>4, <1>6, <1>7, <1>8, <1>10, <1>12 DEF IInv

(* A token that is released no longer waits.                               *)
LEMMA ReleaseStep ==
  ASSUME IInv, NEW c \in ready \cup applied, NEW t \in DOMAIN workItems \cup DOMAIN decisions,
         NEW flows \in Seq(Flows), NEW s \in ScopesUpTo(minted),
         SendAlong(c, Set({t}, "CONSUMED"), flows, s),
         UNCHANGED <<scopes, joinArrivals, status, completions>>
  PROVE  LET N == Fresh(Len(flows)) IN
         /\ TokensTyped' /\ QueueTyped' /\ ScopesTyped' /\ JoinsTyped' /\ StatusTyped'
         /\ ScopesHaveNodes' /\ NamesAgree' /\ JoinsHoldParked'
         /\ Moved({t}, "CONSUMED", N) /\ minted' \in Nat /\ minted <= minted'
         /\ ScopesUpTo(minted) \subseteq ScopesUpTo(minted')
         /\ { u \in DOMAIN tokens' : Status(u)' = "WAITING" }
              = (DOMAIN workItems \cup DOMAIN decisions) \ {t}
<1> DEFINE N == Fresh(Len(flows))
<1>1. /\ TokensTyped' /\ QueueTyped' /\ NamesAgree' /\ Moved({t}, "CONSUMED", N)
      /\ applied \subseteq applied'
      /\ \A u \in N : u \notin DOMAIN tokens /\ tokens'[u].status = "ACTIVE"
  BY SendAlongStep DEF Statuses
<1> HIDE DEF N
<1>2. UNCHANGED scopes /\ UNCHANGED joinArrivals /\ UNCHANGED <<status, completions>>
  OBVIOUS
<1>3. { u \in DOMAIN tokens : Status(u) = "WAITING" } = DOMAIN workItems \cup DOMAIN decisions
  BY DEF IInv, WaitsMatchTokens
<1>4. t \in DOMAIN tokens /\ Status(t) = "WAITING"
  BY <1>3
<1>5. \A key \in DOMAIN joinArrivals : \A f \in DOMAIN joinArrivals[key] :
        joinArrivals[key][f] \notin {t}
  BY <1>4 DEF IInv, JoinsHoldParked, ParkedAt
<1>6. ScopesTyped' /\ ScopesHaveNodes' /\ JoinsTyped' /\ JoinsHoldParked'
  BY <1>1, <1>2, <1>5, ScopesKept, JoinsKept
<1>7. StatusTyped'
  BY <1>2 DEF IInv, StatusTyped
<1>8. minted' \in Nat /\ minted <= minted' /\ DOMAIN tokens' = DOMAIN tokens \cup N
  BY <1>1 DEF Moved
<1>9. ScopesUpTo(minted) \subseteq ScopesUpTo(minted')
  BY <1>8, IdsGrow DEF IInv, TokensTyped
<1>10. { u \in DOMAIN tokens' : Status(u)' = "WAITING" }
         = { u \in DOMAIN tokens : Status(u) = "WAITING" } \ {t}
  <2>1. \A u \in DOMAIN tokens : Status(u)' = "WAITING" <=> Status(u) = "WAITING" /\ u # t
    BY <1>1 DEF Moved, Status
  <2>2. \A u \in N : Status(u)' # "WAITING"
    BY <1>1 DEF Status
  <2> QED BY <1>8, <2>1, <2>2
<1> QED BY <1>1, <1>3, <1>6, <1>7, <1>8, <1>9, <1>10 DEF N

LEMMA TakeDecisionKeeps ==
  ASSUME IInv, NEW c \in ready \cup applied, TakeDecision(c)
  PROVE  IInv'
<1> DEFINE t == c.decision
           s == decisions[t].scope
           N == Fresh(Len(<<c.flow>>))
<1>1. /\ c.kind = "DECISION_RECORDED" /\ t \in DOMAIN decisions
      /\ SendAlong(c, Set({t}, "CONSUMED"), <<c.flow>>, s)
      /\ UNCHANGED <<scopes, joinArrivals, status, completions>>
      /\ UNCHANGED miPending /\ workItems' = workItems
      /\ decisions' = Without(decisions, {t})
  BY DEF TakeDecision
<1>2. c.flow \in Flows /\ <<c.flow>> \in Seq(Flows) /\ s \in ScopesUpTo(minted)
  <2>1. c \in ContinuationsUpTo(minted) /\ minted \in Nat
    BY DEF IInv, QueueTyped, TokensTyped
  <2>2. c.flow \in Flows
    BY <1>1, <2>1, KindsOfContinuations
  <2> QED BY <1>1, <2>2 DEF IInv, WaitsTyped
<1> HIDE DEF s, t
<1>3. /\ TokensTyped' /\ QueueTyped' /\ ScopesTyped' /\ JoinsTyped' /\ StatusTyped'
      /\ ScopesHaveNodes' /\ NamesAgree' /\ JoinsHoldParked'
      /\ Moved({t}, "CONSUMED", N) /\ minted' \in Nat /\ minted <= minted'
      /\ ScopesUpTo(minted) \subseteq ScopesUpTo(minted')
      /\ { u \in DOMAIN tokens' : Status(u)' = "WAITING" }
           = (DOMAIN workItems \cup DOMAIN decisions) \ {t}
  BY <1>1, <1>2, ReleaseStep
<1> HIDE DEF N
<1>4. EntriesTyped'
  BY <1>1, <1>3, EntriesKept
<1>5. /\ DOMAIN decisions' = DOMAIN decisions \ {t}
      /\ decisions' = [u \in DOMAIN decisions' |-> decisions[u]]
  <2>1. decisions' = [u \in DOMAIN decisions \ {t} |-> decisions[u]]
    BY <1>1 DEF Without, Restrict
  <2> QED BY <2>1
<1>6. /\ DOMAIN tokens \subseteq DOMAIN tokens' /\ Work(minted) \subseteq Work(minted')
      /\ \A u \in DOMAIN tokens : /\ tokens'[u].node = tokens[u].node
                                  /\ tokens'[u].scope = tokens[u].scope
  BY <1>3 DEF Moved, Work
<1>7. WaitsTyped'
  <2>1. /\ workItems' \in [DOMAIN workItems' -> Work(minted')]
        /\ DOMAIN workItems' \subseteq DOMAIN tokens'
    BY <1>1, <1>6 DEF IInv, WaitsTyped
  <2>2. /\ decisions' \in [DOMAIN decisions' -> [node : Nodes, scope : ScopesUpTo(minted')]]
        /\ DOMAIN decisions' \subseteq DOMAIN tokens'
    BY <1>3, <1>5, <1>6 DEF IInv, WaitsTyped
  <2> QED BY <2>1, <2>2 DEF WaitsTyped
<1>8. WaitsMatchTokens'
  <2>1. DOMAIN workItems \subseteq DOMAIN tokens /\ DOMAIN decisions \subseteq DOMAIN tokens
    BY DEF IInv, WaitsTyped
  <2>2. t \notin DOMAIN workItems
    BY <1>1 DEF IInv, WaitsMatchTokens, t
  <2> QED BY <1>1, <1>3, <1>5, <1>6, <2>1, <2>2 DEF IInv, WaitsMatchTokens
<1> QED BY <1>3, <1>4, <1>7, <1>8 DEF IInv

LEMMA CompleteWorkKeeps ==
  ASSUME IInv, NEW c \in ready \cup applied, CompleteWork(c)
  PROVE  IInv'
<1> DEFINE t == c.item
           item == workItems[t]
           key == item.multi
           flows == IF CountsOnly(key) THEN <<>> ELSE FirstOut(item.node)
           N == Fresh(Len(flows))
<1>1. /\ c.kind = "WORK_COMPLETED" /\ t \in DOMAIN workItems
      /\ SendAlong(c, Set({t}, "CONSUMED"), flows, item.scope)
      /\ UNCHANGED <<scopes, joinArrivals, status, completions>>
      /\ decisions' = decisions
      /\ workItems' = Without(workItems, {t})
      /\ miPending' = IF CountsOnly(key) THEN [miPending EXCEPT ![key].completed = @ + 1]
                      ELSE Without(miPending, {key})
  BY DEF CompleteWork
<1>2. flows \in Seq(Flows) /\ item.scope \in ScopesUpTo(minted)
  <2>1. item.node \in Nodes /\ item.scope \in ScopesUpTo(minted)
    BY <1>1 DEF IInv, WaitsTyped, Work
  <2>2. FirstOut(item.node) \in Seq(Flows) /\ <<>> \in Seq(Flows)
    BY <2>1, GraphFacts
  <2> QED BY <2>1, <2>2
<1> HIDE DEF item, key, t, flows
<1>3. /\ TokensTyped' /\ QueueTyped' /\ ScopesTyped' /\ JoinsTyped' /\ StatusTyped'
      /\ ScopesHaveNodes' /\ NamesAgree' /\ JoinsHoldParked'
      /\ Moved({t}, "CONSUMED", N) /\ minted' \in Nat /\ minted <= minted'
      /\ ScopesUpTo(minted) \subseteq ScopesUpTo(minted')
      /\ { u \in DOMAIN tokens' : Status(u)' = "WAITING" }
           = (DOMAIN workItems \cup DOMAIN decisions) \ {t}
  BY <1>1, <1>2, ReleaseStep
<1> HIDE DEF N
<1>4. EntriesTyped'
  <2> DEFINE E(m) == [parent : 1..m, total : Nat, completed : Nat]
  <2>1. E(minted) \subseteq E(minted')
    BY <1>3, IdsGrow DEF IInv, TokensTyped
  <2>2. \A k \in DOMAIN miPending : miPending[k] \in E(minted)
    BY DEF IInv, EntriesTyped
  <2>3. DOMAIN miPending \subseteq Nodes \X ScopesUpTo(minted')
    BY <1>3 DEF IInv, EntriesTyped
  <2>4. CASE CountsOnly(key)
    <3>1. miPending' = [k \in DOMAIN miPending |->
                          IF k = key THEN [miPending[k] EXCEPT !.completed = @ + 1] ELSE miPending[k]]
      BY <1>1, <2>4
    <3>2. \A e \in E(minted) : [e EXCEPT !.completed = @ + 1] \in E(minted)
      OBVIOUS
    <3> HIDE DEF E
    <3>3. \A k \in DOMAIN miPending : miPending'[k] \in E(minted')
      BY <2>1, <2>2, <3>1, <3>2
    <3>4. miPending' \in [DOMAIN miPending -> E(minted')] /\ DOMAIN miPending' = DOMAIN miPending
      BY <3>1, <3>3
    <3> QED BY <2>3, <3>4 DEF EntriesTyped, E
  <2>5. CASE ~CountsOnly(key)
    <3>1. miPending' = [k \in DOMAIN miPending \ {key} |-> miPending[k]]
      BY <1>1, <2>5 DEF Without, Restrict
    <3> HIDE DEF E
    <3>2. DOMAIN miPending' \subseteq DOMAIN miPending /\ miPending' \in [DOMAIN miPending' -> E(minted')]
      BY <2>1, <2>2, <3>1
    <3> QED BY <2>3, <3>2 DEF EntriesTyped, E
  <2> QED BY <2>4, <2>5
<1>5. /\ DOMAIN workItems' = DOMAIN workItems \ {t}
      /\ workItems' = [u \in DOMAIN workItems' |-> workItems[u]]
  <2>1. workItems' = [u \in DOMAIN workItems \ {t} |-> workItems[u]]
    BY <1>1 DEF Without, Restrict
  <2> QED BY <2>1
<1>6. /\ DOMAIN tokens \subseteq DOMAIN tokens' /\ Work(minted) \subseteq Work(minted')
      /\ \A u \in DOMAIN tokens : /\ tokens'[u].node = tokens[u].node
                                  /\ tokens'[u].scope = tokens[u].scope
  BY <1>3 DEF Moved, Work
<1>7. WaitsTyped'
  <2>1. /\ workItems' \in [DOMAIN workItems' -> Work(minted')]
        /\ DOMAIN workItems' \subseteq DOMAIN tokens'
    BY <1>5, <1>6 DEF IInv, WaitsTyped
  <2>2. /\ decisions' \in [DOMAIN decisions' -> [node : Nodes, scope : ScopesUpTo(minted')]]
        /\ DOMAIN decisions' \subseteq DOMAIN tokens'
    BY <1>1, <1>3, <1>6 DEF IInv, WaitsTyped
  <2> QED BY <2>1, <2>2 DEF WaitsTyped
<1>8. WaitsMatchTokens'
  <2>1. DOMAIN workItems \subseteq DOMAIN tokens /\ DOMAIN decisions \subseteq DOMAIN tokens
    BY DEF IInv, WaitsTyped
  <2>2. t \notin DOMAIN decisions
    BY <1>1 DEF IInv, WaitsMatchTokens, t
  <2> QED BY <1>1, <1>3, <1>5, <1>6, <2>1, <2>2 DEF IInv, WaitsMatchTokens
<1> QED BY <1>3, <1>4, <1>7, <1>8 DEF IInv

LEMMA FanOutStep ==
  ASSUME IInv, NEW c \in ready \cup applied, FanOut(c)
  PROVE  LET N == Fresh(c.items) IN
         /\ TokensTyped' /\ QueueTyped' /\ NamesAgree' /\ Moved({}, "CONSUMED", N)
         /\ applied \subseteq applied' /\ c.items \in Nat /\ c.items > 0 /\ N = minted + 1 .. minted'
         /\ c.key \in DOMAIN miPending /\ c.key \in Nodes \X ScopesUpTo(minted)
         /\ minted' = minted + c.items
         /\ \A t \in N : /\ t \notin DOMAIN tokens
                         /\ tokens'[t] = NewToken(c.key[1], c.key[2], "WAITING")
                         /\ tokens'[t].node = c.key[1] /\ tokens'[t].scope = c.key[2]
                         /\ tokens'[t].status = "WAITING"
<1> DEFINE places == [i \in 1..c.items |-> via[miPending[c.key].parent]]
           N == Fresh(c.items)
           new == [t \in N |-> NewToken(c.key[1], c.key[2], "WAITING")]
<1>1. /\ c.kind = "MULTI_INSTANCE_RESOLVED" /\ c.key \in DOMAIN miPending /\ c.items > 0
      /\ tokens' = tokens ++ new /\ Mint(places) /\ Answer(c, {}) /\ TokensTyped
  BY DEF FanOut, IInv
<1>2. c.key \in Nodes \X ScopesUpTo(minted) /\ c.items \in Nat
  <2>1. c \in ContinuationsUpTo(minted) /\ minted \in Nat
    BY DEF IInv, QueueTyped, TokensTyped
  <2> QED BY <1>1, <2>1, KindsOfContinuations, BoundsAssumption
<1>3. places \in Seq(Places) /\ Len(places) = c.items
  <2>1. via[miPending[c.key].parent] \in Places
    BY <1>1 DEF IInv, EntriesTyped, TokensTyped
  <2> QED BY <1>2, <2>1
<1> HIDE DEF places
<1>4. /\ minted \in Nat /\ minted' \in Nat /\ minted <= minted' /\ minted' = minted + c.items
      /\ N = minted + 1 .. minted'
  BY <1>1, <1>3, MintGrows DEF TokensTyped
<1>5. c.key[1] \in Nodes /\ c.key[2] \in ScopesUpTo(minted')
  <2>1. ScopesUpTo(minted) \subseteq ScopesUpTo(minted')
    BY <1>4, IdsGrow
  <2> QED BY <1>2, <2>1
<1> HIDE DEF N
<1>6. \A t \in N : /\ new[t] \in Tokens(minted')
                   /\ new[t] = NewToken(c.key[1], c.key[2], "WAITING")
  BY <1>5 DEF NewToken, Tokens, Statuses
<1>7. DOMAIN new = N
  OBVIOUS
<1> HIDE DEF new
<1>8. Set({}, "CONSUMED") = tokens
  BY <1>1 DEF Set, TokensTyped
<1>9. tokens' = Set({}, "CONSUMED") ++ new /\ "CONSUMED" \in Statuses /\ N \in SUBSET Fresh(Len(places))
  BY <1>1, <1>3, <1>8 DEF Statuses, N
<1>10. /\ TokensTyped' /\ Moved({}, "CONSUMED", N)
       /\ \A t \in N : tokens'[t] = new[t] /\ t \notin DOMAIN tokens
  <2>1. TokensTyped /\ Mint(places) /\ places \in Seq(Places)
    BY <1>1, <1>3
  <2>2. \A t \in N : new[t] \in Tokens(minted')
    BY <1>6
  <2> QED BY <1>7, <1>9, <2>1, <2>2, TokensStep
<1>11. QueueTyped' /\ NamesAgree' /\ applied \subseteq applied'
  <2>1. Answer(c, {}) /\ Moved({}, "CONSUMED", N)
    BY <1>1, <1>10
  <2> QED BY <2>1, QuietStep
<1>12. \A t \in N : /\ t \notin DOMAIN tokens
                    /\ tokens'[t] = NewToken(c.key[1], c.key[2], "WAITING")
  BY <1>6, <1>10
<1>13. \A t \in N : /\ tokens'[t].node = c.key[1] /\ tokens'[t].scope = c.key[2]
                    /\ tokens'[t].status = "WAITING"
  BY <1>12 DEF NewToken
<1> QED BY <1>1, <1>2, <1>4, <1>10, <1>11, <1>12, <1>13 DEF N

LEMMA FanOutKeeps ==
  ASSUME IInv, NEW c \in ready \cup applied, FanOut(c)
  PROVE  IInv'
<1> DEFINE N == Fresh(c.items)
           item == [node |-> c.key[1], scope |-> c.key[2], multi |-> c.key]
<1>1. /\ TokensTyped' /\ QueueTyped' /\ NamesAgree' /\ Moved({}, "CONSUMED", N)
      /\ applied \subseteq applied' /\ c.items \in Nat
      /\ c.key \in DOMAIN miPending /\ c.key \in Nodes \X ScopesUpTo(minted)
      /\ \A t \in N : /\ t \notin DOMAIN tokens
                      /\ tokens'[t].node = c.key[1] /\ tokens'[t].scope = c.key[2]
                      /\ tokens'[t].status = "WAITING"
  BY FanOutStep
<1>2. /\ miPending' = [miPending EXCEPT ![c.key].total = c.items]
      /\ workItems' = workItems ++ [t \in N |-> item]
      /\ decisions' = decisions /\ UNCHANGED scopes /\ UNCHANGED joinArrivals
      /\ UNCHANGED <<status, completions>>
  BY DEF FanOut
<1> HIDE DEF N
<1>3. /\ minted' \in Nat /\ ScopesUpTo(minted) \subseteq ScopesUpTo(minted')
      /\ DOMAIN tokens' = DOMAIN tokens \cup N /\ 1..minted \subseteq 1..minted'
  BY <1>1, IdsGrow DEF IInv, TokensTyped, Moved
<1>4. ScopesTyped' /\ ScopesHaveNodes' /\ JoinsTyped' /\ JoinsHoldParked'
  BY <1>1, <1>2, ScopesKept, JoinsKept
<1>5. StatusTyped'
  BY <1>2 DEF IInv, StatusTyped
<1>6. EntriesTyped'
  <2> DEFINE E(m) == [parent : 1..m, total : Nat, completed : Nat]
  <2>1. E(minted) \subseteq E(minted')
    BY <1>3
  <2>2. \A k \in DOMAIN miPending : miPending[k] \in E(minted)
    BY DEF IInv, EntriesTyped
  <2>3. DOMAIN miPending \subseteq Nodes \X ScopesUpTo(minted')
    BY <1>3 DEF IInv, EntriesTyped
  <2>4. miPending' = [k \in DOMAIN miPending |->
                        IF k = c.key THEN [miPending[k] EXCEPT !.total = c.items] ELSE miPending[k]]
    BY <1>2
  <2>5. \A e \in E(minted) : [e EXCEPT !.total = c.items] \in E(minted)
    BY <1>1
  <2> HIDE DEF E
  <2>6. \A k \in DOMAIN miPending : miPending'[k] \in E(minted')
    BY <2>1, <2>2, <2>4, <2>5
  <2>7. miPending' \in [DOMAIN miPending -> E(minted')] /\ DOMAIN miPending' = DOMAIN miPending
    BY <2>4, <2>6
  <2> QED BY <2>3, <2>7 DEF EntriesTyped, E
<1>7. /\ DOMAIN workItems' = DOMAIN workItems \cup N
      /\ \A t \in DOMAIN workItems : workItems'[t] = workItems[t]
      /\ \A t \in N : t \notin DOMAIN workItems /\ workItems'[t] = item
      /\ workItems' = [t \in DOMAIN workItems' |-> workItems'[t]]
  <2> HIDE DEF item
  <2>1. workItems' = [t \in DOMAIN workItems \cup N |->
                        IF t \in DOMAIN workItems THEN workItems[t] ELSE [x \in N |-> item][t]]
    BY <1>2 DEF ++
  <2>2. DOMAIN workItems' = DOMAIN workItems \cup N
    BY <2>1
  <2>3. \A t \in N : t \notin DOMAIN workItems
    BY <1>1 DEF IInv, WaitsTyped
  <2> QED BY <2>1, <2>2, <2>3
<1>8. item \in Work(minted') /\ item.node = c.key[1] /\ item.scope = c.key[2] /\ Work(minted) \subseteq Work(minted')
  BY <1>1, <1>3 DEF Work
<1> HIDE DEF item
<1>9. WaitsTyped'
  <2>1. workItems' \in [DOMAIN workItems' -> Work(minted')]
    BY <1>7, <1>8 DEF IInv, WaitsTyped
  <2>2. decisions' \in [DOMAIN decisions' -> [node : Nodes, scope : ScopesUpTo(minted')]]
    BY <1>2, <1>3 DEF IInv, WaitsTyped
  <2>3. DOMAIN workItems' \subseteq DOMAIN tokens' /\ DOMAIN decisions' \subseteq DOMAIN tokens'
    BY <1>2, <1>3, <1>7 DEF IInv, WaitsTyped
  <2> QED BY <2>1, <2>2, <2>3 DEF WaitsTyped
<1>10. WaitsMatchTokens'
  <2>1. DOMAIN workItems \subseteq DOMAIN tokens /\ DOMAIN decisions \subseteq DOMAIN tokens
    BY DEF IInv, WaitsTyped
  <2>2. \A u \in DOMAIN tokens : /\ tokens'[u].node = tokens[u].node
                                 /\ tokens'[u].scope = tokens[u].scope
                                 /\ tokens'[u].status = tokens[u].status
    BY <1>1 DEF Moved
  <2>3. { u \in DOMAIN tokens' : Status(u)' = "WAITING" }
          = { u \in DOMAIN tokens : Status(u) = "WAITING" } \cup N
    BY <1>1, <1>3, <2>2 DEF Status
  <2>4. { u \in DOMAIN tokens' : Status(u)' = "WAITING" } = DOMAIN workItems' \cup DOMAIN decisions'
    BY <1>2, <1>7, <2>3 DEF IInv, WaitsMatchTokens
  <2>5. DOMAIN workItems' \cap DOMAIN decisions' = {}
    BY <1>1, <1>2, <1>7, <2>1 DEF IInv, WaitsMatchTokens
  <2>6. \A u \in DOMAIN workItems' : /\ workItems'[u].node = tokens'[u].node
                                     /\ workItems'[u].scope = tokens'[u].scope
    <3>1. \A u \in DOMAIN workItems : /\ workItems'[u].node = tokens'[u].node
                                      /\ workItems'[u].scope = tokens'[u].scope
      BY <1>7, <2>1, <2>2 DEF IInv, WaitsMatchTokens
    <3>2. \A u \in N : /\ workItems'[u].node = tokens'[u].node
                       /\ workItems'[u].scope = tokens'[u].scope
      BY <1>1, <1>7, <1>8
    <3> QED BY <1>7, <3>1, <3>2
  <2>7. \A u \in DOMAIN decisions' : /\ decisions'[u].node = tokens'[u].node
                                     /\ decisions'[u].scope = tokens'[u].scope
    BY <1>2, <2>1, <2>2 DEF IInv, WaitsMatchTokens
  <2> QED BY <2>4, <2>5, <2>6, <2>7 DEF WaitsMatchTokens
<1> QED BY <1>1, <1>4, <1>5, <1>6, <1>9, <1>10 DEF IInv

------------------------------------------------------------------------------
(* The invariant holds.                                                    *)

LEMMA InitHolds == Init => IInv
<1> SUFFICES ASSUME Init PROVE IInv
  OBVIOUS
<1>1. /\ tokens = <<>> /\ scopes = <<>> /\ workItems = <<>> /\ decisions = <<>> /\ joinArrivals = <<>>
      /\ miPending = <<>> /\ status = "RUNNING" /\ completions = 0 /\ minted = 0 /\ via = <<>>
      /\ ready = {StartCont} /\ applied = {} /\ repeats = 0
  BY DEF Init
<1>2. DOMAIN tokens = {} /\ DOMAIN scopes = {} /\ DOMAIN workItems = {} /\ DOMAIN decisions = {}
      /\ DOMAIN joinArrivals = {} /\ DOMAIN miPending = {}
  BY <1>1
<1>3. TokensTyped
  <2>1. 1..minted = {}
    BY <1>1
  <2>2. tokens \in [DOMAIN tokens -> Tokens(minted)] /\ via \in [1..minted -> Places]
    BY <1>1, <1>2, <2>1
  <2> QED BY <1>1, <1>2, <2>2 DEF TokensTyped
<1>4. QueueTyped
  BY <1>1, BoundsAssumption DEF QueueTyped, ContinuationsUpTo
<1>5. ScopesTyped /\ JoinsTyped /\ ScopesHaveNodes /\ JoinsHoldParked
  BY <1>1, <1>2 DEF ScopesTyped, JoinsTyped, ScopesHaveNodes, JoinsHoldParked
<1>6. WaitsTyped
  BY <1>1, <1>2 DEF WaitsTyped
<1>7. EntriesTyped
  BY <1>1, <1>2 DEF EntriesTyped
<1>8. StatusTyped /\ WaitsMatchTokens
  BY <1>1, <1>2 DEF StatusTyped, WaitsMatchTokens
<1>9. NamesAgree
  <2>1. AtNodes = {}
    BY <1>1 DEF AtNodes, StartCont
  <2> QED BY <2>1 DEF NamesAgree
<1> QED BY <1>3, <1>4, <1>5, <1>6, <1>7, <1>8, <1>9 DEF IInv

LEMMA StepKeeps == IInv /\ [Next]_vars => IInv'
<1> SUFFICES ASSUME IInv, [Next]_vars PROVE IInv'
  OBVIOUS
<1>1. ASSUME NEW c \in ready \cup applied, ApplyTransition(c) PROVE IInv'
  BY <1>1, StartKeeps, NothingToDoKeeps, PassOnActionsKeep, EndSubProcessKeeps, EndEventKeeps,
     EnterSubProcessKeeps, CreateWorkItemKeeps, AskForItemsKeeps, RequestDecisionKeeps,
     PassThroughKeeps, ParkKeeps, JoinKeeps, CompleteWorkKeeps, FanOutKeeps, TakeDecisionKeeps
     DEF ApplyTransition
<1>2. ASSUME NEW c \in Answers, HostAnswers(c) PROVE IInv'
  BY <1>2, HostAnswersKeeps
<1>3. CASE UNCHANGED vars
  <2>1. UNCHANGED <<tokens, mintVars>> /\ UNCHANGED waitVars /\ UNCHANGED scopes
        /\ UNCHANGED joinArrivals /\ UNCHANGED miPending /\ UNCHANGED <<status, completions>>
        /\ ready' = ready /\ applied' = applied /\ repeats' = repeats
        /\ minted' = minted
    BY <1>3 DEF vars, docVars, mintVars, queueVars
  <2>2. TokensTyped' /\ Moved({}, "CONSUMED", {})
    BY <2>1, UnmovedTokens
  <2>3. ScopesTyped' /\ ScopesHaveNodes' /\ EntriesTyped' /\ JoinsTyped' /\ JoinsHoldParked'
    BY <2>1, <2>2, ScopesKept, EntriesKept, JoinsKept
  <2>4. WaitsTyped' /\ WaitsMatchTokens'
    BY <2>1, <2>2, WaitsKept
  <2>5. QueueTyped' /\ StatusTyped'
    BY <2>1 DEF IInv, QueueTyped, StatusTyped
  <2>6. NamesAgree'
    BY <2>1 DEF IInv, NamesAgree, AtNodes, Named
  <2> QED BY <2>2, <2>3, <2>4, <2>5, <2>6 DEF IInv
<1> QED BY <1>1, <1>2, <1>3 DEF Next

(* The inductive invariant.                                                *)
THEOREM Invariance == Spec => []IInv
BY InitHolds, StepKeeps, PTL DEF Spec

(* Whatever the graph, the answers of the host and the continuations that  *)
(* are applied again: the documents of an instance keep their shape.       *)
THEOREM TypesHold == Spec => []TypeOK
<1>1. IInv => TypeOK
  BY TypesAreParts DEF IInv
<1> QED BY <1>1, Invariance, PTL

(* And the tokens that wait are exactly those that some work item or       *)
(* decision releases.                                                      *)
THEOREM WaitsMatch == Spec => []WaitsMatchTokens
<1>1. IInv => WaitsMatchTokens
  BY DEF IInv
<1> QED BY <1>1, Invariance, PTL

------------------------------------------------------------------------------
(* The shapes of a transition: how it answers its continuation.            *)

SendsAlong(c, S) ==
  \E flows \in Seq(Flows), s \in ScopesUpTo(minted) : SendAlong(c, Set(S, "CONSUMED"), flows, s)

PlacesAtStarts(c, S) ==
  \E starts \in Seq(Starts), s \in ScopesUpTo(minted) :
    PlaceAtStarts(c, Set(S, "CONSUMED"), starts, s)

Quiet(c) == Answer(c, {}) /\ UNCHANGED mintVars

LEMMA Shapes ==
  ASSUME IInv, NEW c \in ready \cup applied, ApplyTransition(c)
  PROVE  \/ /\ AtWork(c) /\ ~AtJoin(c) /\ SendsAlong(c, {c.token})
            /\ UNCHANGED <<waitVars, joinArrivals, miPending>>
         \/ Join(c) /\ SendsAlong(c, { Arrived(c)[f] : f \in ToSet(Incoming[c.node]) })
         \/ CompleteWork(c) /\ SendsAlong(c, {c.item})
         \/ TakeDecision(c) /\ SendsAlong(c, {c.decision})
         \/ /\ AtWork(c) /\ ~AtJoin(c) /\ PlacesAtStarts(c, {c.token})
            /\ UNCHANGED <<waitVars, joinArrivals, miPending>>
         \/ /\ DOMAIN tokens = {} /\ PlacesAtStarts(c, {})
            /\ UNCHANGED <<waitVars, joinArrivals, miPending>>
         \/ PassThrough(c)
         \/ FanOut(c)
         \/ Park(c) /\ Quiet(c)
         \/ AskForItems(c) /\ Quiet(c) /\ tokens' = Set({c.token}, "CONSUMED")
         \/ (CreateWorkItem(c) \/ RequestDecision(c)) /\ Quiet(c) /\ tokens' = Set({c.token}, "WAITING")
         \/ NoOp(c) /\ Quiet(c) /\ (Start(c) \/ NothingToDo(c) \/ TooLate(c))
<1> DEFINE Passes == /\ AtWork(c) /\ ~AtJoin(c) /\ SendsAlong(c, {c.token})
                     /\ UNCHANGED <<waitVars, joinArrivals, miPending>>
<1>1. AtWork(c) => c.node \in Nodes /\ c.scope \in ScopesUpTo(minted) /\ c.token \in 1..minted
  BY AtWorkFacts
<1>2. AtWork(c) => Outgoing[c.node] \in Seq(Flows) /\ FirstOut(c.node) \in Seq(Flows)
  BY <1>1, GraphFacts
<1>3. <<>> \in Seq(Flows)
  OBVIOUS
<1>4. CASE StartEvent(c) \/ EndInSubProcess(c) \/ Fork(c)
  <2>1. AtWork(c) /\ ~AtJoin(c) /\ (PassOn(c, Outgoing[c.node]) \/ PassOn(c, <<>>))
    BY <1>4, <1>2 DEF StartEvent, EndInSubProcess, Fork, AtJoin
  <2> QED BY <1>1, <1>2, <1>3, <2>1 DEF PassOn, SendsAlong
<1>5. CASE EndEvent(c)
  <2>1. /\ AtWork(c) /\ ~AtJoin(c) /\ UNCHANGED <<waitVars, joinArrivals, miPending>>
        /\ SendAlong(c, Set({c.token}, "CONSUMED"), <<>>, c.scope)
    BY <1>5 DEF EndEvent, AtJoin
  <2> QED BY <1>1, <1>3, <2>1 DEF SendsAlong
<1>6. CASE EndSubProcess(c)
  <2> DEFINE flows == FirstOut(scopes[c.scope].node)
             s == scopes[c.scope].parent
  <2>1. /\ AtWork(c) /\ ~AtJoin(c) /\ UNCHANGED <<waitVars, joinArrivals, miPending>>
        /\ c.scope \in DOMAIN scopes /\ c.scope # Root
        /\ SendAlong(c, Set({c.token}, "CONSUMED"), flows, s)
    BY <1>6 DEF EndSubProcess, AtJoin, InSubProcess
  <2>2. flows \in Seq(Flows) /\ s \in ScopesUpTo(minted)
    BY <2>1, GraphFacts DEF IInv, ScopesTyped, ScopesHaveNodes
  <2> QED BY <2>1, <2>2 DEF SendsAlong
<1>7. CASE Join(c)
  <2>1. AtWork(c)
    BY <1>7 DEF Join, AtJoin
  <2> QED BY <1>1, <1>2, <1>7, <2>1 DEF Join, SendsAlong
<1>8. CASE CompleteWork(c)
  <2> DEFINE item == workItems[c.item]
             flows == IF CountsOnly(item.multi) THEN <<>> ELSE FirstOut(item.node)
  <2>1. c.item \in DOMAIN workItems /\ SendAlong(c, Set({c.item}, "CONSUMED"), flows, item.scope)
    BY <1>8 DEF CompleteWork
  <2>2. item.node \in Nodes /\ item.scope \in ScopesUpTo(minted)
    BY <2>1 DEF IInv, WaitsTyped, Work
  <2>3. FirstOut(item.node) \in Seq(Flows)
    BY <2>2, GraphFacts
  <2>4. flows \in Seq(Flows)
    BY <1>3, <2>3
  <2> QED BY <1>8, <2>1, <2>2, <2>4 DEF SendsAlong
<1>9. CASE TakeDecision(c)
  <2>1. /\ c.kind = "DECISION_RECORDED" /\ c.decision \in DOMAIN decisions
        /\ SendAlong(c, Set({c.decision}, "CONSUMED"), <<c.flow>>, decisions[c.decision].scope)
    BY <1>9 DEF TakeDecision
  <2>2. c.flow \in Flows
    <3>1. c \in ContinuationsUpTo(minted) /\ minted \in Nat
      BY DEF IInv, QueueTyped, TokensTyped
    <3> QED BY <2>1, <3>1, KindsOfContinuations
  <2>3. <<c.flow>> \in Seq(Flows) /\ decisions[c.decision].scope \in ScopesUpTo(minted)
    BY <2>1, <2>2 DEF IInv, WaitsTyped
  <2> QED BY <1>9, <2>1, <2>3 DEF SendsAlong
<1>10. CASE EnterSubProcess(c)
  <2>1. /\ AtWork(c) /\ ~AtJoin(c) /\ UNCHANGED <<waitVars, joinArrivals, miPending>>
        /\ PlaceAtStarts(c, Set({c.token}, "CONSUMED"), InnerStarts[c.node], c.token)
    BY <1>10 DEF EnterSubProcess, IsEmbedded, AtJoin
  <2>2. InnerStarts[c.node] \in Seq(Starts) /\ c.token \in ScopesUpTo(minted)
    BY <1>1, <2>1, GraphFacts DEF ScopesUpTo
  <2> QED BY <2>1, <2>2 DEF PlacesAtStarts
<1>11. CASE Start(c)
  <2>1. CASE DOMAIN tokens # {}
    BY <1>11, <2>1 DEF Start, NoOp, Quiet
  <2>2. CASE DOMAIN tokens = {}
    <3>1. PlaceAtStarts(c, tokens, StartNodes, Root) /\ UNCHANGED <<waitVars, joinArrivals, miPending>>
      BY <1>11, <2>2 DEF Start
    <3>2. Set({}, "CONSUMED") = tokens
      BY DEF Set, IInv, TokensTyped
    <3>3. PlaceAtStarts(c, Set({}, "CONSUMED"), StartNodes, Root)
      BY <3>1, <3>2
    <3>4. StartNodes \in Seq(Starts) /\ Root \in ScopesUpTo(minted)
      BY GraphFacts DEF ScopesUpTo
    <3> QED BY <2>2, <3>1, <3>3, <3>4 DEF PlacesAtStarts
  <2> QED BY <2>1, <2>2
<1>12. CASE Park(c) \/ AskForItems(c) \/ CreateWorkItem(c) \/ RequestDecision(c) \/ NothingToDo(c) \/ TooLate(c)
  BY <1>12 DEF Park, AskForItems, CreateWorkItem, RequestDecision, NothingToDo, TooLate, NoOp, Quiet
<1>13. CASE PassThrough(c) \/ FanOut(c)
  BY <1>13
<1> QED BY <1>4, <1>5, <1>6, <1>7, <1>8, <1>9, <1>10, <1>11, <1>12, <1>13 DEF ApplyTransition

(* The continuations a transition adds are about new tokens.  Each is for  *)
(* a start event, or names the flow its token is put on, or comes from a   *)
(* merging gateway.                                                        *)
OnFlow(d) == d.flow \in Flows /\ To[d.flow] = d.node /\ via'[d.token] = d.flow

FromMerge(c, d) ==
  /\ AtWork(c) /\ Type[c.node] = "exclusiveGateway" /\ c.node \in Nodes
  /\ Len(Outgoing[c.node]) = 1 /\ d.node = To[Outgoing[c.node][1]]

Added(c, d) == d \in ready' /\ (d.node \in Starts \/ OnFlow(d) \/ FromMerge(c, d))

LEMMA MintedPlaces ==
  ASSUME IInv, NEW places \in Seq(Places), Mint(places)
  PROVE  /\ \A t \in 1..minted : via'[t] = via[t]
         /\ Fresh(Len(places)) = minted + 1 .. minted' /\ minted <= minted' /\ minted' \in Nat
         /\ \A t \in Fresh(Len(places)) : via'[t] = places[t - minted] /\ t - minted \in DOMAIN places
BY MintGrows DEF IInv

LEMMA Additions ==
  ASSUME IInv, NEW c \in ready \cup applied, ApplyTransition(c)
  PROVE  /\ \A t \in 1..minted : via'[t] = via[t]
         /\ \A d \in AtNodes' : d \in AtNodes \/ Added(c, d)
<1> DEFINE Kept == \A t \in 1..minted : via'[t] = via[t]
           Known == \A d \in AtNodes' : d \in AtNodes \/ Added(c, d)
<1>1. \A conts : Answer(c, conts) =>
        AtNodes' \subseteq AtNodes \cup conts /\ conts \subseteq ready'
  BY DEF Answer, AtNodes
<1>2. ASSUME NEW S, SendsAlong(c, S) PROVE Kept /\ Known
  <2>1. PICK flows \in Seq(Flows), s \in ScopesUpTo(minted) : SendAlong(c, Set(S, "CONSUMED"), flows, s)
    BY <1>2 DEF SendsAlong
  <2> DEFINE F == Fresh(Len(flows))
             conts == { AtNode(t, To[flows[t - minted]], s, flows[t - minted]) : t \in F }
  <2>2. Answer(c, conts) /\ Mint(flows)
    BY <2>1 DEF SendAlong
  <2>3. flows \in Seq(Places)
    BY GraphFacts, SeqMonotonic
  <2>4. Kept /\ \A t \in F : via'[t] = flows[t - minted] /\ flows[t - minted] \in Flows
    BY <2>2, <2>3, MintedPlaces
  <2> HIDE DEF F
  <2>5. ASSUME NEW t \in F PROVE OnFlow(AtNode(t, To[flows[t - minted]], s, flows[t - minted]))
    BY <2>4 DEF OnFlow, AtNode
  <2>6. \A d \in conts : OnFlow(d)
    BY <2>5
  <2> HIDE DEF conts
  <2> QED BY <1>1, <2>2, <2>4, <2>6 DEF Added
<1>3. ASSUME NEW S, PlacesAtStarts(c, S) PROVE Kept /\ Known
  <2>1. PICK starts \in Seq(Starts), s \in ScopesUpTo(minted) :
          PlaceAtStarts(c, Set(S, "CONSUMED"), starts, s)
    BY <1>3 DEF PlacesAtStarts
  <2> DEFINE F == Fresh(Len(starts))
             in(t) == FirstOf(Incoming[starts[t - minted]])
             conts == { AtNode(t, starts[t - minted], s, in(t)) : t \in F }
  <2>2. Answer(c, conts) /\ Mint(starts)
    BY <2>1 DEF PlaceAtStarts
  <2>3. starts \in Seq(Places)
    BY GraphFacts, SeqMonotonic
  <2>4. Kept /\ \A t \in F : starts[t - minted] \in Starts
    BY <2>2, <2>3, MintedPlaces
  <2> HIDE DEF F
  <2>5. \A d \in conts : d.node \in Starts
    BY <2>4 DEF AtNode
  <2> HIDE DEF conts
  <2> QED BY <1>1, <2>2, <2>4, <2>5 DEF Added
<1>4. ASSUME Quiet(c) PROVE Kept /\ Known
  BY <1>1, <1>4 DEF Quiet, mintVars
<1>5. CASE PassThrough(c)
  <2> DEFINE out == FirstOut(c.node)
             F == Fresh(Len(out))
             conts == { AtNode(t, To[out[1]], c.scope, FirstOf(Incoming[c.node])) : t \in F }
  <2>1. AtWork(c) /\ Type[c.node] = "exclusiveGateway" /\ Answer(c, conts) /\ Mint(out)
        /\ Len(Outgoing[c.node]) <= 1
    BY <1>5 DEF PassThrough
  <2>2. c.node \in Nodes
    BY <2>1, AtWorkFacts
  <2>3. out \in Seq(Flows) /\ Outgoing[c.node] \in Seq(Flows)
    BY <2>2, GraphFacts
  <2>4. out \in Seq(Places)
    BY <2>3, GraphFacts, SeqMonotonic
  <2>5. Kept
    BY <2>1, <2>4, MintedPlaces
  <2>6. CASE Outgoing[c.node] = <<>>
    <3>1. out = <<>>
      BY <2>6 DEF FirstOut
    <3>2. F = {}
      BY <3>1 DEF Fresh, IInv, TokensTyped
    <3>3. conts = {}
      BY <3>2
    <3> QED BY <1>1, <2>1, <2>5, <3>3
  <2>7. CASE Outgoing[c.node] # <<>>
    <3>1. Len(Outgoing[c.node]) = 1 /\ out[1] = Outgoing[c.node][1]
      BY <2>1, <2>3, <2>7 DEF FirstOut
    <3>2. \A d \in conts : d.node = To[Outgoing[c.node][1]]
      BY <3>1 DEF AtNode
    <3> HIDE DEF conts
    <3> QED BY <1>1, <2>1, <2>2, <2>5, <3>1, <3>2 DEF Added, FromMerge
  <2> QED BY <2>6, <2>7
<1>6. CASE FanOut(c)
  <2> DEFINE places == [i \in 1..c.items |-> via[miPending[c.key].parent]]
  <2>1. Answer(c, {}) /\ Mint(places) /\ c.key \in DOMAIN miPending /\ c.kind = "MULTI_INSTANCE_RESOLVED"
    BY <1>6 DEF FanOut
  <2>2. c.items \in Nat
    BY <1>6, FanOutStep
  <2>3. places \in Seq(Places)
    <3>1. via[miPending[c.key].parent] \in Places
      BY <2>1 DEF IInv, EntriesTyped, TokensTyped
    <3> QED BY <2>2, <3>1
  <2>4. Kept
    BY <2>1, <2>3, MintedPlaces
  <2> QED BY <1>1, <2>1, <2>4
<1> QED BY <1>2, <1>3, <1>4, <1>5, <1>6, Shapes

LEMMA AnsweredByHost ==
  ASSUME IInv, NEW c \in Answers, HostAnswers(c)
  PROVE  AtNodes' = AtNodes /\ UNCHANGED <<docVars, mintVars>> /\ ready \subseteq ready' /\ applied' = applied
<1>1. c.kind # "TOKEN_AT_NODE"
  BY DEF Answers, WorkCompleted, DecisionRecorded, Resolved
<1> QED BY <1>1 DEF HostAnswers, AtNodes

------------------------------------------------------------------------------
(* Joins.                                                                  *)

(* No merging exclusive gateway leads straight into a join.                *)
NoMergeIntoJoin ==
  \A n \in Nodes :
    Type[n] = "exclusiveGateway" /\ Len(Outgoing[n]) = 1 => ~IsJoin(To[Outgoing[n][1]])

(* Then a continuation at a join names the flow its token came by.         *)
FlowsNamed ==
  \A c \in AtNodes :
    IsJoin(c.node) => c.flow \in Flows /\ To[c.flow] = c.node /\ via[c.token] = c.flow

LEMMA FlowsNamedStep ==
  ASSUME NoMergeIntoJoin, IInv, FlowsNamed, [Next]_vars
  PROVE  FlowsNamed'
<1>1. \A d \in AtNodes : d.token \in 1..minted
  BY KindsOfContinuations DEF IInv, QueueTyped, TokensTyped, AtNodes
<1>2. ASSUME NEW c \in ready \cup applied, ApplyTransition(c) PROVE FlowsNamed'
  <2>1. /\ \A t \in 1..minted : via'[t] = via[t]
        /\ \A d \in AtNodes' : d \in AtNodes \/ Added(c, d)
    BY <1>2, Additions
  <2>2. ASSUME NEW d \in AtNodes', IsJoin(d.node)
        PROVE  d.flow \in Flows /\ To[d.flow] = d.node /\ via'[d.token] = d.flow
    <3>1. CASE d \in AtNodes
      BY <1>1, <2>1, <2>2, <3>1 DEF FlowsNamed
    <3>2. CASE Added(c, d)
      BY <2>2, <3>2 DEF Added, OnFlow, FromMerge, NoMergeIntoJoin, Starts, IsJoin
    <3> QED BY <2>1, <3>1, <3>2
  <2> QED BY <2>2 DEF FlowsNamed
<1>3. ASSUME NEW c \in Answers, HostAnswers(c) PROVE FlowsNamed'
  BY <1>3, AnsweredByHost DEF FlowsNamed, mintVars, IsJoin
<1>4. CASE UNCHANGED vars
  BY <1>4 DEF vars, queueVars, mintVars, FlowsNamed, AtNodes, IsJoin
<1> QED BY <1>2, <1>3, <1>4 DEF Next

LEMMA FlowsAreNamed ==
  ASSUME NoMergeIntoJoin
  PROVE  Spec => []FlowsNamed
<1>1. Init => FlowsNamed
  BY DEF Init, FlowsNamed, AtNodes, StartCont
<1>2. IInv /\ FlowsNamed /\ [Next]_vars => FlowsNamed'
  BY FlowsNamedStep
<1> QED BY <1>1, <1>2, Invariance, PTL DEF Spec

(* Two continuations never share a token, so that no token is recorded     *)
(* under two flows.                                                        *)
LEMMA RecordsAreInjective ==
  ASSUME IInv, NEW key \in DOMAIN joinArrivals
  PROVE  /\ IsInjective(joinArrivals[key])
         /\ \A t \in Range(joinArrivals[key]) : tokens[t] = NewToken(key[1], key[2], "ACTIVE")
<1>1. \A f \in DOMAIN joinArrivals[key] :
        /\ joinArrivals[key][f] \in DOMAIN tokens /\ ParkedAt(key, f, joinArrivals[key][f])
  BY DEF IInv, JoinsTyped, JoinsHoldParked
<1>2. ASSUME NEW f \in DOMAIN joinArrivals[key], NEW g \in DOMAIN joinArrivals[key],
             joinArrivals[key][f] = joinArrivals[key][g]
      PROVE  f = g
  <2>1. PICK c \in applied : c.kind = "TOKEN_AT_NODE" /\ c.token = joinArrivals[key][f] /\ c.flow = f
    BY <1>1 DEF ParkedAt
  <2>2. PICK d \in applied : d.kind = "TOKEN_AT_NODE" /\ d.token = joinArrivals[key][g] /\ d.flow = g
    BY <1>1 DEF ParkedAt
  <2>3. c \in AtNodes /\ d \in AtNodes
    BY <2>1, <2>2 DEF AtNodes
  <2> QED BY <1>2, <2>1, <2>2, <2>3 DEF IInv, NamesAgree
<1>3. IsInjective(joinArrivals[key])
  BY <1>2 DEF IsInjective
<1>4. ASSUME NEW t \in DOMAIN tokens, tokens[t].node = key[1], tokens[t].scope = key[2],
             tokens[t].status = "ACTIVE"
      PROVE  tokens[t] = NewToken(key[1], key[2], "ACTIVE")
  <2>1. tokens[t] \in Tokens(minted)
    BY DEF IInv, TokensTyped
  <2> QED BY <1>4, <2>1 DEF Tokens, NewToken
<1> QED BY <1>1, <1>3, <1>4 DEF ParkedAt, Status, Range

(* A join records what is there: ACTIVE tokens in its scope, one per       *)
(* incoming flow, whatever the graph, but for the merging gateway whose    *)
(* continuation names the wrong flow.                                      *)
THEOREM JoinsHold ==
  ASSUME NoMergeIntoJoin
  PROVE  Spec => []JoinsHoldTheirTokens
<1>1. ASSUME IInv, FlowsNamed PROVE JoinsHoldTheirTokens
  <2>1. ASSUME NEW key \in DOMAIN joinArrivals, NEW f \in DOMAIN joinArrivals[key]
        PROVE  f \in ToSet(Incoming[key[1]])
    <3>1. /\ IsJoin(key[1]) /\ ParkedAt(key, f, joinArrivals[key][f])
          /\ joinArrivals[key][f] \in DOMAIN tokens /\ key \in Nodes \X ScopesUpTo(minted)
      BY <1>1 DEF IInv, JoinsTyped, JoinsHoldParked
    <3>2. PICK c \in applied : c.kind = "TOKEN_AT_NODE" /\ c.token = joinArrivals[key][f] /\ c.flow = f
      BY <3>1 DEF ParkedAt
    <3>3. c \in AtNodes /\ c.node = key[1]
      BY <1>1, <3>1, <3>2 DEF AtNodes, ParkedAt, IInv, NamesAgree, Named
    <3>4. f \in Flows /\ To[f] = key[1]
      BY <1>1, <3>1, <3>2, <3>3 DEF FlowsNamed
    <3> QED BY <3>1, <3>4, FlowsOfNodes
  <2> QED BY <1>1, <2>1, RecordsAreInjective DEF JoinsHoldTheirTokens
<1> QED BY <1>1, Invariance, FlowsAreNamed, PTL

------------------------------------------------------------------------------
(* Tokens that are ACTIVE.                                                 *)

(* The nodes the engine does nothing for.                                  *)
IsIdle(n) ==
  Type[n] \in Inert \/ (Type[n] = "subProcess" /\ ~IsEmbedded(n) /\ ~IsExternal(n))

(* What a transition may leave ACTIVE without a continuation.              *)
LeftBehind(c, t) ==
  AtWork(c) /\ t = c.token /\ ((Park(c) \/ Join(c)) \/ (IsIdle(c.node) /\ tokens' = tokens))

LEMMA WorkOfNewTokens ==
  ASSUME IInv, NEW c \in ready \cup applied, NEW S,
         SendsAlong(c, S) \/ PlacesAtStarts(c, S)
  PROVE  \E N : Moved(S, "CONSUMED", N) /\ \A t \in N : HasWork(t)'
<1>1. "CONSUMED" \in Statuses
  BY DEF Statuses
<1>2. CASE SendsAlong(c, S)
  <2>1. PICK flows \in Seq(Flows), s \in ScopesUpTo(minted) : SendAlong(c, Set(S, "CONSUMED"), flows, s)
    BY <1>2 DEF SendsAlong
  <2> DEFINE N == Fresh(Len(flows))
  <2>2. Moved(S, "CONSUMED", N) /\ \A t \in N : HasWork(t)'
    BY <1>1, <2>1, SendAlongStep
  <2> QED BY <2>2
<1>3. CASE PlacesAtStarts(c, S)
  <2>1. PICK starts \in Seq(Starts), s \in ScopesUpTo(minted) :
          PlaceAtStarts(c, Set(S, "CONSUMED"), starts, s)
    BY <1>3 DEF PlacesAtStarts
  <2> DEFINE N == LastFresh(Len(starts))
  <2>2. Moved(S, "CONSUMED", N) /\ \A t \in N : HasWork(t)'
    BY <1>1, <2>1, PlaceAtStartsStep
  <2> QED BY <2>2
<1> QED BY <1>2, <1>3

(* A token that moved keeps its continuation, unless it was that of c.     *)
LEMMA WorkIsKept ==
  ASSUME IInv, NEW c \in ready \cup applied, NEW conts, Answer(c, conts),
         NEW S, NEW st, NEW N, Moved(S, st, N), NEW t \in DOMAIN tokens, HasWork(t),
         ~(c.kind = "TOKEN_AT_NODE" /\ c.token = t)
  PROVE  HasWork(t)'
<1>1. PICK d \in ready : /\ d.kind = "TOKEN_AT_NODE" /\ d.token = t
                         /\ d.node = tokens[t].node /\ d.scope = tokens[t].scope
  BY DEF HasWork
<1>2. d \in ready'
  BY <1>1 DEF Answer
<1> QED BY <1>1, <1>2 DEF HasWork, Moved

LEMMA WorkStep ==
  ASSUME IInv, NEW c \in ready \cup applied, ApplyTransition(c), NEW t \in DOMAIN tokens',
         Status(t)' = "ACTIVE"
  PROVE  \/ HasWork(t)'
         \/ t \in DOMAIN tokens /\ Status(t) = "ACTIVE" /\ ~HasWork(t)
         \/ LeftBehind(c, t)
<1> SUFFICES ASSUME ~(t \in DOMAIN tokens /\ Status(t) = "ACTIVE" /\ ~HasWork(t))
             PROVE  HasWork(t)' \/ LeftBehind(c, t)
  OBVIOUS
<1>1. \E conts : Answer(c, conts)
  BY Shapes DEF SendsAlong, SendAlong, PlacesAtStarts, PlaceAtStarts, PassThrough, FanOut, Quiet
<1>2. ASSUME NEW S, NEW st \in Statuses, NEW N, Moved(S, st, N), st # "ACTIVE",
             t \in N => HasWork(t)' \/ Status(t)' # "ACTIVE",
             c.kind = "TOKEN_AT_NODE" /\ c.token = t => t \in S \/ t \notin DOMAIN tokens
      PROVE  HasWork(t)'
  <2>1. CASE t \in N
    BY <1>2, <2>1
  <2>2. CASE t \in DOMAIN tokens
    <3>1. t \notin S /\ Status(t) = "ACTIVE" /\ HasWork(t)
      BY <1>2, <2>2 DEF Moved, Status
    <3> QED BY <1>1, <1>2, <2>2, <3>1, WorkIsKept
  <2> QED BY <1>2, <2>1, <2>2 DEF Moved
<1>3. "CONSUMED" \in Statuses /\ "WAITING" \in Statuses
  BY DEF Statuses
<1>4. CASE \E S : (SendsAlong(c, S) \/ PlacesAtStarts(c, S))
                    /\ (c.kind = "TOKEN_AT_NODE" /\ c.token = t => t \in S \/ t \notin DOMAIN tokens)
  <2>1. PICK S : (SendsAlong(c, S) \/ PlacesAtStarts(c, S))
                   /\ (c.kind = "TOKEN_AT_NODE" /\ c.token = t => t \in S \/ t \notin DOMAIN tokens)
    BY <1>4
  <2>2. PICK N : Moved(S, "CONSUMED", N) /\ \A u \in N : HasWork(u)'
    BY <2>1, WorkOfNewTokens
  <2> QED BY <1>2, <1>3, <2>1, <2>2
<1>5. CASE Join(c) /\ SendsAlong(c, { Arrived(c)[f] : f \in ToSet(Incoming[c.node]) })
  <2>1. AtWork(c)
    BY <1>5 DEF Join, AtJoin
  <2>2. CASE t = c.token
    BY <1>5, <2>1, <2>2 DEF LeftBehind
  <2>3. CASE t # c.token
    BY <1>4, <1>5, <2>3
  <2> QED BY <2>2, <2>3
<1>6. CASE \/ CompleteWork(c) /\ SendsAlong(c, {c.item})
           \/ TakeDecision(c) /\ SendsAlong(c, {c.decision})
  <2>1. c.kind # "TOKEN_AT_NODE"
    BY <1>6 DEF CompleteWork, TakeDecision
  <2> QED BY <1>4, <1>6, <2>1
<1>7. CASE PassThrough(c)
  <2> DEFINE N == Fresh(Len(FirstOut(c.node)))
  <2>1. Moved({c.token}, "CONSUMED", N) /\ \A u \in N : HasWork(u)'
    BY <1>7, PassThroughStep
  <2> QED BY <1>2, <1>3, <2>1
<1>8. CASE FanOut(c)
  <2> DEFINE N == Fresh(c.items)
  <2>1. Moved({}, "CONSUMED", N) /\ \A u \in N : Status(u)' = "WAITING"
    BY <1>8, FanOutStep DEF Status
  <2>2. c.kind # "TOKEN_AT_NODE"
    BY <1>8 DEF FanOut
  <2> HIDE DEF N
  <2> QED BY <1>2, <1>3, <2>1, <2>2
<1>9. CASE Quiet(c) /\ \E st \in {"CONSUMED", "WAITING"} : tokens' = Set({c.token}, st)
  <2>1. PICK st \in {"CONSUMED", "WAITING"} : tokens' = Set({c.token}, st)
    BY <1>9
  <2>2. TokensTyped /\ st \in Statuses /\ UNCHANGED mintVars
    BY <1>9 DEF IInv, Statuses, Quiet
  <2>3. Moved({c.token}, st, {})
    BY <2>1, <2>2, TokensOnly
  <2> QED BY <1>2, <2>2, <2>3
<1>10. CASE Park(c)
  <2>1. AtWork(c) /\ UNCHANGED <<tokens, mintVars>>
    BY <1>10 DEF Park, AtJoin
  <2>2. Moved({}, "CONSUMED", {})
    BY <2>1, UnmovedTokens
  <2>3. CASE t = c.token
    BY <1>10, <2>1, <2>3 DEF LeftBehind
  <2> QED BY <1>2, <1>3, <2>2, <2>3
<1>11. CASE NoOp(c) /\ (Start(c) \/ NothingToDo(c) \/ TooLate(c))
  <2>1. UNCHANGED <<tokens, mintVars>> /\ tokens' = tokens
    BY <1>11 DEF NoOp, docVars
  <2>2. Moved({}, "CONSUMED", {})
    BY <2>1, UnmovedTokens
  <2>3. CASE c.kind = "TOKEN_AT_NODE" /\ c.token = t /\ t \in DOMAIN tokens
    <3>1. AtWork(c)
      BY <2>1, <2>3 DEF AtWork, Status
    <3>2. NothingToDo(c)
      BY <1>11, <2>3 DEF Start, TooLate
    <3>3. IsIdle(c.node)
      BY <3>1, <3>2 DEF NothingToDo, IsIdle
    <3> QED BY <2>1, <2>3, <3>1, <3>3 DEF LeftBehind
  <2> QED BY <1>2, <1>3, <2>2, <2>3
<1> QED BY <1>4, <1>5, <1>6, <1>7, <1>8, <1>9, <1>10, <1>11, Shapes

LEMMA TokensStay ==
  ASSUME IInv, NEW c \in ready \cup applied, ApplyTransition(c)
  PROVE  \A t \in DOMAIN tokens : /\ t \in DOMAIN tokens'
                                  /\ tokens'[t].node = tokens[t].node
                                  /\ tokens'[t].scope = tokens[t].scope
<1>1. "CONSUMED" \in Statuses /\ "WAITING" \in Statuses /\ TokensTyped
  BY DEF Statuses, IInv
<1>2. SUFFICES \E S, st, N : Moved(S, st, N)
  BY DEF Moved
<1>3. CASE \E S : SendsAlong(c, S) \/ PlacesAtStarts(c, S)
  BY <1>3, WorkOfNewTokens
<1>4. CASE PassThrough(c)
  BY <1>4, PassThroughStep
<1>5. CASE FanOut(c)
  BY <1>5, FanOutStep
<1>6. CASE Quiet(c) /\ \E st \in {"CONSUMED", "WAITING"} : tokens' = Set({c.token}, st)
  BY <1>1, <1>6, TokensOnly DEF Quiet
<1>7. CASE Park(c) \/ NoOp(c)
  <2>1. UNCHANGED <<tokens, mintVars>>
    BY <1>7 DEF Park, NoOp, docVars
  <2> QED BY <2>1, UnmovedTokens
<1> QED BY <1>3, <1>4, <1>5, <1>6, <1>7, Shapes

(* Only a join touches what joins have recorded.                           *)
LEMMA JoinActions ==
  ASSUME IInv, NEW c \in ready \cup applied, ApplyTransition(c)
  PROVE  /\ AtJoin(c) => Park(c) \/ Join(c)
         /\ ~AtJoin(c) => joinArrivals' = joinArrivals
<1>1. AtJoin(c) => ~(Len(Outgoing[c.node]) > 1)
  <2>1. AtJoin(c) => Outgoing[c.node] \in Seq(Flows)
    BY AtWorkFacts, GraphFacts DEF AtJoin
  <2> QED BY <2>1 DEF AtJoin
<1> QED BY <1>1 DEF ApplyTransition, Start, NothingToDo, StartEvent, EndSubProcess, EndInSubProcess,
          EndEvent, EnterSubProcess, CreateWorkItem, AskForItems, RequestDecision, PassThrough, Fork,
          Park, Join, CompleteWork, FanOut, TakeDecision, TooLate, NoOp, docVars, PassOn, AtJoin, AtWork,
          IsEmbedded, IsExternal, IsWork, Tasks, Inert

LEMMA LeftBehindWhere ==
  ASSUME IInv, NEW c \in ready \cup applied, ApplyTransition(c), NEW t, LeftBehind(c, t)
  PROVE  /\ t \in DOMAIN tokens /\ t \in DOMAIN tokens' /\ c \in AtNodes
         /\ tokens'[t].node = c.node /\ tokens'[t].scope = c.scope
         /\ tokens[t].node = c.node /\ tokens[t].scope = c.scope
         /\ Status(t) = "ACTIVE"
         /\ IsJoin(c.node) \/ IsIdle(c.node)
<1>1. /\ t \in DOMAIN tokens /\ tokens[t].node = c.node /\ tokens[t].scope = c.scope /\ c \in AtNodes
      /\ Status(t) = "ACTIVE"
  BY AtWorkFacts DEF LeftBehind, Status
<1>2. \A u \in DOMAIN tokens : /\ u \in DOMAIN tokens' /\ tokens'[u].node = tokens[u].node
                               /\ tokens'[u].scope = tokens[u].scope
  BY TokensStay
<1>3. IsJoin(c.node) \/ IsIdle(c.node)
  BY DEF LeftBehind, Park, Join, AtJoin, IsJoin
<1> QED BY <1>1, <1>2, <1>3

(* Only at a join, or at a node the engine does nothing for, can an ACTIVE *)
(* token be without a continuation, whatever the graph.                    *)
Accounted ==
  \A t \in DOMAIN tokens :
    Status(t) = "ACTIVE" => \/ HasWork(t)
                            \/ IsJoin(tokens[t].node) \/ IsIdle(tokens[t].node)

LEMMA IdleSteps ==
  ASSUME IInv,
         \/ \E c \in Answers : HostAnswers(c)
         \/ UNCHANGED vars
  PROVE  /\ tokens' = tokens /\ joinArrivals' = joinArrivals /\ via' = via
         /\ \A t \in DOMAIN tokens : HasWork(t) => HasWork(t)'
<1>1. tokens' = tokens /\ joinArrivals' = joinArrivals /\ via' = via /\ ready \subseteq ready'
  BY AnsweredByHost DEF docVars, mintVars, vars, queueVars
<1> QED BY <1>1 DEF HasWork

THEOREM ActiveTokensAreAccounted == Spec => []Accounted
<1>1. Init => Accounted
  BY DEF Init, Accounted
<1>2. ASSUME IInv, Accounted, [Next]_vars PROVE Accounted'
  <2>1. ASSUME NEW c \in ready \cup applied, ApplyTransition(c) PROVE Accounted'
    <3>1. ASSUME NEW t \in DOMAIN tokens', Status(t)' = "ACTIVE"
          PROVE  HasWork(t)' \/ IsJoin(tokens'[t].node) \/ IsIdle(tokens'[t].node)
      <4>1. CASE t \in DOMAIN tokens /\ Status(t) = "ACTIVE" /\ ~HasWork(t)
        <5>1. tokens'[t].node = tokens[t].node
          BY <1>2, <2>1, <4>1, TokensStay
        <5> QED BY <1>2, <4>1, <5>1 DEF Accounted
      <4>2. CASE LeftBehind(c, t)
        BY <1>2, <2>1, <4>2, LeftBehindWhere
      <4> QED BY <1>2, <2>1, <3>1, <4>1, <4>2, WorkStep
    <3> QED BY <3>1 DEF Accounted, IsJoin, IsIdle, IsEmbedded, IsExternal
  <2>2. CASE (\E c \in Answers : HostAnswers(c)) \/ UNCHANGED vars
    BY <1>2, <2>2, IdleSteps DEF Accounted, Status, IsJoin, IsIdle, IsEmbedded, IsExternal
  <2> QED BY <1>2, <2>1, <2>2 DEF Next
<1> QED BY <1>1, <1>2, Invariance, PTL DEF Spec

(* The parser accepts nodes the engine does nothing for: here there are    *)
(* none.                                                                   *)
NoIdleNodes == \A n \in Nodes : ~IsIdle(n)

(* No two tokens of one scope are at a join by the same flow.              *)
OneTokenPerFlow ==
  \A t, u \in DOMAIN tokens :
    /\ Status(t) = "ACTIVE" /\ Status(u) = "ACTIVE" /\ IsJoin(tokens[t].node)
    /\ tokens[t].node = tokens[u].node /\ tokens[t].scope = tokens[u].scope
    /\ via[t] = via[u]
    => t = u

(* The step of a join on the tokens that are parked.                       *)
LEMMA ParkedStep ==
  ASSUME NoMergeIntoJoin, IInv, FlowsNamed, JoinsHoldTheirTokens, OneTokenPerFlow,
         NEW c \in ready \cup applied, ApplyTransition(c), NEW t \in DOMAIN tokens,
         Status(t) = "ACTIVE", IsParked(t), Status(t)' = "ACTIVE"
  PROVE  IsParked(t)'
<1> DEFINE key == <<tokens[t].node, tokens[t].scope>>
           k == <<c.node, c.scope>>
<1>1. /\ key \in DOMAIN joinArrivals /\ via[t] \in DOMAIN joinArrivals[key]
      /\ joinArrivals[key][via[t]] = t
  BY DEF IsParked
<1>2. t \in 1..minted /\ IsJoin(tokens[t].node) /\ via[t] \in ToSet(Incoming[tokens[t].node])
  BY <1>1 DEF IInv, TokensTyped, JoinsHoldParked, JoinsHoldTheirTokens
<1>3. /\ via'[t] = via[t] /\ tokens'[t].node = tokens[t].node /\ tokens'[t].scope = tokens[t].scope
  BY <1>2, Additions, TokensStay
<1>4. CASE key \in DOMAIN joinArrivals' /\ joinArrivals'[key] = joinArrivals[key]
  BY <1>1, <1>3, <1>4 DEF IsParked
<1>5. CASE AtJoin(c)
  <2>1. AtWork(c)
    BY <1>5 DEF AtJoin
  <2>2. /\ c.token \in DOMAIN tokens /\ Status(c.token) = "ACTIVE" /\ c \in AtNodes
        /\ tokens[c.token].node = c.node /\ tokens[c.token].scope = c.scope
    BY <2>1, AtWorkFacts DEF Status
  <2>3. /\ c.flow \in DOMAIN Arrived(c) /\ Arrived(c)[c.flow] = c.token /\ IsJoin(c.node)
        /\ \A f \in DOMAIN Arrived(c) :
             f = c.flow \/ (k \in DOMAIN joinArrivals /\ f \in DOMAIN joinArrivals[k]
                            /\ Arrived(c)[f] = joinArrivals[k][f])
        /\ k \in DOMAIN joinArrivals => DOMAIN joinArrivals[k] \subseteq DOMAIN Arrived(c)
    BY <1>5, ArrivedFacts
  <2>4. via[c.token] = c.flow
    BY <2>2, <2>3 DEF FlowsNamed
  <2>5. key = k => via[t] \in DOMAIN Arrived(c) /\ Arrived(c)[via[t]] = t
    <3> HAVE key = k
    <3>1. via[t] \in DOMAIN Arrived(c) /\ tokens[t].node = c.node /\ tokens[t].scope = c.scope
      BY <1>1, <2>3
    <3>2. CASE via[t] = c.flow
      BY <1>2, <2>2, <2>3, <2>4, <3>1, <3>2 DEF OneTokenPerFlow
    <3>3. CASE via[t] # c.flow
      BY <1>1, <2>3, <3>1, <3>3
    <3> QED BY <3>1, <3>2, <3>3
  <2>6. CASE Park(c)
    <3>1. joinArrivals' = [x \in {k} |-> Arrived(c)] ++ joinArrivals
      BY <2>6 DEF Park
    <3>2. /\ DOMAIN joinArrivals' = {k} \cup DOMAIN joinArrivals /\ joinArrivals'[k] = Arrived(c)
          /\ \A x \in DOMAIN joinArrivals : x # k => joinArrivals'[x] = joinArrivals[x]
      <4> HIDE DEF k
      <4>1. joinArrivals' = [x \in {k} \cup DOMAIN joinArrivals |->
                               IF x \in {k} THEN [y \in {k} |-> Arrived(c)][x] ELSE joinArrivals[x]]
        BY <3>1 DEF ++
      <4> QED BY <4>1
    <3>3. CASE key = k
      BY <1>3, <2>5, <3>2, <3>3 DEF IsParked
    <3>4. CASE key # k
      BY <1>1, <1>4, <3>2, <3>4
    <3> QED BY <3>3, <3>4
  <2>7. CASE Join(c)
    <3>1. joinArrivals' = [x \in DOMAIN joinArrivals \ {k} |-> joinArrivals[x]]
      BY <2>7 DEF Join, Without, Restrict
    <3>2. CASE key # k
      BY <1>1, <1>4, <3>1, <3>2
    <3>3. CASE key = k
      <4> DEFINE S == { Arrived(c)[f] : f \in ToSet(Incoming[c.node]) }
      <4>1. tokens[t].node = c.node
        BY <3>3
      <4>2. t \in S
        BY <1>2, <2>5, <3>3, <4>1
      <4>3. SendAlong(c, Set(S, "CONSUMED"), FirstOut(c.node), c.scope)
        BY <2>7 DEF Join
      <4>4. c.node \in Nodes /\ c.scope \in ScopesUpTo(minted) /\ "CONSUMED" \in Statuses
        BY <2>1, AtWorkFacts DEF Statuses
      <4>5. FirstOut(c.node) \in Seq(Flows)
        BY <4>4, GraphFacts
      <4> HIDE DEF S
      <4>6. Moved(S, "CONSUMED", Fresh(Len(FirstOut(c.node))))
        BY <4>3, <4>4, <4>5, SendAlongStep
      <4> QED BY <4>2, <4>6 DEF Moved, Status
    <3> QED BY <3>2, <3>3
  <2> QED BY <1>5, <2>6, <2>7, JoinActions
<1>6. CASE ~AtJoin(c)
  <2>1. joinArrivals' = joinArrivals
    BY <1>6, JoinActions
  <2> QED BY <1>1, <1>4, <2>1
<1> QED BY <1>5, <1>6

LEMMA ParkedByStep ==
  ASSUME NoIdleNodes, IInv, FlowsNamed, NEW c \in ready \cup applied, ApplyTransition(c),
         NEW t, LeftBehind(c, t), Status(t)' = "ACTIVE"
  PROVE  IsParked(t)'
<1> DEFINE k == <<c.node, c.scope>>
<1>1. /\ t = c.token /\ AtWork(c) /\ t \in DOMAIN tokens /\ c \in AtNodes /\ c.node \in Nodes
      /\ tokens'[t].node = c.node /\ tokens'[t].scope = c.scope /\ c.scope \in ScopesUpTo(minted)
  BY AtWorkFacts, LeftBehindWhere DEF LeftBehind
<1>2. Park(c) \/ Join(c)
  BY <1>1 DEF LeftBehind, NoIdleNodes
<1>3. AtJoin(c)
  BY <1>2 DEF Park, Join
<1>4. c.flow \in DOMAIN Arrived(c) /\ Arrived(c)[c.flow] = t /\ IsJoin(c.node)
  BY <1>1, <1>3, ArrivedFacts
<1>5. c.flow \in Flows /\ To[c.flow] = c.node /\ via[t] = c.flow
  BY <1>1, <1>4 DEF FlowsNamed
<1>6. via'[t] = c.flow
  <2>1. t \in 1..minted
    BY <1>1 DEF IInv, TokensTyped
  <2> QED BY <1>5, <2>1, Additions
<1>7. CASE Park(c)
  <2>1. k \in DOMAIN joinArrivals' /\ joinArrivals'[k] = Arrived(c)
    <3>1. joinArrivals' = [x \in {k} |-> Arrived(c)] ++ joinArrivals
      BY <1>7 DEF Park
    <3> HIDE DEF k
    <3>2. joinArrivals' = [x \in {k} \cup DOMAIN joinArrivals |->
                             IF x \in {k} THEN [y \in {k} |-> Arrived(c)][x] ELSE joinArrivals[x]]
      BY <3>1 DEF ++
    <3> QED BY <3>2
  <2> QED BY <1>1, <1>4, <1>6, <2>1 DEF IsParked
<1>8. CASE Join(c)
  <2> DEFINE S == { Arrived(c)[f] : f \in ToSet(Incoming[c.node]) }
  <2>1. c.flow \in ToSet(Incoming[c.node])
    BY <1>1, <1>5, FlowsOfNodes
  <2>2. t \in S
    BY <1>4, <2>1
  <2>3. SendAlong(c, Set(S, "CONSUMED"), FirstOut(c.node), c.scope)
    BY <1>8 DEF Join
  <2>4. FirstOut(c.node) \in Seq(Flows) /\ "CONSUMED" \in Statuses
    BY <1>1, GraphFacts DEF Statuses
  <2> HIDE DEF S
  <2>5. Moved(S, "CONSUMED", Fresh(Len(FirstOut(c.node))))
    BY <1>1, <2>3, <2>4, SendAlongStep
  <2> QED BY <1>1, <2>2, <2>5 DEF Moved, Status
<1> QED BY <1>2, <1>7, <1>8

(* No ACTIVE token is left behind, for every graph of nodes the engine     *)
(* knows, as long as no token catches up with another in front of a join.  *)
THEOREM ActiveMove ==
  ASSUME NoMergeIntoJoin, NoIdleNodes
  PROVE  Spec /\ []OneTokenPerFlow => []ActiveTokensMove
<1> DEFINE Moves == \A t \in DOMAIN tokens : Status(t) = "ACTIVE" => HasWork(t) \/ IsParked(t)
<1>1. Init => Moves
  BY DEF Init
<1>2. ASSUME IInv, FlowsNamed, JoinsHoldTheirTokens, OneTokenPerFlow, Moves, [Next]_vars
      PROVE  Moves'
  <2>1. ASSUME NEW c \in ready \cup applied, ApplyTransition(c) PROVE Moves'
    <3>1. ASSUME NEW t \in DOMAIN tokens', Status(t)' = "ACTIVE"
          PROVE  HasWork(t)' \/ IsParked(t)'
      <4>1. CASE t \in DOMAIN tokens /\ Status(t) = "ACTIVE" /\ ~HasWork(t)
        <5>1. IsParked(t)
          BY <1>2, <4>1
        <5> QED BY <1>2, <2>1, <3>1, <4>1, <5>1, ParkedStep
      <4>2. CASE LeftBehind(c, t)
        BY <1>2, <2>1, <3>1, <4>2, ParkedByStep
      <4> QED BY <1>2, <2>1, <3>1, <4>1, <4>2, WorkStep
    <3> QED BY <3>1
  <2>2. CASE (\E c \in Answers : HostAnswers(c)) \/ UNCHANGED vars
    BY <1>2, <2>2, IdleSteps DEF Status, IsParked
  <2> QED BY <1>2, <2>1, <2>2 DEF Next
<1>3. TypeOK /\ Moves => ActiveTokensMove
  BY DEF ActiveTokensMove
<1> QED BY <1>1, <1>2, <1>3, Invariance, TypesHold, FlowsAreNamed, JoinsHold, PTL DEF Spec

------------------------------------------------------------------------------
(* Multi-instance nodes.                                                   *)

(* Only the token of a continuation at work leaves ACTIVE, and a token that *)
(* is CONSUMED stays so.                                                    *)
LEMMA StatusesStep ==
  ASSUME IInv, NEW c \in ready \cup applied, ApplyTransition(c), NEW t \in DOMAIN tokens
  PROVE  \/ Status(t)' = Status(t)
         \/ Status(t)' = "CONSUMED"
         \/ Status(t)' = "WAITING" /\ AtWork(c) /\ t = c.token
<1>1. "CONSUMED" \in Statuses /\ "WAITING" \in Statuses /\ TokensTyped
  BY DEF Statuses, IInv
<1>2. ASSUME NEW S, NEW N, Moved(S, "CONSUMED", N)
      PROVE  Status(t)' = Status(t) \/ Status(t)' = "CONSUMED"
  BY <1>2 DEF Moved, Status
<1>3. CASE \E S : SendsAlong(c, S) \/ PlacesAtStarts(c, S)
  BY <1>2, <1>3, WorkOfNewTokens
<1>4. CASE PassThrough(c)
  BY <1>2, <1>4, PassThroughStep
<1>5. CASE FanOut(c)
  BY <1>2, <1>5, FanOutStep
<1>6. CASE Quiet(c) /\ tokens' = Set({c.token}, "CONSUMED")
  BY <1>1, <1>2, <1>6, TokensOnly DEF Quiet
<1>7. CASE (CreateWorkItem(c) \/ RequestDecision(c)) /\ Quiet(c) /\ tokens' = Set({c.token}, "WAITING")
  <2>1. Moved({c.token}, "WAITING", {}) /\ AtWork(c)
    BY <1>1, <1>7, TokensOnly DEF Quiet, CreateWorkItem, RequestDecision
  <2> QED BY <2>1 DEF Moved, Status
<1>8. CASE Park(c) \/ NoOp(c)
  BY <1>8 DEF Park, NoOp, docVars, Status
<1> QED BY <1>3, <1>4, <1>5, <1>6, <1>7, <1>8, Shapes

(* A token that is not at a join leaves ACTIVE by its own continuation.    *)
LEMMA ActiveStays ==
  ASSUME IInv, NEW c \in ready \cup applied, ApplyTransition(c), NEW t \in DOMAIN tokens,
         Status(t) = "ACTIVE", ~IsJoin(tokens[t].node),
         ~(c.kind = "TOKEN_AT_NODE" /\ c.token = t)
  PROVE  Status(t)' = "ACTIVE"
<1>1. "CONSUMED" \in Statuses /\ "WAITING" \in Statuses /\ TokensTyped
  BY DEF Statuses, IInv
<1>2. ASSUME NEW S, NEW st, NEW N, Moved(S, st, N), t \notin S
      PROVE  Status(t)' = "ACTIVE"
  BY <1>2 DEF Moved, Status
<1>3. ASSUME NEW S, SendsAlong(c, S) \/ PlacesAtStarts(c, S), t \notin S
      PROVE  Status(t)' = "ACTIVE"
  BY <1>2, <1>3, WorkOfNewTokens
<1>4. AtWork(c) => t # c.token
  BY DEF AtWork
<1>5. CASE \/ AtWork(c) /\ (SendsAlong(c, {c.token}) \/ PlacesAtStarts(c, {c.token}))
           \/ PlacesAtStarts(c, {})
  BY <1>3, <1>4, <1>5
<1>6. CASE Join(c) /\ SendsAlong(c, { Arrived(c)[f] : f \in ToSet(Incoming[c.node]) })
  <2>1. AtJoin(c) /\ ToSet(Incoming[c.node]) \subseteq DOMAIN Arrived(c)
    BY <1>6 DEF Join, AllArrived
  <2>2. IsJoin(c.node) /\ \A f \in DOMAIN Arrived(c) : tokens[Arrived(c)[f]].node = c.node
    BY <2>1, ArrivedFacts
  <2> QED BY <1>3, <1>6, <2>1, <2>2
<1>7. CASE CompleteWork(c) /\ SendsAlong(c, {c.item})
  <2>1. c.item \in DOMAIN workItems /\ Status(c.item) = "WAITING"
    BY <1>7 DEF CompleteWork, IInv, WaitsMatchTokens
  <2> QED BY <1>3, <1>7, <2>1
<1>8. CASE TakeDecision(c) /\ SendsAlong(c, {c.decision})
  <2>1. c.decision \in DOMAIN decisions /\ Status(c.decision) = "WAITING"
    BY <1>8 DEF TakeDecision, IInv, WaitsMatchTokens
  <2> QED BY <1>3, <1>8, <2>1
<1>9. CASE PassThrough(c)
  <2>1. AtWork(c)
    BY <1>9 DEF PassThrough
  <2> QED BY <1>2, <1>4, <1>9, <2>1, PassThroughStep
<1>10. CASE FanOut(c)
  BY <1>2, <1>10, FanOutStep
<1>11. CASE \/ AskForItems(c) /\ Quiet(c) /\ tokens' = Set({c.token}, "CONSUMED")
            \/ (CreateWorkItem(c) \/ RequestDecision(c)) /\ Quiet(c) /\ tokens' = Set({c.token}, "WAITING")
  <2>1. AtWork(c)
    BY <1>11 DEF AskForItems, CreateWorkItem, RequestDecision
  <2>2. \E st : Moved({c.token}, st, {})
    BY <1>1, <1>11, TokensOnly DEF Quiet
  <2> QED BY <1>2, <1>4, <2>1, <2>2
<1>12. CASE Park(c) \/ NoOp(c)
  BY <1>12 DEF Park, NoOp, docVars, Status
<1> QED BY <1>5, <1>6, <1>7, <1>8, <1>9, <1>10, <1>11, <1>12, Shapes

(* A new continuation is about an ACTIVE token, but for those of the start *)
(* events of one level.                                                    *)
LEMMA NewAtNodes ==
  ASSUME IInv, NEW c \in ready \cup applied, ApplyTransition(c), NEW d \in AtNodes', d \notin AtNodes
  PROVE  d.node \in Starts \/ (d.token \in DOMAIN tokens' /\ Status(d.token)' = "ACTIVE")
<1> DEFINE Good == d.node \in Starts \/ (d.token \in DOMAIN tokens' /\ Status(d.token)' = "ACTIVE")
<1>0. "CONSUMED" \in Statuses
  BY DEF Statuses
<1>1. \A conts : Answer(c, conts) => d \in conts
  BY DEF Answer, AtNodes
<1>2. ASSUME NEW S, SendsAlong(c, S) PROVE Good
  <2>1. PICK flows \in Seq(Flows), s \in ScopesUpTo(minted) : SendAlong(c, Set(S, "CONSUMED"), flows, s)
    BY <1>2 DEF SendsAlong
  <2> DEFINE N == Fresh(Len(flows))
             conts == { AtNode(t, To[flows[t - minted]], s, flows[t - minted]) : t \in N }
  <2>2. d \in conts
    BY <1>1, <2>1 DEF SendAlong
  <2>3. Moved(S, "CONSUMED", N) /\ \A t \in N : tokens'[t].status = "ACTIVE"
    BY <1>0, <2>1, SendAlongStep
  <2> HIDE DEF N
  <2>4. d.token \in N
    BY <2>2 DEF AtNode
  <2> QED BY <2>3, <2>4 DEF Moved, Status
<1>3. ASSUME NEW S, PlacesAtStarts(c, S) PROVE Good
  <2>1. PICK starts \in Seq(Starts), s \in ScopesUpTo(minted) :
          PlaceAtStarts(c, Set(S, "CONSUMED"), starts, s)
    BY <1>3 DEF PlacesAtStarts
  <2> DEFINE N == Fresh(Len(starts))
             conts == { AtNode(t, starts[t - minted], s, FirstOf(Incoming[starts[t - minted]])) : t \in N }
  <2>2. d \in conts /\ Mint(starts)
    BY <1>1, <2>1 DEF PlaceAtStarts
  <2>3. starts \in Seq(Places)
    BY GraphFacts, SeqMonotonic
  <2>4. \A t \in N : starts[t - minted] \in Starts
    BY <2>2, <2>3, MintedPlaces
  <2> HIDE DEF N
  <2> QED BY <2>2, <2>4 DEF AtNode
<1>4. CASE PassThrough(c)
  <2> DEFINE out == FirstOut(c.node)
             N == Fresh(Len(out))
             conts == { AtNode(t, To[out[1]], c.scope, FirstOf(Incoming[c.node])) : t \in N }
  <2>1. d \in conts
    BY <1>1, <1>4 DEF PassThrough
  <2>2. Moved({c.token}, "CONSUMED", N) /\ \A t \in N : tokens'[t].status = "ACTIVE"
    BY <1>4, PassThroughStep
  <2> HIDE DEF N, out
  <2>3. d.token \in N
    BY <2>1 DEF AtNode
  <2> QED BY <2>2, <2>3 DEF Moved, Status
<1>5. CASE FanOut(c) \/ Quiet(c)
  BY <1>1, <1>5 DEF FanOut, Quiet
<1> QED BY <1>2, <1>3, <1>4, <1>5, Shapes

LEMMA WorkActions ==
  ASSUME NEW c, AtWork(c), IsWork(c.node), ApplyTransition(c)
  PROVE  CreateWorkItem(c) \/ AskForItems(c)
BY DEF ApplyTransition, Start, NothingToDo, StartEvent, EndSubProcess, EndInSubProcess, EndEvent,
       EnterSubProcess, RequestDecision, PassThrough, Fork, Park, Join, AtJoin, CompleteWork, FanOut,
       TakeDecision, TooLate, AtWork, IsWork, IsExternal, IsEmbedded, Tasks, Inert

(* A token comes to work, and is ACTIVE there until its continuation has   *)
(* been applied, and no longer.                                            *)
Taken ==
  \A c \in AtNodes : IsWork(c.node) =>
    c.token \in DOMAIN tokens /\ (Status(c.token) = "ACTIVE" <=> c \notin applied)

LEMMA TakenStep ==
  ASSUME IInv, Taken, [Next]_vars
  PROVE  Taken'
<1>1. ASSUME NEW c \in ready \cup applied, ApplyTransition(c) PROVE Taken'
  <2>1. applied' = applied \cup {c}
    BY <1>1, Shapes DEF SendsAlong, SendAlong, PlacesAtStarts, PlaceAtStarts, PassThrough, FanOut,
       Quiet, Answer
  <2>2. ASSUME NEW d \in AtNodes', IsWork(d.node)
        PROVE  d.token \in DOMAIN tokens' /\ (Status(d.token)' = "ACTIVE" <=> d \notin applied')
    <3>1. CASE d \notin AtNodes
      <4>1. d.node \notin Starts
        BY <2>2 DEF Starts, IsWork, IsExternal, Tasks
      <4>2. d \notin applied'
        BY <2>1, <2>2, <3>1 DEF AtNodes
      <4> QED BY <1>1, <3>1, <4>1, <4>2, NewAtNodes
    <3>2. CASE d \in AtNodes
      <4>1. /\ d.token \in DOMAIN tokens /\ d.token \in DOMAIN tokens'
            /\ Status(d.token) = "ACTIVE" <=> d \notin applied
        BY <1>1, <2>2, <3>2, TokensStay DEF Taken
      <4>2. Status(d.token) # "ACTIVE" => Status(d.token)' # "ACTIVE"
        BY <1>1, <4>1, StatusesStep
      <4>3. CASE d = c
        <5>1. ASSUME AtWork(c) PROVE Status(c.token)' # "ACTIVE"
          <6>1. tokens' = Set({c.token}, "WAITING") \/ tokens' = Set({c.token}, "CONSUMED")
            BY <1>1, <2>2, <4>3, <5>1, WorkActions DEF CreateWorkItem, AskForItems
          <6>2. TokensTyped /\ "WAITING" \in Statuses /\ "CONSUMED" \in Statuses
            BY DEF IInv, Statuses
          <6> QED BY <4>1, <4>3, <6>1, <6>2, SetTokens DEF Status
        <5>2. Status(c.token) = "ACTIVE" => AtWork(c)
          BY <3>2, <4>1, <4>3 DEF AtWork, AtNodes
        <5> QED BY <2>1, <4>1, <4>2, <4>3, <5>1, <5>2
      <4>4. CASE d # c
        <5>1. ~(c.kind = "TOKEN_AT_NODE" /\ c.token = d.token)
          BY <3>2, <4>4 DEF IInv, NamesAgree, AtNodes
        <5>2. ~IsJoin(tokens[d.token].node)
          BY <2>2, <3>2, <4>1 DEF IInv, NamesAgree, Named, IsJoin, IsWork, IsExternal, Tasks
        <5>3. Status(d.token) = "ACTIVE" => Status(d.token)' = "ACTIVE"
          BY <1>1, <4>1, <5>1, <5>2, ActiveStays
        <5> QED BY <2>1, <4>1, <4>2, <4>4, <5>3
      <4> QED BY <4>3, <4>4
    <3> QED BY <3>1, <3>2
  <2> QED BY <2>2 DEF Taken, IsWork, IsExternal
<1>2. ASSUME NEW c \in Answers, HostAnswers(c) PROVE Taken'
  BY <1>2, AnsweredByHost DEF Taken, docVars, Status, IsWork, IsExternal
<1>3. CASE UNCHANGED vars
  BY <1>3 DEF vars, docVars, queueVars, Taken, AtNodes, Status, IsWork, IsExternal
<1> QED BY <1>1, <1>2, <1>3 DEF Next

LEMMA TakenHolds == Spec => []Taken
<1>1. Init => Taken
  BY DEF Init, Taken, AtNodes, StartCont
<1> QED BY <1>1, TakenStep, Invariance, PTL DEF Spec

IsData(c) == c.kind = "MULTI_INSTANCE_RESOLVED"

(* No token arrives at a multi-instance node that has an entry already.    *)
NoEntryIsMet ==
  \A t \in Alive :
    Status(t) = "ACTIVE" => <<tokens[t].node, tokens[t].scope>> \notin DOMAIN miPending

(* The host answers each question about items once, and the answer is not  *)
(* applied again.                                                          *)
AnsweredOnce ==
  /\ \A c \in ready \cap applied : ~IsData(c)
  /\ \A c, d \in ready \cup applied : IsData(c) /\ IsData(d) /\ c.token = d.token => c = d

(* Every answer is about the node and scope where its token was.           *)
AnswersAsked ==
  \A d \in ready \cup applied :
    IsData(d) => \E c \in Asked : d.token = c.token /\ d.key = <<c.node, c.scope>>

(* As long as no answer about its items has been applied, there is an      *)
(* entry in the place of a token, and no item yet.                         *)
Unanswered(c) == \A d \in applied : IsData(d) => d.token # c.token

QuestionsHaveEntries ==
  \A c \in Asked :
    LET key == <<c.node, c.scope>> IN
    Unanswered(c) => /\ key \in DOMAIN miPending
                     /\ miPending[key].parent = c.token /\ miPending[key].total = 0

Heeded ==
  /\ AnsweredOnce /\ AnswersAsked /\ QuestionsHaveEntries
  /\ CountsMatchItems /\ AnswersTakeEffect

LEMMA MeetsNoEntry ==
  ASSUME IInv, NoEntryIsMet, NEW c \in ready \cup applied, AtWork(c)
  PROVE  <<c.node, c.scope>> \notin DOMAIN miPending
<1>1. /\ c.token \in DOMAIN tokens /\ tokens[c.token].status = "ACTIVE"
      /\ tokens[c.token].node = c.node /\ tokens[c.token].scope = c.scope
  BY AtWorkFacts
<1> QED BY <1>1 DEF NoEntryIsMet, Alive, IsAlive, Status

LEMMA NothingAsked ==
  ASSUME IInv, NEW c \in ready \cup applied, ApplyTransition(c)
  PROVE  \E conts : Answer(c, conts) /\ \A d \in conts : ~IsData(d)
<1>1. ASSUME NEW S, SendsAlong(c, S) PROVE \E conts : Answer(c, conts) /\ \A d \in conts : ~IsData(d)
  <2>1. PICK flows \in Seq(Flows), s \in ScopesUpTo(minted) : SendAlong(c, Set(S, "CONSUMED"), flows, s)
    BY <1>1 DEF SendsAlong
  <2> DEFINE conts == { AtNode(t, To[flows[t - minted]], s, flows[t - minted])
                        : t \in Fresh(Len(flows)) }
  <2>2. Answer(c, conts) /\ \A d \in conts : ~IsData(d)
    BY <2>1 DEF SendAlong, AtNode, IsData
  <2> QED BY <2>2
<1>2. ASSUME NEW S, PlacesAtStarts(c, S) PROVE \E conts : Answer(c, conts) /\ \A d \in conts : ~IsData(d)
  <2>1. PICK starts \in Seq(Starts), s \in ScopesUpTo(minted) :
          PlaceAtStarts(c, Set(S, "CONSUMED"), starts, s)
    BY <1>2 DEF PlacesAtStarts
  <2> DEFINE conts == { AtNode(t, starts[t - minted], s, FirstOf(Incoming[starts[t - minted]]))
                        : t \in Fresh(Len(starts)) }
  <2>2. Answer(c, conts) /\ \A d \in conts : ~IsData(d)
    BY <2>1 DEF PlaceAtStarts, AtNode, IsData
  <2> QED BY <2>2
<1>3. CASE PassThrough(c)
  <2> DEFINE out == FirstOut(c.node)
             conts == { AtNode(t, To[out[1]], c.scope, FirstOf(Incoming[c.node])) : t \in Fresh(Len(out)) }
  <2>1. Answer(c, conts) /\ \A d \in conts : ~IsData(d)
    BY <1>3 DEF PassThrough, AtNode, IsData
  <2> QED BY <2>1
<1>4. CASE FanOut(c) \/ Quiet(c)
  BY <1>4 DEF FanOut, Quiet
<1> QED BY <1>1, <1>2, <1>3, <1>4, Shapes

LEMMA AnsweredOnceStep ==
  ASSUME "MULTI_INSTANCE_RESOLVED" \notin Repeatable, IInv, AnsweredOnce, [Next]_vars
  PROVE  AnsweredOnce'
<1>1. ASSUME NEW c \in ready \cup applied, ApplyTransition(c) PROVE AnsweredOnce'
  <2>1. PICK conts : Answer(c, conts) /\ \A d \in conts : ~IsData(d)
    BY <1>1, NothingAsked
  <2>2. ready' = (ready \ {c}) \cup conts /\ applied' = applied \cup {c}
    BY <2>1 DEF Answer
  <2>3. \A d \in ready' \cup applied' : IsData(d) => d \in ready \cup applied
    BY <2>1, <2>2
  <2>4. \A d \in ready' \cap applied' : ~IsData(d)
    BY <2>1, <2>2 DEF AnsweredOnce
  <2> QED BY <2>3, <2>4 DEF AnsweredOnce
<1>2. ASSUME NEW c \in Answers, HostAnswers(c) PROVE AnsweredOnce'
  <2>1. ready' = ready \cup {c} /\ applied' = applied /\ c \notin ready \cup applied
    BY <1>2 DEF HostAnswers
  <2>2. IsData(c) => \A d \in ready \cup applied : IsData(d) => c.token # d.token
    BY <1>2 DEF HostAnswers, SameQuestion, IsData
  <2> QED BY <2>1, <2>2 DEF AnsweredOnce
<1>3. CASE UNCHANGED vars
  BY <1>3 DEF vars, queueVars, AnsweredOnce
<1> QED BY <1>1, <1>2, <1>3 DEF Next

(* The open items of an entry.                                             *)
Open(key) == { t \in DOMAIN workItems : workItems[t].multi = key }

LEMMA OpenIsFinite ==
  ASSUME IInv, NEW key
  PROVE  IsFiniteSet(Open(key)) /\ Cardinality(Open(key)) \in Nat
<1>1. Open(key) \subseteq 1..minted /\ minted \in Nat
  BY DEF Open, IInv, WaitsTyped, TokensTyped
<1>2. IsFiniteSet(1..minted)
  BY <1>1, FS_Interval
<1>3. IsFiniteSet(Open(key))
  BY <1>1, <1>2, FS_Subset
<1> QED BY <1>3, FS_CardinalityType

LEMMA CountIsOpen ==
  CountsMatchItems <=>
    /\ \A key \in DOMAIN miPending :
         miPending[key].total > 0 => miPending[key].completed < miPending[key].total
    /\ \A key \in DOMAIN miPending :
         Cardinality(Open(key)) = miPending[key].total - miPending[key].completed
    /\ \A t \in DOMAIN workItems : workItems[t].multi \in {NotMulti} \cup DOMAIN miPending
BY DEF CountsMatchItems, Open

(* An entry that is not resolved has no open items, and none completed.    *)
LEMMA NothingOpen ==
  ASSUME IInv, CountsMatchItems, NEW key, key # NotMulti,
         key \in DOMAIN miPending => miPending[key].total = 0
  PROVE  /\ Open(key) = {}
         /\ key \in DOMAIN miPending => miPending[key].completed = 0
<1>1. CASE key \in DOMAIN miPending
  <2>1. /\ miPending[key].total = 0 /\ miPending[key].completed \in Nat
        /\ Cardinality(Open(key)) = miPending[key].total - miPending[key].completed
    BY <1>1, CountIsOpen DEF IInv, EntriesTyped
  <2>2. IsFiniteSet(Open(key)) /\ Cardinality(Open(key)) \in Nat
    BY OpenIsFinite
  <2>3. Cardinality(Open(key)) = 0 /\ miPending[key].completed = 0
    BY <2>1, <2>2
  <2> QED BY <2>2, <2>3, FS_EmptySet
<1>2. CASE key \notin DOMAIN miPending
  BY <1>2, CountIsOpen DEF Open
<1> QED BY <1>1, <1>2

LEMMA KeysArePairs ==
  ASSUME IInv
  PROVE  NotMulti \notin DOMAIN miPending
<1>1. \A key \in Nodes \X ScopesUpTo(minted) : key # <<>>
  OBVIOUS
<1> QED BY <1>1 DEF IInv, EntriesTyped, NotMulti

LEMMA CreateCounts ==
  ASSUME IInv, CountsMatchItems, NEW c \in ready \cup applied, CreateWorkItem(c)
  PROVE  CountsMatchItems'
<1> DEFINE item == [node |-> c.node, scope |-> c.scope, multi |-> NotMulti]
<1>1. miPending' = miPending /\ workItems' = workItems ++ [t \in {c.token} |-> item]
  BY DEF CreateWorkItem
<1>2. item.multi = NotMulti
  OBVIOUS
<1> HIDE DEF item
<1>3. workItems' = [t \in DOMAIN workItems \cup {c.token} |->
                      IF t \in DOMAIN workItems THEN workItems[t] ELSE item]
  BY <1>1 DEF ++
<1>4. /\ DOMAIN workItems' = DOMAIN workItems \cup {c.token}
      /\ \A t \in DOMAIN workItems : workItems'[t] = workItems[t]
      /\ c.token \notin DOMAIN workItems => workItems'[c.token] = item
  BY <1>3
<1>5. \A key \in DOMAIN miPending : key # NotMulti
  BY KeysArePairs
<1>6. ASSUME NEW key \in DOMAIN miPending PROVE Open(key)' = Open(key)
  BY <1>2, <1>4, <1>5 DEF Open
<1>7. \A t \in DOMAIN workItems' : workItems'[t].multi \in {NotMulti} \cup DOMAIN miPending
  BY <1>2, <1>4, CountIsOpen
<1>8. \A key \in DOMAIN miPending :
        Cardinality(Open(key)') = miPending[key].total - miPending[key].completed
  BY <1>6, CountIsOpen
<1> QED BY <1>1, <1>7, <1>8, CountIsOpen DEF CountsMatchItems, Open

LEMMA AskCounts ==
  ASSUME IInv, CountsMatchItems, NoEntryIsMet, NEW c \in ready \cup applied, AskForItems(c)
  PROVE  CountsMatchItems'
<1> DEFINE entry == [parent |-> c.token, total |-> 0, completed |-> 0]
           k == <<c.node, c.scope>>
<1>1. /\ workItems' = workItems /\ miPending' = [key \in {k} |-> entry] ++ miPending
      /\ AtWork(c)
  BY DEF AskForItems, waitVars
<1>2. k \notin DOMAIN miPending
  BY <1>1, MeetsNoEntry
<1>3. Open(k) = {}
  BY <1>2, NothingOpen DEF NotMulti
<1>4. entry.total = 0 /\ entry.completed = 0
  OBVIOUS
<1> HIDE DEF entry, k
<1>5. /\ DOMAIN miPending' = {k} \cup DOMAIN miPending /\ miPending'[k] = entry
      /\ \A key \in DOMAIN miPending : key # k => miPending'[key] = miPending[key]
  <2>1. miPending' = [key \in {k} \cup DOMAIN miPending |->
                        IF key \in {k} THEN [x \in {k} |-> entry][key] ELSE miPending[key]]
    BY <1>1 DEF ++
  <2> QED BY <2>1
<1>6. \A key : Open(key)' = Open(key)
  BY <1>1 DEF Open
<1>7. Cardinality(Open(k)') = 0 - 0
  BY <1>3, <1>6, FS_EmptySet
<1>8. \A key \in DOMAIN miPending' :
        Cardinality(Open(key)') = miPending'[key].total - miPending'[key].completed
  BY <1>4, <1>5, <1>6, <1>7, CountIsOpen
<1>9. \A key \in DOMAIN miPending' :
        miPending'[key].total > 0 => miPending'[key].completed < miPending'[key].total
  BY <1>4, <1>5, CountIsOpen
<1>10. \A t \in DOMAIN workItems' : workItems'[t].multi \in {NotMulti} \cup DOMAIN miPending'
  BY <1>1, <1>5, CountIsOpen
<1> QED BY <1>8, <1>9, <1>10 DEF CountsMatchItems, Open

LEMMA CompleteCounts ==
  ASSUME IInv, CountsMatchItems, NEW c \in ready \cup applied, CompleteWork(c)
  PROVE  CountsMatchItems'
<1> DEFINE t == c.item
<1> PICK key : key = workItems[t].multi
  OBVIOUS
<1>1. /\ t \in DOMAIN workItems /\ workItems' = Without(workItems, {t})
      /\ miPending' = IF CountsOnly(key) THEN [miPending EXCEPT ![key].completed = @ + 1]
                      ELSE Without(miPending, {key})
  BY DEF CompleteWork
<1>2. key \in {NotMulti} \cup DOMAIN miPending /\ t \in Open(key)
  BY <1>1, CountIsOpen DEF Open
<1> HIDE DEF t
<1>3. /\ DOMAIN workItems' = DOMAIN workItems \ {t}
      /\ \A u \in DOMAIN workItems' : workItems'[u] = workItems[u]
  <2>1. workItems' = [u \in DOMAIN workItems \ {t} |-> workItems[u]]
    BY <1>1 DEF Without, Restrict
  <2> QED BY <2>1
<1>4. \A k : Open(k)' = Open(k) \ {t}
  BY <1>3 DEF Open
<1>5. ASSUME NEW k, k # key PROVE Open(k)' = Open(k)
  <2>1. t \notin Open(k)
    BY <1>2, <1>5 DEF Open
  <2> QED BY <1>4, <2>1
<1>6. IsFiniteSet(Open(key)) /\ Cardinality(Open(key)) \in Nat
  BY OpenIsFinite
<1>7. Cardinality(Open(key)') = Cardinality(Open(key)) - 1
  BY <1>2, <1>4, <1>6, FS_RemoveElement
<1>8. \A k \in DOMAIN miPending : miPending[k] \in [parent : 1..minted, total : Nat, completed : Nat]
  BY DEF IInv, EntriesTyped
<1>9. CASE CountsOnly(key)
  <2>1. key \in DOMAIN miPending /\ miPending[key].completed + 1 < miPending[key].total
    BY <1>9 DEF CountsOnly
  <2>2. miPending' = [k \in DOMAIN miPending |->
                        IF k = key THEN [miPending[k] EXCEPT !.completed = @ + 1] ELSE miPending[k]]
    BY <1>1, <1>9
  <2>3. \A e \in [parent : 1..minted, total : Nat, completed : Nat] :
          /\ [e EXCEPT !.completed = @ + 1].completed = e.completed + 1
          /\ [e EXCEPT !.completed = @ + 1].total = e.total
    OBVIOUS
  <2>4. /\ DOMAIN miPending' = DOMAIN miPending
        /\ miPending'[key].completed = miPending[key].completed + 1
        /\ miPending'[key].total = miPending[key].total
        /\ \A k \in DOMAIN miPending : k # key => miPending'[k] = miPending[k]
    BY <1>8, <2>1, <2>2, <2>3
  <2>5. Cardinality(Open(key)') = miPending'[key].total - miPending'[key].completed
    BY <1>7, <1>8, <2>1, <2>4, CountIsOpen
  <2>6. \A k \in DOMAIN miPending' :
          Cardinality(Open(k)') = miPending'[k].total - miPending'[k].completed
    BY <1>5, <2>4, <2>5, CountIsOpen
  <2>7. \A k \in DOMAIN miPending' :
          miPending'[k].total > 0 => miPending'[k].completed < miPending'[k].total
    BY <2>1, <2>4, CountIsOpen
  <2>8. \A u \in DOMAIN workItems' : workItems'[u].multi \in {NotMulti} \cup DOMAIN miPending'
    BY <1>3, <2>4, CountIsOpen
  <2> QED BY <2>6, <2>7, <2>8 DEF CountsMatchItems, Open
<1>10. CASE ~CountsOnly(key)
  <2>1. /\ DOMAIN miPending' = DOMAIN miPending \ {key}
        /\ \A k \in DOMAIN miPending' : miPending'[k] = miPending[k]
    <3>1. miPending' = [k \in DOMAIN miPending \ {key} |-> miPending[k]]
      BY <1>1, <1>10 DEF Without, Restrict
    <3> QED BY <3>1
  <2>2. \A k \in DOMAIN miPending' :
          Cardinality(Open(k)') = miPending'[k].total - miPending'[k].completed
    BY <1>5, <2>1, CountIsOpen
  <2>3. \A k \in DOMAIN miPending' :
          miPending'[k].total > 0 => miPending'[k].completed < miPending'[k].total
    BY <2>1, CountIsOpen
  <2>4. key \in DOMAIN miPending => Open(key)' = {}
    <3> HAVE key \in DOMAIN miPending
    <3>1. /\ Cardinality(Open(key)) = miPending[key].total - miPending[key].completed
          /\ ~(miPending[key].completed + 1 < miPending[key].total)
          /\ miPending[key].total \in Nat /\ miPending[key].completed \in Nat
      BY <1>8, <1>10, CountIsOpen DEF CountsOnly
    <3>2. IsFiniteSet(Open(key)') /\ Cardinality(Open(key)') \in Nat
      <4>1. IsFiniteSet(Open(key) \ {t})
        BY <1>6, FS_RemoveElement
      <4> QED BY <1>4, <4>1, FS_CardinalityType
    <3>3. Cardinality(Open(key)') = 0
      BY <1>6, <1>7, <3>1, <3>2
    <3> QED BY <3>2, <3>3, FS_EmptySet
  <2>5. \A u \in DOMAIN workItems' : workItems'[u].multi \in {NotMulti} \cup DOMAIN miPending'
    <3>1. ASSUME NEW u \in DOMAIN workItems', workItems'[u].multi \notin {NotMulti} \cup DOMAIN miPending'
          PROVE  FALSE
      <4>1. workItems'[u].multi = key /\ key \in DOMAIN miPending
        BY <1>3, <2>1, <3>1, CountIsOpen
      <4>2. u \in Open(key)'
        BY <4>1 DEF Open
      <4> QED BY <2>4, <4>1, <4>2
    <3> QED BY <3>1
  <2> QED BY <2>2, <2>3, <2>5 DEF CountsMatchItems, Open
<1> QED BY <1>9, <1>10

LEMMA FanOutCounts ==
  ASSUME IInv, CountsMatchItems, NEW c \in ready \cup applied, FanOut(c),
         miPending[c.key].total = 0
  PROVE  CountsMatchItems'
<1> DEFINE N == Fresh(c.items)
           k == c.key
           item == [node |-> k[1], scope |-> k[2], multi |-> k]
<1>1. /\ c.items \in Nat /\ c.items > 0 /\ N = minted + 1 .. minted' /\ minted' = minted + c.items
      /\ k \in DOMAIN miPending /\ \A t \in N : t \notin DOMAIN tokens
  BY FanOutStep
<1>2. /\ IsData(c) /\ Answer(c, {})
      /\ miPending' = [miPending EXCEPT ![k].total = c.items]
      /\ workItems' = workItems ++ [t \in N |-> item]
  BY DEF FanOut, IsData
<1>3. item.multi = k
  OBVIOUS
<1> HIDE DEF N, item, k
<1>5. miPending[k].total = 0
  BY DEF k
<1>6. k # NotMulti
  BY <1>1, KeysArePairs
<1>7. Open(k) = {} /\ miPending[k].completed = 0
  BY <1>1, <1>5, <1>6, NothingOpen
<1>8. /\ DOMAIN workItems' = DOMAIN workItems \cup N
      /\ \A t \in DOMAIN workItems : workItems'[t] = workItems[t]
      /\ \A t \in N : t \notin DOMAIN workItems /\ workItems'[t] = item
  <2>1. workItems' = [t \in DOMAIN workItems \cup N |->
                        IF t \in DOMAIN workItems THEN workItems[t] ELSE [x \in N |-> item][t]]
    BY <1>2 DEF ++
  <2>2. \A t \in N : t \notin DOMAIN workItems
    BY <1>1 DEF IInv, WaitsTyped
  <2> QED BY <2>1, <2>2
<1>9. Open(k)' = N
  BY <1>3, <1>7, <1>8 DEF Open
<1>10. ASSUME NEW key, key # k PROVE Open(key)' = Open(key)
  BY <1>3, <1>8, <1>10 DEF Open
<1>11. Cardinality(N) = c.items
  <2>1. minted \in Nat
    BY DEF IInv, TokensTyped
  <2>2. minted + 1 \in Int /\ minted' \in Int
    BY <1>1, <2>1
  <2>3. Cardinality(minted + 1 .. minted') =
          IF minted + 1 > minted' THEN 0 ELSE minted' - (minted + 1) + 1
    BY <2>2, FS_Interval
  <2> QED BY <1>1, <2>1, <2>3
<1>12. /\ DOMAIN miPending' = DOMAIN miPending
       /\ miPending'[k].total = c.items /\ miPending'[k].completed = 0
       /\ \A key \in DOMAIN miPending : key # k => miPending'[key] = miPending[key]
  <2>1. miPending' = [key \in DOMAIN miPending |->
                        IF key = k THEN [miPending[key] EXCEPT !.total = c.items] ELSE miPending[key]]
    BY <1>2
  <2>2. miPending[k] \in [parent : 1..minted, total : Nat, completed : Nat]
    BY <1>1 DEF IInv, EntriesTyped
  <2>3. \A e \in [parent : 1..minted, total : Nat, completed : Nat] :
          /\ [e EXCEPT !.total = c.items].completed = e.completed
          /\ [e EXCEPT !.total = c.items].total = c.items
    OBVIOUS
  <2> QED BY <1>1, <1>7, <2>1, <2>2, <2>3
<1>13. \A key \in DOMAIN miPending' :
         Cardinality(Open(key)') = miPending'[key].total - miPending'[key].completed
  BY <1>1, <1>9, <1>10, <1>11, <1>12, CountIsOpen
<1>14. \A key \in DOMAIN miPending' :
         miPending'[key].total > 0 => miPending'[key].completed < miPending'[key].total
  BY <1>1, <1>12, CountIsOpen
<1>15. \A t \in DOMAIN workItems' : workItems'[t].multi \in {NotMulti} \cup DOMAIN miPending'
  BY <1>1, <1>3, <1>8, <1>12, CountIsOpen
<1> QED BY <1>13, <1>14, <1>15 DEF CountsMatchItems, Open

(* Which actions touch items and entries.                                  *)
LEMMA ItemActions ==
  ASSUME NEW c, ApplyTransition(c)
  PROVE  \/ CreateWorkItem(c) \/ AskForItems(c) \/ CompleteWork(c) \/ FanOut(c)
         \/ workItems' = workItems /\ miPending' = miPending
BY DEF ApplyTransition, Start, NothingToDo, StartEvent, EndSubProcess, EndInSubProcess, EndEvent,
       EnterSubProcess, RequestDecision, PassThrough, Fork, Park, Join, TakeDecision, TooLate, NoOp,
       docVars, waitVars, PassOn

LEMMA AnswersAskedStep ==
  ASSUME IInv, AnswersAsked, [Next]_vars
  PROVE  AnswersAsked'
<1>1. ASSUME NEW c \in ready \cup applied, ApplyTransition(c) PROVE AnswersAsked'
  <2>1. PICK conts : Answer(c, conts) /\ \A d \in conts : ~IsData(d)
    BY <1>1, NothingAsked
  <2>2. ready' = (ready \ {c}) \cup conts /\ applied' = applied \cup {c}
    BY <2>1 DEF Answer
  <2>3. \A d \in ready' \cup applied' : IsData(d) => d \in ready \cup applied
    BY <2>1, <2>2
  <2>4. Asked \subseteq Asked'
    BY <2>2 DEF Asked, IsWork, IsExternal, IsMulti
  <2> QED BY <2>3, <2>4 DEF AnswersAsked
<1>2. ASSUME NEW c \in Answers, HostAnswers(c) PROVE AnswersAsked'
  <2>1. ready' = ready \cup {c} /\ applied' = applied
    BY <1>2 DEF HostAnswers
  <2>2. Asked' = Asked
    BY <2>1 DEF Asked, IsWork, IsExternal, IsMulti
  <2>3. IsData(c) => \E q \in Asked, k \in ItemCounts : c = Resolved(q, k)
    BY DEF Answers, IsData, WorkCompleted, DecisionRecorded
  <2>4. IsData(c) => \E q \in Asked : c.token = q.token /\ c.key = <<q.node, q.scope>>
    BY <2>3 DEF Resolved
  <2> QED BY <2>1, <2>2, <2>4 DEF AnswersAsked
<1>3. CASE UNCHANGED vars
  BY <1>3 DEF vars, queueVars, AnswersAsked, Asked, IsWork, IsExternal, IsMulti
<1> QED BY <1>1, <1>2, <1>3 DEF Next

(* What a transition does to the entries.                                  *)
SameEntry(key) ==
  /\ key \in DOMAIN miPending /\ key \in DOMAIN miPending'
  /\ miPending'[key].parent = miPending[key].parent
  /\ miPending'[key].total = miPending[key].total

LEMMA EntriesStep ==
  ASSUME IInv, NEW c \in ready \cup applied, ApplyTransition(c)
  PROVE  \/ miPending' = miPending /\ ~AskForItems(c) /\ ~FanOut(c)
         \/ LET k == <<c.node, c.scope>> IN
            /\ AskForItems(c)
            /\ k \in DOMAIN miPending' /\ miPending'[k].parent = c.token /\ miPending'[k].total = 0
            /\ \A key \in DOMAIN miPending \cup DOMAIN miPending' : key # k => SameEntry(key)
         \/ /\ CompleteWork(c)
            /\ \A key \in DOMAIN miPending' : SameEntry(key)
            /\ \A key \in DOMAIN miPending : key # workItems[c.item].multi => SameEntry(key)
         \/ /\ FanOut(c) /\ DOMAIN miPending' = DOMAIN miPending
            /\ miPending'[c.key].total = c.items
            /\ \A key \in DOMAIN miPending : key # c.key => SameEntry(key)
<1> USE DEF SameEntry
<1>1. \A key \in DOMAIN miPending : miPending[key] \in [parent : 1..minted, total : Nat, completed : Nat]
  BY DEF IInv, EntriesTyped
<1>2. CASE CreateWorkItem(c)
  BY <1>2 DEF CreateWorkItem, AskForItems, FanOut, AtWork
<1>3. CASE AskForItems(c)
  <2> DEFINE entry == [parent |-> c.token, total |-> 0, completed |-> 0]
             k == <<c.node, c.scope>>
  <2>1. miPending' = [key \in {k} |-> entry] ++ miPending
    BY <1>3 DEF AskForItems
  <2>2. entry.parent = c.token /\ entry.total = 0
    OBVIOUS
  <2> HIDE DEF entry, k
  <2>3. miPending' = [key \in {k} \cup DOMAIN miPending |->
                        IF key \in {k} THEN [x \in {k} |-> entry][key] ELSE miPending[key]]
    BY <2>1 DEF ++
  <2>4. /\ k \in DOMAIN miPending' /\ miPending'[k].parent = c.token /\ miPending'[k].total = 0
        /\ \A key \in DOMAIN miPending \cup DOMAIN miPending' : key # k => SameEntry(key)
    BY <2>2, <2>3
  <2> QED BY <1>3, <2>4 DEF k
<1>4. CASE CompleteWork(c)
  <2> PICK k : k = workItems[c.item].multi
    OBVIOUS
  <2>1. miPending' = IF CountsOnly(k) THEN [miPending EXCEPT ![k].completed = @ + 1]
                     ELSE Without(miPending, {k})
    BY <1>4 DEF CompleteWork
  <2>2. CASE CountsOnly(k)
    <3>1. miPending' = [x \in DOMAIN miPending |->
                          IF x = k THEN [miPending[x] EXCEPT !.completed = @ + 1] ELSE miPending[x]]
      BY <2>1, <2>2
    <3>2. \A e \in [parent : 1..minted, total : Nat, completed : Nat] :
            /\ [e EXCEPT !.completed = @ + 1].parent = e.parent
            /\ [e EXCEPT !.completed = @ + 1].total = e.total
      OBVIOUS
    <3>3. \A key \in DOMAIN miPending : SameEntry(key)
      BY <1>1, <3>1, <3>2
    <3> QED BY <1>4, <3>1, <3>3
  <2>3. CASE ~CountsOnly(k)
    <3>1. miPending' = [x \in DOMAIN miPending \ {k} |-> miPending[x]]
      BY <2>1, <2>3 DEF Without, Restrict
    <3> QED BY <1>4, <3>1
  <2> QED BY <2>2, <2>3
<1>5. CASE FanOut(c)
  <2>1. miPending' = [miPending EXCEPT ![c.key].total = c.items] /\ c.key \in DOMAIN miPending
    BY <1>5 DEF FanOut
  <2>2. \A e \in [parent : 1..minted, total : Nat, completed : Nat] : [e EXCEPT !.total = c.items].total = c.items
    OBVIOUS
  <2>3. miPending' = [x \in DOMAIN miPending |->
                        IF x = c.key THEN [miPending[x] EXCEPT !.total = c.items] ELSE miPending[x]]
    BY <2>1
  <2>4. /\ DOMAIN miPending' = DOMAIN miPending /\ miPending'[c.key].total = c.items
        /\ \A key \in DOMAIN miPending : key # c.key => SameEntry(key)
    BY <1>1, <2>1, <2>2, <2>3
  <2> QED BY <1>5, <2>4
<1>6. CASE miPending' = miPending /\ ~AskForItems(c) /\ ~FanOut(c)
  BY <1>6
<1> QED BY <1>2, <1>3, <1>4, <1>5, <1>6, ItemActions

(* Items come for the token that was asked about, and only once.           *)
LEMMA FirstAnswer ==
  ASSUME "MULTI_INSTANCE_RESOLVED" \notin Repeatable, IInv, AnsweredOnce, AnswersAsked,
         QuestionsHaveEntries, NEW c \in ready \cup applied, FanOut(c)
  PROVE  miPending[c.key].parent = c.token /\ miPending[c.key].total = 0
<1>1. IsData(c) /\ Answer(c, {})
  BY DEF FanOut, IsData
<1>2. c \in ready /\ c \notin applied
  BY <1>1 DEF Answer, Due, Again, AnsweredOnce, IsData
<1>3. PICK q \in Asked : c.token = q.token /\ c.key = <<q.node, q.scope>>
  BY <1>1 DEF AnswersAsked
<1>4. Unanswered(q)
  BY <1>1, <1>2, <1>3 DEF Unanswered, AnsweredOnce
<1> QED BY <1>3, <1>4 DEF QuestionsHaveEntries

LEMMA QuestionsHaveEntriesStep ==
  ASSUME "MULTI_INSTANCE_RESOLVED" \notin Repeatable, IInv, Taken, NoEntryIsMet, Heeded,
         NEW c \in ready \cup applied, ApplyTransition(c)
  PROVE  QuestionsHaveEntries'
<1>1. applied' = applied \cup {c}
  BY NothingAsked DEF Answer
<1>2. SUFFICES ASSUME NEW q \in Asked', Unanswered(q)'
               PROVE  LET key == <<q.node, q.scope>> IN
                      /\ key \in DOMAIN miPending' /\ miPending'[key].parent = q.token
                      /\ miPending'[key].total = 0
  BY DEF QuestionsHaveEntries
<1> DEFINE key == <<q.node, q.scope>>
<1>3. q \in applied' /\ q.kind = "TOKEN_AT_NODE" /\ IsWork(q.node) /\ IsMulti(q.node)
  BY DEF Asked, IsWork, IsExternal, IsMulti
<1>4. CASE q \notin Asked
  <2>1. q = c /\ c \notin applied
    BY <1>1, <1>3, <1>4 DEF Asked
  <2>2. AtWork(c)
    BY <1>3, <2>1 DEF Taken, AtNodes, AtWork
  <2>3. AskForItems(c)
    BY <1>3, <2>1, <2>2, WorkActions DEF CreateWorkItem
  <2> QED BY <2>1, <2>3, EntriesStep DEF CompleteWork, FanOut, AskForItems, AtWork
<1>5. CASE q \in Asked
  <2>1. Unanswered(q)
    BY <1>1, <1>2 DEF Unanswered
  <2>2. key \in DOMAIN miPending /\ miPending[key].parent = q.token /\ miPending[key].total = 0
    BY <1>5, <2>1 DEF Heeded, QuestionsHaveEntries
  <2>3. key # NotMulti
    BY DEF NotMulti
  <2> HIDE DEF key
  <2>4. SUFFICES miPending' = miPending \/ SameEntry(key)
    BY <2>2 DEF SameEntry, key
  <2>5. CASE AskForItems(c)
    <3>1. key # <<c.node, c.scope>>
      BY <2>2, <2>5, MeetsNoEntry DEF AskForItems
    <3> QED BY <2>2, <2>5, <3>1, EntriesStep DEF AskForItems, CompleteWork, FanOut, AtWork
  <2>6. CASE CompleteWork(c)
    <3>1. Open(key) = {}
      BY <2>2, <2>3, NothingOpen DEF Heeded
    <3>2. key # workItems[c.item].multi
      BY <2>6, <3>1 DEF Open, CompleteWork
    <3> QED BY <2>2, <2>6, <3>2, EntriesStep DEF AskForItems, CompleteWork, FanOut, AtWork
  <2>7. CASE FanOut(c)
    <3>1. miPending[c.key].parent = c.token /\ IsData(c)
      BY <2>7, FirstAnswer DEF Heeded, FanOut, IsData
    <3>2. key # c.key
      BY <1>1, <1>2, <2>2, <3>1 DEF Unanswered
    <3> QED BY <2>2, <2>7, <3>2, EntriesStep DEF AskForItems, CompleteWork, FanOut, AtWork
  <2> QED BY <2>5, <2>6, <2>7, EntriesStep
<1> QED BY <1>4, <1>5

LEMMA DataActions ==
  ASSUME NEW c, IsData(c), ApplyTransition(c)
  PROVE  FanOut(c) \/ c.key \notin DOMAIN miPending \/ c.items = 0
BY DEF IsData, ApplyTransition, Start, NothingToDo, StartEvent, EndSubProcess, EndInSubProcess, EndEvent,
       EnterSubProcess, CreateWorkItem, AskForItems, RequestDecision, PassThrough, Fork, Park, Join,
       AtJoin, CompleteWork, TakeDecision, TooLate, AtWork

LEMMA AnswersTakeEffectStep ==
  ASSUME "MULTI_INSTANCE_RESOLVED" \notin Repeatable, IInv, Taken, Heeded,
         NEW c \in ready \cup applied, ApplyTransition(c)
  PROVE  AnswersTakeEffect'
<1>1. applied' = applied \cup {c}
  BY NothingAsked DEF Answer
<1>2. SUFFICES ASSUME NEW d \in applied', NEW key \in DOMAIN miPending', IsData(d), d.items > 0,
                      d.key = key, miPending'[key].parent = d.token
               PROVE  miPending'[key].total > 0
  BY DEF AnswersTakeEffect, IsData
<1>3. d \in applied /\ SameEntry(key) => miPending'[key].total > 0
  BY <1>2 DEF Heeded, AnswersTakeEffect, IsData, SameEntry
<1>4. CASE miPending' = miPending /\ ~FanOut(c)
  <2>1. d # c
    BY <1>2, <1>4, DataActions
  <2> QED BY <1>1, <1>2, <1>3, <1>4, <2>1 DEF SameEntry
<1>5. CASE AskForItems(c)
  <2>1. d # c /\ AtWork(c) /\ IsWork(c.node)
    BY <1>2, <1>5 DEF AskForItems, AtWork, IsData
  <2>2. d \in applied
    BY <1>1, <2>1
  <2>3. key # <<c.node, c.scope>>
    <3>1. SUFFICES ASSUME miPending'[key].parent = c.token PROVE FALSE
      BY <1>5, EntriesStep DEF AskForItems, CompleteWork, FanOut, AtWork
    <3>2. PICK q \in Asked : d.token = q.token
      BY <1>2, <2>2 DEF Heeded, AnswersAsked
    <3>3. q \in AtNodes /\ q \in applied /\ c \in AtNodes
      BY <2>1, AtWorkFacts DEF Asked, AtNodes
    <3>4. q = c
      BY <1>2, <3>1, <3>2, <3>3 DEF IInv, NamesAgree
    <3> QED BY <2>1, <3>3, <3>4 DEF Taken, AtWork
  <2> QED BY <1>3, <1>5, <2>2, <2>3, EntriesStep DEF AskForItems, CompleteWork, FanOut, AtWork
<1>6. CASE CompleteWork(c)
  <2>1. d # c
    BY <1>2, <1>6 DEF CompleteWork, IsData
  <2> QED BY <1>1, <1>3, <1>6, <2>1, EntriesStep DEF AskForItems, CompleteWork, FanOut, AtWork, SameEntry
<1>7. CASE FanOut(c)
  <2>1. c.items > 0
    BY <1>7 DEF FanOut
  <2> QED BY <1>1, <1>2, <1>3, <1>7, <2>1, EntriesStep DEF AskForItems, CompleteWork, FanOut, AtWork
<1> QED BY <1>4, <1>5, <1>6, <1>7, EntriesStep

LEMMA HeededStep ==
  ASSUME "MULTI_INSTANCE_RESOLVED" \notin Repeatable, IInv, Taken, NoEntryIsMet, Heeded, [Next]_vars
  PROVE  Heeded'
<1>1. AnsweredOnce' /\ AnswersAsked'
  BY AnsweredOnceStep, AnswersAskedStep DEF Heeded
<1>2. CASE UNCHANGED <<workItems, miPending, applied>>
  <2>1. Asked' = Asked
    BY <1>2 DEF Asked, IsWork, IsExternal, IsMulti
  <2> QED BY <1>1, <1>2, <2>1 DEF Heeded, QuestionsHaveEntries, Unanswered, CountsMatchItems,
          AnswersTakeEffect
<1>3. ASSUME NEW c \in ready \cup applied, ApplyTransition(c) PROVE Heeded'
  <2>1. workItems' = workItems /\ miPending' = miPending => CountsMatchItems'
    BY DEF Heeded, CountsMatchItems
  <2>2. FanOut(c) => miPending[c.key].total = 0
    BY <1>3, FirstAnswer DEF Heeded
  <2>3. CountsMatchItems'
    BY <1>3, <2>1, <2>2, ItemActions, CreateCounts, AskCounts, CompleteCounts, FanOutCounts DEF Heeded
  <2> QED BY <1>1, <1>3, <2>3, QuestionsHaveEntriesStep, AnswersTakeEffectStep DEF Heeded
<1>4. (\E c \in Answers : HostAnswers(c)) => UNCHANGED <<workItems, miPending, applied>>
  BY DEF HostAnswers, docVars, waitVars
<1>5. UNCHANGED vars => UNCHANGED <<workItems, miPending, applied>>
  BY DEF vars, docVars, waitVars, queueVars
<1> QED BY <1>2, <1>3, <1>4, <1>5 DEF Next

LEMMA InitHeeded == Init => Heeded
BY DEF Init, Heeded, AnsweredOnce, AnswersAsked, QuestionsHaveEntries, Asked, CountsMatchItems,
   AnswersTakeEffect, IsData, StartCont

LEMMA HeededHolds ==
  ASSUME "MULTI_INSTANCE_RESOLVED" \notin Repeatable
  PROVE  Spec /\ []NoEntryIsMet => []Heeded
<1>2. IInv /\ Taken /\ NoEntryIsMet /\ Heeded /\ [Next]_vars => Heeded'
  BY HeededStep
<1> QED BY <1>2, InitHeeded, Invariance, TakenHolds, PTL DEF Spec

(* The counters of a multi-instance entry are those of its open items, for *)
(* any number of items and of rounds, and it has the items the host has    *)
(* said, however late, though it is found by node and scope alone: if the  *)
(* host answers each of its questions about items once, no answer is       *)
(* applied twice, and no token arrives while an entry is there.            *)
THEOREM CountersAgree ==
  ASSUME "MULTI_INSTANCE_RESOLVED" \notin Repeatable
  PROVE  Spec /\ []NoEntryIsMet => []MultiInstanceCount
<1>1. Heeded => MultiInstanceCount
  BY DEF Heeded, MultiInstanceCount
<1> QED BY <1>1, HeededHolds, PTL

------------------------------------------------------------------------------
(* Where scopes and items come from.                                       *)

(* A scope is named by the token that entered its subprocess, which tells  *)
(* the node and the scope around it, and whose scope is an older one.      *)
ScopesOfTokens ==
  \A s \in DOMAIN scopes \ {Root} :
    /\ s \in DOMAIN tokens /\ IsEmbedded(tokens[s].node)
    /\ scopes[s].node = tokens[s].node /\ scopes[s].parent = tokens[s].scope

OlderScopes == \A t \in DOMAIN tokens : tokens[t].scope # Root => tokens[t].scope < t

WorkNodes ==
  /\ \A t \in DOMAIN workItems :
       /\ IsWork(workItems[t].node)
       /\ workItems[t].multi \in {NotMulti, <<workItems[t].node, workItems[t].scope>>}
  /\ \A key \in DOMAIN miPending : IsWork(key[1])

Origins == ScopesOfTokens /\ OlderScopes /\ WorkNodes

(* Which actions touch the scopes, and how.                                *)
LEMMA ScopeActions ==
  ASSUME NEW c, ApplyTransition(c)
  PROVE  \/ /\ scopes' = scopes /\ ~EndSubProcess(c) /\ ~EnterSubProcess(c)
            /\ Start(c) => DOMAIN tokens # {}
         \/ /\ EndSubProcess(c) /\ c.scope \in DOMAIN scopes /\ c.scope # Root
            /\ DOMAIN scopes' = DOMAIN scopes \ {c.scope}
            /\ \A s \in DOMAIN scopes' : scopes'[s] = scopes[s]
         \/ /\ EnterSubProcess(c) /\ DOMAIN scopes' = DOMAIN scopes \cup {c.token}
            /\ \A s \in DOMAIN scopes : scopes'[s] = scopes[s]
            /\ c.token \notin DOMAIN scopes =>
                 scopes'[c.token].node = c.node /\ scopes'[c.token].parent = c.scope
         \/ /\ Start(c) /\ DOMAIN tokens = {} /\ DOMAIN scopes' = DOMAIN scopes \cup {Root}
            /\ \A s \in DOMAIN scopes : scopes'[s] = scopes[s]
            /\ Root \notin DOMAIN scopes => scopes'[Root].parent = Root
<1>1. CASE ~Start(c) /\ ~EndSubProcess(c) /\ ~EnterSubProcess(c)
  BY <1>1 DEF ApplyTransition, NothingToDo, StartEvent, EndInSubProcess, EndEvent, CreateWorkItem,
     AskForItems, RequestDecision, PassThrough, Fork, Park, Join, CompleteWork, FanOut,
     TakeDecision, TooLate, NoOp, docVars, PassOn
<1>2. CASE EndSubProcess(c)
  <2>1. c.scope \in DOMAIN scopes /\ c.scope # Root /\ scopes' = Without(scopes, {c.scope})
    BY <1>2 DEF EndSubProcess, InSubProcess
  <2>2. scopes' = [s \in DOMAIN scopes \ {c.scope} |-> scopes[s]]
    BY <2>1 DEF Without, Restrict
  <2> QED BY <1>2, <2>1, <2>2
<1>3. CASE EnterSubProcess(c)
  <2> DEFINE inner == [node |-> c.node, parent |-> c.scope]
  <2>1. scopes' = scopes ++ [t \in {c.token} |-> inner]
    BY <1>3 DEF EnterSubProcess
  <2>2. inner.node = c.node /\ inner.parent = c.scope
    OBVIOUS
  <2> HIDE DEF inner
  <2>3. scopes' = [s \in DOMAIN scopes \cup {c.token} |->
                     IF s \in DOMAIN scopes THEN scopes[s] ELSE inner]
    BY <2>1 DEF ++
  <2> QED BY <1>3, <2>2, <2>3
<1>4. CASE Start(c)
  <2>1. CASE DOMAIN tokens # {}
    BY <1>4, <2>1 DEF Start, NoOp, docVars, EndSubProcess, EnterSubProcess, AtWork
  <2>2. CASE DOMAIN tokens = {}
    <3> DEFINE top == [node |-> TopLevel, parent |-> Root]
    <3>1. scopes' = scopes ++ [s \in {Root} |-> top] /\ top.parent = Root
      BY <1>4, <2>2 DEF Start
    <3> HIDE DEF top
    <3>2. scopes' = [s \in DOMAIN scopes \cup {Root} |->
                       IF s \in DOMAIN scopes THEN scopes[s] ELSE top]
      BY <3>1 DEF ++
    <3> QED BY <1>4, <2>2, <3>1, <3>2
  <2> QED BY <2>1, <2>2
<1> QED BY <1>1, <1>2, <1>3, <1>4

(* The tokens a transition adds are younger than all scopes.               *)
LEMMA NewTokens ==
  ASSUME IInv, NEW c \in ready \cup applied, ApplyTransition(c)
  PROVE  \A t \in DOMAIN tokens' \ DOMAIN tokens :
           t \in minted + 1 .. minted' /\ tokens'[t].scope \in ScopesUpTo(minted)
<1>1. "CONSUMED" \in Statuses /\ "WAITING" \in Statuses /\ TokensTyped
  BY DEF Statuses, IInv
<1>2. SUFFICES \E S, st, N : Moved(S, st, N) /\ \A t \in N : tokens'[t].scope \in ScopesUpTo(minted)
  BY DEF Moved
<1>3. CASE \E S : SendsAlong(c, S)
  <2>0. PICK S : SendsAlong(c, S)
    BY <1>3
  <2>1. PICK flows \in Seq(Flows), s \in ScopesUpTo(minted) :
          SendAlong(c, Set(S, "CONSUMED"), flows, s)
    BY <2>0 DEF SendsAlong
  <2> DEFINE N == Fresh(Len(flows))
  <2>2. /\ Moved(S, "CONSUMED", N)
        /\ \A t \in N : tokens'[t] = NewToken(To[flows[t - minted]], s, "ACTIVE")
    BY <1>1, <2>1, SendAlongStep
  <2>3. \A t \in N : tokens'[t].scope = s
    <3>1. \A n : NewToken(n, s, "ACTIVE").scope = s
      BY DEF NewToken
    <3> HIDE DEF N
    <3> QED BY <2>2, <3>1
  <2> QED BY <2>1, <2>2, <2>3
<1>4. CASE \E S : PlacesAtStarts(c, S)
  <2>0. PICK S : PlacesAtStarts(c, S)
    BY <1>4
  <2>1. PICK starts \in Seq(Starts), s \in ScopesUpTo(minted) :
          PlaceAtStarts(c, Set(S, "CONSUMED"), starts, s)
    BY <2>0 DEF PlacesAtStarts
  <2> DEFINE N == LastFresh(Len(starts))
  <2>2. Moved(S, "CONSUMED", N) /\ \A t \in N : tokens'[t].scope = s
    BY <1>1, <2>1, PlaceAtStartsStep
  <2> QED BY <2>1, <2>2
<1>5. CASE PassThrough(c)
  <2> DEFINE N == Fresh(Len(FirstOut(c.node)))
  <2>1. /\ Moved({c.token}, "CONSUMED", N)
        /\ \A t \in N : tokens'[t] = NewToken(To[Outgoing[c.node][1]], c.scope, "ACTIVE")
    BY <1>5, PassThroughStep
  <2>2. c.scope \in ScopesUpTo(minted)
    BY <1>5, AtWorkFacts DEF PassThrough
  <2>3. \A t \in N : tokens'[t].scope = c.scope
    BY <2>1 DEF NewToken
  <2> QED BY <2>1, <2>2, <2>3
<1>6. CASE FanOut(c)
  <2> DEFINE N == Fresh(c.items)
  <2>1. /\ Moved({}, "CONSUMED", N) /\ \A t \in N : tokens'[t].scope = c.key[2]
        /\ c.key \in Nodes \X ScopesUpTo(minted)
    BY <1>6, FanOutStep
  <2>2. c.key[2] \in ScopesUpTo(minted)
    BY <2>1
  <2> QED BY <2>1, <2>2
<1>7. CASE Quiet(c) /\ \E st \in {"CONSUMED", "WAITING"} : tokens' = Set({c.token}, st)
  BY <1>1, <1>7, TokensOnly DEF Quiet
<1>8. CASE Park(c) \/ NoOp(c)
  <2>1. UNCHANGED <<tokens, mintVars>>
    BY <1>8 DEF Park, NoOp, docVars
  <2> QED BY <2>1, UnmovedTokens
<1> QED BY <1>3, <1>4, <1>5, <1>6, <1>7, <1>8, Shapes

(* The work items and entries a transition adds.                           *)
LEMMA WorkNodesStep ==
  ASSUME IInv, WorkNodes, NEW c \in ready \cup applied, ApplyTransition(c)
  PROVE  WorkNodes'
<1>1. CASE CreateWorkItem(c)
  <2> DEFINE item == [node |-> c.node, scope |-> c.scope, multi |-> NotMulti]
  <2>1. /\ workItems' = workItems ++ [t \in {c.token} |-> item] /\ miPending' = miPending
        /\ IsWork(c.node) /\ item.node = c.node /\ item.multi = NotMulti
    BY <1>1 DEF CreateWorkItem
  <2> HIDE DEF item
  <2>2. workItems' = [t \in DOMAIN workItems \cup {c.token} |->
                        IF t \in DOMAIN workItems THEN workItems[t] ELSE item]
    BY <2>1 DEF ++
  <2> QED BY <2>1, <2>2 DEF WorkNodes, IsWork, IsExternal
<1>2. CASE AskForItems(c)
  <2> DEFINE k == <<c.node, c.scope>>
  <2>1. /\ DOMAIN miPending' = {k} \cup DOMAIN miPending /\ workItems' = workItems
        /\ IsWork(c.node) /\ k[1] = c.node
    BY <1>2 DEF AskForItems, ++, waitVars
  <2> HIDE DEF k
  <2> QED BY <2>1 DEF WorkNodes, IsWork, IsExternal
<1>3. CASE CompleteWork(c)
  <2> DEFINE key == workItems[c.item].multi
  <2>1. /\ workItems' = Without(workItems, {c.item})
        /\ miPending' = IF CountsOnly(key) THEN [miPending EXCEPT ![key].completed = @ + 1]
                        ELSE Without(miPending, {key})
    BY <1>3 DEF CompleteWork
  <2> HIDE DEF key
  <2>2. workItems' = [t \in DOMAIN workItems \ {c.item} |-> workItems[t]]
    BY <2>1 DEF Without, Restrict
  <2>3. DOMAIN Without(miPending, {key}) \subseteq DOMAIN miPending
    BY DEF Without, Restrict
  <2>4. DOMAIN miPending' \subseteq DOMAIN miPending
    BY <2>1, <2>3
  <2> QED BY <2>2, <2>4 DEF WorkNodes, IsWork, IsExternal
<1>4. CASE FanOut(c)
  <2> DEFINE k == c.key
             N == Fresh(c.items)
             item == [node |-> k[1], scope |-> k[2], multi |-> k]
  <2>1. /\ k \in DOMAIN miPending /\ DOMAIN miPending' = DOMAIN miPending
        /\ workItems' = workItems ++ [t \in N |-> item]
    BY <1>4 DEF FanOut
  <2>2. k = <<k[1], k[2]>>
    BY <2>1 DEF IInv, EntriesTyped
  <2>3. item.node = k[1] /\ item.scope = k[2] /\ item.multi = <<item.node, item.scope>>
    BY <2>2
  <2> HIDE DEF item, N, k
  <2>4. workItems' = [t \in DOMAIN workItems \cup N |->
                        IF t \in DOMAIN workItems THEN workItems[t] ELSE [x \in N |-> item][t]]
    BY <2>1 DEF ++
  <2>5. ASSUME NEW t \in DOMAIN workItems'
        PROVE  workItems'[t] = item \/ (t \in DOMAIN workItems /\ workItems'[t] = workItems[t])
    BY <2>4, <2>5
  <2>6. IsWork(item.node)
    BY <2>1, <2>3 DEF WorkNodes
  <2> QED BY <2>1, <2>3, <2>5, <2>6 DEF WorkNodes, IsWork, IsExternal
<1>5. CASE workItems' = workItems /\ miPending' = miPending
  BY <1>5 DEF WorkNodes, IsWork, IsExternal
<1> QED BY <1>1, <1>2, <1>3, <1>4, <1>5, ItemActions

LEMMA OriginsStep ==
  ASSUME IInv, Origins, [Next]_vars
  PROVE  Origins'
<1>1. minted \in Nat /\ DOMAIN tokens \subseteq 1..minted /\ Root \notin Nat
  BY BoundsAssumption DEF IInv, TokensTyped
<1>2. ASSUME NEW c \in ready \cup applied, ApplyTransition(c) PROVE Origins'
  <2>1. \A t \in DOMAIN tokens : /\ t \in DOMAIN tokens' /\ tokens'[t].node = tokens[t].node
                                 /\ tokens'[t].scope = tokens[t].scope
    BY <1>2, TokensStay
  <2>2. OlderScopes'
    <3>1. ASSUME NEW t \in DOMAIN tokens' \ DOMAIN tokens, tokens'[t].scope # Root
          PROVE  tokens'[t].scope < t
      <4>1. t \in minted + 1 .. minted' /\ tokens'[t].scope \in 1..minted
        BY <1>2, <3>1, NewTokens DEF ScopesUpTo
      <4>2. \A a, b \in Int : a + 1 <= b => \A i \in 1..a : i < b
        OBVIOUS
      <4>3. minted' \in Int
        BY <1>2, StepKeeps DEF IInv, TokensTyped, Next
      <4> QED BY <1>1, <4>1, <4>2, <4>3
    <3> QED BY <2>1, <3>1 DEF Origins, OlderScopes
  <2>3. ScopesOfTokens'
    <3> SUFFICES ASSUME NEW s \in DOMAIN scopes', s # Root
                 PROVE  /\ s \in DOMAIN tokens' /\ IsEmbedded(tokens'[s].node)
                        /\ scopes'[s].node = tokens'[s].node /\ scopes'[s].parent = tokens'[s].scope
      BY DEF ScopesOfTokens, IsEmbedded
    <3>1. CASE s \in DOMAIN scopes /\ scopes'[s] = scopes[s]
      BY <2>1, <3>1 DEF Origins, ScopesOfTokens
    <3>2. CASE s \notin DOMAIN scopes
      <4>1. /\ EnterSubProcess(c) /\ s = c.token
            /\ scopes'[s].node = c.node /\ scopes'[s].parent = c.scope
        BY <1>2, <3>2, ScopeActions
      <4>2. /\ c.token \in DOMAIN tokens /\ tokens[c.token].node = c.node
            /\ tokens[c.token].scope = c.scope /\ IsEmbedded(c.node)
        BY <1>2, <4>1, AtWorkFacts DEF EnterSubProcess
      <4> QED BY <2>1, <4>1, <4>2
    <3>3. s \in DOMAIN scopes => scopes'[s] = scopes[s]
      BY <1>2, ScopeActions
    <3> QED BY <3>1, <3>2, <3>3
  <2> QED BY <1>2, <2>2, <2>3, WorkNodesStep DEF Origins
<1>3. CASE (\E c \in Answers : HostAnswers(c)) \/ UNCHANGED vars
  <2>1. UNCHANGED <<tokens, scopes, workItems, miPending>>
    BY <1>3 DEF HostAnswers, vars, docVars, waitVars
  <2> QED BY <2>1 DEF Origins, ScopesOfTokens, OlderScopes, WorkNodes, IsEmbedded, IsWork, IsExternal
<1> QED BY <1>2, <1>3 DEF Next

LEMMA OriginsHold == Spec => []Origins
<1>1. Init => Origins
  BY DEF Init, Origins, ScopesOfTokens, OlderScopes, WorkNodes
<1>2. IInv /\ Origins /\ [Next]_vars => Origins'
  BY OriginsStep
<1> QED BY <1>1, <1>2, Invariance, PTL DEF Spec

------------------------------------------------------------------------------
(* The scopes that something is in: a token, or an entry that stands for   *)
(* the items it waits for.                                                 *)
LiveIn(s)  == \E t \in Alive : tokens[t].scope = s
EntryIn(s) == \E key \in DOMAIN miPending : key[2] = s
InUse(s)   == LiveIn(s) \/ EntryIn(s)

(* Only an end event ends: from every other node a flow goes out, which is *)
(* what the validator asks of a graph.                                     *)
NoDeadEnds == \A n \in Nodes : Type[n] # "endEvent" => Outgoing[n] # <<>>

LEMMA LiveMoved ==
  ASSUME IInv, NEW S, NEW N, Moved(S, "CONSUMED", N),
         \A t \in N : t \notin DOMAIN tokens /\ tokens'[t].status \in {"ACTIVE", "WAITING"}
  PROVE  \A s : LiveIn(s)' <=> \/ \E t \in Alive \ S : tokens[t].scope = s
                               \/ \E t \in N : tokens'[t].scope = s
<1>1. \A t \in DOMAIN tokens' : t \in DOMAIN tokens \/ t \in N
  BY DEF Moved
<1>2. \A t \in DOMAIN tokens : /\ t \in DOMAIN tokens' /\ tokens'[t].scope = tokens[t].scope
                               /\ IsAlive(t)' <=> IsAlive(t) /\ t \notin S
  BY DEF Moved, IsAlive, Status
<1>3. \A t \in N : t \in DOMAIN tokens' /\ IsAlive(t)'
  BY DEF Moved, IsAlive, Status
<1> QED BY <1>1, <1>2, <1>3 DEF LiveIn, Alive

(* Tokens of one scope give way to others in it.                           *)
LEMMA Successors ==
  ASSUME IInv, NEW S, NEW N, NEW a, Moved(S, "CONSUMED", N),
         \A t \in N : /\ t \notin DOMAIN tokens /\ tokens'[t].status \in {"ACTIVE", "WAITING"}
                      /\ tokens'[t].scope = a,
         \A t \in S \cap Alive : tokens[t].scope = a
  PROVE  /\ \A s : LiveIn(s)' => LiveIn(s) \/ s = a
         /\ \A s : LiveIn(s) /\ s # a => LiveIn(s)'
         /\ N # {} => LiveIn(a)'
         /\ (\E t \in Alive \ S : tokens[t].scope = a) => LiveIn(a)'
<1>1. \A s : LiveIn(s)' <=> \/ \E t \in Alive \ S : tokens[t].scope = s
                            \/ \E t \in N : tokens'[t].scope = s
  BY LiveMoved
<1> QED BY <1>1 DEF LiveIn

LEMMA SomeAreFresh ==
  ASSUME IInv, NEW flows \in Seq(Flows), flows # <<>>
  PROVE  Fresh(Len(flows)) # {}
<1>1. minted \in Nat /\ Len(flows) \in Nat /\ Len(flows) > 0
  BY DEF IInv, TokensTyped
<1>2. minted + 1 \in Fresh(Len(flows))
  BY <1>1 DEF Fresh
<1> QED BY <1>2

LEMMA FirstIsOut ==
  ASSUME NoDeadEnds, NEW n \in Nodes, Type[n] # "endEvent"
  PROVE  FirstOut(n) # <<>> /\ Outgoing[n] # <<>>
BY DEF NoDeadEnds, FirstOut

(* A token that is at work, and one that waits, are in use.                *)
LEMMA WhoIsAlive ==
  ASSUME IInv
  PROVE  /\ \A c \in ready \cup applied : AtWork(c) =>
              c.token \in Alive /\ tokens[c.token].scope = c.scope /\ LiveIn(c.scope)
         /\ \A t \in DOMAIN workItems :
              t \in Alive /\ tokens[t].scope = workItems[t].scope /\ LiveIn(workItems[t].scope)
         /\ \A t \in DOMAIN decisions :
              t \in Alive /\ tokens[t].scope = decisions[t].scope /\ LiveIn(decisions[t].scope)
<1>1. ASSUME NEW c \in ready \cup applied, AtWork(c)
      PROVE  c.token \in Alive /\ tokens[c.token].scope = c.scope
  BY <1>1, AtWorkFacts DEF Alive, IsAlive, Status
<1>2. /\ \A t \in DOMAIN workItems : t \in Alive /\ tokens[t].scope = workItems[t].scope
      /\ \A t \in DOMAIN decisions : t \in Alive /\ tokens[t].scope = decisions[t].scope
  BY DEF IInv, WaitsMatchTokens, Alive, IsAlive
<1> QED BY <1>1, <1>2 DEF LiveIn

(* What the end event of a process may be the last in.                     *)
EndsAll(c, s) == EndEvent(c) /\ s \notin DOMAIN scopes \ {Root}

(* A transition that leaves the scopes alone leaves them in use, and puts  *)
(* nothing into another.                                                   *)
Stays(c) ==
  /\ \A s : InUse(s)' => InUse(s)
  /\ NoDeadEnds => \A s : InUse(s) /\ ~EndsAll(c, s) => InUse(s)'

LEMMA PassOnStays ==
  ASSUME IInv, NEW c \in ready \cup applied,
         \/ StartEvent(c) \/ EndInSubProcess(c) \/ EndEvent(c) \/ Fork(c)
  PROVE  Stays(c)
<1> DEFINE a == c.scope
<1>1. PICK flows \in Seq(Flows) :
        /\ SendAlong(c, Set({c.token}, "CONSUMED"), flows, a) /\ miPending' = miPending
        /\ \/ flows = Outgoing[c.node] /\ Type[c.node] # "endEvent"
           \/ InSubProcess(c) /\ OthersIn(c, a) # {}
           \/ EndEvent(c) /\ ~InSubProcess(c)
  <2>1. Outgoing[c.node] \in Seq(Flows) /\ <<>> \in Seq(Flows)
    BY AtWorkFacts, GraphFacts DEF StartEvent, EndInSubProcess, EndEvent, Fork
  <2>2. \/ /\ SendAlong(c, Set({c.token}, "CONSUMED"), Outgoing[c.node], a) /\ miPending' = miPending
           /\ Type[c.node] # "endEvent"
        \/ /\ SendAlong(c, Set({c.token}, "CONSUMED"), <<>>, a) /\ miPending' = miPending
           /\ \/ InSubProcess(c) /\ OthersIn(c, a) # {}
              \/ EndEvent(c) /\ ~InSubProcess(c)
    BY DEF StartEvent, EndInSubProcess, EndEvent, Fork, PassOn
  <2> QED BY <2>1, <2>2
<1>2. AtWork(c) /\ c.node \in Nodes /\ a \in ScopesUpTo(minted) /\ "CONSUMED" \in Statuses
  BY AtWorkFacts DEF StartEvent, EndInSubProcess, EndEvent, Fork, Statuses
<1> DEFINE N == Fresh(Len(flows))
<1>3. /\ Moved({c.token}, "CONSUMED", N)
      /\ \A t \in N : /\ t \notin DOMAIN tokens /\ tokens'[t].status = "ACTIVE"
                      /\ tokens'[t] = NewToken(To[flows[t - minted]], a, "ACTIVE")
  BY <1>1, <1>2, SendAlongStep
<1>4. flows # <<>> => N # {}
  BY SomeAreFresh
<1>5. \A n : NewToken(n, a, "ACTIVE").scope = a
  BY DEF NewToken
<1>6. \A t \in {c.token} \cap Alive : tokens[t].scope = a
  BY <1>2, WhoIsAlive
<1> HIDE DEF a, N
<1>7. /\ \A s : LiveIn(s)' => LiveIn(s) \/ s = a
      /\ \A s : LiveIn(s) /\ s # a => LiveIn(s)'
      /\ N # {} => LiveIn(a)'
      /\ (\E t \in Alive \ {c.token} : tokens[t].scope = a) => LiveIn(a)'
  BY <1>3, <1>5, <1>6, Successors
<1>8. LiveIn(a)
  BY <1>2, WhoIsAlive DEF a
<1>9. \A s : EntryIn(s)' <=> EntryIn(s)
  BY <1>1 DEF EntryIn
<1>10. ASSUME NoDeadEnds, NEW s, ~EndsAll(c, s), s = a PROVE LiveIn(a)'
  <2>1. CASE flows = Outgoing[c.node] /\ Type[c.node] # "endEvent"
    BY <1>2, <1>4, <1>7, <1>10, <2>1, FirstIsOut
  <2>2. CASE InSubProcess(c) /\ OthersIn(c, a) # {}
    BY <1>7, <2>2 DEF OthersIn
  <2>3. CASE EndEvent(c) /\ ~InSubProcess(c)
    BY <1>10, <2>3 DEF InSubProcess, EndsAll, a
  <2> QED BY <1>1, <2>1, <2>2, <2>3
<1> QED BY <1>7, <1>8, <1>9, <1>10 DEF Stays, InUse

LEMMA PassThroughStays ==
  ASSUME IInv, NEW c \in ready \cup applied, PassThrough(c)
  PROVE  Stays(c)
<1> DEFINE a == c.scope
           N == Fresh(Len(FirstOut(c.node)))
<1>1. /\ AtWork(c) /\ c.node \in Nodes /\ Type[c.node] # "endEvent" /\ FirstOut(c.node) \in Seq(Flows)
      /\ miPending' = miPending
  BY AtWorkFacts, GraphFacts DEF PassThrough
<1>2. /\ Moved({c.token}, "CONSUMED", N)
      /\ \A t \in N : /\ t \notin DOMAIN tokens /\ tokens'[t].status = "ACTIVE"
                      /\ tokens'[t] = NewToken(To[Outgoing[c.node][1]], a, "ACTIVE")
  BY PassThroughStep
<1>3. NoDeadEnds => N # {}
  BY <1>1, FirstIsOut, SomeAreFresh
<1>4. \A n : NewToken(n, a, "ACTIVE").scope = a
  BY DEF NewToken
<1>5. /\ \A t \in {c.token} \cap Alive : tokens[t].scope = a
      /\ LiveIn(a)
  BY <1>1, WhoIsAlive
<1> HIDE DEF a, N
<1>6. /\ \A s : LiveIn(s)' => LiveIn(s) \/ s = a
      /\ \A s : LiveIn(s) /\ s # a => LiveIn(s)'
      /\ N # {} => LiveIn(a)'
  BY <1>2, <1>4, <1>5, Successors
<1>7. \A s : EntryIn(s)' <=> EntryIn(s)
  BY <1>1 DEF EntryIn
<1> QED BY <1>3, <1>5, <1>6, <1>7 DEF Stays, InUse

LEMMA JoinStays ==
  ASSUME IInv, NEW c \in ready \cup applied, Join(c)
  PROVE  Stays(c)
<1> DEFINE a == c.scope
           S == { Arrived(c)[f] : f \in ToSet(Incoming[c.node]) }
           flows == FirstOut(c.node)
           N == Fresh(Len(flows))
<1>1. /\ AtJoin(c) /\ AtWork(c) /\ Type[c.node] # "endEvent" /\ miPending' = miPending
      /\ SendAlong(c, Set(S, "CONSUMED"), flows, a) /\ AllArrived(c)
  BY DEF Join, AtJoin
<1>2. /\ c.node \in Nodes /\ a \in ScopesUpTo(minted) /\ flows \in Seq(Flows)
      /\ "CONSUMED" \in Statuses
  BY <1>1, AtWorkFacts, GraphFacts DEF Statuses
<1>3. \A t \in S : tokens[t].scope = a
  <2>1. \A f \in DOMAIN Arrived(c) : tokens[Arrived(c)[f]].scope = a
    BY <1>1, ArrivedFacts
  <2> QED BY <1>1, <2>1 DEF AllArrived
<1> HIDE DEF S
<1>4. /\ Moved(S, "CONSUMED", N)
      /\ \A t \in N : /\ t \notin DOMAIN tokens /\ tokens'[t].status = "ACTIVE"
                      /\ tokens'[t] = NewToken(To[flows[t - minted]], a, "ACTIVE")
  BY <1>1, <1>2, SendAlongStep
<1>5. NoDeadEnds => N # {}
  BY <1>1, <1>2, FirstIsOut, SomeAreFresh
<1>6. \A n : NewToken(n, a, "ACTIVE").scope = a
  BY DEF NewToken
<1>7. LiveIn(a)
  BY <1>1, WhoIsAlive
<1> HIDE DEF a, N, flows
<1>8. /\ \A s : LiveIn(s)' => LiveIn(s) \/ s = a
      /\ \A s : LiveIn(s) /\ s # a => LiveIn(s)'
      /\ N # {} => LiveIn(a)'
  BY <1>3, <1>4, <1>6, Successors
<1>9. \A s : EntryIn(s)' <=> EntryIn(s)
  BY <1>1 DEF EntryIn
<1> QED BY <1>5, <1>7, <1>8, <1>9 DEF Stays, InUse

(* A token that waited is released: the host has answered.                 *)
LEMMA Released ==
  ASSUME IInv, NEW c \in ready \cup applied, NEW t \in DOMAIN workItems \cup DOMAIN decisions,
         NEW flows \in Seq(Flows), NEW a \in ScopesUpTo(minted), tokens[t].scope = a,
         SendAlong(c, Set({t}, "CONSUMED"), flows, a)
  PROVE  /\ LiveIn(a) /\ \A s : LiveIn(s)' => LiveIn(s)
         /\ \A s : LiveIn(s) /\ s # a => LiveIn(s)'
         /\ flows # <<>> => LiveIn(a)'
<1> DEFINE N == Fresh(Len(flows))
<1>1. "CONSUMED" \in Statuses
  BY DEF Statuses
<1>2. /\ Moved({t}, "CONSUMED", N)
      /\ \A u \in N : /\ u \notin DOMAIN tokens /\ tokens'[u].status = "ACTIVE"
                      /\ tokens'[u] = NewToken(To[flows[u - minted]], a, "ACTIVE")
  BY <1>1, SendAlongStep
<1>3. flows # <<>> => N # {}
  BY SomeAreFresh
<1>4. \A n : NewToken(n, a, "ACTIVE").scope = a
  BY DEF NewToken
<1>5. LiveIn(a)
  BY WhoIsAlive DEF LiveIn
<1> HIDE DEF N
<1>6. /\ \A s : LiveIn(s)' => LiveIn(s) \/ s = a
      /\ \A s : LiveIn(s) /\ s # a => LiveIn(s)'
      /\ N # {} => LiveIn(a)'
  BY <1>2, <1>4, Successors
<1> QED BY <1>3, <1>5, <1>6

LEMMA TakeDecisionStays ==
  ASSUME IInv, NEW c \in ready \cup applied, TakeDecision(c)
  PROVE  Stays(c)
<1>0. PICK a : a = decisions[c.decision].scope
  OBVIOUS
<1>1. /\ c.kind = "DECISION_RECORDED" /\ c.decision \in DOMAIN decisions /\ miPending' = miPending
      /\ SendAlong(c, Set({c.decision}, "CONSUMED"), <<c.flow>>, a)
  BY <1>0 DEF TakeDecision
<1>2. c \in ContinuationsUpTo(minted) /\ minted \in Nat
  BY DEF IInv, QueueTyped, TokensTyped
<1>3. <<c.flow>> \in Seq(Flows) /\ <<c.flow>> # <<>>
  <2>1. c.flow \in Flows
    BY <1>1, <1>2, KindsOfContinuations
  <2> QED BY <2>1
<1>4. a \in ScopesUpTo(minted) /\ tokens[c.decision].scope = a
  BY <1>0, <1>1, WhoIsAlive DEF IInv, WaitsTyped
<1>5. /\ LiveIn(a) /\ \A s : LiveIn(s)' => LiveIn(s)
      /\ \A s : LiveIn(s) /\ s # a => LiveIn(s)'
      /\ LiveIn(a)'
  <2> DEFINE t == c.decision
             flows == <<c.flow>>
  <2>1. t \in DOMAIN workItems \cup DOMAIN decisions /\ tokens[t].scope = a
    BY <1>1, <1>4
  <2>2. SendAlong(c, Set({t}, "CONSUMED"), flows, a) /\ flows \in Seq(Flows) /\ flows # <<>>
    BY <1>1, <1>3
  <2> HIDE DEF t, flows
  <2> QED BY <1>4, <2>1, <2>2, Released
<1>6. \A s : EntryIn(s)' <=> EntryIn(s)
  BY <1>1 DEF EntryIn
<1> QED BY <1>5, <1>6 DEF Stays, InUse

LEMMA CompleteWorkStays ==
  ASSUME IInv, Origins, NEW c \in ready \cup applied, CompleteWork(c)
  PROVE  Stays(c)
<1> DEFINE t == c.item
<1>0. PICK n, a, key : n = workItems[t].node /\ a = workItems[t].scope /\ key = workItems[t].multi
  OBVIOUS
<1> DEFINE flows == IF CountsOnly(key) THEN <<>> ELSE FirstOut(n)
<1>1. /\ t \in DOMAIN workItems /\ SendAlong(c, Set({t}, "CONSUMED"), flows, a)
      /\ miPending' = IF CountsOnly(key) THEN [miPending EXCEPT ![key].completed = @ + 1]
                      ELSE Without(miPending, {key})
  BY <1>0 DEF CompleteWork
<1>2. /\ n \in Nodes /\ a \in ScopesUpTo(minted) /\ tokens[t].scope = a
      /\ Type[n] # "endEvent" /\ key \in {NotMulti, <<n, a>>}
  <2>1. n \in Nodes /\ a \in ScopesUpTo(minted)
    BY <1>0, <1>1 DEF IInv, WaitsTyped, Work
  <2>2. IsWork(n) /\ key \in {NotMulti, <<n, a>>}
    BY <1>0, <1>1 DEF Origins, WorkNodes
  <2>3. Type[n] # "endEvent"
    BY <2>2 DEF IsWork, IsExternal, Tasks
  <2> QED BY <1>0, <1>1, <2>1, <2>2, <2>3, WhoIsAlive
<1>3. <<n, a>>[2] = a
  OBVIOUS
<1>4. FirstOut(n) \in Seq(Flows) /\ <<>> \in Seq(Flows)
  BY <1>2, GraphFacts
<1>5. NotMulti \notin DOMAIN miPending
  BY KeysArePairs
<1> HIDE DEF t
<1>6. /\ LiveIn(a) /\ \A s : LiveIn(s)' => LiveIn(s)
      /\ \A s : LiveIn(s) /\ s # a => LiveIn(s)'
      /\ flows # <<>> => LiveIn(a)'
  <2>1. flows \in Seq(Flows)
    BY <1>4
  <2>2. t \in DOMAIN workItems \cup DOMAIN decisions
    BY <1>1
  <2> HIDE DEF flows
  <2> QED BY <1>1, <1>2, <2>1, <2>2, Released
<1>7. CASE CountsOnly(key)
  <2>1. key \in DOMAIN miPending /\ key = <<n, a>>
    BY <1>2, <1>5, <1>7 DEF CountsOnly
  <2>2. DOMAIN miPending' = DOMAIN miPending
    BY <1>1, <1>7
  <2>3. EntryIn(a)' /\ \A s : EntryIn(s)' <=> EntryIn(s)
    BY <1>3, <2>1, <2>2 DEF EntryIn
  <2> QED BY <1>6, <2>3 DEF Stays, InUse
<1>8. CASE ~CountsOnly(key)
  <2>1. DOMAIN miPending' = DOMAIN miPending \ {key}
    BY <1>1, <1>8 DEF Without, Restrict
  <2>2. flows = FirstOut(n)
    BY <1>8
  <2>3. NoDeadEnds => LiveIn(a)'
    BY <1>2, <1>6, <2>2, FirstIsOut
  <2>4. \A s : EntryIn(s) /\ s # a => EntryIn(s)'
    BY <1>2, <1>3, <1>5, <2>1 DEF EntryIn
  <2>5. \A s : EntryIn(s)' => EntryIn(s)
    BY <2>1 DEF EntryIn
  <2> QED BY <1>6, <2>3, <2>4, <2>5 DEF Stays, InUse
<1> QED BY <1>7, <1>8

LEMMA FanOutStays ==
  ASSUME IInv, NEW c \in ready \cup applied, FanOut(c)
  PROVE  Stays(c)
<1> DEFINE a == c.key[2]
           N == Fresh(c.items)
<1>1. /\ Moved({}, "CONSUMED", N) /\ c.key \in DOMAIN miPending
      /\ \A t \in N : /\ t \notin DOMAIN tokens /\ tokens'[t].status = "WAITING"
                      /\ tokens'[t].scope = a
  BY FanOutStep
<1>2. DOMAIN miPending' = DOMAIN miPending
  BY DEF FanOut
<1>3. EntryIn(a) /\ \A s : EntryIn(s)' <=> EntryIn(s)
  BY <1>1, <1>2 DEF EntryIn
<1> HIDE DEF a, N
<1>4. /\ \A s : LiveIn(s)' => LiveIn(s) \/ s = a
      /\ \A s : LiveIn(s) /\ s # a => LiveIn(s)'
  <2>1. \A t \in {} \cap Alive : tokens[t].scope = a
    OBVIOUS
  <2> QED BY <1>1, <2>1, Successors
<1> QED BY <1>3, <1>4 DEF Stays, InUse

LEMMA AskForItemsStays ==
  ASSUME IInv, NEW c \in ready \cup applied, AskForItems(c)
  PROVE  Stays(c)
<1> DEFINE a == c.scope
           k == <<c.node, c.scope>>
<1>1. /\ AtWork(c) /\ tokens' = Set({c.token}, "CONSUMED") /\ UNCHANGED mintVars
      /\ DOMAIN miPending' = {k} \cup DOMAIN miPending /\ k[2] = a
  BY DEF AskForItems, ++
<1>2. TokensTyped /\ "CONSUMED" \in Statuses
  BY DEF IInv, Statuses
<1>3. Moved({c.token}, "CONSUMED", {})
  BY <1>1, <1>2, TokensOnly
<1>4. /\ \A t \in {c.token} \cap Alive : tokens[t].scope = a
      /\ LiveIn(a)
  BY <1>1, WhoIsAlive
<1> HIDE DEF a, k
<1>5. /\ \A s : LiveIn(s)' => LiveIn(s) \/ s = a
      /\ \A s : LiveIn(s) /\ s # a => LiveIn(s)'
  BY <1>3, <1>4, Successors
<1>6. EntryIn(a)' /\ \A s : EntryIn(s) => EntryIn(s)'
  BY <1>1 DEF EntryIn
<1>7. \A s : EntryIn(s)' => EntryIn(s) \/ s = a
  BY <1>1 DEF EntryIn
<1> QED BY <1>4, <1>5, <1>6, <1>7 DEF Stays, InUse

LEMMA WaitStays ==
  ASSUME IInv, NEW c \in ready \cup applied,
         CreateWorkItem(c) \/ RequestDecision(c) \/ Park(c) \/ NoOp(c)
  PROVE  Stays(c)
<1>1. miPending' = miPending
  BY DEF CreateWorkItem, RequestDecision, Park, NoOp, docVars
<1>2. \A s : LiveIn(s)' <=> LiveIn(s)
  <2>1. CASE CreateWorkItem(c) \/ RequestDecision(c)
    <3>1. AtWork(c) /\ tokens' = Set({c.token}, "WAITING") /\ UNCHANGED mintVars
      BY <2>1 DEF CreateWorkItem, RequestDecision
    <3>2. TokensTyped /\ "WAITING" \in Statuses
      BY DEF IInv, Statuses
    <3>3. Moved({c.token}, "WAITING", {})
      BY <3>1, <3>2, TokensOnly
    <3>4. tokens[c.token].status = "ACTIVE"
      BY <3>1, AtWorkFacts
    <3>5. \A t \in DOMAIN tokens : /\ IsAlive(t)' <=> IsAlive(t)
                                   /\ tokens'[t].scope = tokens[t].scope
      BY <3>3, <3>4 DEF Moved, IsAlive, Status
    <3>6. DOMAIN tokens' = DOMAIN tokens
      BY <3>3 DEF Moved
    <3> QED BY <3>5, <3>6 DEF LiveIn, Alive
  <2>2. CASE Park(c) \/ NoOp(c)
    <3>1. tokens' = tokens
      BY <2>2 DEF Park, NoOp, docVars
    <3> QED BY <3>1 DEF LiveIn, Alive, IsAlive, Status
  <2> QED BY <2>1, <2>2
<1> QED BY <1>1, <1>2 DEF Stays, InUse, EntryIn

LEMMA StaysStep ==
  ASSUME IInv, Origins, NEW c \in ready \cup applied, ApplyTransition(c),
         ~EndSubProcess(c), ~EnterSubProcess(c), Start(c) => DOMAIN tokens # {}
  PROVE  Stays(c)
<1>1. CASE StartEvent(c) \/ EndInSubProcess(c) \/ EndEvent(c) \/ Fork(c)
  BY <1>1, PassOnStays
<1>2. CASE Start(c) \/ NothingToDo(c) \/ TooLate(c)
  <2>1. NoOp(c)
    BY <1>2 DEF Start, NothingToDo, TooLate
  <2> QED BY <2>1, WaitStays
<1> QED BY <1>1, <1>2, PassThroughStays, JoinStays, TakeDecisionStays, CompleteWorkStays, FanOutStays,
           AskForItemsStays, WaitStays DEF ApplyTransition

(* The transitions that open and close a scope.                            *)
LEMMA EndSubProcessUses ==
  ASSUME IInv, NEW c \in ready \cup applied, EndSubProcess(c), NEW b, b = scopes[c.scope].parent
  PROVE  /\ \A s : LiveIn(s)' => (LiveIn(s) /\ s # c.scope) \/ s = b
         /\ \A s : LiveIn(s) /\ s # c.scope => LiveIn(s)'
         /\ \A s : EntryIn(s)' <=> EntryIn(s)
         /\ Origins /\ NoDeadEnds => LiveIn(b)'
<1> DEFINE a == c.scope
           flows == FirstOut(scopes[a].node)
           N == Fresh(Len(flows))
<1>1. /\ AtWork(c) /\ a \in DOMAIN scopes /\ a # Root /\ OthersIn(c, a) = {}
      /\ SendAlong(c, Set({c.token}, "CONSUMED"), flows, b) /\ miPending' = miPending
  BY DEF EndSubProcess, InSubProcess
<1>2. scopes[a].node \in Nodes /\ b \in ScopesUpTo(minted) /\ "CONSUMED" \in Statuses
  BY <1>1 DEF IInv, ScopesTyped, ScopesHaveNodes, Statuses
<1>3. flows \in Seq(Flows)
  BY <1>2, GraphFacts
<1>4. /\ Moved({c.token}, "CONSUMED", N)
      /\ \A t \in N : /\ t \notin DOMAIN tokens /\ tokens'[t].status = "ACTIVE"
                      /\ tokens'[t] = NewToken(To[flows[t - minted]], b, "ACTIVE")
  BY <1>1, <1>2, <1>3, SendAlongStep
<1>5. Origins /\ NoDeadEnds => N # {}
  <2> SUFFICES ASSUME Origins, NoDeadEnds PROVE N # {}
    OBVIOUS
  <2>1. IsEmbedded(scopes[a].node)
    BY <1>1 DEF Origins, ScopesOfTokens
  <2>2. flows # <<>>
    BY <1>2, <2>1, FirstIsOut DEF IsEmbedded
  <2> QED BY <1>3, <2>2, SomeAreFresh
<1>6. \A n : NewToken(n, b, "ACTIVE").scope = b
  BY DEF NewToken
<1> HIDE DEF N, flows
<1>7. \A t \in N : tokens'[t].scope = b
  BY <1>4, <1>6
<1>8. \A s : LiveIn(s)' <=> \/ \E t \in Alive \ {c.token} : tokens[t].scope = s
                            \/ \E t \in N : tokens'[t].scope = s
  BY <1>4, LiveMoved
<1>9. \A t \in Alive \ {c.token} : tokens[t].scope # a
  BY <1>1 DEF OthersIn
<1>10. c.token \in Alive /\ tokens[c.token].scope = a
  BY <1>1, WhoIsAlive
<1> HIDE DEF a
<1>11. \A s : LiveIn(s)' => (LiveIn(s) /\ s # a) \/ s = b
  BY <1>7, <1>8, <1>9 DEF LiveIn
<1>12. \A s : LiveIn(s) /\ s # a => LiveIn(s)'
  BY <1>8, <1>10 DEF LiveIn
<1>13. Origins /\ NoDeadEnds => LiveIn(b)'
  BY <1>5, <1>7, <1>8
<1>14. \A s : EntryIn(s)' <=> EntryIn(s)
  BY <1>1 DEF EntryIn
<1> QED BY <1>11, <1>12, <1>13, <1>14 DEF a

LEMMA EnterSubProcessUses ==
  ASSUME IInv, NEW c \in ready \cup applied, EnterSubProcess(c)
  PROVE  /\ \A s : LiveIn(s)' => LiveIn(s) \/ s = c.token
         /\ \A s : LiveIn(s) /\ s # c.scope => LiveIn(s)'
         /\ \A s : EntryIn(s)' <=> EntryIn(s)
         /\ LiveIn(c.token)'
<1> DEFINE starts == InnerStarts[c.node]
           N == LastFresh(Len(starts))
<1>1. /\ AtWork(c) /\ miPending' = miPending /\ starts # <<>>
      /\ PlaceAtStarts(c, Set({c.token}, "CONSUMED"), starts, c.token)
  BY DEF EnterSubProcess, IsEmbedded
<1>2. c.token \in ScopesUpTo(minted) /\ starts \in Seq(Starts) /\ "CONSUMED" \in Statuses
  BY <1>1, AtWorkFacts, GraphFacts DEF ScopesUpTo, Statuses
<1>3. N # {}
  <2>1. minted \in Nat /\ Len(starts) \in Nat /\ Len(starts) > 0
    BY <1>1, <1>2 DEF IInv, TokensTyped
  <2> HIDE DEF starts
  <2>2. minted + Len(starts) \in N
    BY <2>1 DEF LastFresh, Fresh
  <2> QED BY <2>2
<1>4. /\ Moved({c.token}, "CONSUMED", N)
      /\ \A t \in N : /\ t \notin DOMAIN tokens /\ tokens'[t].status = "ACTIVE"
                      /\ tokens'[t].scope = c.token
  BY <1>1, <1>2, PlaceAtStartsStep
<1>5. c.token \in Alive /\ tokens[c.token].scope = c.scope
  BY <1>1, WhoIsAlive
<1> HIDE DEF N
<1>6. \A s : LiveIn(s)' <=> \/ \E t \in Alive \ {c.token} : tokens[t].scope = s
                            \/ \E t \in N : tokens'[t].scope = s
  BY <1>4, LiveMoved
<1> QED BY <1>1, <1>3, <1>4, <1>5, <1>6 DEF LiveIn, EntryIn

LEMMA StartUses ==
  ASSUME IInv, NEW c \in ready \cup applied, Start(c), DOMAIN tokens = {}
  PROVE  /\ \A s : LiveIn(s)' => LiveIn(s) \/ s = Root
         /\ \A s : LiveIn(s) => LiveIn(s)'
         /\ \A s : EntryIn(s)' <=> EntryIn(s)
<1> DEFINE N == LastFresh(Len(StartNodes))
<1>1. PlaceAtStarts(c, tokens, StartNodes, Root) /\ miPending' = miPending
  BY DEF Start
<1>2. Set({}, "CONSUMED") = tokens
  BY DEF Set, IInv, TokensTyped
<1>3. PlaceAtStarts(c, Set({}, "CONSUMED"), StartNodes, Root)
  BY <1>1, <1>2
<1>4. StartNodes \in Seq(Starts) /\ Root \in ScopesUpTo(minted) /\ "CONSUMED" \in Statuses
  BY GraphFacts DEF ScopesUpTo, Statuses
<1>5. /\ Moved({}, "CONSUMED", N)
      /\ \A t \in N : /\ t \notin DOMAIN tokens /\ tokens'[t].status = "ACTIVE"
                      /\ tokens'[t].scope = Root
  BY <1>3, <1>4, PlaceAtStartsStep
<1> HIDE DEF N
<1>6. \A s : LiveIn(s)' => LiveIn(s) \/ s = Root
  <2>1. \A s : LiveIn(s)' <=> \/ \E t \in Alive \ {} : tokens[t].scope = s
                              \/ \E t \in N : tokens'[t].scope = s
    BY <1>5, LiveMoved
  <2> QED BY <1>5, <2>1 DEF LiveIn
<1>7. \A s : ~LiveIn(s)
  BY DEF LiveIn, Alive
<1>8. \A s : EntryIn(s)' <=> EntryIn(s)
  BY <1>1 DEF EntryIn
<1> QED BY <1>6, <1>7, <1>8

------------------------------------------------------------------------------
(* Scopes last as long as what is in them.                                 *)

(* An end event looks for other tokens of its scope.  Where that tells it  *)
(* all, nothing is overlooked: no entry whose items are still to come, and *)
(* no scope inside its own.                                                *)
NothingOverlooked ==
  \A t \in Alive : Type[tokens[t].node] = "endEvent" =>
    LET s == tokens[t].scope IN
    /\ s # Root /\ (\A u \in Alive \ {t} : tokens[u].scope # s) =>
         /\ \A key \in DOMAIN miPending : key[2] # s
         /\ \A r \in DOMAIN scopes : scopes[r].parent # s
    /\ Alive = {t} => s # Root \/ DOMAIN miPending = {}

Held == LiveTokensHaveScopes /\ \A key \in DOMAIN miPending : key[2] \in DOMAIN scopes

LEMMA HeldStep ==
  ASSUME IInv, Origins, Held, NothingOverlooked, [Next]_vars
  PROVE  Held'
<1>1. /\ \A s : InUse(s) => s \in DOMAIN scopes
      /\ \A s \in DOMAIN scopes : scopes[s].parent \in DOMAIN scopes
  BY DEF Held, LiveTokensHaveScopes, InUse, LiveIn, EntryIn
<1>2. SUFFICES /\ \A s : InUse(s)' => s \in DOMAIN scopes'
               /\ \A s \in DOMAIN scopes' : scopes'[s].parent \in DOMAIN scopes'
  BY DEF Held, LiveTokensHaveScopes, InUse, LiveIn, EntryIn
<1>3. ASSUME NEW c \in ready \cup applied, ApplyTransition(c)
      PROVE  /\ \A s : InUse(s)' => s \in DOMAIN scopes'
             /\ \A s \in DOMAIN scopes' : scopes'[s].parent \in DOMAIN scopes'
  <2>1. CASE /\ scopes' = scopes /\ ~EndSubProcess(c) /\ ~EnterSubProcess(c)
             /\ Start(c) => DOMAIN tokens # {}
    <3>1. Stays(c)
      BY <1>3, <2>1, StaysStep
    <3> QED BY <1>1, <2>1, <3>1 DEF Stays
  <2>2. CASE /\ EndSubProcess(c) /\ c.scope \in DOMAIN scopes /\ c.scope # Root
             /\ DOMAIN scopes' = DOMAIN scopes \ {c.scope}
             /\ \A s \in DOMAIN scopes' : scopes'[s] = scopes[s]
    <3>1. PICK b : b = scopes[c.scope].parent
      OBVIOUS
    <3>2. /\ AtWork(c) /\ Type[c.node] = "endEvent" /\ OthersIn(c, c.scope) = {}
      BY <2>2 DEF EndSubProcess
    <3>3. /\ c.token \in Alive /\ tokens[c.token].node = c.node /\ tokens[c.token].scope = c.scope
      BY <3>2, WhoIsAlive, AtWorkFacts
    <3>4. \A u \in Alive \ {c.token} : tokens[u].scope # c.scope
      BY <3>2 DEF OthersIn
    <3>5. /\ \A key \in DOMAIN miPending : key[2] # c.scope
          /\ \A r \in DOMAIN scopes : scopes[r].parent # c.scope
      BY <2>2, <3>2, <3>3, <3>4 DEF NothingOverlooked
    <3>6. /\ \A s : LiveIn(s)' => (LiveIn(s) /\ s # c.scope) \/ s = b
          /\ \A s : EntryIn(s)' <=> EntryIn(s)
      BY <1>3, <2>2, <3>1, EndSubProcessUses
    <3>7. \A s : EntryIn(s) => s # c.scope
      BY <3>5 DEF EntryIn
    <3>8. b \in DOMAIN scopes /\ b # c.scope
      BY <1>1, <2>2, <3>1, <3>5
    <3> QED BY <1>1, <2>2, <3>5, <3>6, <3>7, <3>8 DEF InUse
  <2>3. CASE /\ EnterSubProcess(c) /\ DOMAIN scopes' = DOMAIN scopes \cup {c.token}
             /\ \A s \in DOMAIN scopes : scopes'[s] = scopes[s]
             /\ c.token \notin DOMAIN scopes =>
                  scopes'[c.token].node = c.node /\ scopes'[c.token].parent = c.scope
    <3>1. /\ \A s : LiveIn(s)' => LiveIn(s) \/ s = c.token
          /\ \A s : EntryIn(s)' <=> EntryIn(s)
      BY <1>3, <2>3, EnterSubProcessUses
    <3>2. c.scope \in DOMAIN scopes
      BY <1>1, <2>3, WhoIsAlive DEF EnterSubProcess, InUse
    <3> QED BY <1>1, <2>3, <3>1, <3>2 DEF InUse
  <2>4. CASE /\ Start(c) /\ DOMAIN tokens = {} /\ DOMAIN scopes' = DOMAIN scopes \cup {Root}
             /\ \A s \in DOMAIN scopes : scopes'[s] = scopes[s]
             /\ Root \notin DOMAIN scopes => scopes'[Root].parent = Root
    <3>1. /\ \A s : LiveIn(s)' => LiveIn(s) \/ s = Root
          /\ \A s : EntryIn(s)' <=> EntryIn(s)
      BY <1>3, <2>4, StartUses
    <3> QED BY <1>1, <2>4, <3>1 DEF InUse
  <2> QED BY <1>3, <2>1, <2>2, <2>3, <2>4, ScopeActions
<1>4. CASE (\E c \in Answers : HostAnswers(c)) \/ UNCHANGED vars
  <2>1. UNCHANGED <<tokens, scopes, miPending>>
    BY <1>4 DEF HostAnswers, vars, docVars
  <2> QED BY <1>1, <2>1 DEF InUse, LiveIn, EntryIn, Alive, IsAlive, Status
<1> QED BY <1>3, <1>4 DEF Next

LEMMA HeldHolds == Spec /\ []NothingOverlooked => []Held
<1>1. Init => Held
  BY DEF Init, Held, LiveTokensHaveScopes, Alive
<1>2. IInv /\ Origins /\ NothingOverlooked /\ Held /\ [Next]_vars => Held'
  BY HeldStep
<1> QED BY <1>1, <1>2, Invariance, OriginsHold, PTL DEF Spec

(* The scope of a live token is open: the end of a subprocess closes its    *)
(* scope only when nothing in it is left (LiveTokensHaveScopes), as long as *)
(* the end event's look at the tokens of its scope (transition.ts:204)      *)
(* tells it all.  Where it does not, the next end event closes a scope with *)
(* an entry or a scope still in it.                                         *)
THEOREM ScopesLast == Spec /\ []NothingOverlooked => []LiveTokensHaveScopes
<1>1. Held => LiveTokensHaveScopes
  BY DEF Held
<1> QED BY <1>1, HeldHolds, PTL

------------------------------------------------------------------------------
(* What is COMPLETED has nothing left.                                     *)

(* Something is in every scope, be it a scope inside it: none is left over.*)
Occupied ==
  \A s \in DOMAIN scopes \ {Root} :
    InUse(s) \/ \E r \in DOMAIN scopes \ {Root} : scopes[r].parent = s

LEMMA OccupiedStep ==
  ASSUME NoDeadEnds, IInv, Origins, Occupied, [Next]_vars
  PROVE  Occupied'
<1>1. ASSUME NEW c \in ready \cup applied, ApplyTransition(c)
      PROVE  Occupied'
  <2>1. CASE /\ scopes' = scopes /\ ~EndSubProcess(c) /\ ~EnterSubProcess(c)
             /\ Start(c) => DOMAIN tokens # {}
    <3>1. Stays(c)
      BY <1>1, <2>1, StaysStep
    <3>2. \A s \in DOMAIN scopes \ {Root} : InUse(s) => InUse(s)'
      BY <3>1 DEF Stays, EndsAll
    <3> QED BY <2>1, <3>2 DEF Occupied, InUse, LiveIn, EntryIn
  <2>2. CASE /\ EndSubProcess(c) /\ c.scope \in DOMAIN scopes /\ c.scope # Root
             /\ DOMAIN scopes' = DOMAIN scopes \ {c.scope}
             /\ \A s \in DOMAIN scopes' : scopes'[s] = scopes[s]
    <3>1. PICK b : b = scopes[c.scope].parent
      OBVIOUS
    <3>2. /\ \A s : LiveIn(s) /\ s # c.scope => LiveIn(s)'
          /\ \A s : EntryIn(s)' <=> EntryIn(s)
          /\ LiveIn(b)'
      BY <1>1, <2>2, <3>1, EndSubProcessUses
    <3>3. ASSUME NEW s \in DOMAIN scopes', s # Root
          PROVE  InUse(s)' \/ \E r \in DOMAIN scopes' \ {Root} : scopes'[r].parent = s
      <4>1. InUse(s) \/ \E r \in DOMAIN scopes \ {Root} : scopes[r].parent = s
        BY <2>2, <3>3 DEF Occupied
      <4>2. CASE InUse(s)
        BY <2>2, <3>2, <4>2 DEF InUse
      <4>3. ASSUME NEW r \in DOMAIN scopes \ {Root}, scopes[r].parent = s
            PROVE  InUse(s)' \/ \E q \in DOMAIN scopes' \ {Root} : scopes'[q].parent = s
        <5>1. CASE r = c.scope
          BY <3>1, <3>2, <4>3, <5>1 DEF InUse
        <5>2. CASE r # c.scope
          BY <2>2, <4>3, <5>2
        <5> QED BY <5>1, <5>2
      <4> QED BY <4>1, <4>2, <4>3
    <3> QED BY <3>3 DEF Occupied
  <2>3. CASE /\ EnterSubProcess(c) /\ DOMAIN scopes' = DOMAIN scopes \cup {c.token}
             /\ \A s \in DOMAIN scopes : scopes'[s] = scopes[s]
             /\ c.token \notin DOMAIN scopes =>
                  scopes'[c.token].node = c.node /\ scopes'[c.token].parent = c.scope
    <3>1. /\ \A s : LiveIn(s) /\ s # c.scope => LiveIn(s)'
          /\ \A s : EntryIn(s)' <=> EntryIn(s)
          /\ LiveIn(c.token)'
      BY <1>1, <2>3, EnterSubProcessUses
    <3>2. scopes'[c.token].parent = c.scope /\ c.token # Root
      <4>1. /\ tokens[c.token].scope = c.scope /\ c.token \in 1..minted /\ minted \in Nat
        BY <2>3, AtWorkFacts DEF EnterSubProcess, IInv, TokensTyped
      <4>2. c.token # Root
        BY <4>1, BoundsAssumption
      <4> QED BY <2>3, <4>1, <4>2 DEF Origins, ScopesOfTokens
    <3>3. ASSUME NEW s \in DOMAIN scopes', s # Root
          PROVE  InUse(s)' \/ \E r \in DOMAIN scopes' \ {Root} : scopes'[r].parent = s
      <4>1. CASE s = c.token
        BY <3>1, <4>1 DEF InUse
      <4>2. CASE s = c.scope
        BY <2>3, <3>2, <4>2
      <4>3. CASE s # c.token /\ s # c.scope
        <5>1. s \in DOMAIN scopes \ {Root}
          BY <2>3, <3>3, <4>3
        <5>2. CASE InUse(s)
          BY <3>1, <4>3, <5>2 DEF InUse
        <5>3. CASE \E r \in DOMAIN scopes \ {Root} : scopes[r].parent = s
          BY <2>3, <5>3
        <5> QED BY <5>1, <5>2, <5>3 DEF Occupied
      <4> QED BY <4>1, <4>2, <4>3
    <3> QED BY <3>3 DEF Occupied
  <2>4. CASE /\ Start(c) /\ DOMAIN tokens = {} /\ DOMAIN scopes' = DOMAIN scopes \cup {Root}
             /\ \A s \in DOMAIN scopes : scopes'[s] = scopes[s]
             /\ Root \notin DOMAIN scopes => scopes'[Root].parent = Root
    <3>1. DOMAIN scopes' \ {Root} = DOMAIN scopes \ {Root}
      BY <2>4
    <3>2. \A s : InUse(s) => InUse(s)'
      BY <1>1, <2>4, StartUses DEF InUse
    <3>3. ASSUME NEW s \in DOMAIN scopes \ {Root}
          PROVE  InUse(s)' \/ \E r \in DOMAIN scopes \ {Root} : scopes'[r].parent = s
      BY <2>4, <3>2 DEF Occupied
    <3> QED BY <3>1, <3>3 DEF Occupied
  <2> QED BY <1>1, <2>1, <2>2, <2>3, <2>4, ScopeActions
<1>2. CASE (\E c \in Answers : HostAnswers(c)) \/ UNCHANGED vars
  <2>1. UNCHANGED <<tokens, scopes, miPending>>
    BY <1>2 DEF HostAnswers, vars, docVars
  <2> QED BY <2>1 DEF Occupied, InUse, LiveIn, EntryIn, Alive, IsAlive, Status
<1> QED BY <1>1, <1>2 DEF Next

LEMMA Least ==
  ASSUME NEW S \in SUBSET Nat, S # {}
  PROVE  \E n \in S : \A m \in S : n <= m
<1> DEFINE R == OpToRel(<, Nat)
<1>1. IsWellFoundedOn(R, Nat)
  BY NatLessThanWellFounded
<1> HIDE DEF R
<1>2. PICK n \in S : \A m \in S : ~(<<m, n>> \in R)
  BY <1>1, WFMin
<1>3. \A m \in S : ~(m < n)
  BY <1>2 DEF R, OpToRel
<1> QED BY <1>3

(* Scopes inside one another are ever younger: in the youngest there is    *)
(* none.                                                                   *)
LEMMA NoScopeIsLeft ==
  ASSUME IInv, Origins, Occupied, \A s : InUse(s) => s = Root
  PROVE  DOMAIN scopes \subseteq {Root}
<1> DEFINE S == DOMAIN scopes \ {Root}
           Ages == { minted - s : s \in S }
<1>1. SUFFICES ASSUME S # {} PROVE FALSE
  OBVIOUS
<1>2. minted \in Nat /\ S \subseteq 1..minted /\ DOMAIN tokens \subseteq 1..minted
  BY DEF IInv, TokensTyped, ScopesTyped, ScopesUpTo
<1>3. Ages \in SUBSET Nat /\ Ages # {}
  BY <1>1, <1>2
<1>4. PICK age \in Ages : \A other \in Ages : age <= other
  BY <1>3, Least
<1>5. PICK s \in S : age = minted - s
  BY <1>4
<1>6. \A r \in S : r <= s
  <2>1. \A a, b, m \in Int : m - a <= m - b => b <= a
    OBVIOUS
  <2> QED BY <1>2, <1>4, <1>5, <2>1
<1>7. PICK r \in S : scopes[r].parent = s
  BY <1>5 DEF Occupied
<1>8. r \in DOMAIN tokens /\ tokens[r].scope = s /\ s # Root
  BY <1>5, <1>7 DEF Origins, ScopesOfTokens
<1>9. s < r
  BY <1>8 DEF Origins, OlderScopes
<1>10. r \in Int /\ s \in Int /\ r <= s
  BY <1>2, <1>5, <1>6, <1>7
<1> QED BY <1>9, <1>10

(* The last end event, once: after it every continuation is one too many.  *)
Finished ==
  /\ completions = IF status = "COMPLETED" THEN 1 ELSE 0
  /\ status = "COMPLETED" => /\ DOMAIN tokens # {} /\ Alive = {} /\ DOMAIN miPending = {}
                             /\ DOMAIN scopes = {Root}

LEMMA AllIsOver ==
  ASSUME IInv, Finished, status = "COMPLETED", NEW c \in ready \cup applied, ApplyTransition(c)
  PROVE  NoOp(c)
<1>1. /\ DOMAIN tokens # {} /\ Alive = {} /\ DOMAIN miPending = {}
  BY DEF Finished
<1>2. DOMAIN workItems = {} /\ DOMAIN decisions = {} /\ ~AtWork(c)
  BY <1>1, WhoIsAlive
<1> QED BY <1>1, <1>2 DEF ApplyTransition, Start, NothingToDo, StartEvent, EndSubProcess,
     EndInSubProcess, EndEvent, EnterSubProcess, CreateWorkItem, AskForItems, RequestDecision,
     PassThrough, Fork, Park, AtJoin, Join, CompleteWork, FanOut, TakeDecision, TooLate

LEMMA OnlyTheEndCompletes ==
  ASSUME NEW c, ApplyTransition(c)
  PROVE  EndEvent(c) \/ UNCHANGED <<status, completions>>
BY DEF ApplyTransition, Start, NothingToDo, StartEvent, EndSubProcess, EndInSubProcess,
   EnterSubProcess, CreateWorkItem, AskForItems, RequestDecision, PassThrough, Fork, Park, Join,
   CompleteWork, FanOut, TakeDecision, TooLate, NoOp, docVars, PassOn

LEMMA LastEnd ==
  ASSUME NoDeadEnds, IInv, Origins, Held, Occupied, NothingOverlooked,
         NEW c \in ready \cup applied, EndEvent(c), Alive \ {c.token} = {}
  PROVE  /\ DOMAIN tokens' # {} /\ Alive' = {} /\ DOMAIN miPending' = {}
         /\ DOMAIN scopes' = {Root}
<1>1. /\ AtWork(c) /\ Type[c.node] = "endEvent" /\ ~InSubProcess(c)
      /\ SendAlong(c, Set({c.token}, "CONSUMED"), <<>>, c.scope)
      /\ scopes' = scopes /\ miPending' = miPending
  BY DEF EndEvent
<1>2. /\ c.token \in DOMAIN tokens /\ c.token \in Alive
      /\ tokens[c.token].node = c.node /\ tokens[c.token].scope = c.scope
      /\ c.scope \in ScopesUpTo(minted)
  BY <1>1, AtWorkFacts, WhoIsAlive
<1>3. c.scope \in DOMAIN scopes /\ c.scope = Root
  <2>1. c.scope \in DOMAIN scopes
    BY <1>2 DEF Held, LiveTokensHaveScopes
  <2> QED BY <1>1, <2>1 DEF InSubProcess
<1>4. Alive = {c.token}
  BY <1>2
<1>5. DOMAIN miPending = {}
  BY <1>1, <1>2, <1>3, <1>4 DEF NothingOverlooked
<1>6. DOMAIN scopes \subseteq {Root}
  <2>1. \A s : InUse(s) => s = Root
    BY <1>2, <1>3, <1>4, <1>5 DEF InUse, LiveIn, EntryIn
  <2> QED BY <2>1, NoScopeIsLeft
<1>7. DOMAIN tokens' # {} /\ Alive' = {}
  <2>0. <<>> \in Seq(Flows)
    OBVIOUS
  <2>1. PICK none \in Seq(Flows) : none = <<>>
    BY <2>0
  <2>2. Moved({c.token}, "CONSUMED", Fresh(Len(none))) /\ Fresh(Len(none)) = {}
    <3>1. "CONSUMED" \in Statuses /\ SendAlong(c, Set({c.token}, "CONSUMED"), none, c.scope)
      BY <1>1, <2>1 DEF Statuses
    <3>2. Moved({c.token}, "CONSUMED", Fresh(Len(none)))
      BY <1>2, <3>1, SendAlongStep
    <3>3. Fresh(Len(none)) = {}
      BY <2>1 DEF Fresh, IInv, TokensTyped
    <3> QED BY <3>2, <3>3
  <2>3. DOMAIN tokens' = DOMAIN tokens
    BY <2>2 DEF Moved
  <2>4. \A t \in DOMAIN tokens : ~IsAlive(t)'
    BY <1>4, <2>2 DEF Moved, IsAlive, Status, Alive
  <2> QED BY <1>2, <2>3, <2>4 DEF Alive
<1> QED BY <1>1, <1>3, <1>5, <1>6, <1>7

LEMMA FinishedStep ==
  ASSUME NoDeadEnds, IInv, Origins, Held, Occupied, NothingOverlooked, Finished, [Next]_vars
  PROVE  Finished'
<1>1. ASSUME NEW c \in ready \cup applied, ApplyTransition(c)
      PROVE  Finished'
  <2>1. CASE status = "COMPLETED"
    <3>1. UNCHANGED <<tokens, scopes, miPending, status, completions>>
      BY <1>1, <2>1, AllIsOver DEF NoOp, docVars
    <3> QED BY <3>1 DEF Finished, Alive, IsAlive, Status
  <2>2. CASE status # "COMPLETED" /\ UNCHANGED <<status, completions>>
    BY <2>2 DEF Finished
  <2>3. CASE status # "COMPLETED" /\ EndEvent(c) /\ ~UNCHANGED <<status, completions>>
    <3>1. /\ Alive \ {c.token} = {} /\ status' = "COMPLETED" /\ completions' = completions + 1
      BY <2>3 DEF EndEvent
    <3>2. completions = 0
      BY <2>3 DEF Finished
    <3> QED BY <1>1, <2>3, <3>1, <3>2, LastEnd DEF Finished
  <2> QED BY <1>1, <2>1, <2>2, <2>3, OnlyTheEndCompletes
<1>2. CASE (\E c \in Answers : HostAnswers(c)) \/ UNCHANGED vars
  <2>1. UNCHANGED <<tokens, scopes, miPending, status, completions>>
    BY <1>2 DEF HostAnswers, vars, docVars
  <2> QED BY <2>1 DEF Finished, Alive, IsAlive, Status
<1> QED BY <1>1, <1>2 DEF Next

(* An instance is COMPLETED once, by its last token, and then no token,     *)
(* item, decision, entry or scope but the root is left                      *)
(* (CompletedMeansNothingLeft), for every graph in which each node but an   *)
(* end event has a way on, which the validator asks for, and as long as no  *)
(* end event overlooks an entry or a scope (transition.ts:181, :204).       *)
THEOREM CompletedIsDone ==
  ASSUME NoDeadEnds
  PROVE  Spec /\ []NothingOverlooked => []CompletedMeansNothingLeft
<1>1. Init => Occupied /\ Finished
  BY DEF Init, Occupied, Finished
<1>2. IInv /\ Origins /\ Occupied /\ [Next]_vars => Occupied'
  BY OccupiedStep
<1>3. IInv /\ Origins /\ Held /\ Occupied /\ NothingOverlooked /\ Finished /\ [Next]_vars => Finished'
  BY FinishedStep
<1>4. ASSUME IInv, Finished PROVE CompletedMeansNothingLeft
  <2>1. Alive = {} => DOMAIN workItems = {} /\ DOMAIN decisions = {}
    BY <1>4, WhoIsAlive
  <2> QED BY <1>4, <2>1 DEF Finished, CompletedMeansNothingLeft
<1> QED BY <1>1, <1>2, <1>3, <1>4, Invariance, OriginsHold, HeldHolds, PTL DEF Spec

------------------------------------------------------------------------------
(* The engine plays the token game of its graph: each transition of        *)
(* TokenFlow is a move of TokenGame, or none.                              *)


(* Graphs the engine plays as they are drawn: the ids are distinct, there  *)
(* is one start event at each level (PlaceAtStarts keeps one token) and no *)
(* flow leads to it, none leads out of its subprocess, and work and        *)
(* subprocesses have one way on (FirstOut takes one).                      *)
ProperGraph ==
  /\ IsInjective(Graph.flows) /\ Flows \cap Nodes = {}
  /\ \A f \in Flows : /\ Type[To[f]] # "startEvent"
                      /\ Parent[Graph.from[f]] = Parent[To[f]]
  /\ \A n \in Nodes : IsWork(n) \/ IsEmbedded(n) => Len(Outgoing[n]) <= 1
  /\ Len(StartNodes) = 1 /\ \A n \in Nodes : Len(InnerStarts[n]) <= 1

(* A subprocess has one activation at a time.                              *)
OneActivation ==
  \A r, s \in DOMAIN scopes : scopes[r].node = scopes[s].node => r = s

(* Where a token can be: at the node its place leads to, in the scope of    *)
(* the subprocess around that node.                                         *)
Fits(p, n, s) ==
  /\ PlaceNode(p) = n
  /\ IF s = Root THEN Parent[n] = TopLevel
     ELSE s \in DOMAIN tokens /\ Parent[n] = tokens[s].node

Placed == \A t \in DOMAIN tokens : Fits(via[t], tokens[t].node, tokens[t].scope)

EntriesOfTokens ==
  \A key \in DOMAIN miPending :
    LET t == miPending[key].parent IN
    /\ t \in DOMAIN tokens /\ Status(t) = "CONSUMED"
    /\ key = <<tokens[t].node, tokens[t].scope>>

ScopesEntered ==
  /\ \A s \in DOMAIN scopes \ {Root} : Status(s) = "CONSUMED"
  /\ DOMAIN tokens # {} <=> Root \in DOMAIN scopes
  /\ Root \in DOMAIN scopes => scopes[Root].node = TopLevel

(* A decision is about a gateway, and one of its flows is the answer.      *)
Chosen ==
  /\ \A t \in DOMAIN decisions : Type[tokens[t].node] = "exclusiveGateway"
  /\ \A c \in ready \cup applied : c.kind = "DECISION_RECORDED" =>
       /\ c.decision \in DOMAIN tokens /\ Status(c.decision) # "ACTIVE"
       /\ c.flow \in ToSet(Outgoing[tokens[c.decision].node])

Traced == Placed /\ EntriesOfTokens /\ ScopesEntered /\ Chosen

(* The tokens of the game.                                                 *)
Bearers ==
  { t \in Alive : ~IsItem(t) } \cup { miPending[key].parent : key \in DOMAIN miPending }
At(p) == { t \in Bearers : via[t] = p }

(* The graph is the same in the game.                                      *)
LEMMA GameGraph ==
  /\ Game!Nodes = Nodes /\ Game!Flows = Flows /\ Game!Type = Type /\ Game!To = To
  /\ Game!Parent = Parent /\ Game!Places = Places
  /\ \A n : /\ Game!IsWork(n) <=> IsWork(n)
            /\ Game!IsEmbedded(n) <=> IsEmbedded(n)
            /\ Game!PlaceNode(n) = PlaceNode(n)
  /\ Game!Incoming = Incoming /\ Game!Outgoing = Outgoing
  /\ Game!StartNodes = StartNodes /\ Game!InnerStarts = InnerStarts
  /\ \A s : Game!ToSet(s) = ToSet(s) /\ Game!Cardinality(s) = Cardinality(s)
<1>1. \A S : Game!Cardinality(S) = Cardinality(S)
  BY DEF Game!Cardinality, Cardinality, Game!IsFiniteSet, IsFiniteSet
<1>2. \A s : Game!ToSet(s) = ToSet(s)
  BY DEF Game!ToSet, ToSet
<1>3. Game!Nodes = Nodes /\ Game!Flows = Flows /\ Game!Type = Type /\ Game!To = To /\ Game!Parent = Parent
  BY <1>2 DEF Game!Nodes, Nodes, Game!Flows, Flows, Game!Type, Type, Game!To, To, Game!Parent, Parent
<1>4. \A seq, P : Game!InOrder(seq, P) = InOrder(seq, P)
  BY DEF Game!InOrder, InOrder, Game!Cardinality, Cardinality, Game!IsFiniteSet, IsFiniteSet
<1>5. \A end, n : Game!FlowsWith(end, n) = FlowsWith(end, n)
  BY <1>4 DEF Game!FlowsWith, FlowsWith
<1>6. \A p : Game!StartsIn(p) = StartsIn(p)
  BY <1>3, <1>4 DEF Game!StartsIn, StartsIn
<1>7. Game!Incoming = Incoming /\ Game!Outgoing = Outgoing
  BY <1>3, <1>5 DEF Game!Incoming, Incoming, Game!Outgoing, Outgoing
<1>8. Game!StartNodes = StartNodes /\ Game!InnerStarts = InnerStarts
  BY <1>3, <1>6 DEF Game!StartNodes, StartNodes, Game!InnerStarts, InnerStarts
<1>9. Game!Places = Places
  BY <1>3 DEF Game!Places, Places
<1>10. \A n : /\ Game!IsWork(n) <=> IsWork(n)
              /\ Game!IsEmbedded(n) <=> IsEmbedded(n)
              /\ Game!PlaceNode(n) = PlaceNode(n)
  BY <1>3, <1>8 DEF Game!IsWork, IsWork, Game!IsEmbedded, IsEmbedded, Game!PlaceNode, PlaceNode,
     Game!IsExternal, IsExternal, Game!Tasks, Tasks
<1> QED BY <1>1, <1>2, <1>3, <1>7, <1>8, <1>9, <1>10

LEMMA ProperFacts ==
  ASSUME ProperGraph
  PROVE  /\ \A n \in Nodes :
              /\ Outgoing[n] \in Seq(Flows) /\ IsInjective(Outgoing[n])
              /\ \A i \in DOMAIN Outgoing[n] : Outgoing[n][i] \in ToSet(Outgoing[n])
              /\ \A f \in ToSet(Outgoing[n]) : f \in Flows /\ Parent[To[f]] = Parent[n]
         /\ \A f \in Flows : PlaceNode(f) = To[f] /\ f \in ToSet(Incoming[To[f]])
         /\ \A n \in Starts : PlaceNode(n) = n /\ n \notin Flows
         /\ \A p \in Places : LET n == PlaceNode(p) IN
              /\ n \in Nodes
              /\ IF Type[n] = "startEvent" THEN p = n
                 ELSE p \in Flows /\ p \in ToSet(Incoming[n]) /\ To[p] = n
<1>1. \A n \in Nodes : IsInjective(Outgoing[n])
  <2> SUFFICES ASSUME NEW n \in Nodes PROVE IsInjective(Outgoing[n])
    OBVIOUS
  <2> DEFINE P == { i \in DOMAIN Graph.flows : Graph.from[Graph.flows[i]] = n }
             out == Outgoing[n]
             F == { Graph.flows[i] : i \in P }
             flow == [i \in P |-> Graph.flows[i]]
  <2>1. Graph.flows \in Seq(Flows) /\ P \in SUBSET DOMAIN Graph.flows
    BY GraphAssumption
  <2>2. out = InOrder(Graph.flows, P)
    BY DEF Outgoing, FlowsWith
  <2>3. out \in Seq(F) /\ Len(out) = Cardinality(P) /\ ToSet(out) = F
    BY <2>1, <2>2, InOrderSeq
  <2>4. IsFiniteSet(P) /\ Cardinality(P) \in Nat
    BY <2>1, InOrderPicks
  <2>5. flow \in Bijection(P, F)
    <3>1. flow \in [P -> F] /\ \A f \in F : \E i \in P : flow[i] = f
      OBVIOUS
    <3>2. IsInjective(flow)
      BY DEF ProperGraph, IsInjective
    <3> QED BY <3>1, <3>2 DEF Bijection, Injection, Surjection
  <2>6. IsFiniteSet(F) /\ Cardinality(F) = Cardinality(P)
    BY <2>4, <2>5, FS_Bijection DEF ExistsBijection
  <2>7. out \in Surjection(1..Cardinality(P), F)
    <3> HIDE DEF out, P, F
    <3>1. DOMAIN out = 1..Cardinality(P) /\ out \in [1..Cardinality(P) -> F]
      BY <2>3, <2>4
    <3>2. \A f \in F : \E i \in DOMAIN out : out[i] = f
      BY <2>3 DEF ToSet
    <3> QED BY <3>1, <3>2 DEF Surjection
  <2>8. IsFiniteSet(1..Cardinality(P)) /\ Cardinality(1..Cardinality(P)) = Cardinality(F)
    BY <2>4, <2>6, FS_Interval
  <2>9. out \in Injection(1..Cardinality(P), F)
    BY <2>7, <2>8, FS_SurjSameCardinalityImpliesInj
  <2> QED BY <2>9 DEF Injection
<1>2. \A n \in Nodes :
        /\ Outgoing[n] \in Seq(Flows)
        /\ \A i \in DOMAIN Outgoing[n] : Outgoing[n][i] \in ToSet(Outgoing[n])
        /\ \A f \in ToSet(Outgoing[n]) : f \in Flows /\ Graph.from[f] = n
  BY FlowsOfNodes DEF ToSet
<1>3. \A f \in Flows : PlaceNode(f) = To[f] /\ To[f] \in Nodes /\ f \in ToSet(Incoming[To[f]])
                       /\ Type[To[f]] # "startEvent" /\ Parent[Graph.from[f]] = Parent[To[f]]
  BY FlowsOfNodes, GraphFacts DEF PlaceNode, ProperGraph
<1>4. \A n \in Starts : PlaceNode(n) = n /\ n \notin Flows /\ n \in Nodes /\ Type[n] = "startEvent"
  BY DEF Starts, ProperGraph, PlaceNode
<1>5. Places = Flows \cup Starts
  BY DEF Places, Starts
<1> QED BY <1>1, <1>2, <1>3, <1>4, <1>5

LEMMA TokensAreFinite ==
  ASSUME TokensTyped, NEW S, S \subseteq 1..minted
  PROVE  IsFiniteSet(S) /\ Cardinality(S) \in Nat
<1>1. IsFiniteSet(1..minted)
  BY FS_Interval DEF TokensTyped
<1>2. IsFiniteSet(S)
  BY <1>1, FS_Subset
<1> QED BY <1>2, FS_CardinalityType

LEMMA BearersAreTokens ==
  ASSUME IInv, EntriesOfTokens
  PROVE  Bearers \subseteq 1..minted /\ Bearers \subseteq DOMAIN tokens
<1>1. DOMAIN tokens \subseteq 1..minted
  BY DEF IInv, TokensTyped
<1> QED BY <1>1 DEF Bearers, Alive, EntriesOfTokens

(* A place holds as many tokens of the game as there are bearers there.    *)
LEMMA MarkingCounts ==
  IInv /\ EntriesOfTokens => Marking = [p \in Places |-> Cardinality(At(p))]
<1> SUFFICES ASSUME IInv, EntriesOfTokens, NEW p \in Places
             PROVE  Cardinality({ t \in Alive : via[t] = p /\ ~IsItem(t) })
                      + Cardinality({ key \in DOMAIN miPending : via[miPending[key].parent] = p })
                      = Cardinality(At(p))
  BY DEF Marking
<1> DEFINE live == { t \in Alive : via[t] = p /\ ~IsItem(t) }
           keys == { key \in DOMAIN miPending : via[miPending[key].parent] = p }
           parents == { miPending[key].parent : key \in keys }
           keyOf == [t \in parents |-> <<tokens[t].node, tokens[t].scope>>]
<1>1. At(p) = live \cup parents /\ live \cap parents = {}
  <2>1. \A key \in DOMAIN miPending : miPending[key].parent \notin Alive
    BY DEF EntriesOfTokens, Alive, IsAlive
  <2> QED BY <2>1 DEF At, Bearers
<1>2. live \subseteq 1..minted /\ parents \subseteq 1..minted
  BY BearersAreTokens DEF Bearers
<1>3. /\ IsFiniteSet(live) /\ IsFiniteSet(parents)
      /\ Cardinality(live) \in Nat /\ Cardinality(parents) \in Nat
  BY <1>2, TokensAreFinite DEF IInv
<1>4. Cardinality(keys) = Cardinality(parents)
  <2>1. \A key \in keys : key = <<tokens[miPending[key].parent].node, tokens[miPending[key].parent].scope>>
    BY DEF EntriesOfTokens
  <2>2. keyOf \in [parents -> keys]
    BY <2>1
  <2>3. IsInjective(keyOf)
    BY <2>1 DEF IsInjective
  <2>4. \A key \in keys : \E t \in parents : keyOf[t] = key
    BY <2>1
  <2>5. keyOf \in Bijection(parents, keys)
    BY <2>2, <2>3, <2>4 DEF Bijection, Injection, Surjection
  <2> QED BY <1>3, <2>5, FS_Bijection DEF ExistsBijection
<1>5. Cardinality(live \cup parents)
        = Cardinality(live) + Cardinality(parents) - Cardinality(live \cap parents)
  BY <1>3, FS_Union
<1>6. Cardinality(live \cap parents) = 0
  BY <1>1, FS_EmptySet
<1> HIDE DEF live, parents, keys
<1>7. Cardinality(live) + Cardinality(keys) = Cardinality(At(p))
  BY <1>1, <1>3, <1>4, <1>5, <1>6
<1> QED BY <1>7 DEF live, keys

(* Bearers go from places and others come to places, one each.             *)
OneEach(T, where, places) ==
  /\ \A t \in T : where[t] \in places
  /\ \A p \in places : \E t \in T : where[t] = p
  /\ \A t, u \in T : where[t] = where[u] => t = u

LEMMA MarkingMoves ==
  ASSUME IInv, EntriesOfTokens, IInv', EntriesOfTokens',
         NEW S, NEW N, NEW from, NEW to,
         Bearers' = (Bearers \ S) \cup N, S \subseteq Bearers, N \cap Bearers = {},
         \A t \in Bearers : via'[t] = via[t],
         OneEach(S, via, from), OneEach(N, via', to)
  PROVE  /\ Marking' = Game!Moved(Marking, from, to)
         /\ from \subseteq Places => Game!Holds(from)
<1>1. /\ Marking = [p \in Places |-> Cardinality(At(p))]
      /\ Marking' = [p \in Places |-> Cardinality(At(p)')]
  <2>1. (IInv /\ EntriesOfTokens => Marking = [p \in Places |-> Cardinality(At(p))])'
    BY MarkingCounts, PTL
  <2> QED BY <2>1, MarkingCounts
<1>2. /\ \A p : IsFiniteSet(At(p)) /\ Cardinality(At(p)) \in Nat
      /\ \A p : At(p)' = { t \in Bearers \ S : via[t] = p } \cup { t \in N : via'[t] = p }
  <2>1. \A p : At(p) \subseteq 1..minted
    BY BearersAreTokens DEF At
  <2> QED BY <2>1, TokensAreFinite DEF At, IInv
<1>3. ASSUME NEW p
      PROVE  LET stay == { t \in Bearers \ S : via[t] = p } IN
             /\ IsFiniteSet(stay)
             /\ p \in from => Cardinality(At(p)) > 0
             /\ Cardinality(stay) = Cardinality(At(p)) - (IF p \in from THEN 1 ELSE 0)
  <2> DEFINE stay == { t \in Bearers \ S : via[t] = p }
  <2>1. CASE p \in from
    <3>1. PICK x \in S : via[x] = p
      BY <2>1 DEF OneEach
    <3>2. stay = At(p) \ {x} /\ x \in At(p)
      BY <3>1 DEF OneEach, At
    <3>3. Cardinality(stay) = Cardinality(At(p)) - 1 /\ IsFiniteSet(stay)
      BY <1>2, <3>2, FS_RemoveElement
    <3>4. Cardinality(At(p)) # 0
      BY <1>2, <3>2, FS_EmptySet
    <3> QED BY <1>2, <2>1, <3>3, <3>4
  <2>2. CASE p \notin from
    <3>1. stay = At(p)
      BY <2>2 DEF OneEach, At
    <3>2. IsFiniteSet(stay) /\ Cardinality(stay) = Cardinality(At(p)) /\ Cardinality(At(p)) \in Nat
      BY <1>2, <3>1
    <3> QED BY <2>2, <3>2
  <2> QED BY <2>1, <2>2
<1>4. ASSUME NEW p
      PROVE  Cardinality(At(p)') = (Cardinality(At(p)) - (IF p \in from THEN 1 ELSE 0))
                                     + (IF p \in to THEN 1 ELSE 0)
  <2> DEFINE stay == { t \in Bearers \ S : via[t] = p }
             new == { t \in N : via'[t] = p }
  <2>1. At(p)' = stay \cup new
    BY <1>2
  <2>2. /\ IsFiniteSet(stay)
        /\ Cardinality(stay) = Cardinality(At(p)) - (IF p \in from THEN 1 ELSE 0)
    BY <1>3
  <2>3. Cardinality(stay \cup new) = Cardinality(stay) + (IF p \in to THEN 1 ELSE 0)
    <3>1. CASE p \in to
      <4>1. PICK x \in N : via'[x] = p
        BY <3>1 DEF OneEach
      <4>2. new = {x} /\ x \notin stay
        BY <4>1 DEF OneEach
      <4>3. Cardinality(stay \cup {x}) = Cardinality(stay) + 1
        BY <2>2, <4>2, FS_AddElement
      <4> QED BY <3>1, <4>2, <4>3
    <3>2. CASE p \notin to
      <4>1. stay \cup new = stay /\ Cardinality(stay) \in Nat
        BY <2>2, <3>2, FS_CardinalityType DEF OneEach
      <4> QED BY <3>2, <4>1
    <3> QED BY <3>1, <3>2
  <2> HIDE DEF stay, new
  <2> QED BY <2>1, <2>2, <2>3
<1>5. Game!Places = Places
  BY GameGraph
<1>6. Marking' = Game!Moved(Marking, from, to)
  BY <1>1, <1>4, <1>5 DEF Game!Moved
<1>7. from \subseteq Places => Game!Holds(from)
  BY <1>1, <1>3 DEF Game!Holds
<1> QED BY <1>6, <1>7

------------------------------------------------------------------------------
(* The place of a token, its scope and its entry agree.                     *)

LEMMA SentFit ==
  ASSUME IInv, ProperGraph, Placed, NEW c \in ready \cup applied, NEW S,
         NEW flows \in Seq(Flows), NEW u \in DOMAIN tokens, NEW s, s = tokens[u].scope,
         \A f \in ToSet(flows) : Parent[To[f]] = Parent[tokens[u].node],
         SendAlong(c, Set(S, "CONSUMED"), flows, s)
  PROVE  \A t \in DOMAIN tokens' \ DOMAIN tokens : Fits(via'[t], tokens'[t].node, tokens'[t].scope)
<1> DEFINE N == Fresh(Len(flows))
<1>1. "CONSUMED" \in Statuses /\ s \in ScopesUpTo(minted)
  BY DEF Statuses, IInv, TokensTyped, Tokens
<1>2. /\ Moved(S, "CONSUMED", N)
      /\ \A t \in N : /\ t - minted \in DOMAIN flows /\ via'[t] = flows[t - minted]
                      /\ tokens'[t] = NewToken(To[flows[t - minted]], s, "ACTIVE")
  BY <1>1, SendAlongStep
<1>3. \A i \in DOMAIN flows : flows[i] \in Flows /\ flows[i] \in ToSet(flows)
  BY DEF ToSet
<1>4. \A n : NewToken(n, s, "ACTIVE").node = n /\ NewToken(n, s, "ACTIVE").scope = s
  BY DEF NewToken
<1>5. DOMAIN tokens' \ DOMAIN tokens \subseteq N
  BY <1>2 DEF Moved
<1> HIDE DEF N
<1>6. \A t \in N : /\ via'[t] \in Flows /\ via'[t] \in ToSet(flows)
                   /\ tokens'[t].node = To[via'[t]] /\ tokens'[t].scope = s
  BY <1>2, <1>3, <1>4
<1>7. \A f \in ToSet(flows) : f \in Flows => Fits(f, To[f], s)
  BY ProperFacts DEF Placed, Fits
<1> QED BY <1>5, <1>6, <1>7

LEMMA FirstOutIsOut ==
  ASSUME NEW n \in Nodes
  PROVE  ToSet(FirstOut(n)) \subseteq ToSet(Outgoing[n])
<1>1. CASE Outgoing[n] = <<>>
  BY <1>1 DEF FirstOut
<1>2. CASE Outgoing[n] # <<>>
  <2>1. Outgoing[n] \in Seq(Flows)
    BY <1>2, GraphFacts
  <2>2. 1 \in DOMAIN Outgoing[n] /\ FirstOut(n) = <<Outgoing[n][1]>>
    BY <1>2, <2>1 DEF FirstOut
  <2> QED BY <2>2 DEF ToSet
<1> QED BY <1>1, <1>2

(* The place and the scope of a new token.                                 *)
LEMMA NewTokensFit ==
  ASSUME IInv, ProperGraph, Origins, Traced, NEW c \in ready \cup applied, ApplyTransition(c)
  PROVE  \A t \in DOMAIN tokens' \ DOMAIN tokens : Fits(via'[t], tokens'[t].node, tokens'[t].scope)
<1> DEFINE Fit == \A t \in DOMAIN tokens' \ DOMAIN tokens :
                    Fits(via'[t], tokens'[t].node, tokens'[t].scope)
<1>0. Placed /\ <<>> \in Seq(Flows) /\ ToSet(<<>>) = {} /\ "CONSUMED" \in Statuses
  BY DEF Traced, ToSet, Statuses
<1>1. AtWork(c) => /\ c.token \in DOMAIN tokens /\ c.node \in Nodes
                   /\ tokens[c.token].node = c.node /\ tokens[c.token].scope = c.scope
                   /\ c.token \in 1..minted
  BY AtWorkFacts
<1>2. \A n \in Nodes : /\ \A f \in ToSet(Outgoing[n]) : Parent[To[f]] = Parent[n]
                       /\ \A f \in ToSet(FirstOut(n)) : Parent[To[f]] = Parent[n]
                       /\ Outgoing[n] \in Seq(Flows) /\ FirstOut(n) \in Seq(Flows)
  BY ProperFacts, FirstOutIsOut, GraphFacts
<1>3. ASSUME AtWork(c), NEW flows \in Seq(Flows), NEW S,
             \A f \in ToSet(flows) : Parent[To[f]] = Parent[c.node],
             SendAlong(c, Set(S, "CONSUMED"), flows, c.scope)
      PROVE  Fit
  BY <1>0, <1>1, <1>3, SentFit
<1>4. CASE StartEvent(c) \/ EndInSubProcess(c) \/ Fork(c) \/ EndEvent(c)
  <2>1. /\ AtWork(c)
        /\ \/ SendAlong(c, Set({c.token}, "CONSUMED"), Outgoing[c.node], c.scope)
           \/ SendAlong(c, Set({c.token}, "CONSUMED"), <<>>, c.scope)
    BY <1>4 DEF StartEvent, EndInSubProcess, Fork, EndEvent, PassOn
  <2> QED BY <1>0, <1>1, <1>2, <1>3, <2>1
<1>5. CASE Join(c)
  <2>1. AtWork(c) /\ SendAlong(c, Set({ Arrived(c)[f] : f \in ToSet(Incoming[c.node]) }, "CONSUMED"),
                               FirstOut(c.node), c.scope)
    BY <1>5 DEF Join, AtJoin
  <2> QED BY <1>1, <1>2, <1>3, <2>1
<1>6. CASE EndSubProcess(c)
  <2> DEFINE a == c.scope
             flows == FirstOut(scopes[a].node)
             s == scopes[a].parent
  <2>1. /\ a \in DOMAIN scopes /\ a # Root
        /\ SendAlong(c, Set({c.token}, "CONSUMED"), flows, s)
    BY <1>6 DEF EndSubProcess, InSubProcess
  <2>2. /\ a \in DOMAIN tokens /\ scopes[a].node = tokens[a].node /\ s = tokens[a].scope
        /\ tokens[a].node \in Nodes
    BY <2>1 DEF Origins, ScopesOfTokens, IInv, TokensTyped, Tokens
  <2>3. flows \in Seq(Flows) /\ \A f \in ToSet(flows) : Parent[To[f]] = Parent[tokens[a].node]
    BY <1>2, <2>2
  <2> HIDE DEF a, flows, s
  <2> QED BY <1>0, <2>1, <2>2, <2>3, SentFit
<1>7. CASE CompleteWork(c)
  <2> DEFINE u == c.item
             flows == IF CountsOnly(workItems[u].multi) THEN <<>> ELSE FirstOut(workItems[u].node)
             s == workItems[u].scope
  <2>1. u \in DOMAIN workItems /\ SendAlong(c, Set({u}, "CONSUMED"), flows, s)
    BY <1>7 DEF CompleteWork
  <2>2. /\ u \in DOMAIN tokens /\ workItems[u].node = tokens[u].node /\ s = tokens[u].scope
        /\ tokens[u].node \in Nodes
    BY <2>1 DEF IInv, WaitsTyped, WaitsMatchTokens, TokensTyped, Tokens
  <2>3. flows \in Seq(Flows) /\ \A f \in ToSet(flows) : Parent[To[f]] = Parent[tokens[u].node]
    BY <1>0, <1>2, <2>2
  <2> HIDE DEF u, flows, s
  <2> QED BY <1>0, <2>1, <2>2, <2>3, SentFit
<1>8. CASE TakeDecision(c)
  <2> DEFINE u == c.decision
             s == decisions[u].scope
             flows == <<c.flow>>
  <2>1. /\ c.kind = "DECISION_RECORDED" /\ u \in DOMAIN decisions
        /\ SendAlong(c, Set({u}, "CONSUMED"), flows, s)
    BY <1>8 DEF TakeDecision
  <2>2. u \in DOMAIN tokens /\ s = tokens[u].scope /\ tokens[u].node \in Nodes
    BY <2>1 DEF IInv, WaitsTyped, WaitsMatchTokens, TokensTyped, Tokens
  <2>3. c.flow \in ToSet(Outgoing[tokens[u].node])
    BY <2>1 DEF Traced, Chosen
  <2>4. c.flow \in Flows /\ Parent[To[c.flow]] = Parent[tokens[u].node]
    BY <2>2, <2>3, ProperFacts
  <2>5. flows \in Seq(Flows) /\ \A f \in ToSet(flows) : Parent[To[f]] = Parent[tokens[u].node]
    BY <2>4 DEF ToSet
  <2> HIDE DEF u, flows, s
  <2> QED BY <1>0, <2>1, <2>2, <2>5, SentFit
<1>9. ASSUME NEW n \in Nodes \cup {TopLevel}, NEW s \in ScopesUpTo(minted), NEW S,
             IF s = Root THEN n = TopLevel ELSE s \in DOMAIN tokens /\ n = tokens[s].node,
             PlaceAtStarts(c, Set(S, "CONSUMED"), StartsIn(n), s)
      PROVE  Fit
  <2> DEFINE starts == StartsIn(n)
             N == LastFresh(Len(starts))
  <2>1. starts \in Seq({ k \in Nodes : Type[k] = "startEvent" /\ Parent[k] = n })
    BY StartsOfScopes
  <2>2. starts \in Seq(Starts)
    <3>1. { k \in Nodes : Type[k] = "startEvent" /\ Parent[k] = n } \subseteq Starts
      BY DEF Starts
    <3> HIDE DEF starts
    <3> QED BY <2>1, <3>1, SeqMonotonic
  <2>3. /\ Moved(S, "CONSUMED", N)
        /\ \A t \in N : /\ tokens'[t].scope = s /\ t - minted \in DOMAIN starts
                        /\ via'[t] = starts[t - minted] /\ tokens'[t].node = starts[t - minted]
    BY <1>0, <1>9, <2>2, PlaceAtStartsStep
  <2>4. DOMAIN tokens' \ DOMAIN tokens \subseteq N
    BY <2>3 DEF Moved
  <2>5. \A i \in DOMAIN starts : starts[i] \in Starts /\ Parent[starts[i]] = n
    BY <2>1, <2>2
  <2> HIDE DEF starts, N
  <2>6. \A t \in N : /\ via'[t] \in Starts /\ Parent[via'[t]] = n
                     /\ tokens'[t].node = via'[t] /\ tokens'[t].scope = s
    BY <2>3, <2>5
  <2>7. \A k \in Starts : Parent[k] = n => Fits(k, k, s)
    BY <1>9, ProperFacts DEF Fits
  <2> QED BY <2>4, <2>6, <2>7
<1>10. CASE EnterSubProcess(c)
  <2>1. AtWork(c) /\ PlaceAtStarts(c, Set({c.token}, "CONSUMED"), StartsIn(c.node), c.token)
    BY <1>1, <1>10 DEF EnterSubProcess, InnerStarts
  <2>2. c.token \in ScopesUpTo(minted) /\ c.token # Root
    BY <1>1, <2>1, BoundsAssumption DEF ScopesUpTo
  <2> QED BY <1>1, <1>9, <2>1, <2>2
<1>11. CASE Start(c)
  <2>1. CASE DOMAIN tokens # {}
    BY <1>11, <2>1 DEF Start, NoOp, docVars
  <2>2. CASE DOMAIN tokens = {}
    <3>1. PlaceAtStarts(c, tokens, StartsIn(TopLevel), Root)
      BY <1>11, <2>2 DEF Start, StartNodes
    <3>2. Set({}, "CONSUMED") = tokens
      BY DEF Set, IInv, TokensTyped
    <3>3. PlaceAtStarts(c, Set({}, "CONSUMED"), StartsIn(TopLevel), Root)
      BY <3>1, <3>2
    <3>4. Root \in ScopesUpTo(minted)
      BY DEF ScopesUpTo
    <3> QED BY <1>9, <3>3, <3>4
  <2> QED BY <2>1, <2>2
<1>12. CASE PassThrough(c)
  <2> DEFINE f == Outgoing[c.node][1]
             N == Fresh(Len(FirstOut(c.node)))
  <2>1. /\ Moved({c.token}, "CONSUMED", N)
        /\ \A t \in N : /\ Outgoing[c.node] # <<>> /\ f \in Flows /\ via'[t] = f
                        /\ tokens'[t] = NewToken(To[f], c.scope, "ACTIVE")
    BY <1>12, PassThroughStep
  <2>2. DOMAIN tokens' \ DOMAIN tokens \subseteq N
    BY <2>1 DEF Moved
  <2>3. AtWork(c)
    BY <1>12 DEF PassThrough
  <2>4. Outgoing[c.node] # <<>> => f \in ToSet(Outgoing[c.node])
    BY <1>1, <1>2, <2>3 DEF ToSet
  <2> HIDE DEF f, N
  <2>5. \A t \in N : /\ via'[t] = f /\ tokens'[t].node = To[f] /\ tokens'[t].scope = c.scope
                     /\ f \in Flows /\ Parent[To[f]] = Parent[c.node]
    BY <1>1, <1>2, <2>1, <2>3, <2>4 DEF NewToken
  <2>6. f \in Flows /\ Parent[To[f]] = Parent[c.node] => Fits(f, To[f], c.scope)
    BY <1>0, <1>1, <2>3, ProperFacts DEF Placed, Fits
  <2> QED BY <2>2, <2>5, <2>6
<1>13. CASE FanOut(c)
  <2> DEFINE p == miPending[c.key].parent
             N == Fresh(c.items)
             places == [i \in 1..c.items |-> via[p]]
  <2>1. /\ Moved({}, "CONSUMED", N) /\ c.items \in Nat
        /\ c.key \in DOMAIN miPending
        /\ \A t \in N : tokens'[t].node = c.key[1] /\ tokens'[t].scope = c.key[2]
    BY <1>13, FanOutStep
  <2>2. DOMAIN tokens' \ DOMAIN tokens \subseteq N
    BY <2>1 DEF Moved
  <2>3. /\ p \in DOMAIN tokens /\ tokens[p].node = c.key[1] /\ tokens[p].scope = c.key[2]
        /\ via[p] \in Places
    BY <2>1 DEF Traced, EntriesOfTokens, IInv, TokensTyped
  <2>4. \A t \in N : via'[t] = via[p]
    <3>1. places \in Seq(Places) /\ Len(places) = c.items /\ DOMAIN places = 1..c.items
      BY <2>1, <2>3
    <3>2. Mint(places)
      BY <1>13 DEF FanOut
    <3>3. \A t \in Fresh(Len(places)) : via'[t] = places[t - minted] /\ t - minted \in DOMAIN places
      BY <3>1, <3>2, MintedPlaces
    <3>4. \A i \in DOMAIN places : places[i] = via[p]
      BY <3>1
    <3> HIDE DEF places
    <3> QED BY <3>1, <3>3, <3>4
  <2> QED BY <1>0, <2>1, <2>2, <2>3, <2>4 DEF Placed
<1>14. CASE /\ ~StartEvent(c) /\ ~EndInSubProcess(c) /\ ~Fork(c) /\ ~EndEvent(c) /\ ~Join(c)
            /\ ~EndSubProcess(c) /\ ~CompleteWork(c) /\ ~TakeDecision(c) /\ ~EnterSubProcess(c)
            /\ ~Start(c) /\ ~PassThrough(c) /\ ~FanOut(c)
  <2>1. DOMAIN tokens' = DOMAIN tokens
    BY <1>14 DEF ApplyTransition, NothingToDo, NoOp, docVars, CreateWorkItem, AskForItems,
       RequestDecision, Park, TooLate, Set
  <2> QED BY <2>1
<1> QED BY <1>4, <1>5, <1>6, <1>7, <1>8, <1>10, <1>11, <1>12, <1>13, <1>14

LEMMA EntriesOfTokensStep ==
  ASSUME IInv, EntriesOfTokens, NEW c \in ready \cup applied, ApplyTransition(c)
  PROVE  EntriesOfTokens'
<1> DEFINE Of(t, key) == /\ t \in DOMAIN tokens' /\ tokens'[t].status = "CONSUMED"
                         /\ key = <<tokens'[t].node, tokens'[t].scope>>
<1>1. \A t \in DOMAIN tokens : /\ t \in DOMAIN tokens' /\ tokens'[t].node = tokens[t].node
                               /\ tokens'[t].scope = tokens[t].scope
  BY TokensStay
<1>2. \A t \in DOMAIN tokens : Status(t) = "CONSUMED" => Status(t)' = "CONSUMED"
  BY StatusesStep DEF AtWork
<1>3. \A key \in DOMAIN miPending : Of(miPending[key].parent, key)
  BY <1>1, <1>2 DEF EntriesOfTokens, Status
<1>4. SUFFICES \A key \in DOMAIN miPending' : Of(miPending'[key].parent, key)
  BY DEF EntriesOfTokens, Status
<1> HIDE DEF Of
<1>5. CASE miPending' = miPending
  BY <1>3, <1>5
<1>6. CASE CreateWorkItem(c)
  BY <1>5, <1>6 DEF CreateWorkItem
<1>7. CASE AskForItems(c)
  <2> DEFINE entry == [parent |-> c.token, total |-> 0, completed |-> 0]
             k == <<c.node, c.scope>>
  <2>1. /\ miPending' = [key \in {k} |-> entry] ++ miPending /\ AtWork(c)
        /\ tokens' = Set({c.token}, "CONSUMED") /\ entry.parent = c.token
    BY <1>7 DEF AskForItems
  <2>2. /\ c.token \in DOMAIN tokens /\ tokens[c.token].node = c.node
        /\ tokens[c.token].scope = c.scope /\ TokensTyped /\ "CONSUMED" \in Statuses
    BY <2>1, AtWorkFacts DEF IInv, Statuses
  <2>3. Status(c.token)' = "CONSUMED"
    BY <2>1, <2>2, SetTokens DEF Status
  <2>4. Of(c.token, k)
    BY <1>1, <2>2, <2>3 DEF Of, Status
  <2> HIDE DEF entry, k
  <2>5. miPending' = [key \in {k} \cup DOMAIN miPending |->
                        IF key \in {k} THEN [x \in {k} |-> entry][key] ELSE miPending[key]]
    BY <2>1 DEF ++
  <2> QED BY <1>3, <2>1, <2>4, <2>5
<1>8. CASE CompleteWork(c)
  <2> DEFINE k == workItems[c.item].multi
  <2>1. miPending' = IF CountsOnly(k) THEN [miPending EXCEPT ![k].completed = @ + 1]
                     ELSE Without(miPending, {k})
    BY <1>8 DEF CompleteWork
  <2> HIDE DEF k
  <2>2. CASE CountsOnly(k)
    <3>1. miPending' = [x \in DOMAIN miPending |->
                          IF x = k THEN [miPending[x] EXCEPT !.completed = @ + 1] ELSE miPending[x]]
      BY <2>1, <2>2
    <3>2. \A x \in DOMAIN miPending :
            [miPending[x] EXCEPT !.completed = @ + 1].parent = miPending[x].parent
      BY DEF IInv, EntriesTyped
    <3> QED BY <1>3, <3>1, <3>2
  <2>3. CASE ~CountsOnly(k)
    <3>1. miPending' = [x \in DOMAIN miPending \ {k} |-> miPending[x]]
      BY <2>1, <2>3 DEF Without, Restrict
    <3> QED BY <1>3, <3>1
  <2> QED BY <2>2, <2>3
<1>9. CASE FanOut(c)
  <2>1. miPending' = [miPending EXCEPT ![c.key].total = c.items]
    BY <1>9 DEF FanOut
  <2>2. miPending' = [x \in DOMAIN miPending |->
                        IF x = c.key THEN [miPending[x] EXCEPT !.total = c.items] ELSE miPending[x]]
    BY <2>1
  <2>3. \A x \in DOMAIN miPending : [miPending[x] EXCEPT !.total = c.items].parent = miPending[x].parent
    BY DEF IInv, EntriesTyped
  <2> QED BY <1>3, <2>2, <2>3
<1> QED BY <1>5, <1>6, <1>7, <1>8, <1>9, ItemActions

(* Before START nothing but START does anything.                           *)
LEMMA NothingBeforeStart ==
  ASSUME IInv, EntriesOfTokens, DOMAIN tokens = {}, NEW c, ApplyTransition(c)
  PROVE  NoOp(c) \/ Start(c)
<1>1. DOMAIN miPending = {} /\ DOMAIN workItems = {} /\ DOMAIN decisions = {} /\ ~AtWork(c)
  BY DEF EntriesOfTokens, IInv, WaitsTyped, AtWork
<1> QED BY <1>1 DEF ApplyTransition, NothingToDo, StartEvent, EndSubProcess,
     EndInSubProcess, EndEvent, EnterSubProcess, CreateWorkItem, AskForItems, RequestDecision,
     PassThrough, Fork, Park, AtJoin, Join, CompleteWork, FanOut, TakeDecision, TooLate

(* START puts a token at the start event.                                  *)
LEMMA StartPlaces ==
  ASSUME IInv, ProperGraph, NEW c \in ready \cup applied, Start(c), DOMAIN tokens = {}
  PROVE  \E t : /\ t = minted + 1 /\ Moved({}, "CONSUMED", {t}) /\ t \notin DOMAIN tokens
                /\ tokens'[t].status = "ACTIVE" /\ tokens'[t].scope = Root
                /\ via'[t] = StartNodes[1] /\ ToSet(StartNodes) = {StartNodes[1]}
                /\ StartNodes[1] \in Starts /\ tokens'[t].node = StartNodes[1]
<1> DEFINE N == LastFresh(Len(StartNodes))
           t == minted + 1
<1>1. PlaceAtStarts(c, tokens, StartNodes, Root)
  BY DEF Start
<1>2. Set({}, "CONSUMED") = tokens
  BY DEF Set, IInv, TokensTyped
<1>3. PlaceAtStarts(c, Set({}, "CONSUMED"), StartNodes, Root)
  BY <1>1, <1>2
<1>4. StartNodes \in Seq(Starts) /\ Root \in ScopesUpTo(minted) /\ "CONSUMED" \in Statuses
  BY GraphFacts DEF ScopesUpTo, Statuses
<1>5. /\ Moved({}, "CONSUMED", N)
      /\ \A u \in N : /\ u \notin DOMAIN tokens /\ tokens'[u].status = "ACTIVE"
                      /\ tokens'[u].scope = Root
                      /\ via'[u] = StartNodes[u - minted] /\ tokens'[u].node = StartNodes[u - minted]
  BY <1>3, <1>4, PlaceAtStartsStep
<1>6. Len(StartNodes) = 1 /\ minted \in Nat
  BY DEF ProperGraph, IInv, TokensTyped
<1>7. N = {t} /\ t - minted = 1
  BY <1>6 DEF LastFresh, Fresh
<1>8. ToSet(StartNodes) = {StartNodes[1]} /\ StartNodes[1] \in Starts
  <2>1. DOMAIN StartNodes = {1}
    BY <1>4, <1>6
  <2>2. ToSet(StartNodes) = { StartNodes[i] : i \in {1} }
    BY <2>1 DEF ToSet
  <2>3. { StartNodes[i] : i \in {1} } = {StartNodes[1]}
    OBVIOUS
  <2>4. StartNodes[1] \in Starts
    BY <1>4, <2>1
  <2> QED BY <2>2, <2>3, <2>4
<1> HIDE DEF N
<1> QED BY <1>5, <1>7, <1>8

LEMMA ScopesEnteredStep ==
  ASSUME IInv, ProperGraph, Origins, EntriesOfTokens, ScopesEntered,
         NEW c \in ready \cup applied, ApplyTransition(c)
  PROVE  ScopesEntered'
<1>1. \A t \in DOMAIN tokens : t \in DOMAIN tokens' /\ (Status(t) = "CONSUMED" => Status(t)' = "CONSUMED")
  BY StatusesStep, TokensStay DEF AtWork
<1>2. \A s \in DOMAIN scopes \ {Root} : s \in DOMAIN tokens /\ Status(s)' = "CONSUMED"
  BY <1>1 DEF ScopesEntered, Origins, ScopesOfTokens
<1>3. CASE scopes' = scopes /\ (Start(c) => DOMAIN tokens # {})
  <2>1. DOMAIN tokens = {} => tokens' = tokens
    BY <1>3, NothingBeforeStart DEF NoOp, docVars
  <2>2. DOMAIN tokens' # {} <=> DOMAIN tokens # {}
    BY <1>1, <2>1
  <2> QED BY <1>2, <1>3, <2>2 DEF ScopesEntered, Status
<1>4. CASE /\ EndSubProcess(c) /\ c.scope \in DOMAIN scopes /\ c.scope # Root
           /\ DOMAIN scopes' = DOMAIN scopes \ {c.scope}
           /\ \A s \in DOMAIN scopes' : scopes'[s] = scopes[s]
  <2>1. DOMAIN tokens # {} /\ DOMAIN tokens' # {}
    BY <1>1, <1>4 DEF EndSubProcess, AtWork
  <2> QED BY <1>2, <1>4, <2>1 DEF ScopesEntered, Status
<1>5. CASE /\ EnterSubProcess(c) /\ DOMAIN scopes' = DOMAIN scopes \cup {c.token}
           /\ \A s \in DOMAIN scopes : scopes'[s] = scopes[s]
  <2> DEFINE N == LastFresh(Len(InnerStarts[c.node]))
  <2>1. AtWork(c) /\ PlaceAtStarts(c, Set({c.token}, "CONSUMED"), InnerStarts[c.node], c.token)
    BY <1>5 DEF EnterSubProcess
  <2>2. /\ c.token \in DOMAIN tokens /\ c.token \in ScopesUpTo(minted) /\ "CONSUMED" \in Statuses
        /\ InnerStarts[c.node] \in Seq(Starts)
    BY <2>1, AtWorkFacts, GraphFacts DEF ScopesUpTo, Statuses
  <2>3. Moved({c.token}, "CONSUMED", N)
    BY <2>1, <2>2, PlaceAtStartsStep
  <2>4. Status(c.token)' = "CONSUMED"
    BY <2>2, <2>3 DEF Moved, Status
  <2>5. DOMAIN tokens # {} /\ DOMAIN tokens' # {}
    BY <1>1, <2>2
  <2>6. Root \in DOMAIN scopes /\ scopes[Root].node = TopLevel
    BY <2>5 DEF ScopesEntered
  <2> QED BY <1>2, <1>5, <2>4, <2>5, <2>6 DEF ScopesEntered, Status
<1>6. CASE /\ Start(c) /\ DOMAIN tokens = {} /\ DOMAIN scopes' = DOMAIN scopes \cup {Root}
  <2>1. DOMAIN tokens' # {}
    BY <1>6, StartPlaces DEF Moved
  <2>2. DOMAIN scopes = {}
    BY <1>6 DEF ScopesEntered, Origins, ScopesOfTokens
  <2>3. scopes'[Root].node = TopLevel
    <3> DEFINE top == [node |-> TopLevel, parent |-> Root]
    <3>1. scopes' = scopes ++ [s \in {Root} |-> top] /\ top.node = TopLevel
      BY <1>6 DEF Start
    <3> HIDE DEF top
    <3>2. scopes' = [s \in DOMAIN scopes \cup {Root} |->
                       IF s \in DOMAIN scopes THEN scopes[s] ELSE top]
      BY <3>1 DEF ++
    <3> QED BY <2>2, <3>1, <3>2
  <2> QED BY <1>6, <2>1, <2>2, <2>3 DEF ScopesEntered
<1> QED BY <1>3, <1>4, <1>5, <1>6, ScopeActions

LEMMA DecisionActions ==
  ASSUME NEW c, ApplyTransition(c)
  PROVE  RequestDecision(c) \/ TakeDecision(c) \/ decisions' = decisions
BY DEF ApplyTransition, Start, NothingToDo, StartEvent, EndSubProcess, EndInSubProcess, EndEvent,
       EnterSubProcess, CreateWorkItem, AskForItems, CompleteWork, FanOut, PassThrough, Fork, Park,
       Join, TooLate, NoOp, docVars, waitVars, PassOn

IsChoice(d) == d.kind = "DECISION_RECORDED"

LEMMA NothingDecided ==
  ASSUME IInv, NEW c \in ready \cup applied, ApplyTransition(c)
  PROVE  \A d \in ready' \cup applied' : d.kind = "DECISION_RECORDED" => d \in ready \cup applied
<1>0. SUFFICES \E conts : Answer(c, conts) /\ \A d \in conts : ~IsChoice(d)
  BY DEF Answer, IsChoice
<1>1. ASSUME NEW S, SendsAlong(c, S) PROVE \E conts : Answer(c, conts) /\ \A d \in conts : ~IsChoice(d)
  <2>1. PICK flows \in Seq(Flows), s \in ScopesUpTo(minted) : SendAlong(c, Set(S, "CONSUMED"), flows, s)
    BY <1>1 DEF SendsAlong
  <2> DEFINE conts == { AtNode(t, To[flows[t - minted]], s, flows[t - minted])
                        : t \in Fresh(Len(flows)) }
  <2>2. Answer(c, conts) /\ \A d \in conts : ~IsChoice(d)
    BY <2>1 DEF SendAlong, AtNode, IsChoice
  <2> QED BY <2>2
<1>2. ASSUME NEW S, PlacesAtStarts(c, S) PROVE \E conts : Answer(c, conts) /\ \A d \in conts : ~IsChoice(d)
  <2>1. PICK starts \in Seq(Starts), s \in ScopesUpTo(minted) :
          PlaceAtStarts(c, Set(S, "CONSUMED"), starts, s)
    BY <1>2 DEF PlacesAtStarts
  <2> DEFINE conts == { AtNode(t, starts[t - minted], s, FirstOf(Incoming[starts[t - minted]]))
                        : t \in Fresh(Len(starts)) }
  <2>2. Answer(c, conts) /\ \A d \in conts : ~IsChoice(d)
    BY <2>1 DEF PlaceAtStarts, AtNode, IsChoice
  <2> QED BY <2>2
<1>3. CASE PassThrough(c)
  <2> DEFINE out == FirstOut(c.node)
             conts == { AtNode(t, To[out[1]], c.scope, FirstOf(Incoming[c.node])) : t \in Fresh(Len(out)) }
  <2>1. Answer(c, conts) /\ \A d \in conts : ~IsChoice(d)
    BY <1>3 DEF PassThrough, AtNode, IsChoice
  <2> QED BY <2>1
<1>4. CASE FanOut(c) \/ Quiet(c)
  BY <1>4 DEF FanOut, Quiet
<1> QED BY <1>1, <1>2, <1>3, <1>4, Shapes

LEMMA ChosenStep ==
  ASSUME IInv, Chosen, [Next]_vars
  PROVE  Chosen'
<1>1. ASSUME NEW c \in ready \cup applied, ApplyTransition(c) PROVE Chosen'
  <2>1. \A t \in DOMAIN tokens : /\ t \in DOMAIN tokens' /\ tokens'[t].node = tokens[t].node
                                 /\ Status(t) # "ACTIVE" => Status(t)' # "ACTIVE"
    BY <1>1, TokensStay, StatusesStep
  <2>2. \A d \in ready' \cup applied' : d.kind = "DECISION_RECORDED" =>
          /\ d.decision \in DOMAIN tokens' /\ Status(d.decision)' # "ACTIVE"
          /\ d.flow \in ToSet(Outgoing[tokens'[d.decision].node])
    BY <1>1, <2>1, NothingDecided DEF Chosen
  <2>3. \A t \in DOMAIN decisions' : Type[tokens'[t].node] = "exclusiveGateway"
    <3>1. DOMAIN decisions \subseteq DOMAIN tokens
      BY DEF IInv, WaitsTyped
    <3>2. CASE RequestDecision(c)
      <4>1. AtWork(c) /\ Type[c.node] = "exclusiveGateway" /\ DOMAIN decisions' = DOMAIN decisions \cup {c.token}
        BY <3>2 DEF RequestDecision, ++
      <4>2. c.token \in DOMAIN tokens /\ tokens[c.token].node = c.node
        BY <4>1, AtWorkFacts
      <4> QED BY <2>1, <3>1, <4>1, <4>2 DEF Chosen
    <3>3. CASE TakeDecision(c)
      <4>1. DOMAIN decisions' \subseteq DOMAIN decisions
        BY <3>3 DEF TakeDecision, Without, Restrict
      <4> QED BY <2>1, <3>1, <4>1 DEF Chosen
    <3>4. CASE decisions' = decisions
      BY <2>1, <3>1, <3>4 DEF Chosen
    <3> QED BY <1>1, <3>2, <3>3, <3>4, DecisionActions
  <2> QED BY <2>2, <2>3 DEF Chosen, Status
<1>2. ASSUME NEW c \in Answers, HostAnswers(c) PROVE Chosen'
  <2>1. /\ ready' = ready \cup {c} /\ applied' = applied /\ tokens' = tokens /\ decisions' = decisions
    BY <1>2 DEF HostAnswers, docVars, waitVars
  <2>2. c.kind = "DECISION_RECORDED" =>
          /\ c.decision \in DOMAIN decisions
          /\ c.flow \in ToSet(Outgoing[decisions[c.decision].node])
    BY DEF Answers, WorkCompleted, DecisionRecorded, Resolved
  <2>3. \A t \in DOMAIN decisions : /\ t \in DOMAIN tokens /\ Status(t) # "ACTIVE"
                                    /\ decisions[t].node = tokens[t].node
    BY DEF IInv, WaitsTyped, WaitsMatchTokens
  <2> QED BY <2>1, <2>2, <2>3 DEF Chosen, Status
<1>3. CASE UNCHANGED vars
  BY <1>3 DEF vars, docVars, waitVars, queueVars, Chosen, Status
<1> QED BY <1>1, <1>2, <1>3 DEF Next

LEMMA TracedStep ==
  ASSUME ProperGraph, IInv, Origins, Traced, [Next]_vars
  PROVE  Traced'
<1>1. ASSUME NEW c \in ready \cup applied, ApplyTransition(c) PROVE Traced'
  <2>1. Placed'
    <3>1. DOMAIN tokens \subseteq 1..minted /\ \A t \in 1..minted : via'[t] = via[t]
      BY <1>1, Additions DEF IInv, TokensTyped
    <3>2. \A t \in DOMAIN tokens : /\ t \in DOMAIN tokens' /\ tokens'[t].node = tokens[t].node
                                   /\ tokens'[t].scope = tokens[t].scope
      BY <1>1, TokensStay
    <3>3. \A t \in DOMAIN tokens' : Fits(via'[t], tokens'[t].node, tokens'[t].scope)
      <4>1. \A t \in DOMAIN tokens : Fits(via'[t], tokens'[t].node, tokens'[t].scope)
        BY <3>1, <3>2 DEF Traced, Placed
      <4> QED BY <1>1, <4>1, NewTokensFit
    <3>4. \A p, n, s : Fits(p, n, s) => /\ PlaceNode(p) = n
                                        /\ IF s = Root THEN Parent[n] = TopLevel
                                           ELSE s \in DOMAIN tokens' /\ Parent[n] = tokens'[s].node
      BY <3>2 DEF Fits
    <3>5. \A t \in DOMAIN tokens' :
            /\ PlaceNode(via'[t]) = tokens'[t].node
            /\ IF tokens'[t].scope = Root THEN Parent[tokens'[t].node] = TopLevel
               ELSE /\ tokens'[t].scope \in DOMAIN tokens'
                    /\ Parent[tokens'[t].node] = tokens'[tokens'[t].scope].node
      BY <3>3, <3>4
    <3> QED BY <3>5 DEF Placed, Fits, PlaceNode
  <2> QED BY <1>1, <2>1, EntriesOfTokensStep, ScopesEnteredStep, ChosenStep DEF Traced, Next
<1>2. CASE (\E c \in Answers : HostAnswers(c)) \/ UNCHANGED vars
  <2>1. UNCHANGED <<tokens, scopes, miPending, via>>
    BY <1>2 DEF HostAnswers, vars, docVars, mintVars
  <2>2. Placed' /\ EntriesOfTokens' /\ ScopesEntered'
    BY <2>1 DEF Traced, Placed, Fits, PlaceNode, EntriesOfTokens, ScopesEntered, Status
  <2>3. Chosen'
    BY ChosenStep DEF Traced
  <2> QED BY <2>2, <2>3 DEF Traced
<1> QED BY <1>1, <1>2 DEF Next

LEMMA TracedHolds ==
  ASSUME ProperGraph
  PROVE  Spec => []Traced
<1>1. Init => Traced
  BY DEF Init, Traced, Placed, EntriesOfTokens, ScopesEntered, Chosen, StartCont
<1>2. IInv /\ Origins /\ Traced /\ [Next]_vars => Traced'
  BY TracedStep
<1> QED BY <1>1, <1>2, Invariance, OriginsHold, PTL DEF Spec

------------------------------------------------------------------------------
(* Bearers and markings, step by step.                                     *)

(* Which tokens are those of the game, after a step.                       *)
Parents == { miPending[key].parent : key \in DOMAIN miPending }

LEMMA BearersAre ==
  /\ Bearers = { t \in Alive : ~IsItem(t) } \cup Parents
  /\ EntriesOfTokens => \A t \in Parents : t \in DOMAIN tokens /\ ~IsAlive(t)
BY DEF Bearers, Parents, EntriesOfTokens, IsAlive

LEMMA AliveMoved ==
  ASSUME IInv, NEW S, NEW st, NEW N, Moved(S, st, N), st \in {"CONSUMED", "WAITING"},
         \A t \in N : t \notin DOMAIN tokens /\ tokens'[t].status \in {"ACTIVE", "WAITING"}
  PROVE  \A t : t \in Alive' <=> \/ t \in Alive /\ t \notin S
                                 \/ t \in S /\ t \in DOMAIN tokens /\ st = "WAITING"
                                 \/ t \in N
<1>1. \A t \in DOMAIN tokens' : t \in DOMAIN tokens \/ t \in N
  BY DEF Moved
<1>2. \A t \in DOMAIN tokens : /\ t \in DOMAIN tokens' /\ t \notin N
                               /\ IsAlive(t)' <=> (IsAlive(t) /\ t \notin S) \/ (t \in S /\ st = "WAITING")
  BY DEF Moved, IsAlive, Status
<1>3. \A t \in N : t \in DOMAIN tokens' /\ IsAlive(t)'
  BY DEF Moved, IsAlive, Status
<1> QED BY <1>1, <1>2, <1>3 DEF Alive

(* Tokens that are not items move on.                                      *)
LEMMA BearersMove ==
  ASSUME IInv, EntriesOfTokens, NEW S, NEW N, Moved(S, "CONSUMED", N),
         \A t \in N : t \notin DOMAIN tokens /\ tokens'[t].status = "ACTIVE",
         S \subseteq Alive, \A t \in S : t \notin DOMAIN workItems,
         workItems' = workItems, miPending' = miPending
  PROVE  Bearers' = (Bearers \ S) \cup N /\ S \subseteq Bearers /\ N \cap Bearers = {}
<1>1. \A t : t \in Alive' <=> (t \in Alive /\ t \notin S) \/ t \in N
  <2>1. \A t : t \in Alive' <=> \/ t \in Alive /\ t \notin S
                                \/ t \in S /\ t \in DOMAIN tokens /\ "CONSUMED" = "WAITING"
                                \/ t \in N
    BY AliveMoved
  <2> QED BY <2>1
<1>2. \A t : IsItem(t)' <=> IsItem(t)
  BY DEF IsItem
<1>3. \A t \in N : ~IsItem(t) /\ t \notin Alive
  BY DEF IsItem, IInv, WaitsTyped, Alive
<1>4. \A t \in S : ~IsItem(t) /\ t \notin Parents
  BY BearersAre DEF IsItem, Alive
<1>5. Parents' = Parents
  BY DEF Parents
<1>6. \A t : t \in Bearers' <=> (t \in Alive' /\ ~IsItem(t)') \/ t \in Parents'
  <2>1. Bearers' = { t \in Alive' : ~IsItem(t)' } \cup Parents'
    BY DEF Bearers, Parents
  <2> QED BY <2>1
<1>7. \A t : t \in Bearers <=> (t \in Alive /\ ~IsItem(t)) \/ t \in Parents
  BY BearersAre
<1>8. N \cap Parents = {}
  BY BearersAre
<1> QED BY <1>1, <1>2, <1>3, <1>4, <1>5, <1>6, <1>7, <1>8

LEMMA OneToken ==
  ASSUME NEW t, NEW where
  PROVE  OneEach({t}, where, {where[t]})
BY DEF OneEach

LEMMA NoToken ==
  ASSUME NEW where
  PROVE  OneEach({}, where, {})
BY DEF OneEach

(* One token on each flow.                                                 *)
LEMMA SentOneEach ==
  ASSUME IInv, NEW flows \in Seq(Flows), IsInjective(flows), NEW N, N = Fresh(Len(flows)),
         \A t \in N : t - minted \in DOMAIN flows /\ via'[t] = flows[t - minted]
  PROVE  OneEach(N, via', ToSet(flows))
<1>1. minted \in Nat /\ Len(flows) \in Nat /\ DOMAIN flows = 1..Len(flows)
  BY DEF IInv, TokensTyped
<1>2. ToSet(flows) = { flows[i] : i \in DOMAIN flows }
  BY DEF ToSet
<1>3. \A i \in DOMAIN flows : minted + i \in N /\ (minted + i) - minted = i
  BY <1>1 DEF Fresh
<1>4. \A t, u \in N : t - minted = u - minted => t = u
  BY <1>1 DEF Fresh
<1>5. \A t, u \in N : via'[t] = via'[u] => t = u
  BY <1>4 DEF IsInjective
<1>6. \A p \in ToSet(flows) : \E t \in N : via'[t] = p
  BY <1>2, <1>3
<1> QED BY <1>2, <1>5, <1>6 DEF OneEach

(* A task or subprocess has one way on.                                    *)
LEMMA FirstOutIsAll ==
  ASSUME NEW n \in Nodes, Len(Outgoing[n]) <= 1
  PROVE  FirstOut(n) = Outgoing[n]
<1>1. Outgoing[n] \in Seq(Flows)
  BY GraphFacts
<1>2. CASE Outgoing[n] = <<>>
  BY <1>2 DEF FirstOut
<1>3. CASE Outgoing[n] # <<>>
  <2>1. PICK out \in Seq(Flows) : out = Outgoing[n]
    BY <1>1
  <2>2. Len(out) <= 1 /\ Len(out) > 0 /\ Len(out) \in Nat
    BY <1>3, <2>1
  <2>3. out = <<out[1]>>
    <3> DEFINE one == <<out[1]>>
    <3>0. Len(out) = 1
      <4>1. \A k \in Nat : k <= 1 /\ k > 0 => k = 1
        OBVIOUS
      <4> QED BY <2>2, <4>1
    <3>1. Len(out) = 1 /\ out[1] \in Flows
      BY <2>1, <3>0
    <3>2. one \in Seq(Flows) /\ Len(one) = 1 /\ one[1] = out[1]
      BY <3>1
    <3> HIDE DEF one
    <3>3. out = one
      BY <3>1, <3>2, SeqEqual
    <3> QED BY <3>3 DEF one
  <2> QED BY <1>3, <2>1, <2>3 DEF FirstOut
<1> QED BY <1>2, <1>3

LEMMA OutsCount ==
  ASSUME ProperGraph, NEW n \in Nodes
  PROVE  Cardinality(ToSet(Outgoing[n])) = Len(Outgoing[n])
<1> DEFINE out == Outgoing[n]
<1>1. out \in Seq(Flows) /\ IsInjective(out)
  BY ProperFacts
<1>2. Len(out) \in Nat /\ DOMAIN out = 1..Len(out) /\ ToSet(out) = { out[i] : i \in 1..Len(out) }
  BY <1>1 DEF ToSet
<1>3. IsFiniteSet(1..Len(out)) /\ Cardinality(1..Len(out)) = Len(out)
  BY <1>2, FS_Interval
<1> HIDE DEF out
<1>4. out \in [1..Len(out) -> ToSet(out)]
  BY <1>1, <1>2
<1>5. \A f \in ToSet(out) : \E i \in 1..Len(out) : out[i] = f
  BY <1>2
<1>6. out \in Bijection(1..Len(out), ToSet(out))
  BY <1>1, <1>4, <1>5 DEF Bijection, Injection, Surjection
<1>7. Cardinality(ToSet(out)) = Cardinality(1..Len(out))
  BY <1>3, <1>6, FS_Bijection DEF ExistsBijection
<1> QED BY <1>3, <1>7 DEF out

(* Where none of the game's tokens moves, the marking stays.               *)
LEMMA MarkingStays ==
  ASSUME IInv, EntriesOfTokens, IInv', EntriesOfTokens', Bearers' = Bearers,
         \A t \in 1..minted : via'[t] = via[t]
  PROVE  Marking' = Marking
<1>1. /\ Marking = [p \in Places |-> Cardinality(At(p))]
      /\ Marking' = [p \in Places |-> Cardinality(At(p)')]
  <2>1. (IInv /\ EntriesOfTokens => Marking = [p \in Places |-> Cardinality(At(p))])'
    BY MarkingCounts, PTL
  <2> QED BY <2>1, MarkingCounts
<1>2. \A p : At(p)' = At(p)
  <2>1. \A t \in Bearers : via'[t] = via[t]
    BY BearersAreTokens
  <2> QED BY <2>1 DEF At
<1> QED BY <1>1, <1>2

LEMMA BearersStay ==
  ASSUME IInv, EntriesOfTokens, NEW c \in ready \cup applied,
         \/ CreateWorkItem(c) \/ RequestDecision(c) \/ FanOut(c) \/ Park(c) \/ NoOp(c)
         \/ AskForItems(c) /\ NoEntryIsMet
         \/ CompleteWork(c) /\ CountsOnly(workItems[c.item].multi)
  PROVE  Bearers' = Bearers
<1> DEFINE Same == \A t : t \in Alive' /\ ~IsItem(t)' <=> t \in Alive /\ ~IsItem(t)
<1>1. \A t : t \in Bearers' <=> (t \in Alive' /\ ~IsItem(t)') \/ t \in Parents'
  <2>1. Bearers' = { t \in Alive' : ~IsItem(t)' } \cup Parents'
    BY DEF Bearers, Parents
  <2> QED BY <2>1
<1>2. \A t : t \in Bearers <=> (t \in Alive /\ ~IsItem(t)) \/ t \in Parents
  BY BearersAre
<1>3. Same /\ Parents' = Parents => Bearers' = Bearers
  BY <1>1, <1>2
<1>4. "CONSUMED" \in Statuses /\ "WAITING" \in Statuses /\ TokensTyped
  BY DEF Statuses, IInv
<1>5. AtWork(c) => /\ c.token \in DOMAIN tokens /\ c.token \in Alive
                   /\ c.token \notin DOMAIN workItems
  <2>1. AtWork(c) => c.token \in DOMAIN tokens /\ Status(c.token) = "ACTIVE"
    BY DEF AtWork
  <2> QED BY <2>1 DEF Alive, IsAlive, IInv, WaitsMatchTokens
<1>6. CASE Park(c) \/ NoOp(c)
  BY <1>6 DEF Park, NoOp, docVars, waitVars, Bearers, Alive, IsAlive, Status, IsItem
<1>7. CASE CreateWorkItem(c)
  <2> DEFINE item == [node |-> c.node, scope |-> c.scope, multi |-> NotMulti]
  <2>1. /\ AtWork(c) /\ tokens' = Set({c.token}, "WAITING") /\ UNCHANGED mintVars
        /\ workItems' = workItems ++ [t \in {c.token} |-> item] /\ miPending' = miPending
        /\ item.multi = NotMulti
    BY <1>7 DEF CreateWorkItem
  <2>2. Moved({c.token}, "WAITING", {})
    BY <1>4, <2>1, TokensOnly
  <2>3. \A t : t \in Alive' <=> t \in Alive
    BY <1>5, <2>1, <2>2, AliveMoved
  <2> HIDE DEF item
  <2>4. workItems' = [t \in DOMAIN workItems \cup {c.token} |->
                        IF t \in DOMAIN workItems THEN workItems[t] ELSE item]
    BY <2>1 DEF ++
  <2>5. \A t : IsItem(t)' <=> IsItem(t)
    BY <1>5, <2>1, <2>4 DEF IsItem
  <2> QED BY <1>3, <2>1, <2>3, <2>5 DEF Parents
<1>8. CASE RequestDecision(c)
  <2>1. /\ AtWork(c) /\ tokens' = Set({c.token}, "WAITING") /\ UNCHANGED mintVars
        /\ workItems' = workItems /\ miPending' = miPending
    BY <1>8 DEF RequestDecision
  <2>2. Moved({c.token}, "WAITING", {})
    BY <1>4, <2>1, TokensOnly
  <2>3. \A t : t \in Alive' <=> t \in Alive
    BY <1>5, <2>1, <2>2, AliveMoved
  <2> QED BY <1>3, <2>1, <2>3 DEF Parents, IsItem
<1>9. CASE FanOut(c)
  <2> DEFINE N == Fresh(c.items)
             item == [node |-> c.key[1], scope |-> c.key[2], multi |-> c.key]
  <2>1. /\ Moved({}, "CONSUMED", N) /\ c.key \in DOMAIN miPending
        /\ \A t \in N : t \notin DOMAIN tokens /\ tokens'[t].status = "WAITING"
    BY <1>9, FanOutStep
  <2>2. \A t : t \in Alive' <=> t \in Alive \/ t \in N
    BY <2>1, AliveMoved
  <2>3. item.multi = c.key /\ c.key # NotMulti
    BY <2>1, KeysArePairs
  <2>4. /\ workItems' = workItems ++ [t \in N |-> item]
        /\ miPending' = [miPending EXCEPT ![c.key].total = c.items]
    BY <1>9 DEF FanOut
  <2>5. Parents' = Parents
    <3>1. miPending' = [x \in DOMAIN miPending |->
                          IF x = c.key THEN [miPending[x] EXCEPT !.total = c.items] ELSE miPending[x]]
      BY <2>4
    <3>2. \A x \in DOMAIN miPending : [miPending[x] EXCEPT !.total = c.items].parent = miPending[x].parent
      BY DEF IInv, EntriesTyped
    <3>3. DOMAIN miPending' = DOMAIN miPending /\ \A x \in DOMAIN miPending : miPending'[x].parent = miPending[x].parent
      BY <3>1, <3>2
    <3> QED BY <3>3 DEF Parents
  <2> HIDE DEF item, N
  <2>6. workItems' = [t \in DOMAIN workItems \cup N |->
                        IF t \in DOMAIN workItems THEN workItems[t] ELSE [x \in N |-> item][t]]
    BY <2>4 DEF ++
  <2>7. DOMAIN workItems \subseteq DOMAIN tokens
    BY DEF IInv, WaitsTyped
  <2>8. \A t \in N : IsItem(t)' /\ t \notin Alive
    BY <2>1, <2>3, <2>6, <2>7 DEF IsItem, Alive
  <2>9. \A t : t \notin N => (IsItem(t)' <=> IsItem(t))
    BY <2>6 DEF IsItem
  <2> QED BY <1>3, <2>2, <2>5, <2>8, <2>9
<1>10. CASE AskForItems(c) /\ NoEntryIsMet
  <2> DEFINE entry == [parent |-> c.token, total |-> 0, completed |-> 0]
             k == <<c.node, c.scope>>
  <2>1. /\ AtWork(c) /\ tokens' = Set({c.token}, "CONSUMED") /\ UNCHANGED mintVars
        /\ workItems' = workItems /\ miPending' = [key \in {k} |-> entry] ++ miPending
        /\ entry.parent = c.token
    BY <1>10 DEF AskForItems, waitVars
  <2>2. k \notin DOMAIN miPending
    BY <1>5, <1>10, <2>1, AtWorkFacts DEF NoEntryIsMet, Status
  <2>3. Moved({c.token}, "CONSUMED", {})
    BY <1>4, <2>1, TokensOnly
  <2>4. \A t : t \in Alive' <=> t \in Alive /\ t # c.token
    BY <2>3, AliveMoved
  <2> HIDE DEF entry, k
  <2>5. miPending' = [key \in {k} \cup DOMAIN miPending |->
                        IF key \in {k} THEN [x \in {k} |-> entry][key] ELSE miPending[key]]
    BY <2>1 DEF ++
  <2>6. \A t : t \in Parents' <=> t \in Parents \/ t = c.token
    <3>1. miPending'[k].parent = c.token /\ DOMAIN miPending' = {k} \cup DOMAIN miPending
      BY <2>1, <2>5
    <3>2. \A key \in DOMAIN miPending : miPending'[key] = miPending[key]
      BY <2>2, <2>5
    <3> QED BY <3>1, <3>2 DEF Parents
  <2>7. ~IsItem(c.token) /\ c.token \in Alive /\ \A t : IsItem(t)' <=> IsItem(t)
    BY <1>5, <2>1 DEF IsItem
  <2> QED BY <1>1, <1>2, <2>4, <2>6, <2>7
<1>11. CASE CompleteWork(c) /\ CountsOnly(workItems[c.item].multi)
  <2> DEFINE k == workItems[c.item].multi
             s == workItems[c.item].scope
  <2>1. /\ c.item \in DOMAIN workItems /\ workItems' = Without(workItems, {c.item})
        /\ miPending' = [miPending EXCEPT ![k].completed = @ + 1]
        /\ SendAlong(c, Set({c.item}, "CONSUMED"), <<>>, s)
        /\ k \in DOMAIN miPending /\ k # NotMulti
    <3>1. k \in DOMAIN miPending
      BY <1>11 DEF CountsOnly
    <3>2. k # NotMulti
      BY <3>1, KeysArePairs
    <3> QED BY <1>11, <3>1, <3>2 DEF CompleteWork
  <2>2. s \in ScopesUpTo(minted) /\ <<>> \in Seq(Flows) /\ c.item \in DOMAIN tokens
    BY <2>1 DEF IInv, WaitsTyped, Work
  <2>3. PICK none \in Seq(Flows) : none = <<>>
    BY <2>2
  <2>4. Moved({c.item}, "CONSUMED", Fresh(Len(none))) /\ Fresh(Len(none)) = {}
    <3>1. SendAlong(c, Set({c.item}, "CONSUMED"), none, s)
      BY <2>1, <2>3
    <3> HIDE DEF s
    <3>2. Moved({c.item}, "CONSUMED", Fresh(Len(none)))
      BY <1>4, <2>2, <3>1, SendAlongStep
    <3>3. Fresh(Len(none)) = {}
      BY <2>3 DEF Fresh, IInv, TokensTyped
    <3> QED BY <3>2, <3>3
  <2>5. \A t : t \in Alive' <=> t \in Alive /\ t # c.item
    BY <2>4, AliveMoved
  <2>6. workItems' = [t \in DOMAIN workItems \ {c.item} |-> workItems[t]]
    BY <2>1 DEF Without, Restrict
  <2>7. IsItem(c.item) /\ \A t : t # c.item => (IsItem(t)' <=> IsItem(t))
    BY <2>1, <2>6 DEF IsItem
  <2>8. Parents' = Parents
    <3> HIDE DEF k
    <3>1. miPending' = [x \in DOMAIN miPending |->
                          IF x = k THEN [miPending[x] EXCEPT !.completed = @ + 1] ELSE miPending[x]]
      BY <2>1
    <3>2. \A x \in DOMAIN miPending :
            [miPending[x] EXCEPT !.completed = @ + 1].parent = miPending[x].parent
      BY DEF IInv, EntriesTyped
    <3>3. DOMAIN miPending' = DOMAIN miPending /\ \A x \in DOMAIN miPending : miPending'[x].parent = miPending[x].parent
      BY <3>1, <3>2
    <3> QED BY <3>3 DEF Parents
  <2> QED BY <1>3, <2>5, <2>7, <2>8
<1> QED BY <1>6, <1>7, <1>8, <1>9, <1>10, <1>11

------------------------------------------------------------------------------
(* The moves.                                                              *)

(* What a step starts from and leads to.                                   *)
Known == IInv /\ Origins /\ Traced

LEMMA GameEnds ==
  \A n : Game!Ins(n) = ToSet(Incoming[n]) /\ Game!Outs(n) = ToSet(Outgoing[n])
BY GameGraph DEF Game!Ins, Game!Outs

LEMMA WhereFrom ==
  ASSUME ProperGraph, Known, NEW t \in DOMAIN tokens, NEW n, n = tokens[t].node
  PROVE  /\ via[t] \in Places /\ n \in Nodes
         /\ IF Type[n] = "startEvent" THEN via[t] = n ELSE via[t] \in ToSet(Incoming[n])
<1>1. via[t] \in Places
  BY DEF Known, IInv, TokensTyped
<1>2. PlaceNode(via[t]) = n
  BY DEF Known, Traced, Placed, Fits
<1> QED BY <1>1, <1>2, ProperFacts

(* Tokens of the game that leave some places and come to others.           *)
LEMMA GameMoves ==
  ASSUME Known, Known', NEW c \in ready \cup applied, ApplyTransition(c),
         NEW S, NEW N, NEW from, NEW to, S # {},
         Bearers' = (Bearers \ S) \cup N, S \subseteq Bearers, N \cap Bearers = {},
         OneEach(S, via, from), OneEach(N, via', to)
  PROVE  Game!Move(from, to)
<1>1. /\ IInv /\ EntriesOfTokens /\ IInv' /\ EntriesOfTokens'
      /\ ScopesEntered /\ ScopesEntered'
  BY DEF Known, Traced
<1>2. Bearers \subseteq 1..minted /\ Bearers \subseteq DOMAIN tokens
  BY <1>1, BearersAreTokens
<1>3. \A t \in Bearers : via'[t] = via[t]
  BY <1>1, <1>2, Additions
<1>4. from \subseteq Places
  <2>1. \A p \in from : \E t \in S : via[t] = p
    BY DEF OneEach
  <2>2. \A t \in S : via[t] \in Places
    BY <1>1, <1>2 DEF IInv, TokensTyped
  <2> QED BY <2>1, <2>2
<1>5. Marking' = Game!Moved(Marking, from, to) /\ Game!Holds(from)
  BY <1>1, <1>3, <1>4, MarkingMoves
<1>6. Root \in DOMAIN scopes /\ Root \in DOMAIN scopes'
  <2>1. DOMAIN tokens # {}
    BY <1>2
  <2>2. DOMAIN tokens' # {}
    BY <1>1, <2>1, TokensStay
  <2> QED BY <1>1, <2>1, <2>2 DEF ScopesEntered
<1>7. (Root \in DOMAIN scopes)' = (Root \in DOMAIN scopes)
  BY <1>6
<1> QED BY <1>5, <1>6, <1>7 DEF Game!Move

(* They go along flows.                                                    *)
LEMMA GoAlong ==
  ASSUME Known, Known', NEW c \in ready \cup applied, ApplyTransition(c),
         NEW S, S # {}, S \subseteq Alive, \A t \in S : t \notin DOMAIN workItems,
         workItems' = workItems, miPending' = miPending,
         NEW flows \in Seq(Flows), IsInjective(flows), NEW s \in ScopesUpTo(minted),
         SendAlong(c, Set(S, "CONSUMED"), flows, s), NEW from, OneEach(S, via, from)
  PROVE  Game!Move(from, ToSet(flows))
<1> DEFINE N == Fresh(Len(flows))
<1>1. IInv /\ EntriesOfTokens /\ "CONSUMED" \in Statuses
  BY DEF Known, Traced, Statuses
<1>2. /\ Moved(S, "CONSUMED", N)
      /\ \A t \in N : /\ t \notin DOMAIN tokens /\ tokens'[t].status = "ACTIVE"
                      /\ t - minted \in DOMAIN flows /\ via'[t] = flows[t - minted]
  BY <1>1, SendAlongStep
<1>3. OneEach(N, via', ToSet(flows))
  BY <1>1, <1>2, SentOneEach
<1> HIDE DEF N
<1>4. Bearers' = (Bearers \ S) \cup N /\ S \subseteq Bearers /\ N \cap Bearers = {}
  BY <1>1, <1>2, BearersMove
<1> QED BY <1>3, <1>4, GameMoves

LEMMA NoFlows == <<>> \in Seq(Flows) /\ IsInjective(<<>>) /\ ToSet(<<>>) = {}
BY DEF IsInjective, ToSet

(* The token of a continuation goes on.                                    *)
LEMMA GoesAlong ==
  ASSUME Known, Known', NEW c \in ready \cup applied, ApplyTransition(c), AtWork(c),
         workItems' = workItems, miPending' = miPending,
         NEW flows \in Seq(Flows), IsInjective(flows), NEW s \in ScopesUpTo(minted),
         SendAlong(c, Set({c.token}, "CONSUMED"), flows, s)
  PROVE  Game!Move({via[c.token]}, ToSet(flows))
<1> DEFINE S == {c.token}
<1>1. S # {} /\ S \subseteq Alive /\ \A t \in S : t \notin DOMAIN workItems
  <2>1. c.token \in Alive /\ Status(c.token) = "ACTIVE"
    BY WhoIsAlive DEF Known, AtWork
  <2> QED BY <2>1 DEF Known, IInv, WaitsMatchTokens
<1>2. OneEach(S, via, {via[c.token]})
  BY OneToken
<1> QED BY <1>1, <1>2, GoAlong

LEMMA StartEventPlays ==
  ASSUME ProperGraph, Known, Known', NEW c \in ready \cup applied, StartEvent(c)
  PROVE  Game!Next
<1>1. /\ AtWork(c) /\ Type[c.node] = "startEvent"
      /\ SendAlong(c, Set({c.token}, "CONSUMED"), Outgoing[c.node], c.scope)
      /\ workItems' = workItems /\ miPending' = miPending /\ scopes' = scopes /\ status' = status
  BY DEF StartEvent, PassOn, waitVars
<1>2. /\ c.token \in DOMAIN tokens /\ c.node = tokens[c.token].node
      /\ c.node \in Nodes /\ c.scope \in ScopesUpTo(minted)
  BY <1>1, AtWorkFacts DEF Known
<1>3. Outgoing[c.node] \in Seq(Flows) /\ IsInjective(Outgoing[c.node])
  BY <1>2, ProperFacts
<1>4. Game!Move({via[c.token]}, ToSet(Outgoing[c.node]))
  BY <1>1, <1>2, <1>3, GoesAlong DEF ApplyTransition
<1>5. via[c.token] = c.node
  BY <1>1, <1>2, WhereFrom
<1>6. Game!StartEvent(c.node)
  BY <1>1, <1>4, <1>5, GameGraph, GameEnds DEF Game!StartEvent
<1> QED BY <1>2, <1>6, GameGraph DEF Game!Next

LEMMA ForkPlays ==
  ASSUME ProperGraph, Known, Known', NEW c \in ready \cup applied, Fork(c)
  PROVE  Game!Next
<1>1. /\ AtWork(c) /\ Type[c.node] = "parallelGateway" /\ Len(Outgoing[c.node]) > 1
      /\ SendAlong(c, Set({c.token}, "CONSUMED"), Outgoing[c.node], c.scope)
      /\ workItems' = workItems /\ miPending' = miPending /\ scopes' = scopes /\ status' = status
  BY DEF Fork, PassOn, waitVars
<1>2. /\ c.token \in DOMAIN tokens /\ c.node = tokens[c.token].node
      /\ c.node \in Nodes /\ c.scope \in ScopesUpTo(minted)
  BY <1>1, AtWorkFacts DEF Known
<1>3. Outgoing[c.node] \in Seq(Flows) /\ IsInjective(Outgoing[c.node])
  BY <1>2, ProperFacts
<1>4. Game!Move({via[c.token]}, ToSet(Outgoing[c.node]))
  BY <1>1, <1>2, <1>3, GoesAlong DEF ApplyTransition
<1>5. via[c.token] \in ToSet(Incoming[c.node])
  BY <1>1, <1>2, WhereFrom
<1>6. Cardinality(ToSet(Outgoing[c.node])) > 1
  BY <1>1, <1>2, OutsCount
<1>7. Game!Fork(c.node)
  BY <1>1, <1>4, <1>5, <1>6, GameGraph, GameEnds DEF Game!Fork
<1> QED BY <1>2, <1>7, GameGraph DEF Game!Next

LEMMA TakeDecisionPlays ==
  ASSUME ProperGraph, Known, Known', NEW c \in ready \cup applied, TakeDecision(c)
  PROVE  Game!Next
<1> DEFINE t == c.decision
           n == tokens[t].node
           flows == <<c.flow>>
           s == decisions[t].scope
<1>1. /\ c.kind = "DECISION_RECORDED" /\ t \in DOMAIN decisions
      /\ SendAlong(c, Set({t}, "CONSUMED"), flows, s)
      /\ workItems' = workItems /\ miPending' = miPending /\ scopes' = scopes /\ status' = status
  BY DEF TakeDecision
<1>2. /\ t \in DOMAIN tokens /\ t \in Alive /\ t \notin DOMAIN workItems
      /\ n \in Nodes /\ s \in ScopesUpTo(minted)
  BY <1>1, WhoIsAlive DEF Known, IInv, WaitsTyped, WaitsMatchTokens, TokensTyped, Tokens
<1>3. Type[n] = "exclusiveGateway" /\ c.flow \in ToSet(Outgoing[n])
  BY <1>1 DEF Known, Traced, Chosen
<1>4. flows \in Seq(Flows) /\ IsInjective(flows) /\ ToSet(flows) = {c.flow}
  <2>1. c.flow \in Flows
    BY <1>2, <1>3, ProperFacts
  <2> QED BY <2>1 DEF IsInjective, ToSet
<1>5. Game!Move({via[t]}, {c.flow})
  <2> DEFINE S == {t}
  <2>1. S # {} /\ S \subseteq Alive /\ \A u \in S : u \notin DOMAIN workItems
    BY <1>2
  <2>2. OneEach(S, via, {via[t]})
    BY OneToken
  <2>3. ApplyTransition(c)
    BY DEF ApplyTransition
  <2> HIDE DEF flows, s
  <2> QED BY <1>1, <1>2, <1>4, <2>1, <2>2, <2>3, GoAlong
<1>6. via[t] \in ToSet(Incoming[n])
  BY <1>2, <1>3, WhereFrom
<1> HIDE DEF n
<1>7. Game!Exclusive(n)
  BY <1>1, <1>3, <1>5, <1>6, GameGraph, GameEnds DEF Game!Exclusive
<1> QED BY <1>2, <1>7, GameGraph DEF Game!Next

LEMMA PassThroughPlays ==
  ASSUME ProperGraph, NoDeadEnds, Known, Known', NEW c \in ready \cup applied, PassThrough(c)
  PROVE  Game!Next
<1> DEFINE out == FirstOut(c.node)
           N == Fresh(Len(out))
           f == Outgoing[c.node][1]
<1>1. /\ AtWork(c) /\ Type[c.node] = "exclusiveGateway"
      /\ workItems' = workItems /\ miPending' = miPending /\ scopes' = scopes /\ status' = status
      /\ IInv /\ EntriesOfTokens
  BY DEF PassThrough, waitVars, Known, Traced
<1>2. /\ c.token \in DOMAIN tokens /\ c.node = tokens[c.token].node /\ c.node \in Nodes
      /\ c.token \in Alive /\ Status(c.token) = "ACTIVE"
  BY <1>1, AtWorkFacts, WhoIsAlive DEF AtWork
<1>3. /\ Moved({c.token}, "CONSUMED", N)
      /\ \A t \in N : t \notin DOMAIN tokens /\ tokens'[t].status = "ACTIVE" /\ via'[t] = f
  BY <1>1, PassThroughStep
<1>4. out = <<f>> /\ f \in ToSet(Outgoing[c.node]) /\ N = {minted + 1}
  <2>1. Outgoing[c.node] # <<>> /\ Outgoing[c.node] \in Seq(Flows)
    BY <1>1, <1>2, FirstIsOut, ProperFacts
  <2>2. out = <<f>> /\ 1 \in DOMAIN Outgoing[c.node]
    BY <2>1 DEF FirstOut
  <2>3. f \in ToSet(Outgoing[c.node])
    BY <1>2, <2>2, ProperFacts
  <2>4. Len(out) = 1
    BY <2>2
  <2>5. N = {minted + 1}
    BY <1>1, <2>4 DEF Fresh, IInv, TokensTyped
  <2> QED BY <2>2, <2>3, <2>5
<1> HIDE DEF out, N, f
<1>5. Bearers' = (Bearers \ {c.token}) \cup N /\ {c.token} \subseteq Bearers /\ N \cap Bearers = {}
  <2>1. {c.token} \subseteq Alive /\ \A t \in {c.token} : t \notin DOMAIN workItems
    BY <1>1, <1>2 DEF IInv, WaitsMatchTokens
  <2> QED BY <1>1, <1>3, <2>1, BearersMove
<1>6. OneEach({c.token}, via, {via[c.token]}) /\ OneEach(N, via', {f})
  BY <1>3, <1>4 DEF OneEach
<1>7. Game!Move({via[c.token]}, {f})
  BY <1>5, <1>6, GameMoves DEF ApplyTransition
<1>8. via[c.token] \in ToSet(Incoming[c.node])
  BY <1>1, <1>2, WhereFrom
<1>9. Game!Exclusive(c.node)
  BY <1>1, <1>4, <1>7, <1>8, GameGraph, GameEnds DEF Game!Exclusive
<1> QED BY <1>2, <1>9, GameGraph DEF Game!Next

(* The activations of each subprocess.                                     *)
ActivationsOf(n) == { s \in DOMAIN scopes : scopes[s].node = n }
Running == [n \in Nodes |-> Cardinality(ActivationsOf(n))]

LEMMA ActivationsAreFinite ==
  ASSUME IInv, NEW n
  PROVE  IsFiniteSet(ActivationsOf(n)) /\ Cardinality(ActivationsOf(n)) \in Nat
<1>1. ActivationsOf(n) \subseteq 1..minted \cup {Root} /\ minted \in Nat
  BY DEF IInv, ScopesTyped, TokensTyped, ScopesUpTo, ActivationsOf
<1>2. IsFiniteSet(1..minted)
  BY <1>1, FS_Interval
<1>3. IsFiniteSet(1..minted \cup {Root})
  BY <1>2, FS_AddElement
<1>4. IsFiniteSet(ActivationsOf(n))
  BY <1>1, <1>3, FS_Subset
<1> QED BY <1>4, FS_CardinalityType

LEMMA OneMoreRuns ==
  ASSUME IInv, NEW t, t \notin DOMAIN scopes, DOMAIN scopes' = DOMAIN scopes \cup {t},
         \A s \in DOMAIN scopes : scopes'[s] = scopes[s], NEW n \in Nodes, scopes'[t].node = n
  PROVE  Running' = [Running EXCEPT ![n] = @ + 1]
<1>1. \A m : /\ m # n => ActivationsOf(m)' = ActivationsOf(m)
             /\ m = n => ActivationsOf(m)' = ActivationsOf(m) \cup {t}
             /\ t \notin ActivationsOf(m)
  BY DEF ActivationsOf
<1>2. Cardinality(ActivationsOf(n) \cup {t}) = Cardinality(ActivationsOf(n)) + 1
  BY <1>1, ActivationsAreFinite, FS_AddElement
<1>3. \A m \in Nodes : Cardinality(ActivationsOf(m)') =
        IF m = n THEN Cardinality(ActivationsOf(m)) + 1 ELSE Cardinality(ActivationsOf(m))
  BY <1>1, <1>2
<1> QED BY <1>3 DEF Running

LEMMA OneLessRuns ==
  ASSUME IInv, NEW t \in DOMAIN scopes, DOMAIN scopes' = DOMAIN scopes \ {t},
         \A s \in DOMAIN scopes' : scopes'[s] = scopes[s], NEW n \in Nodes, scopes[t].node = n
  PROVE  Running' = [Running EXCEPT ![n] = @ - 1]
<1>1. \A m : /\ m # n => ActivationsOf(m)' = ActivationsOf(m)
             /\ m = n => ActivationsOf(m)' = ActivationsOf(m) \ {t}
  BY DEF ActivationsOf
<1>2. t \in ActivationsOf(n)
  BY DEF ActivationsOf
<1>3. Cardinality(ActivationsOf(n) \ {t}) = Cardinality(ActivationsOf(n)) - 1
  BY <1>2, ActivationsAreFinite, FS_RemoveElement
<1>4. \A m \in Nodes : Cardinality(ActivationsOf(m)') =
        IF m = n THEN Cardinality(ActivationsOf(m)) - 1 ELSE Cardinality(ActivationsOf(m))
  BY <1>1, <1>3
<1> QED BY <1>4 DEF Running

(* A token at each of the flows that lead to a join fires it.              *)
LEMMA ArrivalsOneEach ==
  ASSUME FlowsNamed, ProperGraph, Known, NEW c \in ready \cup applied, Join(c)
  PROVE  LET S == { Arrived(c)[f] : f \in ToSet(Incoming[c.node]) } IN
         /\ S # {} /\ S \subseteq Alive /\ \A t \in S : t \notin DOMAIN workItems
         /\ OneEach(S, via, ToSet(Incoming[c.node]))
         /\ ToSet(Incoming[c.node]) # {}
<1> DEFINE in == ToSet(Incoming[c.node])
           S == { Arrived(c)[f] : f \in in }
           k == <<c.node, c.scope>>
<1>1. AtJoin(c) /\ in \subseteq DOMAIN Arrived(c) /\ AtWork(c) /\ IInv
  BY DEF Join, AtJoin, AllArrived, Known
<1>2. /\ c \in AtNodes /\ IsJoin(c.node) /\ c.node \in Nodes /\ Arrived(c)[c.flow] = c.token
      /\ \A f \in DOMAIN Arrived(c) :
           \/ f = c.flow
           \/ k \in DOMAIN joinArrivals /\ f \in DOMAIN joinArrivals[k] /\ Arrived(c)[f] = joinArrivals[k][f]
      /\ \A f \in DOMAIN Arrived(c) :
           /\ Arrived(c)[f] \in DOMAIN tokens
           /\ tokens[Arrived(c)[f]].node = c.node
           /\ tokens[Arrived(c)[f]].status = "ACTIVE"
  BY <1>1, ArrivedFacts, AtWorkFacts
<1>3. c.flow \in Flows /\ To[c.flow] = c.node /\ via[c.token] = c.flow
  BY <1>2 DEF FlowsNamed
<1>4. c.flow \in in
  BY <1>3, ProperFacts
<1>5. \A f \in in : via[Arrived(c)[f]] = f
  <2> SUFFICES ASSUME NEW f \in in, f # c.flow PROVE via[Arrived(c)[f]] = f
    BY <1>2, <1>3
  <2>1. PICK t : t = Arrived(c)[f]
    OBVIOUS
  <2>2. /\ t \in DOMAIN tokens /\ tokens[t].node = c.node
        /\ k \in DOMAIN joinArrivals /\ f \in DOMAIN joinArrivals[k] /\ t = joinArrivals[k][f]
    BY <1>1, <1>2, <2>1
  <2>3. ParkedAt(k, f, t)
    BY <1>1, <2>2 DEF IInv, JoinsHoldParked
  <2>4. PICK d \in applied : d.kind = "TOKEN_AT_NODE" /\ d.token = t /\ d.flow = f
    BY <2>3 DEF ParkedAt
  <2>5. d \in AtNodes /\ d.node = c.node
    BY <1>1, <2>2, <2>4 DEF IInv, NamesAgree, Named, AtNodes
  <2> QED BY <1>2, <2>1, <2>4, <2>5 DEF FlowsNamed
<1>6. \A t \in S : t \in DOMAIN tokens /\ Status(t) = "ACTIVE"
  BY <1>1, <1>2 DEF Status
<1>7. S \subseteq Alive /\ \A t \in S : t \notin DOMAIN workItems
  BY <1>1, <1>6 DEF Alive, IsAlive, IInv, WaitsMatchTokens
<1>8. S # {} /\ in # {}
  BY <1>4
<1>9. OneEach(S, via, in)
  BY <1>5 DEF OneEach
<1> QED BY <1>7, <1>8, <1>9

LEMMA JoinPlays ==
  ASSUME FlowsNamed, ProperGraph, Known, Known', NEW c \in ready \cup applied, Join(c)
  PROVE  Game!Next
<1> DEFINE in == ToSet(Incoming[c.node])
           S == { Arrived(c)[f] : f \in in }
<1>1. /\ AtWork(c) /\ Type[c.node] = "parallelGateway" /\ Len(Outgoing[c.node]) <= 1
      /\ SendAlong(c, Set(S, "CONSUMED"), FirstOut(c.node), c.scope)
      /\ workItems' = workItems /\ miPending' = miPending /\ scopes' = scopes /\ status' = status
  BY DEF Join, AtJoin, waitVars
<1>2. /\ S # {} /\ S \subseteq Alive /\ \A t \in S : t \notin DOMAIN workItems
      /\ OneEach(S, via, in) /\ in # {}
  BY ArrivalsOneEach
<1>3. c.node \in Nodes /\ c.scope \in ScopesUpTo(minted)
  BY <1>1, AtWorkFacts DEF Known
<1> HIDE DEF S, in
<1>4. FirstOut(c.node) = Outgoing[c.node]
  BY <1>1, <1>3, FirstOutIsAll
<1>5. Outgoing[c.node] \in Seq(Flows) /\ IsInjective(Outgoing[c.node])
  BY <1>3, ProperFacts
<1>6. Game!Move(in, ToSet(Outgoing[c.node]))
  <2>1. ApplyTransition(c) /\ SendAlong(c, Set(S, "CONSUMED"), Outgoing[c.node], c.scope)
    BY <1>1, <1>4 DEF ApplyTransition
  <2> QED BY <1>1, <1>2, <1>3, <1>5, <2>1, GoAlong
<1>7. Cardinality(ToSet(Outgoing[c.node])) <= 1
  BY <1>1, <1>3, OutsCount
<1>8. Game!Join(c.node)
  BY <1>1, <1>2, <1>6, <1>7, GameGraph, GameEnds DEF Game!Join, in
<1> QED BY <1>3, <1>8, GameGraph DEF Game!Next

LEMMA EnterSubProcessPlays ==
  ASSUME ProperGraph, Known, Known', NEW c \in ready \cup applied, EnterSubProcess(c)
  PROVE  Game!Next
<1> DEFINE starts == InnerStarts[c.node]
           N == LastFresh(Len(starts))
<1>1. /\ AtWork(c) /\ IsEmbedded(c.node) /\ starts # <<>>
      /\ PlaceAtStarts(c, Set({c.token}, "CONSUMED"), starts, c.token)
      /\ workItems' = workItems /\ miPending' = miPending /\ status' = status
      /\ IInv /\ EntriesOfTokens /\ ApplyTransition(c)
  BY DEF EnterSubProcess, IsEmbedded, waitVars, Known, Traced, ApplyTransition
<1>2. /\ c.token \in DOMAIN tokens /\ c.token \in 1..minted /\ c.node = tokens[c.token].node
      /\ c.node \in Nodes /\ c.token \in Alive /\ Status(c.token) = "ACTIVE"
      /\ c.token \in ScopesUpTo(minted) /\ minted \in Nat
  BY <1>1, AtWorkFacts, WhoIsAlive DEF AtWork, ScopesUpTo, IInv, TokensTyped
<1>3. PICK p \in Starts : Len(starts) = 1 /\ starts[1] = p /\ ToSet(starts) = {p}
  <2>1. starts \in Seq(Starts) /\ Len(starts) <= 1
    BY <1>2, GraphFacts DEF ProperGraph
  <2>2. PICK seq \in Seq(Starts) : seq = starts
    BY <2>1
  <2>3. Len(seq) = 1
    <3>1. \A i \in Nat : i <= 1 /\ i # 0 => i = 1
      OBVIOUS
    <3>2. Len(seq) \in Nat /\ Len(seq) # 0 /\ Len(seq) <= 1
      BY <1>1, <2>1, <2>2
    <3> QED BY <3>1, <3>2
  <2>4. DOMAIN seq = {1} /\ seq[1] \in Starts
    BY <2>2, <2>3
  <2>5. ToSet(seq) = {seq[1]}
    BY <2>4 DEF ToSet
  <2> QED BY <2>2, <2>3, <2>4, <2>5
<1>4. /\ Moved({c.token}, "CONSUMED", N)
      /\ \A t \in N : /\ t \notin DOMAIN tokens /\ tokens'[t].status = "ACTIVE"
                      /\ via'[t] = starts[t - minted]
  <2>1. "CONSUMED" \in Statuses /\ starts \in Seq(Starts)
    BY <1>2, GraphFacts DEF Statuses
  <2> HIDE DEF starts
  <2> QED BY <1>1, <1>2, <2>1, PlaceAtStartsStep
<1>5. N = {minted + 1} /\ (minted + 1) - minted = 1
  BY <1>2, <1>3 DEF Fresh, LastFresh
<1> HIDE DEF N
<1>6. Bearers' = (Bearers \ {c.token}) \cup N /\ {c.token} \subseteq Bearers /\ N \cap Bearers = {}
  <2>1. {c.token} \subseteq Alive /\ \A t \in {c.token} : t \notin DOMAIN workItems
    BY <1>1, <1>2 DEF IInv, WaitsMatchTokens
  <2> QED BY <1>1, <1>4, <2>1, BearersMove
<1>7. OneEach({c.token}, via, {via[c.token]}) /\ OneEach(N, via', {p})
  BY <1>3, <1>4, <1>5 DEF OneEach
<1>8. Game!Move({via[c.token]}, {p})
  BY <1>1, <1>6, <1>7, GameMoves
<1>9. Running' = [Running EXCEPT ![c.node] = @ + 1]
  <2>1. c.token \notin DOMAIN scopes
    <3>1. c.token # Root
      BY <1>2, BoundsAssumption
    <3> QED BY <1>2, <3>1 DEF Known, Traced, ScopesEntered
  <2>2. /\ DOMAIN scopes' = DOMAIN scopes \cup {c.token} /\ scopes'[c.token].node = c.node
        /\ \A s \in DOMAIN scopes : scopes'[s] = scopes[s]
    <3>1. ~EndSubProcess(c) /\ ~Start(c)
      BY <1>1 DEF EndSubProcess, Start, AtWork, IsEmbedded
    <3> QED BY <1>1, <2>1, <3>1, ScopeActions
  <2> QED BY <1>1, <1>2, <2>1, <2>2, OneMoreRuns
<1>10. via[c.token] \in ToSet(Incoming[c.node])
  BY <1>1, <1>2, WhereFrom DEF IsEmbedded
<1>11. Game!EnterSubProcess(c.node)
  <2>1. Game!IsEmbedded(c.node) /\ Game!ToSet(Game!InnerStarts[c.node]) = {p}
    BY <1>1, <1>3, GameGraph
  <2>2. \E f \in Game!Ins(c.node) : Game!Move({f}, Game!ToSet(Game!InnerStarts[c.node]))
    BY <1>8, <1>10, <2>1, GameEnds
  <2> QED BY <1>1, <1>9, <2>1, <2>2 DEF Game!EnterSubProcess, Running, ActivationsOf
<1> QED BY <1>2, <1>11, GameGraph DEF Game!Next

LEMMA StartPlays ==
  ASSUME ProperGraph, Known, Known', NEW c \in ready \cup applied, Start(c), DOMAIN tokens = {}
  PROVE  Game!Next
<1>1. /\ workItems' = workItems /\ miPending' = miPending /\ status' = status
      /\ scopes' = scopes ++ [s \in {Root} |-> [node |-> TopLevel, parent |-> Root]]
      /\ IInv /\ EntriesOfTokens /\ IInv' /\ EntriesOfTokens' /\ ScopesEntered /\ ScopesEntered'
  BY DEF Start, waitVars, Known, Traced
<1>2. PICK t : /\ Moved({}, "CONSUMED", {t}) /\ t \notin DOMAIN tokens
               /\ tokens'[t].status = "ACTIVE"
               /\ via'[t] = StartNodes[1] /\ ToSet(StartNodes) = {StartNodes[1]}
  BY <1>1, StartPlaces
<1> DEFINE none == {}
           N == {t}
<1>3. Bearers' = (Bearers \ none) \cup N /\ none \subseteq Bearers /\ N \cap Bearers = {}
  BY <1>1, <1>2, BearersMove
<1>4. OneEach(none, via, {}) /\ OneEach(N, via', ToSet(StartNodes))
  BY <1>2 DEF OneEach
<1>5. \A u \in Bearers : via'[u] = via[u]
  BY <1>1, BearersAreTokens
<1>6. Marking' = Game!Moved(Marking, {}, ToSet(StartNodes))
  BY <1>1, <1>3, <1>4, <1>5, MarkingMoves
<1>7. Root \notin DOMAIN scopes /\ Root \in DOMAIN scopes'
  <2>1. DOMAIN tokens' # {}
    BY <1>2 DEF Moved
  <2> QED BY <1>1, <2>1 DEF ScopesEntered
<1>8. Running' = Running
  <2>1. /\ DOMAIN scopes' = DOMAIN scopes \cup {Root}
        /\ \A s \in DOMAIN scopes : scopes'[s] = scopes[s]
    <3>1. ~EndSubProcess(c) /\ ~EnterSubProcess(c) /\ ApplyTransition(c)
      BY DEF EndSubProcess, EnterSubProcess, AtWork, ApplyTransition
    <3> QED BY <3>1, ScopeActions
  <2>2. scopes'[Root].node = TopLevel /\ TopLevel \notin Nodes
    BY <1>1, <1>7, GraphAssumption DEF ScopesEntered
  <2>3. \A n \in Nodes : ActivationsOf(n)' = ActivationsOf(n)
    BY <1>7, <2>1, <2>2 DEF ActivationsOf
  <2> QED BY <2>3 DEF Running
<1>9. Game!ToSet(Game!StartNodes) = ToSet(StartNodes)
  BY GameGraph
<1>10. (Root \in DOMAIN scopes)' = TRUE
  BY <1>7
<1>11. Game!Start
  BY <1>1, <1>6, <1>7, <1>8, <1>9, <1>10 DEF Game!Start, Running, ActivationsOf
<1> QED BY <1>11 DEF Game!Next

(* The last item of a multi-instance node frees the token its entry stands *)
(* for, and any other work the one that waited for it.                     *)
LEMMA BearersFinish ==
  ASSUME CountsMatchItems, Known, NEW c \in ready \cup applied, CompleteWork(c),
         ~CountsOnly(workItems[c.item].multi),
         NEW N, Moved({c.item}, "CONSUMED", N),
         \A t \in N : t \notin DOMAIN tokens /\ tokens'[t].status = "ACTIVE"
  PROVE  \E t \in Bearers : /\ tokens[t].node = workItems[c.item].node
                            /\ Bearers' = (Bearers \ {t}) \cup N
                            /\ N \cap Bearers = {}
<1> DEFINE u == c.item
<1>0. PICK k : k = workItems[u].multi
  OBVIOUS
<1>1. /\ IInv /\ EntriesOfTokens /\ u \in DOMAIN workItems
      /\ workItems' = Without(workItems, {u}) /\ miPending' = Without(miPending, {k})
  BY <1>0 DEF Known, Traced, CompleteWork
<1>2. workItems' = [t \in DOMAIN workItems \ {u} |-> workItems[t]]
  BY <1>1 DEF Without, Restrict
<1>3. miPending' = [x \in DOMAIN miPending \ {k} |-> miPending[x]]
  BY <1>1 DEF Without, Restrict
<1>4. u \in DOMAIN tokens /\ u \in Alive /\ tokens[u].node = workItems[u].node
  BY <1>1, WhoIsAlive DEF IInv, WaitsTyped, WaitsMatchTokens
<1>5. \A t : t \in Alive' <=> (t \in Alive /\ t # u) \/ t \in N
  <2>1. \A t : t \in Alive' <=> \/ t \in Alive /\ t \notin {u}
                                \/ t \in {u} /\ t \in DOMAIN tokens /\ "CONSUMED" = "WAITING"
                                \/ t \in N
    BY <1>1, AliveMoved
  <2> QED BY <2>1
<1>6. \A t : t # u => (IsItem(t)' <=> IsItem(t))
  BY <1>2 DEF IsItem
<1>7. \A t \in N : ~IsItem(t) /\ ~IsItem(t)' /\ t # u /\ t \notin Alive /\ t \notin Parents
  <2>1. \A t \in N : ~IsItem(t) /\ t # u
    BY <1>1, <1>4 DEF IsItem, IInv, WaitsTyped
  <2>2. \A t \in N : t \notin Alive /\ t \notin Parents
    BY <1>1, BearersAre DEF Alive
  <2> QED BY <1>6, <2>1, <2>2
<1>8. \A t : t \in Bearers' <=> (t \in Alive' /\ ~IsItem(t)') \/ t \in Parents'
  <2>1. Bearers' = { t \in Alive' : ~IsItem(t)' } \cup Parents'
    BY DEF Bearers, Parents
  <2> QED BY <2>1
<1>9. \A t : t \in Bearers <=> (t \in Alive /\ ~IsItem(t)) \/ t \in Parents
  BY BearersAre
<1>10. u \notin Parents
  BY <1>1, <1>4, BearersAre DEF Alive
<1>11. CASE k = NotMulti
  <2>1. Parents' = Parents
    <3>1. k \notin DOMAIN miPending
      BY <1>1, <1>11, KeysArePairs
    <3>2. DOMAIN miPending' = DOMAIN miPending /\ \A x \in DOMAIN miPending : miPending'[x] = miPending[x]
      BY <1>3, <3>1
    <3> QED BY <3>2 DEF Parents
  <2>2. ~IsItem(u)
    BY <1>0, <1>11 DEF IsItem
  <2>3. u \in Bearers
    BY <1>4, <1>9, <2>2
  <2>4. Bearers' = (Bearers \ {u}) \cup N
    BY <1>5, <1>6, <1>7, <1>8, <1>9, <1>10, <2>1
  <2>5. N \cap Bearers = {}
    BY <1>7, <1>9
  <2> QED BY <1>4, <2>3, <2>4, <2>5
<1>12. CASE k # NotMulti
  <2>1. k \in DOMAIN miPending
    BY <1>0, <1>1, <1>12 DEF CountsMatchItems
  <2>2. k = <<workItems[u].node, workItems[u].scope>>
    BY <1>0, <1>1, <1>12 DEF Known, Origins, WorkNodes
  <2>3. PICK p : p = miPending[k].parent
    OBVIOUS
  <2>4. p \in Parents /\ p \in DOMAIN tokens /\ p \notin Alive /\ tokens[p].node = workItems[u].node
    <3>1. p \in DOMAIN tokens /\ k = <<tokens[p].node, tokens[p].scope>> /\ Status(p) = "CONSUMED"
      BY <1>1, <2>1, <2>3 DEF EntriesOfTokens
    <3>2. p \in Parents /\ p \notin Alive
      BY <2>1, <2>3, <3>1 DEF Parents, Alive, IsAlive
    <3> QED BY <2>2, <3>1, <3>2
  <2>5. \A t : t \in Parents' <=> t \in Parents /\ t # p
    <3>1. \A x \in DOMAIN miPending : miPending[x].parent = p => x = k
      BY <1>1, <2>1, <2>3 DEF EntriesOfTokens
    <3>2. DOMAIN miPending' = DOMAIN miPending \ {k} /\ \A x \in DOMAIN miPending' : miPending'[x] = miPending[x]
      BY <1>3
    <3> QED BY <2>3, <3>1, <3>2 DEF Parents
  <2>6. IsItem(u)
    BY <1>0, <1>1, <1>12 DEF IsItem
  <2>7. p \in Bearers
    BY <1>9, <2>4
  <2>8. Bearers' = (Bearers \ {p}) \cup N
    BY <1>5, <1>6, <1>7, <1>8, <1>9, <1>10, <2>4, <2>5, <2>6
  <2>9. N \cap Bearers = {}
    BY <1>7, <1>9
  <2> QED BY <2>4, <2>7, <2>8, <2>9
<1> QED BY <1>11, <1>12

LEMMA CompleteWorkPlays ==
  ASSUME ProperGraph, CountsMatchItems, Known, Known', NEW c \in ready \cup applied,
         CompleteWork(c), ~CountsOnly(workItems[c.item].multi)
  PROVE  Game!Next
<1> DEFINE u == c.item
           n == workItems[u].node
           s == workItems[u].scope
           N == Fresh(Len(Outgoing[n]))
<1>1. /\ u \in DOMAIN workItems /\ SendAlong(c, Set({u}, "CONSUMED"), FirstOut(n), s)
      /\ scopes' = scopes /\ status' = status
      /\ IInv /\ EntriesOfTokens /\ ApplyTransition(c)
  BY DEF CompleteWork, Known, Traced, ApplyTransition
<1>2. n \in Nodes /\ s \in ScopesUpTo(minted) /\ "CONSUMED" \in Statuses
  BY <1>1 DEF IInv, WaitsTyped, Work, Statuses
<1>3. IsWork(n) /\ Type[n] # "startEvent"
  <2>1. IsWork(n)
    BY <1>1 DEF Known, Origins, WorkNodes
  <2> QED BY <2>1 DEF IsWork, IsExternal, Tasks
<1>4. FirstOut(n) = Outgoing[n] /\ Outgoing[n] \in Seq(Flows) /\ IsInjective(Outgoing[n])
  <2>1. Len(Outgoing[n]) <= 1
    BY <1>2, <1>3 DEF ProperGraph
  <2> HIDE DEF n
  <2> QED BY <1>2, <2>1, FirstOutIsAll, ProperFacts
<1>5. /\ Moved({u}, "CONSUMED", N)
      /\ \A t \in N : /\ t \notin DOMAIN tokens /\ tokens'[t].status = "ACTIVE"
                      /\ t - minted \in DOMAIN Outgoing[n] /\ via'[t] = Outgoing[n][t - minted]
  <2>1. SendAlong(c, Set({u}, "CONSUMED"), Outgoing[n], s)
    BY <1>1, <1>4
  <2> HIDE DEF u, n, s
  <2> QED BY <1>1, <1>2, <1>4, <2>1, SendAlongStep
<1>6. OneEach(N, via', ToSet(Outgoing[n]))
  <2> HIDE DEF n
  <2> QED BY <1>1, <1>4, <1>5, SentOneEach
<1>7. PICK t \in Bearers : tokens[t].node = n /\ Bearers' = (Bearers \ {t}) \cup N /\ N \cap Bearers = {}
  <2> HIDE DEF N
  <2> QED BY <1>5, BearersFinish
<1> HIDE DEF N
<1>8. Game!Move({via[t]}, ToSet(Outgoing[n]))
  <2>1. OneEach({t}, via, {via[t]})
    BY OneToken
  <2> HIDE DEF n
  <2> QED BY <1>1, <1>6, <1>7, <2>1, GameMoves
<1>9. via[t] \in ToSet(Incoming[n])
  <2>1. t \in DOMAIN tokens
    BY <1>1, BearersAreTokens
  <2> HIDE DEF n
  <2> QED BY <1>3, <1>7, <2>1, WhereFrom
<1> HIDE DEF n
<1>10. Game!Work(n)
  BY <1>1, <1>3, <1>8, <1>9, GameGraph, GameEnds DEF Game!Work
<1> QED BY <1>2, <1>10, GameGraph DEF Game!Next

------------------------------------------------------------------------------
(* What a subprocess has left.                                             *)

(* What the game has left when an end event takes token t.                 *)
Left(t) == Game!Moved(Marking, {via[t]}, {})

LEMMA LeftAt ==
  ASSUME Known, NEW t \in Bearers, NEW p \in Places
  PROVE  Left(t)[p] = 0 <=> \A u \in Bearers : via[u] = p => u = t
<1>1. IInv /\ EntriesOfTokens
  BY DEF Known, Traced
<1>2. Left(t)[p] = (Cardinality(At(p)) - (IF p \in {via[t]} THEN 1 ELSE 0)) + (IF p \in {} THEN 1 ELSE 0)
  BY <1>1, MarkingCounts, GameGraph DEF Left, Game!Moved
<1>3. IsFiniteSet(At(p)) /\ Cardinality(At(p)) \in Nat
  <2>1. At(p) \subseteq 1..minted
    BY <1>1, BearersAreTokens DEF At
  <2> QED BY <1>1, <2>1, TokensAreFinite DEF IInv
<1>4. CASE p = via[t]
  <2>1. t \in At(p)
    BY <1>4 DEF At
  <2>2. Cardinality(At(p) \ {t}) = Cardinality(At(p)) - 1 /\ IsFiniteSet(At(p) \ {t})
    BY <1>3, <2>1, FS_RemoveElement
  <2>3. Left(t)[p] = Cardinality(At(p)) - 1
    BY <1>2, <1>3, <1>4
  <2>4. Left(t)[p] = 0 <=> At(p) \ {t} = {}
    BY <2>2, <2>3, FS_EmptySet
  <2>5. At(p) \ {t} = {} <=> \A u \in Bearers : via[u] = p => u = t
    BY DEF At
  <2> QED BY <2>4, <2>5
<1>5. CASE p # via[t]
  <2>1. Left(t)[p] = Cardinality(At(p))
    BY <1>2, <1>3, <1>5
  <2>2. Left(t)[p] = 0 <=> At(p) = {}
    BY <1>3, <2>1, FS_EmptySet
  <2>3. At(p) = {} <=> \A u \in Bearers : via[u] = p => u = t
    BY <1>5 DEF At
  <2> QED BY <2>2, <2>3
<1> QED BY <1>4, <1>5

(* Another live token is one of the game's, or an item of one.             *)
LEMMA OthersBear ==
  ASSUME Known, CountsMatchItems, NEW t \in Alive, NEW u \in Alive, u # t
  PROVE  \E b \in Bearers : b # t /\ tokens[b].scope = tokens[u].scope
<1>1. IInv /\ EntriesOfTokens
  BY DEF Known, Traced
<1>2. CASE ~IsItem(u)
  BY <1>2 DEF Bearers
<1>3. CASE IsItem(u)
  <2>1. PICK k : k = workItems[u].multi
    OBVIOUS
  <2>2. k \in DOMAIN miPending /\ k = <<workItems[u].node, workItems[u].scope>>
    BY <1>3, <2>1 DEF IsItem, CountsMatchItems, Known, Origins, WorkNodes
  <2>3. workItems[u].scope = tokens[u].scope
    BY <1>1, <1>3 DEF IsItem, IInv, WaitsMatchTokens
  <2>4. PICK p : p = miPending[k].parent
    OBVIOUS
  <2>5. k = <<tokens[p].node, tokens[p].scope>> /\ Status(p) = "CONSUMED"
    BY <1>1, <2>2, <2>4 DEF EntriesOfTokens
  <2>6. p \in Bearers /\ p # t
    BY <2>2, <2>4, <2>5 DEF Bearers, Alive, IsAlive
  <2>7. tokens[p].scope = tokens[u].scope
    BY <2>2, <2>3, <2>5
  <2> QED BY <2>6, <2>7
<1> QED BY <1>2, <1>3

(* Bearers are where scopes are.                                           *)
LEMMA BearersHaveScopes ==
  ASSUME Known, Held, NEW u \in Bearers
  PROVE  u \in DOMAIN tokens /\ tokens[u].scope \in DOMAIN scopes
<1>1. CASE u \in Alive
  BY <1>1 DEF Held, LiveTokensHaveScopes, Alive
<1>2. CASE u \notin Alive
  <2>1. PICK key \in DOMAIN miPending : u = miPending[key].parent
    BY <1>2 DEF Bearers
  <2>2. u \in DOMAIN tokens /\ key = <<tokens[u].node, tokens[u].scope>>
    BY <2>1 DEF Known, Traced, EntriesOfTokens
  <2> QED BY <2>1, <2>2 DEF Held
<1> QED BY <1>1, <1>2

(* The node of an open scope, and the scope around it.                     *)
LEMMA ScopesNest ==
  ASSUME Known, Held, NEW r \in DOMAIN scopes, scopes[r].node \in Nodes
  PROVE  /\ r # Root /\ r \in DOMAIN tokens /\ scopes[r].node = tokens[r].node
         /\ scopes[r].parent = tokens[r].scope /\ tokens[r].scope \in DOMAIN scopes
<1>1. r # Root
  BY GraphAssumption DEF Known, Traced, ScopesEntered
<1> QED BY <1>1 DEF Known, Origins, ScopesOfTokens, Held, LiveTokensHaveScopes

(* Where the node of an open scope or the place of a token is inside a     *)
(* subprocess, its scope is one of that subprocess.                        *)
LEMMA InnerScope ==
  ASSUME Known, Held, NEW t \in DOMAIN tokens, tokens[t].scope \in DOMAIN scopes,
         Parent[tokens[t].node] # TopLevel
  PROVE  tokens[t].scope # Root /\ scopes[tokens[t].scope].node = Parent[tokens[t].node]
<1>1. PICK s, n : s = tokens[t].scope /\ n = tokens[t].node
  OBVIOUS
<1>2. Fits(via[t], n, s)
  BY <1>1 DEF Known, Traced, Placed
<1>3. s # Root /\ Parent[n] = tokens[s].node
  BY <1>1, <1>2 DEF Fits
<1>4. scopes[s].node = tokens[s].node
  BY <1>1, <1>3 DEF Known, Origins, ScopesOfTokens
<1> QED BY <1>1, <1>3, <1>4

(* A subprocess whose end event takes the last token of its scope has      *)
(* nothing left in it.                                                     *)
LEMMA DrainedAtTheEnd ==
  ASSUME Known, Held, OneActivation, ProperGraph, NEW t \in Bearers,
         NEW a \in DOMAIN scopes, NEW sub \in Nodes, scopes[a].node = sub, sub \in Game!Subs,
         \A u \in Bearers : tokens[u].scope = a => u = t,
         \A r \in DOMAIN scopes : scopes[r].parent # a
  PROVE  Game!Drained(sub, Left(t), Running)
<1> DEFINE S == {sub} \cup { k \in Game!Subs : ActivationsOf(k) = {} }
<1>1. S \in SUBSET Game!Subs /\ sub \in S
  OBVIOUS
<1>2. \A k \in Game!Subs : k \in Nodes /\ k # TopLevel
  <2>1. Game!Subs = { Parent[n] : n \in Nodes } \ {TopLevel}
    BY GameGraph DEF Game!Subs
  <2>2. \A n \in Nodes : Parent[n] \in Nodes \cup {TopLevel}
    BY GraphAssumption DEF Parent
  <2> QED BY <2>1, <2>2
<1>3. \A s \in DOMAIN scopes : scopes[s].node \in S => s = a
  <2>1. \A s \in DOMAIN scopes : s \in ActivationsOf(scopes[s].node)
    BY DEF ActivationsOf
  <2> QED BY <2>1 DEF OneActivation
<1> HIDE DEF S
<1>4. \A r \in DOMAIN scopes : scopes[r].node \in Nodes => Parent[scopes[r].node] \notin S
  <2> SUFFICES ASSUME NEW r \in DOMAIN scopes, scopes[r].node \in Nodes, Parent[scopes[r].node] \in S
               PROVE  FALSE
    OBVIOUS
  <2>1. /\ r \in DOMAIN tokens /\ scopes[r].node = tokens[r].node
        /\ scopes[r].parent = tokens[r].scope /\ tokens[r].scope \in DOMAIN scopes
    BY ScopesNest
  <2>2. Parent[tokens[r].node] # TopLevel
    BY <1>1, <1>2, <2>1
  <2>3. scopes[tokens[r].scope].node \in S
    BY <2>1, <2>2, InnerScope
  <2>4. scopes[r].parent = a
    BY <1>3, <2>1, <2>3
  <2> QED BY <2>4
<1>5. \A n \in Nodes : Parent[n] \in S => ActivationsOf(n) = {}
  BY <1>4 DEF ActivationsOf
<1>6. \A k \in Game!Subs : Parent[k] \in S => k \in S
  BY <1>2, <1>5 DEF S
<1>7. \A n \in Nodes : Parent[n] \in S => Running[n] = 0
  BY <1>5, FS_EmptySet DEF Running
<1>8. ASSUME NEW p \in Places, Parent[PlaceNode(p)] \in S PROVE Left(t)[p] = 0
  <2> SUFFICES ASSUME NEW u \in Bearers, via[u] = p PROVE u = t
    BY LeftAt
  <2>1. u \in DOMAIN tokens /\ tokens[u].scope \in DOMAIN scopes
    BY BearersHaveScopes
  <2>2. tokens[u].node = PlaceNode(p)
    BY <2>1 DEF Known, Traced, Placed, Fits
  <2>3. Parent[tokens[u].node] # TopLevel
    BY <1>1, <1>2, <1>8, <2>2
  <2>4. scopes[tokens[u].scope].node \in S
    BY <1>8, <2>1, <2>2, <2>3, InnerScope
  <2> QED BY <1>3, <2>1, <2>4
<1>9. /\ \A k : Game!Parent[k] = Parent[k] /\ Game!Nodes = Nodes /\ Game!Places = Places
      /\ \A p : Game!PlaceNode(p) = PlaceNode(p)
  BY GameGraph
<1> QED BY <1>1, <1>6, <1>7, <1>8, <1>9 DEF Game!Drained

(* And one with another token of the game in its scope has.                *)
LEMMA NotDrained ==
  ASSUME Known, Held, NEW t \in Bearers, NEW b \in Bearers, b # t,
         NEW sub, sub = Parent[tokens[b].node]
  PROVE  ~Game!Drained(sub, Left(t), Running)
<1>1. b \in DOMAIN tokens
  BY BearersHaveScopes
<1>2. via[b] \in Places /\ PlaceNode(via[b]) = tokens[b].node
  BY <1>1 DEF Known, IInv, TokensTyped, Traced, Placed, Fits
<1>3. Left(t)[via[b]] # 0
  BY <1>2, LeftAt
<1>4. /\ \A k : Game!Parent[k] = Parent[k] /\ Game!Places = Places
      /\ \A p : Game!PlaceNode(p) = PlaceNode(p)
  BY GameGraph
<1> QED BY <1>2, <1>3, <1>4 DEF Game!Drained

(* The token of an end event.                                              *)
LEMMA AtTheEnd ==
  ASSUME ProperGraph, Known, Held, NEW c \in ready \cup applied, AtWork(c), Type[c.node] = "endEvent"
  PROVE  /\ c.token \in DOMAIN tokens /\ c.token \in Alive /\ c.token \in Bearers
         /\ tokens[c.token].node = c.node /\ tokens[c.token].scope = c.scope
         /\ c.node \in Nodes /\ c.scope \in ScopesUpTo(minted) /\ c.scope \in DOMAIN scopes
         /\ via[c.token] \in ToSet(Incoming[c.node])
         /\ c.scope = Root => Parent[c.node] = TopLevel
         /\ c.scope # Root => /\ Parent[c.node] = scopes[c.scope].node /\ Parent[c.node] \in Nodes
                              /\ IsEmbedded(Parent[c.node])
                              /\ Parent[c.node] \in Game!Subs
<1>1. /\ c.token \in DOMAIN tokens /\ c.token \in Alive /\ Status(c.token) = "ACTIVE"
      /\ tokens[c.token].node = c.node /\ tokens[c.token].scope = c.scope
      /\ c.node \in Nodes /\ c.scope \in ScopesUpTo(minted)
  BY AtWorkFacts, WhoIsAlive DEF Known, AtWork
<1>2. c.token \in Bearers
  BY <1>1 DEF Bearers, IsItem, Known, IInv, WaitsMatchTokens
<1>3. c.scope \in DOMAIN scopes
  BY <1>1, <1>2, BearersHaveScopes
<1>4. via[c.token] \in ToSet(Incoming[c.node])
  BY <1>1, WhereFrom
<1>5. Fits(via[c.token], c.node, c.scope)
  BY <1>1 DEF Known, Traced, Placed
<1>6. c.scope = Root => Parent[c.node] = TopLevel
  BY <1>5 DEF Fits
<1>7. ASSUME c.scope # Root
      PROVE  /\ Parent[c.node] = scopes[c.scope].node /\ Parent[c.node] \in Nodes
             /\ IsEmbedded(Parent[c.node]) /\ Parent[c.node] \in Game!Subs
  <2>1. /\ Parent[c.node] = tokens[c.scope].node /\ c.scope \in DOMAIN tokens
        /\ scopes[c.scope].node = tokens[c.scope].node /\ IsEmbedded(tokens[c.scope].node)
    BY <1>3, <1>5, <1>7 DEF Fits, Known, Origins, ScopesOfTokens
  <2>2. tokens[c.scope].node \in Nodes /\ TopLevel \notin Nodes
    BY <2>1, GraphAssumption DEF Known, IInv, TokensTyped, Tokens
  <2>3. Game!Subs = { Parent[n] : n \in Nodes } \ {TopLevel}
    BY GameGraph DEF Game!Subs
  <2>4. Parent[c.node] \in Game!Subs
    BY <1>1, <2>1, <2>2, <2>3
  <2> QED BY <2>1, <2>2, <2>4
<1> QED BY <1>1, <1>2, <1>3, <1>4, <1>6, <1>7

LEMMA EndEventPlays ==
  ASSUME ProperGraph, CountsMatchItems, CompletedMeansNothingLeft, NothingOverlooked, Held,
         Known, Known', NEW c \in ready \cup applied, EndEvent(c)
  PROVE  Game!Next
<1>1. /\ AtWork(c) /\ Type[c.node] = "endEvent" /\ ~InSubProcess(c)
      /\ SendAlong(c, Set({c.token}, "CONSUMED"), <<>>, c.scope)
      /\ workItems' = workItems /\ miPending' = miPending /\ scopes' = scopes
      /\ status' = IF Alive \ {c.token} = {} THEN "COMPLETED" ELSE status
      /\ ApplyTransition(c)
  BY DEF EndEvent, waitVars, ApplyTransition
<1>2. /\ c.token \in Alive /\ c.token \in Bearers
      /\ tokens[c.token].node = c.node /\ tokens[c.token].scope = c.scope
      /\ c.node \in Nodes /\ c.scope \in ScopesUpTo(minted) /\ c.scope \in DOMAIN scopes
      /\ via[c.token] \in ToSet(Incoming[c.node])
      /\ c.scope = Root => Parent[c.node] = TopLevel
  BY <1>1, AtTheEnd
<1>3. Parent[c.node] = TopLevel /\ c.scope = Root
  BY <1>1, <1>2 DEF InSubProcess
<1>4. Game!Move({via[c.token]}, {})
  <2>1. PICK none : none = <<>>
    OBVIOUS
  <2>2. none \in Seq(Flows) /\ IsInjective(none) /\ ToSet(none) = {}
    BY <2>1, NoFlows
  <2>3. SendAlong(c, Set({c.token}, "CONSUMED"), none, c.scope)
    BY <1>1, <2>1
  <2>4. Game!Move({via[c.token]}, ToSet(none))
    BY <1>1, <1>2, <2>2, <2>3, GoesAlong
  <2> QED BY <2>2, <2>4
<1>5. status' = "COMPLETED" <=> \A p \in Places : Left(c.token)[p] = 0
  <2>1. status # "COMPLETED"
    BY <1>2 DEF CompletedMeansNothingLeft
  <2>2. status' = "COMPLETED" <=> Alive \ {c.token} = {}
    BY <1>1, <2>1
  <2>3. ASSUME Alive \ {c.token} = {}, NEW p \in Places PROVE Left(c.token)[p] = 0
    <3>1. Alive = {c.token}
      BY <1>2, <2>3
    <3>2. DOMAIN miPending = {}
      BY <1>1, <1>2, <1>3, <3>1 DEF NothingOverlooked
    <3>3. \A u \in Bearers : u = c.token
      BY <3>1, <3>2 DEF Bearers
    <3> QED BY <1>2, <3>3, LeftAt
  <2>4. ASSUME \A p \in Places : Left(c.token)[p] = 0, NEW u \in Alive, u # c.token PROVE FALSE
    <3>1. PICK b \in Bearers : b # c.token
      BY <1>2, <2>4, OthersBear
    <3>2. via[b] \in Places
      BY BearersHaveScopes DEF Known, IInv, TokensTyped
    <3> QED BY <1>2, <2>4, <3>1, <3>2, LeftAt
  <2> QED BY <2>2, <2>3, <2>4
<1>6. Game!EndEvent(c.node)
  <2>1. /\ Game!Type[c.node] = "endEvent" /\ Game!Parent[c.node] = TopLevel
        /\ via[c.token] \in Game!Ins(c.node) /\ Game!Places = Places
    BY <1>1, <1>2, <1>3, GameGraph, GameEnds
  <2>2. (status = "COMPLETED")' = \A p \in Game!Places : Game!Moved(Marking, {via[c.token]}, {})[p] = 0
    BY <1>5, <2>1 DEF Left
  <2> QED BY <1>1, <1>4, <2>1, <2>2 DEF Game!EndEvent
<1> QED BY <1>2, <1>6, GameGraph DEF Game!Next

LEMMA EndInSubProcessPlays ==
  ASSUME ProperGraph, CountsMatchItems, Held,
         Known, Known', NEW c \in ready \cup applied, EndInSubProcess(c)
  PROVE  Game!Next
<1>1. /\ AtWork(c) /\ Type[c.node] = "endEvent" /\ c.scope # Root /\ OthersIn(c, c.scope) # {}
      /\ SendAlong(c, Set({c.token}, "CONSUMED"), <<>>, c.scope)
      /\ workItems' = workItems /\ miPending' = miPending /\ scopes' = scopes /\ status' = status
      /\ ApplyTransition(c)
  BY DEF EndInSubProcess, InSubProcess, PassOn, waitVars, ApplyTransition
<1>2. /\ c.token \in Alive /\ c.token \in Bearers
      /\ tokens[c.token].node = c.node /\ tokens[c.token].scope = c.scope
      /\ c.node \in Nodes /\ c.scope \in ScopesUpTo(minted) /\ c.scope \in DOMAIN scopes
      /\ via[c.token] \in ToSet(Incoming[c.node])
      /\ Parent[c.node] = scopes[c.scope].node /\ Parent[c.node] \in Nodes
      /\ Parent[c.node] \in Game!Subs
  BY <1>1, AtTheEnd
<1>3. Game!Move({via[c.token]}, {})
  <2>1. PICK none : none = <<>>
    OBVIOUS
  <2>2. none \in Seq(Flows) /\ IsInjective(none) /\ ToSet(none) = {}
    BY <2>1, NoFlows
  <2>3. SendAlong(c, Set({c.token}, "CONSUMED"), none, c.scope)
    BY <1>1, <2>1
  <2>4. Game!Move({via[c.token]}, ToSet(none))
    BY <1>1, <1>2, <2>2, <2>3, GoesAlong
  <2> QED BY <2>2, <2>4
<1>4. PICK sub : sub = Parent[c.node]
  OBVIOUS
<1>5. ~Game!Drained(sub, Left(c.token), Running)
  <2>1. PICK u \in Alive : u # c.token /\ tokens[u].scope = c.scope
    BY <1>1 DEF OthersIn
  <2>2. PICK b \in Bearers : b # c.token /\ tokens[b].scope = c.scope
    BY <1>2, <2>1, OthersBear
  <2>3. b \in DOMAIN tokens
    BY BearersHaveScopes
  <2>4. Fits(via[b], tokens[b].node, c.scope) /\ Fits(via[c.token], c.node, c.scope)
    BY <1>2, <2>2, <2>3, AtTheEnd DEF Known, Traced, Placed, Alive
  <2>5. sub = Parent[tokens[b].node]
    BY <1>1, <1>4, <2>4 DEF Fits
  <2> QED BY <1>2, <2>2, <2>5, NotDrained
<1>6. Game!EndEvent(c.node)
  <2>1. /\ Game!Type[c.node] = "endEvent" /\ Game!Parent[c.node] = sub /\ sub # TopLevel
        /\ via[c.token] \in Game!Ins(c.node)
    BY <1>1, <1>2, <1>4, GameGraph, GameEnds, GraphAssumption
  <2>2. ~Game!Drained(Game!Parent[c.node], Game!Moved(Marking, {via[c.token]}, {}), Running)
    BY <1>5, <2>1 DEF Left
  <2> QED BY <1>1, <1>3, <2>1, <2>2 DEF Game!EndEvent, Running, ActivationsOf
<1> QED BY <1>2, <1>6, GameGraph DEF Game!Next

LEMMA EndSubProcessPlays ==
  ASSUME ProperGraph, NothingOverlooked, OneActivation, Held,
         Known, Known', NEW c \in ready \cup applied, EndSubProcess(c)
  PROVE  Game!Next
<1> DEFINE a == c.scope
           s == scopes[a].parent
<1>1. /\ AtWork(c) /\ Type[c.node] = "endEvent" /\ a # Root /\ OthersIn(c, a) = {}
      /\ SendAlong(c, Set({c.token}, "CONSUMED"), FirstOut(scopes[a].node), s)
      /\ workItems' = workItems /\ miPending' = miPending /\ status' = status
      /\ ApplyTransition(c)
  BY DEF EndSubProcess, InSubProcess, waitVars, ApplyTransition
<1>2. /\ c.token \in Alive /\ c.token \in Bearers
      /\ tokens[c.token].node = c.node /\ tokens[c.token].scope = a
      /\ c.node \in Nodes /\ a \in DOMAIN scopes
      /\ via[c.token] \in ToSet(Incoming[c.node])
      /\ Parent[c.node] = scopes[a].node /\ Parent[c.node] \in Nodes
      /\ IsEmbedded(Parent[c.node]) /\ Parent[c.node] \in Game!Subs
  BY <1>1, AtTheEnd
<1>3. PICK sub \in Nodes : sub = Parent[c.node] /\ scopes[a].node = sub
  BY <1>2
<1>4. FirstOut(sub) = Outgoing[sub] /\ Outgoing[sub] \in Seq(Flows) /\ IsInjective(Outgoing[sub])
  <2>1. Len(Outgoing[sub]) <= 1
    BY <1>2, <1>3 DEF ProperGraph
  <2> QED BY <2>1, FirstOutIsAll, ProperFacts
<1>5. Game!Move({via[c.token]}, ToSet(Outgoing[sub]))
  <2>1. s \in ScopesUpTo(minted)
    BY <1>2 DEF Known, IInv, ScopesTyped
  <2>2. SendAlong(c, Set({c.token}, "CONSUMED"), Outgoing[sub], s)
    BY <1>1, <1>3, <1>4
  <2> HIDE DEF s
  <2> QED BY <1>1, <1>4, <2>1, <2>2, GoesAlong
<1>6. Running' = [Running EXCEPT ![sub] = @ - 1]
  <2>1. DOMAIN scopes' = DOMAIN scopes \ {a} /\ \A r \in DOMAIN scopes' : scopes'[r] = scopes[r]
    <3>1. ~EnterSubProcess(c) /\ ~Start(c)
      BY <1>1 DEF EnterSubProcess, Start, AtWork, IsEmbedded
    <3>2. EndSubProcess(c)
      OBVIOUS
    <3> QED BY <1>1, <3>1, <3>2, ScopeActions
  <2> QED BY <1>2, <1>3, <2>1, OneLessRuns DEF Known
<1>7. Game!Drained(sub, Left(c.token), Running)
  <2>1. \A u \in Alive : u # c.token => tokens[u].scope # a
    BY <1>1 DEF OthersIn
  <2>2. /\ \A key \in DOMAIN miPending : key[2] # a
        /\ \A r \in DOMAIN scopes : scopes[r].parent # a
    BY <1>1, <1>2, <2>1 DEF NothingOverlooked
  <2>3. \A u \in Bearers : tokens[u].scope = a => u = c.token
    <3> SUFFICES ASSUME NEW u \in Bearers, tokens[u].scope = a, u # c.token PROVE FALSE
      OBVIOUS
    <3>1. PICK key \in DOMAIN miPending : u = miPending[key].parent
      BY <2>1 DEF Bearers
    <3>2. key = <<tokens[u].node, tokens[u].scope>>
      BY <3>1 DEF Known, Traced, EntriesOfTokens
    <3> QED BY <2>2, <3>2
  <2>4. sub \in Game!Subs
    BY <1>2, <1>3
  <2> QED BY <1>2, <1>3, <2>2, <2>3, <2>4, DrainedAtTheEnd
<1>8. Game!EndEvent(c.node)
  <2>1. /\ Game!Type[c.node] = "endEvent" /\ Game!Parent[c.node] = sub /\ sub # TopLevel
        /\ via[c.token] \in Game!Ins(c.node) /\ Game!Outs(sub) = ToSet(Outgoing[sub])
    BY <1>1, <1>2, <1>3, GameGraph, GameEnds, GraphAssumption
  <2>2. Game!Drained(Game!Parent[c.node], Game!Moved(Marking, {via[c.token]}, {}), Running)
    BY <1>7, <2>1 DEF Left
  <2> QED BY <1>1, <1>5, <1>6, <2>1, <2>2 DEF Game!EndEvent, Running, ActivationsOf
<1> QED BY <1>2, <1>8, GameGraph DEF Game!Next

------------------------------------------------------------------------------
(* The refinement.                                                         *)

(* A step the game does not see.                                           *)
LEMMA GameWaits ==
  ASSUME Known, Known', scopes' = scopes, status' = status, Bearers' = Bearers,
         \A t \in 1..minted : via'[t] = via[t]
  PROVE  UNCHANGED Game!vars
<1>1. Marking' = Marking
  BY MarkingStays DEF Known, Traced
<1> QED BY <1>1 DEF Game!vars

(* Each transition is a move of the game, or none.                         *)
LEMMA TransitionPlays ==
  ASSUME ProperGraph, NoDeadEnds, FlowsNamed, CountsMatchItems, CompletedMeansNothingLeft,
         NothingOverlooked, OneActivation, NoEntryIsMet, Held, Known, Known',
         NEW c \in ready \cup applied, ApplyTransition(c)
  PROVE  Game!Next \/ UNCHANGED Game!vars
<1>1. \A t \in 1..minted : via'[t] = via[t]
  BY Additions DEF Known
<1>2. CASE \/ CreateWorkItem(c) \/ RequestDecision(c) \/ FanOut(c) \/ Park(c) \/ NoOp(c)
           \/ AskForItems(c)
           \/ (CompleteWork(c) /\ CountsOnly(workItems[c.item].multi))
  <2>1. scopes' = scopes /\ status' = status
    BY <1>2 DEF CreateWorkItem, RequestDecision, FanOut, Park, NoOp, AskForItems, CompleteWork, docVars
  <2>2. Bearers' = Bearers
    BY <1>2, BearersStay DEF Known, Traced
  <2> QED BY <1>1, <2>1, <2>2, GameWaits
<1>3. CASE NothingToDo(c) \/ TooLate(c) \/ (Start(c) /\ DOMAIN tokens # {})
  BY <1>2, <1>3 DEF NothingToDo, TooLate, Start
<1>4. CASE Start(c) /\ DOMAIN tokens = {}
  BY <1>4, StartPlays
<1>5. CASE StartEvent(c) \/ Fork(c) \/ TakeDecision(c) \/ PassThrough(c)
  BY <1>5, StartEventPlays, ForkPlays, TakeDecisionPlays, PassThroughPlays
<1>6. CASE Join(c) \/ EnterSubProcess(c)
  BY <1>6, JoinPlays, EnterSubProcessPlays
<1>7. CASE CompleteWork(c) /\ ~CountsOnly(workItems[c.item].multi)
  BY <1>7, CompleteWorkPlays
<1>8. CASE EndSubProcess(c) \/ EndInSubProcess(c) \/ EndEvent(c)
  BY <1>8, EndSubProcessPlays, EndInSubProcessPlays, EndEventPlays
<1>9. \/ CreateWorkItem(c) \/ RequestDecision(c) \/ FanOut(c) \/ Park(c) \/ AskForItems(c)
      \/ NothingToDo(c) \/ TooLate(c) \/ Start(c)
      \/ StartEvent(c) \/ Fork(c) \/ TakeDecision(c) \/ PassThrough(c)
      \/ Join(c) \/ EnterSubProcess(c) \/ CompleteWork(c)
      \/ EndSubProcess(c) \/ EndInSubProcess(c) \/ EndEvent(c)
  BY DEF ApplyTransition
<1>10. CASE Start(c)
  BY <1>3, <1>4, <1>10
<1>11. CASE CompleteWork(c)
  BY <1>2, <1>7, <1>11
<1> QED BY <1>2, <1>3, <1>5, <1>6, <1>8, <1>9, <1>10, <1>11

LEMMA StepPlays ==
  ASSUME ProperGraph, NoDeadEnds, FlowsNamed, CountsMatchItems, CompletedMeansNothingLeft,
         NothingOverlooked, OneActivation, NoEntryIsMet, Held, Known, Known', [Next]_vars
  PROVE  [Game!Next]_(Game!vars)
<1>1. CASE \E c \in ready \cup applied : ApplyTransition(c)
  BY <1>1, TransitionPlays
<1>2. CASE (\E c \in Answers : HostAnswers(c)) \/ UNCHANGED vars
  <2>1. UNCHANGED <<tokens, scopes, workItems, miPending, status, via>>
    BY <1>2 DEF HostAnswers, vars, docVars, mintVars, waitVars
  <2>2. Bearers' = Bearers
    BY <2>1 DEF Bearers, Alive, IsAlive, Status, IsItem
  <2> QED BY <2>1, <2>2, GameWaits
<1> QED BY <1>1, <1>2 DEF Next

LEMMA StartsPlaying == Init => Game!Init
<1> SUFFICES ASSUME Init PROVE Game!Init
  OBVIOUS
<1>1. DOMAIN tokens = {} /\ DOMAIN scopes = {} /\ DOMAIN miPending = {} /\ status = "RUNNING"
  BY DEF Init
<1>2. Marking = [p \in Places |-> 0]
  <2>1. Alive = {}
    BY <1>1 DEF Alive
  <2>2. \A p : /\ { t \in Alive : via[t] = p /\ ~IsItem(t) } = {}
               /\ { key \in DOMAIN miPending : via[miPending[key].parent] = p } = {}
    BY <1>1, <2>1
  <2>3. Cardinality({}) + Cardinality({}) = 0
    BY FS_EmptySet
  <2> QED BY <2>2, <2>3 DEF Marking
<1>3. Running = [n \in Nodes |-> 0]
  <2>1. \A n : ActivationsOf(n) = {}
    BY <1>1 DEF ActivationsOf
  <2>2. Cardinality({}) = 0
    BY FS_EmptySet
  <2> QED BY <2>1, <2>2 DEF Running
<1>4. (Root \in DOMAIN scopes) = FALSE /\ (status = "COMPLETED") = FALSE
  BY <1>1
<1>5. Game!Places = Places /\ Game!Nodes = Nodes
  BY GameGraph
<1> QED BY <1>2, <1>3, <1>4, <1>5 DEF Game!Init, Running, ActivationsOf

(* The engine plays the token game of its graph (ImplementsTokenGame): no  *)
(* repeated continuation, parked token, item or answer of the host moves a *)
(* token the graph does not move, and no branch of applyTransition loses   *)
(* one.  It does so for graphs it takes as they are drawn, with an answer  *)
(* about items that is not applied twice, and as long as no scope is       *)
(* entered again while it is open and no end event overlooks what its      *)
(* scope has left (transition.ts:181, :204, :729).                         *)
THEOREM PlaysTheTokenGame ==
  ASSUME ProperGraph, NoMergeIntoJoin, NoDeadEnds, "MULTI_INSTANCE_RESOLVED" \notin Repeatable
  PROVE  Spec /\ []NothingOverlooked /\ []OneActivation /\ []NoEntryIsMet => ImplementsTokenGame
<1>1. Init => Game!Init
  BY StartsPlaying
<1>2. IInv /\ Origins /\ Traced => Known
  BY DEF Known
<1>4. Spec /\ []NoEntryIsMet => []CountsMatchItems
  BY HeededHolds, PTL DEF Heeded
<1>5. Spec /\ []NothingOverlooked => []CompletedMeansNothingLeft
  BY CompletedIsDone
<1>6. /\ FlowsNamed /\ CountsMatchItems /\ CompletedMeansNothingLeft /\ NothingOverlooked
      /\ OneActivation /\ NoEntryIsMet /\ Held /\ Known /\ Known' /\ [Next]_vars
      => [Game!Next]_(Game!vars)
  BY StepPlays
<1>7. Spec => []Traced
  BY TracedHolds
<1>8. Spec => []FlowsNamed
  BY FlowsAreNamed
<1>9. Spec => []Known
  BY <1>2, <1>7, Invariance, OriginsHold, PTL
<1>10. Spec => Init /\ [][Next]_vars
  BY DEF Spec
<1>11. Spec /\ []NothingOverlooked /\ []OneActivation /\ []NoEntryIsMet
         => Game!Init /\ [][Game!Next]_(Game!vars)
  BY <1>1, <1>4, <1>5, <1>6, <1>8, <1>9, <1>10, HeldHolds, PTL
<1> QED BY <1>11 DEF ImplementsTokenGame, Game!Spec

------------------------------------------------------------------------------
(* Where the engine comes to a stop.                                       *)

(* Until the instance is COMPLETED there is a token or an entry, or START  *)
(* is still to come.                                                       *)
Busy == Alive # {} \/ DOMAIN miPending # {}
SomeoneIsLeft ==
  status = "COMPLETED" \/ Busy \/ (DOMAIN tokens = {} /\ StartCont \in ready)

(* What waits at the joins is not all there is: from somewhere the tokens  *)
(* they wait for may still come.                                           *)
NotAllParked ==
  DOMAIN joinArrivals # {} => DOMAIN miPending # {} \/ \E t \in Alive : ~IsParked(t)

(* START, what comes before it, and an end event that is not the last.     *)
LEMMA StartIsBusy ==
  ASSUME StartNodes # <<>>, IInv, NEW c \in ready \cup applied, Start(c), DOMAIN tokens = {}
  PROVE  Busy'
<1> DEFINE N == LastFresh(Len(StartNodes))
<1>1. PlaceAtStarts(c, tokens, StartNodes, Root)
  BY DEF Start
<1>2. Set({}, "CONSUMED") = tokens
  BY DEF Set, IInv, TokensTyped
<1>3. PlaceAtStarts(c, Set({}, "CONSUMED"), StartNodes, Root)
  BY <1>1, <1>2
<1>4. StartNodes \in Seq(Starts) /\ Root \in ScopesUpTo(minted) /\ "CONSUMED" \in Statuses
  BY GraphFacts DEF ScopesUpTo, Statuses
<1>5. /\ Moved({}, "CONSUMED", N)
      /\ \A t \in N : t \notin DOMAIN tokens /\ tokens'[t].status = "ACTIVE"
  BY <1>3, <1>4, PlaceAtStartsStep
<1>6. N # {}
  <2>1. minted \in Nat /\ Len(StartNodes) \in Nat /\ Len(StartNodes) > 0
    BY <1>4 DEF IInv, TokensTyped
  <2>2. minted + Len(StartNodes) \in N
    BY <2>1 DEF LastFresh, Fresh
  <2> QED BY <2>2
<1> HIDE DEF N
<1>7. \A t \in N : t \in DOMAIN tokens' /\ IsAlive(t)'
  BY <1>5 DEF Moved, IsAlive, Status
<1> QED BY <1>6, <1>7 DEF Busy, Alive

LEMMA BeforeStartWaits ==
  ASSUME StartNodes # <<>>, IInv, EntriesOfTokens, DOMAIN tokens = {}, StartCont \in ready,
         NEW c \in ready \cup applied, ApplyTransition(c)
  PROVE  SomeoneIsLeft'
<1>1. CASE Start(c)
  BY <1>1, StartIsBusy DEF SomeoneIsLeft
<1>2. CASE ~Start(c)
  <2>1. NoOp(c)
    BY <1>2, NothingBeforeStart
  <2>2. c.kind # "START"
    BY <1>2 DEF ApplyTransition, NothingToDo, AtWork, StartEvent, EndSubProcess,
     EndInSubProcess, EndEvent, EnterSubProcess, CreateWorkItem, AskForItems, RequestDecision,
     PassThrough, Fork, Park, AtJoin, Join, CompleteWork, FanOut, TakeDecision, TooLate
  <2>3. StartCont \in ready'
    BY <2>1, <2>2 DEF NoOp, Answer, StartCont
  <2>4. DOMAIN tokens' = {}
    BY <2>1 DEF NoOp, docVars
  <2> QED BY <2>3, <2>4 DEF SomeoneIsLeft
<1> QED BY <1>1, <1>2

LEMMA EndEventLeaves ==
  ASSUME IInv, NEW c \in ready \cup applied, EndEvent(c), status' # "COMPLETED"
  PROVE  Busy'
<1>1. PICK u \in Alive : u # c.token
  BY DEF EndEvent
<1>2. <<>> \in Seq(Flows)
  OBVIOUS
<1>3. PICK none \in Seq(Flows) : none = <<>>
  BY <1>2
<1>4. c.scope \in ScopesUpTo(minted) /\ "CONSUMED" \in Statuses
  BY AtWorkFacts DEF EndEvent, Statuses
<1>5. SendAlong(c, Set({c.token}, "CONSUMED"), none, c.scope)
  BY <1>3 DEF EndEvent
<1>6. Moved({c.token}, "CONSUMED", Fresh(Len(none)))
  BY <1>4, <1>5, SendAlongStep
<1>7. u \in DOMAIN tokens' /\ IsAlive(u)'
  BY <1>1, <1>6 DEF Moved, Alive, IsAlive, Status
<1> QED BY <1>7 DEF Busy, Alive

(* Every transition leaves someone.                                        *)
LEMMA BusyStep ==
  ASSUME StartNodes # <<>>, NoDeadEnds, IInv, Origins, Busy,
         NEW c \in ready \cup applied, ApplyTransition(c)
  PROVE  SomeoneIsLeft'
<1>1. SUFFICES ASSUME status' # "COMPLETED", ~EndEvent(c) PROVE Busy'
  BY EndEventLeaves DEF SomeoneIsLeft
<1>2. PICK s : InUse(s)
  <2>1. (\E t \in Alive : TRUE) \/ (\E key \in DOMAIN miPending : TRUE)
    BY DEF Busy
  <2>2. ASSUME NEW t \in Alive PROVE InUse(tokens[t].scope)
    BY DEF InUse, LiveIn
  <2>3. ASSUME NEW key \in DOMAIN miPending PROVE InUse(key[2])
    BY DEF InUse, EntryIn
  <2> QED BY <2>1, <2>2, <2>3
<1>3. \A r : InUse(r)' => Busy'
  BY DEF Busy, InUse, LiveIn, EntryIn
<1>4. CASE ~EndSubProcess(c) /\ ~EnterSubProcess(c) /\ (Start(c) => DOMAIN tokens # {})
  BY <1>1, <1>2, <1>3, <1>4, StaysStep DEF Stays, EndsAll
<1>5. CASE EndSubProcess(c)
  BY <1>3, <1>5, EndSubProcessUses DEF InUse
<1>6. CASE EnterSubProcess(c)
  BY <1>3, <1>6, EnterSubProcessUses DEF InUse
<1>7. CASE Start(c) /\ DOMAIN tokens = {}
  BY <1>7, StartIsBusy
<1> QED BY <1>4, <1>5, <1>6, <1>7

LEMMA SomeoneIsLeftStep ==
  ASSUME StartNodes # <<>>, NoDeadEnds, IInv, Origins, EntriesOfTokens, SomeoneIsLeft, [Next]_vars
  PROVE  SomeoneIsLeft'
<1>1. ASSUME NEW c \in ready \cup applied, ApplyTransition(c) PROVE SomeoneIsLeft'
  <2>1. CASE status = "COMPLETED"
    <3>1. status' = "COMPLETED"
      BY <1>1, <2>1, OnlyTheEndCompletes DEF EndEvent
    <3> QED BY <3>1 DEF SomeoneIsLeft
  <2> QED BY <1>1, <2>1, BusyStep, BeforeStartWaits DEF SomeoneIsLeft
<1>2. CASE (\E c \in Answers : HostAnswers(c)) \/ UNCHANGED vars
  <2>1. UNCHANGED docVars /\ ready \subseteq ready'
    BY <1>2 DEF HostAnswers, vars, queueVars
  <2> QED BY <2>1 DEF docVars, SomeoneIsLeft, Busy, Alive, IsAlive, Status
<1> QED BY <1>1, <1>2 DEF Next

(* Entries are of tokens in every graph, a proper one or not.              *)
LEMMA EntriesAreOfTokens == Spec => []EntriesOfTokens
<1>1. Init => EntriesOfTokens
  BY DEF Init, EntriesOfTokens
<1>2. ASSUME IInv, EntriesOfTokens, [Next]_vars PROVE EntriesOfTokens'
  <2>1. CASE (\E c \in Answers : HostAnswers(c)) \/ UNCHANGED vars
    <3>1. UNCHANGED <<tokens, miPending>>
      BY <2>1 DEF HostAnswers, vars, docVars
    <3> QED BY <1>2, <3>1 DEF EntriesOfTokens, Status
  <2> QED BY <1>2, <2>1, EntriesOfTokensStep DEF Next
<1> QED BY <1>1, <1>2, Invariance, PTL DEF Spec

LEMMA SomeoneIsAlwaysLeft ==
  ASSUME StartNodes # <<>>, NoDeadEnds
  PROVE  Spec => []SomeoneIsLeft
<1>1. Init => SomeoneIsLeft
  BY DEF Init, SomeoneIsLeft
<1>2. IInv /\ Origins /\ EntriesOfTokens /\ SomeoneIsLeft /\ [Next]_vars => SomeoneIsLeft'
  BY SomeoneIsLeftStep
<1> QED BY <1>1, <1>2, Invariance, OriginsHold, EntriesAreOfTokens, PTL DEF Spec

(* Who is left either has a continuation, waits for the host, or is parked.*)
LEMMA WhereItStalls ==
  ASSUME SomeoneIsLeft, ActiveTokensMove, WaitsMatchTokens, NotAllParked
  PROVE  StallsOnlyWhenCompleted
<1>1. SUFFICES ASSUME ready = {}, DOMAIN workItems = {}, DOMAIN decisions = {},
                      DOMAIN miPending = {}, status # "COMPLETED"
               PROVE  FALSE
  BY DEF StallsOnlyWhenCompleted
<1>2. PICK t \in Alive : TRUE
  BY <1>1 DEF SomeoneIsLeft, Busy
<1>3. \A u \in Alive : IsParked(u)
  <2>1. \A u \in Alive : u \in DOMAIN tokens /\ Status(u) = "ACTIVE"
    BY <1>1 DEF WaitsMatchTokens, Alive, IsAlive
  <2>2. \A u : ~HasWork(u)
    BY <1>1 DEF HasWork
  <2> QED BY <2>1, <2>2 DEF ActiveTokensMove
<1>4. DOMAIN joinArrivals # {}
  BY <1>2, <1>3 DEF IsParked
<1> QED BY <1>1, <1>3, <1>4 DEF NotAllParked

(* Nothing stops short of the end (StallsOnlyWhenCompleted) but at a join: *)
(* where no token is swallowed and none overtaken at a merge, an instance  *)
(* for which there is nothing left to do, and nothing to be answered, is   *)
(* COMPLETED, unless what is left of it waits at joins that nothing comes  *)
(* to any more (transition.ts:606).                                        *)
THEOREM StallsAtJoins ==
  ASSUME StartNodes # <<>>, NoDeadEnds, NoIdleNodes, NoMergeIntoJoin
  PROVE  Spec /\ []OneTokenPerFlow /\ []NotAllParked => []StallsOnlyWhenCompleted
<1>1. SomeoneIsLeft /\ ActiveTokensMove /\ WaitsMatchTokens /\ NotAllParked
      => StallsOnlyWhenCompleted
  BY WhereItStalls
<1> QED BY <1>1, SomeoneIsAlwaysLeft, ActiveMove, WaitsMatch, PTL

------------------------------------------------------------------------------
(* Processes without parallel branches.                                    *)

(* Only a choice has several ways on, and it takes one.                    *)
Sequential ==
  \A n \in Nodes : /\ Type[n] # "parallelGateway"
                   /\ Len(Outgoing[n]) > 1 => Type[n] = "exclusiveGateway"

(* The game has one token, ...                                             *)
Alone == \A t, u \in Bearers : t = u

(* ... which is in the innermost scope, and the scopes around it are one   *)
(* in the other.                                                           *)
Nested ==
  /\ \A r, s \in DOMAIN scopes \ {Root} : scopes[r].parent = scopes[s].parent => r = s
  /\ \A s : InUse(s) => \A r \in DOMAIN scopes \ {Root} : scopes[r].parent # s

RootIsTop == Root \in DOMAIN scopes => scopes[Root].parent = Root

LEMMA RootIsTopStep ==
  ASSUME IInv, RootIsTop, [Next]_vars
  PROVE  RootIsTop'
<1>1. ASSUME NEW c \in ready \cup applied, ApplyTransition(c) PROVE RootIsTop'
  <2>1. ASSUME EnterSubProcess(c) PROVE c.token # Root
    <3>1. c.token \in DOMAIN tokens /\ DOMAIN tokens \subseteq 1..minted
      BY <2>1 DEF EnterSubProcess, AtWork, IInv, TokensTyped
    <3> QED BY <3>1, BoundsAssumption
  <2> QED BY <1>1, <2>1, ScopeActions DEF RootIsTop
<1>2. CASE (\E c \in Answers : HostAnswers(c)) \/ UNCHANGED vars
  <2>1. scopes' = scopes
    BY <1>2 DEF HostAnswers, vars, docVars
  <2> QED BY <2>1 DEF RootIsTop
<1> QED BY <1>1, <1>2 DEF Next

(* Where something is, there is a token of the game.                       *)
LEMMA UseIsBearers ==
  ASSUME Known, CountsMatchItems, NEW s, InUse(s)
  PROVE  \E b \in Bearers : tokens[b].scope = s
<1>1. IInv /\ EntriesOfTokens
  BY DEF Known, Traced
<1>2. ASSUME NEW key \in DOMAIN miPending PROVE \E b \in Bearers : tokens[b].scope = key[2]
  <2>1. miPending[key].parent \in Bearers
    BY DEF Bearers
  <2>2. key = <<tokens[miPending[key].parent].node, tokens[miPending[key].parent].scope>>
    BY <1>1 DEF EntriesOfTokens
  <2>3. key[2] = tokens[miPending[key].parent].scope
    BY <2>2
  <2> QED BY <2>1, <2>3
<1>3. CASE EntryIn(s)
  BY <1>2, <1>3 DEF EntryIn
<1>4. CASE LiveIn(s)
  <2>1. PICK t \in Alive : tokens[t].scope = s
    BY <1>4 DEF LiveIn
  <2>2. CASE ~IsItem(t)
    BY <2>1, <2>2 DEF Bearers
  <2>3. CASE IsItem(t)
    <3>1. PICK key : key = workItems[t].multi
      OBVIOUS
    <3>2. key \in DOMAIN miPending /\ key = <<workItems[t].node, workItems[t].scope>>
      BY <2>3, <3>1 DEF IsItem, CountsMatchItems, Known, Origins, WorkNodes
    <3>3. key[2] = s
      BY <1>1, <2>1, <2>3, <3>2 DEF IsItem, IInv, WaitsMatchTokens
    <3> QED BY <1>2, <3>2, <3>3
  <2> QED BY <2>2, <2>3
<1> QED BY <1>3, <1>4 DEF InUse

LEMMA OneScopeInUse ==
  Known /\ CountsMatchItems /\ Alone => \A r, s : InUse(r) /\ InUse(s) => r = s
BY UseIsBearers DEF Alone

(* The scopes stay nested: the one that opens is around the token, the one *)
(* that closes was the innermost.                                          *)
LEMMA NestedStep ==
  ASSUME Known, Held, Nested, Known', CountsMatchItems', Alone', [Next]_vars
  PROVE  Nested'
<1>0. \A r, s : InUse(r)' /\ InUse(s)' => r = s
  <2>1. (Known /\ CountsMatchItems /\ Alone => \A r, s : InUse(r) /\ InUse(s) => r = s)'
    BY OneScopeInUse, PTL
  <2> QED BY <2>1
<1>1. ASSUME NEW c \in ready \cup applied, ApplyTransition(c) PROVE Nested'
  <2>0. IInv /\ Origins /\ ScopesEntered
    BY DEF Known, Traced
  <2>1. CASE /\ scopes' = scopes /\ ~EndSubProcess(c) /\ ~EnterSubProcess(c)
             /\ Start(c) => DOMAIN tokens # {}
    <3>1. Stays(c)
      BY <1>1, <2>0, <2>1, StaysStep
    <3> QED BY <2>1, <3>1 DEF Nested, Stays
  <2>2. CASE /\ EndSubProcess(c) /\ c.scope \in DOMAIN scopes /\ c.scope # Root
             /\ DOMAIN scopes' = DOMAIN scopes \ {c.scope}
             /\ \A s \in DOMAIN scopes' : scopes'[s] = scopes[s]
    <3>1. PICK b : b = scopes[c.scope].parent
      OBVIOUS
    <3>2. /\ \A s : LiveIn(s)' => (LiveIn(s) /\ s # c.scope) \/ s = b
          /\ \A s : EntryIn(s)' <=> EntryIn(s)
      BY <1>1, <2>0, <2>2, <3>1, EndSubProcessUses
    <3>3. \A r \in DOMAIN scopes' \ {Root} : scopes'[r].parent # b
      BY <2>2, <3>1 DEF Nested
    <3>4. \A s : InUse(s)' => \A r \in DOMAIN scopes' \ {Root} : scopes'[r].parent # s
      BY <2>2, <3>2, <3>3 DEF Nested, InUse
    <3> QED BY <2>2, <3>4 DEF Nested
  <2>3. CASE /\ EnterSubProcess(c) /\ DOMAIN scopes' = DOMAIN scopes \cup {c.token}
             /\ \A s \in DOMAIN scopes : scopes'[s] = scopes[s]
             /\ c.token \notin DOMAIN scopes =>
                  scopes'[c.token].node = c.node /\ scopes'[c.token].parent = c.scope
    <3>1. PICK x, a : x = c.token /\ a = c.scope
      OBVIOUS
    <3>2. /\ AtWork(c) /\ x \in DOMAIN tokens /\ Status(x) = "ACTIVE" /\ tokens[x].scope = a
          /\ LiveIn(a) /\ x \in Nat /\ x # Root
      <4>1. AtWork(c)
        BY <2>3 DEF EnterSubProcess
      <4>2. DOMAIN tokens \subseteq 1..minted
        BY <2>0 DEF IInv, TokensTyped
      <4> QED BY <2>0, <3>1, <4>1, <4>2, WhoIsAlive, BoundsAssumption DEF AtWork
    <3>3. x \notin DOMAIN scopes
      BY <2>0, <3>2 DEF ScopesEntered
    <3>4. a # x
      <4>1. a # Root => a < x
        BY <2>0, <3>2 DEF Origins, OlderScopes
      <4> QED BY <3>2, <4>1
    <3>5. /\ \A s : LiveIn(s)' => LiveIn(s) \/ s = x
          /\ \A s : EntryIn(s)' <=> EntryIn(s)
          /\ LiveIn(x)'
      BY <1>1, <2>0, <2>3, <3>1, EnterSubProcessUses
    <3>6. \A r \in DOMAIN scopes \ {Root} : scopes[r].parent # a /\ scopes[r].parent # x
      BY <3>2, <3>3 DEF Nested, InUse, Held, LiveTokensHaveScopes
    <3>7. scopes'[x].parent = a
      BY <2>3, <3>1, <3>3
    <3>8. ~InUse(a)'
      BY <1>0, <3>4, <3>5 DEF InUse
    <3>9. \A s : InUse(s)' => \A r \in DOMAIN scopes \ {Root} : scopes[r].parent # s
      BY <3>5, <3>6 DEF Nested, InUse
    <3>10. \A s : InUse(s)' => \A r \in DOMAIN scopes' \ {Root} : scopes'[r].parent # s
      BY <2>3, <3>1, <3>7, <3>8, <3>9
    <3>11. \A r, s \in DOMAIN scopes' \ {Root} : scopes'[r].parent = scopes'[s].parent => r = s
      BY <2>3, <3>1, <3>6, <3>7 DEF Nested
    <3> QED BY <3>10, <3>11 DEF Nested
  <2>4. CASE Start(c) /\ DOMAIN tokens = {} /\ DOMAIN scopes' = DOMAIN scopes \cup {Root}
    <3>1. DOMAIN scopes' \ {Root} = {}
      BY <2>0, <2>4 DEF Origins, ScopesOfTokens
    <3> QED BY <3>1 DEF Nested
  <2> QED BY <1>1, <2>1, <2>2, <2>3, <2>4, ScopeActions
<1>2. CASE (\E c \in Answers : HostAnswers(c)) \/ UNCHANGED vars
  <2>1. UNCHANGED <<tokens, scopes, miPending>>
    BY <1>2 DEF HostAnswers, vars, docVars
  <2> QED BY <2>1 DEF Nested, InUse, LiveIn, EntryIn, Alive, IsAlive, Status
<1> QED BY <1>1, <1>2 DEF Next

(* In such a state no end event overlooks an entry or a scope, no token    *)
(* meets an entry, no subprocess is open twice, and no join waits.         *)
LEMMA AloneOverlooksNothing ==
  ASSUME Known, Held, RootIsTop, Alone, Nested
  PROVE  NothingOverlooked /\ NoEntryIsMet
<1>1. IInv /\ EntriesOfTokens
  BY DEF Known, Traced
<1>2. ASSUME NEW t \in Alive, ~IsItem(t) PROVE DOMAIN miPending = {}
  <2>1. SUFFICES ASSUME NEW key \in DOMAIN miPending PROVE FALSE
    OBVIOUS
  <2>2. t \in Bearers /\ miPending[key].parent \in Bearers
    BY <1>2 DEF Bearers
  <2>3. Status(miPending[key].parent) = "CONSUMED" /\ Status(t) # "CONSUMED"
    BY <1>1, <1>2 DEF EntriesOfTokens, Alive, IsAlive
  <2> QED BY <2>2, <2>3 DEF Alone
<1>3. ASSUME NEW t \in Alive, IsItem(t)
      PROVE  Status(t) = "WAITING" /\ Type[tokens[t].node] # "endEvent"
  <2>1. t \in DOMAIN workItems /\ workItems[t].node = tokens[t].node /\ IsWork(workItems[t].node)
    BY <1>1, <1>3 DEF IsItem, IInv, WaitsMatchTokens, Known, Origins, WorkNodes
  <2>2. Status(t) = "WAITING"
    BY <1>1, <2>1 DEF IInv, WaitsMatchTokens
  <2> QED BY <2>1, <2>2 DEF IsWork, IsExternal, Tasks
<1>4. NoEntryIsMet
  BY <1>2, <1>3 DEF NoEntryIsMet
<1>5. ASSUME NEW t \in Alive, tokens[t].scope # Root, NEW r \in DOMAIN scopes
      PROVE  scopes[r].parent # tokens[t].scope
  <2>1. InUse(tokens[t].scope)
    BY DEF InUse, LiveIn
  <2> QED BY <1>5, <2>1 DEF Nested, RootIsTop
<1>6. NothingOverlooked
  BY <1>2, <1>3, <1>5 DEF NothingOverlooked
<1> QED BY <1>4, <1>6

LEMMA NestedActivations ==
  ASSUME Known, Held, Nested
  PROVE  OneActivation
<1>1. /\ IInv /\ \A s \in DOMAIN scopes \ {Root} : scopes[s].node \in Nodes
      /\ DOMAIN tokens \subseteq 1..minted
      /\ Root \in DOMAIN scopes => scopes[Root].node \notin Nodes
  BY GraphAssumption DEF Known, IInv, ScopesHaveNodes, TokensTyped, Traced, ScopesEntered
<1> DEFINE S == { r \in DOMAIN scopes \ {Root} :
                    \E s \in DOMAIN scopes \ {Root} : s # r /\ scopes[s].node = scopes[r].node }
<1>2. SUFFICES ASSUME S # {} PROVE FALSE
  BY <1>1 DEF OneActivation
<1>3. \A s \in DOMAIN scopes \ {Root} :
        /\ s \in DOMAIN tokens /\ scopes[s].node = tokens[s].node
        /\ scopes[s].parent = tokens[s].scope /\ tokens[s].scope \in DOMAIN scopes
  BY <1>1, ScopesNest
<1>4. S \in SUBSET Nat
  BY <1>1, <1>3
<1>5. PICK r \in S : \A m \in S : r <= m
  BY <1>2, <1>4, Least
<1>6. PICK s \in DOMAIN scopes \ {Root} : s # r /\ scopes[s].node = scopes[r].node
  BY <1>5
<1>7. PICK p, q, n : p = tokens[r].scope /\ q = tokens[s].scope /\ n = tokens[r].node
  OBVIOUS
<1>8. p # q
  BY <1>3, <1>5, <1>6, <1>7 DEF Nested
<1>9. Fits(via[r], n, p) /\ Fits(via[s], n, q) /\ n \in Nodes
  <2>1. r \in DOMAIN tokens /\ s \in DOMAIN tokens /\ n = tokens[s].node
    BY <1>3, <1>5, <1>6, <1>7
  <2> QED BY <1>1, <1>3, <1>5, <1>7, <2>1 DEF Known, Traced, Placed
<1>10. p # Root /\ q # Root /\ Parent[n] = tokens[p].node /\ Parent[n] = tokens[q].node
  <2>1. ASSUME NEW x \in DOMAIN scopes, x # Root, Parent[n] = tokens[x].node
        PROVE  Parent[n] # TopLevel
    <3>1. Parent[n] = scopes[x].node /\ scopes[x].node \in Nodes
      BY <1>1, <1>3, <2>1
    <3> QED BY <3>1, GraphAssumption
  <2>2. p \in DOMAIN scopes /\ q \in DOMAIN scopes
    BY <1>3, <1>5, <1>6, <1>7
  <2> QED BY <1>8, <1>9, <2>1, <2>2 DEF Fits
<1>11. p \in S
  <2>1. p \in DOMAIN scopes /\ q \in DOMAIN scopes
    BY <1>3, <1>5, <1>6, <1>7
  <2>2. scopes[p].node = scopes[q].node
    BY <1>3, <1>10, <2>1
  <2> QED BY <1>8, <1>10, <2>1, <2>2
<1>12. p < r
  BY <1>3, <1>5, <1>7, <1>10 DEF Known, Origins, OlderScopes
<1> QED BY <1>4, <1>5, <1>11, <1>12

LEMMA NoJoins ==
  ASSUME Sequential, IInv
  PROVE  OneTokenPerFlow /\ NotAllParked
<1>1. \A n \in Nodes : ~IsJoin(n)
  BY DEF Sequential, IsJoin
<1>2. \A t \in DOMAIN tokens : tokens[t].node \in Nodes
  BY DEF IInv, TokensTyped, Tokens
<1>3. DOMAIN joinArrivals = {}
  BY <1>1 DEF IInv, JoinsTyped, JoinsHoldParked
<1> QED BY <1>1, <1>2, <1>3 DEF OneTokenPerFlow, NotAllParked

(* One token in the marking, or none.                                      *)
OneToGo(m) == \A p, q \in Places : m[p] > 0 /\ m[q] > 0 => p = q /\ m[p] = 1

(* The bearers are one when the marking has one token.                     *)
LEMMA AloneIsOneToGo ==
  IInv /\ EntriesOfTokens => (Alone <=> OneToGo(Marking))
<1> SUFFICES ASSUME IInv, EntriesOfTokens PROVE Alone <=> OneToGo(Marking)
  OBVIOUS
<1>1. \A p \in Places : Marking[p] = Cardinality(At(p))
  BY MarkingCounts
<1>2. \A p : IsFiniteSet(At(p)) /\ Cardinality(At(p)) \in Nat
  <2>1. \A p : At(p) \subseteq 1..minted
    BY BearersAreTokens DEF At
  <2> QED BY <2>1, TokensAreFinite DEF IInv
<1>3. \A p : Cardinality(At(p)) > 0 <=> At(p) # {}
  BY <1>2, FS_EmptySet
<1>4. \A t \in Bearers : via[t] \in Places /\ t \in At(via[t])
  BY BearersAreTokens DEF IInv, TokensTyped, At
<1>5. ASSUME Alone, NEW p \in Places, NEW q \in Places, Marking[p] > 0, Marking[q] > 0
      PROVE  p = q /\ Marking[p] = 1
  <2>1. PICK t \in At(p) : TRUE
    BY <1>1, <1>3, <1>5
  <2>2. PICK u \in At(q) : TRUE
    BY <1>1, <1>3, <1>5
  <2>3. At(p) = {t} /\ p = q
    BY <1>5, <2>1, <2>2 DEF Alone, At
  <2>4. Cardinality({t}) = 1
    BY FS_Singleton
  <2> QED BY <1>1, <2>3, <2>4
<1>6. ASSUME OneToGo(Marking), NEW t \in Bearers, NEW u \in Bearers PROVE t = u
  <2>1. PICK p \in Places : p = via[t]
    BY <1>4
  <2>2. t \in At(p) /\ u \in At(via[u]) /\ via[u] \in Places
    BY <1>4, <2>1
  <2>3. Marking[p] > 0 /\ Marking[via[u]] > 0
    BY <1>1, <1>3, <2>2
  <2>4. p = via[u] /\ Cardinality(At(p)) = 1
    BY <1>1, <1>6, <2>2, <2>3 DEF OneToGo
  <2>5. \E x : At(p) = {x}
    BY <1>2, <2>4, FS_Singleton
  <2> QED BY <2>2, <2>4, <2>5
<1> QED BY <1>5, <1>6 DEF Alone, OneToGo

(* It goes from one place to another.                                      *)
LEMMA OneGoesOn ==
  ASSUME NEW m \in [Places -> Nat], OneToGo(m), NEW from, NEW to,
         \A p, q \in to : p = q,
         (\A p \in Places : m[p] = 0) \/ \E f \in Places : from = {f} /\ m[f] > 0
  PROVE  OneToGo(Game!Moved(m, from, to))
<1> DEFINE w == Game!Moved(m, from, to)
<1>1. \A p \in Places : w[p] = (m[p] - (IF p \in from THEN 1 ELSE 0)) + (IF p \in to THEN 1 ELSE 0)
  BY GameGraph DEF Game!Moved
<1>2. \A p \in Places : w[p] <= IF p \in to THEN 1 ELSE 0
  <2> SUFFICES ASSUME NEW p \in Places PROVE m[p] - (IF p \in from THEN 1 ELSE 0) <= 0
    BY <1>1
  <2>1. CASE \A q \in Places : m[q] = 0
    BY <2>1
  <2>2. CASE \E f \in Places : from = {f} /\ m[f] > 0
    BY <2>2 DEF OneToGo
  <2> QED BY <2>1, <2>2
<1>3. \A p \in Places : w[p] \in Int
  BY <1>1
<1> HIDE DEF w
<1>4. ASSUME NEW p \in Places, NEW q \in Places, w[p] > 0, w[q] > 0 PROVE p = q /\ w[p] = 1
  <2>1. p \in to /\ q \in to
    BY <1>2, <1>3, <1>4
  <2>2. w[p] <= 1
    BY <1>2, <2>1
  <2> QED BY <1>3, <1>4, <2>1, <2>2
<1> QED BY <1>4 DEF w, OneToGo

(* The subprocess around a place that is marked is one.                    *)
LEMMA AroundAMarkedPlace ==
  ASSUME ProperGraph, Known, Held, NEW n \in Nodes, NEW f \in ToSet(Incoming[n]),
         Marking[f] > 0, Parent[n] # TopLevel
  PROVE  Parent[n] \in Nodes /\ IsEmbedded(Parent[n])
<1>1. f \in Flows /\ To[f] = n /\ f \in Places
  BY FlowsOfNodes DEF Places
<1>2. PlaceNode(f) = n
  BY <1>1, ProperFacts
<1>3. At(f) # {}
  <2>1. Marking[f] = Cardinality(At(f))
    BY <1>1, MarkingCounts DEF Known, Traced
  <2> QED BY <2>1, FS_EmptySet
<1>4. PICK t \in Bearers : via[t] = f
  BY <1>3 DEF At
<1>5. t \in DOMAIN tokens /\ tokens[t].scope \in DOMAIN scopes
  BY BearersHaveScopes
<1>6. tokens[t].node = n
  BY <1>2, <1>4, <1>5 DEF Known, Traced, Placed, Fits
<1>7. tokens[t].scope # Root /\ scopes[tokens[t].scope].node = Parent[n]
  BY <1>5, <1>6, InnerScope
<1> QED BY <1>5, <1>7 DEF Known, Origins, ScopesOfTokens, IInv, ScopesHaveNodes

(* What a sequence of at most one element has.                             *)
LEMMA AtMostOne ==
  ASSUME NEW X, NEW seq \in Seq(X), Len(seq) <= 1
  PROVE  \A p, q \in ToSet(seq) : p = q
<1>1. \A i, j \in DOMAIN seq : i = j
  OBVIOUS
<1> QED BY <1>1 DEF ToSet

(* A move of the game with one token.                                      *)
LEMMA OneTokenPlays ==
  ASSUME ProperGraph, Sequential, Known, Held, OneToGo(Marking), Game!Next
  PROVE  OneToGo(Marking')
<1>0. Marking \in [Places -> Nat]
  <2>1. \A p : At(p) \subseteq 1..minted
    BY BearersAreTokens DEF At, Known, Traced
  <2>2. \A p : Cardinality(At(p)) \in Nat
    BY <2>1, TokensAreFinite DEF Known, IInv
  <2> QED BY <2>2, MarkingCounts DEF Known, Traced
<1>1. ASSUME NEW n \in Nodes, Type[n] # "exclusiveGateway"
      PROVE  \A p, q \in ToSet(Outgoing[n]) : p = q
  <2>1. Outgoing[n] \in Seq(Flows) /\ Len(Outgoing[n]) \in Nat
    BY GraphFacts
  <2>2. Len(Outgoing[n]) <= 1
    BY <1>1, <2>1 DEF Sequential
  <2> QED BY <2>1, <2>2, AtMostOne
<1>2. ASSUME NEW n \in Nodes PROVE ToSet(Incoming[n]) \subseteq Places
  BY FlowsOfNodes DEF Places
<1>3. ASSUME NEW f \in Places, NEW to, \A p, q \in to : p = q, Game!Move({f}, to)
      PROVE  OneToGo(Marking')
  BY <1>0, <1>3, OneGoesOn DEF Game!Move, Game!Holds
<1>4. CASE Game!Start
  <2>1. Root \notin DOMAIN scopes /\ Marking' = Game!Moved(Marking, {}, ToSet(StartNodes))
    BY <1>4, GameGraph DEF Game!Start
  <2>2. DOMAIN tokens = {}
    BY <2>1 DEF Known, Traced, ScopesEntered
  <2>3. \A p : At(p) = {}
    BY <2>2, BearersAreTokens DEF At, Known, Traced
  <2>4. \A p \in Places : Marking[p] = 0
    BY <2>3, MarkingCounts, FS_EmptySet DEF Known, Traced
  <2>5. \A p, q \in ToSet(StartNodes) : p = q
    <3>1. StartNodes \in Seq(Starts) /\ Len(StartNodes) <= 1
      BY GraphFacts DEF ProperGraph
    <3> QED BY <3>1, AtMostOne
  <2> QED BY <1>0, <2>1, <2>4, <2>5, OneGoesOn
<1>5. ASSUME NEW n \in Nodes, Game!StartEvent(n) PROVE OneToGo(Marking')
  <2>1. Type[n] = "startEvent" /\ Game!Move({n}, ToSet(Outgoing[n]))
    BY <1>5, GameGraph, GameEnds DEF Game!StartEvent
  <2>2. n \in Places
    BY <2>1 DEF Places
  <2> QED BY <1>1, <1>3, <2>1, <2>2
<1>6. ASSUME NEW n \in Nodes, Game!Work(n) PROVE OneToGo(Marking')
  <2>1. PICK f \in ToSet(Incoming[n]) : IsWork(n) /\ Game!Move({f}, ToSet(Outgoing[n]))
    BY <1>6, GameGraph, GameEnds DEF Game!Work
  <2>2. Type[n] # "exclusiveGateway"
    BY <2>1 DEF IsWork, IsExternal, Tasks
  <2> QED BY <1>1, <1>2, <1>3, <2>1, <2>2
<1>7. ASSUME NEW n \in Nodes, Game!Exclusive(n) PROVE OneToGo(Marking')
  <2>1. PICK f \in ToSet(Incoming[n]) : \E g : Game!Move({f}, {g})
    BY <1>7, GameEnds DEF Game!Exclusive
  <2>2. PICK g : Game!Move({f}, {g})
    BY <2>1
  <2> QED BY <1>2, <1>3, <2>2
<1>8. ASSUME NEW n \in Nodes, Game!Fork(n) \/ Game!Join(n) PROVE FALSE
  BY <1>8, GameGraph DEF Game!Fork, Game!Join, Sequential
<1>9. ASSUME NEW n \in Nodes, Game!EnterSubProcess(n) PROVE OneToGo(Marking')
  <2>1. PICK f \in ToSet(Incoming[n]) : Game!Move({f}, ToSet(InnerStarts[n]))
    BY <1>9, GameGraph, GameEnds DEF Game!EnterSubProcess
  <2>2. \A p, q \in ToSet(InnerStarts[n]) : p = q
    BY GraphFacts, AtMostOne DEF ProperGraph
  <2> QED BY <1>2, <1>3, <2>1, <2>2
<1>10. ASSUME NEW n \in Nodes, Game!EndEvent(n) PROVE OneToGo(Marking')
  <2>1. PICK f \in ToSet(Incoming[n]) :
          \/ Game!Move({f}, {})
          \/ Parent[n] # TopLevel /\ Game!Move({f}, ToSet(Outgoing[Parent[n]]))
    BY <1>10, GameGraph, GameEnds DEF Game!EndEvent
  <2>2. CASE Game!Move({f}, {})
    BY <1>2, <1>3, <2>1, <2>2
  <2>3. CASE Parent[n] # TopLevel /\ Game!Move({f}, ToSet(Outgoing[Parent[n]]))
    <3>1. Marking[f] > 0
      BY <2>3 DEF Game!Move, Game!Holds
    <3>2. Parent[n] \in Nodes /\ Type[Parent[n]] # "exclusiveGateway"
      BY <2>1, <2>3, <3>1, AroundAMarkedPlace DEF IsEmbedded
    <3> QED BY <1>1, <1>2, <1>3, <2>1, <2>3, <3>2
  <2> QED BY <2>1, <2>2, <2>3
<1> QED BY <1>4, <1>5, <1>6, <1>7, <1>8, <1>9, <1>10, GameGraph DEF Game!Next

(* All that holds of such a process.                                       *)
InSequence ==
  /\ Held /\ Occupied /\ Finished /\ RootIsTop
  /\ Heeded /\ Alone /\ Nested

(* It excludes what the theorems about every graph have to suppose.        *)
LEMMA InSequenceMeans ==
  ASSUME Sequential, Known, InSequence
  PROVE  /\ NothingOverlooked /\ NoEntryIsMet /\ OneActivation
         /\ OneTokenPerFlow /\ NotAllParked /\ CountsMatchItems
<1>1. NothingOverlooked /\ NoEntryIsMet
  BY AloneOverlooksNothing DEF InSequence
<1> QED BY <1>1, NestedActivations, NoJoins DEF InSequence, Heeded, Known

LEMMA InSequenceStep ==
  ASSUME ProperGraph, Sequential, NoDeadEnds, "MULTI_INSTANCE_RESOLVED" \notin Repeatable,
         FlowsNamed, Taken, Known, Known', InSequence, [Next]_vars
  PROVE  InSequence'
<1>1. /\ NothingOverlooked /\ NoEntryIsMet /\ OneActivation /\ CountsMatchItems
      /\ IInv /\ Origins /\ EntriesOfTokens /\ IInv' /\ EntriesOfTokens'
  BY InSequenceMeans DEF Known, Traced
<1>2. Held' /\ Occupied' /\ Finished' /\ RootIsTop'
  BY <1>1, HeldStep, OccupiedStep, FinishedStep, RootIsTopStep DEF InSequence
<1>3. Heeded' /\ CountsMatchItems'
  BY <1>1, HeededStep DEF InSequence, Heeded
<1>4. CompletedMeansNothingLeft
  <2>1. Alive = {} => DOMAIN workItems = {} /\ DOMAIN decisions = {}
    BY <1>1, WhoIsAlive
  <2> QED BY <2>1 DEF InSequence, Finished, CompletedMeansNothingLeft
<1>5. [Game!Next]_(Game!vars)
  BY <1>1, <1>4, StepPlays DEF InSequence
<1>6. OneToGo(Marking)
  BY <1>1, AloneIsOneToGo DEF InSequence
<1>7. OneToGo(Marking')
  BY <1>5, <1>6, OneTokenPlays DEF InSequence, Game!vars
<1>8. Alone'
  <2>1. (IInv /\ EntriesOfTokens => (Alone <=> OneToGo(Marking)))'
    BY AloneIsOneToGo, PTL
  <2>2. OneToGo(Marking)'
    BY <1>7 DEF OneToGo
  <2> QED BY <1>1, <2>1, <2>2
<1>9. Nested'
  BY <1>3, <1>8, NestedStep DEF InSequence
<1> QED BY <1>2, <1>3, <1>8, <1>9 DEF InSequence

(* A process with one flow of control runs to its end, whatever its loops, *)
(* choices, subprocesses and multi-instance tasks, and however often these *)
(* are come to again: none of the ways in which the engine parts from the  *)
(* graph is open to it, so that it plays the token game                    *)
(* (ImplementsTokenGame), moves on, takes the items of every round, closes *)
(* its scopes when they are empty, and stops only when it is COMPLETED.    *)
(* No hypothesis here is about what happens: they all are about the graph, *)
(* but that the host answers each CALLBACK_MULTI_INSTANCE_RESOLVE once and *)
(* its answer is not applied twice (transition.ts:729).                    *)
THEOREM SequentialProcesses ==
  ASSUME ProperGraph, Sequential, NoDeadEnds, NoIdleNodes,
         "MULTI_INSTANCE_RESOLVED" \notin Repeatable
  PROVE  Spec => /\ []StallsOnlyWhenCompleted /\ []CompletedMeansNothingLeft
                 /\ []ActiveTokensMove /\ []LiveTokensHaveScopes
                 /\ []MultiInstanceCount /\ ImplementsTokenGame
<1>1. Init => InSequence
  <2>1. ASSUME Init PROVE DOMAIN tokens = {} /\ DOMAIN scopes = {} /\ DOMAIN miPending = {}
    BY <2>1 DEF Init
  <2>2. Init => Alone /\ Nested /\ RootIsTop
    BY <2>1 DEF Alone, Nested, RootIsTop, Bearers, Alive
  <2>3. Init => Held /\ Occupied /\ Finished /\ Heeded
    BY InitHeeded DEF Init, Held, LiveTokensHaveScopes, Alive, Occupied, Finished
  <2> QED BY <2>2, <2>3 DEF InSequence
<1>2. FlowsNamed /\ Taken /\ Known /\ Known' /\ InSequence /\ [Next]_vars => InSequence'
  BY InSequenceStep
<1>3. NoMergeIntoJoin /\ StartNodes # <<>>
  <2>1. \A n \in Nodes : Outgoing[n] \in Seq(Flows) /\ StartNodes \in Seq(Starts)
    BY GraphFacts
  <2>2. ASSUME NEW n \in Nodes, Len(Outgoing[n]) = 1 PROVE To[Outgoing[n][1]] \in Nodes
    <3>1. Outgoing[n][1] \in Flows
      BY <2>1, <2>2
    <3> QED BY <3>1, GraphFacts
  <2>3. NoMergeIntoJoin
    BY <2>2 DEF NoMergeIntoJoin, Sequential, IsJoin
  <2>4. StartNodes # <<>>
    BY DEF ProperGraph
  <2> QED BY <2>3, <2>4
<1>4. Known /\ InSequence => /\ NothingOverlooked /\ NoEntryIsMet /\ OneActivation
                             /\ OneTokenPerFlow /\ NotAllParked /\ MultiInstanceCount
  BY InSequenceMeans DEF InSequence, Heeded, MultiInstanceCount
<1>5. Spec => []Known
  <2>1. IInv /\ Origins /\ Traced => Known
    BY DEF Known
  <2>2. Spec => []Traced
    BY TracedHolds
  <2> QED BY <2>1, <2>2, Invariance, OriginsHold, PTL
<1>6. Spec => Init /\ [][Next]_vars
  BY DEF Spec
<1>7. Spec => []InSequence
  <2>1. Spec => []FlowsNamed
    BY <1>3, FlowsAreNamed
  <2> QED BY <1>1, <1>2, <1>5, <1>6, <2>1, TakenHolds, PTL
<1>8. Spec => /\ []NothingOverlooked /\ []NoEntryIsMet /\ []OneActivation
              /\ []OneTokenPerFlow /\ []NotAllParked /\ []MultiInstanceCount
  BY <1>4, <1>5, <1>7, PTL
<1>9. Spec /\ []OneTokenPerFlow /\ []NotAllParked => []StallsOnlyWhenCompleted
  BY <1>3, StallsAtJoins
<1>10. Spec /\ []NothingOverlooked => []CompletedMeansNothingLeft
  BY CompletedIsDone
<1>11. Spec /\ []OneTokenPerFlow => []ActiveTokensMove
  BY <1>3, ActiveMove
<1>12. Spec /\ []NothingOverlooked /\ []OneActivation /\ []NoEntryIsMet => ImplementsTokenGame
  BY <1>3, PlaysTheTokenGame
<1> QED BY <1>8, <1>9, <1>10, <1>11, <1>12, ScopesLast, PTL
=============================================================================
