------------------------ MODULE TenantSchedulesProofs ------------------------
(***************************************************************************)
(* What holds of deployments and activations for any number of tenants,    *)
(* start events, graphs and calls.                                         *)
(***************************************************************************)
EXTENDS TenantSchedules, FiniteSetTheorems, TLAPS

Statuses == {"none", "ACTIVE", "PAUSED", "EXHAUSTED"}

Rows == [type : Types \cup {Absent}, config : Nat, cursor : Tenants \cup {Absent},
         status : Statuses, credentials : Tenants \cup {Absent}]

(* What a call may have read of the rows of the owner.                     *)
Documents == { r \in Rows : r.type # Absent }
Sources   == UNION { [S -> Documents] : S \in SUBSET Events }

Shape ==
  /\ TypeOK
  /\ deploy \in [at : {"done", "failed", "replaced", "upserting"}, left : SUBSET Events]
  /\ call \in [Callers -> [at : {"idle", "reading", "cloning", "timers"}, tenant : Tenants \cup {Absent},
                           have : SUBSET Events, sources : Sources, left : SUBSET Events]]

(* Nobody's row has anything of another's.                                 *)
Apart == \A k \in Keys : {row[k].credentials, row[k].cursor} \subseteq {k[2], Absent}

(* The row of e is what the deployment makes it.                           *)
Right(e) ==
  Exists(e, Owner) /\ graph[e] = {row[<<e, Owner>>].type} /\ row[<<e, Owner>>].config = version

(* What a deployment has still to do is all that is wrong.                 *)
Deploying ==
  /\ deploy.at = "replaced" => deploy.left = Claimed(graph)
  /\ deploy.at \in {"upserting", "done"} => RowsOf(Owner) \subseteq Claimed(graph)
  /\ deploy.at = "upserting" => /\ ~ClaimedTwice /\ deploy.left \subseteq Claimed(graph)
                                /\ \A e \in Claimed(graph) \ deploy.left : Right(e)
  /\ deploy.at = "done" => \A e \in Claimed(graph) : Right(e)

(* A call has rows for what it has read, or will have; after its update of *)
(* the connectors none of these is paused but by a host.  The owner's      *)
(* insert none.                                                            *)
Calling(r) ==
  LET t == r.tenant  sources == DOMAIN r.sources IN
  /\ r.at # "idle" => t \in Tenants
  /\ r.left \subseteq sources
  /\ t = Owner => sources = {}
  /\ r.at \in {"idle", "reading"} => sources = {}
  /\ r.at = "reading" /\ t # Owner => r.have \subseteq RowsOf(t)
  /\ r.at = "cloning" => \A e \in sources \ r.left : Exists(e, t)
  /\ r.at = "timers" =>
       /\ r.left = {}
       /\ \A e \in sources : /\ Exists(e, t)
                             /\ row[<<e, t>>].type = "connector" /\ row[<<e, t>>].status = "PAUSED" =>
                                  <<e, t>> \in held

IInv == Shape /\ Apart /\ Deploying /\ \A c \in Callers : Calling(call[c])

------------------------------------------------------------------------------
LEMMA Values ==
  /\ Owner \in Tenants /\ Absent \notin Tenants /\ Absent \notin Types
  /\ \A g \in Graphs : DOMAIN g \subseteq Events /\ \A e \in DOMAIN g : g[e] \subseteq Types
BY TenantsAssumption

LEMMA RowType == row \in [Keys -> Rows] <=>
  row \in [Keys -> [type : Types \cup {Absent}, config : Nat, cursor : Tenants \cup {Absent},
                    status : {"none", "ACTIVE", "PAUSED", "EXHAUSTED"},
                    credentials : Tenants \cup {Absent}]]
BY DEF Rows, Statuses

LEMMA IsSource ==
  /\ \A s \in Sources : DOMAIN s \subseteq Events /\ \A e \in DOMAIN s : s[e] \in Documents
  /\ \A S \in SUBSET Events : [S -> Documents] \subseteq Sources
  /\ Nothing \in Sources /\ DOMAIN Nothing = {}
<1>1. \A S \in SUBSET Events : [S -> Documents] \subseteq Sources
  BY DEF Sources
<1>2. Nothing \in [{} -> Documents] /\ DOMAIN Nothing = {}
  BY DEF Nothing
<1>3. \A s \in Sources : \E S \in SUBSET Events : s \in [S -> Documents]
  BY DEF Sources
<1> QED BY <1>1, <1>2, <1>3

LEMMA InitHolds == Init => IInv
<1> SUFFICES ASSUME Init PROVE IInv
  OBVIOUS
<1> USE Values
<1>1. NoRow \in Rows /\ NoRow.status = "none" /\ NoRow.type = Absent /\ NoRow.credentials = Absent
      /\ NoRow.cursor = Absent
  BY DEF NoRow, Rows, Statuses
<1>2. row \in [Keys -> Rows] /\ \A k \in Keys : row[k] = NoRow
  BY <1>1 DEF Init
<1> HIDE DEF Init
<1>3. graph = [e \in {} |-> {}] /\ version = 0 /\ deploy = [at |-> "done", left |-> {}]
      /\ call = [c \in Callers |-> NoCall]
  BY DEF Init
<1>4. TypeOK
  BY <1>1, <1>2, <1>3, RowType DEF TypeOK
<1>5. Shape
  BY <1>3, <1>4, IsSource DEF Shape, NoCall
<1>6. Apart
  BY <1>1, <1>2 DEF Apart
<1>7. Deploying
  <2>1. \A e \in Events : ~Exists(e, Owner)
    BY <1>1, <1>2 DEF Exists, Keys
  <2> QED BY <1>3, <2>1 DEF Deploying, Claimed, RowsOf
<1>8. \A c \in Callers : Calling(call[c])
  BY <1>3, IsSource DEF Calling, NoCall
<1> QED BY <1>5, <1>6, <1>7, <1>8 DEF IInv

------------------------------------------------------------------------------
(* Parts of the invariant that a step has to keep.                         *)

LEMMA Types1 ==
  ASSUME TypeOK
  PROVE  /\ row \in [Keys -> Rows] /\ version \in Nat /\ DOMAIN graph \subseteq Events
         /\ \A k \in Keys : row[k].status = "none" <=> row[k].type = Absent
         /\ \A e \in DOMAIN graph : graph[e] \subseteq Types
BY RowType DEF TypeOK

(* A step leaves the rows as a call c that goes on knows them: those of    *)
(* its tenant are still there, and none of them is paused but by a host.   *)
RowsKept(t) ==
  \A e \in Events :
    /\ Exists(e, t) => Exists(e, t)'
    /\ row'[<<e, t>>].type = "connector" /\ row'[<<e, t>>].status = "PAUSED" /\ Exists(e, t) =>
         \/ <<e, t>> \in held'
         \/ /\ row[<<e, t>>].type = "connector" /\ row[<<e, t>>].status = "PAUSED"
            /\ <<e, t>> \notin held

LEMMA CallingKept ==
  ASSUME IInv, NEW c \in Callers, call'[c] = call[c],
         call[c].tenant \in Tenants \ {Owner} => RowsKept(call[c].tenant)
  PROVE  Calling(call[c])'
<1>1. Calling(call[c]) /\ DOMAIN call[c].sources \subseteq Events
  BY IsSource DEF IInv, Shape
<1>2. CASE call[c].at = "idle"
  BY <1>1, <1>2 DEF Calling
<1>3. CASE call[c].tenant = Owner
  BY <1>1, <1>3 DEF Calling
<1>4. CASE call[c].at # "idle" /\ call[c].tenant # Owner
  <2>1. RowsKept(call[c].tenant)
    BY <1>1, <1>4 DEF Calling
  <2>2. call[c].at = "reading" => call[c].have \subseteq RowsOf(call[c].tenant)'
    BY <1>1, <1>4, <2>1 DEF Calling, RowsKept, RowsOf
  <2>3. call[c].at = "cloning" => \A e \in DOMAIN call[c].sources \ call[c].left : Exists(e, call[c].tenant)'
    BY <1>1, <2>1 DEF Calling, RowsKept
  <2>4. call[c].at = "timers" => \A e \in DOMAIN call[c].sources :
          /\ Exists(e, call[c].tenant)'
          /\ row'[<<e, call[c].tenant>>].type = "connector" /\ row'[<<e, call[c].tenant>>].status = "PAUSED" =>
               <<e, call[c].tenant>> \in held'
    BY <1>1, <2>1 DEF Calling, RowsKept
  <2> QED BY <1>1, <1>4, <2>2, <2>3, <2>4 DEF Calling
<1> QED BY <1>2, <1>3, <1>4

(* What the scheduler and the calls of hosts do to rows, and the updates   *)
(* of an activation: they insert, delete and configure nothing, and pause  *)
(* nothing but in `held'.                                                  *)
RowMoves ==
  /\ row' \in [Keys -> Rows]
  /\ \A k \in Keys :
       /\ row'[k].type = row[k].type /\ row'[k].config = row[k].config
       /\ row'[k].status = "none" <=> row[k].status = "none"
       /\ {row'[k].credentials, row'[k].cursor} \subseteq {k[2], Absent}
       /\ row'[k].status = "PAUSED" => k \in held' \/ (row[k].status = "PAUSED" /\ k \notin held)
       /\ row'[k] # row[k] => row[k].status # "none"
  /\ UNCHANGED <<graph, version, deploy>>

LEMMA RowMovesFacts ==
  ASSUME IInv, RowMoves
  PROVE  /\ TypeOK' /\ Apart' /\ Deploying'
         /\ \A t \in Tenants : RowsKept(t)
         /\ \A e \in Events, t \in Tenants : Exists(e, t)' <=> Exists(e, t)
<1> USE Values
<1>1. \A e \in Events, t \in Tenants : <<e, t>> \in Keys
  BY DEF Keys
<1>2. \A e \in Events, t \in Tenants : Exists(e, t)' <=> Exists(e, t)
  BY <1>1 DEF RowMoves, Exists
<1>3. TypeOK'
  <2>1. row' \in [Keys -> [type : Types \cup {Absent}, config : Nat, cursor : Tenants \cup {Absent},
                    status : {"none", "ACTIVE", "PAUSED", "EXHAUSTED"},
                    credentials : Tenants \cup {Absent}]]
    BY DEF RowMoves, Rows, Statuses
  <2>2. \A k \in Keys : row[k].status = "none" <=> row[k].type = Absent
    BY Types1 DEF IInv, Shape
  <2>3. \A k \in Keys : (row'[k].status = "none") = (row'[k].type = Absent)
    BY <2>2 DEF RowMoves
  <2> QED BY <2>1, <2>3 DEF RowMoves, IInv, Shape, TypeOK
<1>4. Apart'
  BY DEF RowMoves, Apart
<1>5. Deploying'
  <2>1. Claimed(graph)' = Claimed(graph) /\ (ClaimedTwice' <=> ClaimedTwice) /\ deploy' = deploy
    BY DEF RowMoves, Claimed, ClaimedTwice
  <2>2. RowsOf(Owner)' = RowsOf(Owner)
    BY <1>2 DEF RowsOf
  <2>3. Claimed(graph) \subseteq Events
    BY Types1 DEF IInv, Shape, Claimed
  <2>4. \A e \in Claimed(graph) : Right(e) => Right(e)'
    <3>1. \A e \in Claimed(graph) : <<e, Owner>> \in Keys
      BY <2>3 DEF Keys
    <3> QED BY <3>1 DEF RowMoves, Right, Exists
  <2> QED BY <2>1, <2>2, <2>4 DEF IInv, Deploying
<1>6. \A t \in Tenants : RowsKept(t)
  <2>1. \A e \in Events, t \in Tenants :
          /\ row'[<<e, t>>].type = row[<<e, t>>].type
          /\ row'[<<e, t>>].status = "PAUSED" =>
               <<e, t>> \in held' \/ (row[<<e, t>>].status = "PAUSED" /\ <<e, t>> \notin held)
    BY <1>1 DEF RowMoves
  <2> QED BY <1>2, <2>1 DEF RowsKept
<1> QED BY <1>2, <1>3, <1>4, <1>5, <1>6

LEMMA RowMovesStep ==
  ASSUME IInv, RowMoves, call' = call
  PROVE  IInv'
<1>1. TypeOK' /\ Apart' /\ Deploying' /\ \A t \in Tenants : RowsKept(t)
  BY RowMovesFacts
<1>2. Shape'
  BY <1>1 DEF IInv, Shape, RowMoves
<1>3. \A c \in Callers : Calling(call[c])'
  BY <1>1, CallingKept
<1> QED BY <1>1, <1>2, <1>3 DEF IInv

LEMMA RowsAreTyped ==
  ASSUME IInv
  PROVE  /\ row \in [Keys -> Rows]
         /\ \A k \in Keys : /\ row[k] \in Rows
                            /\ row[k].status = "none" <=> row[k].type = Absent
                            /\ {row[k].credentials, row[k].cursor} \subseteq {k[2], Absent}
         /\ \A e \in Events, t \in Tenants : <<e, t>> \in Keys /\ <<e, t>>[2] = t
         /\ \A k \in Keys : k[2] \in Tenants
<1>1. row \in [Keys -> Rows] /\ \A k \in Keys : row[k].status = "none" <=> row[k].type = Absent
  BY Types1 DEF IInv, Shape
<1> QED BY <1>1 DEF IInv, Apart, Keys

LEMMA DeactivateMoves ==
  ASSUME IInv, NEW t \in Tenants, Deactivate(t)
  PROVE  RowMoves /\ call' = call
<1> DEFINE active == { e \in Events : row[<<e, t>>].status = "ACTIVE" } \X {t}
<1>1. /\ row' = [k \in Keys |-> IF k \in active THEN [row[k] EXCEPT !.status = "PAUSED"] ELSE row[k]]
      /\ held' = held \cup active /\ UNCHANGED <<graph, version, deploy, call>>
  BY DEF Deactivate
<1>2. \A k \in active : k \in Keys /\ row[k].status = "ACTIVE"
  BY DEF Keys
<1> HIDE DEF active
<1> DEFINE paused(k) == [row[k] EXCEPT !.status = "PAUSED"]
<1>3. \A k \in Keys : row'[k] = IF k \in active THEN paused(k) ELSE row[k]
  BY <1>1
<1>4. row' = [k \in Keys |-> row'[k]]
  BY <1>1
<1>5. \A k \in Keys : /\ paused(k) \in Rows /\ paused(k).type = row[k].type
                      /\ paused(k).config = row[k].config /\ paused(k).status = "PAUSED"
                      /\ paused(k).credentials = row[k].credentials /\ paused(k).cursor = row[k].cursor
  BY RowsAreTyped DEF Rows, Statuses
<1> HIDE DEF paused
<1> QED BY <1>1, <1>2, <1>3, <1>4, <1>5, RowsAreTyped DEF RowMoves

(* One row is written.                                                     *)
LEMMA OneRowMoves ==
  ASSUME IInv, NEW k \in Keys, NEW new \in Rows, row' = [row EXCEPT ![k] = new],
         row[k].status # "none", new.status # "none",
         new.type = row[k].type, new.config = row[k].config,
         {new.credentials, new.cursor} \subseteq {k[2], Absent},
         new.status = "PAUSED" => k \in held' \/ (row[k].status = "PAUSED" /\ k \notin held),
         \A j \in Keys \ {k} : row[j].status = "PAUSED" => (j \in held => j \in held'),
         UNCHANGED <<graph, version, deploy>>
  PROVE  RowMoves
<1>1. \A j \in Keys : row'[j] = IF j = k THEN new ELSE row[j]
  BY RowsAreTyped
<1>2. row' \in [Keys -> Rows]
  BY RowsAreTyped
<1> QED BY <1>1, <1>2, RowsAreTyped DEF RowMoves

LEMMA StatusMoves ==
  ASSUME IInv, NEW e \in Events, NEW t \in Tenants, Pause(e, t) \/ Resume(e, t)
  PROVE  RowMoves /\ call' = call
<1> DEFINE k == <<e, t>>
           status == IF Pause(e, t) THEN "PAUSED" ELSE "ACTIVE"
           new == [row[k] EXCEPT !.status = status]
<1>1. k \in Keys /\ k[2] = t /\ row[k] \in Rows /\ {row[k].credentials, row[k].cursor} \subseteq {t, Absent}
  BY RowsAreTyped
<1>2. /\ new \in Rows /\ new.status = status /\ new.type = row[k].type /\ new.config = row[k].config
      /\ new.credentials = row[k].credentials /\ new.cursor = row[k].cursor
  BY <1>1 DEF Rows, Statuses
<1> HIDE DEF k
<1>3. CASE Pause(e, t)
  <2>1. /\ row[k].status = "ACTIVE" /\ row' = [row EXCEPT ![k] = new] /\ held' = held \cup {k}
        /\ UNCHANGED <<graph, version, deploy, call>> /\ status = "PAUSED"
    BY <1>3 DEF Pause, k
  <2> HIDE DEF new, status
  <2> QED BY <1>1, <1>2, <2>1, OneRowMoves
<1>4. CASE ~Pause(e, t) /\ Resume(e, t)
  <2>1. /\ row[k].status = "PAUSED" /\ row' = [row EXCEPT ![k] = new] /\ StillHeld
        /\ UNCHANGED <<graph, version, deploy, call>> /\ status = "ACTIVE"
    BY <1>4 DEF Resume, k
  <2> HIDE DEF new, status
  <2>2. \A j \in Keys \ {k} : row'[j] = row[j]
    BY <2>1, RowsAreTyped
  <2>3. \A j \in Keys \ {k} : row[j].status = "PAUSED" => (j \in held => j \in held')
    BY <2>1, <2>2 DEF StillHeld
  <2>4. /\ new.status = "ACTIVE" /\ {new.credentials, new.cursor} \subseteq {k[2], Absent}
        /\ row[k].status # "none" /\ new \in Rows /\ k \in Keys
    BY <1>1, <1>2, <2>1
  <2>5. RowMoves
    BY <1>2, <2>1, <2>3, <2>4, OneRowMoves
  <2> QED BY <2>1, <2>5
<1> QED BY <1>3, <1>4

LEMMA CredentialsMoves ==
  ASSUME IInv, NEW e \in Events, NEW t \in Tenants, SetConnectorCredentials(e, t)
  PROVE  RowMoves /\ call' = call
<1> DEFINE k == <<e, t>>
           new == [row[k] EXCEPT !.credentials = t]
<1>1. k \in Keys /\ k[2] = t /\ row[k] \in Rows /\ {row[k].credentials, row[k].cursor} \subseteq {t, Absent}
  BY RowsAreTyped
<1>2. /\ new \in Rows /\ new.status = row[k].status /\ new.type = row[k].type
      /\ new.config = row[k].config /\ new.credentials = t /\ new.cursor = row[k].cursor
  BY <1>1 DEF Rows, Statuses
<1>3. /\ row[k].status # "none" /\ row' = [row EXCEPT ![k] = new]
      /\ UNCHANGED <<graph, version, deploy, call, held>>
  BY DEF SetConnectorCredentials, Exists
<1> HIDE DEF k, new
<1> QED BY <1>1, <1>2, <1>3, OneRowMoves

LEMMA FireMoves ==
  ASSUME IInv, NEW e \in Events, NEW t \in Tenants, Fire(e, t)
  PROVE  RowMoves /\ call' = call
<1>1. PICK status \in {"ACTIVE", "EXHAUSTED"} :
        row' = [row EXCEPT ![<<e, t>>].cursor = t, ![<<e, t>>].status = status]
  BY DEF Fire
<1> DEFINE k == <<e, t>>
           new == [[row[k] EXCEPT !.cursor = t] EXCEPT !.status = status]
<1>2. k \in Keys /\ k[2] = t /\ row[k] \in Rows /\ {row[k].credentials, row[k].cursor} \subseteq {t, Absent}
  BY RowsAreTyped
<1>3. /\ new \in Rows /\ new.status = status /\ new.type = row[k].type
      /\ new.config = row[k].config /\ new.cursor = t /\ new.credentials = row[k].credentials
  BY <1>2 DEF Rows, Statuses
<1>4. row' = [row EXCEPT ![k] = new]
  BY <1>1, <1>2, RowsAreTyped
<1>5. row[k].status = "ACTIVE" /\ UNCHANGED <<graph, version, deploy, call, held>>
  BY DEF Fire
<1> HIDE DEF k, new
<1> QED BY <1>2, <1>3, <1>4, <1>5, OneRowMoves

------------------------------------------------------------------------------
(* activateSchedules.                                                      *)

CallRecords ==
  [at : {"idle", "reading", "cloning", "timers"}, tenant : Tenants \cup {Absent},
   have : SUBSET Events, sources : Sources, left : SUBSET Events]

(* A call goes on, and nothing else changes.                               *)
LEMMA CallGoesOn ==
  ASSUME IInv, NEW c \in Callers, NEW new \in CallRecords, call' = [call EXCEPT ![c] = new],
         Calling(new), UNCHANGED <<graph, version, row, deploy, held>>
  PROVE  IInv'
<1>1. call' \in [Callers -> CallRecords]
  BY DEF IInv, Shape, CallRecords
<1>2. Shape' /\ Apart' /\ Deploying'
  BY <1>1 DEF IInv, Shape, TypeOK, Apart, Deploying, Claimed, ClaimedTwice, RowsOf, Exists, Right, CallRecords
<1>3. \A d \in Callers : call'[d] = IF d = c THEN new ELSE call[d]
  BY DEF IInv, Shape
<1>4. \A d \in Callers : Calling(call'[d])
  BY <1>3 DEF IInv
<1>5. \A d \in Callers : Calling(call[d])'
  BY <1>4 DEF Calling, RowsOf, Exists
<1> QED BY <1>2, <1>5 DEF IInv

LEMMA NoCallIsFine == NoCall \in CallRecords /\ Calling(NoCall)
BY IsSource DEF NoCall, CallRecords, Calling

LEMMA CallsAreTyped ==
  ASSUME IInv, NEW c \in Callers
  PROVE  /\ call[c] \in CallRecords /\ Calling(call[c])
         /\ DOMAIN call[c].sources \subseteq Events
         /\ \A e \in DOMAIN call[c].sources : call[c].sources[e] \in Documents
         /\ call[c].left \subseteq Events
         /\ call[c].at # "idle" => call[c].tenant \in Tenants
<1>1. call[c] \in CallRecords /\ Calling(call[c])
  BY DEF IInv, Shape, CallRecords
<1> QED BY <1>1, IsSource DEF CallRecords, Calling

LEMMA BeginStep ==
  ASSUME IInv, NEW c \in Callers, NEW t \in Tenants, ReadExisting(c, t) \/ ActivateByRoute(c, t)
  PROVE  IInv'
<1>1. PICK at \in {"reading", "cloning"}, have \in {RowsOf(t), {}} :
        /\ Begin(c, t, at, have)
        /\ at = "reading" => have = RowsOf(t)
  BY DEF ReadExisting, ActivateByRoute
<1> DEFINE new == [at |-> at, tenant |-> t, have |-> have, sources |-> Nothing, left |-> {}]
<1>2. call' = [call EXCEPT ![c] = new] /\ UNCHANGED <<graph, version, row, deploy, held>>
  BY <1>1 DEF Begin, NoCall
<1>3. new \in CallRecords /\ Calling(new)
  BY <1>1, IsSource DEF CallRecords, Calling, RowsOf
<1> QED BY <1>2, <1>3, CallGoesOn

LEMMA ReadSourcesStep ==
  ASSUME IInv, NEW c \in Callers, ReadSources(c)
  PROVE  IInv'
<1> DEFINE t == call[c].tenant
           sources == IF t = Owner THEN {} ELSE RowsOf(Owner)
           read == [e \in sources |-> row[<<e, Owner>>]]
           new == [call[c] EXCEPT !.at = "cloning", !.sources = read,
                                  !.left = sources \ call[c].have, !.have = {}]
<1>1. call[c] \in CallRecords /\ Calling(call[c]) /\ call[c].at = "reading" /\ t \in Tenants
  BY CallsAreTyped DEF ReadSources
<1>2. call' = [call EXCEPT ![c] = new] /\ UNCHANGED <<graph, version, row, deploy, held>>
  BY <1>1 DEF ReadSources, CallRecords, IInv, Shape
<1>3. sources \in SUBSET Events
  BY DEF RowsOf
<1>4. read \in Sources /\ DOMAIN read = sources
  <2>1. \A e \in sources : row[<<e, Owner>>] \in Documents
    <3>1. \A e \in sources : <<e, Owner>> \in Keys /\ row[<<e, Owner>>].status # "none"
      BY <1>3, RowsAreTyped, Values DEF RowsOf, Exists
    <3> QED BY <3>1, RowsAreTyped DEF Documents
  <2>2. read \in [sources -> Documents] /\ DOMAIN read = sources
    BY <2>1
  <2> HIDE DEF read, sources
  <2> QED BY <1>3, <2>2, IsSource
<1>5. /\ new \in CallRecords /\ new.at = "cloning" /\ new.tenant = t
      /\ new.left = sources \ call[c].have /\ new.sources = read
  BY <1>1, <1>3, <1>4 DEF CallRecords
<1> HIDE DEF new, read
<1>6. Calling(new)
  <2>1. t # Owner => call[c].have \subseteq RowsOf(t)
    BY <1>1 DEF Calling
  <2>2. \A e \in sources \ new.left : Exists(e, t)
    BY <1>5, <2>1 DEF RowsOf
  <2> QED BY <1>1, <1>3, <1>4, <1>5, <2>2 DEF Calling
<1> QED BY <1>2, <1>5, <1>6, CallGoesOn

LEMMA CloneFailsStep ==
  ASSUME IInv, NEW c \in Callers, NEW e \in Events, CloneFails(c, e)
  PROVE  IInv'
<1> DEFINE old == call[c].sources
           rest == DOMAIN old \ {e}
           read == [d \in rest |-> old[d]]
           new == [call[c] EXCEPT !.left = @ \ {e}, !.sources = read]
<1>1. call[c] \in CallRecords /\ Calling(call[c]) /\ call[c].at = "cloning"
  BY CallsAreTyped DEF CloneFails
<1>2. call' = [call EXCEPT ![c] = new] /\ UNCHANGED <<graph, version, row, deploy, held>>
  BY <1>1 DEF CloneFails, Restrict, CallRecords, IInv, Shape
<1>3. read \in Sources /\ DOMAIN read = rest
  <2>1. rest \in SUBSET Events /\ \A d \in rest : old[d] \in Documents
    BY CallsAreTyped
  <2>2. read \in [rest -> Documents] /\ DOMAIN read = rest
    BY <2>1
  <2> HIDE DEF read, rest
  <2> QED BY <2>1, <2>2, IsSource
<1>4. /\ new \in CallRecords /\ new.at = "cloning" /\ new.tenant = call[c].tenant
      /\ new.left = call[c].left \ {e} /\ new.sources = read
  BY <1>1, <1>3 DEF CallRecords
<1> HIDE DEF new, read
<1>5. Calling(new)
  BY <1>1, <1>3, <1>4 DEF Calling
<1> QED BY <1>2, <1>4, <1>5, CallGoesOn

LEMMA ActivateFailsStep ==
  ASSUME IInv, NEW c \in Callers, ActivateFails(c)
  PROVE  IInv'
BY NoCallIsFine, CallGoesOn DEF ActivateFails

(* A call goes on and its update of rows is made.                          *)
LEMMA CallUpdatesStep ==
  ASSUME IInv, RowMoves, NEW c \in Callers, call' \in [Callers -> CallRecords],
         \A d \in Callers \ {c} : call'[d] = call[d], Calling(call[c])'
  PROVE  IInv'
<1>1. TypeOK' /\ Apart' /\ Deploying' /\ \A t \in Tenants : RowsKept(t)
  BY RowMovesFacts
<1>2. Shape'
  BY <1>1 DEF IInv, Shape, RowMoves, CallRecords
<1>3. \A d \in Callers \ {c} : Calling(call[d])'
  BY <1>1, CallingKept
<1> QED BY <1>1, <1>2, <1>3 DEF IInv

LEMMA ActivateConnectorsMoves ==
  ASSUME IInv, NEW c \in Callers, ActivateConnectors(c)
  PROVE  /\ RowMoves /\ call[c].tenant \in Tenants
         /\ \A k \in Keys : row'[k] # row[k] => k[2] = call[c].tenant
         /\ \A e \in Events : row'[<<e, call[c].tenant>>].type = "connector" =>
                              row'[<<e, call[c].tenant>>].status = "ACTIVE"
<1> USE Values
<1> DEFINE t == call[c].tenant
           touched == { e \in Events : row[<<e, t>>].type = "connector" } \X {t}
<1>1. t \in Tenants
  BY CallsAreTyped DEF ActivateConnectors
<1>2. PICK bring \in BOOLEAN :
        row' = [k \in Keys |->
                  IF k \notin touched THEN row[k]
                  ELSE [row[k] EXCEPT !.status = "ACTIVE", !.credentials = IF bring THEN t ELSE @]]
  BY TenantsAssumption DEF ActivateConnectors
<1>3. UNCHANGED <<graph, version, deploy>> /\ StillHeld
  BY DEF ActivateConnectors
<1> DEFINE creds(k) == IF bring THEN t ELSE row[k].credentials
           new(k) == [row[k] EXCEPT !.status = "ACTIVE", !.credentials = creds(k)]
<1>4. \A k \in touched : k \in Keys /\ k[2] = t /\ row[k].type = "connector" /\ row[k].status # "none"
  BY <1>1, RowsAreTyped DEF Keys, Types
<1>5. \A e \in Events : <<e, t>> \in Keys /\ (row[<<e, t>>].type = "connector" => <<e, t>> \in touched)
  BY <1>1 DEF Keys
<1> HIDE DEF touched
<1>6. \A k \in Keys : row'[k] = IF k \in touched THEN new(k) ELSE row[k]
  BY <1>2, RowsAreTyped
<1>7. \A k \in touched : creds(k) \in Tenants \cup {Absent} /\ {creds(k), row[k].cursor} \subseteq {k[2], Absent}
  BY <1>1, <1>4, RowsAreTyped DEF Rows
<1> HIDE DEF creds
<1>8. \A k \in touched : /\ new(k) \in Rows /\ new(k).type = row[k].type /\ new(k).config = row[k].config
                         /\ new(k).status = "ACTIVE" /\ new(k).cursor = row[k].cursor
                         /\ new(k).credentials = creds(k)
  <2> SUFFICES ASSUME NEW k \in touched
               PROVE  /\ new(k) \in Rows /\ new(k).type = row[k].type /\ new(k).config = row[k].config
                      /\ new(k).status = "ACTIVE" /\ new(k).cursor = row[k].cursor
                      /\ new(k).credentials = creds(k)
    OBVIOUS
  <2>1. row[k] \in Rows /\ creds(k) \in Tenants \cup {Absent}
    BY <1>4, <1>7, RowsAreTyped
  <2> DEFINE theirs == creds(k)
  <2>2. new(k) = [row[k] EXCEPT !.status = "ACTIVE", !.credentials = theirs]
    OBVIOUS
  <2> HIDE DEF theirs
  <2> QED BY <2>1, <2>2 DEF Rows, Statuses, theirs
<1> HIDE DEF new
<1>9. row' \in [Keys -> Rows]
  <2>1. row' = [k \in Keys |-> row'[k]]
    BY <1>2
  <2> QED BY <2>1, <1>6, <1>8, RowsAreTyped
<1>10. RowMoves
  BY <1>3, <1>4, <1>6, <1>7, <1>8, <1>9, RowsAreTyped DEF RowMoves, StillHeld
<1>11. \A e \in Events : row'[<<e, t>>].type = "connector" => row'[<<e, t>>].status = "ACTIVE"
  BY <1>5, <1>6, <1>8, <1>10 DEF RowMoves
<1> QED BY <1>1, <1>4, <1>6, <1>10, <1>11

LEMMA ActivateConnectorsStep ==
  ASSUME IInv, NEW c \in Callers, ActivateConnectors(c)
  PROVE  IInv'
<1> DEFINE t == call[c].tenant
           new == [call[c] EXCEPT !.at = "timers"]
<1>1. call[c] \in CallRecords /\ Calling(call[c]) /\ call[c].at = "cloning" /\ call[c].left = {}
  BY CallsAreTyped DEF ActivateConnectors
<1>2. call' = [call EXCEPT ![c] = new]
  BY DEF ActivateConnectors
<1>3. /\ new \in CallRecords /\ new.at = "timers" /\ new.tenant = t /\ new.left = {}
      /\ new.sources = call[c].sources
  BY <1>1 DEF CallRecords
<1> HIDE DEF new
<1>4. call' \in [Callers -> CallRecords] /\ call'[c] = new /\ \A d \in Callers \ {c} : call'[d] = call[d]
  BY <1>2, <1>3 DEF IInv, Shape, CallRecords
<1>5. RowMoves /\ t \in Tenants
  BY ActivateConnectorsMoves
<1>6. \A e \in DOMAIN call[c].sources :
        /\ row'[<<e, t>>].status # "none"
        /\ row'[<<e, t>>].type = "connector" => row'[<<e, t>>].status = "ACTIVE"
  <2>1. \A e \in DOMAIN call[c].sources : e \in Events /\ row[<<e, t>>].status # "none"
    BY <1>1, CallsAreTyped DEF Calling, Exists
  <2>2. \A e \in Events : row'[<<e, t>>].status = "none" <=> row[<<e, t>>].status = "none"
    BY <1>5, RowsAreTyped DEF RowMoves
  <2>3. \A e \in Events : row'[<<e, t>>].type = "connector" => row'[<<e, t>>].status = "ACTIVE"
    BY ActivateConnectorsMoves
  <2> QED BY <2>1, <2>2, <2>3
<1>7. Calling(call[c])'
  BY <1>1, <1>3, <1>4, <1>5, <1>6 DEF Calling, Exists
<1> QED BY <1>4, <1>5, <1>7, CallUpdatesStep

LEMMA ActivateTimersMoves ==
  ASSUME IInv, NEW c \in Callers, ActivateTimers(c)
  PROVE  /\ RowMoves /\ call[c].tenant \in Tenants
         /\ \A k \in Keys : row'[k] # row[k] => k[2] = call[c].tenant
         /\ \A e \in Events : row'[<<e, call[c].tenant>>].type = "timer" =>
                              row'[<<e, call[c].tenant>>].status # "PAUSED"
<1> USE Values
<1> DEFINE t == call[c].tenant
           touched == { e \in Events : row[<<e, t>>].type = "timer" /\ row[<<e, t>>].status # "EXHAUSTED" } \X {t}
           new(k) == [row[k] EXCEPT !.status = "ACTIVE"]
<1>1. t \in Tenants
  BY CallsAreTyped DEF ActivateTimers
<1>2. row' = [k \in Keys |-> IF k \in touched THEN new(k) ELSE row[k]]
  BY DEF ActivateTimers
<1>3. UNCHANGED <<graph, version, deploy>> /\ StillHeld
  BY DEF ActivateTimers
<1>4. \A k \in touched : k \in Keys /\ k[2] = t /\ row[k].status # "none"
  BY <1>1, RowsAreTyped DEF Keys, Types
<1>5. \A e \in Events : /\ <<e, t>> \in Keys
                       /\ row[<<e, t>>].type = "timer" /\ row[<<e, t>>].status # "EXHAUSTED" => <<e, t>> \in touched
  BY <1>1 DEF Keys
<1> HIDE DEF touched
<1>6. \A k \in Keys : row'[k] = IF k \in touched THEN new(k) ELSE row[k]
  BY <1>2, RowsAreTyped
<1>7. \A k \in touched : /\ new(k) \in Rows /\ new(k).type = row[k].type /\ new(k).config = row[k].config
                         /\ new(k).status = "ACTIVE" /\ new(k).cursor = row[k].cursor
                         /\ new(k).credentials = row[k].credentials
  BY <1>4, RowsAreTyped DEF Rows, Statuses
<1> HIDE DEF new
<1>8. row' \in [Keys -> Rows]
  BY <1>2, <1>7, RowsAreTyped
<1>9. RowMoves
  BY <1>3, <1>4, <1>6, <1>7, <1>8, RowsAreTyped DEF RowMoves, StillHeld
<1>10. \A e \in Events : row'[<<e, t>>].type = "timer" => row'[<<e, t>>].status # "PAUSED"
  <2> SUFFICES ASSUME NEW e \in Events, row'[<<e, t>>].type = "timer" PROVE row'[<<e, t>>].status # "PAUSED"
    OBVIOUS
  <2>1. <<e, t>> \in Keys /\ row[<<e, t>>].type = "timer"
    <3>1. <<e, t>> \in Keys
      BY <1>1, RowsAreTyped
    <3>2. \A k \in Keys : row'[k].type = row[k].type
      BY <1>9 DEF RowMoves
    <3> HIDE DEF t
    <3> QED BY <3>1, <3>2
  <2>2. CASE <<e, t>> \in touched
    BY <2>1, <2>2, <1>6, <1>7
  <2>3. CASE <<e, t>> \notin touched
    BY <2>1, <2>3, <1>5, <1>6
  <2> QED BY <2>2, <2>3
<1> QED BY <1>1, <1>4, <1>6, <1>9, <1>10

LEMMA ActivateTimersStep ==
  ASSUME IInv, NEW c \in Callers, ActivateTimers(c)
  PROVE  IInv'
<1>1. /\ call' \in [Callers -> CallRecords] /\ call'[c] = NoCall
      /\ \A d \in Callers \ {c} : call'[d] = call[d]
  BY NoCallIsFine DEF ActivateTimers, IInv, Shape, CallRecords
<1>2. Calling(call[c])'
  BY <1>1, IsSource DEF NoCall, Calling
<1> QED BY <1>1, <1>2, ActivateTimersMoves, CallUpdatesStep


(* What CloneRow inserts, if it does: a document of a tenant that is not   *)
(* the owner, where there was none.                                        *)
LEMMA CloneRowFacts ==
  ASSUME IInv, NEW c \in Callers, NEW e \in Events, CloneRow(c, e)
  PROVE  /\ call[c].tenant \in Tenants \ {Owner} /\ call[c].at = "cloning" /\ e \in call[c].left
         /\ Exists(e, call[c].tenant) => row' = row
         /\ ~Exists(e, call[c].tenant) =>
              \E new \in Documents :
                /\ row' = [row EXCEPT ![<<e, call[c].tenant>>] = new]
                /\ new.status = "PAUSED" /\ new.credentials = Absent /\ new.cursor = Absent
<1>1. Calling(call[c]) /\ call[c].at = "cloning" /\ e \in call[c].left
  BY CallsAreTyped DEF CloneRow
<1>2. e \in DOMAIN call[c].sources /\ call[c].tenant \in Tenants \ {Owner}
  BY <1>1, CallsAreTyped DEF Calling
<1> DEFINE src == call[c].sources[e]
           new == [src EXCEPT !.cursor = Absent, !.credentials = Absent, !.status = "PAUSED"]
<1>3. src \in Documents
  BY <1>2, CallsAreTyped
<1>4. row' = IF Exists(e, call[c].tenant) THEN row ELSE [row EXCEPT ![<<e, call[c].tenant>>] = new]
  BY DEF CloneRow, Cloned
<1> HIDE DEF src
<1>5. new \in Documents /\ new.status = "PAUSED" /\ new.credentials = Absent /\ new.cursor = Absent
  BY <1>3 DEF Documents, Rows, Statuses
<1> HIDE DEF new
<1> QED BY <1>1, <1>2, <1>4, <1>5

(* The rows of the owner are left alone.                                   *)
LEMMA DeployingKept ==
  ASSUME IInv, \A d \in Events : row'[<<d, Owner>>] = row[<<d, Owner>>], UNCHANGED <<graph, version, deploy>>
  PROVE  Deploying'
<1>1. Claimed(graph) \subseteq Events
  BY Types1 DEF IInv, Shape, Claimed
<1>2. \A d \in Claimed(graph) : Right(d)' <=> Right(d)
  BY <1>1 DEF Right, Exists
<1>3. RowsOf(Owner)' = RowsOf(Owner)
  BY DEF RowsOf, Exists
<1> QED BY <1>2, <1>3 DEF IInv, Deploying, Claimed, ClaimedTwice

LEMMA CloneRowStep ==
  ASSUME IInv, NEW c \in Callers, NEW e \in Events, CloneRow(c, e)
  PROVE  IInv'
<1> USE Values
<1> DEFINE t == call[c].tenant
           next == [call[c] EXCEPT !.left = @ \ {e}]
<1>1. /\ t \in Tenants \ {Owner} /\ call[c].at = "cloning" /\ e \in call[c].left
      /\ call[c] \in CallRecords /\ Calling(call[c])
  BY CloneRowFacts, CallsAreTyped
<1>2. call' = [call EXCEPT ![c] = next] /\ UNCHANGED <<graph, version, deploy, held>>
  BY DEF CloneRow
<1>3. /\ next \in CallRecords /\ next.at = "cloning" /\ next.tenant = t
      /\ next.left = call[c].left \ {e} /\ next.sources = call[c].sources
  BY <1>1 DEF CallRecords
<1> HIDE DEF next
<1>4. /\ call' \in [Callers -> CallRecords] /\ call'[c] = next
      /\ \A d \in Callers \ {c} : call'[d] = call[d]
  BY <1>2, <1>3 DEF IInv, Shape, CallRecords
<1>5. /\ row' \in [Keys -> Rows]
      /\ \A k \in Keys : /\ row'[k].status = "none" <=> row'[k].type = Absent
                         /\ {row'[k].credentials, row'[k].cursor} \subseteq {k[2], Absent}
                         /\ row'[k] # row[k] => k = <<e, t>> /\ row[k].status = "none" /\ row'[k].status # "none"
                         /\ k = <<e, t>> => row'[k].status # "none"
  <2>1. CASE Exists(e, t)
    BY <2>1, CloneRowFacts, RowsAreTyped DEF Exists
  <2>2. CASE ~Exists(e, t)
    <3>1. PICK new \in Documents :
            /\ row' = [row EXCEPT ![<<e, t>>] = new]
            /\ new.status = "PAUSED" /\ new.credentials = Absent /\ new.cursor = Absent
      BY <2>2, CloneRowFacts
    <3>2. new \in Rows /\ new.type # Absent
      BY DEF Documents
    <3>3. \A k \in Keys : row'[k] = IF k = <<e, t>> THEN new ELSE row[k]
      BY <3>1, RowsAreTyped
    <3>4. row' \in [Keys -> Rows]
      BY <3>1, <3>2, RowsAreTyped
    <3> HIDE DEF t
    <3> QED BY <2>2, <3>1, <3>2, <3>3, <3>4, RowsAreTyped DEF Exists
  <2> QED BY <2>1, <2>2
<1>6. Shape'
  <2>1. row' \in [Keys -> [type : Types \cup {Absent}, config : Nat, cursor : Tenants \cup {Absent},
                    status : {"none", "ACTIVE", "PAUSED", "EXHAUSTED"},
                    credentials : Tenants \cup {Absent}]]
    BY <1>5 DEF Rows, Statuses
  <2>2. \A k \in Keys : (row'[k].status = "none") = (row'[k].type = Absent)
    BY <1>5
  <2> QED BY <1>2, <1>4, <2>1, <2>2 DEF IInv, Shape, TypeOK, CallRecords
<1>7. Apart'
  BY <1>5 DEF Apart
<1>8. \A d \in Events : row'[<<d, Owner>>] = row[<<d, Owner>>]
  BY <1>1, <1>5, RowsAreTyped
<1>9. Deploying'
  BY <1>2, <1>8, DeployingKept
<1>10. \A u \in Tenants, d \in Events :
         /\ row[<<d, u>>].status # "none" => row'[<<d, u>>] = row[<<d, u>>]
         /\ <<d, u>> = <<e, t>> => row'[<<d, u>>].status # "none"
  BY <1>5, RowsAreTyped
<1>11. \A d \in Callers \ {c} : Calling(call[d])'
  <2>1. \A u \in Tenants : RowsKept(u)
    BY <1>2, <1>10 DEF RowsKept, Exists
  <2> QED BY <1>4, <2>1, CallingKept
<1>12. Calling(call[c])'
  <2>1. \A d \in DOMAIN call[c].sources \ next.left : row'[<<d, t>>].status # "none"
    <3>1. \A d \in DOMAIN call[c].sources \ call[c].left : d \in Events /\ row[<<d, t>>].status # "none"
      BY <1>1, CallsAreTyped DEF Calling, Exists
    <3> QED BY <1>1, <1>3, <1>10, <3>1
  <2> QED BY <1>1, <1>3, <1>4, <2>1 DEF Calling, Exists
<1> QED BY <1>6, <1>7, <1>9, <1>11, <1>12 DEF IInv

------------------------------------------------------------------------------
(* deployDefinition.                                                       *)

(* Deployments do not concern calls of tenants that are not the owner.     *)
LEMMA CallsKept ==
  ASSUME IInv, call' = call,
         \A k \in Keys : k[2] # Owner =>
           row'[k] = row[k] /\ (k \in held /\ row[k].status = "PAUSED" => k \in held')
  PROVE  \A c \in Callers : Calling(call[c])'
<1>1. \A t \in Tenants \ {Owner} : RowsKept(t)
  <2>1. \A t \in Tenants \ {Owner}, e \in Events : <<e, t>> \in Keys /\ <<e, t>>[2] # Owner
    BY RowsAreTyped
  <2>2. \A t \in Tenants \ {Owner}, e \in Events :
          /\ row'[<<e, t>>] = row[<<e, t>>]
          /\ <<e, t>> \in held /\ row[<<e, t>>].status = "PAUSED" => <<e, t>> \in held'
    BY <2>1
  <2> QED BY <2>2 DEF RowsKept, Exists
<1> QED BY <1>1, CallingKept

(* The graph and the place of the deployment change, and no row.           *)
LEMMA NoRowStep ==
  ASSUME IInv, UNCHANGED <<row, call, held>>,
         version' \in Nat, DOMAIN graph' \subseteq Events, \A e \in DOMAIN graph' : graph'[e] \subseteq Types,
         deploy' \in [at : {"done", "failed", "replaced", "upserting"}, left : SUBSET Events],
         Deploying'
  PROVE  IInv'
<1>1. TypeOK'
  <2>1. deploy'.at \in {"done", "failed", "replaced", "upserting"} /\ deploy'.left \subseteq Events
    OBVIOUS
  <2> QED BY <2>1 DEF IInv, Shape, TypeOK
<1>2. Shape' /\ Apart'
  BY <1>1 DEF IInv, Shape, Apart
<1>3. \A c \in Callers : Calling(call[c])'
  BY CallsKept
<1> QED BY <1>2, <1>3 DEF IInv

LEMMA ReplaceDefinitionStep ==
  ASSUME IInv, NEW g \in Graphs, ReplaceDefinition(g)
  PROVE  IInv'
<1>1. /\ graph' = g /\ version' = version + 1 /\ deploy' = [at |-> "replaced", left |-> Claimed(g)]
      /\ UNCHANGED <<row, call, held>>
  BY DEF ReplaceDefinition
<1>2. Claimed(g) \in SUBSET Events /\ Claimed(graph)' = Claimed(g)
  BY <1>1, Values DEF Claimed
<1>3. Deploying'
  BY <1>1, <1>2 DEF Deploying
<1>4. version' \in Nat
  BY <1>1, Types1 DEF IInv, Shape
<1>5. deploy' \in [at : {"done", "failed", "replaced", "upserting"}, left : SUBSET Events]
  BY <1>1, <1>2
<1> QED BY <1>1, <1>3, <1>4, <1>5, Values, NoRowStep

LEMMA DeploymentEndsStep ==
  ASSUME IInv, NEW e \in Events, ClaimsRefused \/ DeployFails \/ UpsertCollides(e)
  PROVE  IInv'
<1>1. deploy' = [at |-> "failed", left |-> {}] /\ UNCHANGED <<graph, version, row, call, held>>
  BY DEF ClaimsRefused, DeployFails, UpsertCollides
<1>2. Deploying'
  BY <1>1 DEF Deploying
<1>3. /\ version' \in Nat /\ DOMAIN graph' \subseteq Events
      /\ \A d \in DOMAIN graph' : graph'[d] \subseteq Types
  BY <1>1, Types1 DEF IInv, Shape
<1> QED BY <1>1, <1>2, <1>3, NoRowStep

(* Rows of the owner are written, and only these.                          *)
LEMMA OwnersStep ==
  ASSUME IInv, StillHeld, UNCHANGED <<graph, version, call>>, row' \in [Keys -> Rows],
         \A k \in Keys : /\ k[2] # Owner => row'[k] = row[k]
                         /\ row'[k].status = "none" <=> row'[k].type = Absent
                         /\ {row'[k].credentials, row'[k].cursor} \subseteq {k[2], Absent},
         deploy' \in [at : {"done", "failed", "replaced", "upserting"}, left : SUBSET Events],
         Deploying'
  PROVE  IInv'
<1>1. TypeOK'
  <2>1. deploy'.at \in {"done", "failed", "replaced", "upserting"} /\ deploy'.left \subseteq Events
    OBVIOUS
  <2>2. row' \in [Keys -> [type : Types \cup {Absent}, config : Nat, cursor : Tenants \cup {Absent},
                    status : {"none", "ACTIVE", "PAUSED", "EXHAUSTED"},
                    credentials : Tenants \cup {Absent}]]
    BY DEF Rows, Statuses
  <2>3. \A k \in Keys : (row'[k].status = "none") = (row'[k].type = Absent)
    OBVIOUS
  <2> QED BY <2>1, <2>2, <2>3 DEF IInv, Shape, TypeOK
<1>2. Shape' /\ Apart'
  BY <1>1 DEF IInv, Shape, Apart
<1>3. \A c \in Callers : Calling(call[c])'
  <2>1. \A k \in Keys : k[2] # Owner =>
          row'[k] = row[k] /\ (k \in held /\ row[k].status = "PAUSED" => k \in held')
    BY DEF StillHeld
  <2> QED BY <2>1, CallsKept
<1> QED BY <1>2, <1>3 DEF IInv

LEMMA DeleteOrphansStep ==
  ASSUME IInv, DeleteOrphans
  PROVE  IInv'
<1> USE Values
<1>1. /\ deploy.at = "replaced" /\ ~ClaimedTwice /\ StillHeld /\ UNCHANGED <<graph, version, call>>
      /\ row' = [k \in Keys |-> IF k \in Orphans THEN NoRow ELSE row[k]]
      /\ deploy' = [deploy EXCEPT !.at = IF deploy.left = {} THEN "done" ELSE "upserting"]
  BY DEF DeleteOrphans
<1>2. NoRow \in Rows /\ NoRow.status = "none" /\ NoRow.type = Absent /\ NoRow.credentials = Absent
      /\ NoRow.cursor = Absent
  BY DEF NoRow, Rows, Statuses
<1> HIDE DEF NoRow
<1>3. \A k \in Keys : row'[k] = IF k \in Orphans THEN NoRow ELSE row[k]
  BY <1>1
<1>4. row' \in [Keys -> Rows]
  BY <1>1, <1>2, RowsAreTyped
<1>5. \A k \in Keys : /\ k[2] # Owner => row'[k] = row[k]
                      /\ row'[k].status = "none" <=> row'[k].type = Absent
                      /\ {row'[k].credentials, row'[k].cursor} \subseteq {k[2], Absent}
  BY <1>2, <1>3, RowsAreTyped DEF Orphans
<1>6. /\ deploy' \in [at : {"done", "failed", "replaced", "upserting"}, left : SUBSET Events]
      /\ deploy'.at = (IF deploy.left = {} THEN "done" ELSE "upserting") /\ deploy'.left = deploy.left
  BY <1>1 DEF IInv, Shape
<1>7. deploy.left = Claimed(graph)
  BY <1>1 DEF IInv, Deploying
<1>8. RowsOf(Owner)' \subseteq Claimed(graph)
  <2> SUFFICES ASSUME NEW e \in Events, row'[<<e, Owner>>].status # "none" PROVE e \in Claimed(graph)
    BY DEF RowsOf, Exists
  <2>1. <<e, Owner>> \in Keys /\ <<e, Owner>>[1] = e /\ <<e, Owner>>[2] = Owner
    BY RowsAreTyped
  <2> QED BY <2>1, <1>2, <1>3 DEF Orphans
<1>9. Claimed(graph)' = Claimed(graph) /\ ~ClaimedTwice'
  BY <1>1 DEF Claimed, ClaimedTwice
<1>10. Deploying'
  BY <1>6, <1>7, <1>8, <1>9 DEF Deploying
<1> QED BY <1>1, <1>4, <1>5, <1>6, <1>10, OwnersStep

(* Where no start event is claimed twice, each has the trigger it has.     *)
LEMMA OneTrigger ==
  ASSUME TypeOK, ~ClaimedTwice, NEW e \in Claimed(graph)
  PROVE  graph[e] = {Trigger(e)} /\ Trigger(e) \in Types
<1>1. e \in DOMAIN graph /\ graph[e] # {} /\ graph[e] \subseteq Types
  BY Types1 DEF Claimed
<1>2. Trigger(e) \in graph[e]
  BY <1>1 DEF Trigger
<1>3. ~(Cardinality(graph[e]) > 1)
  BY <1>1 DEF ClaimedTwice
<1>4. IsFiniteSet(Types) /\ IsFiniteSet(graph[e])
  <2>1. IsFiniteSet(Types)
    <3>1. IsFiniteSet({"timer"})
      BY FS_Singleton
    <3>2. IsFiniteSet({"timer"} \cup {"connector"})
      BY <3>1, FS_AddElement
    <3>3. Types = {"timer"} \cup {"connector"}
      BY DEF Types
    <3> QED BY <3>2, <3>3
  <2> QED BY <1>1, <2>1, FS_Subset
<1>5. ASSUME NEW other \in graph[e], other # Trigger(e) PROVE FALSE
  <2>1. Cardinality({other}) = 1 /\ IsFiniteSet({other})
    BY FS_Singleton
  <2>2. Cardinality({other} \cup {Trigger(e)}) = 2 /\ IsFiniteSet({other} \cup {Trigger(e)})
    <3>1. Trigger(e) \notin {other}
      BY <1>5
    <3> DEFINE one == {other}
               two == Trigger(e)
    <3>2. IsFiniteSet(one) /\ Cardinality(one) = 1 /\ two \notin one
      BY <2>1, <3>1
    <3> HIDE DEF one, two
    <3>3. IsFiniteSet(one \cup {two}) /\ Cardinality(one \cup {two}) = Cardinality(one) + 1
      BY <3>2, FS_AddElement
    <3>4. Cardinality(one \cup {two}) = 2
      BY <3>2, <3>3
    <3> QED BY <3>3, <3>4 DEF one, two
  <2>3. {other} \cup {Trigger(e)} \subseteq graph[e]
    BY <1>2, <1>5
  <2>4. Cardinality({other} \cup {Trigger(e)}) =< Cardinality(graph[e]) /\ Cardinality(graph[e]) \in Nat
    BY <1>4, <2>3, FS_Subset, FS_CardinalityType
  <2> QED BY <1>3, <2>2, <2>4
<1> QED BY <1>1, <1>2, <1>5

LEMMA UpsertedFacts ==
  ASSUME IInv, NEW e \in Events, Trigger(e) \in Types
  PROVE  /\ Upserted(e) \in Rows /\ Upserted(e).type = Trigger(e) /\ Upserted(e).config = version
         /\ Upserted(e).status # "none"
         /\ {Upserted(e).credentials, Upserted(e).cursor} \subseteq {Owner, Absent}
<1> USE Values
<1> DEFINE k == <<e, Owner>>
           old == IF Exists(e, Owner) THEN row[k] ELSE [NoRow EXCEPT !.status = "PAUSED"]
           status == IF Trigger(e) = "timer" THEN "ACTIVE" ELSE old.status
           type == Trigger(e)
           new == [old EXCEPT !.type = type, !.config = version, !.status = status]
<1>1. old \in Rows /\ old.status # "none" /\ {old.credentials, old.cursor} \subseteq {Owner, Absent}
  <2>1. k \in Keys /\ k[2] = Owner
    BY RowsAreTyped
  <2>2. CASE Exists(e, Owner)
    BY <2>1, <2>2, RowsAreTyped DEF Exists
  <2>3. CASE ~Exists(e, Owner)
    <3>1. old = [NoRow EXCEPT !.status = "PAUSED"]
      BY <2>3
    <3> HIDE DEF old
    <3> QED BY <3>1 DEF NoRow, Rows, Statuses
  <2> QED BY <2>2, <2>3
<1>2. Upserted(e) = new
  BY <1>1 DEF Upserted, Rows
<1>3. type \in Types /\ type = Trigger(e) /\ version \in Nat
  BY Types1 DEF IInv, Shape
<1>4. status \in Statuses /\ status # "none"
  <2> HIDE DEF old
  <2> QED BY <1>1 DEF Rows, Statuses
<1> HIDE DEF old, status, type
<1>5. /\ new \in Rows /\ new.type = type /\ new.config = version /\ new.status = status
      /\ new.credentials = old.credentials /\ new.cursor = old.cursor
  BY <1>1, <1>3, <1>4 DEF Rows
<1> HIDE DEF new
<1> QED BY <1>1, <1>2, <1>3, <1>4, <1>5

LEMMA UpsertScheduleStep ==
  ASSUME IInv, NEW e \in Events, UpsertSchedule(e)
  PROVE  IInv'
<1> USE Values
<1> DEFINE k == <<e, Owner>>
<1>1. /\ deploy.at = "upserting" /\ e \in deploy.left /\ StillHeld /\ UNCHANGED <<graph, version, call>>
      /\ row' = [row EXCEPT ![k] = Upserted(e)]
      /\ deploy' = [at |-> IF deploy.left = {e} THEN "done" ELSE "upserting", left |-> deploy.left \ {e}]
  BY DEF UpsertSchedule
<1>2. /\ RowsOf(Owner) \subseteq Claimed(graph) /\ ~ClaimedTwice /\ deploy.left \subseteq Claimed(graph)
      /\ \A d \in Claimed(graph) \ deploy.left : Right(d)
  BY <1>1 DEF IInv, Deploying
<1>3. graph[e] = {Trigger(e)} /\ Trigger(e) \in Types
  BY <1>1, <1>2, OneTrigger DEF IInv, Shape
<1>4. /\ Upserted(e) \in Rows /\ Upserted(e).type = Trigger(e) /\ Upserted(e).config = version
      /\ Upserted(e).status # "none"
      /\ {Upserted(e).credentials, Upserted(e).cursor} \subseteq {Owner, Absent}
  BY <1>3, UpsertedFacts
<1>5. k \in Keys /\ k[2] = Owner
  BY RowsAreTyped
<1>6. row' \in [Keys -> Rows] /\ \A j \in Keys : row'[j] = IF j = k THEN Upserted(e) ELSE row[j]
  BY <1>1, <1>4, RowsAreTyped
<1>7. \A j \in Keys : /\ j[2] # Owner => row'[j] = row[j]
                      /\ row'[j].status = "none" <=> row'[j].type = Absent
                      /\ {row'[j].credentials, row'[j].cursor} \subseteq {j[2], Absent}
  BY <1>3, <1>4, <1>5, <1>6, RowsAreTyped
<1>8. deploy' \in [at : {"done", "failed", "replaced", "upserting"}, left : SUBSET Events]
  BY <1>1 DEF IInv, Shape
<1>9. Claimed(graph) \subseteq Events /\ Claimed(graph)' = Claimed(graph) /\ (ClaimedTwice' <=> ClaimedTwice)
  BY <1>1, Types1 DEF IInv, Shape, Claimed, ClaimedTwice
<1>10. \A d \in Events : row'[<<d, Owner>>] = IF d = e THEN Upserted(e) ELSE row[<<d, Owner>>]
  <2>1. \A d \in Events : <<d, Owner>> \in Keys /\ (<<d, Owner>> = k <=> d = e)
    BY RowsAreTyped
  <2> HIDE DEF k
  <2> QED BY <2>1, <1>6
<1> HIDE DEF k
<1>11. RowsOf(Owner)' \subseteq Claimed(graph)
  BY <1>1, <1>2, <1>10 DEF RowsOf, Exists
<1>12. \A d \in Claimed(graph) \ deploy'.left : Right(d)'
  <2> SUFFICES ASSUME NEW d \in Claimed(graph) \ deploy'.left PROVE Right(d)'
    OBVIOUS
  <2>1. CASE d = e
    BY <1>1, <1>3, <1>4, <1>10, <2>1 DEF Right, Exists
  <2>2. CASE d # e
    <3>1. Right(d) /\ d \in Events
      BY <1>1, <1>2, <1>9, <2>2
    <3> QED BY <1>1, <1>10, <2>2, <3>1 DEF Right, Exists
  <2> QED BY <2>1, <2>2
<1>13. Deploying'
  <2>1. deploy'.at \in {"done", "upserting"} /\ (deploy'.at = "done" => deploy'.left = {})
        /\ deploy'.left \subseteq Claimed(graph)
    BY <1>1, <1>2
  <2> QED BY <2>1, <1>2, <1>9, <1>11, <1>12 DEF Deploying
<1> QED BY <1>1, <1>6, <1>7, <1>8, <1>13, OwnersStep

------------------------------------------------------------------------------
(* The steps together.                                                     *)

LEMMA StepHolds == IInv /\ [Next]_vars => IInv'
<1> SUFFICES ASSUME IInv, [Next]_vars PROVE IInv'
  OBVIOUS
<1>1. CASE UNCHANGED vars
  BY <1>1 DEF vars, IInv, Shape, TypeOK, Apart, Deploying, Claimed, ClaimedTwice, RowsOf, Exists, Right, Calling
<1>2. ASSUME NEW g \in Graphs, ReplaceDefinition(g) PROVE IInv'
  BY <1>2, ReplaceDefinitionStep
<1>3. ASSUME ClaimsRefused \/ DeployFails PROVE IInv'
  BY <1>3, NoRowStep, Types1 DEF ClaimsRefused, DeployFails, IInv, Shape, Deploying
<1>4. CASE DeleteOrphans
  BY <1>4, DeleteOrphansStep
<1>5. ASSUME NEW e \in Events, UpsertSchedule(e) \/ UpsertCollides(e) PROVE IInv'
  BY <1>5, UpsertScheduleStep, DeploymentEndsStep
<1>6. ASSUME NEW c \in Callers, NEW t \in Tenants, ReadExisting(c, t) \/ ActivateByRoute(c, t) PROVE IInv'
  BY <1>6, BeginStep
<1>7. ASSUME NEW c \in Callers, ReadSources(c) \/ ActivateFails(c) PROVE IInv'
  BY <1>7, ReadSourcesStep, ActivateFailsStep
<1>8. ASSUME NEW c \in Callers, NEW e \in Events, CloneRow(c, e) \/ CloneFails(c, e) PROVE IInv'
  BY <1>8, CloneRowStep, CloneFailsStep
<1>9. ASSUME NEW c \in Callers, ActivateConnectors(c) \/ ActivateTimers(c) PROVE IInv'
  BY <1>9, ActivateConnectorsStep, ActivateTimersStep
<1>10. ASSUME NEW t \in Tenants, Deactivate(t) PROVE IInv'
  BY <1>10, DeactivateMoves, RowMovesStep
<1>11. ASSUME NEW e \in Events, NEW t \in Tenants,
              Pause(e, t) \/ Resume(e, t) \/ SetConnectorCredentials(e, t) \/ Fire(e, t)
       PROVE  IInv'
  BY <1>11, StatusMoves, CredentialsMoves, FireMoves, RowMovesStep
<1> QED BY <1>1, <1>2, <1>3, <1>4, <1>5, <1>6, <1>7, <1>8, <1>9, <1>10, <1>11 DEF Next

(* However deployments, activations, other calls of hosts and fires        *)
(* interleave and wherever they stop: rows, deployments and calls have     *)
(* their types, no row has anything of another tenant's, all that is wrong *)
(* with the rows of the owner is what a deployment has still to do or one  *)
(* that failed has left, and what an activation has read it has inserted,  *)
(* or will.                                                                *)
THEOREM TenantInvariance == Spec => []IInv
<1>1. Init => IInv
  BY InitHolds
<1>2. IInv /\ [Next]_vars => IInv'
  BY StepHolds
<1> QED BY <1>1, <1>2, PTL DEF Spec

(* When a deployment has returned, the rows of the owner are those of the  *)
(* start events a trigger claims, of that trigger and of that deployment,  *)
(* also after deployments that failed halfway.                             *)
THEOREM DeploymentsRepair == Spec => []OwnerRowsMatchTheGraph
<1>1. IInv => OwnerRowsMatchTheGraph
  <2> SUFFICES ASSUME IInv PROVE OwnerRowsMatchTheGraph
    OBVIOUS
  <2>1. TypeOK /\ Claimed(graph) \subseteq Events
    BY Types1 DEF IInv, Shape, Claimed
  <2>2. ASSUME deploy.at = "done"
        PROVE  /\ RowsOf(Owner) = Claimed(graph)
               /\ \A e \in Claimed(graph) :
                    graph[e] = {row[<<e, Owner>>].type} /\ row[<<e, Owner>>].config = version
    BY <2>1, <2>2 DEF IInv, Deploying, Right, RowsOf
  <2> QED BY <2>1, <2>2 DEF OwnerRowsMatchTheGraph
<1> QED BY <1>1, TenantInvariance, PTL

(* Which rows a step may change, by whom.                                  *)
ChangesApart ==
  \A k \in Keys : row'[k] # row[k] =>
    /\ \A c \in Callers : call'[c] # call[c] => call[c].tenant = k[2]
    /\ k[2] # Owner => deploy' = deploy /\ row'[k].status # "none"

LEMMA StepsAreApart == IInv /\ Next => ChangesApart
<1> SUFFICES ASSUME IInv, Next PROVE ChangesApart
  OBVIOUS
<1>1. CASE row' = row
  BY <1>1 DEF ChangesApart
<1>2. CASE RowMoves /\ call' = call
  BY <1>2 DEF ChangesApart, RowMoves
<1>3. CASE DeleteOrphans
  <2>1. call' = call /\ \A k \in Keys : row'[k] = IF k \in Orphans THEN NoRow ELSE row[k]
    BY <1>3 DEF DeleteOrphans
  <2> QED BY <2>1 DEF ChangesApart, Orphans
<1>4. ASSUME NEW e \in Events, UpsertSchedule(e) PROVE ChangesApart
  <2>1. <<e, Owner>> \in Keys /\ <<e, Owner>>[2] = Owner
    BY RowsAreTyped, Values
  <2>2. call' = call /\ \A k \in Keys : k # <<e, Owner>> => row'[k] = row[k]
    BY <1>4, <2>1, RowsAreTyped DEF UpsertSchedule
  <2> QED BY <2>1, <2>2 DEF ChangesApart
<1>5. ASSUME NEW c \in Callers, ActivateConnectors(c) \/ ActivateTimers(c) PROVE ChangesApart
  <2>1. RowMoves /\ \A k \in Keys : row'[k] # row[k] => k[2] = call[c].tenant
    BY <1>5, ActivateConnectorsMoves, ActivateTimersMoves
  <2>2. \A d \in Callers \ {c} : call'[d] = call[d]
    BY <1>5 DEF ActivateConnectors, ActivateTimers, IInv, Shape
  <2> QED BY <2>1, <2>2 DEF ChangesApart, RowMoves
<1>6. ASSUME NEW c \in Callers, NEW e \in Events, CloneRow(c, e) PROVE ChangesApart
  <2> DEFINE k == <<e, call[c].tenant>>
  <2>1. k \in Keys /\ k[2] = call[c].tenant
    BY <1>6, CloneRowFacts, RowsAreTyped
  <2>2. deploy' = deploy /\ \A d \in Callers \ {c} : call'[d] = call[d]
    BY <1>6 DEF CloneRow, IInv, Shape
  <2>3. CASE Exists(e, call[c].tenant)
    BY <1>6, <2>3, CloneRowFacts DEF ChangesApart
  <2>4. CASE ~Exists(e, call[c].tenant)
    <3>1. PICK new \in Documents : row' = [row EXCEPT ![k] = new] /\ new.status = "PAUSED"
      BY <1>6, <2>4, CloneRowFacts
    <3> HIDE DEF k
    <3>2. \A j \in Keys : row'[j] = IF j = k THEN new ELSE row[j]
      BY <3>1, RowsAreTyped
    <3> QED BY <2>1, <2>2, <3>1, <3>2 DEF ChangesApart
  <2> QED BY <2>3, <2>4
<1>7. ASSUME NEW g \in Graphs, ReplaceDefinition(g) PROVE row' = row
  BY <1>7 DEF ReplaceDefinition
<1>8. ASSUME ClaimsRefused \/ DeployFails PROVE row' = row
  BY <1>8 DEF ClaimsRefused, DeployFails
<1>9. ASSUME NEW e \in Events, UpsertCollides(e) PROVE row' = row
  BY <1>9 DEF UpsertCollides
<1>10. ASSUME NEW c \in Callers, NEW t \in Tenants, ReadExisting(c, t) \/ ActivateByRoute(c, t)
       PROVE  row' = row
  BY <1>10 DEF ReadExisting, ActivateByRoute, Begin
<1>11. ASSUME NEW c \in Callers, ReadSources(c) \/ ActivateFails(c) PROVE row' = row
  BY <1>11 DEF ReadSources, ActivateFails
<1>12. ASSUME NEW c \in Callers, NEW e \in Events, CloneFails(c, e) PROVE row' = row
  BY <1>12 DEF CloneFails
<1>13. ASSUME NEW t \in Tenants, Deactivate(t) PROVE RowMoves /\ call' = call
  BY <1>13, DeactivateMoves
<1>14. ASSUME NEW e \in Events, NEW t \in Tenants,
              Pause(e, t) \/ Resume(e, t) \/ SetConnectorCredentials(e, t) \/ Fire(e, t)
       PROVE  RowMoves /\ call' = call
  BY <1>14, StatusMoves, CredentialsMoves, FireMoves
<1> QED BY <1>1, <1>2, <1>3, <1>4, <1>5, <1>6, <1>7, <1>8, <1>9, <1>10, <1>11, <1>12, <1>13, <1>14 DEF Next

(* Tenants do not share a schedule: no row ever has credentials or a       *)
(* cursor of another's; a deployment changes only rows of the owner and an *)
(* activation only those of its tenant; and only the owner's are deleted.  *)
THEOREM ApartForAnyTenants == Spec => TenantsAreApart
<1> DEFINE Step == \A e \in Events, t \in Tenants : row'[<<e, t>>] # row[<<e, t>>] =>
        /\ {row'[<<e, t>>].credentials, row'[<<e, t>>].cursor} \subseteq {t, Absent}
        /\ \A c \in Callers : call'[c] # call[c] => call[c].tenant = t
        /\ t # Owner => deploy' = deploy /\ row'[<<e, t>>].status # "none"
<1>1. IInv /\ [Next]_vars => [Step]_vars
  <2> SUFFICES ASSUME IInv, Next PROVE Step
    OBVIOUS
  <2>1. ChangesApart
    BY StepsAreApart
  <2>2. Apart'
    BY StepHolds DEF IInv
  <2>3. \A e \in Events, t \in Tenants : <<e, t>> \in Keys /\ <<e, t>>[2] = t
    BY RowsAreTyped
  <2> QED BY <2>1, <2>2, <2>3 DEF ChangesApart, Apart
<1>2. Spec => [][Step]_vars
  BY <1>1, TenantInvariance, PTL DEF Spec
<1> QED BY <1>2 DEF TenantsAreApart

(* When activateSchedules returns, the tenant has each row that the owner  *)
(* had when it was read, and none of them is paused but by a host,         *)
(* whatever other calls, deployments and fires came between.               *)
THEOREM ActivationsComplete == Spec => ActivationIsComplete
<1> DEFINE Step == \A c \in Callers, e \in Events :
        e \in DOMAIN call[c].sources /\ ActivateTimers(c) =>
          \E t \in {call[c].tenant} :
            /\ row'[<<e, t>>].status # "none"
            /\ row'[<<e, t>>].status = "PAUSED" => <<e, t>> \in held'
<1>1. IInv /\ [Next]_vars => [Step]_vars
  <2> SUFFICES ASSUME IInv, NEW c \in Callers, NEW e \in Events,
                      e \in DOMAIN call[c].sources, ActivateTimers(c)
               PROVE  \E t \in {call[c].tenant} :
                        /\ row'[<<e, t>>].status # "none"
                        /\ row'[<<e, t>>].status = "PAUSED" => <<e, t>> \in held'
    OBVIOUS
  <2> DEFINE k == <<e, call[c].tenant>>
  <2>1. /\ RowMoves /\ k \in Keys
        /\ row'[k].type = "timer" => row'[k].status # "PAUSED"
    BY ActivateTimersMoves, RowsAreTyped
  <2>2. /\ row[k].status # "none"
        /\ row[k].type = "connector" /\ row[k].status = "PAUSED" => k \in held
    BY CallsAreTyped DEF ActivateTimers, Calling, Exists
  <2>3. StillHeld
    BY DEF ActivateTimers
  <2> HIDE DEF k
  <2>4. row[k].type \in {"timer", "connector"}
    BY <2>1, <2>2, RowsAreTyped DEF Rows, Types
  <2>5. row'[k].status # "none" /\ (row'[k].status = "PAUSED" => k \in held')
    BY <2>1, <2>2, <2>3, <2>4 DEF RowMoves, StillHeld
  <2> QED BY <2>5 DEF k
<1>2. Spec => [][Step]_vars
  BY <1>1, TenantInvariance, PTL DEF Spec
<1> QED BY <1>2 DEF ActivationIsComplete
=============================================================================
