--------------------------- MODULE TenantSchedules ---------------------------
(***************************************************************************)
(* The trigger schedules of a definition that several tenants run: what a  *)
(* deployment by its owner does to them (deployDefinition and              *)
(* syncTriggerSchedules, src/model/service.ts), beside the calls by which  *)
(* tenants activate their own (activateSchedules, src/sdk/client.ts, and   *)
(* the route of src/api/routes.ts), pause them and give them credentials.  *)
(*                                                                         *)
(* None of this is in a transaction.  What the scheduler does to a row is  *)
(* one step here; TriggerScheduler has the rest.                           *)
(***************************************************************************)
EXTENDS FiniteSets, Naturals, Functions

CONSTANTS
  Events,      (* Start events.                                            *)
  Tenants,
  Owner,       (* The tenant of the definition.                            *)
  Graphs,      (* What may be deployed: for each of its start events, the  *)
               (* types of the triggers that claim it.                     *)
  Callers,     (* Calls of activateSchedules.                              *)
  Brings,      (* Whether a call brings credentials: a set of choices.     *)
  Absent,
  MaxDeploys,  (* Bounds: deployments,                                     *)
  MaxOthers    (* and what the scheduler and other calls of hosts do.      *)

Types == {"timer", "connector"}

ASSUME TenantsAssumption ==
  /\ Owner \in Tenants /\ Absent \notin Tenants \cup Types
  /\ \A g \in Graphs : DOMAIN g \subseteq Events /\ \A e \in DOMAIN g : g[e] \subseteq Types
  /\ Brings \subseteq BOOLEAN /\ MaxDeploys \in Nat /\ MaxOthers \in Nat

VARIABLES
  graph,      (* The graph of the definition, and how many were deployed.  *)
  version,
  row,        (* TriggerSchedules: by start event and tenant, for the      *)
              (* index on them is unique.                                  *)
  deploy,     (* The deployment under way: its place, what it has to write.*)
  call,       (* The calls of activateSchedules.                           *)
  held,       (* History: the rows that are paused because a host said so. *)
  others      (* How often the bounded actions were taken.                 *)

vars == <<graph, version, row, deploy, call, held, others>>

Keys == Events \X Tenants

NoRow == [type |-> Absent, status |-> "none", config |-> 0, credentials |-> Absent,
          cursor |-> Absent]
Nothing == [e \in {} |-> NoRow]
NoCall == [at |-> "idle", tenant |-> Absent, have |-> {}, sources |-> Nothing, left |-> {}]

Exists(e, t) == row[<<e, t>>].status # "none"
RowsOf(t) == { e \in Events : Exists(e, t) }

(* The start events a trigger claims, and the trigger that claims one: a   *)
(* second one is refused.                                                  *)
Claimed(g) == { e \in DOMAIN g : g[e] # {} }
Trigger(e) == CHOOSE type \in graph[e] : TRUE

StillHeld == held' = { k \in held : row'[k].status = "PAUSED" }

Init ==
  /\ graph = [e \in {} |-> {}] /\ version = 0
  /\ row = [k \in Keys |-> NoRow]
  /\ deploy = [at |-> "done", left |-> {}]
  /\ call = [c \in Callers |-> NoCall]
  /\ held = {}
  /\ others = 0

------------------------------------------------------------------------------
(* deployDefinition.                                                       *)

(* The definition is inserted or, with `overwrite', replaced.              *)
ReplaceDefinition(g) ==
  /\ deploy.at \in {"done", "failed"} /\ version < MaxDeploys
  /\ graph' = g
  /\ version' = version + 1
  /\ deploy' = [at |-> "replaced", left |-> Claimed(g)]
  /\ UNCHANGED <<row, call, held, others>>

ClaimedTwice == \E e \in DOMAIN graph : Cardinality(graph[e]) > 1

(* resolveTriggerClaims throws: the definition is replaced by then, its    *)
(* schedules are not looked at.                                            *)
ClaimsRefused ==
  /\ deploy.at = "replaced" /\ ClaimedTwice
  /\ deploy' = [at |-> "failed", left |-> {}]
  /\ UNCHANGED <<graph, version, row, call, held, others>>

(* The rows of the owner whose start event is gone.                        *)
Orphans == { k \in Keys : k[1] \notin Claimed(graph) /\ k[2] = Owner }

DeleteOrphans ==
  /\ deploy.at = "replaced" /\ ~ClaimedTwice
  /\ row' = [k \in Keys |-> IF k \in Orphans THEN NoRow ELSE row[k]]
  /\ StillHeld
  /\ deploy' = [deploy EXCEPT !.at = IF deploy.left = {} THEN "done" ELSE "upserting"]
  /\ UNCHANGED <<graph, version, call, others>>

(* Mutant: a row that is there is left as it is.                           *)
Bug_Upserted(e) ==
  IF Exists(e, Owner) THEN row[<<e, Owner>>]
  ELSE [NoRow EXCEPT !.type = Trigger(e), !.config = version,
                     !.status = IF Trigger(e) = "timer" THEN "ACTIVE" ELSE "PAUSED"]

(* The row of a start event after its upsert.  A timer is set ACTIVE, a    *)
(* connector keeps its status; both keep cursor and credentials.           *)
Upserted(e) ==
  LET old == IF Exists(e, Owner) THEN row[<<e, Owner>>] ELSE [NoRow EXCEPT !.status = "PAUSED"]
  IN  [old EXCEPT !.type = Trigger(e), !.config = version,
                  !.status = IF Trigger(e) = "timer" THEN "ACTIVE" ELSE @]

(* The filter has the type: a row of another type is not found, and the    *)
(* insertion collides with it.                                             *)
Collides(e) == Exists(e, Owner) /\ row[<<e, Owner>>].type # Trigger(e)

UpsertSchedule(e) ==
  /\ deploy.at = "upserting" /\ e \in deploy.left /\ ~Collides(e)
  /\ row' = [row EXCEPT ![<<e, Owner>>] = Upserted(e)]
  /\ deploy' = [at |-> IF deploy.left = {e} THEN "done" ELSE "upserting",
                left |-> deploy.left \ {e}]
  /\ StillHeld
  /\ UNCHANGED <<graph, version, call, others>>

UpsertCollides(e) ==
  /\ deploy.at = "upserting" /\ e \in deploy.left /\ Collides(e)
  /\ deploy' = [at |-> "failed", left |-> {}]
  /\ UNCHANGED <<graph, version, row, call, held, others>>

(* A plugin or the database throws, or the process dies.                   *)
DeployFails ==
  /\ deploy.at \in {"replaced", "upserting"}
  /\ deploy' = [at |-> "failed", left |-> {}]
  /\ UNCHANGED <<graph, version, row, call, held, others>>

------------------------------------------------------------------------------
(* activateSchedules.                                                      *)

Begin(c, t, at, have) ==
  /\ call[c].at = "idle"
  /\ call' = [call EXCEPT ![c] = [at |-> at, tenant |-> t, have |-> have, sources |-> Nothing,
                                left |-> {}]]
  /\ UNCHANGED <<graph, version, row, deploy, held, others>>

(* The first read of _ensureTenantRowsExist: the rows the tenant has.      *)
ReadExisting(c, t) == Begin(c, t, "reading", RowsOf(t))

(* The route does without: it only updates the rows there are.             *)
ActivateByRoute(c, t) == Begin(c, t, "cloning", {})

(* The second read, of the rows of the owner, who needs no clones.         *)
ReadSources(c) ==
  LET sources == IF call[c].tenant = Owner THEN {} ELSE RowsOf(Owner) IN
  /\ call[c].at = "reading"
  /\ call' = [call EXCEPT ![c].at = "cloning",
                          ![c].sources = [e \in sources |-> row[<<e, Owner>>]],
                          ![c].left = sources \ call[c].have,
                          ![c].have = {}]
  /\ UNCHANGED <<graph, version, row, deploy, held, others>>

(* Mutant: the credentials come along.                                     *)
Bug_Cloned(src) == [src EXCEPT !.cursor = Absent, !.status = "PAUSED"]

Cloned(src) == [src EXCEPT !.cursor = Absent, !.credentials = Absent, !.status = "PAUSED"]

(* Mutant: an insertion that is refused ends the loop.                     *)
Bug_CloneRow(c, e) ==
  LET t == call[c].tenant IN
  /\ call[c].at = "cloning" /\ e \in call[c].left
  /\ call' = [call EXCEPT ![c].left = IF Exists(e, t) THEN {} ELSE @ \ {e}]
  /\ row' = IF Exists(e, t) THEN row
            ELSE [row EXCEPT ![<<e, t>>] = Cloned(call[c].sources[e])]
  /\ UNCHANGED <<graph, version, deploy, held, others>>

(* The insertion of a clone of what was read; refused, without an error,   *)
(* when there is a row by now.                                             *)
CloneRow(c, e) ==
  LET t == call[c].tenant IN
  /\ call[c].at = "cloning" /\ e \in call[c].left
  /\ call' = [call EXCEPT ![c].left = @ \ {e}]
  /\ row' = IF Exists(e, t) THEN row
            ELSE [row EXCEPT ![<<e, t>>] = Cloned(call[c].sources[e])]
  /\ UNCHANGED <<graph, version, deploy, held, others>>

(* Refused for another reason, which the loop does not tell from that one: *)
(* it goes on without the row.  ActivationIsComplete asks for the others,  *)
(* so that the source is forgotten.                                        *)
CloneFails(c, e) ==
  /\ call[c].at = "cloning" /\ e \in call[c].left
  /\ call' = [call EXCEPT ![c].left = @ \ {e}, ![c].sources = Restrict(@, DOMAIN @ \ {e})]
  /\ UNCHANGED <<graph, version, row, deploy, held, others>>

(* The update of all the connectors of the tenant, with credentials if the *)
(* call brings some.                                                       *)
ActivateConnectors(c) ==
  LET t == call[c].tenant
      connectors == { e \in Events : row[<<e, t>>].type = "connector" }
  IN
  /\ call[c].at = "cloning" /\ call[c].left = {}
  /\ \E bring \in Brings :
       row' = [k \in Keys |->
                 IF k \notin connectors \X {t} THEN row[k]
                 ELSE [row[k] EXCEPT !.status = "ACTIVE",
                                     !.credentials = IF bring THEN t ELSE @]]
  /\ StillHeld
  /\ call' = [call EXCEPT ![c].at = "timers"]
  /\ UNCHANGED <<graph, version, deploy, others>>

(* And of its timers, but for those that are exhausted.                    *)
ActivateTimers(c) ==
  LET t == call[c].tenant
      timers == { e \in Events : row[<<e, t>>].type = "timer" /\ row[<<e, t>>].status # "EXHAUSTED" }
  IN
  /\ call[c].at = "timers"
  /\ row' = [k \in Keys |-> IF k \in timers \X {t} THEN [row[k] EXCEPT !.status = "ACTIVE"]
                            ELSE row[k]]
  /\ StillHeld
  /\ call' = [call EXCEPT ![c] = NoCall]
  /\ UNCHANGED <<graph, version, deploy, others>>

(* The database throws, or the process of the host dies.                   *)
ActivateFails(c) ==
  /\ call[c].at # "idle"
  /\ call' = [call EXCEPT ![c] = NoCall]
  /\ UNCHANGED <<graph, version, row, deploy, held, others>>

------------------------------------------------------------------------------
(* The other calls of a host, and the scheduler.                           *)

Other ==
  /\ others < MaxOthers
  /\ others' = others + 1

Deactivate(t) ==
  LET active == { e \in Events : row[<<e, t>>].status = "ACTIVE" } IN
  /\ Other
  /\ row' = [k \in Keys |-> IF k \in active \X {t} THEN [row[k] EXCEPT !.status = "PAUSED"]
                            ELSE row[k]]
  /\ held' = held \cup (active \X {t})
  /\ UNCHANGED <<graph, version, deploy, call>>

Pause(e, t) ==
  /\ row[<<e, t>>].status = "ACTIVE" /\ Other
  /\ row' = [row EXCEPT ![<<e, t>>].status = "PAUSED"]
  /\ held' = held \cup {<<e, t>>}
  /\ UNCHANGED <<graph, version, deploy, call>>

Resume(e, t) ==
  /\ row[<<e, t>>].status = "PAUSED" /\ Other
  /\ row' = [row EXCEPT ![<<e, t>>].status = "ACTIVE"]
  /\ StillHeld
  /\ UNCHANGED <<graph, version, deploy, call>>

SetConnectorCredentials(e, t) ==
  /\ Exists(e, t) /\ Other
  /\ row' = [row EXCEPT ![<<e, t>>].credentials = t]
  /\ UNCHANGED <<graph, version, deploy, call, held>>

(* A fire moves the cursor, and may be the last one of a timer.            *)
Fire(e, t) ==
  /\ row[<<e, t>>].status = "ACTIVE" /\ Other
  /\ \E status \in {"ACTIVE"} \cup (IF row[<<e, t>>].type = "timer" THEN {"EXHAUSTED"} ELSE {}) :
       row' = [row EXCEPT ![<<e, t>>].cursor = t, ![<<e, t>>].status = status]
  /\ UNCHANGED <<graph, version, deploy, call, held>>

Next ==
  \/ \E g \in Graphs : ReplaceDefinition(g)
  \/ ClaimsRefused \/ DeleteOrphans \/ DeployFails
  \/ \E e \in Events : UpsertSchedule(e) \/ UpsertCollides(e)
  \/ \E c \in Callers :
       \/ \E t \in Tenants : ReadExisting(c, t) \/ ActivateByRoute(c, t)
       \/ ReadSources(c) \/ \E e \in Events : CloneRow(c, e) \/ CloneFails(c, e)
       \/ ActivateConnectors(c) \/ ActivateTimers(c) \/ ActivateFails(c)
  \/ \E t \in Tenants : Deactivate(t)
  \/ \E e \in Events, t \in Tenants :
       Pause(e, t) \/ Resume(e, t) \/ SetConnectorCredentials(e, t) \/ Fire(e, t)

Spec == Init /\ [][Next]_vars

------------------------------------------------------------------------------
(* Properties.                                                             *)

TypeOK ==
  /\ version \in Nat /\ DOMAIN graph \subseteq Events /\ \A e \in DOMAIN graph : graph[e] \subseteq Types
  /\ row \in [Keys -> [type : Types \cup {Absent}, config : Nat, cursor : Tenants \cup {Absent},
                       status : {"none", "ACTIVE", "PAUSED", "EXHAUSTED"},
                       credentials : Tenants \cup {Absent}]]
  /\ \A k \in Keys : (row[k].status = "none") = (row[k].type = Absent)
  /\ deploy.at \in {"done", "failed", "replaced", "upserting"} /\ deploy.left \subseteq Events

(* When a deployment has returned, the rows of the owner are those of the  *)
(* start events a trigger claims, of that trigger and with the deployed    *)
(* configuration, whatever deployments failed halfway before it and        *)
(* whoever activates meanwhile.                                            *)
OwnerRowsMatchTheGraph ==
  TypeOK /\ (deploy.at = "done" =>
    /\ RowsOf(Owner) = Claimed(graph)
    /\ \A e \in Claimed(graph) :
         graph[e] = {row[<<e, Owner>>].type} /\ row[<<e, Owner>>].config = version)

(* Tenants do not share a schedule: none ever has credentials or a cursor  *)
(* of another's, what others deploy or activate does not touch the rows of *)
(* a tenant, and nothing ever deletes those of a tenant that is not the    *)
(* owner.                                                                  *)
TenantsAreApart ==
  [][ \A e \in Events, t \in Tenants : row'[<<e, t>>] # row[<<e, t>>] =>
        /\ {row'[<<e, t>>].credentials, row'[<<e, t>>].cursor} \subseteq {t, Absent}
        /\ \A c \in Callers : call'[c] # call[c] => call[c].tenant = t
        /\ t # Owner => deploy' = deploy /\ row'[<<e, t>>].status # "none" ]_vars

(* When activateSchedules returns, the tenant has a row for each that the  *)
(* owner had, and it is ACTIVE unless a host has paused it meanwhile or it *)
(* is exhausted, also when another call for the same tenant has inserted   *)
(* some of them.                                                           *)
ActivationIsComplete ==
  [][ \A c \in Callers, e \in Events :
        e \in DOMAIN call[c].sources /\ ActivateTimers(c) =>
          \E t \in {call[c].tenant} :
            /\ row'[<<e, t>>].status # "none"
            /\ row'[<<e, t>>].status = "PAUSED" => <<e, t>> \in held' ]_vars
=============================================================================
