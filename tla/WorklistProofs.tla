---------------------------- MODULE WorklistProofs ----------------------------
(***************************************************************************)
(* Who may take a claimed task from its user, whatever fails, and that the *)
(* worklist comes to agree with the engine when nothing does: for any      *)
(* number of servers, tasks, users and mishaps.                            *)
(***************************************************************************)
EXTENDS Worklist, FiniteSetTheorems, SequenceTheorems, TLAPS

Entries == [kind : {"CALLBACK_WORK", "WORK_ITEM_COMPLETED", "INSTANCE_COMPLETED"},
            of : Tasks \cup {NoOne}]

Documents == [status : {"none", "OPEN", "CLAIMED", "COMPLETED", "CANCELED"},
              assignee : Users \cup {NoOne}]

(* The places where a call sets t to OPEN, and the calls that have one.    *)
Opens(call, t) == { n \in DOMAIN call : call[n].kind = "CALLBACK_WORK" /\ call[n].of = t }
About(t)       == { call \in DOMAIN handlers : Opens(call, t) # {} }

Shape ==
  /\ task \in [Tasks -> Documents]
  /\ broadcasts \in [Tasks -> Nat]
  /\ IsABag(handlers) /\ \A call \in DOMAIN handlers : call \in Seq(Entries) /\ call # <<>>

(* What a loop broadcasts is about its rows, once about each.              *)
Sound(payload, rows) ==
  /\ payload \in Seq(Entries)
  /\ \A t \in Tasks : \A m, n \in Opens(payload, t) : m = n /\ t \in rows

Job(j) ==
  /\ Sound(j.payload, j.rows)
  /\ j.at \in {"committed", "found"} => j.payload # <<>>

(* Before the first broadcast about a task there is nothing; before the    *)
(* second, one write that opens it, and that only until it is done.        *)
Once(t) ==
  /\ broadcasts[t] = 0 => task[t].status = "none" /\ About(t) = {}
  /\ broadcasts[t] = 1 => \A call \in About(t) :
       /\ task[t].status = "none"
       /\ handlers[call] = 1 /\ About(t) = {call}
       /\ \A m, n \in Opens(call, t) : m = n

Loops ==
  /\ worker \in [Servers -> Jobs] /\ dispatcher \in [Servers -> Jobs]
  /\ \A s \in Servers : Job(worker[s]) /\ Job(dispatcher[s])

IInv ==
  /\ Shape
  /\ Loops
  /\ \A t \in Tasks : Once(t)

------------------------------------------------------------------------------
(* Bags, and the payload of a list of rows.                                *)

(* A bag with one more of x, and with one less.                            *)
LEMMA AddOne ==
  ASSUME NEW B, IsABag(B), NEW x
  PROVE  LET C == B (+) SetToBag({x}) IN
         /\ IsABag(C) /\ DOMAIN C = DOMAIN B \cup {x}
         /\ \A y \in DOMAIN B \ {x} : C[y] = B[y]
         /\ x \notin DOMAIN B => C[x] = 1
BY DEF (+), SetToBag, IsABag

LEMMA TakeOne ==
  ASSUME NEW B, IsABag(B), NEW x
  PROVE  LET C == B (-) SetToBag({x}) IN
         /\ IsABag(C) /\ DOMAIN C \subseteq DOMAIN B
         /\ \A y \in DOMAIN B \ {x} : y \in DOMAIN C /\ C[y] = B[y]
         /\ \A y \in DOMAIN C : C[y] =< B[y]
         /\ x \in DOMAIN B /\ B[x] = 1 => x \notin DOMAIN C
BY DEF (-), SetToBag, IsABag

LEMMA AddNothing ==
  ASSUME NEW B, IsABag(B)
  PROVE  B (+) EmptyBag = B
BY DEF (+), EmptyBag, SetToBag, IsABag

LEMMA FewerOf ==
  ASSUME NEW B, IsABag(B), NEW C \in Fewer(B) \cup {EmptyBag}
  PROVE  /\ IsABag(C) /\ DOMAIN C \subseteq DOMAIN B
         /\ \A y \in DOMAIN C : C[y] =< B[y]
<1>1. CASE C = EmptyBag
  BY <1>1 DEF EmptyBag, SetToBag, IsABag
<1>2. CASE C \in Fewer(B)
  <2>1. PICK D \in SUBSET DOMAIN B : C \in [D -> 1..BagCardinality(B)] /\ \A x \in DOMAIN C : C[x] \in 1..B[x]
    BY <1>2 DEF Fewer, BagToSet
  <2>2. C = [y \in D |-> C[y]] /\ DOMAIN C = D
    BY <2>1
  <2>3. \A y \in D : B[y] \in Nat /\ C[y] \in 1..B[y]
    BY <2>1, <2>2 DEF IsABag
  <2>4. \A y \in D : C[y] \in Nat /\ C[y] > 0 /\ C[y] =< B[y]
    BY <2>3
  <2> QED BY <2>2, <2>4 DEF IsABag
<1> QED BY <1>1, <1>2

(* A payload has each of its callbacks, and each once.                     *)
LEMMA CallbacksListed ==
  ASSUME NEW T \in SUBSET Tasks
  PROVE  LET S == { [kind |-> "CALLBACK_WORK", of |-> t] : t \in T } IN
         \E c \in Nat : /\ Callbacks(T) \in [1..c -> S] /\ IsInjective(Callbacks(T))
                        /\ \A e \in S : \E n \in 1..c : Callbacks(T)[n] = e
<1> DEFINE entry == [t \in T |-> [kind |-> "CALLBACK_WORK", of |-> t]]
           S == { [kind |-> "CALLBACK_WORK", of |-> t] : t \in T }
           c == Cardinality(S)
           f == SetToSeq(S)
<1>1. IsFiniteSet(S)
  <2>1. IsFiniteSet(T)
    BY WorklistAssumption, FS_Subset
  <2>2. entry \in Surjection(T, S)
    BY DEF Surjection
  <2> QED BY <2>1, <2>2, FS_Surjection
<1> HIDE DEF S
<1>2. c \in Nat /\ ExistsBijection(1..c, S)
  BY <1>1, FS_CardinalityType
<1>3. \E g \in [1..c -> S] : IsInjective(g)
  BY <1>2 DEF ExistsBijection, Bijection, Injection
<1>4. f \in [1..c -> S] /\ IsInjective(f)
  BY <1>3 DEF SetToSeq
<1>5. \A e \in S : \E n \in 1..c : f[n] = e
  <2>1. Cardinality(1..c) = c
    BY <1>2, FS_Interval
  <2> HIDE DEF f
  <2>2. f \in Injection(1..c, S)
    BY <1>4 DEF Injection, IsInjective
  <2>3. f \in Surjection(1..c, S)
    <3> HIDE DEF c
    <3> QED BY <1>1, <2>1, <2>2, FS_Injection DEF c
  <2> QED BY <2>3 DEF Surjection
<1> HIDE DEF c, f
<1> QED BY <1>2, <1>4, <1>5 DEF Callbacks, f, S

LEMMA CallbacksOnce ==
  ASSUME NEW T \in SUBSET Tasks
  PROVE  /\ Sound(Callbacks(T), T)
         /\ T # {} => Callbacks(T) # <<>>
         /\ \A t \in T : Opens(Callbacks(T), t) # {}
         /\ \A n \in DOMAIN Callbacks(T) : Callbacks(T)[n].kind = "CALLBACK_WORK"
<1> DEFINE S == { [kind |-> "CALLBACK_WORK", of |-> t] : t \in T }
           f == Callbacks(T)
<1>1. \A e \in S : e \in Entries /\ e.of \in T /\ e.kind = "CALLBACK_WORK"
  BY DEF Entries
<1>2. \A t \in T : \E e \in S : e.kind = "CALLBACK_WORK" /\ e.of = t
  <2> TAKE t \in T
  <2> WITNESS [kind |-> "CALLBACK_WORK", of |-> t] \in S
  <2> QED OBVIOUS
<1>3. PICK c \in Nat : /\ f \in [1..c -> S] /\ IsInjective(f)
                       /\ \A e \in S : \E n \in 1..c : f[n] = e
  BY CallbacksListed
<1> HIDE DEF S, f
<1>4. f \in Seq(Entries) /\ DOMAIN f = 1..c
  BY <1>1, <1>3
<1>5. \A t \in T : Opens(f, t) # {}
  BY <1>2, <1>3, <1>4 DEF Opens
<1>6. T # {} => f # <<>>
  BY <1>5 DEF Opens
<1>7. \A n \in DOMAIN f : f[n] \in S
  BY <1>3, <1>4
<1>8. \A t \in Tasks : \A m, n \in Opens(f, t) : m = n /\ t \in T
  <2> SUFFICES ASSUME NEW t \in Tasks, NEW m \in Opens(f, t), NEW n \in Opens(f, t) PROVE m = n /\ t \in T
    OBVIOUS
  <2>1. /\ m \in DOMAIN f /\ n \in DOMAIN f /\ f[m] \in S /\ f[n] \in S
        /\ f[m].of = t /\ f[n].of = t
    BY <1>7 DEF Opens
  <2>2. f[m] = f[n]
    BY <2>1 DEF S
  <2> QED BY <1>1, <1>3, <2>1, <2>2 DEF IsInjective
<1> QED BY <1>1, <1>4, <1>5, <1>6, <1>7, <1>8 DEF Sound, f

------------------------------------------------------------------------------
(* What keeps Once.                                                        *)

LEMMA OnceKept ==
  ASSUME NEW t \in Tasks, Once(t), IsABag(handlers'), broadcasts'[t] = broadcasts[t],
         task[t].status = "none" => task'[t].status = "none",
         About(t)' \subseteq About(t), \A call \in About(t)' : handlers'[call] =< handlers[call]
  PROVE  Once(t)'
<1>1. broadcasts'[t] = 0 => task'[t].status = "none" /\ About(t)' = {}
  BY DEF Once
<1>2. ASSUME broadcasts'[t] = 1, NEW call \in About(t)'
      PROVE  /\ task'[t].status = "none" /\ handlers'[call] = 1 /\ About(t)' = {call}
             /\ \A m, n \in Opens(call, t) : m = n
  <2>1. call \in About(t) /\ task[t].status = "none" /\ handlers[call] = 1 /\ About(t) = {call}
        /\ \A m, n \in Opens(call, t) : m = n
    BY <1>2 DEF Once
  <2>2. call \in DOMAIN handlers'
    BY DEF About
  <2>3. handlers'[call] \in Nat /\ handlers'[call] > 0
    BY <2>2 DEF IsABag
  <2>4. handlers'[call] =< 1
    BY <2>1
  <2> QED BY <2>1, <2>3, <2>4
<1> HIDE DEF Opens
<1> QED BY <1>1, <1>2 DEF Once

(* Fewer calls are under way, and no task is begun.                        *)
LEMMA FewerKeep ==
  ASSUME IInv, IsABag(handlers'), DOMAIN handlers' \subseteq DOMAIN handlers,
         \A call \in DOMAIN handlers' : handlers'[call] =< handlers[call],
         broadcasts' = broadcasts,
         task' \in [Tasks -> Documents],
         \A t \in Tasks : task[t].status = "none" => task'[t].status = "none"
  PROVE  Shape' /\ \A t \in Tasks : Once(t)'
<1>1. Shape'
  BY DEF IInv, Shape
<1>2. \A t \in Tasks : About(t)' \subseteq About(t)
  BY DEF About
<1>3. ASSUME NEW t \in Tasks PROVE Once(t)'
  <2>1. Once(t) /\ \A call \in About(t)' : handlers'[call] =< handlers[call]
    BY DEF IInv, About
  <2> QED BY <1>2, <2>1, OnceKept
<1> QED BY <1>1, <1>3

(* The tasks change, and nothing is broadcast or projected.                *)
LEMMA TasksKeep ==
  ASSUME IInv, UNCHANGED <<handlers, broadcasts>>,
         task' \in [Tasks -> Documents],
         \A t \in Tasks : task[t].status = "none" => task'[t].status = "none"
  PROVE  Shape' /\ \A t \in Tasks : Once(t)'
<1>1. IsABag(handlers) /\ \A call \in DOMAIN handlers : handlers[call] =< handlers[call]
  BY DEF IInv, Shape, IsABag
<1> QED BY <1>1, FewerKeep

LEMMA NotifyKeeps ==
  ASSUME IInv, NEW payload, NEW rows, Sound(payload, rows), payload # <<>>,
         Notify(payload, rows), task' = task
  PROVE  Shape' /\ \A t \in Tasks : Once(t)'
<1>1. Shape
  BY DEF IInv
<1>2. /\ IsABag(handlers') /\ DOMAIN handlers' = DOMAIN handlers \cup {payload}
      /\ \A call \in DOMAIN handlers \ {payload} : handlers'[call] = handlers[call]
      /\ payload \notin DOMAIN handlers => handlers'[payload] = 1
  BY <1>1, AddOne DEF Notify, Shape
<1>3. /\ broadcasts' \in [Tasks -> Nat]
      /\ \A t \in Tasks : broadcasts'[t] = broadcasts[t] + IF t \in rows THEN 1 ELSE 0
  BY <1>1 DEF Notify, Shape
<1>4. payload \in Seq(Entries) /\ \A t \in Tasks : \A m, n \in Opens(payload, t) : m = n /\ t \in rows
  BY DEF Sound
<1>5. Shape'
  BY <1>1, <1>2, <1>3, <1>4 DEF Shape
<1>6. ASSUME NEW t \in Tasks PROVE Once(t)'
  <2>1. Once(t) /\ broadcasts[t] \in Nat /\ About(t)' = About(t) \cup {c \in {payload} : Opens(c, t) # {}}
    BY <1>2, <1>1 DEF IInv, Shape, About
  <2>2. CASE t \notin rows
    <3>1. Opens(payload, t) = {}
      BY <1>4, <2>2
    <3>2. About(t)' = About(t) /\ payload \notin About(t)
      BY <2>1, <3>1 DEF About
    <3>3. \A call \in About(t) :
            call \in DOMAIN handlers /\ handlers'[call] = handlers[call] /\ handlers[call] \in Nat
      BY <1>1, <1>2, <3>2 DEF About, Shape, IsABag
    <3>4. \A call \in About(t)' : handlers'[call] =< handlers[call]
      BY <3>2, <3>3
    <3>5. broadcasts'[t] = broadcasts[t]
      BY <1>3, <2>1, <2>2
    <3> QED BY <1>2, <2>1, <3>2, <3>4, <3>5, OnceKept
  <2>3. CASE t \in rows
    <3>1. broadcasts'[t] = broadcasts[t] + 1 /\ broadcasts'[t] # 0
      BY <1>3, <2>1, <2>3
    <3>2. ASSUME broadcasts'[t] = 1, NEW call \in About(t)'
          PROVE  /\ task'[t].status = "none" /\ handlers'[call] = 1 /\ About(t)' = {call}
                 /\ \A m, n \in Opens(call, t) : m = n
      <4>1. task[t].status = "none" /\ About(t) = {}
        BY <2>1, <3>1, <3>2 DEF Once
      <4>2. call = payload /\ About(t)' = {payload} /\ Opens(payload, t) # {}
        BY <2>1, <4>1
      <4>3. payload \notin DOMAIN handlers
        BY <4>1, <4>2 DEF About
      <4> QED BY <1>2, <1>4, <4>1, <4>2, <4>3
    <3> HIDE DEF Opens
    <3> QED BY <3>1, <3>2 DEF Once
  <2> QED BY <2>2, <2>3
<1> QED BY <1>5, <1>6

------------------------------------------------------------------------------
(* The projection.                                                         *)

(* A write of the projection begins a task only when it opens it.          *)
LEMMA WritesOfTheProjection ==
  ASSUME IInv, NEW call \in DOMAIN handlers, Project(call)
  PROVE  /\ task' \in [Tasks -> Documents]
         /\ \A t \in Tasks : 1 \notin Opens(call, t) =>
              /\ task[t].status = "none" => task'[t].status = "none"
              /\ task'[t] # task[t] => task'[t].status \in {"COMPLETED", "CANCELED"}
<1> DEFINE e == call[1]
<1>1. task \in [Tasks -> Documents]
  BY DEF IInv, Shape
<1>2. call \in Seq(Entries) /\ call # <<>> /\ 1 \in DOMAIN call /\ e \in Entries
  BY DEF IInv, Shape
<1>3. CASE e.kind = "CALLBACK_WORK"
  <2>1. task' = [task EXCEPT ![e.of].status = "OPEN"]
    BY <1>3 DEF Project, Upsert
  <2>2. \A t \in Tasks : 1 \notin Opens(call, t) => t # e.of
    BY <1>2, <1>3 DEF Opens
  <2>3. task' \in [Tasks -> Documents]
    BY <1>1, <2>1 DEF Documents
  <2>4. \A t \in Tasks : 1 \notin Opens(call, t) => task'[t] = task[t]
    BY <1>1, <2>1, <2>2
  <2> QED BY <2>3, <2>4
<1>4. CASE e.kind = "WORK_ITEM_COMPLETED"
  <2>1. task' = SetCompleted(e.of)
    BY <1>4 DEF Project
  <2> DEFINE new == IF task[e.of].status = "none" THEN "none" ELSE "COMPLETED"
  <2>2. task' = [task EXCEPT ![e.of].status = new]
    BY <2>1 DEF SetCompleted
  <2>3. new \in {"none", "COMPLETED"} /\ (new = "none" <=> task[e.of].status = "none")
    OBVIOUS
  <2> HIDE DEF new
  <2>4. \A t \in Tasks : task'[t] = IF t = e.of THEN [task[t] EXCEPT !.status = new] ELSE task[t]
    BY <1>1, <2>2
  <2>5. task' \in [Tasks -> Documents]
    BY <1>1, <2>2, <2>3 DEF Documents
  <2>6. \A t \in Tasks : /\ task[t].status = "none" => task'[t].status = "none"
                         /\ task'[t] # task[t] => task'[t].status \in {"COMPLETED", "CANCELED"}
    <3> SUFFICES ASSUME NEW t \in Tasks
                 PROVE  /\ task[t].status = "none" => task'[t].status = "none"
                        /\ task'[t] # task[t] => task'[t].status \in {"COMPLETED", "CANCELED"}
      OBVIOUS
    <3>1. CASE t # e.of
      BY <2>4, <3>1
    <3>2. CASE t = e.of
      <4>1. task'[t] = [task[t] EXCEPT !.status = new] /\ task[t] \in Documents
        BY <1>1, <2>4, <3>2
      <4>2. new = "none" => task'[t] = task[t]
        BY <2>3, <3>2, <4>1 DEF Documents
      <4>3. task'[t].status = new
        BY <4>1
      <4> QED BY <2>3, <3>2, <4>2, <4>3
    <3> QED BY <3>1, <3>2
  <2> QED BY <2>5, <2>6
<1>5. CASE e.kind = "INSTANCE_COMPLETED"
  <2> DEFINE gone(t) == [task[t] EXCEPT !.status = "CANCELED"]
  <2>1. task' = [t \in Tasks |-> IF task[t].status \in {"OPEN", "CLAIMED"} THEN gone(t) ELSE task[t]]
    BY <1>5 DEF Project, CancelRest
  <2>2. \A t \in Tasks : gone(t) \in Documents /\ gone(t).status = "CANCELED"
    BY <1>1 DEF Documents
  <2> HIDE DEF gone
  <2> QED BY <1>1, <2>1, <2>2
<1> QED BY <1>2, <1>3, <1>4, <1>5 DEF Entries

(* The call without its first write.                                       *)
LEMMA OpensOfTail ==
  ASSUME NEW call \in Seq(Entries), call # <<>>, NEW t
  PROVE  /\ \A n \in DOMAIN Tail(call) : n + 1 \in DOMAIN call /\ Tail(call)[n] = call[n + 1]
         /\ \A n \in Opens(Tail(call), t) : n \in Nat /\ n > 0 /\ n + 1 \in Opens(call, t)
         /\ Len(call) # 1 => Tail(call) \in Seq(Entries) /\ Tail(call) # <<>>
         /\ Tail(call) # call
<1>1. Len(call) \in Nat /\ Len(call) > 0 /\ DOMAIN call = 1..Len(call)
  OBVIOUS
<1> DEFINE rest == Tail(call)
<1>2. /\ rest \in Seq(Entries) /\ Len(rest) = Len(call) - 1
      /\ \A n \in 1..Len(rest) : rest[n] = call[n + 1]
  BY HeadTailProperties
<1> HIDE DEF rest
<1>3. DOMAIN rest = 1..(Len(call) - 1) /\ \A n \in DOMAIN rest : rest[n] = call[n + 1]
  BY <1>1, <1>2
<1>4. \A n \in DOMAIN rest : n \in Nat /\ n > 0 /\ n + 1 \in DOMAIN call
  BY <1>1, <1>3
<1>5. Len(call) # 1 => rest # <<>>
  BY <1>1, <1>2
<1>6. rest # call
  BY <1>1, <1>2
<1>7. \A n \in Opens(rest, t) : n \in Nat /\ n > 0 /\ n + 1 \in Opens(call, t)
  BY <1>3, <1>4 DEF Opens
<1> QED BY <1>2, <1>3, <1>4, <1>5, <1>6, <1>7 DEF rest

(* The calls under way after a write: its own has become shorter.          *)
LEMMA CallsAfterAWrite ==
  ASSUME IInv, NEW call \in DOMAIN handlers, Project(call), NEW rest, rest = Tail(call)
  PROVE  /\ IsABag(handlers') /\ DOMAIN handlers' \subseteq DOMAIN handlers \cup {rest}
         /\ rest \in DOMAIN handlers' /\ rest \notin DOMAIN handlers => handlers'[rest] = 1
         /\ \A c \in DOMAIN handlers' \ {rest} : handlers'[c] =< handlers[c]
         /\ handlers[call] = 1 => call \notin DOMAIN handlers'
         /\ \A c \in DOMAIN handlers' : c \in Seq(Entries) /\ c # <<>>
         /\ \A c \in DOMAIN handlers \ {call} : c \in DOMAIN handlers'
         /\ Len(call) # 1 => rest \in DOMAIN handlers'
<1> DEFINE less == handlers (-) SetToBag({call})
<1>1. IsABag(handlers) /\ \A c \in DOMAIN handlers : c \in Seq(Entries) /\ c # <<>>
  BY DEF IInv, Shape
<1>2. /\ IsABag(less) /\ DOMAIN less \subseteq DOMAIN handlers
      /\ \A c \in DOMAIN less : less[c] =< handlers[c]
      /\ \A c \in DOMAIN handlers \ {call} : c \in DOMAIN less
      /\ handlers[call] = 1 => call \notin DOMAIN less
  BY <1>1, TakeOne
<1>3. handlers' = less (+) (IF Len(call) = 1 THEN EmptyBag ELSE SetToBag({rest}))
  BY DEF Project
<1>4. rest # call /\ (Len(call) # 1 => rest \in Seq(Entries) /\ rest # <<>>)
  BY <1>1, OpensOfTail
<1> HIDE DEF less
<1>5. CASE Len(call) = 1
  <2>1. handlers' = less
    BY <1>2, <1>3, <1>5, AddNothing
  <2>2. rest \notin DOMAIN handlers => rest \notin DOMAIN less
    BY <1>2
  <2> QED BY <1>1, <1>2, <1>5, <2>1, <2>2
<1>6. CASE Len(call) # 1
  <2>1. handlers' = less (+) SetToBag({rest})
    BY <1>3, <1>6
  <2> DEFINE more == less (+) SetToBag({rest})
  <2>2. /\ IsABag(more) /\ DOMAIN more = DOMAIN less \cup {rest}
        /\ \A c \in DOMAIN less \ {rest} : more[c] = less[c]
        /\ rest \notin DOMAIN less => more[rest] = 1
    <3>1. IsABag(less)
      BY <1>2
    <3> QED BY <3>1, AddOne
  <2> HIDE DEF more
  <2>3. /\ IsABag(handlers') /\ DOMAIN handlers' = DOMAIN less \cup {rest}
        /\ \A c \in DOMAIN less \ {rest} : handlers'[c] = less[c]
        /\ rest \notin DOMAIN less => handlers'[rest] = 1
    BY <2>1, <2>2 DEF more
  <2> QED BY <1>1, <1>2, <1>4, <1>6, <2>3
<1> QED BY <1>5, <1>6

LEMMA ProjectKeeps ==
  ASSUME IInv, NEW call \in DOMAIN handlers, Project(call)
  PROVE  Shape' /\ \A t \in Tasks : Once(t)'
<1> DEFINE rest == Tail(call)
<1>1. /\ IsABag(handlers') /\ DOMAIN handlers' \subseteq DOMAIN handlers \cup {rest}
      /\ rest \in DOMAIN handlers' /\ rest \notin DOMAIN handlers => handlers'[rest] = 1
      /\ \A c \in DOMAIN handlers' \ {rest} : handlers'[c] =< handlers[c]
      /\ handlers[call] = 1 => call \notin DOMAIN handlers'
      /\ \A c \in DOMAIN handlers' : c \in Seq(Entries) /\ c # <<>>
  BY CallsAfterAWrite
<1>2. broadcasts' = broadcasts /\ call \in Seq(Entries) /\ call # <<>>
  BY DEF IInv, Shape, Project
<1>3. Shape'
  BY <1>1, <1>2, WritesOfTheProjection DEF IInv, Shape
<1>4. ASSUME NEW t \in Tasks PROVE Once(t)'
  <2>1. Once(t) /\ (1 \notin Opens(call, t) /\ task[t].status = "none" => task'[t].status = "none")
    BY WritesOfTheProjection DEF IInv
  <2>2. /\ \A n \in Opens(rest, t) : n \in Nat /\ n > 0 /\ n + 1 \in Opens(call, t)
        /\ rest # call
    BY <1>2, OpensOfTail
  <2> HIDE DEF rest
  <2>3. CASE call \notin About(t)
    <3>1. Opens(call, t) = {}
      BY <2>3 DEF About
    <3>2. Opens(rest, t) = {}
      BY <2>2, <3>1
    <3>3. About(t)' \subseteq About(t) /\ rest \notin About(t)'
      BY <1>1, <3>2 DEF About
    <3>4. \A c \in About(t)' : handlers'[c] =< handlers[c]
      BY <1>1, <3>3 DEF About
    <3> QED BY <1>1, <1>2, <2>1, <3>1, <3>3, <3>4, OnceKept
  <2>4. CASE call \in About(t)
    <3>1. broadcasts[t] # 0
      BY <2>1, <2>4 DEF Once
    <3>2. ASSUME broadcasts'[t] = 1, NEW c \in About(t)'
          PROVE  /\ task'[t].status = "none" /\ handlers'[c] = 1 /\ About(t)' = {c}
                 /\ \A m, n \in Opens(c, t) : m = n
      <4>1. /\ task[t].status = "none" /\ handlers[call] = 1 /\ About(t) = {call}
            /\ \A m, n \in Opens(call, t) : m = n
        BY <1>2, <2>1, <2>4, <3>2 DEF Once
      <4>2. \A d \in About(t)' : d = rest
        BY <1>1, <4>1 DEF About
      <4>3. c = rest /\ About(t)' = {c}
        BY <4>2, <3>2
      <4>4. rest \in DOMAIN handlers' /\ rest \notin DOMAIN handlers /\ Opens(rest, t) # {}
        BY <2>2, <3>2, <4>1, <4>3 DEF About
      <4>5. handlers'[c] = 1
        BY <1>1, <4>3, <4>4
      <4>6. PICK k \in Opens(rest, t) : k \in Nat /\ k > 0 /\ k + 1 \in Opens(call, t)
        BY <2>2, <4>4
      <4>7. k + 1 # 1
        BY <4>6
      <4>8. 1 \notin Opens(call, t)
        BY <4>1, <4>6, <4>7
      <4>9. \A m, n \in Opens(rest, t) : m = n
        <5>1. \A m, n \in Opens(rest, t) : m \in Nat /\ n \in Nat /\ m + 1 = n + 1
          BY <2>2, <4>1
        <5> QED BY <5>1
      <4> QED BY <2>1, <4>1, <4>3, <4>5, <4>8, <4>9
    <3> HIDE DEF Opens
    <3> QED BY <1>2, <3>1, <3>2 DEF Once
  <2> QED BY <2>3, <2>4
<1> QED BY <1>3, <1>4

------------------------------------------------------------------------------
(* The loops.                                                              *)

LEMMA Given ==
  ASSUME NEW loop \in [Servers -> Jobs], \A r \in Servers : Job(loop[r]),
         NEW s \in Servers, NEW j \in Jobs, Job(j)
  PROVE  LET next == [loop EXCEPT ![s] = j] IN
         next \in [Servers -> Jobs] /\ \A r \in Servers : Job(next[r])
<1> DEFINE next == [loop EXCEPT ![s] = j]
<1>1. next \in [Servers -> Jobs] /\ \A r \in Servers : next[r] = IF r = s THEN j ELSE loop[r]
  OBVIOUS
<1> HIDE DEF next
<1>2. \A r \in Servers : Job(next[r])
  BY <1>1
<1> QED BY <1>1, <1>2 DEF next

LEMMA IdleJob == Idle \in Jobs /\ Job(Idle)
BY DEF Idle, Jobs, Job, Sound, Opens

(* A loop that has nothing in hand.                                        *)
LEMMA WorkerIdles ==
  ASSUME Loops, NEW s \in Servers, worker' = [worker EXCEPT ![s] = Idle], UNCHANGED dispatcher
  PROVE  Loops'
BY IdleJob, Given DEF Loops

LEMMA DispatcherIdles ==
  ASSUME Loops, NEW s \in Servers, dispatcher' = [dispatcher EXCEPT ![s] = Idle], UNCHANGED worker
  PROVE  Loops'
BY IdleJob, Given DEF Loops

(* What a commit leaves the worker with.                                   *)
LEMMA CommitKeeps ==
  ASSUME IInv, NEW s \in Servers, NEW rows \in SUBSET Tasks, NEW payload,
         Sound(payload, rows), payload # <<>>, Commit(s, rows, payload)
  PROVE  IInv'
<1> DEFINE j == [at |-> "committed", rows |-> rows, payload |-> payload]
<1>1. j \in Jobs /\ Job(j)
  BY DEF Jobs, Job, Sound, Entries
<1>2. worker' = [worker EXCEPT ![s] = j] /\ UNCHANGED <<task, dispatcher, handlers, broadcasts>>
  BY DEF Commit
<1> HIDE DEF j
<1>3. Loops'
  BY <1>1, <1>2, Given DEF IInv, Loops
<1> QED BY <1>2, <1>3, TasksKeep DEF IInv, Shape

LEMMA Events ==
  /\ \A t \in Tasks : Sound(Completed(t), {}) /\ Completed(t) # <<>>
  /\ Sound(End, {}) /\ End # <<>>
<1>1. \A t \in Tasks : Completed(t) \in Seq(Entries)
  BY DEF Completed, Entries
<1>2. End \in Seq(Entries)
  BY DEF End, Entries
<1>3. \A t, u \in Tasks : Opens(Completed(t), u) = {} /\ Opens(End, u) = {}
  BY DEF Opens, Completed, End
<1> QED BY <1>1, <1>2, <1>3 DEF Sound, Completed, End

------------------------------------------------------------------------------
(* The steps.                                                              *)

LEMMA InitHolds == Init => IInv
<1> SUFFICES ASSUME Init PROVE IInv
  OBVIOUS
<1>1. IsABag(handlers) /\ DOMAIN handlers = {}
  BY DEF Init, EmptyBag, SetToBag, IsABag
<1>2. Shape
  BY <1>1 DEF Init, Shape, NoTask, Documents
<1>3. Loops
  BY IdleJob DEF Init, Loops
<1>4. \A t \in Tasks : Once(t)
  BY <1>1 DEF Init, Once, About, NoTask
<1> QED BY <1>2, <1>3, <1>4 DEF IInv

LEMMA WorkerSteps ==
  ASSUME IInv, NEW s \in Servers, Worker(s) \/ MarkFails(s)
  PROVE  IInv'
<1>1. CASE BroadcastAll(s)
  <2> DEFINE j == worker[s]
  <2>1. j \in Jobs /\ Job(j) /\ j.at = "committed" /\ Loops
    BY <1>1 DEF IInv, Loops, BroadcastAll
  <2>2. Shape' /\ \A t \in Tasks : Once(t)'
    BY <1>1, <2>1, NotifyKeeps DEF BroadcastAll, Job
  <2>3. CASE j.rows = {}
    BY <1>1, <2>1, <2>2, <2>3, WorkerIdles DEF BroadcastAll, IInv
  <2>4. CASE j.rows # {}
    <3> DEFINE k == [j EXCEPT !.at = "broadcast"]
    <3>1. k \in Jobs /\ k.rows = j.rows /\ k.payload = j.payload /\ k.at = "broadcast"
      BY <2>1 DEF Jobs
    <3>2. Job(k)
      BY <2>1, <3>1 DEF Job
    <3>3. worker' = [worker EXCEPT ![s] = k] /\ UNCHANGED dispatcher
      BY <1>1, <2>4 DEF BroadcastAll
    <3> HIDE DEF k
    <3>4. Loops'
      BY <2>1, <3>1, <3>2, <3>3, Given DEF Loops
    <3> QED BY <2>2, <3>4 DEF IInv
  <2> QED BY <2>3, <2>4
<1>2. CASE MarkOutboxSent(s) \/ MarkFails(s)
  <2>1. worker' = [worker EXCEPT ![s] = Idle] /\ UNCHANGED <<task, dispatcher, handlers, broadcasts>>
    BY <1>2 DEF MarkOutboxSent, MarkFails
  <2>2. Loops'
    BY <2>1, WorkerIdles DEF IInv
  <2> QED BY <2>1, <2>2, TasksKeep DEF IInv, Shape
<1> QED BY <1>1, <1>2 DEF Worker

LEMMA DispatcherSteps ==
  ASSUME IInv, NEW s \in Servers, Dispatcher(s)
  PROVE  IInv'
<1>0. Loops /\ dispatcher[s] \in Jobs /\ Job(dispatcher[s])
  BY DEF IInv, Loops
<1>1. CASE FindStragglers(s)
  <2> DEFINE j == [at |-> "found", rows |-> Stragglers, payload |-> Callbacks(Stragglers)]
  <2>1. Stragglers \in SUBSET Tasks /\ Stragglers # {}
    BY <1>1 DEF FindStragglers, Stragglers
  <2>2. Sound(Callbacks(Stragglers), Stragglers) /\ Callbacks(Stragglers) # <<>>
    BY <2>1, CallbacksOnce
  <2>3. j \in Jobs /\ Job(j)
    BY <2>1, <2>2 DEF Jobs, Job, Sound, Entries
  <2>4. dispatcher' = [dispatcher EXCEPT ![s] = j] /\ UNCHANGED <<task, worker, handlers, broadcasts>>
    BY <1>1 DEF FindStragglers
  <2> HIDE DEF j
  <2>5. Loops'
    BY <1>0, <2>3, <2>4, Given DEF Loops
  <2> QED BY <2>4, <2>5, TasksKeep DEF IInv, Shape
<1>2. CASE BroadcastOutbox(s)
  <2> DEFINE j == dispatcher[s]
             k == [j EXCEPT !.at = "broadcast"]
  <2>1. Shape' /\ \A t \in Tasks : Once(t)'
    BY <1>0, <1>2, NotifyKeeps DEF BroadcastOutbox, Job
  <2>2. k \in Jobs /\ k.rows = j.rows /\ k.payload = j.payload /\ k.at = "broadcast"
    BY <1>0 DEF Jobs
  <2>3. Job(k)
    BY <1>0, <2>2 DEF Job
  <2>4. dispatcher' = [dispatcher EXCEPT ![s] = k] /\ UNCHANGED worker
    BY <1>2 DEF BroadcastOutbox
  <2> HIDE DEF k
  <2>5. Loops'
    BY <1>0, <2>2, <2>3, <2>4, Given DEF Loops
  <2> QED BY <2>1, <2>5 DEF IInv
<1>3. CASE MarkStragglersSent(s)
  <2>1. dispatcher' = [dispatcher EXCEPT ![s] = Idle] /\ UNCHANGED <<task, worker, handlers, broadcasts>>
    BY <1>3 DEF MarkStragglersSent
  <2>2. Loops'
    BY <1>0, <2>1, DispatcherIdles
  <2> QED BY <2>1, <2>2, TasksKeep DEF IInv, Shape
<1> QED BY <1>1, <1>2, <1>3 DEF Dispatcher

LEMMA CrashKeeps ==
  ASSUME IInv, NEW s \in Servers, Crash(s)
  PROVE  IInv'
<1>1. IsABag(handlers) /\ Loops
  BY DEF IInv, Shape
<1>2. handlers' \in Fewer(handlers) \cup {EmptyBag}
  BY DEF Crash
<1>3. /\ IsABag(handlers') /\ DOMAIN handlers' \subseteq DOMAIN handlers
      /\ \A call \in DOMAIN handlers' : handlers'[call] =< handlers[call]
  BY <1>1, <1>2, FewerOf
<1>4. Shape' /\ \A t \in Tasks : Once(t)'
  BY <1>3, FewerKeep DEF Crash, IInv, Shape
<1>5. Loops'
  <2>1. worker' \in [Servers -> Jobs] /\ \A r \in Servers : Job(worker'[r])
    BY <1>1, IdleJob, Given DEF Crash, Loops
  <2>2. dispatcher' \in [Servers -> Jobs] /\ \A r \in Servers : Job(dispatcher'[r])
    BY <1>1, IdleJob, Given DEF Crash, Loops
  <2> QED BY <2>1, <2>2 DEF Loops
<1> QED BY <1>4, <1>5 DEF IInv

LEMMA ProjectionSteps ==
  ASSUME IInv, NEW call \in BagToSet(handlers), Project(call) \/ ProjectFails(call)
  PROVE  IInv'
<1>1. Loops' /\ call \in DOMAIN handlers /\ IsABag(handlers)
  BY DEF IInv, Shape, Loops, Project, ProjectFails, BagToSet
<1>2. CASE Project(call)
  BY <1>1, <1>2, ProjectKeeps DEF IInv
<1>3. CASE ProjectFails(call)
  <2>1. handlers' = handlers (-) SetToBag({call}) /\ UNCHANGED <<task, broadcasts>>
    BY <1>3 DEF ProjectFails
  <2>2. /\ IsABag(handlers') /\ DOMAIN handlers' \subseteq DOMAIN handlers
        /\ \A c \in DOMAIN handlers' : handlers'[c] =< handlers[c]
    BY <1>1, <2>1, TakeOne
  <2> QED BY <1>1, <2>1, <2>2, FewerKeep DEF IInv, Shape
<1> QED BY <1>2, <1>3

(* The steps that only change a task, or nothing that is spoken of.        *)
LEMMA OtherSteps ==
  ASSUME IInv, NEW t \in Tasks, UNCHANGED <<worker, dispatcher, handlers, broadcasts>>,
         \/ UNCHANGED task
         \/ \E u \in Users : ActivateTask(u, t) \/ UnclaimTask(u, t)
  PROVE  IInv'
<1>1. Loops' /\ task \in [Tasks -> Documents]
  BY DEF IInv, Loops, Shape
<1>2. CASE UNCHANGED task
  BY <1>1, <1>2, TasksKeep DEF IInv
<1>3. ASSUME NEW u \in Users, ActivateTask(u, t) \/ UnclaimTask(u, t) PROVE IInv'
  <2> DEFINE new == IF ActivateTask(u, t) THEN [status |-> "CLAIMED", assignee |-> u]
                    ELSE [status |-> "OPEN", assignee |-> NoOne]
  <2>1. task' = [task EXCEPT ![t] = new] /\ task[t].status # "none"
    BY <1>3 DEF ActivateTask, UnclaimTask
  <2>2. new \in Documents
    BY DEF Documents
  <2> HIDE DEF new
  <2>3. /\ task' \in [Tasks -> Documents]
        /\ \A r \in Tasks : task[r].status = "none" => task'[r].status = "none"
    BY <1>1, <2>1, <2>2
  <2> QED BY <1>1, <2>3, TasksKeep DEF IInv
<1> QED BY <1>2, <1>3

LEMMA StepHolds == IInv /\ [Next]_vars => IInv'
<1> SUFFICES ASSUME IInv, [Next]_vars PROVE IInv'
  OBVIOUS
<1>1. ASSUME NEW s \in Servers, NEW T \in SUBSET Tasks, CreateWorkItems(s, T) PROVE IInv'
  BY <1>1, CallbacksOnce, CommitKeeps DEF CreateWorkItems
<1>2. ASSUME NEW s \in Servers, NEW t \in Tasks, CompleteWorkItem(s, t) PROVE IInv'
  BY <1>2, Events, CommitKeeps DEF CompleteWorkItem
<1>3. ASSUME NEW s \in Servers, EndInstance(s) PROVE IInv'
  BY <1>3, Events, CommitKeeps DEF EndInstance
<1>4. ASSUME NEW s \in Servers, Worker(s) \/ MarkFails(s) PROVE IInv'
  BY <1>4, WorkerSteps
<1>5. ASSUME NEW s \in Servers, Dispatcher(s) PROVE IInv'
  BY <1>5, DispatcherSteps
<1>6. ASSUME NEW s \in Servers, Crash(s) PROVE IInv'
  BY <1>6, CrashKeeps
<1>7. ASSUME NEW call \in BagToSet(handlers), Project(call) \/ ProjectFails(call) PROVE IInv'
  BY <1>7, ProjectionSteps
<1>8. ASSUME NEW t \in Tasks, NEW u \in Users, ActivateTask(u, t) \/ UnclaimTask(u, t) PROVE IInv'
  BY <1>8, OtherSteps DEF ActivateTask, UnclaimTask, loopVars
<1>9. CASE UNCHANGED <<task, worker, dispatcher, handlers, broadcasts>>
  BY <1>9, TasksKeep DEF IInv, Shape, Loops
<1>10. \A u \in Users, t \in Tasks : ReadTask(u, t)
           => UNCHANGED <<task, worker, dispatcher, handlers, broadcasts>>
  BY DEF ReadTask, loopVars
<1>11. UNCHANGED vars => UNCHANGED <<task, worker, dispatcher, handlers, broadcasts>>
  BY DEF vars, loopVars
<1>12. \A t \in Tasks : GrowStale(t) \/ AnswerDirectly(t)
           => UNCHANGED <<task, worker, dispatcher, handlers, broadcasts>>
  BY DEF GrowStale, AnswerDirectly, loopVars
<1>13. \A u \in Users : InsertCompletion(u)
           => UNCHANGED <<task, worker, dispatcher, handlers, broadcasts>>
  BY DEF InsertCompletion, loopVars
<1> QED
  BY <1>1, <1>2, <1>3, <1>4, <1>5, <1>6, <1>7, <1>8, <1>9, <1>10, <1>11, <1>12, <1>13 DEF Next

(* Of every task whose callback has been broadcast at most once there is   *)
(* at most one write under way that would open it, and none once it has    *)
(* been opened.                                                            *)
THEOREM WorklistInvariance == Spec => []IInv
<1>1. Init => IInv
  BY InitHolds
<1>2. IInv /\ [Next]_vars => IInv'
  BY StepHolds
<1> QED BY <1>1, <1>2, PTL DEF Spec

(* A claimed task is its user's until he returns it, completes it or it is *)
(* closed, whatever fails, dies or is overtaken, unless its callback is    *)
(* broadcast a second time.                                                *)
THEOREM ClaimsAreKept == Spec => OnlyRepeatsTakeTasksAway
<1>1. IInv /\ [Next]_vars => [\A t \in Tasks : broadcasts[t] <= 1 => Keeps(t)]_vars
  <2> SUFFICES ASSUME IInv, [Next]_vars, NEW t \in Tasks, broadcasts[t] <= 1,
                      task[t].status = "CLAIMED", task'[t] # task[t]
               PROVE  \/ task'[t].status \in {"COMPLETED", "CANCELED"}
                      \/ UnclaimTask(task[t].assignee, t)
    BY DEF Keeps
  <2>1. Shape /\ broadcasts[t] \in {0, 1} /\ task \in [Tasks -> Documents]
    BY DEF IInv, Shape
  <2>2. About(t) = {}
    BY <2>1 DEF IInv, Once
  <2>3. ASSUME NEW call \in BagToSet(handlers), Project(call)
        PROVE  task'[t].status \in {"COMPLETED", "CANCELED"}
    <3>1. call \in DOMAIN handlers /\ 1 \notin Opens(call, t)
      BY <2>2 DEF BagToSet, About
    <3> QED BY <2>3, <3>1, WritesOfTheProjection
  <2>4. ASSUME NEW u \in Users, NEW r \in Tasks, ActivateTask(u, r)
        PROVE  FALSE
    BY <2>1, <2>4 DEF ActivateTask
  <2>5. ASSUME NEW u \in Users, NEW r \in Tasks, UnclaimTask(u, r)
        PROVE  UnclaimTask(task[t].assignee, t)
    <3>1. r = t
      BY <2>1, <2>5 DEF UnclaimTask
    <3>2. task[t].assignee = u
      BY <2>5, <3>1 DEF UnclaimTask
    <3> QED BY <2>5, <3>1, <3>2
  <2>6. task' # task
    OBVIOUS
  <2>7. ~ UNCHANGED vars
    BY <2>6 DEF vars
  <2>8. \A s \in Servers :
          /\ \A T \in SUBSET Tasks : ~ CreateWorkItems(s, T)
          /\ \A r \in Tasks : ~ CompleteWorkItem(s, r)
          /\ ~ EndInstance(s) /\ ~ Worker(s) /\ ~ MarkFails(s) /\ ~ Dispatcher(s) /\ ~ Crash(s)
    BY <2>6 DEF CreateWorkItems, CompleteWorkItem, EndInstance, Commit, Worker, BroadcastAll,
                MarkOutboxSent, MarkFails, Dispatcher, FindStragglers, BroadcastOutbox,
                MarkStragglersSent, Crash
  <2>9. /\ \A call \in BagToSet(handlers) : ~ ProjectFails(call)
        /\ \A r \in Tasks : ~ GrowStale(r) /\ ~ AnswerDirectly(r)
        /\ \A u \in Users : ~ InsertCompletion(u) /\ \A r \in Tasks : ~ ReadTask(u, r)
    BY <2>6 DEF ProjectFails, GrowStale, AnswerDirectly, InsertCompletion, ReadTask
  <2> QED BY <2>3, <2>4, <2>5, <2>7, <2>8, <2>9 DEF Next
<1> QED BY <1>1, WorklistInvariance, PTL DEF Spec, OnlyRepeatsTakeTasksAway

------------------------------------------------------------------------------
(* While nothing has failed, died or stalled.                              *)

(* A loop has something in hand exactly when it has something to           *)
(* broadcast, or has just broadcast it.                                    *)
Handed(j) == j.at = "idle" <=> j.payload = <<>>

(* The rest of the types.                                                  *)
Types ==
  /\ workItem \in [Tasks -> {"none", "OPEN", "DONE"}] /\ ended \in BOOLEAN
  /\ outbox \in [Tasks -> {"none", "READY", "STALE", "SENT"}]
  /\ \A t \in Tasks : outbox[t] = "none" <=> workItem[t] = "none"
  /\ \A s \in Servers : Handed(worker[s]) /\ Handed(dispatcher[s])
  /\ answered \subseteq Tasks /\ form \in [Users -> Tasks \cup {NoOne}]
  /\ mishaps \in 0..MaxMishaps

(* A row that is not yet sent is in the hands of the worker that has       *)
(* committed it, and of no other; nothing is left for the dispatchers.     *)
RowsAreHeld ==
  /\ \A s \in Servers : dispatcher[s] = Idle
  /\ \A t \in Tasks : outbox[t] # "STALE" /\ (outbox[t] = "READY" => \E s \in Servers : t \in worker[s].rows)
  /\ \A r, s \in Servers : \A t \in worker[r].rows \cap worker[s].rows : r = s
  /\ \A s \in Servers : \A t \in worker[s].rows :
       /\ workItem[t] # "none" /\ Opens(worker[s].payload, t) # {}
       /\ worker[s].at = "committed" => broadcasts[t] = 0
  /\ \A t \in Tasks : broadcasts[t] <= 1 /\ (workItem[t] = "none" => broadcasts[t] = 0)

(* What is under way tells the truth.                                      *)
Tells(e) ==
  /\ e.kind = "WORK_ITEM_COMPLETED" => e.of \in Tasks /\ workItem[e.of] = "DONE"
  /\ e.kind = "INSTANCE_COMPLETED" => ended

Telling(payload) == \A n \in DOMAIN payload : Tells(payload[n])

Truth ==
  /\ \A s \in Servers : Telling(worker[s].payload)
  /\ \A call \in DOMAIN handlers : Telling(call)

(* A work item has a task, or will have: its write is under way, or will   *)
(* be broadcast.                                                           *)
Opening(t) ==
  \/ task[t].status # "none" \/ About(t) # {}
  \/ \E s \in Servers : worker[s].at = "committed" /\ t \in worker[s].rows

(* The task of an item that is done is COMPLETED, or will be.              *)
Completing(t) ==
  \/ task[t].status = "COMPLETED"
  \/ Completed(t) \in DOMAIN handlers
  \/ \E s \in Servers : worker[s].at = "committed" /\ worker[s].payload = Completed(t)

(* Who answers through the worklist has seen the task, and none is closed  *)
(* before its work item is.                                                *)
Closing(t) ==
  /\ task[t].status \in {"COMPLETED", "CANCELED"} => workItem[t] = "DONE"
  /\ ended => workItem[t] # "OPEN"
  /\ t \notin Direct =>
       /\ \/ workItem[t] = "DONE" \/ t \in answered
          \/ \E u \in Users : form[u] = t
          => task[t].status # "none"
       /\ workItem[t] = "DONE" => Completing(t)

Quiet ==
  /\ RowsAreHeld
  /\ Truth
  /\ \A t \in Tasks : Closing(t) /\ (workItem[t] # "none" => Opening(t))

Undisturbed == mishaps = 0 => Quiet

------------------------------------------------------------------------------
(* The types.                                                              *)

LEMMA HandedOn ==
  ASSUME NEW loop \in [Servers -> Jobs], \A r \in Servers : Handed(loop[r]),
         NEW s \in Servers, NEW j \in Jobs, Handed(j)
  PROVE  \A r \in Servers : Handed([loop EXCEPT ![s] = j][r])
<1> DEFINE next == [loop EXCEPT ![s] = j]
<1>1. \A r \in Servers : next[r] = IF r = s THEN j ELSE loop[r]
  OBVIOUS
<1> HIDE DEF next
<1>2. \A r \in Servers : Handed(next[r])
  BY <1>1
<1> QED BY <1>2 DEF next

LEMMA IdleHanded == Idle \in Jobs /\ Handed(Idle)
BY IdleJob DEF Idle, Handed

(* A step of one of the loops of s.                                        *)
LEMMA LoopTypes ==
  ASSUME IInv, Types, NEW s \in Servers, NEW j \in Jobs, Handed(j),
         \/ worker' = [worker EXCEPT ![s] = j] /\ UNCHANGED dispatcher
         \/ dispatcher' = [dispatcher EXCEPT ![s] = j] /\ UNCHANGED worker
  PROVE  \A r \in Servers : Handed(worker'[r]) /\ Handed(dispatcher'[r])
<1>1. /\ worker \in [Servers -> Jobs] /\ \A r \in Servers : Handed(worker[r])
      /\ dispatcher \in [Servers -> Jobs] /\ \A r \in Servers : Handed(dispatcher[r])
  BY DEF IInv, Loops, Types
<1>2. CASE worker' = [worker EXCEPT ![s] = j] /\ UNCHANGED dispatcher
  BY <1>1, <1>2, HandedOn
<1>3. CASE dispatcher' = [dispatcher EXCEPT ![s] = j] /\ UNCHANGED worker
  BY <1>1, <1>3, HandedOn
<1> QED BY <1>2, <1>3

LEMMA CommitTypes ==
  ASSUME IInv, Types, NEW s \in Servers, NEW rows \in SUBSET Tasks, NEW payload \in Seq(Entries),
         payload # <<>>, Commit(s, rows, payload)
  PROVE  /\ \A r \in Servers : Handed(worker'[r]) /\ Handed(dispatcher'[r])
         /\ UNCHANGED <<answered, form, mishaps>>
<1> DEFINE j == [at |-> "committed", rows |-> rows, payload |-> payload]
<1>1. j \in Jobs /\ Handed(j)
  BY DEF Jobs, Entries, Handed
<1>2. worker' = [worker EXCEPT ![s] = j] /\ UNCHANGED <<dispatcher, answered, form, mishaps>>
  BY DEF Commit
<1> HIDE DEF j
<1> QED BY <1>1, <1>2, LoopTypes

(* What is marked as sent is a row.                                        *)
LEMMA SentTypes ==
  ASSUME Types, NEW rows, outbox' = Sent(rows), UNCHANGED workItem
  PROVE  /\ outbox' \in [Tasks -> {"none", "READY", "STALE", "SENT"}]
         /\ \A t \in Tasks : outbox'[t] = "none" <=> workItem'[t] = "none"
         /\ \A t \in Tasks : outbox'[t] \in {outbox[t], "SENT"} /\ (outbox'[t] = "READY" => t \notin rows)
<1>1. \A t \in Tasks : outbox'[t] = IF t \in rows /\ outbox[t] \in {"READY", "STALE"} THEN "SENT" ELSE outbox[t]
  BY DEF Sent
<1>2. outbox' \in [Tasks -> {"none", "READY", "STALE", "SENT"}]
  BY DEF Sent, Types
<1> QED BY <1>1, <1>2 DEF Types

LEMMA MishapTypes ==
  ASSUME Types, UNCHANGED mishaps \/ Mishap
  PROVE  mishaps' \in 0..MaxMishaps
BY WorklistAssumption DEF Types, Mishap

LEMMA TypesKept == IInv /\ Types /\ [Next]_vars => Types'
<1> SUFFICES ASSUME IInv, Types, [Next]_vars PROVE Types'
  OBVIOUS
<1>0. /\ worker \in [Servers -> Jobs] /\ dispatcher \in [Servers -> Jobs]
      /\ \A s \in Servers : Handed(worker[s]) /\ Handed(dispatcher[s])
      /\ UNCHANGED <<worker, dispatcher>> => \A s \in Servers : Handed(worker'[s]) /\ Handed(dispatcher'[s])
  BY DEF IInv, Loops, Types
<1>1. ASSUME NEW s \in Servers, NEW T \in SUBSET Tasks, CreateWorkItems(s, T) PROVE Types'
  <2>1. Callbacks(T) \in Seq(Entries) /\ Callbacks(T) # <<>> /\ Commit(s, T, Callbacks(T))
    BY <1>1, CallbacksOnce DEF CreateWorkItems, Sound
  <2>2. /\ \A r \in Servers : Handed(worker'[r]) /\ Handed(dispatcher'[r])
        /\ UNCHANGED <<answered, form, mishaps>>
    BY <2>1, CommitTypes
  <2>3. /\ workItem' = [t \in Tasks |-> IF t \in T THEN "OPEN" ELSE workItem[t]]
        /\ outbox' = [t \in Tasks |-> IF t \in T THEN "READY" ELSE outbox[t]]
        /\ ended' = ended
    BY <1>1 DEF CreateWorkItems
  <2>4. \A t \in Tasks : outbox'[t] = "none" <=> workItem'[t] = "none"
    BY <2>3 DEF Types
  <2>5. workItem' \in [Tasks -> {"none", "OPEN", "DONE"}] /\ outbox' \in [Tasks -> {"none", "READY", "STALE", "SENT"}]
    BY <2>3 DEF Types
  <2> QED BY <2>2, <2>3, <2>4, <2>5 DEF Types
<1>2. ASSUME NEW s \in Servers, NEW t \in Tasks, CompleteWorkItem(s, t) PROVE Types'
  <2>1. Completed(t) \in Seq(Entries) /\ Completed(t) # <<>> /\ Commit(s, {}, Completed(t))
    BY <1>2, Events DEF CompleteWorkItem, Sound
  <2>2. /\ \A r \in Servers : Handed(worker'[r]) /\ Handed(dispatcher'[r])
        /\ UNCHANGED <<answered, form, mishaps>>
    BY <2>1, CommitTypes
  <2>3. /\ workItem' = [workItem EXCEPT ![t] = "DONE"] /\ workItem[t] = "OPEN"
        /\ UNCHANGED <<ended, outbox>>
    BY <1>2 DEF CompleteWorkItem
  <2>4. workItem' \in [Tasks -> {"none", "OPEN", "DONE"}]
        /\ \A r \in Tasks : workItem'[r] = "none" <=> workItem[r] = "none"
    BY <2>3 DEF Types
  <2> QED BY <2>2, <2>3, <2>4 DEF Types
<1>3. ASSUME NEW s \in Servers, EndInstance(s) PROVE Types'
  <2>1. End \in Seq(Entries) /\ End # <<>> /\ Commit(s, {}, End)
    BY <1>3, Events DEF EndInstance, Sound
  <2>2. /\ \A r \in Servers : Handed(worker'[r]) /\ Handed(dispatcher'[r])
        /\ UNCHANGED <<answered, form, mishaps>>
    BY <2>1, CommitTypes
  <2> QED BY <1>3, <2>2 DEF EndInstance, Types
<1>4. ASSUME NEW s \in Servers, BroadcastAll(s) PROVE Types'
  <2> DEFINE k == [worker[s] EXCEPT !.at = "broadcast"]
             j == IF worker[s].rows = {} THEN Idle ELSE k
  <2>1. worker[s] \in Jobs /\ Handed(worker[s]) /\ worker[s].at = "committed"
    BY <1>0, <1>4 DEF BroadcastAll
  <2>2. k \in Jobs /\ k.at = "broadcast" /\ k.payload = worker[s].payload
    BY <2>1 DEF Jobs
  <2>3. Handed(k)
    BY <2>1, <2>2 DEF Handed
  <2> HIDE DEF k
  <2>4. j \in Jobs /\ Handed(j)
    BY <2>2, <2>3, IdleHanded
  <2>5. worker' = [worker EXCEPT ![s] = j] /\ UNCHANGED dispatcher
    BY <1>4 DEF BroadcastAll, k
  <2> HIDE DEF j
  <2>6. \A r \in Servers : Handed(worker'[r]) /\ Handed(dispatcher'[r])
    BY <2>4, <2>5, LoopTypes
  <2>7. UNCHANGED <<workItem, ended, outbox, answered, form, mishaps>>
    BY <1>4 DEF BroadcastAll, engineVars, userVars
  <2> QED BY <2>6, <2>7 DEF Types
<1>5. ASSUME NEW s \in Servers, MarkOutboxSent(s) PROVE Types'
  <2>1. /\ outbox' = Sent(worker[s].rows) /\ UNCHANGED <<workItem, ended, answered, form, mishaps>>
        /\ worker' = [worker EXCEPT ![s] = Idle] /\ UNCHANGED dispatcher
    BY <1>5 DEF MarkOutboxSent, engineVars, userVars
  <2>2. \A r \in Servers : Handed(worker'[r]) /\ Handed(dispatcher'[r])
    BY <2>1, IdleHanded, LoopTypes
  <2>3. /\ outbox' \in [Tasks -> {"none", "READY", "STALE", "SENT"}]
        /\ \A t \in Tasks : outbox'[t] = "none" <=> workItem'[t] = "none"
    BY <2>1, SentTypes
  <2> QED BY <2>1, <2>2, <2>3 DEF Types
<1>6. ASSUME NEW s \in Servers, MarkFails(s) PROVE Types'
  <2>1. /\ UNCHANGED <<workItem, ended, outbox, answered, form>> /\ Mishap
        /\ worker' = [worker EXCEPT ![s] = Idle] /\ UNCHANGED dispatcher
    BY <1>6 DEF MarkFails, engineVars, userVars
  <2>2. \A r \in Servers : Handed(worker'[r]) /\ Handed(dispatcher'[r])
    BY <2>1, IdleHanded, LoopTypes
  <2> QED BY <2>1, <2>2, MishapTypes DEF Types
<1>7. ASSUME NEW s \in Servers, FindStragglers(s) PROVE Types'
  <2> DEFINE j == [at |-> "found", rows |-> Stragglers, payload |-> Callbacks(Stragglers)]
  <2>1. Stragglers \in SUBSET Tasks /\ Stragglers # {}
    BY <1>7 DEF FindStragglers, Stragglers
  <2>2. Callbacks(Stragglers) \in Seq(Entries) /\ Callbacks(Stragglers) # <<>>
    BY <2>1, CallbacksOnce DEF Sound
  <2>3. j \in Jobs /\ Handed(j)
    BY <2>1, <2>2 DEF Jobs, Entries, Handed
  <2>4. dispatcher' = [dispatcher EXCEPT ![s] = j]
        /\ UNCHANGED <<worker, workItem, ended, outbox, answered, form, mishaps>>
    BY <1>7 DEF FindStragglers, engineVars, userVars
  <2> HIDE DEF j
  <2>5. \A r \in Servers : Handed(worker'[r]) /\ Handed(dispatcher'[r])
    BY <2>3, <2>4, LoopTypes
  <2> QED BY <2>4, <2>5 DEF Types
<1>8. ASSUME NEW s \in Servers, BroadcastOutbox(s) PROVE Types'
  <2> DEFINE k == [dispatcher[s] EXCEPT !.at = "broadcast"]
  <2>1. dispatcher[s] \in Jobs /\ Handed(dispatcher[s]) /\ dispatcher[s].at = "found"
    BY <1>0, <1>8 DEF BroadcastOutbox
  <2>2. k \in Jobs /\ k.at = "broadcast" /\ k.payload = dispatcher[s].payload
    BY <2>1 DEF Jobs
  <2>3. Handed(k)
    BY <2>1, <2>2 DEF Handed
  <2>4. dispatcher' = [dispatcher EXCEPT ![s] = k]
        /\ UNCHANGED <<worker, workItem, ended, outbox, answered, form, mishaps>>
    BY <1>8 DEF BroadcastOutbox, engineVars, userVars
  <2> HIDE DEF k
  <2>5. \A r \in Servers : Handed(worker'[r]) /\ Handed(dispatcher'[r])
    BY <2>2, <2>3, <2>4, LoopTypes
  <2> QED BY <2>4, <2>5 DEF Types
<1>9. ASSUME NEW s \in Servers, MarkStragglersSent(s) PROVE Types'
  <2>1. /\ outbox' = Sent(dispatcher[s].rows) /\ UNCHANGED <<workItem, ended, answered, form, mishaps>>
        /\ dispatcher' = [dispatcher EXCEPT ![s] = Idle] /\ UNCHANGED worker
    BY <1>9 DEF MarkStragglersSent, engineVars, userVars
  <2>2. \A r \in Servers : Handed(worker'[r]) /\ Handed(dispatcher'[r])
    BY <2>1, IdleHanded, LoopTypes
  <2>3. /\ outbox' \in [Tasks -> {"none", "READY", "STALE", "SENT"}]
        /\ \A t \in Tasks : outbox'[t] = "none" <=> workItem'[t] = "none"
    BY <2>1, SentTypes
  <2> QED BY <2>1, <2>2, <2>3 DEF Types
<1>10. ASSUME NEW s \in Servers, Crash(s) PROVE Types'
  <2>1. /\ UNCHANGED <<workItem, ended, outbox, answered, form>> /\ Mishap
        /\ worker' = [worker EXCEPT ![s] = Idle] /\ dispatcher' = [dispatcher EXCEPT ![s] = Idle]
    BY <1>10 DEF Crash, engineVars, userVars
  <2>2. \A r \in Servers : Handed(worker'[r])
    BY <1>0, <2>1, IdleHanded, HandedOn
  <2>3. \A r \in Servers : Handed(dispatcher'[r])
    BY <1>0, <2>1, IdleHanded, HandedOn
  <2> QED BY <2>1, <2>2, <2>3, MishapTypes DEF Types
<1>11. ASSUME NEW call \in BagToSet(handlers), Project(call) \/ ProjectFails(call) PROVE Types'
  <2>1. /\ UNCHANGED <<workItem, ended, outbox, worker, dispatcher, answered, form>>
        /\ UNCHANGED mishaps \/ Mishap
    BY <1>11 DEF Project, ProjectFails, engineVars, userVars
  <2> QED BY <1>0, <2>1, MishapTypes DEF Types
<1>12. ASSUME NEW t \in Tasks, GrowStale(t) PROVE Types'
  <2>1. /\ outbox' = [outbox EXCEPT ![t] = "STALE"] /\ outbox[t] = "READY"
        /\ UNCHANGED <<workItem, ended, worker, dispatcher, answered, form>>
        /\ UNCHANGED mishaps \/ Mishap
    BY <1>12 DEF GrowStale, engineVars, loopVars, userVars
  <2>2. /\ outbox' \in [Tasks -> {"none", "READY", "STALE", "SENT"}]
        /\ \A r \in Tasks : outbox'[r] = "none" <=> outbox[r] = "none"
    BY <2>1 DEF Types
  <2> QED BY <1>0, <2>1, <2>2, MishapTypes DEF Types
<1>13. ASSUME NEW t \in Tasks, AnswerDirectly(t) PROVE Types'
  <2>1. answered' = answered \cup {t} /\ UNCHANGED <<workItem, ended, outbox, worker, dispatcher, form, mishaps>>
    BY <1>13 DEF AnswerDirectly, engineVars, loopVars
  <2> QED BY <1>0, <2>1 DEF Types
<1>14. ASSUME NEW u \in Users, InsertCompletion(u) PROVE Types'
  <2>1. /\ answered' = answered \cup {form[u]} /\ form[u] # NoOne /\ form' = [form EXCEPT ![u] = NoOne]
        /\ UNCHANGED <<workItem, ended, outbox, worker, dispatcher, mishaps>>
    BY <1>14 DEF InsertCompletion, engineVars, loopVars
  <2>2. answered' \subseteq Tasks /\ form' \in [Users -> Tasks \cup {NoOne}]
    BY <2>1 DEF Types
  <2> QED BY <1>0, <2>1, <2>2 DEF Types
<1>15. ASSUME NEW u \in Users, NEW t \in Tasks, ActivateTask(u, t) \/ UnclaimTask(u, t) PROVE Types'
  <2>1. UNCHANGED <<workItem, ended, outbox, worker, dispatcher, answered, form, mishaps>>
    BY <1>15 DEF ActivateTask, UnclaimTask, engineVars, loopVars, userVars
  <2> QED BY <1>0, <2>1 DEF Types
<1>16. ASSUME NEW u \in Users, NEW t \in Tasks, ReadTask(u, t) PROVE Types'
  <2>1. form' = [form EXCEPT ![u] = t] /\ UNCHANGED <<workItem, ended, outbox, worker, dispatcher, answered, mishaps>>
    BY <1>16 DEF ReadTask, engineVars, loopVars
  <2> QED BY <1>0, <2>1 DEF Types
<1>17. CASE UNCHANGED vars
  <2>1. UNCHANGED <<workItem, ended, outbox, worker, dispatcher, answered, form, mishaps>>
    BY <1>17 DEF vars, engineVars, loopVars, userVars
  <2> QED BY <1>0, <2>1 DEF Types
<1> QED
  BY <1>1, <1>2, <1>3, <1>4, <1>5, <1>6, <1>7, <1>8, <1>9, <1>10, <1>11, <1>12, <1>13, <1>14, <1>15,
     <1>16, <1>17 DEF Next, Worker, Dispatcher

LEMMA TypesAtFirst == Init => Types
<1> SUFFICES ASSUME Init PROVE Types
  OBVIOUS
<1>1. \A s \in Servers : worker[s] = Idle /\ dispatcher[s] = Idle
  BY DEF Init
<1>2. \A s \in Servers : Handed(worker[s]) /\ Handed(dispatcher[s])
  BY <1>1, IdleHanded
<1>3. workItem \in [Tasks -> {"none", "OPEN", "DONE"}] /\ ended \in BOOLEAN
  BY DEF Init
<1>4. /\ outbox \in [Tasks -> {"none", "READY", "STALE", "SENT"}]
      /\ \A t \in Tasks : outbox[t] = "none" <=> workItem[t] = "none"
  BY DEF Init
<1>5. /\ answered \subseteq Tasks /\ form \in [Users -> Tasks \cup {NoOne}]
      /\ mishaps \in 0..MaxMishaps
  BY WorklistAssumption DEF Init
<1> QED BY <1>2, <1>3, <1>4, <1>5 DEF Types

LEMMA TypesTogether == IInv /\ Types => TypeOK
<1> SUFFICES ASSUME IInv, Types PROVE TypeOK
  OBVIOUS
<1>1. \A s \in Servers : \A j \in {worker[s], dispatcher[s]} : j \in Jobs /\ ((j.at = "idle") = (j.payload = <<>>))
  BY DEF IInv, Loops, Types, Handed
<1>2. \A t \in Tasks : (outbox[t] = "none") = (workItem[t] = "none")
  BY DEF Types
<1> QED BY <1>1, <1>2 DEF IInv, Shape, Types, TypeOK, Documents, BagToSet

------------------------------------------------------------------------------
(* What keeps the parts of Quiet.                                          *)

(* There is no task without a work item.                                   *)
LEMMA TasksHaveItems ==
  ASSUME IInv, RowsAreHeld, NEW t \in Tasks, task[t].status # "none"
  PROVE  workItem[t] # "none"
BY DEF IInv, Once, RowsAreHeld

LEMMA IdleHasNoRows ==
  ASSUME Types, RowsAreHeld, NEW s \in Servers, worker[s].at = "idle"
  PROVE  \A t \in Tasks : t \notin worker[s].rows
<1>1. worker[s].payload = <<>>
  BY DEF Types, Handed
<1> QED BY <1>1 DEF RowsAreHeld, Opens

(* A call under way stays so, one about to be made is made or stays.       *)
LEMMA PromisesKept ==
  ASSUME NEW t \in Tasks,
         task[t].status # "none" => task'[t].status # "none",
         task[t].status = "COMPLETED" => task'[t].status = "COMPLETED",
         DOMAIN handlers \subseteq DOMAIN handlers',
         \A s \in Servers : worker[s].at = "committed" =>
           \/ worker'[s] = worker[s]
           \/ /\ worker[s].payload \in DOMAIN handlers'
              /\ t \in worker[s].rows => Opens(worker[s].payload, t) # {}
  PROVE  (Opening(t) => Opening(t)') /\ (Completing(t) => Completing(t)')
<1>1. ASSUME Opening(t) PROVE Opening(t)'
  <2>1. CASE task[t].status # "none"
    BY <2>1 DEF Opening
  <2>2. CASE About(t) # {}
    <3>1. About(t)' # {}
      BY <2>2 DEF About
    <3> QED BY <3>1 DEF Opening
  <2>3. ASSUME NEW s \in Servers, worker[s].at = "committed", t \in worker[s].rows PROVE Opening(t)'
    <3>1. CASE worker'[s] = worker[s]
      BY <2>3, <3>1 DEF Opening
    <3>2. CASE worker[s].payload \in DOMAIN handlers' /\ Opens(worker[s].payload, t) # {}
      <4>1. PICK call : call = worker[s].payload
        OBVIOUS
      <4>2. call \in DOMAIN handlers' /\ Opens(call, t) # {}
        BY <3>2, <4>1
      <4>3. About(t)' # {}
        BY <4>2 DEF About
      <4> QED BY <4>3 DEF Opening
    <3> QED BY <2>3, <3>1, <3>2
  <2> QED BY <1>1, <2>1, <2>2, <2>3 DEF Opening
<1>2. ASSUME Completing(t) PROVE Completing(t)'
  BY <1>2 DEF Completing
<1> QED BY <1>1, <1>2

(* Nothing of what the tasks wait for has changed.                         *)
LEMMA TasksWait ==
  ASSUME NEW t \in Tasks, Closing(t), workItem[t] # "none" => Opening(t),
         UNCHANGED <<workItem, ended, answered, form>>, task'[t] = task[t],
         (Opening(t) => Opening(t)') /\ (Completing(t) => Completing(t)')
  PROVE  Closing(t)' /\ (workItem'[t] # "none" => Opening(t)')
BY DEF Closing

(* What a commit does to the workers.                                      *)
LEMMA Committed ==
  ASSUME IInv, Types, RowsAreHeld, NEW s \in Servers, NEW rows \in SUBSET Tasks,
         NEW payload \in Seq(Entries), Commit(s, rows, payload)
  PROVE  /\ \A r \in Servers \ {s} : worker'[r] = worker[r]
         /\ worker'[s].at = "committed" /\ worker'[s].rows = rows /\ worker'[s].payload = payload
         /\ \A t \in Tasks : t \notin worker[s].rows
         /\ \A t \in Tasks : (Opening(t) => Opening(t)') /\ (Completing(t) => Completing(t)')
         /\ UNCHANGED <<task, dispatcher, handlers, broadcasts, answered, form>>
<1> DEFINE j == [at |-> "committed", rows |-> rows, payload |-> payload]
<1>1. /\ worker' = [worker EXCEPT ![s] = j] /\ worker[s].at = "idle"
      /\ UNCHANGED <<task, dispatcher, handlers, broadcasts, answered, form>>
  BY DEF Commit
<1>2. worker \in [Servers -> Jobs]
  BY DEF IInv, Loops
<1>3. /\ \A r \in Servers \ {s} : worker'[r] = worker[r]
      /\ worker'[s] = j
  BY <1>1, <1>2
<1>4. j.at = "committed" /\ j.rows = rows /\ j.payload = payload
  OBVIOUS
<1> HIDE DEF j
<1>5. \A t \in Tasks : t \notin worker[s].rows
  BY <1>1, IdleHasNoRows
<1>6. ASSUME NEW t \in Tasks PROVE (Opening(t) => Opening(t)') /\ (Completing(t) => Completing(t)')
  <2>1. /\ task[t].status # "none" => task'[t].status # "none"
        /\ task[t].status = "COMPLETED" => task'[t].status = "COMPLETED"
        /\ DOMAIN handlers \subseteq DOMAIN handlers'
    BY <1>1
  <2>2. \A r \in Servers : worker[r].at = "committed" => worker'[r] = worker[r]
    BY <1>1, <1>3
  <2> QED BY <2>1, <2>2, PromisesKept
<1> QED BY <1>1, <1>3, <1>4, <1>5, <1>6

(* What has been told stays true.                                          *)
LEMMA TruthKept ==
  ASSUME NEW payload, Telling(payload), ended => ended',
         \A t \in Tasks : workItem[t] = "DONE" => workItem'[t] = "DONE"
  PROVE  \A n \in DOMAIN payload : Tells(payload[n])'
BY DEF Telling, Tells

(* The payloads under way are those that were, or were in a loop's hands.  *)
LEMMA AllTell ==
  ASSUME Truth, ended => ended', \A t \in Tasks : workItem[t] = "DONE" => workItem'[t] = "DONE",
         \A r \in Servers : \A p : p = worker'[r].payload =>
           p = worker[r].payload \/ Telling(p) \/ Telling(p)',
         \A call \in DOMAIN handlers' : call \in DOMAIN handlers \/ Telling(call)
  PROVE  Truth'
<1>1. \A p : Telling(p) => Telling(p)'
  BY TruthKept DEF Telling
<1>2. ASSUME NEW r \in Servers PROVE Telling(worker[r].payload)'
  <2>1. PICK p : p = worker'[r].payload
    OBVIOUS
  <2>2. p = worker[r].payload => Telling(p)
    BY DEF Truth
  <2>3. Telling(p)'
    BY <1>1, <2>1, <2>2
  <2> QED BY <2>1, <2>3
<1>3. \A call \in DOMAIN handlers' : Telling(call)'
  BY <1>1 DEF Truth
<1> QED BY <1>2, <1>3 DEF Truth

LEMMA CreatedQuietly ==
  ASSUME IInv, Types, Quiet, NEW s \in Servers, NEW T \in SUBSET Tasks, CreateWorkItems(s, T)
  PROVE  Quiet'
<1>1. Sound(Callbacks(T), T) /\ Callbacks(T) \in Seq(Entries) /\ Commit(s, T, Callbacks(T))
  BY CallbacksOnce DEF CreateWorkItems, Sound
<1>2. /\ workItem' = [t \in Tasks |-> IF t \in T THEN "OPEN" ELSE workItem[t]]
      /\ outbox' = [t \in Tasks |-> IF t \in T THEN "READY" ELSE outbox[t]]
      /\ ended' = ended /\ ~ ended /\ \A t \in T : workItem[t] = "none"
  BY DEF CreateWorkItems
<1>3. RowsAreHeld /\ Truth /\ \A t \in Tasks : Closing(t) /\ (workItem[t] # "none" => Opening(t))
  BY DEF Quiet
<1>4. /\ \A r \in Servers \ {s} : worker'[r] = worker[r]
      /\ worker'[s].at = "committed" /\ worker'[s].rows = T /\ worker'[s].payload = Callbacks(T)
      /\ \A t \in Tasks : t \notin worker[s].rows
      /\ \A t \in Tasks : (Opening(t) => Opening(t)') /\ (Completing(t) => Completing(t)')
      /\ UNCHANGED <<task, dispatcher, handlers, broadcasts, answered, form>>
  BY <1>1, <1>3, Committed
<1>5. \A t \in Tasks : /\ workItem'[t] = IF t \in T THEN "OPEN" ELSE workItem[t]
                       /\ outbox'[t] = IF t \in T THEN "READY" ELSE outbox[t]
  BY <1>2
<1>6. \A r \in Servers : \A t \in Tasks : t \in worker'[r].rows =>
        IF r = s THEN t \in T ELSE t \in worker[r].rows /\ t \notin T
  BY <1>2, <1>3, <1>4 DEF RowsAreHeld
<1>7. worker' \in [Servers -> Jobs]
  BY <1>1, CallbacksOnce, StepHolds DEF IInv, Loops, CreateWorkItems, Next
<1>8. \A r \in Servers : worker'[r].rows \subseteq Tasks
  BY <1>7 DEF Jobs
<1>9. RowsAreHeld'
  <2>1. \A r \in Servers : dispatcher'[r] = Idle
    BY <1>3, <1>4 DEF RowsAreHeld
  <2>2. \A t \in Tasks : outbox'[t] # "STALE" /\ (outbox'[t] = "READY" => \E r \in Servers : t \in worker'[r].rows)
    <3> SUFFICES ASSUME NEW t \in Tasks
                 PROVE  outbox'[t] # "STALE" /\ (outbox'[t] = "READY" => \E r \in Servers : t \in worker'[r].rows)
      OBVIOUS
    <3>1. CASE t \in T
      BY <1>4, <1>5, <3>1
    <3>2. CASE t \notin T
      <4>1. outbox[t] # "STALE" /\ (outbox[t] = "READY" => \E r \in Servers : t \in worker[r].rows)
        BY <1>3 DEF RowsAreHeld
      <4>2. \A r \in Servers : t \in worker[r].rows => t \in worker'[r].rows
        BY <1>4
      <4> QED BY <1>5, <3>2, <4>1, <4>2
    <3> QED BY <3>1, <3>2
  <2>3. \A p, r \in Servers : \A t \in worker'[p].rows \cap worker'[r].rows : p = r
    <3> SUFFICES ASSUME NEW p \in Servers, NEW r \in Servers, NEW t \in worker'[p].rows \cap worker'[r].rows
                 PROVE  p = r
      OBVIOUS
    <3>1. t \in Tasks
      BY <1>8
    <3>2. CASE p = s \/ r = s
      BY <1>6, <3>1, <3>2
    <3>3. CASE p # s /\ r # s
      BY <1>3, <1>4, <3>3 DEF RowsAreHeld
    <3> QED BY <3>2, <3>3
  <2>4. \A r \in Servers : \A t \in worker'[r].rows :
          /\ workItem'[t] # "none" /\ Opens(worker'[r].payload, t) # {}
          /\ worker'[r].at = "committed" => broadcasts'[t] = 0
    <3> SUFFICES ASSUME NEW r \in Servers, NEW t \in worker'[r].rows
                 PROVE  /\ workItem'[t] # "none" /\ Opens(worker'[r].payload, t) # {}
                        /\ worker'[r].at = "committed" => broadcasts'[t] = 0
      OBVIOUS
    <3>1. t \in Tasks
      BY <1>8
    <3>2. CASE r = s
      <4>1. t \in T /\ broadcasts[t] = 0
        BY <1>2, <1>3, <1>4, <3>1, <3>2 DEF RowsAreHeld
      <4>2. Opens(Callbacks(T), t) # {}
        BY <4>1, CallbacksOnce
      <4> QED BY <1>4, <1>5, <3>1, <3>2, <4>1, <4>2
    <3>3. CASE r # s
      <4>1. worker'[r] = worker[r] /\ t \in worker[r].rows /\ t \notin T
        BY <1>4, <1>6, <3>1, <3>3
      <4>2. /\ workItem[t] # "none" /\ Opens(worker[r].payload, t) # {}
            /\ worker[r].at = "committed" => broadcasts[t] = 0
        BY <1>3, <4>1 DEF RowsAreHeld
      <4> QED BY <1>4, <1>5, <3>1, <4>1, <4>2
    <3> QED BY <3>2, <3>3
  <2>5. \A t \in Tasks : broadcasts'[t] <= 1 /\ (workItem'[t] = "none" => broadcasts'[t] = 0)
    BY <1>3, <1>4, <1>5 DEF RowsAreHeld
  <2> QED BY <2>1, <2>2, <2>3, <2>4, <2>5 DEF RowsAreHeld
<1>10. Truth'
  <2>1. ended => ended'
    BY <1>2
  <2>2. \A t \in Tasks : workItem[t] = "DONE" => workItem'[t] = "DONE"
    BY <1>2, <1>5
  <2>3. \A r \in Servers : \A p : p = worker'[r].payload => p = worker[r].payload \/ Telling(p)
    BY <1>4, CallbacksOnce DEF Telling, Tells
  <2>4. \A call \in DOMAIN handlers' : call \in DOMAIN handlers
    BY <1>4
  <2> QED BY <1>3, <2>1, <2>2, <2>3, <2>4, AllTell
<1>11. ASSUME NEW t \in Tasks PROVE Closing(t)' /\ (workItem'[t] # "none" => Opening(t)')
  <2>1. CASE t \notin T
    <3>1. workItem'[t] = workItem[t]
      BY <1>5, <2>1
    <3> QED BY <1>2, <1>3, <1>4, <3>1 DEF Closing
  <2>2. CASE t \in T
    <3>1. workItem'[t] = "OPEN" /\ workItem[t] = "none"
      BY <1>2, <1>5, <2>2
    <3>2. Opening(t)'
      BY <1>4, <2>2 DEF Opening
    <3> QED BY <1>2, <1>3, <1>4, <3>1, <3>2 DEF Closing
  <2> QED BY <2>1, <2>2
<1> QED BY <1>9, <1>10, <1>11 DEF Quiet

(* No row is added.                                                        *)
LEMMA RowsKept ==
  ASSUME RowsAreHeld, UNCHANGED dispatcher,
         \A r \in Servers :
           \/ worker'[r] = worker[r] \/ worker'[r].rows = {}
           \/ /\ worker'[r].rows = worker[r].rows /\ worker'[r].payload = worker[r].payload
              /\ worker'[r].at # "committed",
         \A t \in Tasks : workItem'[t] = "none" <=> workItem[t] = "none",
         \A t \in Tasks : outbox'[t] \in {outbox[t], "SENT"},
         \A t \in Tasks : \A r \in Servers : t \in worker[r].rows \ worker'[r].rows => outbox'[t] # "READY",
         \A t \in Tasks : broadcasts'[t] <= 1 /\ (workItem[t] = "none" => broadcasts'[t] = 0),
         \A r \in Servers : \A t \in worker[r].rows :
           worker[r].at = "committed" /\ worker'[r] = worker[r] => broadcasts'[t] = broadcasts[t],
         \A r \in Servers : worker[r].rows \subseteq Tasks
  PROVE  RowsAreHeld'
<1>1. \A r \in Servers : worker'[r].rows \subseteq worker[r].rows
  OBVIOUS
<1>2. \A r \in Servers : dispatcher'[r] = Idle
  BY DEF RowsAreHeld
<1>3. \A t \in Tasks : outbox'[t] # "STALE" /\ (outbox'[t] = "READY" => \E r \in Servers : t \in worker'[r].rows)
  BY DEF RowsAreHeld
<1>4. \A p, r \in Servers : \A t \in worker'[p].rows \cap worker'[r].rows : p = r
  BY <1>1 DEF RowsAreHeld
<1>5. ASSUME NEW r \in Servers, NEW t \in worker'[r].rows
      PROVE  /\ workItem'[t] # "none" /\ Opens(worker'[r].payload, t) # {}
             /\ worker'[r].at = "committed" => broadcasts'[t] = 0
  <2>1. t \in worker[r].rows /\ t \in Tasks
    BY <1>1
  <2>2. /\ workItem[t] # "none" /\ Opens(worker[r].payload, t) # {}
        /\ worker[r].at = "committed" => broadcasts[t] = 0
    BY <2>1 DEF RowsAreHeld
  <2>3. worker'[r].payload = worker[r].payload /\ (worker'[r].at = "committed" => worker'[r] = worker[r])
    OBVIOUS
  <2> QED BY <2>1, <2>2, <2>3
<1> QED BY <1>2, <1>3, <1>4, <1>5 DEF RowsAreHeld

(* The facts about a state that the steps start from.                      *)
LEMMA QuietState ==
  ASSUME IInv, Types, Quiet
  PROVE  /\ RowsAreHeld /\ Truth
         /\ \A t \in Tasks : Closing(t) /\ (workItem[t] # "none" => Opening(t))
         /\ worker \in [Servers -> Jobs]
         /\ \A r \in Servers : worker[r].rows \subseteq Tasks
         /\ \A t \in Tasks : /\ broadcasts[t] \in Nat /\ broadcasts[t] <= 1
                             /\ workItem[t] = "none" => broadcasts[t] = 0
<1>1. worker \in [Servers -> Jobs] /\ \A t \in Tasks : broadcasts[t] \in Nat
  BY DEF IInv, Loops, Shape
<1>2. \A r \in Servers : worker[r].rows \subseteq Tasks
  BY <1>1 DEF Jobs
<1> QED BY <1>1, <1>2 DEF Quiet, RowsAreHeld

LEMMA EventsTell ==
  /\ \A t \in Tasks : workItem'[t] = "DONE" => Telling(Completed(t))'
  /\ ended' => Telling(End)'
BY DEF Telling, Tells, Completed, End

(* A commit that only tells of something, which is so from now on.         *)
LEMMA ToldQuietly ==
  ASSUME IInv, Types, Quiet, NEW s \in Servers, NEW payload \in Seq(Entries), Commit(s, {}, payload),
         UNCHANGED outbox, ended => ended',
         \A t \in Tasks : workItem'[t] = workItem[t] \/ (workItem[t] = "OPEN" /\ workItem'[t] = "DONE"),
         \A p : p = payload => Telling(p)'
  PROVE  /\ RowsAreHeld' /\ Truth'
         /\ \A t \in Tasks : (Opening(t) => Opening(t)') /\ (Completing(t) => Completing(t)')
         /\ worker'[s].at = "committed" /\ worker'[s].payload = payload
         /\ UNCHANGED <<task, answered, form>>
<1>1. /\ RowsAreHeld /\ Truth
      /\ \A r \in Servers : worker[r].rows \subseteq Tasks
      /\ \A t \in Tasks : /\ broadcasts[t] \in Nat /\ broadcasts[t] <= 1
                          /\ workItem[t] = "none" => broadcasts[t] = 0
  BY QuietState
<1>2. /\ \A r \in Servers \ {s} : worker'[r] = worker[r]
      /\ worker'[s].at = "committed" /\ worker'[s].rows = {} /\ worker'[s].payload = payload
      /\ \A t \in Tasks : t \notin worker[s].rows
      /\ \A t \in Tasks : (Opening(t) => Opening(t)') /\ (Completing(t) => Completing(t)')
      /\ UNCHANGED <<task, dispatcher, handlers, broadcasts, answered, form>>
  BY <1>1, Committed
<1>3. RowsAreHeld'
  <2>1. \A r \in Servers : worker'[r] = worker[r] \/ worker'[r].rows = {}
    BY <1>2
  <2>2. /\ \A t \in Tasks : workItem'[t] = "none" <=> workItem[t] = "none"
        /\ \A t \in Tasks : outbox'[t] \in {outbox[t], "SENT"}
        /\ UNCHANGED <<dispatcher, broadcasts>>
    BY <1>2
  <2>3. \A t \in Tasks : \A r \in Servers : t \in worker[r].rows \ worker'[r].rows => outbox'[t] # "READY"
    BY <1>2
  <2>4. \A t \in Tasks : broadcasts'[t] <= 1 /\ (workItem[t] = "none" => broadcasts'[t] = 0)
    BY <1>1, <1>2
  <2>5. \A r \in Servers : \A t \in worker[r].rows :
           worker[r].at = "committed" /\ worker'[r] = worker[r] => broadcasts'[t] = broadcasts[t]
    BY <1>2
  <2> QED BY <1>1, <2>1, <2>2, <2>3, <2>4, <2>5, RowsKept
<1>4. Truth'
  <2>1. \A r \in Servers : \A p : p = worker'[r].payload => p = worker[r].payload \/ Telling(p)'
    BY <1>2
  <2>2. \A call \in DOMAIN handlers' : call \in DOMAIN handlers
    BY <1>2
  <2>3. \A t \in Tasks : workItem[t] = "DONE" => workItem'[t] = "DONE"
    OBVIOUS
  <2> QED BY <1>1, <2>1, <2>2, <2>3, AllTell
<1> QED BY <1>2, <1>3, <1>4

LEMMA CompletedQuietly ==
  ASSUME IInv, Types, Quiet, NEW s \in Servers, NEW d \in Tasks, CompleteWorkItem(s, d)
  PROVE  Quiet'
<1>1. /\ d \in answered /\ workItem[d] = "OPEN" /\ workItem' = [workItem EXCEPT ![d] = "DONE"]
      /\ Completed(d) \in Seq(Entries) /\ Commit(s, {}, Completed(d)) /\ UNCHANGED <<ended, outbox>>
  BY Events DEF CompleteWorkItem, Sound
<1>2. \A t \in Tasks : workItem'[t] = IF t = d THEN "DONE" ELSE workItem[t]
  BY <1>1 DEF Types
<1>3. \A p : p = Completed(d) => Telling(p)'
  BY <1>2, EventsTell
<1>4. /\ RowsAreHeld' /\ Truth'
      /\ \A t \in Tasks : (Opening(t) => Opening(t)') /\ (Completing(t) => Completing(t)')
      /\ worker'[s].at = "committed" /\ worker'[s].payload = Completed(d)
      /\ UNCHANGED <<task, answered, form>>
  BY <1>1, <1>2, <1>3, ToldQuietly
<1>5. ASSUME NEW t \in Tasks PROVE Closing(t)' /\ (workItem'[t] # "none" => Opening(t)')
  <2>1. Closing(t) /\ (workItem[t] # "none" => Opening(t))
    BY QuietState
  <2>2. CASE t # d
    BY <1>1, <1>2, <1>4, <2>1, <2>2 DEF Closing
  <2>3. CASE t = d
    <3>1. Completing(t)'
      BY <1>4, <2>3 DEF Completing
    <3>2. workItem'[t] = "DONE" /\ Opening(t)' /\ (t \notin Direct => task'[t].status # "none")
      BY <1>1, <1>2, <1>4, <2>1, <2>3 DEF Closing
    <3> QED BY <3>1, <3>2 DEF Closing
  <2> QED BY <2>2, <2>3
<1> QED BY <1>4, <1>5 DEF Quiet

LEMMA EndedQuietly ==
  ASSUME IInv, Types, Quiet, NEW s \in Servers, EndInstance(s)
  PROVE  Quiet'
<1>1. /\ ended' /\ (\A t \in Tasks : workItem[t] # "OPEN")
      /\ End \in Seq(Entries) /\ Commit(s, {}, End) /\ UNCHANGED <<workItem, outbox>>
  BY Events DEF EndInstance, Sound
<1>2. \A p : p = End => Telling(p)'
  BY <1>1, EventsTell
<1>3. /\ RowsAreHeld' /\ Truth'
      /\ \A t \in Tasks : (Opening(t) => Opening(t)') /\ (Completing(t) => Completing(t)')
      /\ UNCHANGED <<task, answered, form>>
  BY <1>1, <1>2, ToldQuietly
<1>4. ASSUME NEW t \in Tasks PROVE Closing(t)' /\ (workItem'[t] # "none" => Opening(t)')
  BY <1>1, <1>3, QuietState DEF Closing
<1> QED BY <1>3, <1>4 DEF Quiet

(* A broadcast: what was to be said is being said.                         *)
LEMMA BroadcastQuietly ==
  ASSUME IInv, Types, Quiet, NEW s \in Servers, BroadcastAll(s)
  PROVE  Quiet'
<1>1. /\ RowsAreHeld /\ Truth /\ worker \in [Servers -> Jobs]
      /\ \A r \in Servers : worker[r].rows \subseteq Tasks
      /\ \A t \in Tasks : /\ broadcasts[t] \in Nat /\ broadcasts[t] <= 1
                          /\ workItem[t] = "none" => broadcasts[t] = 0
  BY QuietState
<1> DEFINE k == [worker[s] EXCEPT !.at = "broadcast"]
<1>2. /\ worker[s].at = "committed" /\ Notify(worker[s].payload, worker[s].rows)
      /\ worker' = [worker EXCEPT ![s] = IF worker[s].rows = {} THEN Idle ELSE k]
      /\ UNCHANGED <<workItem, ended, outbox, task, dispatcher, answered, form>>
  BY DEF BroadcastAll, engineVars, userVars
<1>3. k.at = "broadcast" /\ k.rows = worker[s].rows /\ k.payload = worker[s].payload
  BY <1>1 DEF Jobs
<1> HIDE DEF k
<1>4. /\ \A r \in Servers \ {s} : worker'[r] = worker[r]
      /\ worker'[s] = IF worker[s].rows = {} THEN Idle ELSE k
  BY <1>1, <1>2
<1>5. /\ worker'[s].at # "committed" /\ worker'[s].rows = worker[s].rows
      /\ worker'[s].payload = worker[s].payload \/ worker'[s].rows = {}
      /\ worker'[s].payload \in {worker[s].payload, <<>>}
  <2>1. CASE worker[s].rows = {}
    BY <1>4, <2>1 DEF Idle
  <2>2. CASE worker[s].rows # {}
    BY <1>3, <1>4, <2>2
  <2> QED BY <2>1, <2>2
<1>6. DOMAIN handlers' = DOMAIN handlers \cup {worker[s].payload}
  BY <1>2, AddOne DEF Notify, IInv, Shape
<1>7. \A t \in Tasks : broadcasts'[t] = broadcasts[t] + IF t \in worker[s].rows THEN 1 ELSE 0
  BY <1>2 DEF Notify
<1>8. RowsAreHeld'
  <2>1. \A r \in Servers :
           \/ worker'[r] = worker[r] \/ worker'[r].rows = {}
           \/ /\ worker'[r].rows = worker[r].rows /\ worker'[r].payload = worker[r].payload
              /\ worker'[r].at # "committed"
    BY <1>4, <1>5
  <2>2. \A t \in Tasks : \A r \in Servers : t \in worker[r].rows \ worker'[r].rows => outbox'[t] # "READY"
    BY <1>4, <1>5
  <2>3. \A t \in worker[s].rows : broadcasts[t] = 0 /\ workItem[t] # "none"
    BY <1>1, <1>2 DEF RowsAreHeld
  <2>4. \A t \in Tasks : broadcasts'[t] <= 1 /\ (workItem[t] = "none" => broadcasts'[t] = 0)
    BY <1>1, <1>7, <2>3
  <2>5. \A r \in Servers : \A t \in worker[r].rows :
           worker[r].at = "committed" /\ worker'[r] = worker[r] => broadcasts'[t] = broadcasts[t]
    <3> SUFFICES ASSUME NEW r \in Servers, NEW t \in worker[r].rows, worker[r].at = "committed", worker'[r] = worker[r]
                 PROVE  broadcasts'[t] = broadcasts[t]
      OBVIOUS
    <3>1. r # s /\ t \in Tasks
      BY <1>1, <1>5
    <3>2. t \notin worker[s].rows
      BY <1>1, <3>1 DEF RowsAreHeld
    <3> QED BY <1>1, <1>7, <3>1, <3>2
  <2>6. /\ \A t \in Tasks : workItem'[t] = "none" <=> workItem[t] = "none"
        /\ \A t \in Tasks : outbox'[t] \in {outbox[t], "SENT"}
        /\ UNCHANGED dispatcher
    BY <1>2
  <2> QED BY <1>1, <2>1, <2>2, <2>4, <2>5, <2>6, RowsKept
<1>9. Truth'
  <2>1. \A r \in Servers : \A p : p = worker'[r].payload => p = worker[r].payload \/ Telling(p)
    BY <1>4, <1>5 DEF Telling
  <2>2. \A call \in DOMAIN handlers' : call \in DOMAIN handlers \/ Telling(call)
    BY <1>1, <1>6 DEF Truth
  <2>3. (ended => ended') /\ \A t \in Tasks : workItem[t] = "DONE" => workItem'[t] = "DONE"
    BY <1>2
  <2> QED BY <1>1, <2>1, <2>2, <2>3, AllTell
<1>10. ASSUME NEW t \in Tasks PROVE Closing(t)' /\ (workItem'[t] # "none" => Opening(t)')
  <2>1. \A r \in Servers : worker[r].at = "committed" =>
          \/ worker'[r] = worker[r]
          \/ /\ worker[r].payload \in DOMAIN handlers'
             /\ t \in worker[r].rows => Opens(worker[r].payload, t) # {}
    BY <1>1, <1>4, <1>6 DEF RowsAreHeld
  <2>2. /\ task[t].status # "none" => task'[t].status # "none"
        /\ task[t].status = "COMPLETED" => task'[t].status = "COMPLETED"
        /\ DOMAIN handlers \subseteq DOMAIN handlers'
    BY <1>2, <1>6
  <2>3. (Opening(t) => Opening(t)') /\ (Completing(t) => Completing(t)')
    BY <2>1, <2>2, PromisesKept
  <2>4. Closing(t) /\ (workItem[t] # "none" => Opening(t))
    BY QuietState
  <2>5. task'[t] = task[t] /\ UNCHANGED <<workItem, ended, answered, form>>
    BY <1>2
  <2> QED BY <2>3, <2>4, <2>5, TasksWait
<1> QED BY <1>8, <1>9, <1>10 DEF Quiet

LEMMA MarkedQuietly ==
  ASSUME IInv, Types, Quiet, NEW s \in Servers, MarkOutboxSent(s)
  PROVE  Quiet'
<1>1. /\ RowsAreHeld /\ Truth /\ worker \in [Servers -> Jobs]
      /\ \A r \in Servers : worker[r].rows \subseteq Tasks
      /\ \A t \in Tasks : /\ broadcasts[t] \in Nat /\ broadcasts[t] <= 1
                          /\ workItem[t] = "none" => broadcasts[t] = 0
  BY QuietState
<1>2. /\ worker[s].at = "broadcast" /\ outbox' = Sent(worker[s].rows)
      /\ worker' = [worker EXCEPT ![s] = Idle]
      /\ UNCHANGED <<workItem, ended, task, dispatcher, handlers, broadcasts, answered, form>>
  BY DEF MarkOutboxSent, engineVars, userVars
<1>3. /\ \A r \in Servers \ {s} : worker'[r] = worker[r]
      /\ worker'[s].rows = {} /\ worker'[s].payload = <<>>
  BY <1>1, <1>2 DEF Idle
<1>4. \A t \in Tasks : outbox'[t] \in {outbox[t], "SENT"} /\ (outbox'[t] = "READY" => t \notin worker[s].rows)
  <2>1. UNCHANGED workItem
    BY <1>2
  <2> QED BY <1>2, <2>1, SentTypes
<1>5. RowsAreHeld'
  <2>1. \A r \in Servers : worker'[r] = worker[r] \/ worker'[r].rows = {}
    BY <1>3
  <2>2. \A t \in Tasks : \A r \in Servers : t \in worker[r].rows \ worker'[r].rows => outbox'[t] # "READY"
    BY <1>3, <1>4
  <2>3. /\ \A t \in Tasks : workItem'[t] = "none" <=> workItem[t] = "none"
        /\ \A t \in Tasks : outbox'[t] \in {outbox[t], "SENT"}
        /\ UNCHANGED dispatcher
    BY <1>2, <1>4
  <2>4. \A t \in Tasks : broadcasts'[t] <= 1 /\ (workItem[t] = "none" => broadcasts'[t] = 0)
    BY <1>1, <1>2
  <2>5. \A r \in Servers : \A t \in worker[r].rows :
           worker[r].at = "committed" /\ worker'[r] = worker[r] => broadcasts'[t] = broadcasts[t]
    BY <1>2
  <2> QED BY <1>1, <2>1, <2>2, <2>3, <2>4, <2>5, RowsKept
<1>6. Truth'
  <2>1. \A r \in Servers : \A p : p = worker'[r].payload => p = worker[r].payload \/ Telling(p)
    BY <1>3 DEF Telling
  <2>2. \A call \in DOMAIN handlers' : call \in DOMAIN handlers
    BY <1>2
  <2>3. (ended => ended') /\ \A t \in Tasks : workItem[t] = "DONE" => workItem'[t] = "DONE"
    BY <1>2
  <2> QED BY <1>1, <2>1, <2>2, <2>3, AllTell
<1>7. ASSUME NEW t \in Tasks PROVE Closing(t)' /\ (workItem'[t] # "none" => Opening(t)')
  <2>1. \A r \in Servers : worker[r].at = "committed" => worker'[r] = worker[r]
    BY <1>2, <1>3
  <2>2. /\ task[t].status # "none" => task'[t].status # "none"
        /\ task[t].status = "COMPLETED" => task'[t].status = "COMPLETED"
        /\ DOMAIN handlers \subseteq DOMAIN handlers'
    BY <1>2
  <2>3. (Opening(t) => Opening(t)') /\ (Completing(t) => Completing(t)')
    BY <2>1, <2>2, PromisesKept
  <2>4. Closing(t) /\ (workItem[t] # "none" => Opening(t))
    BY QuietState
  <2>5. task'[t] = task[t] /\ UNCHANGED <<workItem, ended, answered, form>>
    BY <1>2
  <2> QED BY <2>3, <2>4, <2>5, TasksWait
<1> QED BY <1>5, <1>6, <1>7 DEF Quiet

(* The steps of users and hosts, who look at the tasks.                    *)
LEMMA UsersQuietly ==
  ASSUME IInv, Types, Quiet, UNCHANGED <<workItem, ended, outbox, worker, dispatcher, handlers, broadcasts>>,
         \A t \in Tasks : task'[t] = task[t] \/ {task[t].status, task'[t].status} \subseteq {"OPEN", "CLAIMED"},
         \A t \in Tasks \ Direct : \/ t \in answered'
                                   \/ \E u \in Users : form'[u] = t
           => \/ t \in answered
              \/ \E u \in Users : form[u] = t
              \/ task[t].status # "none"
  PROVE  Quiet'
<1>1. RowsAreHeld /\ Truth
  BY QuietState
<1>2. RowsAreHeld' /\ Truth'
  BY <1>1 DEF RowsAreHeld, Truth, Telling, Tells
<1>3. ASSUME NEW t \in Tasks PROVE Closing(t)' /\ (workItem'[t] # "none" => Opening(t)')
  <2>1. /\ task[t].status # "none" => task'[t].status # "none"
        /\ task'[t].status \in {"COMPLETED", "CANCELED"} => task'[t] = task[t]
        /\ task[t].status = "COMPLETED" => task'[t].status = "COMPLETED"
    OBVIOUS
  <2>2. (Opening(t) => Opening(t)') /\ (Completing(t) => Completing(t)')
    BY <2>1, PromisesKept
  <2>3. Closing(t) /\ (workItem[t] # "none" => Opening(t))
    BY QuietState
  <2>4. t \notin Direct /\ (t \in answered' \/ \E u \in Users : form'[u] = t) => task[t].status # "none"
    BY <2>3 DEF Closing
  <2> QED BY <2>1, <2>2, <2>3, <2>4 DEF Closing
<1> QED BY <1>2, <1>3 DEF Quiet

(* A write of the projection.                                              *)
LEMMA ProjectedQuietly ==
  ASSUME IInv, Types, Quiet, NEW call \in DOMAIN handlers, Project(call)
  PROVE  Quiet'
<1> DEFINE rest == Tail(call)
           e == call[1]
<1>1. /\ RowsAreHeld /\ Truth /\ worker \in [Servers -> Jobs]
      /\ \A t \in Tasks : /\ broadcasts[t] \in Nat /\ broadcasts[t] <= 1
                          /\ workItem[t] = "none" => broadcasts[t] = 0
  BY QuietState
<1>2. UNCHANGED <<workItem, ended, outbox, worker, dispatcher, broadcasts, answered, form>>
  BY DEF Project, engineVars, userVars
<1>3. /\ call \in Seq(Entries) /\ call # <<>> /\ 1 \in DOMAIN call
      /\ e \in Entries /\ Telling(call) /\ Tells(e)
  <2>1. call \in Seq(Entries) /\ call # <<>>
    BY DEF IInv, Shape
  <2> QED BY <1>1, <2>1 DEF Truth, Telling
<1>4. /\ DOMAIN handlers' \subseteq DOMAIN handlers \cup {rest}
      /\ \A c \in DOMAIN handlers \ {call} : c \in DOMAIN handlers'
      /\ Len(call) # 1 => rest \in DOMAIN handlers'
  BY CallsAfterAWrite
<1>5. \A n \in DOMAIN rest : n + 1 \in DOMAIN call /\ rest[n] = call[n + 1]
  BY <1>3, OpensOfTail
<1>6. RowsAreHeld'
  BY <1>1, <1>2 DEF RowsAreHeld
<1>7. Truth'
  <2>1. Telling(rest)
    BY <1>3, <1>5 DEF Telling
  <2> HIDE DEF rest
  <2>2. \A c \in DOMAIN handlers' : c \in DOMAIN handlers \/ Telling(c)
    BY <1>4, <2>1
  <2>3. \A r \in Servers : \A p : p = worker'[r].payload => p = worker[r].payload
    BY <1>2
  <2>4. (ended => ended') /\ \A t \in Tasks : workItem[t] = "DONE" => workItem'[t] = "DONE"
    BY <1>2
  <2> QED BY <1>1, <2>2, <2>3, <2>4, AllTell
(* What is left to be written about another task is as before.             *)
<1>8. ASSUME NEW t \in Tasks, 1 \notin Opens(call, t), About(t) # {} PROVE About(t)' # {}
  <2>1. PICK c \in DOMAIN handlers : Opens(c, t) # {}
    BY <1>8 DEF About
  <2>2. CASE c # call
    <3>1. c \in DOMAIN handlers'
      BY <1>4, <2>2
    <3> QED BY <2>1, <3>1 DEF About
  <2>3. CASE c = call
    <3>1. PICK n \in Opens(call, t) : n # 1
      BY <1>8, <2>1, <2>3
    <3>2. n \in 1..Len(call) /\ Len(call) \in Nat /\ call[n].kind = "CALLBACK_WORK" /\ call[n].of = t
      BY <1>3, <3>1 DEF Opens
    <3>3. Len(call) # 1 /\ n - 1 \in 1..(Len(call) - 1)
      BY <3>1, <3>2
    <3>4. DOMAIN rest = 1..(Len(call) - 1)
      BY <1>3, HeadTailProperties
    <3>5. rest[n - 1] = call[n]
      BY <1>5, <3>2, <3>3, <3>4
    <3> HIDE DEF rest
    <3>6. n - 1 \in Opens(rest, t)
      BY <3>2, <3>3, <3>4, <3>5 DEF Opens
    <3>7. rest \in DOMAIN handlers'
      BY <1>4, <3>3
    <3> QED BY <3>6, <3>7 DEF About
  <2> QED BY <2>2, <2>3
<1>9. ASSUME NEW t \in Tasks, Completing(t), call # Completed(t),
             task[t].status = "COMPLETED" => task'[t].status = "COMPLETED"
      PROVE  Completing(t)'
  BY <1>2, <1>4, <1>9 DEF Completing
<1>10. ASSUME NEW t \in Tasks, 1 \notin Opens(call, t) \/ task'[t].status # "none", Opening(t),
              task[t].status # "none" => task'[t].status # "none"
       PROVE  Opening(t)'
  BY <1>2, <1>8, <1>10 DEF Opening
<1> HIDE DEF rest
<1>11. task \in [Tasks -> Documents] /\ \A t \in Tasks : Once(t)
  BY DEF IInv, Shape
<1>12. ASSUME NEW t \in Tasks PROVE Closing(t)' /\ (workItem'[t] # "none" => Opening(t)')
  <2>1. Closing(t) /\ (workItem[t] # "none" => Opening(t)) /\ (task[t].status # "none" => workItem[t] # "none")
    BY <1>1, QuietState, TasksHaveItems
  <2>2. CASE e.kind = "CALLBACK_WORK"
    <3>1. task' = [task EXCEPT ![e.of].status = "OPEN"] /\ call # Completed(t)
      BY <2>2 DEF Project, Upsert, Completed
    <3>2. CASE e.of = t
      <4>1. 1 \in Opens(call, t) /\ call \in About(t)
        BY <1>3, <2>2, <3>2 DEF Opens, About
      <4>2. task[t].status = "none" /\ task'[t].status = "OPEN"
        <5>1. broadcasts[t] \in Nat /\ broadcasts[t] # 0
          BY <1>1, <1>11, <4>1 DEF Once
        <5>2. broadcasts[t] = 1
          BY <1>1, <5>1
        <5> QED BY <1>11, <3>1, <3>2, <4>1, <5>2 DEF Once, Documents
      <4>3. t \notin Direct => workItem[t] # "DONE"
        BY <2>1, <4>2 DEF Closing
      <4> QED BY <1>2, <1>10, <2>1, <4>2, <4>3 DEF Closing
    <3>3. CASE e.of # t
      <4>1. task'[t] = task[t] /\ 1 \notin Opens(call, t)
        BY <1>11, <3>1, <3>3 DEF Opens
      <4> QED BY <1>2, <1>9, <1>10, <2>1, <3>1, <4>1 DEF Closing
    <3> QED BY <3>2, <3>3
  <2>3. CASE e.kind = "WORK_ITEM_COMPLETED"
    <3>1. task' = SetCompleted(e.of) /\ 1 \notin Opens(call, t) /\ e.of \in Tasks /\ workItem[e.of] = "DONE"
      BY <1>3, <2>3 DEF Project, Opens, Tells
    <3>2. CASE e.of = t
      <4>1. task'[t].status = IF task[t].status = "none" THEN "none" ELSE "COMPLETED"
        BY <1>11, <3>1, <3>2 DEF SetCompleted, Documents
      <4>2. t \notin Direct => Completing(t)'
        BY <2>1, <3>1, <3>2, <4>1 DEF Closing, Completing
      <4> QED BY <1>2, <1>10, <2>1, <3>1, <3>2, <4>1, <4>2 DEF Closing
    <3>3. CASE e.of # t
      <4>1. task'[t] = task[t] /\ call # Completed(t)
        BY <1>11, <3>1, <3>3 DEF SetCompleted, Completed
      <4> QED BY <1>2, <1>9, <1>10, <2>1, <3>1, <4>1 DEF Closing
    <3> QED BY <3>2, <3>3
  <2>4. CASE e.kind = "INSTANCE_COMPLETED"
    <3>1. task' = CancelRest /\ 1 \notin Opens(call, t) /\ ended /\ call # Completed(t)
      BY <1>3, <2>4 DEF Project, Opens, Tells, Completed
    <3>2. task'[t] = IF task[t].status \in {"OPEN", "CLAIMED"} THEN [task[t] EXCEPT !.status = "CANCELED"] ELSE task[t]
      BY <1>11, <3>1 DEF CancelRest
    <3>3. /\ task[t].status # "none" => task'[t].status # "none"
          /\ task[t].status = "COMPLETED" => task'[t].status = "COMPLETED"
      BY <1>11, <3>2 DEF Documents
    <3>4. task'[t].status = "CANCELED" => workItem[t] = "DONE"
      <4>1. workItem[t] \in {"none", "OPEN", "DONE"}
        BY DEF Types
      <4> QED BY <2>1, <3>1, <3>2, <4>1 DEF Closing
    <3>5. task'[t].status = "COMPLETED" => task[t].status = "COMPLETED"
      BY <1>11, <3>2 DEF Documents
    <3> QED BY <1>2, <1>9, <1>10, <2>1, <3>1, <3>3, <3>4, <3>5 DEF Closing
  <2> QED BY <1>3, <2>2, <2>3, <2>4 DEF Entries
<1> QED BY <1>6, <1>7, <1>12 DEF Quiet

------------------------------------------------------------------------------

LEMMA StaysQuiet == IInv /\ Types /\ Undisturbed /\ [Next]_vars => Undisturbed'
<1> SUFFICES ASSUME IInv, Types, Undisturbed, [Next]_vars, mishaps' = 0 PROVE Quiet'
  BY DEF Undisturbed
<1>0. ~ Mishap
  BY WorklistAssumption DEF Types, Mishap
<1>1. mishaps = 0
  <2>1. Mishap \/ UNCHANGED mishaps
    BY DEF Next, vars, CreateWorkItems, CompleteWorkItem, EndInstance, Commit, Worker, BroadcastAll,
           MarkOutboxSent, MarkFails, Dispatcher, FindStragglers, BroadcastOutbox, MarkStragglersSent,
           Crash, Project, ProjectFails, GrowStale, AnswerDirectly, InsertCompletion, ActivateTask,
           UnclaimTask, ReadTask
  <2> QED BY <1>0, <2>1
<1>2. Quiet /\ RowsAreHeld
  BY <1>1 DEF Undisturbed, Quiet
<1>3. ASSUME NEW s \in Servers PROVE ~ MarkFails(s) /\ ~ Crash(s) /\ ~ Dispatcher(s)
  <2>1. Stragglers = {} /\ dispatcher[s].at = "idle"
    BY <1>2 DEF RowsAreHeld, Stragglers, Idle
  <2> QED BY <1>0, <2>1 DEF MarkFails, Crash, Dispatcher, FindStragglers, BroadcastOutbox, MarkStragglersSent
<1>4. /\ \A call \in BagToSet(handlers) : ~ ProjectFails(call)
      /\ \A t \in Tasks : ~ GrowStale(t)
  BY <1>0, <1>2 DEF ProjectFails, GrowStale, RowsAreHeld
<1>5. ASSUME NEW s \in Servers, NEW T \in SUBSET Tasks, CreateWorkItems(s, T) PROVE Quiet'
  BY <1>2, <1>5, CreatedQuietly
<1>6. ASSUME NEW s \in Servers, NEW t \in Tasks, CompleteWorkItem(s, t) PROVE Quiet'
  BY <1>2, <1>6, CompletedQuietly
<1>7. ASSUME NEW s \in Servers, EndInstance(s) \/ Worker(s) PROVE Quiet'
  BY <1>2, <1>7, EndedQuietly, BroadcastQuietly, MarkedQuietly DEF Worker
<1>8. ASSUME NEW call \in BagToSet(handlers), Project(call) PROVE Quiet'
  BY <1>2, <1>8, ProjectedQuietly DEF BagToSet
<1>9. task \in [Tasks -> Documents] /\ form \in [Users -> Tasks \cup {NoOne}] /\ NoOne \notin Tasks
  BY WorklistAssumption DEF IInv, Shape, Types
<1>10. ASSUME NEW u \in Users, NEW t \in Tasks, ActivateTask(u, t) \/ UnclaimTask(u, t) PROVE Quiet'
  <2>1. UNCHANGED <<workItem, ended, outbox, worker, dispatcher, handlers, broadcasts, answered, form>>
    BY <1>10 DEF ActivateTask, UnclaimTask, engineVars, loopVars, userVars
  <2>2. PICK new \in Documents : task' = [task EXCEPT ![t] = new] /\ {task[t].status, new.status} \subseteq {"OPEN", "CLAIMED"}
    BY <1>10 DEF ActivateTask, UnclaimTask, Documents
  <2>3. \A r \in Tasks : task'[r] = task[r] \/ {task[r].status, task'[r].status} \subseteq {"OPEN", "CLAIMED"}
    BY <1>9, <2>2
  <2> QED BY <1>2, <2>1, <2>3, UsersQuietly
<1>11. ASSUME NEW u \in Users, NEW t \in Tasks, ReadTask(u, t) PROVE Quiet'
  <2>1. /\ UNCHANGED <<workItem, ended, outbox, worker, dispatcher, handlers, broadcasts, answered, task>>
        /\ form' = [form EXCEPT ![u] = t] /\ task[t].status # "none"
    BY <1>11 DEF ReadTask, engineVars, loopVars
  <2>2. \A r \in Tasks : (\E v \in Users : form'[v] = r) => (\E v \in Users : form[v] = r) \/ r = t
    BY <1>9, <2>1
  <2> QED BY <1>2, <2>1, <2>2, UsersQuietly
<1>12. ASSUME NEW u \in Users, InsertCompletion(u) PROVE Quiet'
  <2>1. /\ UNCHANGED <<workItem, ended, outbox, worker, dispatcher, handlers, broadcasts, task>>
        /\ form' = [form EXCEPT ![u] = NoOne] /\ answered' = answered \cup {form[u]}
    BY <1>12 DEF InsertCompletion, engineVars, loopVars
  <2>2. \A r \in Tasks : (\E v \in Users : form'[v] = r) => \E v \in Users : form[v] = r
    BY <1>9, <2>1
  <2> QED BY <1>2, <2>1, <2>2, UsersQuietly
<1>13. ASSUME NEW t \in Tasks, AnswerDirectly(t) PROVE Quiet'
  <2>1. /\ UNCHANGED <<workItem, ended, outbox, worker, dispatcher, handlers, broadcasts, task, form>>
        /\ t \in Direct /\ answered' = answered \cup {t}
    BY <1>13 DEF AnswerDirectly, engineVars, loopVars
  <2> QED BY <1>2, <2>1, UsersQuietly
<1>14. CASE UNCHANGED vars
  <2>1. UNCHANGED <<workItem, ended, outbox, worker, dispatcher, handlers, broadcasts, task, form, answered>>
    BY <1>14 DEF vars, engineVars, loopVars, userVars
  <2> QED BY <1>2, <2>1, UsersQuietly
<1> QED BY <1>3, <1>4, <1>5, <1>6, <1>7, <1>8, <1>10, <1>11, <1>12, <1>13, <1>14 DEF Next

LEMMA QuietAtFirst == Init => Undisturbed
<1> SUFFICES ASSUME Init PROVE Quiet
  BY DEF Undisturbed
<1>1. DOMAIN handlers = {} /\ \A s \in Servers : worker[s] = Idle
  BY DEF Init, EmptyBag, SetToBag
<1>2. RowsAreHeld
  BY <1>1 DEF Init, RowsAreHeld, Idle
<1>3. Truth
  BY <1>1 DEF Truth, Telling, Idle
<1>4. \A t \in Tasks : Closing(t)
  BY WorklistAssumption DEF Init, Closing, NoTask
<1> QED BY <1>2, <1>3, <1>4 DEF Init, Quiet

(* What the invariant says of a state where nothing is under way.          *)
LEMMA AgreesAtRest ==
  ASSUME IInv, Types, Quiet, AtRest, NEW t \in Tasks, t \notin Direct
  PROVE  /\ Listed(t) <=> workItem[t] = "OPEN"
         /\ task[t].status = "COMPLETED" <=> workItem[t] = "DONE"
<1>1. /\ Closing(t) /\ (workItem[t] # "none" => Opening(t))
      /\ task[t].status # "none" => workItem[t] # "none"
  BY QuietState, TasksHaveItems
<1>2. About(t) = {} /\ Completed(t) \notin DOMAIN handlers /\ \A s \in Servers : worker[s].at # "committed"
  BY DEF AtRest, EmptyBag, SetToBag, About, Idle
<1>3. workItem[t] \in {"none", "OPEN", "DONE"} /\ task[t] \in Documents
  BY DEF Types, IInv, Shape
<1>4. task[t].status \in {"none", "OPEN", "CLAIMED", "COMPLETED", "CANCELED"}
  BY <1>3 DEF Documents
<1>5. workItem[t] # "none" => task[t].status # "none"
  BY <1>1, <1>2 DEF Opening
<1>6. workItem[t] = "DONE" => task[t].status = "COMPLETED"
  BY <1>1, <1>2 DEF Closing, Completing
<1> QED BY <1>1, <1>3, <1>4, <1>5, <1>6 DEF Closing, Listed

(* The documents have the types the code gives them, and what is on the    *)
(* worklist is what is open, and COMPLETED is what is done, once nothing   *)
(* is under way and if nothing has failed, for the tasks that are answered *)
(* through it: in whatever order the broadcasts, the writes of the         *)
(* projection and the users came.                                          *)
THEOREM WorklistComesToAgree == Spec => []WorklistAgreesUndisturbed
<1>1. Init => Types /\ Undisturbed
  BY TypesAtFirst, QuietAtFirst
<1>2. IInv /\ (Types /\ Undisturbed) /\ [Next]_vars => (Types /\ Undisturbed)'
  BY TypesKept, StaysQuiet
<1>3. IInv /\ Types /\ Undisturbed => WorklistAgreesUndisturbed
  <2> SUFFICES ASSUME IInv, Types, Undisturbed PROVE WorklistAgreesUndisturbed
    OBVIOUS
  <2>1. TypeOK
    BY TypesTogether
  <2>2. ASSUME AtRest, mishaps = 0, NEW t \in Tasks \ Direct
        PROVE  /\ Listed(t) = (workItem[t] = "OPEN")
               /\ (task[t].status = "COMPLETED") = (workItem[t] = "DONE")
    <3>1. Quiet /\ t \notin Direct
      BY <2>2 DEF Undisturbed
    <3>2. /\ Listed(t) <=> workItem[t] = "OPEN"
          /\ task[t].status = "COMPLETED" <=> workItem[t] = "DONE"
      BY <2>2, <3>1, AgreesAtRest
    <3> QED BY <3>2 DEF Listed
  <2> QED BY <2>1, <2>2 DEF WorklistAgreesUndisturbed
<1> QED BY <1>1, <1>2, <1>3, WorklistInvariance, PTL DEF Spec

=============================================================================
