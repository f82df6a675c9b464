------------------------ MODULE TriggerSchedulerProofs ------------------------
(***************************************************************************)
(* What holds of the trigger schedules however many loops fire them, and   *)
(* what holds when there is one.                                           *)
(***************************************************************************)
EXTENDS TriggerScheduler, FiniteSetTheorems, WellFoundedInduction, TLAPS

(* The fields that the proofs speak of are there.                          *)
IsRow(r)      == {"status", "cursor"} \subseteq DOMAIN r
IsInstance(i) == "status" \in DOMAIN i

(* Every item of a feed is an item, and the maps are defined everywhere.   *)
Shape ==
  /\ row = [s \in Schedules |-> row[s]]
  /\ \A s \in Schedules : IsRow(row[s])
  /\ \A s \in Feeds : Seen(row[s].cursor) \subseteq Items
  /\ published \in [Feeds -> SUBSET Items]
  /\ read \in [Mailboxes -> SUBSET Items]
  /\ passed = [s \in Feeds |-> passed[s]]
  /\ instance = [k \in Schedules \X Keys |-> instance[k]]
  /\ \A k \in Schedules \X Keys : IsInstance(instance[k])
  /\ pc \in [Schedulers -> Places]
  /\ job = [p \in Schedulers |-> job[p]]
  /\ fire = [p \in Schedulers |-> fire[p]]

(* A loop that holds a feed can account for every item up to the cursor it *)
(* was claimed with, and, once it has polled, for every item up to its new *)
(* cursor that it has not still to look at, in hand or to skip.            *)
Accounted(s, i) == Exists(s, i) \/ i \in passed[s]

AtWork(p) == pc[p] # "idle" /\ Held(p) \in Feeds

InHand(p) ==
  IF pc[p] \in {"polled", "created", "marking"} THEN fire[p].todo
  ELSE IF pc[p] = "looked" THEN fire[p].todo \cup {fire[p].item}
  ELSE IF pc[p] = "fired" THEN fire[p].skipped
  ELSE {}

Known(p) == Seen(IF pc[p] = "claimed" THEN job[p].doc.cursor ELSE fire[p].cursor)

LoopInv(p) ==
  /\ pc[p] # "idle" => Held(p) \in Schedules
  /\ pc[p] \in {"polled", "looked", "created", "marking"} =>
       /\ Held(p) \in Feeds
       /\ {"todo", "item", "cursor", "skipped"} \subseteq DOMAIN fire[p]
       /\ fire[p].todo \subseteq Items
  /\ pc[p] \in {"looked", "created", "marking"} => fire[p].item \in Items
  /\ pc[p] \in {"created", "marking"} => Exists(Held(p), fire[p].item)
  /\ pc[p] = "marking" => Held(p) \in Mailboxes
  /\ AtWork(p) =>
       /\ Known(p) \subseteq Items
       /\ \A i \in Known(p) : Accounted(Held(p), i) \/ i \in InHand(p)

IInv == Shape /\ NoItemIsSkipped /\ \A p \in Schedulers : LoopInv(p)

------------------------------------------------------------------------------
LEMMA Disjoint ==
  /\ Timers \cap Feeds = {} /\ Feeds \subseteq Schedules /\ Timers \subseteq Schedules
  /\ Folders \subseteq Feeds /\ Mailboxes \subseteq Feeds /\ RssFeeds \subseteq Feeds
  /\ Mailboxes \cap (Folders \cup RssFeeds) = {}
BY SchedulesAssumption DEF Schedules, Feeds

(* The row after a fire has the cursor of its result and, unless the timer *)
(* is exhausted, the status it had.                                        *)
LEMMA AdvancedRow ==
  ASSUME NEW r, IsRow(r), NEW p
  PROVE  /\ IsRow(Advanced(r, p))
         /\ Advanced(r, p).cursor = fire[p].cursor
         /\ Advanced(r, p).status \in {r.status, "EXHAUSTED"}
BY DEF Advanced, ClearBackoff, IsRow

(* Forgetting the failures of a row changes nothing else of it.            *)
LEMMA ClearedRow ==
  ASSUME NEW r, IsRow(r)
  PROVE  /\ IsRow(ClearBackoff(r))
         /\ ClearBackoff(r).cursor = r.cursor
         /\ ClearBackoff(r).status = r.status
BY DEF ClearBackoff, IsRow

------------------------------------------------------------------------------
(* No instance disappears, and what was passed over stays so; a loop and a *)
(* row stay as they were.                                                  *)
Grows ==
  /\ \A k \in Schedules \X Keys :
       instance[k].status # "none" => instance'[k].status # "none"
  /\ \A s \in Feeds : passed[s] \subseteq passed'[s]

Same(q) == pc'[q] = pc[q] /\ job'[q] = job[q] /\ fire'[q] = fire[q]

LEMMA Existing ==
  ASSUME Grows, NEW s \in Feeds, NEW i \in Items
  PROVE  /\ Exists(s, i) => Exists(s, i)'
         /\ Accounted(s, i) => Accounted(s, i)'
<1>1. <<s, i>> \in Schedules \X Keys
  BY Disjoint DEF Keys
<1>2. Exists(s, i) => Exists(s, i)'
  BY <1>1 DEF Grows, Exists
<1> QED BY <1>2 DEF Grows, Accounted

LEMMA LoopKept ==
  ASSUME Grows, NEW q, LoopInv(q), Same(q)
  PROVE  LoopInv(q)'
<1>1. /\ AtWork(q)' <=> AtWork(q)
      /\ Held(q)' = Held(q) /\ Known(q)' = Known(q) /\ InHand(q)' = InHand(q)
  BY DEF Same, AtWork, Held, Known, InHand, Seen
<1>2. AtWork(q) => \A i \in Known(q) :
        instance'[<<Held(q), i>>].status # "none" \/ i \in passed'[Held(q)] \/ i \in InHand(q)
  <2> SUFFICES ASSUME AtWork(q), NEW i \in Known(q), i \notin InHand(q)
               PROVE  instance'[<<Held(q), i>>].status # "none" \/ i \in passed'[Held(q)]
    OBVIOUS
  <2>1. Held(q) \in Feeds /\ i \in Items /\ Accounted(Held(q), i)
    BY DEF LoopInv, AtWork
  <2> DEFINE h == Held(q)
  <2>2. h \in Feeds /\ Accounted(h, i)
    BY <2>1
  <2> HIDE DEF h
  <2>3. instance'[<<h, i>>].status # "none" \/ i \in passed'[h]
    BY <2>1, <2>2, Existing DEF Accounted, Exists
  <2> QED BY <2>3 DEF h
<1>3. pc[q] \in {"created", "marking"} => instance'[<<Held(q), fire[q].item>>].status # "none"
  <2> SUFFICES ASSUME pc[q] \in {"created", "marking"}
               PROVE  instance'[<<Held(q), fire[q].item>>].status # "none"
    OBVIOUS
  <2> DEFINE h == Held(q)  i == fire[q].item
  <2>1. h \in Feeds /\ i \in Items /\ Exists(h, i)
    BY DEF LoopInv
  <2> HIDE DEF h, i
  <2>2. instance'[<<h, i>>].status # "none"
    BY <2>1, Existing DEF Exists
  <2> QED BY <2>2 DEF h, i
<1> QED BY <1>1, <1>2, <1>3 DEF LoopInv, Same, Exists, Held, Accounted

LEMMA CursorsKept ==
  ASSUME Shape, NoItemIsSkipped, Grows, UNCHANGED read,
         \A s \in Feeds : row'[s].cursor = row[s].cursor
  PROVE  NoItemIsSkipped'
<1>1. ASSUME NEW s \in Feeds, NEW i \in Seen(row'[s].cursor)
      PROVE  Accounted(s, i)'
  <2>1. i \in Items /\ Accounted(s, i)
    BY <1>1 DEF Shape, NoItemIsSkipped, Accounted
  <2> QED BY <2>1, Existing
<1>2. ASSUME NEW s \in Mailboxes, NEW i \in read[s]
      PROVE  Exists(s, i)'
  <2>1. i \in Items /\ Exists(s, i) /\ s \in Feeds
    BY <1>2, Disjoint DEF Shape, NoItemIsSkipped
  <2> QED BY <2>1, Existing
<1> QED BY <1>1, <1>2 DEF NoItemIsSkipped, Accounted, Seen

------------------------------------------------------------------------------
(* Steps that leave every loop where it is.                                *)
LEMMA WorldKeeps ==
  ASSUME IInv, Grows, Shape', \A s \in Feeds : row'[s].cursor = row[s].cursor,
         UNCHANGED <<loopVars, read>>
  PROVE  IInv'
<1>1. NoItemIsSkipped'
  BY CursorsKept DEF IInv
<1>2. \A p \in Schedulers : Same(p)
  BY DEF Same, loopVars
<1>3. \A p \in Schedulers : LoopInv(p)'
  BY <1>2, LoopKept DEF IInv
<1> QED BY <1>1, <1>3 DEF IInv

(* Steps of one loop.                                                      *)
LEMMA LoopKeeps ==
  ASSUME IInv, Grows, Shape', NoItemIsSkipped', NEW p \in Schedulers, LoopInv(p)',
         \A q \in Schedulers : q # p => Same(q)
  PROVE  IInv'
<1>1. \A q \in Schedulers : q # p => LoopInv(q)'
  BY LoopKept DEF IInv
<1> QED BY <1>1 DEF IInv

LEMMA InitInv == Init => IInv
<1> SUFFICES ASSUME Init PROVE IInv
  OBVIOUS
<1>1. \A s \in Schedules : IsRow(row[s])
  BY DEF Init, IsRow
<1>2. \A s \in Feeds : Seen(row[s].cursor) = {}
  BY Disjoint DEF Init, Seen
<1>3. \A k \in Schedules \X Keys : IsInstance(instance[k])
  BY DEF Init, IsInstance, NoInstance
<1>4. Shape
  BY <1>1, <1>2, <1>3 DEF Shape, Init, Places
<1>5. NoItemIsSkipped
  BY <1>2 DEF NoItemIsSkipped, Init
<1>6. \A p \in Schedulers : LoopInv(p)
  BY DEF Init, LoopInv, AtWork
<1> QED BY <1>4, <1>5, <1>6 DEF IInv

(* A step that touches neither rows nor instances, of a loop that stays.   *)
LEMMA Moves ==
  ASSUME IInv, UNCHANGED <<row, feedVars, instance>>, NEW p \in Schedulers,
         NEW place \in Places, NEW j, NEW f,
         pc' = [pc EXCEPT ![p] = place], job' = [job EXCEPT ![p] = j],
         fire' = [fire EXCEPT ![p] = f], LoopInv(p)'
  PROVE  IInv'
<1>1. Grows
  BY DEF Grows, feedVars
<1>2. Shape'
  BY DEF IInv, Shape, feedVars
<1>3. NoItemIsSkipped'
  BY <1>1, CursorsKept DEF IInv, feedVars
<1>4. \A q \in Schedulers : q # p => Same(q)
  BY DEF IInv, Shape, Same
<1> QED BY <1>1, <1>2, <1>3, <1>4, LoopKeeps

LEMMA ClaimInv ==
  ASSUME IInv, NEW p \in Schedulers, NEW s \in Schedules, Claim(p, s)
  PROVE  IInv'
<1> DEFINE j == [schedule |-> s, doc |-> row[s]]
<1>1. /\ pc' = [pc EXCEPT ![p] = "claimed"]
      /\ job' = [job EXCEPT ![p] = j]
      /\ fire' = [fire EXCEPT ![p] = fire[p]]
      /\ UNCHANGED <<row, feedVars, instance>>
  BY DEF Claim, IInv, Shape
<1>2. pc'[p] = "claimed" /\ job'[p].schedule = s /\ job'[p].doc.cursor = row[s].cursor
  BY <1>1 DEF IInv, Shape
<1>3. s \in Feeds => /\ Seen(row[s].cursor) \subseteq Items
                     /\ \A i \in Seen(row[s].cursor) :
                          instance'[<<s, i>>].status # "none" \/ i \in passed'[s]
  BY <1>1 DEF IInv, Shape, NoItemIsSkipped, Exists, feedVars
<1>4. LoopInv(p)'
  BY <1>2, <1>3 DEF LoopInv, AtWork, Held, Known, Exists, Accounted, Seen
<1> HIDE DEF j
<1> QED BY <1>1, <1>4, Moves DEF Places

LEMMA FireTimerInv ==
  ASSUME IInv, NEW p \in Schedulers, FireTimer(p)
  PROVE  IInv'
<1>1. PICK f : fire' = [fire EXCEPT ![p] = f]
  BY Zenon DEF FireTimer
<1>2. /\ pc' = [pc EXCEPT ![p] = "fired"]
      /\ job' = [job EXCEPT ![p] = job[p]]
      /\ UNCHANGED <<row, feedVars, instance>>
  BY DEF FireTimer, IInv, Shape
<1>3. pc'[p] = "fired" /\ Held(p)' = Held(p) /\ Held(p) \in Schedules /\ Held(p) \notin Feeds
  BY <1>2, Disjoint DEF FireTimer, IInv, Shape, Held
<1>4. LoopInv(p)'
  BY <1>3 DEF LoopInv, AtWork
<1> QED BY <1>1, <1>2, <1>4, Moves DEF Places

(* What a loop knows of the feed it has claimed.                           *)
LEMMA Claimed ==
  ASSUME IInv, NEW p \in Schedulers, pc[p] = "claimed", Held(p) \in Feeds
  PROVE  /\ Held(p) \in Schedules /\ published[Held(p)] \subseteq Items
         /\ Seen(job[p].doc.cursor) \subseteq Items
         /\ \A i \in Seen(job[p].doc.cursor) : Accounted(Held(p), i)
<1>1. LoopInv(p) /\ published[Held(p)] \subseteq Items
  BY DEF IInv, Shape
<1> QED BY <1>1 DEF LoopInv, AtWork, Known, InHand

LEMMA ListInv ==
  ASSUME IInv, NEW p \in Schedulers, pc[p] = "claimed", Held(p) \in Feeds,
         NEW items \in SUBSET Items, NEW cursor, Seen(cursor) \subseteq Items,
         \A i \in Seen(cursor) : Accounted(Held(p), i) \/ i \in items,
         List(p, items, cursor)
  PROVE  IInv'
<1> DEFINE f == [NoFire EXCEPT !.todo = items, !.cursor = cursor]
<1>1. /\ pc' = [pc EXCEPT ![p] = "polled"]
      /\ job' = [job EXCEPT ![p] = job[p]]
      /\ fire' = [fire EXCEPT ![p] = f]
      /\ UNCHANGED <<row, feedVars, instance>>
  BY DEF List, IInv, Shape
<1>2. pc'[p] = "polled" /\ Held(p)' = Held(p) /\ fire'[p] = f
  BY <1>1 DEF IInv, Shape, Held
<1>3. /\ f.todo = items /\ f.cursor = cursor
      /\ {"todo", "item", "cursor", "skipped"} \subseteq DOMAIN f
  BY DEF NoFire
<1> HIDE DEF f
<1>4. Held(p) \in Schedules
  BY Claimed
<1>5. \A i \in Seen(cursor) :
        instance'[<<Held(p), i>>].status # "none" \/ i \in passed'[Held(p)] \/ i \in items
  BY <1>1 DEF Accounted, Exists, feedVars
<1>6. LoopInv(p)'
  BY <1>2, <1>3, <1>4, <1>5 DEF LoopInv, AtWork, Known, InHand, Exists, Accounted, Seen
<1> QED BY <1>1, <1>6, Moves DEF Places

LEMMA PrimeInv ==
  ASSUME IInv, NEW p \in Schedulers, pc[p] = "claimed", Held(p) \in Feeds,
         NEW items, NEW cursor, Seen(cursor) \subseteq Items,
         \A i \in Seen(cursor) : Accounted(Held(p), i) \/ i \in items,
         Prime(p, items, cursor)
  PROVE  IInv'
<1> DEFINE f == [NoFire EXCEPT !.cursor = cursor, !.skipped = items]
<1>1. /\ pc' = [pc EXCEPT ![p] = "fired"]
      /\ job' = [job EXCEPT ![p] = job[p]]
      /\ fire' = [fire EXCEPT ![p] = f]
      /\ UNCHANGED <<row, feedVars, instance>>
  BY DEF Prime, IInv, Shape
<1>2. pc'[p] = "fired" /\ Held(p)' = Held(p) /\ fire'[p] = f
  BY <1>1 DEF IInv, Shape, Held
<1>3. f.cursor = cursor /\ f.skipped = items
  BY DEF NoFire
<1> HIDE DEF f
<1>4. Held(p) \in Schedules
  BY Claimed
<1>5. \A i \in Seen(cursor) :
        instance'[<<Held(p), i>>].status # "none" \/ i \in passed'[Held(p)] \/ i \in items
  BY <1>1 DEF Accounted, Exists, feedVars
<1>6. LoopInv(p)'
  BY <1>2, <1>3, <1>4, <1>5 DEF LoopInv, AtWork, Known, InHand, Exists, Accounted, Seen
<1> QED BY <1>1, <1>6, Moves DEF Places

LEMMA PollFolderInv ==
  ASSUME IInv, NEW p \in Schedulers, PollFolder(p) \/ DeltaExpires(p)
  PROVE  IInv'
<1> DEFINE all == published[Held(p)]
<1>1. pc[p] = "claimed" /\ Held(p) \in Feeds
  BY Disjoint DEF PollFolder, DeltaExpires
<1>2. /\ all \subseteq Items
      /\ \A i \in Seen(job[p].doc.cursor) : Accounted(Held(p), i)
  BY <1>1, Claimed
<1> HIDE DEF all
<1>3. Seen(all) \subseteq all
  BY DEF Seen
<1>4. CASE Prime(p, all, all)
  BY <1>1, <1>2, <1>3, <1>4, PrimeInv
<1>5. CASE List(p, all \ Seen(job[p].doc.cursor), all)
  BY <1>1, <1>2, <1>3, <1>5, ListInv
<1>6. CASE job[p].doc.cursor # Never /\ Prime(p, all \ job[p].doc.cursor, all)
  <2>1. Seen(job[p].doc.cursor) = job[p].doc.cursor
    BY <1>6 DEF Seen
  <2> QED BY <1>1, <1>2, <1>3, <1>6, <2>1, PrimeInv
<1> QED BY <1>4, <1>5, <1>6 DEF PollFolder, DeltaExpires, all

LEMMA PollMailboxInv ==
  ASSUME IInv, NEW p \in Schedulers, PollMailbox(p)
  PROVE  IInv'
<1>1. pc[p] = "claimed" /\ Held(p) \in Feeds
  BY Disjoint DEF PollMailbox
<1>2. /\ published[Held(p)] \subseteq Items
      /\ Seen(job[p].doc.cursor) \subseteq Items
      /\ \A i \in Seen(job[p].doc.cursor) : Accounted(Held(p), i)
  BY <1>1, Claimed
<1> DEFINE items == published[Held(p)] \ read[Held(p)]
<1>3. items \in SUBSET Items /\ List(p, items, job[p].doc.cursor)
  BY <1>2 DEF PollMailbox
<1> HIDE DEF items
<1> QED BY <1>1, <1>2, <1>3, ListInv

LEMMA PollRssInv ==
  ASSUME IInv, NEW p \in Schedulers, PollRss(p)
  PROVE  IInv'
<1> DEFINE all == published[Held(p)]
           cursor == CursorFromItems(all, job[p].doc.cursor)
<1>1. pc[p] = "claimed" /\ Held(p) \in Feeds
  BY Disjoint DEF PollRss
<1>2. /\ all \subseteq Items
      /\ Seen(job[p].doc.cursor) \subseteq Items
      /\ \A i \in Seen(job[p].doc.cursor) : Accounted(Held(p), i)
  BY <1>1, Claimed
<1>3. Seen(cursor) \subseteq Seen(job[p].doc.cursor) \cup all
  BY DEF Seen, CursorFromItems
<1>4. Prime(p, all, cursor) \/ List(p, all, cursor)
  BY DEF PollRss
<1> HIDE DEF all, cursor
<1> QED BY <1>1, <1>2, <1>3, <1>4, ListInv, PrimeInv

(* On to the next item: the fields of the fire, and where it is.           *)
Place(p) == IF Held(p) \in Mailboxes THEN "marking" ELSE "polled"

LEMMA HandedOn ==
  ASSUME IInv, NEW p \in Schedulers, NEW i, NEW todo, HandOn(p, i, todo),
         {"todo", "item", "cursor", "skipped"} \subseteq DOMAIN fire[p]
  PROVE  /\ pc' = [pc EXCEPT ![p] = Place(p)]
         /\ \E f : /\ fire' = [fire EXCEPT ![p] = f]
                   /\ {"todo", "item", "cursor", "skipped"} \subseteq DOMAIN f
                   /\ f.todo = todo /\ f.cursor = fire[p].cursor
                   /\ Place(p) = "marking" => f.item = i
<1> DEFINE x == IF Held(p) \in Mailboxes THEN i ELSE Never
           f == [fire[p] EXCEPT !.todo = todo, !.item = x]
<1>1. fire' = [fire EXCEPT ![p] = f]
  BY DEF HandOn
<1>2. /\ {"todo", "item", "cursor", "skipped"} \subseteq DOMAIN f
      /\ f.todo = todo /\ f.cursor = fire[p].cursor
      /\ Held(p) \in Mailboxes => f.item = i
  OBVIOUS
<1> HIDE DEF f
<1> QED BY <1>1, <1>2 DEF HandOn, Place

LEMMA LookUpInv ==
  ASSUME IInv, NEW p \in Schedulers, NEW i \in Items, LookUp(p, i)
  PROVE  IInv'
<1> DEFINE found == Exists(Held(p), i)
           todo  == fire[p].todo \ {i}
           place == IF found THEN Place(p) ELSE "looked"
<1>1. /\ pc[p] = "polled" /\ Held(p) \in Feeds /\ Held(p) \in Schedules
      /\ {"todo", "item", "cursor", "skipped"} \subseteq DOMAIN fire[p]
      /\ fire[p].todo \subseteq Items /\ Seen(fire[p].cursor) \subseteq Items
      /\ \A k \in Seen(fire[p].cursor) : Accounted(Held(p), k) \/ k \in fire[p].todo
  <2>1. LoopInv(p) /\ pc[p] = "polled"
    BY DEF LookUp, IInv
  <2> QED BY <2>1 DEF LoopInv, AtWork, Known, InHand
<1>2. \E f : /\ fire' = [fire EXCEPT ![p] = f]
             /\ {"todo", "item", "cursor", "skipped"} \subseteq DOMAIN f
             /\ f.todo = todo /\ f.cursor = fire[p].cursor
             /\ place \in {"looked", "marking"} => f.item = i
  <2>1. CASE found
    <3>1. HandOn(p, i, todo) /\ place = Place(p)
      BY <2>1 DEF LookUp
    <3>2. Place(p) # "looked"
      BY DEF Place
    <3> HIDE DEF found, todo, place
    <3> QED BY <1>1, <3>1, <3>2, HandedOn
  <2>2. CASE ~found
    <3> DEFINE f == [fire[p] EXCEPT !.todo = todo, !.item = i]
    <3>1. fire' = [fire EXCEPT ![p] = f]
      BY <2>2 DEF LookUp
    <3>2. /\ {"todo", "item", "cursor", "skipped"} \subseteq DOMAIN f
          /\ f.todo = todo /\ f.cursor = fire[p].cursor /\ f.item = i
      BY <1>1
    <3> HIDE DEF f
    <3> QED BY <3>1, <3>2
  <2> QED BY <2>1, <2>2
<1>3. PICK f : /\ fire' = [fire EXCEPT ![p] = f]
               /\ {"todo", "item", "cursor", "skipped"} \subseteq DOMAIN f
               /\ f.todo = todo /\ f.cursor = fire[p].cursor
               /\ place \in {"looked", "marking"} => f.item = i
  BY <1>2
<1>4. /\ pc' = [pc EXCEPT ![p] = place]
      /\ job' = [job EXCEPT ![p] = job[p]]
      /\ UNCHANGED <<row, feedVars, instance>>
  BY DEF LookUp, IInv, Shape, HandOn, Place
<1>5. pc'[p] = place /\ Held(p)' = Held(p) /\ fire'[p] = f
  BY <1>3, <1>4 DEF IInv, Shape, Held
<1>6. \A k \in Items : Accounted(Held(p), k)' <=> Accounted(Held(p), k)
  BY <1>4, <1>5 DEF Accounted, Exists, feedVars
<1>7. /\ place \in {"polled", "looked", "marking"}
      /\ place = "looked" => ~found
      /\ place = "marking" => Held(p) \in Mailboxes /\ instance'[<<Held(p), i>>].status # "none"
  BY <1>4 DEF Place, Exists
<1>8. \A k \in Seen(fire[p].cursor) :
        Accounted(Held(p), k)' \/ k \in todo \/ (place = "looked" /\ k = i)
  <2>1. place # "looked" => Accounted(Held(p), i)
    BY DEF Accounted, Place
  <2> QED BY <1>1, <1>6, <2>1
<1>9. todo \subseteq Items
  BY <1>1
<1> HIDE DEF found, todo, place
<1>10. LoopInv(p)'
  BY <1>1, <1>3, <1>5, <1>7, <1>8, <1>9 DEF LoopInv, AtWork, Known, InHand, Exists, Seen
<1> QED BY <1>3, <1>4, <1>7, <1>10, Moves DEF Places

LEMMA ItemsDoneInv ==
  ASSUME IInv, NEW p \in Schedulers, ItemsDone(p)
  PROVE  IInv'
<1>1. /\ pc' = [pc EXCEPT ![p] = "fired"]
      /\ job' = [job EXCEPT ![p] = job[p]]
      /\ fire' = [fire EXCEPT ![p] = fire[p]]
      /\ UNCHANGED <<row, feedVars, instance>>
  BY DEF ItemsDone, IInv, Shape
<1>2. pc'[p] = "fired" /\ Held(p)' = Held(p) /\ fire'[p] = fire[p]
  BY <1>1 DEF IInv, Shape, Held
<1>3. LoopInv(p) /\ pc[p] = "polled" /\ fire[p].todo = {}
  BY DEF ItemsDone, IInv
<1>4. /\ Held(p) \in Feeds /\ Held(p) \in Schedules /\ Seen(fire[p].cursor) \subseteq Items
      /\ \A k \in Seen(fire[p].cursor) : Accounted(Held(p), k)
  BY <1>3 DEF LoopInv, AtWork, Known, InHand
<1>5. \A k \in Seen(fire[p].cursor) :
        instance'[<<Held(p), k>>].status # "none" \/ k \in passed'[Held(p)]
  BY <1>1, <1>4 DEF Accounted, Exists, feedVars
<1>6. LoopInv(p)'
  BY <1>2, <1>4, <1>5 DEF LoopInv, AtWork, Known, Exists, Accounted, Seen
<1> QED BY <1>1, <1>6, Moves DEF Places

(* The steps of a loop on the instance it has in hand.                     *)
LEMMA HandledInv ==
  ASSUME IInv, NEW p \in Schedulers, NEW place \in {"polled", "created", "marking"}, NEW f,
         IF place = "created" THEN pc[p] = "looked" ELSE pc[p] \in {"created", "marking"},
         {"todo", "item", "cursor", "skipped"} \subseteq DOMAIN f,
         f.todo = fire[p].todo, f.cursor = fire[p].cursor,
         place # "polled" => f.item = fire[p].item
                             /\ instance'[<<Held(p), fire[p].item>>].status # "none",
         place = "marking" => Held(p) \in Mailboxes,
         Grows, Shape', NoItemIsSkipped', UNCHANGED job,
         pc' = [pc EXCEPT ![p] = place], fire' = [fire EXCEPT ![p] = f]
  PROVE  IInv'
<1>1. \A q \in Schedulers : q # p => Same(q)
  BY DEF IInv, Shape, Same
<1>2. pc'[p] = place /\ Held(p)' = Held(p) /\ fire'[p] = f
  BY DEF IInv, Shape, Held
<1>3. LoopInv(p) /\ pc[p] \in {"looked", "created", "marking"}
  BY DEF IInv
<1>4. /\ Held(p) \in Feeds /\ Held(p) \in Schedules
      /\ fire[p].todo \subseteq Items /\ fire[p].item \in Items
      /\ Seen(fire[p].cursor) \subseteq Items
      /\ \A i \in Seen(fire[p].cursor) :
           \/ Accounted(Held(p), i) \/ i \in fire[p].todo
           \/ place = "created" /\ i = fire[p].item
  BY <1>3 DEF LoopInv, AtWork, Known, InHand
<1>5. \A i \in Seen(fire[p].cursor) :
        instance'[<<Held(p), i>>].status # "none" \/ i \in passed'[Held(p)] \/ i \in fire[p].todo
  <2> DEFINE h == Held(p)
  <2>1. ASSUME NEW i \in Seen(fire[p].cursor), Accounted(h, i)
        PROVE  instance'[<<h, i>>].status # "none" \/ i \in passed'[h]
    <3>1. h \in Feeds /\ i \in Items
      BY <1>4
    <3> HIDE DEF h
    <3> QED BY <2>1, <3>1, Existing DEF Accounted, Exists
  <2> QED BY <1>4, <2>1
<1>6. LoopInv(p)'
  BY <1>2, <1>4, <1>5 DEF LoopInv, AtWork, Known, InHand, Exists, Accounted, Seen
<1> QED BY <1>1, <1>6, LoopKeeps

(* Writing one instance, to something that exists or did exist before.     *)
LEMMA InstanceWritten ==
  ASSUME Shape, NEW k \in Schedules \X Keys, NEW x, IsInstance(x),
         x.status = "none" => instance[k].status = "none",
         instance' = [instance EXCEPT ![k] = x], UNCHANGED passed
  PROVE  /\ Grows
         /\ instance' = [l \in Schedules \X Keys |-> instance'[l]]
         /\ \A l \in Schedules \X Keys : IsInstance(instance'[l])
         /\ instance'[k] = x
<1>1. \A l \in Schedules \X Keys : instance'[l] = IF l = k THEN x ELSE instance[l]
  BY DEF Shape
<1>2. Grows
  BY <1>1 DEF Grows
<1>3. \A l \in Schedules \X Keys : IsInstance(instance'[l])
  BY <1>1 DEF Shape
<1> QED BY <1>1, <1>2, <1>3 DEF Shape

LEMMA HandledShape ==
  ASSUME IInv, Grows, NEW p \in Schedulers, NEW place \in Places, NEW f,
         instance' = [l \in Schedules \X Keys |-> instance'[l]],
         \A l \in Schedules \X Keys : IsInstance(instance'[l]),
         UNCHANGED <<row, job, feedVars>>,
         pc' = [pc EXCEPT ![p] = place], fire' = [fire EXCEPT ![p] = f]
  PROVE  Shape' /\ NoItemIsSkipped'
<1>1. Shape'
  BY DEF IInv, Shape, feedVars
<1> QED BY <1>1, CursorsKept DEF IInv, feedVars

LEMMA CreateInstanceInv ==
  ASSUME IInv, NEW p \in Schedulers, CreateInstance(p)
  PROVE  IInv'
<1> DEFINE k == <<Held(p), fire[p].item>>
           f == fire[p]
<1>1. /\ pc[p] = "looked" /\ k \in Schedules \X Keys
      /\ {"todo", "item", "cursor", "skipped"} \subseteq DOMAIN f
  BY DEF CreateInstance, IInv, LoopInv, Keys
<1>2. /\ pc' = [pc EXCEPT ![p] = "created"] /\ fire' = [fire EXCEPT ![p] = f]
      /\ UNCHANGED <<row, job, feedVars>>
  BY DEF CreateInstance, IInv, Shape
<1>3. /\ Grows
      /\ instance' = [l \in Schedules \X Keys |-> instance'[l]]
      /\ \A l \in Schedules \X Keys : IsInstance(instance'[l])
      /\ instance'[k].status # "none"
  <2>1. CASE Exists(Held(p), fire[p].item)
    BY <2>1 DEF CreateInstance, Exists, Grows, IInv, Shape, feedVars
  <2>2. CASE ~Exists(Held(p), fire[p].item)
    <3> DEFINE x == [instance[k] EXCEPT !.status = "RUNNING"]
    <3>1. IsInstance(x) /\ x.status = "RUNNING"
      BY <1>1 DEF IInv, Shape, IsInstance
    <3>2. instance' = [instance EXCEPT ![k] = x]
      BY <2>2 DEF CreateInstance
    <3> HIDE DEF x, k
    <3> QED BY <1>1, <1>2, <3>1, <3>2, InstanceWritten DEF IInv, feedVars
  <2> QED BY <2>1, <2>2
<1>4. Shape' /\ NoItemIsSkipped'
  <2> HIDE DEF f, k
  <2> QED BY <1>2, <1>3, HandledShape DEF Places
<1> QED BY <1>1, <1>2, <1>3, <1>4, HandledInv

LEMMA HandledOnInv ==
  ASSUME IInv, NEW p \in Schedulers, pc[p] = "created",
         HandOn(p, fire[p].item, fire[p].todo),
         NEW x, IsInstance(x), x.status # "none",
         instance' = [instance EXCEPT ![<<Held(p), fire[p].item>>] = x],
         UNCHANGED <<row, job, feedVars>>
  PROVE  IInv'
<1> DEFINE k == <<Held(p), fire[p].item>>
<1>1. /\ k \in Schedules \X Keys
      /\ {"todo", "item", "cursor", "skipped"} \subseteq DOMAIN fire[p]
  <2>1. LoopInv(p)
    BY DEF IInv
  <2> QED BY <2>1 DEF LoopInv, Keys
<1>2. PICK f : /\ fire' = [fire EXCEPT ![p] = f]
               /\ {"todo", "item", "cursor", "skipped"} \subseteq DOMAIN f
               /\ f.todo = fire[p].todo /\ f.cursor = fire[p].cursor
               /\ Place(p) = "marking" => f.item = fire[p].item
  BY <1>1, HandedOn
<1>3. pc' = [pc EXCEPT ![p] = Place(p)]
  BY <1>1, HandedOn
<1>4. /\ Place(p) \in {"polled", "marking"} /\ Place(p) \in Places
      /\ Place(p) = "marking" => Held(p) \in Mailboxes
  BY DEF Place, Places
<1>5. /\ Grows
      /\ instance' = [l \in Schedules \X Keys |-> instance'[l]]
      /\ \A l \in Schedules \X Keys : IsInstance(instance'[l])
      /\ instance'[k] = x
  <2> HIDE DEF k
  <2>1. instance' = [instance EXCEPT ![k] = x]
    BY DEF k
  <2> QED BY <1>1, <2>1, InstanceWritten DEF IInv, feedVars
<1>6. Shape' /\ NoItemIsSkipped'
  BY <1>2, <1>3, <1>4, <1>5, HandledShape
<1> QED BY <1>2, <1>3, <1>4, <1>5, <1>6, HandledInv

LEMMA InsertStartInv ==
  ASSUME IInv, NEW p \in Schedulers, InsertStart(p)
  PROVE  IInv'
<1> DEFINE k == <<Held(p), fire[p].item>>
           x == [instance[k] EXCEPT !.starts = @ + 1]
<1>1. /\ pc[p] = "created" /\ HandOn(p, fire[p].item, fire[p].todo)
      /\ instance' = [instance EXCEPT ![k] = x]
      /\ UNCHANGED <<row, job, feedVars>>
  BY DEF InsertStart
<1>2. k \in Schedules \X Keys /\ instance[k].status # "none"
  <2>1. LoopInv(p)
    BY DEF IInv
  <2> QED BY <1>1, <2>1 DEF LoopInv, Keys, Exists
<1>3. IsInstance(x) /\ x.status = instance[k].status
  BY <1>2 DEF IInv, Shape, IsInstance
<1> HIDE DEF x
<1> QED BY <1>1, <1>2, <1>3, HandledOnInv

LEMMA TerminateInstanceInv ==
  ASSUME IInv, NEW p \in Schedulers, TerminateInstance(p)
  PROVE  IInv'
<1> DEFINE k == <<Held(p), fire[p].item>>
           x == [instance[k] EXCEPT !.status = "TERMINATED"]
<1>1. /\ pc[p] = "created" /\ HandOn(p, fire[p].item, fire[p].todo)
      /\ instance' = [instance EXCEPT ![k] = x]
      /\ UNCHANGED <<row, job, feedVars>>
  BY DEF TerminateInstance
<1>2. k \in Schedules \X Keys
  <2>1. LoopInv(p)
    BY DEF IInv
  <2> QED BY <1>1, <2>1 DEF LoopInv, Keys
<1>3. IsInstance(x) /\ x.status = "TERMINATED"
  BY <1>2 DEF IInv, Shape, IsInstance
<1> HIDE DEF x
<1> QED BY <1>1, <1>3, HandledOnInv

(* The mail that is marked has an instance.                                *)
LEMMA MarkAsReadInv ==
  ASSUME IInv, NEW p \in Schedulers, MarkAsRead(p)
  PROVE  IInv'
<1> DEFINE h == Held(p)  i == fire[p].item
           f == [fire[p] EXCEPT !.item = Never]
<1>1. LoopInv(p) /\ pc[p] = "marking"
  BY DEF MarkAsRead, IInv
<1>2. /\ h \in Mailboxes /\ i \in Items /\ instance[<<h, i>>].status # "none"
      /\ {"todo", "item", "cursor", "skipped"} \subseteq DOMAIN fire[p]
  BY <1>1 DEF LoopInv, Exists
<1>3. /\ pc' = [pc EXCEPT ![p] = "polled"] /\ fire' = [fire EXCEPT ![p] = f]
      /\ read' = [read EXCEPT ![h] = @ \cup {i}]
      /\ UNCHANGED <<row, published, passed, instance, job>>
  BY DEF MarkAsRead
<1>4. /\ {"todo", "item", "cursor", "skipped"} \subseteq DOMAIN f
      /\ f.todo = fire[p].todo /\ f.cursor = fire[p].cursor
  BY <1>2
<1> HIDE DEF f, h, i
<1>5. Grows
  BY <1>3 DEF Grows
<1>6. Shape'
  BY <1>2, <1>3 DEF IInv, Shape, Places
<1>7. NoItemIsSkipped'
  <2>1. \A s \in Mailboxes : read'[s] = IF s = h THEN read[s] \cup {i} ELSE read[s]
    BY <1>3 DEF IInv, Shape
  <2>2. ASSUME NEW s \in Mailboxes, NEW m \in read'[s]
        PROVE  instance'[<<s, m>>].status # "none"
    <3>1. CASE m \in read[s]
      BY <1>3, <3>1 DEF IInv, NoItemIsSkipped, Exists
    <3>2. CASE s = h /\ m = i
      BY <1>2, <1>3, <3>2
    <3> QED BY <2>1, <2>2, <3>1, <3>2
  <2>3. ASSUME NEW s \in Feeds, NEW m \in Seen(row'[s].cursor)
        PROVE  instance'[<<s, m>>].status # "none" \/ m \in passed'[s]
    BY <1>3, <2>3 DEF IInv, NoItemIsSkipped, Exists
  <2> QED BY <2>2, <2>3 DEF NoItemIsSkipped, Exists, Seen
<1> QED BY <1>1, <1>3, <1>4, <1>5, <1>6, <1>7, HandledInv

------------------------------------------------------------------------------
(* Steps that end a fire.                                                  *)
LEMMA GoesIdle ==
  ASSUME IInv, NEW p \in Schedulers, GoIdle(p), Grows, NoItemIsSkipped',
         row' = [s \in Schedules |-> row'[s]],
         \A s \in Schedules : IsRow(row'[s]),
         \A s \in Feeds : Seen(row'[s].cursor) \subseteq Items,
         instance' = [k \in Schedules \X Keys |-> instance'[k]],
         \A k \in Schedules \X Keys : IsInstance(instance'[k]),
         UNCHANGED <<published, read>>, passed' = [s \in Feeds |-> passed'[s]]
  PROVE  IInv'
<1>1. pc'[p] = "idle" /\ \A q \in Schedulers : q # p => Same(q)
  BY DEF GoIdle, IInv, Shape, Same
<1>2. Shape'
  BY DEF GoIdle, IInv, Shape, Places, Seen
<1>3. LoopInv(p)'
  BY <1>1 DEF LoopInv, AtWork
<1> QED BY <1>1, <1>2, <1>3, LoopKeeps

LEMMA PersistInv ==
  ASSUME IInv, NEW p \in Schedulers, Persist(p)
  PROVE  IInv'
<1> DEFINE u == Held(p)
           adv == Advanced(row[u], p)
<1>1. pc[p] = "fired" /\ u \in Schedules
  BY DEF Persist, IInv, LoopInv
<1>2. /\ row' = [row EXCEPT ![u] = adv]
      /\ IsRow(adv) /\ adv.cursor = fire[p].cursor
  BY <1>1, AdvancedRow DEF Persist, IInv, Shape
<1>3. u \in Feeds => /\ Seen(fire[p].cursor) \subseteq Items
                     /\ \A i \in Seen(fire[p].cursor) : Accounted(u, i) \/ i \in fire[p].skipped
  <2>1. LoopInv(p)
    BY DEF IInv
  <2> QED BY <1>1, <2>1 DEF LoopInv, AtWork, Known, InHand
<1>4. /\ instance' = [k \in Schedules \X Keys |-> instance'[k]]
      /\ \A k \in Schedules \X Keys :
           \/ instance'[k] = instance[k]
           \/ instance'[k] = [status |-> "RUNNING", starts |-> 1, slot |-> job[p].doc.nextFireAt]
  BY Zenon DEF Persist
<1>5. \A k \in Schedules \X Keys :
        /\ instance[k].status # "none" => instance'[k].status # "none"
        /\ IsInstance(instance'[k])
  BY <1>4 DEF IInv, Shape, IsInstance
<1>6. /\ passed' = [s \in Feeds |-> passed'[s]]
      /\ \A s \in Feeds : passed[s] \subseteq passed'[s]
      /\ u \in Feeds => \A i \in fire[p].skipped : Accounted(u, i) \/ i \in passed'[u]
  BY DEF Persist, Accounted
<1>7. Grows
  BY <1>5, <1>6 DEF Grows
<1> HIDE DEF adv, u
<1>8. \A s \in Schedules : row'[s] = IF s = u THEN adv ELSE row[s]
  BY <1>2 DEF IInv, Shape
<1>9. \A s \in Feeds :
        /\ Seen(row'[s].cursor) \subseteq Items
        /\ \A i \in Seen(row'[s].cursor) : Accounted(s, i) \/ i \in passed'[s]
  <2> SUFFICES ASSUME NEW s \in Feeds
               PROVE  /\ Seen(row'[s].cursor) \subseteq Items
                      /\ \A i \in Seen(row'[s].cursor) : Accounted(s, i) \/ i \in passed'[s]
    OBVIOUS
  <2>1. CASE s = u
    BY <1>2, <1>3, <1>6, <1>8, <2>1, Disjoint
  <2>2. CASE s # u
    <3>1. row'[s].cursor = row[s].cursor
      BY <1>8, <2>2, Disjoint
    <3> QED BY <3>1 DEF IInv, Shape, NoItemIsSkipped, Accounted
  <2> QED BY <2>1, <2>2
<1>10. NoItemIsSkipped'
  <2>1. ASSUME NEW s \in Feeds, NEW i \in Seen(row'[s].cursor)
        PROVE  Accounted(s, i)'
    <3>1. i \in Items /\ (Accounted(s, i) \/ i \in passed'[s])
      BY <1>9, <2>1
    <3>2. Accounted(s, i) => Accounted(s, i)'
      BY <1>7, <3>1, Existing
    <3> QED BY <3>1, <3>2 DEF Accounted
  <2>2. ASSUME NEW s \in Mailboxes, NEW i \in read[s]
        PROVE  Exists(s, i)'
    <3>1. i \in Items /\ Exists(s, i) /\ s \in Feeds
      BY <2>2, Disjoint DEF IInv, Shape, NoItemIsSkipped
    <3> QED BY <1>7, <3>1, Existing
  <2>3. UNCHANGED read
    BY DEF Persist
  <2> QED BY <2>1, <2>2, <2>3 DEF NoItemIsSkipped, Accounted, Seen
<1>11. row' = [s \in Schedules |-> row'[s]] /\ \A s \in Schedules : IsRow(row'[s])
  BY <1>2, <1>8 DEF IInv, Shape
<1>12. GoIdle(p) /\ UNCHANGED <<published, read>>
  BY DEF Persist
<1> QED BY <1>4, <1>5, <1>6, <1>7, <1>9, <1>10, <1>11, <1>12, GoesIdle

LEMMA FireEndsInv ==
  ASSUME IInv, NEW p \in Schedulers,
         PersistThrows(p) \/ PersistFails(p) \/ FireFails(p) \/ Crash(p)
  PROVE  IInv'
<1>1. GoIdle(p) /\ UNCHANGED <<feedVars, instance>>
  BY DEF PersistThrows, PersistFails, FireFails, Crash
<1>2. Grows
  BY <1>1 DEF Grows, feedVars
<1>3. /\ row' = [s \in Schedules |-> row'[s]]
      /\ \A s \in Schedules : IsRow(row'[s]) /\ row'[s].cursor = row[s].cursor
  <2>1. CASE UNCHANGED row
    BY <2>1 DEF IInv, Shape
  <2>2. CASE FireFails(p)
    <3> DEFINE n == job[p].doc.failures + 1
               t == now + RetryDelay(Held(p), n)
               r == [row[Held(p)] EXCEPT !.failures = n, !.retryAfter = t]
    <3>1. Held(p) \in Schedules
      BY <2>2 DEF FireFails, IInv, LoopInv
    <3>2. row' = [row EXCEPT ![Held(p)] = r]
      BY <2>2 DEF FireFails
    <3> HIDE DEF n, t
    <3>3. IsRow(r) /\ r.cursor = row[Held(p)].cursor
      BY <3>1 DEF IInv, Shape, IsRow
    <3> HIDE DEF r
    <3> QED BY <3>1, <3>2, <3>3 DEF IInv, Shape
  <2> QED BY <2>1, <2>2 DEF PersistThrows, PersistFails, Crash
<1>4. NoItemIsSkipped'
  BY <1>1, <1>2, <1>3, CursorsKept, Disjoint DEF IInv, feedVars
<1>5. /\ \A s \in Feeds : Seen(row'[s].cursor) \subseteq Items
      /\ passed' = [s \in Feeds |-> passed'[s]]
  BY <1>1, <1>3, Disjoint DEF IInv, Shape, feedVars, Seen
<1> QED BY <1>1, <1>2, <1>3, <1>4, <1>5, GoesIdle DEF IInv, Shape, feedVars

------------------------------------------------------------------------------
(* Steps of the world.                                                     *)
LEMMA RowWritten ==
  ASSUME IInv, UNCHANGED <<feedVars, instance, loopVars>>,
         NEW s \in Schedules, NEW r, IsRow(r), r.cursor = row[s].cursor,
         row' = [row EXCEPT ![s] = r]
  PROVE  IInv'
<1>1. Grows
  BY DEF Grows, feedVars
<1>2. \A u \in Schedules : row'[u] = IF u = s THEN r ELSE row[u]
  BY DEF IInv, Shape
<1>3. Shape'
  BY <1>2, Disjoint DEF IInv, Shape, loopVars, feedVars, Seen
<1> QED BY <1>1, <1>2, <1>3, WorldKeeps, Disjoint DEF feedVars

LEMMA WorldInv ==
  ASSUME IInv,
         \/ Tick
         \/ \E s \in Schedules : Pause(s) \/ Resume(s) \/ Deploy(s)
         \/ \E s \in Feeds, i \in Items : Publish(s, i)
         \/ UNCHANGED vars
  PROVE  IInv'
<1>1. ASSUME UNCHANGED <<row, read, passed, instance, loopVars>>,
             published' \in [Feeds -> SUBSET Items]
      PROVE  IInv'
  <2>1. Grows
    BY <1>1 DEF Grows
  <2>2. Shape'
    BY <1>1 DEF IInv, Shape, loopVars, Seen
  <2> QED BY <1>1, <2>1, <2>2, WorldKeeps
<1>2. CASE Tick \/ UNCHANGED vars
  BY <1>1, <1>2 DEF Tick, vars, feedVars, IInv, Shape
<1>3. ASSUME NEW s \in Feeds, NEW i \in Items, Publish(s, i) PROVE IInv'
  BY <1>1, <1>3 DEF Publish, IInv, Shape
<1>4. ASSUME NEW s \in Schedules, Pause(s) PROVE IInv'
  <2> DEFINE r == [row[s] EXCEPT !.status = "PAUSED"]
  <2>1. IsRow(r) /\ r.cursor = row[s].cursor
    BY DEF IInv, Shape, IsRow
  <2>2. row' = [row EXCEPT ![s] = r] /\ UNCHANGED <<feedVars, instance, loopVars>>
    BY <1>4 DEF Pause
  <2> HIDE DEF r
  <2> QED BY <2>1, <2>2, RowWritten
<1>5. ASSUME NEW s \in Schedules, Resume(s) PROVE IInv'
  <2> DEFINE c == ClearBackoff(row[s])
             r == [c EXCEPT !.status = "ACTIVE"]
  <2>1. IsRow(c) /\ c.cursor = row[s].cursor
    BY ClearedRow DEF IInv, Shape
  <2>2. row' = [row EXCEPT ![s] = r] /\ UNCHANGED <<feedVars, instance, loopVars>>
    BY <1>5 DEF Resume
  <2> HIDE DEF c
  <2>3. IsRow(r) /\ r.cursor = row[s].cursor
    BY <2>1 DEF IsRow
  <2> HIDE DEF r
  <2> QED BY <2>2, <2>3, RowWritten
<1>6. ASSUME NEW s \in Schedules, Deploy(s) PROVE IInv'
  <2> DEFINE c == ClearBackoff(row[s])
             t == NextFireAfter(s, now, Never)
             r == IF s \in Feeds THEN c ELSE [c EXCEPT !.status = "ACTIVE", !.nextFireAt = t]
  <2>1. IsRow(c) /\ c.cursor = row[s].cursor
    BY ClearedRow DEF IInv, Shape
  <2>2. row' = [row EXCEPT ![s] = r] /\ UNCHANGED <<feedVars, instance, loopVars>>
    BY <1>6 DEF Deploy
  <2> HIDE DEF c, t
  <2>3. IsRow(r) /\ r.cursor = row[s].cursor
    BY <2>1 DEF IsRow
  <2> HIDE DEF r
  <2> QED BY <2>2, <2>3, RowWritten
<1> QED BY <1>2, <1>3, <1>4, <1>5, <1>6

------------------------------------------------------------------------------
LEMMA StepInv == IInv /\ [Next]_vars => IInv'
<1> SUFFICES ASSUME IInv, [Next]_vars PROVE IInv'
  OBVIOUS
<1>1. ASSUME NEW p \in Schedulers, HandleItem(p) PROVE IInv'
  BY <1>1, LookUpInv, CreateInstanceInv, InsertStartInv, TerminateInstanceInv DEF HandleItem
<1>2. ASSUME NEW p \in Schedulers, Step(p) PROVE IInv'
  BY <1>1, <1>2, ClaimInv, FireTimerInv, PollFolderInv, PollMailboxInv, PollRssInv,
     MarkAsReadInv, ItemsDoneInv, PersistInv, FireEndsInv DEF Step, FireFolder, FireMailbox, FireRss
<1>3. ASSUME NEW p \in Schedulers,
             DeltaExpires(p) \/ PersistFails(p) \/ FireFails(p) \/ Crash(p)
      PROVE  IInv'
  BY <1>3, FireEndsInv, PollFolderInv
<1> QED BY <1>2, <1>3, WorldInv DEF Next

THEOREM Invariance == Spec => []IInv
BY InitInv, StepInv, PTL DEF Spec

(* However many loops hold the same feed, fail halfway through its list or *)
(* die, and in whatever order they write its row: its cursor, which Persist *)
(* may even move back, is never past an item that has no instance and was  *)
(* not skipped by a first poll or an expired link, and no mail is marked   *)
(* as read that has none.                                                  *)
THEOREM NothingIsSkipped == Spec => []NoItemIsSkipped
<1>1. IInv => NoItemIsSkipped
  BY DEF IInv
<1> QED BY <1>1, Invariance, PTL

------------------------------------------------------------------------------
(* A loop, whatever it does, leaves a schedule that is not ACTIVE so.      *)
LEMMA LoopKeepsPaused ==
  ASSUME IInv, NEW s \in Schedules, row[s].status # "ACTIVE", NEW p \in Schedulers,
         Step(p) \/ DeltaExpires(p) \/ PersistFails(p) \/ FireFails(p) \/ Crash(p)
  PROVE  row'[s].status # "ACTIVE"
<1>1. CASE UNCHANGED row
  BY <1>1
<1>2. CASE Persist(p)
  <2>1. Held(p) \in Schedules
    BY <1>2 DEF Persist, IInv, LoopInv
  <2>2. Advanced(row[Held(p)], p).status \in {row[Held(p)].status, "EXHAUSTED"}
    BY <2>1, AdvancedRow DEF IInv, Shape
  <2>3. row'[s] = IF s = Held(p) THEN Advanced(row[s], p) ELSE row[s]
    BY <1>2, <2>1 DEF Persist, IInv, Shape
  <2> QED BY <2>2, <2>3
<1>3. CASE FireFails(p)
  <2> DEFINE n == job[p].doc.failures + 1
             t == now + RetryDelay(Held(p), n)
  <2>1. row' = [row EXCEPT ![Held(p)].failures = n, ![Held(p)].retryAfter = t]
    BY <1>3 DEF FireFails
  <2> HIDE DEF n, t
  <2> QED BY <2>1 DEF IInv, Shape, IsRow
<1> QED
  BY <1>1, <1>2, <1>3 DEF Step, Claim, FireTimer, FireFolder, FireMailbox, FireRss, PollFolder,
     DeltaExpires, PollMailbox, PollRss, List, Prime, HandleItem, LookUp, CreateInstance,
     InsertStart, TerminateInstance, MarkAsRead, ItemsDone, PersistThrows, PersistFails, Crash

(* The host's pause is not undone by a fire that was under way, of however *)
(* many loops: persistFireResult and recordFireError write the row without *)
(* looking at its status, and leave that as it is.                         *)
THEOREM PauseHolds == Spec => PausedStaysPaused
<1>1. IInv /\ [Next]_vars =>
        [\A s \in Schedules :
           row[s].status # "ACTIVE" /\ row'[s].status = "ACTIVE" => pc' = pc]_vars
  <2> SUFFICES ASSUME IInv, Next, NEW s \in Schedules,
                      row[s].status # "ACTIVE", row'[s].status = "ACTIVE"
               PROVE  pc' = pc
    OBVIOUS
  <2>1. ~ \E p \in Schedulers : Step(p) \/ DeltaExpires(p) \/ PersistFails(p) \/ FireFails(p) \/ Crash(p)
    BY LoopKeepsPaused
  <2> QED BY <2>1 DEF Next, Tick, Pause, Resume, Deploy, Publish, loopVars
<1> QED BY <1>1, Invariance, PTL DEF Spec, PausedStaysPaused

------------------------------------------------------------------------------
(* One loop.  Nothing in the code sees to it that a schedule is held once; *)
(* SchedulerOverlap has what two loops can do.                             *)
Alone == \A p, q \in Schedulers : p = q

CursorsOf(s) == IF s \in Feeds THEN {Never} \cup SUBSET Items ELSE Dates

Fires(s) ==
  [todo : SUBSET Items, item : Items \cup {Never}, at : Times \cup {Never},
   cursor : CursorsOf(s), next : Dates, skipped : SUBSET Items]

(* The documents have their types, and what a loop has claimed is the row  *)
(* as it is, but for what the host writes.                                 *)
Typed ==
  /\ TypeOK
  /\ \A p \in Schedulers : pc[p] # "idle" =>
       job[p].doc.cursor = row[Held(p)].cursor /\ fire[p] \in Fires(Held(p))

(* How many repetitions a timer has left; less than none, when it has been *)
(* deployed again since.                                                   *)
Left(s) == IF row[s].cursor = Never THEN Repetitions ELSE row[s].cursor

(* The instances a cycle has started and those it has left make up R<n>.   *)
CycleInv(s) ==
  /\ Started(s) + Left(s) = Repetitions
  /\ Left(s) + deploys >= 0 /\ (row[s].nextFireAt # Never => Left(s) + deploys > 0)
  /\ row[s].status = "EXHAUSTED" => Left(s) <= 0

(* Every instance of a timer was created at a time before the next date,   *)
(* for a due time that was not after it.                                   *)
TimerInv(s) ==
  /\ \A t \in Times : Exists(s, t) =>
       /\ instance[<<s, t>>].slot \in Int /\ instance[<<s, t>>].slot <= t /\ t <= now
       /\ row[s].nextFireAt # Never => t < row[s].nextFireAt
  /\ \A t, u \in Times :
       Exists(s, t) /\ Exists(s, u) /\ t # u => instance[<<s, t>>].slot # instance[<<s, u>>].slot
  /\ s \notin Rules => CycleInv(s)

TimerLoop(p) ==
  LET s == Held(p)  due == job[p].doc.nextFireAt IN
  /\ pc[p] \in {"claimed", "fired"}
  /\ due \in Int /\ due <= now /\ (s \notin Rules => Left(s) + deploys > 0)
  /\ \A t \in Times : Exists(s, t) => t < due
  /\ pc[p] = "fired" =>
       /\ fire[p].at \in Times /\ due <= fire[p].at /\ fire[p].at <= now
       /\ s \notin Rules => fire[p].cursor = Left(s) - 1
       /\ fire[p].next = NextFireAfter(s, fire[p].at, fire[p].cursor)

(* What was passed over is behind the cursor of a folder; an instance that *)
(* is not there has no START.                                              *)
FeedInv(s) ==
  /\ \A i \in Items :
       /\ instance[<<s, i>>].starts <= 1
       /\ instance[<<s, i>>].status # "RUNNING" => instance[<<s, i>>].starts = 0
       /\ s \in Folders /\ i \in passed[s] => instance[<<s, i>>].starts = 0
  /\ s \in Folders => passed[s] \subseteq Seen(row[s].cursor) /\ Seen(row[s].cursor) \subseteq published[s]

FeedLoop(p) ==
  LET s == Held(p)  i == fire[p].item IN
  /\ pc[p] = "looked" => ~Exists(s, i)
  /\ pc[p] = "created" => instance[<<s, i>>].status = "RUNNING" /\ instance[<<s, i>>].starts = 0
  /\ s \in Folders =>
       /\ pc[p] # "claimed" =>
            /\ Seen(row[s].cursor) \subseteq Seen(fire[p].cursor)
            /\ Seen(fire[p].cursor) \subseteq published[s]
            /\ fire[p].todo \cap passed[s] = {} /\ fire[p].skipped \subseteq Seen(fire[p].cursor)
       /\ pc[p] \in {"looked", "created"} => i \notin passed[s]

SInv ==
  /\ Typed
  /\ \A s \in Timers : TimerInv(s)
  /\ \A s \in Feeds : FeedInv(s)
  /\ \A p \in Schedulers :
       /\ pc[p] # "idle" /\ Held(p) \in Timers => TimerLoop(p)
       /\ pc[p] # "idle" /\ Held(p) \in Feeds => FeedLoop(p)

------------------------------------------------------------------------------
(* The records.                                                            *)
LEMMA Numbers ==
  /\ Never \notin Int /\ Never \notin Items /\ Items \cap Int = {}
  /\ \A c \in SUBSET Items : c # Never
  /\ Interval \in Int /\ Interval > 0 /\ Repetitions \in Int /\ Repetitions > 0
  /\ Times \subseteq Int /\ MaxDeploys \in Nat /\ MaxMishaps \in Nat
BY SchedulesAssumption, NumbersAssumption DEF Times

LEMMA Later ==
  \A a, b, c \in Int :
    /\ a <= b /\ b <= c => a <= c
    /\ a < b /\ b <= c => a < c
    /\ a <= b /\ b < c => a < c
OBVIOUS

(* A set of natural numbers has a least one.                               *)
LEMMA Least ==
  ASSUME NEW S \in SUBSET Nat, S # {}
  PROVE  \E n \in S : \A m \in S : n <= m
<1> DEFINE R == OpToRel(<, Nat)
<1>1. IsWellFoundedOn(R, Nat)
  BY NatLessThanWellFounded
<1> HIDE DEF R
<1>2. PICK n \in S : \A m \in S : ~(<<m, n>> \in R)
  BY <1>1, WFMin
<1>3. \A m \in S : ~(m < n)
  BY <1>2 DEF R, OpToRel
<1> QED BY <1>3

(* The next date of a timer comes after the time it is asked for; that of  *)
(* a cycle is there unless no repetition is left.                          *)
LEMMA NextDates ==
  ASSUME NEW s, NEW t \in Int, NEW remaining
  PROVE  /\ NextFireAfter(s, t, remaining) \in Dates
         /\ NextFireAfter(s, t, remaining) # Never =>
              NextFireAfter(s, t, remaining) \in Int /\ NextFireAfter(s, t, remaining) > t
         /\ s \notin Rules =>
              (NextFireAfter(s, t, remaining) = Never <=> remaining # Never /\ remaining <= 0)
<1>1. CASE s \notin Rules
  BY <1>1, Numbers DEF NextFireAfter, Dates
<1>2. CASE s \in Rules
  <2>1. DatesAfter(s, t) \in SUBSET Nat /\ \A d \in DatesAfter(s, t) : t < d
    BY <1>2, SchedulesAssumption DEF DatesAfter
  <2>2. ASSUME DatesAfter(s, t) # {}
        PROVE  NextDate(s, t) \in DatesAfter(s, t)
    <3>1. \E d \in DatesAfter(s, t) : \A e \in DatesAfter(s, t) : d <= e
      BY <2>1, <2>2, Least
    <3> QED BY <2>2, <3>1 DEF NextDate
  <2>3. \A d \in DatesAfter(s, t) : d \in Int /\ d > t
    BY <2>1
  <2>4. NextDate(s, t) = Never \/ (NextDate(s, t) \in Int /\ NextDate(s, t) > t)
    <3>1. CASE DatesAfter(s, t) = {}
      BY <3>1 DEF NextDate
    <3>2. CASE DatesAfter(s, t) # {}
      BY <2>2, <2>3, <3>2
    <3> QED BY <3>1, <3>2
  <2> QED BY <1>2, <2>4 DEF NextFireAfter, Dates
<1> QED BY <1>1, <1>2

LEMMA NoFireIsOne == \A s : NoFire \in Fires(s)
BY DEF NoFire, Fires, CursorsOf, Dates

LEMMA Cleared ==
  ASSUME NEW s, NEW r \in Rows(s)
  PROVE  LET c == ClearBackoff(r) IN
         /\ c \in Rows(s) /\ c.status = r.status /\ c.nextFireAt = r.nextFireAt
         /\ c.cursor = r.cursor /\ c.lastFiredAt = r.lastFiredAt
BY DEF ClearBackoff, Rows, Dates

------------------------------------------------------------------------------
(* What does not touch a timer or a feed keeps what is known of it.        *)
LEMMA TimerKept ==
  ASSUME Typed, now' \in Int, now <= now', deploys' \in Int, deploys <= deploys',
         NEW s \in Timers, TimerInv(s),
         \A t \in Times : instance'[<<s, t>>] = instance[<<s, t>>],
         row'[s].cursor = row[s].cursor,
         row'[s].status = "EXHAUSTED" => row[s].status = "EXHAUSTED",
         \/ row'[s].nextFireAt = row[s].nextFireAt
         \/ row'[s].nextFireAt \in Int /\ row'[s].nextFireAt > now /\ deploys' > deploys
  PROVE  TimerInv(s)'
<1> USE Numbers
<1>1. /\ now \in Int /\ deploys \in Int
      /\ row[s].cursor \in Dates /\ row[s].nextFireAt \in Dates
  <2>1. row[s] \in Rows(s) /\ s \notin Feeds
    BY Disjoint DEF Typed, TypeOK
  <2>2. row[s].cursor \in Dates /\ row[s].nextFireAt \in Dates
    BY <2>1 DEF Rows
  <2>3. now \in Times /\ deploys \in 0..MaxDeploys
    BY DEF Typed, TypeOK
  <2>4. now \in Int /\ deploys \in Int
    BY <2>3
  <2> QED BY <2>2, <2>4
<1>2. /\ \A t \in Times : Exists(s, t)' <=> Exists(s, t)
      /\ Left(s)' = Left(s) /\ Left(s) \in Int
  BY <1>1 DEF Exists, Left, Dates
<1>3. Started(s)' = Started(s)
  <2>1. { t \in Times : Exists(s, t)' } = { t \in Times : Exists(s, t) }
    BY <1>2
  <2> QED BY <2>1 DEF Started
<1>4. \A t \in Times : Exists(s, t)' =>
        /\ instance'[<<s, t>>].slot \in Int /\ instance'[<<s, t>>].slot <= t /\ t <= now'
        /\ row'[s].nextFireAt # Never => t < row'[s].nextFireAt
  <2> SUFFICES ASSUME NEW t \in Times, Exists(s, t)
               PROVE  /\ instance'[<<s, t>>].slot \in Int /\ instance'[<<s, t>>].slot <= t /\ t <= now'
                      /\ row'[s].nextFireAt # Never => t < row'[s].nextFireAt
    BY <1>2
  <2>1. /\ instance[<<s, t>>].slot \in Int /\ instance[<<s, t>>].slot <= t /\ t <= now
        /\ row[s].nextFireAt # Never => t < row[s].nextFireAt
    BY DEF TimerInv
  <2>2. t <= now'
    BY <1>1, <2>1, Later
  <2>3. row'[s].nextFireAt # Never => t < row'[s].nextFireAt
    BY <1>1, <2>1, Later DEF Dates
  <2> QED BY <2>1, <2>2, <2>3
<1>5. ASSUME s \notin Rules
      PROVE  /\ Started(s)' + Left(s)' = Repetitions /\ Left(s)' + deploys' >= 0
             /\ row'[s].nextFireAt # Never => Left(s)' + deploys' > 0
             /\ row'[s].status = "EXHAUSTED" => Left(s)' <= 0
  <2>1. /\ Started(s) + Left(s) = Repetitions /\ Left(s) + deploys >= 0
        /\ row[s].nextFireAt # Never => Left(s) + deploys > 0
        /\ row[s].status = "EXHAUSTED" => Left(s) <= 0
    BY <1>5 DEF TimerInv, CycleInv
  <2>2. \A l, d, e \in Int : l + d >= 0 /\ d <= e => l + e >= 0 /\ (e > d \/ l + d > 0 => l + e > 0)
    OBVIOUS
  <2>3. Left(s) + deploys' >= 0 /\ (deploys' > deploys \/ Left(s) + deploys > 0 => Left(s) + deploys' > 0)
    BY <1>1, <1>2, <2>1, <2>2
  <2> QED BY <1>2, <1>3, <2>1, <2>3
<1>6. \A t, u \in Times :
        Exists(s, t)' /\ Exists(s, u)' /\ t # u => instance'[<<s, t>>].slot # instance'[<<s, u>>].slot
  BY <1>2 DEF TimerInv
<1> QED BY <1>4, <1>5, <1>6 DEF TimerInv, CycleInv

LEMMA FeedKept ==
  ASSUME NEW s \in Feeds, FeedInv(s), \A i \in Items : instance'[<<s, i>>] = instance[<<s, i>>],
         row'[s].cursor = row[s].cursor, passed'[s] = passed[s], published[s] \subseteq published'[s]
  PROVE  FeedInv(s)'
BY DEF FeedInv, Seen

(* Steps of the world: a loop keeps what it knows.                         *)
LEMMA WorldStep ==
  ASSUME IInv, SInv, UNCHANGED <<loopVars, instance, passed, read, mishaps>>,
         now' \in Times, now <= now', deploys' \in 0..MaxDeploys, deploys <= deploys',
         published' \in [Feeds -> SUBSET Items], \A s \in Feeds : published[s] \subseteq published'[s],
         DOMAIN row' = Schedules,
         \A s \in Schedules :
           /\ row'[s] \in Rows(s) /\ row'[s].cursor = row[s].cursor
           /\ row'[s].status = "EXHAUSTED" => row[s].status = "EXHAUSTED"
           /\ s \in Timers =>
                \/ row'[s].nextFireAt = row[s].nextFireAt
                \/ row'[s].nextFireAt \in Int /\ row'[s].nextFireAt > now /\ deploys' > deploys
  PROVE  SInv'
<1> USE Numbers
<1>1. \A p \in Schedulers : pc[p] # "idle" => Held(p) \in Schedules
  BY DEF SInv, Typed, TypeOK
<1>2. Typed'
  BY <1>1 DEF SInv, Typed, TypeOK, loopVars, Held
<1>3. ASSUME NEW s \in Timers PROVE TimerInv(s)'
  BY <1>3, TimerKept, Disjoint DEF SInv
<1>4. ASSUME NEW s \in Feeds PROVE FeedInv(s)'
  BY <1>4, FeedKept, Disjoint DEF SInv
<1>5. ASSUME NEW p \in Schedulers, pc'[p] # "idle", job'[p].schedule \in Timers PROVE TimerLoop(p)'
  <2>1. TimerLoop(p) /\ now \in Int /\ deploys \in Int /\ row[Held(p)].cursor \in Dates
    BY <1>1, <1>5, Disjoint DEF SInv, Typed, TypeOK, loopVars, Held, Rows
  <2>2. Left(Held(p))' = Left(Held(p)) /\ Left(Held(p)) \in Int
    BY <1>1, <1>5, <2>1 DEF Left, loopVars, Held, Dates
  <2>3. pc'[p] = pc[p] /\ job'[p] = job[p] /\ fire'[p] = fire[p] /\ Held(p)' = Held(p)
    BY DEF loopVars, Held
  <2>4. \A t \in Times : Exists(Held(p), t)' <=> Exists(Held(p), t)
    BY <2>3 DEF Exists
  <2>5. Held(p) \notin Rules => Left(Held(p))' + deploys' > 0
    BY <2>1, <2>2 DEF TimerLoop
  <2>6. job'[p].doc.nextFireAt <= now'
    BY <2>1, <2>3 DEF TimerLoop
  <2>7. fire[p].at \in Times /\ fire[p].at <= now => fire'[p].at <= now'
    <3>1. \A t \in Times : t <= now => t <= now'
      <4>1. now' \in Int /\ Times \subseteq Int
        OBVIOUS
      <4> QED BY <2>1, <4>1, Later
    <3> QED BY <2>3, <3>1
  <2> QED BY <2>1, <2>2, <2>3, <2>4, <2>5, <2>6, <2>7
          DEF TimerLoop, NextFireAfter, NextDate, DatesAfter
<1>6. ASSUME NEW p \in Schedulers, pc'[p] # "idle", job'[p].schedule \in Feeds PROVE FeedLoop(p)'
  <2>1. FeedLoop(p) /\ row'[Held(p)].cursor = row[Held(p)].cursor
    BY <1>1, <1>6 DEF SInv, loopVars, Held
  <2>2. published[Held(p)] \subseteq published'[Held(p)]
    BY <1>6 DEF loopVars, Held
  <2> QED BY <2>1, <2>2 DEF FeedLoop, loopVars, Held, Exists, Seen
<1> QED BY <1>2, <1>3, <1>4, <1>5, <1>6 DEF SInv, Held

LEMMA WorldSteps ==
  ASSUME IInv, SInv,
         \/ Tick
         \/ \E s \in Schedules : Pause(s) \/ Resume(s) \/ Deploy(s)
         \/ \E s \in Feeds, i \in Items : Publish(s, i)
         \/ UNCHANGED vars
  PROVE  SInv'
<1> USE Numbers
<1>1. /\ now \in Times /\ now \in Int /\ deploys \in 0..MaxDeploys
      /\ published \in [Feeds -> SUBSET Items]
      /\ DOMAIN row = Schedules /\ \A s \in Schedules : row[s] \in Rows(s)
      /\ row = [s \in Schedules |-> row[s]]
  BY DEF SInv, Typed, TypeOK, IInv, Shape
<1>2. CASE Tick
  <2>1. now' \in Times /\ now <= now'
    BY <1>1, <1>2, NumbersAssumption DEF Tick, Times
  <2> QED BY <1>1, <1>2, <2>1, WorldStep DEF Tick, feedVars
<1>3. CASE UNCHANGED vars
  BY <1>1, <1>3, WorldStep DEF vars, feedVars
<1>4. ASSUME NEW s \in Feeds, NEW i \in Items, Publish(s, i) PROVE SInv'
  <2>1. /\ published' \in [Feeds -> SUBSET Items]
        /\ \A u \in Feeds : published[u] \subseteq published'[u]
    BY <1>1, <1>4 DEF Publish
  <2> QED BY <1>1, <1>4, <2>1, WorldStep DEF Publish
<1>5. ASSUME NEW s \in Schedules, NEW r \in Rows(s), r.cursor = row[s].cursor,
             r.status # "EXHAUSTED" \/ r.status = row[s].status,
             row' = [row EXCEPT ![s] = r], UNCHANGED <<now, feedVars, instance, loopVars, mishaps>>,
             deploys' \in 0..MaxDeploys, deploys <= deploys',
             s \in Timers => \/ r.nextFireAt = row[s].nextFireAt
                             \/ r.nextFireAt \in Int /\ r.nextFireAt > now /\ deploys' > deploys
      PROVE  SInv'
  <2>1. DOMAIN row' = Schedules /\ \A u \in Schedules : row'[u] = IF u = s THEN r ELSE row[u]
    BY <1>1, <1>5
  <2> QED BY <1>1, <1>5, <2>1, WorldStep DEF feedVars
<1>6. ASSUME NEW s \in Schedules, Pause(s) PROVE SInv'
  <2> DEFINE r == [row[s] EXCEPT !.status = "PAUSED"]
  <2>1. r \in Rows(s) /\ r.status = "PAUSED" /\ r.nextFireAt = row[s].nextFireAt /\ r.cursor = row[s].cursor
    BY <1>1 DEF Rows
  <2>2. row' = [row EXCEPT ![s] = r] /\ UNCHANGED <<now, feedVars, instance, loopVars, mishaps>>
    BY <1>6 DEF Pause
  <2> HIDE DEF r
  <2>3. deploys' \in 0..MaxDeploys /\ deploys <= deploys'
    BY <1>1, <1>6 DEF Pause
  <2>4. r.status # "EXHAUSTED" \/ r.status = row[s].status
    BY <2>1
  <2>5. s \in Timers => \/ r.nextFireAt = row[s].nextFireAt
                        \/ r.nextFireAt \in Int /\ r.nextFireAt > now /\ deploys' > deploys
    BY <2>1
  <2> QED BY <1>5, <2>1, <2>2, <2>3, <2>4, <2>5
<1>7. ASSUME NEW s \in Schedules, Resume(s) PROVE SInv'
  <2> DEFINE c == ClearBackoff(row[s])
             r == [c EXCEPT !.status = "ACTIVE"]
  <2>1. c \in Rows(s) /\ c.nextFireAt = row[s].nextFireAt /\ c.cursor = row[s].cursor
    BY <1>1, Cleared
  <2>2. row' = [row EXCEPT ![s] = r] /\ UNCHANGED <<now, feedVars, instance, loopVars, mishaps>>
    BY <1>7 DEF Resume
  <2> HIDE DEF c
  <2>3. r \in Rows(s) /\ r.status = "ACTIVE" /\ r.nextFireAt = c.nextFireAt /\ r.cursor = c.cursor
    BY <2>1 DEF Rows
  <2> HIDE DEF r
  <2>4. deploys' \in 0..MaxDeploys /\ deploys <= deploys'
    BY <1>1, <1>7 DEF Resume
  <2>5. (r.status # "EXHAUSTED" \/ r.status = row[s].status) /\ r.nextFireAt = row[s].nextFireAt
        /\ r.cursor = row[s].cursor
    BY <2>1, <2>3
  <2>6. s \in Timers => \/ r.nextFireAt = row[s].nextFireAt
                        \/ r.nextFireAt \in Int /\ r.nextFireAt > now /\ deploys' > deploys
    BY <2>5
  <2> QED BY <1>5, <2>2, <2>3, <2>4, <2>5, <2>6
<1>8. ASSUME NEW s \in Schedules, Deploy(s) PROVE SInv'
  <2> DEFINE c == ClearBackoff(row[s])
             t == NextFireAfter(s, now, Never)
             r == IF s \in Feeds THEN c ELSE [c EXCEPT !.status = "ACTIVE", !.nextFireAt = t]
  <2>1. /\ c \in Rows(s) /\ c.nextFireAt = row[s].nextFireAt /\ c.cursor = row[s].cursor
        /\ c.status = row[s].status
    BY <1>1, Cleared
  <2>2. row' = [row EXCEPT ![s] = r] /\ UNCHANGED <<now, feedVars, instance, loopVars, mishaps>>
    BY <1>8 DEF Deploy
  <2>3. t \in Dates /\ (t # Never => (t \in Int /\ t > now)) /\ (s \in Timers => t # Never)
    BY <1>1, <1>8, NextDates DEF Deploy
  <2>4. deploys' \in 0..MaxDeploys /\ deploys' > deploys
    <3>1. deploys' = deploys + 1 /\ deploys < MaxDeploys
      BY <1>8 DEF Deploy
    <3> QED BY <1>1, <3>1
  <2> HIDE DEF c, t
  <2>5. /\ s \notin Feeds => r \in Rows(s) /\ r.status = "ACTIVE" /\ r.nextFireAt = t /\ r.cursor = c.cursor
        /\ s \in Feeds => r = c
    BY <2>1, <2>3 DEF Rows
  <2> HIDE DEF r
  <2>6. r \in Rows(s) /\ r.cursor = row[s].cursor /\ (r.status # "EXHAUSTED" \/ r.status = row[s].status)
    BY <2>1, <2>5
  <2>7. s \in Timers => r.nextFireAt \in Int /\ r.nextFireAt > now /\ deploys' > deploys
    BY <2>3, <2>4, <2>5, Disjoint
  <2>8. deploys <= deploys'
    BY <1>1, <2>4
  <2> QED BY <1>5, <2>2, <2>4, <2>6, <2>7, <2>8
<1> QED BY <1>2, <1>3, <1>4, <1>6, <1>7, <1>8

------------------------------------------------------------------------------
(* Steps of the loop.                                                      *)
LEMMA TypedKept ==
  ASSUME Alone, Typed, NEW p \in Schedulers, UNCHANGED <<now, deploys, published>>,
         mishaps' \in 0..MaxMishaps,
         DOMAIN row' = Schedules, \A s \in Schedules : row'[s] \in Rows(s),
         passed' \in [Feeds -> SUBSET Items], read' \in [Mailboxes -> SUBSET Items],
         instance' \in [Schedules \X Keys ->
           [status : {"none", "RUNNING", "TERMINATED"}, starts : Nat, slot : Dates]],
         pc' \in [Schedulers -> Places],
         IF pc'[p] = "idle" THEN job'[p] = NoJob /\ fire'[p] = NoFire
         ELSE /\ job'[p].schedule \in Schedules /\ job'[p].doc \in Rows(job'[p].schedule)
              /\ job'[p].doc.cursor = row'[job'[p].schedule].cursor
              /\ fire'[p] \in Fires(job'[p].schedule)
  PROVE  Typed'
<1>1. \A q \in Schedulers : q = p
  BY DEF Alone
<1>2. \A q \in Schedulers :
        IF pc'[q] = "idle" THEN job'[q] = NoJob /\ fire'[q] = NoFire
        ELSE Held(q)' \in Schedules /\ job'[q].doc \in Rows(Held(q)')
  BY <1>1 DEF Held
<1>3. now' \in Times /\ deploys' \in 0..MaxDeploys /\ published' \in [Feeds -> SUBSET Items]
  BY DEF Typed, TypeOK
<1>4. TypeOK'
  BY <1>2, <1>3 DEF TypeOK, Held
<1>5. \A q \in Schedulers : pc'[q] # "idle" =>
        job'[q].doc.cursor = row'[Held(q)'].cursor /\ fire'[q] \in Fires(Held(q)')
  BY <1>1 DEF Held
<1> QED BY <1>4, <1>5 DEF Typed, Held

(* There is no other loop.                                                 *)
LEMMA LoopStep ==
  ASSUME Alone, NEW p \in Schedulers, Typed',
         \A s \in Timers : TimerInv(s)', \A s \in Feeds : FeedInv(s)',
         pc'[p] # "idle" /\ job'[p].schedule \in Timers => TimerLoop(p)',
         pc'[p] # "idle" /\ job'[p].schedule \in Feeds => FeedLoop(p)'
  PROVE  SInv'
<1>1. \A q \in Schedulers : q = p
  BY DEF Alone
<1> QED BY <1>1 DEF SInv, Held

(* Steps that touch neither rows nor instances.                            *)
LEMMA LocalStep ==
  ASSUME Alone, IInv, SInv, NEW p \in Schedulers, NEW place \in Places, NEW j, NEW f,
         UNCHANGED <<now, row, feedVars, instance, deploys>>, mishaps' \in 0..MaxMishaps,
         pc' = [pc EXCEPT ![p] = place], job' = [job EXCEPT ![p] = j],
         fire' = [fire EXCEPT ![p] = f],
         place # "idle", j.schedule \in Schedules, j.doc \in Rows(j.schedule),
         j.doc.cursor = row[j.schedule].cursor, f \in Fires(j.schedule),
         j.schedule \in Timers => TimerLoop(p)', j.schedule \in Feeds => FeedLoop(p)'
  PROVE  SInv'
<1>1. pc'[p] = place /\ job'[p] = j /\ fire'[p] = f
  BY DEF IInv, Shape
<1>2. Typed'
  <2>1. /\ Typed /\ pc' \in [Schedulers -> Places]
        /\ DOMAIN row' = Schedules /\ \A s \in Schedules : row'[s] \in Rows(s)
        /\ passed' \in [Feeds -> SUBSET Items] /\ read' \in [Mailboxes -> SUBSET Items]
        /\ instance' \in [Schedules \X Keys ->
             [status : {"none", "RUNNING", "TERMINATED"}, starts : Nat, slot : Dates]]
    BY DEF SInv, Typed, TypeOK, feedVars
  <2>2. row' = row /\ UNCHANGED <<now, deploys, published>>
    BY DEF feedVars
  <2> QED BY <1>1, <2>1, <2>2, TypedKept
<1>3. ASSUME NEW s \in Timers PROVE TimerInv(s)'
  <2>1. TimerInv(s) /\ Typed /\ now \in Int /\ deploys \in Int
    BY Numbers DEF SInv, Typed, TypeOK
  <2> QED BY <2>1, TimerKept
<1>4. ASSUME NEW s \in Feeds PROVE FeedInv(s)'
  BY FeedKept DEF SInv, feedVars
<1> QED BY <1>1, <1>2, <1>3, <1>4, LoopStep

(* What a loop that is at work holds.                                      *)
LEMMA HeldIs ==
  ASSUME SInv, NEW p \in Schedulers, pc[p] # "idle"
  PROVE  /\ job[p].schedule \in Schedules /\ job[p].doc \in Rows(job[p].schedule)
         /\ job[p].doc.cursor = row[job[p].schedule].cursor
         /\ row[job[p].schedule] \in Rows(job[p].schedule)
         /\ fire[p] \in Fires(job[p].schedule)
         /\ job[p].schedule \in Timers => TimerLoop(p) /\ TimerInv(job[p].schedule)
         /\ job[p].schedule \in Feeds => FeedLoop(p) /\ FeedInv(job[p].schedule)
BY DEF SInv, Typed, TypeOK, Held

LEMMA SInvClaim ==
  ASSUME Alone, IInv, SInv, NEW p \in Schedulers, NEW s \in Schedules, Claim(p, s)
  PROVE  SInv'
<1> DEFINE j == [schedule |-> s, doc |-> row[s]]
<1>1. /\ pc' = [pc EXCEPT ![p] = "claimed"] /\ job' = [job EXCEPT ![p] = j]
      /\ fire' = [fire EXCEPT ![p] = fire[p]]
      /\ UNCHANGED <<now, row, feedVars, instance, deploys>> /\ mishaps' = mishaps
  BY DEF Claim, IInv, Shape
<1>2. j.schedule = s /\ j.doc = row[s] /\ row[s] \in Rows(s) /\ mishaps \in 0..MaxMishaps
  BY DEF SInv, Typed, TypeOK
<1>3. pc'[p] = "claimed" /\ job'[p] = j
  BY <1>1 DEF IInv, Shape
<1>4. fire[p] \in Fires(s)
  BY NoFireIsOne DEF Claim, SInv, Typed, TypeOK
<1> HIDE DEF j
<1>5. ASSUME s \in Timers PROVE TimerLoop(p)'
  <2>1. row[s].nextFireAt # Never /\ row[s].nextFireAt <= now
    BY <1>5 DEF Claim, Due
  <2>2. row[s].nextFireAt \in Int
    BY <1>2, <2>1 DEF Rows, Dates
  <2>3. TimerInv(s)
    BY <1>5 DEF SInv
  <2>4. /\ s \notin Rules => Left(s) + deploys > 0
        /\ \A t \in Times : Exists(s, t) => t < row[s].nextFireAt
    BY <2>1, <2>3 DEF TimerInv, CycleInv
  <2> QED BY <1>1, <1>2, <1>3, <2>1, <2>2, <2>4 DEF TimerLoop, Held, Left, Exists
<1>6. FeedLoop(p)'
  BY <1>3 DEF FeedLoop
<1> QED BY <1>1, <1>2, <1>4, <1>5, <1>6, LocalStep DEF Places

LEMMA SInvFireTimer ==
  ASSUME Alone, IInv, SInv, NEW p \in Schedulers, FireTimer(p)
  PROVE  SInv'
<1> USE Numbers
<1>0. PICK s : s = job[p].schedule
  OBVIOUS
<1> DEFINE reps == IF job[p].doc.cursor # Never THEN job[p].doc.cursor ELSE Repetitions
           left == IF s \in Rules THEN Never ELSE reps - 1
           next == NextFireAfter(s, now, left)
           f    == [NoFire EXCEPT !.at = now, !.cursor = left, !.next = next]
<1>1. pc[p] = "claimed" /\ s \in Timers /\ s \notin Feeds
  BY <1>0, Disjoint DEF FireTimer, Held
<1>2. /\ s \in Schedules /\ job[p].doc \in Rows(s) /\ job[p].doc.cursor = row[s].cursor
      /\ row[s] \in Rows(s) /\ TimerLoop(p)
  BY <1>0, <1>1, HeldIs
<1>3. /\ pc' = [pc EXCEPT ![p] = "fired"] /\ job' = [job EXCEPT ![p] = job[p]]
      /\ fire' = [fire EXCEPT ![p] = f]
      /\ UNCHANGED <<now, row, feedVars, instance, deploys>> /\ mishaps' = mishaps
  BY <1>0 DEF FireTimer, IInv, Shape, Held
<1>4. mishaps \in 0..MaxMishaps /\ now \in Times
  BY DEF SInv, Typed, TypeOK
<1>5. row[s].cursor \in Dates
  BY <1>1, <1>2 DEF Rows
<1>6. reps = Left(s) /\ reps \in Int
  BY <1>2, <1>5 DEF Left, Dates
<1> HIDE DEF reps
<1>7. (s \notin Rules => left = Left(s) - 1) /\ left \in Dates
  BY <1>6 DEF Dates
<1>8. next \in Dates
  BY <1>4, NextDates
<1> HIDE DEF left, next
<1>9. f.at = now /\ f.cursor = left /\ f.next = next
  BY DEF NoFire
<1>10. f \in Fires(s)
  BY <1>1, <1>4, <1>7, <1>8 DEF NoFire, Fires, CursorsOf, Dates
<1> HIDE DEF f
<1>11. pc'[p] = "fired" /\ job'[p] = job[p] /\ fire'[p] = f
  BY <1>3 DEF IInv, Shape
<1>12. TimerLoop(p)'
  <2>1. /\ job[p].doc.nextFireAt \in Int /\ job[p].doc.nextFireAt <= now
        /\ s \notin Rules => Left(s) + deploys > 0
        /\ \A t \in Times : Exists(s, t) => t < job[p].doc.nextFireAt
    BY <1>0, <1>2 DEF TimerLoop, Held
  <2>2. job'[p].schedule = s /\ row' = row /\ instance' = instance
    BY <1>0, <1>3, <1>11
  <2>3. next = NextFireAfter(s, now, left)
    BY DEF next
  <2>4. now <= now
    BY <1>4
  <2> QED BY <1>3, <1>4, <1>7, <1>9, <1>11, <2>1, <2>2, <2>3, <2>4
          DEF TimerLoop, Held, Left, Exists, NextFireAfter, NextDate, DatesAfter
<1>13. s \in Feeds => FeedLoop(p)'
  BY <1>1
<1> QED BY <1>0, <1>2, <1>3, <1>4, <1>10, <1>12, <1>13, LocalStep DEF Places

(* A feed's list: what a folder has not seen yet, and all it holds.        *)
LEMMA Listed ==
  ASSUME Alone, IInv, SInv, NEW p \in Schedulers, pc[p] = "claimed",
         NEW s \in Feeds, s = job[p].schedule, NEW place \in {"polled", "fired"},
         NEW todo \in SUBSET Items, NEW skipped \in SUBSET Items, NEW cursor \in {Never} \cup SUBSET Items,
         s \in Folders =>
           /\ cursor = published[s]
           /\ todo \cap Seen(row[s].cursor) = {} /\ skipped \subseteq published[s],
         NEW f \in Fires(s), f.todo = todo, f.cursor = cursor, f.skipped = skipped,
         pc' = [pc EXCEPT ![p] = place], fire' = [fire EXCEPT ![p] = f],
         UNCHANGED <<now, row, feedVars, instance, job, deploys>>, mishaps' \in 0..MaxMishaps
  PROVE  SInv'
<1>1. /\ s \in Schedules /\ s \notin Timers /\ job[p].doc \in Rows(s) /\ job[p].doc.cursor = row[s].cursor
      /\ FeedInv(s)
  BY HeldIs, Disjoint
<1>2. /\ job' = [job EXCEPT ![p] = job[p]] /\ pc'[p] = place /\ job'[p].schedule = s /\ fire'[p] = f
      /\ row' = row /\ passed' = passed /\ published' = published
  BY DEF IInv, Shape, feedVars
<1>3. s \in Folders => Seen(cursor) = published[s]
  <2>1. published[s] \in SUBSET Items
    BY DEF IInv, Shape
  <2> QED BY <2>1, Numbers DEF Seen
<1>4. s \in Folders => passed[s] \subseteq Seen(row[s].cursor) /\ Seen(row[s].cursor) \subseteq published[s]
  BY <1>1 DEF FeedInv
<1>5. FeedLoop(p)'
  <2>1. s \in Folders =>
          /\ Seen(row[s].cursor) \subseteq Seen(cursor) /\ Seen(cursor) \subseteq published[s]
          /\ todo \cap passed[s] = {} /\ skipped \subseteq Seen(cursor)
    BY <1>3, <1>4
  <2> QED BY <1>2, <2>1 DEF FeedLoop, Held, Seen
<1>6. place \in Places /\ place # "idle"
  BY DEF Places
<1>7. /\ job[p].schedule \in Schedules /\ job[p].schedule \notin Timers
      /\ job[p].doc \in Rows(job[p].schedule)
      /\ job[p].doc.cursor = row[job[p].schedule].cursor /\ f \in Fires(job[p].schedule)
  BY <1>1
<1> QED BY <1>2, <1>5, <1>6, <1>7, LocalStep

LEMMA SInvList ==
  ASSUME Alone, IInv, SInv, NEW p \in Schedulers, pc[p] = "claimed",
         NEW s \in Feeds, s = job[p].schedule, mishaps' \in 0..MaxMishaps,
         NEW items \in SUBSET Items, NEW cursor \in {Never} \cup SUBSET Items,
         \/ /\ List(p, items, cursor)
            /\ s \in Folders => cursor = published[s] /\ items \cap Seen(row[s].cursor) = {}
         \/ /\ Prime(p, items, cursor)
            /\ s \in Folders => cursor = published[s] /\ items \subseteq published[s]
  PROVE  SInv'
<1>1. CASE List(p, items, cursor)
  <2> DEFINE f == [NoFire EXCEPT !.todo = items, !.cursor = cursor]
  <2>1. f \in Fires(s) /\ f.todo = items /\ f.cursor = cursor /\ f.skipped = {}
    BY DEF NoFire, Fires, CursorsOf, Dates
  <2>2. /\ fire' = [fire EXCEPT ![p] = f] /\ pc' = [pc EXCEPT ![p] = "polled"]
        /\ UNCHANGED <<now, row, feedVars, instance, job, deploys>>
    BY <1>1 DEF List
  <2>3. s \in Folders => cursor = published[s] /\ items \cap Seen(row[s].cursor) = {}
    <3>1. "polled" # "fired"
      OBVIOUS
    <3> QED BY <3>1, <1>1 DEF List, Prime, IInv, Shape
  <2> HIDE DEF f
  <2> QED BY <2>1, <2>2, <2>3, Listed
<1>2. CASE Prime(p, items, cursor)
  <2> DEFINE f == [NoFire EXCEPT !.cursor = cursor, !.skipped = items]
  <2>1. f \in Fires(s) /\ f.todo = {} /\ f.cursor = cursor /\ f.skipped = items
    BY DEF NoFire, Fires, CursorsOf, Dates
  <2>2. /\ fire' = [fire EXCEPT ![p] = f] /\ pc' = [pc EXCEPT ![p] = "fired"]
        /\ UNCHANGED <<now, row, feedVars, instance, job, deploys>>
    BY <1>2 DEF Prime
  <2>3. s \in Folders => cursor = published[s] /\ items \subseteq published[s]
    BY <1>2 DEF List, Prime, IInv, Shape
  <2> HIDE DEF f
  <2> QED BY <2>1, <2>2, <2>3, Listed
<1> QED BY <1>1, <1>2

LEMMA SInvPolls ==
  ASSUME Alone, IInv, SInv, NEW p \in Schedulers,
         PollFolder(p) \/ DeltaExpires(p) \/ PollMailbox(p) \/ PollRss(p)
  PROVE  SInv'
<1>0. PICK s : s = job[p].schedule
  OBVIOUS
<1>1. /\ pc[p] = "claimed" /\ s \in Feeds
      /\ PollFolder(p) \/ DeltaExpires(p) => s \in Folders
      /\ PollMailbox(p) => s \in Mailboxes /\ s \notin Folders
      /\ PollRss(p) => s \in RssFeeds /\ s \notin Folders
  BY <1>0, SchedulesAssumption DEF PollFolder, DeltaExpires, PollMailbox, PollRss, Held, Feeds
<1>2. /\ job[p].doc.cursor = row[s].cursor /\ row[s] \in Rows(s)
      /\ published[s] \in SUBSET Items /\ mishaps \in 0..MaxMishaps
  BY <1>0, <1>1, HeldIs DEF IInv, Shape, SInv, Typed, TypeOK
<1>3. row[s].cursor \in {Never} \cup SUBSET Items
  BY <1>1, <1>2 DEF Rows
<1>4. Seen(row[s].cursor) \in SUBSET Items
  BY <1>3 DEF Seen
<1>5. CASE PollFolder(p)
  <2>1. mishaps' \in 0..MaxMishaps
    BY <1>2, <1>5 DEF PollFolder
  <2>2. \/ Prime(p, published[s], published[s])
        \/ List(p, published[s] \ Seen(row[s].cursor), published[s])
    BY <1>0, <1>2, <1>5 DEF PollFolder, Held
  <2> QED BY <1>0, <1>1, <1>2, <2>1, <2>2, SInvList
<1>6. CASE DeltaExpires(p)
  <2>1. mishaps' \in 0..MaxMishaps
    BY <1>2, <1>6, NumbersAssumption DEF DeltaExpires, Mishap
  <2>2. Prime(p, published[s] \ row[s].cursor, published[s])
    BY <1>0, <1>2, <1>6 DEF DeltaExpires, Held
  <2> QED BY <1>0, <1>1, <1>2, <2>1, <2>2, SInvList
<1>7. CASE PollMailbox(p)
  <2>1. mishaps' \in 0..MaxMishaps
    BY <1>2, <1>7 DEF PollMailbox
  <2>2. List(p, published[s] \ read[s], row[s].cursor)
    BY <1>0, <1>2, <1>7 DEF PollMailbox, Held
  <2> QED BY <1>0, <1>1, <1>2, <1>3, <1>7, <2>1, <2>2, SInvList
<1>8. CASE PollRss(p)
  <2> DEFINE c == CursorFromItems(published[s], row[s].cursor)
  <2>1. mishaps' \in 0..MaxMishaps /\ c \in SUBSET Items
    BY <1>2, <1>4, <1>8 DEF PollRss, CursorFromItems
  <2>2. Prime(p, published[s], c) \/ List(p, published[s], c)
    BY <1>0, <1>2, <1>8 DEF PollRss, Held
  <2> HIDE DEF c
  <2> QED BY <1>0, <1>1, <1>2, <1>8, <2>1, <2>2, SInvList
<1> QED BY <1>5, <1>6, <1>7, <1>8

Records == [status : {"none", "RUNNING", "TERMINATED"}, starts : Nat, slot : Dates]

(* The steps on one item: x is its instance after it.                      *)
LEMMA Handled ==
  ASSUME Alone, IInv, SInv, NEW p \in Schedulers, NEW s \in Feeds, s = job[p].schedule,
         pc[p] \in {"polled", "looked", "created", "marking"},
         NEW place \in Places, place \notin {"idle", "claimed"},
         NEW f \in Fires(s), f.todo \subseteq fire[p].todo, f.cursor = fire[p].cursor,
         f.skipped = fire[p].skipped,
         NEW i \in Items, NEW x \in Records, instance' = [instance EXCEPT ![<<s, i>>] = x],
         x.starts <= 1, x.status # "RUNNING" => x.starts = 0,
         s \in Folders /\ i \in passed[s] => x.starts = 0,
         place = "looked" => f.item = i /\ x.status = "none",
         place = "created" => f.item = i /\ x.status = "RUNNING" /\ x.starts = 0,
         place \in {"looked", "created"} /\ s \in Folders => i \notin passed[s],
         pc' = [pc EXCEPT ![p] = place], fire' = [fire EXCEPT ![p] = f],
         UNCHANGED <<now, row, published, passed, job, mishaps, deploys>>,
         read' \in [Mailboxes -> SUBSET Items]
  PROVE  SInv'
<1>1. /\ s \in Schedules /\ s \notin Timers /\ job[p].doc \in Rows(s) /\ job[p].doc.cursor = row[s].cursor
      /\ FeedLoop(p)
  BY HeldIs, Disjoint
<1>2. /\ pc'[p] = place /\ job'[p] = job[p] /\ fire'[p] = f
      /\ row' = row /\ passed' = passed /\ published' = published
  BY DEF IInv, Shape
<1>3. /\ instance \in [Schedules \X Keys -> Records] /\ <<s, i>> \in Schedules \X Keys
  BY <1>1 DEF SInv, Typed, TypeOK, Records, Keys
<1>4. instance' \in [Schedules \X Keys -> Records]
  BY <1>3
<1>5. instance'[<<s, i>>] = x
  BY <1>3
<1>6. \A u \in Schedules, k \in Keys : u # s \/ k # i => instance'[<<u, k>>] = instance[<<u, k>>]
  BY <1>3
<1>7. Typed'
  <2>1. /\ Typed /\ pc' \in [Schedulers -> Places] /\ mishaps' \in 0..MaxMishaps
        /\ DOMAIN row' = Schedules /\ \A u \in Schedules : row'[u] \in Rows(u)
        /\ passed' \in [Feeds -> SUBSET Items]
    BY DEF SInv, Typed, TypeOK
  <2>2. UNCHANGED <<now, deploys, published>>
    OBVIOUS
  <2>3. IF pc'[p] = "idle" THEN job'[p] = NoJob /\ fire'[p] = NoFire
        ELSE /\ job'[p].schedule \in Schedules /\ job'[p].doc \in Rows(job'[p].schedule)
             /\ job'[p].doc.cursor = row'[job'[p].schedule].cursor
             /\ fire'[p] \in Fires(job'[p].schedule)
    BY <1>1, <1>2
  <2> QED BY <1>4, <2>1, <2>2, <2>3, TypedKept DEF Records
<1>8. ASSUME NEW u \in Timers PROVE TimerInv(u)'
  <2>1. \A t \in Times : instance'[<<u, t>>] = instance[<<u, t>>]
    BY <1>1, <1>6, Disjoint DEF Keys
  <2>2. TimerInv(u) /\ Typed /\ now \in Int /\ deploys \in Int
    BY Numbers DEF SInv, Typed, TypeOK
  <2> QED BY <2>1, <2>2, TimerKept
<1>9. ASSUME NEW u \in Feeds PROVE FeedInv(u)'
  <2>1. FeedInv(u) /\ u \in Schedules /\ Items \subseteq Keys
    BY Disjoint DEF SInv, Keys
  <2>2. ASSUME NEW m \in Items
        PROVE  /\ instance'[<<u, m>>].starts <= 1
               /\ instance'[<<u, m>>].status # "RUNNING" => instance'[<<u, m>>].starts = 0
               /\ u \in Folders /\ m \in passed[u] => instance'[<<u, m>>].starts = 0
    <3>1. CASE u = s /\ m = i
      BY <1>5, <3>1
    <3>2. CASE u # s \/ m # i
      <4>1. instance'[<<u, m>>] = instance[<<u, m>>]
        BY <1>6, <2>1, <3>2
      <4> QED BY <2>1, <4>1 DEF FeedInv
    <3> QED BY <3>1, <3>2
  <2>3. u \in Folders => passed[u] \subseteq Seen(row[u].cursor) /\ Seen(row[u].cursor) \subseteq published[u]
    BY <2>1 DEF FeedInv
  <2> QED BY <1>2, <2>2, <2>3 DEF FeedInv, Seen
<1>10. FeedLoop(p)'
  <2>1. s \in Folders =>
          /\ Seen(row[s].cursor) \subseteq Seen(f.cursor) /\ Seen(f.cursor) \subseteq published[s]
          /\ f.todo \cap passed[s] = {} /\ f.skipped \subseteq Seen(f.cursor)
    BY <1>1 DEF FeedLoop, Held
  <2> QED BY <1>2, <1>5, <2>1 DEF FeedLoop, Held, Seen, Exists
<1> QED BY <1>1, <1>2, <1>7, <1>8, <1>9, <1>10, LoopStep

(* On to the next item, or to the marking of this one.                     *)
LEMMA HandsOn ==
  ASSUME NEW p, NEW s, fire[p] \in Fires(s), NEW i \in Items, NEW todo \in SUBSET Items,
         HandOn(p, i, todo)
  PROVE  \E f \in Fires(s), place \in {"marking", "polled"} :
           /\ f.todo = todo /\ f.cursor = fire[p].cursor /\ f.skipped = fire[p].skipped
           /\ fire' = [fire EXCEPT ![p] = f] /\ pc' = [pc EXCEPT ![p] = place]
<1> DEFINE v     == IF Held(p) \in Mailboxes THEN i ELSE Never
           f     == [fire[p] EXCEPT !.todo = todo, !.item = v]
           place == IF Held(p) \in Mailboxes THEN "marking" ELSE "polled"
<1>1. v \in Items \cup {Never} /\ place \in {"marking", "polled"}
  OBVIOUS
<1>2. fire' = [fire EXCEPT ![p] = f] /\ pc' = [pc EXCEPT ![p] = place]
  BY DEF HandOn
<1> HIDE DEF v, place
<1>3. f \in Fires(s) /\ f.todo = todo /\ f.cursor = fire[p].cursor /\ f.skipped = fire[p].skipped
  BY <1>1 DEF Fires
<1> HIDE DEF f
<1> QED BY <1>1, <1>2, <1>3

(* The item a loop has in hand.                                            *)
LEMMA ItemInHand ==
  ASSUME IInv, SInv, NEW p \in Schedulers, pc[p] \in {"polled", "looked", "created", "marking"}
  PROVE  /\ job[p].schedule \in Feeds /\ fire[p] \in Fires(job[p].schedule)
         /\ fire[p].todo \in SUBSET Items
         /\ pc[p] # "polled" => fire[p].item \in Items
         /\ FeedLoop(p) /\ FeedInv(job[p].schedule) /\ Typed
         /\ job[p].schedule \in Schedules
         /\ instance \in [Schedules \X Keys -> Records] /\ read \in [Mailboxes -> SUBSET Items]
<1>1. LoopInv(p)
  BY DEF IInv
<1>2. /\ job[p].schedule \in Feeds /\ fire[p].todo \in SUBSET Items
      /\ pc[p] # "polled" => fire[p].item \in Items
  BY <1>1 DEF LoopInv, Held
<1>3. instance \in [Schedules \X Keys -> Records] /\ read \in [Mailboxes -> SUBSET Items] /\ Typed
  BY DEF SInv, Typed, TypeOK, Records
<1> QED BY <1>2, <1>3, HeldIs

LEMMA SInvLookUp ==
  ASSUME Alone, IInv, SInv, NEW p \in Schedulers, NEW i \in Items, LookUp(p, i)
  PROVE  SInv'
<1>0. PICK s : s = job[p].schedule
  OBVIOUS
<1>1. pc[p] = "polled" /\ i \in fire[p].todo
  BY DEF LookUp
<1>2. /\ s \in Feeds /\ s \in Schedules /\ fire[p] \in Fires(s) /\ fire[p].todo \in SUBSET Items
      /\ FeedLoop(p) /\ FeedInv(s) /\ Typed
      /\ instance \in [Schedules \X Keys -> Records] /\ read \in [Mailboxes -> SUBSET Items]
  BY <1>0, <1>1, ItemInHand
<1>3. PICK x : x = instance[<<s, i>>]
  OBVIOUS
<1>4. x \in Records /\ instance = [instance EXCEPT ![<<s, i>>] = x]
  BY <1>2, <1>3 DEF Keys
<1>5. /\ x.starts <= 1 /\ (x.status # "RUNNING" => x.starts = 0)
      /\ s \in Folders /\ i \in passed[s] => x.starts = 0
  BY <1>2, <1>3 DEF FeedInv
<1>6. s \in Folders => i \notin passed[s]
  BY <1>0, <1>1, <1>2 DEF FeedLoop, Held
<1>7. /\ UNCHANGED <<now, row, published, passed, job, mishaps, deploys>>
      /\ read' \in [Mailboxes -> SUBSET Items] /\ instance' = [instance EXCEPT ![<<s, i>>] = x]
  BY <1>2, <1>4 DEF LookUp, feedVars
<1>8. PICK todo \in SUBSET Items : todo = fire[p].todo \ {i}
  BY <1>2
<1>9. CASE Exists(Held(p), i)
  <2>1. HandOn(p, i, todo)
    BY <1>8, <1>9 DEF LookUp
  <2>2. PICK f \in Fires(s), place \in {"marking", "polled"} :
           /\ f.todo = todo /\ f.cursor = fire[p].cursor /\ f.skipped = fire[p].skipped
           /\ fire' = [fire EXCEPT ![p] = f] /\ pc' = [pc EXCEPT ![p] = place]
    BY <1>2, <2>1, HandsOn
  <2>3. /\ place \in Places /\ place \notin {"idle", "claimed", "looked", "created"}
        /\ f.todo \subseteq fire[p].todo
    BY <1>8, <2>2 DEF Places
  <2> QED BY <1>0, <1>1, <1>2, <1>4, <1>5, <1>7, <2>2, <2>3, Handled
<1>10. CASE ~Exists(Held(p), i)
  <2> DEFINE f == [fire[p] EXCEPT !.todo = todo, !.item = i]
  <2>1. fire' = [fire EXCEPT ![p] = f] /\ pc' = [pc EXCEPT ![p] = "looked"]
    BY <1>8, <1>10 DEF LookUp
  <2>2. /\ f \in Fires(s) /\ f.todo = todo /\ f.cursor = fire[p].cursor /\ f.skipped = fire[p].skipped
        /\ f.item = i
    BY <1>2 DEF Fires
  <2> HIDE DEF f
  <2>3. "looked" \in Places /\ "looked" \notin {"idle", "claimed", "created"} /\ f.todo \subseteq fire[p].todo
    BY <1>8, <2>2 DEF Places
  <2>4. x.status = "none"
    BY <1>0, <1>3, <1>10 DEF Exists, Held
  <2> QED BY <1>0, <1>1, <1>2, <1>4, <1>5, <1>6, <1>7, <2>1, <2>2, <2>3, <2>4, Handled
<1> QED BY <1>9, <1>10

LEMMA SInvCreateInstance ==
  ASSUME Alone, IInv, SInv, NEW p \in Schedulers, CreateInstance(p)
  PROVE  SInv'
<1>0. PICK s, i : s = job[p].schedule /\ i = fire[p].item
  OBVIOUS
<1>1. pc[p] = "looked"
  BY DEF CreateInstance
<1>2. /\ s \in Feeds /\ s \in Schedules /\ fire[p] \in Fires(s) /\ i \in Items
      /\ FeedLoop(p) /\ FeedInv(s) /\ Typed
      /\ instance \in [Schedules \X Keys -> Records] /\ read \in [Mailboxes -> SUBSET Items]
  BY <1>0, <1>1, ItemInHand
<1>3. instance[<<s, i>>].status = "none" /\ (s \in Folders => i \notin passed[s])
  BY <1>0, <1>1, <1>2 DEF FeedLoop, Held, Exists
<1> DEFINE x == [instance[<<s, i>>] EXCEPT !.status = "RUNNING"]
<1>4. instance' = [instance EXCEPT ![<<s, i>>] = x]
  BY <1>0, <1>3 DEF CreateInstance, Held, Exists
<1>5. instance[<<s, i>>] \in Records /\ instance[<<s, i>>].starts = 0
  BY <1>2, <1>3 DEF FeedInv, Keys
<1>6. x \in Records /\ x.status = "RUNNING" /\ x.starts = 0
  BY <1>5 DEF Records
<1> HIDE DEF x
<1>7. /\ fire' = [fire EXCEPT ![p] = fire[p]] /\ pc' = [pc EXCEPT ![p] = "created"]
      /\ UNCHANGED <<now, row, published, passed, read, job, mishaps, deploys>>
  BY DEF CreateInstance, feedVars, IInv, Shape
<1>8. "created" \in Places /\ "created" \notin {"idle", "claimed", "looked"} /\ x.starts <= 1
  BY <1>6 DEF Places
<1> QED BY <1>0, <1>1, <1>2, <1>3, <1>4, <1>6, <1>7, <1>8, Handled

LEMMA SInvAnswered ==
  ASSUME Alone, IInv, SInv, NEW p \in Schedulers, InsertStart(p) \/ TerminateInstance(p)
  PROVE  SInv'
<1>0. PICK s, i : s = job[p].schedule /\ i = fire[p].item
  OBVIOUS
<1>1. pc[p] = "created" /\ HandOn(p, i, fire[p].todo)
      /\ UNCHANGED <<now, row, published, passed, read, job, mishaps, deploys>>
  BY <1>0 DEF InsertStart, TerminateInstance, feedVars
<1>2. /\ s \in Feeds /\ s \in Schedules /\ fire[p] \in Fires(s) /\ i \in Items
      /\ fire[p].todo \in SUBSET Items
      /\ FeedLoop(p) /\ FeedInv(s) /\ Typed
      /\ instance \in [Schedules \X Keys -> Records] /\ read \in [Mailboxes -> SUBSET Items]
  BY <1>0, <1>1, ItemInHand
<1>3. /\ instance[<<s, i>>].status = "RUNNING" /\ instance[<<s, i>>].starts = 0
      /\ s \in Folders => i \notin passed[s]
      /\ instance[<<s, i>>] \in Records
  BY <1>0, <1>1, <1>2 DEF FeedLoop, Held, Keys
<1>4. PICK x \in Records :
        /\ instance' = [instance EXCEPT ![<<s, i>>] = x]
        /\ x.starts <= 1 /\ (x.status # "RUNNING" => x.starts = 0)
  <2>1. CASE InsertStart(p)
    <3> DEFINE x == [instance[<<s, i>>] EXCEPT !.starts = @ + 1]
    <3>1. instance' = [instance EXCEPT ![<<s, i>>] = x]
      BY <1>0, <2>1 DEF InsertStart, Held
    <3>2. x \in Records /\ x.starts <= 1 /\ x.status = "RUNNING"
      BY <1>3 DEF Records
    <3> HIDE DEF x
    <3> QED BY <3>1, <3>2
  <2>2. CASE TerminateInstance(p)
    <3> DEFINE x == [instance[<<s, i>>] EXCEPT !.status = "TERMINATED"]
    <3>1. instance' = [instance EXCEPT ![<<s, i>>] = x]
      BY <1>0, <2>2 DEF TerminateInstance, Held
    <3>2. x \in Records /\ x.starts <= 1 /\ x.starts = 0
      BY <1>3 DEF Records
    <3> HIDE DEF x
    <3> QED BY <3>1, <3>2
  <2> QED BY <2>1, <2>2
<1>5. PICK f \in Fires(s), place \in {"marking", "polled"} :
           /\ f.todo = fire[p].todo /\ f.cursor = fire[p].cursor /\ f.skipped = fire[p].skipped
           /\ fire' = [fire EXCEPT ![p] = f] /\ pc' = [pc EXCEPT ![p] = place]
  BY <1>1, <1>2, HandsOn
<1>6. /\ place \in Places /\ place \notin {"idle", "claimed", "looked", "created"}
      /\ f.todo \subseteq fire[p].todo
  BY <1>5 DEF Places
<1> QED BY <1>0, <1>1, <1>2, <1>3, <1>4, <1>5, <1>6, Handled

LEMMA SInvMarkAsRead ==
  ASSUME Alone, IInv, SInv, NEW p \in Schedulers, MarkAsRead(p)
  PROVE  SInv'
<1>0. PICK s, i : s = job[p].schedule /\ i = fire[p].item
  OBVIOUS
<1>1. pc[p] = "marking" /\ pc' = [pc EXCEPT ![p] = "polled"]
      /\ UNCHANGED <<now, row, published, passed, job, mishaps, deploys>> /\ instance' = instance
  BY <1>0 DEF MarkAsRead, Held
<1>2. /\ s \in Feeds /\ s \in Schedules /\ fire[p] \in Fires(s) /\ i \in Items
      /\ FeedInv(s) /\ Typed
      /\ instance \in [Schedules \X Keys -> Records] /\ read \in [Mailboxes -> SUBSET Items]
  BY <1>0, <1>1, ItemInHand
<1>3. PICK x : x = instance[<<s, i>>]
  OBVIOUS
<1>4. x \in Records /\ instance' = [instance EXCEPT ![<<s, i>>] = x]
  BY <1>1, <1>2, <1>3 DEF Keys
<1>5. /\ x.starts <= 1 /\ (x.status # "RUNNING" => x.starts = 0)
      /\ s \in Folders /\ i \in passed[s] => x.starts = 0
  BY <1>2, <1>3 DEF FeedInv
<1> DEFINE f == [fire[p] EXCEPT !.item = Never]
<1>6. fire' = [fire EXCEPT ![p] = f]
  BY DEF MarkAsRead
<1>7. /\ f \in Fires(s) /\ f.todo = fire[p].todo /\ f.cursor = fire[p].cursor /\ f.skipped = fire[p].skipped
  BY <1>2 DEF Fires
<1> HIDE DEF f
<1>8. read' \in [Mailboxes -> SUBSET Items]
  <2>1. read' = [read EXCEPT ![s] = @ \cup {i}]
    BY <1>0 DEF MarkAsRead, Held
  <2> QED BY <1>2, <2>1
<1>9. PICK place \in Places :
        place = "polled" /\ place \notin {"idle", "claimed", "looked", "created"}
  BY DEF Places
<1>10. pc' = [pc EXCEPT ![p] = place] /\ pc[p] \in {"polled", "looked", "created", "marking"}
  BY <1>1, <1>9
<1>11. f.todo \subseteq fire[p].todo
  BY <1>7
<1>12. UNCHANGED <<now, row, published, passed, job, mishaps, deploys>>
  BY <1>1
<1> QED BY <1>0, <1>2, <1>4, <1>5, <1>6, <1>7, <1>8, <1>9, <1>10, <1>11, <1>12, Handled

LEMMA SInvItemsDone ==
  ASSUME Alone, IInv, SInv, NEW p \in Schedulers, ItemsDone(p)
  PROVE  SInv'
<1>0. PICK s : s = job[p].schedule
  OBVIOUS
<1>1. /\ pc[p] = "polled" /\ pc' = [pc EXCEPT ![p] = "fired"]
      /\ job' = [job EXCEPT ![p] = job[p]] /\ fire' = [fire EXCEPT ![p] = fire[p]]
      /\ UNCHANGED <<now, row, feedVars, instance, deploys>> /\ mishaps' = mishaps
  BY DEF ItemsDone, IInv, Shape
<1>2. s \in Feeds /\ s \notin Timers /\ FeedLoop(p)
  BY <1>0, <1>1, ItemInHand, Disjoint
<1>3. /\ job[p].schedule \in Schedules /\ job[p].schedule \notin Timers
      /\ job[p].doc \in Rows(job[p].schedule)
      /\ job[p].doc.cursor = row[job[p].schedule].cursor /\ fire[p] \in Fires(job[p].schedule)
  BY <1>0, <1>1, <1>2, HeldIs
<1>4. /\ pc'[p] = "fired" /\ job'[p] = job[p] /\ fire'[p] = fire[p]
      /\ row' = row /\ passed' = passed /\ published' = published
  BY <1>1 DEF IInv, Shape, feedVars
<1>5. FeedLoop(p)'
  BY <1>1, <1>2, <1>4 DEF FeedLoop, Held, Seen
<1>6. mishaps' \in 0..MaxMishaps
  BY <1>1 DEF SInv, Typed, TypeOK
<1> QED BY <1>1, <1>3, <1>5, <1>6, LocalStep DEF Places

(* A fire that fails writes no more than when it is to be tried again.     *)
LEMMA SInvGivenUp ==
  ASSUME Alone, IInv, SInv, NEW p \in Schedulers, GoIdle(p), NEW s \in Schedules, NEW r \in Rows(s),
         r.cursor = row[s].cursor, r.status = row[s].status, r.nextFireAt = row[s].nextFireAt,
         row' = [row EXCEPT ![s] = r],
         UNCHANGED <<now, feedVars, instance, deploys>>, mishaps' \in 0..MaxMishaps
  PROVE  SInv'
<1>1. pc'[p] = "idle" /\ job'[p] = NoJob /\ fire'[p] = NoFire
  BY DEF GoIdle, IInv, Shape
<1>2. \A u \in Schedules : row'[u] = IF u = s THEN r ELSE row[u]
  BY DEF IInv, Shape
<1>3. \A u \in Schedules : /\ row'[u].cursor = row[u].cursor /\ row'[u].status = row[u].status
                           /\ row'[u].nextFireAt = row[u].nextFireAt
  BY <1>2
<1>4. Typed'
  <2>1. /\ Typed /\ pc' \in [Schedulers -> Places]
        /\ passed' \in [Feeds -> SUBSET Items] /\ read' \in [Mailboxes -> SUBSET Items]
        /\ instance' \in [Schedules \X Keys ->
             [status : {"none", "RUNNING", "TERMINATED"}, starts : Nat, slot : Dates]]
    BY DEF SInv, Typed, TypeOK, feedVars, GoIdle, Places
  <2>2. DOMAIN row' = Schedules /\ \A u \in Schedules : row'[u] \in Rows(u)
    BY <1>2 DEF SInv, Typed, TypeOK
  <2>3. UNCHANGED <<now, deploys, published>>
    BY DEF feedVars
  <2> QED BY <1>1, <2>1, <2>2, <2>3, TypedKept
<1>5. ASSUME NEW u \in Timers PROVE TimerInv(u)'
  <2>1. TimerInv(u) /\ Typed /\ now \in Int /\ deploys \in Int
    BY Numbers DEF SInv, Typed, TypeOK
  <2> QED BY <1>3, <2>1, TimerKept, Disjoint
<1>6. ASSUME NEW u \in Feeds PROVE FeedInv(u)'
  BY <1>3, FeedKept, Disjoint DEF SInv, feedVars
<1> QED BY <1>1, <1>4, <1>5, <1>6, LoopStep

LEMMA SInvFails ==
  ASSUME Alone, IInv, SInv, NEW p \in Schedulers,
         PersistThrows(p) \/ PersistFails(p) \/ FireFails(p) \/ Crash(p)
  PROVE  SInv'
<1>0. PICK s : s = job[p].schedule
  OBVIOUS
<1>1. /\ pc[p] # "idle" /\ GoIdle(p) /\ UNCHANGED <<now, feedVars, instance, deploys>>
      /\ Mishap \/ mishaps' = mishaps
  BY DEF PersistThrows, PersistFails, FireFails, Crash
<1>2. /\ s \in Schedules /\ row[s] \in Rows(s) /\ job[p].doc \in Rows(s)
      /\ mishaps \in 0..MaxMishaps /\ now \in Int
  BY <1>0, <1>1, HeldIs, Numbers DEF SInv, Typed, TypeOK
<1>3. mishaps' \in 0..MaxMishaps
  BY <1>1, <1>2, NumbersAssumption DEF Mishap
<1>4. CASE row' = row
  <2>1. row' = [row EXCEPT ![s] = row[s]]
    BY <1>2, <1>4 DEF IInv, Shape
  <2> QED BY <1>1, <1>2, <1>3, <2>1, SInvGivenUp
<1>5. CASE FireFails(p)
  <2> DEFINE n == job[p].doc.failures + 1
             t == now + RetryDelay(s, n)
             r == [row[s] EXCEPT !.failures = n, !.retryAfter = t]
  <2>1. row' = [row EXCEPT ![s] = r]
    BY <1>0, <1>5 DEF FireFails, Held
  <2>2. n \in Nat
    BY <1>2 DEF Rows
  <2> HIDE DEF n
  <2>3. t \in Dates
    <3>1. \A a, b \in Int : Smaller(a, b) \in Int /\ Larger(a, b) \in Int
      BY DEF Smaller, Larger
    <3>2. Smaller(Larger(1, n) - 1, 30) \in Nat
      BY <2>2 DEF Smaller, Larger
    <3>3. \A m \in Nat : 2 ^ m \in Int
      OBVIOUS
    <3> DEFINE b == RetryBase * 2 ^ Smaller(Larger(1, n) - 1, 30)
    <3>4. b \in Int
      BY <3>2, <3>3, NumbersAssumption
    <3> HIDE DEF b
    <3>5. Smaller(RetryCap, b) \in Int /\ (IF s \in Feeds THEN Interval ELSE 0) \in Int
      BY <3>1, <3>4, NumbersAssumption
    <3>6. RetryDelay(s, n) \in Int
      BY <3>1, <3>5 DEF RetryDelay, b
    <3> QED BY <1>2, <3>6 DEF Dates
  <2> HIDE DEF t
  <2>4. /\ r \in Rows(s) /\ r.cursor = row[s].cursor /\ r.status = row[s].status
        /\ r.nextFireAt = row[s].nextFireAt
    BY <1>2, <2>2, <2>3 DEF Rows
  <2> HIDE DEF r
  <2> QED BY <1>1, <1>2, <1>3, <2>1, <2>4, SInvGivenUp
<1> QED BY <1>4, <1>5 DEF PersistThrows, PersistFails, Crash

(* The due time has been dealt with: the instance of it is the first at or *)
(* after that time.                                                        *)
LEMMA TimerPersisted ==
  ASSUME Alone, IInv, SInv, NEW p \in Schedulers, Persist(p), NEW s \in Timers, s = job[p].schedule
  PROVE  TimerInv(s)'
<1> USE Numbers
<1>1. /\ pc[p] = "fired" /\ s \in Schedules /\ s \notin Feeds /\ row[s] \in Rows(s)
      /\ fire[p] \in Fires(s) /\ TimerLoop(p) /\ TimerInv(s)
  BY HeldIs, Disjoint DEF Persist
<1>2. PICK at, due : at = fire[p].at /\ due = job[p].doc.nextFireAt
  OBVIOUS
<1>3. /\ at \in Times /\ at \in Int /\ due \in Int /\ due <= at /\ at <= now
      /\ s \notin Rules => fire[p].cursor = Left(s) - 1 /\ Left(s) + deploys > 0
      /\ fire[p].next = NextFireAfter(s, at, fire[p].cursor)
      /\ \A t \in Times : Exists(s, t) => t < due
  BY <1>1, <1>2 DEF TimerLoop, Held
<1>4. row[s].cursor \in Dates /\ now \in Int /\ deploys \in Int
  BY <1>1 DEF Rows, SInv, Typed, TypeOK
<1>5. Left(s) \in Int
  BY <1>4 DEF Left, Dates
<1>6. s \notin Rules => fire[p].cursor \in Int /\ fire[p].cursor # Never
  BY <1>3, <1>5
<1>7. ~Exists(s, at)
  BY <1>3
<1>8. Times \subseteq Keys /\ UNCHANGED <<now, deploys>>
  BY DEF Keys, Persist
<1>9. PICK x : x = [status |-> "RUNNING", starts |-> 1, slot |-> due]
  OBVIOUS
<1>10. x.status = "RUNNING" /\ x.slot = due
  BY <1>9
<1>11. \A t \in Times : instance'[<<s, t>>] = IF t = at THEN x ELSE instance[<<s, t>>]
  <2>1. instance' = [k \in Schedules \X Keys |->
           IF k = <<s, at>> THEN x ELSE instance[k]]
    BY <1>2, <1>7, <1>9 DEF Persist, Held
  <2> QED BY <1>1, <1>8, <2>1
<1>12. /\ row'[s].cursor = fire[p].cursor /\ row'[s].nextFireAt = fire[p].next
       /\ row'[s].status = IF fire[p].next = Never THEN "EXHAUSTED" ELSE row[s].status
  <2>1. row'[s] = Advanced(row[s], p)
    BY <1>1 DEF Persist, Held, IInv, Shape
  <2>2. \A r \in Rows(s) :
          /\ Advanced(r, p).cursor = fire[p].cursor /\ Advanced(r, p).nextFireAt = fire[p].next
          /\ Advanced(r, p).status = IF fire[p].next = Never THEN "EXHAUSTED" ELSE r.status
    BY <1>1 DEF Advanced, ClearBackoff, Rows, Held
  <2> QED BY <1>1, <2>1, <2>2
<1>13. \A t \in Times : Exists(s, t)' <=> Exists(s, t) \/ t = at
  BY <1>10, <1>11 DEF Exists
<1>14. s \notin Rules => Left(s)' = Left(s) - 1
  BY <1>3, <1>6, <1>12 DEF Left
<1>15. Started(s)' = Started(s) + 1 /\ Started(s) \in Int
  <2> DEFINE E == { t \in Times : Exists(s, t) }
  <2>1. { t \in Times : Exists(s, t)' } = E \cup {at}
    BY <1>3, <1>13
  <2>2. IsFiniteSet(Times)
    <3>1. 0 \in Int /\ MaxTime \in Int
      BY NumbersAssumption
    <3> QED BY <3>1, FS_Interval DEF Times
  <2>3. IsFiniteSet(E) /\ at \notin E
    BY <1>7, <2>2, FS_Subset
  <2>4. Cardinality(E \cup {at}) = Cardinality(E) + 1 /\ Cardinality(E) \in Nat
    BY <2>3, FS_AddElement, FS_CardinalityType
  <2> QED BY <2>1, <2>4 DEF Started
<1>16. /\ s \notin Rules => Started(s) + Left(s) = Repetitions
       /\ s \notin Rules /\ row[s].status = "EXHAUSTED" => Left(s) <= 0
       /\ \A t \in Times : Exists(s, t) =>
            instance[<<s, t>>].slot \in Int /\ instance[<<s, t>>].slot <= t /\ t <= now
       /\ \A t, u \in Times :
            Exists(s, t) /\ Exists(s, u) /\ t # u => instance[<<s, t>>].slot # instance[<<s, u>>].slot
  BY <1>1 DEF TimerInv, CycleInv
<1>17. s \notin Rules => Started(s)' + Left(s)' = Repetitions
  BY <1>5, <1>14, <1>15, <1>16
<1>18. fire[p].next # Never => fire[p].next \in Int /\ fire[p].next > at
  BY <1>3, NextDates
<1>19. s \notin Rules => (fire[p].next = Never <=> fire[p].cursor <= 0)
  BY <1>3, <1>6, NextDates
<1>20. ASSUME s \notin Rules
       PROVE  /\ Left(s)' + deploys' >= 0 /\ (row'[s].nextFireAt # Never => Left(s)' + deploys' > 0)
              /\ row'[s].status = "EXHAUSTED" => Left(s)' <= 0
  <2>1. Left(s)' = fire[p].cursor /\ deploys' = deploys
    BY <1>3, <1>8, <1>14, <1>20
  <2>2. Left(s) - 1 + deploys >= 0 /\ (fire[p].cursor > 0 => fire[p].cursor + deploys > 0)
    <3>1. deploys >= 0
      BY DEF SInv, Typed, TypeOK
    <3> QED BY <1>3, <1>4, <1>5, <1>6, <1>20, <3>1
  <2>3. row[s].status = "EXHAUSTED" => fire[p].cursor <= 0
    BY <1>3, <1>5, <1>16, <1>20
  <2>4. fire[p].next # Never => fire[p].cursor > 0
    BY <1>6, <1>19, <1>20
  <2> QED BY <1>3, <1>12, <1>19, <1>20, <2>1, <2>2, <2>3, <2>4
<1>21. ASSUME NEW t \in Times, Exists(s, t)'
       PROVE  /\ instance'[<<s, t>>].slot \in Int /\ instance'[<<s, t>>].slot <= t /\ t <= now'
              /\ row'[s].nextFireAt # Never => t < row'[s].nextFireAt
  <2>1. CASE t = at
    BY <1>3, <1>8, <1>10, <1>11, <1>12, <1>18, <2>1
  <2>2. CASE t # at
    <3>1. Exists(s, t) /\ instance'[<<s, t>>] = instance[<<s, t>>]
      BY <1>11, <1>13, <1>21, <2>2
    <3>2. t < at
      <4>1. t \in Int /\ t < due
        BY <1>3, <3>1
      <4> QED BY <1>3, <4>1, Later
    <3>3. row'[s].nextFireAt # Never => t < row'[s].nextFireAt
      BY <1>3, <1>12, <1>18, <3>2, Later
    <3> QED BY <1>8, <1>16, <3>1, <3>3
  <2> QED BY <2>1, <2>2
<1>22. ASSUME NEW t \in Times, NEW u \in Times, Exists(s, t)', Exists(s, u)', t # u
       PROVE  instance'[<<s, t>>].slot # instance'[<<s, u>>].slot
  <2>1. ASSUME NEW w \in Times, Exists(s, w) PROVE instance[<<s, w>>].slot # due
    <3>1. instance[<<s, w>>].slot \in Int /\ instance[<<s, w>>].slot <= w /\ w < due /\ w \in Int
      BY <1>3, <1>16, <2>1
    <3>2. instance[<<s, w>>].slot < due
      BY <1>3, <3>1, Later
    <3> QED BY <3>1, <3>2
  <2>2. CASE t # at /\ u # at
    BY <1>11, <1>13, <1>16, <1>22, <2>2
  <2>3. CASE t = at
    <3>1. Exists(s, u) /\ instance'[<<s, u>>] = instance[<<s, u>>] /\ instance'[<<s, t>>] = x
      BY <1>11, <1>13, <1>22, <2>3
    <3> QED BY <1>10, <2>1, <3>1
  <2>4. CASE u = at
    <3>1. Exists(s, t) /\ instance'[<<s, t>>] = instance[<<s, t>>] /\ instance'[<<s, u>>] = x
      BY <1>11, <1>13, <1>22, <2>4
    <3> QED BY <1>10, <2>1, <3>1
  <2> QED BY <2>2, <2>3, <2>4
<1> QED BY <1>17, <1>20, <1>21, <1>22 DEF TimerInv, CycleInv

(* The folder's new cursor has what was passed over behind it.             *)
LEMMA FeedPersisted ==
  ASSUME Alone, IInv, SInv, NEW p \in Schedulers, Persist(p), NEW s \in Feeds, s = job[p].schedule
  PROVE  FeedInv(s)'
<1>1. /\ pc[p] = "fired" /\ s \in Schedules /\ s \notin Timers /\ row[s] \in Rows(s)
      /\ FeedLoop(p) /\ FeedInv(s)
  BY HeldIs, Disjoint DEF Persist
<1>2. \A i \in Items : instance'[<<s, i>>] = instance[<<s, i>>]
  BY <1>1 DEF Persist, Held, Keys
<1>3. passed'[s] = passed[s] \cup { i \in fire[p].skipped : ~Exists(s, i) } /\ published' = published
  BY DEF Persist, Held
<1>4. row'[s].cursor = fire[p].cursor
  <2>1. row'[s] = Advanced(row[s], p)
    BY <1>1 DEF Persist, Held, IInv, Shape
  <2>2. IsRow(row[s])
    BY <1>1 DEF IInv, Shape
  <2> QED BY <2>1, <2>2, AdvancedRow
<1>5. ASSUME NEW i \in Items
      PROVE  /\ instance'[<<s, i>>].starts <= 1
             /\ instance'[<<s, i>>].status # "RUNNING" => instance'[<<s, i>>].starts = 0
             /\ s \in Folders /\ i \in passed'[s] => instance'[<<s, i>>].starts = 0
  <2>1. /\ instance[<<s, i>>].starts <= 1
        /\ instance[<<s, i>>].status # "RUNNING" => instance[<<s, i>>].starts = 0
        /\ s \in Folders /\ i \in passed[s] => instance[<<s, i>>].starts = 0
    BY <1>1 DEF FeedInv
  <2>2. i \in passed'[s] /\ i \notin passed[s] => instance[<<s, i>>].status = "none"
    BY <1>3 DEF Exists
  <2> QED BY <1>2, <2>1, <2>2
<1>6. s \in Folders => /\ passed'[s] \subseteq Seen(fire[p].cursor)
                       /\ Seen(fire[p].cursor) \subseteq published[s]
  BY <1>1, <1>3 DEF FeedLoop, FeedInv, Held
<1> QED BY <1>3, <1>4, <1>5, <1>6 DEF FeedInv, Seen

LEMMA SInvPersist ==
  ASSUME Alone, IInv, SInv, NEW p \in Schedulers, Persist(p)
  PROVE  SInv'
<1>0. PICK s, due : s = job[p].schedule /\ due = job[p].doc.nextFireAt
  OBVIOUS
<1>1. /\ pc[p] = "fired" /\ s \in Schedules /\ row[s] \in Rows(s) /\ job[p].doc \in Rows(s)
      /\ fire[p] \in Fires(s)
  BY <1>0, HeldIs DEF Persist
<1>2. pc'[p] = "idle" /\ job'[p] = NoJob /\ fire'[p] = NoFire
  BY DEF Persist, GoIdle, IInv, Shape
<1>3. \A u \in Schedules : row'[u] = IF u = s THEN Advanced(row[s], p) ELSE row[u]
  BY <1>0, <1>1 DEF Persist, Held, IInv, Shape
<1>4. PICK x : x = [status |-> "RUNNING", starts |-> 1, slot |-> due]
  OBVIOUS
<1>5. instance' = [k \in Schedules \X Keys |->
        IF s \in Timers /\ k = <<s, fire[p].at>> /\ ~Exists(s, fire[p].at) THEN x ELSE instance[k]]
  BY <1>0, <1>4 DEF Persist, Held
<1>6. \A u \in Schedules, k \in Keys :
        u # s \/ s \notin Timers => instance'[<<u, k>>] = instance[<<u, k>>]
  BY <1>5
<1>7. \A u \in Feeds : u # s => passed'[u] = passed[u]
  BY <1>0 DEF Persist, Held
<1>8. Typed'
  <2>1. /\ Typed /\ pc' \in [Schedulers -> Places] /\ mishaps' \in 0..MaxMishaps
        /\ read' \in [Mailboxes -> SUBSET Items]
    BY DEF SInv, Typed, TypeOK, Persist, GoIdle, Places
  <2>2. UNCHANGED <<now, deploys, published>>
    BY DEF Persist
  <2>3. Advanced(row[s], p) \in Rows(s)
    <3>1. fire[p].cursor \in CursorsOf(s) /\ fire[p].next \in Dates
      BY <1>1 DEF Fires
    <3>2. now \in Dates
      BY Numbers DEF SInv, Typed, TypeOK, Dates
    <3> DEFINE timed == IF s \in Feeds THEN row[s] ELSE [row[s] EXCEPT !.nextFireAt = fire[p].next]
               c     == ClearBackoff(timed)
               st    == IF s \in Timers /\ fire[p].next = Never THEN "EXHAUSTED" ELSE c.status
               r     == [c EXCEPT !.cursor = fire[p].cursor, !.lastFiredAt = now, !.status = st]
    <3>3. Advanced(row[s], p) = r
      BY <1>0 DEF Advanced, Held
    <3>4. timed \in Rows(s)
      BY <1>1, <3>1 DEF Rows
    <3> HIDE DEF timed
    <3>5. c \in Rows(s)
      BY <3>4, Cleared
    <3> HIDE DEF c
    <3>6. st \in {"none", "ACTIVE", "PAUSED", "EXHAUSTED"}
      BY <3>5 DEF Rows
    <3> HIDE DEF st
    <3>7. r \in Rows(s)
      BY <3>1, <3>2, <3>5, <3>6 DEF Rows, CursorsOf
    <3> QED BY <3>3, <3>7
  <2>4. DOMAIN row' = Schedules /\ \A u \in Schedules : row'[u] \in Rows(u)
    BY <1>3, <2>3 DEF SInv, Typed, TypeOK, Persist
  <2>5. passed' \in [Feeds -> SUBSET Items]
    <3>1. fire[p].skipped \in SUBSET Items /\ passed \in [Feeds -> SUBSET Items]
      BY <1>1 DEF Fires, SInv, Typed, TypeOK
    <3> QED BY <3>1 DEF Persist
  <2>6. instance' \in [Schedules \X Keys -> Records]
    <3>1. x \in Records
      BY <1>0, <1>1, <1>4 DEF Records, Rows
    <3>2. instance \in [Schedules \X Keys -> Records]
      BY DEF SInv, Typed, TypeOK, Records
    <3> QED BY <1>5, <3>1, <3>2
  <2> QED BY <1>2, <2>1, <2>2, <2>4, <2>5, <2>6, TypedKept DEF Records
<1>9. ASSUME NEW u \in Timers PROVE TimerInv(u)'
  <2>1. CASE u = s
    BY <1>0, <2>1, TimerPersisted
  <2>2. CASE u # s
    <3>1. TimerInv(u) /\ Typed /\ now \in Int /\ deploys \in Int
      BY Numbers DEF SInv, Typed, TypeOK
    <3>2. row'[u] = row[u] /\ \A t \in Times : instance'[<<u, t>>] = instance[<<u, t>>]
      BY <1>3, <1>6, <2>2, Disjoint DEF Keys
    <3>3. now' = now /\ deploys' = deploys
      BY DEF Persist
    <3> QED BY <3>1, <3>2, <3>3, TimerKept
  <2> QED BY <2>1, <2>2
<1>10. ASSUME NEW u \in Feeds PROVE FeedInv(u)'
  <2>1. CASE u = s
    BY <1>0, <2>1, FeedPersisted
  <2>2. CASE u # s
    <3>1. row'[u] = row[u] /\ \A i \in Items : instance'[<<u, i>>] = instance[<<u, i>>]
      BY <1>3, <1>6, <2>2, Disjoint DEF Keys
    <3>2. passed'[u] = passed[u] /\ published' = published /\ FeedInv(u)
      BY <1>7, <2>2 DEF Persist, SInv
    <3> QED BY <3>1, <3>2, FeedKept
  <2> QED BY <2>1, <2>2
<1> QED BY <1>2, <1>8, <1>9, <1>10, LoopStep

------------------------------------------------------------------------------
LEMMA SInvInit == Init => SInv
<1> SUFFICES ASSUME Init PROVE SInv
  OBVIOUS
<1> USE Numbers
<1>1. /\ DOMAIN row = Schedules /\ now = 0 /\ deploys = 0 /\ mishaps = 0
      /\ \A s \in Schedules :
           /\ row[s] \in Rows(s) /\ row[s].cursor = Never
           /\ row[s].status # "EXHAUSTED"
  <2>1. PICK D \in Deployments : row = [s \in Schedules |->
       [status |-> IF s \in D THEN "ACTIVE" ELSE "none",
        nextFireAt |-> IF s \in Timers THEN NextFireAfter(s, 0, Never) ELSE Never,
        lastFiredAt |-> Never, cursor |-> Never, failures |-> 0, retryAfter |-> Never]]
    BY DEF Init
  <2>2. \A s \in Schedules : NextFireAfter(s, 0, Never) \in Dates
    BY NextDates
  <2> QED BY <2>1, <2>2 DEF Init, Rows, Dates
<1>2. \A k \in Schedules \X Keys :
        instance[k] \in Records /\ instance[k].status = "none" /\ instance[k].starts = 0
  BY DEF Init, NoInstance, Records, Dates
<1>3. /\ published \in [Feeds -> SUBSET Items] /\ passed \in [Feeds -> SUBSET Items]
      /\ \A s \in Feeds : passed[s] = {}
      /\ read \in [Mailboxes -> SUBSET Items]
      /\ instance \in [Schedules \X Keys -> Records]
      /\ pc \in [Schedulers -> Places] /\ \A p \in Schedulers : pc[p] = "idle"
      /\ \A p \in Schedulers : job[p] = NoJob /\ fire[p] = NoFire
  BY <1>2 DEF Init, Places
<1>4. Typed
  <2>1. now \in Times /\ mishaps \in 0..MaxMishaps /\ deploys \in 0..MaxDeploys
    BY <1>1, NumbersAssumption DEF Times
  <2> QED BY <1>1, <1>3, <2>1 DEF Typed, TypeOK, Records
<1>5. ASSUME NEW s \in Timers PROVE TimerInv(s)
  <2>1. /\ s \in Schedules /\ Left(s) = Repetitions /\ row[s].status # "EXHAUSTED"
    BY <1>1, Disjoint DEF Left
  <2>2. \A t \in Times : ~Exists(s, t)
    BY <1>2, Disjoint DEF Exists, Keys
  <2>3. Started(s) = 0
    <3>1. { t \in Times : Exists(s, t) } = {}
      BY <2>2
    <3> QED BY <3>1, FS_EmptySet DEF Started
  <2>4. CycleInv(s)
    BY <1>1, <2>1, <2>3 DEF CycleInv
  <2> QED BY <2>2, <2>4 DEF TimerInv
<1>6. ASSUME NEW s \in Feeds PROVE FeedInv(s)
  <2>1. row[s].cursor = Never /\ passed[s] = {} /\ published[s] \in SUBSET Items
    BY <1>1, <1>3, Disjoint
  <2>2. \A i \in Items : instance[<<s, i>>].starts = 0
    BY <1>2, Disjoint DEF Keys
  <2> QED BY <2>1, <2>2 DEF FeedInv, Seen
<1> QED BY <1>3, <1>4, <1>5, <1>6 DEF SInv

LEMMA SInvStep == Alone /\ IInv /\ SInv /\ [Next]_vars => SInv'
<1> SUFFICES ASSUME Alone, IInv, SInv, [Next]_vars PROVE SInv'
  OBVIOUS
<1>1. ASSUME NEW p \in Schedulers, HandleItem(p) PROVE SInv'
  BY <1>1, SInvLookUp, SInvCreateInstance, SInvAnswered DEF HandleItem
<1>2. ASSUME NEW p \in Schedulers, Step(p) PROVE SInv'
  BY <1>1, <1>2, SInvClaim, SInvFireTimer, SInvPolls, SInvMarkAsRead, SInvItemsDone, SInvPersist,
     SInvFails DEF Step, FireFolder, FireMailbox, FireRss
<1>3. ASSUME NEW p \in Schedulers, DeltaExpires(p) \/ PersistFails(p) \/ FireFails(p) \/ Crash(p)
      PROVE  SInv'
  BY <1>3, SInvFails, SInvPolls
<1> QED BY <1>2, <1>3, WorldSteps DEF Next

LEMMA SingleLoop == ASSUME Alone PROVE Spec => []SInv
<1>1. IInv /\ SInv /\ [Next]_vars => SInv'
  BY SInvStep
<1> QED BY <1>1, SInvInit, Invariance, PTL DEF Spec

(* With one loop a due time of a timer starts one instance.  Whatever      *)
(* fails or dies between the call of fire() and the transaction, and       *)
(* however late it is tried again: the row's next date and the instance    *)
(* are written together, so that every instance is of a time before the    *)
(* date that is still to come, and for a due time not after its own.       *)
THEOREM DueTimesStartOnce ==
  ASSUME Alone
  PROVE  Spec => []OneInstancePerDueTime
<1>1. SInv => OneInstancePerDueTime
  BY DEF SInv, TimerInv, OneInstancePerDueTime
<1> QED BY <1>1, SingleLoop, PTL

(* The instances that a timer has started and the repetitions that its     *)
(* cursor has left always make up R<n>: persistFireResult writes both in   *)
(* one transaction.  The cursor falls below zero by no more than the       *)
(* number of deployments, each of which lets it fire once more.            *)
THEOREM RepetitionsHold ==
  ASSUME Alone
  PROVE  Spec => []RepetitionsAreCounted
<1>1. SInv => RepetitionsAreCounted
  <2> SUFFICES ASSUME SInv, NEW s \in Timers \ Rules
               PROVE  /\ Started(s) <= Repetitions + deploys
                      /\ row[s].status = "EXHAUSTED" => Started(s) >= Repetitions
    BY DEF RepetitionsAreCounted, SInv, Typed
  <2>1. /\ Started(s) + Left(s) = Repetitions /\ Left(s) + deploys >= 0
        /\ row[s].status = "EXHAUSTED" => Left(s) <= 0
    BY DEF SInv, TimerInv, CycleInv
  <2>2. Started(s) \in Nat
    <3>1. 0 \in Int /\ MaxTime \in Int
      BY NumbersAssumption
    <3>2. IsFiniteSet(Times)
      BY <3>1, FS_Interval DEF Times
    <3>3. IsFiniteSet({ t \in Times : Exists(s, t) })
      BY <3>2, FS_Subset
    <3> QED BY <3>3, FS_CardinalityType DEF Started
  <2>3. Left(s) \in Int
    <3>1. row[s] \in Rows(s) /\ s \notin Feeds
      BY Disjoint DEF SInv, Typed, TypeOK
    <3>2. row[s].cursor \in Dates
      BY <3>1 DEF Rows
    <3> QED BY <3>2, Numbers DEF Left, Dates
  <2>4. deploys \in Int /\ Repetitions \in Int
    BY Numbers DEF SInv, Typed, TypeOK
  <2> QED BY <2>1, <2>2, <2>3, <2>4
<1> QED BY <1>1, SingleLoop, PTL

(* With one loop an item is given at most one START: the host answers for  *)
(* it in the fire that has created its instance, and a later fire that     *)
(* finds the instance, answered or not, leaves it alone.  What the host    *)
(* has skipped, or a folder passed over, is given none.                    *)
THEOREM ItemsStart ==
  ASSUME Alone
  PROVE  Spec => []ItemsStartOnce
<1>1. SInv => ItemsStartOnce
  BY DEF SInv, FeedInv, ItemsStartOnce
<1> QED BY <1>1, SingleLoop, PTL
=============================================================================
