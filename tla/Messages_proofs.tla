--------------------------- MODULE Messages_proofs ---------------------------
(***************************************************************************)
(* Proofs about Messages, for any number of rows, calls and instants, any  *)
(* precision of a Date and any limits: what a client sees that pages       *)
(* through findAll() while rows are created, updated, removed and brought  *)
(* back.                                                                   *)
(***************************************************************************)
EXTENDS Messages, Migrations_proofs, FiniteSetTheorems, TLAPS

------------------------------------------------------------------------------
\* Dates: a timestamp cut to the precision of a Date.
LEMMA DateBounds ==
    ASSUME NEW t \in Nat
    PROVE  ToDate(t) \in Nat /\ ToDate(t) <= t /\ t < ToDate(t) + TicksPerMs
  BY MessagesAssumption DEF ToDate

\* A Date is a whole number of milliseconds.
LEMMA DateIsMultiple ==
    ASSUME NEW t \in Nat
    PROVE  \E q \in Nat : ToDate(t) = TicksPerMs * q
<1>1. TicksPerMs \in Nat \ {0}
  BY MessagesAssumption
<1> QED
  BY <1>1 DEF ToDate

\* Whole milliseconds less than one apart are in order.
LEMMA MultiplesOrdered ==
    ASSUME NEW q \in Nat, NEW p \in Nat, TicksPerMs * q < TicksPerMs * p + TicksPerMs
    PROVE  q <= p
<1>1. SUFFICES ASSUME q >= p + 1 PROVE FALSE
  OBVIOUS
<1>2. TicksPerMs * q >= TicksPerMs * (p + 1)
  BY <1>1, MessagesAssumption
<1> QED
  BY <1>2, MessagesAssumption

\* Two timestamps with none of a later Date between them share their Date.
LEMMA SameDate ==
    ASSUME NEW a \in Nat, NEW b \in Nat, ToDate(b) <= a, a <= b
    PROVE  ToDate(a) = ToDate(b)
<1>1. PICK q \in Nat : ToDate(a) = TicksPerMs * q
  BY DateIsMultiple
<1>2. PICK p \in Nat : ToDate(b) = TicksPerMs * p
  BY DateIsMultiple
<1>3. p <= q
  BY DateBounds, MultiplesOrdered, <1>1, <1>2, MessagesAssumption
<1>4. q <= p
  BY DateBounds, MultiplesOrdered, <1>1, <1>2, MessagesAssumption
<1> QED
  BY <1>1, <1>2, <1>3, <1>4

\* A Date read again is the same Date.
LEMMA DateAgain ==
    ASSUME NEW t \in Nat
    PROVE  ToDate(ToDate(t)) = ToDate(t)
<1>1. ToDate(t) \in Nat /\ ToDate(t) <= t
  BY DateBounds
<1> QED
  BY <1>1, SameDate

\* Dates are in the order of their timestamps.
LEMMA DatesOrdered ==
    ASSUME NEW a \in Nat, NEW b \in Nat, a <= b
    PROVE  ToDate(a) <= ToDate(b)
<1>1. CASE ToDate(b) <= a
  BY <1>1, SameDate, DateBounds
<1>2. CASE ~(ToDate(b) <= a)
  BY <1>2, DateBounds
<1> QED
  BY <1>1, <1>2

------------------------------------------------------------------------------
\* Why the properties hold.  Entities under way have the Date of their row.
EntitiesKeepPlace ==
    \A c \in Calls : call[c] \in Updates =>
        /\ call[c].id < nextId
        /\ ToDate(call[c].entity.at) = birth[call[c].id]

\* Ids are given out in order.
IdsInOrder == \A i \in Stored : i < nextId

\* What the walk has shown lies at or after its cursor.
ShownIsBehind ==
    walk # NoWalk =>
        \A i \in Ids : /\ walk.seen[i] <= 1
                       /\ walk.seen[i] = 1 => i < nextId /\ walk.before <= birth[i]

\* What it still owes lies before the cursor.
OwedIsAhead ==
    walk # NoWalk =>
        \A i \in walk.present :
            /\ i \in Stored
            /\ \/ walk.seen[i] = 1
               \/ ToDate(rows[i].at) \in walk.cuts
               \/ walk.pc = "paging" /\ rows[i].at < walk.before

MessagesInv ==
    /\ MessagesTypeOK
    /\ KeepsItsPlace
    /\ EntitiesKeepPlace
    /\ IdsInOrder
    /\ ShownIsBehind
    /\ OwedIsAhead

\* Ticks are naturals, and a row is not NoRow.
LEMMA TickFacts ==
    /\ Ticks \subseteq Nat
    /\ \A t \in Ticks : ToDate(t) \in Ticks /\ ToDate(t) <= t /\ ToDate(ToDate(t)) = ToDate(t)
    /\ \A r \in Row : r # NoRow
    /\ NoRow \notin Row
<1>1. Ticks \subseteq Nat
  BY MessagesAssumption DEF Ticks
<1>2. ASSUME NEW t \in Ticks
      PROVE  ToDate(t) \in Ticks /\ ToDate(t) <= t /\ ToDate(ToDate(t)) = ToDate(t)
  BY <1>1, DateBounds, DateAgain, MessagesAssumption DEF Ticks
<1>3. ASSUME NEW r \in Row PROVE r # NoRow
  <2>1. r.at \in Nat
    BY <1>1 DEF Row
  <2>2. NoRow.at = -1
    BY DEF NoRow
  <2> QED
    BY <2>1, <2>2
<1> QED
  BY <1>1, <1>2, <1>3

\* Merging texts keeps the time.
LEMMA MergeKeepsTime ==
    ASSUME NEW row \in Row, NEW other, other.title \in Texts, other.content \in Texts,
           NEW fields
    PROVE  Merged(row, other, fields) \in Row /\ Merged(row, other, fields).at = row.at
  BY DEF Merged, Row

\* Initially there is no row and nobody pages.
LEMMA MessagesInitInv == MessagesInit => MessagesInv
<1> SUFFICES ASSUME MessagesInit PROVE MessagesInv
  OBVIOUS
<1> USE DEF MessagesInit
<1>1. Stored = {}
  BY DEF Stored
<1>2. MessagesTypeOK
  BY MessagesAssumption DEF MessagesTypeOK, Ticks, Ids
<1>3. EntitiesKeepPlace
  BY DEF EntitiesKeepPlace, Updates, NotMade
<1> QED
  BY <1>1, <1>2, <1>3 DEF MessagesInv, KeepsItsPlace, IdsInOrder, ShownIsBehind, OwedIsAhead

\* The kinds of calls are told apart by their pc.
LEMMA CallKinds ==
    ASSUME MessagesTypeOK, NEW c \in Calls
    PROVE  /\ call[c] \in {NotMade, Returned} \cup Updates \cup Removals
           /\ call[c].pc \in {"merged", "loaded"} => call[c] \in Updates
           /\ call[c].pc = "removing" => call[c] \in Removals
           /\ UnderWay(c) => call[c] \in Updates \cup Removals
           /\ NotMade \notin Updates \cup Removals
           /\ Returned \notin Updates \cup Removals
           /\ \A u \in Updates : u \notin Removals
  BY DEF MessagesTypeOK, Updates, Removals, NotMade, Returned, UnderWay

\* When a call ends, the entities of the others stay as they are.
LEMMA EndsKeepsEntities ==
    ASSUME MessagesTypeOK, NEW c \in Calls, Ends(c)
    PROVE  /\ call' \in [Calls -> {NotMade, Returned} \cup Updates \cup Removals]
           /\ \A d \in Calls : call'[d] \in Updates =>
                 call[d] \in Updates /\ call'[d].id = call[d].id /\ call'[d].entity = call[d].entity
<1>1. ASSUME NEW d \in Calls
      PROVE  /\ call'[d] \in {NotMade, Returned} \cup Updates \cup Removals
             /\ call'[d] \in Updates =>
                   call[d] \in Updates /\ call'[d].id = call[d].id /\ call'[d].entity = call[d].entity
  <2>1. CASE d = c
    <3>1. call'[d] = Returned
      BY <2>1 DEF Ends
    <3> QED
      BY <3>1, CallKinds
  <2>2. CASE d # c /\ UnderWay(d) /\ call[d].id = call[c].id
    <3>1. call'[d] = [call[d] EXCEPT !.alone = FALSE]
      BY <2>2 DEF Ends
    <3>2. CASE call[d] \in Updates
      BY <3>1, <3>2 DEF Updates
    <3>3. CASE call[d] \in Removals
      <4>1. call'[d] \in Removals
        BY <3>1, <3>3 DEF Removals
      <4> QED
        BY <4>1, CallKinds
    <3> QED
      BY <2>2, <3>2, <3>3, CallKinds
  <2>3. CASE d # c /\ ~(UnderWay(d) /\ call[d].id = call[c].id)
    <3>1. call'[d] = call[d]
      BY <2>3 DEF Ends
    <3> QED
      BY <3>1, CallKinds
  <2> QED
    BY <2>1, <2>2, <2>3
<1>2. call' = [d \in Calls |-> call'[d]]
  BY DEF Ends
<1> QED
  BY <1>1, <1>2

\* create() takes an id nobody has and stores a row with its own Date.
LEMMA CreateInv ==
    ASSUME MessagesInv, NEW t \in Ticks, Create(t)
    PROVE  MessagesInv'
<1> USE DEF MessagesInv, Create
<1> DEFINE row == [at |-> t, title |-> "created", content |-> "created"]
<1>1. row \in Row /\ row.at = t /\ row # NoRow
  BY TickFacts DEF Row, Texts
<1>2. MessagesTypeOK'
  <2>1. rows' \in [Ids -> Row \cup {NoRow}]
    BY <1>1 DEF MessagesTypeOK
  <2>2. nextId' \in 1..(MaxId + 1)
    BY MessagesAssumption DEF Ids
  <2>3. birth' \in [Ids -> Ticks]
    BY TickFacts DEF MessagesTypeOK
  <2> QED
    BY <2>1, <2>2, <2>3 DEF MessagesTypeOK
<1>3. nextId \in Nat /\ nextId' = nextId + 1
  BY MessagesAssumption DEF Ids
<1>4. ASSUME NEW i \in Ids, i # nextId
      PROVE  rows'[i] = rows[i] /\ birth'[i] = birth[i]
  BY <1>4 DEF MessagesTypeOK
<1>5. rows'[nextId] = row /\ birth'[nextId] = ToDate(t)
  BY DEF MessagesTypeOK
<1>6. \A i \in Ids : i < nextId => i # nextId
  BY <1>3
<1>7. KeepsItsPlace'
  BY <1>1, <1>4, <1>5 DEF KeepsItsPlace, Stored
<1>8. EntitiesKeepPlace'
  <2> SUFFICES ASSUME NEW c \in Calls, call[c] \in Updates
               PROVE  call[c].id < nextId' /\ ToDate(call[c].entity.at) = birth'[call[c].id]
    BY DEF EntitiesKeepPlace
  <2>1. call[c].id \in Ids /\ call[c].id < nextId /\ ToDate(call[c].entity.at) = birth[call[c].id]
    BY DEF EntitiesKeepPlace, Updates
  <2> QED
    BY <2>1, <1>3, <1>4, <1>6 DEF Ids
<1>9. IdsInOrder'
  BY <1>3, <1>4 DEF IdsInOrder, Stored, Ids
<1>10. ShownIsBehind'
  BY <1>3, <1>4, <1>6 DEF ShownIsBehind, Ids
<1>11. OwedIsAhead'
  <2> SUFFICES ASSUME walk # NoWalk, NEW i \in walk.present
               PROVE  /\ i \in Stored'
                      /\ \/ walk.seen[i] = 1
                         \/ ToDate(rows'[i].at) \in walk.cuts
                         \/ walk.pc = "paging" /\ rows'[i].at < walk.before
    BY DEF OwedIsAhead
  <2>1. i \in Stored /\ i \in Ids /\ i < nextId
    BY DEF OwedIsAhead, IdsInOrder, Stored
  <2>2. rows'[i] = rows[i]
    BY <2>1, <1>4, <1>6
  <2> QED
    BY <2>1, <2>2 DEF OwedIsAhead, Stored
<1> QED
  BY <1>2, <1>7, <1>8, <1>9, <1>10, <1>11

\* Reading a row gives the entity the row's Date.
LEMMA BeginUpdateInv ==
    ASSUME MessagesInv, NEW c \in Calls, NEW id \in Ids, NEW field \in Fields, BeginUpdate(c, id, field)
    PROVE  MessagesInv'
<1> USE DEF MessagesInv, BeginUpdate
<1> DEFINE dated == [rows[id] EXCEPT !.at = ToDate(@)]
           entity == Merged(dated, Dto, {field})
           new == [pc |-> "merged", id |-> id, field |-> field, alone |-> TRUE, db |-> NoRow, entity |-> entity]
<1>1. rows[id] \in Row /\ rows[id].at \in Ticks
  BY DEF MessagesTypeOK, Stored, Row
<1>2. dated \in Row /\ dated.at = ToDate(rows[id].at)
  BY <1>1, TickFacts DEF Row
<1>3. entity \in Row /\ entity.at = ToDate(rows[id].at)
  <2>1. Dto.title \in Texts /\ Dto.content \in Texts
    BY DEF Dto, Texts
  <2> QED
    BY <1>2, <2>1, MergeKeepsTime
<1>4. new \in Updates /\ new.id = id /\ new.entity = entity
  BY <1>3 DEF Updates
<1> HIDE DEF new
<1>5. call' = [call EXCEPT ![c] = new]
  BY DEF new
<1>6. MessagesTypeOK'
  BY <1>4, <1>5 DEF MessagesTypeOK
<1>7. EntitiesKeepPlace'
  <2> SUFFICES ASSUME NEW d \in Calls, call'[d] \in Updates
               PROVE  call'[d].id < nextId /\ ToDate(call'[d].entity.at) = birth[call'[d].id]
    BY DEF EntitiesKeepPlace
  <2>1. CASE d = c
    <3>1. call'[d] = new
      BY <2>1, <1>5 DEF MessagesTypeOK
    <3>2. id < nextId /\ ToDate(rows[id].at) = birth[id]
      BY DEF IdsInOrder, KeepsItsPlace
    <3> QED
      BY <3>1, <3>2, <1>1, <1>3, <1>4, TickFacts
  <2>2. CASE d # c
    BY <2>2, <1>5 DEF EntitiesKeepPlace, MessagesTypeOK
  <2> QED
    BY <2>1, <2>2
<1> QED
  BY <1>6, <1>7 DEF KeepsItsPlace, IdsInOrder, ShownIsBehind, OwedIsAhead, Stored

\* remove() reads and remembers an id.
LEMMA BeginRemoveInv ==
    ASSUME MessagesInv, NEW c \in Calls, NEW id \in Ids, BeginRemove(c, id)
    PROVE  MessagesInv'
<1> USE DEF MessagesInv, BeginRemove
<1> DEFINE new == [pc |-> "removing", id |-> id, alone |-> TRUE]
<1>1. new \in Removals
  BY DEF Removals
<1>2. new \notin Updates
  BY <1>1, CallKinds
<1> HIDE DEF new
<1>3. call' = [call EXCEPT ![c] = new]
  BY DEF new
<1>4. MessagesTypeOK'
  BY <1>1, <1>3 DEF MessagesTypeOK
<1>5. EntitiesKeepPlace'
  BY <1>2, <1>3 DEF EntitiesKeepPlace, MessagesTypeOK
<1> QED
  BY <1>4, <1>5 DEF KeepsItsPlace, IdsInOrder, ShownIsBehind, OwedIsAhead, Stored

Loaded(u, r) == [u EXCEPT !.pc = "loaded", !.db = r]

\* What save() has after its SELECT.
LEMMA LoadedUpdate ==
    ASSUME NEW u \in Updates, NEW r \in Row \cup {NoRow}
    PROVE  /\ Loaded(u, r) \in Updates
           /\ Loaded(u, r).id = u.id /\ Loaded(u, r).entity = u.entity
           /\ Loaded(u, r).field = u.field /\ Loaded(u, r).alone = u.alone
           /\ Loaded(u, r).db = r
  BY DEF Updates, Loaded

\* Loading the row changes neither the entity nor the row.
LEMMA SaveLoadsInv ==
    ASSUME MessagesInv, NEW c \in Calls, SaveLoads(c)
    PROVE  MessagesInv'
<1> USE DEF MessagesInv, SaveLoads
<1>1. call[c] \in Updates
  BY CallKinds
<1>2. call'[c] = Loaded(call[c], rows[call[c].id])
  BY DEF MessagesTypeOK, Loaded
<1>3. rows[call[c].id] \in Row \cup {NoRow}
  BY <1>1 DEF MessagesTypeOK, Updates
<1>4. call'[c] \in Updates /\ call'[c].id = call[c].id /\ call'[c].entity = call[c].entity
  BY <1>1, <1>2, <1>3, LoadedUpdate
<1>5. \A d \in Calls : d # c => call'[d] = call[d]
  BY DEF MessagesTypeOK
<1>6. call' \in [Calls -> {NotMade, Returned} \cup Updates \cup Removals]
  <2>1. call' = [d \in Calls |-> call'[d]]
    BY DEF MessagesTypeOK
  <2> QED
    BY <2>1, <1>4, <1>5 DEF MessagesTypeOK
<1>7. MessagesTypeOK'
  BY <1>6 DEF MessagesTypeOK
<1>8. EntitiesKeepPlace'
  BY <1>1, <1>4, <1>5 DEF EntitiesKeepPlace
<1> QED
  BY <1>7, <1>8 DEF KeepsItsPlace, IdsInOrder, ShownIsBehind, OwedIsAhead, Stored

\* Whatever save() does to the table, a row that was there keeps its time, one
\* that comes back has the Date its update() read.
LEMMA SaveWritesTable ==
    ASSUME MessagesInv, NEW c \in Calls, SaveWrites(c)
    PROVE  /\ rows' \in [Ids -> Row \cup {NoRow}]
           /\ \A i \in Stored : i \in Stored' /\ rows'[i].at = rows[i].at
           /\ \A i \in Ids : i \notin Stored /\ i \in Stored' => i < nextId /\ ToDate(rows'[i].at) = birth[i]
<1> DEFINE id == call[c].id
           entity == call[c].entity
           changed == {f \in Fields : call[c].db # NoRow /\ entity[f] # call[c].db[f]}
<1>0. rows \in [Ids -> Row \cup {NoRow}]
  BY DEF MessagesInv, MessagesTypeOK
<1>1. call[c] \in Updates
  BY CallKinds DEF MessagesInv, SaveWrites
<1>2. id \in Ids /\ entity \in Row /\ id < nextId /\ ToDate(entity.at) = birth[id]
  BY <1>1 DEF Updates, MessagesInv, EntitiesKeepPlace
<1> HIDE DEF id, entity, changed
<1>3. \/ rows[id] = NoRow /\ rows' = [rows EXCEPT ![id] = entity]
      \/ rows[id] # NoRow /\ rows' = [rows EXCEPT ![id] = Merged(@, entity, changed)]
      \/ rows' = rows
  BY DEF SaveWrites, Inserted, id, entity, changed
<1>4. CASE rows[id] = NoRow /\ rows' = [rows EXCEPT ![id] = entity]
  <2>1. rows'[id] = entity /\ \A i \in Ids : i # id => rows'[i] = rows[i]
    BY <1>0, <1>2, <1>4
  <2>2. rows' \in [Ids -> Row \cup {NoRow}]
    BY <1>0, <1>2, <1>4
  <2> QED
    BY <1>2, <1>4, <2>1, <2>2 DEF Stored
<1>5. CASE rows[id] # NoRow /\ rows' = [rows EXCEPT ![id] = Merged(@, entity, changed)]
  <2>1. rows[id] \in Row /\ entity.title \in Texts /\ entity.content \in Texts
    BY <1>0, <1>2, <1>5 DEF Row
  <2>2. Merged(rows[id], entity, changed) \in Row /\ Merged(rows[id], entity, changed).at = rows[id].at
    BY <2>1, MergeKeepsTime
  <2>3. rows'[id] = Merged(rows[id], entity, changed) /\ \A i \in Ids : i # id => rows'[i] = rows[i]
    BY <1>0, <1>2, <1>5
  <2>4. rows' \in [Ids -> Row \cup {NoRow}]
    BY <1>0, <1>2, <1>5, <2>2
  <2>5. rows'[id] # NoRow
    BY <2>2, <2>3, TickFacts
  <2> QED
    BY <1>2, <1>5, <2>2, <2>3, <2>4, <2>5 DEF Stored
<1>6. CASE rows' = rows
  BY <1>0, <1>6 DEF Stored
<1> QED
  BY <1>3, <1>4, <1>5, <1>6

\* An UPDATE or INSERT keeps the invariant.
LEMMA SaveWritesInv ==
    ASSUME MessagesInv, NEW c \in Calls, SaveWrites(c)
    PROVE  MessagesInv'
<1>1. /\ nextId' = nextId /\ birth' = birth /\ walk' = walk
      /\ Ends(c)
  BY DEF SaveWrites
<1>2. /\ rows' \in [Ids -> Row \cup {NoRow}]
      /\ \A i \in Stored : i \in Stored' /\ rows'[i].at = rows[i].at
      /\ \A i \in Ids : i \notin Stored /\ i \in Stored' => i < nextId /\ ToDate(rows'[i].at) = birth[i]
  BY SaveWritesTable
<1>3. /\ call' \in [Calls -> {NotMade, Returned} \cup Updates \cup Removals]
      /\ \A d \in Calls : call'[d] \in Updates =>
            call[d] \in Updates /\ call'[d].id = call[d].id /\ call'[d].entity = call[d].entity
  BY <1>1, EndsKeepsEntities DEF MessagesInv
<1>4. MessagesTypeOK'
  BY <1>1, <1>2, <1>3 DEF MessagesInv, MessagesTypeOK
<1>5. \A i \in Stored' : i \in Ids
  BY DEF Stored
<1>6. KeepsItsPlace' /\ IdsInOrder'
  BY <1>1, <1>2, <1>5 DEF MessagesInv, KeepsItsPlace, IdsInOrder
<1>7. EntitiesKeepPlace'
  BY <1>1, <1>3 DEF MessagesInv, EntitiesKeepPlace
<1>8. ShownIsBehind'
  BY <1>1 DEF MessagesInv, ShownIsBehind
<1>9. OwedIsAhead'
  BY <1>1, <1>2 DEF MessagesInv, OwedIsAhead
<1> QED
  BY <1>4, <1>6, <1>7, <1>8, <1>9 DEF MessagesInv

\* A removed row is owed no longer.
LEMMA DeletesInv ==
    ASSUME MessagesInv, NEW c \in Calls, Deletes(c)
    PROVE  MessagesInv'
<1> USE DEF MessagesInv
<1> DEFINE id == call[c].id
<1>1. /\ nextId' = nextId /\ birth' = birth
      /\ rows' = [rows EXCEPT ![id] = NoRow]
      /\ Ends(c)
  BY DEF Deletes
<1>2. /\ call' \in [Calls -> {NotMade, Returned} \cup Updates \cup Removals]
      /\ \A d \in Calls : call'[d] \in Updates =>
            call[d] \in Updates /\ call'[d].id = call[d].id /\ call'[d].entity = call[d].entity
  BY <1>1, EndsKeepsEntities
<1>3. \/ walk = NoWalk /\ walk' = NoWalk
      \/ /\ walk # NoWalk /\ walk \in Walks
         /\ walk' = [walk EXCEPT !.present = @ \ {id}]
  BY DEF Deletes, MessagesTypeOK
<1>4. walk' \in {NoWalk} \cup Walks
  BY <1>3 DEF Walks
<1>5. walk' # NoWalk =>
        /\ walk # NoWalk
        /\ walk'.pc = walk.pc /\ walk'.before = walk.before /\ walk'.seen = walk.seen /\ walk'.cuts = walk.cuts
        /\ walk'.present = walk.present \ {id}
  BY <1>3 DEF Walks
<1>6. rows' \in [Ids -> Row \cup {NoRow}]
  BY <1>1 DEF MessagesTypeOK
<1>7. \A i \in Ids : i # id => rows'[i] = rows[i]
  BY <1>1 DEF MessagesTypeOK
<1>8. \A i \in Stored' : i \in Stored /\ rows'[i] = rows[i]
  BY <1>1, <1>7 DEF Stored, MessagesTypeOK
<1>9. MessagesTypeOK'
  BY <1>1, <1>2, <1>4, <1>6 DEF MessagesTypeOK
<1>10. KeepsItsPlace' /\ IdsInOrder'
  BY <1>1, <1>8 DEF KeepsItsPlace, IdsInOrder
<1>11. EntitiesKeepPlace'
  BY <1>1, <1>2 DEF EntitiesKeepPlace
<1>12. ShownIsBehind'
  BY <1>1, <1>5 DEF ShownIsBehind
<1>13. OwedIsAhead'
  <2> SUFFICES ASSUME walk' # NoWalk, NEW i \in walk'.present
               PROVE  /\ i \in Stored'
                      /\ \/ walk'.seen[i] = 1
                         \/ ToDate(rows'[i].at) \in walk'.cuts
                         \/ walk'.pc = "paging" /\ rows'[i].at < walk'.before
    BY DEF OwedIsAhead
  <2>1. i \in walk.present /\ i # id /\ walk # NoWalk
    BY <1>5
  <2>2. i \in Stored /\ i \in Ids
    BY <2>1 DEF OwedIsAhead, Stored
  <2>3. rows'[i] = rows[i] /\ i \in Stored'
    BY <2>1, <2>2, <1>7 DEF Stored
  <2> QED
    BY <2>1, <2>3, <1>5 DEF OwedIsAhead
<1> QED
  BY <1>9, <1>10, <1>11, <1>12, <1>13

\* The smaller of two numbers.
LEMMA MinOfTwo ==
    ASSUME NEW a \in Nat, NEW b \in Nat
    PROVE  Min({a, b}) \in {a, b} /\ Min({a, b}) <= a /\ Min({a, b}) <= b
<1>1. \E x \in {a, b} : \A y \in {a, b} : x =< y
  <2>1. CASE a <= b
    BY <2>1
  <2>2. CASE b <= a
    BY <2>2
  <2> QED
    BY <2>1, <2>2
<1> QED
  BY <1>1 DEF Min

\* A page is empty only if no row lies before the cursor: no limit is 0.
LEMMA EmptyPage ==
    ASSUME MessagesInv, NEW before \in Nat, {} \in Pages(before)
    PROVE  \A i \in Stored : ~(rows[i].at < before)
<1> DEFINE eligible == {i \in Stored : rows[i].at < before}
           n == Cardinality(eligible)
<1>1. eligible \subseteq 1..MaxId /\ IsFiniteSet(eligible) /\ n \in Nat
  <2>1. eligible \in SUBSET (1..MaxId)
    BY DEF Stored, Ids
  <2>2. IsFiniteSet(1..MaxId)
    BY FS_Interval, MessagesAssumption
  <2>3. IsFiniteSet(eligible)
    BY <2>1, <2>2, FS_Subset
  <2> QED
    BY <2>1, <2>3, FS_CardinalityType
<1>2. PICK l \in Limits(MaxId) : Cardinality({}) = Min({l, n})
  BY DEF Pages
<1>3. PICK r \in Requested \cup {DefaultLimit} : l = IF r = 0 THEN MaxId ELSE Min({r, Ceiling})
  BY DEF Limits
<1>4. r \in Nat /\ Ceiling \in Nat \ {0} /\ MaxId \in Nat
  BY MessagesAssumption
<1>5. l \in Nat /\ (l = 0 => MaxId = 0)
  BY <1>3, <1>4, MinOfTwo
<1>6. Min({l, n}) = 0
  BY <1>2, FS_EmptySet
<1>7. l = 0 \/ n = 0
  BY <1>1, <1>5, <1>6, MinOfTwo
<1>8. CASE l = 0
  BY <1>1, <1>4, <1>5, <1>8
<1>9. CASE n = 0
  <2>1. eligible = {}
    BY <1>1, <1>9, FS_EmptySet
  <2> QED
    BY <2>1
<1> QED
  BY <1>7, <1>8, <1>9

\* A walk starts with every stored row owed.
LEMMA StartWalkInv ==
    ASSUME MessagesInv, StartWalk
    PROVE  MessagesInv'
<1> USE DEF MessagesInv, StartWalk
<1>1. /\ walk' \in Walks
      /\ walk'.seen = [i \in Ids |-> 0] /\ walk'.present = Stored
      /\ walk'.pc = "paging" /\ walk'.before = MaxTick + 1
  BY MessagesAssumption DEF Walks, Stored
<1>2. MessagesTypeOK'
  BY <1>1 DEF MessagesTypeOK
<1>3. ShownIsBehind'
  BY <1>1 DEF ShownIsBehind
<1>4. \A i \in Stored : rows[i].at < MaxTick + 1
  BY MessagesAssumption DEF MessagesTypeOK, Stored, Row, Ticks
<1>5. OwedIsAhead'
  BY <1>1, <1>4 DEF OwedIsAhead, Stored
<1> QED
  BY <1>2, <1>3, <1>5 DEF KeepsItsPlace, IdsInOrder, EntitiesKeepPlace, Stored

\* A page moves what it shows from before the cursor to behind it.
LEMMA FetchPageInv ==
    ASSUME MessagesInv, FetchPage
    PROVE  MessagesInv'
<1> USE DEF MessagesInv
<1>1. rows' = rows /\ nextId' = nextId /\ birth' = birth /\ call' = call /\ Stored' = Stored
  BY DEF FetchPage, Stored
<1>2. walk \in Walks /\ walk # NoWalk /\ walk.pc = "paging"
  <2>1. walk.pc = "paging"
    BY DEF FetchPage
  <2> QED
    BY <2>1 DEF MessagesTypeOK, NoWalk
<1>3. /\ walk.before \in Nat /\ walk.seen \in [Ids -> Nat] /\ walk.cuts \subseteq Ticks
      /\ walk.present \subseteq Ids
  BY <1>2, MessagesAssumption DEF Walks
<1>4. KeepsItsPlace' /\ IdsInOrder' /\ EntitiesKeepPlace'
  BY <1>1 DEF KeepsItsPlace, IdsInOrder, EntitiesKeepPlace
<1>5. \A i \in Ids : /\ walk.seen[i] \in Nat /\ walk.seen[i] <= 1
                     /\ walk.seen[i] = 1 => i < nextId /\ walk.before <= birth[i]
  <2>1. \A i \in Ids : walk.seen[i] \in Nat
    BY <1>3
  <2> QED
    BY <1>2, <2>1 DEF ShownIsBehind
<1>6. ASSUME {} \in Pages(walk.before), walk' = [walk EXCEPT !.pc = "done"]
      PROVE  MessagesInv'
  <2>1. /\ walk' \in Walks
        /\ walk'.pc = "done" /\ walk'.before = walk.before /\ walk'.seen = walk.seen
        /\ walk'.present = walk.present /\ walk'.cuts = walk.cuts
    BY <1>2, <1>6 DEF Walks
  <2>2. MessagesTypeOK'
    BY <1>1, <2>1 DEF MessagesTypeOK
  <2>3. ShownIsBehind'
    BY <1>1, <1>2, <2>1 DEF ShownIsBehind
  <2>4. \A i \in Stored : ~(rows[i].at < walk.before)
    BY <1>3, <1>6, EmptyPage
  <2>5. OwedIsAhead'
    BY <1>1, <1>2, <2>1, <2>4 DEF OwedIsAhead
  <2> QED
    BY <1>4, <2>2, <2>3, <2>5
<1>7. ASSUME NEW page \in Pages(walk.before), NEW last \in page, IsLast(last, page),
             walk' = [walk EXCEPT !.before = NextCursor(last),
                                  !.cuts = @ \cup {NextCursor(last)},
                                  !.seen = [i \in Ids |-> @[i] + IF i \in page THEN 1 ELSE 0]]
      PROVE  MessagesInv'
  <2> DEFINE cursor == ToDate(rows[last].at)
             seen == [i \in Ids |-> walk.seen[i] + IF i \in page THEN 1 ELSE 0]
  <2>1. /\ page \subseteq Stored
        /\ \A i \in page : rows[i].at < walk.before
        /\ \A i \in page, j \in Stored : rows[j].at < walk.before => j \in page \/ rows[i].at >= rows[j].at
    BY <1>7 DEF Pages
  <2>2. \A i \in Stored : i \in Ids /\ rows[i] \in Row /\ rows[i].at \in Ticks /\ rows[i].at \in Nat
    BY TickFacts DEF Stored, MessagesTypeOK, Row
  <2>3. last \in Stored /\ cursor \in Ticks /\ cursor \in Nat /\ cursor <= rows[last].at
    BY <1>7, <2>1, <2>2, TickFacts
  <2>4. /\ walk' \in Walks
        /\ walk'.pc = "paging" /\ walk'.before = cursor /\ walk'.seen = seen
        /\ walk'.present = walk.present /\ walk'.cuts = walk.cuts \cup {cursor}
    <3>1. cursor \in 0..(MaxTick + 1)
      BY <2>3, MessagesAssumption DEF Ticks
    <3>2. seen \in [Ids -> Nat]
      BY <1>3
    <3>3. walk' = [walk EXCEPT !.before = cursor, !.cuts = walk.cuts \cup {cursor}, !.seen = seen]
      BY <1>7 DEF NextCursor
    <3>4. walk.cuts \cup {cursor} \in SUBSET Ticks
      BY <1>3, <2>3
    <3> HIDE DEF cursor, seen
    <3> QED
      BY <1>2, <3>1, <3>2, <3>3, <3>4 DEF Walks
  <2>5. MessagesTypeOK'
    BY <1>1, <2>4 DEF MessagesTypeOK
  <2>6. \A i \in page : walk.seen[i] = 0 /\ i < nextId /\ cursor <= birth[i]
    <3> SUFFICES ASSUME NEW i \in page PROVE walk.seen[i] = 0 /\ i < nextId /\ cursor <= birth[i]
      OBVIOUS
    <3>1. i \in Stored /\ i \in Ids /\ rows[i].at \in Nat /\ rows[i].at < walk.before
      BY <2>1, <2>2
    <3>2. birth[i] = ToDate(rows[i].at) /\ i < nextId
      BY <3>1 DEF KeepsItsPlace, IdsInOrder
    <3>3. birth[i] \in Nat /\ birth[i] <= rows[i].at
      BY <3>1, <3>2, DateBounds
    <3>4. walk.seen[i] # 1
      BY <1>3, <1>5, <3>1, <3>3
    <3>5. walk.seen[i] \in Nat /\ walk.seen[i] <= 1
      BY <1>5, <3>1
    <3>6. cursor <= birth[i]
      <4>1. rows[last].at \in Nat /\ rows[last].at <= rows[i].at
        BY <1>7, <2>2, <2>3 DEF IsLast
      <4> QED
        BY <3>1, <3>2, <4>1, DatesOrdered
    <3> QED
      BY <3>2, <3>4, <3>5, <3>6
  <2>7. cursor <= walk.before
    BY <1>3, <1>7, <2>1, <2>2, <2>3
  <2>8. ShownIsBehind'
    <3> SUFFICES ASSUME NEW i \in Ids
                 PROVE  seen[i] <= 1 /\ (seen[i] = 1 => i < nextId /\ cursor <= birth[i])
      BY <1>1, <2>4 DEF ShownIsBehind
    <3>1. CASE i \in page
      BY <2>6, <3>1
    <3>2. CASE i \notin page
      <4>1. seen[i] = walk.seen[i]
        BY <1>3, <3>2
      <4>2. seen[i] <= 1 /\ (seen[i] = 1 => i < nextId /\ walk.before <= birth[i])
        BY <1>5, <4>1
      <4>3. birth[i] \in Nat
        BY TickFacts DEF MessagesTypeOK
      <4> QED
        BY <1>3, <2>3, <2>7, <4>2, <4>3
    <3> QED
      BY <3>1, <3>2
  <2>9. OwedIsAhead'
    <3> SUFFICES ASSUME NEW i \in walk.present
                 PROVE  /\ i \in Stored
                        /\ \/ seen[i] = 1
                           \/ ToDate(rows[i].at) \in walk.cuts \cup {cursor}
                           \/ rows[i].at < cursor
      BY <1>1, <2>4 DEF OwedIsAhead
    <3>1. /\ i \in Stored
          /\ \/ walk.seen[i] = 1
             \/ ToDate(rows[i].at) \in walk.cuts
             \/ rows[i].at < walk.before
      BY <1>2 DEF OwedIsAhead
    <3>2. i \in Ids /\ rows[i].at \in Nat
      BY <2>2, <3>1
    <3>3. CASE walk.seen[i] = 1
      <4>1. i \notin page
        BY <2>6, <3>3
      <4> QED
        BY <3>1, <3>2, <3>3, <4>1
    <3>4. CASE ToDate(rows[i].at) \in walk.cuts
      BY <3>1, <3>4
    <3>5. CASE rows[i].at < walk.before /\ i \in page
      BY <2>6, <3>1, <3>2, <3>5
    <3>6. CASE rows[i].at < walk.before /\ i \notin page
      <4>1. rows[last].at \in Nat /\ rows[i].at <= rows[last].at
        BY <1>7, <2>1, <2>2, <2>3, <3>1, <3>6
      <4>2. cursor <= rows[i].at => ToDate(rows[i].at) = cursor
        BY <3>2, <4>1, SameDate
      <4> QED
        BY <2>3, <3>1, <3>2, <4>2
    <3> QED
      BY <3>1, <3>3, <3>4, <3>5, <3>6
  <2> QED
    BY <1>4, <2>5, <2>8, <2>9
<1>8. \E page \in Pages(walk.before) :
         \/ page = {} /\ walk' = [walk EXCEPT !.pc = "done"]
         \/ \E last \in page :
              /\ IsLast(last, page)
              /\ walk' = [walk EXCEPT !.before = NextCursor(last),
                                      !.cuts = @ \cup {NextCursor(last)},
                                      !.seen = [i \in Ids |-> @[i] + IF i \in page THEN 1 ELSE 0]]
  BY DEF FetchPage
<1> QED
  BY <1>6, <1>7, <1>8

\* Ending a walk, migrations of a table nobody uses, and steps that stutter.
LEMMA EndWalkInv ==
    ASSUME MessagesInv, EndWalk
    PROVE  MessagesInv'
  BY DEF MessagesInv, EndWalk, MessagesTypeOK, KeepsItsPlace, EntitiesKeepPlace, IdsInOrder,
         ShownIsBehind, OwedIsAhead, Stored

\* So does every step that leaves the messages alone.
LEMMA UnchangedInv ==
    ASSUME MessagesInv, UNCHANGED messageVars
    PROVE  MessagesInv'
  BY DEF messageVars, MessagesInv, MessagesTypeOK, KeepsItsPlace, EntitiesKeepPlace, IdsInOrder,
         ShownIsBehind, OwedIsAhead, Stored

\* The step of the service or of the migration tool.
LEMMA MessagesStepInv == MessagesInv /\ [MessagesNext]_allVars => MessagesInv'
<1> SUFFICES ASSUME MessagesInv, [MessagesNext]_allVars PROVE MessagesInv'
  OBVIOUS
<1>1. CASE Crud
  <2>1. ASSUME NEW t \in Ticks, Create(t) PROVE MessagesInv'
    BY <2>1, CreateInv
  <2>2. ASSUME NEW c \in Calls, NEW id \in Ids, BeginRemove(c, id) PROVE MessagesInv'
    BY <2>2, BeginRemoveInv
  <2>3. ASSUME NEW c \in Calls, NEW id \in Ids, NEW f \in Fields, BeginUpdate(c, id, f) PROVE MessagesInv'
    BY <2>3, BeginUpdateInv
  <2>4. ASSUME NEW c \in Calls, SaveLoads(c) PROVE MessagesInv'
    BY <2>4, SaveLoadsInv
  <2>5. ASSUME NEW c \in Calls, SaveWrites(c) PROVE MessagesInv'
    BY <2>5, SaveWritesInv
  <2>6. ASSUME NEW c \in Calls, Deletes(c) PROVE MessagesInv'
    BY <2>6, DeletesInv
  <2>7. CASE StartWalk
    BY <2>7, StartWalkInv
  <2>8. CASE FetchPage
    BY <2>8, FetchPageInv
  <2>9. CASE EndWalk
    BY <2>9, EndWalkInv
  <2> QED
    BY <1>1, <2>1, <2>2, <2>3, <2>4, <2>5, <2>6, <2>7, <2>8, <2>9 DEF Crud
<1>2. CASE UNCHANGED messageVars
  BY <1>2, UnchangedInv
<1> QED
  BY <1>1, <1>2 DEF MessagesNext, Serve, MigrateUnused, allVars

\* The inductive invariant holds in every reachable state: rows, the entities of
\* calls under way and the walk agree on the millisecond of every row.
THEOREM MessagesInvariant == MessagesSpec => []MessagesInv
<1>1. MessagesInit => MessagesInv
  BY MessagesInitInv
<1>2. MessagesInv /\ [MessagesNext]_allVars => MessagesInv'
  BY MessagesStepInv
<1> QED
  BY <1>1, <1>2, PTL DEF MessagesSpec

\* Every reachable state of the table, the calls and the walk is well typed.
THEOREM MessagesTypeCorrect == MessagesSpec => []MessagesTypeOK
<1>1. MessagesInv => MessagesTypeOK
  BY DEF MessagesInv
<1> QED
  BY <1>1, MessagesInvariant, PTL

\* No page of findAll() repeats a row of an earlier one.
THEOREM NoRowTwice == MessagesSpec => []NeverTwice
<1>1. MessagesInv => NeverTwice
  BY DEF MessagesInv, ShownIsBehind, NeverTwice
<1> QED
  BY <1>1, MessagesInvariant, PTL

\* A finished walk has missed only rows in the millisecond of one of its cursors.
THEOREM OnlyTiesAreMissed == MessagesSpec => []WalkMissesOnlyTies
<1>1. MessagesInv => WalkMissesOnlyTies
  <2> SUFFICES ASSUME MessagesInv, walk.pc = "done", NEW i \in walk.present
               PROVE  walk.seen[i] = 1 \/ ToDate(rows[i].at) \in walk.cuts
    BY DEF WalkMissesOnlyTies
  <2>1. walk # NoWalk
    BY DEF NoWalk
  <2> QED
    BY <2>1 DEF MessagesInv, OwedIsAhead
<1> QED
  BY <1>1, MessagesInvariant, PTL

\* A row that update() brings back has the millisecond it was created in.
THEOREM RowsKeepTheirPlace == MessagesSpec => []KeepsItsPlace
<1>1. MessagesInv => KeepsItsPlace
  BY DEF MessagesInv
<1> QED
  BY <1>1, MessagesInvariant, PTL

------------------------------------------------------------------------------
\* An update() that was not overtaken still knows its row: the entity differs
\* from it in the one field of the DTO, and what save() loaded is the row.
Knows(u, row) ==
    /\ row \in Row
    /\ u.field # "title" => u.entity.title = row.title
    /\ u.field # "content" => u.entity.content = row.content
    /\ u.pc = "loaded" => u.db = row

AloneInv == \A c \in Calls : call[c] \in Updates /\ call[c].alone => Knows(call[c], rows[call[c].id])

\* A call that ends leaves those of other rows alone, and nobody of its own.
LEMMA EndsAlone ==
    ASSUME MessagesInv, AloneInv, NEW c \in Calls, Ends(c),
           \A i \in Ids : i # call[c].id => rows'[i] = rows[i]
    PROVE  AloneInv'
<1> SUFFICES ASSUME NEW d \in Calls, call'[d] \in Updates, call'[d].alone
             PROVE  Knows(call'[d], rows'[call'[d].id])
  BY DEF AloneInv, Knows
<1>1. MessagesTypeOK
  BY DEF MessagesInv
<1>2. d # c
  BY <1>1, CallKinds DEF Ends
<1>3. call[d] \in Updates /\ call'[d].id = call[d].id
  BY <1>1, EndsKeepsEntities
<1>4. UnderWay(d)
  BY <1>1, <1>3, CallKinds DEF UnderWay
<1>5. call[d].id # call[c].id
  <2> SUFFICES ASSUME call[d].id = call[c].id PROVE FALSE
    OBVIOUS
  <2>1. call'[d] = [call[d] EXCEPT !.alone = FALSE]
    BY <1>2, <1>4 DEF Ends
  <2>2. call'[d].alone = FALSE
    BY <1>3, <2>1 DEF Updates
  <2> QED
    BY <2>2
<1>6. call'[d] = call[d]
  BY <1>2, <1>5 DEF Ends
<1>7. call[d].id \in Ids
  BY <1>3 DEF Updates
<1>8. rows'[call[d].id] = rows[call[d].id]
  BY <1>5, <1>7
<1> QED
  BY <1>3, <1>6, <1>8 DEF AloneInv

\* Every step keeps what an undisturbed update() relies on.
LEMMA AloneStep == MessagesInv /\ AloneInv /\ [MessagesNext]_allVars => AloneInv'
<1> SUFFICES ASSUME MessagesInv, AloneInv, [MessagesNext]_allVars PROVE AloneInv'
  OBVIOUS
<1>0. MessagesTypeOK
  BY DEF MessagesInv
<1>1. ASSUME NEW t \in Ticks, Create(t) PROVE AloneInv'
  <2> SUFFICES ASSUME NEW d \in Calls, call[d] \in Updates, call[d].alone
               PROVE  Knows(call[d], rows'[call[d].id])
    BY <1>1 DEF AloneInv, Knows, Create
  <2>1. call[d].id \in Ids /\ call[d].id < nextId /\ nextId \in Nat
    BY <1>0, MessagesAssumption DEF MessagesInv, EntitiesKeepPlace, Updates, MessagesTypeOK
  <2>2. rows'[call[d].id] = rows[call[d].id]
    BY <1>0, <1>1, <2>1 DEF Create, MessagesTypeOK, Ids
  <2> QED
    BY <2>2 DEF AloneInv
<1>2. ASSUME NEW c \in Calls, NEW id \in Ids, BeginRemove(c, id) PROVE AloneInv'
  <2>1. call'[c] \in Removals /\ rows' = rows /\ \A d \in Calls : d # c => call'[d] = call[d]
    BY <1>0, <1>2 DEF BeginRemove, MessagesTypeOK, Removals
  <2> QED
    BY <1>0, <2>1, CallKinds DEF AloneInv, Knows
<1>3. ASSUME NEW c \in Calls, NEW id \in Ids, NEW f \in Fields, BeginUpdate(c, id, f) PROVE AloneInv'
  <2> DEFINE dated == [rows[id] EXCEPT !.at = ToDate(@)]
             entity == Merged(dated, Dto, {f})
             new == [pc |-> "merged", id |-> id, field |-> f, alone |-> TRUE, db |-> NoRow, entity |-> entity]
  <2>1. rows' = rows /\ call'[c] = new /\ \A d \in Calls : d # c => call'[d] = call[d]
    BY <1>0, <1>3 DEF BeginUpdate, MessagesTypeOK
  <2>2. rows[id] \in Row /\ rows[id].at \in Ticks
    BY <1>0, <1>3 DEF BeginUpdate, MessagesTypeOK, Stored, Row
  <2>3. dated \in Row /\ dated.title = rows[id].title /\ dated.content = rows[id].content
    BY <2>2, TickFacts DEF Row
  <2>4. /\ f # "title" => entity.title = rows[id].title
        /\ f # "content" => entity.content = rows[id].content
    <3> HIDE DEF dated
    <3>1. entity = [dated EXCEPT !.title = IF "title" \in {f} THEN Dto.title ELSE @,
                                 !.content = IF "content" \in {f} THEN Dto.content ELSE @]
      BY DEF Merged
    <3> QED
      BY <2>3, <3>1 DEF Row
  <2>5. Knows(new, rows[id]) /\ new.id = id
    <3> HIDE DEF entity
    <3> QED
      BY <2>2, <2>4 DEF Knows
  <2> QED
    BY <2>1, <2>5 DEF AloneInv, Knows
<1>4. ASSUME NEW c \in Calls, SaveLoads(c) PROVE AloneInv'
  <2>1. call[c] \in Updates
    BY <1>0, <1>4, CallKinds DEF SaveLoads
  <2>2. /\ rows' = rows /\ \A d \in Calls : d # c => call'[d] = call[d]
        /\ call'[c] = Loaded(call[c], rows[call[c].id])
    BY <1>0, <1>4 DEF SaveLoads, MessagesTypeOK, Loaded
  <2>3. rows[call[c].id] \in Row \cup {NoRow}
    BY <1>0, <2>1 DEF MessagesTypeOK, Updates
  <2>4. /\ call'[c].id = call[c].id /\ call'[c].entity = call[c].entity
        /\ call'[c].field = call[c].field /\ call'[c].alone = call[c].alone
        /\ call'[c].db = rows[call[c].id]
    BY <2>1, <2>2, <2>3, LoadedUpdate
  <2>5. call[c].alone => Knows(call'[c], rows[call[c].id])
    BY <2>1, <2>4 DEF AloneInv, Knows
  <2>6. ASSUME NEW d \in Calls, call'[d] \in Updates, call'[d].alone
        PROVE  Knows(call'[d], rows[call'[d].id])
    <3>1. CASE d = c
      BY <2>4, <2>5, <2>6, <3>1
    <3>2. CASE d # c
      <4>1. call'[d] = call[d]
        BY <2>2, <3>2
      <4> QED
        BY <2>6, <4>1 DEF AloneInv
    <3> QED
      BY <3>1, <3>2
  <2> QED
    BY <2>2, <2>6 DEF AloneInv, Knows
<1>5. ASSUME NEW c \in Calls, SaveWrites(c) PROVE AloneInv'
  <2>1. Ends(c) /\ \A i \in Ids : i # call[c].id => rows'[i] = rows[i]
    BY <1>0, <1>5 DEF SaveWrites, MessagesTypeOK
  <2> QED
    BY <2>1, EndsAlone
<1>6. ASSUME NEW c \in Calls, Deletes(c) PROVE AloneInv'
  <2>1. Ends(c) /\ \A i \in Ids : i # call[c].id => rows'[i] = rows[i]
    BY <1>0, <1>6 DEF Deletes, MessagesTypeOK
  <2> QED
    BY <2>1, EndsAlone
<1>7. CASE UNCHANGED <<rows, call>>
  BY <1>7 DEF AloneInv, Knows
<1> QED
  BY <1>1, <1>2, <1>3, <1>4, <1>5, <1>6, <1>7
  DEF MessagesNext, Serve, Crud, MigrateUnused, allVars, messageVars, StartWalk, FetchPage, EndWalk

\* The one step in which a loaded update() returns is its own write.
LEMMA OnlyItsOwnWrite ==
    ASSUME MessagesInv, MessagesNext,
           NEW c \in Calls, call[c].pc = "loaded", call'[c] = Returned
    PROVE  SaveWrites(c)
<1>1. MessagesTypeOK /\ call[c] \in Updates
  BY CallKinds DEF MessagesInv
<1>2. call'[c].pc = "returned"
  BY DEF Returned
<1>3. call'[c] # call[c]
  BY <1>2
<1>4. ASSUME NEW d \in Calls, d # c, Ends(d) PROVE FALSE
  <2>1. \/ call'[c] = [call[c] EXCEPT !.alone = FALSE]
        \/ call'[c] = call[c]
    BY <1>4 DEF Ends
  <2>2. [call[c] EXCEPT !.alone = FALSE].pc = "loaded"
    BY <1>1 DEF Updates
  <2> QED
    BY <1>2, <1>3, <2>1, <2>2
<1>5. ASSUME NEW d \in Calls, NEW id \in Ids, BeginRemove(d, id) \/ \E f \in Fields : BeginUpdate(d, id, f)
      PROVE  FALSE
  <2>1. d # c
    <3>1. call[d] = NotMade
      BY <1>5 DEF BeginRemove, BeginUpdate
    <3> QED
      BY <1>1, <3>1, CallKinds
  <2> QED
    BY <1>1, <1>3, <1>5, <2>1 DEF BeginRemove, BeginUpdate, MessagesTypeOK
<1>6. ASSUME NEW d \in Calls, SaveLoads(d) PROVE FALSE
  <2>1. d # c
    BY <1>6 DEF SaveLoads
  <2> QED
    BY <1>1, <1>3, <1>6, <2>1 DEF SaveLoads, MessagesTypeOK
<1>7. ASSUME NEW d \in Calls, Deletes(d) PROVE FALSE
  <2>1. d # c /\ Ends(d)
    BY <1>7 DEF Deletes
  <2> QED
    BY <1>4, <2>1
<1>8. ASSUME NEW d \in Calls, SaveWrites(d) PROVE d = c
  BY <1>4, <1>8 DEF SaveWrites
<1>9. call' # call
  BY <1>3
<1> QED
  BY <1>5, <1>6, <1>7, <1>8, <1>9
  DEF MessagesNext, Serve, MigrateUnused, Crud, messageVars, Create, StartWalk, FetchPage, EndWalk

\* That write, if nobody overtook it, changes one field.
LEMMA AloneWrite ==
    ASSUME MessagesInv, AloneInv, NEW c \in Calls, SaveWrites(c), call[c].alone,
           NEW i \in Stored, NEW f \in Fields
    PROVE  rows'[i][f] = rows[i][f] \/ (i = call[c].id /\ f = call[c].field)
<1> DEFINE u == call[c]
           changed == {g \in Fields : u.db # NoRow /\ u.entity[g] # u.db[g]}
<1>1. MessagesTypeOK /\ u \in Updates /\ u.pc = "loaded"
  BY CallKinds DEF MessagesInv, SaveWrites
<1>2. u.id \in Ids /\ u.field \in Fields
  BY <1>1 DEF Updates
<1>3. Knows(u, rows[u.id])
  BY <1>1 DEF AloneInv
<1>4. rows[u.id] \in Row /\ rows[u.id] # NoRow /\ u.db = rows[u.id]
  BY <1>1, <1>3, TickFacts DEF Knows
<1> HIDE DEF u, changed
<1>5. rows' = [rows EXCEPT ![u.id] = Merged(@, u.entity, changed)]
  BY <1>4 DEF SaveWrites, u, changed
<1>6. CASE i # u.id
  BY <1>1, <1>5, <1>6 DEF MessagesTypeOK, Stored
<1>7. CASE i = u.id
  <2> DEFINE row == rows[u.id]
  <2>1. rows'[i] = Merged(row, u.entity, changed)
    BY <1>1, <1>2, <1>5, <1>7 DEF MessagesTypeOK
  <2>2. /\ u.field # "title" => "title" \notin changed
        /\ u.field # "content" => "content" \notin changed
    BY <1>3, <1>4 DEF Knows, changed
  <2> HIDE DEF row
  <2>3. row \in Row
    BY <1>4 DEF row
  <2>4. /\ "title" \notin changed => Merged(row, u.entity, changed).title = row.title
        /\ "content" \notin changed => Merged(row, u.entity, changed).content = row.content
    BY <2>3 DEF Merged, Row
  <2>5. CASE f = "title"
    BY <1>7, <2>1, <2>2, <2>4, <2>5 DEF row, u
  <2>6. CASE f = "content"
    BY <1>7, <2>1, <2>2, <2>4, <2>6 DEF row, u
  <2> QED
    BY <2>5, <2>6 DEF Fields
<1> QED
  BY <1>6, <1>7

\* An update() that no other call overtakes writes its own column and nothing
\* else, whatever TypeORM's comparison of the two rows finds.
THEOREM UndisturbedUpdates == MessagesSpec => AloneChangesOnlyItsField
<1>1. MessagesInit => AloneInv
  BY DEF MessagesInit, AloneInv, Updates, NotMade
<1>2. MessagesInv /\ AloneInv /\ [MessagesNext]_allVars => AloneInv'
  BY AloneStep
<1>3. ASSUME MessagesInv, AloneInv, [MessagesNext]_allVars
      PROVE  [\A c \in Calls :
                call[c].pc = "loaded" /\ call[c].alone /\ call'[c] = Returned =>
                    \A i \in Stored, f \in Fields :
                        rows'[i][f] = rows[i][f] \/ (i = call[c].id /\ f = call[c].field)]_allVars
  BY <1>3, OnlyItsOwnWrite, AloneWrite
<1> QED
  BY <1>1, <1>2, <1>3, MessagesInvariant, PTL DEF MessagesSpec, AloneChangesOnlyItsField

------------------------------------------------------------------------------
\* Under the services the schema changes by the commands' steps alone, so all
\* that is proved of SchemaSpec holds of the database with its rows and calls.
THEOREM SchemaUnderMessages == MessagesSpec => SchemaSpec
<1>1. MessagesInit => SchemaInit
  BY DEF MessagesInit
<1>2. [MessagesNext]_allVars => [Migrate \/ StopServices]_schemaVars
  BY DEF MessagesNext, Serve, MigrateUnused, allVars
<1> QED
  BY <1>1, <1>2, PTL DEF MessagesSpec, SchemaSpec

==============================================================================
