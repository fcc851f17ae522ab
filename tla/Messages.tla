------------------------------- MODULE Messages -------------------------------
(***************************************************************************)
(* The messages table and MessagesService: create, findAll, update and     *)
(* remove as concurrent calls, and a client that pages through findAll     *)
(* with cursors.  The table lives in the schema of Migrations.             *)
(*                                                                         *)
(* PostgreSQL keeps createdAt in microseconds (ticks here); a JavaScript   *)
(* Date, and so every entity and every cursor, holds milliseconds.         *)
(***************************************************************************)
EXTENDS Migrations, FiniteSetsExt

CONSTANTS Calls,        \* calls of update() and remove()
          MaxId,        \* bound: rows inserted
          MaxTick,      \* bound: time
          TicksPerMs,   \* precision lost between database and Date
          DefaultLimit, \* 50
          Ceiling,      \* 200
          Requested     \* limits that clients ask for

ASSUME MessagesAssumption ==
    /\ MaxId \in Nat /\ MaxTick \in Nat
    /\ TicksPerMs \in Nat \ {0}
    /\ DefaultLimit \in Nat \ {0} /\ Ceiling \in Nat \ {0}
    /\ Requested \subseteq Nat

VARIABLES rows,    \* the table: row or NoRow of each id
          nextId,  \* the id sequence
          birth,   \* the millisecond each id was inserted in
          call,    \* update() and remove() under way
          walk     \* the client's walk through findAll()

messageVars == <<rows, nextId, birth, call, walk>>
allVars == <<schemaVars, messageVars>>

Ids == 1..MaxId
Ticks == 0..MaxTick
Fields == {"title", "content"}
Texts == {"created", "updated"}     \* what a column was last given
Row == [at : Ticks, title : Texts, content : Texts]
NoRow == [at |-> -1]
NotMade == [pc |-> "notMade"]
Returned == [pc |-> "returned"]
NoWalk == [pc |-> "none"]

\* The fields of other, a DTO or an entity, written over those of row.
Merged(row, other, fields) ==
    [row EXCEPT !.title = IF "title" \in fields THEN other.title ELSE @,
                !.content = IF "content" \in fields THEN other.content ELSE @]

Dto == [title |-> "updated", content |-> "updated"]

\* A timestamp read into a Date, or printed as an ISO cursor.
ToDate(t) == t - (t % TicksPerMs)

MessagesInit ==
    /\ SchemaInit
    /\ rows = [i \in Ids |-> NoRow]
    /\ nextId = 1
    /\ birth = [i \in Ids |-> 0]
    /\ call = [c \in Calls |-> NotMade]
    /\ walk = NoWalk

Stored == {i \in Ids : rows[i] # NoRow}

------------------------------------------------------------------------------
\* create(), or the consumer's insert: createdAt is the start of the
\* transaction, so rows may appear in any order of their timestamps.
Create(t) ==
    /\ nextId \in Ids
    /\ rows' = [rows EXCEPT ![nextId] = [at |-> t, title |-> "created", content |-> "created"]]
    /\ birth' = [birth EXCEPT ![nextId] = ToDate(t)]
    /\ nextId' = nextId + 1
    /\ UNCHANGED <<call, walk>>

\* update(): findOne(), which throws if there is no such row, and the field of
\* the DTO merged into what it found.  Object.assign() would merge any key, and
\* no ValidationPipe removes one: callers are assumed to send an UpdateMessageDto.
BeginUpdate(c, id, field) ==
    /\ call[c] = NotMade
    /\ id \in Stored
    /\ call' = [call EXCEPT ![c] = [pc |-> "merged", id |-> id, field |-> field, alone |-> TRUE, db |-> NoRow,
                                    entity |-> Merged([rows[id] EXCEPT !.at = ToDate(@)], Dto, {field})]]
    /\ UNCHANGED <<rows, nextId, birth, walk>>

\* remove(): findOne().
BeginRemove(c, id) ==
    /\ call[c] = NotMade
    /\ id \in Stored
    /\ call' = [call EXCEPT ![c] = [pc |-> "removing", id |-> id, alone |-> TRUE]]
    /\ UNCHANGED <<rows, nextId, birth, walk>>

\* Mutant: save() is given the DTO alone, not the row it was merged into.
SaveLoadsUnmerged(c) ==
    /\ call[c].pc = "merged"
    /\ call' = [call EXCEPT ![c].pc = "loaded", ![c].db = rows[call[c].id],
                            ![c].entity = Merged(@, Dto, Fields)]
    /\ UNCHANGED <<rows, nextId, birth, walk>>

\* save(), first statement: TypeORM loads the row to find what has changed.
SaveLoads(c) ==
    /\ call[c].pc = "merged"
    /\ call' = [call EXCEPT ![c].pc = "loaded", ![c].db = rows[call[c].id]]
    /\ UNCHANGED <<rows, nextId, birth, walk>>

UnderWay(c) == call[c] \notin {NotMade, Returned}

\* The call of c ends; the others on its row have met a concurrent write.
Ends(c) ==
    call' = [d \in Calls |->
                IF d = c THEN Returned
                ELSE IF UnderWay(d) /\ call[d].id = call[c].id THEN [call[d] EXCEPT !.alone = FALSE]
                ELSE call[d]]

\* Mutant: the row comes back with the time of the save.
InsertedAnew(entity) == [entity EXCEPT !.at = MaxTick]

\* Mutant: the row comes back without its time.
InsertedUntimed(entity) == [entity EXCEPT !.at = -1]

\* What the INSERT of save() stores: the entity with all its columns, createdAt
\* included, as update() read it.
Inserted(entity) == entity

\* save(), second statement.  UPDATE of the columns in which entity and loaded
\* row differ, stale ones included; if no row was loaded, INSERT under the old
\* id.  The UPDATE of a row that has gone changes nothing, the INSERT of one that
\* has come back fails.
SaveWrites(c) ==
    /\ call[c].pc = "loaded"
    /\ LET id == call[c].id
           entity == call[c].entity
           changed == {f \in Fields : call[c].db # NoRow /\ entity[f] # call[c].db[f]}
       IN  \/ /\ call[c].db = NoRow /\ rows[id] = NoRow
              /\ rows' = [rows EXCEPT ![id] = Inserted(entity)]
           \/ /\ call[c].db # NoRow /\ rows[id] # NoRow
              /\ rows' = [rows EXCEPT ![id] = Merged(@, entity, changed)]
           \/ (call[c].db = NoRow) # (rows[id] = NoRow) /\ UNCHANGED rows
    /\ Ends(c)
    /\ UNCHANGED <<nextId, birth, walk>>

\* remove(): DELETE by id, which need not find the row.
Deletes(c) ==
    /\ call[c].pc = "removing"
    /\ rows' = [rows EXCEPT ![call[c].id] = NoRow]
    /\ Ends(c)
    /\ walk' = IF walk = NoWalk THEN walk ELSE [walk EXCEPT !.present = @ \ {call[c].id}]
    /\ UNCHANGED <<nextId, birth>>

------------------------------------------------------------------------------
\* Math.min(opts.limit ?? 50, 200).  TypeORM leaves out a LIMIT of 0.
Limits(n) == {IF l = 0 THEN n ELSE Min({l, Ceiling}) : l \in Requested \cup {DefaultLimit}}

\* Mutant: createdAt <= cursor.
PagesInclusive(before) ==
    LET eligible == {i \in Stored : rows[i].at <= before}
    IN  {page \in SUBSET eligible :
            /\ Cardinality(page) \in {Min({l, Cardinality(eligible)}) : l \in Limits(MaxId)}
            /\ \A i \in page, j \in eligible \ page : rows[i].at >= rows[j].at}

\* Mutant: oldest rows first.
PagesAscending(before) ==
    LET eligible == {i \in Stored : rows[i].at < before}
    IN  {page \in SUBSET eligible :
            /\ Cardinality(page) \in {Min({l, Cardinality(eligible)}) : l \in Limits(MaxId)}
            /\ \A i \in page, j \in eligible \ page : rows[i].at <= rows[j].at}

\* findAll(): the first rows by createdAt DESC among those before the cursor;
\* rows with one timestamp come in any order.
Pages(before) ==
    LET eligible == {i \in Stored : rows[i].at < before}
    IN  {page \in SUBSET eligible :
            /\ Cardinality(page) \in {Min({l, Cardinality(eligible)}) : l \in Limits(MaxId)}
            /\ \A i \in page, j \in eligible \ page : rows[i].at >= rows[j].at}

\* A client asks for the first page: no cursor.
StartWalk ==
    /\ walk = NoWalk
    /\ walk' = [pc |-> "paging", before |-> MaxTick + 1, seen |-> [i \in Ids |-> 0],
                present |-> Stored, cuts |-> {}]
    /\ UNCHANGED <<rows, nextId, birth, call>>

IsLast(last, page) == \A i \in page : rows[last].at <= rows[i].at

\* The next cursor: createdAt of the last row of the page, as the client got it.
NextCursor(last) == ToDate(rows[last].at)

\* One call of findAll(); an empty page ends the walk.
FetchPage ==
    /\ walk.pc = "paging"
    /\ \E page \in Pages(walk.before) :
         \/ /\ page = {}
            /\ walk' = [walk EXCEPT !.pc = "done"]
         \/ \E last \in page :
              /\ IsLast(last, page)
              /\ walk' = [walk EXCEPT !.before = NextCursor(last),
                                      !.cuts = @ \cup {NextCursor(last)},
                                      !.seen = [i \in Ids |-> @[i] + IF i \in page THEN 1 ELSE 0]]
    /\ UNCHANGED <<rows, nextId, birth, call>>

EndWalk ==
    /\ walk.pc = "done"
    /\ walk' = NoWalk
    /\ UNCHANGED <<rows, nextId, birth, call>>

Crud ==
    \/ \E t \in Ticks : Create(t)
    \/ \E c \in Calls, id \in Ids :
         BeginRemove(c, id) \/ \E f \in Fields : BeginUpdate(c, id, f)
    \/ \E c \in Calls : SaveLoads(c) \/ SaveWrites(c) \/ Deletes(c)
    \/ StartWalk
    \/ FetchPage
    \/ EndWalk

\* The services serve calls while they run.  A bound: on a database that
\* migration:run:all set up from nothing.
SetUp == <<1, 2, 3, 4, 5, 6, 7, 8, 9>>

Serve == services /\ applied = SetUp /\ Crud /\ UNCHANGED schemaVars

\* The table of a schema that changes is still empty: a bound, as no migration
\* looks at rows and no row at migrations.
Unused == nextId = 1 /\ walk = NoWalk

MigrateUnused == Unused /\ (Migrate \/ StopServices) /\ UNCHANGED messageVars

MessagesNext == Serve \/ MigrateUnused

MessagesSpec == MessagesInit /\ [][MessagesNext]_allVars

------------------------------------------------------------------------------
Updates == [pc : {"merged", "loaded"}, id : Ids, field : Fields, alone : BOOLEAN,
            db : Row \cup {NoRow}, entity : Row]
Removals == [pc : {"removing"}, id : Ids, alone : BOOLEAN]
Walks == [pc : {"paging", "done"}, before : 0..(MaxTick + 1), seen : [Ids -> Nat],
          present : SUBSET Ids, cuts : SUBSET Ticks]

\* Types of the table, its sequence, the calls and the walk.
MessagesTypeOK ==
    /\ rows \in [Ids -> Row \cup {NoRow}]
    /\ nextId \in 1..(MaxId + 1)
    /\ birth \in [Ids -> Ticks]
    /\ call \in [Calls -> {NotMade, Returned} \cup Updates \cup Removals]
    /\ walk \in {NoWalk} \cup Walks

\* A walk never shows a row twice, whatever is inserted, updated, removed or
\* brought back while the client pages.
NeverTwice == walk # NoWalk => \A i \in Ids : walk.seen[i] <= 1

\* A finished walk has shown every row that was there from its start to its end,
\* unless the row shares its millisecond with the last row of a page: the cursor
\* cannot tell the two apart.
WalkMissesOnlyTies ==
    walk.pc = "done" =>
        \A i \in walk.present : walk.seen[i] = 1 \/ ToDate(rows[i].at) \in walk.cuts

\* save() brings a removed row back, if its update() had read it before.  The row
\* then still has the millisecond it was created in, and so its place in every
\* listing.
KeepsItsPlace == \A i \in Stored : ToDate(rows[i].at) = birth[i]

\* An update() on whose row no other call ends meanwhile changes its own
\* column and nothing else.  (One that is overtaken writes back what it read.)
AloneChangesOnlyItsField ==
    [][\A c \in Calls :
          call[c].pc = "loaded" /\ call[c].alone /\ call'[c] = Returned =>
              \A i \in Stored, f \in Fields :
                  rows'[i][f] = rows[i][f] \/ (i = call[c].id /\ f = call[c].field)]_allVars

==============================================================================
