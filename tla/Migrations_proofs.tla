-------------------------- MODULE Migrations_proofs --------------------------
(***************************************************************************)
(* Proofs about the migrations: whatever was run, reverted and rolled back *)
(* before, by whichever service, no script meets a schema it cannot run    *)
(* on, and the ledger tells the schema.                                    *)
(***************************************************************************)
EXTENDS Migrations, TLAPS

------------------------------------------------------------------------------
\* Every column and every index is the work of one migration.
ColumnHome(col) ==
    CASE col[1] = "messages" -> IF col[2] = "recipient" THEN 2 ELSE 1
      [] col[1] = "processed_events" -> 3
      [] col[1] = "event_attempts" -> 6
      [] col[1] = "gateway_outbox_events" -> 9
      [] OTHER -> IF col[2] \in {"locked_at", "locked_by", "next_retry_at", "max_attempts"} THEN 5
                  ELSE IF col[2] \in {"event_id", "lock_version"} THEN 7
                  ELSE IF col[2] = "trace_context" THEN 8 ELSE 4

IndexHome(index) ==
    CASE index[1] = "messages" -> 8
      [] index[1] = "processed_events" -> 3
      [] index[1] = "event_attempts" -> 6
      [] index[1] = "gateway_outbox_events" -> 9
      [] OTHER -> IF "trace_context" \in index[2] THEN 8
                  ELSE IF index[2] \cap {"event_id", "lock_version"} # {} THEN 7
                  ELSE IF index[2] \cap {"locked_at", "locked_by", "next_retry_at", "max_attempts"} # {} THEN 5
                  ELSE 4

Home(script, m) ==
    \A i \in 1..Len(script) :
        /\ \A col \in NewColumns(script[i]) : ColumnHome(col) = m
        /\ \A index \in NewIndexes(script[i]) : IndexHome(index) = m

\* Each up() script makes what has its home there.
LEMMA Homes == \A m \in 1..9 : Home(Up[m], m)
<1> USE DEF Home, AddColumn, CreateIndex, CreateTable, NewColumns, NewIndexes, ColumnHome, IndexHome,
            OutboxColumns, RelayColumns
<1>1. Home(Up1, 1)
  BY DEF Up1
<1>2. Home(Up2, 2)
  BY DEF Up2
<1>3. Home(Up3, 3)
  BY DEF Up3
<1>4. Home(Up4, 4)
  BY DEF Up4
<1>5. Home(Up5, 5)
  BY DEF Up5
<1>6. Home(Up6, 6)
  BY DEF Up6
<1>7. Home(Up7, 7)
  BY DEF Up7
<1>8. Home(Up8, 8)
  BY DEF Up8
<1>9. Home(GatewayUp, 9)
  BY DEF GatewayUp
<1> HIDE DEF Home
<1> QED
  BY <1>1, <1>2, <1>3, <1>4, <1>5, <1>6, <1>7, <1>8, <1>9 DEF Up

\* The scripts are sequences.
LEMMA ScriptLengths ==
    \A m \in 1..9 : /\ DOMAIN Up[m] = 1..Len(Up[m]) /\ Len(Up[m]) \in Nat \ {0}
                    /\ DOMAIN Down[m] = 1..Len(Down[m]) /\ Len(Down[m]) \in Nat \ {0}
<1> DEFINE Fine(s) == DOMAIN s = 1..Len(s) /\ Len(s) \in Nat \ {0}
<1>1. Fine(Up1) /\ Fine(Up2) /\ Fine(Up3) /\ Fine(Up4) /\ Fine(Up5) /\ Fine(Up6)
  BY DEF Up1, Up2, Up3, Up4, Up5, Up6
<1>2. Fine(Up7) /\ Fine(Up8) /\ Fine(GatewayUp)
  BY DEF Up7, Up8, GatewayUp
<1>3. Fine(Down1) /\ Fine(Down2) /\ Fine(Down3) /\ Fine(Down4) /\ Fine(Down5) /\ Fine(Down6)
  BY DEF Down1, Down2, Down3, Down4, Down5, Down6
<1>4. Fine(Down7) /\ Fine(Down8) /\ Fine(GatewayDown)
  BY DEF Down7, Down8, GatewayDown
<1> HIDE DEF Fine
<1>5. \A m \in 1..9 : Fine(Up[m]) /\ Fine(Down[m])
  BY <1>1, <1>2, <1>3, <1>4 DEF Up, Down
<1> QED
  BY <1>5 DEF Fine

\* What some migrations built, statement by statement.
LEMMA BuiltMembers ==
    ASSUME NEW S \in SUBSET (1..9)
    PROVE  /\ \A col : col \in Built(S).columns <=>
                  \E m \in S : \E i \in 1..Len(Up[m]) : col \in NewColumns(Up[m][i])
           /\ \A index : index \in Built(S).indexes <=>
                  \E m \in S : \E i \in 1..Len(Up[m]) : index \in NewIndexes(Up[m][i])
<1>1. \A m \in S : ToSet(Up[m]) = {Up[m][i] : i \in 1..Len(Up[m])}
  BY ScriptLengths DEF ToSet
<1> DEFINE sts == UNION {ToSet(Up[m]) : m \in S}
<1>2. \A st : st \in sts <=> \E m \in S : \E i \in 1..Len(Up[m]) : st = Up[m][i]
  BY <1>1, Zenon
<1>3. Built(S).columns = UNION {NewColumns(st) : st \in sts} /\ Built(S).indexes = UNION {NewIndexes(st) : st \in sts}
  BY DEF Built
<1> HIDE DEF sts
<1>4. \A col : col \in Built(S).columns <=> \E st \in sts : col \in NewColumns(st)
  BY <1>3, Zenon
<1>5. \A index : index \in Built(S).indexes <=> \E st \in sts : index \in NewIndexes(st)
  BY <1>3, Zenon
<1>6. ASSUME NEW col
      PROVE  col \in Built(S).columns <=> \E m \in S : \E i \in 1..Len(Up[m]) : col \in NewColumns(Up[m][i])
  <2>1. ASSUME NEW m \in S, NEW i \in 1..Len(Up[m]), col \in NewColumns(Up[m][i])
        PROVE  col \in Built(S).columns
    BY <1>2, <1>4, <2>1
  <2>2. ASSUME col \in Built(S).columns
        PROVE  \E m \in S : \E i \in 1..Len(Up[m]) : col \in NewColumns(Up[m][i])
    <3>1. PICK st \in sts : col \in NewColumns(st)
      BY <1>4, <2>2
    <3>2. PICK m \in S : \E i \in 1..Len(Up[m]) : st = Up[m][i]
      BY <1>2
    <3> QED
      BY <3>1, <3>2
  <2> QED
    BY <2>1, <2>2
<1>7. ASSUME NEW index
      PROVE  index \in Built(S).indexes <=> \E m \in S : \E i \in 1..Len(Up[m]) : index \in NewIndexes(Up[m][i])
  <2>1. ASSUME NEW m \in S, NEW i \in 1..Len(Up[m]), index \in NewIndexes(Up[m][i])
        PROVE  index \in Built(S).indexes
    BY <1>2, <1>5, <2>1
  <2>2. ASSUME index \in Built(S).indexes
        PROVE  \E m \in S : \E i \in 1..Len(Up[m]) : index \in NewIndexes(Up[m][i])
    <3>1. PICK st \in sts : index \in NewIndexes(st)
      BY <1>5, <2>2
    <3>2. PICK m \in S : \E i \in 1..Len(Up[m]) : st = Up[m][i]
      BY <1>2
    <3> QED
      BY <3>1, <3>2
  <2> QED
    BY <2>1, <2>2
<1> QED
  BY <1>6, <1>7

\* What is built has its home in a migration that was executed.
LEMMA BuiltHome ==
    ASSUME NEW S \in SUBSET (1..9)
    PROVE  /\ \A col \in Built(S).columns : ColumnHome(col) \in S
           /\ \A index \in Built(S).indexes : IndexHome(index) \in S
<1>1. ASSUME NEW col \in Built(S).columns PROVE ColumnHome(col) \in S
  <2>1. PICK m \in S : \E i \in 1..Len(Up[m]) : col \in NewColumns(Up[m][i])
    BY BuiltMembers
  <2>2. PICK i \in 1..Len(Up[m]) : col \in NewColumns(Up[m][i])
    BY <2>1
  <2>3. Home(Up[m], m)
    BY Homes
  <2> QED
    BY <2>2, <2>3 DEF Home
<1>2. ASSUME NEW index \in Built(S).indexes PROVE IndexHome(index) \in S
  <2>1. PICK m \in S : \E i \in 1..Len(Up[m]) : index \in NewIndexes(Up[m][i])
    BY BuiltMembers
  <2>2. PICK i \in 1..Len(Up[m]) : index \in NewIndexes(Up[m][i])
    BY <2>1
  <2>3. Home(Up[m], m)
    BY Homes
  <2> QED
    BY <2>2, <2>3 DEF Home
<1> QED
  BY <1>1, <1>2

------------------------------------------------------------------------------
\* A migration to run: not executed yet, those of its service before it are.
RunContext(S, m) == m \in 1..9 /\ S \in SUBSET (1..9) /\ m \notin S /\ (m # 9 => S \cap (1..8) = 1..(m - 1))

\* A migration to revert: executed, the last one of its service.
RevertContext(S, m) == m \in 1..9 /\ S \in SUBSET (1..9) /\ m \in S /\ (m # 9 => S \cap (1..8) = 1..m)

\* The schema before statement "at" of the script of m, on top of those of S.
InRun(S, m, at) ==
    [columns |-> Built(S).columns \cup UNION {NewColumns(Up[m][j]) : j \in 1..(at - 1)},
     indexes |-> Built(S).indexes \cup UNION {NewIndexes(Up[m][j]) : j \in 1..(at - 1)}]

\* The same for the down() script of m, on what those of S built.
InRevert(S, m, at) ==
    [columns |-> {col \in Built(S).columns : \A j \in 1..(at - 1) : ~DropsColumn(Down[m][j], col)},
     indexes |-> {index \in Built(S).indexes : \A j \in 1..(at - 1) : ~DropsIndex(Down[m][j], index)}]

\* A statement that creates something new.
Creates(s, st) ==
    /\ Accepts(s, st)
    /\ st.op \in {"createTable", "addColumn", "createIndex"}
    /\ st.op = "createTable" => ~HasTable(s, st.table)

\* Tables that later scripts of the messaging service build on.
LEMMA TablesBuilt ==
    ASSUME NEW S \in SUBSET (1..9)
    PROVE  /\ 1 \in S => {"messages"} \X {"id", "createdAt"} \subseteq Built(S).columns
           /\ 4 \in S => {"outbox_events"} \X {"id", "status"} \subseteq Built(S).columns
<1>1. ASSUME 1 \in S PROVE {"messages"} \X {"id", "createdAt"} \subseteq Built(S).columns
  <2>1. {"messages"} \X {"id", "createdAt"} \subseteq NewColumns(Up1[1]) /\ Up[1] = Up1 /\ Len(Up1) = 1
    BY DEF NewColumns, Up1, Up, CreateTable
  <2> QED
    BY <1>1, <2>1, BuiltMembers
<1>2. ASSUME 4 \in S PROVE {"outbox_events"} \X {"id", "status"} \subseteq Built(S).columns
  <2>1. {"outbox_events"} \X {"id", "status"} \subseteq NewColumns(Up4[1]) /\ Up[4] = Up4 /\ Len(Up4) = 4
    BY DEF NewColumns, Up4, Up, CreateTable, OutboxColumns
  <2> QED
    BY <1>2, <2>1, BuiltMembers, 1 \in 1..Len(Up[4])
<1> QED
  BY <1>1, <1>2

\* What is there in the middle of an up() script.
LEMMA InRunMembers ==
    ASSUME NEW S, NEW m, NEW at
    PROVE  /\ \A col : col \in InRun(S, m, at).columns <=>
                 \/ col \in Built(S).columns
                 \/ \E j \in 1..(at - 1) : col \in NewColumns(Up[m][j])
           /\ \A index : index \in InRun(S, m, at).indexes <=>
                 \/ index \in Built(S).indexes
                 \/ \E j \in 1..(at - 1) : index \in NewIndexes(Up[m][j])
  BY DEF InRun

\* The homes that a migration comes before, its own included.
Later(home, m) == home >= m /\ (m # 9 => home <= 8)

\* What an up() script takes for granted: columns of its own, or of these.
Ground == ({"messages"} \X {"id", "createdAt"}) \cup ({"outbox_events"} \X {"id", "status"})

Grounded(up, m) ==
    \A i \in 1..Len(up) :
        /\ up[i].op \in {"createTable", "addColumn", "createIndex"}
        /\ up[i].op = "createTable" => i = 1 /\ \A col : col[1] = up[i].table => Later(ColumnHome(col), m)
        /\ up[i].op = "addColumn" => /\ \E col \in Ground : col[1] = up[i].table
                                     /\ up[i].cols # {}
                                     /\ m \in {2, 5, 7, 8}
                                     /\ m = 2 => up[i].table = "messages"
        /\ up[i].op = "createIndex" =>
               \A col \in {up[i].table} \X up[i].cols :
                   \/ col \in Ground /\ m \in {5, 7, 8}
                   \/ \E j \in 1..(i - 1) : col \in NewColumns(up[j])

NoRepeat(up) ==
    \A i \in 1..Len(up) : \A j \in 1..(i - 1) :
        /\ NewColumns(up[i]) \cap NewColumns(up[j]) = {}
        /\ NewIndexes(up[i]) \cap NewIndexes(up[j]) = {}

\* Every up() script finds its ground.
LEMMA UpsGrounded == \A m \in 1..9 : Grounded(Up[m], m)
<1>g. /\ \E col \in Ground : col[1] = "messages"
      /\ \E col \in Ground : col[1] = "outbox_events"
      /\ <<"messages", "createdAt">> \in Ground /\ <<"outbox_events", "status">> \in Ground
  <2>1. /\ <<"messages", "createdAt">> \in Ground /\ <<"outbox_events", "status">> \in Ground
    BY DEF Ground
  <2>2. <<"messages", "createdAt">>[1] = "messages" /\ <<"outbox_events", "status">>[1] = "outbox_events"
    OBVIOUS
  <2> QED
    BY <2>1, <2>2
<1> USE DEF Grounded, Later, NewColumns, ColumnHome, AddColumn, CreateIndex, CreateTable, OutboxColumns, RelayColumns
<1>1. Grounded(Up1, 1)
  BY DEF Up1
<1>2. Grounded(Up2, 2)
  BY <1>g DEF Up2
<1>3. Grounded(Up3, 3)
  BY DEF Up3
<1>4. Grounded(Up4, 4)
  BY DEF Up4
<1>5. Grounded(Up5, 5)
  BY <1>g DEF Up5
<1>6. Grounded(Up6, 6)
  BY DEF Up6
<1>7. Grounded(Up7, 7)
  BY <1>g DEF Up7
<1>8. Grounded(Up8, 8)
  BY <1>g DEF Up8
<1>9. Grounded(GatewayUp, 9)
  BY DEF GatewayUp
<1> HIDE DEF Grounded
<1> QED
  BY <1>1, <1>2, <1>3, <1>4, <1>5, <1>6, <1>7, <1>8, <1>9 DEF Up

\* No up() script creates a column or an index twice.
LEMMA UpsNoRepeat == \A m \in 1..9 : NoRepeat(Up[m])
<1> USE DEF NoRepeat, NewColumns, NewIndexes, AddColumn, CreateIndex, CreateTable, OutboxColumns, RelayColumns
<1>1. NoRepeat(Up1)
  BY DEF Up1
<1>2. NoRepeat(Up2)
  BY DEF Up2
<1>3. NoRepeat(Up3)
  BY DEF Up3
<1>4. NoRepeat(Up4)
  BY DEF Up4
<1>5. NoRepeat(Up5)
  BY DEF Up5
<1>6. NoRepeat(Up6)
  BY DEF Up6
<1>7. NoRepeat(Up7)
  BY DEF Up7
<1>8. NoRepeat(Up8)
  BY DEF Up8
<1>9. NoRepeat(GatewayUp)
  BY DEF GatewayUp
<1> HIDE DEF NoRepeat
<1> QED
  BY <1>1, <1>2, <1>3, <1>4, <1>5, <1>6, <1>7, <1>8, <1>9 DEF Up

\* A down() script drops nothing twice and nothing that its up() did not create,
\* misses nothing of it, and touches nothing of an earlier migration.
Undoes(down, up) ==
    /\ down.op \in {"dropTable", "dropColumn", "dropIndex", "dropIndexIfExists"}
    /\ down.table = up.table
    /\ down.op = "dropIndex" => up.op = "createIndex" /\ down.cols = up.cols
    /\ down.op = "dropColumn" => up.op = "addColumn" /\ down.cols = up.cols
    /\ down.op = "dropTable" => up.op = "createTable" /\ up.cols # {}

Mirrored(up, down) ==
    /\ Len(down) = Len(up)
    /\ \A i \in 1..Len(down) : Undoes(down[i], up[Len(up) + 1 - i])

Once(down) ==
    \A i \in 1..Len(down) : \A j \in 1..(i - 1) :
        /\ down[i].op = "dropIndex" => ~DropsIndex(down[j], <<down[i].table, down[i].cols>>)
        /\ down[i].op = "dropColumn" => \A c \in down[i].cols : ~DropsColumn(down[j], <<down[i].table, c>>)
        /\ down[i].op = "dropTable" => down[j].op \notin {"dropTable", "dropColumn"}

Thorough(up, down) ==
    \A k \in 1..Len(up) :
        /\ \A col \in NewColumns(up[k]) : \E j \in 1..Len(down) : DropsColumn(down[j], col)
        /\ \A index \in NewIndexes(up[k]) : \E j \in 1..Len(down) : DropsIndex(down[j], index)

Harmless(down, m) ==
    \A j \in 1..Len(down) :
        /\ \A col : DropsColumn(down[j], col) => Later(ColumnHome(col), m)
        /\ \A index : DropsIndex(down[j], index) => Later(IndexHome(index), m)

\* Every down() script undoes its up(), last statement first.
LEMMA DownsMirrored == \A m \in 1..9 : Mirrored(Up[m], Down[m])
<1> USE DEF AddColumn, CreateIndex, CreateTable, DropIndex, DropIndexIfExists, DropColumn, DropTable,
            OutboxColumns, RelayColumns
<1>1. Mirrored(Up1, Down1)
  <2>1. /\ Undoes(Down1[1], Up1[1])
    BY DEF Undoes, Up1, Down1
  <2>2. Len(Up1) = 1 /\ Len(Down1) = 1
    BY DEF Up1, Down1
  <2> QED
    BY <2>1, <2>2 DEF Mirrored
<1>2. Mirrored(Up2, Down2)
  <2>1. /\ Undoes(Down2[1], Up2[1])
    BY DEF Undoes, Up2, Down2
  <2>2. Len(Up2) = 1 /\ Len(Down2) = 1
    BY DEF Up2, Down2
  <2> QED
    BY <2>1, <2>2 DEF Mirrored
<1>3. Mirrored(Up3, Down3)
  <2>1. /\ Undoes(Down3[1], Up3[3]) /\ Undoes(Down3[2], Up3[2])
        /\ Undoes(Down3[3], Up3[1])
    BY DEF Undoes, Up3, Down3
  <2>2. Len(Up3) = 3 /\ Len(Down3) = 3
    BY DEF Up3, Down3
  <2> QED
    BY <2>1, <2>2 DEF Mirrored
<1>4. Mirrored(Up4, Down4)
  <2>1. /\ Undoes(Down4[1], Up4[4]) /\ Undoes(Down4[2], Up4[3])
        /\ Undoes(Down4[3], Up4[2]) /\ Undoes(Down4[4], Up4[1])
    BY DEF Undoes, Up4, Down4
  <2>2. Len(Up4) = 4 /\ Len(Down4) = 4
    BY DEF Up4, Down4
  <2> QED
    BY <2>1, <2>2 DEF Mirrored
<1>5. Mirrored(Up5, Down5)
  <2>1. /\ Undoes(Down5[1], Up5[6]) /\ Undoes(Down5[2], Up5[5])
        /\ Undoes(Down5[3], Up5[4]) /\ Undoes(Down5[4], Up5[3])
        /\ Undoes(Down5[5], Up5[2]) /\ Undoes(Down5[6], Up5[1])
    BY DEF Undoes, Up5, Down5
  <2>2. Len(Up5) = 6 /\ Len(Down5) = 6
    BY DEF Up5, Down5
  <2> QED
    BY <2>1, <2>2 DEF Mirrored
<1>6. Mirrored(Up6, Down6)
  <2>1. /\ Undoes(Down6[1], Up6[2]) /\ Undoes(Down6[2], Up6[1])
    BY DEF Undoes, Up6, Down6
  <2>2. Len(Up6) = 2 /\ Len(Down6) = 2
    BY DEF Up6, Down6
  <2> QED
    BY <2>1, <2>2 DEF Mirrored
<1>7. Mirrored(Up7, Down7)
  <2>1. /\ Undoes(Down7[1], Up7[3]) /\ Undoes(Down7[2], Up7[2])
        /\ Undoes(Down7[3], Up7[1])
    BY DEF Undoes, Up7, Down7
  <2>2. Len(Up7) = 3 /\ Len(Down7) = 3
    BY DEF Up7, Down7
  <2> QED
    BY <2>1, <2>2 DEF Mirrored
<1>8. Mirrored(Up8, Down8)
  <2>1. /\ Undoes(Down8[1], Up8[2]) /\ Undoes(Down8[2], Up8[1])
    BY DEF Undoes, Up8, Down8
  <2>2. Len(Up8) = 2 /\ Len(Down8) = 2
    BY DEF Up8, Down8
  <2> QED
    BY <2>1, <2>2 DEF Mirrored
<1>9. Mirrored(GatewayUp, GatewayDown)
  <2>1. /\ Undoes(GatewayDown[1], GatewayUp[7]) /\ Undoes(GatewayDown[2], GatewayUp[6])
        /\ Undoes(GatewayDown[3], GatewayUp[5]) /\ Undoes(GatewayDown[4], GatewayUp[4])
        /\ Undoes(GatewayDown[5], GatewayUp[3]) /\ Undoes(GatewayDown[6], GatewayUp[2])
        /\ Undoes(GatewayDown[7], GatewayUp[1])
    BY DEF Undoes, GatewayUp, GatewayDown
  <2>2. Len(GatewayUp) = 7 /\ Len(GatewayDown) = 7
    BY DEF GatewayUp, GatewayDown
  <2> QED
    BY <2>1, <2>2 DEF Mirrored
<1> QED
  BY <1>1, <1>2, <1>3, <1>4, <1>5, <1>6, <1>7, <1>8, <1>9 DEF Up, Down

\* No down() script drops what it has dropped already.
LEMMA DownsOnce == \A m \in 1..9 : Once(Down[m])
<1> USE DEF Once, DropsColumn, DropsIndex, DropIndex, DropIndexIfExists, DropColumn, DropTable
<1>1. Once(Down1)
  BY DEF Down1
<1>2. Once(Down2)
  BY DEF Down2
<1>3. Once(Down3)
  BY DEF Down3
<1>4. Once(Down4)
  BY DEF Down4
<1>5. Once(Down5)
  BY DEF Down5
<1>6. Once(Down6)
  BY DEF Down6
<1>7. Once(Down7)
  BY DEF Down7
<1>8. Once(Down8)
  BY DEF Down8
<1>9. Once(GatewayDown)
  BY DEF GatewayDown
<1> HIDE DEF Once
<1> QED
  BY <1>1, <1>2, <1>3, <1>4, <1>5, <1>6, <1>7, <1>8, <1>9 DEF Down

\* Every down() script drops all that its up() created.
LEMMA DownsThorough == \A m \in 1..9 : Thorough(Up[m], Down[m])
<1> USE DEF Thorough, NewColumns, NewIndexes, DropsColumn, DropsIndex, AddColumn, CreateIndex, CreateTable,
            DropIndex, DropIndexIfExists, DropColumn, DropTable, OutboxColumns, RelayColumns
<1>1. Thorough(Up1, Down1)
  BY DEF Up1, Down1
<1>2. Thorough(Up2, Down2)
  BY DEF Up2, Down2
<1>3. Thorough(Up3, Down3)
  BY DEF Up3, Down3
<1>4. Thorough(Up4, Down4)
  BY DEF Up4, Down4
<1>5. Thorough(Up5, Down5)
  BY DEF Up5, Down5
<1>6. Thorough(Up6, Down6)
  BY DEF Up6, Down6
<1>7. Thorough(Up7, Down7)
  BY DEF Up7, Down7
<1>8. Thorough(Up8, Down8)
  BY DEF Up8, Down8
<1>9. Thorough(GatewayUp, GatewayDown)
  BY DEF GatewayUp, GatewayDown
<1> HIDE DEF Thorough
<1> QED
  BY <1>1, <1>2, <1>3, <1>4, <1>5, <1>6, <1>7, <1>8, <1>9 DEF Up, Down

\* No down() script drops what an earlier migration created.
LEMMA DownsHarmless == \A m \in 1..9 : Harmless(Down[m], m)
<1> USE DEF Harmless, Later, ColumnHome, IndexHome, DropsColumn, DropsIndex,
            DropIndex, DropIndexIfExists, DropColumn, DropTable
<1>1. Harmless(Down1, 1)
  BY DEF Up1, Down1
<1>2. Harmless(Down2, 2)
  BY DEF Up2, Down2
<1>3. Harmless(Down3, 3)
  BY DEF Up3, Down3
<1>4. Harmless(Down4, 4)
  BY DEF Up4, Down4
<1>5. Harmless(Down5, 5)
  BY DEF Up5, Down5
<1>6. Harmless(Down6, 6)
  BY DEF Up6, Down6
<1>7. Harmless(Down7, 7)
  BY DEF Up7, Down7
<1>8. Harmless(Down8, 8)
  BY DEF Up8, Down8
<1>9. Harmless(GatewayDown, 9)
  BY DEF GatewayUp, GatewayDown
<1> HIDE DEF Harmless
<1> QED
  BY <1>1, <1>2, <1>3, <1>4, <1>5, <1>6, <1>7, <1>8, <1>9 DEF Up, Down

------------------------------------------------------------------------------
\* Schemas with the same columns and indexes are equal.
LEMMA SameSchema ==
    ASSUME NEW a, NEW b, a.columns = b.columns, a.indexes = b.indexes,
           \E x, y : a = [columns |-> x, indexes |-> y],
           \E x, y : b = [columns |-> x, indexes |-> y]
    PROVE  a = b
  OBVIOUS

\* Nothing of a migration to run, or of a later one, is there yet.
LEMMA NothingLater ==
    ASSUME NEW S, NEW m, RunContext(S, m)
    PROVE  /\ \A col \in Built(S).columns : ~Later(ColumnHome(col), m)
           /\ \A index \in Built(S).indexes : ~Later(IndexHome(index), m)
<1>1. /\ \A col \in Built(S).columns : ColumnHome(col) \in S
      /\ \A index \in Built(S).indexes : IndexHome(index) \in S
  BY BuiltHome DEF RunContext
<1>2. \A h \in S : ~Later(h, m)
  BY DEF RunContext, Later
<1> QED
  BY <1>1, <1>2

\* What the script creates next is not there.
LEMMA NextIsNew ==
    ASSUME NEW S, NEW m, RunContext(S, m), NEW at \in 1..Len(Up[m])
    PROVE  /\ NewColumns(Up[m][at]) \cap InRun(S, m, at).columns = {}
           /\ NewIndexes(Up[m][at]) \cap InRun(S, m, at).indexes = {}
<1>1. Home(Up[m], m) /\ NoRepeat(Up[m]) /\ Later(m, m)
  BY Homes, UpsNoRepeat DEF RunContext, Later
<1>2. ASSUME NEW col \in NewColumns(Up[m][at]) PROVE col \notin InRun(S, m, at).columns
  <2>1. col \notin Built(S).columns
    BY <1>1, NothingLater DEF Home
  <2>2. \A j \in 1..(at - 1) : col \notin NewColumns(Up[m][j])
    BY <1>1 DEF NoRepeat
  <2> QED
    BY <2>1, <2>2, InRunMembers
<1>3. ASSUME NEW index \in NewIndexes(Up[m][at]) PROVE index \notin InRun(S, m, at).indexes
  <2>1. index \notin Built(S).indexes
    BY <1>1, NothingLater DEF Home
  <2>2. \A j \in 1..(at - 1) : index \notin NewIndexes(Up[m][j])
    BY <1>1 DEF NoRepeat
  <2> QED
    BY <2>1, <2>2, InRunMembers
<1> QED
  BY <1>2, <1>3

\* No up() script meets a table, column or index it creates, or misses one it
\* needs.
LEMMA UpAccepted ==
    ASSUME NEW S, NEW m, RunContext(S, m), NEW at \in 1..Len(Up[m])
    PROVE  Creates(InRun(S, m, at), Up[m][at])
<1> DEFINE st == Up[m][at]
           s == InRun(S, m, at)
<1>1. Grounded(Up[m], m)
  BY UpsGrounded DEF RunContext
<1>2. /\ st.op \in {"createTable", "addColumn", "createIndex"}
      /\ st.op = "createTable" => at = 1 /\ \A col : col[1] = st.table => Later(ColumnHome(col), m)
      /\ st.op = "addColumn" => /\ \E col \in Ground : col[1] = st.table
                                /\ st.cols # {}
                                /\ m \in {2, 5, 7, 8}
                                /\ m = 2 => st.table = "messages"
      /\ st.op = "createIndex" =>
             \A col \in {st.table} \X st.cols :
                 \/ col \in Ground /\ m \in {5, 7, 8}
                 \/ \E j \in 1..(at - 1) : col \in NewColumns(Up[m][j])
  BY <1>1 DEF Grounded
<1>3. /\ NewColumns(st) \cap s.columns = {}
      /\ NewIndexes(st) \cap s.indexes = {}
  BY NextIsNew
<1>4. /\ m \in {5, 7, 8} => Ground \subseteq s.columns
      /\ m = 2 => {"messages"} \X {"id", "createdAt"} \subseteq s.columns
  <2>1. Built(S).columns \subseteq s.columns
    BY InRunMembers
  <2>2. m \in {2, 5, 7, 8} => 1 \in S
    BY DEF RunContext
  <2>3. m \in {5, 7, 8} => 4 \in S
    BY DEF RunContext
  <2> QED
    BY <2>1, <2>2, <2>3, TablesBuilt DEF Ground, RunContext
<1> HIDE DEF st, s
<1>5. CASE st.op = "createTable"
  <2>1. s.columns = Built(S).columns
    <3>1. 1..(at - 1) = {}
      BY <1>2, <1>5
    <3> QED
      BY <3>1 DEF s, InRun
  <2>2. ~HasTable(s, st.table)
    BY <1>2, <1>5, <2>1, NothingLater DEF HasTable
  <2> QED
    BY <1>5, <2>2 DEF Creates, Accepts, s, st
<1>6. CASE st.op = "addColumn"
  <2>1. HasTable(s, st.table)
    <3>1. CASE m = 2
      <4>1. <<"messages", "id">> \in s.columns
        BY <1>4, <3>1
      <4>2. st.table = "messages" /\ <<"messages", "id">>[1] = "messages"
        BY <1>2, <1>6, <3>1
      <4> QED
        BY <4>1, <4>2 DEF HasTable
    <3>2. CASE m # 2
      BY <1>2, <1>4, <1>6, <3>2 DEF HasTable
    <3> QED
      BY <3>1, <3>2
  <2>2. ~HasColumns(s, st.table, st.cols)
    <3>1. PICK c \in st.cols : TRUE
      BY <1>2, <1>6
    <3>2. <<st.table, c>> \in NewColumns(st)
      BY <1>6 DEF NewColumns
    <3>3. <<st.table, c>> \in {st.table} \X st.cols
      OBVIOUS
    <3> QED
      BY <1>3, <3>2, <3>3 DEF HasColumns
  <2> QED
    BY <1>6, <2>1, <2>2 DEF Creates, Accepts, s, st
<1>7. CASE st.op = "createIndex"
  <2>1. HasColumns(s, st.table, st.cols)
    <3>1. ASSUME NEW col \in {st.table} \X st.cols PROVE col \in s.columns
      <4>1. CASE col \in Ground /\ m \in {5, 7, 8}
        BY <1>4, <4>1
      <4>2. CASE \E j \in 1..(at - 1) : col \in NewColumns(Up[m][j])
        BY <4>2, InRunMembers DEF s
      <4> QED
        BY <1>2, <1>7, <4>1, <4>2
    <3> QED
      BY <3>1 DEF HasColumns
  <2>2. <<st.table, st.cols>> \notin s.indexes
    <3>1. <<st.table, st.cols>> \in NewIndexes(st)
      BY <1>7 DEF NewIndexes
    <3> QED
      BY <1>3, <3>1
  <2> QED
    BY <1>7, <2>1, <2>2 DEF Creates, Accepts, s, st
<1> QED
  BY <1>2, <1>5, <1>6, <1>7 DEF st

\* A statement of an up() script adds what it creates.
LEMMA UpApplied ==
    ASSUME NEW S, NEW m, NEW at \in Nat \ {0}, Creates(InRun(S, m, at), Up[m][at])
    PROVE  Apply(InRun(S, m, at), Up[m][at]) = InRun(S, m, at + 1)
<1> DEFINE st == Up[m][at]
           s == InRun(S, m, at)
           n == InRun(S, m, at + 1)
<1>1. Apply(s, st) = [columns |-> {col \in s.columns : ~DropsColumn(st, col)} \cup NewColumns(st),
                      indexes |-> {index \in s.indexes : ~DropsIndex(st, index)} \cup NewIndexes(st)]
  BY DEF Apply, Creates
<1>2. (\A col : ~DropsColumn(st, col)) /\ (\A index : ~DropsIndex(st, index))
  BY DEF Creates, DropsColumn, DropsIndex
<1>3. 1..(at + 1 - 1) = (1..(at - 1)) \cup {at}
  OBVIOUS
<1>4. \A col : col \in n.columns <=> col \in s.columns \/ col \in NewColumns(st)
  BY <1>3, InRunMembers
<1>5. \A index : index \in n.indexes <=> index \in s.indexes \/ index \in NewIndexes(st)
  BY <1>3, InRunMembers
<1>6. n = [columns |-> n.columns, indexes |-> n.indexes]
  BY DEF InRun
<1> HIDE DEF st, s, n
<1>7. Apply(s, st) = n
  BY <1>1, <1>2, <1>4, <1>5, <1>6
<1> QED
  BY <1>7 DEF st, s, n

\* An up() script begins on what was built.
LEMMA UpBegins ==
    ASSUME NEW S, NEW m
    PROVE  InRun(S, m, 1) = Built(S)
<1>1. 1..(1 - 1) = {}
  OBVIOUS
<1>2. Built(S) = [columns |-> Built(S).columns, indexes |-> Built(S).indexes]
  BY DEF Built
<1> QED
  BY <1>1, <1>2 DEF InRun

\* An up() script ends with its migration built too.
LEMMA UpEnds ==
    ASSUME NEW S, NEW m, RunContext(S, m)
    PROVE  InRun(S, m, Len(Up[m]) + 1) = Built(S \cup {m})
<1> DEFINE n == InRun(S, m, Len(Up[m]) + 1)
           b == Built(S \cup {m})
<1>1. 1..(Len(Up[m]) + 1 - 1) = 1..Len(Up[m])
  BY ScriptLengths DEF RunContext
<1>2. S \cup {m} \in SUBSET (1..9) /\ S \in SUBSET (1..9)
  BY DEF RunContext
<1>3. ASSUME NEW col PROVE col \in n.columns <=> col \in b.columns
  <2>1. col \in n.columns <=> col \in Built(S).columns \/ \E j \in 1..Len(Up[m]) : col \in NewColumns(Up[m][j])
    BY <1>1 DEF InRun
  <2>2. col \in b.columns <=> \E k \in S \cup {m} : \E i \in 1..Len(Up[k]) : col \in NewColumns(Up[k][i])
    BY <1>2, BuiltMembers, Zenon
  <2>3. col \in Built(S).columns <=> \E k \in S : \E i \in 1..Len(Up[k]) : col \in NewColumns(Up[k][i])
    BY <1>2, BuiltMembers, Zenon
  <2> QED
    BY <2>1, <2>2, <2>3, Zenon
<1>4. ASSUME NEW index PROVE index \in n.indexes <=> index \in b.indexes
  <2>1. index \in n.indexes <=> index \in Built(S).indexes \/ \E j \in 1..Len(Up[m]) : index \in NewIndexes(Up[m][j])
    BY <1>1 DEF InRun
  <2>2. index \in b.indexes <=> \E k \in S \cup {m} : \E i \in 1..Len(Up[k]) : index \in NewIndexes(Up[k][i])
    BY <1>2, BuiltMembers, Zenon
  <2>3. index \in Built(S).indexes <=> \E k \in S : \E i \in 1..Len(Up[k]) : index \in NewIndexes(Up[k][i])
    BY <1>2, BuiltMembers, Zenon
  <2> QED
    BY <2>1, <2>2, <2>3, Zenon
<1> HIDE DEF n, b
<1>5. n.columns = b.columns /\ n.indexes = b.indexes
  BY <1>3, <1>4
<1> QED
  BY <1>5, SameSchema DEF n, b, InRun, Built

\* What is there in the middle of a down() script.
LEMMA InRevertMembers ==
    ASSUME NEW S, NEW m, NEW at
    PROVE  /\ \A col : col \in InRevert(S, m, at).columns <=>
                 col \in Built(S).columns /\ \A j \in 1..(at - 1) : ~DropsColumn(Down[m][j], col)
           /\ \A index : index \in InRevert(S, m, at).indexes <=>
                 index \in Built(S).indexes /\ \A j \in 1..(at - 1) : ~DropsIndex(Down[m][j], index)
  BY DEF InRevert

\* A statement that drops what is there.
Drops(s, st) ==
    /\ Accepts(s, st)
    /\ st.op \in {"dropTable", "dropColumn", "dropIndex", "dropIndexIfExists"}

\* A down() script finds what it drops: its up() created it, and no statement
\* before has dropped it.
LEMMA DownAccepted ==
    ASSUME NEW S, NEW m, RevertContext(S, m), NEW at \in 1..Len(Down[m])
    PROVE  Drops(InRevert(S, m, at), Down[m][at])
<1> DEFINE st == Down[m][at]
           s == InRevert(S, m, at)
<1>1. m \in 1..9 /\ m \in S /\ S \in SUBSET (1..9) /\ Len(Up[m]) \in Nat \ {0} /\ Len(Down[m]) \in Nat
  BY ScriptLengths DEF RevertContext
<1>2. PICK k \in 1..Len(Up[m]) : Undoes(st, Up[m][k])
  <2>1. Mirrored(Up[m], Down[m])
    BY <1>1, DownsMirrored
  <2> QED
    BY <1>1, <2>1 DEF Mirrored
<1>3. \A j \in 1..(at - 1) :
          /\ st.op = "dropIndex" => ~DropsIndex(Down[m][j], <<st.table, st.cols>>)
          /\ st.op = "dropColumn" => \A c \in st.cols : ~DropsColumn(Down[m][j], <<st.table, c>>)
          /\ st.op = "dropTable" => Down[m][j].op \notin {"dropTable", "dropColumn"}
  <2>1. Once(Down[m])
    BY <1>1, DownsOnce
  <2> QED
    BY <2>1 DEF Once
<1>4. NewColumns(Up[m][k]) \subseteq Built(S).columns /\ NewIndexes(Up[m][k]) \subseteq Built(S).indexes
  BY <1>1, BuiltMembers
<1>5. \A col \in Built(S).columns : (\A j \in 1..(at - 1) : ~DropsColumn(Down[m][j], col)) => col \in s.columns
  BY InRevertMembers
<1>6. \A index \in Built(S).indexes : (\A j \in 1..(at - 1) : ~DropsIndex(Down[m][j], index)) => index \in s.indexes
  BY InRevertMembers
<1> HIDE DEF st, s
<1>7. CASE st.op = "dropIndex"
  <2>1. <<st.table, st.cols>> \in NewIndexes(Up[m][k])
    BY <1>2, <1>7 DEF Undoes, NewIndexes
  <2>2. <<st.table, st.cols>> \in s.indexes
    BY <1>3, <1>4, <1>6, <1>7, <2>1
  <2> QED
    BY <1>7, <2>2 DEF Drops, Accepts, st, s
<1>8. CASE st.op = "dropColumn"
  <2>1. ASSUME NEW c \in st.cols PROVE <<st.table, c>> \in s.columns
    <3>1. <<st.table, c>> \in NewColumns(Up[m][k])
      BY <1>2, <1>8 DEF Undoes, NewColumns
    <3> QED
      BY <1>3, <1>4, <1>5, <1>8, <3>1
  <2>2. HasColumns(s, st.table, st.cols)
    BY <2>1 DEF HasColumns
  <2> QED
    BY <1>8, <2>2 DEF Drops, Accepts, st, s
<1>9. CASE st.op = "dropTable"
  <2>1. PICK c : c \in Up[m][k].cols
    BY <1>2, <1>9 DEF Undoes
  <2>2. <<st.table, c>> \in NewColumns(Up[m][k])
    BY <1>2, <1>9, <2>1 DEF Undoes, NewColumns
  <2>3. \A j \in 1..(at - 1) : ~DropsColumn(Down[m][j], <<st.table, c>>)
    BY <1>3, <1>9 DEF DropsColumn
  <2>4. <<st.table, c>> \in s.columns /\ <<st.table, c>>[1] = st.table
    BY <1>4, <1>5, <2>2, <2>3
  <2>5. HasTable(s, st.table)
    BY <2>4 DEF HasTable
  <2> QED
    BY <1>9, <2>5 DEF Drops, Accepts, st, s
<1>10. CASE st.op = "dropIndexIfExists"
  BY <1>10 DEF Drops, Accepts, st, s
<1> QED
  BY <1>2, <1>7, <1>8, <1>9, <1>10 DEF Undoes, st

\* A statement of a down() script takes away what it drops.
LEMMA DownApplied ==
    ASSUME NEW S, NEW m, NEW at \in Nat \ {0}, Drops(InRevert(S, m, at), Down[m][at])
    PROVE  Apply(InRevert(S, m, at), Down[m][at]) = InRevert(S, m, at + 1)
<1> DEFINE st == Down[m][at]
           s == InRevert(S, m, at)
           n == InRevert(S, m, at + 1)
<1>1. Apply(s, st) = [columns |-> {col \in s.columns : ~DropsColumn(st, col)} \cup NewColumns(st),
                      indexes |-> {index \in s.indexes : ~DropsIndex(st, index)} \cup NewIndexes(st)]
  BY DEF Apply, Drops
<1>2. NewColumns(st) = {} /\ NewIndexes(st) = {}
  BY DEF Drops, NewColumns, NewIndexes
<1>3. 1..(at + 1 - 1) = (1..(at - 1)) \cup {at}
  OBVIOUS
<1>4. \A col : col \in n.columns <=> col \in s.columns /\ ~DropsColumn(st, col)
  BY <1>3, InRevertMembers
<1>5. \A index : index \in n.indexes <=> index \in s.indexes /\ ~DropsIndex(st, index)
  BY <1>3, InRevertMembers
<1>6. n = [columns |-> n.columns, indexes |-> n.indexes]
  BY DEF InRevert
<1> HIDE DEF st, s, n
<1>7. Apply(s, st) = n
  BY <1>1, <1>2, <1>4, <1>5, <1>6
<1> QED
  BY <1>7 DEF st, s, n

\* A down() script begins on what was built.
LEMMA DownBegins ==
    ASSUME NEW S, NEW m
    PROVE  InRevert(S, m, 1) = Built(S)
<1>1. 1..(1 - 1) = {}
  OBVIOUS
<1>2. Built(S) = [columns |-> Built(S).columns, indexes |-> Built(S).indexes]
  BY DEF Built
<1> QED
  BY <1>1, <1>2 DEF InRevert

\* A column or index survives a down() script if and only if another migration
\* created it.
LEMMA DownEnds ==
    ASSUME NEW S, NEW m, RevertContext(S, m)
    PROVE  InRevert(S, m, Len(Down[m]) + 1) = Built(S \ {m})
<1> DEFINE n == InRevert(S, m, Len(Down[m]) + 1)
           b == Built(S \ {m})
<1>1. 1..(Len(Down[m]) + 1 - 1) = 1..Len(Down[m])
  BY ScriptLengths DEF RevertContext
<1>2. S \ {m} \in SUBSET (1..9) /\ S \in SUBSET (1..9) /\ m \in 1..9 /\ m \in S
  BY DEF RevertContext
<1>3. Thorough(Up[m], Down[m]) /\ Harmless(Down[m], m)
  BY <1>2, DownsThorough, DownsHarmless
<1>4. \A h \in S \ {m} : ~Later(h, m)
  BY DEF RevertContext, Later
<1>5. ASSUME NEW col PROVE col \in n.columns <=> col \in b.columns
  <2>1. col \in n.columns <=> col \in Built(S).columns /\ \A j \in 1..Len(Down[m]) : ~DropsColumn(Down[m][j], col)
    BY <1>1 DEF InRevert
  <2>2. col \in Built(S).columns <=> \E k \in S : \E i \in 1..Len(Up[k]) : col \in NewColumns(Up[k][i])
    BY <1>2, BuiltMembers, Zenon
  <2>3. col \in b.columns <=> \E k \in S \ {m} : \E i \in 1..Len(Up[k]) : col \in NewColumns(Up[k][i])
    BY <1>2, BuiltMembers, Zenon
  <2>4. ASSUME col \in b.columns PROVE col \in n.columns
    <3>1. ~Later(ColumnHome(col), m)
      BY <1>2, <1>4, <2>4, BuiltHome
    <3>2. \A j \in 1..Len(Down[m]) : ~DropsColumn(Down[m][j], col)
      BY <1>3, <3>1 DEF Harmless
    <3> QED
      BY <2>1, <2>2, <2>3, <2>4, <3>2
  <2>5. ASSUME col \in n.columns PROVE col \in b.columns
    <3>1. PICK k \in S : \E i \in 1..Len(Up[k]) : col \in NewColumns(Up[k][i])
      BY <2>1, <2>2, <2>5
    <3>2. k # m
      BY <1>3, <2>1, <2>5, <3>1 DEF Thorough
    <3> QED
      BY <2>3, <3>1, <3>2
  <2> QED
    BY <2>4, <2>5
<1>6. ASSUME NEW index PROVE index \in n.indexes <=> index \in b.indexes
  <2>1. index \in n.indexes <=> index \in Built(S).indexes /\ \A j \in 1..Len(Down[m]) : ~DropsIndex(Down[m][j], index)
    BY <1>1 DEF InRevert
  <2>2. index \in Built(S).indexes <=> \E k \in S : \E i \in 1..Len(Up[k]) : index \in NewIndexes(Up[k][i])
    BY <1>2, BuiltMembers, Zenon
  <2>3. index \in b.indexes <=> \E k \in S \ {m} : \E i \in 1..Len(Up[k]) : index \in NewIndexes(Up[k][i])
    BY <1>2, BuiltMembers, Zenon
  <2>4. ASSUME index \in b.indexes PROVE index \in n.indexes
    <3>1. ~Later(IndexHome(index), m)
      BY <1>2, <1>4, <2>4, BuiltHome
    <3>2. \A j \in 1..Len(Down[m]) : ~DropsIndex(Down[m][j], index)
      BY <1>3, <3>1 DEF Harmless
    <3> QED
      BY <2>1, <2>2, <2>3, <2>4, <3>2
  <2>5. ASSUME index \in n.indexes PROVE index \in b.indexes
    <3>1. PICK k \in S : \E i \in 1..Len(Up[k]) : index \in NewIndexes(Up[k][i])
      BY <2>1, <2>2, <2>5
    <3>2. k # m
      BY <1>3, <2>1, <2>5, <3>1 DEF Thorough
    <3> QED
      BY <2>3, <3>1, <3>2
  <2> QED
    BY <2>4, <2>5
<1> HIDE DEF n, b
<1>7. n.columns = b.columns /\ n.indexes = b.indexes
  BY <1>5, <1>6
<1> QED
  BY <1>7, SameSchema DEF n, b, InRevert, Built

------------------------------------------------------------------------------
\* A ledger: no migration twice, and none of messaging's before its predecessor.
LedgerOK(ledger) ==
    /\ ledger \in Seq(1..9)
    /\ \A i, j \in 1..Len(ledger) : ledger[i] = ledger[j] => i = j
    /\ \A i \in 1..Len(ledger) : ledger[i] \in 2..8 => \E j \in 1..(i - 1) : ledger[j] = ledger[i] - 1

\* The record that a transaction is.
JobFields ==
    \E kind, service, todo, at, sch, ledger, chained :
        job = [kind |-> kind, service |-> service, todo |-> todo, at |-> at,
               schema |-> sch, applied |-> ledger, chained |-> chained]

\* A command under way has executed some statements of its current script on
\* what its ledger tells.
JobInv ==
    /\ JobFields
    /\ job.kind \in {"run", "revert"}
    /\ job.service \in {"messaging", "gateway"}
    /\ job.chained \in BOOLEAN
    /\ LedgerOK(job.applied)
    /\ job.kind = "run" => job.todo = Pending(job.service, job.applied)
    /\ job.kind = "revert" =>
           /\ ~job.chained
           /\ job.todo = {} \/ (job.applied # <<>> /\ job.todo = {Last(job.applied)})
    /\ job.todo = {} => job.schema = Built(ToSet(job.applied))
    /\ job.todo # {} =>
           /\ job.at \in 1..(Len(Script) + 1)
           /\ job.kind = "run" => job.schema = InRun(ToSet(job.applied), Current, job.at)
           /\ job.kind = "revert" => job.schema = InRevert(ToSet(job.applied), Current, job.at)
    /\ job.chained /\ job.service = "gateway" => 1..8 \subseteq ToSet(job.applied)

\* Between commands the ledger tells the schema; services run on a full one.
SchemaInv ==
    /\ LedgerTellsSchema
    /\ LedgerOK(applied)
    /\ services => job = NoJob /\ ToSet(applied) = 1..9
    /\ job # NoJob => JobInv

\* A ledger holds an initial stretch of messaging's migrations.
LEMMA LedgerClosed ==
    ASSUME NEW l, LedgerOK(l)
    PROVE  /\ ToSet(l) \in SUBSET (1..9)
           /\ \A k \in ToSet(l) : k \in 2..8 => k - 1 \in ToSet(l)
           /\ ToSet(l) = {l[i] : i \in 1..Len(l)}
<1>1. ToSet(l) = {l[i] : i \in 1..Len(l)}
  BY DEF ToSet, LedgerOK
<1> QED
  BY <1>1 DEF LedgerOK

\* The first of some migrations.
LEMMA MinOfMigrations ==
    ASSUME NEW T \in SUBSET (1..9), T # {}
    PROVE  Min(T) \in T /\ \A k \in T : Min(T) <= k
<1>1. 1 \in T \/ 2 \in T \/ 3 \in T \/ 4 \in T \/ 5 \in T \/ 6 \in T \/ 7 \in T \/ 8 \in T \/ 9 \in T
  <2>1. PICK x : x \in T
    OBVIOUS
  <2>2. x \in 1..9
    BY <2>1
  <2> QED
    BY <2>1, <2>2
<1>2. \E x \in T : \A y \in T : x =< y
  BY <1>1
<1> QED
  BY <1>2 DEF Min

\* The first pending migration of a service is one to run.
LEMMA PendingRuns ==
    ASSUME NEW l, LedgerOK(l), NEW service \in {"messaging", "gateway"}, Pending(service, l) # {}
    PROVE  RunContext(ToSet(l), Min(Pending(service, l)))
<1> DEFINE S == ToSet(l)
           T == Pending(service, l)
<1>1. S \in SUBSET (1..9) /\ \A k \in S : k \in 2..8 => k - 1 \in S
  BY LedgerClosed
<1>2. T = (IF service = "messaging" THEN 1..8 ELSE {9}) \ S
  BY DEF Pending, MigrationsOf
<1>3. Min(T) \in T /\ \A k \in T : Min(T) <= k
  <2>1. T \in SUBSET (1..9)
    BY <1>2
  <2> QED
    BY <2>1, MinOfMigrations
<1> DEFINE m == Min(T)
<1> HIDE DEF S, T, m
<1>4. ASSUME m # 9 PROVE S \cap (1..8) = 1..(m - 1)
  <2>1. m \in 1..8 /\ m \notin S /\ \A k \in 1..8 : k < m => k \in S
    BY <1>2, <1>3, <1>4 DEF m
  <2>2. \A k \in 1..8 : k > m => k \notin S
    BY <1>1, <2>1
  <2> QED
    BY <2>1, <2>2
<1>5. m \in 1..9 /\ m \notin S
  BY <1>2, <1>3 DEF m
<1> QED
  BY <1>1, <1>4, <1>5 DEF RunContext, S, T, m

\* Recording a migration that was run keeps the ledger in order.
LEMMA LedgerAppend ==
    ASSUME NEW l, LedgerOK(l), NEW m, RunContext(ToSet(l), m)
    PROVE  LedgerOK(Append(l, m)) /\ ToSet(Append(l, m)) = ToSet(l) \cup {m}
<1> DEFINE n == Append(l, m)
<1>1. l \in Seq(1..9) /\ m \in 1..9 /\ m \notin ToSet(l)
  BY DEF LedgerOK, RunContext
<1>2. /\ n \in Seq(1..9) /\ Len(n) = Len(l) + 1 /\ n[Len(l) + 1] = m
      /\ \A i \in 1..Len(l) : n[i] = l[i]
  BY <1>1
<1>3. \A i \in 1..Len(l) : l[i] # m
  BY <1>1, LedgerClosed
<1>4. m \in 2..8 => \E j \in 1..Len(l) : l[j] = m - 1
  BY LedgerClosed DEF RunContext
<1>5. DOMAIN n = 1..(Len(l) + 1) /\ Len(l) \in Nat
  BY <1>1, <1>2
<1> HIDE DEF n
<1>6. ToSet(n) = ToSet(l) \cup {m}
  BY <1>2, <1>5, LedgerClosed DEF ToSet
<1>7. LedgerOK(n)
  <2>1. \A i, j \in 1..Len(n) : n[i] = n[j] => i = j
    BY <1>2, <1>3, <1>5 DEF LedgerOK
  <2>2. ASSUME NEW i \in 1..Len(n), n[i] \in 2..8 PROVE \E j \in 1..(i - 1) : n[j] = n[i] - 1
    <3>1. CASE i = Len(l) + 1
      BY <1>2, <1>4, <1>5, <2>2, <3>1
    <3>2. CASE i \in 1..Len(l)
      <4>1. PICK j \in 1..(i - 1) : l[j] = l[i] - 1
        BY <1>2, <2>2, <3>2 DEF LedgerOK
      <4> QED
        BY <1>2, <1>5, <3>2, <4>1
    <3> QED
      BY <1>2, <1>5, <3>1, <3>2
  <2> QED
    BY <1>2, <2>1, <2>2 DEF LedgerOK
<1> QED
  BY <1>6, <1>7 DEF n

\* What is closed under predecessors and has m, but not its successor, ends at m.
LEMMA Stretch ==
    ASSUME NEW S \in SUBSET (1..9), \A k \in S : k \in 2..8 => k - 1 \in S,
           NEW m \in 1..8, m \in S, m \in 1..7 => m + 1 \notin S
    PROVE  S \cap (1..8) = 1..m
<1>1. \A k \in 2..8 : k \in S => k - 1 \in S
  OBVIOUS
<1>2. /\ 2 \in S => 1 \in S
      /\ 3 \in S => 2 \in S
      /\ 4 \in S => 3 \in S
      /\ 5 \in S => 4 \in S
      /\ 6 \in S => 5 \in S
      /\ 7 \in S => 6 \in S
      /\ 8 \in S => 7 \in S
  BY <1>1
<1>3. m = 1 \/ m = 2 \/ m = 3 \/ m = 4 \/ m = 5 \/ m = 6 \/ m = 7 \/ m = 8
  OBVIOUS
<1>4. \A k \in 1..8 : k \in S <=> k <= m
  BY <1>2, <1>3
<1> QED
  BY <1>4

\* The last migration of a ledger is one to revert.
LEMMA LastReverts ==
    ASSUME NEW l, LedgerOK(l), l # <<>>
    PROVE  RevertContext(ToSet(l), Last(l))
<1> DEFINE S == ToSet(l)
           m == Last(l)
<1>1. S \in SUBSET (1..9) /\ (\A k \in S : k \in 2..8 => k - 1 \in S) /\ S = {l[i] : i \in 1..Len(l)}
  BY LedgerClosed
<1>2. Len(l) \in Nat \ {0} /\ m = l[Len(l)] /\ m \in S /\ m \in 1..9
  BY <1>1 DEF LedgerOK, Last
<1>3. ASSUME m \in 1..7 PROVE m + 1 \notin S
  <2> SUFFICES ASSUME NEW i \in 1..Len(l), l[i] = m + 1 PROVE FALSE
    BY <1>1
  <2>1. PICK j \in 1..(i - 1) : l[j] = m
    <3>1. l[i] \in 2..8 /\ l[i] - 1 = m
      BY <1>2, <1>3
    <3> QED
      BY <3>1 DEF LedgerOK
  <2> QED
    BY <1>2, <2>1 DEF LedgerOK
<1> HIDE DEF S, m
<1>4. ASSUME m # 9 PROVE S \cap (1..8) = 1..m
  <2>1. m \in 1..8
    BY <1>2, <1>4
  <2>2. /\ S \in SUBSET (1..9) /\ \A k \in S : k \in 2..8 => k - 1 \in S
        /\ m \in S /\ (m \in 1..7 => m + 1 \notin S)
    BY <1>1, <1>2, <1>3
  <2> QED
    BY <2>1, <2>2, Stretch
<1> QED
  BY <1>1, <1>2, <1>4 DEF RevertContext, S, m

\* Erasing the last record keeps the ledger in order.
LEMMA LedgerFront ==
    ASSUME NEW l, LedgerOK(l), l # <<>>
    PROVE  LedgerOK(Front(l)) /\ ToSet(Front(l)) = ToSet(l) \ {Last(l)}
<1> DEFINE n == Front(l)
<1>1. l \in Seq(1..9) /\ Len(l) \in Nat \ {0}
  BY DEF LedgerOK
<1>2. n \in Seq(1..9) /\ Len(n) = Len(l) - 1 /\ \A i \in 1..Len(n) : n[i] = l[i]
  <2>1. Len(SubSeq(l, 1, Len(l) - 1)) = Len(l) - 1
    <3>1. PICK k \in Nat : Len(l) = k + 1 /\ k = Len(l) - 1
      BY <1>1
    <3>2. Len(SubSeq(l, 1, k)) = k
      BY <1>1, <3>1
    <3> QED
      BY <3>1, <3>2
  <2>2. \A i \in 1..(Len(l) - 1) : SubSeq(l, 1, Len(l) - 1)[i] = l[i]
    BY <1>1
  <2>3. SubSeq(l, 1, Len(l) - 1) \in Seq(1..9)
    BY <1>1
  <2>4. n = SubSeq(l, 1, Len(l) - 1)
    BY DEF Front
  <2> HIDE DEF n
  <2> QED
    BY <2>1, <2>2, <2>3, <2>4
<1>3. DOMAIN n = 1..(Len(l) - 1)
  BY <1>2
<1> HIDE DEF n
<1>4. ToSet(n) = {l[i] : i \in 1..(Len(l) - 1)}
  BY <1>2, <1>3 DEF ToSet
<1>5. ToSet(n) = ToSet(l) \ {Last(l)}
  BY <1>1, <1>4, LedgerClosed DEF LedgerOK, Last
<1>6. LedgerOK(n)
  <2>1. \A i, j \in 1..Len(n) : n[i] = n[j] => i = j
    BY <1>1, <1>2 DEF LedgerOK
  <2>2. ASSUME NEW i \in 1..Len(n), n[i] \in 2..8 PROVE \E j \in 1..(i - 1) : n[j] = n[i] - 1
    <3>1. PICK j \in 1..(i - 1) : l[j] = l[i] - 1
      BY <1>1, <1>2, <2>2 DEF LedgerOK
    <3> QED
      BY <1>1, <1>2, <3>1
  <2> QED
    BY <1>2, <2>1, <2>2 DEF LedgerOK
<1> QED
  BY <1>5, <1>6 DEF n

------------------------------------------------------------------------------
\* A command executes a migration whose turn it is.
LEMMA TurnOfCurrent ==
    ASSUME JobInv, job.todo # {}
    PROVE  /\ job.kind = "run" => /\ RunContext(ToSet(job.applied), Current)
                                  /\ Script = Up[Current]
           /\ job.kind = "revert" => /\ RevertContext(ToSet(job.applied), Current)
                                     /\ Script = Down[Current]
                                     /\ job.applied # <<>> /\ Current = Last(job.applied)
           /\ Current \in job.todo
           /\ Current \in 1..9
<1>1. CASE job.kind = "run"
  <2>1. RunContext(ToSet(job.applied), Current)
    BY <1>1, PendingRuns DEF JobInv, Current
  <2>2. job.todo \in SUBSET (1..9)
    BY <1>1 DEF JobInv, Pending, MigrationsOf
  <2> QED
    BY <1>1, <2>1, <2>2, MinOfMigrations DEF Script, RunContext, Current
<1>2. CASE job.kind = "revert"
  <2>1. job.applied # <<>> /\ job.todo = {Last(job.applied)} /\ LedgerOK(job.applied)
    BY <1>2 DEF JobInv
  <2>2. RevertContext(ToSet(job.applied), Last(job.applied))
    BY <2>1, LastReverts
  <2>3. Last(job.applied) \in 1..9
    BY <2>2 DEF RevertContext
  <2>4. Current = Last(job.applied)
    BY <2>1, <2>3, MinOfMigrations DEF Current
  <2> QED
    BY <1>2, <2>1, <2>2, <2>3, <2>4 DEF Script
<1> QED
  BY <1>1, <1>2 DEF JobInv

\* Its next statement is accepted, and the schema goes on as its script says.
LEMMA StatementGoesOn ==
    ASSUME JobInv, job.todo # {}, job.at <= Len(Script)
    PROVE  /\ Accepts(job.schema, Script[job.at])
           /\ job.kind = "run" =>
                  Apply(job.schema, Script[job.at]) = InRun(ToSet(job.applied), Current, job.at + 1)
           /\ job.kind = "revert" =>
                  Apply(job.schema, Script[job.at]) = InRevert(ToSet(job.applied), Current, job.at + 1)
<1>1. Len(Script) \in Nat /\ Current \in 1..9
  BY TurnOfCurrent, ScriptLengths DEF JobInv
<1>2. job.at \in 1..Len(Script) /\ job.at \in Nat \ {0}
  BY <1>1 DEF JobInv
<1>3. CASE job.kind = "run"
  <2>1. RunContext(ToSet(job.applied), Current) /\ Script = Up[Current]
    BY <1>3, TurnOfCurrent
  <2>2. job.schema = InRun(ToSet(job.applied), Current, job.at)
    BY <1>3 DEF JobInv
  <2>3. Creates(InRun(ToSet(job.applied), Current, job.at), Up[Current][job.at])
    BY <1>2, <2>1, UpAccepted
  <2>4. Apply(InRun(ToSet(job.applied), Current, job.at), Up[Current][job.at])
            = InRun(ToSet(job.applied), Current, job.at + 1)
    BY <1>2, <2>3, UpApplied
  <2> QED
    BY <1>3, <2>1, <2>2, <2>3, <2>4 DEF Creates
<1>4. CASE job.kind = "revert"
  <2>1. RevertContext(ToSet(job.applied), Current) /\ Script = Down[Current]
    BY <1>4, TurnOfCurrent
  <2>2. job.schema = InRevert(ToSet(job.applied), Current, job.at)
    BY <1>4 DEF JobInv
  <2>3. Drops(InRevert(ToSet(job.applied), Current, job.at), Down[Current][job.at])
    BY <1>2, <2>1, DownAccepted
  <2>4. Apply(InRevert(ToSet(job.applied), Current, job.at), Down[Current][job.at])
            = InRevert(ToSet(job.applied), Current, job.at + 1)
    BY <1>2, <2>3, DownApplied
  <2> QED
    BY <1>4, <2>1, <2>2, <2>3, <2>4 DEF Drops
<1> QED
  BY <1>3, <1>4 DEF JobInv

\* A new transaction, on a schema that its ledger tells.
LEMMA TransactionBegins ==
    ASSUME NEW kind \in {"run", "revert"}, NEW service \in {"messaging", "gateway"},
           NEW todo, NEW sch, NEW ledger, NEW chained \in BOOLEAN,
           job' = Transaction(kind, service, todo, sch, ledger, chained),
           sch = Built(ToSet(ledger)), LedgerOK(ledger),
           kind = "run" => todo = Pending(service, ledger),
           kind = "revert" => ~chained /\ ledger # <<>> /\ todo = {Last(ledger)},
           chained /\ service = "gateway" => 1..8 \subseteq ToSet(ledger)
    PROVE  job' # NoJob /\ JobInv'
<1>1. /\ job'.kind = kind /\ job'.service = service /\ job'.todo = todo /\ job'.at = 1
      /\ job'.schema = sch /\ job'.applied = ledger /\ job'.chained = chained
  BY DEF Transaction
<1>2. JobFields'
  BY Zenon DEF JobFields, Transaction
<1>3. job' # NoJob
  BY <1>1 DEF NoJob
<1>4. \A m : InRun(ToSet(ledger), m, 1) = Built(ToSet(ledger)) /\ InRevert(ToSet(ledger), m, 1) = Built(ToSet(ledger))
  BY UpBegins, DownBegins
<1>5. todo # {} => 1 \in 1..(Len(Script') + 1)
  <2>1. ASSUME todo # {} PROVE Current' \in 1..9
    <3>1. CASE kind = "run"
      <4>1. todo \in SUBSET (1..9)
        BY <3>1 DEF Pending, MigrationsOf
      <4> QED
        BY <1>1, <2>1, <4>1, MinOfMigrations DEF Current
    <3>2. CASE kind = "revert"
      <4>1. Last(ledger) \in 1..9
        BY <3>2, LastReverts DEF RevertContext
      <4> QED
        BY <1>1, <3>2, <4>1, MinOfMigrations DEF Current
    <3> QED
      BY <3>1, <3>2
  <2>2. Script' = Up[Current'] \/ Script' = Down[Current']
    BY DEF Script
  <2>3. ASSUME todo # {} PROVE Len(Script') \in Nat
    BY <2>1, <2>2, <2>3, ScriptLengths
  <2> QED
    BY <2>3
<1> QED
  BY <1>1, <1>2, <1>3, <1>4, <1>5 DEF JobInv

\* A statement keeps the invariant.
LEMMA ExecuteStep == SchemaInv /\ Execute => SchemaInv'
<1> SUFFICES ASSUME SchemaInv, Execute PROVE SchemaInv'
  OBVIOUS
<1>1. JobInv /\ job # NoJob /\ job.todo # {} /\ job.at <= Len(Script) /\ ~services
  BY DEF SchemaInv, Execute, Busy
<1>2. /\ job'.kind = job.kind /\ job'.service = job.service /\ job'.todo = job.todo /\ job'.at = job.at + 1
      /\ job'.schema = Apply(job.schema, Script[job.at])
      /\ job'.applied = job.applied /\ job'.chained = job.chained
      /\ JobFields'
  <2>1. PICK kind, service, todo, at, sch, ledger, chained :
            job = [kind |-> kind, service |-> service, todo |-> todo, at |-> at,
                   schema |-> sch, applied |-> ledger, chained |-> chained]
    BY <1>1 DEF JobInv, JobFields
  <2> DEFINE x == Apply(job.schema, Script[job.at])
  <2>2. job' = [job EXCEPT !.schema = x, !.at = @ + 1]
    BY DEF Execute
  <2> HIDE DEF x
  <2>3. job' = [kind |-> kind, service |-> service, todo |-> todo, at |-> at + 1,
                schema |-> x, applied |-> ledger, chained |-> chained]
    BY <2>1, <2>2
  <2>4. JobFields'
    BY <2>3 DEF JobFields
  <2> QED
    BY <2>1, <2>3, <2>4 DEF x
<1>3. Current' = Current
  BY <1>2 DEF Current
<1>4. Script' = Script
  BY <1>2, <1>3 DEF Script
<1>5. job.at \in 1..(Len(Script) + 1) /\ Len(Script) \in Nat
  BY <1>1, TurnOfCurrent, ScriptLengths DEF JobInv
<1>6. job'.at \in 1..(Len(Script') + 1)
  BY <1>1, <1>2, <1>4, <1>5
<1>7. JobInv'
  BY <1>1, <1>2, <1>3, <1>4, <1>6, StatementGoesOn DEF JobInv
<1> QED
  BY <1>1, <1>7 DEF SchemaInv, Execute, LedgerTellsSchema

\* The record of a migration keeps the invariant.
LEMMA RecordStep == SchemaInv /\ Record => SchemaInv'
<1> SUFFICES ASSUME SchemaInv, Record PROVE SchemaInv'
  OBVIOUS
<1> DEFINE ledger1 == IF job.kind = "run" THEN Append(job.applied, Current) ELSE Front(job.applied)
<1>1. JobInv /\ job # NoJob /\ job.todo # {} /\ job.at > Len(Script) /\ ~services
  BY DEF SchemaInv, Record, Busy
<1>2. /\ job'.kind = job.kind /\ job'.service = job.service /\ job'.todo = job.todo \ {Current} /\ job'.at = 1
      /\ job'.schema = job.schema
      /\ job'.applied = ledger1 /\ job'.chained = job.chained
      /\ JobFields'
  <2>1. PICK kind, service, todo, at, sch, ledger, chained :
            job = [kind |-> kind, service |-> service, todo |-> todo, at |-> at,
                   schema |-> sch, applied |-> ledger, chained |-> chained]
    BY <1>1 DEF JobInv, JobFields
  <2>2. job' = [job EXCEPT !.todo = @ \ {Current}, !.at = 1, !.applied = ledger1]
    BY DEF Record
  <2> HIDE DEF ledger1
  <2>3. job' = [kind |-> kind, service |-> service, todo |-> todo \ {Current}, at |-> 1,
                schema |-> sch, applied |-> ledger1, chained |-> chained]
    BY <2>1, <2>2
  <2>4. JobFields'
    BY <2>3 DEF JobFields
  <2> QED
    BY <2>1, <2>3, <2>4
<1>3. job.at = Len(Script) + 1 /\ Current \in job.todo
  <2>1. Current \in job.todo /\ Current \in 1..9 /\ (Script = Up[Current] \/ Script = Down[Current])
    BY <1>1, TurnOfCurrent DEF JobInv
  <2>2. Len(Script) \in Nat
    BY <2>1, ScriptLengths
  <2>3. job.at \in 1..(Len(Script) + 1)
    BY <1>1 DEF JobInv
  <2> QED
    BY <1>1, <2>1, <2>2, <2>3
<1>4. LedgerOK(ledger1) /\ job.schema = Built(ToSet(ledger1))
  <2>1. CASE job.kind = "run"
    <3>1. RunContext(ToSet(job.applied), Current) /\ Script = Up[Current]
      BY <1>1, <2>1, TurnOfCurrent
    <3>2. job.schema = InRun(ToSet(job.applied), Current, Len(Up[Current]) + 1)
      BY <1>1, <1>3, <2>1, <3>1 DEF JobInv
    <3>3. LedgerOK(ledger1) /\ ToSet(ledger1) = ToSet(job.applied) \cup {Current}
      BY <1>1, <2>1, <3>1, LedgerAppend DEF JobInv
    <3> QED
      BY <3>1, <3>2, <3>3, UpEnds
  <2>2. CASE job.kind = "revert"
    <3>1. RevertContext(ToSet(job.applied), Current) /\ Script = Down[Current]
          /\ job.applied # <<>> /\ Current = Last(job.applied)
      BY <1>1, <2>2, TurnOfCurrent
    <3>2. job.schema = InRevert(ToSet(job.applied), Current, Len(Down[Current]) + 1)
      BY <1>1, <1>3, <2>2, <3>1 DEF JobInv
    <3>3. LedgerOK(ledger1) /\ ToSet(ledger1) = ToSet(job.applied) \ {Current}
      BY <1>1, <2>2, <3>1, LedgerFront DEF JobInv
    <3> QED
      BY <3>1, <3>2, <3>3, DownEnds
  <2> QED
    BY <1>1, <2>1, <2>2 DEF JobInv
<1>5. job.kind = "run" => /\ job'.todo = Pending(job.service, ledger1)
                          /\ ToSet(job.applied) \subseteq ToSet(ledger1)
  <2> SUFFICES ASSUME job.kind = "run"
               PROVE  /\ job'.todo = Pending(job.service, ledger1)
                      /\ ToSet(job.applied) \subseteq ToSet(ledger1)
    OBVIOUS
  <2>1. ToSet(ledger1) = ToSet(job.applied) \cup {Current}
    BY <1>1, TurnOfCurrent, LedgerAppend DEF JobInv
  <2>2. job.todo = Pending(job.service, job.applied)
    BY <1>1 DEF JobInv
  <2> HIDE DEF ledger1
  <2> QED
    BY <1>2, <2>1, <2>2 DEF Pending
<1>6. job.kind = "revert" => job'.todo = {}
  BY <1>1, <1>2, TurnOfCurrent DEF JobInv
<1>7. job'.todo # {} => 1 \in 1..(Len(Script') + 1)
  <2> SUFFICES ASSUME job'.todo # {} PROVE Len(Script') \in Nat
    OBVIOUS
  <2>1. job'.todo \in SUBSET (1..9)
    BY <1>1, <1>5, <1>6 DEF JobInv, Pending, MigrationsOf
  <2>2. Current' \in 1..9
    BY <2>1, MinOfMigrations DEF Current
  <2>3. Script' = Up[Current'] \/ Script' = Down[Current']
    BY DEF Script
  <2> QED
    BY <2>2, <2>3, ScriptLengths
<1>8. \A m : InRun(ToSet(ledger1), m, 1) = Built(ToSet(ledger1)) /\ InRevert(ToSet(ledger1), m, 1) = Built(ToSet(ledger1))
  BY UpBegins, DownBegins
<1> HIDE DEF ledger1
<1>9. job.chained /\ job.service = "gateway" => 1..8 \subseteq ToSet(ledger1)
  BY <1>1, <1>5 DEF JobInv
<1>10. JobInv'
  BY <1>1, <1>2, <1>4, <1>5, <1>6, <1>7, <1>8, <1>9 DEF JobInv
<1> QED
  BY <1>1, <1>10 DEF SchemaInv, Record, LedgerTellsSchema

\* Every step of the commands keeps the invariant.
LEMMA SchemaStep == SchemaInv /\ [Migrate \/ StopServices]_schemaVars => SchemaInv'
<1> SUFFICES ASSUME SchemaInv, [Migrate \/ StopServices]_schemaVars PROVE SchemaInv'
  OBVIOUS
<1>1. ASSUME NEW s \in {"messaging", "gateway"}, NEW b \in BOOLEAN, RunMigrations(s, b) PROVE SchemaInv'
  <2>1. b /\ s = "gateway" => 1..8 \subseteq ToSet(applied)
    BY <1>1 DEF RunMigrations
  <2>2. JobInv'
    BY <1>1, <2>1, TransactionBegins DEF RunMigrations, SchemaInv, LedgerTellsSchema
  <2> QED
    BY <1>1, <2>2 DEF RunMigrations, SchemaInv, LedgerTellsSchema
<1>2. ASSUME NEW s \in {"messaging", "gateway"}, RevertMigration(s) PROVE SchemaInv'
  <2>1. JobInv'
    BY <1>2, TransactionBegins DEF RevertMigration, SchemaInv, LedgerTellsSchema
  <2> QED
    BY <1>2, <2>1 DEF RevertMigration, SchemaInv, LedgerTellsSchema
<1>3. CASE Execute
  BY <1>3, ExecuteStep
<1>4. CASE Record
  BY <1>4, RecordStep
<1>5. CASE Commit
  <2>1. JobInv /\ job.todo = {} /\ job.schema = Built(ToSet(job.applied)) /\ LedgerOK(job.applied)
    BY <1>5 DEF Commit, SchemaInv, JobInv
  <2>2. LedgerTellsSchema' /\ LedgerOK(applied')
    BY <1>5, <2>1 DEF Commit, LedgerTellsSchema
  <2>3. job.chained => job.kind = "run" /\ MigrationsOf[job.service] \subseteq ToSet(job.applied)
    BY <2>1 DEF JobInv, Pending
  <2>4. CASE job.chained /\ job.service = "messaging"
    <3>1. 1..8 \subseteq ToSet(job.applied)
      BY <2>3, <2>4 DEF MigrationsOf
    <3>2. JobInv'
      BY <1>5, <2>1, <2>4, <3>1, TransactionBegins DEF Commit
    <3>3. ~services'
      BY <1>5, <2>4 DEF Commit
    <3> QED
      BY <2>2, <3>2, <3>3 DEF SchemaInv
  <2>5. CASE ~(job.chained /\ job.service = "messaging")
    <3>1. job' = NoJob
      BY <1>5, <2>5 DEF Commit
    <3>2. ASSUME services' PROVE ToSet(applied') = 1..9
      <4>1. job.chained /\ job.service = "gateway" /\ applied' = job.applied
        BY <1>5, <3>2 DEF Commit
      <4>2. 1..8 \subseteq ToSet(job.applied) /\ 9 \in ToSet(job.applied)
        BY <2>1, <2>3, <4>1 DEF JobInv, MigrationsOf
      <4>3. ToSet(job.applied) \in SUBSET (1..9)
        BY <2>1, LedgerClosed
      <4> QED
        BY <4>1, <4>2, <4>3
    <3> QED
      BY <2>2, <3>1, <3>2 DEF SchemaInv
  <2> QED
    BY <2>4, <2>5
<1>6. CASE Rollback
  BY <1>6 DEF Rollback, SchemaInv, LedgerTellsSchema
<1>7. CASE StopServices
  BY <1>7 DEF StopServices, SchemaInv, LedgerTellsSchema
<1>8. CASE UNCHANGED schemaVars
  BY <1>8 DEF schemaVars, SchemaInv, LedgerTellsSchema, JobInv, JobFields, Script, Current
<1> QED
  BY <1>1, <1>2, <1>3, <1>4, <1>5, <1>6, <1>7, <1>8 DEF Migrate

\* An empty database meets the invariant.
LEMMA SchemaInitInv == SchemaInit => SchemaInv
<1> SUFFICES ASSUME SchemaInit PROVE SchemaInv
  OBVIOUS
<1>1. ToSet(<<>>) = {} /\ LedgerOK(<<>>)
  BY DEF ToSet, LedgerOK
<1>2. Built({}) = Empty
  BY DEF Built, Empty
<1> QED
  BY <1>1, <1>2 DEF SchemaInit, SchemaInv, LedgerTellsSchema

\* Every column of every entity and every unique key is the work of some up().
LEMMA AllBuilt ==
    /\ \A t \in DOMAIN Entities : HasColumns(Built(1..9), t, Entities[t])
    /\ \A t \in UniqueEventIds : <<t, {"event_id"}>> \in Built(1..9).indexes
<1> DEFINE b == Built(1..9)
<1>1. \A m \in 1..9 : \A i \in 1..Len(Up[m]) :
          NewColumns(Up[m][i]) \subseteq b.columns /\ NewIndexes(Up[m][i]) \subseteq b.indexes
  BY BuiltMembers
<1> HIDE DEF b
<1>2. /\ NewColumns(Up1[1]) \subseteq b.columns
      /\ NewColumns(Up2[1]) \subseteq b.columns
      /\ NewColumns(Up3[1]) \subseteq b.columns /\ NewIndexes(Up3[1]) \subseteq b.indexes
      /\ NewColumns(Up4[1]) \subseteq b.columns
  <2>1. /\ Up[1] = Up1 /\ Up[2] = Up2 /\ Up[3] = Up3 /\ Up[4] = Up4
    BY DEF Up
  <2>2. /\ 1 \in 1..Len(Up1) /\ 1 \in 1..Len(Up2) /\ 1 \in 1..Len(Up3) /\ 1 \in 1..Len(Up4)
    BY DEF Up1, Up2, Up3, Up4
  <2> QED
    BY <1>1, <2>1, <2>2
<1>3. /\ NewColumns(Up5[1]) \subseteq b.columns /\ NewColumns(Up5[2]) \subseteq b.columns
      /\ NewColumns(Up5[3]) \subseteq b.columns /\ NewColumns(Up5[4]) \subseteq b.columns
      /\ NewColumns(Up6[1]) \subseteq b.columns /\ NewIndexes(Up6[1]) \subseteq b.indexes
  <2>1. /\ Up[5] = Up5 /\ Up[6] = Up6
    BY DEF Up
  <2>2. 1 \in 1..Len(Up5) /\ 2 \in 1..Len(Up5) /\ 3 \in 1..Len(Up5) /\ 4 \in 1..Len(Up5) /\ 1 \in 1..Len(Up6)
    BY DEF Up5, Up6
  <2> QED
    BY <1>1, <2>1, <2>2
<1>4. /\ NewColumns(Up7[1]) \subseteq b.columns /\ NewColumns(Up7[2]) \subseteq b.columns
      /\ NewIndexes(Up7[3]) \subseteq b.indexes
      /\ NewColumns(Up8[2]) \subseteq b.columns
      /\ NewColumns(GatewayUp[1]) \subseteq b.columns /\ NewIndexes(GatewayUp[7]) \subseteq b.indexes
  <2>1. /\ Up[7] = Up7 /\ Up[8] = Up8 /\ Up[9] = GatewayUp
    BY DEF Up
  <2>2. /\ 1 \in 1..Len(Up7) /\ 2 \in 1..Len(Up7) /\ 3 \in 1..Len(Up7) /\ 2 \in 1..Len(Up8)
        /\ 1 \in 1..Len(GatewayUp) /\ 7 \in 1..Len(GatewayUp)
    BY DEF Up7, Up8, GatewayUp
  <2> QED
    BY <1>1, <2>1, <2>2
<1> USE DEF NewColumns, NewIndexes, CreateTable, AddColumn, CreateIndex
<1>5. {"messages"} \X Entities.messages \subseteq b.columns
  BY <1>2 DEF Entities, Up1, Up2
<1>6. {"processed_events"} \X Entities.processed_events \subseteq b.columns
  BY <1>2 DEF Entities, Up3
<1>7. {"event_attempts"} \X Entities.event_attempts \subseteq b.columns
  BY <1>3 DEF Entities, Up6
<1>8. {"outbox_events"} \X Entities.outbox_events \subseteq b.columns
  <2>1. {"outbox_events"} \X OutboxColumns \subseteq b.columns
    BY <1>2 DEF Up4
  <2>2. /\ <<"outbox_events", "locked_at">> \in b.columns
        /\ <<"outbox_events", "locked_by">> \in b.columns
        /\ <<"outbox_events", "next_retry_at">> \in b.columns
        /\ <<"outbox_events", "max_attempts">> \in b.columns
    BY <1>3 DEF Up5
  <2>3. /\ <<"outbox_events", "event_id">> \in b.columns
        /\ <<"outbox_events", "lock_version">> \in b.columns
        /\ <<"outbox_events", "trace_context">> \in b.columns
    BY <1>4 DEF Up7, Up8
  <2>4. {"outbox_events"} \X RelayColumns \subseteq b.columns
    BY <2>2, <2>3 DEF RelayColumns
  <2> QED
    BY <2>1, <2>4 DEF Entities
<1>9. {"gateway_outbox_events"} \X Entities.gateway_outbox_events \subseteq b.columns
  BY <1>4 DEF Entities, GatewayUp
<1>10. /\ <<"processed_events", {"event_id"}>> \in b.indexes
       /\ <<"event_attempts", {"event_id"}>> \in b.indexes
  BY <1>2, <1>3 DEF Up3, Up6
<1>11. /\ <<"outbox_events", {"event_id"}>> \in b.indexes
       /\ <<"gateway_outbox_events", {"event_id"}>> \in b.indexes
  BY <1>4 DEF Up7, GatewayUp
<1>12. DOMAIN Entities = {"messages", "processed_events", "event_attempts", "outbox_events", "gateway_outbox_events"}
  BY DEF Entities
<1>13. \A t \in DOMAIN Entities : {t} \X Entities[t] \subseteq b.columns
  BY <1>5, <1>6, <1>7, <1>8, <1>9, <1>12
<1> QED
  BY <1>10, <1>11, <1>13 DEF HasColumns, UniqueEventIds, b

\* What holds in every state between two steps of the commands.
THEOREM SchemaInvariant == SchemaSpec => []SchemaInv
BY SchemaInitInv, SchemaStep, PTL DEF SchemaSpec

\* An inductive state makes the three properties true.
LEMMA SchemaInvImplies == SchemaInv => StatementsAccepted /\ LedgerTellsSchema /\ ServicesFitSchema
<1> SUFFICES ASSUME SchemaInv PROVE StatementsAccepted /\ LedgerTellsSchema /\ ServicesFitSchema
  OBVIOUS
<1>1. StatementsAccepted
  BY StatementGoesOn DEF SchemaInv, StatementsAccepted, Busy
<1>2. ServicesFitSchema
  BY AllBuilt DEF SchemaInv, ServicesFitSchema, LedgerTellsSchema
<1> QED
  BY <1>1, <1>2 DEF SchemaInv

\* Whatever was run, reverted, rolled back and run again before, PostgreSQL
\* accepts the next statement of the script under way.
THEOREM ScriptsAreAccepted == SchemaSpec => []StatementsAccepted
BY SchemaInvariant, SchemaInvImplies, PTL

\* The committed schema is what the up() scripts of the ledger build.
THEOREM LedgerAlwaysTellsSchema == SchemaSpec => []LedgerTellsSchema
BY SchemaInvariant, SchemaInvImplies, PTL

\* Services run only on a schema with every column and key they use.
THEOREM ServicesAlwaysFitSchema == SchemaSpec => []ServicesFitSchema
BY SchemaInvariant, SchemaInvImplies, PTL

==============================================================================
