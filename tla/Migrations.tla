------------------------------ MODULE Migrations ------------------------------
(***************************************************************************)
(* The database schema and its migrations: the up() and down() scripts of  *)
(* both services, run and reverted by the TypeORM command line, which      *)
(* keeps one ledger of executed migrations for the shared database.        *)
(*                                                                         *)
(* A run executes all pending migrations of one service in a transaction,  *)
(* a revert the last migration of the ledger.  migration:run:all, which    *)
(* the services wait for, runs messaging's, then the gateway's.            *)
(***************************************************************************)
EXTENDS Integers, Sequences, SequencesExt

VARIABLES schema,    \* committed columns and indexes
          applied,   \* the ledger, in the order of execution
          job,       \* the command under way, with its uncommitted view
          services   \* the services are up

schemaVars == <<schema, applied, job, services>>

------------------------------------------------------------------------------
\* Statements of the query runner.
CreateTable(t, cols, unique) == [op |-> "createTable", table |-> t, cols |-> cols, unique |-> unique]
AddColumn(t, c) == [op |-> "addColumn", table |-> t, cols |-> {c}]
\* Whether it is UNIQUE is left out: the partial ones that are serve no ON CONFLICT
\* clause, and the keys that do come with their tables.
CreateIndex(t, cols) == [op |-> "createIndex", table |-> t, cols |-> cols]
DropIndex(t, cols) == [op |-> "dropIndex", table |-> t, cols |-> cols]
DropIndexIfExists(t, cols) == [op |-> "dropIndexIfExists", table |-> t, cols |-> cols]
DropColumn(t, c) == [op |-> "dropColumn", table |-> t, cols |-> {c}]
DropTable(t) == [op |-> "dropTable", table |-> t]

Empty == [columns |-> {}, indexes |-> {}]

HasTable(s, t) == \E col \in s.columns : col[1] = t

HasColumns(s, t, cols) == {t} \X cols \subseteq s.columns

\* PostgreSQL accepts the statement.  createTable() is called with ifNotExists.
Accepts(s, st) ==
    /\ st.op = "addColumn" => HasTable(s, st.table) /\ ~HasColumns(s, st.table, st.cols)
    /\ st.op = "createIndex" => HasColumns(s, st.table, st.cols) /\ <<st.table, st.cols>> \notin s.indexes
    /\ st.op = "dropIndex" => <<st.table, st.cols>> \in s.indexes
    /\ st.op = "dropColumn" => HasColumns(s, st.table, st.cols)
    /\ st.op = "dropTable" => HasTable(s, st.table)

\* The columns and indexes a statement creates.
NewColumns(st) == IF st.op \in {"createTable", "addColumn"} THEN {st.table} \X st.cols ELSE {}

NewIndexes(st) ==
    IF st.op = "createTable" THEN {<<st.table, {u}>> : u \in st.unique}
    ELSE IF st.op = "createIndex" THEN {<<st.table, st.cols>>} ELSE {}

\* The ones it drops.  An index goes with any of its columns.
DropsColumn(st, col) ==
    /\ col[1] = st.table
    /\ st.op = "dropTable" \/ (st.op = "dropColumn" /\ col[2] \in st.cols)

DropsIndex(st, index) ==
    /\ index[1] = st.table
    /\ \/ st.op = "dropTable"
       \/ st.op = "dropColumn" /\ index[2] \cap st.cols # {}
       \/ st.op \in {"dropIndex", "dropIndexIfExists"} /\ index[2] = st.cols

Apply(s, st) ==
    IF st.op = "createTable" /\ HasTable(s, st.table) THEN s
    ELSE [columns |-> {col \in s.columns : ~DropsColumn(st, col)} \cup NewColumns(st),
          indexes |-> {index \in s.indexes : ~DropsIndex(st, index)} \cup NewIndexes(st)]

------------------------------------------------------------------------------
\* The scripts.
Up1 == <<CreateTable("messages", {"id", "title", "content", "sender", "createdAt"}, {})>>
Down1 == <<DropTable("messages")>>

Up2 == <<AddColumn("messages", "recipient")>>
Down2 == <<DropColumn("messages", "recipient")>>

Up3 ==
    <<CreateTable("processed_events",
                  {"id", "event_id", "event_type", "correlation_id", "result", "processed_at"}, {"event_id"}),
      CreateIndex("processed_events", {"correlation_id"}),
      CreateIndex("processed_events", {"processed_at"})>>
Down3 ==
    <<DropIndex("processed_events", {"processed_at"}),
      DropIndex("processed_events", {"correlation_id"}),
      DropTable("processed_events")>>

OutboxColumns ==
    {"id", "event_type", "payload", "correlation_id", "status", "attempts", "last_error", "created_at", "sent_at"}

Up4 ==
    <<CreateTable("outbox_events", OutboxColumns, {}),
      CreateIndex("outbox_events", {"status"}),
      CreateIndex("outbox_events", {"event_type"}),
      CreateIndex("outbox_events", {"correlation_id"})>>
Down4 ==
    <<DropIndex("outbox_events", {"correlation_id"}),
      DropIndex("outbox_events", {"event_type"}),
      DropIndex("outbox_events", {"status"}),
      DropTable("outbox_events")>>

Up5 ==
    <<AddColumn("outbox_events", "locked_at"),
      AddColumn("outbox_events", "locked_by"),
      AddColumn("outbox_events", "next_retry_at"),
      AddColumn("outbox_events", "max_attempts"),
      CreateIndex("outbox_events", {"status", "next_retry_at"}),
      CreateIndex("outbox_events", {"status", "locked_at"})>>

\* Mutant: a column goes before the index on it.
Down5OutOfOrder ==
    <<DropIndex("outbox_events", {"status", "locked_at"}),
      DropColumn("outbox_events", "max_attempts"),
      DropColumn("outbox_events", "next_retry_at"),
      DropIndex("outbox_events", {"status", "next_retry_at"}),
      DropColumn("outbox_events", "locked_by"),
      DropColumn("outbox_events", "locked_at")>>

Down5 ==
    <<DropIndex("outbox_events", {"status", "locked_at"}),
      DropIndex("outbox_events", {"status", "next_retry_at"}),
      DropColumn("outbox_events", "max_attempts"),
      DropColumn("outbox_events", "next_retry_at"),
      DropColumn("outbox_events", "locked_by"),
      DropColumn("outbox_events", "locked_at")>>

Up6 ==
    <<CreateTable("event_attempts", {"event_id", "attempts", "updated_at"}, {"event_id"}),
      CreateIndex("event_attempts", {"updated_at"})>>
Down6 ==
    <<DropIndex("event_attempts", {"updated_at"}),
      DropTable("event_attempts")>>

Up7 ==
    <<AddColumn("outbox_events", "event_id"),
      AddColumn("outbox_events", "lock_version"),
      CreateIndex("outbox_events", {"event_id"})>>

\* Mutant: the fencing token's column is left behind.
Down7Incomplete ==
    <<DropIndex("outbox_events", {"event_id"}),
      DropColumn("outbox_events", "event_id")>>

Down7 ==
    <<DropIndex("outbox_events", {"event_id"}),
      DropColumn("outbox_events", "lock_version"),
      DropColumn("outbox_events", "event_id")>>

Up8 ==
    <<CreateIndex("messages", {"createdAt"}),
      AddColumn("outbox_events", "trace_context")>>
Down8 ==
    <<DropColumn("outbox_events", "trace_context"),
      DropIndex("messages", {"createdAt"})>>

RelayColumns ==
    {"locked_at", "locked_by", "next_retry_at", "max_attempts", "event_id", "lock_version", "trace_context"}

GatewayUp ==
    <<CreateTable("gateway_outbox_events", OutboxColumns \cup RelayColumns, {}),
      CreateIndex("gateway_outbox_events", {"status"}),
      CreateIndex("gateway_outbox_events", {"event_type"}),
      CreateIndex("gateway_outbox_events", {"correlation_id"}),
      CreateIndex("gateway_outbox_events", {"status", "next_retry_at"}),
      CreateIndex("gateway_outbox_events", {"status", "locked_at"}),
      CreateIndex("gateway_outbox_events", {"event_id"})>>
GatewayDown ==
    <<DropIndexIfExists("gateway_outbox_events", {"event_id"}),
      DropIndex("gateway_outbox_events", {"status", "locked_at"}),
      DropIndex("gateway_outbox_events", {"status", "next_retry_at"}),
      DropIndex("gateway_outbox_events", {"correlation_id"}),
      DropIndex("gateway_outbox_events", {"event_type"}),
      DropIndex("gateway_outbox_events", {"status"}),
      DropTable("gateway_outbox_events")>>

\* Migrations by number; 9 is the gateway's.
Up == <<Up1, Up2, Up3, Up4, Up5, Up6, Up7, Up8, GatewayUp>>
Down == <<Down1, Down2, Down3, Down4, Down5, Down6, Down7, Down8, GatewayDown>>

MigrationsOf == [messaging |-> 1..8, gateway |-> {9}]

\* What the code reads and writes: the columns of the entities, and the unique
\* keys its ON CONFLICT clauses and duplicate checks name.
Entities ==
    [messages |-> {"id", "title", "content", "sender", "recipient", "createdAt"},
     processed_events |-> {"id", "event_id", "event_type", "correlation_id", "result", "processed_at"},
     event_attempts |-> {"event_id", "attempts", "updated_at"},
     outbox_events |-> OutboxColumns \cup RelayColumns,
     gateway_outbox_events |-> OutboxColumns \cup RelayColumns]
UniqueEventIds == {"processed_events", "event_attempts", "outbox_events", "gateway_outbox_events"}

------------------------------------------------------------------------------
NoJob == [kind |-> "none"]

Pending(service, ledger) == MigrationsOf[service] \ ToSet(ledger)

\* A transaction: the migrations to execute, the next statement, the uncommitted
\* schema and ledger.  "chained" is the first half of migration:run:all.
Transaction(kind, service, todo, sch, ledger, chained) ==
    [kind |-> kind, service |-> service, todo |-> todo, at |-> 1,
     schema |-> sch, applied |-> ledger, chained |-> chained]

SchemaInit ==
    /\ schema = Empty
    /\ applied = <<>>
    /\ job = NoJob
    /\ services = FALSE

\* migration:run and migration:run:gateway, or migration:run:all.
RunMigrations(service, chained) ==
    /\ job = NoJob
    /\ ~services
    /\ chained => service = "messaging"
    /\ job' = Transaction("run", service, Pending(service, applied), schema, applied, chained)
    /\ UNCHANGED <<schema, applied, services>>

\* migration:revert and migration:revert:gateway: undo the last migration of the
\* ledger, or fail if it is not one of this service's.
RevertMigration(service) ==
    /\ job = NoJob
    /\ ~services
    /\ applied # <<>>
    /\ Last(applied) \in MigrationsOf[service]
    /\ job' = Transaction("revert", service, {Last(applied)}, schema, applied, FALSE)
    /\ UNCHANGED <<schema, applied, services>>

\* Migrations are executed in the order of their timestamps.
Current == Min(job.todo)

Script == IF job.kind = "run" THEN Up[Current] ELSE Down[Current]

Busy == job # NoJob /\ job.todo # {}

Execute ==
    /\ Busy
    /\ job.at <= Len(Script)
    /\ Accepts(job.schema, Script[job.at])
    /\ job' = [job EXCEPT !.schema = Apply(@, Script[job.at]), !.at = @ + 1]
    /\ UNCHANGED <<schema, applied, services>>

\* The ledger is written in the same transaction.
Record ==
    /\ Busy
    /\ job.at > Len(Script)
    /\ job' = [job EXCEPT !.todo = @ \ {Current}, !.at = 1,
                          !.applied = IF job.kind = "run" THEN Append(@, Current) ELSE Front(@)]
    /\ UNCHANGED <<schema, applied, services>>

\* Mutant: the gateway's migrations are not part of migration:run:all.
CommitWithoutGateway ==
    /\ job # NoJob
    /\ job.todo = {}
    /\ schema' = job.schema
    /\ applied' = job.applied
    /\ job' = NoJob
    /\ services' = job.chained

\* COMMIT.  A chained run goes on with the gateway's, and the services, which
\* wait for it, start.
Commit ==
    /\ job # NoJob
    /\ job.todo = {}
    /\ schema' = job.schema
    /\ applied' = job.applied
    /\ job' = IF job.chained /\ job.service = "messaging"
              THEN Transaction("run", "gateway", Pending("gateway", job.applied), job.schema, job.applied, TRUE)
              ELSE NoJob
    /\ services' = (job.chained /\ job.service = "gateway")

\* A refused statement, a lost connection or a crash: PostgreSQL forgets the
\* transaction.
Rollback ==
    /\ job # NoJob
    /\ job' = NoJob
    /\ UNCHANGED <<schema, applied, services>>

\* The operator stops the services, as every change of the schema requires.
StopServices ==
    /\ services
    /\ services' = FALSE
    /\ UNCHANGED <<schema, applied, job>>

Migrate ==
    \/ \E s \in {"messaging", "gateway"} : (\E b \in BOOLEAN : RunMigrations(s, b)) \/ RevertMigration(s)
    \/ Execute
    \/ Record
    \/ Commit
    \/ Rollback

SchemaSpec == SchemaInit /\ [][Migrate \/ StopServices]_schemaVars

------------------------------------------------------------------------------
\* No script ever meets a schema it cannot run on, whatever was run, reverted,
\* rolled back and run again before, and in whatever order the two services'
\* migrations came.
StatementsAccepted == Busy /\ job.at <= Len(Script) => Accepts(job.schema, Script[job.at])

\* What the up() scripts of some migrations create.
Built(ms) ==
    [columns |-> UNION {NewColumns(st) : st \in UNION {ToSet(Up[m]) : m \in ms}},
     indexes |-> UNION {NewIndexes(st) : st \in UNION {ToSet(Up[m]) : m \in ms}}]

\* The ledger tells the schema: outside a transaction the database has what the
\* executed migrations create, no less and no more, so every down() undoes its
\* up() exactly, in whatever order the services' migrations came.
LedgerTellsSchema == schema = Built(ToSet(applied))

\* When services run, every column of their entities and every unique key their
\* SQL relies on is there.
ServicesFitSchema ==
    services =>
        /\ \A t \in DOMAIN Entities : HasColumns(schema, t, Entities[t])
        /\ \A t \in UniqueEventIds : <<t, {"event_id"}>> \in schema.indexes

==============================================================================
