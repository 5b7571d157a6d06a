--------------------------------- MODULE Migrate ---------------------------------
(***************************************************************************)
(* scripts/migrate.ts: apply the migrations a database is missing, each in *)
(* a transaction of its own, with no ledger but the tables themselves.     *)
(*                                                                         *)
(* A file is its number in filename order; a table is known by the file    *)
(* that creates it.  A release and an operator may run migrators at once,  *)
(* and each may die at any step.  The files are not idempotent: creating a *)
(* table that is there fails, and creating one that another transaction is *)
(* creating waits for that transaction.                                    *)
(***************************************************************************)
EXTENDS Naturals, FiniteSets

CONSTANTS Migrators,    \* migrate commands that may run at once
          LastFile      \* how many migration files there are

ASSUME FilesAssumption == LastFile \in Nat \ {0}

Files == 1..LastFile

VARIABLES
    tables,     \* files whose table other connections see
    whole,      \* files every statement of which took effect
    migrator    \* migrator -> where it is

migrationVars == <<tables, whole, migrator>>

Resting == [at |-> "idle", file |-> 1, existing |-> {}, apply |-> {}]
Stopped(at) == [Resting EXCEPT !.at = at]
Applying(files) == [at |-> "applying", file |-> 1, existing |-> {}, apply |-> files]

Turn(m, r) == migrator' = [migrator EXCEPT ![m] = r]

InOrder(s) == \A f \in s : 1..f \subseteq s

\* A database of any age, one somebody built by hand included.
MigrateInit ==
    /\ tables \in SUBSET Files
    /\ whole = tables
    /\ migrator = [m \in Migrators |-> Resting]

-------------------------------------------------------------------------------
StartMigrator(m) ==
    /\ migrator[m].at \in {"idle", "done"}
    /\ Turn(m, Stopped("reading"))
    /\ UNCHANGED <<tables, whole>>

(* One query per sentinel: the tables may change between two of them. *)
ReadSentinel(m) ==
    LET r == migrator[m] IN
    /\ r.at = "reading"
    /\ Turn(m, [at |-> IF r.file = LastFile THEN "planning" ELSE "reading",
                file |-> r.file + 1,
                existing |-> r.existing \cup (tables \cap {r.file}),
                apply |-> {}])
    /\ UNCHANGED <<tables, whole>>

(* planMigrations refuses a table whose predecessor's table is missing. *)
PlanMigrations(m) ==
    LET r == migrator[m]  missing == Files \ r.existing IN
    /\ r.at = "planning"
    /\ Turn(m, IF ~InOrder(r.existing) THEN Stopped("idle")
               ELSE IF missing = {} THEN Stopped("done")
               ELSE Applying(missing))
    /\ UNCHANGED <<tables, whole>>

NextFile(r) == CHOOSE f \in r.apply : \A g \in r.apply : f <= g

\* What is seen of a file while its transaction is open; mutant: no `begin`,
\* so each statement commits as it runs.
Shown(f) == tables
ShownAtOnce(f) == tables \cup {f}
SeenBeforeCommit(f) == Shown(f)

(* begin, and the file's statements: they wait for whoever is creating the *)
(* same tables, and fail if the tables are there.                          *)
RunFile(m) ==
    LET r == migrator[m]  f == NextFile(r) IN
    /\ r.at = "applying"
    /\ \A o \in Migrators \ {m} : migrator[o].at = "created" => NextFile(migrator[o]) # f
    /\ IF f \in tables
       THEN Turn(m, Stopped("idle")) /\ UNCHANGED tables
       ELSE Turn(m, [r EXCEPT !.at = "created"]) /\ tables' = SeenBeforeCommit(f)
    /\ UNCHANGED whole

AfterFile(r) == r.apply \ {NextFile(r)}

CommitFile(m) ==
    LET r == migrator[m]  f == NextFile(r) IN
    /\ r.at = "created"
    /\ tables' = tables \cup {f} /\ whole' = whole \cup {f}
    /\ Turn(m, IF AfterFile(r) = {} THEN Stopped("done")
               ELSE Applying(AfterFile(r)))

\* The commit takes effect and its answer is lost: the rollback finds nothing.
CommitLost(m) ==
    LET f == NextFile(migrator[m]) IN
    /\ migrator[m].at = "created"
    /\ tables' = tables \cup {f} /\ whole' = whole \cup {f}
    /\ Turn(m, Stopped("idle"))

(* A query fails, the connection drops or the command is killed: whatever  *)
(* transaction is open rolls back.                                         *)
FailMigrator(m) ==
    /\ migrator[m].at \in {"reading", "planning", "applying", "created"}
    /\ Turn(m, Stopped("idle"))
    /\ UNCHANGED <<tables, whole>>

MigrateStep(m) ==
    \/ StartMigrator(m) \/ ReadSentinel(m) \/ PlanMigrations(m)
    \/ RunFile(m) \/ CommitFile(m) \/ CommitLost(m) \/ FailMigrator(m)

MigrateNext == \E m \in Migrators : MigrateStep(m)
MigrateSpec == MigrateInit /\ [][MigrateNext]_migrationVars

-------------------------------------------------------------------------------
(* The schema itself is the ledger, so it must never lie: no table without *)
(* the rest of its file, no file before its predecessor, nothing left to   *)
(* apply when a migrator says it is done, and a database these files did   *)
(* not build left as it was found - for any number of migrators at once,   *)
(* dying anywhere.                                                         *)
NoHalfFile == tables = whole
DoneMeansMigrated == \A m \in Migrators : migrator[m].at = "done" => tables = Files
Grows ==
    IF InOrder(tables) THEN InOrder(tables') /\ tables \subseteq tables' ELSE tables' = tables

SchemaIsTheLedger == [](NoHalfFile /\ DoneMeansMigrated) /\ [][Grows]_migrationVars
===============================================================================
