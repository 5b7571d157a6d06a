----------------------------- MODULE PostgresStore -----------------------------
(***************************************************************************)
(* The durable store, src/persistence/postgres-store.ts, at the grain of   *)
(* SQL statements.  A call takes a connection from the pool, runs its      *)
(* statement or its transaction on it, and gives it back as it returns.    *)
(* Transactions run at READ COMMITTED, PostgreSQL's default: a statement   *)
(* sees what was committed when it started, a row inserted but not         *)
(* committed keeps its key from everyone else, and a deleted one stays     *)
(* locked, until the transaction ends.                                     *)
(*                                                                         *)
(* The tables hold committed rows only; what a transaction wrote and has   *)
(* not committed yet is in its own record.  A connection may break, and a  *)
(* statement be refused, at any statement (Fault); a reply may be lost     *)
(* after its statement took effect (LoseReply); the process may stop       *)
(* between any two statements (Crash).                                     *)
(***************************************************************************)
EXTENDS RepositoryCalls

CONSTANTS
    Rebuilders,     \* concurrent calls of rebuildProjection
    PoolSize,       \* connections the pool hands out (pg's default is 10)
    LinesOf         \* body -> the sequence of its ingredient lines

ASSUME PoolAssumption == PoolSize \in Nat \ {0}
ASSUME LinesAssumption == DOMAIN LinesOf = Bodies

VARIABLES
    snapshot,           \* table: id -> document, Nil when there is no row
    recipe_version,     \* table: set of [recipe, version, body]
    ingredient,         \* table: the extracted projection, one row per line
    cooking_plan,       \* table: set of [recipe, version, plan]
    capability_grant,   \* table: digest -> grant, NoGrant when there is no row
    call,               \* client -> its call (RepositoryCalls)
    txn,                \* client -> what its connection is doing
    job                 \* rebuilder -> its rebuild

tables == <<snapshot, recipe_version, ingredient, cooking_plan, capability_grant>>
vars == <<snapshot, recipe_version, ingredient, cooking_plan, capability_grant, call, txn, job>>

-------------------------------------------------------------------------------
(* EXTRACT_SQL: the rows one version's document yields, one per line.      *)
RowsOf(x) ==
    {[recipe |-> x.recipe, version |-> x.version, at |-> i, line |-> LinesOf[x.body][i]]
        : i \in DOMAIN LinesOf[x.body]}
Extraction(rows) == UNION {RowsOf(x) : x \in rows}

(* Primary keys. *)
OrdinalsOf(r) == {x.version : x \in {y \in recipe_version : y.recipe = r}}
KeyTaken(r, v) == v \in OrdinalsOf(r)
RowsClash(rows, table) ==
    \E x \in rows : \E y \in table :
        x.recipe = y.recipe /\ x.version = y.version /\ x.at = y.at

(* max(version), 0 for a recipe without versions *)
Greatest(S) == CHOOSE n \in S \cup {0} : \A m \in S : m <= n
Last(r) == Greatest(OrdinalsOf(r))

(* What a client's connection is doing.  Outside a transaction only the    *)
(* stages "none" (no connection), "open" and "over" occur.                 *)
Stages == {"none", "open", "chosen", "inserted", "extracted", "over"}
Txn(stage, version, rows) == [stage |-> stage, version |-> version, rows |-> rows]
NoTxn == Txn("none", 0, {})
At(c, stage) == txn[c].stage = stage
Uncommitted(c) == txn[c].stage \in {"inserted", "extracted"}
WrittenBy(c) == [recipe |-> call[c].request.recipe, version |-> txn[c].version,
                 body |-> call[c].request.body]

(* A rebuild: the rows its delete saw and has not come to, those it has    *)
(* deleted and holds, those it wrote.                                      *)
JobStages == {"idle", "open", "deleting", "deleted", "extracted", "over"}
Job(stage, seen, deleted, rows) ==
    [stage |-> stage, seen |-> seen, deleted |-> deleted, rows |-> rows]
NoJob == Job("idle", {}, {}, {})

ConnectionsInUse ==
    Cardinality({c \in Clients : ~At(c, "none")})
      + Cardinality({w \in Rebuilders : job[w].stage # "idle"})

-------------------------------------------------------------------------------
Init ==
    /\ snapshot = [i \in SnapshotIds |-> Nil]
    /\ recipe_version = {}
    /\ ingredient = {}
    /\ cooking_plan = {}
    /\ capability_grant = [d \in Digests |-> NoGrant]
    /\ call = [c \in Clients |-> NoCall]
    /\ txn = [c \in Clients |-> NoTxn]
    /\ job = [w \in Rebuilders |-> NoJob]

(* The bound on versions: a new append is not offered past MaxVersion. *)
Room(q) == q.op = "append" => Last(q.recipe) < MaxVersion

Invoke(c, q) ==
    /\ call[c].phase \in {"idle", "returned"}
    /\ Room(q)
    /\ call' = [call EXCEPT ![c] = Asking(q)]
    /\ UNCHANGED <<tables, txn, job>>

Pending(c, op) == call[c].phase = "pending" /\ call[c].request.op = op
Settle(c, a) == call' = [call EXCEPT ![c] = Settled(call[c].request, a)]
Move(c, t) == txn' = [txn EXCEPT ![c] = t]
Close(c) == Move(c, Txn("over", 0, {}))

(* Every write is parsed, and a plan asked for its version, before the     *)
(* pool is touched.                                                        *)
Unparsed(q) ==
    \/ q.op = "storeSnapshot" /\ q.doc = Malformed
    \/ q.op = "append" /\ q.body = Malformed
    \/ q.op = "storePlan" /\ q.plan = Malformed
NamesNoVersion(q) == q.op = "storePlan" /\ q.plan # Malformed /\ q.version = Nil
Accepted(q) == ~Unparsed(q) /\ ~NamesNoVersion(q)

Refuse(c) ==
    /\ call[c].phase = "pending" /\ At(c, "none")
    /\ \/ Unparsed(call[c].request) /\ Settle(c, Invalid)
       \/ NamesNoVersion(call[c].request) /\ Settle(c, Unversioned)
    /\ UNCHANGED <<tables, txn, job>>

Connect(c) ==
    /\ call[c].phase = "pending" /\ At(c, "none")
    /\ Accepted(call[c].request)
    /\ ConnectionsInUse < PoolSize
    /\ Move(c, Txn("open", 0, {}))
    /\ UNCHANGED <<tables, call, job>>

-------------------------------------------------------------------------------
(* appendCanonicalVersion: begin; insert ... max(version) + 1; extract;    *)
(* commit.  The ordinal is computed on what the statement's snapshot       *)
(* shows; the primary key is checked when the row is written.              *)
ChooseOrdinal(c) ==
    /\ Pending(c, "append") /\ At(c, "open")
    /\ Move(c, Txn("chosen", Last(call[c].request.recipe) + 1, {}))
    /\ UNCHANGED <<tables, call, job>>

(* Another transaction has written that key and has not ended: the insert waits. *)
KeyHeldByOther(c) ==
    \E d \in Clients \ {c} : /\ Uncommitted(d)
                             /\ WrittenBy(d).recipe = WrittenBy(c).recipe
                             /\ WrittenBy(d).version = WrittenBy(c).version

\* The primary key of recipe_version; mutant: a table without one.
NoPrimaryKey(c) == FALSE
KeyConflict(c) == KeyTaken(WrittenBy(c).recipe, WrittenBy(c).version)

InsertVersion(c) ==
    /\ Pending(c, "append") /\ At(c, "chosen")
    /\ ~KeyHeldByOther(c)
    /\ IF KeyConflict(c)
       THEN Settle(c, Failed) /\ Close(c)
       ELSE Move(c, Txn("inserted", txn[c].version, {})) /\ UNCHANGED call
    /\ UNCHANGED <<tables, job>>

\* Mutant: the append forgets its extraction.
ExtractVersionForgotten(c) ==
    /\ Pending(c, "append") /\ At(c, "inserted")
    /\ Move(c, Txn("extracted", txn[c].version, {})) /\ UNCHANGED call
    /\ UNCHANGED <<tables, job>>

ExtractVersion(c) ==
    LET rows == RowsOf(WrittenBy(c)) IN
    /\ Pending(c, "append") /\ At(c, "inserted")
    /\ IF RowsClash(rows, ingredient)
       THEN Settle(c, Failed) /\ Close(c)
       ELSE Move(c, Txn("extracted", txn[c].version, rows)) /\ UNCHANGED call
    /\ UNCHANGED <<tables, job>>

\* Mutants: the commit is never sent; the recipe's row is replaced.
CommitAppendForgotten(c) ==
    LET x == WrittenBy(c) IN
    /\ Pending(c, "append") /\ At(c, "extracted")
    /\ Settle(c, Version(x.recipe, x.version, x.body))
    /\ Close(c)
    /\ UNCHANGED <<tables, job>>

CommitAppendReplacing(c) ==
    LET x == WrittenBy(c) IN
    /\ Pending(c, "append") /\ At(c, "extracted")
    /\ recipe_version' = {y \in recipe_version : y.recipe # x.recipe} \cup {x}
    /\ ingredient' = ingredient \cup txn[c].rows
    /\ Settle(c, Version(x.recipe, x.version, x.body))
    /\ Close(c)
    /\ UNCHANGED <<snapshot, cooking_plan, capability_grant, job>>

CommitAppend(c) ==
    LET x == WrittenBy(c) IN
    /\ Pending(c, "append") /\ At(c, "extracted")
    /\ recipe_version' = recipe_version \cup {x}
    /\ ingredient' = ingredient \cup txn[c].rows
    /\ Settle(c, Version(x.recipe, x.version, x.body))
    /\ Close(c)
    /\ UNCHANGED <<snapshot, cooking_plan, capability_grant, job>>

-------------------------------------------------------------------------------
(* The single-statement operations: atomic at the server. *)
Statement(c, op) == Pending(c, op) /\ At(c, "open") /\ Close(c) /\ UNCHANGED job

StoreSnapshot(c) ==
    LET q == call[c].request IN
    /\ Statement(c, "storeSnapshot")
    /\ snapshot' = [snapshot EXCEPT ![q.snapshot] = q.doc]
    /\ Settle(c, Done)
    /\ UNCHANGED <<recipe_version, ingredient, cooking_plan, capability_grant>>

LoadSnapshot(c) ==
    LET stored == snapshot[call[c].request.snapshot] IN
    /\ Statement(c, "loadSnapshot")
    /\ Settle(c, IF stored = Nil THEN Absent ELSE Document(stored))
    /\ UNCHANGED tables

(* order by version desc limit 1; mutant: without desc *)
OldestOf(rows) == {x \in rows : \A y \in rows : x.version <= y.version}
NewestOf(rows) == {x \in rows : \A y \in rows : y.version <= x.version}

LoadLatestCanonical(c) ==
    LET rows == {x \in recipe_version : x.recipe = call[c].request.recipe} IN
    /\ Statement(c, "loadLatest")
    /\ \/ rows = {} /\ Settle(c, Absent)
       \/ \E x \in NewestOf(rows) : Settle(c, Version(x.recipe, x.version, x.body))
    /\ UNCHANGED tables

(* The join against each recipe's greatest version. *)
ListLibrary(c) ==
    /\ Statement(c, "listLibrary")
    /\ Settle(c, Library(
          {[recipe |-> x.recipe, latest |-> x.version, title |-> TitleOf[x.body]]
              : x \in {y \in recipe_version : y.version = Last(y.recipe)}}))
    /\ UNCHANGED tables

(* The second query tells two error messages apart and nothing else. *)
ReadTwoRuns(c) ==
    LET q == call[c].request
        Runs(v) == {x \in recipe_version : x.recipe = q.recipe /\ x.version = v}
    IN
    /\ Statement(c, "readTwoRuns")
    /\ \/ (Runs(q.a) = {} \/ Runs(q.b) = {}) /\ Settle(c, VersionNotFound)
       \/ \E x \in Runs(q.a) : \E y \in Runs(q.b) :
             Settle(c, TwoRuns(Version(x.recipe, x.version, x.body),
                               Version(y.recipe, y.version, y.body)))
    /\ UNCHANGED tables

(* insert ... on conflict do update; the foreign key refuses the row of a  *)
(* version that is not committed.                                          *)
\* The foreign key of cooking_plan; mutant: a table without one.
NoForeignKey(q) == TRUE
ForeignKeyHolds(q) == KeyTaken(q.recipe, q.version)

StoreCookingPlan(c) ==
    LET q == call[c].request
        row == [recipe |-> q.recipe, version |-> q.version, plan |-> q.plan]
    IN
    /\ Statement(c, "storePlan")
    /\ IF ForeignKeyHolds(q)
       THEN /\ cooking_plan' =
                  {s \in cooking_plan : s.recipe # q.recipe \/ s.version # q.version} \cup {row}
            /\ Settle(c, Done)
       ELSE Settle(c, VersionNotFound) /\ UNCHANGED cooking_plan
    /\ UNCHANGED <<snapshot, recipe_version, ingredient, capability_grant>>

LoadCookingPlan(c) ==
    LET q == call[c].request
        found == {s \in cooking_plan : s.recipe = q.recipe /\ s.version = q.version}
    IN
    /\ Statement(c, "loadPlan")
    /\ \/ found = {} /\ Settle(c, Absent)
       \/ \E s \in found : Settle(c, PlanAnswer(s.plan))
    /\ UNCHANGED tables

NotRevoked(d) == capability_grant[d] # NoGrant /\ ~capability_grant[d].revoked

(* on conflict do nothing, answered by the row count *)
Free(d) == capability_grant[d] = NoGrant

StoreCapabilityGrant(c) ==
    LET q == call[c].request
        free == Free(q.digest)
    IN
    /\ Statement(c, "storeGrant")
    /\ capability_grant' =
          IF free
          THEN [capability_grant EXCEPT ![q.digest] = [recipe |-> q.recipe, revoked |-> FALSE]]
          ELSE capability_grant
    /\ Settle(c, Verdict(free))
    /\ UNCHANGED <<snapshot, recipe_version, ingredient, cooking_plan>>

ResolveCapabilityGrant(c) ==
    LET d == call[c].request.digest IN
    /\ Statement(c, "resolveGrant")
    /\ Settle(c, IF NotRevoked(d) THEN Reaches(capability_grant[d].recipe) ELSE Absent)
    /\ UNCHANGED tables

RevokeCapabilityGrant(c) ==
    LET d == call[c].request.digest IN
    /\ Statement(c, "revokeGrant")
    /\ capability_grant' = IF NotRevoked(d)
                           THEN [capability_grant EXCEPT ![d].revoked = TRUE]
                           ELSE capability_grant
    /\ Settle(c, Verdict(NotRevoked(d)))
    /\ UNCHANGED <<snapshot, recipe_version, ingredient, cooking_plan>>

-------------------------------------------------------------------------------
(* What goes wrong, and how a call ends. *)

(* Connecting fails, the connection breaks or the server refuses: nothing  *)
(* of an open transaction is kept (catch: rollback).                       *)
Fault(c) ==
    /\ call[c].phase = "pending"
    /\ Settle(c, Failed)
    /\ IF At(c, "none") THEN UNCHANGED txn ELSE Close(c)
    /\ UNCHANGED <<tables, job>>

LoseReply(c) ==
    /\ call[c].phase = "settled" /\ At(c, "over")
    /\ Settle(c, Failed)
    /\ UNCHANGED <<tables, txn, job>>

(* finally: release; then the promise resolves or rejects.  Mutant: the    *)
(* connection is released on success only.                                 *)
ReturnReleasingOnSuccess(c) ==
    /\ call[c].phase = "settled"
    /\ call' = [call EXCEPT ![c] = Answered(call[c].request, call[c].answer)]
    /\ txn' = IF call[c].answer = Failed THEN txn ELSE [txn EXCEPT ![c] = NoTxn]
    /\ UNCHANGED <<tables, job>>

Return(c) ==
    /\ call[c].phase = "settled"
    /\ call' = [call EXCEPT ![c] = Answered(call[c].request, call[c].answer)]
    /\ txn' = [txn EXCEPT ![c] = NoTxn]
    /\ UNCHANGED <<tables, job>>

Crash ==
    /\ call' = [c \in Clients |-> NoCall]
    /\ txn' = [c \in Clients |-> NoTxn]
    /\ job' = [w \in Rebuilders |-> NoJob]
    /\ UNCHANGED tables

-------------------------------------------------------------------------------
(* rebuildProjection: begin; delete from ingredient; extract everything;   *)
(* commit.  The delete sees the rows committed when it starts and locks    *)
(* one after the other, in no order it promises; it waits for a row that   *)
(* another rebuild holds.  Rows another rebuild deleted meanwhile are gone *)
(* for it, and rows written meanwhile were never seen.                     *)
Advance(w, j) == job' = [job EXCEPT ![w] = j]
\* Over, committed or given up: no locks are left.
JobOver == Job("over", {}, {}, {})

RebuildConnect(w) ==
    /\ job[w].stage = "idle"
    /\ ConnectionsInUse < PoolSize
    /\ Advance(w, Job("open", {}, {}, {}))
    /\ UNCHANGED <<tables, call, txn>>

StartDelete(w) ==
    /\ job[w].stage = "open"
    /\ Advance(w, Job("deleting", ingredient, {}, {}))
    /\ UNCHANGED <<tables, call, txn>>

HeldByOthers(w) == UNION {job[u].deleted : u \in Rebuilders \ {w}}

LockRow(w) ==
    /\ job[w].stage = "deleting"
    /\ \E x \in job[w].seen \ HeldByOthers(w) :
          Advance(w, Job("deleting", job[w].seen \ {x}, job[w].deleted \cup {x}, {}))
    /\ UNCHANGED <<tables, call, txn>>

FinishDelete(w) ==
    /\ job[w].stage = "deleting" /\ job[w].seen = {}
    /\ Advance(w, Job("deleted", {}, job[w].deleted, {}))
    /\ UNCHANGED <<tables, call, txn>>

(* A row whose key is there already refuses the insert; one that another   *)
(* rebuild is deleting makes it wait for how that rebuild ends.            *)
Kept(w) == ingredient \ job[w].deleted

ExtractAll(w) ==
    LET rows == Extraction(recipe_version) IN
    /\ job[w].stage = "deleted"
    /\ \/ RowsClash(rows, Kept(w) \ HeldByOthers(w)) /\ Advance(w, JobOver)
       \/ ~RowsClash(rows, Kept(w)) /\ Advance(w, Job("extracted", {}, job[w].deleted, rows))
    /\ UNCHANGED <<tables, call, txn>>

(* Two rebuilds may wait for each other.  PostgreSQL finds the circle and  *)
(* fails one of them.                                                      *)
WaitsFor(w, u) ==
    /\ u # w
    /\ \/ /\ job[w].stage = "deleting"
          /\ job[w].seen \subseteq HeldByOthers(w)
          /\ job[w].seen \cap job[u].deleted # {}
       \/ /\ job[w].stage = "deleted"
          /\ ~RowsClash(Extraction(recipe_version), Kept(w) \ HeldByOthers(w))
          /\ RowsClash(Extraction(recipe_version), job[u].deleted)

InACircle(w) ==
    \E S \in SUBSET Rebuilders : w \in S /\ \A u \in S :
        (\E t \in S : WaitsFor(u, t)) /\ (\E t \in S : WaitsFor(t, u))

DeadlockAbort(w) ==
    /\ InACircle(w)
    /\ Advance(w, JobOver)
    /\ UNCHANGED <<tables, call, txn>>

\* Mutant: the extraction replaces the whole table instead of the rows deleted.
CommitRebuildReplacing(w) ==
    /\ job[w].stage = "extracted"
    /\ ingredient' = job[w].rows
    /\ Advance(w, JobOver)
    /\ UNCHANGED <<snapshot, recipe_version, cooking_plan, capability_grant, call, txn>>

(* A rebuild still waiting to delete does not find the rows deleted here.  *)
CommitRebuild(w) ==
    /\ job[w].stage = "extracted"
    /\ ingredient' = (ingredient \ job[w].deleted) \cup job[w].rows
    /\ job' = [u \in Rebuilders |->
                 IF u = w THEN JobOver
                 ELSE Job(job[u].stage, job[u].seen \ job[w].deleted,
                          job[u].deleted, job[u].rows)]
    /\ UNCHANGED <<snapshot, recipe_version, cooking_plan, capability_grant, call, txn>>

RebuildFault(w) ==
    /\ job[w].stage \in {"open", "deleting", "deleted", "extracted"}
    /\ Advance(w, JobOver)
    /\ UNCHANGED <<tables, call, txn>>

RebuildReturn(w) ==
    /\ job[w].stage = "over"
    /\ Advance(w, NoJob)
    /\ UNCHANGED <<tables, call, txn>>

-------------------------------------------------------------------------------
AppendStep(c) == ChooseOrdinal(c) \/ InsertVersion(c) \/ ExtractVersion(c) \/ CommitAppend(c)

StatementStep(c) ==
    \/ StoreSnapshot(c)          \/ LoadSnapshot(c)
    \/ LoadLatestCanonical(c)    \/ ListLibrary(c)
    \/ ReadTwoRuns(c)
    \/ StoreCookingPlan(c)       \/ LoadCookingPlan(c)
    \/ StoreCapabilityGrant(c)   \/ ResolveCapabilityGrant(c)
    \/ RevokeCapabilityGrant(c)

RebuildStep(w) ==
    \/ StartDelete(w) \/ LockRow(w) \/ FinishDelete(w) \/ ExtractAll(w)
    \/ CommitRebuild(w) \/ RebuildReturn(w) \/ DeadlockAbort(w)

Next ==
    \/ \E c \in Clients :
          \/ \E q \in Requests : Invoke(c, q)
          \/ Refuse(c) \/ Connect(c)
          \/ AppendStep(c) \/ StatementStep(c)
          \/ Fault(c) \/ LoseReply(c) \/ Return(c)
    \/ \E w \in Rebuilders : RebuildConnect(w) \/ RebuildStep(w) \/ RebuildFault(w)
    \/ Crash

Spec == Init /\ [][Next]_vars

(***************************************************************************)
(* Fairness.  A statement that can run runs, and a settled call returns    *)
(* (weak).  The pool serves its waiters first come first served, and so do *)
(* PostgreSQL's lock queues: whoever waits for a connection or a lock that *)
(* keeps being given back gets it (strong).  Nobody must invoke anything.  *)
(***************************************************************************)
Fairness ==
    /\ \A c \in Clients :
          /\ WF_vars(Refuse(c) \/ AppendStep(c) \/ StatementStep(c) \/ Return(c))
          /\ SF_vars(Connect(c))
          /\ SF_vars(InsertVersion(c))
    /\ \A w \in Rebuilders : WF_vars(RebuildStep(w)) /\ SF_vars(LockRow(w) \/ ExtractAll(w))

FairSpec == Spec /\ Fairness

-------------------------------------------------------------------------------
(* Types.  A transaction's record means something only while its call is   *)
(* pending, and holds nothing once it is over.                             *)
VersionRows == [recipe : Recipes, version : Ordinals, body : Bodies]
PlanRows == [recipe : Recipes, version : Ordinals, plan : Plans]

TablesTyped ==
    /\ snapshot \in [SnapshotIds -> Docs \cup {Nil}]
    /\ recipe_version \subseteq VersionRows
    /\ cooking_plan \subseteq PlanRows
    /\ capability_grant \in [Digests -> Grants]
CallsTyped ==
    /\ call = [c \in Clients |-> call[c]]
    /\ \A c \in Clients :
          /\ call[c].phase \in {"idle", "pending", "settled", "returned"}
          /\ call[c].phase # "idle" => call[c].request \in Requests
TxnsTyped ==
    /\ txn = [c \in Clients |-> txn[c]]
    /\ \A c \in Clients :
          /\ txn[c] = Txn(txn[c].stage, txn[c].version, txn[c].rows)
          /\ txn[c].stage \in Stages /\ txn[c].version \in Nat
          /\ txn[c].stage \in {"open", "chosen", "inserted", "extracted"} =>
                call[c].phase = "pending" /\ Accepted(call[c].request)
          /\ txn[c].stage \in {"chosen", "inserted", "extracted"} =>
                call[c].request.op = "append" /\ txn[c].version \in Ordinals
JobsTyped ==
    /\ job = [w \in Rebuilders |-> job[w]]
    /\ \A w \in Rebuilders :
          /\ job[w] = Job(job[w].stage, job[w].seen, job[w].deleted, job[w].rows)
          /\ job[w].stage \in JobStages
TypeOK == TablesTyped /\ CallsTyped /\ TxnsTyped /\ JobsTyped

(* ADR-0015 commitment 2: the projection is a cache.  Whatever appends and *)
(* rebuilds run, fail half-way or die, the ingredient table holds exactly  *)
(* the rows the committed documents yield.                                 *)
ProjectionAgrees == ingredient = Extraction(recipe_version)

(* The versions of a recipe are 1, 2, ... without a gap or a second row,   *)
(* though every append computes its own ordinal from what it saw.          *)
KeysUnique ==
    \A x, y \in recipe_version : x.recipe = y.recipe /\ x.version = y.version => x = y
OrdinalsDense == \A r \in Recipes : Last(r) \in Nat /\ OrdinalsOf(r) = 1..Last(r)
VersionsNumbered == KeysUnique /\ OrdinalsDense

(* postgres-store.test: a run that was told it had been appended is still  *)
(* there at the ordinal it was given, and no two of them share an ordinal. *)
ToldAppended(c) ==
    call[c].phase = "returned" /\ call[c].request.op = "append" /\ call[c].answer.kind = "version"
AcknowledgedAppendsHold ==
    \A c \in Clients : ToldAppended(c) =>
        /\ [recipe |-> call[c].request.recipe, version |-> call[c].answer.version,
            body |-> call[c].request.body] \in recipe_version
        /\ \A d \in Clients \ {c} :
              ToldAppended(d) /\ call[d].answer.recipe = call[c].answer.recipe =>
                  call[d].answer.version # call[c].answer.version

(* The plan table's foreign key, and one plan for a version.               *)
PlansHaveVersions ==
    \A s \in cooking_plan :
        /\ KeyTaken(s.recipe, s.version)
        /\ \A t \in cooking_plan : s.recipe = t.recipe /\ s.version = t.version => s = t

(* Versions are append only: whatever races, fails or dies, a committed    *)
(* version is never changed and never goes.                                *)
AppendOnly == [][recipe_version \subseteq recipe_version']_vars

(* ADR-0016 point 5: a revoked grant stays revoked for good - no mint,     *)
(* retry or restart makes its digest reach a recipe again - and a held     *)
(* grant is never pointed at another recipe.                               *)
GrantsOnlyDie ==
    [][\A d \in Digests : capability_grant[d] # NoGrant =>
          /\ capability_grant'[d].recipe = capability_grant[d].recipe
          /\ capability_grant[d].revoked => capability_grant'[d].revoked]_vars

(* Of the callers told that the digest was theirs at most one asked for    *)
(* that digest, and the grant reaches the recipe it asked for, though two  *)
(* mints race and replies are lost.                                        *)
MintedFor(c, d) ==
    /\ call[c].phase = "returned"
    /\ call[c].answer = Verdict(TRUE)
    /\ call[c].request.op = "storeGrant" /\ call[c].request.digest = d
OneMintPerDigest ==
    \A d \in Digests : \A c \in Clients : MintedFor(c, d) =>
        /\ capability_grant[d].recipe = call[c].request.recipe
        /\ \A e \in Clients \ {c} : ~MintedFor(e, d)

(* What the keys of the plan and grant tables are for. *)
KeysHold == PlansHaveVersions /\ OneMintPerDigest

(* No step of anybody takes back a version or a revocation. *)
NothingIsUndone == AppendOnly /\ GrantsOnlyDie

(* A rebuild that commits changes not a single row, even one that raced    *)
(* appends and other rebuilds: if it did, the projection was a second      *)
(* source of truth.                                                        *)
RebuildChangesNothing ==
    [][\A w \in Rebuilders : CommitRebuild(w) => ingredient' = ingredient]_vars

(* Every call is answered unless the process stops first: no caller waits  *)
(* for ever on the pool, a key or a connection nobody gives back; and every *)
(* rebuild that got a connection gives it back.                            *)
CallsAndRebuildsEnd ==
    /\ \A c \in Clients :
          call[c].phase = "pending" ~> call[c].phase \in {"returned", "idle"}
    /\ \A w \in Rebuilders : job[w].stage = "open" ~> job[w].stage = "idle"

-------------------------------------------------------------------------------
(* The strengthening behind ProjectionAgrees and VersionsNumbered.  A key  *)
(* inserted and not committed belongs to one transaction and to no row; an *)
(* extraction is its document's; a rebuild has deleted rows that are still *)
(* there for the others, shares none with another rebuild, and once it has *)
(* extracted writes back exactly what it deleted.                          *)
OrdinalFollows(c) ==
    1..(txn[c].version - 1) \subseteq OrdinalsOf(call[c].request.recipe)
ChosenOrdinalsFollow ==
    \A c \in Clients : At(c, "chosen") \/ Uncommitted(c) => OrdinalFollows(c)
UncommittedKeysFree ==
    \A c \in Clients : Uncommitted(c) =>
        ~KeyTaken(call[c].request.recipe, txn[c].version) /\ ~KeyHeldByOther(c)
ExtractedRows == \A c \in Clients : At(c, "extracted") => txn[c].rows = RowsOf(WrittenBy(c))
JobRows ==
    \A w \in Rebuilders :
        /\ job[w].seen \subseteq ingredient /\ job[w].deleted \subseteq ingredient
        /\ job[w].stage \notin {"deleting", "deleted", "extracted"} => job[w].deleted = {}
        /\ job[w].stage = "extracted" => job[w].rows = job[w].deleted
        /\ \A u \in Rebuilders \ {w} : job[u].deleted \cap job[w].deleted = {}

IInv ==
    /\ TypeOK
    /\ KeysUnique /\ OrdinalsDense
    /\ ChosenOrdinalsFollow /\ UncommittedKeysFree
    /\ ExtractedRows
    /\ ProjectionAgrees
    /\ JobRows

-------------------------------------------------------------------------------
(* The store keeps the repository's contract: the versions of a recipe are *)
(* its rows in ordinal order, and a transaction takes effect as it commits. *)
BodyAt(r, v) == (CHOOSE x \in recipe_version : x.recipe = r /\ x.version = v).body
VersionsOf == [r \in Recipes |-> [v \in 1..Last(r) |-> BodyAt(r, v)]]

Contract == INSTANCE RecipeRepository
    WITH snapshots <- snapshot, versions <- VersionsOf, plans <- cooking_plan,
         grants <- capability_grant

RepositoryContract == Contract!Spec
===============================================================================
