------------------------------ MODULE InstanceProofs ------------------------------
(***************************************************************************)
(* Proofs about the life of a process, for any number of clients, of       *)
(* attempts and of migrators beside it.  The migrators come first, and     *)
(* alone.  The tables only ever gain a file whose predecessors are there,  *)
(* so what a migrator read stays true while others apply theirs (Known).   *)
(* The one case that needs more is a database these files did not build:   *)
(* nothing is ever applied to it, so every migrator reads exactly what is  *)
(* there (Refused), and refuses.                                           *)
(***************************************************************************)
EXTENDS Instance, WellFoundedInduction, TLAPS

Turns == [at : {"idle", "reading", "planning", "applying", "created", "done"},
          file : Nat, existing : SUBSET Files, apply : SUBSET Files]

TypeOK ==
    /\ tables \in SUBSET Files
    /\ migrator \in [Migrators -> Turns]

(* What a migrator relies on at each of its stages. *)
Known(r, t) ==
    /\ r.at = "reading" => r.file \in Files
    /\ r.at \in {"reading", "planning"} => r.existing \subseteq t
    /\ r.at \in {"applying", "created"} => r.apply # {} /\ Files \ r.apply \subseteq t
    /\ r.at = "done" => t = Files

(* In a database built by hand it reads what is there, and never applies. *)
Refused(r, t) ==
    /\ r.at = "reading" => r.existing = t \cap (1..(r.file - 1))
    /\ r.at = "planning" => r.existing = t
    /\ r.at \notin {"applying", "created"}

Sound(r, t) == Known(r, t) /\ (InOrder(t) \/ Refused(r, t))

MigrateInv ==
    /\ TypeOK
    /\ NoHalfFile
    /\ \A m \in Migrators : Sound(migrator[m], tables)

-------------------------------------------------------------------------------
(* The next file is the first of those still to be applied. *)
LEMMA NextFileIsFirst ==
    ASSUME NEW r \in Turns, r.apply # {}
    PROVE  NextFile(r) \in r.apply /\ \A g \in r.apply : NextFile(r) <= g
<1> DEFINE less == {ss \in Nat \X Nat : ss[1] < ss[2]}
<1>1. r.apply \in SUBSET Nat BY DEF Turns, Files
<1>2. IsWellFoundedOn(less, Nat) BY NatLessThanWellFounded DEF OpToRel
<1>3. \A a, b \in Nat : a < b => <<a, b>> \in less OBVIOUS
<1> HIDE DEF less
<1>4. PICK f \in r.apply : \A g \in r.apply : ~ (<<g, f>> \in less)
  BY <1>1, <1>2, WFMin
<1>5. \A g \in r.apply : ~ (g < f) BY <1>1, <1>3, <1>4
<1>6. \A g \in r.apply : f <= g BY <1>1, <1>5
<1>7. QED BY <1>6 DEF NextFile

(* What every step does to the tables: nothing, or one file in order. *)
Applies(t, u) == u = t \/ (InOrder(t) /\ InOrder(u) /\ t \subseteq u /\ u \subseteq Files)

(* What a migrator relies on survives what others do. *)
LEMMA SoundStays ==
    ASSUME NEW r \in Turns, NEW t \in SUBSET Files, NEW u, Applies(t, u), Sound(r, t)
    PROVE  Sound(r, u)
<1>1. CASE u = t BY <1>1
<1>2. CASE InOrder(u) /\ t \subseteq u /\ u \subseteq Files
  <2>1. Known(r, u) BY <1>2 DEF Sound, Known
  <2>2. QED BY <1>2, <2>1 DEF Sound
<1>3. QED BY <1>1, <1>2 DEF Applies

(* A step of one migrator that leaves it sound keeps the invariant. *)
LEMMA TurnKeeps ==
    ASSUME MigrateInv, NEW m \in Migrators, NEW r \in Turns, Turn(m, r),
           Applies(tables, tables'), tables' = whole', Sound(r, tables')
    PROVE  MigrateInv' /\ Grows
<1>1. tables' \in SUBSET Files BY DEF MigrateInv, TypeOK, Applies
<1>2. migrator' \in [Migrators -> Turns] BY DEF MigrateInv, TypeOK, Turn
<1>3. \A o \in Migrators : Sound(migrator'[o], tables')
  <2> SUFFICES ASSUME NEW o \in Migrators PROVE Sound(migrator'[o], tables') OBVIOUS
  <2>1. CASE o = m BY <2>1 DEF Turn, MigrateInv, TypeOK
  <2>2. CASE o # m
    <3>1. migrator'[o] = migrator[o] BY <2>2 DEF Turn, MigrateInv, TypeOK
    <3>2. migrator[o] \in Turns /\ tables \in SUBSET Files /\ Sound(migrator[o], tables) BY DEF MigrateInv, TypeOK
    <3>3. QED BY <3>1, <3>2, SoundStays
  <2>3. QED BY <2>1, <2>2
<1>4. NoHalfFile' BY DEF NoHalfFile
<1>5. Grows BY DEF Applies, Grows
<1>6. QED BY <1>1, <1>2, <1>3, <1>4, <1>5 DEF MigrateInv, TypeOK

LEMMA StoppedIsSound ==
    ASSUME NEW at \in {"idle"}, NEW t
    PROVE  Stopped(at) \in Turns /\ Sound(Stopped(at), t)
<1>1. Stopped(at) = [at |-> at, file |-> 1, existing |-> {}, apply |-> {}] BY DEF Stopped, Resting
<1>2. QED BY <1>1 DEF Turns, Sound, Known, Refused, Files

LEMMA StopKeeps ==
    ASSUME MigrateInv, NEW m \in Migrators, Turn(m, Stopped("idle")), Applies(tables, tables'), tables' = whole'
    PROVE  MigrateInv' /\ Grows
BY StoppedIsSound, TurnKeeps

-------------------------------------------------------------------------------
LEMMA StartKeeps ==
    ASSUME MigrateInv, NEW m \in Migrators, StartMigrator(m)
    PROVE  MigrateInv' /\ Grows
<1> DEFINE r == [at |-> "reading", file |-> 1, existing |-> {}, apply |-> {}]
<1>1. Turn(m, r) /\ tables' = tables /\ tables' = whole'
  BY DEF StartMigrator, Stopped, Resting, MigrateInv, NoHalfFile
<1>2. r \in Turns BY DEF Turns
<1>3. 1 \in Files BY FilesAssumption DEF Files
<1>4. Sound(r, tables') BY <1>3 DEF Sound, Known, Refused
<1>5. QED BY <1>1, <1>2, <1>4, TurnKeeps DEF Applies

LEMMA ReadKeeps ==
    ASSUME MigrateInv, NEW m \in Migrators, ReadSentinel(m)
    PROVE  MigrateInv' /\ Grows
<1> DEFINE q == migrator[m]
           e == q.existing \cup (tables \cap {q.file})
           r == [at |-> IF q.file = LastFile THEN "planning" ELSE "reading",
                 file |-> q.file + 1, existing |-> e, apply |-> {}]
<1>1. q \in Turns /\ Sound(q, tables) /\ q.at = "reading" /\ tables \in SUBSET Files
  BY DEF MigrateInv, TypeOK, ReadSentinel
<1>2. Turn(m, r) /\ tables' = tables /\ tables' = whole'
  BY DEF ReadSentinel, MigrateInv, NoHalfFile
<1>3. q.file \in 1..LastFile /\ LastFile \in Nat BY <1>1, FilesAssumption DEF Sound, Known, Files
<1>4. r \in Turns BY <1>1, <1>3 DEF Turns, Files
<1>5. Known(r, tables) BY <1>1, <1>3 DEF Sound, Known, Files
<1>6. ~InOrder(tables) => Refused(r, tables)
  <2> SUFFICES ASSUME ~InOrder(tables) PROVE Refused(r, tables) OBVIOUS
  <2>1. q.existing = tables \cap (1..(q.file - 1)) BY <1>1 DEF Sound, Refused
  <2>2. e = tables \cap (1..q.file) BY <2>1, <1>3
  <2>3. q.file = LastFile => e = tables BY <2>2, <1>1 DEF Files
  <2>4. (q.file + 1) - 1 = q.file BY <1>3
  <2>5. QED BY <2>2, <2>3, <2>4 DEF Refused
<1>7. QED BY <1>2, <1>4, <1>5, <1>6, TurnKeeps DEF Applies, Sound

LEMMA PlanKeeps ==
    ASSUME MigrateInv, NEW m \in Migrators, PlanMigrations(m)
    PROVE  MigrateInv' /\ Grows
<1> DEFINE q == migrator[m]
           missing == Files \ q.existing
<1>1. q \in Turns /\ Sound(q, tables) /\ q.at = "planning" /\ tables \in SUBSET Files
  BY DEF MigrateInv, TypeOK, PlanMigrations
<1>2. tables' = tables /\ tables' = whole' BY DEF PlanMigrations, MigrateInv, NoHalfFile
<1>3. CASE ~InOrder(q.existing)
  BY <1>2, <1>3, StopKeeps DEF PlanMigrations, Applies
<1>4. CASE InOrder(q.existing) /\ missing = {}
  <2> DEFINE r == [at |-> "done", file |-> 1, existing |-> {}, apply |-> {}]
  <2>1. Turn(m, r) BY <1>4 DEF PlanMigrations, Stopped, Resting
  <2>2. tables = Files BY <1>1, <1>4 DEF Sound, Known
  <2>3. r \in Turns BY DEF Turns
  <2>4. Sound(r, tables) BY <2>2 DEF Sound, Known, Refused
  <2>5. QED BY <1>2, <2>1, <2>3, <2>4, TurnKeeps DEF Applies
<1>5. CASE InOrder(q.existing) /\ missing # {}
  <2> DEFINE r == [at |-> "applying", file |-> 1, existing |-> {}, apply |-> missing]
  <2>1. Turn(m, r) BY <1>5 DEF PlanMigrations, Applying
  <2>2. r \in Turns BY <1>1 DEF Turns
  <2>3. Known(r, tables) BY <1>1, <1>5 DEF Sound, Known
  <2>4. InOrder(tables) BY <1>1, <1>5 DEF Sound, Refused
  <2>5. QED BY <1>2, <2>1, <2>2, <2>3, <2>4, TurnKeeps DEF Applies, Sound
<1>6. QED BY <1>3, <1>4, <1>5

LEMMA RunKeeps ==
    ASSUME MigrateInv, NEW m \in Migrators, RunFile(m)
    PROVE  MigrateInv' /\ Grows
<1> DEFINE q == migrator[m]
<1>1. q \in Turns /\ Sound(q, tables) /\ q.at = "applying" /\ tables \in SUBSET Files
  BY DEF MigrateInv, TypeOK, RunFile
<1>2. tables' = tables /\ tables' = whole'
  BY DEF RunFile, SeenBeforeCommit, Shown, MigrateInv, NoHalfFile
<1>3. CASE NextFile(q) \in tables BY <1>2, <1>3, StopKeeps DEF RunFile, Applies
<1>4. CASE NextFile(q) \notin tables
  <2> DEFINE r == [at |-> "created", file |-> q.file, existing |-> q.existing, apply |-> q.apply]
  <2>1. Turn(m, r) BY <1>1, <1>4 DEF RunFile, Turns
  <2>2. r \in Turns BY <1>1 DEF Turns
  <2>3. Sound(r, tables) BY <1>1 DEF Sound, Known, Refused
  <2>4. QED BY <1>2, <2>1, <2>2, <2>3, TurnKeeps DEF Applies
<1>5. QED BY <1>3, <1>4

(* The file committed follows on tables that are all there. *)
LEMMA CommitsInOrder ==
    ASSUME MigrateInv, NEW m \in Migrators, migrator[m].at = "created",
           tables' = tables \cup {NextFile(migrator[m])}
    PROVE  /\ Applies(tables, tables')
           /\ Files \ (migrator[m].apply \ {NextFile(migrator[m])}) \subseteq tables'
<1> DEFINE q == migrator[m]
           f == NextFile(q)
<1>1. q \in Turns /\ Sound(q, tables) /\ tables \in SUBSET Files BY DEF MigrateInv, TypeOK
<1>2. q.apply # {} /\ Files \ q.apply \subseteq tables /\ InOrder(tables)
  BY <1>1 DEF Sound, Known, Refused
<1>3. f \in q.apply /\ \A g \in q.apply : f <= g BY <1>1, <1>2, NextFileIsFirst
<1>4. f \in 1..LastFile /\ LastFile \in Nat /\ q.apply \subseteq 1..LastFile
  BY <1>1, <1>3, FilesAssumption DEF Turns, Files
<1>5. 1..f \subseteq tables \cup {f}
  <2> SUFFICES ASSUME NEW g \in 1..f, g # f PROVE g \in tables OBVIOUS
  <2>1. g \in 1..LastFile /\ g < f BY <1>4
  <2>2. g \notin q.apply BY <2>1, <1>3, <1>4
  <2>3. QED BY <2>1, <2>2, <1>2 DEF Files
<1>6. InOrder(tables') BY <1>2, <1>5 DEF InOrder
<1>7. tables' \subseteq Files BY <1>1, <1>4 DEF Files
<1>8. QED BY <1>2, <1>6, <1>7 DEF Applies

LEMMA CommitKeeps ==
    ASSUME MigrateInv, NEW m \in Migrators, CommitFile(m)
    PROVE  MigrateInv' /\ Grows
<1> DEFINE q == migrator[m]
           f == NextFile(q)
           rest == q.apply \ {f}
<1>1. q \in Turns /\ Sound(q, tables) /\ q.at = "created" /\ tables \in SUBSET Files
  BY DEF MigrateInv, TypeOK, CommitFile
<1>2. tables' = tables \cup {f} /\ tables' = whole' BY DEF CommitFile, MigrateInv, NoHalfFile
<1>3. Applies(tables, tables') /\ Files \ rest \subseteq tables' BY <1>1, <1>2, CommitsInOrder
<1>4. InOrder(tables')  /\ tables' \subseteq Files
  BY <1>1, <1>3 DEF Applies, Sound, Refused
<1>5. CASE rest = {}
  <2> DEFINE r == [at |-> "done", file |-> 1, existing |-> {}, apply |-> {}]
  <2>1. Turn(m, r) BY <1>5 DEF CommitFile, AfterFile, Stopped, Resting
  <2>2. tables' = Files BY <1>3, <1>4, <1>5
  <2>3. r \in Turns BY DEF Turns
  <2>4. Sound(r, tables') BY <2>2, <1>4 DEF Sound, Known
  <2>5. QED BY <1>2, <1>3, <2>1, <2>3, <2>4, TurnKeeps
<1>6. CASE rest # {}
  <2> DEFINE r == [at |-> "applying", file |-> 1, existing |-> {}, apply |-> rest]
  <2>1. Turn(m, r) BY <1>6 DEF CommitFile, AfterFile, Applying
  <2>2. r \in Turns BY <1>1 DEF Turns
  <2>3. Sound(r, tables') BY <1>3, <1>4, <1>6 DEF Sound, Known
  <2>4. QED BY <1>2, <1>3, <2>1, <2>2, <2>3, TurnKeeps
<1>7. QED BY <1>5, <1>6

LEMMA CommitLostKeeps ==
    ASSUME MigrateInv, NEW m \in Migrators, CommitLost(m)
    PROVE  MigrateInv' /\ Grows
<1>1. tables' = whole' BY DEF CommitLost, MigrateInv, NoHalfFile
<1>2. Applies(tables, tables') BY CommitsInOrder DEF CommitLost
<1>3. QED BY <1>1, <1>2, StopKeeps DEF CommitLost

-------------------------------------------------------------------------------
LEMMA InitHolds == MigrateInit => MigrateInv
<1> SUFFICES ASSUME MigrateInit PROVE MigrateInv OBVIOUS
<1>1. Resting \in Turns /\ \A t : Sound(Resting, t)
  BY DEF Resting, Turns, Sound, Known, Refused
<1>2. QED BY <1>1 DEF MigrateInit, MigrateInv, TypeOK, NoHalfFile

(* Whatever a step of the migrators does, alone or beside others. *)
LEMMA StepKeeps ==
    ASSUME MigrateInv, [MigrateNext]_migrationVars
    PROVE  MigrateInv' /\ Grows
<1>1. CASE MigrateNext
  <2> SUFFICES ASSUME NEW m \in Migrators, MigrateStep(m) PROVE MigrateInv' /\ Grows BY <1>1 DEF MigrateNext
  <2>1. CASE StartMigrator(m) BY <2>1, StartKeeps
  <2>2. CASE ReadSentinel(m) BY <2>2, ReadKeeps
  <2>3. CASE PlanMigrations(m) BY <2>3, PlanKeeps
  <2>4. CASE RunFile(m) BY <2>4, RunKeeps
  <2>5. CASE CommitFile(m) BY <2>5, CommitKeeps
  <2>6. CASE CommitLost(m) BY <2>6, CommitLostKeeps
  <2>7. CASE FailMigrator(m)
    BY <2>7, StopKeeps DEF FailMigrator, Applies, MigrateInv, NoHalfFile
  <2>8. QED BY <2>1, <2>2, <2>3, <2>4, <2>5, <2>6, <2>7 DEF MigrateStep
<1>2. CASE UNCHANGED migrationVars
  BY <1>2 DEF migrationVars, MigrateInv, TypeOK, NoHalfFile, Grows, InOrder
<1>3. QED BY <1>1, <1>2

LEMMA InvMeansMigrated == MigrateInv => NoHalfFile /\ DoneMeansMigrated
BY DEF MigrateInv, Sound, Known, DoneMeansMigrated

(* The schema is a ledger that does not lie, for every number of files and *)
(* of migrators that run at once and die anywhere: no table without the    *)
(* rest of its file, none before its predecessor, nothing missing when a   *)
(* migrator is done, nothing touched in a database built by hand           *)
(* (scripts/migrate.ts planMigrations, applyMigrations).                   *)
THEOREM SchemaNeverLies == MigrateSpec => SchemaIsTheLedger
<1>1. MigrateSpec => []MigrateInv
  <2>1. MigrateInv /\ [MigrateNext]_migrationVars => MigrateInv' BY StepKeeps
  <2>2. QED BY InitHolds, <2>1, PTL DEF MigrateSpec
<1>2. MigrateInv /\ [MigrateNext]_migrationVars => [Grows]_migrationVars BY StepKeeps
<1>3. QED BY <1>1, <1>2, InvMeansMigrated, PTL DEF MigrateSpec, SchemaIsTheLedger

-------------------------------------------------------------------------------
(* A step of the process leaves the schema alone; a migrator's is its own. *)
LEMMA ProcessLeavesSchema == ASSUME [Next]_vars PROVE [MigrateNext]_migrationVars
<1>1. CASE MigrateNext BY <1>1
<1>2. CASE ~MigrateNext
  BY <1>2 DEF Next, vars, StartProcess, Ended, Probe, ProbeStorage, Bind, Refuse,
     Arrive, Ask, Connect, AskModel, HandlerStep, Answered, ModelMoves, Verdict, Reply,
     KeepAliveEnds, HangUp, Signal, CloseStore, StoreCloses, CloseSources, Crash
<1>3. QED BY <1>1, <1>2

(* Beside any process the schema is what migrators alone make of it.       *)
LEMMA SchemaAlone == Spec => MigrateSpec
<1>1. Init => MigrateInit BY DEF Init
<1>2. QED BY <1>1, ProcessLeavesSchema, PTL DEF Spec, MigrateSpec

(* A starting, serving and stopping process, its clients and the crashes   *)
(* of all of them never make the schema lie (scripts/migrate.ts beside     *)
(* server/main.ts).                                                        *)
THEOREM SchemaBesideAProcess == Spec => SchemaIsTheLedger
BY SchemaAlone, SchemaNeverLies

-------------------------------------------------------------------------------
(* Until the stop has drained, store and agents are open; after it, and    *)
(* before the process serves, nobody is connected.                         *)
Connected ==
    /\ process \in {"down", "exited"} \cup Starting \cup Stopping \cup {"listening"}
    /\ line \in [Callers -> {"none", "idle", "busy"}]
    /\ process \in {"listening", "draining"} => store = "open" /\ sources = "open"
    /\ process = "binding" => sources = "open"
    /\ process \in Starting => store = "open"
    /\ process \notin {"listening", "draining"} => NoConnection(line)

LEMMA ConnectedInit == Init => Connected
BY DEF Init, Connected, Starting, Stopping, NoConnection

LEMMA EndedKeeps == ASSUME Connected, NEW how, Ended(how) PROVE Connected'
BY DEF Connected, Ended, Starting, Stopping, NoConnection

LEMMA LineKeeps ==
    ASSUME Connected, NEW c \in Callers, UNCHANGED lifecycle, NEW l, SetLine(c, l),
           l \in {"none", "idle", "busy"},
           process \in {"listening", "draining"} \/ l \in {"none", line[c]}
    PROVE  Connected'
BY DEF Connected, lifecycle, SetLine, NoConnection, Starting, Stopping

LEMMA QuietKeeps == ASSUME Connected, UNCHANGED <<lifecycle, line>> PROVE Connected'
BY DEF Connected, lifecycle, NoConnection

LEMMA RequestKeeps ==
    ASSUME Connected, NEW c \in Callers,
           \/ Arrive(c) \/ Ask(c) \/ Connect(c) \/ AskModel(c) \/ HandlerStep(c)
           \/ KeepAliveEnds(c) \/ HangUp(c)
    PROVE  Connected'
<1>1. CASE Arrive(c)
  <2>1. SetLine(c, "busy") /\ UNCHANGED lifecycle BY <1>1 DEF Arrive
  <2>2. line[c] = "idle" \/ process = "listening" BY <1>1 DEF Arrive
  <2>3. process \in {"listening", "draining"} BY <2>2 DEF Connected, NoConnection
  <2>4. QED BY <2>1, <2>3, LineKeeps
<1>2. CASE Ask(c) \/ Connect(c) \/ AskModel(c)
  BY <1>2, QuietKeeps DEF Ask, Connect, AskModel, OneMore
<1>3. CASE Answered(c) \/ ModelMoves(c) \/ Verdict(c)
  BY <1>3, QuietKeeps DEF Answered, ModelMoves, Verdict, requests
<1>4. CASE Reply(c)
  <2>1. PICK l \in {"idle", "none"} : SetLine(c, IF line[c] = "busy" THEN l ELSE line[c])
    BY <1>4 DEF Reply
  <2>2. UNCHANGED lifecycle BY <1>4 DEF Reply
  <2>3. CASE line[c] = "busy"
    <3>1. process \in {"listening", "draining"} BY <2>3 DEF Connected, NoConnection
    <3>2. QED BY <2>1, <2>2, <2>3, <3>1, LineKeeps
  <2>4. CASE line[c] # "busy"
    <3>1. line[c] \in {"none", "idle", "busy"} BY DEF Connected
    <3>2. QED BY <2>1, <2>2, <2>4, <3>1, LineKeeps
  <2>5. QED BY <2>3, <2>4
<1>5. CASE KeepAliveEnds(c) \/ HangUp(c)
  <2>1. SetLine(c, "none") /\ UNCHANGED lifecycle BY <1>5 DEF KeepAliveEnds, HangUp
  <2>2. QED BY <2>1, LineKeeps
<1>6. QED BY <1>1, <1>2, <1>3, <1>4, <1>5 DEF HandlerStep

LEMMA SignalKeeps == ASSUME Connected, Signal PROVE Connected'
<1>1. CASE \E how : Ended(how) BY <1>1, EndedKeeps
<1>2. CASE process = "listening" /\ process' = "draining"
           /\ line' = [c \in Callers |-> IF line[c] = "idle" THEN "none" ELSE line[c]]
           /\ UNCHANGED <<store, sources>>
  BY <1>2 DEF Connected, Starting, Stopping
<1>3. CASE UNCHANGED vars BY <1>3, QuietKeeps DEF vars, requests
<1>4. QED BY <1>1, <1>2, <1>3 DEF Signal

LEMMA ConnectedStep == ASSUME Connected, [Next]_vars PROVE Connected'
<1>1. CASE MigrateNext /\ UNCHANGED <<stage, lifecycle, requests>>
  BY <1>1, QuietKeeps DEF requests
<1>2. CASE StartProcess
  <2>1. CASE \E how : Ended(how) BY <2>1, EndedKeeps
  <2>2. CASE process' = "probing library" /\ store' = "open" /\ UNCHANGED <<sources, requests>>
             /\ process \in {"down", "exited"}
    BY <2>2 DEF Connected, requests, Starting, Stopping, NoConnection
  <2>3. QED BY <1>2, <2>1, <2>2 DEF StartProcess
<1>3. CASE Probe
  BY <1>3 DEF Probe, AfterProbe, AfterEachProbe, Connected, requests, Starting, Stopping, NoConnection
<1>4. CASE ProbeStorage \/ Bind
  BY <1>4 DEF ProbeStorage, Bind, Connected, requests, Starting, Stopping, NoConnection
<1>5. CASE Refuse \/ CloseSources \/ Crash
  BY <1>5, EndedKeeps DEF Refuse, CloseSources, Crash
<1>6. CASE \E c \in Callers :
             \/ Arrive(c) \/ Ask(c) \/ Connect(c) \/ AskModel(c) \/ HandlerStep(c)
             \/ KeepAliveEnds(c) \/ HangUp(c)
  BY <1>6, RequestKeeps
<1>7. CASE Signal BY <1>7, SignalKeeps
<1>8. CASE CloseStore \/ StoreCloses
  BY <1>8 DEF CloseStore, StoreCloses, Drained, Connected, requests, Starting, Stopping, NoConnection
<1>9. CASE UNCHANGED vars BY <1>9, QuietKeeps DEF vars, requests
<1>10. QED BY <1>1, <1>2, <1>3, <1>4, <1>5, <1>6, <1>7, <1>8, <1>9 DEF Next

LEMMA AlwaysConnected == Spec => []Connected
<1>1. Connected /\ [Next]_vars => Connected' BY ConnectedStep
<1>2. QED BY ConnectedInit, <1>1, PTL DEF Spec

(* A client that waits for an answer is never met by a store or an agent   *)
(* the stop has closed, however many clients there are (stopServer in      *)
(* server/instance.ts, stop in server/main.ts).                            *)
THEOREM StoreIsThereForClients == Spec => []StoreOutlivesClients
<1>1. Connected => StoreOutlivesClients BY DEF Connected, NoConnection, StoreOutlivesClients
<1>2. QED BY <1>1, AlwaysConnected, PTL

(* Only a crash cuts off a client that waits: no signal, refusal or end of *)
(* a stop does (stop in server/main.ts).                                   *)
THEOREM OnlyCrashesCut == Spec => NothingIsCut
<1> DEFINE Cuts == process' = "exited" /\ exit' # "crashed" => \A c \in Callers : line[c] # "busy"
<1>1. ASSUME Connected, [Next]_vars PROVE [Cuts]_vars
  <2> SUFFICES ASSUME Next, process' = "exited", exit' # "crashed",
                      NEW c \in Callers, line[c] = "busy"
               PROVE  FALSE
    BY <1>1
  <2>1. process \in {"listening", "draining"} BY <1>1 DEF Connected, NoConnection
  <2>2. UNCHANGED process \/ process' = "draining" \/ process' = "closing store" \/ Crash
    BY <2>1 DEF Next, lifecycle, vars, StartProcess, Probe, ProbeStorage, Bind, Refuse, Starting,
       Stopping, Heeds, OnlyTheFirst,
       Arrive, Ask, Connect, AskModel, HandlerStep, Answered, ModelMoves, Verdict, Reply,
       KeepAliveEnds, HangUp, Signal, CloseStore, StoreCloses, CloseSources
  <2>3. QED BY <2>1, <2>2 DEF Crash, Ended
<1>2. QED BY <1>1, AlwaysConnected, PTL DEF Spec, NothingIsCut

-------------------------------------------------------------------------------
(* What the start has established so far; tables never go away again.      *)
Down == {"down", "exited"}
BeforePlans == Down \cup {"probing library"}
BeforeGrants == BeforePlans \cup {"probing plans"}
BeforeStorage == BeforeGrants \cup {"probing grants"}

Ready ==
    /\ process \notin Down => StartsWith(settings)
    /\ process \notin BeforePlans => 1 \in tables
    /\ process \notin BeforeGrants => 2 \in tables
    /\ process \notin BeforeStorage => 3 \in tables

LEMMA TablesStay == ASSUME MigrateInv, [Next]_vars PROVE MigrateInv' /\ tables \subseteq tables'
<1>1. MigrateInv' /\ Grows BY ProcessLeavesSchema, StepKeeps
<1>2. QED BY <1>1 DEF Grows

LEMMA ReadyStays ==
    ASSUME Ready, tables \subseteq tables', UNCHANGED <<process, settings>>
    PROVE  Ready'
BY DEF Ready, Down, BeforePlans, BeforeGrants, BeforeStorage

LEMMA EndedIsReady == ASSUME NEW how, Ended(how) PROVE Ready'
BY DEF Ended, Ready, Down, BeforePlans, BeforeGrants, BeforeStorage

LEMMA ReadyStep ==
    ASSUME Connected, Ready, [Next]_vars, tables \subseteq tables'
    PROVE  Ready'
<1>1. CASE StartProcess
  <2>1. CASE \E how : Ended(how) BY <2>1, EndedIsReady
  <2>2. CASE \E env \in Environments : StartsWith(env) /\ process' = "probing library" /\ settings' = env
    BY <2>2 DEF Ready, Down, BeforePlans, BeforeGrants, BeforeStorage
  <2>3. QED BY <1>1, <2>1, <2>2 DEF StartProcess
<1>2. CASE Probe
  BY <1>2 DEF Probe, Probed, AfterProbe, AfterEachProbe, Ready,
     Down, BeforePlans, BeforeGrants, BeforeStorage
<1>3. CASE ProbeStorage \/ Bind \/ CloseStore \/ StoreCloses
  BY <1>3 DEF ProbeStorage, Bind, CloseStore, StoreCloses, Ready,
     Down, BeforePlans, BeforeGrants, BeforeStorage
<1>4. CASE Refuse \/ CloseSources \/ Crash
  BY <1>4, EndedIsReady DEF Refuse, CloseSources, Crash
<1>5. CASE Signal
  <2>1. CASE \E how : Ended(how) BY <2>1, EndedIsReady
  <2>2. CASE process = "listening" /\ process' = "draining" /\ UNCHANGED settings
    BY <2>2 DEF Ready, Down, BeforePlans, BeforeGrants, BeforeStorage
  <2>3. CASE UNCHANGED vars BY <2>3, ReadyStays DEF vars, lifecycle
  <2>4. QED BY <1>5, <2>1, <2>2, <2>3 DEF Signal
<1>6. CASE UNCHANGED <<process, settings>> BY <1>6, ReadyStays
<1>7. CASE ~(StartProcess \/ Probe \/ ProbeStorage \/ Bind \/ Refuse \/ CloseStore \/ StoreCloses
             \/ CloseSources \/ Crash \/ Signal)
  BY <1>6, <1>7 DEF Next, vars, lifecycle, Arrive, Ask, Connect, AskModel, HandlerStep, Answered,
     ModelMoves, Verdict, Reply, KeepAliveEnds, HangUp
<1>8. QED BY <1>1, <1>2, <1>3, <1>4, <1>5, <1>7

(* Settings a process may start with are what a serving one needs. *)
LEMMA StartableIsEnough ==
    ASSUME NEW env, StartsWith(env)
    PROVE  /\ \A n \in Names : env[n].given = "text"
           /\ IsPort(env["PORT"].is)
           /\ env["COOKFRAME_INGEST_CREDENTIAL"].is # env["COOKFRAME_LIBRARY_CREDENTIAL"].is
           /\ PublicBaseUrlFault(env["PUBLIC_BASE_URL"].is) = "none"
<1> DEFINE Unset == {<<n, "is not set">> : n \in {r \in REQUIRED_CONFIGURATION : ~IsSet(env, r)}}
           url == env["PUBLIC_BASE_URL"].is
<1>1. Problems(env) = {} BY DEF StartsWith
<1>2. Unset = {} BY <1>1 DEF Problems
<1>3. \A n \in REQUIRED_CONFIGURATION : IsSet(env, n)
  <2> SUFFICES ASSUME NEW n \in REQUIRED_CONFIGURATION, ~IsSet(env, n) PROVE FALSE OBVIOUS
  <2>1. <<n, "is not set">> \in Unset OBVIOUS
  <2>2. QED BY <1>2, <2>1
<1>4. IsSet(env, "PORT") /\ IsSet(env, "PUBLIC_BASE_URL")
      /\ IsSet(env, "COOKFRAME_INGEST_CREDENTIAL") /\ IsSet(env, "COOKFRAME_LIBRARY_CREDENTIAL")
  BY <1>3 DEF REQUIRED_CONFIGURATION
<1>5. IsPort(env["PORT"].is)
  <2> SUFFICES ASSUME ~IsPort(env["PORT"].is) PROVE FALSE OBVIOUS
  <2>1. <<"PORT", "is not a port number">> \in Problems(env) BY <1>4 DEF Problems
  <2>2. QED BY <1>1, <2>1
<1>6. env["COOKFRAME_INGEST_CREDENTIAL"].is # env["COOKFRAME_LIBRARY_CREDENTIAL"].is
  <2> SUFFICES ASSUME SameSecret(env) PROVE FALSE BY <1>4 DEF SameSecret
  <2>1. <<"COOKFRAME_LIBRARY_CREDENTIAL", "is the same value">> \in Problems(env) BY DEF Problems
  <2>2. QED BY <1>1, <2>1
<1>7. PublicBaseUrlFault(url) = "none"
  <2> SUFFICES ASSUME PublicBaseUrlFault(url) # "none" PROVE FALSE OBVIOUS
  <2>1. <<"PUBLIC_BASE_URL", PublicBaseUrlFault(url)>>
          \in {<<"PUBLIC_BASE_URL", PublicBaseUrlFault(url)>>} \ {<<"PUBLIC_BASE_URL", "none">>}
    OBVIOUS
  <2>2. <<"PUBLIC_BASE_URL", PublicBaseUrlFault(url)>> \in Problems(env) BY <1>4, <2>1 DEF Problems
  <2>3. QED BY <1>1, <2>2
<1>8. IsSet(env, "DATABASE_URL") BY DEF StartsWith, ResolvesDatabase
<1>9. \A n \in Names : env[n].given = "text" BY <1>3, <1>8 DEF Names, IsSet
<1>10. QED BY <1>5, <1>6, <1>7, <1>9, Zenon

LEMMA SoundUrl ==
    ASSUME NEW url, PublicBaseUrlFault(url) = "none"
    PROVE  url.absolute /\ url.scheme \in {"http", "https"} /\ ~url.credential /\ ~url.more
BY DEF PublicBaseUrlFault

(* ADR-0027 for every environment and any number of migrators: a process   *)
(* that serves has every table its code reads, whole, and usable settings  *)
(* (probes of server/main.ts, readConfiguration of server/config.ts).      *)
THEOREM ReadyBeforeListening == Spec => []ListeningMeansReady
<1>1. Init => Ready BY DEF Init, Ready, Down, BeforePlans, BeforeGrants, BeforeStorage
<1>2. Spec => []MigrateInv
  <2>1. Init => MigrateInv BY InitHolds DEF Init
  <2>2. MigrateInv /\ [Next]_vars => MigrateInv' BY TablesStay
  <2>3. QED BY <2>1, <2>2, PTL DEF Spec
<1>3. MigrateInv /\ Connected /\ Ready /\ [Next]_vars => Ready' BY TablesStay, ReadyStep
<1>4. ASSUME MigrateInv, Ready PROVE ListeningMeansReady
  <2> SUFFICES ASSUME Serving PROVE ListeningMeansReady BY DEF ListeningMeansReady
  <2>1. StartsWith(settings) /\ {1, 2, 3} \subseteq tables
    BY <1>4 DEF Serving, Stopping, Ready, Down, BeforePlans, BeforeGrants, BeforeStorage
  <2>2. Files \subseteq whole
    <3>1. Files \subseteq {1, 2, 3} BY ProbesAssumption DEF Files
    <3>2. QED BY <1>4, <2>1, <3>1 DEF MigrateInv, NoHalfFile
  <2>3. PublicBaseUrlFault(settings["PUBLIC_BASE_URL"].is) = "none" BY <2>1, StartableIsEnough
  <2>4. QED BY <2>1, <2>2, <2>3, StartableIsEnough, SoundUrl, Zenon DEF ListeningMeansReady
<1>5. QED BY <1>1, <1>2, <1>3, <1>4, AlwaysConnected, PTL DEF Spec

-------------------------------------------------------------------------------
(* A stage, at each point of its calls: every reply before the one under   *)
(* way was invalid, and there is a call left for it; the timer runs until  *)
(* the deadline, and a call whose deadline has passed is torn down.        *)
Outcomes == Replies \cup {"REDIRECT_REFUSED", "SIZE_LIMIT", "PROVIDER_REFUSED",
                          "MALFORMED_RESPONSE", "TIME_LIMIT", "TRANSPORT"}

Calls == [status : {"none", "ok", "refused"}, got : 0..MaxBytes,
          armed : BOOLEAN, aborted : BOOLEAN, passed : BOOLEAN]

Stages == [at : {"none", "sent", "reading", "accepted", "failed"},
           call : Calls, replies : Seq(Outcomes)]

AllInvalid(r) == \A i \in DOMAIN r : r[i] = "invalid"
ButTheLast(r) == \A i \in DOMAIN r : i < Len(r) => r[i] = "invalid"
Timing(k) == IF k.passed THEN k.aborted ELSE k.armed

InCallSound(s) == Len(s.replies) < MaxAttempts /\ AllInvalid(s.replies) /\ Timing(s.call)
OverSound(s) ==
    /\ Len(s.replies) <= MaxAttempts /\ ButTheLast(s.replies)
    /\ s.at = "accepted" => Last(s.replies) = "usable" /\ ~s.call.passed

StageSound(s) ==
    /\ s \in Stages
    /\ IF s.at \in InCall THEN InCallSound(s) ELSE OverSound(s)

StageInv ==
    /\ stage \in [Callers -> Stages]
    /\ \A c \in Callers : StageSound(stage[c])

LEMMA StageKeeps ==
    ASSUME StageInv, NEW c \in Callers, NEW s, StageSound(s), SetStage(c, s)
    PROVE  StageInv'
<1>1. s \in Stages BY DEF StageSound
<1>2. stage' = [stage EXCEPT ![c] = s] BY DEF SetStage
<1>3. stage' \in [Callers -> Stages] BY <1>1, <1>2 DEF StageInv
<1>4. \A d \in Callers : stage'[d] = s \/ stage'[d] = stage[d] BY <1>2 DEF StageInv
<1>5. QED BY <1>3, <1>4 DEF StageInv

LEMMA FreshCall ==
    /\ NoCall \in Calls
    /\ [NoCall EXCEPT !.armed = TRUE] \in Calls /\ Timing([NoCall EXCEPT !.armed = TRUE])
<1>1. NoCall \in Calls BY BytesAssumption DEF NoCall, Calls
<1> DEFINE k == [NoCall EXCEPT !.armed = TRUE]
<1>2. k \in Calls BY <1>1 DEF Calls
<1>3. k.passed = FALSE /\ k.armed = TRUE BY DEF NoCall
<1>4. Timing(k) BY <1>3 DEF Timing
<1>5. QED BY <1>1, <1>2, <1>4

LEMMA FreshStages ==
    /\ StageSound(NoStage) /\ StageSound(AStage("failed", NoCall, <<>>))
    /\ StageSound(Armed(<<>>))
BY FreshCall, AttemptsAssumption
   DEF NoStage, AStage, Armed, StageSound, Stages, InCall, InCallSound, OverSound, AllInvalid, ButTheLast

(* A call that comes to a reply of any kind: usable only in time.          *)
LEMMA ComesKeeps ==
    ASSUME StageInv, NEW c \in Callers, stage[c].at \in InCall, NEW r \in Outcomes,
           Comes(c, stage[c], r), r = "usable" => ~stage[c].call.passed
    PROVE  StageInv'
<1> DEFINE s == stage[c]
           all == Append(s.replies, r)
           k == [s.call EXCEPT !.armed = FALSE]
<1>1. s \in Stages /\ InCallSound(s) BY DEF StageInv, StageSound
<1>2. s.replies \in Seq(Outcomes) /\ s.call \in Calls BY <1>1 DEF Stages
<1>3. all \in Seq(Outcomes) /\ Len(all) = Len(s.replies) + 1 /\ all[Len(all)] = r BY <1>2
<1>4. ButTheLast(all) BY <1>1, <1>2, <1>3 DEF InCallSound, AllInvalid, ButTheLast
<1>5. Len(all) <= MaxAttempts /\ MaxAttempts \in Nat BY <1>1, <1>2, <1>3, AttemptsAssumption DEF InCallSound
<1>6. CASE TriesAgain(s, r)
  <2>1. Len(all) < MaxAttempts /\ r = "invalid" BY <1>3, <1>6 DEF TriesAgain
  <2>2. AllInvalid(all) BY <1>2, <1>3, <1>4, <2>1 DEF AllInvalid, ButTheLast
  <2>3. StageSound(Armed(all))
    BY <1>3, <2>1, <2>2, FreshCall DEF Armed, AStage, StageSound, Stages, InCall, InCallSound
  <2>4. SetStage(c, Armed(all)) BY <1>6 DEF Comes
  <2>5. QED BY <2>3, <2>4, StageKeeps
<1>7. CASE ~TriesAgain(s, r)
  <2> DEFINE at == IF r = "usable" THEN "accepted" ELSE "failed"
             t == [at |-> at, call |-> k, replies |-> all]
  <2>1. k \in Calls /\ k.passed = s.call.passed BY <1>2 DEF Calls
  <2>2. t \in Stages BY <1>3, <2>1 DEF Stages
  <2>3. at = "accepted" => Last(all) = "usable" /\ ~k.passed BY <1>3, <2>1 DEF Last
  <2>4. OverSound(t) BY <1>4, <1>5, <2>3 DEF OverSound
  <2>5. StageSound(t) BY <2>2, <2>4 DEF StageSound, InCall
  <2>6. SetStage(c, t) BY <1>7 DEF Comes, AStage
  <2>7. QED BY <2>5, <2>6, StageKeeps
<1>8. QED BY <1>6, <1>7

(* A step within a call. *)
LEMMA CallKeeps ==
    ASSUME StageInv, NEW c \in Callers, stage[c].at \in InCall, NEW at \in InCall, NEW k \in Calls,
           Timing(k), SetStage(c, AStage(at, k, stage[c].replies))
    PROVE  StageInv'
<1>1. stage[c] \in Stages /\ InCallSound(stage[c]) BY DEF StageInv, StageSound
<1>2. StageSound(AStage(at, k, stage[c].replies))
  BY <1>1 DEF AStage, StageSound, Stages, InCall, InCallSound
<1>3. QED BY <1>2, StageKeeps

LEMMA StageStepKeeps == ASSUME StageInv, NEW c \in Callers, StageStep(c) PROVE StageInv'
<1> DEFINE s == stage[c]
           k == s.call
<1>1. s \in Stages /\ k \in Calls BY DEF StageInv, StageSound, Stages
<1>2. s.at \in InCall => Timing(k) BY DEF StageInv, StageSound, InCallSound
<1>3. CASE DeadlinePasses(c)
  <2>1. s.at \in InCall /\ ~k.passed BY <1>3 DEF DeadlinePasses
  <2>2. k.armed BY <1>2, <2>1 DEF Timing
  <2>3. TimedOut(k) \in Calls /\ Timing(TimedOut(k)) BY <1>1, <2>2 DEF TimedOut, Calls, Timing
  <2>4. QED BY <1>3, <2>1, <2>3, CallKeeps DEF DeadlinePasses
<1>4. CASE Headers(c)
  <2>1. s.at \in InCall BY <1>4 DEF Headers, InCall
  <2>2. CASE Comes(c, s, "REDIRECT_REFUSED") BY <2>1, <2>2, ComesKeeps DEF Outcomes
  <2>3. CASE \E status \in {"ok", "refused"} : SetStage(c, BodyOf(s, status))
    <3>1. PICK status \in {"ok", "refused"} : SetStage(c, BodyOf(s, status)) BY <2>3
    <3> DEFINE l == [k EXCEPT !.status = status]
    <3>2. l \in Calls /\ l.passed = k.passed /\ l.aborted = k.aborted /\ l.armed = k.armed
      BY <1>1 DEF Calls
    <3>3. Timing(l) BY <1>2, <2>1, <3>2 DEF Timing
    <3>4. QED BY <2>1, <3>1, <3>2, <3>3, CallKeeps DEF BodyOf, UnderDeadline, InCall
  <2>4. QED BY <1>4, <2>2, <2>3 DEF Headers
<1>5. CASE Chunk(c)
  <2>1. s.at \in InCall BY <1>5 DEF Chunk, InCall
  <2>2. CASE k.got + 1 > MaxBytes BY <1>5, <2>1, <2>2, ComesKeeps DEF Chunk, Outcomes
  <2>3. CASE ~(k.got + 1 > MaxBytes)
    <3> DEFINE l == [k EXCEPT !.got = k.got + 1]
    <3>1. l \in Calls /\ l.passed = k.passed /\ l.aborted = k.aborted /\ l.armed = k.armed
      BY <1>1, <2>3, BytesAssumption DEF Calls
    <3>2. Timing(l) BY <1>2, <2>1, <3>1 DEF Timing
    <3>3. QED BY <1>5, <2>1, <2>3, <3>1, <3>2, CallKeeps DEF Chunk, InCall
  <2>4. QED BY <2>2, <2>3
<1>6. CASE BodyEnds(c)
  <2>1. s.at \in InCall /\ ~k.aborted BY <1>6 DEF BodyEnds, InCall
  <2>2. ~k.passed BY <1>2, <2>1 DEF Timing
  <2>3. QED BY <1>6, <2>1, <2>2, ComesKeeps DEF BodyEnds, Outcomes
<1>7. CASE Breaks(c) BY <1>7, ComesKeeps DEF Breaks, Outcomes
<1>8. QED BY <1>3, <1>4, <1>5, <1>6, <1>7 DEF StageStep

LEMMA StageInvStep == ASSUME StageInv, [Next]_vars PROVE StageInv'
<1>1. CASE UNCHANGED stage BY <1>1 DEF StageInv
<1>2. CASE \E how : Ended(how)
  <2>1. stage' = [c \in Callers |-> NoStage] BY <1>2 DEF Ended
  <2>2. NoStage \in Stages BY FreshStages DEF StageSound
  <2>3. QED BY <2>1, <2>2, FreshStages DEF StageInv
<1>3. CASE \E c \in Callers : AskModel(c)
  BY <1>3, FreshStages, StageKeeps DEF AskModel, BeginStage
<1>4. CASE \E c \in Callers : ModelMoves(c) BY <1>4, StageStepKeeps DEF ModelMoves
<1>5. CASE \E c \in Callers : Verdict(c) BY <1>5, FreshStages, StageKeeps DEF Verdict
<1>6. QED
  BY <1>1, <1>2, <1>3, <1>4, <1>5 DEF Next, vars, StartProcess, Probe, ProbeStorage, Bind, Refuse,
     requests, Arrive, Ask, Connect, HandlerStep, Answered, Reply, KeepAliveEnds, HangUp, Signal,
     CloseStore, StoreCloses, CloseSources, Crash

(* However many handlers ask a model, however it answers, each stage makes *)
(* at most MaxAttempts calls, each after the first because the reply before*)
(* it was readable and invalid, and takes no late and no oversized reply   *)
(* (runStage in pipeline/model-providers.ts, send and readBounded in       *)
(* security/model-egress.ts).                                              *)
THEOREM StagesStayBounded == Spec => []StagesAreBounded
<1>1. Init => StageInv
  <2>1. NoStage \in Stages BY FreshStages DEF StageSound
  <2>2. QED BY <2>1, FreshStages DEF Init, StageInit, StageInv
<1>2. StageInv /\ [Next]_vars => StageInv' BY StageInvStep
<1>3. ASSUME StageInv PROVE StagesAreBounded
  <2> SUFFICES ASSUME NEW c \in Callers PROVE
        LET s == stage[c]  r == s.replies IN
        /\ Len(r) <= MaxAttempts - (IF s.at \in InCall THEN 1 ELSE 0)
        /\ \A i \in DOMAIN r : i < Len(r) \/ s.at \in InCall => r[i] = "invalid"
        /\ s.at = "accepted" => Last(r) = "usable" /\ ~s.call.passed
        /\ s.call.got <= MaxBytes
    BY DEF StagesAreBounded
  <2>1. stage[c] \in Stages /\ stage[c].call.got <= MaxBytes /\ Len(stage[c].replies) \in Nat
    BY <1>3, BytesAssumption DEF StageInv, Stages, Calls
  <2>2. CASE stage[c].at \in InCall
    BY <1>3, <2>1, <2>2, AttemptsAssumption
       DEF StageInv, StageSound, InCallSound, AllInvalid, InCall
  <2>3. CASE stage[c].at \notin InCall
    BY <1>3, <2>1, <2>3, AttemptsAssumption DEF StageInv, StageSound, OverSound, ButTheLast
  <2>4. QED BY <2>2, <2>3
<1>4. QED BY <1>1, <1>2, <1>3, PTL DEF Spec
===============================================================================
