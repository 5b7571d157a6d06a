-------------------------- MODULE PostgresStoreProofs --------------------------
(***************************************************************************)
(* Theorems about PostgresStore, for every set of callers and rebuilders,  *)
(* every set of documents and every pool size.  The inductive invariant is *)
(* IInv.  Most actions only move a call along and leave the documents, the *)
(* projection and every open append alone: those are the Quiet steps, and  *)
(* one lemma does for all of them.  What remains are the four statements   *)
(* of an append and the steps of a rebuild.  The last part shows that the   *)
(* store implements the contract.                                          *)
(***************************************************************************)
EXTENDS PostgresStore, TLAPS

(* What a request of each kind carries. *)
LEMMA RequestShapes ==
    ASSUME NEW q \in Requests
    PROVE  /\ q.op = "append" => q.recipe \in Recipes /\ q.body \in Bodies \cup {Malformed}
           /\ q.op = "storeSnapshot" => q.snapshot \in SnapshotIds /\ q.doc \in Docs \cup {Malformed}
           /\ q.op = "storePlan" => /\ q.recipe \in Recipes
                                    /\ q.version \in Ordinals \cup {Nil}
                                    /\ q.plan \in Plans \cup {Malformed}
           /\ q.op = "storeGrant" => q.recipe \in Recipes /\ q.digest \in Digests
           /\ q.op = "revokeGrant" => q.digest \in Digests
           /\ q.op \in {"loadLatest", "readTwoRuns"} => q.recipe \in Recipes
<1>1. q \in AllRequests
  BY RequestsAssumption
<1> QED
  BY <1>1 DEF AllRequests, StoreSnapshotRequests, LoadSnapshotRequests, AppendRequests,
              LoadLatestRequests, ListRequests, TwoRunsRequests, StorePlanRequests,
              LoadPlanRequests, StoreGrantRequests, ResolveRequests, RevokeRequests

(* The greatest ordinal of an unbroken run of ordinals. *)
LEMMA GreatestOfRun ==
    ASSUME NEW n \in Nat
    PROVE  Greatest(1..n) = n
<1>1. n \in 1..n \cup {0} /\ \A m \in 1..n : m <= n
  OBVIOUS
<1>2. \A k \in 1..n \cup {0} : (\A m \in 1..n : m <= k) => k = n
  OBVIOUS
<1> QED
  BY <1>1, <1>2 DEF Greatest

-------------------------------------------------------------------------------
(* Types. *)

LEMMA InitTyped == Init => TypeOK
  BY DEF Init, TypeOK, TablesTyped, CallsTyped, TxnsTyped, JobsTyped, NoCall, NoTxn, Txn,
         NoJob, Job, NoGrant, Grants, Stages, JobStages

(* The call a step settles, and what becomes of its connection. *)
LEMMA SettleTyped ==
    ASSUME TypeOK, NEW c \in Clients, NEW a, Settle(c, a),
           call[c].phase \in {"pending", "settled"},
           \/ Close(c)
           \/ (txn' = txn /\ txn[c].stage \in {"none", "over"})
    PROVE  CallsTyped' /\ TxnsTyped'
  BY DEF TypeOK, CallsTyped, TxnsTyped, Settle, Settled, Close, Move, Txn, Stages

(* A statement of a transaction moves its connection on and nothing else. *)
LEMMA MoveTyped ==
    ASSUME TypeOK, NEW c \in Clients, UNCHANGED call,
           call[c].phase = "pending", Accepted(call[c].request),
           NEW stage \in Stages, NEW v \in Nat, NEW rows, Move(c, Txn(stage, v, rows)),
           stage \in {"chosen", "inserted", "extracted"} =>
               call[c].request.op = "append" /\ v \in Ordinals
    PROVE  CallsTyped' /\ TxnsTyped'
  BY DEF TypeOK, CallsTyped, TxnsTyped, Move, Txn

(* A rebuild advances and nobody's call does. *)
LEMMA AdvanceTyped ==
    ASSUME TypeOK, UNCHANGED <<tables, call, txn>>,
           NEW w \in Rebuilders, NEW stage \in JobStages, NEW seen, NEW deleted, NEW rows,
           Advance(w, Job(stage, seen, deleted, rows))
    PROVE  TypeOK'
  BY DEF TypeOK, tables, TablesTyped, CallsTyped, TxnsTyped, JobsTyped, Advance, Job

LEMMA ClientTyped ==
    ASSUME IInv, NEW c \in Clients,
           \/ \E q \in Requests : Invoke(c, q)
           \/ Refuse(c) \/ Connect(c) \/ AppendStep(c) \/ StatementStep(c)
           \/ Fault(c) \/ LoseReply(c) \/ Return(c)
    PROVE  TypeOK'
<1> USE DEF IInv, TypeOK
<1>1. CASE \E q \in Requests : Invoke(c, q)
  BY <1>1 DEF Invoke, tables, TablesTyped, CallsTyped, TxnsTyped, JobsTyped, Asking
<1>2. CASE Refuse(c)
  <2>1. TablesTyped' /\ JobsTyped'
    BY <1>2 DEF Refuse, tables, TablesTyped, JobsTyped
  <2>2. CallsTyped' /\ TxnsTyped'
    BY <1>2, SettleTyped DEF Refuse, At
  <2> QED
    BY <2>1, <2>2
<1>3. CASE Connect(c)
  <2>1. TablesTyped' /\ JobsTyped'
    BY <1>3 DEF Connect, tables, TablesTyped, JobsTyped
  <2>2. CallsTyped' /\ TxnsTyped'
    BY <1>3, MoveTyped DEF Connect, Stages
  <2> QED
    BY <2>1, <2>2
<1>4. CASE ChooseOrdinal(c)
  <2>1. TablesTyped' /\ JobsTyped'
    BY <1>4 DEF ChooseOrdinal, tables, TablesTyped, JobsTyped
  <2>2. call[c].request.recipe \in Recipes
    BY <1>4, RequestShapes DEF ChooseOrdinal, Pending, CallsTyped
  <2>3. Last(call[c].request.recipe) + 1 \in Nat \cap Ordinals
    BY <2>2 DEF OrdinalsDense, Ordinals
  <2>4. CallsTyped' /\ TxnsTyped'
    BY <1>4, <2>3, MoveTyped DEF ChooseOrdinal, Pending, At, TxnsTyped, Stages
  <2> QED
    BY <2>1, <2>4
<1>5. CASE InsertVersion(c)
  <2>1. TablesTyped' /\ JobsTyped'
    BY <1>5 DEF InsertVersion, tables, TablesTyped, JobsTyped
  <2>2. CallsTyped' /\ TxnsTyped'
    BY <1>5, SettleTyped, MoveTyped DEF InsertVersion, Pending, At, TxnsTyped, Stages
  <2> QED
    BY <2>1, <2>2
<1>6. CASE ExtractVersion(c)
  <2>1. TablesTyped' /\ JobsTyped'
    BY <1>6 DEF ExtractVersion, tables, TablesTyped, JobsTyped
  <2>2. CallsTyped' /\ TxnsTyped'
    BY <1>6, SettleTyped, MoveTyped DEF ExtractVersion, Pending, At, TxnsTyped, Stages
  <2> QED
    BY <2>1, <2>2
<1>7. CASE CommitAppend(c)
  <2>1. WrittenBy(c) \in VersionRows
    BY <1>7, RequestShapes DEF CommitAppend, Pending, At, CallsTyped, TxnsTyped, WrittenBy,
                               VersionRows, Accepted, Unparsed
  <2>2. TablesTyped' /\ JobsTyped'
    BY <1>7, <2>1 DEF CommitAppend, TablesTyped, JobsTyped
  <2>3. CallsTyped' /\ TxnsTyped'
    BY <1>7, SettleTyped DEF CommitAppend, Pending
  <2> QED
    BY <2>2, <2>3
<1>8. CASE StatementStep(c)
  <2>1. PICK a : Settle(c, a)
    BY <1>8 DEF StatementStep, StoreSnapshot, LoadSnapshot, LoadLatestCanonical, ListLibrary,
                ReadTwoRuns, StoreCookingPlan, LoadCookingPlan, StoreCapabilityGrant,
                ResolveCapabilityGrant, RevokeCapabilityGrant
  <2>2. PICK op : Statement(c, op)
    BY <1>8 DEF StatementStep, StoreSnapshot, LoadSnapshot, LoadLatestCanonical, ListLibrary,
                ReadTwoRuns, StoreCookingPlan, LoadCookingPlan, StoreCapabilityGrant,
                ResolveCapabilityGrant, RevokeCapabilityGrant
  <2>3. CallsTyped' /\ TxnsTyped'
    BY <2>1, <2>2, SettleTyped DEF Statement, Pending
  <2>4. JobsTyped'
    BY <2>2 DEF Statement, JobsTyped
  <2>5. call[c].request \in Requests /\ Accepted(call[c].request)
    BY <2>2 DEF Statement, Pending, At, CallsTyped, TxnsTyped
  <2>6. TablesTyped'
    <3>1. CASE StoreSnapshot(c)
      BY <3>1, <2>5, RequestShapes
      DEF StoreSnapshot, Statement, Pending, TablesTyped, Accepted, Unparsed
    <3>2. CASE StoreCookingPlan(c)
      <4>1. call[c].request.op = "storePlan"
        BY <3>2 DEF StoreCookingPlan, Statement, Pending
      <4>2. [recipe |-> call[c].request.recipe, version |-> call[c].request.version,
             plan |-> call[c].request.plan] \in PlanRows
        BY <4>1, <2>5, RequestShapes DEF PlanRows, Accepted, Unparsed, NamesNoVersion
      <4> QED
        BY <3>2, <4>2 DEF StoreCookingPlan, TablesTyped
    <3>3. CASE StoreCapabilityGrant(c)
      BY <3>3, <2>5, RequestShapes
      DEF StoreCapabilityGrant, Statement, Pending, TablesTyped, Grants
    <3>4. CASE RevokeCapabilityGrant(c)
      <4>1. call[c].request.digest \in Digests
        BY <3>4, <2>5, RequestShapes DEF RevokeCapabilityGrant, Statement, Pending
      <4> QED
        BY <3>4, <4>1
        DEF RevokeCapabilityGrant, TablesTyped, Grants, NotRevoked, NoGrant
    <3>5. CASE UNCHANGED tables
      BY <3>5 DEF tables, TablesTyped
    <3> QED
      BY <1>8, <3>1, <3>2, <3>3, <3>4, <3>5
      DEF StatementStep, LoadSnapshot, LoadLatestCanonical, ListLibrary, ReadTwoRuns,
          LoadCookingPlan, ResolveCapabilityGrant
  <2> QED
    BY <2>3, <2>4, <2>6
<1>9. CASE Fault(c)
  <2>1. TablesTyped' /\ JobsTyped'
    BY <1>9 DEF Fault, tables, TablesTyped, JobsTyped
  <2>2. CallsTyped' /\ TxnsTyped'
    BY <1>9, SettleTyped DEF Fault, At
  <2> QED
    BY <2>1, <2>2
<1>10. CASE LoseReply(c)
  <2>1. TablesTyped' /\ JobsTyped'
    BY <1>10 DEF LoseReply, tables, TablesTyped, JobsTyped
  <2>2. CallsTyped' /\ TxnsTyped'
    BY <1>10, SettleTyped DEF LoseReply, At
  <2> QED
    BY <2>1, <2>2
<1>11. CASE Return(c)
  BY <1>11 DEF Return, tables, TablesTyped, CallsTyped, TxnsTyped, JobsTyped, Answered, NoTxn,
               Txn, Stages
<1> QED
  BY <1>1, <1>2, <1>3, <1>4, <1>5, <1>6, <1>7, <1>8, <1>9, <1>10, <1>11 DEF AppendStep

LEMMA NextTyped == IInv /\ [Next]_vars => TypeOK'
<1> SUFFICES ASSUME IInv, [Next]_vars PROVE TypeOK'
  OBVIOUS
<1> USE DEF IInv, TypeOK
<1>1. ASSUME NEW w \in Rebuilders,
             RebuildConnect(w) \/ RebuildStep(w) \/ RebuildFault(w)
      PROVE  TypeOK'
  <2>1. CASE CommitRebuild(w)
    BY <2>1 DEF CommitRebuild, TablesTyped, CallsTyped, TxnsTyped, JobsTyped, JobOver, Job,
                JobStages
  <2>2. CASE ExtractAll(w)
    BY <2>2, AdvanceTyped DEF ExtractAll, JobOver, JobStages
  <2> QED
    BY <1>1, <2>1, <2>2, AdvanceTyped
    DEF RebuildConnect, RebuildStep, StartDelete, LockRow, FinishDelete,
        DeadlockAbort, RebuildReturn, RebuildFault,
        JobOver, NoJob, JobStages
<1>2. CASE Crash
  BY <1>2 DEF Crash, tables, TablesTyped, CallsTyped, TxnsTyped, JobsTyped, NoCall, NoTxn,
              Txn, NoJob, Job, Stages, JobStages
<1>3. CASE UNCHANGED vars
  BY <1>3 DEF vars, TablesTyped, CallsTyped, TxnsTyped, JobsTyped
<1> QED
  BY <1>1, <1>2, <1>3, ClientTyped DEF Next
-------------------------------------------------------------------------------
(* The documents and the appends under way. *)
DocumentsInv ==
    KeysUnique /\ OrdinalsDense /\ ChosenOrdinalsFollow /\ UncommittedKeysFree /\ ExtractedRows

(* A step that leaves the documents and every append past its first        *)
(* statement alone; it may end appends.                                    *)
Quiet ==
    /\ recipe_version' = recipe_version
    /\ \A d \in Clients : txn'[d].stage \in {"chosen", "inserted", "extracted"} =>
           txn'[d] = txn[d] /\ call'[d].request = call[d].request

LEMMA QuietStep ==
    ASSUME IInv, Quiet
    PROVE  DocumentsInv'
<1> USE DEF IInv, Quiet, OrdinalsOf
<1>1. KeysUnique' /\ OrdinalsDense'
  BY DEF KeysUnique, OrdinalsDense, Last
<1>2. ChosenOrdinalsFollow'
  BY DEF ChosenOrdinalsFollow, OrdinalFollows, At, Uncommitted
<1>3. UncommittedKeysFree'
  BY DEF UncommittedKeysFree, KeyTaken, KeyHeldByOther, Uncommitted, WrittenBy
<1>4. ExtractedRows'
  BY DEF ExtractedRows, At, WrittenBy
<1> QED
  BY <1>1, <1>2, <1>3, <1>4 DEF DocumentsInv

(* A step that settles a call or ends its transaction is quiet. *)
LEMMA ClosingIsQuiet ==
    ASSUME TypeOK, NEW c \in Clients, recipe_version' = recipe_version,
           NEW a, Settle(c, a),
           \/ Close(c)
           \/ (txn' = txn /\ txn[c].stage \in {"none", "over"})
    PROVE  Quiet
  BY DEF TypeOK, CallsTyped, TxnsTyped, Quiet, Settle, Settled, Close, Move, Txn

LEMMA ChooseOrdinalStep ==
    ASSUME IInv, NEW c \in Clients, ChooseOrdinal(c)
    PROVE  DocumentsInv'
<1> DEFINE r == call[c].request.recipe
<1> USE DEF IInv
<1>1. /\ recipe_version' = recipe_version /\ call' = call
      /\ txn' = [txn EXCEPT ![c] = Txn("chosen", Last(r) + 1, {})]
  BY DEF ChooseOrdinal, tables, Move
<1>2. r \in Recipes /\ Last(r) \in Nat /\ OrdinalsOf(r) = 1..Last(r)
  BY RequestShapes DEF ChooseOrdinal, Pending, TypeOK, CallsTyped, OrdinalsDense
<1>3. KeysUnique' /\ OrdinalsDense'
  BY <1>1 DEF KeysUnique, OrdinalsDense, Last, OrdinalsOf
<1>4. ChosenOrdinalsFollow'
  <2>1. OrdinalFollows(c)'
    BY <1>1, <1>2 DEF OrdinalFollows, OrdinalsOf, Txn, TypeOK, TxnsTyped
  <2>2. \A d \in Clients \ {c} : txn'[d] = txn[d]
    BY <1>1 DEF TypeOK, TxnsTyped
  <2> QED
    BY <1>1, <2>1, <2>2 DEF ChosenOrdinalsFollow, OrdinalFollows, OrdinalsOf, At, Uncommitted
<1>5. UncommittedKeysFree' /\ ExtractedRows'
  <2>1. ~Uncommitted(c)' /\ ~At(c, "extracted")'
    BY <1>1 DEF Uncommitted, At, Txn, TypeOK, TxnsTyped
  <2>2. \A d \in Clients \ {c} : txn'[d] = txn[d]
    BY <1>1 DEF TypeOK, TxnsTyped
  <2> QED
    BY <1>1, <2>1, <2>2 DEF UncommittedKeysFree, ExtractedRows, KeyTaken, KeyHeldByOther,
                            Uncommitted, WrittenBy, At, OrdinalsOf
<1> QED
  BY <1>3, <1>4, <1>5 DEF DocumentsInv

LEMMA InsertVersionStep ==
    ASSUME IInv, NEW c \in Clients, InsertVersion(c)
    PROVE  DocumentsInv'
<1> USE DEF IInv
<1>1. recipe_version' = recipe_version
  BY DEF InsertVersion, tables
<1>2. CASE KeyTaken(WrittenBy(c).recipe, WrittenBy(c).version)
  BY <1>1, <1>2, ClosingIsQuiet, QuietStep DEF InsertVersion, KeyConflict
<1>3. CASE ~KeyTaken(WrittenBy(c).recipe, WrittenBy(c).version)
  <2>1. /\ call' = call /\ txn[c].stage = "chosen"
        /\ txn' = [txn EXCEPT ![c] = Txn("inserted", txn[c].version, {})]
    BY <1>3 DEF InsertVersion, KeyConflict, Move, At
  <2>2. /\ \A d \in Clients \ {c} : txn'[d] = txn[d]
        /\ txn'[c].version = txn[c].version /\ txn'[c].stage = "inserted"
    BY <2>1 DEF TypeOK, TxnsTyped, Txn
  <2>3. KeysUnique' /\ OrdinalsDense'
    BY <1>1 DEF KeysUnique, OrdinalsDense, Last, OrdinalsOf
  <2>4. ChosenOrdinalsFollow' /\ ExtractedRows'
    BY <1>1, <2>1, <2>2 DEF ChosenOrdinalsFollow, ExtractedRows, OrdinalFollows, OrdinalsOf,
                            At, Uncommitted, WrittenBy
  <2>5. UncommittedKeysFree'
    <3> SUFFICES ASSUME NEW d \in Clients, Uncommitted(d)'
                 PROVE  /\ ~KeyTaken(call[d].request.recipe, txn[d].version)
                        /\ ~KeyHeldByOther(d)'
      BY <1>1, <2>1, <2>2 DEF UncommittedKeysFree, KeyTaken, OrdinalsOf
    <3>1. \A e \in Clients : WrittenBy(e)' = WrittenBy(e)
      BY <2>1, <2>2 DEF WrittenBy
    <3>2. ~KeyHeldByOther(c)
      BY DEF InsertVersion
    <3>3. CASE d = c
      BY <1>3, <2>2, <3>1, <3>2, <3>3 DEF KeyHeldByOther, Uncommitted, WrittenBy
    <3>4. CASE d # c
      <4>1. Uncommitted(d)
        BY <2>2, <3>4 DEF Uncommitted
      <4>2. ~KeyTaken(call[d].request.recipe, txn[d].version) /\ ~KeyHeldByOther(d)
        BY <4>1 DEF UncommittedKeysFree
      <4>3. ~(/\ WrittenBy(c).recipe = WrittenBy(d).recipe
              /\ WrittenBy(c).version = WrittenBy(d).version)
        BY <3>2, <3>4, <4>1 DEF KeyHeldByOther
      <4> QED
        BY <2>2, <3>1, <4>2, <4>3 DEF KeyHeldByOther, Uncommitted
    <3> QED
      BY <3>3, <3>4
  <2> QED
    BY <2>3, <2>4, <2>5 DEF DocumentsInv
<1> QED
  BY <1>2, <1>3

LEMMA ExtractVersionStep ==
    ASSUME IInv, NEW c \in Clients, ExtractVersion(c)
    PROVE  DocumentsInv'
<1> USE DEF IInv
<1> DEFINE rows == RowsOf(WrittenBy(c))
<1>1. recipe_version' = recipe_version
  BY DEF ExtractVersion, tables
<1>2. CASE RowsClash(rows, ingredient)
  BY <1>1, <1>2, ClosingIsQuiet, QuietStep DEF ExtractVersion
<1>3. CASE ~RowsClash(rows, ingredient)
  <2>1. /\ call' = call /\ txn[c].stage = "inserted"
        /\ txn' = [txn EXCEPT ![c] = Txn("extracted", txn[c].version, rows)]
    BY <1>3 DEF ExtractVersion, Move, At
  <2>2. /\ \A d \in Clients \ {c} : txn'[d] = txn[d]
        /\ txn'[c].version = txn[c].version /\ txn'[c].stage = "extracted"
        /\ txn'[c].rows = rows
    BY <2>1 DEF TypeOK, TxnsTyped, Txn
  <2>3. KeysUnique' /\ OrdinalsDense'
    BY <1>1 DEF KeysUnique, OrdinalsDense, Last, OrdinalsOf
  <2>4. \A d \in Clients : /\ WrittenBy(d)' = WrittenBy(d)
                           /\ Uncommitted(d)' <=> Uncommitted(d)
    BY <2>1, <2>2 DEF WrittenBy, Uncommitted
  <2>5. ChosenOrdinalsFollow' /\ UncommittedKeysFree'
    BY <1>1, <2>1, <2>2, <2>4 DEF ChosenOrdinalsFollow, UncommittedKeysFree, OrdinalFollows,
                                  OrdinalsOf, KeyTaken, KeyHeldByOther, At, Uncommitted
  <2>6. ExtractedRows'
    BY <2>2, <2>4 DEF ExtractedRows, At, RowsOf
  <2> QED
    BY <2>3, <2>5, <2>6 DEF DocumentsInv
<1> QED
  BY <1>2, <1>3

(* The ordinal a transaction commits follows the recipe's last one.        *)
LEMMA CommitFollowsLast ==
    ASSUME IInv, NEW c \in Clients, CommitAppend(c)
    PROVE  /\ call[c].request.recipe \in Recipes /\ Uncommitted(c)
           /\ Last(call[c].request.recipe) \in Nat
           /\ txn[c].version = Last(call[c].request.recipe) + 1
<1> USE DEF IInv
<1>1. PICK r \in Recipes, v \in Nat : r = call[c].request.recipe /\ v = txn[c].version /\ v >= 1
  BY RequestShapes DEF CommitAppend, Pending, At, TypeOK, CallsTyped, TxnsTyped, Ordinals
<1>2. Uncommitted(c)
  BY DEF CommitAppend, At, Uncommitted
<1>3. v \notin OrdinalsOf(r) /\ 1..(v - 1) \subseteq OrdinalsOf(r)
  BY <1>1, <1>2 DEF UncommittedKeysFree, KeyTaken, ChosenOrdinalsFollow, OrdinalFollows
<1>4. Last(r) \in Nat /\ OrdinalsOf(r) = 1..Last(r)
  BY DEF OrdinalsDense
<1>5. v \notin 1..Last(r) /\ 1..(v - 1) \subseteq 1..Last(r)
  BY <1>3, <1>4
<1>6. v > Last(r)
  BY <1>1, <1>4, <1>5
<1>7. v - 1 <= Last(r)
  <2>1. CASE v = 1
    BY <1>4, <2>1
  <2>2. CASE v # 1
    <3>1. v - 1 \in 1..(v - 1)
      BY <1>1, <2>2
    <3> QED
      BY <1>4, <1>5, <3>1
  <2> QED
    BY <2>1, <2>2
<1>8. v = Last(r) + 1
  BY <1>4, <1>6, <1>7
<1> QED
  BY <1>1, <1>2, <1>4, <1>8

(* A commit adds that ordinal.                                             *)
LEMMA CommitAppendStep ==
    ASSUME IInv, NEW c \in Clients, CommitAppend(c)
    PROVE  DocumentsInv'
<1> USE DEF IInv
<1>w. PICK x : x = WrittenBy(c)
  OBVIOUS
<1>a. PICK r \in Recipes, v \in Nat : r = call[c].request.recipe /\ v = txn[c].version
  BY CommitFollowsLast
<1>1. /\ recipe_version' = recipe_version \cup {x}
      /\ x.recipe = r /\ x.version = v
      /\ Uncommitted(c)
  BY <1>a, <1>w DEF CommitAppend, WrittenBy, At, Uncommitted
<1>2. v \notin OrdinalsOf(r)
  BY <1>a, <1>1 DEF UncommittedKeysFree, KeyTaken
<1>3. Last(r) \in Nat /\ OrdinalsOf(r) = 1..Last(r)
  BY <1>1 DEF OrdinalsDense
<1>4. v = Last(r) + 1
  BY <1>a, CommitFollowsLast
<1>5. OrdinalsOf(r)' = OrdinalsOf(r) \cup {v}
  BY <1>1 DEF OrdinalsOf
<1>6. \A s \in Recipes \ {r} : OrdinalsOf(s)' = OrdinalsOf(s)
  BY <1>1 DEF OrdinalsOf
<1>7. KeysUnique'
  <2>1. \A y \in recipe_version : ~(y.recipe = x.recipe /\ y.version = x.version)
    BY <1>1, <1>2 DEF OrdinalsOf
  <2> QED
    BY <1>1, <2>1 DEF KeysUnique
<1>8. OrdinalsDense'
  <2>1. OrdinalsOf(r)' = 1..v
    BY <1>1, <1>3, <1>4, <1>5
  <2>2. Last(r)' = v
    BY <1>1, <2>1, GreatestOfRun DEF Last
  <2>3. \A s \in Recipes \ {r} : Last(s)' = Last(s)
    BY <1>6 DEF Last
  <2> QED
    BY <1>1, <1>6, <2>1, <2>2, <2>3 DEF OrdinalsDense
<1>9. \A s : OrdinalsOf(s) \subseteq OrdinalsOf(s)'
  BY <1>1 DEF OrdinalsOf
<1>10. /\ txn'[c].stage = "over"
       /\ \A d \in Clients \ {c} : txn'[d] = txn[d] /\ call'[d] = call[d]
  BY DEF CommitAppend, Close, Move, Txn, Settle, TypeOK, TxnsTyped, CallsTyped
<1>11. ChosenOrdinalsFollow' /\ ExtractedRows'
  BY <1>9, <1>10 DEF ChosenOrdinalsFollow, OrdinalFollows, ExtractedRows, At, Uncommitted,
                     WrittenBy
<1>12. UncommittedKeysFree'
  <2> SUFFICES ASSUME NEW d \in Clients \ {c}, Uncommitted(d)
               PROVE  /\ ~KeyTaken(call[d].request.recipe, txn[d].version)'
                      /\ ~KeyHeldByOther(d)'
    BY <1>10 DEF UncommittedKeysFree, Uncommitted
  <2>1. ~KeyTaken(call[d].request.recipe, txn[d].version) /\ ~KeyHeldByOther(d)
    BY DEF UncommittedKeysFree
  <2>2. ~(call[d].request.recipe = r /\ txn[d].version = v)
    BY <1>a, <1>w, <1>1, <2>1 DEF KeyHeldByOther, WrittenBy
  <2>3. ~KeyTaken(call[d].request.recipe, txn[d].version)'
    BY <1>1, <1>10, <2>1, <2>2 DEF KeyTaken, OrdinalsOf
  <2>4. ~KeyHeldByOther(d)'
    BY <1>10, <2>1 DEF KeyHeldByOther, Uncommitted, WrittenBy
  <2> QED
    BY <2>3, <2>4
<1> QED
  BY <1>7, <1>8, <1>11, <1>12 DEF DocumentsInv

-------------------------------------------------------------------------------
(* The projection. *)

LEMMA ExtractionGrows ==
    ASSUME NEW rows, NEW x
    PROVE  Extraction(rows \cup {x}) = Extraction(rows) \cup RowsOf(x)
  BY DEF Extraction

(* What a rebuild extracts without a clash is what it deleted.             *)
LEMMA CleanExtraction ==
    ASSUME IInv, NEW w \in Rebuilders,
           ~RowsClash(Extraction(recipe_version), ingredient \ job[w].deleted)
    PROVE  Extraction(recipe_version) = job[w].deleted
<1>1. Extraction(recipe_version) = ingredient /\ job[w].deleted \subseteq ingredient
  BY DEF IInv, ProjectionAgrees, JobRows
<1>2. \A y \in ingredient : y \in job[w].deleted
  BY <1>1 DEF RowsClash
<1> QED
  BY <1>1, <1>2

(* Its locks go, and the rows it deleted go from what the others saw.      *)
LEMMA CommitRebuildJobs ==
    ASSUME NEW w \in Rebuilders, CommitRebuild(w), NEW u \in Rebuilders
    PROVE  \/ job'[u].seen = {} /\ job'[u].deleted = {} /\ job'[u].stage = "over"
           \/ /\ job'[u].seen = job[u].seen \ job[w].deleted
              /\ job'[u].deleted = job[u].deleted
              /\ job'[u].rows = job[u].rows
              /\ job'[u].stage = job[u].stage
<1>1. CASE u = w
  BY <1>1 DEF CommitRebuild, JobOver, Job
<1>2. CASE u # w
  <2>1. job'[u] = Job(job[u].stage, job[u].seen \ job[w].deleted, job[u].deleted, job[u].rows)
    BY <1>2 DEF CommitRebuild
  <2> QED
    BY <2>1 DEF Job
<1> QED
  BY <1>1, <1>2

(* A committing rebuild puts back every row it took out.                   *)
LEMMA CommitRebuildKeeps ==
    ASSUME IInv, NEW w \in Rebuilders, CommitRebuild(w)
    PROVE  ingredient' = ingredient
  BY DEF IInv, JobRows, CommitRebuild

LEMMA ProjectionStep ==
    IInv /\ [Next]_vars => ProjectionAgrees'
<1> SUFFICES ASSUME IInv, [Next]_vars PROVE ProjectionAgrees'
  OBVIOUS
<1> USE DEF IInv, ProjectionAgrees
<1>1. CASE \E c \in Clients : CommitAppend(c)
  <2>1. PICK c \in Clients : CommitAppend(c)
    BY <1>1
  <2>2. /\ recipe_version' = recipe_version \cup {WrittenBy(c)}
        /\ ingredient' = ingredient \cup RowsOf(WrittenBy(c))
    BY <2>1 DEF CommitAppend, ExtractedRows
  <2>3. Extraction(recipe_version') = Extraction(recipe_version) \cup RowsOf(WrittenBy(c))
    BY <2>2, ExtractionGrows
  <2> QED
    BY <2>2, <2>3 DEF Extraction, RowsOf
<1>2. CASE \E w \in Rebuilders : CommitRebuild(w)
  <2>1. ingredient' = ingredient /\ recipe_version' = recipe_version
    BY <1>2, CommitRebuildKeeps DEF CommitRebuild
  <2> QED
    BY <2>1 DEF Extraction, RowsOf
<1>3. CASE UNCHANGED <<recipe_version, ingredient>>
  BY <1>3 DEF Extraction, RowsOf
<1> QED
  BY <1>1, <1>2, <1>3
  DEF Next, vars, tables, Invoke, Refuse, Connect, AppendStep, ChooseOrdinal, InsertVersion,
      ExtractVersion, StatementStep, StoreSnapshot, LoadSnapshot, LoadLatestCanonical,
      ListLibrary, ReadTwoRuns, StoreCookingPlan, LoadCookingPlan, StoreCapabilityGrant,
      ResolveCapabilityGrant, RevokeCapabilityGrant, Fault, LoseReply, Return, Crash,
      RebuildConnect, RebuildStep, StartDelete, LockRow, FinishDelete,
      DeadlockAbort, ExtractAll, RebuildFault,
      RebuildReturn
-------------------------------------------------------------------------------
(* Rebuilds against each other and against appends. *)
LEMMA JobRowsStep == IInv /\ [Next]_vars => JobRows'
<1> SUFFICES ASSUME IInv, [Next]_vars PROVE JobRows'
  OBVIOUS
<1> USE DEF IInv, JobRows, TypeOK, JobsTyped
<1>1. ASSUME NEW w \in Rebuilders, LockRow(w) PROVE JobRows'
  <2>1. PICK x \in job[w].seen \ HeldByOthers(w) :
           job'[w] = Job("deleting", job[w].seen \ {x}, job[w].deleted \cup {x}, {})
    BY <1>1 DEF LockRow, Advance
  <2>2. \A u \in Rebuilders \ {w} : job'[u] = job[u] /\ x \notin job[u].deleted
    BY <1>1, <2>1 DEF LockRow, Advance, HeldByOthers
  <2>3. ingredient' = ingredient
    BY <1>1 DEF LockRow, tables
  <2> QED
    BY <2>1, <2>2, <2>3 DEF Job
<1>10. ASSUME NEW w \in Rebuilders, FinishDelete(w) PROVE JobRows'
  <2>1. \A u \in Rebuilders \ {w} : job'[u] = job[u]
    BY <1>10 DEF FinishDelete, Advance
  <2>2. job'[w] = Job("deleted", {}, job[w].deleted, {}) /\ ingredient' = ingredient
    BY <1>10 DEF FinishDelete, Advance, tables
  <2> QED
    BY <2>1, <2>2 DEF Job
<1>2. ASSUME NEW w \in Rebuilders, ExtractAll(w) PROVE JobRows'
  <2>1. \A u \in Rebuilders \ {w} : job'[u] = job[u]
    BY <1>2 DEF ExtractAll, Advance
  <2>2. ingredient' = ingredient
    BY <1>2 DEF ExtractAll, tables
  <2>3. CASE job'[w] = JobOver
    BY <2>1, <2>2, <2>3 DEF JobOver, Job
  <2>4. CASE /\ ~RowsClash(Extraction(recipe_version), Kept(w))
             /\ job'[w] = Job("extracted", {}, job[w].deleted, Extraction(recipe_version))
    <3>1. Extraction(recipe_version) = job[w].deleted
      BY <2>4, CleanExtraction DEF Kept
    <3> QED
      BY <2>1, <2>2, <2>4, <3>1 DEF Job
  <2> QED
    BY <1>2, <2>3, <2>4 DEF ExtractAll, Advance
<1>3. ASSUME NEW w \in Rebuilders, CommitRebuild(w) PROVE JobRows'
  <2>1. ingredient' = ingredient
    BY <1>3, CommitRebuildKeeps
  <2> QED
    BY <1>3, <2>1, CommitRebuildJobs
<1>4. ASSUME NEW w \in Rebuilders, StartDelete(w) PROVE JobRows'
  <2>1. \A u \in Rebuilders \ {w} : job'[u] = job[u]
    BY <1>4 DEF StartDelete, Advance
  <2>2. job'[w] = Job("deleting", ingredient, {}, {}) /\ ingredient' = ingredient
    BY <1>4 DEF StartDelete, Advance, tables
  <2> QED
    BY <2>1, <2>2 DEF Job
<1>5. ASSUME NEW w \in Rebuilders,
             RebuildConnect(w) \/ RebuildFault(w) \/ RebuildReturn(w) \/ DeadlockAbort(w)
      PROVE  JobRows'
  <2>1. \A u \in Rebuilders \ {w} : job'[u] = job[u]
    BY <1>5 DEF RebuildConnect, RebuildFault, RebuildReturn, DeadlockAbort, Advance
  <2>2. PICK stage \in {"idle", "open", "over"} : job'[w] = Job(stage, {}, {}, {})
    BY <1>5 DEF RebuildConnect, RebuildFault, RebuildReturn, DeadlockAbort, Advance, JobOver, NoJob
  <2>3. ingredient' = ingredient
    BY <1>5 DEF RebuildConnect, RebuildFault, RebuildReturn, DeadlockAbort, tables
  <2> QED
    BY <2>1, <2>2, <2>3 DEF Job
<1>6. CASE Crash
  BY <1>6 DEF Crash, tables, NoJob, Job
<1>7. CASE job' = job /\ ingredient \subseteq ingredient'
  BY <1>7
<1>8. ASSUME NEW c \in Clients,
             \/ \E q \in Requests : Invoke(c, q)
             \/ Refuse(c) \/ Connect(c) \/ AppendStep(c) \/ StatementStep(c)
             \/ Fault(c) \/ LoseReply(c) \/ Return(c)
      PROVE  job' = job /\ ingredient \subseteq ingredient'
  BY <1>8
  DEF tables, Invoke, Refuse, Connect, AppendStep, ChooseOrdinal, InsertVersion,
      ExtractVersion, CommitAppend, StatementStep, Statement, StoreSnapshot, LoadSnapshot,
      LoadLatestCanonical, ListLibrary, ReadTwoRuns, StoreCookingPlan, LoadCookingPlan,
      StoreCapabilityGrant, ResolveCapabilityGrant, RevokeCapabilityGrant, Fault, LoseReply,
      Return
<1>9. CASE UNCHANGED vars
  BY <1>7, <1>9 DEF vars
<1> QED
  BY <1>1, <1>2, <1>3, <1>4, <1>5, <1>6, <1>7, <1>8, <1>9, <1>10 DEF Next, RebuildStep

LEMMA DocumentsStep == IInv /\ [Next]_vars => DocumentsInv'
<1> SUFFICES ASSUME IInv, [Next]_vars PROVE DocumentsInv'
  OBVIOUS
<1>1. ASSUME NEW c \in Clients, AppendStep(c) PROVE DocumentsInv'
  BY <1>1, ChooseOrdinalStep, InsertVersionStep, ExtractVersionStep, CommitAppendStep
  DEF AppendStep
<1>2. ASSUME NEW c \in Clients, StatementStep(c) PROVE DocumentsInv'
  <2>1. PICK a : Settle(c, a)
    BY <1>2 DEF StatementStep, StoreSnapshot, LoadSnapshot, LoadLatestCanonical, ListLibrary,
                ReadTwoRuns, StoreCookingPlan, LoadCookingPlan, StoreCapabilityGrant,
                ResolveCapabilityGrant, RevokeCapabilityGrant
  <2>2. Close(c) /\ recipe_version' = recipe_version
    BY <1>2 DEF StatementStep, Statement, StoreSnapshot, LoadSnapshot, LoadLatestCanonical,
                ListLibrary, ReadTwoRuns, StoreCookingPlan, LoadCookingPlan,
                StoreCapabilityGrant, ResolveCapabilityGrant, RevokeCapabilityGrant, tables
  <2> QED
    BY <2>1, <2>2, ClosingIsQuiet, QuietStep DEF IInv
<1>3. ASSUME NEW c \in Clients, Refuse(c) \/ Fault(c) \/ LoseReply(c) PROVE DocumentsInv'
  <2>1. PICK a : Settle(c, a)
    BY <1>3 DEF Refuse, Fault, LoseReply
  <2>2. recipe_version' = recipe_version
    BY <1>3 DEF Refuse, Fault, LoseReply, tables
  <2>3. Close(c) \/ (txn' = txn /\ txn[c].stage \in {"none", "over"})
    <3>1. CASE Refuse(c)
      BY <3>1 DEF Refuse, At
    <3>2. CASE Fault(c)
      BY <3>2 DEF Fault, At
    <3>3. CASE LoseReply(c)
      BY <3>3 DEF LoseReply, At
    <3> QED
      BY <1>3, <3>1, <3>2, <3>3
  <2>4. Quiet
    BY <2>1, <2>2, <2>3, ClosingIsQuiet DEF IInv
  <2> QED
    BY <2>4, QuietStep
<1>4. ASSUME NEW c \in Clients, (\E q \in Requests : Invoke(c, q)) \/ Connect(c) \/ Return(c)
      PROVE  DocumentsInv'
  <2>1. Quiet
    BY <1>4
    DEF Quiet, Invoke, Connect, Move, Return, Answered, NoTxn, Txn, tables, IInv, TypeOK,
        CallsTyped, TxnsTyped
  <2> QED
    BY <2>1, QuietStep
<1>5. ASSUME \/ \E w \in Rebuilders : RebuildConnect(w) \/ RebuildStep(w) \/ RebuildFault(w)
             \/ Crash \/ UNCHANGED vars
      PROVE  DocumentsInv'
  <2>1. CASE Crash
    BY <2>1, QuietStep DEF Quiet, Crash, NoTxn, Txn, tables
  <2>2. CASE UNCHANGED <<recipe_version, call, txn>>
    BY <2>2, QuietStep DEF Quiet
  <2>3. UNCHANGED vars => UNCHANGED <<recipe_version, call, txn>>
    BY DEF vars
  <2>4. ASSUME NEW w \in Rebuilders, RebuildConnect(w) \/ RebuildStep(w) \/ RebuildFault(w)
        PROVE  UNCHANGED <<recipe_version, call, txn>>
    BY <2>4
    DEF RebuildConnect, RebuildStep, StartDelete, LockRow, FinishDelete,
        DeadlockAbort, ExtractAll, CommitRebuild,
        RebuildReturn, RebuildFault, tables
  <2> QED
    BY <1>5, <2>1, <2>2, <2>3, <2>4
<1> QED
  BY <1>1, <1>2, <1>3, <1>4, <1>5 DEF Next

-------------------------------------------------------------------------------
LEMMA InitIInv == Init => IInv
<1> SUFFICES ASSUME Init PROVE IInv
  OBVIOUS
<1>1. \A r \in Recipes : OrdinalsOf(r) = {} /\ 1..0 = {}
  BY DEF Init, OrdinalsOf
<1>2. \A r \in Recipes : Last(r) = 0
  BY <1>1, GreatestOfRun DEF Last
<1>3. KeysUnique
  BY DEF Init, KeysUnique
<1>4. OrdinalsDense
  <2> SUFFICES ASSUME NEW r \in Recipes PROVE Last(r) \in Nat /\ OrdinalsOf(r) = 1..Last(r)
    BY DEF OrdinalsDense
  <2>1. Last(r) = 0 /\ OrdinalsOf(r) = 1..0
    BY <1>1, <1>2
  <2> QED
    BY <2>1
<1>5. ChosenOrdinalsFollow /\ UncommittedKeysFree /\ ExtractedRows
  BY DEF Init, ChosenOrdinalsFollow, UncommittedKeysFree, ExtractedRows, At, Uncommitted,
         NoTxn, Txn
<1>6. ProjectionAgrees /\ JobRows
  BY DEF Init, ProjectionAgrees, Extraction, JobRows, NoJob, Job
<1> QED
  BY <1>3, <1>4, <1>5, <1>6, InitTyped DEF IInv

LEMMA NextIInv == IInv /\ [Next]_vars => IInv'
  BY NextTyped, DocumentsStep, ProjectionStep, JobRowsStep DEF IInv, DocumentsInv

(* The inductive invariant holds of every behaviour of the store.          *)
THEOREM StoreInvariant == Spec => []IInv
  BY InitIInv, NextIInv, PTL DEF Spec

(* Types, for every number of callers and every pool. *)
THEOREM StoreTyped == Spec => []TypeOK
<1>1. IInv => TypeOK
  BY DEF IInv
<1> QED
  BY <1>1, StoreInvariant, PTL

(* ADR-0015 commitment 2: whatever appends and rebuilds interleave, fail or *)
(* die, the ingredient table holds exactly what the documents yield.       *)
THEOREM ProjectionNeverDisagrees == Spec => []ProjectionAgrees
<1>1. IInv => ProjectionAgrees
  BY DEF IInv
<1> QED
  BY <1>1, StoreInvariant, PTL

(* The store-assigned ordinals of a recipe are 1, 2, ... without a gap and *)
(* without a second document under one ordinal, for any number of racing   *)
(* appends.                                                                *)
THEOREM VersionsStayNumbered == Spec => []VersionsNumbered
<1>1. IInv => VersionsNumbered
  BY DEF IInv, VersionsNumbered
<1> QED
  BY <1>1, StoreInvariant, PTL

(* A rebuild that commits changes not a single row of the projection.      *)
THEOREM RebuildsChangeNothing == Spec => RebuildChangesNothing
<1>1. IInv /\ [Next]_vars =>
        [\A w \in Rebuilders : CommitRebuild(w) => ingredient' = ingredient]_vars
  BY CommitRebuildKeeps
<1> QED
  BY <1>1, StoreInvariant, PTL DEF Spec, RebuildChangesNothing

-------------------------------------------------------------------------------
(* Only the commit of an append writes recipe_version, and it only adds.   *)
LEMMA VersionsOnlyGrow == [Next]_vars => recipe_version \subseteq recipe_version'
<1> SUFFICES ASSUME [Next]_vars PROVE recipe_version \subseteq recipe_version'
  OBVIOUS
<1>1. ASSUME NEW c \in Clients, AppendStep(c)
      PROVE  recipe_version \subseteq recipe_version'
  BY <1>1 DEF AppendStep, ChooseOrdinal, InsertVersion, ExtractVersion, CommitAppend, tables
<1>2. ASSUME NEW c \in Clients, StatementStep(c)
      PROVE  recipe_version' = recipe_version
  BY <1>2 DEF StatementStep, StoreSnapshot, LoadSnapshot, LoadLatestCanonical, ListLibrary,
              ReadTwoRuns, StoreCookingPlan, LoadCookingPlan, StoreCapabilityGrant,
              ResolveCapabilityGrant, RevokeCapabilityGrant, tables
<1>3. ASSUME NEW c \in Clients,
             \/ \E q \in Requests : Invoke(c, q)
             \/ Refuse(c) \/ Connect(c) \/ Fault(c) \/ LoseReply(c) \/ Return(c)
      PROVE  recipe_version' = recipe_version
  BY <1>3 DEF Invoke, Refuse, Connect, Fault, LoseReply, Return, tables
<1>4. ASSUME NEW w \in Rebuilders, RebuildConnect(w) \/ RebuildStep(w) \/ RebuildFault(w)
      PROVE  recipe_version' = recipe_version
  BY <1>4 DEF RebuildConnect, RebuildStep, RebuildFault, StartDelete, LockRow, FinishDelete,
              DeadlockAbort, ExtractAll,
              CommitRebuild, RebuildReturn, tables
<1>5. Crash \/ UNCHANGED vars => recipe_version' = recipe_version
  BY DEF Crash, tables, vars
<1> QED
  BY <1>1, <1>2, <1>3, <1>4, <1>5 DEF Next

(* Versions are append only, whatever else runs, fails or dies beside the  *)
(* append.                                                                 *)
THEOREM VersionsAreAppendOnly == Spec => AppendOnly
<1>1. [Next]_vars => [recipe_version \subseteq recipe_version']_vars
  BY VersionsOnlyGrow
<1> QED
  BY <1>1, PTL DEF Spec, AppendOnly

(* Only a mint and a revocation write a grant; neither touches one that is *)
(* taken but to revoke it.                                                 *)
GrantsDie ==
    \A d \in Digests : capability_grant[d] # NoGrant =>
        /\ capability_grant'[d].recipe = capability_grant[d].recipe
        /\ capability_grant[d].revoked => capability_grant'[d].revoked

LEMMA GrantSteps == TypeOK /\ [Next]_vars => GrantsDie
<1> SUFFICES ASSUME TypeOK, [Next]_vars PROVE GrantsDie
  OBVIOUS
<1>0. capability_grant' = capability_grant => GrantsDie
  BY DEF GrantsDie
<1>t. capability_grant \in [Digests -> Grants]
  BY DEF TypeOK, TablesTyped
<1>1. ASSUME NEW c \in Clients, AppendStep(c)
      PROVE  capability_grant' = capability_grant
  BY <1>1 DEF AppendStep, ChooseOrdinal, InsertVersion, ExtractVersion, CommitAppend, tables
<1>2. ASSUME NEW c \in Clients, StoreCapabilityGrant(c)
      PROVE  GrantsDie
  BY <1>2, <1>t DEF StoreCapabilityGrant, Free, GrantsDie
<1>3. ASSUME NEW c \in Clients, RevokeCapabilityGrant(c)
      PROVE  GrantsDie
  BY <1>3, <1>t DEF RevokeCapabilityGrant, GrantsDie, Grants, NoGrant
<1>4. ASSUME NEW c \in Clients, StatementStep(c),
             ~StoreCapabilityGrant(c), ~RevokeCapabilityGrant(c)
      PROVE  capability_grant' = capability_grant
  BY <1>4 DEF StatementStep, StoreSnapshot, LoadSnapshot, LoadLatestCanonical, ListLibrary,
              ReadTwoRuns, StoreCookingPlan, LoadCookingPlan, ResolveCapabilityGrant, tables
<1>5. ASSUME NEW c \in Clients,
             \/ \E q \in Requests : Invoke(c, q)
             \/ Refuse(c) \/ Connect(c) \/ Fault(c) \/ LoseReply(c) \/ Return(c)
      PROVE  capability_grant' = capability_grant
  BY <1>5 DEF Invoke, Refuse, Connect, Fault, LoseReply, Return, tables
<1>6. ASSUME NEW w \in Rebuilders, RebuildConnect(w) \/ RebuildStep(w) \/ RebuildFault(w)
      PROVE  capability_grant' = capability_grant
  BY <1>6 DEF RebuildConnect, RebuildStep, RebuildFault, StartDelete, LockRow, FinishDelete,
              DeadlockAbort, ExtractAll,
              CommitRebuild, RebuildReturn, tables
<1>7. Crash \/ UNCHANGED vars => capability_grant' = capability_grant
  BY DEF Crash, tables, vars
<1> QED
  BY <1>0, <1>1, <1>2, <1>3, <1>4, <1>5, <1>6, <1>7 DEF Next

(* A revoked grant is never revived and a grant never changes its recipe,  *)
(* for any number of racing mints and revocations.                         *)
THEOREM GrantsNeverRevive == Spec => GrantsOnlyDie
<1>1. TypeOK /\ [Next]_vars => [GrantsDie]_vars
  BY GrantSteps
<1> QED
  BY <1>1, StoreTyped, PTL DEF Spec, GrantsOnlyDie, GrantsDie

-------------------------------------------------------------------------------
(* What callers were told.  An answer is fixed when a call settles; from   *)
(* then on it only travels to the caller, or is lost.                      *)
Told(c) == call[c].phase \in {"settled", "returned"}

StillTold(c) ==
    /\ Told(c) /\ call'[c].request = call[c].request
    /\ call'[c].answer = call[c].answer \/ call'[c].answer = Failed
GivenUp(c) == call'[c].answer \in {Failed, Invalid, Unversioned}

LEMMA AnswersTravel ==
    ASSUME TypeOK, [Next]_vars, NEW d \in Clients, Told(d)'
    PROVE  \/ StillTold(d) \/ GivenUp(d)
           \/ (CommitAppend(d) \/ StatementStep(d)) /\ call'[d].request = call[d].request
<1>t. call = [c \in Clients |-> call[c]]
  BY DEF TypeOK, CallsTyped
<1>0. call' = call => StillTold(d)
  BY DEF Told, StillTold
<1>1. ASSUME NEW c \in Clients, c # d, call' = [call EXCEPT ![c] = call'[c]]
      PROVE  StillTold(d)
  BY <1>1, <1>t DEF Told, StillTold
<1>2. ASSUME NEW c \in Clients, NEW a, Settle(c, a), c # d
      PROVE  StillTold(d)
  BY <1>1, <1>2, <1>t DEF Settle
<1>3. ASSUME NEW a, Settle(d, a)
      PROVE  call'[d].request = call[d].request /\ call'[d].answer = a
  BY <1>3, <1>t DEF Settle, Settled
<1>4. ASSUME NEW c \in Clients, AppendStep(c)
      PROVE  call' = call \/ Settle(c, Failed) \/ (CommitAppend(c) /\ \E a : Settle(c, a))
  BY <1>4 DEF AppendStep, ChooseOrdinal, InsertVersion, ExtractVersion, CommitAppend
<1>5. ASSUME NEW c \in Clients, StatementStep(c)
      PROVE  \E a : Settle(c, a)
  BY <1>5 DEF StatementStep, StoreSnapshot, LoadSnapshot, LoadLatestCanonical, ListLibrary,
              ReadTwoRuns, StoreCookingPlan, LoadCookingPlan, StoreCapabilityGrant,
              ResolveCapabilityGrant, RevokeCapabilityGrant
<1>6. ASSUME NEW c \in Clients, NEW q \in Requests, Invoke(c, q)
      PROVE  c # d /\ StillTold(d)
  <2>1. c # d
    BY <1>6, <1>t DEF Invoke, Asking, Told
  <2> QED
    BY <1>6, <1>t, <2>1 DEF Invoke, Told, StillTold
<1>7. ASSUME NEW c \in Clients, Refuse(c) \/ Fault(c) \/ LoseReply(c)
      PROVE  Settle(c, Failed) \/ Settle(c, Invalid) \/ Settle(c, Unversioned)
  BY <1>7 DEF Refuse, Fault, LoseReply
<1>8. ASSUME NEW c \in Clients, Connect(c)
      PROVE  call' = call
  BY <1>8 DEF Connect
<1>9. ASSUME NEW c \in Clients, Return(c)
      PROVE  StillTold(d)
  BY <1>9, <1>t DEF Return, Answered, Told, StillTold
<1>10. ASSUME NEW w \in Rebuilders, RebuildConnect(w) \/ RebuildStep(w) \/ RebuildFault(w)
       PROVE  call' = call
  BY <1>10 DEF RebuildConnect, RebuildStep, RebuildFault, StartDelete, LockRow, FinishDelete,
               DeadlockAbort, ExtractAll,
               CommitRebuild, RebuildReturn
<1>11. ~Crash
  BY DEF Crash, Told, NoCall
<1>12. UNCHANGED vars => call' = call
  BY DEF vars
<1>13. ASSUME NEW c \in Clients, NEW a, Settle(c, a), a \in {Failed, Invalid, Unversioned}
       PROVE  StillTold(d) \/ GivenUp(d)
  BY <1>2, <1>3, <1>13 DEF GivenUp
<1>14. ASSUME NEW c \in Clients, AppendStep(c) \/ StatementStep(c)
       PROVE  \/ StillTold(d) \/ GivenUp(d)
              \/ (CommitAppend(d) \/ StatementStep(d)) /\ call'[d].request = call[d].request
  BY <1>0, <1>2, <1>3, <1>4, <1>5, <1>13, <1>14
<1> QED
  BY <1>0, <1>6, <1>7, <1>8, <1>9, <1>10, <1>11, <1>12, <1>13, <1>14 DEF Next

(* An append that was told of its version has its row, and the row's key   *)
(* is its own.                                                             *)
Acknowledged(c) == Told(c) /\ call[c].request.op = "append" /\ call[c].answer.kind = "version"
RowOf(c) == [recipe |-> call[c].request.recipe, version |-> call[c].answer.version,
             body |-> call[c].request.body]
AppendsHeld ==
    \A c \in Clients : Acknowledged(c) =>
        /\ call[c].answer.recipe = call[c].request.recipe
        /\ RowOf(c) \in recipe_version
        /\ \A d \in Clients \ {c} :
              Acknowledged(d) /\ call[d].answer.recipe = call[c].answer.recipe =>
                  call[d].answer.version # call[c].answer.version

LEMMA NewlyAcknowledged ==
    ASSUME IInv, [Next]_vars, NEW c \in Clients, Acknowledged(c)'
    PROVE  \/ Acknowledged(c) /\ call'[c].request = call[c].request
                              /\ call'[c].answer = call[c].answer
           \/ CommitAppend(c)
<1>0. call'[c].answer.kind = "version"
  BY DEF Acknowledged
<1>a. Failed.kind # "version" /\ Invalid.kind # "version" /\ Unversioned.kind # "version"
  BY DEF Failed, Invalid, Unversioned, Refused
<1>1. ~GivenUp(c) /\ call'[c].answer # Failed
  BY <1>0, <1>a DEF GivenUp
<1>2. CASE StillTold(c)
  BY <1>1, <1>2 DEF StillTold, Acknowledged
<1>3. ASSUME StatementStep(c), call'[c].request = call[c].request
      PROVE  FALSE
  BY <1>3 DEF StatementStep, StoreSnapshot, LoadSnapshot, LoadLatestCanonical, ListLibrary,
              ReadTwoRuns, StoreCookingPlan, LoadCookingPlan, StoreCapabilityGrant,
              ResolveCapabilityGrant, RevokeCapabilityGrant, Statement, Pending, Acknowledged
<1> QED
  BY <1>1, <1>2, <1>3, AnswersTravel DEF IInv, Acknowledged

LEMMA CommitTells ==
    ASSUME IInv, NEW c \in Clients, CommitAppend(c)
    PROVE  /\ call'[c].request = call[c].request /\ call'[c].answer.version = txn[c].version
           /\ call'[c].answer.recipe = call[c].request.recipe
           /\ WrittenBy(c) \in recipe_version'
           /\ WrittenBy(c) = RowOf(c)'
           /\ \A d \in Clients \ {c} : call'[d] = call[d]
           /\ ~KeyTaken(call[c].request.recipe, txn[c].version)
<1>1. call = [d \in Clients |-> call[d]]
  BY DEF IInv, TypeOK, CallsTyped
<1>2. call' = [call EXCEPT ![c] = Settled(call[c].request,
                  Version(WrittenBy(c).recipe, WrittenBy(c).version, WrittenBy(c).body))]
  BY DEF CommitAppend, Settle
<1>3. ~KeyTaken(call[c].request.recipe, txn[c].version)
  BY DEF IInv, UncommittedKeysFree, CommitAppend, At, Uncommitted
<1>4. /\ call'[c].request = call[c].request
      /\ call'[c].answer = Version(WrittenBy(c).recipe, WrittenBy(c).version, WrittenBy(c).body)
      /\ \A d \in Clients \ {c} : call'[d] = call[d]
  BY <1>1, <1>2 DEF Settled
<1>5. WrittenBy(c) \in recipe_version'
  BY DEF CommitAppend
<1> QED
  BY <1>3, <1>4, <1>5 DEF Version, WrittenBy, RowOf

LEMMA AppendsHeldStep == IInv /\ AppendsHeld /\ [Next]_vars => AppendsHeld'
<1> SUFFICES ASSUME IInv, AppendsHeld, [Next]_vars, NEW c \in Clients, Acknowledged(c)'
             PROVE  /\ call'[c].answer.recipe = call'[c].request.recipe
                    /\ RowOf(c)' \in recipe_version'
                    /\ \A d \in Clients \ {c} :
                          Acknowledged(d)' /\ call'[d].answer.recipe = call'[c].answer.recipe =>
                              call'[d].answer.version # call'[c].answer.version
  BY DEF AppendsHeld
<1>1. recipe_version \subseteq recipe_version'
  BY VersionsOnlyGrow
<1>2. ASSUME NEW e \in Clients, Acknowledged(e), call'[e].request = call[e].request,
             call'[e].answer = call[e].answer
      PROVE  call'[e].answer.recipe = call'[e].request.recipe /\ RowOf(e)' \in recipe_version'
  BY <1>1, <1>2 DEF AppendsHeld, RowOf
<1>3. ASSUME NEW e \in Clients, Acknowledged(e)
      PROVE  KeyTaken(call[e].answer.recipe, call[e].answer.version)
  <2>1. RowOf(e) \in recipe_version /\ RowOf(e).recipe = call[e].answer.recipe
    BY <1>3 DEF AppendsHeld, RowOf
  <2>2. RowOf(e).version = call[e].answer.version
    BY DEF RowOf
  <2> HIDE DEF RowOf
  <2> QED
    BY <2>1, <2>2 DEF KeyTaken, OrdinalsOf
<1>4. call'[c].answer.recipe = call'[c].request.recipe /\ RowOf(c)' \in recipe_version'
  BY <1>2, NewlyAcknowledged, CommitTells
<1>5. ASSUME NEW d \in Clients \ {c}, Acknowledged(d)',
             call'[d].answer.recipe = call'[c].answer.recipe
      PROVE  call'[d].answer.version # call'[c].answer.version
  <2>1. CASE CommitAppend(c)
    <3>1. call'[d] = call[d] /\ Acknowledged(d)
      BY <1>5, <2>1, CommitTells DEF Acknowledged, Told
    <3> QED
      BY <1>3, <1>5, <2>1, <3>1, CommitTells
  <2>2. CASE CommitAppend(d)
    <3>1. call'[c] = call[c] /\ Acknowledged(c)
      BY <2>2, CommitTells DEF Acknowledged, Told
    <3> QED
      BY <1>3, <1>5, <2>2, <3>1, CommitTells
  <2>3. CASE ~CommitAppend(c) /\ ~CommitAppend(d)
    <3>1. /\ Acknowledged(c) /\ call'[c].answer = call[c].answer
          /\ Acknowledged(d) /\ call'[d].answer = call[d].answer
      BY <1>5, <2>3, NewlyAcknowledged
    <3> QED
      BY <1>5, <3>1 DEF AppendsHeld
  <2> QED
    BY <2>1, <2>2, <2>3
<1> QED
  BY <1>4, <1>5

(* A run that was told it had been appended is there, under the ordinal it *)
(* was told, and no other run was told that ordinal of that recipe.        *)
THEOREM AcknowledgedAppendsStay == Spec => []AcknowledgedAppendsHold
<1>1. Init => AppendsHeld
  BY DEF Init, AppendsHeld, Acknowledged, Told, NoCall
<1>2. IInv /\ AppendsHeld /\ UNCHANGED vars => AppendsHeld'
  BY AppendsHeldStep
<1>3. AppendsHeld => AcknowledgedAppendsHold
  BY DEF AppendsHeld, AcknowledgedAppendsHold, Acknowledged, ToldAppended, Told, RowOf
<1> QED
  BY <1>1, <1>3, AppendsHeldStep, StoreInvariant, PTL DEF Spec

-------------------------------------------------------------------------------
(* Plans.  Only StoreCookingPlan writes them, after the foreign key held.  *)
LEMMA PlanSteps ==
    ASSUME IInv, PlansHaveVersions, [Next]_vars
    PROVE  PlansHaveVersions'
<1>1. recipe_version \subseteq recipe_version'
  BY VersionsOnlyGrow
<1>2. ASSUME NEW r, NEW v, KeyTaken(r, v)
      PROVE  KeyTaken(r, v)'
  BY <1>1, <1>2 DEF KeyTaken, OrdinalsOf
<1>3. cooking_plan' = cooking_plan => PlansHaveVersions'
  BY <1>2 DEF PlansHaveVersions
<1>4. ASSUME NEW c \in Clients, StoreCookingPlan(c)
      PROVE  PlansHaveVersions'
  <2> DEFINE q == call[c].request
             row == [recipe |-> q.recipe, version |-> q.version, plan |-> q.plan]
             others == {s \in cooking_plan : s.recipe # q.recipe \/ s.version # q.version}
  <2>1. CASE ForeignKeyHolds(q)
    <3>1. cooking_plan' = others \cup {row}
      BY <1>4, <2>1 DEF StoreCookingPlan
    <3>2. KeyTaken(row.recipe, row.version)
      BY <2>1 DEF ForeignKeyHolds
    <3>3. \A s \in cooking_plan' : KeyTaken(s.recipe, s.version)'
      BY <1>2, <3>1, <3>2 DEF PlansHaveVersions
    <3>4. \A s, t \in cooking_plan' : s.recipe = t.recipe /\ s.version = t.version => s = t
      BY <3>1 DEF PlansHaveVersions
    <3> QED
      BY <3>3, <3>4 DEF PlansHaveVersions
  <2> QED
    BY <1>3, <1>4, <2>1 DEF StoreCookingPlan
<1>5. ASSUME NEW c \in Clients, StatementStep(c), ~StoreCookingPlan(c)
      PROVE  cooking_plan' = cooking_plan
  BY <1>5 DEF StatementStep, StoreSnapshot, LoadSnapshot, LoadLatestCanonical, ListLibrary,
              ReadTwoRuns, LoadCookingPlan, StoreCapabilityGrant, ResolveCapabilityGrant,
              RevokeCapabilityGrant, tables
<1>6. ASSUME NEW c \in Clients, AppendStep(c)
      PROVE  cooking_plan' = cooking_plan
  BY <1>6 DEF AppendStep, ChooseOrdinal, InsertVersion, ExtractVersion, CommitAppend, tables
<1>7. ASSUME NEW c \in Clients,
             \/ \E q \in Requests : Invoke(c, q)
             \/ Refuse(c) \/ Connect(c) \/ Fault(c) \/ LoseReply(c) \/ Return(c)
      PROVE  cooking_plan' = cooking_plan
  BY <1>7 DEF Invoke, Refuse, Connect, Fault, LoseReply, Return, tables
<1>8. ASSUME NEW w \in Rebuilders, RebuildConnect(w) \/ RebuildStep(w) \/ RebuildFault(w)
      PROVE  cooking_plan' = cooking_plan
  BY <1>8 DEF RebuildConnect, RebuildStep, RebuildFault, StartDelete, LockRow, FinishDelete,
              DeadlockAbort, ExtractAll,
              CommitRebuild, RebuildReturn, tables
<1>9. Crash \/ UNCHANGED vars => cooking_plan' = cooking_plan
  BY DEF Crash, tables, vars
<1> QED
  BY <1>3, <1>4, <1>5, <1>6, <1>7, <1>8, <1>9 DEF Next

(* ADR-0025: a kept plan belongs to a version the store holds, and no      *)
(* version has two, however appends and plan writes interleave.            *)
THEOREM PlansKeepTheirVersions == Spec => []PlansHaveVersions
<1>1. Init => PlansHaveVersions
  BY DEF Init, PlansHaveVersions
<1>2. IInv /\ PlansHaveVersions /\ [Next]_vars => PlansHaveVersions'
  BY PlanSteps
<1> QED
  BY <1>1, <1>2, StoreInvariant, PTL DEF Spec

-------------------------------------------------------------------------------
(* Mints.  Whoever was told a digest is its own has the grant.             *)
Minted(c) == /\ Told(c) /\ call[c].request.op = "storeGrant"
             /\ call[c].answer = Verdict(TRUE)
GrantOf(c) == capability_grant[call[c].request.digest]
MintsHeld ==
    \A c \in Clients : Minted(c) =>
        /\ GrantOf(c) # NoGrant /\ GrantOf(c).recipe = call[c].request.recipe
        /\ \A e \in Clients \ {c} :
              Minted(e) => call[e].request.digest # call[c].request.digest

LEMMA NewlyMinted ==
    ASSUME IInv, [Next]_vars, NEW c \in Clients, Minted(c)'
    PROVE  \/ Minted(c) /\ call'[c].request = call[c].request
           \/ StoreCapabilityGrant(c)
<1>0. call'[c].answer = Verdict(TRUE) /\ call'[c].request.op = "storeGrant"
  BY DEF Minted
<1>a. Verdict(TRUE) \notin {Failed, Invalid, Unversioned}
  <2>1. Verdict(TRUE).kind = "verdict"
    BY DEF Verdict
  <2>2. Failed.kind = "failed" /\ Invalid.kind = "refused" /\ Unversioned.kind = "refused"
    BY DEF Failed, Invalid, Unversioned, Refused
  <2> QED
    BY <2>1, <2>2
<1>1. ~GivenUp(c) /\ call'[c].answer # Failed
  BY <1>0, <1>a DEF GivenUp
<1>2. CASE StillTold(c)
  BY <1>0, <1>1, <1>2 DEF StillTold, Minted
<1>3. ASSUME CommitAppend(c) \/ StatementStep(c), call'[c].request = call[c].request
      PROVE  StoreCapabilityGrant(c)
  BY <1>0, <1>3 DEF StatementStep, StoreSnapshot, LoadSnapshot, LoadLatestCanonical,
              ListLibrary, ReadTwoRuns, StoreCookingPlan, LoadCookingPlan,
              ResolveCapabilityGrant, RevokeCapabilityGrant, Statement, Pending, CommitAppend
<1> QED
  BY <1>1, <1>2, <1>3, AnswersTravel DEF IInv, Minted

LEMMA MintTells ==
    ASSUME IInv, NEW c \in Clients, StoreCapabilityGrant(c), Minted(c)'
    PROVE  /\ call'[c].request = call[c].request
           /\ GrantOf(c) = NoGrant
           /\ GrantOf(c)' # NoGrant /\ GrantOf(c)'.recipe = call'[c].request.recipe
           /\ \A d \in Clients \ {c} : call'[d] = call[d]
<1>1. /\ call = [d \in Clients |-> call[d]]
      /\ capability_grant \in [Digests -> Grants]
  BY DEF IInv, TypeOK, CallsTyped, TablesTyped
<1> DEFINE q == call[c].request
<1>2. /\ call' = [call EXCEPT ![c] = Settled(q, Verdict(Free(q.digest)))]
      /\ call[c].phase = "pending" /\ q.op = "storeGrant"
  BY DEF StoreCapabilityGrant, Settle, Statement, Pending
<1>3. /\ call'[c].request = q /\ call'[c].answer = Verdict(Free(q.digest))
      /\ \A d \in Clients \ {c} : call'[d] = call[d]
  BY <1>1, <1>2 DEF Settled
<1>4. Free(q.digest)
  <2>1. Verdict(TRUE).holds = Verdict(Free(q.digest)).holds
    BY <1>3 DEF Minted
  <2> QED
    BY <2>1 DEF Verdict
<1>5. q \in Requests /\ q.recipe \in Recipes /\ q.digest \in Digests
  BY <1>2, RequestShapes DEF IInv, TypeOK, CallsTyped
<1>6. capability_grant' = [capability_grant EXCEPT ![q.digest] =
                             [recipe |-> q.recipe, revoked |-> FALSE]]
  BY <1>4 DEF StoreCapabilityGrant
<1>7. capability_grant'[q.digest] = [recipe |-> q.recipe, revoked |-> FALSE]
  BY <1>1, <1>5, <1>6
<1>8. q.recipe # Nil
  BY <1>5, NilAssumption
<1> QED
  BY <1>3, <1>4, <1>7, <1>8 DEF GrantOf, Free, NoGrant

LEMMA MintsHeldStep == IInv /\ MintsHeld /\ [Next]_vars => MintsHeld'
<1> SUFFICES ASSUME IInv, MintsHeld, [Next]_vars, NEW c \in Clients, Minted(c)'
             PROVE  /\ GrantOf(c)' # NoGrant /\ GrantOf(c)'.recipe = call'[c].request.recipe
                    /\ \A e \in Clients \ {c} :
                          Minted(e)' => call'[e].request.digest # call'[c].request.digest
  BY DEF MintsHeld
<1>1. GrantsDie
  BY GrantSteps DEF IInv
<1>2. ASSUME NEW e \in Clients, Minted(e)
      PROVE  /\ call[e].request.digest \in Digests /\ call[e].request.recipe \in Recipes
             /\ call[e].request.recipe # Nil
  <2>1. call[e].request \in Requests
    BY <1>2 DEF IInv, TypeOK, CallsTyped, Minted, Told
  <2> QED
    BY <1>2, <2>1, RequestShapes, NilAssumption DEF Minted
<1>3. ASSUME NEW e \in Clients, Minted(e), call'[e].request = call[e].request
      PROVE  GrantOf(e)' # NoGrant /\ GrantOf(e)'.recipe = call'[e].request.recipe
  BY <1>1, <1>2, <1>3 DEF GrantsDie, MintsHeld, GrantOf, NoGrant
<1>4. GrantOf(c)' # NoGrant /\ GrantOf(c)'.recipe = call'[c].request.recipe
  BY <1>3, NewlyMinted, MintTells
<1>5. ASSUME NEW e \in Clients \ {c}, Minted(e)'
      PROVE  call'[e].request.digest # call'[c].request.digest
  <2>1. CASE StoreCapabilityGrant(c)
    <3>1. call'[e] = call[e] /\ Minted(e)
      BY <1>5, <2>1, MintTells DEF Minted, Told
    <3> QED
      BY <2>1, <3>1, MintTells DEF MintsHeld, GrantOf
  <2>2. CASE StoreCapabilityGrant(e)
    <3>1. call'[c] = call[c] /\ Minted(c)
      BY <1>5, <2>2, MintTells DEF Minted, Told
    <3> QED
      BY <1>5, <2>2, <3>1, MintTells DEF MintsHeld, GrantOf
  <2>3. CASE ~StoreCapabilityGrant(c) /\ ~StoreCapabilityGrant(e)
    BY <1>5, <2>3, NewlyMinted DEF MintsHeld
  <2> QED
    BY <2>1, <2>2, <2>3
<1> QED
  BY <1>4, <1>5

(* A digest is handed out once: of the callers told that it is theirs at   *)
(* most one asked for it, and its grant reaches the recipe it asked for.   *)
THEOREM DigestsAreMintedOnce == Spec => []OneMintPerDigest
<1>1. Init => MintsHeld
  BY DEF Init, MintsHeld, Minted, Told, NoCall
<1>2. MintsHeld => OneMintPerDigest
  BY DEF MintsHeld, OneMintPerDigest, MintedFor, Minted, Told, GrantOf
<1> QED
  BY <1>1, <1>2, MintsHeldStep, StoreInvariant, PTL DEF Spec

(* Both, as the runs check them.                                           *)
THEOREM KeysAlwaysHold == Spec => []KeysHold
<1>1. PlansHaveVersions /\ OneMintPerDigest => KeysHold
  BY DEF KeysHold
<1> QED
  BY <1>1, PlansKeepTheirVersions, DigestsAreMintedOnce, PTL

(* For every number of callers, rebuilders and connections, no step takes  *)
(* back a committed version or a revocation.                               *)
THEOREM NothingIsEverUndone == Spec => NothingIsUndone
BY VersionsAreAppendOnly, GrantsNeverRevive DEF NothingIsUndone

-------------------------------------------------------------------------------
(***************************************************************************)
(* The durable store implements the repository's contract: every behaviour *)
(* of PostgresStore is one of RecipeRepository.  A transaction maps to the *)
(* one step of its commit, everything a rebuild does and every statement   *)
(* before a commit to no step at all.                                      *)
(***************************************************************************)

(* The contract and the store speak of calls in the same words. *)
LEMMA SameAnswers ==
    /\ Contract!Done = Done /\ Contract!Absent = Absent /\ Contract!Failed = Failed
    /\ Contract!Invalid = Invalid /\ Contract!Unversioned = Unversioned
    /\ Contract!VersionNotFound = VersionNotFound
    /\ Contract!NoCall = NoCall /\ Contract!NoGrant = NoGrant
    /\ \A d : Contract!Document(d) = Document(d)
    /\ \A r, v, b : Contract!Version(r, v, b) = Version(r, v, b)
    /\ \A x, y : Contract!TwoRuns(x, y) = TwoRuns(x, y)
    /\ \A entries : Contract!Library(entries) = Library(entries)
    /\ \A p : Contract!PlanAnswer(p) = PlanAnswer(p)
    /\ \A b : Contract!Verdict(b) = Verdict(b)
    /\ \A r : Contract!Reaches(r) = Reaches(r)
BY DEF Contract!Done, Done, Contract!Absent, Absent, Contract!Failed, Failed,
       Contract!Invalid, Invalid, Contract!Unversioned, Unversioned,
       Contract!VersionNotFound, VersionNotFound, Contract!Refused, Refused,
       Contract!NoCall, NoCall, Contract!NoGrant, NoGrant, Contract!Document, Document,
       Contract!Version, Version, Contract!TwoRuns, TwoRuns, Contract!Library, Library,
       Contract!PlanAnswer, PlanAnswer, Contract!Verdict, Verdict, Contract!Reaches, Reaches

LEMMA SameCalls ==
    /\ \A q : Contract!Asking(q) = Asking(q)
    /\ \A q, a : Contract!Settled(q, a) = Settled(q, a) /\ Contract!Answered(q, a) = Answered(q, a)
BY DEF Contract!Asking, Asking, Contract!Settled, Settled, Contract!Answered, Answered

LEMMA SameSettle == \A c, a : Settle(c, a) => Contract!Settle(c, a)
BY SameCalls DEF Settle, Contract!Settle

(* What the rows of a recipe are as a sequence. *)
RowsInOrder ==
    /\ \A r \in Recipes :
          /\ VersionsOf[r] \in Seq(Bodies) /\ Last(r) \in Nat
          /\ Len(VersionsOf[r]) = Last(r) /\ DOMAIN VersionsOf[r] = 1..Last(r)
    /\ \A x \in recipe_version :
          /\ x.recipe \in Recipes /\ x.version \in 1..Last(x.recipe)
          /\ VersionsOf[x.recipe][x.version] = x.body
    /\ \A r \in Recipes : \A v \in 1..Last(r) :
          [recipe |-> r, version |-> v, body |-> VersionsOf[r][v]] \in recipe_version

LEMMA RowsAreVersions == IInv => RowsInOrder
<1> SUFFICES ASSUME IInv PROVE RowsInOrder
  OBVIOUS
<1>1. recipe_version \subseteq VersionRows /\ KeysUnique /\ OrdinalsDense
  BY DEF IInv, TypeOK, TablesTyped
<1>2. ASSUME NEW x \in recipe_version
      PROVE  x.recipe \in Recipes /\ x.version \in 1..Last(x.recipe) /\ BodyAt(x.recipe, x.version) = x.body
  <2>1. x.recipe \in Recipes /\ x.version \in OrdinalsOf(x.recipe)
    BY <1>1 DEF VersionRows, OrdinalsOf
  <2>2. x.version \in 1..Last(x.recipe)
    BY <1>1, <2>1 DEF OrdinalsDense
  <2>3. \A y \in recipe_version : y.recipe = x.recipe /\ y.version = x.version => y = x
    BY <1>1 DEF KeysUnique
  <2>4. (CHOOSE y \in recipe_version : y.recipe = x.recipe /\ y.version = x.version) = x
    BY <2>3
  <2> QED
    BY <2>1, <2>2, <2>4 DEF BodyAt
<1>3. ASSUME NEW r \in Recipes, NEW v \in 1..Last(r)
      PROVE  /\ BodyAt(r, v) \in Bodies
             /\ [recipe |-> r, version |-> v, body |-> BodyAt(r, v)] \in recipe_version
  <2>1. v \in OrdinalsOf(r)
    BY <1>1 DEF OrdinalsDense
  <2>2. PICK x \in recipe_version : x.recipe = r /\ x.version = v
    BY <2>1 DEF OrdinalsOf
  <2>3. BodyAt(r, v) = x.body
    BY <1>2, <2>2
  <2>4. x \in VersionRows /\ x = [recipe |-> x.recipe, version |-> x.version, body |-> x.body]
    BY <1>1 DEF VersionRows
  <2> QED
    BY <2>2, <2>3, <2>4 DEF VersionRows
<1>4. ASSUME NEW r \in Recipes
      PROVE  /\ \A v \in 1..Last(r) : VersionsOf[r][v] = BodyAt(r, v)
             /\ VersionsOf[r] \in Seq(Bodies) /\ Last(r) \in Nat
             /\ Len(VersionsOf[r]) = Last(r) /\ DOMAIN VersionsOf[r] = 1..Last(r)
  <2>1. VersionsOf[r] = [v \in 1..Last(r) |-> BodyAt(r, v)]
    BY DEF VersionsOf
  <2>2. Last(r) \in Nat
    BY <1>1 DEF OrdinalsDense
  <2>3. \A v \in 1..Last(r) : BodyAt(r, v) \in Bodies
    BY <1>3
  <2>4. PICK n \in Nat : n = Last(r)
    BY <2>2
  <2>5. PICK f : f = VersionsOf[r]
    OBVIOUS
  <2>6. f = [v \in 1..n |-> BodyAt(r, v)] /\ \A v \in 1..n : BodyAt(r, v) \in Bodies
    BY <2>1, <2>3, <2>4, <2>5
  <2>7. f \in [1..n -> Bodies]
    BY <2>6
  <2>8. f \in Seq(Bodies) /\ Len(f) = n /\ DOMAIN f = 1..n /\ \A v \in 1..n : f[v] = BodyAt(r, v)
    BY <2>6, <2>7
  <2> QED
    BY <2>2, <2>4, <2>5, <2>8
<1>5. \A x \in recipe_version : VersionsOf[x.recipe][x.version] = x.body
  <2> TAKE x \in recipe_version
  <2>1. PICK r, v : r \in Recipes /\ r = x.recipe /\ v = x.version
    BY <1>2
  <2>2. v \in 1..Last(r)
    BY <1>2, <2>1
  <2>3. VersionsOf[r][v] = BodyAt(r, v)
    BY <1>4, <2>1, <2>2
  <2> QED
    BY <1>2, <2>1, <2>3
<1>6. \A r \in Recipes : \A v \in 1..Last(r) :
         [recipe |-> r, version |-> v, body |-> VersionsOf[r][v]] \in recipe_version
  BY <1>3, <1>4
<1> QED
  BY <1>2, <1>4, <1>5, <1>6 DEF RowsInOrder

LEMMA SameRowsSameVersions == recipe_version' = recipe_version => VersionsOf' = VersionsOf
BY DEF VersionsOf, BodyAt, Last, OrdinalsOf

(* Nothing a caller of the repository can see has changed. *)
LEMMA Unseen ==
    ASSUME UNCHANGED <<snapshot, recipe_version, cooking_plan, capability_grant, call>>
    PROVE  UNCHANGED Contract!vars
BY SameRowsSameVersions DEF Contract!vars

LEMMA StoresStay == ASSUME UNCHANGED tables PROVE UNCHANGED Contract!stores
BY SameRowsSameVersions DEF tables, Contract!stores

-------------------------------------------------------------------------------
(* How a call begins and ends. *)
LEMMA InvokeImplements ==
    ASSUME IInv, NEW c \in Clients, NEW q \in Requests, Invoke(c, q)
    PROVE  Contract!Invoke(c, q)
<1>1. Contract!Room(q)
  BY RequestShapes, RowsAreVersions DEF RowsInOrder, Invoke, Room, Contract!Room
<1> QED
  BY <1>1, StoresStay, SameCalls DEF Invoke, Contract!Invoke

LEMMA RefuseImplements ==
    ASSUME IInv, NEW c \in Clients, Refuse(c)
    PROVE  Contract!Operation(c)
<1> DEFINE q == call[c].request
<1>1. /\ snapshot' = snapshot /\ VersionsOf' = VersionsOf /\ cooking_plan' = cooking_plan
      /\ capability_grant' = capability_grant
  BY SameRowsSameVersions DEF Refuse, tables
<1>2. CASE Unparsed(q) /\ Settle(c, Invalid)
  <2>1. Contract!Settle(c, Contract!Invalid)
    BY <1>2, SameSettle, SameAnswers
  <2>2. call[c].phase = "pending"
    BY DEF Refuse
  <2> QED
    BY <1>1, <1>2, <2>1, <2>2
    DEF Unparsed, Contract!Operation, Contract!Asked, Contract!StoreSnapshot,
        Contract!AppendCanonicalVersion, Contract!StoreCookingPlan
<1>3. CASE NamesNoVersion(q) /\ Settle(c, Unversioned)
  <2>1. Contract!Settle(c, Contract!Unversioned)
    BY <1>3, SameSettle, SameAnswers
  <2>2. call[c].phase = "pending"
    BY DEF Refuse
  <2> QED
    BY <1>1, <1>3, <2>1, <2>2
    DEF NamesNoVersion, Contract!Operation, Contract!Asked, Contract!StoreCookingPlan
<1> QED
  BY <1>2, <1>3 DEF Refuse

LEMMA EndsImplement ==
    ASSUME NEW c \in Clients
    PROVE  /\ Fault(c) => Contract!Fail(c)
           /\ LoseReply(c) => Contract!LoseReply(c)
           /\ Return(c) => Contract!Return(c)
           /\ Crash => Contract!Crash
BY StoresStay, SameSettle, SameCalls, SameAnswers
DEF Fault, LoseReply, Return, Crash, Contract!Fail, Contract!LoseReply, Contract!Return, Contract!Crash

(* An append takes effect as it commits; a statement the server refuses    *)
(* ends it without effect.                                                 *)
LEMMA AppendImplements ==
    ASSUME IInv, NEW c \in Clients, AppendStep(c)
    PROVE  Contract!Operation(c) \/ Contract!Fail(c) \/ UNCHANGED Contract!vars
<1>1. CASE ChooseOrdinal(c)
  BY <1>1, Unseen DEF ChooseOrdinal, tables
<1>2. CASE InsertVersion(c) \/ ExtractVersion(c)
  <2>1. UNCHANGED tables /\ call[c].phase = "pending" /\ (Settle(c, Failed) \/ UNCHANGED call)
    BY <1>2 DEF InsertVersion, ExtractVersion, Pending
  <2>2. CASE Settle(c, Failed)
    BY <2>1, <2>2, StoresStay, SameSettle, SameAnswers DEF Contract!Fail
  <2>3. CASE UNCHANGED call
    BY <2>1, <2>3, Unseen DEF tables
  <2> QED
    BY <2>1, <2>2, <2>3
<1>3. CASE CommitAppend(c)
  <2>1. PICK r \in Recipes : r = call[c].request.recipe
    BY <1>3, CommitFollowsLast
  <2>n. PICK n \in Nat : n = Last(r) /\ txn[c].version = n + 1
    BY <1>3, <2>1, CommitFollowsLast
  <2>b. PICK b : b = call[c].request.body
    OBVIOUS
  <2>3. PICK x : x = [recipe |-> r, version |-> n + 1, body |-> b]
    OBVIOUS
  <2>4. recipe_version' = recipe_version \cup {x} /\ Settle(c, Version(r, n + 1, b))
    BY <1>3, <2>1, <2>n, <2>b, <2>3 DEF CommitAppend, WrittenBy
  <2>5. b # Malformed
    BY <1>3, <2>b DEF CommitAppend, Pending, At, IInv, TypeOK, TxnsTyped, Accepted, Unparsed
  <2>6. VersionsOf' = [VersionsOf EXCEPT ![r] = Append(VersionsOf[r], b)]
    <3>1. IInv'
      BY <1>3, NextIInv DEF Next, AppendStep
    <3>2. RowsInOrder'
      BY <3>1, RowsAreVersions, PTL
    <3>3. PICK old, new : old = VersionsOf /\ new = VersionsOf'
      OBVIOUS
    <3>4. OrdinalsOf(r)' = OrdinalsOf(r) \cup {n + 1}
      BY <2>3, <2>4 DEF OrdinalsOf
    <3>5. \A s : s # r => OrdinalsOf(s)' = OrdinalsOf(s)
      BY <2>3, <2>4 DEF OrdinalsOf
    <3>6. Last(r)' = n + 1
      <4>1. OrdinalsOf(r) = 1..n
        BY <2>n DEF IInv, OrdinalsDense
      <4>2. OrdinalsOf(r)' = 1..(n + 1)
        BY <3>4, <4>1
      <4> QED
        BY <4>2, GreatestOfRun DEF Last
    <3>7. \A s : s # r => Last(s)' = Last(s)
      BY <3>5 DEF Last
    <3>8. \A s \in Recipes :
             /\ old[s] \in Seq(Bodies) /\ Len(old[s]) = Last(s)
             /\ new[s] \in Seq(Bodies) /\ Len(new[s]) = Last(s)'
      BY <3>2, <3>3, RowsAreVersions DEF RowsInOrder
    <3>9. \A s \in Recipes : \A v \in 1..Last(s) : new[s][v] = old[s][v]
      <4> SUFFICES ASSUME NEW s \in Recipes, NEW v \in 1..Last(s) PROVE new[s][v] = old[s][v]
        OBVIOUS
      <4>1. PICK y : y = [recipe |-> s, version |-> v, body |-> old[s][v]]
        OBVIOUS
      <4>2. y \in recipe_version
        BY <3>3, <4>1, RowsAreVersions DEF RowsInOrder
      <4>3. y \in recipe_version'
        BY <2>4, <4>2
      <4>4. new[y.recipe][y.version] = y.body
        BY <3>2, <3>3, <4>3 DEF RowsInOrder
      <4> QED
        BY <4>1, <4>4
    <3>10. new[r][n + 1] = b /\ b \in Bodies
      <4>1. x \in recipe_version'
        BY <2>4
      <4>2. new[x.recipe][x.version] = x.body
        BY <3>2, <3>3, <4>1 DEF RowsInOrder
      <4>3. x.body \in Bodies
        BY <3>1, <4>1 DEF IInv, TypeOK, TablesTyped, VersionRows
      <4> QED
        BY <2>3, <4>2, <4>3
    <3>11. new[r] = Append(old[r], b)
      <4>1. PICK f, g \in Seq(Bodies) : f = old[r] /\ g = new[r]
        BY <3>8
      <4>2. Len(f) = n /\ Len(g) = n + 1 /\ g[n + 1] = b /\ \A v \in 1..n : g[v] = f[v]
        BY <2>n, <3>6, <3>8, <3>9, <3>10, <4>1
      <4>3. g = Append(f, b)
        BY <3>10, <4>1, <4>2
      <4> QED
        BY <4>1, <4>3
    <3>12. \A s \in Recipes : s # r => new[s] = old[s]
      <4> SUFFICES ASSUME NEW s \in Recipes, s # r PROVE new[s] = old[s]
        OBVIOUS
      <4>1. PICK f, g \in Seq(Bodies) : f = old[s] /\ g = new[s]
        BY <3>8
      <4>2. Len(f) = Len(g) /\ \A v \in 1..Len(f) : g[v] = f[v]
        BY <3>7, <3>8, <3>9, <4>1
      <4>3. f = g
        BY <4>1, <4>2
      <4> QED
        BY <4>1, <4>3
    <3>13. old = [s \in Recipes |-> old[s]] /\ new = [s \in Recipes |-> new[s]]
      BY <3>3 DEF VersionsOf
    <3>14. new = [old EXCEPT ![r] = Append(old[r], b)]
      BY <3>11, <3>12, <3>13
    <3> QED
      BY <3>3, <3>14
  <2>7. Contract!AppendCanonicalVersion(c)
    BY <1>3, <2>1, <2>n, <2>b, <2>4, <2>5, <2>6, RowsAreVersions, SameSettle, SameAnswers
    DEF RowsInOrder, CommitAppend, Pending, Contract!Asked, Contract!AppendCanonicalVersion
  <2> QED
    BY <2>7 DEF Contract!Operation
<1> QED
  BY <1>1, <1>2, <1>3 DEF AppendStep

-------------------------------------------------------------------------------
(* The statements.  What each finds in its rows is what the contract finds *)
(* in the versions.                                                        *)
LEMMA HeldIsTaken ==
    ASSUME IInv, NEW r \in Recipes, NEW v
    PROVE  /\ KeyTaken(r, v) <=> Contract!Held(r, v)
           /\ Contract!Held(r, v) <=> v \in 1..Last(r)
BY RowsAreVersions DEF RowsInOrder, IInv, OrdinalsDense, KeyTaken, Contract!Held

LEMMA RowAt ==
    ASSUME IInv, NEW r \in Recipes, NEW v \in 1..Last(r), NEW x \in recipe_version,
           x.recipe = r, x.version = v
    PROVE  Version(x.recipe, x.version, x.body) = Contract!VersionAt(r, v)
<1>1. VersionsOf[r][v] = x.body
  BY RowsAreVersions DEF RowsInOrder
<1> QED
  BY <1>1, SameAnswers DEF Contract!VersionAt

LEMMA LatestImplements ==
    ASSUME IInv, NEW c \in Clients, LoadLatestCanonical(c)
    PROVE  Contract!LoadLatestCanonical(c)
<1> DEFINE rows == {x \in recipe_version : x.recipe = call[c].request.recipe}
<1>1. PICK r \in Recipes : r = call[c].request.recipe
  BY RequestShapes DEF LoadLatestCanonical, Statement, Pending, IInv, TypeOK, CallsTyped
<1>2. Contract!Asked(c, "loadLatest") /\ UNCHANGED Contract!stores
  BY StoresStay DEF LoadLatestCanonical, Statement, Pending, Contract!Asked
<1>3. Last(r) \in Nat /\ Len(VersionsOf[r]) = Last(r) /\ VersionsOf[r] \in Seq(Bodies)
  BY RowsAreVersions DEF RowsInOrder
<1>4. CASE rows = {} /\ Settle(c, Absent)
  <2>1. ASSUME NEW v \in 1..Last(r) PROVE FALSE
    <3>1. PICK x : x = [recipe |-> r, version |-> v, body |-> VersionsOf[r][v]]
      OBVIOUS
    <3>2. x \in recipe_version /\ x.recipe = r
      BY <3>1, RowsAreVersions DEF RowsInOrder
    <3> QED
      BY <1>1, <1>4, <3>2
  <2>2. Last(r) = 0
    BY <1>3, <2>1
  <2>3. VersionsOf[r] = <<>>
    BY <1>3, <2>2
  <2> QED
    BY <1>1, <1>2, <1>4, <2>3, SameSettle, SameAnswers DEF Contract!LoadLatestCanonical
<1>5. ASSUME NEW x \in NewestOf(rows), Settle(c, Version(x.recipe, x.version, x.body))
      PROVE  Contract!LoadLatestCanonical(c)
  <2>1. x \in recipe_version /\ x.recipe = r /\ \A y \in rows : y.version <= x.version
    BY <1>1, <1>5 DEF NewestOf
  <2>2. x.version \in 1..Last(r)
    BY <2>1, RowsAreVersions DEF RowsInOrder
  <2>3. Last(r) \in 1..Last(r)
    BY <1>3, <2>2
  <2>4. PICK y : y = [recipe |-> r, version |-> Last(r), body |-> VersionsOf[r][Last(r)]]
    OBVIOUS
  <2>5. y \in recipe_version
    BY <2>3, <2>4, RowsAreVersions DEF RowsInOrder
  <2>6. y.recipe = r /\ y.version = Last(r)
    BY <2>4
  <2>7. x.version = Last(r)
    BY <1>1, <1>3, <2>1, <2>2, <2>5, <2>6
  <2>8. Version(x.recipe, x.version, x.body) = Contract!VersionAt(r, Len(VersionsOf[r]))
    BY <1>3, <2>1, <2>3, <2>7, RowAt
  <2>9. VersionsOf[r] # <<>>
    BY <1>3, <2>3
  <2> QED
    BY <1>1, <1>2, <1>5, <2>8, <2>9, SameSettle DEF Contract!LoadLatestCanonical
<1> QED
  BY <1>4, <1>5 DEF LoadLatestCanonical

LEMMA ListImplements ==
    ASSUME IInv, NEW c \in Clients, ListLibrary(c)
    PROVE  Contract!ListLibrary(c)
<1> DEFINE rows == {y \in recipe_version : y.version = Last(y.recipe)}
           Card(x) == [recipe |-> x.recipe, latest |-> x.version, title |-> TitleOf[x.body]]
           Entry(r) == [recipe |-> r, latest |-> Len(VersionsOf[r]),
                        title |-> TitleOf[VersionsOf[r][Len(VersionsOf[r])]]]
<1>1. ASSUME NEW x \in rows
      PROVE  x.recipe \in Recipes /\ VersionsOf[x.recipe] # <<>> /\ Card(x) = Entry(x.recipe)
  <2>1. PICK r, v : r = x.recipe /\ v = x.version
    OBVIOUS
  <2>2. r \in Recipes /\ v \in 1..Last(r) /\ v = Last(r) /\ VersionsOf[r][v] = x.body
    BY <2>1, RowsAreVersions DEF RowsInOrder
  <2>3. Len(VersionsOf[r]) = v /\ VersionsOf[r] # <<>>
    BY <2>2, RowsAreVersions DEF RowsInOrder
  <2> QED
    BY <2>1, <2>2, <2>3
<1>2. ASSUME NEW r \in Recipes, VersionsOf[r] # <<>>
      PROVE  \E x \in rows : Card(x) = Entry(r)
  <2>1. PICK n \in Nat : n = Last(r)
    BY RowsAreVersions DEF RowsInOrder
  <2>2. Len(VersionsOf[r]) = n /\ VersionsOf[r] \in Seq(Bodies)
    BY <2>1, RowsAreVersions DEF RowsInOrder
  <2>3. n \in 1..Last(r)
    BY <1>2, <2>1, <2>2
  <2>4. PICK x : x = [recipe |-> r, version |-> n, body |-> VersionsOf[r][n]]
    OBVIOUS
  <2>5. x \in recipe_version
    BY <2>3, <2>4, RowsAreVersions DEF RowsInOrder
  <2> QED
    BY <2>1, <2>2, <2>4, <2>5
<1> HIDE DEF rows, Card, Entry
<1>3. {Card(x) : x \in rows} = {Entry(r) : r \in {s \in Recipes : VersionsOf[s] # <<>>}}
  BY <1>1, <1>2
<1> USE DEF rows, Card, Entry
<1>4. {Card(x) : x \in rows} = Contract!LibraryEntries
  BY <1>3 DEF Contract!LibraryEntries
<1>5. Settle(c, Library({Card(x) : x \in rows}))
  BY DEF ListLibrary
<1>6. Contract!Settle(c, Contract!Library(Contract!LibraryEntries))
  BY <1>4, <1>5, SameSettle, SameAnswers
<1>7. Contract!Asked(c, "listLibrary") /\ UNCHANGED Contract!stores
  BY StoresStay DEF ListLibrary, Statement, Pending, Contract!Asked
<1> QED
  BY <1>6, <1>7 DEF Contract!ListLibrary

LEMMA TwoRunsImplement ==
    ASSUME IInv, NEW c \in Clients, ReadTwoRuns(c)
    PROVE  Contract!ReadTwoRuns(c)
<1>1. PICK q : q = call[c].request
  OBVIOUS
<1>2. q.op = "readTwoRuns" /\ q \in Requests
  BY <1>1 DEF ReadTwoRuns, Statement, Pending, IInv, TypeOK, CallsTyped
<1>3. q.recipe \in Recipes
  BY <1>2, RequestShapes
<1> DEFINE Runs(v) == {x \in recipe_version : x.recipe = q.recipe /\ x.version = v}
<1>4. Contract!Asked(c, "readTwoRuns") /\ UNCHANGED Contract!stores
  BY StoresStay DEF ReadTwoRuns, Statement, Pending, Contract!Asked
<1>5. \A v : Runs(v) = {} <=> ~Contract!Held(q.recipe, v)
  BY <1>3, HeldIsTaken DEF KeyTaken, OrdinalsOf
<1>6. CASE (Runs(q.a) = {} \/ Runs(q.b) = {}) /\ Settle(c, VersionNotFound)
  BY <1>1, <1>4, <1>5, <1>6, SameSettle, SameAnswers DEF Contract!ReadTwoRuns
<1>7. ASSUME NEW x \in Runs(q.a), NEW y \in Runs(q.b),
             Settle(c, TwoRuns(Version(x.recipe, x.version, x.body),
                               Version(y.recipe, y.version, y.body)))
      PROVE  Contract!ReadTwoRuns(c)
  <2>1. Contract!Held(q.recipe, q.a) /\ Contract!Held(q.recipe, q.b)
    BY <1>5
  <2>2. q.a \in 1..Last(q.recipe) /\ q.b \in 1..Last(q.recipe)
    BY <1>3, <2>1, HeldIsTaken
  <2>3. /\ Version(x.recipe, x.version, x.body) = Contract!VersionAt(q.recipe, q.a)
        /\ Version(y.recipe, y.version, y.body) = Contract!VersionAt(q.recipe, q.b)
    BY <1>3, <2>2, RowAt
  <2> QED
    BY <1>1, <1>4, <1>7, <2>1, <2>3, SameSettle, SameAnswers DEF Contract!ReadTwoRuns
<1> QED
  BY <1>1, <1>6, <1>7 DEF ReadTwoRuns

LEMMA PlansImplement ==
    ASSUME IInv, NEW c \in Clients
    PROVE  /\ StoreCookingPlan(c) => Contract!StoreCookingPlan(c)
           /\ LoadCookingPlan(c) => Contract!LoadCookingPlan(c)
<1>1. PICK q : q = call[c].request
  OBVIOUS
<1>2. ASSUME StoreCookingPlan(c) PROVE Contract!StoreCookingPlan(c)
  <2>1. q.op = "storePlan" /\ q \in Requests /\ Accepted(q)
    BY <1>1, <1>2 DEF StoreCookingPlan, Statement, Pending, At, IInv, TypeOK, CallsTyped, TxnsTyped
  <2>2. q.recipe \in Recipes /\ q.plan # Malformed /\ q.version # Nil
    BY <2>1, RequestShapes DEF Accepted, Unparsed, NamesNoVersion
  <2>3. ForeignKeyHolds(q) <=> Contract!Held(q.recipe, q.version)
    BY <2>2, HeldIsTaken DEF ForeignKeyHolds
  <2>4. /\ Contract!Asked(c, "storePlan") /\ snapshot' = snapshot /\ VersionsOf' = VersionsOf
        /\ capability_grant' = capability_grant
    BY <1>2, SameRowsSameVersions DEF StoreCookingPlan, Statement, Pending, Contract!Asked
  <2>5. CASE ForeignKeyHolds(q)
    <3>1. cooking_plan' = Contract!Filing(Contract!PlanRow(q)) /\ Settle(c, Done)
      BY <1>1, <1>2, <2>5 DEF StoreCookingPlan, Contract!Filing, Contract!PlanRow
    <3> QED
      BY <1>1, <2>2, <2>3, <2>4, <2>5, <3>1, SameSettle, SameAnswers DEF Contract!StoreCookingPlan
  <2>6. CASE ~ForeignKeyHolds(q)
    <3>1. cooking_plan' = cooking_plan /\ Settle(c, VersionNotFound)
      BY <1>1, <1>2, <2>6 DEF StoreCookingPlan
    <3> QED
      BY <1>1, <2>2, <2>3, <2>4, <2>6, <3>1, SameSettle, SameAnswers DEF Contract!StoreCookingPlan
  <2> QED
    BY <2>5, <2>6
<1>3. ASSUME LoadCookingPlan(c) PROVE Contract!LoadCookingPlan(c)
  <2>1. Contract!Asked(c, "loadPlan") /\ UNCHANGED Contract!stores
    BY <1>3, StoresStay DEF LoadCookingPlan, Statement, Pending, Contract!Asked
  <2>2. \/ Contract!PlanFor(q.recipe, q.version) = {} /\ Settle(c, Absent)
        \/ \E s \in Contract!PlanFor(q.recipe, q.version) : Settle(c, PlanAnswer(s.plan))
    BY <1>1, <1>3 DEF LoadCookingPlan, Contract!PlanFor
  <2> QED
    BY <1>1, <2>1, <2>2, SameSettle, SameAnswers DEF Contract!LoadCookingPlan
<1> QED
  BY <1>2, <1>3

LEMMA GrantsImplement ==
    ASSUME NEW c \in Clients
    PROVE  /\ StoreCapabilityGrant(c) => Contract!StoreCapabilityGrant(c)
           /\ ResolveCapabilityGrant(c) => Contract!ResolveCapabilityGrant(c)
           /\ RevokeCapabilityGrant(c) => Contract!RevokeCapabilityGrant(c)
<1>1. \A d : NotRevoked(d) <=> Contract!Active(d)
  BY SameAnswers DEF NotRevoked, Contract!Active
<1>2. \A d : Free(d) <=> Contract!Free(d)
  BY SameAnswers DEF Free, Contract!Free
<1>3. ASSUME StoreCapabilityGrant(c) PROVE Contract!StoreCapabilityGrant(c)
  <2>1. /\ Contract!Asked(c, "storeGrant") /\ snapshot' = snapshot /\ VersionsOf' = VersionsOf
        /\ cooking_plan' = cooking_plan
    BY <1>3, SameRowsSameVersions DEF StoreCapabilityGrant, Statement, Pending, Contract!Asked
  <2>2. PICK q : q = call[c].request
    OBVIOUS
  <2>3. CASE Free(q.digest)
    <3>1. /\ capability_grant' = [capability_grant EXCEPT ![q.digest] =
                                    [recipe |-> q.recipe, revoked |-> FALSE]]
          /\ Settle(c, Verdict(TRUE))
      <4>1. Free(q.digest) = TRUE
        BY <2>3 DEF Free
      <4> QED
        BY <1>3, <2>2, <4>1 DEF StoreCapabilityGrant
    <3> QED
      BY <1>2, <2>1, <2>2, <2>3, <3>1, SameSettle, SameAnswers DEF Contract!StoreCapabilityGrant
  <2>4. CASE ~Free(q.digest)
    <3>1. capability_grant' = capability_grant /\ Settle(c, Verdict(FALSE))
      <4>1. Free(q.digest) = FALSE
        BY <2>4 DEF Free
      <4> QED
        BY <1>3, <2>2, <4>1 DEF StoreCapabilityGrant
    <3> QED
      BY <1>2, <2>1, <2>2, <2>4, <3>1, SameSettle, SameAnswers DEF Contract!StoreCapabilityGrant
  <2> QED
    BY <2>3, <2>4
<1>4. ASSUME ResolveCapabilityGrant(c) PROVE Contract!ResolveCapabilityGrant(c)
  BY <1>1, <1>4, StoresStay, SameSettle, SameAnswers
  DEF ResolveCapabilityGrant, Statement, Pending, Contract!Asked, Contract!ResolveCapabilityGrant
<1>5. ASSUME RevokeCapabilityGrant(c) PROVE Contract!RevokeCapabilityGrant(c)
  <2>1. /\ Contract!Asked(c, "revokeGrant") /\ snapshot' = snapshot /\ VersionsOf' = VersionsOf
        /\ cooking_plan' = cooking_plan
    BY <1>5, SameRowsSameVersions DEF RevokeCapabilityGrant, Statement, Pending, Contract!Asked
  <2>2. PICK d : d = call[c].request.digest
    OBVIOUS
  <2>3. NotRevoked(d) = Contract!Active(d)
    BY <1>1 DEF NotRevoked, Contract!Active
  <2>4. Contract!Settle(c, Contract!Verdict(NotRevoked(d)))
    BY <1>5, <2>2, SameSettle, SameAnswers DEF RevokeCapabilityGrant
  <2>5. capability_grant' = IF NotRevoked(d) THEN [capability_grant EXCEPT ![d].revoked = TRUE]
                            ELSE capability_grant
    BY <1>5, <2>2 DEF RevokeCapabilityGrant
  <2> QED
    BY <2>1, <2>2, <2>3, <2>4, <2>5 DEF Contract!RevokeCapabilityGrant
<1> QED
  BY <1>3, <1>4, <1>5

LEMMA SnapshotsImplement ==
    ASSUME IInv, NEW c \in Clients
    PROVE  /\ StoreSnapshot(c) => Contract!StoreSnapshot(c)
           /\ LoadSnapshot(c) => Contract!LoadSnapshot(c)
<1>1. ASSUME StoreSnapshot(c) PROVE Contract!StoreSnapshot(c)
  <2>1. call[c].request.doc # Malformed
    BY <1>1 DEF StoreSnapshot, Statement, Pending, At, IInv, TypeOK, TxnsTyped, Accepted, Unparsed
  <2>2. /\ Contract!Asked(c, "storeSnapshot") /\ VersionsOf' = VersionsOf
        /\ cooking_plan' = cooking_plan /\ capability_grant' = capability_grant
    BY <1>1, SameRowsSameVersions DEF StoreSnapshot, Statement, Pending, Contract!Asked
  <2> QED
    BY <1>1, <2>1, <2>2, SameSettle, SameAnswers DEF StoreSnapshot, Contract!StoreSnapshot
<1>2. ASSUME LoadSnapshot(c) PROVE Contract!LoadSnapshot(c)
  BY <1>2, StoresStay, SameSettle, SameAnswers
  DEF LoadSnapshot, Statement, Pending, Contract!Asked, Contract!LoadSnapshot
<1> QED
  BY <1>1, <1>2

-------------------------------------------------------------------------------
LEMMA InitImplements == Init => Contract!Init
<1> SUFFICES ASSUME Init PROVE Contract!Init
  OBVIOUS
<1>1. RowsInOrder
  BY InitIInv, RowsAreVersions
<1>2. ASSUME NEW r \in Recipes PROVE VersionsOf[r] = <<>>
  <2>1. PICK f \in Seq(Bodies), n \in Nat : f = VersionsOf[r] /\ n = Last(r)
    BY <1>1 DEF RowsInOrder
  <2>2. \A v \in 1..n : FALSE
    BY <1>1, <2>1 DEF RowsInOrder, Init
  <2>3. n = 0 /\ Len(f) = 0
    BY <1>1, <2>1, <2>2 DEF RowsInOrder
  <2> QED
    BY <2>1, <2>3
<1>3. VersionsOf = [r \in Recipes |-> <<>>]
  BY <1>2 DEF VersionsOf
<1> QED
  BY <1>3, SameAnswers DEF Init, Contract!Init

LEMMA NextImplements == IInv /\ [Next]_vars => [Contract!Next]_(Contract!vars)
<1> SUFFICES ASSUME IInv, [Next]_vars PROVE Contract!Next \/ UNCHANGED Contract!vars
  OBVIOUS
<1>1. ASSUME NEW c \in Clients, NEW q \in Requests, Invoke(c, q) PROVE Contract!Next
  BY <1>1, InvokeImplements DEF Contract!Next
<1>2. ASSUME NEW c \in Clients, Refuse(c) PROVE Contract!Next
  BY <1>2, RefuseImplements DEF Contract!Next
<1>3. ASSUME NEW c \in Clients, Connect(c) PROVE UNCHANGED Contract!vars
  BY <1>3, Unseen DEF Connect, tables
<1>4. ASSUME NEW c \in Clients, AppendStep(c) PROVE Contract!Next \/ UNCHANGED Contract!vars
  BY <1>4, AppendImplements DEF Contract!Next
<1>5. ASSUME NEW c \in Clients, StatementStep(c) PROVE Contract!Next
  <2>1. Contract!Operation(c)
    BY <1>5, SnapshotsImplement, LatestImplements, ListImplements, TwoRunsImplement,
       PlansImplement, GrantsImplement
    DEF StatementStep, Contract!Operation
  <2> QED
    BY <2>1 DEF Contract!Next
<1>6. ASSUME NEW c \in Clients, Fault(c) \/ LoseReply(c) \/ Return(c) PROVE Contract!Next
  BY <1>6, EndsImplement DEF Contract!Next
<1>7. ASSUME NEW w \in Rebuilders, RebuildConnect(w) \/ RebuildStep(w) \/ RebuildFault(w)
      PROVE  UNCHANGED Contract!vars
  BY <1>7, Unseen
  DEF RebuildConnect, RebuildStep, StartDelete, LockRow, FinishDelete,
      DeadlockAbort, ExtractAll, CommitRebuild,
      RebuildReturn, RebuildFault, tables
<1>8. CASE Crash
  <2>1. Contract!Crash
    BY <1>8, StoresStay, SameAnswers DEF Crash, Contract!Crash
  <2> QED
    BY <2>1 DEF Contract!Next
<1>9. CASE UNCHANGED vars
  BY <1>9, Unseen DEF vars
<1> QED
  BY <1>1, <1>2, <1>3, <1>4, <1>5, <1>6, <1>7, <1>8, <1>9 DEF Next

(* For every number of callers, rebuilders and connections, whatever fails *)
(* or dies: the store does what the contract promises, one operation at a  *)
(* time.                                                                   *)
THEOREM StoreImplementsContract == Spec => RepositoryContract
BY InitImplements, NextImplements, StoreInvariant, PTL DEF Spec, RepositoryContract, Contract!Spec
===============================================================================
