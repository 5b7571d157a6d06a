---------------------------- MODULE RecipeRepository ----------------------------
(***************************************************************************)
(* The contract of the recipe store: what src/persistence/repository.ts    *)
(* promises and what the in-memory store does literally, one operation at  *)
(* a time.  Every call takes effect at one instant between its invocation  *)
(* and its answer.  A call may also be rejected: before it takes effect    *)
(* (Fail), or after, when the answer is lost on its way (LoseReply).  The  *)
(* process may stop at any moment (Crash): calls vanish, the stores do     *)
(* not.                                                                    *)
(***************************************************************************)
EXTENDS RepositoryCalls

VARIABLES
    snapshots,      \* snapshot id -> document, Nil when none is stored
    versions,       \* recipe id -> its versions, in append order
    plans,          \* the stored Cooking Plans, at most one per recipe version
    grants,         \* token digest -> grant, NoGrant when the digest is free
    call            \* client -> its call

stores == <<snapshots, versions, plans, grants>>
vars == <<snapshots, versions, plans, grants, call>>

Init ==
    /\ snapshots = [i \in SnapshotIds |-> Nil]
    /\ versions = [r \in Recipes |-> <<>>]
    /\ plans = {}
    /\ grants = [d \in Digests |-> NoGrant]
    /\ call = [c \in Clients |-> NoCall]

-------------------------------------------------------------------------------
Held(r, v) == v \in DOMAIN versions[r]
VersionAt(r, v) == Version(r, v, versions[r][v])

(* A client's call is pending on an operation. *)
Asked(c, op) == call[c].phase = "pending" /\ call[c].request.op = op
Settle(c, a) == call' = [call EXCEPT ![c] = Settled(call[c].request, a)]

(* The bound on versions: a new append is not offered past MaxVersion. *)
Room(q) == q.op = "append" => Len(versions[q.recipe]) < MaxVersion

Invoke(c, q) ==
    /\ call[c].phase \in {"idle", "returned"}
    /\ Room(q)
    /\ call' = [call EXCEPT ![c] = Asking(q)]
    /\ UNCHANGED stores

-------------------------------------------------------------------------------
(* The eleven operations.  A document that does not parse touches nothing. *)

StoreSnapshot(c) ==
    LET q == call[c].request IN
    /\ Asked(c, "storeSnapshot")
    /\ IF q.doc = Malformed
       THEN Settle(c, Invalid) /\ UNCHANGED snapshots
       ELSE Settle(c, Done) /\ snapshots' = [snapshots EXCEPT ![q.snapshot] = q.doc]
    /\ UNCHANGED <<versions, plans, grants>>

LoadSnapshot(c) ==
    LET stored == snapshots[call[c].request.snapshot] IN
    /\ Asked(c, "loadSnapshot")
    /\ Settle(c, IF stored = Nil THEN Absent ELSE Document(stored))
    /\ UNCHANGED stores

AppendCanonicalVersion(c) ==
    LET q == call[c].request IN
    /\ Asked(c, "append")
    /\ IF q.body = Malformed
       THEN Settle(c, Invalid) /\ UNCHANGED versions
       ELSE /\ versions' = [versions EXCEPT ![q.recipe] = Append(@, q.body)]
            /\ Settle(c, Version(q.recipe, Len(versions[q.recipe]) + 1, q.body))
    /\ UNCHANGED <<snapshots, plans, grants>>

LoadLatestCanonical(c) ==
    LET r == call[c].request.recipe IN
    /\ Asked(c, "loadLatest")
    /\ Settle(c, IF versions[r] = <<>> THEN Absent ELSE VersionAt(r, Len(versions[r])))
    /\ UNCHANGED stores

LibraryEntries ==
    {[recipe |-> r, latest |-> Len(versions[r]),
      title |-> TitleOf[versions[r][Len(versions[r])]]]
        : r \in {s \in Recipes : versions[s] # <<>>}}

ListLibrary(c) ==
    /\ Asked(c, "listLibrary")
    /\ Settle(c, Library(LibraryEntries))
    /\ UNCHANGED stores

ReadTwoRuns(c) ==
    LET q == call[c].request IN
    /\ Asked(c, "readTwoRuns")
    /\ Settle(c, IF Held(q.recipe, q.a) /\ Held(q.recipe, q.b)
                 THEN TwoRuns(VersionAt(q.recipe, q.a), VersionAt(q.recipe, q.b))
                 ELSE VersionNotFound)
    /\ UNCHANGED stores

(* The stored plans with p in the place of what its version had. *)
Filing(p) ==
    {s \in plans : s.recipe # p.recipe \/ s.version # p.version} \cup {p}

PlanRow(q) == [recipe |-> q.recipe, version |-> q.version, plan |-> q.plan]

StoreCookingPlan(c) ==
    LET q == call[c].request IN
    /\ Asked(c, "storePlan")
    /\ \/ q.plan = Malformed /\ Settle(c, Invalid) /\ UNCHANGED plans
       \/ q.plan # Malformed /\ q.version = Nil /\ Settle(c, Unversioned) /\ UNCHANGED plans
       \/ /\ q.plan # Malformed /\ q.version # Nil
          /\ IF Held(q.recipe, q.version)   \* a plan is filed for a version the store holds
             THEN Settle(c, Done) /\ plans' = Filing(PlanRow(q))
             ELSE Settle(c, VersionNotFound) /\ UNCHANGED plans
    /\ UNCHANGED <<snapshots, versions, grants>>

PlanFor(r, v) == {s \in plans : s.recipe = r /\ s.version = v}

LoadCookingPlan(c) ==
    LET q == call[c].request IN
    /\ Asked(c, "loadPlan")
    /\ \/ PlanFor(q.recipe, q.version) = {} /\ Settle(c, Absent)
       \/ \E s \in PlanFor(q.recipe, q.version) : Settle(c, PlanAnswer(s.plan))
    /\ UNCHANGED stores

Active(d) == grants[d] # NoGrant /\ ~grants[d].revoked

\* A digest is taken for good by its first grant.
Free(d) == grants[d] = NoGrant

StoreCapabilityGrant(c) ==
    LET q == call[c].request IN
    /\ Asked(c, "storeGrant")
    /\ IF Free(q.digest)
       THEN /\ grants' = [grants EXCEPT ![q.digest] = [recipe |-> q.recipe, revoked |-> FALSE]]
            /\ Settle(c, Verdict(TRUE))
       ELSE Settle(c, Verdict(FALSE)) /\ UNCHANGED grants
    /\ UNCHANGED <<snapshots, versions, plans>>

ResolveCapabilityGrant(c) ==
    LET d == call[c].request.digest IN
    /\ Asked(c, "resolveGrant")
    /\ Settle(c, IF Active(d) THEN Reaches(grants[d].recipe) ELSE Absent)
    /\ UNCHANGED stores

RevokeCapabilityGrant(c) ==
    LET d == call[c].request.digest IN
    /\ Asked(c, "revokeGrant")
    /\ grants' = IF Active(d) THEN [grants EXCEPT ![d].revoked = TRUE] ELSE grants
    /\ Settle(c, Verdict(Active(d)))
    /\ UNCHANGED <<snapshots, versions, plans>>

-------------------------------------------------------------------------------
(* A pending call is rejected without having had any effect. *)
Fail(c) ==
    /\ call[c].phase = "pending"
    /\ Settle(c, Failed)
    /\ UNCHANGED stores

(* The call took effect and its caller is told it failed. *)
LoseReply(c) ==
    /\ call[c].phase = "settled"
    /\ Settle(c, Failed)
    /\ UNCHANGED stores

Return(c) ==
    /\ call[c].phase = "settled"
    /\ call' = [call EXCEPT ![c] = Answered(call[c].request, call[c].answer)]
    /\ UNCHANGED stores

(* The process stops: every promise is gone, what was stored is not. *)
Crash ==
    /\ call' = [c \in Clients |-> NoCall]
    /\ UNCHANGED stores

Operation(c) ==
    \/ StoreSnapshot(c)          \/ LoadSnapshot(c)
    \/ AppendCanonicalVersion(c) \/ LoadLatestCanonical(c)
    \/ ListLibrary(c)            \/ ReadTwoRuns(c)
    \/ StoreCookingPlan(c)       \/ LoadCookingPlan(c)
    \/ StoreCapabilityGrant(c)   \/ ResolveCapabilityGrant(c)
    \/ RevokeCapabilityGrant(c)

Next ==
    \/ \E c \in Clients :
          \/ \E q \in Requests : Invoke(c, q)
          \/ Operation(c)
          \/ Fail(c) \/ LoseReply(c) \/ Return(c)
    \/ Crash

Spec == Init /\ [][Next]_vars

===============================================================================
