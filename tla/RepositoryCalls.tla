---------------------------- MODULE RepositoryCalls ----------------------------
(***************************************************************************)
(* The vocabulary of the repository interface: who calls, what may be      *)
(* asked, and what an answer looks like.  It is shared by the contract     *)
(* (RecipeRepository) and by the store that keeps it (PostgresStore).      *)
(*                                                                         *)
(* A call is one JavaScript promise.  It is "pending" from the moment the  *)
(* caller invokes it, "settled" once its outcome is fixed but has not      *)
(* reached the caller yet, and "returned" once the caller holds it; a      *)
(* caller without a call is "idle".  A document is a model value: what     *)
(* these modules tell apart is which document is kept where.  Malformed    *)
(* stands for every input the contract's Zod parse rejects, and Nil for    *)
(* TypeScript's undefined.                                                 *)
(***************************************************************************)
EXTENDS Naturals, Sequences, FiniteSets

CONSTANTS
    Clients,        \* concurrent callers of the store
    SnapshotIds,    \* Source Snapshot ids
    Docs,           \* well-formed Source Snapshot documents
    Recipes,        \* Canonical Recipe ids
    Bodies,         \* well-formed Canonical Recipe documents
    Plans,          \* well-formed Cooking Plan documents
    Digests,        \* capability token digests
    TitleOf,        \* the title a body carries, Nil for a declared gap
    MaxVersion,     \* bound: an append starts only below this many versions
    Malformed,      \* an input the contract's parse rejects
    Nil             \* undefined

ASSUME MaxVersionAssumption == MaxVersion \in Nat
ASSUME NilAssumption ==
    Nil \notin Docs \cup Bodies \cup Plans \cup Recipes \cup Nat
ASSUME MalformedAssumption == Malformed \notin Docs \cup Bodies \cup Plans
ASSUME TitleAssumption == DOMAIN TitleOf = Bodies

Ordinals == Nat \ {0}

(***************************************************************************)
(* The requests.  A caller may ask for ordinals the store never assigned,  *)
(* offer an input that does not parse, or offer a plan naming no version.  *)
(***************************************************************************)
StoreSnapshotRequests == [op : {"storeSnapshot"}, snapshot : SnapshotIds,
                          doc : Docs \cup {Malformed}]
LoadSnapshotRequests  == [op : {"loadSnapshot"}, snapshot : SnapshotIds]
AppendRequests        == [op : {"append"}, recipe : Recipes,
                          body : Bodies \cup {Malformed}]
LoadLatestRequests    == [op : {"loadLatest"}, recipe : Recipes]
ListRequests          == [op : {"listLibrary"}]
TwoRunsRequests       == [op : {"readTwoRuns"}, recipe : Recipes,
                          a : Ordinals, b : Ordinals]
StorePlanRequests     == [op : {"storePlan"}, recipe : Recipes,
                          version : Ordinals \cup {Nil}, plan : Plans \cup {Malformed}]
LoadPlanRequests      == [op : {"loadPlan"}, recipe : Recipes, version : Ordinals]
StoreGrantRequests    == [op : {"storeGrant"}, digest : Digests, recipe : Recipes]
ResolveRequests       == [op : {"resolveGrant"}, digest : Digests]
RevokeRequests        == [op : {"revokeGrant"}, digest : Digests]

AllRequests ==
    StoreSnapshotRequests \cup LoadSnapshotRequests \cup AppendRequests
      \cup LoadLatestRequests \cup ListRequests \cup TwoRunsRequests
      \cup StorePlanRequests \cup LoadPlanRequests
      \cup StoreGrantRequests \cup ResolveRequests \cup RevokeRequests

CONSTANT Requests   \* the requests the callers of one instance make

ASSUME RequestsAssumption == Requests \subseteq AllRequests

(***************************************************************************)
(* The answers.  Failed is a rejection whose cause is not the input: the   *)
(* connection broke, or a statement was refused by the database.           *)
(***************************************************************************)
Done             == [kind |-> "done"]
Absent           == [kind |-> "absent"]
Failed           == [kind |-> "failed"]
Refused(why)     == [kind |-> "refused", why |-> why]
Document(d)      == [kind |-> "document", doc |-> d]
Version(r, v, b) == [kind |-> "version", recipe |-> r, version |-> v, body |-> b]
TwoRuns(x, y)    == [kind |-> "twoRuns", first |-> x, second |-> y]
Library(entries) == [kind |-> "library", entries |-> entries]
PlanAnswer(p)    == [kind |-> "plan", plan |-> p]
Verdict(b)       == [kind |-> "verdict", holds |-> b]
Reaches(r)       == [kind |-> "reaches", recipe |-> r]

Invalid         == Refused("invalid")
Unversioned     == Refused("unversioned plan")
VersionNotFound == Refused("recipe version not found")

(***************************************************************************)
(* A call: its phase, the request it carries and the answer it was given.  *)
(***************************************************************************)
NoCall          == [phase |-> "idle", request |-> Nil, answer |-> Nil]
Asking(q)       == [phase |-> "pending", request |-> q, answer |-> Nil]
Settled(q, a)   == [phase |-> "settled", request |-> q, answer |-> a]
Answered(q, a)  == [phase |-> "returned", request |-> q, answer |-> a]

NoGrant == [recipe |-> Nil, revoked |-> FALSE]
Grants  == [recipe : Recipes, revoked : BOOLEAN] \cup {NoGrant}
===============================================================================
