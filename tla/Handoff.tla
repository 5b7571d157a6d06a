-------------------------------- MODULE Handoff --------------------------------
(***************************************************************************)
(* The capability handoff: sharing a recipe by an unguessable address,     *)
(* serving it, and taking the address back.  The routes are                *)
(* src/http/capability-app.ts (serve) and src/http/pages-app.ts (share and *)
(* revoke), over src/shopping/capability-token.ts.                         *)
(*                                                                         *)
(* Requests run concurrently and interleave at every repository call; one  *)
(* call is one step here, as RecipeRepository promises and PostgresStore   *)
(* keeps.  A call may fail before it took effect (Fail) or after (the Lost *)
(* actions), and the process may stop.  A token stands for its digest:     *)
(* SHA-256 is taken to be injective.  The minter may mint any token, one   *)
(* already held included - the case MAX_MINT_ATTEMPTS is there for.        *)
(***************************************************************************)
EXTENDS Naturals

CONSTANTS
    Handlers,       \* requests the instance serves at once
    Recipes,        \* recipe ids
    Tokens,         \* what the minter may mint
    Unsafe,         \* path segments that are not path-safe tokens
    MaxMintAttempts,
    MaxVersion,     \* bound: versions imported per recipe
    NoRecipe

ASSUME AttemptsAssumption == MaxMintAttempts \in Nat \ {0}
ASSUME VersionAssumption == MaxVersion \in Nat
ASSUME NoRecipeAssumption == NoRecipe \notin Recipes
ASSUME UnsafeAssumption == Unsafe \cap Tokens = {}

VARIABLES
    latest,         \* recipe -> its latest version, 0 when the library has none
    grant,          \* token -> the grant kept under its digest
    request,        \* handler -> where its request is
    asked,          \* ghost: tokens whose revocation was ever asked for
    ended,          \* ghost: tokens a revocation was answered for while a grant was kept
    shared          \* ghost: token -> the recipe it was handed out for

vars == <<latest, grant, request, asked, ended, shared>>

NoGrant == [recipe |-> NoRecipe, revoked |-> FALSE]
GrantFor(r) == [recipe |-> r, revoked |-> FALSE]
Active(t) == grant[t] # NoGrant /\ ~grant[t].revoked

(***************************************************************************)
(* Where a request is.  A request to serve carries what the ghosts knew as *)
(* it arrived: whether the token's revocation had been answered, whether   *)
(* it reached a recipe then, and the versions the library had.             *)
(***************************************************************************)
Idle == [at |-> "idle"]
Resolving(t, knew) == [at |-> "resolving", token |-> t, knew |-> knew]
Loading(t, r, knew) == [at |-> "loading", token |-> t, recipe |-> r, knew |-> knew]
Checking(r) == [at |-> "checking", recipe |-> r]
Minting(r, n) == [at |-> "minting", recipe |-> r, attempt |-> n]
Revoking(t) == [at |-> "revoking", token |-> t]

Served(t, r, v, knew) ==
    [at |-> "served", token |-> t, recipe |-> r, version |-> v, knew |-> knew]
Missed(t, knew) == [at |-> "missed", token |-> t, knew |-> knew]
NotFound == [at |-> "unknown"]
SharedAs(t, r) == [at |-> "shared", token |-> t, recipe |-> r]
Revoked(t, was) == [at |-> "revoked", token |-> t, was |-> was]
Broken == [at |-> "broken"]

Busy == {"resolving", "loading", "checking", "minting", "revoking"}
Over == {"idle", "served", "missed", "unknown", "shared", "revoked", "broken"}
CanAsk(h) == request[h].at \in Over
Now(h, at) == request[h].at = at
Reply(h, a) == request' = [request EXCEPT ![h] = a]

Init ==
    /\ latest = [r \in Recipes |-> 0]
    /\ grant = [t \in Tokens |-> NoGrant]
    /\ request = [h \in Handlers |-> Idle]
    /\ asked = {} /\ ended = {}
    /\ shared = [t \in Tokens |-> NoRecipe]

(* An import appends a version. *)
Import(r) ==
    /\ latest[r] < MaxVersion
    /\ latest' = [latest EXCEPT ![r] = @ + 1]
    /\ UNCHANGED <<grant, request, asked, ended, shared>>

-------------------------------------------------------------------------------
(* GET /r/:token *)
Known(t) == [ended |-> t \in ended, active |-> Active(t), latest |-> latest]

AskServe(h) ==
    /\ CanAsk(h)
    /\ \/ \E t \in Tokens : Reply(h, Resolving(t, Known(t)))
       \/ Unsafe # {} /\ Reply(h, NotFound)
    /\ UNCHANGED <<latest, grant, asked, ended, shared>>

\* Mutant: a revoked grant still resolves.
ReachesEvenRevoked(t) == grant[t] # NoGrant
ReachesRecipe(t) == Active(t)

Resolve(h) ==
    LET t == request[h].token  knew == request[h].knew IN
    /\ Now(h, "resolving")
    /\ Reply(h, IF ReachesRecipe(t) THEN Loading(t, grant[t].recipe, knew) ELSE Missed(t, knew))
    /\ UNCHANGED <<latest, grant, asked, ended, shared>>

\* Mutant: the first version of a recipe is served, not its latest.
FirstVersion(r) == 1
VersionServed(r) == latest[r]

Load(h) ==
    LET t == request[h].token  r == request[h].recipe  knew == request[h].knew IN
    /\ Now(h, "loading")
    /\ Reply(h, IF latest[r] = 0 THEN Missed(t, knew) ELSE Served(t, r, VersionServed(r), knew))
    /\ UNCHANGED <<latest, grant, asked, ended, shared>>

-------------------------------------------------------------------------------
(* POST /recipes/:id/share.  A wrong credential and an unknown recipe get  *)
(* the same answer, before anything is minted.                             *)
AskShare(h) ==
    /\ CanAsk(h)
    /\ \/ \E r \in Recipes : Reply(h, Checking(r))
       \/ Reply(h, NotFound)
    /\ UNCHANGED <<latest, grant, asked, ended, shared>>

Check(h) ==
    LET r == request[h].recipe IN
    /\ Now(h, "checking")
    /\ Reply(h, IF latest[r] = 0 THEN NotFound ELSE Minting(r, 1))
    /\ UNCHANGED <<latest, grant, asked, ended, shared>>

\* Mutants: a grant stored over the one its digest has, or over a revoked one.
TakesAny(t) == TRUE
TakesRevoked(t) == ~Active(t)
Takes(t) == grant[t] = NoGrant

Mint(h) ==
    LET r == request[h].recipe IN
    /\ Now(h, "minting")
    /\ \E t \in Tokens :
          /\ Takes(t)
          /\ grant' = [grant EXCEPT ![t] = GrantFor(r)]
          /\ shared' = [shared EXCEPT ![t] = r]
          /\ Reply(h, SharedAs(t, r))
    /\ UNCHANGED <<latest, asked, ended>>

\* The loop of issue.
NextAttempt(n) == n + 1
MoreAttempts(n) == n < MaxMintAttempts

Collide(h) ==
    LET r == request[h].recipe  n == request[h].attempt IN
    /\ Now(h, "minting")
    /\ \E t \in Tokens : ~Takes(t)
    /\ Reply(h, IF MoreAttempts(n) THEN Minting(r, NextAttempt(n)) ELSE Broken)
    /\ UNCHANGED <<latest, grant, asked, ended, shared>>

(* The grant is stored and the store's answer lost: nobody holds the token. *)
MintLost(h) ==
    /\ Now(h, "minting")
    /\ \E t \in Tokens : Takes(t) /\ grant' = [grant EXCEPT ![t] = GrantFor(request[h].recipe)]
    /\ Reply(h, Broken)
    /\ UNCHANGED <<latest, asked, ended, shared>>

-------------------------------------------------------------------------------
(* POST /shares/:token/revoke *)
AskRevoke(h) ==
    /\ CanAsk(h)
    /\ \/ \E t \in Tokens : Reply(h, Revoking(t)) /\ asked' = asked \cup {t}
       \/ Reply(h, NotFound) /\ UNCHANGED asked
    /\ UNCHANGED <<latest, grant, ended, shared>>

Killed(t) == [recipe |-> grant[t].recipe, revoked |-> TRUE]
AfterRevoke(t) == IF Active(t) THEN [grant EXCEPT ![t] = Killed(t)] ELSE grant

Revoke(h) ==
    LET t == request[h].token IN
    /\ Now(h, "revoking")
    /\ grant' = AfterRevoke(t)
    /\ ended' = IF grant[t] = NoGrant THEN ended ELSE ended \cup {t}
    /\ Reply(h, Revoked(t, Active(t)))
    /\ UNCHANGED <<latest, asked, shared>>

RevokeLost(h) ==
    /\ Now(h, "revoking")
    /\ grant' = AfterRevoke(request[h].token)
    /\ Reply(h, Broken)
    /\ UNCHANGED <<latest, asked, ended, shared>>

-------------------------------------------------------------------------------
(* A repository call rejects: the request is answered with a 500. *)
Fail(h) ==
    /\ request[h].at \in Busy
    /\ Reply(h, Broken)
    /\ UNCHANGED <<latest, grant, asked, ended, shared>>

\* Mutant: grants kept in memory, as they were before ADR-0032.
Forgotten == [t \in Tokens |-> NoGrant]
Kept == grant

Crash ==
    /\ request' = [h \in Handlers |-> Idle]
    /\ grant' = Kept
    /\ UNCHANGED <<latest, asked, ended, shared>>

Step(h) ==
    \/ Resolve(h) \/ Load(h)
    \/ Check(h) \/ Mint(h) \/ Collide(h)
    \/ Revoke(h)

Next ==
    \/ \E r \in Recipes : Import(r)
    \/ \E h \in Handlers :
          \/ AskServe(h) \/ AskShare(h) \/ AskRevoke(h)
          \/ Step(h)
          \/ MintLost(h) \/ RevokeLost(h) \/ Fail(h)
    \/ Crash

Spec == Init /\ [][Next]_vars

-------------------------------------------------------------------------------
Knowledge == [ended : BOOLEAN, active : BOOLEAN, latest : [Recipes -> Nat]]
Requests ==
    {Idle, NotFound, Broken}
      \cup [at : {"resolving", "missed"}, token : Tokens, knew : Knowledge]
      \cup [at : {"loading"}, token : Tokens, recipe : Recipes, knew : Knowledge]
      \cup [at : {"served"}, token : Tokens, recipe : Recipes, version : Nat, knew : Knowledge]
      \cup [at : {"checking"}, recipe : Recipes]
      \cup [at : {"minting"}, recipe : Recipes, attempt : 1..MaxMintAttempts]
      \cup [at : {"revoking"}, token : Tokens]
      \cup [at : {"shared"}, token : Tokens, recipe : Recipes]
      \cup [at : {"revoked"}, token : Tokens, was : BOOLEAN]

(* Types: no request ever tries a ninth token. *)
TypeOK ==
    /\ latest \in [Recipes -> Nat]
    /\ grant \in [Tokens -> [recipe : Recipes, revoked : BOOLEAN] \cup {NoGrant}]
    /\ request = [h \in Handlers |-> request[h]]
    /\ \A h \in Handlers : request[h] \in Requests
    /\ asked \subseteq Tokens /\ ended \subseteq asked
    /\ shared \in [Tokens -> Recipes \cup {NoRecipe}]

(* ADR-0016 point 5: once the revocation of a grant has been answered, no  *)
(* request that arrives later is served by its token - whatever was minted,*)
(* retried or restarted since.                                             *)
RevocationIsFinal ==
    \A h \in Handlers : Now(h, "served") => ~request[h].knew.ended

(* Exactly one recipe: whoever presents a token that was handed out gets   *)
(* the recipe it was handed out for, and no two holders of one token ever  *)
(* see two recipes.                                                        *)
TokensReachOneRecipe ==
    \A h \in Handlers : Now(h, "served") =>
        /\ shared[request[h].token] \in {request[h].recipe, NoRecipe}
        /\ grant[request[h].token].recipe = request[h].recipe

(* OQ-17, permanent otherwise: a token that was handed out works across    *)
(* stops and restarts until somebody asks for its end.                     *)
PermanentUntilRevoked ==
    \A t \in Tokens : shared[t] # NoRecipe /\ t \notin asked => grant[t] = GrantFor(shared[t])

(* A miss is honest: a token that reached a held recipe as the request     *)
(* arrived is missed only if somebody asked for its end.                   *)
MissesAreHonest ==
    \A h \in Handlers : Now(h, "missed") /\ request[h].knew.active => request[h].token \in asked

(* What is served is never older than what the library held on arrival,    *)
(* imports racing the request or not.                                      *)
ServesCurrentRecipe ==
    \A h \in Handlers : Now(h, "served") =>
        request[h].version >= request[h].knew.latest[request[h].recipe]

(* Neither a recipe nor its absence is answered from the past. *)
AnswersAreCurrent == MissesAreHonest /\ ServesCurrentRecipe
===============================================================================
