----------------------------- MODULE HandoffProofs -----------------------------
(***************************************************************************)
(* Proofs about the capability handoff, for any number of requests,        *)
(* recipes and tokens.                                                     *)
(*                                                                         *)
(* The properties speak of a request that has been answered; what makes    *)
(* them true is what the store keeps (GrantsKept) and what a request under *)
(* way may rely on (Sound).  Grants and library only grow (Grows), so what *)
(* a request relies on survives every step of every other request.         *)
(***************************************************************************)
EXTENDS Handoff, TLAPS

(* Only held recipes are granted, only asked-for ends happen, an answered  *)
(* end is a kept one, and a token names one recipe.                        *)
GrantsKept ==
    \A t \in Tokens :
        /\ grant[t] # NoGrant => latest[grant[t].recipe] > 0
        /\ grant[t].revoked => t \in asked
        /\ t \in ended => grant[t].revoked
        /\ shared[t] # NoRecipe => shared[t] = grant[t].recipe

Resolvable(q) ==
    /\ q.knew.ended => grant[q.token].revoked
    /\ q.knew.active => grant[q.token] # NoGrant
    /\ \A r \in Recipes : q.knew.latest[r] <= latest[r]

Loadable(q) ==
    /\ ~q.knew.ended
    /\ grant[q.token] # NoGrant /\ grant[q.token].recipe = q.recipe
    /\ \A r \in Recipes : q.knew.latest[r] <= latest[r]

Sound(q) ==
    /\ q.at = "resolving" => Resolvable(q)
    /\ q.at = "loading" => Loadable(q)
    /\ q.at = "served" =>
          /\ ~q.knew.ended
          /\ grant[q.token] # NoGrant /\ grant[q.token].recipe = q.recipe
          /\ q.version >= q.knew.latest[q.recipe]
    /\ q.at = "missed" => (q.knew.active => q.token \in asked)
    /\ q.at = "minting" => latest[q.recipe] > 0
    /\ q.at = "revoking" => q.token \in asked

IInv == TypeOK /\ GrantsKept /\ \A h \in Handlers : Sound(request[h])

(* What any step may do to the library and the grants. *)
Grows ==
    /\ \A r \in Recipes : latest[r] <= latest'[r]
    /\ \A t \in Tokens : grant[t] # NoGrant =>
          /\ grant'[t] # NoGrant
          /\ grant'[t].recipe = grant[t].recipe
          /\ grant[t].revoked => grant'[t].revoked
    /\ asked \subseteq asked'

Typed(q) ==
    /\ q.at \in {"resolving", "missed"} => q.token \in Tokens /\ q.knew \in Knowledge
    /\ q.at \in {"loading", "served"} =>
          q.token \in Tokens /\ q.recipe \in Recipes /\ q.knew \in Knowledge
    /\ q.at = "served" => q.version \in Nat
    /\ q.at = "checking" => q.recipe \in Recipes
    /\ q.at = "minting" => q.recipe \in Recipes /\ q.attempt \in 1..MaxMintAttempts
    /\ q.at = "revoking" => q.token \in Tokens

(* The fields a request has where it is. *)
LEMMA RequestsTyped == ASSUME NEW q \in Requests PROVE Typed(q)
<1>1. CASE q \in {Idle, NotFound, Broken}
  <2>1. q.at \in {"idle", "unknown", "broken"} BY <1>1 DEF Idle, NotFound, Broken
  <2> QED BY <2>1 DEF Typed
<1>2. CASE q \in [at : {"resolving", "missed"}, token : Tokens, knew : Knowledge]
  BY <1>2 DEF Typed
<1>3. CASE q \in [at : {"loading"}, token : Tokens, recipe : Recipes, knew : Knowledge]
  BY <1>3 DEF Typed
<1>4. CASE q \in [at : {"served"}, token : Tokens, recipe : Recipes, version : Nat, knew : Knowledge]
  BY <1>4 DEF Typed
<1>5. CASE q \in [at : {"checking"}, recipe : Recipes]
  BY <1>5 DEF Typed
<1>6. CASE q \in [at : {"minting"}, recipe : Recipes, attempt : 1..MaxMintAttempts]
  BY <1>6 DEF Typed
<1>7. CASE q \in [at : {"revoking"}, token : Tokens]
  BY <1>7 DEF Typed
<1>8. CASE q \in [at : {"shared"}, token : Tokens, recipe : Recipes]
  BY <1>8 DEF Typed
<1>9. CASE q \in [at : {"revoked"}, token : Tokens, was : BOOLEAN]
  BY <1>9 DEF Typed
<1> QED BY <1>1, <1>2, <1>3, <1>4, <1>5, <1>6, <1>7, <1>8, <1>9 DEF Requests

(* What a request relies on survives whatever the others do. *)
LEMMA SoundnessSurvives ==
    ASSUME TypeOK, TypeOK', Grows, NEW q \in Requests, Sound(q)
    PROVE  Sound(q)'
<1>1. Typed(q) BY RequestsTyped
<1>a. \A n \in [Recipes -> Nat] :
        (\A r \in Recipes : n[r] <= latest[r]) => (\A r \in Recipes : n[r] <= latest'[r])
  <2>1. latest \in [Recipes -> Nat] /\ latest' \in [Recipes -> Nat] BY DEF TypeOK
  <2>2. \A r \in Recipes : latest[r] <= latest'[r] BY DEF Grows
  <2> QED BY <2>1, <2>2
<1>2. ASSUME q.at = "resolving" PROVE Resolvable(q)'
  <2>1. q.token \in Tokens /\ q.knew.latest \in [Recipes -> Nat] /\ Resolvable(q)
    BY <1>1, <1>2 DEF Typed, Knowledge, Sound
  <2>2. \A r \in Recipes : q.knew.latest[r] <= latest'[r]
    BY <2>1, <1>a DEF Resolvable
  <2>3. q.knew.active => grant'[q.token] # NoGrant
    BY <2>1 DEF Resolvable, Grows
  <2>4. grant[q.token].revoked => grant'[q.token].revoked
    BY <2>1 DEF Grows, NoGrant
  <2>5. q.knew.ended => grant'[q.token].revoked
    BY <2>1, <2>4 DEF Resolvable
  <2> QED BY <2>2, <2>3, <2>5 DEF Resolvable
<1>3. ASSUME q.at = "loading" PROVE Loadable(q)'
  <2>1. q.token \in Tokens /\ q.knew.latest \in [Recipes -> Nat] /\ Loadable(q)
    BY <1>1, <1>3 DEF Typed, Knowledge, Sound
  <2>2. \A r \in Recipes : q.knew.latest[r] <= latest'[r]
    BY <2>1, <1>a DEF Loadable
  <2> QED BY <2>1, <2>2 DEF Loadable, Grows
<1>4. q.at = "served" => grant'[q.token] # NoGrant /\ grant'[q.token].recipe = q.recipe
  BY <1>1 DEF Sound, Typed, Grows
<1>5. q.at = "minting" => latest'[q.recipe] > 0
  BY <1>1 DEF Sound, Typed, Grows, TypeOK
<1>6. q.at \in {"missed", "revoking"} /\ q.token \in asked => q.token \in asked'
  BY DEF Grows
<1> QED BY <1>2, <1>3, <1>4, <1>5, <1>6 DEF Sound

(* One request moves to a sound place, the others stay where they are. *)
LEMMA RepliesAreSound ==
    ASSUME IInv, TypeOK', Grows, NEW h \in Handlers, NEW a, Reply(h, a), Sound(a)'
    PROVE  (\A i \in Handlers : Sound(request[i]))'
<1> SUFFICES ASSUME NEW i \in Handlers PROVE Sound(request[i])'
  OBVIOUS
<1> request = [j \in Handlers |-> request[j]] BY DEF IInv, TypeOK
<1>1. CASE i = h
  BY <1>1 DEF Reply
<1>2. CASE i # h
  <2>1. request'[i] = request[i] BY <1>2 DEF Reply
  <2>2. request[i] \in Requests BY DEF IInv, TypeOK
  <2>3. Sound(request[i]) BY DEF IInv
  <2>4. PICK q : q = request[i] OBVIOUS
  <2>5. Sound(q)' BY <2>2, <2>3, <2>4, SoundnessSurvives DEF IInv
  <2> QED BY <2>1, <2>4, <2>5
<1> QED BY <1>1, <1>2

-------------------------------------------------------------------------------
(* A step that leaves library and grants alone and answers with a sound a. *)
LEMMA QuietStep ==
    ASSUME IInv, NEW h \in Handlers, NEW a \in Requests, Reply(h, a), Sound(a),
           UNCHANGED <<latest, grant, ended, shared>>,
           asked \subseteq asked', asked' \subseteq Tokens
    PROVE  IInv'
<1>1. TypeOK'
  BY DEF IInv, TypeOK, Reply
<1>2. Grows
  BY DEF IInv, TypeOK, Grows
<1>3. GrantsKept'
  BY DEF IInv, TypeOK, GrantsKept
<1>4. Sound(a)'
  BY <1>1, <1>2, SoundnessSurvives DEF IInv
<1> QED
  BY <1>1, <1>2, <1>3, <1>4, RepliesAreSound DEF IInv

LEMMA InitIInv == Init => IInv
<1> SUFFICES ASSUME Init PROVE IInv
  OBVIOUS
<1>1. TypeOK
  BY DEF Init, TypeOK, Requests, Idle
<1>2. GrantsKept
  BY DEF Init, GrantsKept, NoGrant
<1>3. \A h \in Handlers : Sound(request[h])
  BY DEF Init, Sound, Idle
<1> QED
  BY <1>1, <1>2, <1>3 DEF IInv

(* Nothing relies on a request that is over. *)
LEMMA OverIsSound ==
    /\ Idle \in Requests /\ Sound(Idle)
    /\ NotFound \in Requests /\ Sound(NotFound)
    /\ Broken \in Requests /\ Sound(Broken)
  BY DEF Requests, Sound, Idle, NotFound, Broken

LEMMA ImportStep == ASSUME IInv, NEW r \in Recipes, Import(r) PROVE IInv'
<1>1. TypeOK'
  BY DEF IInv, TypeOK, Import
<1>2. Grows
  BY DEF IInv, TypeOK, Import, Grows
<1>3. GrantsKept'
  <2> SUFFICES ASSUME NEW t \in Tokens, grant[t] # NoGrant
               PROVE  latest'[grant[t].recipe] > 0
    BY DEF IInv, GrantsKept, Import
  <2>1. grant[t].recipe \in Recipes /\ latest[grant[t].recipe] > 0
    BY DEF IInv, TypeOK, GrantsKept
  <2>2. latest' \in [Recipes -> Nat] /\ latest \in [Recipes -> Nat]
    BY <1>1 DEF IInv, TypeOK
  <2> QED
    BY <2>1, <2>2, <1>2 DEF Grows
<1>4. ASSUME NEW h \in Handlers PROVE Sound(request[h])'
  <2>1. PICK q : q = request[h] OBVIOUS
  <2>2. q \in Requests /\ Sound(q) BY <2>1 DEF IInv, TypeOK
  <2>3. Sound(q)' BY <1>1, <1>2, <2>2, SoundnessSurvives DEF IInv
  <2> QED BY <2>1, <2>3 DEF Import
<1> QED
  BY <1>1, <1>3, <1>4 DEF IInv

LEMMA AskServeStep == ASSUME IInv, NEW h \in Handlers, AskServe(h) PROVE IInv'
<1>1. CASE Reply(h, NotFound)
  BY <1>1, QuietStep, OverIsSound DEF AskServe, IInv, TypeOK
<1>2. CASE \E t \in Tokens : Reply(h, Resolving(t, Known(t)))
  <2>1. PICK t \in Tokens : Reply(h, Resolving(t, Known(t)))
    BY <1>2
  <2>2. PICK k : k = Known(t)
    OBVIOUS
  <2>3. k \in Knowledge
    BY <2>2 DEF Known, Knowledge, Active, IInv, TypeOK
  <2>4. Resolving(t, k) \in Requests
    BY <2>3 DEF Requests, Resolving
  <2>5. /\ k.ended => grant[t].revoked
        /\ k.active => grant[t] # NoGrant
        /\ k.latest = latest
    BY <2>2 DEF Known, Active, IInv, GrantsKept
  <2>6. \A r \in Recipes : k.latest[r] <= latest[r]
    BY <2>5 DEF IInv, TypeOK
  <2>7. Sound(Resolving(t, k))
    BY <2>5, <2>6 DEF Sound, Resolving, Resolvable
  <2> QED
    BY <2>1, <2>2, <2>4, <2>7, QuietStep DEF AskServe, IInv, TypeOK
<1> QED
  BY <1>1, <1>2 DEF AskServe

LEMMA ResolveStep == ASSUME IInv, NEW h \in Handlers, Resolve(h) PROVE IInv'
<1>1. PICK q \in Requests : q = request[h]
  BY DEF IInv, TypeOK
<1>2. q.at = "resolving" /\ Sound(q) /\ Typed(q)
  BY <1>1, RequestsTyped DEF Resolve, Now, IInv
<1>3. q.token \in Tokens /\ q.knew \in Knowledge /\ Resolvable(q)
  BY <1>2 DEF Typed, Sound
<1>4. CASE Active(q.token)
  <2>1. PICK a : a = Loading(q.token, grant[q.token].recipe, q.knew)
    OBVIOUS
  <2>2. a \in Requests
    BY <2>1, <1>3, <1>4 DEF Active, IInv, TypeOK, Requests, Loading
  <2>3. Sound(a)
    BY <2>1, <1>3, <1>4 DEF Sound, Loading, Loadable, Resolvable, Active
  <2> QED
    BY <1>1, <1>4, <2>1, <2>2, <2>3, QuietStep DEF Resolve, ReachesRecipe, IInv, TypeOK
<1>5. CASE ~Active(q.token)
  <2>1. PICK a : a = Missed(q.token, q.knew)
    OBVIOUS
  <2>2. a \in Requests
    BY <2>1, <1>3 DEF Requests, Missed
  <2>3. q.knew.active => q.token \in asked
    BY <1>3, <1>5 DEF Resolvable, Active, IInv, GrantsKept
  <2>4. Sound(a)
    BY <2>1, <2>3 DEF Sound, Missed
  <2> QED
    BY <1>1, <1>5, <2>1, <2>2, <2>4, QuietStep DEF Resolve, ReachesRecipe, IInv, TypeOK
<1> QED
  BY <1>4, <1>5

LEMMA LoadStep == ASSUME IInv, NEW h \in Handlers, Load(h) PROVE IInv'
<1>1. PICK q \in Requests : q = request[h]
  BY DEF IInv, TypeOK
<1>2. q.at = "loading" /\ Sound(q) /\ Typed(q)
  BY <1>1, RequestsTyped DEF Load, Now, IInv
<1>3. q.token \in Tokens /\ q.recipe \in Recipes /\ q.knew \in Knowledge /\ Loadable(q)
  BY <1>2 DEF Typed, Sound
<1>4. latest[q.recipe] > 0 /\ latest[q.recipe] \in Nat
  BY <1>3 DEF Loadable, IInv, GrantsKept, TypeOK
<1>5. PICK a : a = Served(q.token, q.recipe, latest[q.recipe], q.knew)
  OBVIOUS
<1>6. a \in Requests
  BY <1>3, <1>4, <1>5 DEF Requests, Served
<1>7. latest[q.recipe] >= q.knew.latest[q.recipe]
  <2>1. q.knew.latest[q.recipe] \in Nat /\ q.knew.latest[q.recipe] <= latest[q.recipe]
    BY <1>3 DEF Knowledge, Loadable
  <2> QED BY <2>1, <1>4
<1>8. Sound(a)
  BY <1>3, <1>5, <1>7 DEF Sound, Served, Loadable
<1> QED
  BY <1>1, <1>4, <1>5, <1>6, <1>8, QuietStep DEF Load, VersionServed, IInv, TypeOK

LEMMA AskShareStep == ASSUME IInv, NEW h \in Handlers, AskShare(h) PROVE IInv'
<1>1. CASE Reply(h, NotFound)
  BY <1>1, QuietStep, OverIsSound DEF AskShare, IInv, TypeOK
<1>2. CASE \E r \in Recipes : Reply(h, Checking(r))
  <2>1. PICK r \in Recipes : Reply(h, Checking(r))
    BY <1>2
  <2>2. Checking(r) \in Requests /\ Sound(Checking(r))
    BY DEF Requests, Checking, Sound
  <2> QED
    BY <2>1, <2>2, QuietStep DEF AskShare, IInv, TypeOK
<1> QED
  BY <1>1, <1>2 DEF AskShare

LEMMA CheckStep == ASSUME IInv, NEW h \in Handlers, Check(h) PROVE IInv'
<1>1. PICK q \in Requests : q = request[h]
  BY DEF IInv, TypeOK
<1>2. q.at = "checking" /\ q.recipe \in Recipes
  BY <1>1, RequestsTyped DEF Check, Now, Typed
<1>3. CASE latest[q.recipe] = 0
  BY <1>1, <1>3, QuietStep, OverIsSound DEF Check, IInv, TypeOK
<1>4. CASE latest[q.recipe] # 0
  <2>1. latest[q.recipe] > 0
    BY <1>2, <1>4 DEF IInv, TypeOK
  <2>2. Minting(q.recipe, 1) \in Requests
    BY <1>2, AttemptsAssumption DEF Requests, Minting
  <2>3. Sound(Minting(q.recipe, 1))
    BY <2>1 DEF Sound, Minting
  <2> QED
    BY <1>1, <1>4, <2>2, <2>3, QuietStep DEF Check, IInv, TypeOK
<1> QED
  BY <1>3, <1>4

LEMMA CollideStep == ASSUME IInv, NEW h \in Handlers, Collide(h) PROVE IInv'
<1>1. PICK q \in Requests : q = request[h]
  BY DEF IInv, TypeOK
<1>2. q.at = "minting" /\ Sound(q) /\ Typed(q)
  BY <1>1, RequestsTyped DEF Collide, Now, IInv
<1>3. q.recipe \in Recipes /\ q.attempt \in 1..MaxMintAttempts /\ latest[q.recipe] > 0
  BY <1>2 DEF Typed, Sound
<1>4. CASE MoreAttempts(q.attempt)
  <2>1. q.attempt + 1 \in 1..MaxMintAttempts
    BY <1>3, <1>4, AttemptsAssumption DEF MoreAttempts
  <2>2. Minting(q.recipe, q.attempt + 1) \in Requests
    BY <2>1, <1>3 DEF Requests, Minting
  <2>3. Sound(Minting(q.recipe, q.attempt + 1))
    BY <1>3 DEF Sound, Minting
  <2> QED
    BY <1>1, <1>4, <2>2, <2>3, QuietStep DEF Collide, NextAttempt, IInv, TypeOK
<1>5. CASE ~MoreAttempts(q.attempt)
  BY <1>1, <1>5, QuietStep, OverIsSound DEF Collide, IInv, TypeOK
<1> QED
  BY <1>4, <1>5

LEMMA AskRevokeStep == ASSUME IInv, NEW h \in Handlers, AskRevoke(h) PROVE IInv'
<1>1. CASE Reply(h, NotFound) /\ UNCHANGED asked
  BY <1>1, QuietStep, OverIsSound DEF AskRevoke, IInv, TypeOK
<1>2. CASE \E t \in Tokens : Reply(h, Revoking(t)) /\ asked' = asked \cup {t}
  <2>1. PICK t \in Tokens : Reply(h, Revoking(t)) /\ asked' = asked \cup {t}
    BY <1>2
  <2>2. Revoking(t) \in Requests
    BY DEF Requests, Revoking
  <2>3. TypeOK' /\ Grows /\ GrantsKept'
    <3>1. TypeOK' BY <2>1, <2>2 DEF AskRevoke, IInv, TypeOK, Reply
    <3>2. Grows BY <2>1 DEF AskRevoke, IInv, TypeOK, Grows
    <3>3. GrantsKept' BY <2>1 DEF AskRevoke, IInv, TypeOK, GrantsKept
    <3> QED BY <3>1, <3>2, <3>3
  <2>4. Sound(Revoking(t))'
    BY <2>1 DEF Sound, Revoking
  <2> QED
    BY <2>1, <2>3, <2>4, RepliesAreSound DEF IInv
<1> QED
  BY <1>1, <1>2 DEF AskRevoke

LEMMA FailStep == ASSUME IInv, NEW h \in Handlers, Fail(h) PROVE IInv'
  BY QuietStep, OverIsSound DEF Fail, IInv, TypeOK

-------------------------------------------------------------------------------
(* A free token is granted for a held recipe; whether it is handed out or  *)
(* its answer lost, nothing that was kept changes.                         *)
LEMMA GrantStored ==
    ASSUME IInv, NEW t \in Tokens, NEW r \in Recipes, Takes(t), latest[r] > 0,
           grant' = [grant EXCEPT ![t] = GrantFor(r)],
           shared' \in {shared, [shared EXCEPT ![t] = r]},
           UNCHANGED <<latest, asked, ended>>
    PROVE  Grows /\ GrantsKept'
<1>1. grant'[t] = GrantFor(r) /\ \A u \in Tokens \ {t} : grant'[u] = grant[u]
  BY DEF IInv, TypeOK
<1>2. GrantFor(r) # NoGrant /\ GrantFor(r).recipe = r /\ GrantFor(r).revoked = FALSE
  BY NoRecipeAssumption DEF GrantFor, NoGrant
<1>3. grant[t] = NoGrant /\ ~grant[t].revoked
  BY DEF Takes, NoGrant
<1>4. Grows
  BY <1>1, <1>3 DEF Grows, IInv, TypeOK
<1>5. shared[t] = NoRecipe
  BY <1>3 DEF IInv, GrantsKept, NoGrant
<1>6. shared'[t] # NoRecipe => shared'[t] = r
  BY <1>5 DEF IInv, TypeOK
<1>7. \A u \in Tokens \ {t} : shared'[u] = shared[u]
  BY DEF IInv, TypeOK
<1>8. ASSUME NEW u \in Tokens
      PROVE  /\ grant'[u] # NoGrant => latest'[grant'[u].recipe] > 0
             /\ grant'[u].revoked => u \in asked'
             /\ u \in ended' => grant'[u].revoked
             /\ shared'[u] # NoRecipe => shared'[u] = grant'[u].recipe
  <2>1. CASE u = t BY <1>1, <1>2, <1>3, <1>6, <2>1 DEF IInv, GrantsKept
  <2>2. CASE u # t BY <1>1, <1>7, <2>2 DEF IInv, GrantsKept
  <2> QED BY <2>1, <2>2
<1> QED
  BY <1>4, <1>8 DEF GrantsKept

LEMMA MintStep == ASSUME IInv, NEW h \in Handlers, Mint(h) PROVE IInv'
<1>1. PICK q \in Requests : q = request[h]
  BY DEF IInv, TypeOK
<1>2. q.at = "minting" /\ q.recipe \in Recipes /\ latest[q.recipe] > 0
  BY <1>1, RequestsTyped DEF Mint, Now, Typed, IInv, Sound
<1>3. PICK t \in Tokens :
          /\ Takes(t)
          /\ grant' = [grant EXCEPT ![t] = GrantFor(q.recipe)]
          /\ shared' = [shared EXCEPT ![t] = q.recipe]
          /\ Reply(h, SharedAs(t, q.recipe))
  BY <1>1 DEF Mint
<1>4. UNCHANGED <<latest, asked, ended>>
  BY DEF Mint
<1>5. Grows /\ GrantsKept'
  BY <1>2, <1>3, <1>4, GrantStored
<1>6. SharedAs(t, q.recipe) \in Requests
  BY <1>2 DEF Requests, SharedAs
<1>7. TypeOK'
  BY <1>2, <1>3, <1>4, <1>6 DEF IInv, TypeOK, Reply, GrantFor
<1>8. Sound(SharedAs(t, q.recipe))'
  BY DEF Sound, SharedAs
<1> QED
  BY <1>3, <1>5, <1>7, <1>8, RepliesAreSound DEF IInv

LEMMA MintLostStep == ASSUME IInv, NEW h \in Handlers, MintLost(h) PROVE IInv'
<1>1. PICK q \in Requests : q = request[h]
  BY DEF IInv, TypeOK
<1>2. q.at = "minting" /\ q.recipe \in Recipes /\ latest[q.recipe] > 0
  BY <1>1, RequestsTyped DEF MintLost, Now, Typed, IInv, Sound
<1>3. PICK t \in Tokens : Takes(t) /\ grant' = [grant EXCEPT ![t] = GrantFor(q.recipe)]
  BY <1>1 DEF MintLost
<1>4. Reply(h, Broken) /\ UNCHANGED <<latest, asked, ended, shared>>
  BY DEF MintLost
<1>5. Grows /\ GrantsKept'
  BY <1>2, <1>3, <1>4, GrantStored
<1>6. TypeOK'
  BY <1>2, <1>3, <1>4, OverIsSound DEF IInv, TypeOK, Reply, GrantFor
<1>7. Sound(Broken)'
  BY DEF Sound, Broken
<1> QED
  BY <1>4, <1>5, <1>6, <1>7, RepliesAreSound DEF IInv

(* A revocation keeps the row and only ever ends it. *)
LEMMA GrantEnded ==
    ASSUME IInv, NEW t \in Tokens, t \in asked, grant' = AfterRevoke(t),
           ended' \in {ended, IF grant[t] = NoGrant THEN ended ELSE ended \cup {t}},
           UNCHANGED <<latest, asked, shared>>
    PROVE  Grows /\ GrantsKept' /\ grant' \in [Tokens -> [recipe : Recipes, revoked : BOOLEAN] \cup {NoGrant}]
<1>1. \A u \in Tokens \ {t} : grant'[u] = grant[u]
  BY DEF AfterRevoke, IInv, TypeOK
<1>2. grant[t] \in [recipe : Recipes, revoked : BOOLEAN] \cup {NoGrant}
  BY DEF IInv, TypeOK
<1>3. CASE grant[t] = NoGrant
  <2>1. grant' = grant
    BY <1>3 DEF AfterRevoke, Active
  <2>2. Grows
    BY <2>1 DEF Grows, IInv, TypeOK
  <2>3. ended' = ended
    BY <1>3
  <2> QED
    BY <2>1, <2>2, <2>3 DEF IInv, TypeOK, GrantsKept
<1>4. CASE grant[t] # NoGrant
  <2>1. grant[t] \in [recipe : Recipes, revoked : BOOLEAN]
    BY <1>2, <1>4
  <2>2. /\ grant'[t] \in [recipe : Recipes, revoked : BOOLEAN]
        /\ grant'[t].recipe = grant[t].recipe
        /\ grant'[t].revoked
    <3>1. CASE grant[t].revoked
      BY <2>1, <3>1 DEF AfterRevoke, Active
    <3>2. CASE ~grant[t].revoked
      BY <1>4, <2>1, <3>2 DEF AfterRevoke, Active, Killed, IInv, TypeOK
    <3> QED BY <3>1, <3>2
  <2>3. grant'[t] # NoGrant
    BY <2>2 DEF NoGrant
  <2>4. Grows
    BY <1>1, <2>2, <2>3 DEF Grows, IInv, TypeOK
  <2>5. ended' \subseteq ended \cup {t}
    OBVIOUS
  <2>6. GrantsKept'
    <3> SUFFICES ASSUME NEW u \in Tokens
                 PROVE  /\ grant'[u] # NoGrant => latest[grant'[u].recipe] > 0
                        /\ grant'[u].revoked => u \in asked
                        /\ u \in ended' => grant'[u].revoked
                        /\ shared[u] # NoRecipe => shared[u] = grant'[u].recipe
      BY DEF GrantsKept
    <3>1. CASE u = t BY <1>4, <2>2, <3>1 DEF IInv, GrantsKept
    <3>2. CASE u # t BY <1>1, <2>5, <3>2 DEF IInv, GrantsKept
    <3> QED BY <3>1, <3>2
  <2>7. grant' \in [Tokens -> [recipe : Recipes, revoked : BOOLEAN] \cup {NoGrant}]
    BY <2>1, <2>2 DEF AfterRevoke, Killed, IInv, TypeOK
  <2> QED
    BY <2>4, <2>6, <2>7
<1> QED
  BY <1>3, <1>4

LEMMA RevokeStep == ASSUME IInv, NEW h \in Handlers, Revoke(h) PROVE IInv'
<1>1. PICK q \in Requests : q = request[h]
  BY DEF IInv, TypeOK
<1>2. q.at = "revoking" /\ q.token \in Tokens /\ q.token \in asked
  BY <1>1, RequestsTyped DEF Revoke, Now, Typed, IInv, Sound
<1>3. PICK was \in BOOLEAN : was = Active(q.token)
  BY DEF Active
<1>4. /\ grant' = AfterRevoke(q.token)
      /\ ended' = IF grant[q.token] = NoGrant THEN ended ELSE ended \cup {q.token}
      /\ Reply(h, Revoked(q.token, was))
      /\ UNCHANGED <<latest, asked, shared>>
  BY <1>1, <1>3 DEF Revoke
<1>5. Grows /\ GrantsKept' /\ grant' \in [Tokens -> [recipe : Recipes, revoked : BOOLEAN] \cup {NoGrant}]
  BY <1>2, <1>4, GrantEnded
<1>6. Revoked(q.token, was) \in Requests
  BY <1>2 DEF Requests, Revoked
<1>7. TypeOK'
  BY <1>2, <1>4, <1>5, <1>6 DEF IInv, TypeOK, Reply
<1>8. Sound(Revoked(q.token, was))'
  BY DEF Sound, Revoked
<1> QED
  BY <1>4, <1>5, <1>7, <1>8, RepliesAreSound DEF IInv

LEMMA RevokeLostStep == ASSUME IInv, NEW h \in Handlers, RevokeLost(h) PROVE IInv'
<1>1. PICK q \in Requests : q = request[h]
  BY DEF IInv, TypeOK
<1>2. q.at = "revoking" /\ q.token \in Tokens /\ q.token \in asked
  BY <1>1, RequestsTyped DEF RevokeLost, Now, Typed, IInv, Sound
<1>3. grant' = AfterRevoke(q.token) /\ Reply(h, Broken) /\ UNCHANGED <<latest, asked, ended, shared>>
  BY <1>1 DEF RevokeLost
<1>4. Grows /\ GrantsKept' /\ grant' \in [Tokens -> [recipe : Recipes, revoked : BOOLEAN] \cup {NoGrant}]
  BY <1>2, <1>3, GrantEnded
<1>5. TypeOK'
  BY <1>3, <1>4, OverIsSound DEF IInv, TypeOK, Reply
<1>6. Sound(Broken)'
  BY DEF Sound, Broken
<1> QED
  BY <1>3, <1>4, <1>5, <1>6, RepliesAreSound DEF IInv

(* A stop takes the requests and keeps the grants. *)
LEMMA CrashStep == ASSUME IInv, Crash PROVE IInv'
<1>1. \A h \in Handlers : request'[h] = Idle
  BY DEF Crash
<1>2. UNCHANGED <<latest, grant, asked, ended, shared>>
  BY DEF Crash, Kept
<1>3. TypeOK'
  BY <1>1, <1>2, OverIsSound DEF Crash, IInv, TypeOK
<1>4. GrantsKept'
  BY <1>2 DEF IInv, GrantsKept
<1>5. \A h \in Handlers : Sound(request[h])'
  BY <1>1 DEF Sound, Idle
<1> QED
  BY <1>3, <1>4, <1>5 DEF IInv

LEMMA StutterStep == ASSUME IInv, UNCHANGED vars PROVE IInv'
<1>1. TypeOK' BY DEF IInv, TypeOK, vars
<1>2. GrantsKept' BY DEF IInv, GrantsKept, vars
<1>3. ASSUME NEW h \in Handlers PROVE Sound(request[h])'
  BY DEF IInv, Sound, Resolvable, Loadable, vars
<1> QED BY <1>1, <1>2, <1>3 DEF IInv

LEMMA NextIInv == IInv /\ [Next]_vars => IInv'
<1> SUFFICES ASSUME IInv, [Next]_vars PROVE IInv'
  OBVIOUS
<1>1. ASSUME NEW h \in Handlers, Step(h) PROVE IInv'
  BY <1>1, ResolveStep, LoadStep, CheckStep, MintStep, CollideStep, RevokeStep DEF Step
<1> QED
  BY <1>1, StutterStep, ImportStep, AskServeStep, AskShareStep, AskRevokeStep, MintLostStep,
     RevokeLostStep, FailStep, CrashStep DEF Next

-------------------------------------------------------------------------------
(* No request ever tries more tokens than issue's loop allows, and every   *)
(* value a request carries is one the code could have put there.           *)
THEOREM Invariant == Spec => []IInv
<1>1. Init => IInv BY InitIInv
<1>2. IInv /\ [Next]_vars => IInv' BY NextIInv
<1> QED BY <1>1, <1>2, PTL DEF Spec

(* A request that arrives after a revocation was answered is not served.   *)
THEOREM RevocationHolds == Spec => []RevocationIsFinal
<1>1. IInv => RevocationIsFinal BY DEF IInv, Sound, RevocationIsFinal, Now
<1> QED BY <1>1, Invariant, PTL

(* Nobody is served a recipe other than the one their token was for.       *)
THEOREM OneRecipePerToken == Spec => []TokensReachOneRecipe
<1>1. IInv => TokensReachOneRecipe
  <2> SUFFICES ASSUME IInv, NEW h \in Handlers, Now(h, "served")
               PROVE  /\ shared[request[h].token] \in {request[h].recipe, NoRecipe}
                      /\ grant[request[h].token].recipe = request[h].recipe
    BY DEF TokensReachOneRecipe
  <2>1. PICK q \in Requests : q = request[h] BY DEF IInv, TypeOK
  <2>2. q.at = "served" /\ Sound(q) /\ Typed(q) BY <2>1, RequestsTyped DEF Now, IInv
  <2>3. q.token \in Tokens /\ grant[q.token].recipe = q.recipe BY <2>2 DEF Typed, Sound
  <2>4. shared[q.token] # NoRecipe => shared[q.token] = q.recipe BY <2>3 DEF IInv, GrantsKept
  <2> QED BY <2>1, <2>3, <2>4
<1> QED BY <1>1, Invariant, PTL

(* Only a requested revocation ends a token that was handed out.           *)
THEOREM TokensAreKept == Spec => []PermanentUntilRevoked
<1>1. IInv => PermanentUntilRevoked
  <2> SUFFICES ASSUME IInv, NEW t \in Tokens, shared[t] # NoRecipe, t \notin asked
               PROVE  grant[t] = GrantFor(shared[t])
    BY DEF PermanentUntilRevoked
  <2>1. ~grant[t].revoked /\ shared[t] = grant[t].recipe BY DEF IInv, GrantsKept
  <2>2. grant[t] # NoGrant BY <2>1 DEF NoGrant
  <2>3. grant[t] \in [recipe : Recipes, revoked : BOOLEAN] BY <2>2 DEF IInv, TypeOK
  <2> QED BY <2>1, <2>3 DEF GrantFor
<1> QED BY <1>1, Invariant, PTL

(* A working token is missed only if its end was asked for.                *)
THEOREM NoFalseMiss == Spec => []MissesAreHonest
<1>1. IInv => MissesAreHonest BY DEF IInv, Sound, MissesAreHonest, Now
<1> QED BY <1>1, Invariant, PTL

(* What is served is at least as new as what was there on arrival.         *)
THEOREM NothingStaleIsServed == Spec => []ServesCurrentRecipe
<1>1. IInv => ServesCurrentRecipe BY DEF IInv, Sound, ServesCurrentRecipe, Now
<1> QED BY <1>1, Invariant, PTL

(* Both, as the run checks them.                                           *)
THEOREM NothingAnswersFromThePast == Spec => []AnswersAreCurrent
<1>1. MissesAreHonest /\ ServesCurrentRecipe => AnswersAreCurrent BY DEF AnswersAreCurrent
<1> QED BY <1>1, NoFalseMiss, NothingStaleIsServed, PTL
===============================================================================
