------------------------------- MODULE PagesProofs -------------------------------
(***************************************************************************)
(* Proofs about the library's pages, for any number of requests, recipes   *)
(* and versions.  A page is made of several reads with imports between     *)
(* them; what holds it together is that versions are only appended, so     *)
(* that what a request knew when it arrived stays true until it is over,   *)
(* and that an upgrade, which does change rows, ends every request.        *)
(***************************************************************************)
EXTENDS Pages, TLAPS

Routes == {"none", "library", "recipe", "picture", "cook"}
OfARecipe == {"recipe", "picture", "cook"}
Causes == {"none", "recipe", "plan", "source"} \cup Reading
MaybePicture == Pictures \cup {None}
Bytes == {"absent", "blank", "cut", "whole"}
Shown == Nat \cup {None, OfUnread, "photographed_page", "not_photographed"}
           \cup (MaybePicture \X Bytes)

Documents == [picture : MaybePicture, parses : BOOLEAN]
PlanRows == [recipe : Recipes, version : Nat, parses : BOOLEAN]
Counts == [Recipes -> Nat]

Requests == [at : Reading \cup Over, route : Routes, recipe : Recipes \cup {None}, version : Nat,
             knew : Counts, listed : SUBSET Recipes, cards : Counts, shows : Shown, cause : Causes]

LibraryOK ==
    /\ versions \in [Recipes -> Seq(Documents)]
    /\ plans \in SUBSET PlanRows
    /\ file \in [Pictures -> Bytes]
    /\ reput \in SUBSET Pictures

(* A version names a picture whose put has ended, or one put again since.  *)
KeptPictures ==
    \A r \in Recipes : \A v \in DOMAIN versions[r] :
        Doc(r, v).picture # None => Nameable(Doc(r, v).picture)

-------------------------------------------------------------------------------
(* Which route is where. *)
Routed(q) ==
    /\ q.at \in {"listing", "loading cards"} => q.route = "library"
    /\ q.at \in {"loading", "planning", "reading source", "fetching"} =>
          q.route \in OfARecipe /\ q.recipe \in Recipes
    /\ q.at = "planning" => q.route = "cook"
    /\ q.at = "reading source" => q.route \in {"recipe", "cook"}
    /\ q.at = "fetching" => q.route = "picture"

(* What a request under way may rely on. *)
Informed(q) ==
    /\ q.at \in Reading => \A r \in Recipes : q.knew[r] <= Latest(r)
    /\ q.at = "listing" => \A r \in Recipes : q.cards[r] = 0
    /\ q.at = "loading cards" => \A r \in Recipes :
          /\ q.knew[r] # 0 => r \in q.listed
          /\ q.cards[r] # 0 => q.cards[r] >= q.knew[r]
    /\ q.at \in {"planning", "reading source", "fetching"} =>
          q.version \in DOMAIN versions[q.recipe] /\ q.version >= q.knew[q.recipe]
    /\ q.at = "fetching" => Doc(q.recipe, q.version).picture # None

(* A version no older than the request names this picture. *)
NamedSince(q, c) ==
    \E v \in DOMAIN versions[q.recipe] : v >= q.knew[q.recipe] /\ Doc(q.recipe, v).picture = c

(* What an answer says. *)
Truthful(q) ==
    /\ q.at = "library" => \A r \in Recipes : q.knew[r] # 0 => q.cards[r] >= q.knew[r]
    /\ q.at = "not found" /\ q.route \in {"recipe", "cook"} => q.knew[q.recipe] = 0
    /\ q.at = "cooking" => q.shows >= q.knew[q.recipe]
    /\ q.at = "picture" =>
          /\ q.recipe \in Recipes /\ NamedSince(q, q.shows[1])
          /\ q.shows[2] = "whole" \/ q.shows[1] \in reput
    /\ q.at = "not found" /\ q.route = "picture" /\ q.knew[q.recipe] # 0 =>
          q.recipe \in Recipes /\ \E c \in {None} \cup reput : NamedSince(q, c)
    /\ q.at = "broken" /\ q.route = "recipe" => q.cause \in {"recipe", "loading"}
    /\ q.at = "page" /\ q.shows = "not_photographed" => q.recipe \notin Photographed

Sound(q) == Routed(q) /\ Informed(q) /\ Truthful(q)

IInv ==
    /\ LibraryOK
    /\ KeptPictures
    /\ request \in [Handlers -> Requests]
    /\ \A h \in Handlers : Sound(request[h])

-------------------------------------------------------------------------------
LEMMA LatestIsNat ==
    ASSUME LibraryOK, NEW r \in Recipes
    PROVE  /\ Latest(r) \in Nat /\ DOMAIN versions[r] = 1..Latest(r)
           /\ Held(r) <=> Latest(r) # 0
           /\ \A v \in 1..Latest(r) : Doc(r, v) \in Documents
<1>1. PICK f \in Seq(Documents) : f = versions[r] BY DEF LibraryOK
<1>2. /\ Len(f) \in Nat /\ DOMAIN f = 1..Len(f) /\ (f # <<>> <=> Len(f) # 0)
      /\ \A v \in 1..Len(f) : f[v] \in Documents
  OBVIOUS
<1>3. QED BY <1>1, <1>2 DEF Latest, Held, Doc

(* The library has grown: no version is gone and none shows another picture. *)
Grown ==
    /\ reput \subseteq reput'
    /\ \A r \in Recipes :
        /\ Latest(r)' \in Nat /\ Latest(r)' >= Latest(r)
        /\ \A v \in DOMAIN versions[r] :
              v \in DOMAIN versions'[r] /\ Doc(r, v)'.picture = Doc(r, v).picture

LEMMA SoundStays ==
    ASSUME LibraryOK, Grown, NEW q \in Requests, Sound(q)
    PROVE  Sound(q)'
<1>1. Routed(q)' BY DEF Sound, Routed
<1>2. Informed(q)'
  <2>1. ASSUME q.at \in Reading, NEW r \in Recipes PROVE q.knew[r] <= Latest(r)'
    <3>1. q.knew[r] \in Nat BY DEF Requests, Counts
    <3>2. q.knew[r] <= Latest(r) BY <2>1 DEF Sound, Informed
    <3>3. Latest(r) \in Nat BY LatestIsNat
    <3>4. QED BY <3>1, <3>2, <3>3 DEF Grown
  <2>2. ASSUME q.at \in {"planning", "reading source", "fetching"}
        PROVE  q.version \in DOMAIN versions'[q.recipe] /\ q.version >= q.knew[q.recipe]
    BY <2>2 DEF Sound, Informed, Routed, Grown
  <2>3. q.at = "fetching" => Doc(q.recipe, q.version)'.picture # None
    BY DEF Sound, Informed, Routed, Grown
  <2>4. QED BY <2>1, <2>2, <2>3 DEF Sound, Informed
<1>3. Truthful(q)'
  <2>1. ASSUME q.recipe \in Recipes, NEW c, NamedSince(q, c) PROVE NamedSince(q, c)'
    BY <2>1 DEF NamedSince, Grown
  <2>2. q.at = "picture" =>
          /\ q.recipe \in Recipes /\ NamedSince(q, q.shows[1])'
          /\ q.shows[2] = "whole" \/ q.shows[1] \in reput'
    BY <2>1 DEF Sound, Truthful, Grown
  <2>3. q.at = "not found" /\ q.route = "picture" /\ q.knew[q.recipe] # 0 =>
          q.recipe \in Recipes /\ \E c \in {None} \cup reput' : NamedSince(q, c)'
    BY <2>1 DEF Sound, Truthful, Grown
  <2>4. QED BY <2>2, <2>3 DEF Sound, Truthful
<1>4. QED BY <1>1, <1>2, <1>3 DEF Sound

LEMMA SameIsGrown == ASSUME LibraryOK, versions' = versions, reput \subseteq reput' PROVE Grown
<1>1. ASSUME NEW r \in Recipes PROVE Latest(r)' \in Nat /\ Latest(r)' >= Latest(r)
  <2>1. Latest(r)' = Latest(r) /\ Latest(r) \in Nat BY LatestIsNat DEF Latest
  <2>2. QED BY <2>1
<1>2. QED BY <1>1 DEF Grown, Doc

(* Around the pages: requests stay where they are. *)
LEMMA OthersKeep ==
    ASSUME IInv, LibraryOK', KeptPictures', Grown, request' = request PROVE IInv'
<1>1. ASSUME NEW h \in Handlers PROVE Sound(request[h])'
  <2>1. PICK q \in Requests : q = request[h] BY DEF IInv
  <2>2. Sound(q) BY <2>1 DEF IInv
  <2>3. Sound(q)' BY <2>2, SoundStays DEF IInv
  <2>4. QED BY <2>1, <2>3
<1>2. QED BY <1>1 DEF IInv

(* A request moves on: the library is as it was. *)
LEMMA MoveKeeps ==
    ASSUME IInv, NEW h \in Handlers, NEW q \in Requests, Become(h, q), Sound(q), UNCHANGED library
    PROVE  IInv'
<1>1. versions' = versions /\ plans' = plans /\ file' = file /\ reput' = reput BY DEF library
<1>2. LibraryOK' /\ KeptPictures' BY <1>1 DEF IInv, LibraryOK, KeptPictures, Doc, Nameable
<1>3. request' = [request EXCEPT ![h] = q] /\ request \in [Handlers -> Requests]
  BY DEF Become, IInv
<1>4. ASSUME NEW g \in Handlers PROVE Sound(request[g])'
  <2>1. PICK p \in Requests : p = request'[g] BY <1>3
  <2>2. Sound(p) BY <1>3, <2>1 DEF IInv
  <2>3. Sound(p)' BY <1>1, <2>2, SoundStays, SameIsGrown DEF IInv
  <2>4. QED BY <2>1, <2>3
<1>5. QED BY <1>2, <1>3, <1>4 DEF IInv

-------------------------------------------------------------------------------
(* What happens around the pages. *)
LEMMA AppendKeeps == ASSUME IInv, NEW r \in Recipes, AppendVersion(r) PROVE IInv'
<1>1. PICK p \in MaybePicture :
         /\ versions' = [versions EXCEPT ![r] = Append(@, [picture |-> p, parses |-> TRUE])]
         /\ p # None => Nameable(p)
  BY DEF AppendVersion, MaybePicture
<1>2. LibraryOK BY DEF IInv
<1>3. PICK d : d = [picture |-> p, parses |-> TRUE] OBVIOUS
<1>4. d \in Documents BY <1>3 DEF Documents
<1>5. PICK f \in Seq(Documents) : f = versions[r] BY <1>2 DEF LibraryOK
<1>6. PICK g : g = Append(f, d) OBVIOUS
<1>12. g \in Seq(Documents) BY <1>4, <1>6
<1>7. Len(g) = Len(f) + 1 /\ Len(f) \in Nat /\ \A v \in DOMAIN f : v \in DOMAIN g /\ g[v] = f[v]
  BY <1>4, <1>6
<1>8. versions' \in [Recipes -> Seq(Documents)] /\ versions'[r] = g
      /\ \A s \in Recipes : s # r => versions'[s] = versions[s]
  BY <1>1, <1>2, <1>3, <1>5, <1>6, <1>12 DEF LibraryOK
<1>9. LibraryOK'
  BY <1>2, <1>8 DEF LibraryOK, AppendVersion, files
<1>13. reput' = reput /\ file' = file BY DEF AppendVersion, files
<1>14. KeptPictures'
  <2>0. \A c : Nameable(c)' <=> Nameable(c) BY <1>13 DEF Nameable
  <2> SUFFICES ASSUME NEW s \in Recipes, NEW v \in DOMAIN versions'[s], Doc(s, v)'.picture # None,
                      NEW c, c = Doc(s, v)'.picture
               PROVE  Nameable(c)
    BY <2>0 DEF KeptPictures
  <2>1. CASE s = r /\ v = Len(g)
    <3>1. Doc(s, v)' = d BY <1>5, <1>6, <1>8, <2>1 DEF Doc
    <3>2. Doc(s, v)'.picture = p BY <1>3, <3>1
    <3>3. QED BY <1>1, <3>2
  <2>2. CASE ~(s = r /\ v = Len(g))
    <3>1. v \in DOMAIN versions[s] /\ Doc(s, v)' = Doc(s, v)
      BY <1>5, <1>4, <1>6, <1>7, <1>8, <2>2 DEF Doc
    <3>2. Nameable(Doc(s, v).picture) BY <3>1 DEF IInv, KeptPictures
    <3>3. QED BY <3>1, <3>2
  <2>3. QED BY <2>1, <2>2
<1>10. Grown
  <2>0. reput \subseteq reput' BY <1>13
  <2> SUFFICES ASSUME NEW s \in Recipes
               PROVE  /\ Latest(s)' \in Nat /\ Latest(s)' >= Latest(s)
                      /\ \A v \in DOMAIN versions[s] :
                            v \in DOMAIN versions'[s] /\ Doc(s, v)'.picture = Doc(s, v).picture
    BY <2>0 DEF Grown
  <2>1. CASE s = r
    <3>1. Latest(s)' = Len(g) /\ Latest(s) = Len(f) BY <1>5, <1>8, <2>1 DEF Latest
    <3>2. \A v \in DOMAIN versions[s] : v \in DOMAIN versions'[s] /\ Doc(s, v)' = Doc(s, v)
      BY <1>5, <1>7, <1>8, <2>1 DEF Doc
    <3>3. QED BY <1>7, <3>1, <3>2
  <2>2. CASE s # r
    <3>1. Latest(s)' = Latest(s) /\ Latest(s) \in Nat BY <1>2, <1>8, <2>2, LatestIsNat DEF Latest
    <3>2. QED BY <1>8, <2>2, <3>1 DEF Doc
  <2>3. QED BY <2>1, <2>2
<1>11. QED BY <1>9, <1>10, <1>14, OthersKeep DEF AppendVersion

LEMMA PlanStoredKeeps == ASSUME IInv, NEW r \in Recipes, NEW v, StorePlan(r, v) PROVE IInv'
<1>1. LibraryOK BY DEF IInv
<1>2. v \in Nat BY <1>1, LatestIsNat DEF StorePlan
<1>3. LibraryOK'
  <2>1. PICK row : row = [recipe |-> r, version |-> v, parses |-> TRUE] OBVIOUS
  <2>2. row \in PlanRows BY <1>2, <2>1 DEF PlanRows
  <2>3. plans' = {p \in plans : p.recipe # r \/ p.version # v} \cup {row} BY <2>1 DEF StorePlan
  <2>4. plans' \in SUBSET PlanRows BY <1>1, <2>2, <2>3 DEF LibraryOK
  <2>5. QED BY <1>1, <2>4 DEF StorePlan, LibraryOK, files
<1>5. UNCHANGED <<versions, file, reput, request>> BY DEF StorePlan, files
<1>6. KeptPictures' BY <1>5 DEF IInv, KeptPictures, Doc, Nameable
<1>4. QED BY <1>1, <1>3, <1>5, <1>6, OthersKeep, SameIsGrown

(* What the versions name stays named as long as nothing else happens.     *)
LEMMA NamedAreKept ==
    ASSUME IInv, versions' = versions, \A c \in Pictures : Nameable(c) => Nameable(c)'
    PROVE  KeptPictures'
<1> SUFFICES ASSUME NEW r \in Recipes, NEW v \in DOMAIN versions[r], NEW c,
                    c = Doc(r, v).picture, c # None
             PROVE  Nameable(c)'
  BY DEF KeptPictures, Doc
<1>1. LibraryOK BY DEF IInv
<1>2. Doc(r, v) \in Documents BY <1>1, LatestIsNat
<1>3. c \in Pictures BY <1>2 DEF Documents, MaybePicture
<1>4. Nameable(c) BY DEF IInv, KeptPictures
<1>5. QED BY <1>3, <1>4

(* A picture a version names was put, or is put again from now on.         *)
LEMMA PutKeeps == ASSUME IInv, NEW p \in Pictures, PutPicture(p) PROVE IInv'
<1>1. LibraryOK BY DEF IInv
<1>2. UNCHANGED <<versions, plans, reput, request>> BY DEF PutPicture, rows
<1>3. PICK content \in Bytes : file' = [file EXCEPT ![p] = content] BY DEF PutPicture, Write, Bytes
<1>4. LibraryOK' BY <1>1, <1>2, <1>3 DEF LibraryOK
<1>5. file[p] # "whole" /\ p \notin reput BY DEF PutPicture
<1>6. \A c \in Pictures : Nameable(c) => Nameable(c)'
  <2> SUFFICES ASSUME NEW c \in Pictures, Nameable(c) PROVE Nameable(c)' OBVIOUS
  <2>1. c # p BY <1>5 DEF Nameable
  <2>2. CASE c \in reput BY <1>2, <2>2 DEF Nameable
  <2>3. CASE file[c] = "whole"
    <3>1. file'[c] = file[c] BY <1>1, <1>3, <2>1, Zenon DEF LibraryOK
    <3>2. QED BY <2>3, <3>1 DEF Nameable
  <2>4. QED BY <2>2, <2>3 DEF Nameable
<1>7. KeptPictures' BY <1>2, <1>6, NamedAreKept
<1>8. QED BY <1>1, <1>2, <1>4, <1>7, OthersKeep, SameIsGrown

LEMMA PutAgainKeeps == ASSUME IInv, NEW p \in Pictures, PutAgain(p) PROVE IInv'
<1>1. LibraryOK BY DEF IInv
<1>2. UNCHANGED <<versions, plans, request>> /\ reput' = reput \cup {p} BY DEF PutAgain, rows
<1>3. PICK content \in Bytes : file' = [file EXCEPT ![p] = content] BY DEF PutAgain, Write, Bytes
<1>4. LibraryOK' BY <1>1, <1>2, <1>3 DEF LibraryOK
<1>6. \A c \in Pictures : Nameable(c) => Nameable(c)'
  <2> SUFFICES ASSUME NEW c \in Pictures, Nameable(c) PROVE Nameable(c)' OBVIOUS
  <2>1. CASE c \in reput \/ c = p BY <1>2, <2>1 DEF Nameable
  <2>2. CASE file[c] = "whole" /\ c # p
    <3>1. file'[c] = file[c] BY <1>1, <1>3, <2>2, Zenon DEF LibraryOK
    <3>2. QED BY <2>2, <3>1 DEF Nameable
  <2>3. QED BY <2>1, <2>2 DEF Nameable
<1>7. KeptPictures' BY <1>2, <1>6, NamedAreKept
<1>8. QED BY <1>1, <1>2, <1>4, <1>7, OthersKeep, SameIsGrown

(* A request that has not begun relies on nothing. *)
LEMMA BlankIsCount == Nothing \in Counts /\ \A r \in Recipes : Nothing[r] = 0
BY DEF Nothing, Counts

LEMMA StartIs ==
    ASSUME NEW at \in Reading \cup Over, NEW route \in Routes, NEW r \in Recipes \cup {None},
           NEW knew \in Counts
    PROVE  /\ Start(at, route, r, knew) \in Requests
           /\ Start(at, route, r, knew).at = at /\ Start(at, route, r, knew).route = route
           /\ Start(at, route, r, knew).recipe = r /\ Start(at, route, r, knew).knew = knew
           /\ \A s \in Recipes : Start(at, route, r, knew).cards[s] = 0
BY BlankIsCount DEF Start, Requests, Shown, Causes

LEMMA MissingIs ==
    ASSUME NEW knew \in Counts, "not found" \in Reading \cup Over, "none" \in Routes
    PROVE  /\ Start("not found", "none", None, knew) \in Requests
           /\ Start("not found", "none", None, knew).at = "not found"
           /\ Start("not found", "none", None, knew).route = "none"
BY BlankIsCount DEF Start, Requests, Shown, Causes

LEMMA IdleIsSound == Idle \in Requests /\ Idle.at = "idle" /\ (Sound(Idle))
<1>0. "idle" \in Reading \cup Over /\ "none" \in Routes /\ None \in Recipes \cup {None} BY DEF Over, Routes
<1>1. Idle \in Requests /\ Idle.at = "idle" BY <1>0, StartIs, BlankIsCount DEF Idle
<1>2. PICK q : q = Idle OBVIOUS
<1>3. q.at = "idle" BY <1>1, <1>2
<1>4. Sound(q) BY <1>3 DEF Sound, Routed, Informed, Truthful, Reading
<1>5. QED BY <1>1, <1>2, <1>4

LEMMA UpgradeKeeps == ASSUME IInv, NEW r \in Recipes, Upgrade(r) PROVE IInv'
<1>1. LibraryOK BY DEF IInv
<1>2. LibraryOK'
  <2>1. file' = file /\ reput' = reput BY DEF Upgrade, files
  <2>2. versions' \in [Recipes -> Seq(Documents)]
    <3>1. CASE versions' = [versions EXCEPT ![r] = [v \in DOMAIN versions[r] |-> Outdated(versions[r][v])]]
      <4>1. PICK f \in Seq(Documents) : f = versions[r] BY <1>1 DEF LibraryOK
      <4>2. ASSUME NEW v \in DOMAIN f PROVE Outdated(f[v]) \in Documents
        <5>1. PICK d \in Documents : d = f[v] OBVIOUS
        <5>2. Outdated(d) \in Documents BY DEF Outdated, Documents
        <5>3. QED BY <5>1, <5>2
      <4>3. PICK n \in Nat : DOMAIN f = 1..n OBVIOUS
      <4>4. [v \in 1..n |-> Outdated(f[v])] \in Seq(Documents) BY <4>2, <4>3
      <4>5. QED BY <1>1, <3>1, <4>1, <4>3, <4>4 DEF LibraryOK
    <3>2. CASE versions' = versions BY <1>1, <3>2 DEF LibraryOK
    <3>3. QED BY <3>1, <3>2 DEF Upgrade
  <2>3. plans' \in SUBSET PlanRows
    <3>1. \A p \in plans : Outdated(p) \in PlanRows BY <1>1 DEF LibraryOK, Outdated, PlanRows
    <3>2. plans' = plans \/ plans' = {IF p.recipe = r THEN Outdated(p) ELSE p : p \in plans}
      BY DEF Upgrade
    <3>3. QED BY <1>1, <3>1, <3>2 DEF LibraryOK
  <2>4. QED BY <1>1, <2>1, <2>2, <2>3 DEF LibraryOK
<1>3. request' = [h \in Handlers |-> Idle] BY DEF Upgrade
<1>4. request' \in [Handlers -> Requests] BY <1>3, IdleIsSound
<1>5. ASSUME NEW h \in Handlers PROVE Sound(request[h])'
  <2>1. request'[h].at = "idle" BY <1>3, IdleIsSound
  <2>2. QED BY <2>1 DEF Sound, Routed, Informed, Truthful, Reading
<1>6. KeptPictures'
  <2>1. UNCHANGED <<file, reput>> BY DEF Upgrade, files
  <2> SUFFICES ASSUME NEW s \in Recipes, NEW v \in DOMAIN versions'[s]
               PROVE  v \in DOMAIN versions[s] /\ Doc(s, v)'.picture = Doc(s, v).picture
    BY <2>1 DEF IInv, KeptPictures, Nameable
  <2>2. CASE versions' = versions BY <2>2 DEF Doc
  <2>3. CASE versions' = [versions EXCEPT ![r] = [w \in DOMAIN versions[r] |-> Outdated(versions[r][w])]]
    <3>1. CASE s # r BY <1>1, <2>3, <3>1 DEF Doc, LibraryOK
    <3>2. CASE s = r
      <4>1. versions'[s] = [w \in DOMAIN versions[s] |-> Outdated(versions[s][w])]
        BY <1>1, <2>3, <3>2 DEF LibraryOK
      <4>2. v \in DOMAIN versions[s] /\ Doc(s, v)' = Outdated(Doc(s, v)) BY <4>1 DEF Doc
      <4>3. Doc(s, v) \in Documents BY <1>1, <4>2, LatestIsNat
      <4>4. \A d \in Documents : Outdated(d).picture = d.picture BY DEF Documents, Outdated
      <4>5. QED BY <4>2, <4>3, <4>4
    <3>3. QED BY <3>1, <3>2
  <2>4. QED BY <2>2, <2>3 DEF Upgrade
<1>7. QED BY <1>2, <1>4, <1>5, <1>6 DEF IInv

-------------------------------------------------------------------------------
(* What a request looks like after it was changed in so many fields. *)
Follows(q, p, at, version, listed, cards, shows, cause) ==
    /\ q \in Requests
    /\ q.at = at /\ q.route = p.route /\ q.recipe = p.recipe /\ q.knew = p.knew
    /\ q.version = version /\ q.listed = listed /\ q.cards = cards
    /\ q.shows = shows /\ q.cause = cause

Ats == Reading \cup Over

LEMMA GoesOn ==
    ASSUME NEW p \in Requests, NEW at \in Ats
    PROVE  Follows([p EXCEPT !.at = at], p, at, p.version, p.listed, p.cards, p.shows, p.cause)
BY DEF Follows, Requests, Ats

LEMMA GoesOnListing ==
    ASSUME NEW p \in Requests, NEW at \in Ats, NEW all \in SUBSET Recipes
    PROVE  Follows([p EXCEPT !.at = at, !.listed = all], p, at, p.version, all, p.cards, p.shows, p.cause)
<1> DEFINE a == [p EXCEPT !.at = at]
<1>1. Follows(a, p, at, p.version, p.listed, p.cards, p.shows, p.cause) BY GoesOn
<1> HIDE DEF a
<1>2. Follows([a EXCEPT !.listed = all], p, at, p.version, all, p.cards, p.shows, p.cause)
  BY <1>1 DEF Follows, Requests
<1>3. QED BY <1>2, Zenon DEF a

LEMMA GoesOnWithVersion ==
    ASSUME NEW p \in Requests, NEW at \in Ats, NEW v \in Nat
    PROVE  Follows([p EXCEPT !.at = at, !.version = v], p, at, v, p.listed, p.cards, p.shows, p.cause)
<1> DEFINE a == [p EXCEPT !.at = at]
<1>1. Follows(a, p, at, p.version, p.listed, p.cards, p.shows, p.cause) BY GoesOn
<1> HIDE DEF a
<1>2. Follows([a EXCEPT !.version = v], p, at, v, p.listed, p.cards, p.shows, p.cause)
  BY <1>1 DEF Follows, Requests
<1>3. QED BY <1>2, Zenon DEF a

LEMMA GoesOnShowing ==
    ASSUME NEW p \in Requests, NEW at \in Ats, NEW s \in Shown
    PROVE  Follows([p EXCEPT !.at = at, !.shows = s], p, at, p.version, p.listed, p.cards, s, p.cause)
<1> DEFINE a == [p EXCEPT !.at = at]
<1>1. Follows(a, p, at, p.version, p.listed, p.cards, p.shows, p.cause) BY GoesOn
<1> HIDE DEF a
<1>2. Follows([a EXCEPT !.shows = s], p, at, p.version, p.listed, p.cards, s, p.cause)
  BY <1>1 DEF Follows, Requests
<1>3. QED BY <1>2, Zenon DEF a

LEMMA GoesOnBroken ==
    ASSUME NEW p \in Requests, NEW c \in Causes
    PROVE  Follows([p EXCEPT !.at = "broken", !.cause = c],
                   p, "broken", p.version, p.listed, p.cards, p.shows, c)
<1> DEFINE a == [p EXCEPT !.at = "broken"]
<1>1. Follows(a, p, "broken", p.version, p.listed, p.cards, p.shows, p.cause)
  BY GoesOn DEF Ats, Over
<1> HIDE DEF a
<1>2. Follows([a EXCEPT !.cause = c], p, "broken", p.version, p.listed, p.cards, p.shows, c)
  BY <1>1 DEF Follows, Requests
<1>3. QED BY <1>2, Zenon DEF a

LEMMA GoesOnWithCard ==
    ASSUME NEW p \in Requests, NEW r \in Recipes, NEW n \in Nat
    PROVE  Follows([p EXCEPT !.cards[r] = n],
                   p, p.at, p.version, p.listed, [p.cards EXCEPT ![r] = n], p.shows, p.cause)
BY DEF Follows, Requests, Counts

(* A page that broke, or is not found, owes nothing but its reason. *)
LEMMA BrokenKeeps ==
    ASSUME IInv, NEW h \in Handlers, NEW c \in Causes, Break(h, c), UNCHANGED library,
           request[h].route = "recipe" => c \in {"recipe", "loading"}
    PROVE  IInv'
<1>1. PICK p \in Requests : p = request[h] BY DEF IInv
<1>2. PICK q : q = [p EXCEPT !.at = "broken", !.cause = c] OBVIOUS
<1>3. Follows(q, p, "broken", p.version, p.listed, p.cards, p.shows, c) BY <1>2, GoesOnBroken, Zenon
<1>4. Become(h, q) BY <1>1, <1>2, Zenon DEF Break, Become
<1>5. Sound(q) BY <1>1, <1>3 DEF Follows, Sound, Routed, Informed, Truthful, Reading
<1>6. q \in Requests BY <1>3 DEF Follows
<1>7. QED BY <1>4, <1>5, <1>6, MoveKeeps

LEMMA FaultKeeps == ASSUME IInv, NEW h \in Handlers, Fault(h) PROVE IInv'
<1>1. PICK p \in Requests : p = request[h] /\ Sound(p) BY DEF IInv
<1>2. p.at \in Causes /\ Break(h, p.at) BY <1>1 DEF Fault, Causes
<1>3. p.route = "recipe" => p.at \in {"recipe", "loading"}
  BY <1>1 DEF Fault, Sound, Routed, Reading, OfARecipe
<1>4. QED BY <1>1, <1>2, <1>3, BrokenKeeps DEF Fault

LEMMA AskKeeps == ASSUME IInv, NEW h \in Handlers, Ask(h) PROVE IInv'
<1>1. LibraryOK BY DEF IInv
<1>2. PICK knew : knew = [r \in Recipes |-> Latest(r)] OBVIOUS
<1>3. knew \in Counts /\ \A r \in Recipes : knew[r] = Latest(r) /\ knew[r] <= Latest(r)
  BY <1>1, <1>2, LatestIsNat DEF Counts
<1>4. UNCHANGED library BY DEF Ask
<1>5. CASE Become(h, Start("not found", "none", None, knew))
  <2>1. "not found" \in Reading \cup Over /\ "none" \in Routes /\ None \in Recipes \cup {None}
    BY DEF Over, Routes
  <2>2. PICK q : q = Start("not found", "none", None, knew) OBVIOUS
  <2>3. q \in Requests /\ q.at = "not found" /\ q.route = "none"
    BY <1>3, <2>1, <2>2, MissingIs
  <2>4. Sound(q) BY <2>3 DEF Sound, Routed, Informed, Truthful, Reading
  <2>5. QED BY <1>4, <1>5, <2>2, <2>3, <2>4, MoveKeeps
<1>6. CASE Become(h, Start("listing", "library", None, knew))
  <2>1. "listing" \in Reading \cup Over /\ "library" \in Routes /\ None \in Recipes \cup {None}
    BY DEF Reading, Routes
  <2>2. PICK q : q = Start("listing", "library", None, knew) OBVIOUS
  <2>6. PICK nobody \in Recipes \cup {None} : nobody = None OBVIOUS
  <2>7. q = Start("listing", "library", nobody, knew) BY <2>2, <2>6
  <2>3. q \in Requests /\ q.at = "listing" /\ q.route = "library" /\ q.knew = knew
      /\ \A s \in Recipes : q.cards[s] = 0
    BY <1>3, <2>1, <2>6, <2>7, StartIs
  <2>4. Sound(q) BY <1>3, <2>3 DEF Sound, Routed, Informed, Truthful, Reading
  <2>5. QED BY <1>4, <1>6, <2>2, <2>3, <2>4, MoveKeeps
<1>7. ASSUME NEW route \in OfARecipe, NEW r \in Recipes, Become(h, Start("loading", route, r, knew))
      PROVE  IInv'
  <2>1. "loading" \in Reading \cup Over /\ route \in Routes /\ r \in Recipes \cup {None}
    BY DEF Reading, Routes, OfARecipe
  <2>2. PICK q : q = Start("loading", route, r, knew) OBVIOUS
  <2>3. q \in Requests /\ q.at = "loading" /\ q.route = route /\ q.recipe = r /\ q.knew = knew
    BY <1>3, <2>1, <2>2, StartIs
  <2>4. Sound(q) BY <1>3, <2>3 DEF Sound, Routed, Informed, Truthful, Reading
  <2>5. QED BY <1>4, <1>7, <2>2, <2>3, <2>4, MoveKeeps
<1>8. QED BY <1>2, <1>5, <1>6, <1>7 DEF Ask, OfARecipe

LEMMA ListKeeps == ASSUME IInv, NEW h \in Handlers, List(h) PROVE IInv'
<1>1. PICK p \in Requests : p = request[h] /\ Sound(p) BY DEF IInv
<1>2. p.at = "listing" /\ "loading cards" \in Ats /\ Listing \in SUBSET Recipes
  BY <1>1 DEF List, Now, Ats, Reading, Listing
<1>3. PICK q : q = [p EXCEPT !.at = "loading cards", !.listed = Listing] OBVIOUS
<1>4. Follows(q, p, "loading cards", p.version, Listing, p.cards, p.shows, p.cause)
  BY <1>2, <1>3, GoesOnListing, Zenon
<1>5. Become(h, q) BY <1>1, <1>3, Zenon DEF List, Become
<1>6. p.cards \in Counts BY DEF Requests
<1>7. Sound(q)
  <2>1. Routed(q) /\ Truthful(q) BY <1>1, <1>2, <1>4 DEF Follows, Sound, Routed, Truthful
  <2>2. ASSUME NEW r \in Recipes
        PROVE  p.knew[r] <= Latest(r) /\ p.cards[r] = 0 /\ (p.knew[r] # 0 => r \in Listing)
    <3>1. p.knew[r] <= Latest(r) /\ p.cards[r] = 0 BY <1>1, <1>2 DEF Sound, Informed, Reading
    <3>2. p.knew[r] \in Nat BY DEF Requests, Counts
    <3>3. Latest(r) \in Nat /\ (Held(r) <=> Latest(r) # 0) BY LatestIsNat DEF IInv
    <3>4. QED BY <3>1, <3>2, <3>3 DEF Listing
  <2>3. Informed(q) BY <1>4, <2>2 DEF Follows, Informed
  <2>4. QED BY <2>1, <2>3 DEF Sound
<1>8. q \in Requests BY <1>4 DEF Follows
<1>9. QED BY <1>5, <1>7, <1>8, MoveKeeps DEF List

LEMMA ServeKeeps == ASSUME IInv, NEW h \in Handlers, ServeLibrary(h) PROVE IInv'
<1>1. PICK p \in Requests : p = request[h] /\ Sound(p) BY DEF IInv
<1>2. p.at = "loading cards" /\ "library" \in Ats /\ AllLoaded(p)
  BY <1>1 DEF ServeLibrary, Now, Ats, Over
<1>3. PICK q : q = [p EXCEPT !.at = "library"] OBVIOUS
<1>4. Follows(q, p, "library", p.version, p.listed, p.cards, p.shows, p.cause)
  BY <1>2, <1>3, GoesOn, Zenon
<1>5. Become(h, q) BY <1>1, <1>3, Zenon DEF ServeLibrary, GoOn, Become
<1>6. Sound(q)
  <2>1. Routed(q) /\ Informed(q) BY <1>4 DEF Follows, Routed, Informed, Reading
  <2>2. ASSUME NEW r \in Recipes, p.knew[r] # 0 PROVE p.cards[r] >= p.knew[r]
    BY <1>1, <1>2, <2>2 DEF Sound, Informed, AllLoaded
  <2>3. Truthful(q) BY <1>4, <2>2 DEF Follows, Truthful
  <2>4. QED BY <2>1, <2>3 DEF Sound
<1>7. q \in Requests BY <1>4 DEF Follows
<1>8. QED BY <1>5, <1>6, <1>7, MoveKeeps DEF ServeLibrary

LEMMA LoadCardKeeps == ASSUME IInv, NEW h \in Handlers, NEW r \in Recipes, LoadCard(h, r) PROVE IInv'
<1>1. PICK p \in Requests : p = request[h] /\ Sound(p) BY DEF IInv
<1>2. p.at = "loading cards" /\ p.route = "library" /\ r \in p.listed
  BY <1>1 DEF LoadCard, Now, Sound, Routed
<1>3. Latest(r) \in Nat BY LatestIsNat DEF IInv
<1>4. CASE Doc(r, Latest(r)).parses
  <2>1. PICK q : q = [p EXCEPT !.cards[r] = Latest(r)] OBVIOUS
  <2>2. Become(h, q) BY <1>1, <1>4, <2>1 DEF LoadCard, CardOf, Become
  <2>3. Follows(q, p, p.at, p.version, p.listed, [p.cards EXCEPT ![r] = Latest(r)], p.shows, p.cause)
    BY <1>3, <2>1, GoesOnWithCard
  <2>4. Routed(q) /\ Truthful(q) BY <1>1, <1>2, <2>3 DEF Follows, Sound, Routed, Truthful
  <2>5. ASSUME NEW s \in Recipes
        PROVE  /\ p.knew[s] <= Latest(s) /\ (p.knew[s] # 0 => s \in p.listed)
               /\ q.cards[s] # 0 => q.cards[s] >= p.knew[s]
    <3>1. /\ p.knew[s] <= Latest(s) /\ (p.knew[s] # 0 => s \in p.listed)
          /\ p.cards[s] # 0 => p.cards[s] >= p.knew[s]
      BY <1>1, <1>2 DEF Sound, Informed, Reading
    <3>2. p.cards \in Counts /\ p.knew[s] \in Nat BY DEF Requests, Counts
    <3>3. q.cards[s] = IF s = r THEN Latest(r) ELSE p.cards[s] BY <2>3, <3>2 DEF Follows, Counts
    <3>4. QED BY <1>3, <3>1, <3>2, <3>3
  <2>6. Informed(q) BY <1>2, <2>3, <2>5 DEF Follows, Informed
  <2>7. q \in Requests BY <2>3 DEF Follows
  <2>8. QED BY <2>2, <2>4, <2>6, <2>7, MoveKeeps DEF LoadCard, Sound
<1>5. CASE ~Doc(r, Latest(r)).parses
  <2>1. Break(h, "recipe") BY <1>5 DEF LoadCard
  <2>2. QED BY <2>1, BrokenKeeps DEF LoadCard, Causes
<1>6. QED BY <1>4, <1>5

LEMMA LoadLatestKeeps == ASSUME IInv, NEW h \in Handlers, LoadLatest(h) PROVE IInv'
<1>1. PICK p \in Requests : p = request[h] /\ Sound(p) BY DEF IInv
<1>2. PICK r \in Recipes : r = p.recipe /\ p.at = "loading" /\ p.route \in OfARecipe
  BY <1>1 DEF LoadLatest, Now, Sound, Routed
<1>3. UNCHANGED library BY DEF LoadLatest
<1>4. Latest(r) \in Nat /\ DOMAIN versions[r] = 1..Latest(r) /\ (Held(r) <=> Latest(r) # 0)
  BY LatestIsNat DEF IInv
<1>5. p.knew[r] \in Nat /\ p.knew[r] <= Latest(r)
  BY <1>1, <1>2 DEF Sound, Informed, Reading, Requests, Counts
<1>6. ASSUME GoOn(h, "not found"), p.route \in {"recipe", "cook"} => p.knew[r] = 0,
             p.knew[r] # 0 => NamedSince(p, None) \/ p.route # "picture"
      PROVE  IInv'
  <2>1. PICK q : q = [p EXCEPT !.at = "not found"] OBVIOUS
  <2>2. "not found" \in Ats BY DEF Ats, Over
  <2>3. Follows(q, p, "not found", p.version, p.listed, p.cards, p.shows, p.cause)
    BY <2>1, <2>2, GoesOn, Zenon
  <2>4. Become(h, q) BY <1>1, <1>6, <2>1, Zenon DEF GoOn, Become
  <2>5. Sound(q)
    BY <1>2, <1>6, <2>3 DEF Follows, Sound, Routed, Informed, Truthful, Reading, NamedSince
  <2>6. q \in Requests BY <2>3 DEF Follows
  <2>7. QED BY <1>3, <2>4, <2>5, <2>6, MoveKeeps
<1>7. ASSUME Held(r), ~NothingToShow(r, p.route), Become(h, [p EXCEPT !.at = After(p.route), !.version = Latest(r)])
      PROVE  IInv'
  <2>1. PICK at : at = After(p.route) OBVIOUS
  <2>2. /\ at \in {"planning", "reading source", "fetching"}
        /\ at = "planning" => p.route = "cook"
        /\ at = "reading source" => p.route \in {"recipe", "cook"}
        /\ at = "fetching" => p.route = "picture"
    <3>1. /\ After("recipe") = "reading source" /\ After("cook") = "planning"
          /\ After("picture") = "fetching"
      BY DEF After
    <3>2. QED BY <1>2, <2>1, <3>1 DEF OfARecipe
  <2>3. at \in Ats BY <2>2 DEF Ats, Reading
  <2>4. PICK q : q = [p EXCEPT !.at = at, !.version = Latest(r)] OBVIOUS
  <2>5. Follows(q, p, at, Latest(r), p.listed, p.cards, p.shows, p.cause)
    BY <1>4, <2>3, <2>4, GoesOnWithVersion, Zenon
  <2>6. Become(h, q) BY <1>7, <2>1, <2>4, Zenon
  <2>7. Latest(r) \in DOMAIN versions[r] BY <1>4, <1>7
  <2>8. Routed(q) BY <1>2, <2>2, <2>5 DEF Follows, Routed
  <2>9. Informed(q)
    <3>1. \A s \in Recipes : p.knew[s] <= Latest(s)
      BY <1>1, <1>2 DEF Sound, Informed, Reading
    <3>3. q.at = "fetching" => Doc(q.recipe, q.version).picture # None
      BY <1>2, <1>7, <2>2, <2>5 DEF Follows, NothingToShow
    <3>2. QED BY <1>2, <1>5, <2>2, <2>5, <2>7, <3>1, <3>3 DEF Follows, Informed
  <2>10. Truthful(q) BY <2>2, <2>5 DEF Follows, Truthful
  <2>11. q \in Requests BY <2>5 DEF Follows
  <2>12. QED BY <1>3, <2>6, <2>8, <2>9, <2>10, <2>11, MoveKeeps DEF Sound
<1>8. CASE ~Held(r)
  <2>3. ~Held(request[h].recipe) BY <1>1, <1>2, <1>8
  <2>1. GoOn(h, "not found") BY <2>3, Zenon DEF LoadLatest
  <2>4. p.knew[r] = 0 BY <1>4, <1>5, <1>8
  <2>2. QED BY <1>6, <2>1, <2>4
<1>9. CASE Held(r) /\ ~Doc(r, Latest(r)).parses
  <2>1. Break(h, "recipe") BY <1>1, <1>2, <1>9 DEF LoadLatest
  <2>2. QED BY <1>3, <2>1, BrokenKeeps DEF Causes
<1>10. CASE Held(r) /\ Doc(r, Latest(r)).parses /\ NothingToShow(r, p.route)
  <2>1. GoOn(h, "not found") /\ p.route = "picture"
    BY <1>1, <1>2, <1>10 DEF LoadLatest, NothingToShow
  <2>3. Doc(r, Latest(r)).picture = None /\ Latest(r) \in DOMAIN versions[r]
    BY <1>4, <1>10 DEF NothingToShow
  <2>4. NamedSince(p, None) BY <1>2, <1>5, <2>3 DEF NamedSince
  <2>2. QED BY <1>6, <2>1, <2>4
<1>11. CASE Held(r) /\ Doc(r, Latest(r)).parses /\ ~NothingToShow(r, p.route)
  <2>1. Become(h, [p EXCEPT !.at = After(p.route), !.version = Latest(r)])
    BY <1>1, <1>2, <1>11, Zenon DEF LoadLatest
  <2>2. QED BY <1>7, <1>11, <2>1
<1>12. QED BY <1>8, <1>9, <1>10, <1>11

(* A request whose answer shows something. *)
LEMMA ShowingKeeps ==
    ASSUME IInv, NEW h \in Handlers, NEW at \in {"page", "cooking", "picture"}, NEW s \in Shown,
           request'= [request EXCEPT ![h] = [request[h] EXCEPT !.at = at, !.shows = s]],
           UNCHANGED library,
           at = "page" /\ s = "not_photographed" => request[h].recipe \notin Photographed,
           at = "cooking" => s >= request[h].knew[request[h].recipe],
           at = "picture" =>
              /\ request[h].recipe \in Recipes /\ NamedSince(request[h], s[1])
              /\ s[2] = "whole" \/ s[1] \in reput
    PROVE  IInv'
<1>1. PICK p \in Requests : p = request[h] BY DEF IInv
<1>2. PICK q : q = [p EXCEPT !.at = at, !.shows = s] OBVIOUS
<1>3. at \in Ats BY DEF Ats, Over
<1>4. Follows(q, p, at, p.version, p.listed, p.cards, s, p.cause)
  BY <1>2, <1>3, GoesOnShowing, Zenon
<1>5. Become(h, q) BY <1>1, <1>2, Zenon DEF Become
<1>6. Routed(q) /\ Informed(q) BY <1>4 DEF Follows, Routed, Informed, Reading
<1>7. Truthful(q) BY <1>1, <1>4 DEF Follows, Truthful, NamedSince
<1>8. q \in Requests BY <1>4 DEF Follows
<1>9. QED BY <1>5, <1>6, <1>7, <1>8, MoveKeeps DEF Sound

LEMMA SayKeeps ==
    ASSUME IInv, NEW h \in Handlers, NEW s \in {OfUnread, SourceOf(request[h].recipe)},
           Say(h, s), UNCHANGED library
    PROVE  IInv'
<1>1. "page" \in {"page", "cooking", "picture"} OBVIOUS
<1>2. s \in Shown BY DEF SourceOf, Shown
<1>3. s = "not_photographed" => request[h].recipe \notin Photographed BY DEF SourceOf, OfUnread
<1>4. request' = [request EXCEPT ![h] = [request[h] EXCEPT !.at = "page", !.shows = s]]
  BY Zenon DEF Say, Become
<1>5. QED BY <1>1, <1>2, <1>3, <1>4, ShowingKeeps

LEMMA ReadSourceKeeps == ASSUME IInv, NEW h \in Handlers, ReadSource(h) PROVE IInv'
BY SayKeeps DEF ReadSource, WithoutItsSource

LEMMA PlanKeeps == ASSUME IInv, NEW h \in Handlers, Plan(h) PROVE IInv'
<1>1. PICK p \in Requests : p = request[h] /\ Sound(p) BY DEF IInv
<1>2. UNCHANGED library BY DEF Plan
<1>3. /\ p.at = "planning" /\ p.route = "cook" /\ p.recipe \in Recipes
      /\ p.version \in DOMAIN versions[p.recipe] /\ p.version >= p.knew[p.recipe]
  BY <1>1 DEF Plan, Now, Sound, Routed, Informed
<1>4. p.version \in Nat /\ p.version \in Shown BY DEF Requests, Shown
<1>5. ASSUME Become(h, [request[h] EXCEPT !.at = "cooking", !.shows = p.version]) PROVE IInv'
  <2>1. "cooking" \in {"page", "cooking", "picture"} OBVIOUS
  <2>2. request' = [request EXCEPT ![h] = [request[h] EXCEPT !.at = "cooking", !.shows = p.version]]
    BY <1>5, Zenon DEF Become
  <2>3. QED BY <1>1, <1>2, <1>3, <1>4, <2>1, <2>2, ShowingKeeps
<1>6. CASE Break(h, "plan")
  <2>1. QED BY <1>1, <1>2, <1>3, <1>6, BrokenKeeps DEF Causes
<1>7. CASE GoOn(h, "reading source")
  <2>1. PICK q : q = [p EXCEPT !.at = "reading source"] OBVIOUS
  <2>2. "reading source" \in Ats BY DEF Ats, Reading
  <2>3. Follows(q, p, "reading source", p.version, p.listed, p.cards, p.shows, p.cause)
    BY <2>1, <2>2, GoesOn, Zenon
  <2>4. Become(h, q) BY <1>1, <1>7, <2>1, Zenon DEF GoOn, Become
  <2>5. \A s \in Recipes : p.knew[s] <= Latest(s) BY <1>1, <1>3 DEF Sound, Informed, Reading
  <2>6. Routed(q) /\ Truthful(q) BY <1>3, <2>3 DEF Follows, Routed, Truthful, OfARecipe
  <2>7. Informed(q) BY <1>3, <2>3, <2>5 DEF Follows, Informed
  <2>8. q \in Requests BY <2>3 DEF Follows
  <2>9. QED BY <1>2, <2>4, <2>6, <2>7, <2>8, MoveKeeps DEF Sound
<1>8. ASSUME NEW f \in PlanFor(p.recipe, p.version),
             Become(h, [request[h] EXCEPT !.at = "cooking", !.shows = f.version])
      PROVE  IInv'
  <2>1. f.version = p.version BY DEF PlanFor
  <2>2. QED BY <1>5, <1>8, <2>1
<1>9. QED BY <1>1, <1>5, <1>6, <1>7, <1>8 DEF Plan, FreshOf

LEMMA FetchKeeps == ASSUME IInv, NEW h \in Handlers, Fetch(h) PROVE IInv'
<1>1. PICK p \in Requests : p = request[h] /\ Sound(p) BY DEF IInv
<1>2. UNCHANGED library BY DEF Fetch
<1>3. /\ p.at = "fetching" /\ p.route = "picture" /\ p.recipe \in Recipes
      /\ p.version \in DOMAIN versions[p.recipe] /\ p.version >= p.knew[p.recipe]
  BY <1>1 DEF Fetch, Now, Sound, Routed, Informed
<1>4. PICK c : c = Doc(p.recipe, p.version).picture OBVIOUS
<1>11. c # None BY <1>1, <1>3, <1>4 DEF Sound, Informed
<1>8. c \in MaybePicture BY <1>3, <1>4, LatestIsNat DEF IInv, Documents
<1>9. NamedSince(p, c) BY <1>3, <1>4 DEF NamedSince
<1>10. file[c] = "whole" \/ c \in reput
  BY <1>3, <1>4, <1>11 DEF IInv, KeptPictures, Nameable
<1>5. CASE Recognised(c)
  <2>1. PICK s : s = <<c, file[c]>> OBVIOUS
  <2>3. file[c] \in Bytes BY <1>5 DEF Recognised, Bytes
  <2>4. s \in Shown /\ s[1] = c /\ s[2] = file[c] BY <1>8, <2>1, <2>3 DEF Shown
  <2>5. request' = [request EXCEPT ![h] = [request[h] EXCEPT !.at = "picture", !.shows = s]]
    BY <1>1, <1>4, <1>5, <2>1, Zenon DEF Fetch, Become
  <2>6. "picture" \in {"page", "cooking", "picture"} OBVIOUS
  <2>8. NamedSince(request[h], s[1]) /\ (s[2] = "whole" \/ s[1] \in reput)
    BY <1>1, <1>5, <1>9, <1>10, <2>4
  <2>7. QED BY <1>1, <1>2, <1>3, <2>4, <2>5, <2>6, <2>8, ShowingKeeps
<1>6. CASE ~Recognised(c)
  <2>1. PICK q : q = [p EXCEPT !.at = "not found"] OBVIOUS
  <2>2. "not found" \in Ats BY DEF Ats, Over
  <2>3. Follows(q, p, "not found", p.version, p.listed, p.cards, p.shows, p.cause)
    BY <2>1, <2>2, GoesOn, Zenon
  <2>4. GoOn(h, "not found") BY <1>1, <1>4, <1>6 DEF Fetch
  <2>5. Become(h, q) BY <1>1, <2>1, <2>4, Zenon DEF GoOn, Become
  <2>9. c \in reput BY <1>6, <1>10 DEF Recognised
  <2>6. Sound(q)
    BY <1>3, <1>9, <2>3, <2>9 DEF Follows, Sound, Routed, Informed, Truthful, Reading, NamedSince
  <2>7. q \in Requests BY <2>3 DEF Follows
  <2>8. QED BY <1>2, <2>5, <2>6, <2>7, MoveKeeps
<1>7. QED BY <1>5, <1>6

-------------------------------------------------------------------------------
LEMMA InitHolds == Init => IInv
<1> SUFFICES ASSUME Init PROVE IInv OBVIOUS
<1>1. LibraryOK BY DEF Init, LibraryOK, Bytes
<1>4. KeptPictures BY DEF Init, KeptPictures
<1>2. request = [h \in Handlers |-> Idle] BY DEF Init
<1>3. QED BY <1>1, <1>2, <1>4, IdleIsSound DEF IInv

LEMMA NextKeeps == IInv /\ [Next]_vars => IInv'
<1> SUFFICES ASSUME IInv, [Next]_vars PROVE IInv' OBVIOUS
<1>1. ASSUME NEW h \in Handlers, Ask(h) \/ Step(h) \/ Fault(h) PROVE IInv'
  BY <1>1, AskKeeps, ListKeeps, ServeKeeps, LoadLatestKeeps, ReadSourceKeeps, PlanKeeps, FetchKeeps,
     LoadCardKeeps, FaultKeeps DEF Step
<1>2. ASSUME NEW r \in Recipes, AppendVersion(r) PROVE IInv' BY <1>2, AppendKeeps
<1>3. ASSUME NEW r \in Recipes, Upgrade(r) PROVE IInv' BY <1>3, UpgradeKeeps
<1>4. ASSUME NEW r \in Recipes, NEW v, StorePlan(r, v) PROVE IInv' BY <1>4, PlanStoredKeeps
<1>5. ASSUME NEW p \in Pictures, PutPicture(p) \/ PutAgain(p) PROVE IInv'
  BY <1>5, PutKeeps, PutAgainKeeps
<1>6. ASSUME UNCHANGED vars PROVE IInv'
  <2>1. UNCHANGED <<versions, plans, file, reput, request>> BY <1>6 DEF vars
  <2>2. LibraryOK /\ LibraryOK' /\ KeptPictures'
    BY <2>1 DEF IInv, LibraryOK, KeptPictures, Doc, Nameable
  <2>3. QED BY <2>1, <2>2, OthersKeep, SameIsGrown
<1>7. QED BY <1>1, <1>2, <1>3, <1>4, <1>5, <1>6 DEF Next

LEMMA Invariant == Spec => []IInv
BY InitHolds, NextKeeps, PTL DEF Spec

-------------------------------------------------------------------------------
(* Nothing the instance holds is left out of the library or reported       *)
(* missing at an address of its own, imports racing the page or not.       *)
THEOREM HeldIsNeverMissing == Spec => []NothingHeldIsMissing
<1>1. IInv => NothingHeldIsMissing
  <2> SUFFICES ASSUME IInv PROVE NothingHeldIsMissing OBVIOUS
  <2>1. LibraryIsWhole BY DEF IInv, Sound, Truthful, LibraryIsWhole, Now
  <2>2. HeldRecipesAreFound BY DEF IInv, Sound, Truthful, HeldRecipesAreFound, Now
  <2>3. QED BY <2>1, <2>2 DEF NothingHeldIsMissing
<1>2. QED BY <1>1, Invariant, PTL

(* The plan a cook is shown is of a version no older than the recipe's     *)
(* latest as they asked, whichever plans were kept.                        *)
THEOREM CooksSeeTheirRecipe == Spec => []CookingFollowsTheRecipe
<1>1. IInv => CookingFollowsTheRecipe
  BY DEF IInv, Sound, Truthful, CookingFollowsTheRecipe, Now
<1>2. QED BY <1>1, Invariant, PTL

(* The picture a recipe names is served, and whole, unless its bytes were  *)
(* put again, whichever imports died while they wrote it.                  *)
THEOREM OnlyWholePictures == Spec => []KeptPicturesAreServed
<1>1. IInv => KeptPicturesAreServed
  BY DEF IInv, Sound, Truthful, KeptPicturesAreServed, NamedSince, Now
<1>2. QED BY <1>1, Invariant, PTL

(* A recipe page is lost only with its recipe, and never says of a         *)
(* photograph it could not read that there was none.                       *)
THEOREM PageOutlivesItsSource == Spec => []RecipePageOutlivesItsSource
<1>1. IInv => RecipePageOutlivesItsSource
  BY DEF IInv, Sound, Truthful, RecipePageOutlivesItsSource, Now
<1>2. QED BY <1>1, Invariant, PTL
===============================================================================
