---------------------------------- MODULE Pages ----------------------------------
(***************************************************************************)
(* The library's pages, src/http/pages-app.ts: the library, a recipe, its  *)
(* picture and its cooking page.  They write nothing; what is hard is that *)
(* each is made of several reads, between which imports append versions,   *)
(* plans are stored, and files are written - and that a row written under  *)
(* an older contract is refused by the code that reads it later.           *)
(*                                                                         *)
(* A read is one step; it may reject (Fault).  An upgrade of the instance  *)
(* restarts it, and leaves rows its contract no longer accepts.            *)
(***************************************************************************)
EXTENDS Naturals, Sequences, SequencesExt

CONSTANTS
    Handlers,       \* requests served at once
    Recipes,        \* recipe ids
    Photographed,   \* those imported from a photograph
    Plain,          \* bound: recipes only the library page is asked about, with
                    \* no picture, no plan and no upgrade
    Pictures,       \* pictures of dishes the byte store may hold
    MaxVersion,     \* bound: versions of a recipe
    None

ASSUME VersionAssumption == MaxVersion \in Nat
ASSUME NoneAssumption == None \notin Recipes \cup Pictures
ASSUME PhotographedAssumption == Photographed \subseteq Recipes
ASSUME PlainAssumption == Plain \subseteq Recipes

VARIABLES
    versions,       \* recipe -> its versions: the picture each names, whether it still parses
    snapshot,       \* recipe -> whether the snapshot it names still parses
    plans,          \* stored cooking plans
    file,           \* picture -> what its file holds
    reput,          \* pictures put again after, or during, another put of theirs
    request         \* handler -> where its request is

files == <<file, reput>>
rows == <<versions, snapshot, plans>>
library == <<versions, snapshot, plans, file, reput>>
vars == <<versions, snapshot, plans, file, reput, request>>

Held(r) == versions[r] # <<>>
Latest(r) == Len(versions[r])
Doc(r, v) == versions[r][v]

(***************************************************************************)
(* A request carries the latest versions as it arrived (knew), the version *)
(* its page is of, for the library the listing and the cards loaded so far *)
(* (0: not yet), and once answered what the answer shows.                  *)
(***************************************************************************)
Nothing == [r \in Recipes |-> 0]
Start(at, route, recipe, knew) ==
    [at |-> at, route |-> route, recipe |-> recipe, version |-> 0, knew |-> knew,
     listed |-> {}, cards |-> Nothing, shows |-> None, cause |-> "none"]
Idle == Start("idle", "none", None, Nothing)

Reading == {"listing", "loading cards", "loading", "planning", "reading source", "fetching"}
Over == {"idle", "not found", "broken", "library", "page", "picture", "cooking"}
Now(h, at) == request[h].at = at
Become(h, q) == request' = [request EXCEPT ![h] = q]
GoOn(h, at) == Become(h, [request[h] EXCEPT !.at = at])
Break(h, cause) == Become(h, [request[h] EXCEPT !.at = "broken", !.cause = cause])

Init ==
    /\ versions = [r \in Recipes |-> <<>>]
    /\ snapshot = [r \in Recipes |-> "parses"]
    /\ plans = {}
    /\ file = [p \in Pictures |-> "absent"]
    /\ reput = {}
    /\ request = [h \in Handlers |-> Idle]

-------------------------------------------------------------------------------
(* What happens around the pages.                                          *)

(***************************************************************************)
(* A picture's file is written piece by piece.  It is "blank" while the    *)
(* bytes an image is known by are missing, "cut" once they are there and   *)
(* others are not.  A put may stop anywhere: it failed, or its process     *)
(* died.                                                                   *)
(***************************************************************************)
Write(p, content) == file' = [file EXCEPT ![p] = content]

PutPicture(p) ==
    /\ p \notin reput
    /\ \/ file[p] \in {"absent", "blank", "cut"} /\ Write(p, "blank")   \* a first try, or the next
       \/ file[p] = "blank" /\ Write(p, "cut")
       \/ file[p] = "cut" /\ Write(p, "whole")
    /\ UNCHANGED <<rows, reput, request>>

(* Another put of the same bytes empties the file first.  It may stop      *)
(* half-way, and write beside a put still under way.                       *)
PutAgain(p) ==
    /\ file[p] # "absent"
    /\ reput' = reput \cup {p}
    /\ \E content \in {"blank", "cut", "whole"} : Write(p, content)
    /\ UNCHANGED <<rows, request>>

(* A version names a picture a put of which has ended. *)
\* Mutant: the put is not awaited.
Unawaited(p) == file[p] # "absent"
Nameable(p) == file[p] = "whole" \/ p \in reput

(* An import or a reprocess appends a version. *)
AppendVersion(r) ==
    /\ Latest(r) < MaxVersion
    /\ \E p \in {None} \cup {c \in Pictures : r \notin Plain /\ Nameable(c)} :
          versions' = [versions EXCEPT ![r] = Append(@, [picture |-> p, parses |-> TRUE])]
    /\ UNCHANGED <<snapshot, plans, files, request>>

(* The plan scheduled for an import, some time later. *)
StorePlan(r, v) ==
    /\ v \in DOMAIN versions[r]
    /\ plans' = {p \in plans : p.recipe # r \/ p.version # v}
                  \cup {[recipe |-> r, version |-> v, parses |-> TRUE]}
    /\ UNCHANGED <<versions, snapshot, files, request>>

Outdated(p) == [p EXCEPT !.parses = FALSE]

Upgrade(r) ==
    /\ \/ /\ Held(r)
          /\ versions' = [versions EXCEPT ![r] = [v \in DOMAIN @ |-> Outdated(@[v])]]
          /\ UNCHANGED <<snapshot, plans>>
       \/ snapshot' = [snapshot EXCEPT ![r] = "outdated"] /\ UNCHANGED <<versions, plans>>
       \/ plans' = {IF p.recipe = r THEN Outdated(p) ELSE p : p \in plans}
          /\ UNCHANGED <<versions, snapshot>>
    /\ request' = [h \in Handlers |-> Idle]
    /\ UNCHANGED files

-------------------------------------------------------------------------------
Ask(h) ==
    /\ request[h].at \in Over
    /\ LET knew == [r \in Recipes |-> Latest(r)] IN
       \/ Become(h, Start("not found", "none", None, knew))
       \/ Become(h, Start("listing", "library", None, knew))
       \/ \E route \in {"recipe", "picture", "cook"}, r \in Recipes \ Plain :
             Become(h, Start("loading", route, r, knew))
    /\ UNCHANGED library

(* GET /: one row per recipe, then every recipe is loaded, in any order.   *)
Listing == {r \in Recipes : Held(r)}

List(h) ==
    /\ Now(h, "listing")
    /\ Become(h, [request[h] EXCEPT !.at = "loading cards", !.listed = Listing])
    /\ UNCHANGED library

\* Mutant: the card shows the first version of a recipe.
FirstCard(r) == 1
CardOf(r) == Latest(r)

LoadCard(h, r) ==
    /\ Now(h, "loading cards")
    /\ r \in request[h].listed /\ request[h].cards[r] = 0
    /\ IF Doc(r, Latest(r)).parses
       THEN Become(h, [request[h] EXCEPT !.cards[r] = CardOf(r)])
       ELSE Break(h, "recipe")
    /\ UNCHANGED library

\* Mutant: rendered once any card is there.
SomeLoaded(q) == q.listed = {} \/ \E r \in q.listed : q.cards[r] # 0
AllLoaded(q) == \A r \in q.listed : q.cards[r] # 0

ServeLibrary(h) ==
    /\ Now(h, "loading cards")
    /\ AllLoaded(request[h])
    /\ GoOn(h, "library")
    /\ UNCHANGED library

(* The other pages begin with the recipe's latest version. *)
After(route) == [recipe |-> "reading source", cook |-> "planning", picture |-> "fetching"][route]

NothingToShow(r, route) == route = "picture" /\ Doc(r, Latest(r)).picture = None

LoadLatest(h) ==
    LET r == request[h].recipe  route == request[h].route IN
    /\ Now(h, "loading")
    /\ IF ~Held(r) THEN GoOn(h, "not found")
       ELSE IF ~Doc(r, Latest(r)).parses THEN Break(h, "recipe")
       ELSE IF NothingToShow(r, route) THEN GoOn(h, "not found")
       ELSE Become(h, [request[h] EXCEPT !.at = After(route), !.version = Latest(r)])
    /\ UNCHANGED library

(* The sentence about the source; a snapshot that cannot be read is said   *)
(* to be unread.                                                           *)
OfUnread == "unread"

SourceOf(r) == IF r \in Photographed THEN "photographed_page" ELSE "not_photographed"
Say(h, sentence) == Become(h, [request[h] EXCEPT !.at = "page", !.shows = sentence])

\* Mutant: the failed read is not caught.
BrokenByItsSource(h) == Break(h, "source")
WithoutItsSource(h) == Say(h, OfUnread)

ReadSource(h) ==
    /\ Now(h, "reading source")
    /\ \/ snapshot[request[h].recipe] = "parses" /\ Say(h, SourceOf(request[h].recipe))
       \/ WithoutItsSource(h)
    /\ UNCHANGED library

(* GET /recipes/:id/cook: the plan stored for this version, or a fresh one;*)
(* a plan that cannot be derived or shown gives way to the recipe page.    *)
\* Mutant: the newest plan of the recipe, whichever version it is of.
PlanOfAny(r, v) == {p \in plans : p.recipe = r /\ \A o \in plans : o.recipe = r => o.version <= p.version}
PlanFor(r, v) == {p \in plans : p.recipe = r /\ p.version = v}

\* The version a fresh plan says it is of.
FreshOf(v) == v

Plan(h) ==
    LET q == request[h]  found == PlanFor(q.recipe, q.version) IN
    /\ Now(h, "planning")
    /\ \/ /\ \E p \in found : ~p.parses
          /\ Break(h, "plan")
       \/ \E p \in found : p.parses /\ Become(h, [q EXCEPT !.at = "cooking", !.shows = p.version])
       \/ found = {} /\ Become(h, [q EXCEPT !.at = "cooking", !.shows = FreshOf(q.version)])
       \/ (\A p \in found : p.parses) /\ GoOn(h, "reading source")
    /\ UNCHANGED library

(* GET /recipes/:id/picture: the picture the recipe names, if its bytes    *)
(* begin as an image does; nothing looks at the others.                    *)
Recognised(p) == file[p] \in {"cut", "whole"}

Fetch(h) ==
    LET p == Doc(request[h].recipe, request[h].version).picture IN
    /\ Now(h, "fetching")
    /\ IF Recognised(p)
       THEN Become(h, [request[h] EXCEPT !.at = "picture", !.shows = <<p, file[p]>>])
       ELSE GoOn(h, "not found")
    /\ UNCHANGED library

(* A read rejects; the snapshot's never costs the page (ReadSource). *)
Fault(h) ==
    /\ request[h].at \in Reading \ {"reading source"}
    /\ Break(h, request[h].at)
    /\ UNCHANGED library

Step(h) ==
    \/ List(h) \/ ServeLibrary(h) \/ LoadLatest(h) \/ ReadSource(h) \/ Plan(h) \/ Fetch(h)
    \/ \E r \in Recipes : LoadCard(h, r)

Next ==
    \/ \E r \in Recipes : AppendVersion(r)
    \/ \E r \in Recipes \ Plain : Upgrade(r) \/ \E v \in 1..MaxVersion : StorePlan(r, v)
    \/ \E p \in Pictures : PutPicture(p) \/ PutAgain(p)
    \/ \E h \in Handlers : Ask(h) \/ Step(h) \/ Fault(h)

Spec == Init /\ [][Next]_vars

-------------------------------------------------------------------------------
(* The library page shows every recipe that was held when it was asked for,*)
(* and none of them older than it was then, imports racing it or not.      *)
LibraryIsWhole ==
    \A h \in Handlers : Now(h, "library") =>
        \A r \in Recipes : request[h].knew[r] # 0 => request[h].cards[r] >= request[h].knew[r]

(* Decision 2 and the comment at pages-app.ts:355: the only 404 of the     *)
(* recipe and cooking addresses is a recipe the instance does not hold.    *)
HeldRecipesAreFound ==
    \A h \in Handlers : Now(h, "not found") /\ request[h].route \in {"recipe", "cook"} =>
        request[h].knew[request[h].recipe] = 0

(* What the instance holds is neither left out nor reported missing. *)
NothingHeldIsMissing == LibraryIsWhole /\ HeldRecipesAreFound

(* The cook follows the recipe: the plan shown is of a version at least as *)
(* new as the latest when it was asked for, stored plans notwithstanding.  *)
CookingFollowsTheRecipe ==
    \A h \in Handlers : Now(h, "cooking") =>
        request[h].shows >= request[h].knew[request[h].recipe]

(* A picture a recipe names is served, and served whole, from a version no *)
(* older than the request: half a picture, or none, is the answer only for *)
(* one that was put again (the rewrite that empties a kept file first), or *)
(* where the version names none.  An import killed while it writes, and    *)
(* the next one that finds the half-written file, are no such case.        *)
KeptPicturesAreServed ==
    \A h \in Handlers :
        LET q == request[h]  Named(p) == \E v \in DOMAIN versions[q.recipe] :
                                v >= q.knew[q.recipe] /\ Doc(q.recipe, v).picture = p
        IN  /\ Now(h, "picture") =>
                  Named(q.shows[1]) /\ (q.shows[2] = "whole" \/ q.shows[1] \in reput)
            /\ Now(h, "not found") /\ q.route = "picture" /\ q.knew[q.recipe] # 0 =>
                  \E p \in {None} \cup reput : Named(p)

(* The recipe page is lost only with the recipe: with the read of its      *)
(* version, or a version the contract no longer accepts.  And what it says *)
(* of a source it could not read is not that there was no photograph.      *)
RecipePageOutlivesItsSource ==
    \A h \in Handlers :
        /\ Now(h, "broken") /\ request[h].route = "recipe" =>
              request[h].cause \in {"recipe", "loading"}
        /\ Now(h, "page") /\ request[h].shows = "not_photographed" =>
              request[h].recipe \notin Photographed

(* pages-app.ts:364: "losing the plan must never take the recipe with it". *)
CookingOutlivesItsPlan ==
    \A h \in Handlers : Now(h, "broken") /\ request[h].route = "cook" =>
        request[h].cause \in {"recipe", "loading"}
===============================================================================
