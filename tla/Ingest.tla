--------------------------------- MODULE Ingest ---------------------------------
(***************************************************************************)
(* Importing recipes: POST /capture (a photograph), POST /capture/url (a   *)
(* link) and the reprocess command, of src/http/ingest-app.ts and          *)
(* src/pipeline/, down to the calls they make on the byte store, the       *)
(* repository, the guarded fetch and the model.                            *)
(*                                                                         *)
(* Requests run concurrently and interleave at every await.  Any call may  *)
(* fail, a repository call also after it took effect, and the process may  *)
(* stop.  The file of a put is open from BeginPut to EndPut, with what     *)
(* ByteStore shows of overlapping puts: the file is whole again when the   *)
(* put that truncated it last ends.  A recipe's id is recipe-of-<snapshot> *)
(* and so its versions are kept here under its snapshot.                   *)
(***************************************************************************)
EXTENDS Naturals, Sequences, SequencesExt

CONSTANTS
    Handlers,       \* requests and commands served at once
    Photos,         \* photographs a phone may send
    Links,          \* addresses of pages
    Pictures,       \* pictures the pages may declare
    Snaps,          \* bound: snapshot ids the instance may draw
    MaxVersions,    \* bound: versions reprocessed per recipe
    None, Nobody

ASSUME VersionsAssumption == MaxVersions \in Nat
ASSUME ContentsAssumption == Photos \cap (Pictures \cup Links) = {}
ASSUME NoneAssumption == None \notin Photos \cup Pictures \cup Links \cup Snaps
ASSUME NobodyAssumption == Nobody \notin Handlers

Contents == Photos \cup Pictures

VARIABLES
    file,           \* content -> who truncated it last and is writing, and whether it is whole
    snapshots,      \* snapshot id -> the stored snapshot
    versions,       \* snapshot id -> the versions of its recipe
    request,        \* handler -> where its request is
    reput           \* ghost: contents put again over a whole or open file

vars == <<file, snapshots, versions, request, reput>>
stored == <<snapshots, versions>>

NoSnapshot == [source |-> None, declared |-> None]
Closed == [opener |-> Nobody, whole |-> FALSE]

(* A request at rest; the fields say what it works on and what it cost. *)
Start(at, route, source, s) ==
    [at |-> at, route |-> route, source |-> source, snap |-> s,
     structured |-> FALSE, declared |-> None, media |-> None, claim |-> None,
     spent |-> 0, version |-> 0]
Idle == Start("idle", "none", None, None)

Now(h, at) == request[h].at = at
Become(h, q) == request' = [request EXCEPT ![h] = q]
GoOn(h, at) == Become(h, [request[h] EXCEPT !.at = at])

(* A request ends, having asked a model in so many more stages, and says a *)
(* version.                                                                *)
Ended(q, at, stages, v) ==
    [at |-> at, route |-> q.route, source |-> q.source, snap |-> q.snap,
     structured |-> q.structured, declared |-> None, media |-> None, claim |-> None,
     spent |-> q.spent + stages, version |-> v]
EndWith(h, at, stages, v) == Become(h, Ended(request[h], at, stages, v))
End(h, at) == EndWith(h, at, 0, 0)

Refusals == {"unreadable", "several", "blocked"}
Over == Refusals \cup {"idle", "refused", "failed", "imported", "reprocessed"}
CanAsk(h) == request[h].at \in Over

Fresh(s) == snapshots[s] = NoSnapshot /\ \A h \in Handlers : request[h].snap # s

Init ==
    /\ file = [c \in Contents |-> Closed]
    /\ snapshots = [s \in Snaps |-> NoSnapshot]
    /\ versions = [s \in Snaps |-> <<>>]
    /\ reput = {}
    /\ request = [h \in Handlers |-> Idle]

-------------------------------------------------------------------------------
(* The door: a credential, type, size or body the route does not accept is *)
(* refused, and nothing else happens.                                      *)
Refused == Start("refused", "none", None, None)

AskPhoto(h) ==
    /\ CanAsk(h)
    /\ \/ Become(h, Refused)
       \/ \E s \in Snaps, p \in Photos : Fresh(s) /\ Become(h, Start("keeping", "photo", p, s))
    /\ UNCHANGED <<file, stored, reput>>

AskLink(h) ==
    /\ CanAsk(h)
    /\ \/ Become(h, Refused)
       \/ \E s \in Snaps, l \in Links : Fresh(s) /\ Become(h, Start("fetching", "link", l, s))
    /\ UNCHANGED <<file, stored, reput>>

AskReprocess(h) ==
    /\ CanAsk(h)
    /\ \E s \in Snaps :
          /\ Len(versions[s]) < MaxVersions
          /\ Become(h, Start("loading", "reprocess", None, s))
    /\ UNCHANGED <<file, stored, reput>>

-------------------------------------------------------------------------------
(* Keeping bytes: a photograph before it is read, a picture once the page  *)
(* that declares it is stored.                                             *)
Putting(h) == IF request[h].route = "photo" THEN request[h].source ELSE request[h].declared

BeginPut(h) ==
    LET c == Putting(h) IN
    /\ request[h].at \in {"keeping", "keeping picture"}
    /\ GoOn(h, IF Now(h, "keeping") THEN "writing" ELSE "writing picture")
    /\ reput' = IF file[c] = Closed THEN reput ELSE reput \cup {c}
    /\ file' = [file EXCEPT ![c] = [opener |-> h, whole |-> FALSE]]
    /\ UNCHANGED stored

Written(h, c, done) ==
    IF file[c].opener = h THEN [file EXCEPT ![c] = [opener |-> Nobody, whole |-> done]] ELSE file

(* Bytes that are HEIF under an accepted label are kept, and then not      *)
(* read; which photographs those are is not told apart.                    *)
EndPut(h) ==
    LET c == Putting(h) IN
    /\ request[h].at \in {"writing", "writing picture"}
    /\ file' = Written(h, c, TRUE)
    /\ \/ /\ Now(h, "writing")
          /\ End(h, "unreadable") \/ GoOn(h, "capturing")
       \/ /\ Now(h, "writing picture")
          /\ Become(h, [request[h] EXCEPT !.at = "loading", !.media = c])
    /\ UNCHANGED <<stored, reput>>

\* What a put that fails costs; mutant: the submission goes on without it.
PutCosts(at) == IF at = "writing" THEN "failed" ELSE "loading"
PutCostsNothing(at) == IF at = "writing" THEN "capturing" ELSE "loading"
AfterFailedPut(at) == PutCosts(at)

FailPut(h) ==
    /\ request[h].at \in {"writing", "writing picture"}
    /\ file' = Written(h, Putting(h), FALSE)
    /\ GoOn(h, AfterFailedPut(request[h].at))
    /\ UNCHANGED <<stored, reput>>

-------------------------------------------------------------------------------
(* A page is fetched through the guard and read from its own structured    *)
(* data; only a page without usable data goes to the model.  Mutant: the   *)
(* deterministic reader is left out, as before `urlCapture`.               *)
ReadOf(structured) == IF structured THEN "storing" ELSE "capturing"
ReadByModel(structured) == "capturing"
NextReader(structured) == ReadOf(structured)

Fetch(h) ==
    /\ Now(h, "fetching")
    /\ \/ End(h, "blocked")
       \/ End(h, "several")
       \/ GoOn(h, NextReader(FALSE))
       \/ \E c \in Pictures \cup {None} :
             Become(h, [request[h] EXCEPT !.at = NextReader(TRUE), !.structured = TRUE,
                                          !.declared = c])
    /\ UNCHANGED <<file, stored, reput>>

(* One stage of ModelCall: it comes to a result or, with Fail, to nothing. *)
(* The reply counts several recipes, or not exactly one: refused unstored. *)
CaptureRefused(h) ==
    /\ Now(h, "capturing")
    /\ EndWith(h, "several", 1, 0)
    /\ UNCHANGED <<file, stored, reput>>

Capture(h) ==
    /\ Now(h, "capturing")
    /\ Become(h, [request[h] EXCEPT !.at = "storing", !.declared = None, !.spent = @ + 1])
    /\ UNCHANGED <<file, stored, reput>>

StoredSnapshot(h) ==
    [snapshots EXCEPT ![request[h].snap] =
        [source |-> request[h].source, declared |-> request[h].declared]]

StoreSnapshot(h) ==
    /\ Now(h, "storing")
    /\ snapshots' = StoredSnapshot(h)
    /\ GoOn(h, IF request[h].declared = None THEN "loading" ELSE "picturing")
    /\ UNCHANGED <<file, versions, reput>>

StoreSnapshotLost(h) ==
    /\ Now(h, "storing")
    /\ snapshots' = StoredSnapshot(h)
    /\ End(h, "failed")
    /\ UNCHANGED <<file, versions, reput>>

(* The declared picture: refused, unreachable or no picture is no picture. *)
FetchPicture(h) ==
    /\ Now(h, "picturing")
    /\ \E at \in {"loading", "keeping picture"} : GoOn(h, at)
    /\ UNCHANGED <<file, stored, reput>>

-------------------------------------------------------------------------------
(* reprocess *)
Load(h) ==
    /\ Now(h, "loading")
    /\ IF snapshots[request[h].snap] = NoSnapshot THEN End(h, "failed") ELSE GoOn(h, "normalising")
    /\ UNCHANGED <<file, stored, reput>>

\* A claim the source does not support is the instance's failure; mutant:
\* it is answered as a refusal of the source.
AsFailure == "failed"
AsRefusal == "several"
Unsupported == AsFailure

Normalise(h) ==
    LET q == request[h] IN
    /\ Now(h, "normalising")
    /\ \/ \E c \in Contents \cup {None} :
             Become(h, [q EXCEPT !.at = IF q.media = None THEN "recalling" ELSE "appending",
                                 !.claim = c, !.spent = q.spent + 1])
       \/ EndWith(h, Unsupported, 1, 0)
    /\ UNCHANGED <<file, stored, reput>>

\* The latest version's media.
LatestMedia(s) == IF versions[s] = <<>> THEN None ELSE Last(versions[s]).media

Recall(h) ==
    /\ Now(h, "recalling")
    /\ Become(h, [request[h] EXCEPT !.at = "appending", !.media = LatestMedia(request[h].snap)])
    /\ UNCHANGED <<file, stored, reput>>

\* What the version carries; mutant: the normaliser's word for it is taken.
NormalisersMedia(q) == IF q.media = None THEN q.claim ELSE q.media
WithMedia(q) == q.media

Appended(h) ==
    LET q == request[h] IN
    [versions EXCEPT ![q.snap] = Append(@, [media |-> WithMedia(q), route |-> q.route])]

\* The ordinal a version gets; mutant: an import takes its version for the first.
AlwaysFirst(s) == 1
NextOrdinal(s) == Len(versions[s]) + 1

(* Refs and title are checked (ungrounded: Fail), the version is appended  *)
(* and the answer built.                                                   *)
AppendVersion(h) ==
    LET q == request[h]  v == NextOrdinal(q.snap) IN
    /\ Now(h, "appending")
    /\ versions' = Appended(h)
    /\ IF q.route = "reprocess"
       THEN End(h, "reprocessed")
       ELSE EndWith(h, "imported", 0, v)
    /\ UNCHANGED <<file, snapshots, reput>>

AppendLost(h) ==
    /\ Now(h, "appending")
    /\ versions' = Appended(h)
    /\ End(h, "failed")
    /\ UNCHANGED <<file, snapshots, reput>>

-------------------------------------------------------------------------------
(* A call rejects, or a check on what it returned throws: answered 500.    *)
(* A stage that failed may have been delivered, and counts.                *)
Fail(h) ==
    /\ request[h].at \notin Over \cup {"writing", "writing picture", "picturing", "keeping picture"}
    /\ EndWith(h, "failed", IF request[h].at \in {"capturing", "normalising"} THEN 1 ELSE 0, 0)
    /\ UNCHANGED <<file, stored, reput>>

Crash ==
    /\ request' = [h \in Handlers |-> Idle]
    /\ file' = [c \in Contents |-> [file[c] EXCEPT !.opener = Nobody]]
    /\ UNCHANGED <<stored, reput>>

Step(h) ==
    \/ BeginPut(h) \/ EndPut(h) \/ FailPut(h)
    \/ Fetch(h) \/ CaptureRefused(h) \/ Capture(h)
    \/ StoreSnapshot(h) \/ FetchPicture(h)
    \/ Load(h) \/ Normalise(h) \/ Recall(h) \/ AppendVersion(h)

Next ==
    \/ \E h \in Handlers :
          \/ AskPhoto(h) \/ AskLink(h) \/ AskReprocess(h)
          \/ Step(h)
          \/ StoreSnapshotLost(h) \/ AppendLost(h) \/ Fail(h)
    \/ Crash

Spec == Init /\ [][Next]_vars

-------------------------------------------------------------------------------
(* A 201 names what was kept: the snapshot is of the source that was sent, *)
(* and the version it names is the one this import appended - whatever a   *)
(* reprocess of the same snapshot appended meanwhile.                      *)
AcknowledgedImportsHold ==
    \A h \in Handlers : Now(h, "imported") =>
        LET q == request[h] IN
        /\ snapshots[q.snap].source = q.source
        /\ q.version \in DOMAIN versions[q.snap]
        /\ versions[q.snap][q.version].route = q.route

(* A refusal keeps nothing of the source but a photograph's scan: no later *)
(* reprocess can turn a refused page into a recipe.                        *)
RefusalsPersistNothing ==
    \A h \in Handlers : request[h].at \in Refusals =>
        snapshots[request[h].snap] = NoSnapshot /\ versions[request[h].snap] = <<>>

(* PDR-0001 invariant 10 and ADR-0009: what the library refers to in the   *)
(* byte store - the photograph a snapshot was read from, the picture a     *)
(* version shows - is whole there, unless the same bytes were put again.   *)
WhatIsReferredToIsKept ==
    \A s \in Snaps :
        /\ snapshots[s].source \in Photos =>
              file[snapshots[s].source].whole \/ snapshots[s].source \in reput
        /\ \A n \in DOMAIN versions[s] : versions[s][n].media \in Pictures =>
              file[versions[s][n].media].whole \/ versions[s][n].media \in reput

(* A picture is the one the page declared, through every reprocess and     *)
(* whatever a model claims; a kept photograph is never shown as the dish.  *)
MediaIsDeclared ==
    \A s \in Snaps : \A n \in DOMAIN versions[s] :
        versions[s][n].media \in {None, snapshots[s].declared}

(* What a request may cost, in stages that ask a model: two for a          *)
(* photograph or a page read by the model, one for a page that says what   *)
(* it holds or a reprocess, none for a page the guard blocks or a          *)
(* photograph that cannot be read.  What a stage costs is ModelCall's.     *)
BillingBounded ==
    \A h \in Handlers :
        LET q == request[h] IN
        /\ q.spent <= IF q.route = "reprocess" \/ q.structured THEN 1 ELSE 2
        /\ q.at \in {"blocked", "unreadable"} => q.spent = 0

(* reprocess.ts: "re-converting a stored source keeps its picture".        *)
PictureCarried ==
    \A s \in Snaps : \A n \in DOMAIN versions[s] :
        n > 1 /\ versions[s][n - 1].media # None => versions[s][n].media = versions[s][n - 1].media
===============================================================================
