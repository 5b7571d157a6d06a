------------------------------- MODULE IngestProofs -------------------------------
(***************************************************************************)
(* Proofs about importing, for any number of requests, contents, links and *)
(* snapshot ids.                                                           *)
(*                                                                         *)
(* The properties speak of what is stored and of requests that are over;   *)
(* what makes them true is what a request under way may rely on at each of *)
(* its awaits (Sound).  An import owns its snapshot id until it is over    *)
(* (Apart), and whatever else runs only adds: a stored snapshot stays, a   *)
(* version stays, bytes once kept are kept or were put again (Grows).      *)
(***************************************************************************)
EXTENDS Ingest, TLAPS

Routes == {"none", "photo", "link", "reprocess"}
Early == {"keeping", "writing", "fetching", "capturing", "storing"}
WithPicture == {"picturing", "keeping picture", "writing picture"}
Reconverting == {"normalising", "recalling", "appending"}
Late == WithPicture \cup {"loading"} \cup Reconverting

MaybePicture == Pictures \cup {None}
Sources == Photos \cup Links \cup {None}

Requests == [at : Early \cup Late \cup Over, route : Routes, source : Sources,
             snap : Snaps \cup {None}, structured : BOOLEAN, declared : MaybePicture,
             media : MaybePicture, claim : Contents \cup {None}, spent : Nat, version : Nat]

Files == [opener : Handlers \cup {Nobody}, whole : BOOLEAN]
Snapshots == [source : Sources, declared : MaybePicture]
Versions == [media : MaybePicture, route : Routes]

StoresOK ==
    /\ file \in [Contents -> Files]
    /\ snapshots \in [Snaps -> Snapshots]
    /\ versions \in [Snaps -> Seq(Versions)]
    /\ reput \in SUBSET Contents

-------------------------------------------------------------------------------
IsImport(q) == q.route \in {"photo", "link"}
Kept(c) == file[c].whole \/ c \in reput

(* What a request is made of, wherever the stores are. *)
Shape(q) ==
    /\ q.at \notin {"idle", "refused"} => q.route # "none" /\ q.snap \in Snaps
    /\ q.at \in {"idle", "refused"} => q.route = "none"
    /\ q.at \in Early \cup Refusals \cup {"imported"} => IsImport(q)
    /\ q.route = "photo" => q.source \in Photos
    /\ q.route = "link" => q.source \in Links
    /\ q.at \in {"keeping", "writing"} => q.route = "photo"
    /\ q.at = "fetching" => q.route = "link"
    /\ q.at \in WithPicture => q.declared \in Pictures
    /\ q.declared # None => q.route = "link"
    /\ q.at \in Early \cup WithPicture => q.media = None

(* What it has asked of a model. *)
Spent(q) ==
    LET own == IF q.route = "reprocess" \/ q.structured THEN 0 ELSE 1 IN
    /\ q.at \in (Early \ {"storing"}) \cup {"idle", "refused", "blocked", "unreadable"} => q.spent = 0
    /\ q.at \in Early \ {"storing"} => ~q.structured
    /\ q.at \in {"storing", "loading", "normalising"} \cup WithPicture => q.spent <= own
    /\ q.spent <= own + 1

(* What is stored for it. *)
Placed(q) ==
    /\ q.at \in Early \cup Refusals => snapshots[q.snap] = NoSnapshot
    /\ q.at \in Late /\ IsImport(q) =>
          snapshots[q.snap] = [source |-> q.source, declared |-> q.declared]
    /\ q.at \in Reconverting => snapshots[q.snap] # NoSnapshot
    /\ q.at \in Late => q.media \in {None, snapshots[q.snap].declared}
    /\ q.at = "imported" =>
          /\ snapshots[q.snap].source = q.source
          /\ q.version \in DOMAIN versions[q.snap]
          /\ versions[q.snap][q.version].route = q.route

(* What it has in the byte store. *)
Bytes(h, q) ==
    /\ q.at = "writing" => file[q.source].opener = h \/ q.source \in reput
    /\ q.at = "writing picture" => file[q.declared].opener = h \/ q.declared \in reput
    /\ q.at \in {"capturing", "storing"} /\ q.route = "photo" => Kept(q.source)
    /\ q.at \in Late /\ q.media # None => Kept(q.media)

Sound(h, q) == Shape(q) /\ Spent(q) /\ Placed(q) /\ Bytes(h, q)

(* A file that is open is not whole, and what is stored is in order. *)
FilesOpen == \A c \in Contents : file[c].opener # Nobody => ~file[c].whole

Stored(s) ==
    /\ snapshots[s] = NoSnapshot => versions[s] = <<>>
    /\ snapshots[s].source \in Photos => Kept(snapshots[s].source)
    /\ \A n \in DOMAIN versions[s] :
          /\ versions[s][n].media \in {None, snapshots[s].declared}
          /\ versions[s][n].media # None => Kept(versions[s][n].media)

StoresSound == StoresOK /\ FilesOpen /\ \A s \in Snaps : Stored(s)

(* No two imports have one snapshot id. *)
ApartFrom(h, q) ==
    IsImport(q) => \A g \in Handlers \ {h} : IsImport(request[g]) => request[g].snap # q.snap

IInv ==
    /\ StoresSound
    /\ request \in [Handlers -> Requests]
    /\ \A h \in Handlers : Sound(h, request[h]) /\ ApartFrom(h, request[h])

-------------------------------------------------------------------------------
(* What a step of h may do to the stores. *)
Grows(h) ==
    /\ \A s \in Snaps : snapshots[s] # NoSnapshot => snapshots'[s] = snapshots[s]
    /\ \A s \in Snaps : \A n \in DOMAIN versions[s] :
          n \in DOMAIN versions'[s] /\ versions'[s][n] = versions[s][n]
    /\ \A c \in Contents : Kept(c) => Kept(c)'
    /\ \A c \in Contents : \A g \in Handlers \ {h} :
          file[c].opener = g => file'[c].opener = g \/ c \in reput'
    /\ reput \subseteq reput'

(* It leaves the snapshots of other imports alone. *)
Spares(h) ==
    \A g \in Handlers \ {h} : IsImport(request[g]) =>
        snapshots'[request[g].snap] = snapshots[request[g].snap]

LEMMA NoSnapshotIsNobodys ==
    /\ NoSnapshot.source = None /\ NoSnapshot.declared = None
    /\ NoSnapshot \in Snapshots
    /\ \A q : IsImport(q) /\ Shape(q) => [source |-> q.source, declared |-> q.declared] # NoSnapshot
<1>1. ASSUME NEW q, IsImport(q), Shape(q) PROVE q.source # None
  BY <1>1, NoneAssumption DEF IsImport, Shape
<1>2. ASSUME NEW q, q.source # None
      PROVE  [source |-> q.source, declared |-> q.declared] # NoSnapshot
  BY <1>2 DEF NoSnapshot
<1>3. QED BY <1>1, <1>2 DEF NoSnapshot, Snapshots, Sources, MaybePicture

(* What a request relies on survives a step of another. *)
LEMMA SoundStays ==
    ASSUME StoresSound, StoresSound', NEW h \in Handlers, NEW g \in Handlers \ {h}, NEW q \in Requests,
           Sound(g, q), Grows(h), IsImport(q) => snapshots'[q.snap] = snapshots[q.snap]
    PROVE  Sound(g, q)'
<1>1. Shape(q)' /\ Spent(q)' BY DEF Sound, Shape, Spent, IsImport
<1>2. Placed(q)'
  <2>1. ASSUME q.at \in Early \cup Refusals PROVE snapshots'[q.snap] = NoSnapshot
    BY <2>1 DEF Sound, Shape, Placed
  <2>2. ASSUME q.at \in Late, IsImport(q)
        PROVE  snapshots'[q.snap] = [source |-> q.source, declared |-> q.declared]
    BY <2>2 DEF Sound, Placed
  <2>3. ASSUME q.at \in Reconverting PROVE snapshots'[q.snap] # NoSnapshot
    BY <2>3 DEF Sound, Shape, Placed, Grows, Reconverting
  <2>4. ASSUME q.at \in Late PROVE q.media \in {None, snapshots'[q.snap].declared}
    <3>1. q.snap \in Snaps BY <2>4 DEF Sound, Shape, Late, WithPicture, Reconverting
    <3>2. CASE snapshots[q.snap] = NoSnapshot
      BY <2>4, <3>2, NoSnapshotIsNobodys DEF Sound, Placed
    <3>3. CASE snapshots[q.snap] # NoSnapshot
      BY <2>4, <3>1, <3>3 DEF Sound, Placed, Grows
    <3>4. QED BY <3>2, <3>3
  <2>5. ASSUME q.at = "imported"
        PROVE  /\ snapshots'[q.snap].source = q.source
               /\ q.version \in DOMAIN versions'[q.snap]
               /\ versions'[q.snap][q.version].route = q.route
    <3>1. q.snap \in Snaps /\ IsImport(q) BY <2>5 DEF Sound, Shape
    <3>2. QED BY <2>5, <3>1 DEF Sound, Placed, Grows
  <2>6. QED BY <2>1, <2>2, <2>3, <2>4, <2>5 DEF Placed, IsImport
<1>3. Bytes(g, q)'
  <2>1. q.at = "writing" => q.source \in Contents BY DEF Sound, Shape, Contents
  <2>2. q.at = "writing picture" => q.declared \in Contents BY DEF Sound, Shape, Contents, WithPicture
  <2>3. q.route = "photo" => q.source \in Contents BY DEF Sound, Shape, Contents
  <2>4. q.media # None => q.media \in Contents BY DEF Requests, MaybePicture, Contents
  <2>5. QED BY <2>1, <2>2, <2>3, <2>4 DEF Sound, Bytes, Grows
<1>4. QED BY <1>1, <1>2, <1>3 DEF Sound

(* A step of one request that leaves it sound keeps the invariant. *)
LEMMA MoveKeeps ==
    ASSUME IInv, NEW h \in Handlers, NEW q \in Requests, Become(h, q), ApartFrom(h, q),
           Sound(h, q)', StoresSound', Grows(h), Spares(h)
    PROVE  IInv'
<1>1. request' = [request EXCEPT ![h] = q] /\ request \in [Handlers -> Requests]
  BY DEF Become, IInv
<1>2. request' \in [Handlers -> Requests] BY <1>1
<1>3. ASSUME NEW g \in Handlers PROVE Sound(g, request[g])'
  <2>1. CASE g = h
    <3>1. request'[g] = q BY <1>1, <2>1
    <3>2. QED BY <3>1, <2>1
  <2>2. CASE g # h
    <3>1. PICK p \in Requests : p = request[g] BY <1>1
    <3>2. request'[g] = p BY <1>1, <2>2, <3>1
    <3>3. Sound(g, p) BY <3>1 DEF IInv
    <3>4. IsImport(p) => snapshots'[p.snap] = snapshots[p.snap] BY <2>2, <3>1 DEF Spares
    <3>5. Sound(g, p)' BY <2>2, <3>3, <3>4, SoundStays DEF IInv
    <3>6. QED BY <3>2, <3>5
  <2>3. QED BY <2>1, <2>2
<1>4. ASSUME NEW g \in Handlers PROVE ApartFrom(g, request[g])'
  <2>1. CASE g = h BY <1>1, <2>1 DEF ApartFrom
  <2>2. CASE g # h
    <3>1. ApartFrom(g, request[g]) BY DEF IInv
    <3>2. QED BY <1>1, <2>2, <3>1 DEF ApartFrom
  <2>3. QED BY <2>1, <2>2
<1>5. QED BY <1>2, <1>3, <1>4 DEF IInv

LEMMA SameIsApart ==
    ASSUME IInv, NEW h \in Handlers, NEW q, q.route = request[h].route, q.snap = request[h].snap
    PROVE  ApartFrom(h, q)
BY DEF IInv, ApartFrom, IsImport

(* A step that leaves the stores alone. *)
LEMMA QuietKeeps ==
    ASSUME IInv, NEW h \in Handlers, NEW q \in Requests, Become(h, q), ApartFrom(h, q), Sound(h, q),
           UNCHANGED <<file, stored, reput>>
    PROVE  IInv'
<1>1. StoresSound'
  BY DEF IInv, StoresSound, StoresOK, FilesOpen, Stored, Kept, stored
<1>2. Grows(h) BY DEF Grows, Kept, stored
<1>3. Spares(h) BY DEF Spares, stored
<1>4. Sound(h, q)' BY DEF Sound, Shape, Spent, Placed, Bytes, Kept, IsImport, stored
<1>5. QED BY <1>1, <1>2, <1>3, <1>4, MoveKeeps

-------------------------------------------------------------------------------
(* What a request looks like after it was changed in so many fields. *)
Follows(q, p, at, structured, declared, media, spent) ==
    /\ q \in Requests
    /\ q.at = at /\ q.route = p.route /\ q.source = p.source /\ q.snap = p.snap
    /\ q.structured = structured /\ q.declared = declared /\ q.media = media /\ q.spent = spent

Ats == Early \cup Late \cup Over

LEMMA GoesOn ==
    ASSUME NEW p \in Requests, NEW at \in Ats
    PROVE  Follows([p EXCEPT !.at = at], p, at, p.structured, p.declared, p.media, p.spent)
BY DEF Follows, Requests, Ats

LEMMA GoesOnWithMedia ==
    ASSUME NEW p \in Requests, NEW at \in Ats, NEW m \in MaybePicture
    PROVE  Follows([p EXCEPT !.at = at, !.media = m], p, at, p.structured, p.declared, m, p.spent)
<1> DEFINE a == [p EXCEPT !.at = at]
<1>1. Follows(a, p, at, p.structured, p.declared, p.media, p.spent) BY GoesOn
<1> HIDE DEF a
<1>2. Follows([a EXCEPT !.media = m], p, at, p.structured, p.declared, m, p.spent)
  BY <1>1 DEF Follows, Requests
<1>3. QED BY <1>2, Zenon DEF a

LEMMA GoesOnReading ==
    ASSUME NEW p \in Requests, NEW at \in Ats, NEW c \in MaybePicture
    PROVE  Follows([p EXCEPT !.at = at, !.structured = TRUE, !.declared = c],
                   p, at, TRUE, c, p.media, p.spent)
<1> DEFINE a == [p EXCEPT !.at = at]
           b == [a EXCEPT !.structured = TRUE]
<1>1. Follows(a, p, at, p.structured, p.declared, p.media, p.spent) BY GoesOn
<1> HIDE DEF a
<1>2. Follows(b, p, at, TRUE, p.declared, p.media, p.spent) BY <1>1 DEF Follows, Requests
<1> HIDE DEF b
<1>3. Follows([b EXCEPT !.declared = c], p, at, TRUE, c, p.media, p.spent)
  BY <1>2 DEF Follows, Requests
<1>4. QED BY <1>3, Zenon DEF a, b

LEMMA GoesOnCaptured ==
    ASSUME NEW p \in Requests, NEW at \in Ats
    PROVE  Follows([p EXCEPT !.at = at, !.declared = None, !.spent = p.spent + 1],
                   p, at, p.structured, None, p.media, p.spent + 1)
<1> DEFINE a == [p EXCEPT !.at = at]
           b == [a EXCEPT !.declared = None]
<1>1. Follows(a, p, at, p.structured, p.declared, p.media, p.spent) BY GoesOn
<1> HIDE DEF a
<1>2. Follows(b, p, at, p.structured, None, p.media, p.spent)
  BY <1>1 DEF Follows, Requests, MaybePicture
<1> HIDE DEF b
<1>3. p.spent \in Nat BY DEF Requests
<1>4. Follows([b EXCEPT !.spent = p.spent + 1], p, at, p.structured, None, p.media, p.spent + 1)
  BY <1>2, <1>3 DEF Follows, Requests
<1>5. QED BY <1>4, Zenon DEF a, b

LEMMA GoesOnNormalised ==
    ASSUME NEW p \in Requests, NEW at \in Ats, NEW c \in Contents \cup {None}
    PROVE  Follows([p EXCEPT !.at = at, !.claim = c, !.spent = p.spent + 1],
                   p, at, p.structured, p.declared, p.media, p.spent + 1)
<1> DEFINE a == [p EXCEPT !.at = at]
           b == [a EXCEPT !.claim = c]
<1>1. Follows(a, p, at, p.structured, p.declared, p.media, p.spent) BY GoesOn
<1> HIDE DEF a
<1>2. Follows(b, p, at, p.structured, p.declared, p.media, p.spent) BY <1>1 DEF Follows, Requests
<1> HIDE DEF b
<1>3. p.spent \in Nat BY DEF Requests
<1>4. Follows([b EXCEPT !.spent = p.spent + 1], p, at, p.structured, p.declared, p.media, p.spent + 1)
  BY <1>2, <1>3 DEF Follows, Requests
<1>5. QED BY <1>4, Zenon DEF a, b

LEMMA EndsSo ==
    ASSUME NEW p \in Requests, NEW at \in Ats, NEW stages \in {0, 1}, NEW v \in Nat
    PROVE  /\ Follows(Ended(p, at, stages, v), p, at, p.structured, None, None, p.spent + stages)
           /\ Ended(p, at, stages, v).version = v
BY DEF Follows, Ended, Requests, MaybePicture, Ats

(* What a request under way is. *)
LEMMA UnderWay ==
    ASSUME IInv, NEW h \in Handlers
    PROVE  /\ request[h] \in Requests /\ Sound(h, request[h]) /\ StoresSound
           /\ request[h].at \in Early \cup Late => request[h].snap \in Snaps
BY DEF IInv, Sound, Shape, Early, Late, WithPicture, Reconverting

-------------------------------------------------------------------------------
(* A request that is over relies on little. *)
LEMMA EndedIsSound ==
    ASSUME IInv, NEW h \in Handlers, request[h].at \in Early \cup Late,
           NEW at \in Refusals \cup {"failed", "reprocessed"}, NEW stages \in {0, 1},
           at \in Refusals => request[h].at \in Early \ {"storing"},
           at \in {"blocked", "unreadable"} => stages = 0,
           stages = 1 => request[h].at \in {"capturing", "normalising"},
           NEW q, q = Ended(request[h], at, stages, 0)
    PROVE  /\ q \in Requests /\ Shape(q) /\ Spent(q) /\ Sound(h, q) /\ ApartFrom(h, q)
           /\ q.at = at
<1> DEFINE p == request[h]
<1>1. p \in Requests /\ Sound(h, p) /\ p.snap \in Snaps BY UnderWay
<1>2. at \in Ats BY DEF Ats, Over
<1>3. Follows(q, p, at, p.structured, None, None, p.spent + stages) BY <1>1, <1>2, EndsSo
<1>4. Shape(q)
  BY <1>1, <1>3 DEF Follows, Sound, Shape, IsImport, Refusals, Early, Late, WithPicture, Reconverting
<1>5. p.spent \in Nat /\ Spent(p) BY <1>1 DEF Requests, Sound
<1>6. Spent(q)
  <2> DEFINE own == IF p.route = "reprocess" \/ p.structured THEN 0 ELSE 1
  <2>1. q.spent = p.spent + stages /\ q.at = at /\ q.route = p.route /\ q.structured = p.structured
    BY <1>3 DEF Follows
  <2>2. stages = 1 => p.spent <= own
    <3>1. p.at = "capturing" => p.spent = 0 BY <1>5 DEF Spent, Early
    <3>2. p.at = "normalising" => p.spent <= own BY <1>5 DEF Spent
    <3>3. own \in {0, 1} OBVIOUS
    <3>4. QED BY <1>5, <3>1, <3>2, <3>3
  <2>3. p.spent <= own + 1 BY <1>5 DEF Spent
  <2>4. own \in {0, 1} OBVIOUS
  <2>5. p.spent + stages <= own + 1 BY <1>5, <2>2, <2>3, <2>4
  <2>6. at \in {"blocked", "unreadable"} => p.spent + stages = 0
    BY <1>5 DEF Spent, Refusals
  <2>7. QED BY <2>1, <2>5, <2>6 DEF Spent, Early, WithPicture, Refusals
<1>7. Placed(q)
  BY <1>1, <1>3 DEF Follows, Sound, Placed, Early, Late, WithPicture, Reconverting, Refusals
<1>8. Bytes(h, q)
  BY <1>3 DEF Follows, Bytes, Late, WithPicture, Reconverting, Refusals
<1>9. ApartFrom(h, q) BY <1>3, SameIsApart DEF Follows
<1>10. QED BY <1>3, <1>4, <1>6, <1>7, <1>8, <1>9 DEF Follows, Sound

LEMMA EndKeeps ==
    ASSUME IInv, NEW h \in Handlers, request[h].at \in Early \cup Late,
           NEW at \in Refusals \cup {"failed", "reprocessed"}, NEW stages \in {0, 1},
           at \in Refusals => request[h].at \in Early \ {"storing"},
           at \in {"blocked", "unreadable"} => stages = 0,
           stages = 1 => request[h].at \in {"capturing", "normalising"},
           EndWith(h, at, stages, 0), UNCHANGED <<file, stored, reput>>
    PROVE  IInv'
<1>1. PICK q : q = Ended(request[h], at, stages, 0) OBVIOUS
<1>2. q \in Requests /\ Sound(h, q) /\ ApartFrom(h, q) BY <1>1, EndedIsSound
<1>3. Become(h, q) BY <1>1 DEF EndWith
<1>4. QED BY <1>2, <1>3, QuietKeeps

LEMMA AskKeeps ==
    ASSUME IInv, NEW h \in Handlers, AskPhoto(h) \/ AskLink(h) \/ AskReprocess(h)
    PROVE  IInv'
<1>1. UNCHANGED <<file, stored, reput>> BY DEF AskPhoto, AskLink, AskReprocess
<1>2. CASE Become(h, Refused)
  <2>1. Refused \in Requests /\ Sound(h, Refused) /\ ApartFrom(h, Refused)
    BY DEF Refused, Start, Requests, Over, Routes, Sources, MaybePicture, Sound, Shape, Spent, Placed,
       Bytes, ApartFrom, IsImport, Early, Late, WithPicture, Reconverting, Refusals
  <2>2. QED BY <1>1, <1>2, <2>1, QuietKeeps
<1>3. ASSUME NEW s \in Snaps, Fresh(s), NEW p \in Photos, Become(h, Start("keeping", "photo", p, s))
      PROVE  IInv'
  <2> DEFINE q == Start("keeping", "photo", p, s)
  <2>1. q \in Requests /\ Shape(q) /\ Spent(q)
    BY DEF Start, Requests, Routes, Sources, MaybePicture, Shape, Spent, IsImport,
       Early, Late, WithPicture, Reconverting, Refusals
  <2>2. Placed(q) /\ Bytes(h, q) /\ ApartFrom(h, q)
    BY <1>3 DEF Fresh, Start, Placed, Bytes, ApartFrom, Late, WithPicture, Reconverting
  <2>3. QED BY <1>1, <1>3, <2>1, <2>2, QuietKeeps DEF Sound
<1>4. ASSUME NEW s \in Snaps, Fresh(s), NEW l \in Links, Become(h, Start("fetching", "link", l, s))
      PROVE  IInv'
  <2> DEFINE q == Start("fetching", "link", l, s)
  <2>1. q \in Requests /\ Shape(q) /\ Spent(q)
    BY DEF Start, Requests, Routes, Sources, MaybePicture, Shape, Spent, IsImport,
       Early, Late, WithPicture, Reconverting, Refusals
  <2>2. Placed(q) /\ Bytes(h, q) /\ ApartFrom(h, q)
    BY <1>4 DEF Fresh, Start, Placed, Bytes, ApartFrom, Late, WithPicture, Reconverting
  <2>3. QED BY <1>1, <1>4, <2>1, <2>2, QuietKeeps DEF Sound
<1>5. ASSUME NEW s \in Snaps, Become(h, Start("loading", "reprocess", None, s))
      PROVE  IInv'
  <2> DEFINE q == Start("loading", "reprocess", None, s)
  <2>1. q \in Requests /\ Shape(q) /\ Spent(q)
    BY DEF Start, Requests, Routes, Sources, MaybePicture, Shape, Spent, IsImport,
       Early, Late, WithPicture, Reconverting, Refusals
  <2>2. Placed(q) /\ Bytes(h, q) /\ ApartFrom(h, q)
    BY DEF Start, Placed, Bytes, ApartFrom, IsImport, Early, Late, WithPicture, Reconverting, Refusals
  <2>3. QED BY <1>1, <1>5, <2>1, <2>2, QuietKeeps DEF Sound
<1>6. QED BY <1>2, <1>3, <1>4, <1>5 DEF AskPhoto, AskLink, AskReprocess

LEMMA FetchKeeps == ASSUME IInv, NEW h \in Handlers, Fetch(h) PROVE IInv'
<1> DEFINE p == request[h]
<1>1. p \in Requests /\ Sound(h, p) /\ p.snap \in Snaps /\ p.at = "fetching" /\ p.at \in Early
  BY UnderWay DEF Fetch, Now, Early
<1>2. UNCHANGED <<file, stored, reput>> BY DEF Fetch
<1>3. CASE End(h, "blocked") \/ End(h, "several")
  BY <1>1, <1>2, <1>3, EndKeeps DEF End, Refusals, Early
<1>4. CASE GoOn(h, NextReader(FALSE))
  <2>1. PICK q : q = [p EXCEPT !.at = "capturing"] OBVIOUS
  <2>2. Follows(q, p, "capturing", p.structured, p.declared, p.media, p.spent)
    BY <1>1, <2>1, GoesOn DEF Ats, Early
  <2>3. Become(h, q) BY <1>4, <2>1 DEF GoOn, NextReader, ReadOf
  <2>4. Sound(h, q)
    BY <1>1, <2>2 DEF Follows, Sound, Shape, Spent, Placed, Bytes, IsImport,
       Early, Late, WithPicture, Reconverting, Refusals
  <2>5. ApartFrom(h, q) BY <2>2, SameIsApart DEF Follows
  <2>6. QED BY <1>2, <2>2, <2>3, <2>4, <2>5, QuietKeeps DEF Follows
<1>5. ASSUME NEW c \in MaybePicture,
             Become(h, [p EXCEPT !.at = NextReader(TRUE), !.structured = TRUE, !.declared = c])
      PROVE  IInv'
  <2>1. PICK q : q = [p EXCEPT !.at = "storing", !.structured = TRUE, !.declared = c] OBVIOUS
  <2>a. "storing" \in Ats BY DEF Ats, Early
  <2>2. Follows(q, p, "storing", TRUE, c, p.media, p.spent)
    BY <1>1, <2>1, <2>a, GoesOnReading, Zenon
  <2>3. Become(h, q) BY <1>5, <2>1, Zenon DEF NextReader, ReadOf
  <2>4. Sound(h, q)
    BY <1>1, <2>2 DEF Follows, Sound, Shape, Spent, Placed, Bytes, IsImport,
       Early, Late, WithPicture, Reconverting, Refusals
  <2>5. ApartFrom(h, q) BY <2>2, SameIsApart DEF Follows
  <2>6. q \in Requests BY <2>2 DEF Follows
  <2>7. QED BY <1>2, <2>3, <2>4, <2>5, <2>6, QuietKeeps
<1>6. QED BY <1>3, <1>4, <1>5, Zenon DEF Fetch, MaybePicture

LEMMA CaptureKeeps == ASSUME IInv, NEW h \in Handlers, CaptureRefused(h) \/ Capture(h) PROVE IInv'
<1> DEFINE p == request[h]
<1>1. p \in Requests /\ Sound(h, p) /\ p.snap \in Snaps /\ p.at = "capturing" /\ p.at \in Early
  BY UnderWay DEF CaptureRefused, Capture, Now, Early
<1>2. CASE CaptureRefused(h)
  BY <1>1, <1>2, EndKeeps DEF CaptureRefused, Refusals, Early
<1>3. CASE Capture(h)
  <2>1. PICK q : q = [p EXCEPT !.at = "storing", !.declared = None, !.spent = p.spent + 1] OBVIOUS
  <2>a. "storing" \in Ats BY DEF Ats, Early
  <2>2. Follows(q, p, "storing", p.structured, None, p.media, p.spent + 1)
    BY <1>1, <2>1, <2>a, GoesOnCaptured, Zenon
  <2>3. Become(h, q) /\ UNCHANGED <<file, stored, reput>> BY <1>3, <2>1, Zenon DEF Capture
  <2>b. p.spent = 0 /\ ~p.structured /\ p.route # "reprocess"
    BY <1>1 DEF Sound, Spent, Shape, IsImport, Early
  <2>4. Shape(q) /\ Placed(q) /\ Bytes(h, q)
    BY <1>1, <2>2 DEF Follows, Sound, Shape, Placed, Bytes, IsImport,
       Early, Late, WithPicture, Reconverting, Refusals
  <2>5. Spent(q) BY <2>2, <2>b DEF Follows, Spent, Early, WithPicture
  <2>6. ApartFrom(h, q) BY <2>2, SameIsApart DEF Follows
  <2>7. q \in Requests BY <2>2 DEF Follows
  <2>8. QED BY <2>3, <2>4, <2>5, <2>6, <2>7, QuietKeeps DEF Sound
<1>4. QED BY <1>2, <1>3

(* A step within an import that changes no store and no field but where it is. *)
LEMMA FetchPictureKeeps == ASSUME IInv, NEW h \in Handlers, FetchPicture(h) PROVE IInv'
<1> DEFINE p == request[h]
<1>1. p \in Requests /\ Sound(h, p) /\ p.snap \in Snaps /\ p.at = "picturing"
  BY UnderWay DEF FetchPicture, Now, Late, WithPicture
<1>2. PICK at \in {"loading", "keeping picture"} : GoOn(h, at) BY DEF FetchPicture
<1>3. PICK q : q = [p EXCEPT !.at = at] OBVIOUS
<1>4. Follows(q, p, at, p.structured, p.declared, p.media, p.spent)
  BY <1>1, <1>3, GoesOn DEF Ats, Late, WithPicture
<1>5. Become(h, q) BY <1>2, <1>3 DEF GoOn
<1>6. Sound(h, q)
  BY <1>1, <1>4 DEF Follows, Sound, Shape, Spent, Placed, Bytes, IsImport,
     Early, Late, WithPicture, Reconverting, Refusals
<1>7. ApartFrom(h, q) BY <1>4, SameIsApart DEF Follows
<1>8. QED BY <1>4, <1>5, <1>6, <1>7, QuietKeeps DEF Follows, FetchPicture

LEMMA LoadKeeps == ASSUME IInv, NEW h \in Handlers, Load(h) PROVE IInv'
<1> DEFINE p == request[h]
<1>1. p \in Requests /\ Sound(h, p) /\ p.snap \in Snaps /\ p.at = "loading" /\ p.at \in Late
  BY UnderWay DEF Load, Now, Late
<1>2. UNCHANGED <<file, stored, reput>> BY DEF Load
<1>3. CASE snapshots[p.snap] = NoSnapshot
  BY <1>1, <1>2, <1>3, EndKeeps DEF Load, End, Refusals, Early
<1>4. CASE snapshots[p.snap] # NoSnapshot
  <2>1. PICK q : q = [p EXCEPT !.at = "normalising"] OBVIOUS
  <2>2. Follows(q, p, "normalising", p.structured, p.declared, p.media, p.spent)
    BY <1>1, <2>1, GoesOn DEF Ats, Late, Reconverting
  <2>3. Become(h, q) BY <1>4, <2>1 DEF Load, GoOn
  <2>4. Sound(h, q)
    BY <1>1, <1>4, <2>2 DEF Follows, Sound, Shape, Spent, Placed, Bytes, IsImport,
       Early, Late, WithPicture, Reconverting, Refusals
  <2>5. ApartFrom(h, q) BY <2>2, SameIsApart DEF Follows
  <2>6. QED BY <1>2, <2>2, <2>3, <2>4, <2>5, QuietKeeps DEF Follows
<1>5. QED BY <1>3, <1>4

LEMMA NormaliseKeeps == ASSUME IInv, NEW h \in Handlers, Normalise(h) PROVE IInv'
<1> DEFINE p == request[h]
<1>1. p \in Requests /\ Sound(h, p) /\ p.snap \in Snaps /\ p.at = "normalising" /\ p.at \in Late
  BY UnderWay DEF Normalise, Now, Late, Reconverting
<1>2. UNCHANGED <<file, stored, reput>> BY DEF Normalise
<1>3. CASE EndWith(h, Unsupported, 1, 0)
  BY <1>1, <1>2, <1>3, EndKeeps DEF Unsupported, AsFailure, Refusals
<1>4. ASSUME NEW c \in Contents \cup {None},
             Become(h, [p EXCEPT !.at = IF p.media = None THEN "recalling" ELSE "appending",
                                 !.claim = c, !.spent = p.spent + 1])
      PROVE  IInv'
  <2>1. PICK at : at = (IF p.media = None THEN "recalling" ELSE "appending") OBVIOUS
  <2>2. PICK q : q = [p EXCEPT !.at = at, !.claim = c, !.spent = p.spent + 1] OBVIOUS
  <2>a. at \in Ats /\ at \in {"recalling", "appending"} BY <2>1 DEF Ats, Late, Reconverting
  <2>3. Follows(q, p, at, p.structured, p.declared, p.media, p.spent + 1)
    BY <1>1, <2>2, <2>a, GoesOnNormalised, Zenon
  <2>4. Become(h, q) BY <1>4, <2>1, <2>2, Zenon
  <2>5. Shape(q) /\ Placed(q) /\ Bytes(h, q)
    BY <1>1, <2>a, <2>3 DEF Follows, Sound, Shape, Placed, Bytes, IsImport,
       Early, Late, WithPicture, Reconverting, Refusals
  <2>6. Spent(q)
    <3> DEFINE own == IF p.route = "reprocess" \/ p.structured THEN 0 ELSE 1
    <3>1. p.spent \in Nat BY <1>1 DEF Requests
    <3>2. p.spent <= own BY <1>1 DEF Sound, Spent
    <3>3. own \in {0, 1} OBVIOUS
    <3>4. p.spent + 1 <= own + 1 BY <3>1, <3>2, <3>3
    <3>5. q.at \in {"recalling", "appending"} /\ q.spent = p.spent + 1
          /\ q.route = p.route /\ q.structured = p.structured
      BY <2>a, <2>3 DEF Follows
    <3>6. QED BY <3>4, <3>5 DEF Spent, Early, WithPicture
  <2>7. ApartFrom(h, q) BY <2>3, SameIsApart DEF Follows
  <2>8. q \in Requests BY <2>3 DEF Follows
  <2>9. QED BY <1>2, <2>4, <2>5, <2>6, <2>7, <2>8, QuietKeeps DEF Sound
<1>5. QED BY <1>3, <1>4, Zenon DEF Normalise

(* The picture of the latest version is the page's, and kept. *)
LEMMA LatestIsDeclared ==
    ASSUME StoresSound, NEW s \in Snaps
    PROVE  /\ LatestMedia(s) \in MaybePicture /\ LatestMedia(s) \in {None, snapshots[s].declared}
           /\ LatestMedia(s) # None => Kept(LatestMedia(s))
<1>1. versions[s] \in Seq(Versions) /\ Stored(s) BY DEF StoresSound, StoresOK
<1>2. CASE versions[s] = <<>> BY <1>2 DEF LatestMedia, MaybePicture
<1>3. CASE versions[s] # <<>>
  <2>1. Len(versions[s]) \in DOMAIN versions[s] BY <1>1, <1>3
  <2>2. versions[s][Len(versions[s])] \in Versions BY <1>1, <2>1
  <2>3. LatestMedia(s) = versions[s][Len(versions[s])].media BY <1>3 DEF LatestMedia, Last
  <2>4. QED BY <1>1, <2>1, <2>2, <2>3 DEF Stored, Versions
<1>4. QED BY <1>2, <1>3

LEMMA RecallKeeps == ASSUME IInv, NEW h \in Handlers, Recall(h) PROVE IInv'
<1> DEFINE p == request[h]
<1>1. p \in Requests /\ Sound(h, p) /\ StoresSound /\ p.snap \in Snaps /\ p.at = "recalling"
  BY UnderWay DEF Recall, Now, Late, Reconverting
<1>2. PICK m : m = LatestMedia(p.snap) OBVIOUS
<1>3. m \in MaybePicture /\ m \in {None, snapshots[p.snap].declared} /\ (m # None => Kept(m))
  BY <1>1, <1>2, LatestIsDeclared
<1>4. PICK q : q = [p EXCEPT !.at = "appending", !.media = m] OBVIOUS
<1>a. "appending" \in Ats BY DEF Ats, Late, Reconverting
<1>5. Follows(q, p, "appending", p.structured, p.declared, m, p.spent)
  BY <1>1, <1>3, <1>4, <1>a, GoesOnWithMedia, Zenon
<1>6. Become(h, q) /\ UNCHANGED <<file, stored, reput>> BY <1>2, <1>4, Zenon DEF Recall
<1>7. Sound(h, q)
  BY <1>1, <1>3, <1>5 DEF Follows, Sound, Shape, Spent, Placed, Bytes, IsImport,
     Early, Late, WithPicture, Reconverting, Refusals
<1>8. ApartFrom(h, q) BY <1>5, SameIsApart DEF Follows
<1>9. q \in Requests BY <1>5 DEF Follows
<1>10. QED BY <1>6, <1>7, <1>8, <1>9, QuietKeeps

LEMMA FailKeeps == ASSUME IInv, NEW h \in Handlers, Fail(h) PROVE IInv'
<1>1. request[h].at \in Early \cup Late
  <2>1. request[h].at \in Early \cup Late \cup Over BY UnderWay DEF Requests
  <2>2. QED BY <2>1 DEF Fail
<1> DEFINE n == IF request[h].at \in {"capturing", "normalising"} THEN 1 ELSE 0
<1>2. EndWith(h, "failed", n, 0) /\ UNCHANGED <<file, stored, reput>> BY DEF Fail
<1>3. n \in {0, 1} /\ (n = 1 => request[h].at \in {"capturing", "normalising"}) OBVIOUS
<1>4. "failed" \in Refusals \cup {"failed", "reprocessed"} /\ "failed" \notin Refusals BY DEF Refusals
<1> HIDE DEF n
<1>5. QED BY <1>1, <1>2, <1>3, <1>4, EndKeeps

-------------------------------------------------------------------------------
(* The snapshot of an import is stored: under an id that was nobody's, of  *)
(* a photograph that is kept.                                              *)
LEMMA SnapshotIsStored ==
    ASSUME IInv, NEW h \in Handlers, request[h].at = "storing",
           snapshots' = StoredSnapshot(h), UNCHANGED <<file, versions, reput>>
    PROVE  /\ StoresSound' /\ Grows(h) /\ Spares(h)
           /\ snapshots'[request[h].snap]
                = [source |-> request[h].source, declared |-> request[h].declared]
<1> DEFINE p == request[h]
           new == [source |-> p.source, declared |-> p.declared]
<1>1. p \in Requests /\ Sound(h, p) /\ p.snap \in Snaps /\ StoresSound /\ StoresOK
  BY UnderWay DEF Early, StoresSound
<1>2. IsImport(p) /\ snapshots[p.snap] = NoSnapshot BY <1>1 DEF Sound, Shape, Placed, Early
<1>3. new \in Snapshots BY <1>1 DEF Requests, Snapshots
<1>4. snapshots' = [snapshots EXCEPT ![p.snap] = new] BY DEF StoredSnapshot
<1>5. snapshots' \in [Snaps -> Snapshots] /\ snapshots'[p.snap] = new
      /\ \A s \in Snaps : s # p.snap => snapshots'[s] = snapshots[s]
  BY <1>1, <1>3, <1>4 DEF StoresOK
<1>6. StoresOK' BY <1>1, <1>5 DEF StoresOK
<1>7. FilesOpen' BY <1>1 DEF StoresSound, FilesOpen
<1>8. ASSUME NEW s \in Snaps PROVE Stored(s)'
  <2>1. Stored(s) BY <1>1 DEF StoresSound
  <2>2. CASE s # p.snap BY <1>5, <2>1, <2>2 DEF Stored, Kept
  <2>3. CASE s = p.snap
    <3>1. versions[s] = <<>> BY <1>2, <2>1, <2>3 DEF Stored
    <3>2. p.source \in Photos => p.route = "photo"
      BY <1>1, <1>2, ContentsAssumption DEF Sound, Shape, IsImport
    <3>3. p.source \in Photos => Kept(p.source) BY <1>1, <3>2 DEF Sound, Bytes
    <3>4. QED BY <1>5, <2>3, <3>1, <3>3 DEF Stored, Kept
  <2>4. QED BY <2>2, <2>3
<1>9. Grows(h) BY <1>2, <1>5 DEF Grows, Kept
<1>10. Spares(h)
  <2> SUFFICES ASSUME NEW g \in Handlers \ {h}, IsImport(request[g])
               PROVE  snapshots'[request[g].snap] = snapshots[request[g].snap]
    BY DEF Spares
  <2>1. request[g].snap # p.snap BY <1>2 DEF IInv, ApartFrom
  <2>2. request[g].snap \in Snaps BY UnderWay DEF IsImport, Sound, Shape
  <2>3. QED BY <1>5, <2>1, <2>2
<1>11. QED BY <1>5, <1>6, <1>7, <1>8, <1>9, <1>10 DEF StoresSound

LEMMA StoreKeeps == ASSUME IInv, NEW h \in Handlers, StoreSnapshot(h) PROVE IInv'
<1> DEFINE p == request[h]
<1>1. p \in Requests /\ Sound(h, p) /\ p.snap \in Snaps /\ p.at = "storing" /\ p.at \in Early
  BY UnderWay DEF StoreSnapshot, Now, Early
<1>2. StoresSound' /\ Grows(h) /\ Spares(h)
      /\ snapshots'[p.snap] = [source |-> p.source, declared |-> p.declared]
  BY <1>1, SnapshotIsStored DEF StoreSnapshot
<1>3. PICK at : at = (IF p.declared = None THEN "loading" ELSE "picturing") OBVIOUS
<1>4. at \in Ats BY <1>3 DEF Ats, Late, WithPicture
<1>5. PICK q : q = [p EXCEPT !.at = at] OBVIOUS
<1>6. Follows(q, p, at, p.structured, p.declared, p.media, p.spent) BY <1>1, <1>4, <1>5, GoesOn
<1>7. Become(h, q) BY <1>3, <1>5 DEF StoreSnapshot, GoOn
<1>8. Shape(q) /\ Spent(q)
  BY <1>1, <1>3, <1>6 DEF Follows, Requests, MaybePicture, Sound, Shape, Spent, IsImport, Early, Late, WithPicture,
     Reconverting, Refusals
<1>9. Shape(q)' /\ Spent(q)' BY <1>8 DEF Shape, Spent, IsImport
<1>10. q.media = None /\ q.at \in {"loading", "picturing"}
  BY <1>1, <1>3, <1>6 DEF Follows, Sound, Shape
<1>11. Placed(q)' /\ Bytes(h, q)'
  BY <1>2, <1>6, <1>10 DEF Follows, Placed, Bytes, Early, Reconverting, Refusals
<1>12. ApartFrom(h, q) BY <1>6, SameIsApart DEF Follows
<1>13. QED BY <1>2, <1>6, <1>7, <1>9, <1>11, <1>12, MoveKeeps DEF Follows, Sound

(* A request that failed relies on nothing that is stored. *)
LEMMA FailedKeeps ==
    ASSUME IInv, NEW h \in Handlers, request[h].at \in Early \cup Late,
           NEW at \in {"failed", "reprocessed"},
           EndWith(h, at, 0, 0), StoresSound', Grows(h), Spares(h)
    PROVE  IInv'
<1>1. PICK q : q = Ended(request[h], at, 0, 0) OBVIOUS
<1>2. q \in Requests /\ Shape(q) /\ Spent(q) /\ ApartFrom(h, q) /\ q.at = at
  BY <1>1, EndedIsSound DEF Refusals
<1>3. Become(h, q) BY <1>1 DEF EndWith
<1>4. Sound(h, q)'
  BY <1>2 DEF Sound, Shape, Spent, Placed, Bytes, IsImport, Early, Late, WithPicture, Reconverting, Refusals
<1>5. QED BY <1>2, <1>3, <1>4, MoveKeeps

LEMMA StoreLostKeeps == ASSUME IInv, NEW h \in Handlers, StoreSnapshotLost(h) PROVE IInv'
<1>1. request[h].at = "storing" BY DEF StoreSnapshotLost, Now
<1>2. StoresSound' /\ Grows(h) /\ Spares(h) BY <1>1, SnapshotIsStored DEF StoreSnapshotLost
<1>3. QED BY <1>1, <1>2, FailedKeeps DEF StoreSnapshotLost, End, Early

(* The version is appended: of a snapshot that is stored, with a picture   *)
(* its page declared.                                                      *)
LEMMA VersionIsAppended ==
    ASSUME IInv, NEW h \in Handlers, request[h].at = "appending",
           versions' = Appended(h), UNCHANGED <<file, snapshots, reput>>
    PROVE  /\ StoresSound' /\ Grows(h) /\ Spares(h)
           /\ Len(versions[request[h].snap]) + 1 \in DOMAIN versions'[request[h].snap]
           /\ versions'[request[h].snap][Len(versions[request[h].snap]) + 1].route = request[h].route
<1> DEFINE p == request[h]
           s == p.snap
           new == [media |-> p.media, route |-> p.route]
<1>1. p \in Requests /\ Sound(h, p) /\ s \in Snaps /\ StoresSound /\ StoresOK
  BY UnderWay DEF Late, Reconverting, StoresSound
<1>2. snapshots[s] # NoSnapshot /\ p.media \in {None, snapshots[s].declared}
      /\ (p.media # None => Kept(p.media))
  BY <1>1 DEF Sound, Placed, Bytes, Late, Reconverting
<1>3. new \in Versions BY <1>1 DEF Requests, Versions
<1>4. versions' = [versions EXCEPT ![s] = Append(versions[s], new)] BY DEF Appended, WithMedia
<1>5. versions[s] \in Seq(Versions) BY <1>1 DEF StoresOK
<1>a. PICK b : b = Append(versions[s], new) OBVIOUS
<1>6. /\ b \in Seq(Versions) /\ Len(versions[s]) \in Nat
      /\ DOMAIN b = 1..(Len(versions[s]) + 1) /\ DOMAIN versions[s] = 1..Len(versions[s])
      /\ \A n \in DOMAIN versions[s] : n \in DOMAIN b /\ b[n] = versions[s][n]
      /\ Len(versions[s]) + 1 \in DOMAIN b /\ b[Len(versions[s]) + 1] = new
  BY <1>3, <1>5, <1>a
<1>b. \A n \in DOMAIN b : n \in DOMAIN versions[s] \/ n = Len(versions[s]) + 1
  BY <1>6
<1>7. versions' \in [Snaps -> Seq(Versions)] /\ versions'[s] = b
      /\ \A t \in Snaps : t # s => versions'[t] = versions[t]
  BY <1>1, <1>4, <1>6, <1>a DEF StoresOK
<1>8. StoresOK' BY <1>1, <1>7 DEF StoresOK
<1>9. FilesOpen' BY <1>1 DEF StoresSound, FilesOpen
<1>c. \A n \in DOMAIN b : b[n].media \in {None, snapshots[s].declared} /\ (b[n].media # None => Kept(b[n].media))
  <2> TAKE n \in DOMAIN b
  <2>1. CASE n \in DOMAIN versions[s]
    <3>1. Stored(s) BY <1>1 DEF StoresSound
    <3>2. b[n] = versions[s][n] BY <1>6, <2>1
    <3>3. QED BY <2>1, <3>1, <3>2 DEF Stored
  <2>2. CASE n = Len(versions[s]) + 1
    <3>1. b[n].media = p.media BY <1>6, <2>2
    <3>2. QED BY <1>2, <3>1
  <2>3. QED BY <1>b, <2>1, <2>2
<1>10. ASSUME NEW t \in Snaps PROVE Stored(t)'
  <2>1. Stored(t) BY <1>1 DEF StoresSound
  <2>2. CASE t # s BY <1>7, <2>1, <2>2 DEF Stored, Kept
  <2>3. CASE t = s
    <3>1. versions'[t] = b /\ snapshots[t] # NoSnapshot BY <1>2, <1>7, <2>3
    <3>2. QED BY <1>c, <2>1, <2>3, <3>1 DEF Stored, Kept
  <2>4. QED BY <2>2, <2>3
<1>11. Grows(h)
  <2>1. ASSUME NEW t \in Snaps, NEW n \in DOMAIN versions[t]
        PROVE  n \in DOMAIN versions'[t] /\ versions'[t][n] = versions[t][n]
    <3>1. CASE t = s
      <4>1. versions'[t] = b BY <1>7, <3>1
      <4>2. n \in DOMAIN versions[s] BY <2>1, <3>1
      <4>3. n \in DOMAIN b /\ b[n] = versions[s][n] BY <1>6, <4>2
      <4>4. QED BY <3>1, <4>1, <4>3
    <3>2. CASE t # s BY <1>7, <2>1, <3>2
    <3>3. QED BY <3>1, <3>2
  <2>2. QED BY <2>1 DEF Grows, Kept
<1>12. Spares(h) BY DEF Spares
<1>13. QED BY <1>6, <1>7, <1>8, <1>9, <1>10, <1>11, <1>12 DEF StoresSound

LEMMA AppendKeeps == ASSUME IInv, NEW h \in Handlers, AppendVersion(h) PROVE IInv'
<1> DEFINE p == request[h]
<1>1. p \in Requests /\ Sound(h, p) /\ p.snap \in Snaps /\ StoresSound /\ p.at = "appending" /\ p.at \in Late
  BY UnderWay DEF AppendVersion, Now, Late, Reconverting
<1>2. StoresSound' /\ Grows(h) /\ Spares(h)
      /\ Len(versions[p.snap]) + 1 \in DOMAIN versions'[p.snap]
      /\ versions'[p.snap][Len(versions[p.snap]) + 1].route = p.route
  BY <1>1, VersionIsAppended DEF AppendVersion
<1>3. CASE p.route = "reprocess"
  BY <1>1, <1>2, <1>3, FailedKeeps DEF AppendVersion, End
<1>4. CASE p.route # "reprocess"
  <2>1. PICK v : v = Len(versions[p.snap]) + 1 OBVIOUS
  <2>2. v \in Nat BY <1>1, <2>1 DEF StoresSound, StoresOK
  <2>3. PICK q : q = Ended(p, "imported", 0, v) OBVIOUS
  <2>4. Follows(q, p, "imported", p.structured, None, None, p.spent + 0) /\ q.version = v
    BY <1>1, <2>2, <2>3, EndsSo DEF Ats, Over
  <2>5. Become(h, q) BY <1>4, <2>1, <2>3 DEF AppendVersion, EndWith, NextOrdinal
  <2>6. IsImport(p) /\ snapshots[p.snap].source = p.source /\ snapshots'[p.snap] = snapshots[p.snap]
    <3>1. IsImport(p) BY <1>1, <1>4 DEF Sound, Shape, IsImport, Requests, Routes, Late, Reconverting
    <3>2. QED BY <1>1, <3>1 DEF Sound, Placed, AppendVersion
  <2>7. Shape(q) /\ Spent(q)
    <3>1. Shape(q) BY <1>1, <2>4, <2>6
      DEF Follows, Sound, Shape, IsImport, Early, Late, WithPicture, Reconverting, Refusals
    <3>2. p.spent \in Nat /\ Spent(p) BY <1>1 DEF Requests, Sound
    <3>3. q.spent = p.spent BY <2>4, <3>2 DEF Follows
    <3>4. Spent(q) BY <2>4, <3>2, <3>3 DEF Follows, Spent, Early, WithPicture
    <3>5. QED BY <3>1, <3>4
  <2>8. Shape(q)' /\ Spent(q)' BY <2>7 DEF Shape, Spent, IsImport
  <2>9. Placed(q)' /\ Bytes(h, q)'
    BY <1>2, <2>1, <2>4, <2>6 DEF Follows, Placed, Bytes, Early, Late, WithPicture, Reconverting, Refusals
  <2>10. ApartFrom(h, q) BY <2>4, SameIsApart DEF Follows
  <2>11. q \in Requests BY <2>4 DEF Follows
  <2>12. QED BY <1>2, <2>5, <2>8, <2>9, <2>10, <2>11, MoveKeeps DEF Sound
<1>5. QED BY <1>3, <1>4

LEMMA AppendLostKeeps == ASSUME IInv, NEW h \in Handlers, AppendLost(h) PROVE IInv'
<1>1. request[h].at = "appending" BY DEF AppendLost, Now
<1>2. StoresSound' /\ Grows(h) /\ Spares(h) BY <1>1, VersionIsAppended DEF AppendLost
<1>3. QED BY <1>1, <1>2, FailedKeeps DEF AppendLost, End, Late, Reconverting

-------------------------------------------------------------------------------
(* What is stored stays in order while bytes that are kept stay kept. *)
LEMMA StoredStays ==
    ASSUME StoresSound, UNCHANGED stored, \A c \in Contents : Kept(c) => Kept(c)',
           NEW s \in Snaps
    PROVE  Stored(s)'
<1>1. Stored(s) /\ versions[s] \in Seq(Versions) BY DEF StoresSound, StoresOK
<1>2. snapshots' = snapshots /\ versions' = versions BY DEF stored
<1>3. snapshots[s].source \in Photos => Kept(snapshots[s].source)'
  <2>1. PICK c : c = snapshots[s].source OBVIOUS
  <2>2. c \in Photos => Kept(c)' BY <1>1, <2>1 DEF Stored, Contents
  <2>3. c \in Photos => file'[c].whole \/ c \in reput' BY <2>2 DEF Kept
  <2>4. QED BY <1>2, <2>1, <2>3 DEF Kept
<1>4. ASSUME NEW n \in DOMAIN versions[s], versions[s][n].media # None
      PROVE  Kept(versions[s][n].media)'
  <2>1. PICK m : m = versions[s][n].media OBVIOUS
  <2>2. versions[s][n] \in Versions BY <1>1
  <2>3. m \in Contents BY <1>4, <2>1, <2>2 DEF Versions, MaybePicture, Contents
  <2>4. Kept(m) BY <1>1, <1>4, <2>1 DEF Stored
  <2>5. Kept(m)' BY <2>3, <2>4
  <2>6. file'[m].whole \/ m \in reput' BY <2>5 DEF Kept
  <2>7. versions'[s][n].media = m BY <1>2, <2>1
  <2>8. QED BY <2>6, <2>7, <1>2 DEF Kept
<1>5. QED BY <1>1, <1>2, <1>3, <1>4 DEF Stored, Kept

(* One file changes hands or is whole again, and what others rely on of it *)
(* stays.                                                                  *)
LEMMA FileChanges ==
    ASSUME StoresSound, NEW h \in Handlers, NEW c \in Contents, NEW f \in Files,
           UNCHANGED stored, file' = [file EXCEPT ![c] = f],
           reput \subseteq reput', reput' \in SUBSET Contents,
           f.opener # Nobody => ~f.whole,
           Kept(c) => f.whole \/ c \in reput',
           \A g \in Handlers \ {h} : file[c].opener = g => f.opener = g \/ c \in reput'
    PROVE  StoresSound' /\ Grows(h) /\ Spares(h) /\ file'[c] = f
<1>1. file \in [Contents -> Files] BY DEF StoresSound, StoresOK
<1>2. file' \in [Contents -> Files] /\ file'[c] = f
      /\ \A d \in Contents : d # c => file'[d] = file[d]
  BY <1>1
<1>3. ASSUME NEW d \in Contents, Kept(d) PROVE Kept(d)'
  <2>1. CASE d = c BY <1>2, <1>3, <2>1 DEF Kept
  <2>2. CASE d # c BY <1>2, <1>3, <2>2 DEF Kept
  <2>3. QED BY <2>1, <2>2
<1>4. StoresOK' BY <1>2 DEF StoresSound, StoresOK, stored
<1>5. FilesOpen'
  <2> SUFFICES ASSUME NEW d \in Contents, file'[d].opener # Nobody PROVE ~file'[d].whole
    BY DEF FilesOpen
  <2>1. CASE d = c BY <1>2, <2>1
  <2>2. CASE d # c BY <1>2, <2>2 DEF StoresSound, FilesOpen
  <2>3. QED BY <2>1, <2>2
<1>6. \A s \in Snaps : Stored(s)' BY <1>3, StoredStays
<1>7. ASSUME NEW d \in Contents, NEW g \in Handlers \ {h}, file[d].opener = g
      PROVE  file'[d].opener = g \/ d \in reput'
  <2>1. CASE d = c BY <1>2, <1>7, <2>1
  <2>2. CASE d # c BY <1>2, <1>7, <2>2
  <2>3. QED BY <2>1, <2>2
<1>8. Grows(h) BY <1>3, <1>7 DEF Grows, stored
<1>9. Spares(h) BY DEF Spares, stored
<1>10. QED BY <1>2, <1>4, <1>5, <1>6, <1>8, <1>9 DEF StoresSound

(* What a put is of. *)
LEMMA PutOf ==
    ASSUME IInv, NEW h \in Handlers
    PROVE  /\ request[h].at \in {"keeping", "writing"} =>
                 Putting(h) = request[h].source /\ Putting(h) \in Photos /\ request[h].route = "photo"
           /\ request[h].at \in {"keeping picture", "writing picture"} =>
                 Putting(h) = request[h].declared /\ Putting(h) \in Pictures /\ request[h].route = "link"
<1>1. Sound(h, request[h]) BY UnderWay
<1>2. request[h].at \in {"keeping picture", "writing picture"} => request[h].declared # None
  BY <1>1, NoneAssumption DEF Sound, Shape, WithPicture
<1>3. QED BY <1>1, <1>2 DEF Putting, Sound, Shape, WithPicture

LEMMA BeginPutKeeps == ASSUME IInv, NEW h \in Handlers, BeginPut(h) PROVE IInv'
<1> DEFINE p == request[h]
           c == Putting(h)
<1>1. p \in Requests /\ Sound(h, p) /\ StoresSound /\ p.at \in {"keeping", "keeping picture"}
  BY UnderWay DEF BeginPut
<1>2. c \in Contents BY <1>1, PutOf DEF Contents
<1>3. PICK f : f = [opener |-> h, whole |-> FALSE] OBVIOUS
<1>4. f \in Files /\ f.opener = h /\ ~f.whole BY <1>3 DEF Files
<1>5. reput' = IF file[c] = Closed THEN reput ELSE reput \cup {c} BY DEF BeginPut
<1>6. file' = [file EXCEPT ![c] = f] /\ UNCHANGED stored BY <1>3 DEF BeginPut
<1>7. reput \subseteq reput' /\ reput' \in SUBSET Contents
  BY <1>1, <1>2, <1>5 DEF StoresSound, StoresOK
<1>8. Kept(c) => c \in reput' BY <1>5 DEF Kept, Closed
<1>9. \A g \in Handlers \ {h} : file[c].opener = g => c \in reput'
  BY <1>5, NobodyAssumption DEF Closed
<1> HIDE DEF c
<1>10. StoresSound' /\ Grows(h) /\ Spares(h) /\ file'[c] = f
  BY <1>1, <1>2, <1>4, <1>6, <1>7, <1>8, <1>9, FileChanges
<1>11. PICK at : at = (IF p.at = "keeping" THEN "writing" ELSE "writing picture") OBVIOUS
<1>12. PICK q : q = [p EXCEPT !.at = at] OBVIOUS
<1>13. Follows(q, p, at, p.structured, p.declared, p.media, p.spent)
  BY <1>1, <1>11, <1>12, GoesOn DEF Ats, Early, Late, WithPicture
<1>14. Become(h, q) BY <1>11, <1>12 DEF BeginPut, GoOn, Now
<1>15. Shape(q) /\ Spent(q) /\ Placed(q)
  BY <1>1, <1>11, <1>13 DEF Follows, Sound, Shape, Spent, Placed, IsImport,
     Early, Late, WithPicture, Reconverting, Refusals
<1>16. Shape(q)' /\ Spent(q)' /\ Placed(q)'
  BY <1>6, <1>15 DEF Shape, Spent, Placed, IsImport, stored
<1>17. Bytes(h, q)'
  <2>1. q.at = "writing" => q.source = c BY <1>1, <1>11, <1>13, PutOf DEF Follows, c
  <2>2. q.at = "writing picture" => q.declared = c BY <1>1, <1>11, <1>13, PutOf DEF Follows, c
  <2>3. q.at \in {"writing", "writing picture"} /\ q.media = None
    BY <1>1, <1>11, <1>13 DEF Follows, Sound, Shape, Early, WithPicture
  <2>4. file'[c].opener = h BY <1>4, <1>10
  <2>5. QED BY <2>1, <2>2, <2>3, <2>4 DEF Bytes
<1>18. ApartFrom(h, q) BY <1>13, SameIsApart DEF Follows
<1>19. q \in Requests BY <1>13 DEF Follows
<1>20. QED BY <1>10, <1>14, <1>16, <1>17, <1>18, <1>19, MoveKeeps DEF Sound

(* A put that ends: the file is whole if it did well, unless another put   *)
(* of the same bytes is under way.                                         *)
LEMMA PutEnds ==
    ASSUME IInv, NEW h \in Handlers, NEW c \in Contents, NEW done \in BOOLEAN,
           file' = Written(h, c, done), UNCHANGED <<stored, reput>>
    PROVE  /\ StoresSound' /\ Grows(h) /\ Spares(h)
           /\ done /\ (file[c].opener = h \/ c \in reput) => Kept(c)'
<1>1. StoresSound BY DEF IInv
<1>2. CASE file[c].opener = h
  <2>1. PICK f : f = [opener |-> Nobody, whole |-> done] OBVIOUS
  <2>2. f \in Files /\ f.opener = Nobody /\ f.whole = done BY <2>1 DEF Files
  <2>3. file' = [file EXCEPT ![c] = f] BY <1>2, <2>1 DEF Written
  <2>4. Kept(c) => c \in reput BY <1>1, <1>2, NobodyAssumption DEF StoresSound, FilesOpen, Kept
  <2>5. reput' = reput /\ reput' \in SUBSET Contents BY <1>1 DEF StoresSound, StoresOK
  <2>a. UNCHANGED stored /\ reput \subseteq reput' BY <2>5
  <2>b. f.opener # Nobody => ~f.whole BY <2>2
  <2>c. Kept(c) => f.whole \/ c \in reput' BY <2>4, <2>5
  <2>d. \A g \in Handlers \ {h} : file[c].opener = g => f.opener = g \/ c \in reput' BY <1>2
  <2>6. StoresSound' /\ Grows(h) /\ Spares(h) /\ file'[c] = f
    BY <1>1, <2>2, <2>3, <2>5, <2>a, <2>b, <2>c, <2>d, FileChanges
  <2>7. done => Kept(c)' BY <2>2, <2>6 DEF Kept
  <2>8. QED BY <2>6, <2>7
<1>3. CASE file[c].opener # h
  <2>1. file' = file BY <1>3 DEF Written
  <2>2. StoresSound' BY <1>1, <2>1 DEF StoresSound, StoresOK, FilesOpen, Stored, Kept, stored
  <2>3. Grows(h) BY <2>1 DEF Grows, Kept, stored
  <2>4. Spares(h) BY DEF Spares, stored
  <2>5. c \in reput => Kept(c)' BY DEF Kept
  <2>6. QED BY <1>3, <2>2, <2>3, <2>4, <2>5
<1>4. QED BY <1>2, <1>3

LEMMA EndPutKeeps == ASSUME IInv, NEW h \in Handlers, EndPut(h) PROVE IInv'
<1> DEFINE p == request[h]
<1>c. PICK c : c = Putting(h) OBVIOUS
<1>1. p \in Requests /\ Sound(h, p) /\ p.snap \in Snaps /\ p.at \in {"writing", "writing picture"}
  BY UnderWay DEF EndPut, Early, Late, WithPicture
<1>2. c \in Contents BY <1>1, <1>c, PutOf DEF Contents
<1>3. file' = Written(h, c, TRUE) /\ UNCHANGED <<stored, reput>> BY <1>c DEF EndPut
<1>4. file[c].opener = h \/ c \in reput BY <1>1, <1>c, PutOf DEF Sound, Bytes
<1>5. StoresSound' /\ Grows(h) /\ Spares(h) /\ Kept(c)' BY <1>2, <1>3, <1>4, PutEnds
<1>7. CASE p.at = "writing" /\ End(h, "unreadable")
  <2>1. PICK q : q = Ended(p, "unreadable", 0, 0) OBVIOUS
  <2>2. q \in Requests /\ Sound(h, q) /\ ApartFrom(h, q) /\ q.at = "unreadable"
    BY <1>7, <2>1, EndedIsSound DEF Refusals, Early
  <2>3. Become(h, q) BY <1>7, <2>1 DEF End, EndWith
  <2>4. Sound(h, q)'
    BY <1>3, <2>2 DEF Sound, Shape, Spent, Placed, Bytes, IsImport, Early, Late, WithPicture,
       Reconverting, Refusals, stored
  <2>5. QED BY <1>5, <2>2, <2>3, <2>4, MoveKeeps
<1>8. CASE p.at = "writing" /\ GoOn(h, "capturing")
  <2>1. PICK q : q = [p EXCEPT !.at = "capturing"] OBVIOUS
  <2>2. Follows(q, p, "capturing", p.structured, p.declared, p.media, p.spent)
    BY <1>1, <2>1, GoesOn DEF Ats, Early
  <2>3. Become(h, q) BY <1>8, <2>1 DEF GoOn
  <2>4. Shape(q) /\ Spent(q) /\ Placed(q)
    BY <1>1, <1>8, <2>2 DEF Follows, Sound, Shape, Spent, Placed, IsImport,
       Early, Late, WithPicture, Reconverting, Refusals
  <2>5. Shape(q)' /\ Spent(q)' /\ Placed(q)'
    BY <1>3, <2>4 DEF Shape, Spent, Placed, IsImport, stored
  <2>6. q.source = c /\ q.at = "capturing" BY <1>8, <1>c, <2>2, PutOf DEF Follows
  <2>7. Bytes(h, q)' BY <1>5, <2>6 DEF Bytes, Late, WithPicture, Reconverting
  <2>8. q \in Requests /\ ApartFrom(h, q) BY <2>2, SameIsApart DEF Follows
  <2>9. QED BY <1>5, <2>3, <2>5, <2>7, <2>8, MoveKeeps DEF Sound
<1>9. CASE p.at = "writing picture" /\ Become(h, [p EXCEPT !.at = "loading", !.media = c])
  <2>1. PICK q : q = [p EXCEPT !.at = "loading", !.media = c] OBVIOUS
  <2>2. c = p.declared /\ c \in Pictures /\ p.route = "link" BY <1>9, <1>c, PutOf
  <2>3. "loading" \in Ats /\ c \in MaybePicture BY <2>2 DEF Ats, Late, MaybePicture
  <2>4. Follows(q, p, "loading", p.structured, p.declared, c, p.spent)
    BY <1>1, <2>1, <2>3, GoesOnWithMedia, Zenon
  <2>5. Become(h, q) BY <1>9, <2>1, Zenon
  <2>6. Shape(q) /\ Spent(q)
    BY <1>1, <1>9, <2>4 DEF Follows, Sound, Shape, Spent, IsImport,
       Early, Late, WithPicture, Reconverting, Refusals
  <2>7. snapshots[p.snap] = [source |-> p.source, declared |-> p.declared]
    BY <1>1, <1>9, <2>2 DEF Sound, Placed, IsImport, Late, WithPicture
  <2>8. Placed(q)
    BY <2>2, <2>4, <2>7 DEF Follows, Placed, Early, Late, WithPicture, Reconverting, Refusals
  <2>9. Shape(q)' /\ Spent(q)' /\ Placed(q)'
    BY <1>3, <2>6, <2>8 DEF Shape, Spent, Placed, IsImport, stored
  <2>10. Bytes(h, q)' BY <1>5, <2>4 DEF Follows, Bytes
  <2>11. q \in Requests /\ ApartFrom(h, q) BY <2>4, SameIsApart DEF Follows
  <2>12. QED BY <1>5, <2>5, <2>9, <2>10, <2>11, MoveKeeps DEF Sound
<1>10. QED BY <1>7, <1>8, <1>9, <1>c, Zenon DEF EndPut, Now

LEMMA FailPutKeeps == ASSUME IInv, NEW h \in Handlers, FailPut(h) PROVE IInv'
<1> DEFINE p == request[h]
           c == Putting(h)
<1>1. p \in Requests /\ Sound(h, p) /\ p.snap \in Snaps /\ p.at \in {"writing", "writing picture"}
  BY UnderWay DEF FailPut, Early, Late, WithPicture
<1>2. c \in Contents BY <1>1, PutOf DEF Contents
<1>3. file' = Written(h, c, FALSE) /\ UNCHANGED <<stored, reput>> BY DEF FailPut
<1> HIDE DEF c
<1>4. StoresSound' /\ Grows(h) /\ Spares(h) BY <1>2, <1>3, PutEnds
<1>5. PICK at : at = (IF p.at = "writing" THEN "failed" ELSE "loading") OBVIOUS
<1>6. PICK q : q = [p EXCEPT !.at = at] OBVIOUS
<1>7. Follows(q, p, at, p.structured, p.declared, p.media, p.spent)
  BY <1>1, <1>5, <1>6, GoesOn DEF Ats, Late, Over
<1>8. Become(h, q) BY <1>5, <1>6 DEF FailPut, GoOn, AfterFailedPut, PutCosts
<1>9. Shape(q) /\ Spent(q) /\ Placed(q)
  BY <1>1, <1>5, <1>7 DEF Follows, Sound, Shape, Spent, Placed, IsImport,
     Early, Late, WithPicture, Reconverting, Refusals
<1>10. Shape(q)' /\ Spent(q)' /\ Placed(q)'
  BY <1>3, <1>9 DEF Shape, Spent, Placed, IsImport, stored
<1>11. q.media = None /\ q.at \in {"failed", "loading"}
  BY <1>1, <1>5, <1>7 DEF Follows, Sound, Shape, Early, WithPicture
<1>12. Bytes(h, q)' BY <1>11 DEF Bytes
<1>13. q \in Requests /\ ApartFrom(h, q) BY <1>7, SameIsApart DEF Follows
<1>14. QED BY <1>4, <1>8, <1>10, <1>12, <1>13, MoveKeeps DEF Sound

-------------------------------------------------------------------------------
(* The process may stop anywhere: an open file stays cut short, and what a *)
(* request relied on is nobody's concern.                                  *)
LEMMA IdleIsSound ==
    \A h \in Handlers : Idle \in Requests /\ Sound(h, Idle) /\ ~IsImport(Idle)
BY DEF Idle, Start, Requests, Over, Routes, Sources, MaybePicture, Sound, Shape, Spent, Placed,
   Bytes, IsImport, Early, Late, WithPicture, Reconverting, Refusals

LEMMA NoImports ==
    ASSUME request = [h \in Handlers |-> Idle], StoresSound
    PROVE  IInv
<1>1. request \in [Handlers -> Requests] BY IdleIsSound
<1>2. ASSUME NEW h \in Handlers PROVE Sound(h, request[h]) /\ ApartFrom(h, request[h])
  BY IdleIsSound DEF ApartFrom
<1>3. QED BY <1>1, <1>2 DEF IInv

LEMMA InitHolds == Init => IInv
<1> SUFFICES ASSUME Init PROVE IInv OBVIOUS
<1>1. StoresOK /\ FilesOpen
  BY NoSnapshotIsNobodys DEF Init, StoresOK, FilesOpen, Closed, Files, Versions
<1>2. \A s \in Snaps : Stored(s)
  BY NoSnapshotIsNobodys, NoneAssumption DEF Init, Stored
<1>3. QED BY <1>1, <1>2, NoImports DEF Init, StoresSound

LEMMA CrashKeeps == ASSUME IInv, Crash PROVE IInv'
<1>1. StoresSound /\ StoresOK BY DEF IInv, StoresSound
<1>2. ASSUME NEW c \in Contents
      PROVE  file'[c] \in Files /\ file'[c].opener = Nobody /\ file'[c].whole = file[c].whole
  BY <1>1 DEF Crash, StoresOK, Files
<1>3. file' \in [Contents -> Files] BY <1>1, <1>2 DEF Crash, StoresOK
<1>4. UNCHANGED stored /\ reput' = reput BY DEF Crash
<1>5. StoresOK' BY <1>1, <1>3, <1>4 DEF StoresOK, stored
<1>6. FilesOpen' BY <1>2 DEF FilesOpen
<1>7. \A c \in Contents : Kept(c) => Kept(c)' BY <1>2, <1>4 DEF Kept
<1>8. \A s \in Snaps : Stored(s)' BY <1>1, <1>4, <1>7, StoredStays
<1>9. StoresSound' BY <1>5, <1>6, <1>8 DEF StoresSound
<1>10. request' = [h \in Handlers |-> Idle] BY DEF Crash
<1>11. request' \in [Handlers -> Requests] BY <1>10, IdleIsSound
<1>12. ASSUME NEW h \in Handlers PROVE (Sound(h, request[h]) /\ ApartFrom(h, request[h]))'
  <2>1. request'[h] = Idle BY <1>10
  <2>2. Sound(h, Idle)'
    BY DEF Idle, Start, Sound, Shape, Spent, Placed, Bytes, IsImport, Early, Late, WithPicture,
       Reconverting, Refusals
  <2>3. Sound(h, request[h])' BY <2>1, <2>2
  <2>4. ~IsImport(request'[h]) BY <2>1, IdleIsSound
  <2>5. ApartFrom(h, request[h])' BY <2>4 DEF ApartFrom, IsImport
  <2>6. QED BY <2>3, <2>5
<1>13. QED BY <1>9, <1>11, <1>12 DEF IInv

LEMMA StutterKeeps == ASSUME IInv, UNCHANGED vars PROVE IInv'
<1>1. StoresSound' BY DEF vars, stored, IInv, StoresSound, StoresOK, FilesOpen, Stored, Kept
<1>2. request' = request BY DEF vars
<1>3. ASSUME NEW h \in Handlers PROVE (Sound(h, request[h]) /\ ApartFrom(h, request[h]))'
  <2>1. PICK q : q = request[h] OBVIOUS
  <2>2. Sound(h, q) BY <2>1 DEF IInv
  <2>3. Sound(h, q)' BY <2>2 DEF vars, stored, Sound, Shape, Spent, Placed, Bytes, Kept, IsImport
  <2>4. Sound(h, request[h])' BY <1>2, <2>1, <2>3
  <2>5. ApartFrom(h, request[h])' BY <1>2 DEF IInv, ApartFrom, IsImport
  <2>6. QED BY <2>4, <2>5
<1>4. QED BY <1>1, <1>2, <1>3 DEF IInv

LEMMA Invariant == Spec => []IInv
<1>1. Init => IInv BY InitHolds
<1>2. IInv /\ [Next]_vars => IInv'
  <2> SUFFICES ASSUME IInv, [Next]_vars PROVE IInv' OBVIOUS
  <2>1. CASE Crash BY <2>1, CrashKeeps
  <2>2. CASE UNCHANGED vars BY <2>2, StutterKeeps
  <2>3. ASSUME NEW h \in Handlers, AskPhoto(h) \/ AskLink(h) \/ AskReprocess(h) PROVE IInv'
    BY <2>3, AskKeeps
  <2>4. ASSUME NEW h \in Handlers, Step(h) PROVE IInv'
    BY <2>4, BeginPutKeeps, EndPutKeeps, FailPutKeeps, FetchKeeps, CaptureKeeps, StoreKeeps,
       FetchPictureKeeps, LoadKeeps, NormaliseKeeps, RecallKeeps, AppendKeeps DEF Step
  <2>5. ASSUME NEW h \in Handlers, StoreSnapshotLost(h) \/ AppendLost(h) \/ Fail(h) PROVE IInv'
    BY <2>5, StoreLostKeeps, AppendLostKeeps, FailKeeps
  <2>6. QED BY <2>1, <2>2, <2>3, <2>4, <2>5 DEF Next
<1>3. QED BY <1>1, <1>2, PTL DEF Spec

-------------------------------------------------------------------------------
(* A 201 names what was kept, whatever ran beside the import: snapshots    *)
(* and versions only grow, and nothing stores under another's id.          *)
THEOREM AcknowledgedHold == Spec => []AcknowledgedImportsHold
<1>1. IInv => AcknowledgedImportsHold
  BY DEF IInv, Sound, Placed, AcknowledgedImportsHold, Now
<1>2. QED BY <1>1, Invariant, PTL

(* What a refusal saw is not kept: no snapshot is stored under its id, and *)
(* so there is nothing a reprocess could append to.                        *)
THEOREM RefusedIsNotKept == Spec => []RefusalsPersistNothing
<1>1. IInv => RefusalsPersistNothing
  <2> SUFFICES ASSUME IInv, NEW h \in Handlers, request[h].at \in Refusals
               PROVE  snapshots[request[h].snap] = NoSnapshot /\ versions[request[h].snap] = <<>>
    BY DEF RefusalsPersistNothing
  <2>1. Sound(h, request[h]) BY DEF IInv
  <2>2. snapshots[request[h].snap] = NoSnapshot BY <2>1 DEF Sound, Placed
  <2>3. request[h].snap \in Snaps BY <2>1 DEF Sound, Shape, Refusals
  <2>4. QED BY <2>2, <2>3 DEF IInv, StoresSound, Stored
<1>2. QED BY <1>1, Invariant, PTL

(* A photograph a snapshot was read from and a picture a version shows are *)
(* in the byte store, through every crash and failed put, unless the same  *)
(* bytes were put again.                                                   *)
THEOREM ReferredIsKept == Spec => []WhatIsReferredToIsKept
<1>1. IInv => WhatIsReferredToIsKept
  <2> SUFFICES ASSUME IInv, NEW s \in Snaps
               PROVE  /\ snapshots[s].source \in Photos => Kept(snapshots[s].source)
                      /\ \A n \in DOMAIN versions[s] :
                            versions[s][n].media \in Pictures => Kept(versions[s][n].media)
    BY DEF WhatIsReferredToIsKept, Kept
  <2>1. Stored(s) BY DEF IInv, StoresSound
  <2>2. None \notin Pictures BY NoneAssumption
  <2>3. QED BY <2>1, <2>2 DEF Stored
<1>2. QED BY <1>1, Invariant, PTL

(* A version shows the picture its page declared, or none. *)
THEOREM MediaAreDeclared == Spec => []MediaIsDeclared
<1>1. IInv => MediaIsDeclared BY DEF IInv, StoresSound, Stored, MediaIsDeclared
<1>2. QED BY <1>1, Invariant, PTL

(* No request asks a model in more stages than its route may cost. *)
THEOREM StagesAreBilled == Spec => []BillingBounded
<1>1. IInv => BillingBounded
  <2> SUFFICES ASSUME IInv, NEW h \in Handlers
               PROVE  LET q == request[h] IN
                      /\ q.spent <= IF q.route = "reprocess" \/ q.structured THEN 1 ELSE 2
                      /\ q.at \in {"blocked", "unreadable"} => q.spent = 0
    BY DEF BillingBounded
  <2>1. Spent(request[h]) BY DEF IInv, Sound
  <2>2. QED BY <2>1 DEF Spent
<1>2. QED BY <1>1, Invariant, PTL

-------------------------------------------------------------------------------
(* What "re-converting a stored source keeps its picture" (reprocess.ts)   *)
(* comes to.  A picture is settled once it is the latest version's and no  *)
(* request is about to append another answer it recalled before.           *)
Settled(s, p) ==
    /\ LatestMedia(s) = p
    /\ \A h \in Handlers : Now(h, "appending") /\ request[h].snap = s => request[h].media = p
SettledStays == \A s \in Snaps : \A p \in Pictures : Settled(s, p) => Settled(s, p)'

(* A settled picture is the one its page declared. *)
LEMMA SettledIsDeclared ==
    ASSUME IInv, NEW s \in Snaps, NEW p \in Pictures, Settled(s, p)
    PROVE  /\ p = snapshots[s].declared /\ p # None
           /\ \A h \in Handlers : request[h].at \in Late /\ request[h].snap = s =>
                  request[h].media \in {None, p}
<1>1. p # None BY NoneAssumption
<1>2. versions[s] \in Seq(Versions) /\ versions[s] # <<>>
  BY <1>1 DEF Settled, LatestMedia, IInv, StoresSound, StoresOK
<1>3. Len(versions[s]) \in DOMAIN versions[s] /\ versions[s][Len(versions[s])].media = p
  BY <1>2 DEF Settled, LatestMedia, Last
<1>4. Stored(s) BY DEF IInv, StoresSound
<1>5. p = snapshots[s].declared BY <1>1, <1>3, <1>4 DEF Stored
<1>6. \A h \in Handlers : Placed(request[h]) BY DEF IInv, Sound
<1>7. QED BY <1>1, <1>5, <1>6 DEF Placed

(* A request that moved is at the place it was set to. *)
LEMMA MovedTo ==
    ASSUME IInv, NEW h \in Handlers, NEW q, Become(h, q)
    PROVE  \A g \in Handlers : request'[g] = IF g = h THEN q ELSE request[g]
BY DEF IInv, Become

(* A step that appends nothing, and after which the request that moved is  *)
(* not about to append anything but the settled picture.                   *)
LEMMA MovedOnSettles ==
    ASSUME IInv, versions' = versions, NEW h \in Handlers, NEW q, Become(h, q),
           NEW s \in Snaps, NEW p \in Pictures, Settled(s, p),
           q.at = "appending" /\ q.snap = s => q.media = p
    PROVE  Settled(s, p)'
<1>1. \A g \in Handlers : request'[g] = IF g = h THEN q ELSE request[g] BY MovedTo
<1>2. LatestMedia(s)' = p BY DEF Settled, LatestMedia
<1>3. QED BY <1>1, <1>2 DEF Settled, Now

(* A request that ended appends nothing. *)
LEMMA EndedIsOver ==
    ASSUME NEW q, NEW at, NEW stages, NEW v
    PROVE  Ended(q, at, stages, v).at = at
BY DEF Ended

(* An append carries what its request holds. *)
LEMMA AppendSettles ==
    ASSUME IInv, NEW h \in Handlers, Now(h, "appending"), versions' = Appended(h),
           NEW q, Become(h, q), q.at # "appending",
           NEW s \in Snaps, NEW p \in Pictures, Settled(s, p)
    PROVE  Settled(s, p)'
<1>1. \A g \in Handlers : request'[g] = IF g = h THEN q ELSE request[g] BY MovedTo
<1>2. versions \in [Snaps -> Seq(Versions)] /\ request[h] \in Requests
  BY DEF IInv, StoresSound, StoresOK
<1> DEFINE r == request[h]  v == [media |-> WithMedia(r), route |-> r.route]
<1>3. r.media \in MaybePicture /\ r.route \in Routes BY <1>2 DEF Requests
<1>4. v \in Versions /\ v.media = r.media BY <1>3 DEF WithMedia, Versions
<1>5. CASE r.snap # s
  <2>1. versions'[s] = versions[s] BY <1>2, <1>5 DEF Appended
  <2>2. LatestMedia(s)' = p BY <2>1 DEF Settled, LatestMedia
  <2>3. QED BY <1>1, <2>2 DEF Settled, Now
<1>6. CASE r.snap = s
  <2>1. versions'[s] = Append(versions[s], v) BY <1>2, <1>6 DEF Appended
  <2>2. r.media = p BY <1>6 DEF Settled, Now
  <2> HIDE DEF v
  <2>3. versions'[s] # <<>> /\ Last(versions'[s]) = v
    <3> DEFINE old == versions[s]
    <3>1. old \in Seq(Versions) BY <1>2
    <3> HIDE DEF old
    <3>2. Append(old, v) # <<>> /\ Append(old, v)[Len(Append(old, v))] = v BY <1>4, <3>1
    <3>3. QED BY <2>1, <3>2 DEF Last, old
  <2>4. LatestMedia(s)' = p BY <1>4, <2>2, <2>3 DEF LatestMedia
  <2>5. QED BY <1>1, <2>4 DEF Settled, Now
<1>7. QED BY <1>5, <1>6

(* The three kinds of steps: what a request asks, what it does, what stops it. *)
LEMMA MovesSettle ==
    ASSUME IInv, NEW h \in Handlers, NEW s \in Snaps, NEW p \in Pictures, Settled(s, p),
           AskPhoto(h) \/ AskLink(h) \/ AskReprocess(h) \/ Step(h)
             \/ StoreSnapshotLost(h) \/ AppendLost(h) \/ Fail(h)
    PROVE  Settled(s, p)'
<1> DEFINE r == request[h]
<1>1. r \in Requests BY DEF IInv
<1>2. ASSUME versions' = versions, NEW q, Become(h, q), q.at # "appending" PROVE Settled(s, p)'
  BY <1>2, MovedOnSettles
<1>3. ASSUME versions' = versions, NEW at, NEW stages, NEW v, EndWith(h, at, stages, v), at # "appending"
      PROVE  Settled(s, p)'
  <2>1. Become(h, Ended(r, at, stages, v)) BY <1>3 DEF EndWith
  <2>2. QED BY <1>2, <1>3, <2>1, EndedIsOver
<1>4. ASSUME versions' = versions, NEW at, GoOn(h, at), at # "appending" PROVE Settled(s, p)'
  <2> DEFINE q == [r EXCEPT !.at = at]
  <2>1. Become(h, q) BY <1>4 DEF GoOn
  <2>2. q.at = at BY <1>1 DEF Requests
  <2> HIDE DEF q
  <2>3. QED BY <1>2, <1>4, <2>1, <2>2
<1>5. ASSUME AskPhoto(h) \/ AskLink(h) \/ AskReprocess(h) PROVE Settled(s, p)'
  BY <1>2, <1>5 DEF AskPhoto, AskLink, AskReprocess, Refused, Start, stored
<1>6. ASSUME BeginPut(h) \/ FailPut(h) PROVE Settled(s, p)'
  BY <1>4, <1>6 DEF BeginPut, FailPut, AfterFailedPut, PutCosts, stored
<1>7. ASSUME EndPut(h) PROVE Settled(s, p)'
  <2> DEFINE q == [r EXCEPT !.at = "loading", !.media = Putting(h)]
  <2>1. q.at = "loading" BY <1>1 DEF Requests
  <2> HIDE DEF q
  <2>2. QED BY <1>2, <1>3, <1>4, <1>7, <2>1 DEF EndPut, End, stored, q
<1>8. ASSUME Fetch(h) PROVE Settled(s, p)'
  <2>1. ASSUME NEW c, Become(h, [r EXCEPT !.at = NextReader(TRUE), !.structured = TRUE, !.declared = c])
        PROVE  Settled(s, p)'
    <3> DEFINE q == [r EXCEPT !.at = NextReader(TRUE), !.structured = TRUE, !.declared = c]
    <3>1. q.at = "storing" BY <1>1 DEF Requests, NextReader, ReadOf
    <3>2. Become(h, q) BY <2>1
    <3> HIDE DEF q
    <3>3. QED BY <1>2, <1>8, <3>1, <3>2 DEF Fetch, stored
  <2>2. NextReader(FALSE) = "capturing" BY DEF NextReader, ReadOf
  <2>3. QED BY <1>3, <1>4, <1>8, <2>1, <2>2 DEF Fetch, End, stored
<1>9. ASSUME Capture(h) PROVE Settled(s, p)'
  <2> DEFINE q == [r EXCEPT !.at = "storing", !.declared = None, !.spent = @ + 1]
  <2>1. q.at = "storing" BY <1>1 DEF Requests
  <2>2. Become(h, q) BY <1>9 DEF Capture
  <2> HIDE DEF q
  <2>3. QED BY <1>2, <1>9, <2>1, <2>2 DEF Capture, stored
<1>10. ASSUME CaptureRefused(h) \/ Load(h) \/ Fail(h) PROVE Settled(s, p)'
  BY <1>3, <1>4, <1>10 DEF CaptureRefused, Load, Fail, End, stored
<1>11. ASSUME StoreSnapshot(h) \/ StoreSnapshotLost(h) \/ FetchPicture(h) PROVE Settled(s, p)'
  BY <1>3, <1>4, <1>11 DEF StoreSnapshot, StoreSnapshotLost, FetchPicture, End, stored
<1>12. ASSUME Normalise(h) PROVE Settled(s, p)'
  <2>1. ASSUME NEW c, Become(h, [r EXCEPT !.at = IF r.media = None THEN "recalling" ELSE "appending",
                                          !.claim = c, !.spent = r.spent + 1])
        PROVE  Settled(s, p)'
    <3> DEFINE q == [r EXCEPT !.at = IF r.media = None THEN "recalling" ELSE "appending",
                              !.claim = c, !.spent = r.spent + 1]
    <3>1. /\ q.at = (IF r.media = None THEN "recalling" ELSE "appending")
          /\ q.snap = r.snap /\ q.media = r.media
      BY <1>1 DEF Requests
    <3>2. Become(h, q) BY <2>1
    <3> HIDE DEF q
    <3>3. r.snap = s => r.media \in {None, p}
      BY <1>12, SettledIsDeclared DEF Normalise, Now, Late, Reconverting
    <3>4. QED BY <1>12, <3>1, <3>2, <3>3, MovedOnSettles DEF Normalise, stored
  <2>2. Unsupported = "failed" BY DEF Unsupported, AsFailure
  <2>3. QED BY <1>3, <1>12, <2>1, <2>2 DEF Normalise, stored
<1>13. ASSUME Recall(h) PROVE Settled(s, p)'
  <2> DEFINE q == [r EXCEPT !.at = "appending", !.media = LatestMedia(r.snap)]
  <2>1. q.snap = r.snap /\ q.media = LatestMedia(r.snap) BY <1>1 DEF Requests
  <2>2. Become(h, q) BY <1>13 DEF Recall
  <2> HIDE DEF q
  <2>3. q.snap = s => q.media = p BY <2>1 DEF Settled
  <2>4. QED BY <1>13, <2>2, <2>3, MovedOnSettles DEF Recall, stored
<1>14. ASSUME NEW at, NEW v, EndWith(h, at, 0, v), at # "appending", AppendVersion(h) \/ AppendLost(h)
       PROVE  Settled(s, p)'
  <2>1. Become(h, Ended(r, at, 0, v)) BY <1>14 DEF EndWith
  <2>2. Now(h, "appending") /\ versions' = Appended(h) BY <1>14 DEF AppendVersion, AppendLost
  <2>3. QED BY <1>14, <2>1, <2>2, EndedIsOver, AppendSettles
<1>15. ASSUME AppendVersion(h) \/ AppendLost(h) PROVE Settled(s, p)'
  BY <1>14, <1>15 DEF AppendVersion, AppendLost, End
<1>16. QED
  BY <1>5, <1>6, <1>7, <1>8, <1>9, <1>10, <1>11, <1>12, <1>13, <1>15 DEF Step

(* A settled picture stays the latest version's, through every reprocess,  *)
(* import, failure and crash: what loses one is a request that recalled    *)
(* before there was a picture and appends after (reprocess.ts:27-29).      *)
THEOREM SettledPicturesStay == Spec => [][SettledStays]_vars
<1>1. IInv /\ [Next]_vars => [SettledStays]_vars
  <2> SUFFICES ASSUME IInv, Next, NEW s \in Snaps, NEW p \in Pictures, Settled(s, p)
               PROVE  Settled(s, p)'
    BY DEF SettledStays
  <2>1. CASE Crash
    <3>1. \A h \in Handlers : request'[h] = Idle BY <2>1 DEF Crash
    <3>2. Idle.at = "idle" BY DEF Idle, Start
    <3>3. LatestMedia(s)' = p BY <2>1 DEF Crash, Settled, LatestMedia, stored
    <3>4. QED BY <3>1, <3>2, <3>3 DEF Settled, Now
  <2>2. QED BY <2>1, MovesSettle DEF Next
<1>2. QED BY <1>1, Invariant, PTL DEF Spec

===============================================================================
