---------------------------- MODULE SafeFetchProofs ----------------------------
(***************************************************************************)
(* Theorems about SafeFetch, for every set of URLs, addresses and fetches, *)
(* every bound and every resolver.  Each step writes the record of one     *)
(* fetch, so that one lemma (UpdateKeeps) leaves each action with the      *)
(* record it writes; Connect alone adds a connection.                      *)
(***************************************************************************)
EXTENDS SafeFetch, TLAPS

-------------------------------------------------------------------------------
(* Verdicts. *)
LEMMA ClassifyGivesAReason == ASSUME NEW a PROVE Classify(a) \in ReasonCode
  BY DEF Classify, CodeOf, ReasonCode

LEMMA InspectGivesAReason == ASSUME NEW u PROVE Inspect(u) \in ReasonCode
  BY ClassifyGivesAReason DEF Inspect, ReasonCode

LEMMA InspectedIsAUrl ==
    ASSUME NEW u \in Urls \cup {NotAUrl}, Inspect(u) = "OK"
    PROVE  u \in Urls /\ HostOf[u] \in Hosts
  BY DEF Inspect, Hosts

(* An answer that passes is not empty, and all of it is allowed.           *)
LEMMA JudgeTells ==
    ASSUME NEW answer \in Seq(Addresses)
    PROVE  /\ Judge(answer) \in ReasonCode
           /\ Judge(answer) = "OK" => /\ answer # <<>>
                                      /\ \A i \in DOMAIN answer : Allowed(answer[i])
<1>1. CASE answer = <<>>
  BY <1>1 DEF Judge, ReasonCode
<1>2. CASE answer # <<>> /\ \A i \in DOMAIN answer : Allowed(answer[i])
  BY <1>2 DEF Judge, ReasonCode
<1>3. CASE answer # <<>> /\ ~\A i \in DOMAIN answer : Allowed(answer[i])
  <2> DEFINE refused == CHOOSE i \in DOMAIN answer : ~Allowed(answer[i])
  <2>1. ~Allowed(answer[refused])
    BY <1>3
  <2>2. Judge(answer) = Classify(answer[refused])
    BY <1>3 DEF Judge
  <2> QED
    BY <2>1, <2>2, ClassifyGivesAReason DEF Allowed
<1> QED
  BY <1>1, <1>2, <1>3

LEMMA AnswersAreSequences ==
    ASSUME NEW h, NEW answer \in Resolved(h)
    PROVE  answer \in Seq(Addresses)
<1>1. CASE h \in Addresses
  <2>1. answer = <<h>>
    BY <1>1 DEF Resolved
  <2> QED
    BY <1>1, <2>1
<1>2. CASE h \notin Addresses
  BY <1>2, AnswersAssumption DEF Resolved
<1> QED
  BY <1>1, <1>2

(* What a connection is pinned to was judged, and is the host itself where *)
(* the host is an address.                                                 *)
LEMMA PinnedIsJudged ==
    ASSUME NEW h \in Hosts, NEW answer \in Resolved(h), Judge(answer) = "OK",
           NEW a \in Pinned(h, answer)
    PROVE  a \in Addresses /\ Allowed(a) /\ (h \in Addresses => a = h)
<1>1. answer \in Seq(Addresses)
  BY AnswersAreSequences
<1>2. answer # <<>> /\ \A i \in DOMAIN answer : Allowed(answer[i])
  BY <1>1, JudgeTells
<1>3. 1 \in DOMAIN answer /\ answer[1] \in Addresses
  BY <1>1, <1>2
<1>4. a = answer[1]
  BY DEF Pinned
<1>5. h \in Addresses => answer = <<h>>
  BY DEF Resolved
<1> QED
  BY <1>2, <1>3, <1>4, <1>5

-------------------------------------------------------------------------------
Judged(k) == Allowed(k.address) /\ (k.host \in Addresses => k.host = k.address)

(* A sound record has an allowed address or none. *)
LEMMA SoundVia ==
    ASSUME NEW f \in FetchRecords, Sound(f), f.via # Nowhere
    PROVE  Allowed(f.via)
  BY DEF FetchRecords, Stages, Sound, NotCalled, InHop, InRequest, InBody, Ended

(* A step that writes one sound record keeps the invariant. *)
LEMMA UpdateKeeps ==
    ASSUME IInv, NEW c \in Fetches, NEW f \in FetchRecords, Sound(f), Update(c, f),
           dialing' \in [Fetches -> Hosts \cup {Nowhere}],
           open' \subseteq [host : Hosts, address : Addresses],
           \A k \in open' : Judged(k)
    PROVE  IInv'
<1>1. fetch' \in [Fetches -> FetchRecords]
  BY DEF IInv, TypeOK, Update
<1>2. \A d \in Fetches : fetch'[d] = IF d = c THEN f ELSE fetch[d]
  BY DEF IInv, TypeOK, Update
<1>3. \A d \in Fetches : Sound(fetch'[d])
  BY <1>2 DEF IInv
<1>4. \A d \in Fetches : fetch'[d].via # Nowhere => Allowed(fetch'[d].via)
  BY <1>1, <1>3, SoundVia
<1> QED
  BY <1>1, <1>3, <1>4 DEF IInv, TypeOK, OnlyJudgedAddresses, Judged

(* The same where connections and connectors are left alone.               *)
LEMMA UpdateAlone ==
    ASSUME IInv, NEW c \in Fetches, NEW f \in FetchRecords, Sound(f), Update(c, f),
           UNCHANGED <<dialing, open>>
    PROVE  IInv'
<1>1. /\ dialing' \in [Fetches -> Hosts \cup {Nowhere}]
      /\ open' \subseteq [host : Hosts, address : Addresses]
      /\ \A k \in open' : Judged(k)
  BY DEF IInv, TypeOK, OnlyJudgedAddresses, Judged
<1> QED
  BY <1>1, UpdateKeeps

(* The record of a fetch before its call, and of one that was refused.     *)
LEMMA NotCalledIsARecord ==
    /\ NotCalled \in FetchRecords /\ NotCalled.via = Nowhere
    /\ NotCalled.hop = 0 /\ NotCalled.sent = 0 /\ NotCalled.got = 0 /\ NotCalled.code = "NONE"
  BY BoundsAssumption DEF NotCalled, FetchRecords, Stages, ReasonCode

Refusal(code) == [NotCalled EXCEPT !.stage = "done", !.code = code]
LEMMA RefusalIsSound ==
    ASSUME NEW code \in ReasonCode, code # "OK"
    PROVE  Refusal(code) \in FetchRecords /\ Sound(Refusal(code))
<1>1. /\ NotCalled \in FetchRecords
      /\ NotCalled.via = Nowhere /\ NotCalled.sent = 0
  BY NotCalledIsARecord
<1>2. Refusal(code) \in FetchRecords
  BY <1>1 DEF Refusal, FetchRecords, Stages
<1>3. /\ Refusal(code).stage = "done" /\ Refusal(code).code = code
      /\ Refusal(code).via = Nowhere /\ Refusal(code).sent = 0
  BY <1>1 DEF Refusal, FetchRecords
<1>4. Sound(Refusal(code))
  BY <1>3, BoundsAssumption DEF Sound, Ended
<1> QED
  BY <1>2, <1>4

LEMMA ThrowAlone ==
    ASSUME IInv, NEW c \in Fetches, NEW code \in ReasonCode, code # "OK", Throw(c, code),
           UNCHANGED <<dialing, open>>
    PROVE  IInv'
<1>1. Update(c, Refusal(code))
  BY DEF Throw, Refusal
<1> QED
  BY <1>1, RefusalIsSound, UpdateAlone

(* What the invariant says of one fetch. *)
LEMMA OneFetch ==
    ASSUME IInv, NEW c \in Fetches
    PROVE  fetch[c] \in FetchRecords /\ Sound(fetch[c])
  BY DEF IInv, TypeOK

-------------------------------------------------------------------------------
LEMMA CallStep ==
    ASSUME IInv, NEW c \in Fetches, NEW u \in Urls \cup {NotAUrl}, Call(c, u)
    PROVE  IInv'
<1>1. CASE Inspect(u) # "OK"
  BY <1>1, ThrowAlone, InspectGivesAReason DEF Call
<1>2. CASE Inspect(u) = "OK"
  <2> DEFINE f == [NotCalled EXCEPT !.stage = "hop", !.input = u, !.url = u]
  <2>1. Update(c, f) /\ UNCHANGED <<dialing, open>>
    BY <1>2 DEF Call
  <2>2. f \in FetchRecords
    BY NotCalledIsARecord DEF FetchRecords, Stages
  <2>3. Sound(f)
    BY NotCalledIsARecord DEF FetchRecords, Sound, InHop
  <2> QED
    BY <2>1, <2>2, <2>3, UpdateAlone
<1> QED
  BY <1>1, <1>2

LEMMA NextHopStep ==
    ASSUME IInv, NEW c \in Fetches, NextHop(c)
    PROVE  IInv'
<1>1. CASE TooManyHops(fetch[c].hop)
  BY <1>1, ThrowAlone DEF NextHop, ReasonCode
<1>2. CASE HopCheck(fetch[c].url) # "OK" /\ ~TooManyHops(fetch[c].hop)
  BY <1>2, ThrowAlone, InspectGivesAReason DEF NextHop, HopCheck
<1>3. CASE /\ HopCheck(fetch[c].url) = "OK" /\ ~TooManyHops(fetch[c].hop)
           /\ Throw(c, "TIME_LIMIT")
  BY <1>3, ThrowAlone DEF NextHop, ReasonCode
<1>4. CASE /\ HopCheck(fetch[c].url) = "OK" /\ ~TooManyHops(fetch[c].hop)
           /\ Update(c, [fetch[c] EXCEPT !.stage = "waiting"])
  <2> DEFINE f == [fetch[c] EXCEPT !.stage = "waiting"]
  <2>1. f \in FetchRecords /\ Sound(f)
    BY <1>4, OneFetch, BoundsAssumption
       DEF NextHop, FetchRecords, Stages, Sound, InHop, InRequest, HopCheck, TooManyHops
  <2> QED
    BY <1>4, <2>1, UpdateAlone DEF NextHop
<1> QED
  BY <1>1, <1>2, <1>3, <1>4 DEF NextHop

LEMMA DialStep ==
    ASSUME IInv, NEW c \in Fetches, Dial(c)
    PROVE  IInv'
<1>1. HostWanted(c) \in Hosts
  BY OneFetch, InspectedIsAUrl
     DEF Dial, Unsent, HostWanted, FetchRecords, Sound, InRequest
<1> QED
  BY <1>1 DEF Dial, IInv, TypeOK, OnlyJudgedAddresses

LEMMA ConnectStep ==
    ASSUME IInv, NEW c \in Fetches, Connect(c)
    PROVE  IInv'
<1> DEFINE h == dialing[c]
<1>1. h \in Hosts
  BY DEF Connect, IInv, TypeOK
<1>2. dialing' \in [Fetches -> Hosts \cup {Nowhere}]
  BY DEF Connect, IInv, TypeOK
<1>3. \A k \in open : Judged(k)
  BY DEF IInv, OnlyJudgedAddresses, Judged
<1>4. ASSUME NEW code \in ReasonCode, code # "OK", Disappoint(c, code), open' = open
      PROVE  IInv'
  <2>1. CASE fetch' = fetch
    BY <1>2, <1>4, <2>1 DEF IInv, TypeOK, OnlyJudgedAddresses
  <2>2. CASE Throw(c, code)
    <3>1. Update(c, Refusal(code))
      BY <2>2 DEF Throw, Refusal
    <3> QED
      BY <1>2, <1>3, <1>4, <3>1, RefusalIsSound, UpdateKeeps DEF IInv, TypeOK
  <2> QED
    BY <1>4, <2>1, <2>2 DEF Disappoint
<1>5. ASSUME NEW answer \in Resolved(h), Judge(answer) # "OK"
      PROVE  Judge(answer) \in ReasonCode
  <2>1. answer \in Seq(Addresses)
    BY <1>1, AnswersAreSequences
  <2> QED
    BY <2>1, JudgeTells
<1>6. ASSUME NEW answer \in Resolved(h), Judge(answer) = "OK", NEW a \in Pinned(h, answer),
             open' = open \cup {[host |-> h, address |-> a]}, fetch' = fetch
      PROVE  IInv'
  <2>1. a \in Addresses /\ Judged([host |-> h, address |-> a])
    BY <1>1, <1>6, PinnedIsJudged DEF Judged
  <2>2. open' \subseteq [host : Hosts, address : Addresses] /\ \A k \in open' : Judged(k)
    BY <1>1, <1>3, <1>6, <2>1 DEF IInv, TypeOK
  <2> QED
    BY <1>2, <1>6, <2>2 DEF IInv, TypeOK, OnlyJudgedAddresses, Judged
<1>7. \/ \E answer \in Resolved(h) :
             \/ Judge(answer) # "OK" /\ Disappoint(c, Judge(answer)) /\ open' = open
             \/ /\ Judge(answer) = "OK"
                /\ \E a \in Pinned(h, answer) : open' = open \cup {[host |-> h, address |-> a]}
                /\ fetch' = fetch
      \/ Disappoint(c, "TRANSPORT") /\ open' = open
  BY DEF Connect
<1> QED
  BY <1>4, <1>5, <1>6, <1>7 DEF ReasonCode

LEMMA SendStep ==
    ASSUME IInv, NEW c \in Fetches, Send(c)
    PROVE  IInv'
<1>1. PICK k \in open :
          /\ k.host = HostWanted(c)
          /\ Update(c, [fetch[c] EXCEPT !.via = k.address, !.asked = fetch[c].url, !.sent = @ + 1])
  BY DEF Send
<1> DEFINE f == [fetch[c] EXCEPT !.via = k.address, !.asked = fetch[c].url, !.sent = @ + 1]
<1>2. k.address \in Addresses /\ Allowed(k.address) /\ k.address # Nowhere
  BY NowhereAssumption DEF IInv, TypeOK, OnlyJudgedAddresses
<1>3. fetch[c] \in FetchRecords /\ Sound(fetch[c]) /\ Unsent(c)
  BY OneFetch DEF Send
<1>4. fetch[c].sent + 1 \in Nat /\ fetch[c].url \in Urls \cup {NotAUrl}
  BY <1>3 DEF FetchRecords
<1>5. f \in FetchRecords
  BY <1>2, <1>3, <1>4 DEF FetchRecords
<1>6. Sound(f)
  BY <1>2, <1>3 DEF Unsent, Sound, InRequest, FetchRecords
<1> QED
  BY <1>1, <1>5, <1>6, UpdateAlone DEF Send

LEMMA RedirectStep ==
    ASSUME IInv, NEW c \in Fetches, NEW location \in Urls \cup {NoLocation, NotAUrl},
           Redirect(c, location)
    PROVE  IInv'
<1>1. CASE location \in {NoLocation, NotAUrl}
  BY <1>1, ThrowAlone DEF Redirect, ReasonCode
<1>2. CASE location \notin {NoLocation, NotAUrl}
  <2> DEFINE f == [fetch[c] EXCEPT !.stage = "hop", !.url = location, !.hop = @ + 1,
                                   !.via = Nowhere]
  <2>1. fetch[c] \in FetchRecords /\ Sound(fetch[c]) /\ Sent(c)
    BY OneFetch DEF Redirect
  <2>2. fetch[c].hop \in Nat /\ fetch[c].hop <= MaxRedirects
    BY <2>1, BoundsAssumption DEF Sent, Sound, InRequest, FetchRecords
  <2>3. fetch[c].hop + 1 \in 0..(MaxRedirects + 1)
    BY <2>2, BoundsAssumption
  <2>4. f \in FetchRecords
    BY <1>2, <2>1, <2>3 DEF FetchRecords, Stages
  <2>5. Sound(f)
    BY <2>1 DEF Sent, Sound, InRequest, InHop, FetchRecords
  <2> QED
    BY <1>2, <2>4, <2>5, UpdateAlone DEF Redirect
<1> QED
  BY <1>1, <1>2

LEMMA HeadersStep ==
    ASSUME IInv, NEW c \in Fetches, NEW typeAllowed \in BOOLEAN, NEW size \in 0..MaxBody,
           Headers(c, typeAllowed, size)
    PROVE  IInv'
<1>1. CASE ~typeAllowed
  BY <1>1, ThrowAlone DEF Headers, ReasonCode
<1>2. CASE typeAllowed
  <2> DEFINE f == [fetch[c] EXCEPT !.stage = "reading", !.size = size]
  <2>1. fetch[c] \in FetchRecords /\ Sound(fetch[c]) /\ Sent(c)
    BY OneFetch DEF Headers
  <2>2. f \in FetchRecords
    BY <2>1 DEF FetchRecords, Stages
  <2>3. Sound(f)
    BY <2>1, BoundsAssumption DEF Sent, Sound, InRequest, InBody, FetchRecords
  <2> QED
    BY <1>2, <2>2, <2>3, UpdateAlone DEF Headers
<1> QED
  BY <1>1, <1>2

LEMMA ReadStep ==
    ASSUME IInv, NEW c \in Fetches, Read(c)
    PROVE  IInv'
<1>1. CASE fetch[c].got + 1 > MaxBytes
  BY <1>1, ThrowAlone DEF Read, ReasonCode
<1>2. CASE ~(fetch[c].got + 1 > MaxBytes)
  <2> DEFINE f == [fetch[c] EXCEPT !.got = @ + 1]
  <2>1. /\ fetch[c] \in FetchRecords /\ Sound(fetch[c])
        /\ fetch[c].stage = "reading" /\ fetch[c].got < fetch[c].size
    BY OneFetch DEF Read
  <2>2. f \in FetchRecords
    BY <1>2, <2>1, BoundsAssumption DEF FetchRecords
  <2>3. Sound(f)
    BY <2>1, BoundsAssumption DEF Sound, InRequest, InBody, FetchRecords
  <2> QED
    BY <1>2, <2>2, <2>3, UpdateAlone DEF Read
<1> QED
  BY <1>1, <1>2

LEMMA FinishStep ==
    ASSUME IInv, NEW c \in Fetches, Finish(c)
    PROVE  IInv'
<1> DEFINE f == [fetch[c] EXCEPT !.stage = "done", !.code = "OK", !.final = fetch[c].url,
                                 !.via = Nowhere]
<1>1. /\ fetch[c] \in FetchRecords /\ Sound(fetch[c])
      /\ fetch[c].stage = "reading" /\ fetch[c].got = fetch[c].size
  BY OneFetch DEF Finish
<1>2. f \in FetchRecords
  BY <1>1 DEF FetchRecords, Stages, ReasonCode
<1>3. Sound(f)
  BY <1>1, BoundsAssumption DEF Sound, InRequest, InBody, Ended, FetchRecords
<1>4. Update(c, f) /\ UNCHANGED <<dialing, open>>
  BY DEF Finish, Return, FinalUrl
<1> QED
  BY <1>2, <1>3, <1>4, UpdateAlone

LEMMA ResetStep ==
    ASSUME IInv, NEW c \in Fetches, Reset(c)
    PROVE  IInv'
<1>1. Update(c, Refusal("TRANSPORT"))
  BY DEF Reset, Throw, Refusal
<1>2. /\ dialing' \in [Fetches -> Hosts \cup {Nowhere}]
      /\ open' \subseteq [host : Hosts, address : Addresses]
      /\ \A k \in open' : Judged(k)
  BY DEF Reset, IInv, TypeOK, OnlyJudgedAddresses, Judged
<1> QED
  BY <1>1, <1>2, RefusalIsSound, UpdateKeeps DEF ReasonCode

LEMMA DeadlineStep ==
    ASSUME IInv, NEW c \in Fetches, Deadline(c)
    PROVE  IInv'
<1>1. CASE Throw(c, "TIME_LIMIT")
  BY <1>1, ThrowAlone DEF Deadline, ReasonCode
<1>2. CASE fetch[c].stage = "hop" /\ Update(c, [fetch[c] EXCEPT !.late = TRUE])
  <2> DEFINE f == [fetch[c] EXCEPT !.late = TRUE]
  <2>1. f \in FetchRecords /\ Sound(f)
    BY <1>2, OneFetch DEF FetchRecords, Sound, InHop
  <2> QED
    BY <1>2, <2>1, UpdateAlone DEF Deadline
<1> QED
  BY <1>1, <1>2 DEF Deadline

LEMMA DropStep ==
    ASSUME IInv, NEW k \in open, Drop(k)
    PROVE  IInv'
  BY DEF Drop, IInv, TypeOK, OnlyJudgedAddresses

-------------------------------------------------------------------------------
LEMMA InitIInv == Init => IInv
  BY BoundsAssumption
     DEF Init, IInv, TypeOK, FetchRecords, NotCalled, Stages, OnlyJudgedAddresses, Sound

LEMMA NextIInv == IInv /\ [Next]_vars => IInv'
<1> SUFFICES ASSUME IInv, [Next]_vars PROVE IInv'
  OBVIOUS
<1>1. CASE UNCHANGED vars
  BY <1>1 DEF vars, IInv, TypeOK, OnlyJudgedAddresses
<1>2. CASE Next
  BY <1>2, CallStep, NextHopStep, DialStep, ConnectStep, SendStep, RedirectStep, HeadersStep,
     ReadStep, FinishStep, ResetStep, DeadlineStep, DropStep DEF Next
<1> QED
  BY <1>1, <1>2

(* What is so at each stage of a fetch is so in every reachable state. *)
THEOREM FetchInvariant == Spec => []IInv
  BY InitIInv, NextIInv, PTL DEF Spec

(* ADR-0010: no connection and no request ever reaches an address the      *)
(* policy refuses, whatever resolvers answer and however often.            *)
THEOREM NoAddressUnjudged == Spec => []OnlyJudgedAddresses
<1>1. IInv => OnlyJudgedAddresses
  BY DEF IInv
<1> QED
  BY <1>1, FetchInvariant, PTL

(* Every hop's URL was inspected and their number is bounded.              *)
THEOREM HopsAreInspectedAndBounded == Spec => []HopsInspectedAndBounded
<1>1. ASSUME NEW f \in FetchRecords, Sound(f)
      PROVE  /\ f.via # Nowhere => Inspect(f.url) = "OK"
             /\ f.sent <= MaxRedirects + 1
  BY <1>1, BoundsAssumption
     DEF FetchRecords, Stages, Sound, NotCalled, InHop, InRequest, InBody, Ended
<1>2. IInv => HopsInspectedAndBounded
  BY <1>1, OneFetch DEF HopsInspectedAndBounded
<1> QED
  BY <1>2, FetchInvariant, PTL

(* An answer is the whole of a body within the bound, and names the URL    *)
(* that body came from.                                                    *)
THEOREM AnswersAreWhatTheySay == Spec => []AnswersAreRight
<1>1. ASSUME NEW f \in FetchRecords, Sound(f), f.code = "OK"
      PROVE  f.stage = "done" /\ Ended(f)
  BY <1>1 DEF Sound
<1>2. IInv => AnswersAreRight
  BY <1>1, OneFetch DEF AnswersAreRight, Ended
<1> QED
  BY <1>2, FetchInvariant, PTL

-------------------------------------------------------------------------------
(* The deadline.  A fetch is late only between two hops: whatever else it  *)
(* waits for is rejected as the timer fires.                               *)
OnTime(f) == f.late => f.stage = "hop"
LateBetweenHops == \A c \in Fetches : OnTime(fetch[c])
SendsNothingLate == \A c \in Fetches : fetch[c].late => fetch'[c].sent <= fetch[c].sent

LEMMA WriteOnTime ==
    ASSUME IInv, LateBetweenHops, NEW c \in Fetches, NEW f, Update(c, f), OnTime(f),
           fetch[c].late => f.sent <= fetch[c].sent
    PROVE  LateBetweenHops' /\ SendsNothingLate
<1>1. \A d \in Fetches : fetch'[d] = IF d = c THEN f ELSE fetch[d]
  BY DEF IInv, TypeOK, Update
<1>2. \A d \in Fetches : fetch[d].sent \in Nat
  BY DEF IInv, TypeOK, FetchRecords
<1> QED
  BY <1>1, <1>2 DEF LateBetweenHops, SendsNothingLate

LEMMA SameOnTime ==
    ASSUME IInv, LateBetweenHops, UNCHANGED fetch
    PROVE  LateBetweenHops' /\ SendsNothingLate
<1>1. \A d \in Fetches : fetch[d].sent \in Nat
  BY DEF IInv, TypeOK, FetchRecords
<1> QED
  BY <1>1 DEF LateBetweenHops, SendsNothingLate

LEMMA ThrowOnTime ==
    ASSUME IInv, LateBetweenHops, NEW c \in Fetches, NEW code, Throw(c, code)
    PROVE  LateBetweenHops' /\ SendsNothingLate
<1>1. PICK f : f = [NotCalled EXCEPT !.stage = "done", !.code = code]
  OBVIOUS
<1>2. f.late = FALSE /\ f.sent = 0
  BY <1>1 DEF NotCalled
<1>3. fetch[c].sent \in Nat
  BY OneFetch DEF FetchRecords
<1>4. Update(c, f)
  BY <1>1, Zenon DEF Throw
<1> QED
  BY <1>2, <1>3, <1>4, WriteOnTime DEF OnTime

LEMMA DeadlineIsKept ==
    ASSUME IInv, LateBetweenHops, [Next]_vars
    PROVE  LateBetweenHops' /\ SendsNothingLate
<1>1. \A d \in Fetches : /\ fetch[d] \in FetchRecords /\ fetch[d].sent \in Nat
                         /\ fetch[d].late => fetch[d].stage = "hop"
  BY OneFetch DEF FetchRecords, LateBetweenHops, OnTime
<1>2. ASSUME NEW c \in Fetches, NEW u, Call(c, u) PROVE LateBetweenHops' /\ SendsNothingLate
  <2>1. CASE Throw(c, Inspect(u))
    BY <2>1, ThrowOnTime
  <2>2. CASE Update(c, [NotCalled EXCEPT !.stage = "hop", !.input = u, !.url = u])
    <3>1. PICK f : f = [NotCalled EXCEPT !.stage = "hop", !.input = u, !.url = u]
      OBVIOUS
    <3>2. f.late = FALSE
      BY <3>1 DEF NotCalled
    <3>3. ~fetch[c].late
      BY <1>1, <1>2 DEF Call
    <3> QED
      BY <2>2, <3>1, <3>2, <3>3, WriteOnTime DEF OnTime
  <2> QED
    BY <1>2, <2>1, <2>2 DEF Call
<1>3. ASSUME NEW c \in Fetches, NextHop(c) PROVE LateBetweenHops' /\ SendsNothingLate
  <2>1. CASE ~SignalAborted(c) /\ Update(c, [fetch[c] EXCEPT !.stage = "waiting"])
    <3>1. PICK f : f = [fetch[c] EXCEPT !.stage = "waiting"]
      OBVIOUS
    <3>2. f.late = fetch[c].late /\ f.sent = fetch[c].sent
      BY <1>1, <3>1 DEF FetchRecords
    <3> QED
      BY <1>1, <2>1, <3>1, <3>2, WriteOnTime DEF OnTime, SignalAborted
  <2> QED
    BY <1>3, <2>1, ThrowOnTime DEF NextHop
<1>4. ASSUME NEW c \in Fetches, Dial(c) \/ Connect(c) PROVE LateBetweenHops' /\ SendsNothingLate
  BY <1>4, SameOnTime, ThrowOnTime DEF Dial, Connect, Disappoint
<1>5. ASSUME NEW c \in Fetches, fetch[c].stage # "hop", NEW f, Update(c, f), f.late = fetch[c].late
      PROVE  LateBetweenHops' /\ SendsNothingLate
  BY <1>1, <1>5, WriteOnTime DEF OnTime
<1>6. ASSUME NEW c \in Fetches, Send(c) PROVE LateBetweenHops' /\ SendsNothingLate
  <2>1. PICK k \in open :
           Update(c, [fetch[c] EXCEPT !.via = k.address, !.asked = fetch[c].url, !.sent = @ + 1])
    BY <1>6 DEF Send
  <2>2. PICK f : f = [fetch[c] EXCEPT !.via = k.address, !.asked = fetch[c].url, !.sent = @ + 1]
    OBVIOUS
  <2>3. f.late = fetch[c].late
    BY <1>1, <2>2 DEF FetchRecords
  <2>4. fetch[c].stage # "hop"
    BY <1>6 DEF Send, Unsent
  <2> QED
    BY <1>5, <2>1, <2>2, <2>3, <2>4
<1>7. ASSUME NEW c \in Fetches, NEW location, Redirect(c, location)
      PROVE  LateBetweenHops' /\ SendsNothingLate
  <2>1. CASE Update(c, [fetch[c] EXCEPT !.stage = "hop", !.url = location, !.hop = @ + 1,
                                        !.via = Nowhere])
    <3>1. PICK f : f = [fetch[c] EXCEPT !.stage = "hop", !.url = location, !.hop = @ + 1,
                                        !.via = Nowhere]
      OBVIOUS
    <3>2. f.late = fetch[c].late
      BY <1>1, <3>1 DEF FetchRecords
    <3>3. fetch[c].stage # "hop"
      BY <1>7 DEF Redirect, Sent
    <3> QED
      BY <1>5, <2>1, <3>1, <3>2, <3>3
  <2> QED
    BY <1>7, <2>1, ThrowOnTime DEF Redirect
<1>8. ASSUME NEW c \in Fetches, NEW typeAllowed, NEW size, Headers(c, typeAllowed, size)
      PROVE  LateBetweenHops' /\ SendsNothingLate
  <2>1. CASE Update(c, [fetch[c] EXCEPT !.stage = "reading", !.size = size])
    <3>1. PICK f : f = [fetch[c] EXCEPT !.stage = "reading", !.size = size]
      OBVIOUS
    <3>2. f.late = fetch[c].late
      BY <1>1, <3>1 DEF FetchRecords
    <3>3. fetch[c].stage # "hop"
      BY <1>8 DEF Headers, Sent
    <3> QED
      BY <1>5, <2>1, <3>1, <3>2, <3>3
  <2> QED
    BY <1>8, <2>1, ThrowOnTime DEF Headers
<1>9. ASSUME NEW c \in Fetches, Read(c) \/ Finish(c) PROVE LateBetweenHops' /\ SendsNothingLate
  <2>1. fetch[c].stage # "hop"
    BY <1>9 DEF Read, Finish
  <2>2. CASE Update(c, [fetch[c] EXCEPT !.got = @ + 1])
    <3>1. PICK f : f = [fetch[c] EXCEPT !.got = @ + 1]
      OBVIOUS
    <3>2. f.late = fetch[c].late
      BY <1>1, <3>1 DEF FetchRecords
    <3> QED
      BY <1>5, <2>1, <2>2, <3>1, <3>2
  <2>3. CASE Return(c, FinalUrl(c))
    <3>1. PICK f : f = [fetch[c] EXCEPT !.stage = "done", !.code = "OK", !.final = FinalUrl(c),
                                        !.via = Nowhere]
      OBVIOUS
    <3>2. f.late = fetch[c].late
      BY <1>1, <3>1 DEF FetchRecords
    <3>3. Update(c, f)
      BY <2>3, <3>1, Zenon DEF Return
    <3> QED
      BY <1>5, <2>1, <3>2, <3>3
  <2> QED
    BY <1>9, <2>2, <2>3, ThrowOnTime DEF Read, Finish
<1>10. ASSUME NEW c \in Fetches, Deadline(c) PROVE LateBetweenHops' /\ SendsNothingLate
  <2>1. CASE fetch[c].stage = "hop" /\ ~fetch[c].late /\ Update(c, [fetch[c] EXCEPT !.late = TRUE])
    <3>1. PICK f : f = [fetch[c] EXCEPT !.late = TRUE]
      OBVIOUS
    <3>2. f.stage = fetch[c].stage
      BY <1>1, <3>1 DEF FetchRecords
    <3> QED
      BY <2>1, <3>1, <3>2, WriteOnTime DEF OnTime
  <2> QED
    BY <1>10, <2>1, ThrowOnTime DEF Deadline
<1>11. ASSUME NEW c \in Fetches, Reset(c) PROVE LateBetweenHops' /\ SendsNothingLate
  BY <1>11, ThrowOnTime DEF Reset
<1>12. CASE UNCHANGED vars \/ \E k \in open : Drop(k)
  BY <1>12, SameOnTime DEF vars, Drop
<1> QED
  BY <1>2, <1>3, <1>4, <1>6, <1>7, <1>8, <1>9, <1>10, <1>11, <1>12 DEF Next

(* One deadline for the whole chain, for any number of fetches that share  *)
(* the agent, any bound and any resolver: a fetch whose time has passed    *)
(* sends no further request.                                               *)
THEOREM NothingGoesOutLate == Spec => NothingSentLate
<1>1. Init => LateBetweenHops
  BY DEF Init, LateBetweenHops, OnTime, NotCalled
<1>2. IInv /\ LateBetweenHops /\ [Next]_vars => LateBetweenHops' /\ SendsNothingLate
  BY DeadlineIsKept
<1>3. IInv /\ LateBetweenHops /\ [Next]_vars
      => [\A c \in Fetches : fetch[c].late => fetch'[c].sent <= fetch[c].sent]_vars
  BY <1>2 DEF SendsNothingLate
<1> QED
  BY <1>1, <1>2, <1>3, FetchInvariant, PTL DEF Spec, NothingSentLate

-------------------------------------------------------------------------------
(* The end of a fetch.  What its loop and its timer still have to do, at   *)
(* most: each hop is taken, may be late, and waits for an answer that may  *)
(* be read.                                                                *)
HopsLeft(f) == 4 * (MaxRedirects + 2 - f.hop)
Left(f) ==
    CASE f.stage = "idle" -> 4 * (MaxRedirects + 3)
      [] f.stage = "hop" -> HopsLeft(f) - (IF f.late THEN 1 ELSE 0)
      [] f.stage = "waiting" -> HopsLeft(f) - 2
      [] f.stage = "reading" -> HopsLeft(f) - 3
      [] f.stage = "done" -> 0

NothingIsPutOff ==
    \A c \in Fetches :
        /\ Left(fetch[c]) \in Nat
        /\ Left(fetch'[c]) <= Left(fetch[c])
        /\ NextHop(c) \/ Deadline(c) => Left(fetch'[c]) < Left(fetch[c])

(* A fetch under way has something left, and at most what its call gave it. *)
LEMMA SomethingIsLeft ==
    ASSUME NEW f \in FetchRecords, Sound(f)
    PROVE  /\ Left(f) \in Nat /\ HopsLeft(f) \in Nat
           /\ f.stage # "done" => Left(f) > 0
           /\ f.stage # "idle" => Left(f) < 4 * (MaxRedirects + 3)
<1>1. MaxRedirects \in Nat /\ f.hop \in 0..(MaxRedirects + 1) /\ f.stage \in Stages /\ f.late \in BOOLEAN
  BY BoundsAssumption DEF FetchRecords
<1>2. f.stage \in {"waiting", "reading"} => f.hop <= MaxRedirects
  BY DEF Sound, InRequest, InBody
<1> QED
  BY <1>1, <1>2 DEF Left, HopsLeft, Stages

(* A record that is thrown has nothing left. *)
LEMMA ThrownIsDone ==
    ASSUME IInv, NEW c \in Fetches, NEW code, Throw(c, code)
    PROVE  Left(fetch'[c]) = 0
<1>1. PICK f : f = [NotCalled EXCEPT !.stage = "done", !.code = code]
  OBVIOUS
<1>2. f.stage = "done"
  BY <1>1 DEF NotCalled
<1>3. fetch'[c] = f
  BY <1>1, Zenon DEF Throw, Update, IInv, TypeOK
<1> QED
  BY <1>2, <1>3 DEF Left

(* One record is written: of that fetch less is left, or as much; of the   *)
(* others the same.                                                        *)
LEMMA WriteRunsDown ==
    ASSUME IInv, IInv', NEW c \in Fetches, NEW f, Update(c, f), Left(f) <= Left(fetch[c])
    PROVE  \A d \in Fetches : Left(fetch'[d]) <= Left(fetch[d])
<1>1. \A d \in Fetches : fetch'[d] = IF d = c THEN f ELSE fetch[d]
  BY DEF IInv, TypeOK, Update
<1>2. \A d \in Fetches : Left(fetch[d]) \in Nat
  BY OneFetch, SomethingIsLeft
<1> QED
  BY <1>1, <1>2

(* A fetch that rejects ends, and the others have as much left as before. *)
LEMMA ThrowRunsDown ==
    ASSUME IInv, IInv', NEW c \in Fetches, NEW code, Throw(c, code)
    PROVE  \A d \in Fetches : Left(fetch'[d]) <= Left(fetch[d])
<1> DEFINE f == [NotCalled EXCEPT !.stage = "done", !.code = code]
<1>1. f.stage = "done"
  BY DEF NotCalled
<1>2. Update(c, f)
  BY Zenon DEF Throw
<1> HIDE DEF f
<1>3. Left(f) = 0 /\ Left(fetch[c]) \in Nat
  BY <1>1, OneFetch, SomethingIsLeft DEF Left
<1> QED
  BY <1>2, <1>3, WriteRunsDown

(* The loop's step and the timer leave less. *)
LEMMA OwnStepsRunDown ==
    ASSUME IInv, LateBetweenHops, NEW c \in Fetches, NextHop(c) \/ Deadline(c)
    PROVE  Left(fetch'[c]) < Left(fetch[c])
<1>1. /\ fetch[c] \in FetchRecords /\ Sound(fetch[c]) /\ OnTime(fetch[c])
      /\ Left(fetch[c]) \in Nat /\ HopsLeft(fetch[c]) \in Nat
      /\ fetch[c].stage # "done" => Left(fetch[c]) > 0
  BY OneFetch, SomethingIsLeft DEF LateBetweenHops
<1>2. fetch[c].stage # "done"
  BY DEF NextHop, Deadline, Awaiting
<1>3. ASSUME NEW code, Throw(c, code) PROVE Left(fetch'[c]) < Left(fetch[c])
  BY <1>1, <1>2, <1>3, ThrownIsDone
<1>4. ASSUME fetch[c].stage = "hop", ~fetch[c].late, Update(c, [fetch[c] EXCEPT !.stage = "waiting"])
      PROVE  Left(fetch'[c]) < Left(fetch[c])
  <2> DEFINE f == [fetch[c] EXCEPT !.stage = "waiting"]
  <2>1. fetch'[c] = f
    BY <1>4 DEF IInv, TypeOK, Update
  <2>2. f.stage = "waiting" /\ f.hop = fetch[c].hop
    BY <1>1 DEF FetchRecords
  <2> HIDE DEF f
  <2>3. Left(f) = HopsLeft(fetch[c]) - 2
    BY <2>2 DEF Left, HopsLeft
  <2>4. Left(fetch[c]) = HopsLeft(fetch[c])
    BY <1>1, <1>4 DEF Left
  <2> QED
    BY <1>1, <2>1, <2>3, <2>4
<1>5. ASSUME fetch[c].stage = "hop", ~fetch[c].late, Update(c, [fetch[c] EXCEPT !.late = TRUE])
      PROVE  Left(fetch'[c]) < Left(fetch[c])
  <2> DEFINE f == [fetch[c] EXCEPT !.late = TRUE]
  <2>1. fetch'[c] = f
    BY <1>5 DEF IInv, TypeOK, Update
  <2>2. f.stage = "hop" /\ f.hop = fetch[c].hop /\ f.late
    BY <1>1, <1>5 DEF FetchRecords
  <2> HIDE DEF f
  <2>3. Left(f) = HopsLeft(fetch[c]) - 1
    BY <2>2 DEF Left, HopsLeft
  <2>4. Left(fetch[c]) = HopsLeft(fetch[c])
    BY <1>1, <1>5 DEF Left
  <2> QED
    BY <1>1, <2>1, <2>3, <2>4
<1>6. CASE NextHop(c)
  BY <1>3, <1>4, <1>6 DEF NextHop, SignalAborted
<1>7. CASE Deadline(c)
  BY <1>3, <1>5, <1>7 DEF Deadline
<1> QED
  BY <1>6, <1>7

(* No step gives a fetch more to do, and its own step and its timer leave  *)
(* it less.                                                                *)
LEMMA AllStepsRunDown ==
    ASSUME IInv, IInv', LateBetweenHops, [Next]_vars
    PROVE  \A d \in Fetches : Left(fetch'[d]) <= Left(fetch[d])
<1> DEFINE Goal == \A d \in Fetches : Left(fetch'[d]) <= Left(fetch[d])
<1>1. \A d \in Fetches : /\ fetch[d] \in FetchRecords /\ Sound(fetch[d]) /\ Left(fetch[d]) \in Nat
                         /\ HopsLeft(fetch[d]) \in Nat
                         /\ fetch[d].late => fetch[d].stage = "hop"
  BY OneFetch, SomethingIsLeft DEF LateBetweenHops, OnTime
<1>2. ASSUME NEW c \in Fetches, NEW code, Throw(c, code) PROVE Goal
  BY <1>2, ThrowRunsDown
<1>3. ASSUME UNCHANGED fetch PROVE Goal
  BY <1>1, <1>3
<1>4. ASSUME NEW c \in Fetches, NEW f, Update(c, f), f.stage = fetch[c].stage, f.hop = fetch[c].hop,
             f.late = fetch[c].late
      PROVE  Goal
  <2>1. Left(f) = Left(fetch[c])
    BY <1>4 DEF Left, HopsLeft
  <2> QED
    BY <1>1, <1>4, <2>1, WriteRunsDown
<1>5. ASSUME NEW c \in Fetches, NEW u, Call(c, u) PROVE Goal
  <2> DEFINE f == [NotCalled EXCEPT !.stage = "hop", !.input = u, !.url = u]
  <2>1. CASE Update(c, f)
    <3>1. f.stage = "hop" /\ ~f.late /\ f.hop = 0
      BY DEF NotCalled
    <3> HIDE DEF f
    <3>2. Left(f) = 4 * (MaxRedirects + 2)
      BY <3>1, BoundsAssumption DEF Left, HopsLeft
    <3>3. Left(fetch[c]) = 4 * (MaxRedirects + 3)
      BY <1>5 DEF Left, Call
    <3> QED
      BY <2>1, <3>2, <3>3, WriteRunsDown, BoundsAssumption
  <2> QED
    BY <1>2, <1>5, <2>1 DEF Call
<1>6. ASSUME NEW c \in Fetches, NextHop(c) \/ Deadline(c) PROVE Goal
  <2>1. Left(fetch'[c]) < Left(fetch[c])
    BY <1>6, OwnStepsRunDown
  <2>2. PICK f : Update(c, f)
    BY <1>6 DEF NextHop, Deadline, Throw
  <2>3. fetch'[c] = f
    BY <2>2 DEF IInv, TypeOK, Update
  <2>4. Left(fetch'[c]) \in Nat
    BY OneFetch, SomethingIsLeft DEF IInv, TypeOK
  <2> QED
    BY <1>1, <2>1, <2>2, <2>3, <2>4, WriteRunsDown
<1>7. ASSUME NEW c \in Fetches, Dial(c) \/ Connect(c) \/ Reset(c) PROVE Goal
  BY <1>2, <1>3, <1>7 DEF Dial, Connect, Disappoint, Reset
<1>8. ASSUME NEW c \in Fetches, Send(c) PROVE Goal
  <2>1. PICK k \in open :
           Update(c, [fetch[c] EXCEPT !.via = k.address, !.asked = fetch[c].url, !.sent = @ + 1])
    BY <1>8 DEF Send
  <2> DEFINE f == [fetch[c] EXCEPT !.via = k.address, !.asked = fetch[c].url, !.sent = @ + 1]
  <2>2. f.stage = fetch[c].stage /\ f.hop = fetch[c].hop /\ f.late = fetch[c].late
    BY <1>1 DEF FetchRecords
  <2> HIDE DEF f
  <2> QED
    BY <1>4, <2>1, <2>2 DEF f
<1>9. ASSUME NEW c \in Fetches, NEW location, Redirect(c, location) PROVE Goal
  <2> DEFINE f == [fetch[c] EXCEPT !.stage = "hop", !.url = location, !.hop = @ + 1, !.via = Nowhere]
  <2>1. fetch[c].stage = "waiting"
    BY <1>9 DEF Redirect, Sent
  <2>2. CASE Update(c, f)
    <3>1. f.stage = "hop" /\ f.hop = fetch[c].hop + 1 /\ ~f.late
      BY <1>1, <2>1 DEF FetchRecords
    <3> HIDE DEF f
    <3>2. fetch[c].hop \in Nat /\ MaxRedirects \in Nat
      BY <1>1, BoundsAssumption DEF FetchRecords
    <3>3. Left(f) = 4 * (MaxRedirects + 2 - (fetch[c].hop + 1))
      BY <3>1, <3>2 DEF Left, HopsLeft
    <3>4. Left(fetch[c]) = 4 * (MaxRedirects + 2 - fetch[c].hop) - 2
      BY <2>1 DEF Left, HopsLeft
    <3>5. Left(f) <= Left(fetch[c])
      BY <3>2, <3>3, <3>4
    <3> QED
      BY <2>2, <3>5, WriteRunsDown
  <2> QED
    BY <1>2, <1>9, <2>2 DEF Redirect
<1>10. ASSUME NEW c \in Fetches, NEW typeAllowed, NEW size, Headers(c, typeAllowed, size) PROVE Goal
  <2> DEFINE f == [fetch[c] EXCEPT !.stage = "reading", !.size = size]
  <2>1. fetch[c].stage = "waiting"
    BY <1>10 DEF Headers, Sent
  <2>2. CASE Update(c, f)
    <3>1. f.stage = "reading" /\ f.hop = fetch[c].hop
      BY <1>1 DEF FetchRecords
    <3> HIDE DEF f
    <3>2. Left(f) = HopsLeft(fetch[c]) - 3 /\ Left(fetch[c]) = HopsLeft(fetch[c]) - 2
      BY <2>1, <3>1 DEF Left, HopsLeft
    <3> QED
      BY <1>1, <2>2, <3>2, WriteRunsDown
  <2> QED
    BY <1>2, <1>10, <2>2 DEF Headers
<1>11. ASSUME NEW c \in Fetches, Read(c) PROVE Goal
  <2> DEFINE f == [fetch[c] EXCEPT !.got = @ + 1]
  <2>1. f.stage = fetch[c].stage /\ f.hop = fetch[c].hop /\ f.late = fetch[c].late
    BY <1>1 DEF FetchRecords
  <2>2. CASE Update(c, f)
    <3> HIDE DEF f
    <3> QED
      BY <1>4, <2>1, <2>2
  <2> QED
    BY <1>2, <1>11, <2>2 DEF Read
<1>12. ASSUME NEW c \in Fetches, Finish(c) PROVE Goal
  <2> DEFINE f == [fetch[c] EXCEPT !.stage = "done", !.code = "OK", !.final = FinalUrl(c), !.via = Nowhere]
  <2>1. f.stage = "done"
    BY <1>1 DEF FetchRecords
  <2>2. Update(c, f)
    BY <1>12, Zenon DEF Finish, Return
  <2> HIDE DEF f
  <2>3. Left(f) = 0
    BY <2>1 DEF Left
  <2> QED
    BY <1>1, <2>2, <2>3, WriteRunsDown
<1>13. CASE UNCHANGED vars \/ \E k \in open : Drop(k)
  BY <1>3, <1>13 DEF vars, Drop
<1> QED
  BY <1>5, <1>6, <1>7, <1>8, <1>9, <1>10, <1>11, <1>12, <1>13 DEF Next

(* What FetchesEnd rests on, for any number of fetches, any bound and      *)
(* whatever servers and resolvers do: the timer and the loop's own step    *)
(* each leave a fetch less to do, and no step of a server, a resolver, a   *)
(* connection or another fetch leaves it more (safeFetch's one deadline    *)
(* and its count of hops).                                                 *)
THEOREM FetchesRunDown == Spec => [][NothingIsPutOff]_vars
<1>1. Init => LateBetweenHops
  BY DEF Init, LateBetweenHops, OnTime, NotCalled
<1>2. IInv /\ LateBetweenHops /\ [Next]_vars => LateBetweenHops'
  BY DeadlineIsKept
<1>3. IInv /\ IInv' /\ LateBetweenHops /\ [Next]_vars => [NothingIsPutOff]_vars
  <2> SUFFICES ASSUME IInv, IInv', LateBetweenHops, [Next]_vars PROVE NothingIsPutOff
    OBVIOUS
  <2> QED
    BY AllStepsRunDown, OwnStepsRunDown, OneFetch, SomethingIsLeft DEF NothingIsPutOff
<1> QED
  BY <1>1, <1>2, <1>3, FetchInvariant, PTL DEF Spec

===============================================================================
