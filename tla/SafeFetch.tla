------------------------------- MODULE SafeFetch -------------------------------
(***************************************************************************)
(* The guarded fetch of a page or a picture: src/security/safe-fetch.ts    *)
(* with the URL check of url-guard.ts, the address policy of               *)
(* address-policy.ts and the byte source in front of it.                   *)
(*                                                                         *)
(* A fetch follows redirects by itself, inspects the URL of every hop,     *)
(* opens connections through one connector that resolves a name, judges    *)
(* every address and pins one, and runs under one deadline from its first  *)
(* hop to its last byte.  Fetches share the connections of one agent, and  *)
(* a connector goes on when the fetch that asked for it has ended.         *)
(*                                                                         *)
(* What servers, resolvers and the network do is chosen freely: any        *)
(* redirect, any content, any answer to a lookup, another answer to the    *)
(* next, silence, a reset.  Bodies are counted in units of MaxBytes.       *)
(***************************************************************************)
EXTENDS Naturals, Sequences, FiniteSets

CONSTANTS
    Fetches,            \* calls of fetch(), each made once
    Urls,               \* parseable URLs
    NotAUrl,            \* what does not parse as one
    NoLocation,         \* a redirect without a Location
    Addresses,          \* IP addresses
    SchemeOf, HostOf,   \* the scheme and the host, a name or an address, of a URL
    LoopbackNames,      \* localhost and *.localhost
    RangeOf,            \* the range of an address, once unwrapped from IPv6
    Answers,            \* what a lookup may answer: sequences of addresses
    MaxRedirects,       \* redirects a fetch follows
    MaxBytes,           \* bytes of body a fetch reads
    MaxBody             \* bound: the largest body a server sends

ASSUME HostsAssumption == DOMAIN HostOf = Urls /\ DOMAIN SchemeOf = Urls
ASSUME RangesAssumption == DOMAIN RangeOf = Addresses
ASSUME AnswersAssumption == Answers \subseteq Seq(Addresses)
ASSUME NotUrlAssumption == NotAUrl \notin Urls /\ NoLocation \notin Urls \cup {NotAUrl}
ASSUME BoundsAssumption == MaxRedirects \in Nat /\ MaxBytes \in Nat /\ MaxBody \in Nat

Hosts == {HostOf[u] : u \in Urls}
Nowhere == "nowhere"    \* no address, no host

ASSUME NowhereAssumption == Nowhere \notin Addresses \cup Hosts

VARIABLES
    fetch,      \* fetch -> how far it is
    dialing,    \* fetch -> the host its connector is resolving and opening
    open        \* the agent's live connections: host and pinned address

vars == <<fetch, dialing, open>>

-------------------------------------------------------------------------------
(* Why a fetch was refused; "OK" when it was not.                          *)
ReasonCode ==
    {"OK", "UNPARSEABLE_URL", "SCHEME_NOT_ALLOWED", "UNPARSEABLE_ADDRESS", "LOOPBACK",
     "LINK_LOCAL", "PRIVATE_RANGE", "CGNAT", "UNIQUE_LOCAL", "NON_UNICAST", "SIZE_LIMIT",
     "CONTENT_TYPE_NOT_ALLOWED", "TIME_LIMIT", "REDIRECT_LIMIT", "REDIRECT_INVALID", "TRANSPORT"}

(* classifyAddress: default deny, and a reason for the ranges with a name. *)
CodeOf(range) ==
    CASE range = "unicast" -> "OK"                [] range = "loopback" -> "LOOPBACK"
      [] range = "linkLocal" -> "LINK_LOCAL"      [] range = "private" -> "PRIVATE_RANGE"
      [] range = "carrierGradeNat" -> "CGNAT"     [] range = "uniqueLocal" -> "UNIQUE_LOCAL"
      [] OTHER -> "NON_UNICAST"
Classify(a) == CodeOf(RangeOf[a])
Allowed(a) == Classify(a) = "OK"

(* inspectUrl: what a URL alone tells.  A name is left to the connector.   *)
Inspect(u) ==
    IF u = NotAUrl THEN "UNPARSEABLE_URL"
    ELSE IF SchemeOf[u] \notin {"http", "https"} THEN "SCHEME_NOT_ALLOWED"
    ELSE IF HostOf[u] \in LoopbackNames THEN "LOOPBACK"
    ELSE IF HostOf[u] \in Addresses THEN Classify(HostOf[u])
    ELSE "OK"

(* resolveAndPin: what to judge for a host, the verdict, and the address   *)
(* the connection is pinned to.  The verdict on an answer with addresses   *)
(* that are refused names the first of them, here any.                     *)
Resolved(h) == IF h \in Addresses THEN {<<h>>} ELSE Answers
Judge(answer) ==
    IF answer = <<>> THEN "UNPARSEABLE_ADDRESS"
    ELSE IF \A i \in DOMAIN answer : Allowed(answer[i]) THEN "OK"
    ELSE Classify(answer[CHOOSE i \in DOMAIN answer : ~Allowed(answer[i])])
\* Mutant: the socket is handed the name and resolves it again.
ResolvedAgain(h, answer) == {a \in Addresses : \E again \in Resolved(h) : \E i \in DOMAIN again : again[i] = a}
Pinned(h, answer) == {answer[1]}

-------------------------------------------------------------------------------
(* A fetch: input, the URL of the hop, redirects followed, requests sent,  *)
(* the address that answers and the URL it was asked for, the body's size  *)
(* and what was read of it, whether the deadline passed, how it ended.  At *)
(* stage "hop" the next request is not asked for yet, at "waiting" its     *)
(* headers are not here.                                                   *)
Stages == {"idle", "hop", "waiting", "reading", "done"}
NotCalled == [stage |-> "idle", input |-> NotAUrl, url |-> NotAUrl, hop |-> 0, sent |-> 0,
              via |-> Nowhere, asked |-> NotAUrl, size |-> 0, got |-> 0,
              late |-> FALSE, code |-> "NONE", final |-> NotAUrl]

Update(c, f) == fetch' = [fetch EXCEPT ![c] = f]
Throw(c, code) == Update(c, [NotCalled EXCEPT !.stage = "done", !.code = code])
Return(c, url) ==
    Update(c, [fetch[c] EXCEPT !.stage = "done", !.code = "OK", !.final = url, !.via = Nowhere])

Init ==
    /\ fetch = [c \in Fetches |-> NotCalled]
    /\ dialing = [c \in Fetches |-> Nowhere]
    /\ open = {}

(* The call, its pre-flight, and the timer. *)
Call(c, u) ==
    /\ fetch[c].stage = "idle"
    /\ IF Inspect(u) # "OK"
       THEN Throw(c, Inspect(u))
       ELSE Update(c, [NotCalled EXCEPT !.stage = "hop", !.input = u, !.url = u])
    /\ UNCHANGED <<dialing, open>>

\* hop > maxRedirects
TooManyHops(hop) == hop > MaxRedirects
\* Every hop is inspected; mutant: only the input was.
NotInspected(u) == "OK"
HopCheck(u) == Inspect(u)
\* A request made with an aborted signal is rejected; mutant: made without it.
SignalIgnored(c) == FALSE
SignalAborted(c) == fetch[c].late

NextHop(c) ==
    /\ fetch[c].stage = "hop"
    /\ \/ TooManyHops(fetch[c].hop) /\ Throw(c, "REDIRECT_LIMIT")
       \/ /\ ~TooManyHops(fetch[c].hop)
          /\ \/ HopCheck(fetch[c].url) # "OK" /\ Throw(c, HopCheck(fetch[c].url))
             \/ HopCheck(fetch[c].url) = "OK" /\ SignalAborted(c) /\ Throw(c, "TIME_LIMIT")
             \/ /\ HopCheck(fetch[c].url) = "OK" /\ ~SignalAborted(c)
                /\ Update(c, [fetch[c] EXCEPT !.stage = "waiting"])
    /\ UNCHANGED <<dialing, open>>

-------------------------------------------------------------------------------
(* The agent: a request waits for a connection to its host. *)
Unsent(c) == fetch[c].stage = "waiting" /\ fetch[c].via = Nowhere
HostWanted(c) == HostOf[fetch[c].url]

Dial(c) ==
    /\ Unsent(c) /\ dialing[c] = Nowhere
    /\ dialing' = [dialing EXCEPT ![c] = HostWanted(c)]
    /\ UNCHANGED <<fetch, open>>

(* A connector that gives up rejects the fetch that still waits for it.    *)
Disappoint(c, code) ==
    IF Unsent(c) /\ HostWanted(c) = dialing[c]
    THEN Throw(c, code) ELSE UNCHANGED fetch

Connect(c) ==
    /\ dialing[c] # Nowhere
    /\ dialing' = [dialing EXCEPT ![c] = Nowhere]
    /\ \/ \E answer \in Resolved(dialing[c]) :
             \/ Judge(answer) # "OK" /\ Disappoint(c, Judge(answer)) /\ UNCHANGED open
             \/ /\ Judge(answer) = "OK"
                /\ \E a \in Pinned(dialing[c], answer) :
                      open' = open \cup {[host |-> dialing[c], address |-> a]}
                /\ UNCHANGED fetch
       \/ Disappoint(c, "TRANSPORT") /\ UNCHANGED open    \* no lookup, no route, no TLS

(* The request goes out on any connection to its host, its own or one that *)
(* an earlier hop or another fetch left open.                              *)
Send(c) ==
    /\ Unsent(c)
    /\ \E k \in open :
          /\ k.host = HostWanted(c)
          /\ Update(c, [fetch[c] EXCEPT !.via = k.address, !.asked = fetch[c].url, !.sent = @ + 1])
    /\ UNCHANGED <<dialing, open>>

(* The agent drops a connection nobody uses. *)
Drop(k) ==
    /\ \A c \in Fetches : fetch[c].via = k.address => HostWanted(c) # k.host
    /\ open' = open \ {k}
    /\ UNCHANGED <<fetch, dialing>>

-------------------------------------------------------------------------------
(* The headers arrive.  A redirect sets the next hop; anything else is the *)
(* answer, and its content type is looked at before its body.              *)
Sent(c) == fetch[c].stage = "waiting" /\ fetch[c].via # Nowhere

Redirect(c, location) ==
    /\ Sent(c)
    /\ IF location \in {NoLocation, NotAUrl}
       THEN Throw(c, "REDIRECT_INVALID")
       ELSE Update(c, [fetch[c] EXCEPT !.stage = "hop", !.url = location, !.hop = @ + 1,
                                       !.via = Nowhere])
    /\ UNCHANGED <<dialing, open>>

Headers(c, typeAllowed, size) ==
    /\ Sent(c)
    /\ IF typeAllowed
       THEN Update(c, [fetch[c] EXCEPT !.stage = "reading", !.size = size])
       ELSE Throw(c, "CONTENT_TYPE_NOT_ALLOWED")
    /\ UNCHANGED <<dialing, open>>

(* readBounded, one unit of the body at a time. *)
Read(c) ==
    /\ fetch[c].stage = "reading" /\ fetch[c].got < fetch[c].size
    /\ IF fetch[c].got + 1 > MaxBytes
       THEN Throw(c, "SIZE_LIMIT")
       ELSE Update(c, [fetch[c] EXCEPT !.got = @ + 1])
    /\ UNCHANGED <<dialing, open>>

\* { finalUrl: currentUrl }; mutant: the URL that was asked for.
AskedFor(c) == fetch[c].input
FinalUrl(c) == fetch[c].url

Finish(c) ==
    /\ fetch[c].stage = "reading" /\ fetch[c].got = fetch[c].size
    /\ Return(c, FinalUrl(c))
    /\ UNCHANGED <<dialing, open>>

(* The connection breaks under a request or a body. *)
Reset(c) ==
    /\ Sent(c) \/ fetch[c].stage = "reading"
    /\ Throw(c, "TRANSPORT")
    /\ open' = open \ {[host |-> HostWanted(c), address |-> fetch[c].via]}
    /\ UNCHANGED dialing

(* The timer fires: whatever the fetch awaits is rejected.  Mutant: the    *)
(* timer is cleared as the headers arrive.                                 *)
HeadersAwaited(c) == fetch[c].stage = "waiting"
Awaiting(c) == fetch[c].stage \in {"waiting", "reading"}

Deadline(c) ==
    /\ \/ Awaiting(c) /\ Throw(c, "TIME_LIMIT")
       \/ /\ fetch[c].stage = "hop" /\ ~fetch[c].late
          /\ Update(c, [fetch[c] EXCEPT !.late = TRUE])
    /\ UNCHANGED <<dialing, open>>

-------------------------------------------------------------------------------
Next ==
    \/ \E c \in Fetches :
          \/ \E u \in Urls \cup {NotAUrl} : Call(c, u)
          \/ NextHop(c) \/ Dial(c) \/ Connect(c) \/ Send(c)
          \/ \E location \in Urls \cup {NoLocation, NotAUrl} : Redirect(c, location)
          \/ \E typeAllowed \in BOOLEAN, size \in 0..MaxBody : Headers(c, typeAllowed, size)
          \/ Read(c) \/ Finish(c) \/ Reset(c) \/ Deadline(c)
    \/ \E k \in open : Drop(k)

Spec == Init /\ [][Next]_vars

(* A timer that is set fires and a hop that can be taken is taken.  Nothing *)
(* is asked of the network, of servers or of resolvers.                    *)
FairSpec == Spec /\ \A c \in Fetches : WF_vars(NextHop(c)) /\ WF_vars(Deadline(c))

-------------------------------------------------------------------------------
FetchRecords ==
    [stage : Stages, input : Urls \cup {NotAUrl}, url : Urls \cup {NotAUrl},
     hop : 0..(MaxRedirects + 1), sent : Nat, via : Addresses \cup {Nowhere},
     asked : Urls \cup {NotAUrl}, size : 0..MaxBody, got : 0..MaxBytes, late : BOOLEAN,
     code : ReasonCode \cup {"NONE"}, final : Urls \cup {NotAUrl}]
TypeOK ==
    /\ fetch \in [Fetches -> FetchRecords]
    /\ dialing \in [Fetches -> Hosts \cup {Nowhere}]
    /\ open \subseteq [host : Hosts, address : Addresses]

(* ADR-0010 points 1, 3-5: whatever a lookup answered before or after, a   *)
(* live connection leads to an address the policy allows, and so does      *)
(* every request, on a connection of its own or on one left by another.    *)
OnlyJudgedAddresses ==
    /\ \A k \in open : Allowed(k.address) /\ (k.host \in Addresses => k.host = k.address)
    /\ \A c \in Fetches : fetch[c].via # Nowhere => Allowed(fetch[c].via)

(* Point 6: no request is under way to a URL that was not inspected, be it *)
(* the fifth hop of a chain, and a chain costs at most so many requests.   *)
HopsInspectedAndBounded ==
    \A c \in Fetches :
        /\ fetch[c].via # Nowhere => Inspect(fetch[c].url) = "OK"
        /\ fetch[c].sent <= MaxRedirects + 1

(* Points 7 and 10: an answer is the whole of a body within the bound,     *)
(* never what fitted of it, and the URL it names is the one its bytes came *)
(* from, after any redirects: a page's picture is resolved against it.     *)
AnswersAreRight ==
    \A c \in Fetches : fetch[c].code = "OK" =>
        /\ fetch[c].got = fetch[c].size /\ fetch[c].size <= MaxBytes
        /\ fetch[c].final = fetch[c].asked /\ Inspect(fetch[c].final) = "OK"

(* One deadline for the whole chain: once it has passed no request of that *)
(* fetch goes out, though its connector or its redirects go on.            *)
NothingSentLate ==
    [][\A c \in Fetches : fetch[c].late => fetch'[c].sent <= fetch[c].sent]_vars

(* Every fetch ends, whatever servers, resolvers and connections fail to do. *)
FetchesEnd == \A c \in Fetches : fetch[c].stage = "hop" ~> fetch[c].stage = "done"

-------------------------------------------------------------------------------
(* The strengthening behind the invariants: what is so of a fetch at each  *)
(* of its stages.  A request is out only on a hop within the bound whose   *)
(* URL was inspected, and one more was sent than redirects were followed.  *)
InHop(f) == f.via = Nowhere /\ f.sent = f.hop /\ f.got = 0
InRequest(f) ==
    /\ Inspect(f.url) = "OK" /\ f.hop <= MaxRedirects
    /\ IF f.via = Nowhere THEN f.sent = f.hop
       ELSE f.sent = f.hop + 1 /\ f.asked = f.url /\ Allowed(f.via)
InBody(f) == f.via # Nowhere /\ InRequest(f) /\ f.got <= f.size
Ended(f) ==
    /\ f.via = Nowhere /\ f.sent <= MaxRedirects + 1
    /\ f.code = "OK" => /\ f.got = f.size /\ f.size <= MaxBytes
                        /\ f.final = f.asked /\ Inspect(f.final) = "OK"
Sound(f) ==
    /\ f.stage # "done" => f.code = "NONE"
    /\ f.stage = "idle" => f = NotCalled
    /\ f.stage = "hop" => InHop(f)
    /\ f.stage = "waiting" => InRequest(f) /\ f.got = 0
    /\ f.stage = "reading" => InBody(f)
    /\ f.stage = "done" => Ended(f)

IInv == TypeOK /\ OnlyJudgedAddresses /\ \A c \in Fetches : Sound(fetch[c])
===============================================================================
