-------------------------------- MODULE ModelCall --------------------------------
(***************************************************************************)
(* One stage of an import that asks a model: src/pipeline/model-providers  *)
(* .ts (runStage) over src/pipeline/openai-transport.ts over               *)
(* src/security/model-egress.ts.                                           *)
(*                                                                         *)
(* A stage makes up to MaxAttempts calls.  A call arms a deadline, sends,  *)
(* and reads the answer chunk by chunk; the provider may answer anything,  *)
(* at any pace, or never.  Between two reads the timer may fire; between   *)
(* the last read and the stage's verdict it cannot (no macrotask runs).    *)
(***************************************************************************)
EXTENDS Naturals, Sequences, SequencesExt

CONSTANTS Callers,      \* the handlers that ask a model
          MaxAttempts,  \* DEFAULT_MAX_ATTEMPTS, clamped to at least one
          MaxBytes      \* maxResponseBytes, in chunks

ASSUME AttemptsAssumption == MaxAttempts \in Nat \ {0}
ASSUME BytesAssumption == MaxBytes \in Nat

VARIABLE stage          \* caller -> its stage

(* `replies` is what each call of the stage came to, `call` the one under  *)
(* way, and its `passed` (a ghost) whether its deadline has passed.        *)
NoCall == [status |-> "none", got |-> 0, armed |-> FALSE, aborted |-> FALSE, passed |-> FALSE]

AStage(at, call, replies) == [at |-> at, call |-> call, replies |-> replies]
NoStage == AStage("none", NoCall, <<>>)

SetStage(c, s) == stage' = [stage EXCEPT ![c] = s]
StageInit == stage = [c \in Callers |-> NoStage]

InCall == {"sent", "reading"}
StageOver(c) == stage[c].at \in {"none", "accepted", "failed"}

-------------------------------------------------------------------------------
Armed(replies) == AStage("sent", [NoCall EXCEPT !.armed = TRUE], replies)

(* An exchange with an image type the provider does not read is refused    *)
(* before anything is sent.                                                *)
BeginStage(c, readable) ==
    /\ StageOver(c)
    /\ SetStage(c, IF readable THEN Armed(<<>>) ELSE AStage("failed", NoCall, <<>>))

TimedOut(k) ==
    [status |-> k.status, got |-> k.got, armed |-> FALSE, aborted |-> k.armed, passed |-> TRUE]

(* The timer fires: the fetch, or the body under way, is torn down. *)
DeadlinePasses(c) ==
    LET s == stage[c] IN
    /\ s.at \in InCall /\ ~s.call.passed
    /\ SetStage(c, AStage(s.at, TimedOut(s.call), s.replies))

(* What a reply counts for.  A reply without content is an error of its    *)
(* own; one outside the contract may be repaired, and nothing else may.    *)
Replies == {"usable", "invalid", "empty"}

TriesAgain(s, r) == r = "invalid" /\ Len(s.replies) + 1 < MaxAttempts

\* The call comes to r: its timer is cleared, and the stage ends or goes on.
Comes(c, s, r) ==
    SetStage(c, IF TriesAgain(s, r) THEN Armed(Append(s.replies, r))
                ELSE AStage(IF r = "usable" THEN "accepted" ELSE "failed",
                            [s.call EXCEPT !.armed = FALSE], Append(s.replies, r)))

\* Mutant: the timer is cleared as soon as the headers are there.
UnderDeadline(s, status) == AStage("reading", [s.call EXCEPT !.status = status], s.replies)
HeadersEndIt(s, status) ==
    AStage("reading", [s.call EXCEPT !.status = status, !.armed = FALSE], s.replies)
BodyOf(s, status) == UnderDeadline(s, status)

(* The headers arrive: a redirect is refused there and then. *)
Headers(c) ==
    LET s == stage[c] IN
    /\ s.at = "sent" /\ ~s.call.aborted
    /\ \/ Comes(c, s, "REDIRECT_REFUSED")
       \/ \E status \in {"ok", "refused"} : SetStage(c, BodyOf(s, status))

Chunk(c) ==
    LET s == stage[c] IN
    /\ s.at = "reading" /\ ~s.call.aborted
    /\ IF s.call.got + 1 > MaxBytes THEN Comes(c, s, "SIZE_LIMIT")
       ELSE SetStage(c, AStage("reading", [s.call EXCEPT !.got = @ + 1], s.replies))

(* The body is complete: a status that is not ok, or a body that is not    *)
(* JSON, is no reply; what is JSON is read by the transport and the stage. *)
BodyEnds(c) ==
    LET s == stage[c] IN
    /\ s.at = "reading" /\ ~s.call.aborted
    /\ IF s.call.status = "refused" THEN Comes(c, s, "PROVIDER_REFUSED")
       ELSE \E r \in Replies \cup {"MALFORMED_RESPONSE"} : Comes(c, s, r)

(* The fetch or a read rejects: torn down by the deadline, or by the wire. *)
Breaks(c) ==
    LET s == stage[c] IN
    /\ s.at \in InCall
    /\ Comes(c, s, IF s.call.aborted THEN "TIME_LIMIT" ELSE "TRANSPORT")

\* An aborted call rejects; the wire and the provider need not do anything.
TornDown(c) == stage[c].call.aborted /\ Breaks(c)

StageStep(c) == DeadlinePasses(c) \/ Headers(c) \/ Chunk(c) \/ BodyEnds(c) \/ Breaks(c)

StageFairness(c, v) == WF_v(DeadlinePasses(c)) /\ WF_v(TornDown(c))

-------------------------------------------------------------------------------
(* What a stage may cost and what it may accept: at most MaxAttempts calls *)
(* of the model, each of them after the first because the reply before it  *)
(* was readable and outside the contract, and a result only from the last  *)
(* reply - never one that came after its deadline or past the size bound.  *)
StagesAreBounded ==
    \A c \in Callers :
        LET s == stage[c]  r == s.replies IN
        /\ Len(r) <= MaxAttempts - (IF s.at \in InCall THEN 1 ELSE 0)
        /\ \A i \in DOMAIN r : i < Len(r) \/ s.at \in InCall => r[i] = "invalid"
        /\ s.at = "accepted" => Last(r) = "usable" /\ ~s.call.passed
        /\ s.call.got <= MaxBytes
===============================================================================
