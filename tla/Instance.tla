--------------------------------- MODULE Instance ---------------------------------
(***************************************************************************)
(* The life of one Cookframe process: src/server/main.ts and               *)
(* src/server/instance.ts, with the connection pool of                     *)
(* src/persistence/postgres-store.ts.  It starts beside the migrators of   *)
(* Migrate, serves requests that use the pool, the fetch agents and the    *)
(* model stages of ModelCall, and is stopped by a signal.                  *)
(*                                                                         *)
(* A handler runs to its end whatever its client does: a client that hangs *)
(* up takes its connection away and nothing else.  `close` of the HTTP     *)
(* server waits for connections, not for handlers.                         *)
(***************************************************************************)
EXTENDS Migrate, ModelCall, Configuration

CONSTANTS PoolSize,     \* connections of the pool
          Environments, \* what the process may be started with
          MaxWork,      \* bound: requests, and pieces of work, of each client
          HangUps       \* whether clients may hang up while they wait

ASSUME PoolAssumption == PoolSize \in Nat \ {0}
ASSUME ProbesAssumption == LastFile \in 1..3    \* a probe for each migration
ASSUME HangUpsAssumption == HangUps \in BOOLEAN

VARIABLES
    process,        \* where the process is
    exit,           \* how it ended
    settings,       \* the environment it read
    store,          \* the connection pool
    sources,        \* the two fetch agents
    handler,        \* client -> the handler that serves it
    line,           \* client -> its connection
    work            \* client -> what it asked for so far

Unread == [n \in Names |-> Absent]

lifecycle == <<process, exit, settings, store, sources>>
requests == <<handler, line, work>>
vars == <<migrationVars, stage, lifecycle, requests>>

Starting == {"probing library", "probing plans", "probing grants", "probing storage", "binding"}
Stopping == {"draining", "closing store", "closing sources"}
Serving == process \in Stopping \cup {"listening"}

SetHandler(c, at) == handler' = [handler EXCEPT ![c] = at]
SetLine(c, l) == line' = [line EXCEPT ![c] = l]
OneMore(c) == work[c] < MaxWork /\ work' = [work EXCEPT ![c] = @ + 1]
UsingPool == {c \in Callers : handler[c] = "querying"}

Init ==
    /\ MigrateInit /\ StageInit
    /\ process = "down" /\ exit = "none" /\ settings = Unread /\ store = "none" /\ sources = "none"
    /\ handler = [c \in Callers |-> "none"]
    /\ line = [c \in Callers |-> "none"]
    /\ work = [c \in Callers |-> 0]

-------------------------------------------------------------------------------
(* Starting.  Whatever is wrong ends the process before it listens: a      *)
(* setting it cannot read, a table that is missing, a disk it cannot       *)
(* write, a port it cannot bind.                                           *)
Ended(how) ==
    /\ process' = "exited" /\ exit' = how /\ settings' = Unread /\ store' = "none" /\ sources' = "none"
    /\ handler' = [c \in Callers |-> "none"]
    /\ line' = [c \in Callers |-> "none"]
    /\ stage' = [c \in Callers |-> NoStage]
    /\ UNCHANGED <<migrationVars, work>>

StartProcess ==
    /\ process \in {"down", "exited"}
    /\ \E env \in Environments :
          IF StartsWith(env)
          THEN /\ process' = "probing library" /\ exit' = "none"
               /\ settings' = env /\ store' = "open"
               /\ UNCHANGED <<migrationVars, stage, sources, requests>>
          ELSE Ended("refused")

\* One read for each migration; mutant: the library's alone.
Probed(p) ==
    CASE p = "probing library" -> 1 [] p = "probing plans" -> 2 [] p = "probing grants" -> 3
AfterEachProbe(p) ==
    CASE p = "probing library" -> "probing plans" [] p = "probing plans" -> "probing grants"
      [] p = "probing grants" -> "probing storage"
AfterTheFirst(p) == "probing storage"
AfterProbe(p) == AfterEachProbe(p)

Probe ==
    /\ process \in {"probing library", "probing plans", "probing grants"}
    /\ Probed(process) \in tables
    /\ process' = AfterProbe(process)
    /\ UNCHANGED <<migrationVars, stage, exit, settings, store, sources, requests>>

(* The empty put, then the agents. *)
ProbeStorage ==
    /\ process = "probing storage"
    /\ process' = "binding" /\ sources' = "open"
    /\ UNCHANGED <<migrationVars, stage, exit, settings, store, requests>>

Bind ==
    /\ process = "binding" /\ LongEnough(settings)
    /\ process' = "listening"
    /\ UNCHANGED <<migrationVars, stage, exit, settings, store, sources, requests>>

Refuse == process \in Starting /\ Ended("refused")

-------------------------------------------------------------------------------
(* Requests.  A new connection needs a listening socket; one kept alive    *)
(* carries further requests for as long as it is there.                    *)
Arrive(c) ==
    /\ handler[c] = "none" /\ Serving
    /\ line[c] = "idle" \/ (line[c] = "none" /\ process = "listening")
    /\ OneMore(c) /\ SetHandler(c, "working") /\ SetLine(c, "busy")
    /\ UNCHANGED <<migrationVars, stage, lifecycle>>

(* A statement or a transaction waits for a connection of the pool; a pool *)
(* that was ended refuses it, and so does an agent that was closed.        *)
Ask(c) ==
    /\ handler[c] = "working" /\ OneMore(c)
    /\ SetHandler(c, IF store = "open" THEN "waiting" ELSE "failing")
    /\ UNCHANGED <<migrationVars, stage, lifecycle, line>>

Connect(c) ==
    /\ handler[c] = "waiting" /\ store = "open"
    /\ Cardinality(UsingPool) < PoolSize
    /\ SetHandler(c, "querying")
    /\ UNCHANGED <<migrationVars, stage, lifecycle, line, work>>

(* The connection goes back on every path. *)
Answered(c) ==
    /\ handler[c] = "querying"
    /\ \E then \in {"working", "failing"} : SetHandler(c, then)
    /\ UNCHANGED <<migrationVars, stage, lifecycle, line, work>>

AskModel(c) ==
    /\ handler[c] = "working" /\ OneMore(c) /\ SetHandler(c, "asking")
    /\ \E readable \in BOOLEAN : BeginStage(c, readable)
    /\ UNCHANGED <<migrationVars, lifecycle, line>>

ModelMoves(c) ==
    /\ handler[c] = "asking" /\ StageStep(c)
    /\ UNCHANGED <<migrationVars, lifecycle, requests>>

Verdict(c) ==
    /\ handler[c] = "asking" /\ StageOver(c)
    /\ SetHandler(c, IF stage[c].at = "accepted" THEN "working" ELSE "failing")
    /\ SetStage(c, NoStage)
    /\ UNCHANGED <<migrationVars, lifecycle, line, work>>

(* The answer; its connection stays for the keep-alive time or goes at     *)
(* once, and is gone already when the client hung up.                      *)
Reply(c) ==
    /\ handler[c] \in {"working", "failing"} /\ SetHandler(c, "none")
    /\ \E l \in {"idle", "none"} : SetLine(c, IF line[c] = "busy" THEN l ELSE line[c])
    /\ UNCHANGED <<migrationVars, stage, lifecycle, work>>

KeepAliveEnds(c) ==
    /\ line[c] = "idle" /\ SetLine(c, "none")
    /\ UNCHANGED <<migrationVars, stage, lifecycle, handler, work>>

HangUp(c) ==
    /\ HangUps /\ line[c] = "busy" /\ SetLine(c, "none")
    /\ UNCHANGED <<migrationVars, stage, lifecycle, handler, work>>

-------------------------------------------------------------------------------
(* Stopping.  A signal before the port is bound kills; the first after it  *)
(* closes the socket and its idle connections, and a later one is nothing. *)
\* Mutant: every signal stops, and closing a closed server is an error.
OnlyTheFirst(p) == p = "listening"
EverySignal(p) == TRUE
Heeds(p) == OnlyTheFirst(p)

Signal ==
    \/ process \in Starting /\ Ended("killed")
    \/ /\ process = "listening" /\ process' = "draining"
       /\ line' = [c \in Callers |-> IF line[c] = "idle" THEN "none" ELSE line[c]]
       /\ UNCHANGED <<migrationVars, stage, exit, settings, store, sources, handler, work>>
    \/ process \in Stopping /\ IF Heeds(process) THEN Ended("failed") ELSE UNCHANGED vars

\* Mutant: the store is closed beside the server, not after it.
NoConnection(lines) == \A c \in Callers : lines[c] = "none"
AtOnce(lines) == TRUE
Drained(lines) == NoConnection(lines)

CloseStore ==
    /\ process = "draining" /\ Drained(line)
    /\ process' = "closing store" /\ store' = "ending"
    /\ UNCHANGED <<migrationVars, stage, exit, settings, sources, requests>>

(* The pool has ended when every connection taken from it came back. *)
StoreCloses ==
    /\ process = "closing store" /\ UsingPool = {}
    /\ process' = "closing sources" /\ store' = "ended"
    /\ UNCHANGED <<migrationVars, stage, exit, settings, sources, requests>>

CloseSources == process = "closing sources" /\ Ended("clean")

(* Killed from outside, or by the error event of an idle pool connection,  *)
(* for which nothing listens.                                              *)
Crash == (process \in Starting \/ Serving) /\ Ended("crashed")

HandlerStep(c) ==
    \/ Answered(c) \/ ModelMoves(c) \/ Verdict(c) \/ Reply(c)

Next ==
    \/ MigrateNext /\ UNCHANGED <<stage, lifecycle, requests>>
    \/ StartProcess \/ Probe \/ ProbeStorage \/ Bind \/ Refuse
    \/ \E c \in Callers :
          \/ Arrive(c) \/ Ask(c) \/ Connect(c) \/ AskModel(c) \/ HandlerStep(c)
          \/ KeepAliveEnds(c) \/ HangUp(c)
    \/ Signal \/ CloseStore \/ StoreCloses \/ CloseSources \/ Crash

Spec == Init /\ [][Next]_vars

(* What the stop relies on: PostgreSQL answers, the pool serves its        *)
(* waiters in turn, the timers of the keep-alive and of the model calls    *)
(* fire, a handler goes on.  Nobody must send, hang up or answer a call of *)
(* the model.                                                              *)
Timed(c) ==
    /\ handler[c] = "asking" /\ (DeadlinePasses(c) \/ TornDown(c))
    /\ UNCHANGED <<migrationVars, lifecycle, requests>>

Fairness ==
    /\ WF_vars(CloseStore) /\ WF_vars(StoreCloses) /\ WF_vars(CloseSources)
    /\ \A c \in Callers :
          /\ WF_vars(Answered(c)) /\ WF_vars(Verdict(c)) /\ WF_vars(Reply(c))
          /\ WF_vars(Timed(c)) /\ WF_vars(KeepAliveEnds(c)) /\ SF_vars(Connect(c))

FairSpec == Spec /\ Fairness

-------------------------------------------------------------------------------
(* ADR-0027: a process that listens has every table its code reads, whole, *)
(* whatever migrators run or die beside it, and was told everything it     *)
(* needs: a port, an address to hand out, two secrets that are not one.    *)
ListeningMeansReady ==
    Serving =>
        /\ Files \subseteq whole
        /\ \A n \in Names : settings[n].given = "text"
        /\ IsPort(settings["PORT"].is)
        /\ settings["COOKFRAME_INGEST_CREDENTIAL"].is # settings["COOKFRAME_LIBRARY_CREDENTIAL"].is
        /\ LET url == settings["PUBLIC_BASE_URL"].is IN
           url.absolute /\ url.scheme \in {"http", "https"} /\ ~url.credential /\ ~url.more

(* Nobody who waits for an answer is met by a store or an agent the stop   *)
(* has closed.                                                             *)
StoreOutlivesClients ==
    \A c \in Callers : line[c] = "busy" => store = "open" /\ sources = "open"

(* instance.ts: "released after the last in-flight request". *)
StoreOutlivesRequests ==
    \A c \in Callers : handler[c] # "none" => store = "open"

(* A stop, however many signals ask for it, cuts nobody off: the process   *)
(* exits by itself only when no client waits.                              *)
NothingIsCut ==
    [][process' = "exited" /\ exit' # "crashed" => \A c \in Callers : line[c] # "busy"]_vars

(* A stop ends: no silent provider, kept-alive connection or hung-up       *)
(* client, and no failed statement, holds the process.                     *)
StopEnds == process = "draining" ~> process = "exited"
===============================================================================
