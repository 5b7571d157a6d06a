# Formal models of Cookframe

TLA+ specifications of the parts of Cookframe that decide whether a user keeps
their recipes, and keeps them right. One half is about order, failure and
concurrency: the durable store, the byte store, importing, the guarded fetch and
the model call behind it, the library's pages, the sharing of a recipe by
address, the life of the process and the migrations beside it. The other half is
pure: what becomes of a document between the page or photograph it was and the
recipe, the cooking plan and the published recipe it is shown as. TLC checks every
specification on small instances; TLAPS proves every safety property for every
size.

Run from this directory:

    tlc -workers 2 -config MCPostgresStore_writes.cfg MCPostgresStore
    tlapm PostgresStoreProofs.tla

`PROJECT.json` lists every run with its configuration, the definitions each
mapped to the lines of code it stands for, the hazards and the theorems.

## 1. The system

Cookframe is one Node process behind an HTTP server (Hono), one PostgreSQL
database and one directory of files. Nothing else is shared. All concurrency is
that of requests interleaving at `await`s, of pooled database connections, of
the command-line jobs (reprocess, rebuild, migrate) that run beside the server,
and of plans computed after a response was sent.

| Component | Keeps | Operations | Talks to |
|---|---|---|---|
| Repository contract (`persistence/repository.ts`, `provisional-store.ts`) | snapshots, canonical versions, cooking plans, capability grants | eleven: store/load a snapshot, append/load/list/compare versions, store/load a plan, store/resolve/revoke a grant | called by everything below |
| PostgreSQL store (`persistence/postgres-store.ts`, `migrations/`) | the same in five tables, with `ingredient` as an extracted projection | the eleven, and `rebuildProjection` | the pool; one transaction per append and per rebuild |
| Byte store (`storage/filesystem-byte-store.ts`) | one file per SHA-256 | `put`, `get` | the file system |
| Import (`http/ingest-app.ts`, `pipeline/`) | nothing of its own | `POST /capture`, `POST /capture/url`, the reprocess command | byte store, fetch, model, repository; schedules plans |
| Pages (`http/pages-app.ts`) | nothing | library, recipe, picture, cooking page | repository, byte store |
| Handoff (`http/capability-app.ts`, `pages-app.ts`, `shopping/capability-token.ts`) | grants, in the repository | share, serve, revoke | repository |
| Safe fetch (`security/safe-fetch.ts`, `url-guard.ts`, `address-policy.ts`) | pooled connections | fetch a page or a picture through the guard | called by import |
| Model egress (`security/model-egress.ts`, `pipeline/openai-transport.ts`, `model-providers.ts`) | nothing | one bounded call to a model, and the attempts of a stage around it | called by import |
| Text extraction and sealing (`pipeline/url-jsonld-adapter.ts`, `url-capture.ts`, `html-to-text.ts`, `untrusted-text.ts`) | nothing | pure: what a page declares, what a model is shown | called by import |
| Text and claim checks (`pipeline/claim-support.ts`, `title-grounding.ts`, `block-id-policy.ts`, `persistence/validate.ts`) | nothing | pure: what a recipe may say of its source | called by import |
| Contract schema (`schema/`) | nothing | what a snapshot, a recipe and a plan must be | parsed at every boundary |
| Cooking (`cooking/`) | nothing | derive a plan, decide whether a kept one still applies | called by pages and after imports |
| Schema.org mapping (`shopping/schema-org-mapping.ts`) | nothing | the published form of a recipe | called by the handoff |
| Rendering (`render/`) | nothing | recipe page, library card, cooking view | called by pages |
| Server (`server/`) | the listening socket, the stores | start, drain, stop | everything |
| Migrator (`scripts/migrate.ts`) | the schema | apply pending files, each in a transaction | PostgreSQL |

### What is hard in it

* **Appends race.** Every append computes its ordinal as `max(version) + 1` in a
  statement of its own transaction; only the primary key stands between two
  appends and one ordinal.
* **The projection is rebuilt while the library is in use.** A rebuild deletes
  and re-extracts `ingredient` at READ COMMITTED beside appends and other
  rebuilds.
* **An error does not mean that nothing happened.** A commit may take effect and
  its answer be lost; callers retry, and commands are run again.
* **The pool is bounded**, and an error path that keeps a connection starves it.
* **The byte store rewrites in place**: a put truncates a file that may be
  complete, in use, or being written by somebody else.
* **An import is a chain of awaits** with a paid model in the middle. It can stop
  at each of them, and two imports or a reprocess of the same source can
  interleave at each of them.
* **Pages read several times**, and rows written under an older contract are
  refused by the code that reads them later.
* **A shared address outlives every process** but must die for good at once when
  its owner says so.
* **A stop meets requests under way**, with a provider that may be silent, clients
  that keep a connection or hang up, and an operator who sends a second signal.
* **The schema has no ledger but its tables**, and a release and an operator may
  migrate at once, beside a process that starts.
* **A model answers anything**, and a page declares a recipe in any of the ways
  sites have found; a recipe is kept only if each of its words is in the source.
* **One recipe is told four times** - page, card, cooking view, published recipe -
  by code that shares little, and each must tell the same story.

### What makes each component correct

* *Repository*: versions append only; plans belong to held versions, one per
  version; a digest is granted once, and grants only die.
* *PostgreSQL store*: implements the contract; ordinals dense; an acknowledged
  append is there; the projection equals the extraction of the documents in
  every committed state; every call ends.
* *Byte store*: a completed put leaves the content; a get answers the content or
  nothing.
* *Import*: what a 201 says is so; a refusal keeps nothing of the source but a
  photograph's scan; what the library refers to in the byte store is there; a
  picture is the one the page declared; a submission costs at most so many model
  calls, and is answered.
* *Pages*: the library leaves out nothing; nothing stale is shown; a recipe's
  picture is there and whole as long as nobody puts its bytes again; an auxiliary
  read that fails never costs the page.
* *Handoff*: a revocation is final; one token reaches one recipe; a token works
  until somebody asks for its end.
* *Safe fetch*: every hop is judged again and every connection pinned to what was
  judged, the bound and the deadline cover the whole chain, an answer is whole
  and says where it came from.
* *Model egress*: a late or oversized answer is never taken, a stage costs at most
  its attempts, and only an invalid reply is asked for again.
* *Extraction and checks*: a page is read for exactly the recipe it declares; what
  is kept quotes the source in one piece; an id says what a block is.
* *Cooking, rendering, mapping*: a plan is the recipe again; the surfaces agree;
  what was not stated exactly is not published as if it were.
* *Migrator*: every file once, in order, all or nothing, on any database. *Server*:
  listens only when everything is there, cuts nobody off, and its stop ends.

## 2. Modules

| Module | Models | Composes / implements |
|---|---|---|
| `RepositoryCalls` | requests, answers and the life of a call, shared by the next two | |
| `RecipeRepository` | the contract: each operation takes effect at one instant | checked as the specification `PostgresStore` implements, not by a run of its own |
| `PostgresStore` | the durable store, statement by statement | implements `RecipeRepository`, checked and proved |
| `PostgresStoreProofs` | theorems about `PostgresStore` | |
| `ByteStore` | files, chunk by chunk | |
| `ByteStoreProofs` | theorems about `ByteStore` | |
| `Handoff` | share, serve, revoke over an atomic repository | uses the grants as `RecipeRepository` promises them |
| `HandoffProofs` | theorems about `Handoff` | |
| `SafeFetch` | redirects, inspection, connector, pooled connections, deadline, size bound | `Ingest` takes it as one call that is answered or refused |
| `SafeFetchProofs` | theorems about `SafeFetch` | |
| `Ingest` | both imports and the reprocess command over repository, byte store, fetch and model | repository atomic, a put in two steps as `ByteStore` shows them |
| `IngestProofs` | theorems about `Ingest` | |
| `Pages` | the four pages beside everything that writes | |
| `PagesProofs` | theorems about `Pages` | |
| `Migrate` | migrators that plan, apply, race and die | its own specification, `MigrateSpec` |
| `ModelCall` | a stage's calls to a model under their deadline | |
| `Configuration` | what an environment must hold | |
| `Instance` | one process, its clients, its signals | composes `Migrate`, `ModelCall` and `Configuration` |
| `InstanceProofs` | theorems about `Migrate` and `Instance` | |
| `Lists` | lists and optional fields, shared by the rest | |
| `CanonicalRecipe` | what the contract asks of a recipe | |
| `CookingPlan` | the derivation of a plan, the contract of a plan | on `CanonicalRecipe` |
| `RecipeView` | recipe page, card and cooking view, as rows | on `CookingPlan` |
| `SchemaOrg` | the published recipe | on `CanonicalRecipe` |
| `Texts` | blanks, lines, folding, containment, a page's readable text, the fence | |
| `JsonLd` | the recipes a page declares, and their blocks | on `Texts` |
| `Grounding` | replies of a model, the snapshot, block ids, claims, titles, references | on `JsonLd` |
| `Documents` | a document from source to what is shown of it | composes `Grounding`, `RecipeView` and `SchemaOrg` |
| `DocumentsProofs` | theorems about `Documents` and lemmas about all it composes | |
| `MC...` | instances for TLC | |

### How the models correspond to the code

**`RecipeRepository`.** One action per method of the interface, as the
in-memory store implements it. A call is invoked, takes effect, and returns;
`Fail` rejects it before it took effect, `LoseReply` after, `Crash` forgets all
calls and no data. A document that does not parse is the value `Malformed`.

**`PostgresStore`.** `Connect` takes one of `PoolSize` connections.
`ChooseOrdinal`, `InsertVersion`, `ExtractVersion` and `CommitAppend` are the
append's transaction: the ordinal is computed on what the statement sees and the
key checked when the row is written, so the second of two racing appends waits
for the first (`KeyHeldByOther`) and then fails on the key. The other operations
are single statements and atomic at the server. `StartDelete`, `LockRow`,
`FinishDelete`, `ExtractAll` and `CommitRebuild` are the rebuild. Its delete sees
the rows committed as it starts and locks them one by one, in any order, and
holds those it locked while it waits for one that another rebuild holds; a row
whose holder commits is gone. The extraction meets the keys that are there: one
that nobody is deleting makes it fail, one that another rebuild is deleting
makes it wait for that rebuild. Two rebuilds may so wait for each other, over
rows or, when an append came between them, over a row and a key: the server
finds the circle (`InACircle`) and ends one of them (`DeadlockAbort`), which
fails that rebuild and keeps nothing of it. Appends hold no row that another
waits for while they wait, so they are in no circle. `Fault` breaks a connection before any statement,
`LoseReply` after the effect; `Return` is the `finally` that releases.

**`ByteStore`.** `put` is open-with-truncation, one write per chunk, close;
`get` is open, the size, one read per chunk. A content stands for its digest. A
write past the end of a file that another put truncated leaves a hole.

**`Handoff`.** The token stands for its digest. The minter may mint any token,
one in use included, which is what the loop of `MAX_MINT_ATTEMPTS` is for. A
request to serve remembers what was so as it arrived, so that properties can say
"not after it was revoked" and "not older than it was".

**`SafeFetch`.** A fetch is a record with a stage; each stage ends at an `await`
of `safe-fetch.ts`: the next request is not asked for (`hop`), its headers are
not here (`waiting`), its body is read (`reading`). `NextHop` is the head of the
redirect loop, in the code's order: bound, inspection, request - which is
rejected at once if the signal is aborted already. The agent is external, and
modelled from how the code uses it: a request waits for a connection to its
host (`Dial`), the guarded connector resolves, judges and pins (`Connect`), a
request goes out on any live connection to its host (`Send`), unused ones close
(`Drop`). The connector belongs to the agent, so that one may finish after the
deadline of its fetch, or after the fetch was redirected elsewhere. `Deadline`
is the one timer: it rejects whatever is awaited; between two hops nothing is,
and the abort shows at the next request. `ReasonCode` are the reasons of
`reason-codes.ts` this path can give. That `body.cancel()` on a redirect may
itself fail is not modelled.

**`Ingest`.** A request is a record that walks through the awaits of
`ingest-app.ts`, `ingest.ts`, `url-import.ts`, `hero-image.ts` and
`reprocess.ts`; every await may fail, the repository's also after the effect.
What a page or a model says is a nondeterministic choice: structured data or
not, one recipe or several, a declared picture or none, a reply the contract
rejects, a claim of any picture at all, kept photographs included. A stage that
asks a model is one step here; how many calls it makes is `ModelCall`'s. Ids of
snapshots are drawn fresh, as `randomUUID` does.

**`Pages`.** Every await of a route is a step; imports, plans, puts and upgrades
happen between. A picture's file is written piece by piece (`PutPicture`): it is
"blank" until the bytes are there that `servedImageType` knows an image by, and
"cut" until all are; the put may stop at either, and a version is appended only
once its picture's put has ended (`Nameable`). Another put of the same bytes, by
an import of the same picture, empties the file first and may stop half-way
(`PutAgain`). What the route serves is what it recognises (`Recognised`), a cut
image included. An upgrade restarts the process and may leave any
of a recipe's rows refused by the newer contract.

**`Migrate`.** A migrator reads one sentinel table after the other, plans, and
runs each missing file in a transaction. A table is known by the file that
creates it; `tables` is what others see, `whole` the files all of whose
statements took effect, and that the two are one is a property and not an
assumption. `create table` waits for a transaction that is creating the same
table and fails if the table is there. A database may start in any state, one
somebody built by hand included.

**`ModelCall`.** A call is armed, sent, and read chunk by chunk; between two reads
the timer may fire, and then the next read rejects. Between the last read and
the verdict of the stage it cannot: no macrotask runs. A reply is usable,
invalid (only that is repaired), empty or malformed; a status may refuse, a
redirect is refused at its headers.

**`Instance`.** `StartProcess` reads an environment as `Configuration` judges it;
the probes follow in the order of `main.ts`, one read per migration, then the
empty put, then the port, whose binding also demands secrets long enough. A
client has a connection (`line`) and a handler, and the two part when it hangs
up: the handler goes on, `close` waits for connections only. The store ends when
every connection taken from the pool came back. An `error` of an idle pool
connection has no listener and is a `Crash`.

**`Documents` and what it composes.** These are functions, written from the code
function by function under the code's names; the state machine around them only
says which is called when, and chooses what a model answers. A text is a
sequence of symbols, fine enough to tell a word from part of a word, a blank
from a line break, a tag that breaks a line from one that does not. JSON-LD is
the values it parses to, in any number of scripts, malformed ones included. A
value is the list of its nodes in the order they are written, each with the path
of keys and places that leads to it; walking it, which the code does with a
stack (`iterNodes`) or by calling itself (`stepsFromElement`, `authorDisplay`),
is then a choice of paths (`ThroughLists`, `IsElement`), and a pointer is a path
too. A number is held in tenths. An optional field is a list of no or one value.
A fact of a recipe is a node with its own references, its verbatim wording and
the place of the fact it stands in, which is all `claim-support.ts` looks at; so
the facts of a recipe are a list in which each stands in one before it. A surface is the rows
a reader sees, and a fixed sentence is its name. Where ids are hashes of
content, equal contents have equal ids and others do not.

## 3. Runs

| Run | Instance | Shows |
|---|---|---|
| `store_writes` | 2 appenders of one recipe with a line each, 2 rebuilds that lock row by row, a pool of 2 | `VersionsNumbered`, `AcknowledgedAppendsHold`, `ProjectionAgrees`, `RebuildChangesNothing`; and that every call returns and every rebuild ends (`CallsAndRebuildsEnd`) |
| `store_contract` | 2 callers, every operation, 2 recipes that want 1 digest, a pool of 2 | `PostgresStore` implements `RecipeRepository` (`RepositoryContract`); `KeysHold`, `NothingIsUndone`; lost replies and crashes included |
| `bytes` | 3 callers, a file of two chunks, an empty one, a forged identity | `CompletedFilesWhole`, `CalmGetsAnswerWhatIsDue` |
| `bytes_rewrite` | the same | **violated**: a rewrite is not a no-op (finding 1) |
| `handoff` | 2 requests, 2 recipes, 2 tokens, 2 minting attempts | `RevocationIsFinal`, `TokensReachOneRecipe`, `PermanentUntilRevoked`, `AnswersAreCurrent` |
| `safe_fetch` | 2 fetches of 5 URLs: names, an address, localhost, another scheme; lookups of allowed, refused, mixed and no addresses; 1 redirect, bodies to one past the bound | `OnlyJudgedAddresses`, `HopsInspectedAndBounded`, `AnswersAreRight`, `NothingSentLate`, `FetchesEnd` |
| `ingest` | 2 requests, a photograph, a link, a picture, 2 snapshot ids | `AcknowledgedImportsHold`, `RefusalsPersistNothing`, `WhatIsReferredToIsKept`, `MediaIsDeclared`, `BillingBounded` |
| `ingest_carry` | 2 requests, a link with a picture | **violated**: a reprocess that overlaps an import loses the picture (finding 2) |
| `pages` | 1 reader, 2 recipes, 1 picture put piece by piece and put again, new versions, plans, upgrades | `NothingHeldIsMissing`, `CookingFollowsTheRecipe`, `KeptPicturesAreServed`, `RecipePageOutlivesItsSource` |
| `pages_plan` | 1 reader, 1 recipe | **violated**: an unreadable plan takes the recipe with it (finding 3) |
| `server` | 1 process, every environment that is whole or wrong in one place, 2 migrators of 3 files, 2 clients that query, ask a model and hang up, a pool of 1 | `StagesAreBounded`, `ListeningMeansReady`, `StoreOutlivesClients`, `SchemaIsTheLedger`, `NothingIsCut`, `StopEnds` |
| `documents` | 7,694 pages, sources and recipes, and every reply and draft of a model the families below name | `PagesAreReadForWhatTheyDeclare`, `BlockIdsAreContents`, `KeptRecipesAreQuoted`, `PlanIsTheRecipe`, `PublishedAsStated`, `SurfacesAgree` |

Every property of a passing run has a mutant: a small, plausible mistake in one
mapped definition that makes TLC find the property violated in that very run.
The mutants stand beside the definition they would replace.

### Bounds, and why they are enough

* *Two or three callers.* The store's conflicts (two keys, two locks, one grant)
  are between two transactions, and of the four that `store_writes` makes only
  two run at once, since its pool has two connections: one may wait for another
  while the rest wait for the pool. The proofs do not depend on any number.
* *`MaxVersion` 1 or 2* (2 versions in `ingest` and `pages`). It stops new appends
  from being asked for, not those under way, so recipes get one version more per
  racing caller: enough for a taken ordinal, a plan of an older version, a
  listing that is out of date.
* *A pool of one* in `server` is the smallest that can be starved.
* *A file of two chunks* is the smallest that can be half written, and have a
  hole. A get of three chunks meets nothing a get of two does not.
* *One line a recipe* in `store_writes`: two versions are two rows, enough for
  each rebuild to hold one and wait for the other's, and for an append to leave
  a row behind a delete. `store_contract` has recipes of two lines and of none.
* *One picture* in `pages`: no step looks at two.
* *One reader of pages*: readers write nothing and cannot meet each other.
  `Plain` recipes are only ever listed: they have no picture, no plan and no
  upgrade, and are what makes the library's list longer than one.
* *`MaxAttempts` 2*, of a model and of the minting loop: a first attempt and a
  last one. `MaxBytes` 1 is a reply within the bound or past it.
* *`MaxRedirects` 1, `MaxBytes` 1, `MaxBody` 2 in `safe_fetch`*: a chain that may
  be followed and one that may not, a body of the bound and one past it. Two
  fetches are enough to inherit each other's connections; each fetch is made
  once.
* *`LastFile` 3* are the migrations the repository has. `Instance` has one probe
  for each and assumes no more; `Migrate` is for any number.
* *`MaxWork` 2*: requests that clients make of one process, so that its pool and
  its drain meet more than one. *`HangUps`* lets a client leave before its answer.
* *`MigratorsRest`* (`MCInstance`): migrators run beside a process that starts, and
  rest once the port is bound. A process that serves has every table, so what a
  migrator could still do is to find nothing missing; that it cannot do more is
  proved without this bound.
* *`SomeEnvironments`*: whole, or wrong in one place, in every way the
  configuration tells apart. `ReadyBeforeListening` is proved for every
  environment.
* *The families of `MCDocuments`*: `PagesOfOne` (every shape of instructions, with
  authors and yields), `PagesOfTwo` and `PagesOfThree` (nodes in every relation
  of name and id, across scripts and graphs, one script malformed: two nodes
  agree, differ or say nothing, and a third may tie two groups), `PagesNested`
  (a recipe node with another in a graph of its own), `ModelSources`
  (a page that declares nothing, texts that contain the fence's key once or
  twice, a photograph; `MCReplies` and `MCDrafts` are what a model says of each), and recipes: `CookedRecipes` (one ingredient used, left
  over or split, a component used in every way, cues in or out of their
  sentence), `OddRecipes` (what names nothing, twice the same), `PicturedRecipes`,
  `PublishedRecipes` (every kind of duration, yield and author).
* *Model values* stand for documents, bodies, plans, digests and tokens: the
  code passes them on and tells them apart by equality.

Callers and requests are interchangeable and declared symmetric in runs without
temporal properties; recipes are where the instance treats them
alike. Deadlock is checked except in three runs whose work ends by itself:
`safe_fetch` (each fetch is made once), `documents` (one document each) and
`server` (work is bounded and a process that ended may stay down).

### Fairness

`PostgresStore`: weak fairness of a client's own statements and return, since a
statement that can run is answered or fails; strong fairness of `Connect` and of
the steps that wait for a lock (the insert of a version, `LockRow`, `ExtractAll`),
because the pool and PostgreSQL's lock queues serve waiters first come first
served; weak fairness of a rebuild's steps, `DeadlockAbort` among them, because a
circle stays until the server's deadlock check runs. Nobody must invoke
anything, and faults are never forced. `SafeFetch`: weak fairness of the timer (`Deadline`) and
of the loop's own step (`NextHop`), and of nothing else: servers, resolvers and
connections may be silent for ever, and `FetchesEnd` says that the fetch ends
nevertheless. `Instance`: weak fairness of the closing steps, of a handler's own
steps (`Answered`, `Verdict`, `Reply`), of the timer of a model call (`Timed`) and
of the server's own keep-alive timer (`KeepAliveEnds`); strong fairness of
`Connect`, the pool's queue. No client must send or hang up, no model must
answer, nobody must send a signal, and `StopEnds` is about a stop that was asked
for. Imports, handoff, pages and documents have no waiting of their own and no
retry without a bound, so no liveness is checked of them.

## 4. Findings

1. **A rewrite is not a no-op** (`bytes_rewrite`).
   `filesystem-byte-store.ts:53-54` calls writing the same bytes again "a
   deterministic no-op rewrite". `writeFile` truncates first: a second put that
   fails or dies half-way leaves the file of an earlier, acknowledged put empty
   or cut short. For the same reason a get that overlaps a second put may
   answer part of the content; `WhatIsReferredToIsKept` therefore excepts
   contents that were put again (`reput`).
2. **A reprocess can lose the picture** (`ingest_carry`). `reprocess.ts:27-29`
   promises that "re-converting a stored source keeps its picture". The picture
   of the previous version is read before the append; a reprocess of a snapshot
   whose import is still under way reads that there is none, and appends after
   the import did.
3. **An unreadable plan costs the recipe** (`pages_plan`). `pages-app.ts:358-359`
   says that losing the plan "must never take the recipe with it".
   `loadCookingPlan` is awaited outside the `try` that degrades to the recipe
   page, and validates the row it read: a read that rejects, or a plan stored
   under an older contract, answers 500.

Met while modelling, without a run of their own; the models do what the code
does:

* `html-to-text.ts:50-56` says that its line breaks keep a quote from reaching
  across two of them. `normalizeForSupport` folds a line break into a blank, so
  that a quote may span two lines of the page, and ADR-0019:229-242 accepts it.
  The two places that `KeptRecipesAreQuoted` keeps apart are two pieces of
  evidence, not two lines.
* A `HowToSection` whose `itemListElement` is one object and not a list loses its
  step (`url-jsonld-adapter.ts:351-356`), and so does a list within a list; the
  page still counts as read, against "one instruction block per step"
  (`url-jsonld-adapter.ts:374-376`) and the partial import that 446 and 470-471
  rule out. `PagesAreReadForWhatTheyDeclare` asks for every other step
  (`WellListed`) and says nothing of these; `SomeInstructions` has one of each.
* A recipe node with a name and one with the same id and no name count as two
  recipes: names are compared first, and ids tell apart only nodes of one name
  (`SameRecipe`).
* A put of a picture that is there already empties its file, and one that stops
  half-way leaves a cut image: it begins as an image does, so
  `GET /recipes/:id/picture` answers it as one (`pages-app.ts:333-339`). It is
  finding 1 as a reader meets it, and why `KeptPicturesAreServed` asks for whole
  bytes only of pictures not put again.
* The inventory of a page of several recipes is grouped by name
  (`url-jsonld-adapter.ts:237`) and not always in the order it emitted them.
* A required field that is not empty but cannot be read counts as there.
* Support is containment: "50 g" is found in "250 g".
* An amount stated of one portion of a split is not shown by `splitRow`.
* A blank author is dropped without being listed as omitted.
* `derive.ts:203-204` and `cooking-plan.ts:115-117` speak of what "no earlier step
  produces"; what is compared is the needing step alone.
* `validate.ts` does not check that a payload pointer leads anywhere.
* `instance.ts:195` says that calling `stop` twice is safe; the second call rejects,
  because `server.close` reports a server that is not running (`main.ts` calls it
  once). `instance.ts:111-112`, "released after the last in-flight
  request", holds for clients that wait (`StoreOutlivesClients`) and not for
  handlers whose client hung up (`StoreOutlivesRequests` states the sentence).
* Two migrators that race may both be told that the database was "not built by
  these files in order" while it is, because sentinels are read one by one.
* A statement has no timeout of its own, and a client that keeps its connection
  alive prolongs a stop until the keep-alive timer ends it.
* The merge gate's `already-current` path (`merge-gate.ts:140-151`) exits 0 without
  running the gate and relies on the jobs of the head itself, which
  `docs/repository-protections.md:44` does not require; an up-to-date head always
  takes that path.

## 5. Proofs

Proved for every number of callers, versions, chunks, tokens, files and clients,
from the named assumptions on the constants only (TLC evaluates those in every
run). The inductive invariant of each is called `IInv`; `StagesAreBounded` has
one of its own, `StageInv`, that of the migrators is `MigrateInv` and that of a
document `DocumentsInv` with `DeclaredInv`. Each module of proofs is checked in
seconds to about three minutes, `DocumentsProofs` in about twenty.

**`PostgresStoreProofs`.** `ProjectionAgrees` and `VersionsNumbered` are not
inductive: they say nothing of transactions under way. `IInv` adds what an open
transaction knows. A chosen ordinal follows on committed ones
(`ChosenOrdinalsFollow`); a key inserted and not committed is nobody else's
(`UncommittedKeysFree`); rows extracted are the document's (`ExtractedRows`);
rebuilds delete disjoint rows that are still in the table and, once they
extracted, write back exactly what they deleted (`JobRows`). The last is the
heart: an append that commits between a rebuild's delete and its extraction
makes the extraction clash on a key, so that a rebuild that reaches its commit
changes nothing. None of it depends on the order in which rows are locked or on
who is ended to break a circle. From `StoreInvariant` follow `StoreTyped`,
`VersionsStayNumbered`, `ProjectionNeverDisagrees` and, as action properties,
`RebuildsChangeNothing` and `VersionsAreAppendOnly`. `AcknowledgedAppendsStay`
and `DigestsAreMintedOnce` each have an invariant of their own about the calls
under way that were told so by the database already (`AppendsHeld`,
`MintsHeld`), and `PlansKeepTheirVersions` and `GrantsNeverRevive` are
inductive beside `IInv`. The proof has one lemma per action of the append and
treats every other step as one that leaves documents alone (`QuietStep`).

`StoreImplementsContract` is the refinement. The mapping takes the committed rows
of a recipe, in ordinal order, for its versions (`VersionsOf`) and the other
tables as they are, so that a transaction maps to the one step of its commit and
everything before it, and everything a rebuild does, to a stutter. `SameAnswers` says that both modules name answers alike;
`RowsInOrder` and `CommitFollowsLast`, from `IInv`, that the row a commit makes
visible is the next version of the recipe, which is where the contract's append
and the store's `max(version) + 1` meet.

**`ByteStoreProofs`.** `IInv` says that whoever truncated a file last is writing
it until that put is over, that a file being written is there, and that a
reader still owed an answer reads a whole file nobody writes. Hence
`CompletedPutsLeaveWholeFiles` - a slower, overlapped put that finishes after
the last truncation cannot hurt, since it writes the same bytes in place - and
`CalmGetsAreRight`.

**`HandoffProofs`.** `IInv` is the types, `GrantsKept` (a grant stands until its
end was asked for, and reaches the recipe it was handed out for) and one
predicate `Sound` on every request, which says of each stage what must be so
for the answer to be right. `Sound` survives every step of others because the
stores only grow (`Grows`); each action then has to establish it for its own
request only. From it: `RevocationHolds`, `OneRecipePerToken`, `TokensAreKept`,
`NoFalseMiss`, `NothingStaleIsServed`.

**`SafeFetchProofs`.** `IInv` is the types, `OnlyJudgedAddresses` and a predicate
`Sound` on the record of each fetch: at each stage, how many requests were sent
for the redirects followed, and that a request under way is to an inspected URL
at an allowed address. `HopsInspectedAndBounded` and `AnswersAreRight`
follow from `Sound` alone. A step writes one record, so
`UpdateKeeps` reduces each action to the record it writes; only `Connect` adds a
connection, and `PinnedIsJudged` says what it leads to. From it:
`NoAddressUnjudged`, `HopsAreInspectedAndBounded`, `AnswersAreWhatTheySay`. For
`NothingGoesOutLate` one more invariant, `LateBetweenHops`: a fetch that is late and
not over is between two hops, where the next request rejects. What
the theorem needs of the address policy is nothing but that `CodeOf` decides
which ranges are allowed: `RangeOf` is any function.

`FetchesRunDown` is the half of `FetchesEnd` that needs no fairness, for every
bound on redirects and any number of fetches. `Left` counts what the loop and the
timer of a fetch still have to do at most, four for each hop left: it is a natural
number, no step of anybody, its own servers included, makes it larger, and each
step of its loop (`NextHop`) or timer (`Deadline`) makes it smaller. A fetch
therefore cannot be kept going by redirects, slow answers or late connections; that
the two are taken while something is left is fairness and ENABLED, and is TLC's.

**`IngestProofs`.** `IInv` is `StoresSound` (types, what each snapshot and version
may hold and refer to), one predicate `Sound` on every request and `ApartFrom` on
every pair. `Sound` has four parts: the fields a stage has filled (`Shape`), the
stages paid for (`Spent`), what the request has put into the repository
(`Placed`) and into the byte store (`Bytes`). A step of one request leaves another's `Sound` alone because the
stores only grow and a kept file is spoiled by nothing but a put of the same
bytes (`Grows`), and because it touches no snapshot of another import (`Spares`):
`ApartFrom` says that no two imports have one snapshot id. From it, the run's
five properties.

`SettledPicturesStay` draws the line that finding 2 lies beyond. A picture is
`Settled` once it is the latest version's and no request about to append to that
snapshot recalled another answer before. From there on, whatever other requests,
failures and crashes do, "re-converting a stored source keeps its picture" holds:
every later request recalls that picture, every append carries it. What the
sentence leaves out is the one request that recalled before there was a version.

**`PagesProofs`.** `IInv` is the library's types and `Sound`: where a request may be
(`Routed`), what it has read so far (`Informed`) and that its answer is right
(`Truthful`). Writers only add (`Grown`), except an upgrade, which may make rows
unreadable but ends every request as it restarts the process. `KeptPictures`
says that a picture some version names has been put to its end, and that its
file stays whole unless it is put again: a picture appears in a version before a
reader can ask for it, so a request that found no bytes, or cut ones, is one for
bytes put again (`OnlyWholePictures`). From it, the run's four properties.

**`InstanceProofs`.** Of the migrators alone first, by `MigrateInv`: the tables
gain only a file whose predecessors are there (`Applies`), so what a migrator
read stays true while others apply theirs (`Known`); `NextFileIsFirst` and
`CommitsInOrder` are why a commit keeps that order. A database that these files
did not build needs the other half: nothing is ever applied to it, so every
migrator reads exactly what is there and refuses (`Refused`). That proves
`SchemaNeverLies` of `MigrateSpec`. Beside a process the schema is changed by
migrators alone (`SchemaAlone`), hence `SchemaBesideAProcess`. A process that
serves has passed every probe (`Ready`), and tables do not go away:
`ReadyBeforeListening`. That a client which waits holds its connection to an
open process (`Connected`) gives `StoreIsThereForClients` and `OnlyCrashesCut`;
`StagesStayBounded` is `ModelCall`'s own invariant, of any number of callers.

**`DocumentsProofs`.** Here the steps are few and the functions large, so the
weight is the other way round. `DocumentsInv` says what is known at each stage:
each block of a snapshot is a run of what a reader of the source sees, with the
id its content gives it (`ReadOff`); a kept recipe passed every check against
that very snapshot (`Supported`); a plan, and all that is shown, are what the
functions make of the recipe, which the contract admits (`SubjectsAssumption`,
the one assumption: what a page or recipe is, `IsPage` and `IsCanonicalRecipe`).
The properties then follow stage by stage from what the functions compute on
lists of any length, and the first chapter is lemmas on that: a list of lists
joined is cut again at known places, what is picked keeps its order, counts add
up. Each property has a chapter.

* `IdsAreContents` (`BlockIdsAreContents`): blocks with the same content are told
  apart by their number among equals, so ids are one to one with the pairs of
  content and number; reversing a list maps the pairs onto themselves, and a
  block that goes takes from its equals only the last number.
* `KeptIsQuoted` (`KeptRecipesAreQuoted`): a claim folds to a run of what its
  evidence folds to, and that evidence is a block, which folds to a run of what
  a readable text folds to, or a leaf of the page's own recipe node. Runs of
  runs are runs, and evidence is never joined.
* `PlanFollows` (`PlanIsTheRecipe`): a unit's needs are its step's uses sorted by
  kind, so the number of needs of each kind is that of its uses; a cue is
  counted once in `startNow` because it is collected from its own unit alone.
* `PublishedIsStated` (`PublishedAsStated`): an exact duration in tenths of a second
  is a whole number of seconds or is left out; times, ingredients, steps and
  yields are each published or recorded as omitted, never both.
* `SurfacesTellOneStory` (`SurfacesAgree`): page, cooking view and published recipe
  all number the steps of the same sections in the same order, so what each
  shows of the n-th step is compared use by use and cue by cue.
* `PagesAreReadSo` (`PagesAreReadForWhatTheyDeclare`): the nodes grouped by name or
  id are told by one node per group and id (`Told`), each at a place of its own,
  so the recipes of the nodes in either order map one to one into each other and
  are as many. `DeclaredInv` (`DeclaredHolds`) carries the reading on to the stages
  behind it: several recipes are refused whatever a model would say, and a kept
  payload is the page's own, whose blocks are its fields in order. Each step
  comes from an instruction of its own (`StepsAreElements`), and of two that say
  something the one before is before it in the first list where their paths part
  (`SaidApart`), since an object that says something has no list of steps in it. Values may
  hold lists in lists and graphs in graphs, as deep as they like.

Only model-checked: liveness (`CallsAndRebuildsEnd`, `FetchesEnd`, `StopEnds`), since
fairness and ENABLED are out of the prover's reach. `FetchesRunDown` proves the
part of the second that is about safety: no step gives a fetch more to do.

## 6. Not modelled

* *A failed statement that takes effect after its caller was told*: node-postgres
  rejects when the connection is gone, and the server ends the statement with it
  or had finished it, which is `LoseReply`.
* *Losing the page cache* in a power cut: the code never calls `fsync`, and a
  model of the file system below would be one of the volume, not of Cookframe.
* *SHA-256 collisions, credential comparison, cookies*; the bit patterns of address
  ranges, which are a constant (`RangeOf`) of `SafeFetch`: only which range is
  refused with which reason is modelled.
* *Tokenising HTML and parsing JSON*: a page is its scripts' values and its text
  as symbols. *Upper and lower case and Unicode forms*, which the checks fold
  away before they compare. *The coverage score* of an extraction, which only
  words an error.
* *Markup, escaping, layout, style and wording*: the renderers are modelled down to
  the rows a reader sees. *Fields of the schema that nothing in `src/` reads.*
* *The Bring link* (`shopping/bring-handoff.ts`): one URL built from a constant.
* *The merge gate* (`scripts/merge-gate.ts`): tooling of the hosting; what it decides
  rests on branch protection and on which jobs a head has run, neither of which
  is in the repository's code.
* *Prompts, the Shortcut, spikes, evaluations, deployment scripts*: not part of
  the running program.

## 7. Plan

Every component of the running program is modelled. In order of what they would
add:

1. A file system under `ByteStore` that loses what was not synced, once the code
   calls `fsync` or the volume's promise is written down.
2. The tokeniser of `html-to-text.ts`, as an automaton over the characters that
   open and close a tag.
3. Findings, when they are settled: each becomes a property of its passing run.
