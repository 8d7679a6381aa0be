# A TLA+ model of mcp-memory-server

This directory holds the verification project of the MCP memory server: TLA+
modules translated from the Go source and the SQL it runs, TLC configurations
that check them on small instances, and TLAPS proofs of the properties that
matter most, for instances of any size. Source paths below are relative to the
repository root. `PROJECT.json` maps every definition to the lines it stands
for, lists the hazards of the code line by line with the properties that cover
them, and names for every property a plausible bug that makes it fail.

    tlc -config EventBus_streams.cfg MCEventBus     # one run
    tlapm EventBusProofs.tla                        # one set of proofs

## 1. The system

The server is one Go process in front of one PostgreSQL database. It offers a
knowledge graph (entities, observations, relations, an audit trail) to LLM
clients over MCP and to its owner over web pages.

| component | state it keeps | operations | talks to |
|---|---|---|---|
| event bus, `internal/event/bus.go` | registry project -> id -> channel of 16 events, id counter | Subscribe, the unsubscribe closure, Publish | every use case publishes after a mutation |
| SSE handler, `delivery/http/events.go` | one goroutine per stream | greet, subscribe, forward, leave | the bus; a browser |
| repository, `internal/repository` | the tables `memory_entities`, `memory_observations`, `memory_relations`, `memory_history` | create, import, relate, rename, edit, delete, log; reads | PostgreSQL, through a pool, READ COMMITTED |
| memory use case, `internal/usecase` | none | normalise, embed, call the repository, publish | repository, Ollama, bus |
| checkpoints, `usecase/checkpoint.go` | two entities per project: the active checkpoint and the breadcrumb trail | SaveCheckpoint (four transactions), SessionBootstrap (reads and one log row) | repository, bus |
| chat, `usecase/chat.go`, `chat_execute.go` | conversations in a map, one mutex for the map and one for each conversation | SendMessage (LLM turns and tool calls), GetHistory, ClearConversation, hourly eviction | LLM gateway, memory use case |
| chat page, `delivery/http/chat.go` | a session counter; a cookie in the browser | page, send, clear | chat |
| OAuth server, `delivery/http/oauth.go`, `authorize.go`, `token.go` | registered clients and authorization codes, in memory under one mutex | register, authorize, exchange a code, refresh, client credentials | remote MCP clients |
| login session and bearer check, `middleware.go`, `auth.go` | none: signed cookies and signed tokens | log in, log out, gate `/oauth/authorize`, accept a token at `/mcp` | browsers, MCP clients |
| backup scheduler, `internal/backup` | files in a directory | start, export, write, prune | repository, file system, cron |
| backfill, `cmd/server/main.go` | none | embed the observations without a vector | repository, Ollama |
| search, statistics, dashboard | none | queries | PostgreSQL |
| MCP tools, web pages, router, configuration | none | decode, one use-case call, format | use cases |

What makes this code hard is where actors meet: publishers that send to
channels another goroutine closes; transactions that read a value, wait for a
lock and then write; a save made of four transactions; conversations whose lock
is released while the LLM thinks; codes taken under a lock and judged outside
it; backups that overlap and prune from old listings; restarts that clear
everything in memory while clients keep cookies and tokens.

What correctness means, component by component:

- **bus**: a stream gets the events of its own project, each at most once, in
  the order of calls that do not overlap, and misses one only if its channel
  was full at that moment; publishers never wait; the registry holds exactly
  the open streams; nothing panics.
- **repository**: any reader sees a well-formed graph whose relations stay in
  one project; a call is all or nothing, and durable once it returned; the
  trail agrees with the tables; every request ends.
- **checkpoints**: the active checkpoint is whole at every moment, and for every
  reader whose results were not cut off; breadcrumbs and the log account for the saves.
- **chat**: a browser is shown the answers to what it sent, nothing of what it
  cleared, and nothing of another browser; the transcript the LLM gets has each
  tool call followed by its replies; every request returns.
- **OAuth**: a code is good for one exchange by one client; every token goes
  back to a decision of the logged-in user; only fresh access tokens open
  `/mcp`; a client with a valid refresh token is never sent back to the login.
- **backup**: an export contains all that was stored throughout it; pruning
  keeps the newest files; what a successful run saved can be restored.
- **search and embeddings**: a search answers even if the embedder does not,
  finds what matches word for word if its results were not cut off, and shows under an entity only what was
  said of it; a stored vector is that of the content next to it; the backfill
  never undoes an edit, and ends.

## 2. Modules

| module | models | extended by |
|---|---|---|
| `Broadcast` | what the bus promises, without its mechanism | `BroadcastProofs`; instantiated by `EventBus` |
| `EventBus` | bus and SSE handler | `MCEventBus`, `EventBusProofs` |
| `PgRows` | row versions and visibility under READ COMMITTED (external) | instantiated by `MemoryStore` |
| `MemoryStore` | the repository's mutations, the use cases as plans, checkpoints | `MCMemoryStore`, `MemoryStoreProofs`; that one by `PlanProofs` |
| `Chat` | chat page, conversations, LLM loop, evictor | `MCChat`, `ChatProofs` |
| `OAuth` | OAuth server, login session, bearer check | `MCOAuth`, `OAuthProofs` |
| `Backup` | scheduler, export, pruning | `MCBackup`, `BackupProofs` |
| `Search` | search request, writes that embed, embedding backfill | `MCSearch`, `SearchProofs` |

The `MC*` modules only give small instances: seeds, menus of requests,
symmetries. `Bounds` of a module are the constants named `Max...`; they appear
in guards, never in a property's favour. Definitions named after a property's
failure ("mutant of X" in their comment) are changed versions of the definition
that follows them; they are used by nothing in the module.

### EventBus

`subs`, `topics`, `nextID` are the fields of `Bus`; `buf` and `closed` the
channels by stream id; `conn[c]` an activation of `ServeHTTP`, `pub[p]` one of
`Publish`. Subscribe and unsubscribe are one step each, because the whole of
them runs under `mu`. Publish is three kinds of steps: the timestamp (`Stamp`),
the copy of the channels under the read lock (`Snapshot`), and one `Send` per
channel of the copy, in any order (a map iteration). A channel send is either
`Buffer` or `Drop`, the two branches of the `select`; on a closed channel it is
`SendPanics`, and `Recovered` is what net/http then does. A handler greets,
registers, then alternates `Receive` and `WriteFrame` until the client
disconnects; the select may prefer either branch. The heartbeat is left out.
`sent`, `lost` and `log` are history.

### Broadcast

The contract, seen by someone who knows no channels: a call announces an event
(`Announce`); while the call lasts each open stream of the event's project is
given it (`Give`) or loses it (`Lose`), once; `Finish` ends the call when every
stream that was there before it has had its turn; `TearOff` is the panic.
`EventBus!ImplementsBroadcast` is `Broadcast!Spec` under a refinement mapping:
`given[s]` is what the client was sent, then what the handler holds, then what
is in the channel; `ongoing` the events of the publishers under way; `open` the
streams whose channel is not closed. Receiving and writing are stutters.

### MemoryStore and PgRows

One action is one SQL statement of one transaction. A request runs a *plan*, a
sequence of repository calls, each in a transaction of its own; all plans but
two have one call. `SaveCheckpoint` has four, `SessionBootstrap` reads and logs.
A table, the audit trail included, is a set of row versions with the
transaction that inserted (`by`) or removed (`gone`) them while it is open. A statement sees what is committed when
it starts, waits while another open transaction holds a row it must lock or a
key it must insert (`Blockers`), and then acts on the rows that are still
there; statements where the difference between the two moments matters are two
actions (`SnapObservations`/`ClearObservations`, `SnapEntities`/`Cascade`). An
UPDATE that leaves the name of its row as it was takes no lock on the key, as
PostgreSQL does (`KeepsName`). Four assumptions on the constants:
`PlanAssumption` says that the requests make calls of the repository, with
finite lists of things to create, and log what the two callers of LogHistory log;
`SaveAssumption` that only `SaveCheckpoint` replaces observations or logs a save
(`usecase/checkpoint.go:57` and `:96` are the only places that do); `NilAssumption`
that NULL is no id; `SeedAssumption` that the initial rows are ones the schema
accepts.
`Deadlock` and `Abort` fail a call anywhere: a cancelled context, a lost
connection, a detected deadlock. `CommitTx` may commit and still fail the
request, for the answer to a COMMIT can be lost. Simplifications: a statement
takes all its locks at once; tags, confidence, embedding, attribution and
timestamps are left out; Import writes no history and passes over relations
without a type, as in the code.

`ReadGraph` is two statements of the plan of `SessionBootstrap`. Its loops over
the rows end when `Next` is false, and `rows.Err` is asked nowhere
(`graph.go:126`, `:146`), so either result may be cut off and pass for a whole
one: the request goes on with any part of the rows, and `cut` notes it.

### Chat

`convs` is the map and `msgs`, `lock`, `stale` the fields of each conversation
(a conversation is a pointer: a request may hold one the map no longer has).
Each critical section of `SendMessage` is an action: `Lookup`, `Enter`, one LLM
answer (`LLMFails`, `LLMAnswers`, `LLMCalls`), one action per tool call
(`Tool`, `ToolPanics`), `ToolsDone`, `Copy` of the messages for the next turn.
`GetHistory` is `Show`, the lookup, and `Filter`, which takes the set of messages
a page shows (`shown`); `Respond` ends the request and may give the browser its
cookie. A message keeps its role and the send it belongs to. Eviction is two
steps under the map's lock: it reads LastAccessed without the conversation's
lock, so a request may touch the conversation before it is deleted.
A panic of a tool leaves the conversation's mutex locked: `lock` is
"poisoned". `Restart` ends all requests and resets the counter; cookies stay.

### OAuth

`registered` and `codes` are the maps of `OAuthService`. Authorization is a
gate and an insertion, exchange is `Take` (one critical section: look up,
delete, check the expiry) and then `Exchange` or `Refuse`. Tokens and the login
cookie are signed, so they are kept by their holders: `tokens` is all that
exist, `held[c]` the refresh token client c keeps, and a lost answer leaves the
old one (`heard` is FALSE). Anyone may present any token of those (`Kept`) for a
refresh, in the name of any client or of none; one that is no refresh token, has
expired or belongs to another client is refused. `spent` is history: the codes
that were presented, and those in the map when the server stopped. Comparisons of secrets, redirect URIs and PKCE
verifiers pass or end the request. `Tick` drops what has expired; `Restart`
clears clients, codes and requests.

### Backup

The graph is a set of rows changed by other requests. `run[r]` is an activation
of `RunOnce`: three export queries, the file name taken from the clock
afterwards, open (which truncates), write, list, remove one by one. Each can
fail; `Restart` cuts every run short because main does not wait for the
scheduler. The cron expression only decides when a run starts: any time.
`stable` and `safe` are history, rows stored since before an export began, and
so is `saved`, the last file that had all of `safe`. A
query result may be cut off (`Reads`): the loop over the rows ends when `Next`
is false and `rows.Err` is asked nowhere, so a lost connection looks like the
last row (`export.go:80`; `cut` notes it).

### Search

`entities` and `observations` are the two tables as far as a search looks at
them: a name is a word, a content a set of words, a vector the content it was
computed from or `NoVector` (NULL). `write[w]` is a use-case write: it embeds
first (`WriteEmbeds`, or `WriteGoesWithout` after an error or five seconds) and
then commits in one step (`CommitWrite`; the statements of that transaction are
in `MemoryStore`). `search[s]` is a search: embed, rank in one query (`Rank`,
at most `Limit` of the rows that match; the score only decides which), then
read what each row holds in queries of their own (`Fetch`), then answer. None of
these loops asks `rows.Err` (`search.go:102`, `:142`, `:174`, `main.go:145`): the
ranking, what a row holds and the backfill's batch may each be any part of the
rows there are, and count as all of them; `cut` notes it. A query that fails
before its first row may end the search with an error (`SearchFails`). A blank
query matches nothing word for word and may still match by its vector. `fill` is the process started with `-backfill-embeddings`. An edit without a vector
keeps the old one (`Edited`), as the SQL does. `had`, `calm`, `cut` and `unembedded`
are history: what was stored while a search ran, which entities nobody changed
meanwhile, which results were cut off, which observations were last edited
without a vector. Scores,
filters by type and tag, relations of a result and `last_accessed_at`, which a
search sets and only scores read, are left out.

## 3. Runs

| run | instance | checks |
|---|---|---|
| `bus_streams` | 2 projects, 2 connections, 2 streams, 2 publishers, capacity 1, 2 events | IInv, ProjectIsolation, NoSilentLoss, ImplementsBroadcast |
| `bus_live` | 2 connections, one of them prompt, 3 streams, 1 publisher, 2 events | PublishReturns, BufferedIsWritten, GoneIsReclaimed |
| `bus_panic` | 1 of each | NoPanic is violated |
| `store_graph` | 3 requests out of 10 plans, 2 projects | TypeOK, GraphWellFormed, RelationsWithinProject, DoneIsDurable |
| `store_notes` | 2 requests out of 12 plans on one checkpoint and one note | DeletedStaysDeleted, ContentIsAudited, ActiveComplete, BootstrapSeesASave, TrailAccounts, CreationsAreReal, EveryRequestReturns |
| `store_blend` | 2 saves | ActiveIsOneSave is violated |
| `chat` | 2 browsers, 2 overlapping requests, 3 sends, 2 turns of 2 tool calls, one eviction, restart, clear or page | TypeOK, LockIsHeldByOne, PromptsWellFormed, AnswersAreShown, ClearedIsGone, SessionsApart, RequestsReturn |
| `oauth` | 2 requests, 2 scopes, 2 codes, 2 tokens, 2 ticks | IInv, CodesAreSingleUse, TokensAreGranted, AccessIsRecent, StaysConnected |
| `backup` | 2 runs, 3 seconds, retention 2, 2 changes, 1 failure | ExportHasTheStable, SafeIsRestorable, DiskIsBounded, PruneKeepsNewest |
| `backup_cut` | 1 run, 1 stored entity, 1 failure | ExportsAllData is violated |
| `search` | 3 entities in 2 projects, 3 observations of which 2 have no vector, 2 writes, 1 search, the backfill in batches of 1 | TypeOK, VectorsAreFresh, SearchIsExact, ResultsAreOfTheEntity, EditsStand, SearchReturns |
| `backfill` | the same tables, 1 write, batches of 2 | BackfillEnds is violated |

Why these bounds are enough to meet the interesting cases:

- **Bus.** Every race of the bus is between one stream and one or two
  publishers. Capacity 1 makes a full channel common; with the event in the
  handler's hand and the one in the channel a stream holds two at once, which
  is what the order of events needs. The registry needs a second stream and a
  second project. `bus_live` gives one connection two streams in turn next to
  one that never reads.
- **Store.** The races are between pairs of statements; a third request lets one
  wait for another that waits for a third, and lets a fresh reader see what two
  left behind. Menus contain every repository mutation, calls that lock in both
  orders (deadlock) and calls on the same name in two projects. Failures cost
  nothing and happen everywhere.
- **Chat.** Two concurrent requests and a third send reach each side of each
  lock; two turns with two calls contain a complete call/reply round followed by
  another, and the turn limit. The runs start with a session that has chatted
  before and whose conversation was evicted (`ReturningInit`), the shortest way
  to two requests in one session.
- **OAuth.** Two requests race for one code; a second code and scope tell grants
  apart; lifetimes 1 and 2 order the expiry of access and refresh tokens.
- **Backup.** Retention 2 with three names makes pruning happen; two runs
  overlap in every order; one failure or restart leaves a partial file, or a cut-off result.
- **Search.** Two writes and one search meet in every order of their steps; the
  ten requests of the menu contain every write that embeds, imports, renames,
  deletes or forgets, two edits of one observation, and edits of one the
  backfill has read. A limit of 2 among three entities cuts. Each result may be
  cut off anywhere, its first row included; failures of this kind need no bound.
  A batch of 1 leaves a second one to read; in `backfill` a batch of 2 takes
  all there are.

Deadlock is checked in the store, OAuth and backup runs. Bus, chat and search
runs end when their bounds are used up and say so in their `.cfg`.

### Fairness

- `bus_live`: publishers are fair: `PublishReturns` must not depend on a
  client. Of the handlers only those in `Prompt`, whose clients read, are fair:
  weakly in registering and writing, strongly in each case of the `select`,
  because Go chooses at random among the ready ones. There is no write timeout,
  so the other connection may hang in a write for ever, and neither the
  publisher nor the first client may notice. Disconnecting is never fair;
  whether a client leaves is up to it.
- `store_notes`: weak fairness of each request's statements. PostgreSQL grants a
  lock when its holder ends, and detects deadlocks.
- `chat`: weak fairness of the evictor, strong fairness of each request: Go
  mutexes do not starve a waiter, and an LLM call answers or times out after
  120 s (`gateway/llm.go:163`).
- `search`, `backfill`: weak fairness of writers, searchers and the backfill.
  The embedder of a request is not fair: `embedTexts` gives up after five
  seconds (`usecase/memory.go:72`), so `SearchReturns` must hold if it never
  answers. The embedder of the backfill is assumed to answer, and the
  backfill still does not end.
- OAuth and backup have safety properties only and no fairness.

### What disagrees with the documentation

Four runs look for a statement of the repository and find it violated:

1. `bus_panic`: "Safe for concurrent use" (`event/bus.go:27`). Publish sends to
   channels it copied before releasing the lock; a stream that leaves in between
   closes its channel, and the publishing request panics after its mutation was
   committed. In a chat this is the tool panic that leaves a conversation locked.
2. `store_blend`: a checkpoint save "must completely replace previous
   observations". Two overlapping saves of an existing checkpoint keep the
   observations of both.
3. `backup_cut`: "exports of all memory data" (`backup/scheduler.go`). A query
   result that ends early because the connection is lost is taken for complete;
   the file lacks rows, the run reports success and prunes an older, complete
   file. `rows.Err` is not asked (`repository/export.go`).
4. `backfill`: "embed all observations with NULL embedding, then exit"
   (`cmd/server/main.go:32`). Each update is made with project "", which no row
   has, so it finds nothing; the error is logged, the rows stay as they are, and
   the next query returns the same batch. `SearchProofs` proves that the
   backfill never stores anything, whatever the tables hold.

Not worth a run of their own, but at odds with a document: an edit whose
re-embedding failed keeps the vector of the old content, where
`docs/plans/2026-07-05-ai-memory-quality-phase2-design.md:18` says "embed error →
NULL embedding" (`VectorsAreFresh` excepts it by `unembedded`); `Import` stores
no vectors, although line 66 of that document lists it among the writes that
embed; `UpdateObservation` reads the old value before it waits for the row lock,
so of two concurrent edits the second records a value that it did not replace,
in what `docs/plans/2026-07-05-versioning-design.md:8` calls the audit trail of
observation contents (`ContentIsAudited` is about the new values only).

## 4. Proofs

The proof modules prove, for any constants that satisfy the named assumptions of
the modules they are about, that the properties hold in every reachable state.
TLC checked each property first, in the runs above. Every one is of the same
form: an inductive invariant as a conjunction of named parts, one lemma or step
per action, below it one step per part that the action can disturb.

**EventBus** (`EventBusProofs`). The goals are `TypeOK` (no channel beyond its
capacity), `RegistryExact` and `ProjectIsolation`. None is inductive.
`ProjectIsolation` needs to know that a publisher's copy of channels, made
earlier, only holds ids that belonged to the event's project (`CopiesMatch`),
and that an id never changes project (`topics`). `RegistryExact` needs that each
handler past Subscribe owns an id that is open and registered under its project
(`HandlersOwn`) and that two handlers never own one id (`OneOwner`): otherwise
one's unsubscribe would take the other's entry. Their conjunction is `IInv`.
Theorems: `InductiveInvariant`, `TypeCorrect`, `RegistryCorrect`,
`ProjectsIsolated`.

**Broadcast** (`BroadcastProofs`). From the guards of the abstract specification:
projects are isolated, no event is given twice or after it was lost, two events
are out of order at a stream only if their calls overlapped, nothing is lost
silently (`Promises`).

**The refinement** (`EventBusProofs`, second part). Every step of the bus is a step of the
broadcast or a stutter (`BusImplementsBroadcast`). The bus's own invariant is not
enough: that a publisher's send is a *first* turn of that stream needs that no
two publishers hold one event (`DistinctEvents`) and that no stream still in a
publisher's copy has had the event (`Untouched`); that a call ends only after
everyone's turn needs that each stream of the project that was there before is
in the copy or has had it (`Covered`); that a new event is new needs that what
was had is in the log (`Logged`). The theorems about the broadcast are then
carried over by `Contract == INSTANCE BroadcastProofs`, without looking at the bus
again: `NothingLostSilently`, `StreamsRespectRealTime`, `GivenAtMostOnce`.

**Search** (`SearchProofs`). The tables: `Rows` (types, keys, references) and
`VectorsAreFresh` need each other only through the writers, whose vector is
that of the content they carry (`WritesTyped`); the backfill drops out because
no observation is found in project "" (`NothingInNoProject`), which is also
`BackfillStoresNothing`, the reason of the fourth finding. The searches: `Noted`
says that a search under way has noted all that is stored and that what it
found or shows was noted under that id, from which `ResultsAreTrue`; `Exact` says
of every entity that stayed as it was that it is found or listed only if it
matches, that it is listed once, with all it holds unless that read was cut off
and never with more, and, if it matches word for word, that it is found or listed
unless the ranking was cut off or the rows found and the answers together are
`Limit`, from which `AnswersAreExact`. Both survive a
change of the tables because ids are unique (`ChangeKeepsOne`). Theorems also:
`SearchTypeCorrect`, `VectorsStayFresh`, `EditsAreKept`.

**OAuth** (`OAuthProofs`). The goals are `TypeOK`, `CodesAreSingleUse`,
`TokensAreGranted`, `AccessIsRecent` and the action property `StaysConnected`.
Single use needs `CodeIsInOnePlace`: a code is in the map and never exchanged, or
in the hands of one request, or spent; and no code in the map is one that was
presented before or belonged to a server that has stopped. `TokensAreGranted` needs the same of codes
and of requests that carry a grant (`CodesAreGranted`); `AccessIsRecent` needs that
the expiry of each access token is bounded by the last issue to its subject
(`TokensAreRecent`). `StaysConnected` follows step by step from `TypeOK`: only the
expiry of what a client holds can empty `held`. Theorems: `OAuthInvariant`,
`OAuthTypeCorrect`, `SingleUse`, `Granted`, `Recent`, `Connected`.

**Backup** (`BackupProofs`). That an export contains what was stored throughout
it is proved from what each phase has read of the stable rows (`Exported`), and
that the stable rows of two runs are nested (`Nested`): the one that began later
has more. Pruning is proved from `Newer(n)`, at least Retention files are newer
than n: it holds of every file on a run's list when the list is made, and no
step takes it back, for what is removed has Retention newer files itself
(`Pruned`). So an old list removes nothing of the newest (`PruneKeepsNewest`),
and the last file that holds all that is safe, `saved`, is there until a newer
one is (`SafeKept`). `DiskIsBounded` needs a bound for every set of runs that are
pruning: what they leave is at most Retention files, one for each failure and
one for each run that is still to prune; it takes `IsFiniteSet(Runs)`.
Theorems: `ExportsTheStable`, `NewestAreKept`, `SafeStaysRestorable`,
`DiskStaysBounded`.

**Chat** (`ChatProofs`). What each action does to the request that takes it is
stated once, in lemmas on its fields; five invariants are then proved one after
the other. `Typed` (with a count of the lookups under way: every one of them
still has a conversation to make) gives `StateIsTyped`. `Locked`: a lock is held
if and only if a request runs tools under it, and two that do are one
(`OneHolderPerLock`). `Apart`: a browser uses a session if its cookie or a
request of it names it; only a first send gives it one, with a number above all
(`NoSharedSession`). `Cleared`: no message of a conversation in the map, and no
request that writes to it, belongs to a send that its session forgot, and a
request still in its lookup has said nothing yet (`ClearsLast`). `Followed`
follows a send: its conversation is that of the session, or a clear noted the
send, or the evictor the conversation; both messages are in it by the time they
are shown (`NoAnswerLost`). `Transcripts`: a conversation that nobody holds is a
well-formed transcript, one that is held lacks just the replies its holder still
owes; that it is not empty when the LLM answers comes from `Followed`, that no
one else writes to it from `Locked` (`PromptsAreAccepted`). The theorems start from
the empty `Init`, the run from a session that chatted before.

**MemoryStore** (`MemoryStoreProofs`), from `PlanAssumption` and
`SeedAssumption`, for any number of requests. The goals are `TypeOK`,
`GraphWellFormed`, `RelationsWithinProject` and `DeletedStaysDeleted`. They speak
of committed rows, and none is inductive: a statement acts on versions that are
not committed yet. The four tables have the same shape, so what Insert, Remove,
Commit and Rollback do is proved once, for a set of versions with given columns:
two versions that agree on a key are one, or a committed one and its replacement
(`Unique`); a column of an id never changes (`Fixed`); what a row refers to lives,
as seen by the row's own transaction, or goes in the same transaction
(`References`). The invariant `Inv` is the conjunction of

- `Tables`: versions have their columns, owners that are requests, ids taken
  from the sequence; nobody locks an uncommitted version;
- `Keys` and `ForeignKeys`: the constraints of `schema.sql` on all versions. A
  cascade leaves nothing behind because whoever inserts a row that refers to an
  entity holds FOR KEY SHARE on it, so the deletion waits (`Blockers`);
- `Apart`: a relation joins entities of one project, uncommitted ones included;
- `Erased`: once the trail has the deletion of an observation, the only version
  left is the one that the deletion holds;
- `Requested`: what a request may rely on between two statements: the ids it
  resolved belong to the project of its call (`InProject`), the observation it
  is about to write has a committed version if it has any (`Known`), and outside
  a transaction that wrote it owns nothing (`Clean`).

Theorems: `Invariant`, `StateIsTyped`, `GraphIsWellFormed`,
`ProjectsAreSeparate`, `DeletionsStand`.

**Plans** (`PlanProofs`), from the four assumptions. The properties that relate
the tables to what the requests were asked need to know where each request is.
`PlanInv` adds to `Inv`: what is left of a plan is a suffix of what was asked, the
statement at `pc` belongs to its first call, the loops over items, observations
and triples have what remains of that call (`Planned`); and a save has written
nothing before it deletes (`Ready`). One lemma per action says what the request
becomes (`...Move`) and one what the statement does to the four tables
(`...Writes`, of the form `Wrote`: some committed versions are marked, some new
ones added); everything else is proved from those. On top of it:

- `Audit`: the content of every version of an observation, committed or not,
  is that of a committed entry or of one of the transaction that wrote it, and
  the same holds of the value an edit has read. So nothing becomes visible before
  the entry that accounts for it (`ContentsAreAudited`), nor an entry before its
  observation (`CreationsArePaired`). That an edit which writes what it read needs
  no entry is why the read value is in the invariant.
- `Durable`: as long as no request was asked for a removal, no version is marked,
  what the past calls of a request added is committed, and of its present call
  what the loops have passed is visible to it. When an insertion yields to a
  row of another transaction it is because that one has committed, for the
  insertion waits otherwise (`ResultsAreDurable`).
- `SaveInv`: whose an uncommitted version of an entity may be (`Owned`), which
  ones a save marks (`Spared`), that a committed one holds all of one save, or
  the trail shows an edit, or it was named by hand (`WholeIn`); of observations,
  why a version is marked, by a save that brings its own, with its entity or by
  an edit (`Marked`), and what replaces it (`Rewrites`); of requests, that a save
  works on the checkpoint of its name (`NamesOf`) and has put whatever it does
  not still have to put (`ProgressOf`), that it deletes rows of that entity only
  (`SnapOf`), that an edit knows the content it read or the trail shows another
  edit (`ReadOf`), and what a reader has found between its two queries and after
  them (`ReaderOf`, `SeenOf`). A step can take a content from a
  checkpoint that others see only if it is the commit of a save that put all of
  its own, of a deletion of the entity, or of an edit that is then in the trail
  (`Frame`, `Brings`). Theorems: `CheckpointIsWhole`, `BootstrapIsWhole`. Two
  saves that overlap may leave the observations of both, as `store_blend` shows;
  what is proved is that all of one save are there. For a bootstrap: if neither
  result was cut off and the first query found the checkpoint, what is shown has
  all of a save, or is blank because the checkpoint was deleted between the two
  queries. The code cannot tell a cut-off result, so of such a one nothing is
  claimed.
- `TrailInv`: the ids of the entries are unique, so the trail is finite and can
  be counted, and an entry of an open transaction is one its call may write
  (`Entries`); the breadcrumb and the event of a save are the only entry of their
  transaction when it commits, and it has none before (`Jotting`); the saves past
  their third call are at most as many as the committed entries of their
  breadcrumb, these at most as many as the saves that may have come so far, and
  the events together with the saves that have yet to log theirs at most as many
  as all breadcrumbs (`Counts`). The saves in between make it inductive:
  `TrailAccounts` by itself says nothing of a save that has committed its
  breadcrumb and not returned, nor of one whose commit went through and whose
  answer was lost. Theorem: `SavesAreAccounted`.

Each of these invariants was checked by TLC on the store's configurations before
it was proved.

**Only model-checked.** The liveness properties (`PublishReturns`,
`BufferedIsWritten`, `GoneIsReclaimed`, `EveryRequestReturns`, `RequestsReturn`,
`SearchReturns`) and what the four violated runs show. Liveness under fairness,
and ENABLED, are out of the prover's reach. Every other property of a passing run
has a theorem.

## 5. What is not modelled, and why

- Ranking in the search (`repository/search.go`): arithmetic of PostgreSQL
  functions. The model lets a query return any rows that match, up to the limit.
  That a search also sets `last_accessed_at`, which only the score reads, is left
  out with it.
- Normalisation and clamping of input (`usecase/normalize.go`, `memory.go`):
  pure functions of one call.
- Statistics, dashboard, pages, templates, MCP input decoding, configuration,
  logging: no state and no protocol.
- CSRF, CORS, the static API token: decisions about one request.
- `ChatStream` of the LLM gateway has no caller.

Results may be cut off in every modelled read of more than one row (`ReadGraph`,
search, backfill, export), and what they do to an answer is the
same everywhere: rows are missing and the call succeeds. A run shows this as a
violation where a document promises all data, for the export. For a bootstrap
and a search no document does, so the two properties that describe their answers
except such results by name: a session may be shown a truncated checkpoint or
none, and a search may answer too little, or nothing, when the database connection
breaks at the wrong moment.

Behaviour that the models show or that reading turned up, and no document
speaks about: a tool panic locks its conversation for good (`RequestsReturn`
excepts requests that wait for it); after a restart the session counter repeats
numbers that browsers still hold (`SessionsApart` speaks of one run of the
process); a rename leaves the earlier history under the old name, where
GetHistory of the new name does not find it; a change of type sets the name as
well, to the one it was called with, and so silently undoes a rename that came
between its SELECT and its UPDATE (`repository/memory.go:265`); two deletions of one observation
may both be recorded, which no property forbids; a conversation that the evictor
deletes after a request has looked it up takes the request's answer with it
(`AnswersAreShown` excepts it); two backup runs within one second truncate each other's
file (`SafeIsRestorable` excepts it); a full disk stops pruning as well; the
text of the turn limit is shown to nobody.

## 6. Plan

Done: the bus, its abstract specification and the refinement; the store; chat,
OAuth, backup and search with the embedding backfill; each with its proofs.
Next, in order of importance:

1. **Composition**: mutations that publish after their commit (MemoryStore with
   EventBus): an event announces a change a reader can already see.
2. **Histories**: GetHistory across a rename; an atomic save as an abstract
   specification that SaveCheckpoint implements as far as it does.
3. **Rules**: normalisation and clamping as functions with reference definitions.

Runs with the same state space are kept together, so a new question goes into
an existing configuration where its instance allows.
