# A TLA+ model of SecURL

SecURL stores end-to-end encrypted links and pastes ("envelopes") on a server
that never sees their keys. This directory models what the server stores, what it
hands out and to whom; the bytes of its protocol; its databases and their
migrations; the processes of a deployment from start to exit; and the pages that
create and open links in the browser. TLC checks the models on small instances;
TLAPS proves nearly all of the safety properties, and that the SQL repositories implement
the repository's contract, for every value of the constants.

## 1. The system

| Part | Keeps | Operations | Talks to |
| --- | --- | --- | --- |
| Repository (`internal/store`: memory, PostgreSQL, MariaDB) | one row per storage key | Create (with replay detection), Get, GetMetadata, Consume, DeleteExpired, Close | handlers, access service, worker, cleanup command |
| Envelope handlers (`internal/httpapi`) | nothing between requests | createEnvelope, getEnvelope, getEnvelopeMetadata, accessEnvelope | repository, CAPTCHA verifier, access service |
| Protocol (`gen/go/securl/v1`, `internal/httpapi/protobuf.go`) | nothing | UnmarshalVT, SizeVT, MarshalVTStrict, readRequest, decodeCanonical | handlers |
| Access service (`internal/access`) | nothing | Access: Get, Verify, Consume or Unwrap | repository, verifier, key wrapper |
| CAPTCHA verifier (`internal/captcha`) | a semaphore | Verify | the provider, over HTTP |
| Cleanup worker (`internal/cleanup`) | a ticker | Run, RunOnce | repository |
| Cleanup command (`securl.go`) | a count | cleanupExpired | a repository that servers use too |
| Server (`securl.go`) | handlerTracker, the worker's goroutine, a shutdown deadline | Serve, shutdownApplication, closeRepository | all of the above, net/http |
| Safe Browsing client and cache (`internal/safebrowsing`) | LRU cache, a semaphore | Lookup, get, put | the provider, over HTTP |
| Migrations (`db/*/migrations`) | the schema version table | Apply, splitMigrationStatements | the database, other servers' migrations |
| Create page (`frontend`: CreateLink, `api/create.ts`) | one submission | submit, submitEnvelope, createWithCollisionRetries | the API |
| Open page (`frontend`: OpenLink, RedirectGate, `crypto/*-key.ts`) | the link's keys | derive, gates, retrieve, decrypt, scan, redirect | the API, web workers |
| Launcher and command (`cmd/securl/run.js`, `main.go`) | a child process, signal handlers, a kill timer | start, shutdown, exit | each other |

What makes it hard: every request is a goroutine of its own, and a handler that
looks a key up, verifies a CAPTCHA and then stores or consumes can be overtaken at
each of these calls. SQL calls can fail after taking effect. Clients disconnect and
retry. The clock is read once per request and used later. At shutdown, net/http may
run handlers after `Shutdown` has returned. Servers of two releases migrate one
database at the same time, and MariaDB and CockroachDB commit a migration in pieces.
In the browser, promises that were started together end in any order, and a key array
must be zero-filled by whoever has it last.

What makes it correct, per part:

* repository and handlers: a stored envelope is not overwritten, not lost before it
  expires or is consumed, not served after it has expired;
* protocol: one byte string per message, and the reader gets what the creator sent;
* access: a burn-after-read envelope reaches one client, a CAPTCHA key follows a
  verification of the same request;
* verifier and Safe Browsing client: their slots neither leak nor multiply;
* worker and command: expired rows go away, others do not, counts are right;
* server and launcher: nobody uses a closed repository, a shutdown gets its time, both
  processes end, and the exit code says how;
* cache: verdicts are the provider's and within its durations;
* migrations: a server that starts has its schema and keeps it, servers do not make
  each other fail, and all get through;
* pages: one envelope per submission, a one-time link is not lost by opening it in the
  wrong order, only a cleared destination is opened, no key stays behind, every page
  comes to an end.

`PROJECT.json` lists every component, the hazards with their lines, and maps each
definition to the lines it models.

## 2. The modules

### The server

**EnvelopeStore** holds the repository's operations as constant operators on a
table of records and `NoRecord`: `Visible` (Get, GetMetadata, Consume), `Expired`,
`ExpiredBatches` (DeleteExpired), `Insert`, `Delete`. They look at a record's expiry
only, so EnvelopeApi and RepositoryContract can each have records of their own.

**EnvelopeApi** composes the handlers, the access service, the verifier and the
worker over one table. `pc[r]` is the next call that leaves the handler of
request `r`: between two such calls everything else interleaves. `call[r]` has
the arguments and the handler's `now`; `seen[r]` the record Access got from Get.
A record is the create request it came from, its expiry and, as history, the request
that inserted it; two create requests have the same hash exactly if their bodies are
equal. `resp[r]` is the response; `"empty200"` is what net/http sends for a handler that
writes nothing. With `Backend = "memory"` a call fails exactly if the context is
cancelled; with `"sql"` any call may fail, inserts and deletes also after taking
effect, and Create is two statements. The CAPTCHA provider is external: it accepts
a token at most once, and may spend it without saying so. `spent`, `accepted`,
`consumed` and `swept` are history.

**LinkService** is what all of these promise together, to those who publish and open
links: one table on which each operation is one step. A link is published under a free
key and never changes; it goes when it has expired or when an access takes it, once, and
the one who takes a burn-after-reading link is the one who receives it; a CAPTCHA key
goes with an envelope that has one, to a user who has solved the CAPTCHA of the link it
found. What is under the key when it is taken may be another link than the one that was
found (see `api_unverified_delivery`). EnvelopeApi implements it
(`ImplementsLinkService`): an insert is a publication, a Consume is a taking, also when
the answer is lost, an accepted token is a solved CAPTCHA, and lookups, the semaphore,
cancellations and the worker's ticks are stutters. `got`, `unlocked` and `answered` are
read off the responses.

**ServerLifecycle** is `Application.Serve` from opening the repository to its
return. net/http is external; the one property of it that matters is that
`Shutdown` drops connections it takes for idle although a request has just been
read from them, so their handlers start late. **RepositoryLifetime** is the
abstract promise: opened once, used only while open, closed once and by then
unused. ServerLifecycle implements it with `phase <- repository` and `using <-`
the tracked handlers and the worker while it cleans up.

**CleanupCommand** is the `cleanup` command next to the workers and requests of
running servers. It has no clock but what the clock does: `expired` are the rows whose
time has passed, `due[c]` those of them that had expired when cleaner `c` read the time.
A create reads the time when it checks (`CheckCreate`) and stores later, so that a row may
be expired by the time it is inserted; a row that has gone comes back as a new one, for
the same key or another, so that the servers can go on storing for ever. On MariaDB a
batch is deleted in one step; on PostgreSQL, under READ COMMITTED, the batch is selected
and then deleted, and rows that have gone are skipped. A batch may be deleted and its
answer lost: the command then stops without having counted it. Which rows `ORDER BY` puts
first is left open. The command counts modulo `TotalRange`, as an int64 does; the
assumption that the rows are fewer is what makes the count a count.

**SafeBrowsingCache** is the lookup handler, the cache and the client. The mutex is
held for one prefix, so each `Get` and each `Put` is a step. `listed` is what the
provider has on its list at each time, chosen at the start; `at` and `seconds` in an
entry are history.

**Launcher** is the Node launcher, the command it starts, and the signals, uncaught
exceptions and kills that reach either. The command's shutdown is ServerLifecycle's;
here it takes any time up to its budget and may overrun it. Ctrl-C in a terminal
reaches both processes, so that the launcher's SIGTERM may be the command's second
signal and end it at once. That is what the code does, and `ShutdownNotCutShort` does not
deny it: `direct` keeps these runs apart from those in which only the launcher signals.

### The protocol

**ProtobufWire** has the code fragments that the generator repeats for every field
(a varint, a length and its bytes, a tag, skipping an unknown field), with integers
narrower than the program's so that overflow is reached. **SecurlMessages** has, per
message, the three lists of fields that UnmarshalVT, MarshalToSizedBufferVTStrict and
SizeVT really go through, each from its own function: nothing but the properties ties
them together. **ProtobufCodec** runs the fragments over the lists and has
`decodeCanonical`.

**RequestDecoding** is `readRequest`: media type, body in pieces under the size limit,
decoding. **MessageRoundTrip** fills in each of the 14 messages field by field and
writes it. **EnvelopeEncoding** follows the bytes of one envelope from createEnvelope,
through every check of the handler, the two stored encodings and the request hash, to
the answers of the three reading handlers. It is EnvelopeApi's handlers with bytes and
without concurrency.

### The database

**RepositoryContract** is what a `store.Repository` promises: each operation takes
effect in one step between its call and its answer, Create looks twice at a key that
is taken, and an error may hide an effect. DeleteExpired is the exception: it may choose
its rows first (`Pick`) and later delete, and count, those that are still there
(`DeletePicked`), so that its count may be below the batch with expired rows left. A
create that finds the key taken and then free is refused as a conflict, which the contract
allows. This is what EnvelopeApi assumes of a SQL backend, with one simplification: its
worker sweeps in one step. What a row that is skipped does to those who look at the count
is CleanupCommand's. **SqlRepository** has the two repositories statement by statement: MariaDB's
Consume locks its row, reads, deletes and commits, and rolls back on each error path;
connections break and answers get lost; the conversions between records and columns
(NULL, widths, half a CAPTCHA bundle) are the code's. MariaDB's DeleteExpired is one
locking statement; PostgreSQL's reads its snapshot (`SelectExpired`) and then deletes what
it finds of it (`DeleteSelected`): a row that others have deleted is skipped, and a new row
under its key is not the one it selected. It implements RepositoryContract
(`ImplementsContract`). `backend` is a variable that never changes, so that one run
covers both; so is `mode` in SchemaMigrations.

**SchemaMigrations** is `Apply` on PostgreSQL (one transaction under an advisory lock),
CockroachDB (statement by statement, no lock, retries after serialization failures)
and MariaDB (a session lock with a timeout, DDL that commits at once), for servers of
two releases that fail, crash anywhere and are started again.
**MigrationStatements** is the scanner that cuts a migration into statements, next to a
writer of scripts who knows where the statements end. The writer's language is the
database's: a backslash escapes in an E string and nowhere else. The scanner takes it for an
escape in every string (`embed.go:175`), and takes the dollar signs of an identifier for a
dollar quote; the lexemes on which the two disagree, strings with a backslash before a
quote and identifiers with two dollar signs, are named in `Misread`, and the property says
so and nothing of scripts that have one. The embedded migrations have none. Its loop is a recursive function of
the number of iterations, at most one per character.

### The browser

**CreateClient** is the page that creates a link, with its collision and transport
retries and its CAPTCHA token, against a network that loses requests and answers, and
against the server at the grain of lookup, verification and insertion. **OpenLink** is
the page that opens a link, with what runs concurrently under `Promise.all` and the
life of each key array. **KeyDerivation** is a key derivation: the worker's message and
error event, the fallback on the page's own thread, and the abort signal, in any order.
Its caller may fail meanwhile (`CallerFails`: the configuration could not be fetched), and
then zero-fills the id under a derivation that goes on; a fallback that starts later works
on zeros.
**RedirectGate** is the Safe Browsing gate with its coordinator, and the gate mounted
after it.

### Instances

**MCEnvelopeApi** and **MCSafeBrowsingCache** give instances and symmetry to TLC.
**MCProcesses**, **MCDatabase**, **MCProtocol** and **MCBrowser** each put several
components of one area side by side: a selector variable (`process`, `phase`, `part`)
picks at the start the one that runs, the others rest in an initial state. Their
constants are those of the components, with values in the `.cfg`; the theorems about
these components are about their specifications for all values. The
components share no variable, so a run checks each of them as if it were alone; each
property is the component's, restricted to the behaviours in which it runs, and the
fairness is each component's own.

Definitions marked "Mutated form" are plausible bugs; each property has one that
violates it.

## 3. The runs

| Run | Instance | Shows |
| --- | --- | --- |
| `api_key_reuse` | memory, 4 requests, 1 key, 2 bodies (burn; burn behind a CAPTCHA), 1 token | `BurnDeliveredOnce`, `KeyAfterVerification`, `ConflictMeansOther` although the key is burned and used again between Get and Consume |
| `api_sql_create_captcha` | SQL, 3 requests, 2 tokens, 1 verifier slot, create CAPTCHAs required, clock to 2 | `AckedDurable`, `OneTokenOneEnvelope`, `PermitsMatchCalls`, `NeverServedExpired` with lost answers |
| `api_liveness` | memory, 2 requests, 2 keys, batches of 1, open, protected and one-time envelopes, refused inputs, clock to 2 | `EveryRequestAnswered`, `ExpiredSwept`, the refinement `ImplementsLinkService` |
| `processes` | server with 3 handlers and its worker; launcher with 3 signals or exceptions; cleanup of 3 rows that come back, in batches of 2, on both databases | server: `CleanReturn`, `RespectsLifetime`, `ServeReturns`, `LeftoverClosed`; launcher: `ZeroMeansAsked`, `SharedLifecycle`, `ShutdownNotCutShort`; cleanup: `CountIsExact`, `CommandEnds`, `InitialSetGone` (MariaDB) |
| `database` | any 3 calls on one key of each repository; on PostgreSQL 2 creates, a cleanup and a second cleanup or a consume on 2 keys; 3 servers of 2 releases on each of the 3 databases, 2 faults, 2 retries; scripts of 4 lexemes | repositories: `ImplementsContract`, `LossIsReported`, `NoLockLeftBehind`; migrations: `ServedSchemaStays`, `NoHomemadeFailure`, `Converges`; scanner: `SplitsAtTerminators` |
| `protocol` | bodies of up to 9 bytes in 5 pieces, 16- and 8-bit words; 14 messages with boundary values; 3 edits of a create request; 2 submissions with 2 tokens | `AcceptsCanonicalForms`; `RoundTrip`; `ReaderGetsWhatWasSent`, `ReplayMeansSameRequest`; `TokenOfOneSubmission` |
| `browser` | 2 derivations under one signal; 2 gates; every kind of link with 3 passwords; 2 submissions, 3 attempts, 3 keys of which one is taken | `KeysAccounted`, `OpensOnlyWhenCleared`, `OneTimeLinkSurvives`, `OneEnvelopePerSubmission`, `PagesConclude` |
| `safe_browsing_cache` | 3 lookups, 2 prefixes, 1 cache entry, 1 slot, durations 0 and 1 | `VerdictsHonoured`, `MapMatchesList`, `SlotsMatchFetches` |

Bounds.

* Four requests on one key are the smallest instance in which a key is stored, read,
  burned by another access and stored anew under the first one's feet; two times are
  enough for an envelope to expire between any two steps; a semaphore of one slot and a
  cache of one entry are at their limit with two requests. Two keys appear where
  batches compete. `MaxTime` bounds the clock, in the guard of `Tick`. Two envelopes and
  batches of one show that the worker leaves neither out; whether it keeps up with a
  steady inflow is not asked.
* Three rows in batches of two are a full batch, a short one, and a row to be stored
  meanwhile. As rows come back, nothing but the time the command has read makes its loop
  end: with a statement that reads the clock again `CommandEnds` is violated.
* Three calls on one row are a transaction, one that waits for its lock, and one that
  changes the row between the two statements of a Create. A selection that goes stale
  needs a fourth call and a second key: two rows, a cleanup that has selected them, one
  who deletes one of them, and a create that stores its key again. Two faults let a server fail
  and its successor fail at what it left; a third server is the one that finds out.
  `MaxFaults` is in the guards of the faults, `MaxRetries` stands for
  `cockroachMaxRetries`.
* A nested message with a key, a length and a two-group varint fits into nine bytes;
  with 16-bit words a three-group varint overflows as a ten-group one does with 64.
* Two submissions are what a stale token, artifact or answer needs to reach the wrong
  one. Three passwords are a wrong one, a wrong one on the kept envelope, and the right
  one. `Budget` and `KillAfter`, 2 and 3 ticks, stand for 8 s and 10 s, and
  `MaxInt32 = 7` for 2147483647: one of the inputs has a flag beyond it.

Every action of every component is taken in these runs. The branches that TLC's coverage
reports as never taken are the ones the properties say cannot be: a refused or repeated
migration (`NoHomemadeFailure`), a row that disappears under its lock, a derived key that
arrives after the fallback has started, a request that does not decode although its
creator encoded it.

Fairness.

* Server: requests in progress keep moving (goroutines are scheduled and the provider
  call has a timeout), the worker's ticker fires, deadlines pass, and a cancelled
  worker's `select` does not choose the tick for ever (strong fairness of
  `WorkerReturns`). Handlers return and `repository.Close` does. Nobody has to send a
  request, disconnect or stop the server, and time may stand still.
* Cleanup command: the database answers its statements. The servers need not stop storing.
* Migrations: a server that runs goes on and one that failed is started again; the
  database ends the session of a dead one. Lock acquisition is strongly fair: the lock
  is given to those who wait for it.
* Launcher: timers fire, the command's exit is noticed, and a command told to stop
  returns in the end. A running command may run for ever.
* Browser: workers run and event loops turn; a `fetch` ends, if only with an error. The
  user has to do nothing.

Deadlock is checked in the EnvelopeApi runs and in `cleanup_postgres_leaves_rows`, where
a server's worker can always go on. It is not checked where the system really stops: once
all processes, calls, lookups or pages have come to their end.

### Disagreements between code and documentation

Four runs are expected to fail; each is a behaviour of the code that a document or a
test contradicts:

* `api_unverified_delivery`: Access verifies what Get returned and hands out what
  Consume returns. If the key is burned and reused in between, an envelope behind a
  CAPTCHA goes to a request without a verification. Its CAPTCHA key does not
  (`KeyAfterVerification` holds), so the envelope is destroyed unread.
* `api_burned_link_returns`: nothing remembers a burned envelope. A create still in
  flight when its retransmission has been stored and burned stores it again.
* `server_repository_leak`: after a graceful shutdown whose waits use the deadline up,
  `closeRepository` returns its error before it has started to close.
* `cleanup_postgres_leaves_rows`: a row of the selected batch that a server deletes
  makes the batch look short, and the command ends with expired rows left.

One more was met and has no run of its own: when one job of a `Promise.all` fails, the
open page gives up and zero-fills the id. The arrays that the other job still delivers, and
the keys that a late fallback derives from the zeros, reach nobody, but they are not
zero-filled, although `docs/cryptography.md` says temporaries are at their final use.
OpenLink and KeyDerivation keep them in `lost`; `KeysAccounted` says that only a page that
gave up or was left, and only a call whose caller failed, has any.

## 4. The proofs

Every proof module has the same shape: an inductive invariant in named parts, one lemma
per action, and the properties as consequences. TLC has checked each invariant before.

| Module | Theorems | For any |
| --- | --- | --- |
| EnvelopeApiProofs | `TypeOK`, `PermitsMatchCalls`, `KeyAfterVerification`, `NeverServedExpired` | finitely many requests; keys, bodies, tokens, limits; both backends |
| EnvelopeDurabilityProofs | `BurnDeliveredOnce`, `AckedDurable`, `OneTokenOneEnvelope`, the action property `StoredNeverOverwritten`, the refinement `ImplementsLinkService`; `ConflictMeansOther` for the memory backend | the same |
| SqlRepositoryProofs | `NoLockLeftBehind`, `LossIsReported`, the refinement `ImplementsContract` | callers, keys, inputs, times, batches; both databases |
| MigrationsProofs | `ServedSchemaStays`, `NoHomemadeFailure`, the action property that nothing is undone (`NothingUndone`) | servers of either release, faults, retries; the three databases |
| ServerLifecycleProofs | `NoUseAfterClose`, `CleanReturn`, the refinement `RespectsLifetime` | handlers |
| ProcessesProofs | `ZeroMeansAsked`, the action property `ShutdownNotCutShort`, `CountIsExact`, `InitialSetGone` (MariaDB) | signals and deadlines; finitely many rows, cleaners and batch sizes |
| SafeBrowsingCacheProofs | `MapMatchesList`, `SlotsMatchFetches`, `VerdictsHonoured` | lookups; finitely many prefixes (there are 2^32); capacities, slots, durations |
| BrowserProofs | `KeysAccounted`, `OpensOnlyWhenCleared`, `OneTimeLinkSurvives`, `OneEnvelopePerSubmission`, `TokenOfOneSubmission` | derivations, gates, tries, keys, tokens, attempts and submissions |

**EnvelopeApiProofs.** None of the four is inductive alone. `TypeInv` adds what a
request's label says of it (`RequestOK`: at "consume" it holds an unexpired record and, if
that is behind a CAPTCHA, has been verified) and what a response says of its request
(`ResponseOK`). `Answered`, `Refused` and `Moved` are the ways in which a step of a
request ends; each action's lemma shows that it is one of them. `Calls` counts the
provider calls with the cardinality theorems; it is why the requests must be finitely
many (`ReqsAssumption`).

**EnvelopeDurabilityProofs.** `RunMoves` reduces each step to its effect on the table
(`Inserts`, `Consumes`, `Sweeps` or nothing) and on the response (`Responds`). The
invariant `DurabilityInv` adds to `TypeInv`:

* `StoreInv`: a record is the work of one finished create for its key, and a record
  that has left the table is never in it again. This is why a second Consume cannot
  find what the first one deleted;
* `BurnInv`: a delivered burn-after-read record is a consumed one;
* `AckInv`: an acknowledged record is in the table, consumed or swept; with `SweepInv`
  (the worker's time is not ahead of the clock) what was swept had expired;
* `TokenInv`: accepted requests have distinct, spent tokens, and a create that needs a
  token is accepted before it stores.

`ConflictMeansOther` is proved for the memory backend, of which alone it is claimed: a
SQL Create that finds its key taken looks again, and answers with a conflict also if
the row has gone meanwhile.

The refinement of LinkService needs three facts more (`FoundInv`): a request has found
nothing before it reads, only a burn-after-reading record brings it to Consume, and no
token of it is accepted before the provider's answer. One lemma per action then names the
step of LinkService it is. `TokenInv` gives the CAPTCHA of a publication, `RequestOK` the
one of a taking, and `SweepInv` that what the worker deletes has expired by the clock that
LinkService knows. `StoredNeverOverwritten`, the part of it that creates depend on, is
proved by itself too.

**SqlRepositoryProofs.** `Inv` says what the statement a call is about to run knows
(`CallOK`), and whose locks there are (`LockOK`: of a MariaDB transaction that is open, or
broken and not yet rolled back by its server). The core is `Locked`: from the locking
SELECT of Consume to its COMMIT the row is the one that was read, because every other
statement that changes it waits. It is why the record handed out is the record that was
deleted. Of a PostgreSQL cleanup between its two steps, `PickedExpired` says that what it
has selected had expired at its time, which no later step can change because the rows are
kept with their contents: `LossIsReported` rests on it. The refinement maps a row to the
record it is read back as, and a call to "pending" until the statement that takes effect:
INSERT, DELETE or COMMIT. A cleanup is "picked" between its steps (`ContractPicked`). A transaction
is pending until its COMMIT; a lost answer is the contract's error with the effect. All
other steps, the waits and rollbacks, are stutters. That the columns give back what was
put into them (`RowType`: flags within an int32, empty and nil bytes, no expiry as NULL)
is proved on the way; it needs `validateCreateInput`.

**MigrationsProofs.** A schema is `Good` if a table has a limit, an index has a table, and
every recorded version has been applied; `Grows` says that nothing is undone. The
invariant says of each server how far it is (`ProgressInv`: every file before the one at
hand has been applied to the schema it sees; in the middle of the first file the table is
there), that the lock excludes where there is one (`LockInv`), and that an open PostgreSQL
transaction sees a good schema that has grown from the committed one (`ViewInv`), which
is why its COMMIT takes nothing back. `OthersInv` is the rely-guarantee step: what one
server does is, for every other, growth (which is `NothingUndone`), and without CockroachDB no change at all while
that one holds the lock. `NoHomemadeFailure` follows because the excluded reasons are not
among those that a step can give: `NeverRefused` for the statements, and for the version
rows, that a version is not recorded between its check and its INSERT under the lock.

**ServerLifecycleProofs.** The invariant ties the waitGroup to the running handlers and
says what each closing path has waited for: once the tracker is sealed and empty no
handler can start.

**ProcessesProofs.** Of the launcher: `BudgetInv` says that the command's shutdown began
no later than the launcher's deadline, or that the launcher's signal is still waiting and
no time has passed; with `Budget < KillAfter` (8 s and 10 s in the program) the deadline
cannot come first. Of the cleanup command: `InitialInv` says that the rows that had
expired at its start are due to it and none of them is still to be inserted, and `MineInv`
that what it has deleted is not due to it again, although the row may be back for a new
one, so that it is counted once; that an error ends the command, so that what a lost
answer leaves uncounted stays the last; and that the sum has not wrapped. `GoneInv` holds on MariaDB only: a
batch that is not full was all there was.

**SafeBrowsingCacheProofs.** `CacheInv` says that an entry expires no later than the
provider's duration allows, because the lookup that stored it had read the clock before
it asked; `LookupInv` that the prefixes of a lookup are divided into those still to be
looked up, those missing and those answered, whatever the other lookups do. The lemmas on
`RemoveAt`, `ToSet` and `IsInjective` serve the recency list.

**BrowserProofs.** `CallInv` (derivations): a worker's event and a fallback exclude each
other, a promise that is resolved has its key with the caller unless the caller has failed,
and a fallback that is still to start finds a zero-filled id only in that case. `VisitsInv` (gates): a visit of a gate with a safety
check has been entered in `redirected`, so there is no second one. `TriesInv` and
`MaterialInv` (open page): which keys the page has at each of its states. `DeadInv`
(create page): an artifact that another one of its submission has replaced is dead: it is
not stored and none of its requests is still under way, so no late request can store it
next to its successor. `StoredInv` is why: a conflict means that its key holds
another envelope, and goes on doing so. `TokenInv` (create page): a token that is still on
the page after it went into an artifact is of the submission under way, and that submission
has set `requestStarted`, so its error gives the token up. The run `protocol` checks
`TokenOfOneSubmission` with create CAPTCHAs on; the theorem is about the same CreateClient as
MCBrowser instantiates it, for every value of `CreateCaptchaRequired`.

The proofs rest on the named assumptions on the constants alone, which TLC evaluates in
every run. `TypeOK`, `NoUseAfterClose`, `StoredNeverOverwritten` (which
`ImplementsLinkService` implies) and `NothingUndone` are in no run: the proofs cover them.

Only model-checked:

* liveness (`EveryRequestAnswered`, `ExpiredSwept`, `ServeReturns`, `LeftoverClosed`,
  `CommandEnds`, `SharedLifecycle`, `Converges`, `PagesConclude`), which needs fairness
  and ENABLED;
* `AcceptsCanonicalForms`, `RoundTrip`, `ReaderGetsWhatWasSent` and
  `ReplayMeansSameRequest`: ProtobufWire and ProtobufCodec are recursive over bytes, as
  the code is, and what they compute can be proved by induction over data only;
* `SplitsAtTerminators`, for the same reason: it is about the result of a loop over
  characters.

## 5. Not modelled

* Envelope cryptography, key wrapping and URL hashing: primitives and byte layouts that
  no property here tells apart. A key derivation or a decryption succeeds or fails.
* Configuration (a pure function of the environment; its results are the CONSTANTS),
  routing, middleware and CORS (stateless), the asset handler (file I/O).
* Of the generated code: descriptors, getters, the non-strict marshalling and the
  `Payload` message, which only the browser reads and writes.
* Of the database: connection setup and pools. GetMetadata reads the row that Get does.
  A statement is atomic, as the databases promise, but for PostgreSQL's cleanup under READ
  COMMITTED, which is two steps. In EnvelopeApi the sweep is one step.
* Of the scanner's input: tags that begin with a digit, and what follows a lexeme that the
  scanner misreads (`Misread`). The embedded migrations contain neither.
* Of the launcher: the proxying of requests, which keeps no state, and the healthcheck
  command, which is one request.
* The wire decoding of the Safe Browsing provider's answer, which is a success or an
  error.

## 6. What could follow

* An abstract specification of the Safe Browsing cache, a map with expiry, and the
  refinement from its map and list.
* LinkService over RepositoryContract: EnvelopeApi has the two statements of a SQL
  Create and the lost answers itself, and that they are those of the contract is said
  here in words only.
