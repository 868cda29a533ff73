# A TLA+ model of relaybot

relaybot is a Telegram bot that keeps references to files, not the files. In a
private chat a user sends a file, or a batch of them between `/batch_start` and
`/batch_done`, and gets a code. Whoever sends the code to the bot within its
lifetime gets the files, page by page.

This directory holds TLA+ modules translated from the Go code and SQL of the
repository, TLC configurations that check them on small instances, and proofs
for the TLA+ proof system. Paths below are relative to `src/internal/` unless
they begin with `cmd` or `db`; `compose-app.yaml` is at the root.

1. Inventory - 2. Modules - 3. Runs - 4. Proofs - 5. Running the checks -
6. Where the code and what is said of it differ - 7. Not modelled - 8. Plan

## 1. Inventory

Every update from Telegram is handled in a goroutine of its own, so two updates
of one chat, or the same update delivered twice, interleave at every call to
PostgreSQL, Redis or Telegram. Nothing in the process synchronises them: all
coordination is in the database (row locks, unique keys, transactions) and in
Redis (a WATCHed merge, one script). A maintenance goroutine and an HTTP server
run beside the handlers, and several instances of the process may start at once.

| Component (source) | State | Operations | Talks to | Hard behaviour | What makes it correct |
|---|---|---|---|---|---|
| Relays and items (`store/postgres/store.go`, migrations) | `relays`, `relay_items`, row locks, open transactions | create, create batch, add item, finalize, delete, expire, purge | called by services and worker | concurrent appends and creations, append against finalize, conflicts, rollbacks, cascades | gap-free order numbers, the batch limit, one relay per upload, sealed contents, lives that only go forward |
| Delivery records (same file) | `relay_deliveries`, `relays.delivery_count` | create, mark sent / failed / unknown, time out, purge | claim service, worker | redelivered claims, lost answers, a timeout racing a late result | at most one page per claim, counts match, results stay |
| Upload use cases (`relay/service.go`) | none of its own; variables of a handler | start, append, finish, cancel, create, progress | store, code cache, sessions | check-then-act across calls, failures half way, stale session | one code per batch, cap exceeded only by handlers under way, honest counts, no orphaned batches |
| Progress message (`telegram/router.go`, `relay/service.go`) | a message in the chat, its id and last count in the session | edit or send after an append, close at the end | sessions, Telegram | old session records written back, lost answers, the next batch's session | counts shown are true, a message stays with its batch |
| Claim use cases (`relay/service.go`) | none of its own | claim, claim page, lookup | store, cache, sender, paging | crash between sending and recording; stale cache | served only while claimable, sent means received, pending settles |
| Codes and requests of a message (`telegram/extract.go`, `relay/code.go`) | none | find codes, number their requests | claim use cases | several codes, upper and lower case, redelivery, a crash half way | every code claimed, once, under a number of its own |
| Redis cache (`cache/rediscache`) | sessions, code entries, rate counters | get, set, merge, delete, allow | services | merges in any order, keys that expire, DEL of a newer value | counts never exceed the batch; a stretch of one window lets at most twice the limit through, and nobody is refused below it |
| Router (`telegram/router.go`) | none | dispatch, fall back from batch to single relay, progress, navigator | services, Telegram | the order of calls | see use cases |
| Page navigator (same file) | the page a message shows | press, edit | claim use cases | concurrent and late presses, a relay that expires meanwhile | what is shown as sent was sent |
| Sender (`telegram/sender.go`) | none | deliver a page in chunks, groups and single files; classify errors | Telegram | part of a page arrives; an answer is lost; a request is served late | files in order and once; "sent" never said of a part |
| Paging (`relay/paging.go`) | local | cut items into pages | claim use cases | albums at page borders, fragmented albums | pages tile the items, albums whole |
| Worker (`worker/runner.go`) | one clock reading per cycle | purge batches, expire relays, mark unknown, purge deliveries | store | works with an old clock reading; a task fails | never removes what is alive; everything abandoned goes |
| Migrator (`store/postgres/migrator.go`, `db/migrations`) | `schema_migrations`, the schema | apply scripts in order | PostgreSQL | two instances at once, a crash between a script and its record | each script once and in order, files keep their order |
| Process lifecycle (`bootstrap/app.go`, `cmd/relaybot/main.go`, `httpserver`) | pool, Redis client, HTTP server, goroutines | new, run, close, signals, readiness | all | failures of each step, a shutdown with requests under way | stores closed, an orderly exit cuts no HTTP request off, the process ends |
| Configuration, metrics, commands and logging | - | - | - | - | section 7 |

The hazards, each at its line with the properties that cover it, are in
`PROJECT.json`.

## 2. Modules

| Module | What it is |
|---|---|
| `RelayStore` | the two tables and everything that writes them |
| `RelayBox` | the abstract specification of a relay: a box opened, filled in order up to a limit, sealed under a code, expired, discarded |
| `RelayClock` | extends `RelayStore`: the time and the lifetimes compared with it |
| `BatchUpload` | extends `RelayClock`: upload handlers, sessions, code cache, the worker's tasks on relays, time, failures |
| `BatchProgress` | the progress message of a chat and the merging of its session record |
| `ClaimDelivery` | extends `RelayClock`: claim handlers, delivery records, code cache, Telegram's answers, the worker, and uploads as the environment |
| `RelayBot` | `BatchUpload` and `ClaimDelivery` over one store, one cache, one clock and one worker |
| `ClaimMessages` | from a message to its claims: codes, request numbers, redelivery |
| `PageSender` | `DeliverPage`, request by request |
| `PageDelivery` | the abstract specification of it: a page reported as sent, or an error after any part |
| `PageNavigator` | button presses and the message that shows the page |
| `Paging` | the loop of `PaginateRelayItems` |
| `RateLimit` | one rate-limiting key of Redis and its script |
| `Migrator` | `RunMigrations` by several instances, and the scripts |
| `AppLifecycle` | one process, from its configuration to its exit |
| `RelayStoreProofs`, `BatchUploadProofs`, `BatchProgressProofs`, `ClaimDeliveryProofs`, `RelayBotProofs`, `PageSenderProofs`, `ServingProofs`, `StartupProofs` | theorems, and nothing but what they need |
| `MCRelayStore`, `MCBatchUpload`, `MCClaimDelivery`, `MCRelayBot`, `MCBatchProgress` | constants and symmetry for TLC |
| `MCServing` | `ClaimMessages`, `RateLimit`, `Paging`, `PageSender` and `PageNavigator` in one run |
| `MCStartup` | `Migrator` and `AppLifecycle` in one run |

How they fit together:

- `BatchUpload` and `ClaimDelivery` are the two halves of the program over one
  store and one clock. Each alone has the other as an environment: `BatchUpload`
  lets nothing else touch its tables, `ClaimDelivery` has a summary of what
  uploads may do (`Upload`, `UploadWarmsCache`, `CancelRelay`).
- `RelayBot` puts both together, with the steps of each half in place of the
  other's summary of them. That the bot implements both specifications
  (`UploadsAsSpecified`, `ClaimsAsSpecified`) is then something to check and to
  prove, and what is shown of a half is shown of the bot.
- `ClaimDelivery`'s `SendPage` is one step. `PageSender` shows that the requests
  of a page amount to that step (`ImplementsPageDelivery`).
- `SendPage` sends the first page, and in `RelayBot` too a page stands for the
  files of its relay: cutting into pages is `Paging`, the pages after the first
  are `PageNavigator`.
- `BatchProgress` is a view of `BatchUpload` in which a relay is a status and a
  number of files, with the fields of the session that `BatchUpload` leaves out.
- `ClaimMessages` numbers the requests that `ClaimDelivery` has as values of
  `Request`; `PageNavigator` serves the pages after the first.
- The parts of `MCServing` share no state, and neither do those of `MCStartup`.
  A variable `active`, chosen initially, says which one moves in a behaviour;
  the others rest. The states of the parts add up instead of multiplying, and
  no interleaving is lost, as no step of one part can enable or disable a step
  of another.

### RelayStore

State: `relays` maps every id the sequence may give out to a row; `items` maps
an upload's update id to its row in `relay_items`, which makes that column's
UNIQUE key part of the representation; `tx` is what each open transaction of
`AddRelayItem` or `CreateRelay` has read. A chat stands for both uploader
columns, since only private chats are served (`router.go:64`).

PostgreSQL runs at READ COMMITTED, so a statement is one step. The two
transactions that matter are three steps. `AddRelayItem` takes the row lock and
reads status, duplicates, count and `MAX(item_order)`; `CreateRelay` inserts the
relay and finds the upload not filed. Then `InsertItem` inserts the item, and
`CommitInsert` commits, or `RollbackInsert` gives up. There are three waits.
Everything that writes a locked row waits for its lock (`~Locked`). A rival
insert of a relay with the same `source_update_id` waits for the one that is not
yet committed (`CreateMayInsert`). And `InsertItem` waits, with its row lock or
its new relay in hand, while another transaction has inserted the item of the
same upload (`HoldsKey`, the `key` of a transaction) and has not ended.

Two error paths are modelled as the code has them and not as it reads. The scan
helpers turn `pgx.ErrNoRows` into `ErrRelayNotFound`, so the branches after
`ON CONFLICT DO NOTHING` that compare with `pgx.ErrNoRows` (lines 81, 201, 388)
never run: a conflict ends in `ErrRelayNotFound` and a rollback. And
`addRelayItemTx` reports an upload that already lies in another relay as "not
created" without an error, so `CreateRelay` commits a ready relay without items
(`CreateRelayOfFiledUpload`).

`FilesOf` and `Box` at the end of the module are the refinement mapping to
`RelayBox`: a phase is a status, and the files of a box are the items of the
relay in `item_order`.

A row that is deleted keeps its code and expiry in the model only, as history
for "this code never comes up again" and for handlers that hold a copy of it.

### BatchUpload

A handler is a program counter and the Go function's variables (`now`, the
relay of the session, the count, the code). One action is one call. `Receive`
starts a handler for any command or file, again and again, which is how
redelivery appears. The actions are named for the service method they belong
to: `StartCreate`, `StartSetSession`, `StartUndo`; `AppendInsert`,
`AppendCommit`, `AppendRecount`, `AppendMerge`; `FinishList`, `FinishQuota`,
`FinishRecheck`, `FinishFinalize`, `FinishClear`; `CancelDelete`,
`CancelClear`; `CreateLookup`, `CreateQuota`, `CreatePersist`, `CreateCommit`.
`FileItem` is the INSERT of the item in the transaction of an append (at `file`)
or of a creation (at `fill`), and `FileConflict` its `ON CONFLICT DO NOTHING`.
`LoadSession`, `CheckSessionRelay` and `DropStaleSession` are shared by all
four commands, with the differences in `WithoutSession` and `AfterCheck`.

Failures: any call may fail (`CallFails`), a COMMIT may take effect without an
answer (`LostCommit`, `CommitAnswerLost`), and the process may stop and start
again (`Crash`). The SET of a new session may fail without effect, or take
effect and lose its answer (`StartSetFails`): the handler then goes on to delete
the batch, while others load the session, add files and finish it. Errors the
code ignores (the session's DEL, the cache's SET) are disjuncts of the step that
makes the call.

Time: `Tick` advances one clock and drops sessions whose time has come. A
handler uses the clock reading of its entry, however late it is, and so does a
worker cycle. A file that falls back from its batch to `CreateRelay` gets a new
reading there (`CreateLookup`).

### BatchProgress

After each append the router asks `shouldNotifyBatchProgress`, edits the message
the session names or sends a new one, and writes its id and the count back with
`UpdateBatchProgress`. Each of these steps may use a session record that other
handlers have changed or replaced since. `Merged` is `MergeBatchUploadSession`.
`EditProgress` and `SendProgress` may lose their answers: an edit whose answer is
lost is followed by a new message, and a message may be sent and its id never
learnt. `announced` is an observer: the counts that were ever shown while a
batch was collecting. As in `BatchUpload`, the SET of a new session may take
effect although it fails, and `StartUndo` comes a step later. A session is lost
in one step (`LoseSession`) instead of by
time passing.

### ClaimDelivery

A claim handler goes through `LookupCached`, `LookupById` or `LookupByCode`,
`WarmCache`, `ListItems`, `CreateDelivery`, `SendPage` and one of the marks.
`sends` and `inbox` are observers: how often a page was sent for a request and
which files reached the chat. `SendPage` lets any part of the files arrive;
`SendResult` is what the sender may report of it: "sent" only for all of them,
"failed" or "unknown" for any part. `CycleStart`, `CycleExpire`,
`CycleMarkUnknown` and `CyclePurge` are the four tasks of a worker cycle, the
first one as far as its deletions cascade to deliveries. `Upload`,
`UploadWarmsCache` and `CancelRelay` are what the upload half does to relays
meanwhile, with its sessions left out. Its handlers may have read the clock at
any time before (`0 .. clock`), so a code may be cached late, also one of a relay
that has been deleted since.

`HandlersOutlived` is the assumption that no claim is at work longer than
expired deliveries are kept (`MaxHandling <= Retain`). The code bounds the calls
of a handler by timeouts of seconds or minutes and keeps deliveries for 7 days.
Without it, a purge could remove the delivery of a claim that is still waiting,
and a redelivered claim could be served twice.

### RelayBot

State: that of both halves, which share `relays`, `items`, `tx` and `clock`, and
`promised`, an observer of the replies to `/batch_done`: each code with the
number of files the reply names. A step of an upload handler is the step of
`BatchUpload` with what it does to the claims' state (`UploadEffects`): the
deliveries of a deleted relay go by the cascade, and the handler's SET of the
code cache is the entry that claims look up, with its life. `codeCache` of
`BatchUpload` records which relay a code was ever cached for; `codeEntries` of
`ClaimDelivery` is the Redis key with its deadline. `RunOnce` is one task of the
worker, which both halves see; `Restart` is a crash of both; `TimePasses` moves
the one clock and drops sessions and cache entries together. Each half counts
its own failures, and a failure the halves share (of the worker, a crash) is
counted by both.

### ClaimMessages

A code is a prefix in either case and a body, in which upper and lower case
differ. `Claims` is what `ExtractClaimRelayInputs` returns: the first occurrence
of each canonical code. `RequestId` is the update id for one code and
`update id * 2^16 + position` for several. `NumberingAssumption` says when these
two ranges cannot meet: the update ids in one database lie within a factor of
`2^16` of each other and a message has fewer than `2^16` codes (it has at most
4096 characters). `CreateDelivery` finds a number that is taken and serves
nothing, whatever claim it belongs to; the check is that this never hits another
claim.

### PageSender, PageDelivery

A page is the sequence of its files' kinds. `RequestEnd` is where the request
that starts with a file ends: a whole chunk when `canSendAsMediaGroup` says so,
else that one file. A request may be served without its answer arriving, or
served only after the sender has given it up (`ServedLate`). Until `DeliverPage`
returns, the abstract delivery has not begun: the mapping hides the progress.

### PageNavigator

Presses are delivered in any order, once or twice, and handled concurrently. A
handler uses the clock reading of its entry. The relay may expire or be deleted
at any step.

### Paging

The items are the sequence of their album ids, a page is the range of items it
holds, and an action is one round of the loop.

### RateLimit

One key. `Allow` is the script, which Redis runs as one step; its answer may be
lost, with the call counted. `log` and `lives` are observers: each call with its
time and answer, and when each life of the key began.

### Migrator

The database has three tables that matter: the records of scripts, the files of
relays made by the first version of the program (`single`), and `relay_items`. A
script and its record are one transaction; the check before it is outside. The
DDL of 001 and 002 begins with the script, so that a second instance waits at its
first statement until the first one's transaction ends. Script 003 begins with an
UPDATE: two instances get past it, neither can then drop the index, and
PostgreSQL aborts one of them (`Deadlock`). In both cases one transaction at a
time has executed its script (`InTransaction`). The run starts from a database of
any earlier version, also one whose items have numbers twice.

### AppLifecycle

`main` is the program counter through `New`, `Run` and `Close`. Beside it run
the listener, readiness checks, and users of the pool (the runner and the
handlers), for which only holding a connection matters. A signal may come at any
time and cancels the one context.

### What the properties say

Store and uploads:

- `OrderGapFree`: items of a relay are numbered 1, 2, ... . `AppendBatchItem`
  reports the number of the new item as the number of files, so a gap would
  also be a wrong count.
- `BatchWithinLimit`, `OneRelayPerUpload`: what the row lock and the unique key
  are for.
- `SealedContentsFrozen`, `LifeOnlyForward`: once there is a code, files and
  code stay; an append under way at that moment is in or refused.
- `ImplementsBox`: all of that at once, as refinement of `RelayBox`.
- `CodesAgree`: all handlers that end one batch answer with one code, and the
  cache never leads a code elsewhere.
- `ActiveCapSlack`: how far the cap on active relays can be exceeded: by the
  number of handlers that were past the check at one time, less one.
- `FinishedBatchNotEmpty`: no empty batch gets a code.
- `CountsHonest`: neither session nor reply counts a file that is not there.
- `NoHandlerStuck`: a handler waits for nothing but the transaction of another
  (`Waits`): the one with the lock of its relay's row, with a relay of the same
  upload, or with the item of the same upload, which it may wait for while it
  holds a lock itself. Such a wait is reachable in `batch_races`; circles, and
  waits for a handler that has returned, are not (`WaitsEnd`). The wrong variant
  holds the upload's key from the beginning of a transaction.
- `BatchInv`: the inductive invariant these follow from, all of it under the
  passing of time.
- `OnlyOvertakenRemovesReady`: the worker, retries and stale sessions never take
  away a relay that can be claimed. Two deletions do that a `/batch_done` has
  overtaken: of a `/batch_cancel`, and of a `/batch_start` whose SET failed
  although it had taken effect (section 6).
- `AbandonedBatchesGo`: no orphans.
- `ProgressInv`, `SessionOnlyGrows`, `MessageKeepsBatch`: the counts shown are
  true, in every old record a handler still holds as well, a session names a
  message of its own batch and counts as notified only what was shown; its
  counts never go back; and no message passes from one batch to another.

Claims:

- `SentAtMostOnce`, `SentMeansReceived`, `ServedWhileClaimable`,
  `CountMatchesDeliveries`, `ResultsStay`, `PendingSettles`: the life of a
  delivery, as commented in the module. `ClaimInv` is the inductive invariant
  they follow from (section 4).
- `PromiseKept`: whoever claims the code of a finished batch, and is recorded as
  served, has at least the files the reply to `/batch_done` counted. It joins the
  two ends of the program: counts, codes, cache, frozen contents and deliveries
  would each have to be right.
- `ClaimsAsSpecified`, `UploadsAsSpecified`: the bot does to the state of each
  half what that half's specification allows.
- `CodesServed`: every code of a relay in a message is claimed, once, also when
  codes differ in one letter's case or the message is delivered again.
- `InOrderOnce`, `GroupsAcceptable`, `ImplementsPageDelivery`: a page arrives
  in order, no file twice, in groups Telegram accepts, and is called sent only
  when all of it is there.
- `ShownWasSent`, `OutOfRangeOnlyIfDeleted`: what the buttons show was sent, and
  while its relay could be claimed; they lead out of range only when it is gone.
- `PagesRight`: pages tile the files, albums are whole, and only a fragmented
  album is refused.
- `AtMostTwiceLimit`, `RefusedOnlyOverLimit`: what a fixed window guarantees.

Process:

- `SchemaRight`, `FilesKeepOrder`, `InstancesComeUp`: migrations.
- `ExitOrderly`, `ProcessEnds`: shutdown. An orderly exit cuts no HTTP request
  off. Update handlers are not waited for (`app.go:238`) and may be; what that
  leaves behind is what `Crash` and `ClaimCrash` leave.

`BatchInv`, `ProgressInv`, `ClaimInv`, `CodesServed`, `PagesRight`,
`ShownWasSent`, `SchemaRight` and `ExitOrderly` are checked in the form in which
they are proved: the promise together with what makes it inductive.

A definition whose comment begins with "Fault:" is a wrong variant of the one
after it. Putting it in that one's place makes the property it is listed with
in `PROJECT.json` fail; nothing else refers to it.

## 3. Runs

| Run | Instance | Shows |
|---|---|---|
| `store` | 3 relays, 3 uploads, 2 codes, 2 transactions, limit 2, 2 instants | the invariants and action properties of the store and the refinement of `RelayBox` |
| `batch_races` | 2 relays, 2 uploads, 2 codes, 1 chat, 2 handlers, limit 2, cap 1, 1 fault, no time | every interleaving of two handlers with one failure, lost answer or crash: codes, cap, contents, counts and waits |
| `batch_time` | 1 relay, 1 upload, 1 code, 2 handlers, cap 1, clock 0..2, relays live 2, sessions 1, 1 fault | `BatchInv`, and what removes a claimable relay, under expiry of sessions and relays, worker cycles with old clock readings and failures |
| `batch_live` | 2 relays, 1 upload, 1 code, 1 handler, limit 1, clock 0..2, 1 fault | orphaned batches go |
| `progress` | 2 handlers, 2 relays, a notice every 2 files, 2 files a batch, 2 messages, 1 fault; at most 3 batches, files and faults together | the progress message and the session record behind it |
| `claim_races` | 1 relay, 2 uploads, 2 requests, 2 claimers, 2 faults, no time | redelivery, crashes and lost answers |
| `claim_time` | 1 relay, 1 request, 2 claimers, clock 0..3, 1 fault | cache entries that outlive relays, the worker's timeout and purge; `ClaimInv` |
| `bot` | 1 relay, 1 upload, 1 code, 1 upload handler, 1 request, 1 claimer, clock 0..1, 1 fault in each half | promises across both halves, the uploads' steps against `ClaimDelivery`, and pending deliveries settle |
| `serving` | limit 2, window 2, 6 calls, clock 0..5; chunks of 3 in pages up to 5; runs of 2 among up to 7 files with 2 albums; 2 handlers on one message of 3 pages, 1 fault; 2 updates of up to 2 of 4 written codes, 2 bits of numbering, 1 fault | the stages of a claim that share no state |
| `startup` | 2 instances, 2 relays, 3 files, 1 fault; 2 readiness checks, 2 handlers | migrations from any earlier database, and the life of a process |
| `duplicate_claim`, `code_leads_to_files` | 2 handlers, no faults | the disagreements of section 6 |

Why the bounds are enough. The races are between two parties about one row, one
key or one session: two handlers, two transactions, two claimers, two instances.
A third upload in `store` is what it takes to overfill a batch of limit 2 and to
have an upload in conflict with a filed one. A cap of 1 is reached by the first
relay and exceeded by the second. Two uploads in `batch_races` let one handler
wait at its INSERT for the other's item while it holds its own row. One relay in
`batch_time` is enough for a batch that is finished or claimable when an
overtaken `/batch_cancel`, or the undo of a failed `/batch_start`, deletes it;
what a second relay adds is in `batch_races`, and `BatchInvAlways` covers both
together. Two requests and two claimers give both a redelivery and two claims of
one code. `clock` is bounded by the ticks it takes for a session or a relay to
expire and one cycle of the worker to see it; with relays that live one tick and
deliveries kept one more, 3 suffice to purge. Six calls within two and a half
windows fill the limit in two lives of a key and go over it in both. Pages of 2
and 7 files have runs that are shorter than, equal to and longer than one and
two pages; 5 files in chunks of 3 have a full and a short chunk. Two bits of
numbering make the shifted ids of one update reach beyond the ids of the next,
which is where numbers could meet. Three files in two relays can share a number
and be told apart only by their ids. In `progress`, two relays give the batch
that follows another; the bound on batches, files and faults together still
allows two batches with a file, or two files with one failure. `bot` multiplies
two halves that the other runs explore on their own, so it has one of
everything: one handler of each kind, with the worker and one failure in each
half, is what it takes for a step of one half to meet a step of the other, and
the theorems of `RelayBotProofs` are about any number.

Bounds in guards are `MaxFaults`, `MaxClaimFaults`, `MaxClock`, `MaxItems`, `MaxCalls`,
`MaxMessages`, `PageSize`; `InstanceExhausted` and `OutOfRelays` are what a
handler does when the instance has no id or code left. `progress` is the one run
with a CONSTRAINT (`LoadBound`). In `Receive` nothing else is bounded: updates
arrive without limit.

Deadlock is checked except in `serving`, whose functions return and whose
messages run out. `Ended` in `startup` is a process that has exited or instances
that are all up. Symmetry is used for model values in safety runs only, where no
property names one of them.

### Fairness

Only `batch_live`, `bot` and `startup` assume any:

- `WF(Proceed(h))` in `BatchUpload`, `WF(ClaimProceed(h))` in `RelayBot`: a
  handler whose next call can return goes on. Calls to PostgreSQL, Redis and
  Telegram return or their connection fails. A handler waiting for a lock is not
  enabled, so nothing is assumed about locks.
- `WF(Maintain)` in `BatchUpload`, `WF(RunOnce)` in `RelayBot`: `runner.go:35`
  starts a cycle each minute for as long as the process runs, and a cycle has no
  condition.
- `WF(Tick)`: time passes, up to `MaxClock`. In `RelayBot` this also says that
  claims that keep arriving do not keep the clock from moving, although
  `ClaimTick` waits for those that have been at work for `MaxHandling`.
- `WF(Proceed(p))` in `Migrator`: a statement returns or fails, and an instance
  that exits is started again (`compose-app.yaml:30`).
- `WF(Main)` and `WF(Release(u))` in `AppLifecycle`: `main` is scheduled, and a
  query ends. Nothing is assumed of HTTP clients.

No fairness is assumed of updates arriving, of faults or of crashes. The
liveness properties of batches and deliveries look back from the end of time: a
batch is `Abandoned`, or a delivery `Stuck`, when it is old enough by `MaxClock`
for the worker to see it.

## 4. Proofs

All theorems hold for every value of the constants that satisfies the modules'
named assumptions.

### RelayStoreProofs

Assumptions: finitely many uploads, a positive limit, integer instants, NULLs
that are not values.

| Theorem | |
|---|---|
| `StoreInvAlways` | `StoreSpec => []StoreInv` |
| `TypeCorrect`, `OrdersNeverCollide`, `LimitNeverPassed`, `UploadNeverDuplicated` | the four invariants of the run `store` |
| `SealedContentsStayFrozen`, `LivesOnlyGoForward` | its two action properties |

The four invariants are not inductive: `CommitInsert` publishes a number that was
read two steps earlier. `StoreInv` adds what makes that safe.

- `ItemsHaveRelay`: an item lies in a relay that exists, so an id that is about
  to be used has no items.
- `OpenTransaction`: while a transaction is open, the relay it has locked is
  still collecting, the number it has read is still one more than the number of
  items, there is still room, the relay it is creating is still unused and of an
  upload no other relay has, and the upload whose item it has inserted is filed
  nowhere else.
- `LockExclusive`: two transactions never hold one relay's lock, never create
  one relay id or a relay for one upload, and never have both inserted the item
  of one upload.
- the four invariants themselves.

The argument: the only steps that change the items of a relay are `CommitInsert`
and the deletions. `CommitInsert` releases the only lock on its relay, so what
others have read of other relays stays true; deletions wait for the lock. That
`MAX + 1` is the count plus one, and so fresh, is `NextOrderIsCountPlusOne`, from
`OrderGapFree` and finiteness; that adding it keeps the numbering is
`FilingKeepsOrder`. The action properties follow from `StoreInv` and
`CodeComesWithReady` (a collecting relay has no code yet), with one lemma,
`StepsOfARow`, that lists what a step can do to one row. `CodesStayUnique` adds
that a code leads to one relay for ever; the three together are `StoreFacts`
(`StoreFactsAlways`), which `BatchUploadProofs` and `ClaimDeliveryProofs` build
on.

`StoreImplementsBox` is the refinement `StoreSpec => ImplementsBox`, with one
lemma per kind of step. The box has the files of a relay as a sequence, the
store has them in a table with a number each; that an insert is an `Append` needs
that no number is given twice. `OrderGapFree` says that the numbers are
`1 .. Cardinality`, so the map from items to numbers is onto a set of the same
size and hence one-to-one (`OrdersDistinct`). A code that is sealed or published
is new because of `CodesUnique`.

### BatchUploadProofs

Assumptions: as above, and `LimitsPositive`, `TimesCovered` (every instant the
clock, a session or a relay comes to is one the store can hold), `FiniteRelays`
and `FiniteHandlers`, which `ActiveCapSlack` needs to count them.

| Theorem | |
|---|---|
| `UploadsImplementStore` | `BatchSpec => StoreSpec`: commands, files, retries, faults, crashes and the worker do to the tables what `RelayStore` allows |
| `BatchInvAlways` | `BatchSpec => []BatchInv` |
| `CodesAlwaysAgree`, `CapSlackBounded`, `NoEmptyBatchFinished`, `CountsAlwaysHonest` | the safety properties of the upload runs |
| `WaitsAlwaysEnd` | `WaitsEnd`, the part of `NoHandlerStuck` without ENABLED |
| `ReadyRelaysStay` | `OnlyOvertakenRemovesReady` |

A handler knows the tables from calls it made some steps ago, and rows change
meanwhile. What it knows is therefore put in a form that other steps cannot
undo: `Opened(r, c)` (the relay was opened for this chat; if it is still there
it is this chat's) and `Counted(r, n)` (if it is still there, it has at least
`n` files), both stable since a relay only gets more files until it is gone
(`RowGrows`). `BatchInv` says this of each handler's variables
(`HandlerCounts`), of each session (`SessionRight`) and of the code cache; which
variables mean something at which program counter is `HandlerShape`; a code in
hand is the one in the row (`HandlerCode`); and a transaction is open exactly
from its first statement to its COMMIT, with the key of its item from the INSERT
on (`HandlerTx`). It says nothing of the relay of a `/batch_start` that may
still fail: others may know it by then, and `Opened` and `Counted` allow for its
deletion as for any other. An overwritten or stale session then cannot lead
`/batch_done` to another chat's batch or to an empty one:
`FinishedBatchNotEmpty` follows because the count that was listed is `Counted`
when the batch is finalized.

`WaitsAlwaysEnd` ranks the handlers. Whoever has inserted its item waits for
nobody; whoever is about to insert waits only for those; the others wait only for
handlers in a transaction, that is for one of these two kinds. Among any handlers
one of the least rank therefore waits for none of them. `HandlerTx` gives the
ranks: which locks and keys are held at which program counter.

`ActiveCapSlack` is about sets that grow and shrink by one: a handler that passes
the check joins the handlers past it before its relay is active (`CapKept`). The
proof of a step is split by what can change: one handler moves
(`OneHandlerMoves`, of which `HandlersMoveAlone`, `HandlersSeal`,
`HandlersPass`, `HandlersWriteSessions` and `CachesMove` say what each action
does), or none does (`NobodyMoves`: the clock, the worker, a crash).

### BatchProgressProofs

Assumption: `ProgressAssumption` (a step of at least one file, natural bounds).

`ProgressAlwaysTrue` is `Spec => []ProgressInv`, `MessagesKeepTheirBatch` and
`SessionNeverShrinks` are the two action properties. A session record that a
handler read may be merged back any time later. It is safe because everything it
says is stable: its batch has at least that many files, its message is of that
batch, the count it calls notified was shown (`RecordTrue`, `RecordStays`, from
`WorldGrows`). What must not happen is that a record of an old batch is merged
into the new one's session: `Merged` keeps another relay's record, and
`StartAlone` says that a relay not yet in a session is in no record either.

### ClaimDeliveryProofs

Assumptions: as above, and `WantedIsCode`, `FiniteRequests`, `DelaysAreNat`,
`HandlersOutlived` and `TimesCovered` of `ClaimDelivery`.

| Theorem | |
|---|---|
| `ClaimImplementsStore` | `ClaimSpec => StoreSpec`: what claims, uploads and the worker together do to the tables is what `RelayStore` allows, so its theorems hold of the composition |
| `ClaimInvAlways` | `ClaimSpec => [](StoreFacts /\ ClaimInv)` |
| `PageSentAtMostOnce`, `SentReallyReceived`, `CountAlwaysMatches`, `OnlyClaimableServed` | the four safety properties of the claim runs |
| `ResultsAreFinal` | `ResultsStay` |

`SentAtMostOnce` is far from inductive. The row of `relay_deliveries` is what
keeps a second handler from sending, and rows go away: with their relay, and by
the worker's purge. `OneSender` says what takes their place. A claim that somebody
sends or has sent (`Taken`) either still has its row or is `Spent`: its relay is
expired or deleted, and every handler that looked it up before will find no row
to insert for. The purge is the hard step: it removes deliveries of relays with
`expiresAt < cycle.now - Retain`, and by `Timely` and `HandlersOutlived` this is
before the clock reading of every handler at work, so that no handler at work can
have found the relay claimable. The other parts of `ClaimInv` say that a handler's
relay and files are right (`LookupsRight`), that cache and deliveries lead to the
relay of the code (`CacheRight`, `DeliveriesRight`), and that a handler that
sends has the row with no result yet (`SenderRight`). The proof has one lemma per
way the state can change: tables change under the claims (`RowsAndRemovals`),
handlers read (`ClaimersMove`), one handler writes its claim's row or sends
(`OneClaimMoves`).

### RelayBotProofs

Assumptions: those of `BatchUpload` and of `ClaimDelivery`.

| Theorem | |
|---|---|
| `UploadsHold` | `BotSpec => UploadsAsSpecified` |
| `ClaimsHold` | `BotSpec => ClaimsAsSpecified` |
| `BotUploadsRight`, `BotClaimsRight` | the safety theorems of each half, of the whole bot |
| `BotImplementsBox` | `BotSpec => ImplementsBox` |
| `BotInvAlways` | `BotSpec => []BotInv` |
| `PromisesKept` | `BotSpec => []PromiseKept` |

`UploadsHold` needs no invariant: a claim's step stutters on the uploads' state,
and each step of `RelayBot` has one of `BatchUpload` as a conjunct. `ClaimsHold`
does need one. A step of an upload handler is to be one of `Upload`,
`UploadWarmsCache`, `CancelRelay` or a stutter (`HandlersUpload`), and whether it
is depends on what the handler holds: that its clock reading is not of the future,
that a batch it finalizes still has a file, that the code it caches is the code
of the relay it names. This is `BatchInv`, with the theorems of
`RelayStoreProofs`. A step deletes one relay, and only `RemoveRelay` and the
worker's purge delete any (`NobodyElseDeleted`), so that the cascade is what
`ClaimDelivery` says it is (`CascadeTakes`); the entry a handler caches has the
life `UploadWarmsCache` gives it (`WarmingLeaves`). `OneWorker` makes the
worker's two program counters one.

`PromiseKept` follows from `PromisesRight`: what was promised of a code is still
true of its relay, if that is still there (`PromiseRight`). It is stable because
a code in a row never changes and a relay with a code loses no file
(`PromiseStays`). With `ClaimInv` of the
claims, which holds by `ClaimsHold`, a delivery recorded as sent is of the relay
of its code and has brought all its files.

### PageSenderProofs

`InOrderOnceHolds`, `SentInFullHolds`, `GroupsAlwaysAcceptable`,
`PageSenderTypeOK` and the refinement `SenderImplementsPageDelivery`, for every
chunk size, page and mixture of kinds: the chat is always `1 .. next - 1`, or a
request further when the last one was served without an answer; and the ends of
requests show where each of them began (`GroupsAreWhole`), so that a request of
several files is one whole chunk.

### ServingProofs

The parts of `MCServing` that have no proofs of their own, for any number of
handlers, messages, files, pages, calls and faults. Assumptions:
`PagingAssumption`, `NavigatorAssumption`, `NumberingAssumption`,
`CodesAssumption`, and `LimitIsNat`, `WindowPositive`, `BoundsAreNat` of
`RateLimit`.

| Theorem | |
|---|---|
| `CodesAlwaysServed` | `CodesServed` |
| `PagesAlwaysRight` | `PagesRight` |
| `ShownAlwaysSent` | `ShownWasSent` |
| `OutOfRangeAlwaysDeleted` | `OutOfRangeOnlyIfDeleted` |
| `AtMostTwiceLimitHolds` | `AtMostTwiceLimit` |
| `RefusedOnlyOverLimitHolds` | `RefusedOnlyOverLimit` |
| `RateLimitTypeOK` | the limiter's types |

Codes. A handler has made the claims before the one it has come to
(`HandlerRight`), and every delivery stands under the number of the claim it was
made for (`NumberRight`). That a delivery found under one's number is one's own
is `RequestsApart`: no two claims have one request number, by arithmetic on
`update * 2^16 + position` from `NumberingAssumption`. That the claims are the
codes of the message, each once, is `ClaimsRight`; the numbers of first
occurrences are counted through without a gap by `RanksFill`, a fact about
finite sets that needs no induction (ranks are an injection into `1 .. n`, and
so onto it).

Paging. `LoopRight` is the loop invariant: `seen` is the albums before `index`,
each met in one run. `PageOfRun` describes a page by the run it lies in, so that
"no album that fits is cut" can be read off the page. `RunPagesRight` is the
arithmetic of rounding up in `appendRelayPages`.

Buttons. A message shows a page only from a handler that has sent it, and
`arrived` only grows. That a handler at work serves a relay that was claimable
when it began follows from the row's life going forward only: a row that says
ready said so then (`HandlerRight`). Out of range is impossible while the relay
is there because `Buttons` leads to pages of it only and its files are frozen.

Limits, for every limit and every window of at least one tick. Two lives of a key
begin at least a window apart (`LivesApart`) and each call is within a window of
the beginning of its life (`CallsInLife`), so a stretch of one window meets two
lives at most; in one life the counter is the number of calls (`Counted`), so at
most `Limit` are allowed.

### StartupProofs

`SchemaAlwaysRight`, `FilesAlwaysKeepOrder` and `ExitAlwaysOrderly`, for any
number of instances, relays, files, checks and faults, under the run's
specification `FairStartupSpec`, of whose fairness nothing is used. Assumptions:
`ItemsAreNumbered` (the ids of `relay_items` are finitely many numbers),
`NoRelayIsNone`, `MaxFaultsIsNat`.

Migrations: at most one instance has executed a script and not yet ended its
transaction (`OneInTransaction`), it has found its script not recorded and
nobody else can record it meanwhile (`InstanceRight`); the hard script is 003,
whose `ROW_NUMBER() OVER (PARTITION BY relay_id ORDER BY item_order, id)` is a
cardinality in the model. `RowNumbersFill` proves that these numbers are `1 ..
n` for each relay, and `RowNumberKeepsOrder` that they keep the order in which
files were sent, also when numbers were given twice. Process: `StageRight` says
which of the stores, the server and the requests can be open at which stage of
`main`.

### Only model-checked

- Liveness: `AbandonedBatchesGo`, `PendingSettles`,
  `InstancesComeUp`, `ProcessEnds`. Liveness under fairness is beyond the proof
  system.
- The second half of `NoHandlerStuck`: that nothing but `Waits` stops a handler
  is a formula with ENABLED, beyond it too.

Every other property of a passing run is a theorem.

## 5. Running the checks

    tlc -workers 2 -config MCBatchRaces.cfg MCBatchUpload.tla
    tlapm BatchUploadProofs.tla

`PROJECT.json` lists the runs with their modules and configurations, the wrong
variants each property rules out, and the source lines of every definition.

## 6. Where the code and what is said of it differ

With a run that shows it:

- `duplicate_claim`: a redelivered claim is answered "not found" while the first
  one is in progress, because `store.go:388` tests for an error that
  `scanDelivery` has already replaced. `service_test.go:852` expects "in
  progress"; its store is a stub. No page is sent twice, so the harm is the
  answer.
- `code_leads_to_files`: one update delivered twice, one handler appending it to
  a batch and the other relaying it alone, after the batch's session has gone
  and before the append has committed. `addRelayItemTx` reports the filed upload
  as "not created" without an error (`store.go:132`), `CreateRelay` commits its
  empty relay, and the reply that says "send this code and get the file back"
  (`router.go:458`) hands out a code without files.

Seen while modelling, in the models but without a run of their own:

- `ACTIVE_RELAYS_PER_USER` is checked in one call and used in a later one
  (`service.go:112`, `466`), so concurrent uploads exceed it. `ActiveCapSlack`
  says by how much.
- A `/batch_cancel` that has looked the batch up deletes it unconditionally
  (`service.go:581`, `store.go:312`), also when a `/batch_done` has just answered
  with its code. `OnlyOvertakenRemovesReady` has this as one exception.
- When the SET of a new session fails, `/batch_start` deletes its batch
  unconditionally (`service.go:256-260`). If Redis has applied the SET and only
  its answer is lost, another update may meanwhile have added files to the batch
  and finished it, and a relay whose code was just handed out is deleted. This is
  the other exception.
- A file that is redelivered after its batch's session is gone is answered with
  the batch's code, which is empty while it is collecting (`service.go:82`).
- A file whose batch is deleted between the session check and the append is
  turned away: `ErrRelayNotFound` is not one of the errors after which the router
  relays it alone (`service.go:297`).
- The progress message of a batch that has ended may be edited back to
  "collecting" by an append that comes late, and `/batch_done` may report a count
  that an append has overtaken.
- `MarkDeliverySent` locks a delivery and then its relay (`store.go:427`), a
  deletion locks the relay and, by its cascade, the deliveries. PostgreSQL aborts
  one of the two.
- Codes in captions and in forwarded messages are not claimed.

## 7. Not modelled

- Configuration: read once, before anything runs; its limits are the CONSTANTS.
- Metrics, commands and logging: output no decision reads.
- Validation of file size, kind and extension, badly formed codes, and
  `ExtractCreateRelayInput`: checks and copies of fields before any state is
  touched.
- Generation and hashing of codes: random and a MAC. That two never agree is
  assumed (`FreshCode`).
- `MarkSeenUpdate` and the created-code keys of the cache, and
  `shouldFallbackAfterCopyError` of the sender: the program does not call them.
- The liveness check and the webhook handler of the HTTP server: no state.
- Who asks the rate limiter: a refusal is a failed call in the use cases
  (`CallFails`, `ClaimFails`), and `RateLimit` has calls from anywhere.
- Texts of messages, apart from the counts and pages they show.
- Several instances serving at once: two polling instances would share the
  updates of one bot. Nothing in the models relies on there being one process,
  except that a crash (`Crash`, `ClaimCrash`, `Restart`) stops all handlers together.

## 8. Plan

Done: all modules of section 2, with the runs of section 3 and the theorems of
section 4, which cover every safety property of the runs. What is worth doing
next, in this order:

1. Albums: which interleavings of appends leave a relay that `Paging` refuses,
   by composing `BatchUpload` with the album ids of its uploads.
2. `BatchProgress` as an abstraction of `BatchUpload`, by a refinement mapping
   from sessions to session records, instead of a view read off the same code.
