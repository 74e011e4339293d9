# Synapto in TLA+

Synapto (`src/`) reads public Telegram channels, summarizes each new post with an
AI provider, and sends one subscriber a digest on a fixed interval. It is one Go
process over one SQLite file, with an admin panel. This directory models the
parts of it where order, failure and restart matter, model-checks them with TLC
and proves the central facts with TLAPS.

All source paths below are relative to `src/backend/`.

## Inventory

| component | state | operations | hard behaviour |
|---|---|---|---|
| **digest cycle** `internal/digest/cycle.go` | locals of `Cycle.Run` | fetch, persist, summarize (8 goroutines), bundle, render, send, mark, record | a crash, a shutdown or an ignored error between any two calls |
| **post queue** `internal/store/sqlite/posts.go` | the `posts` table: status, summary, dedup key | `Upsert`, `ListReceived`, `ListUnsent`, `GetFirstTerminalByDedupKey`, `Mark*` | at-least-once delivery; updates that do not look at the old status |
| **cycle, digest and item rows** `cycles.go`, `digests.go` | one row per cycle and digest, one per post sent | `Create`, `Finish`, `AddItem`, `UpdateSendResult` | errors are discarded, rows may stay pending |
| **scheduler** `internal/digest/scheduler.go`, `watchSettings` in `cmd/assistant/main.go` | interval, ticker, running flag | `Run`, `fire`, `SetInterval`, `WaitIdle` | live interval changes, skipped ticks, windows across a restart |
| **process lifecycle** `cmd/assistant/main.go` | the context of the goroutines | boot, signal, cancel, wait, exit | the context is cancelled before the cycle in flight is awaited |
| **long-poll client** `internal/telegram/real.go` | update offset, buffer per handle, subscriber flag | `longPoll`, `handleUpdate`, `FetchNewPosts`, `SendMessage` | what is acknowledged to Telegram is only in memory |
| **preview client** `internal/telegram/preview.go` | request throttle | `FetchNewPosts` (paging), `SendMessage` | page cap, order, rate limit |
| **rendering** `internal/digest/render.go` | none | `Render`: group by category, pack into messages | size limits |
| **settings** `sqlite/settings.go`, `adminapi/settings.go` | one row | read-modify-write by the panel, the chat discovery, the boot | lost updates |
| **categories** `sqlite/categories.go` | ordered rows | add, rename, remove, defaults at boot | ordering, names, removal during a cycle |
| **channel administration** `sqlite/channels.go` | handle, cursor, status | add, remove, mark inaccessible | against a cycle in flight |
| **history of the admin API** `adminapi/history.go` | none | the page of a cycle: status, items, categories in three reads | reads between the steps of a running cycle and of the panel |
| **AI clients** `internal/ai/*.go` | none | `Summarize`: invalid input, answer, unavailable; `parseResponse` | an answer that names no known category |
| health, events, queue page, sessions, configuration, front end, deployment | - | read-only or input and output only | - |

The scheduler goroutine starts a cycle, the cycle calls the Telegram client, the
summarizer and the store, and the store is also written by the HTTP handlers and
by the client's chat discovery. There is no lock above a single SQL statement.

What makes each part correct: a captured post reaches the subscriber or is
dropped unread, and is then left alone; copies beyond the first are caused by
failures; the cursor hides nothing that was not stored; the status of a cycle
says what happened; cycles never overlap and never stop; a setting that was
acknowledged is not undone.

## Modules

| module | what it is |
|---|---|
| `DigestCycle` | `Cycle.Run` over the `posts` table, with the process that runs it |
| `AtLeastOnceQueue` | the abstract promise of the post queue |
| `ChannelFeed` | the abstract promise of capturing one channel |
| `MCDigestCycle` | small instances of `DigestCycle` for TLC |
| `DigestCycleProofs` | the cursor, the copies of a post, both refinements, the rows a cycle leaves |
| `Scheduler` | the scheduler, the watcher of the settings row and the process, over real-time windows |
| `SchedulerProofs` | no overlap, no window twice, windows an interval apart |
| `LongPoll` | Telegram's update feed, the long-poll client and the fetch step of a cycle |
| `LongPollProofs` | nothing slips through, the cursor is safe and never moves back, the feed is implemented |
| `CategoryAdmin` | the categories table between the panel, the boot and a running cycle |
| `CategoryAdminProofs` | history rows are filed under the heading of the digest, missing ones are explained, and the page of `History` shows it so |
| `History` | the page of a delivered or failed cycle, read while `CategoryAdmin` runs |
| `SettingsRow` | the settings row between the page, other clients, the chat callback and the boot |
| `SettingsRowProofs` | a stored setting is lost only to a writer with an older read |
| `ChannelAdmin` | the channels table between the panel and the fetch step of a running cycle |
| `MCChannelAdmin` | a small instance of `ChannelAdmin` |
| `ChannelAdminProofs` | references, cursors and captured messages across removals |
| `Preview` | the preview client: the walk over pages, the throttle, two callers |
| `PreviewProofs` | posts are passed only with a cause, batches move the cursor, callers wait, the feed is implemented |
| `Render` | grouping and packing a digest into messages |
| `RenderProofs` | every message fits, every line and post is in its place |

`DigestCycle` starts a cycle whenever the last one is over, and its client's buffer
is never full; the other modules look at what it takes for granted. `Scheduler`
gives the timing of `Tick` and reduces a cycle to its window and its outcome;
`LongPoll` gives the detail of `Poll` and `Fetch` (single updates, edits, the cap of
the buffer) and reduces a cycle to the fetch step;
`CategoryAdmin` adds the categories, which `DigestCycle` has none of, and reduces
a cycle to the steps that read or write them; `History` extends it with a reader
that leaves its variables alone. `ChannelAdmin` takes away the fixed set of
channels of `DigestCycle` and keeps the steps that use a channel's row. `Preview`
is the other detail of `Fetch`, beside `LongPoll`; `Render` is the detail of what
`Bundle` and `SendPart` leave open. `SettingsRow` gives the row that `SetChat` of
`DigestCycle` and `ChangeSetting` of `Scheduler` write in one step.

### DigestCycle

One action stands for one call that the code makes to the database, to Telegram
or to the summarizer, in the code's order; `pc` names the next call. The
alternatives of an action are the outcomes of the call, and the code's reaction
to an error (return, `continue`, or ignore) is part of the same action.

| step of `Cycle.Run` | actions |
|---|---|
| create the cycle row | `Tick` |
| 1 fetch and persist | `ListChannels`, `Fetch`, `FetchFails`, `Upsert`, `Dedup`, `AdvanceCursor`, `FetchDone` |
| 2 summarize | `LoadReceived`, `Summarize` (any order: one goroutine per post), `SummarizeDone` |
| 3-5 bundle, render, mark included | `Bundle`, `MarkIncluded` |
| 6 send | `SendPart`, `SendFails`, `SendNothing` |
| 7 outcome per post | `MarkOutcome`, `MarkDone` |
| 8-9 digest and items | `Record` |
| 10 finish | `Finish` |
| the process | `Crash`, `Shutdown`, `Exit`, `Boot` |
| `longPoll`, `handleUpdate` of the client | `Poll` |
| outside | `Publish`, `SetChat` |

Design decisions worth knowing:

- **The client's memory.** `Poll` acknowledges what the client has received, which
  Telegram then forgets (`confirmed`), and brings more (`received`). `Fetch` takes
  what is beyond the cursor out of the buffer, and `taken` is how far it went. When
  the process dies, the buffer and the batch are gone: the next one gets again only
  what was not acknowledged, and the cursor may later pass what was (`Forgotten`,
  added to `dropped`). Buffers that are full and edits are in `LongPoll`.
- **Context.** `main.go` cancels the context and then waits for the cycle. A
  store call under the cancelled context fails (`StoreFails`); `FetchNewPosts`
  and `SendMessage` of the long-poll client do not look at it, so `SendPart`
  stays possible. The preview client does look at it: `SendFails` costs nothing
  then. The model therefore covers both clients.
- **Failed sends.** A request that fails may have reached Telegram: `SendFails`
  delivers any part of what was left, including nothing.
- **Parts.** How `Render` splits a digest is left open: each message carries any
  non-empty subset of the posts that remain. Marks are per digest, as in the code.
- **Rows in order.** `rows` is the insertion order, which is `captured_at` order;
  `Oldest` is the `ORDER BY ... LIMIT` of both list queries.
- **Answers** is what a call of either AI client can end in. A post without text
  is in `Rejected` and answered with `ErrInvalidInput` before the provider is
  called; an answer needs a live context; a timeout, a refused request and an
  answer that cannot be parsed are all "unavailable". `Store` is what
  `summarizeBatch` makes of it.
- **History variables.** `deliveries` counts what the subscriber received. `shadowed`
  holds the posts whose content was settled when they were captured; a post leaves
  it when its own dedup is cut short, by a failing call or by the end of the process.
  `dropped` holds the posts without a row whose upsert failed or which memory lost,
  `unrecorded` the posts whose `AddItem` failed or was not reached. No guard
  reads any of these. `faults` counts the faults so far.
- **Faults** cost one unit of `MaxFaults` each: a crash, a shutdown, a store call
  that fails under a live context, a failing fetch, a failing send.

### AtLeastOnceQueue and the refinement

`absent -> waiting -> delivered | dropped`, with a copy counter: a post is
acknowledged only after a delivery, dropped only if it was never delivered, and
afterwards neither delivered nor changed. `ImplementsQueue` maps `none` to
absent, `sent` to delivered, `filtered_out` to dropped and everything else to
waiting. The mapping is not obvious in the code, because `MarkIncluded`,
`MarkSent` and `MarkSendFailed` overwrite any status: it holds because a cycle
only marks what it listed and nothing else runs beside it.

### ChannelFeed and its three implementations

`ChannelFeed` is what capturing one channel promises: messages are stored only from
beyond the cursor, and when the cursor moves to `n`, each message up to `n` is stored
or given up. Pages, updates, buffers, batches and restarts do not occur in it. Three
modules implement it (`ImplementsFeed`), each under a mapping of its own:

| module | `captured` | `missed` |
|---|---|---|
| `DigestCycle` | has a row, whatever its status | `dropped`: refused by the store, or taken from memory by a fault after Telegram had forgotten it |
| `LongPoll` | in `rows` | in `lost` without a row: taken from memory by a fault or the cap, or refused |
| `Preview` | in `captured` | without a row and deleted, behind the page cap (`cut`) or passed unread (`unread`) |

So step 1 of `DigestCycle`, with its small client, and the two modules with the
clients in full agree on the one thing the rest of the cycle relies on. What each gives
up differs, and the mapping says what. The step that has to be shown is the move of
the cursor: `AdvanceCursor` and `Deliver` write an id that they carry in a local, and
look at none of the posts before it. `DigestCycle` and `LongPoll` have a feed per
channel, `Feed(c)`; there the refinement is stated as the initial condition and the step
of all feeds, the form of `Spec` that TLC takes under a quantifier.

### Scheduler

`pc` names the statement at which the goroutine of `Scheduler.Run` stands.

| code | actions |
|---|---|
| `Run`: plan and wait for the first tick, create the ticker | `Plan`, `FirstTickDue`, `Arm` |
| `Run`: fire, read the interval back, the loop | `FireFirst`, `Adopt`, `TakeTick`, `FireTick`, `Stopped` |
| `fire` | `Fire`: the overlap guard and the goroutine it starts; `EndCycle`: that goroutine ends |
| `watchSettings`, a saved setting | `Watch`, `ChangeSetting` |
| the process | `Crash`, `Shutdown`, `Exit`, `Boot` |
| outside | `Elapse`: time passes |

- **Time.** Every instant is kept relative to now: `Elapse` moves them all
  towards the past by one unit (`Earlier`), so that no clock grows. What lies
  further back than `Horizon` counts as long ago.
- **Lateness.** A timer or a goroutine may be late by `MaxDelay`; `InTime` keeps
  time from passing beyond that. The ticker is Go's: its channel holds one tick,
  a tick that finds it full is dropped, and `Reset` keeps one that waits.
- **The order of statements in `Run`** is kept because it matters: the ticker is
  created before the first cycle is fired and `lastInterval` is read after it.

### LongPoll

Telegram numbers all updates of a bot. `feed` is that sequence; an update is a
new post or an edit of an older one, and stands for the version of the post it
carries. Posts of a buffer or a batch are in the order of their updates, so each
is a set of update numbers and "the oldest" is its minimum.

| code | actions |
|---|---|
| `longPoll`: `getUpdates(offset)` acknowledges what is before the offset and returns some prefix of the rest | `Poll` |
| `handleUpdate`, `bufferPost` with its cap | `HandleUpdate` |
| the fetch step of `Cycle.Run` with `FetchNewPosts` | `StartCycle`, `Fetch`, `Upsert`, `AdvanceCursor` |
| a crash or a shutdown, then a new process | `Restart` |
| channels | `Publish`, `Edit` |

`lost` is a history variable: what was only in memory when a restart, a failed
upsert or a full buffer took it. `Accounted` then says that nothing else is ever
lost. A response of `getUpdates` that fails, times out or is cut short is a
`Poll` that returns fewer updates.

### CategoryAdmin

A cycle lists the categories once (`known`) and works with that list while the
panel changes the table (`name`, by row id).

| code | actions |
|---|---|
| `seedDefaults`, `EnsureDefaults` at boot | `Seed`, one per missing name, and `Seeded` |
| `AddCategory`, `RenameCategory`, `RemoveCategory` | `Add`, `Rename`, `Remove` |
| `Cycle.Run`: capture, list the categories and the posts | `StartCycle` |
| `summarizeBatch`: resolve the answer by name, `MarkSummarized` | `Summarize` |
| bundle and headings; send and mark, or fail; history rows | `Bundle`, `Send`, `SendFails`, `AddItem`, `Finish` |
| a new process | `Restart` |

- **The schema does half of the work.** `Writable` is the foreign key of
  `posts.category_id` and `digest_items.category_id`: a statement that refers to
  a removed row fails, and the cycle ignores the error. `Nulled` is their
  `ON DELETE SET NULL`. `Insert` fails on the `UNIQUE` name.
- **Answers.** The summarizer is built at boot with the shipped names, and
  `parseResponse` lets only those and a constant of its own through, `Uncategorized`
  (`main.go:281-318`), whatever the label in the settings is; for any other name,
  and when it is unavailable, the post gets no category. A name that the list of the
  cycle does not have is replaced by the label of the settings (`Resolved`). Both
  may be names of rows.
- **Digests.** A cycle that does not deliver records its digest and its items all the
  same (`cycle.go:368-404`), and the next cycle takes the posts again: `Entry` is a
  post in one digest, `try` the digest of the running cycle.
- **Left out**: the display order; a change of the label; restarts in the middle of a
  cycle and failing store calls, which are in `DigestCycle`.
- **History variables**: `home` is the row whose name headed a post in a digest,
  `pulled` the rows that were removed while a cycle ran.

### History

`handleGetCycle` reads the row of a cycle (`GetCycle`), `buildItemsByCategory`
the items of its digest (`ListItems`) and then the categories (`Reply`), each in
its own statement. `Reads` is that order. `HNext` is a step of `CategoryAdmin` or a
read; a read changes `view` only. `latest` is the digest a page can be opened for, and
it may be a failed one: its digest row and its items are served as those of a delivered
one are. Only a cycle that was skipped or has no digest row is answered with 410
(`history.go:158-174`) and shows no item. `Group` puts items without a category under
the handler's literal "Uncategorized", whatever the label in the settings is. The
queries of the cycle list,
the queue page, the events and the health endpoint are single reads.

### SettingsRow

| code | actions |
|---|---|
| `seedDefaults` and `SyncAISettings` at boot | `Boot` |
| the settings page: load, save | `Load`, `Save` |
| `handlePatchSettings` for any other client | `Request`, with `Valid` |
| `recordSubscriberChat`: the first message of a run | `Message` |
| `onChat` of `main.go`: look, then store | `SkipKnown`, `Persist` |
| `UpdateSettings`: read the row, write it back | `Read`, `Write` |
| a statement that fails; a crash and an edit of the env file | `Fail`, `Crash` |

- **Two statements.** `UpdateSettings` reads the row, merges the fields of the
  request and writes all three operator fields; nothing keeps two updates apart.
- **The page sends everything.** Its patch holds the values it loaded for the
  fields the operator did not touch, so a page is a writer with a read that may
  lie minutes back. `edited` tells the fields a writer means to change from those
  it only repeats; `stale` are the fields set by somebody else since its read.
- **History variables**: `edited`, `intended`, `stale`, `lost`, `heard`, `stored`.
- **Left out**: the probes behind the test buttons (they change nothing), the
  interval's effect (`Scheduler`), the wording of validation errors.

### ChannelAdmin

| code | actions |
|---|---|
| `AddChannel` | `Add` |
| `RemoveChannel`: count the items, delete the row | `CountItems`, `DeleteRow` |
| `Cycle.Run`: list, fetch, or mark inaccessible | `List`, `Fetch`, `FetchFails` |
| `Cycle.Run`: upsert one by one, advance the cursor | `Upsert`, `AdvanceCursor`, `FetchDone` |
| digest items; the end of the cycle | `AddItem`, `Finish` |

- **Rows and channels.** A row is an id that is never used again; `handle` is
  unique as it is spelled, while `normalizeHandle` (`ChannelOf`) makes one channel
  of several spellings. With the long-poll client they drain one buffer.
- **Both clients**: `source` is chosen at the start. The long-poll client forgets
  what it hands out (`drained`); the preview reads the channel itself and fails.
- **Left out**: crashes and failing statements (`DigestCycle`, `LongPoll`),
  edits and full buffers (`LongPoll`), pages (`Preview`), and the look-up of the
  title in `GetChat`, which decides only whether `Add` happens.

### Preview

| code | actions |
|---|---|
| `throttle`: look at `lastFetch` under the lock, sleep without it | `Look`, `Tick` |
| after the sleep: `lastFetch` is now, the request goes out | `Request`, part of each of the next three |
| `FetchNewPosts`: one page, or an error | `ReadPage`, `ReadFails` |
| `GetChat` from the panel | `Check`, `GetChat` |
| the cycle: start, store the batch and move the cursor | `StartWalk`, `Deliver` |
| t.me | `Publish`, `Delete` |

- **Pages** hold the newest posts before an id, listed newest first, which is what
  `preview.go:139` and its tests take them to be (t.me itself is external).
- **What cannot be read.** `Shown` and `Links`: markup that the expressions do not
  match hides posts or the link to older ones. `MaxGlitches` bounds it.
- **Causes.** `cut` holds what a walk left behind at its page cap, `unread` what
  it passed without reading. Both are history variables.
- **Time** is counted up to `MinInterval`; `own` is the time since a caller's own
  last request and not read by any action.

### Render

The loops of `Render` are actions (`GroupItem`, `AddCategory`, `PackLine`, `Finish`)
and their results sequences of lines. A text is its length; the limits are those
of the code, scaled down together, and `LimitsAssumption` states the headroom that
the code's own numbers have. Wording, escaping character by character and links
are left out: `Escaped` is the length an escaped text can have.

## Runs

| run | shows |
|---|---|
| `cycle_faults` | two messages of the same content, in one batch or in two; any two faults at any call of the cycle or of the client. The queue refinement, the copy count, the dedup of settled content, the truth of the recorded status, the digest history, no pending row without a fault |
| `cycle_live` | the same two messages, of which the summarizer refuses the first, batches of one to summarize, and any two faults. The refinement of the feed across faults, and liveness: every message is captured or known to be lost, every capture settles |
| `scheduler` | cycles never overlap, windows advance and keep an interval apart across restarts, the ticker takes over a saved interval unless the change overtook its start, cycles recur |
| `longpoll` | edits, full buffers, redelivery and restarts around batches: nothing slips through, cursors are safe, both channels implement the feed, everything is stored or known to be lost |
| `categories` | any four edits or restarts around cycles over two posts. References stay valid, history rows of delivered and failed digests name the category of the heading, a missing one is explained, every post is delivered |
| `history` | the page of a delivered or failed cycle is read at any point of cycles and edits: one that says finished is complete, posts are grouped as in the digest, and the queue and the history never name two categories |
| `settings` | a page, another client and the callback around two updates, two messages and a fault: what was set stays unless a stale writer puts the old value back, and a heard chat is stored |
| `channels` | two spellings of a channel, three rows over time, either client: references stay valid, cursors pass nothing, nothing is captured twice by a row, selected channels are captured |
| `preview` | five posts on pages of two with a cap of two pages, one deletion, one unreadable page, one failing request, one check by the panel: posts are passed only for a cause, the walk implements the feed, batches move the cursor, no caller fetches twice within the interval |
| `render` | every digest of up to four posts, two categories or none, short and long: no line is lost or moved between messages, each post stands once under its heading, every message fits |
| `doc_*` | statements of the documents that the code does not meet, one each (below) |

**Bounds.** Two messages of one key and one channel give a forwarded pair, the
smallest case in which dedup can matter, and the client brings it in one batch, with a
beginning and an end, or in two, so that a fault can fall between what was
acknowledged, handed out and stored; `BatchLimit` 1 makes one of two posts wait. No
statement of the cycle reads two channels at once: what a second channel adds to
the intake is in `longpoll`. Two faults let a failure hit the recovery of another.
`ItemCap` 1 distinguishes a post without an item row from one with, which is what
`SentIsRecorded` asks; `cycle_live` counts to 2. Faults are bounded because the copy
counter is: each costs at most one copy. No symmetry is used: the instances are small,
and most of the runs check liveness or action properties.

`scheduler`: intervals 2 and 3 with 3 in the environment let a change shorten the
period, put two ticks of the short ticker around one of the long one, and let
a boot start with a value that is not the saved one; `MaxDelay` 1 makes a tick
late, or lets it be overtaken by a change; `Horizon` 5 is more than the longest
interval with its delay, so a window ages past the point where it makes a boot
overdue; one change and two stops (crashes, shutdowns or failing reads) allow a
change between two restarts. `longpoll`: with a buffer of two posts, three
updates fill it and drop one, or edit a post that was stored, is in a batch, or
is still unread; two faults let a restart follow a lost cursor advance.
`categories`: one shipped name, the summarizer's word for none and the label of the
settings, both possible as names of rows, give every way in which a heading can be
resolved; one failing send gives a post two digests; four edits are enough to rename a
shipped category, give its name to a new row, remove that row and restart, all
around one cycle; four rows are as many as those edits and boots can insert
without filling the table.

`history`: one page and three edits can put a rename or a removal between any two
of its reads and the cycle that is still adding items. `settings`: two requests are
enough for a lost update, a third writer is the callback; the label keeps one value
because it is treated as the interval is. `channels`: three rows allow two spellings
at once and a removal with a new row in its place; two messages let one be stored
before a removal and one after. `preview`: five posts need three pages, one more than
the cap; `MinInterval` 2 lets a second caller look in the middle of the first one's
sleep. `render`: with a limit of fourteen characters, four posts take up to four
messages, and lines end exactly at the limit, one short of it and one beyond it.

**Fairness** (`FairSpec`) of `DigestCycle`: weak fairness of `CycleStep` (a goroutine with an
enabled call makes it), of `Tick` (the ticker fires again after every interval
and no cycle is running then), of the `Poll` that returns all there is (the goroutine
of the client polls for ever, and a response that is short is followed by another),
of `Exit` (`WaitIdle` has a deadline of 30
seconds) and of `Boot` (`restart: unless-stopped` in `docker-compose.yml`).
Nothing is assumed of the environment, of single goroutines beside each other,
or of the success of a call: that calls eventually succeed follows from the
bounded number of faults. The interval is abstracted away, and ticks that find
a cycle running do nothing (`fire` returns), so `Tick` needs no such case.

`Scheduler` assumes weak fairness of `Elapse` (time passes), `RunStep`,
`EndCycle` (every call of a cycle has a timeout), `Watch` (its own ticker),
`Exit` and `Boot`. `LongPoll` assumes it of `HandleUpdate`, of `CycleStep` (which
`CyclesRecur` of `Scheduler` justifies) and of the `Poll` that returns all there
is. `CategoryAdmin` assumes it of `Boot` and of `CycleStep`, for the same reasons;
nothing is assumed of the panel. `ChannelAdmin` assumes it of `CycleStep` for the
same reason. `SettingsRow` assumes it of `Boot`, of the callback and of both statements
of each writer, which are goroutines of their own, and not of operators. `Preview`
assumes it of `Tick`, of the walk, of `GetChat` and of each caller's `Look`. `Render` and
`History` check safety only. In all modules, stopping again and again is excluded by the bound on faults only.

### Where code and documents disagree

| run | the document says | the code |
|---|---|---|
| `doc_shutdown_duplicate` | README.md:17, FR-016: no window is delivered twice across a restart | the cycle in flight is cancelled before it is awaited (`main.go:209`): its sends succeed, its marks fail, the next process sends again |
| `doc_partial_update` | admin-api.md:166, `settings.go:47`: an update is partial | it writes back the fields it read before, so of two overlapping updates the later one resets the other's field (`settings.go:49-69`) |

Further disagreements, visible in the actions named but without a run:

- README.md:17 says a restart skips nothing; what was acknowledged to Telegram by
  the offset is in memory only (`real.go:174`, `:325`; `Restart` of `LongPoll`,
  `ProcessDies` of `DigestCycle`), and the next batch moves the cursor past it.
  `Accounted` and `ImplementsFeed` say how much can be lost.
- FR-009 says duplicates within one cycle are removed; only rows already sent or
  filtered count as duplicates (`cycle.go:150`, `TerminalTwin`).
- spec.md:74 says a new interval is adopted from the next cycle onward; set between
  the creation of the ticker (`scheduler.go:135`) and the read of `lastInterval`
  (line 141) it is believed and never applied (`Arm`, `Adopt`), until the next change or
  restart. `IntervalFollowsSetting` excuses exactly this as `overtaken`; without that
  word TLC finds the behaviour as its counterexample.
- data-model.md:285 says the first window of an overdue restart starts where the
  last one ended; it starts one interval before now (`scheduler.go:171`, `Plan`).
- FR-014 says every delivered digest is recorded with its contents; a category
  removed under the cycle makes `AddItem` fail on the foreign key, and the error
  is discarded (`cycle.go:391`). `MissingOnlyIfPulled` is what remains.
- data-model.md:314 and `main.go:82-83` call `EnsureDefaults` a no-op on later
  boots; it inserts by name, so a renamed default comes back (`categories.go:124`,
  `Seed`).
- telegram-render.md:70 and `render.go:52` order the headings by the categories'
  ordering; they come in the order of their first post (`GroupItem`), and
  `CategoryOrder` is not read. `history.go:187-189` promises the same order for the
  page of a cycle and does the same.
- `history.go:227`: a category that is removed between two reads of the page
  leaves a group without a name (`Group`).
- `preview.go:22-24` and 73-74 promise one request per handle and second; the lock
  is released for the sleep, so the cycle and the panel can fetch together
  (`Look`). `CallersKeepInterval` is what remains.
- `preview.go:29-30` says every newer post is returned; the walk stops at its page
  cap and at an unreadable page, and the cursor passes what is behind (`cut`,
  `unread`).
- data-model.md:268 and admin-api.md:75-79 promise `channel_has_history` for a
  channel that cannot be removed; one with posts and no digest item is refused by
  the foreign key and answered with 500 (`DeleteRow`).
- A channel that was marked inaccessible is never active again unless its row is
  removed and added (`FetchFails`).
- A page that was loaded before the chat was discovered puts the old chat back when
  it saves another field, and after each restart the first message to the bot
  replaces a chat the operator has set (`Save`, `Message`).
- A digest can end a message with a heading whose posts follow in the next one
  (`PackLine`); the caps of a single line and of a message never act with the
  limits of the code (`FitsTelegram`).
- `cycle.go:381` and FR-023 say one item row per post; the migration drops the
  constraint, and a post that is sent again gets a second row (`AddItems`).
- FR-019 says every post is persisted; a failed upsert is skipped and the cursor
  passes it (`cycle.go:133-172`, `Upsert` of both modules).
- data-model.md:283 says every cycle is finished; the error of `finishCycle` is
  discarded and nothing recovers the row (`Finish`). `PendingIsPaid` states what
  is left of it.
- FR-017 says media posts are not silently dropped; a post without text is
  filtered out (`Summarize`).
- data-model.md:285 plans the first tick of a restart by the saved interval; the
  code plans it by the interval of the environment (`main.go:164`, `Plan`).
- The health endpoint reports a scheduler state that is stored once at boot.
- `real.go:309-310` and `326-327` call the last post of a batch the largest. With
  an edit in the batch it is not, and the cursor is set to a smaller id:
  harmless, as `CursorSafe` and `CursorOnlyAdvances` show.
- data-model.md:276 says succeeded means without degradation; raw headlines of
  an earlier cycle whose send failed are delivered by a cycle that is recorded
  as succeeded (`CycleStatus`).
- `real.go:17-18` says a post the full buffer drops is older than any cursor; the
  cap looks at no cursor (`real.go:262-266`, `Buffered`).
- SC-006 says an added or renamed category shows in the next digest; the
  summarizer keeps the shipped names of the boot (`main.go:99-101`), so no answer
  ever names it (`Summarize` of `CategoryAdmin`).
- `real.go:182-184` says the digest uses the latest content; `UpsertPost` keeps
  the first version, and an edit of a stored post stays in the buffer until the
  cap drops it.

## Proofs

All theorems hold for every value of the constants that meets the named
assumptions of the modules. For `DigestCycle`: any set of channels, any dedup
keys, any batch limit, any combination and number of faults. For `Scheduler`:
any positive intervals with their delay below the horizon, any number of stops. For
`LongPoll`: any set of channels, any cap, any number of updates and faults. For
`CategoryAdmin`: any names, posts, number of rows, edits and failures. For
`SettingsRow`: any writers, values, requests and faults. For `ChannelAdmin`: any
handles, any way in which they name channels, any number of rows and messages. For
`Preview`: any page size, page cap and interval, any number of posts, deletions and
unreadable pages. For `History`: any number of pages, over any behaviour of
`CategoryAdmin`. For `Render`: any number of posts, any lengths, and any limits with the
headroom for a footer and for one line that the code has (`LimitsAssumption`).

| theorem | statement | argument |
|---|---|---|
| `TypeCorrect` | `Spec => []TypeOK` | one lemma per group of actions |
| `CursorIsCovered` | `Spec => []CursorCovers` | `TakenCovers`: what the client has handed out is stored, given up or still in the batch; `FetchedInv`: the batch ends with what was handed out and is ahead of the cursor; `ClientInv` orders the client's marks |
| `QueueInvariant` | `Spec => [](TypeOK /\ QueueInv)` | these invariants together with `BundleInv`, `DeliveryInv`, `ShutdownInv` |
| `CopiesArePaid` | `Spec => []CopiesPaidByFaults` | from `QueueInvariant` |
| `CycleImplementsQueue` | `Spec => ImplementsQueue` | step simulation under `QueueInvariant` |
| `CycleImplementsFeed` | `Spec => ImplementsFeed` | step simulation under `QueueInv`, with `TakenCovers` at `AdvanceCursor` and `Forgotten` at the end of the process |
| `RecordInvariant` | `Spec => [](TypeOK /\ QueueInv /\ RecordInv)` | `CalmInv`, `ShadowInv`, `OutcomeInv` and the two properties `SentIsRecorded` and `PendingIsPaid` on top of `QueueInv` |
| `SettledStaysSettled` | `Spec => []SettledContentStaysSettled` | from `ShadowInv`: what is filtered is never bundled |
| `SentHasItem` | `Spec => []SentIsRecorded` | from `RecordInvariant` |
| `NoPendingForFree` | `Spec => []PendingIsPaid` | from `RecordInvariant` |
| `StatusIsTrue` | `Spec => StatusTellsTheTruth` | `OutcomeInv` at the step `Finish` |
| `SchedulerInvariant` | `Spec => [](TypeOK /\ SchedulerInv)` | `GuardInv` and `PlanInv` together |
| `NoOverlap` | `Spec => []OneCycleAtATime` | from `GuardInv` |
| `NoWindowTwice` | `Spec => []WindowsAdvance` | from `SchedulerInv` |
| `IntervalKept` | `Spec => []WindowsKeepApart` | `ApartInv` on top of `SchedulerInv` |
| `TickerKnown` | `Spec => []TickerInv` | `GapInv`: between the two statements of `Run` the ticker has the interval, or a change came in between |
| `IntakeInvariant` | `Spec => [](TypeOK /\ IntakeInv)` | `FeedInv`, `ClientInv`, `BatchInv`, `Accounted` and `CursorSafe` together |
| `NothingSlipsThrough` | `Spec => []Accounted` | from `IntakeInvariant` |
| `CursorIsSafe` | `Spec => []CursorSafe` | from `IntakeInvariant` |
| `CursorNeverMovesBack` | `Spec => CursorOnlyAdvances` | `last > cursor[source]` of `BatchInv` |
| `IntakeImplementsFeed` | `Spec => ImplementsFeed` | step simulation; `CaptureInv`: updates are of published posts, a batch stays ahead of its cursor |
| `CategoryInvariant` | `Spec => [](TypeOK /\ CategoryInv)` | `WorkInv`, `EntryInv`, `SnapshotInv` and the three properties together |
| `HistoryIsFiledAsDelivered` | `Spec => []FiledAsDelivered` | from `CategoryInvariant` |
| `HistoryGapsAreExplained` | `Spec => []MissingOnlyIfPulled` | from `CategoryInvariant` |
| `ReferencesStayValid` | `Spec => []References` | from `CategoryInvariant` |
| `ShippedRowsStay` | `Spec => DefaultsStay` | the ids inserted at boot always name a row |
| `HistoryInvariant` | `HSpec => [](ViewTypeOK /\ HistoryInv)` | `PageInv`, `DigestInv` and `ReadInv` on top of `CategoryInv`; the reader changes nothing (`PanelReadsOnly`) |
| `PageIsWellFormed` | `HSpec => []ViewTypeOK` | from `HistoryInvariant` |
| `PageIsComplete` | `HSpec => []FinishedPageIsComplete` | from `ReadInv` |
| `PageGroupsAsDelivered` | `HSpec => []GroupedAsDelivered` | from `ReadInv` |
| `QueueAndHistoryAgree` | `HSpec => []PagesAgree` | from `PageInv` |
| `SettingsInvariant` | `Spec => [](TypeOK /\ SettingsInv)` | `CarriesOld`, `Validated` and `UntilFirstBoot` with the property |
| `SettingsStay` | `Spec => []LostOnlyToStaleWriter` | from `SettingsInvariant` |
| `ChannelInvariant` | `Spec => [](TypeOK /\ ChannelInv)` | `RowsInv`, `BatchInv`, `DrainedIsStored` and the three properties together |
| `ReferencesStay` | `Spec => []References` | from `ChannelInvariant` |
| `CursorsPassNothing` | `Spec => []CursorPassesNothing` | from `ChannelInvariant` |
| `NothingIsRecaptured` | `Spec => []NoRecapture` | from `ChannelInvariant` |
| `PreviewInvariant` | `Spec => [](TypeOK /\ ThrottleInv /\ WalkInv)` | a page is closed towards newer posts (`PageSpec`) |
| `PostsAreSkippedWithCause` | `Spec => []SkippedOnlyWithCause` | from `WalkInv` |
| `BatchesMoveCursor` | `Spec => BatchMovesCursor` | from `BatchInv` |
| `CallersWait` | `Spec => CallersKeepInterval` | from `ThrottleInv` |
| `WalkImplementsFeed` | `Spec => ImplementsFeed` | step simulation under `WalkInv` |
| `RenderInvariant` | `Spec => [](TypeOK /\ RenderInv)` | `GroupInv`, `LinesInv`, `SizeInv` and the properties together |
| `MessagesFit` | `Spec => []FitsTelegram` | from `SizeInv` and the type of `size` |
| `PackingKeepsOrder` | `Spec => []PackedInOrder` | one message more is its lines more (`FlattenAppend`) |
| `HeadingsHold` | `Spec => []UnderItsHeading` | `PackedInOrder` carries `LinesInv` to what is read |

`CopiesPaidByFaults` alone is not inductive. A send may add a copy only because
the posts of the digest are not yet settled (`BundleInv`) and what is delivered
has a status that will be overwritten with the truth (`DeliveryInv`); and the
copy that a cancelled process may still send was paid for by its shutdown
(`ShutdownInv`), which is why a shutdown must count as a fault.

`WindowsAdvance` needs the whole life of a window: planned, fired, or waiting in
the channel of the ticker, each later than every window that runs or succeeded
(`PlanInv`). The overlap guard is what makes it inductive, because a tick is
taken from the channel only after the window before it was fired.

`Accounted` needs to know that message ids were published in order and edited
only afterwards (`FeedInv`): an update that a fetch leaves in the buffer because
its id is not above the cursor is an edit of a post that `CursorSafe` knows to be
stored or lost. `CursorSafe` in turn needs that the messages up to the last id
of a batch are stored, lost or in the batch (`BatchInv`), which follows from
`Accounted` when the batch is fetched. Neither is inductive without the other.

The refinement of `ChannelFeed` asks more than that the cursor is safe: also that
nothing behind the cursor is stored later, and nothing that was not published.
For `DigestCycle` the batch is ahead of the cursor (`FetchedInv`) but need not continue
it: messages between the two may have been handed out earlier, or lost with a process
that had acknowledged them. `TakenCovers` says that each of them has its row or was
given up, so the jump of the cursor is one `Capture` of no new message. For `LongPoll` a
batch may hold an edit, hence an old id, at its end; `CaptureInv` says that its ids are
beyond the cursor all the same, and `BatchInv` that those up to the last one are
settled. For `Preview` the whole batch is one `Capture`, and `SkippedOnlyWithCause`
of the state after it says that the posts between are stored or given up. All
other steps of the three are stutters, or give something up.

`FiledAsDelivered` compares a row that is written late, out of an old list, with
what was bundled before. `WorkInv` carries the heading from `Send` or `SendFails` to
`AddItem`; `EntryInv` says that an item belongs to a post that was in that digest, and
that a failed send opens a digest of its own, so no later cycle touches its items;
`SnapshotInv` says that a row of the list is still in the table or was pulled,
so a refused `AddItem` is always explained. It needs that ids are never used
again, which is why rows are identified by id and not by name.

A setting is overwritten by what a writer read earlier, so `LostOnlyToStaleWriter`
is about the values in flight. `CarriesOld` says of each: it is the intended one, or
the field was set by another writer since (`stale`), or was lost already. That no
refused value is among them (`Validated`) makes the write a legal one.

`CursorPassesNothing` compares a cursor with posts that a removal takes away with
their row. It needs that an id stands for one spelling for ever (`RowsInv`), that
what lies before the end of the batch is stored or still in it (`BatchInv`), and that
what the long-poll client has handed out is not missing elsewhere (`DrainedIsStored`):
a second spelling of a channel never sees those messages.

The walk of the preview client goes backwards, so at any time there is a gap between
the cursor and the oldest page read. `WalkInv` says of each readable post between
the cursor and the end of the batch: collected, given up with its cause, or older than
the next page. It is preserved because a page that shows a post shows every newer one
that it may hold. `ThrottleInv` is preserved although the lock is released for the
sleep: what is left to sleep was computed from a stamp that is at least as recent
as the caller's own last request.

The records of a cycle follow its locals. `OutcomeInv` says what `Run` knows of the
digest on the way to its status; `CalmInv` that a cancelled or dead process has cost
a fault, so that a pending row after it is excused; `ShadowInv` that a captured
repetition is filtered at the latest by the next call. The last one needs the order of
the calls: between `Upsert` and `MarkFiltered` there is one state in which the row looks
new, and only a fault in that very state takes the post out of `shadowed`.
`SentIsRecorded` is inductive with these: a post leaves the loops only with an item or
as `unrecorded`.

`WindowsKeepApart` is more than `WindowsAdvance`: `ApartInv` follows a window from
the instant it is planned for, through the ticker and its one waiting tick, and says
of each stage how far it lies behind the last window that can still succeed. A tick
that waited while the interval changed is an interval of the old value apart,
which is why the property speaks of some permitted interval.

The page of `History` is put together from three reads, and only the last one sees
a moment. `ReadInv` says which part of an earlier read stays true whatever happens
between: a finished status stays finished, an item that was read names the category
of its heading or none, and a category that is gone does not come back (`IdsInv`). The entries of an older digest
are not touched by a running cycle (`DigestInv`).

`UnderItsHeading` is about what the reader sees, and nothing of it is decided
where messages are cut. `LinesInv` proves it of the lines while they are built, for
the categories that were written so far; it needs that every post is in one group
and every group in the order once (`GroupInv`). `PackedInOrder` then carries it over
the cuts. `FitsTelegram` holds because the message being filled never exceeds the
soft limit, and that is so because a line that does not fit opens a message in which
it does (`PieceBounds`, `LimitsAssumption`).

The library joins the messages with `FlattenSeq`, which is defined by recursion over
the sequence. The induction theorems of the library cannot be used here, so
`FlattenAppend` goes by the least counterexample (`EveryNat`, from the
well-foundedness of the naturals): partial joins exist, agree on a common prefix,
and grow by one sequence at a time.

Every safety invariant and every action property of the passing runs is stated by a
theorem. Only model-checked are the liveness properties: `EveryCaptureSettles`,
`EveryMessageCaptured`, `CyclesRecur`, `IntervalFollowsSetting`, `EveryPostStored`,
`EveryPostDelivered`, `DiscoveredIsStored`, `SelectedIsCaptured` and `PostIsCaptured`. They need fairness
and `ENABLED`, which are out of the prover's reach.

## Not modelled

- Op events and logs, the health endpoint and the lists of the admin API: they
  write or read rows that no other code reads back.
- Sessions and the login of the panel, configuration, the static files, the front
  end beyond the settings page, the deployment: input and output, or state that
  meets none of the above.
- Wording, escaping and layout of texts; the prompts and the clean-up of answers.
- Time, except as order; `attempts`, `sent_at` and other audit columns that no code
  reads back; the display order of categories.
- The migrations: each runs once in a transaction of its own before anything else
  runs, and the constraints they create are part of the actions that meet them.
- Two displays that lag: two categories added at the same moment may take the same
  ordering (`categories.go:56`), and the health endpoint repeats the state stored at
  boot (`main.go:115`).
- In-memory dedup, fetcher, sender and the fake clients: the service does not call
  them.

## Plan

Every component that keeps state is modelled, except sessions; every safety and
action property of the runs is proved, and so are the four refinements. To come:
sessions of the panel, their expiry and logout beside requests in flight.
