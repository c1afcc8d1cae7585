# AutoSeedRelay: a TLA+ model of the relay engine

AutoSeedRelay watches the RSS feeds of source sites, downloads each new seed,
publishes it to every enabled target site (or cross-seeds it where the target
already has it), seeds it in qBittorrent and retires it when the retirement
strategy is met.  The program is one Go process with a SQLite database
(`src/backend`).  This directory holds a model of it, the configurations that
model-check the model and the proofs about it.

## The system

| part | state it keeps | operations | talks to |
|---|---|---|---|
| engine (`engine/engine.go`) | running flag, context, drain channel, jobs channel | Start, Stop, enqueue, workerLoop, ResendSeed | pipeline (Relay), store, notifier |
| retry queue (`engine/retry.go`) | a list of (seed, number, due time), a one-slot wake channel | Enqueue, Due, NextWait, retryLoop, submitJob, rebuild | pipeline, store |
| poller (`engine/poller.go`) | per-source failure count and next allowed poll | poll, ingestItem, sourceFailed | store, jobs channel |
| monitor (`engine/monitor.go`) | disk and all-offline flags for notification | replicas, retirement, slow abort, disk and health alerts | qB, store, retry queue |
| dispatcher (`engine/dispatcher.go`) | a round-robin counter | SelectQB | store, qB |
| pipeline (`pipeline/*.go`) | none of its own: seeds.status, relay_records | Relay, publishToOneTarget, crossSeed | source, adapters, qB, store |
| store (`store/*.go`) | the SQLite tables | single-statement reads and writes, migrations | - |
| notifier (`notifier/*.go`) | aggregation windows, one breaker for each instance | Notify, Flush, Stop; Do | providers |
| qB (`qb/*.go`) | session cookie, slow-torrent timers, the registry of instances | request with re-login, IsSlow, Replace | qBittorrent |
| source (`source/*.go`) | registry of pending hashes | RSS, detail page, direct pull through qB | source site, qB |
| adapters (`adapters/*.go`) | none | Publish, probe | target site |
| text and torrent processing (`titler`, `descr`, `parser`, `bencode`, `mteam`) | none | pure functions | - |
| auth (`auth/*.go`) | the password's hash, sessions, the limiter's window | setup, login, logout, the middleware | store, the browser |
| backup (`backup/*.go`), migrations | the database file | export, upload, restore | store |
| API (`api/*.go`) | none | forms, lists, resend, delete, restore | store, engine, qB manager |
| frontend (`frontend/src`) | the auth store, the forms and lists of each tab | route guard, load, submit | API |

What makes it hard: at least `Workers` + 3 goroutines and any number of API
requests write the same rows with single UPDATE statements and no transaction
around a whole operation; the retry queue is in memory while the statuses that
announce its entries are in the database; the context of the engine can be
cancelled, and the process can end, between any two statements; the answer of a
target site can be lost after the site took the torrent; and a manual resend or
a slow abort starts a second attempt at a seed that a worker is still busy with.

What makes each part correct:

* engine: a discovered seed is picked up; a seed waiting in retry is never
  forgotten; nothing stays mid-relay without a relay; attempts at a seed form
  one chain bounded by retry_max; Stop returns.
* pipeline: one upload at a time to a target and none after it is settled; a
  record says published only when the site has the torrent; the seed's status,
  the records and their roles agree; a Relay returns.
* feed: every announced torrent becomes one seed, the filter decides by the
  promotion the site shows, a file that is not the seed's is refused.
* adapters: a publication sends what the operator configured and the site's
  answer is taken for what it is.
* torrents and texts: the info dict survives republishing, what a title says is
  read from it, and what the author wrote of a description stays.
* monitor and dispatcher: the operator knows the standing problem, a slow
  download is aborted in the end and a fast one is not, a seed is retired for a
  reason and once, a qB that answers is preferred and each gets its turn.
* breaker: one probe at a time, the threshold and the open window are kept.
* retry queue: a timer of the loop never runs past an entry and no entry runs
  twice; that none is slept over without a timer ought to hold and does not
  (run retry_gap).  The loop returns when cancelled.
* notifier: a message is handed over once or still in its window, a window
  closes in time, Stop hands over what was buffered, and returns unless a mail
  server holds it; a chat is neither flooded nor silenced, a mail reaches all
  recipients or none.
* qB session: a request costs at most one login more, and a lost session heals.
* source health: a pause is earned by fresh failures, the backoff is kept, a
  broken source ends up paused and an active one is polled.
* access and forms: one administrator password, the login limit of an address,
  a stale tab that is used finds its way out; a masked credential is neither
  stored nor lost, while one left blank ought to stay and does not (run
  qb_blank); a list page is of one filter and complete.
* backup and migrations: only a sound database with a known schema goes live,
  an acceptable archive is restored, and no acknowledged write is lost as long
  as a store is closed before its file is replaced.

## Modules

| module | what it is |
|---|---|
| `SeedLifecycle` | engine, pipeline statuses, monitor, API handlers around one set of seeds |
| `PublishOnce` | what publishing promises for each target: the abstract specification |
| `Publish` | one seed and its targets: claim, upload, cross-seed, and what interferes |
| `Feed` | from the feed's window to the checks at the beginning of a Relay |
| `DirectPull` | overlapping downloads through one qB |
| `DirectDownload` | the HTTP download: URLs, back-off |
| `Torrents`, `Titles`, `Descriptions` | the pure algorithms: bencode and cleaning, title rules, description rules |
| `SiteUpload` | the adapters of the target sites and the probe |
| `Dispatch` | the choice of a qB |
| `RetryQueue` | the delay queue and retryLoop with a clock |
| `SourceHealth` | pollLoop's failure counts, backoff and auto-pause against an operator |
| `QBAlerts` | the monitor's alerts about disks and reachability |
| `SlowTracker` | the abort of slow downloads |
| `Retirement` | a monitor pass over torrents and rows that change under it |
| `QBSession` | a qB session that callers share |
| `Breaker` | the circuit breaker |
| `NotifyRouter` | aggregation windows, the flusher, Flush and Stop |
| `Providers` | Telegram, SMTP and the HTTP services |
| `WebAuth` | setup, login, sessions and CSRF tokens against the tabs of a browser |
| `ConfigForms` | the configuration forms and the handlers behind them |
| `EventsPage`, `SeedsPage` | the two paged lists |
| `Restore` | the database file: export, upload, restore, migrations, crashes |
| `Ranks` | the n-th smallest number of a set, and what is kept of a sequence: operators shared by RetryQueue, Dispatch, EventsPage, Titles and Descriptions |
| `MCSeedLifecycle`, `MCRetryQueue` | constants and a bound for the runs of one module |
| `MCSeeding`, `MCNotifier`, `MCLoops`, `MCPipeline`, `MCConsole` | instances of several modules that share no variable |
| `SeedLifecycle_proofs`, `Publish_proofs` | theorems about the two core modules, and about `Retirement` |
| `Notifier_proofs`, `Loops_proofs`, `Pipeline_proofs`, `Console_proofs` | theorems about the specifications that the MC modules of the same parts put together |
| `Texts_proofs` | the theorems about what is read of titles and published of descriptions |
| `Ranks_proofs` | lemmas about ranks, least numbers and sequences kept in order, induction over numbers and sequences, folds |

An MC module of the second kind takes its modules by EXTENDS and INSTANCE and
adds a variable `part`.  The initial states choose a part; the steps are those
of that part's module, and all other modules rest in an initial state that is
fixed, so the states of a run are the sum of the modules' states and not their
product.  Nothing is shared, hence nothing is lost by exploring one at a time.
Fairness is that of each module with `part = ...` as a further guard of the
action.  A property that would otherwise be decided by another part's rest is
restricted to its part.

### SeedLifecycle

Variables: `seen` (seen_hashes), `status`, `retryCount` (seeds), `replicas`
(whether a seed has a seed_replicas row), `mode` (the engine: stopped, running,
draining after stopGraceful and the closed drain channel, cancelled), `jobs`
(the buffered channel), `queue` (RetryQueue.items as a bag), and one record for
each goroutine or handler with a program counter: `actor` (the workers and
retryLoop, all of which run submitJob), `poller`, `monitor`, `resend`,
`deletion`.

Each database statement is one action; the steps of one goroutine follow in
program order and interleave with all others.  A write on the engine's
cancelled context fails and is ignored, as the code ignores it; an UPDATE of a
deleted row does nothing (`WriteStatus`, `BumpRetry`).  One submitJob is
LoadSeed, Prepare (source, detail, promotion filter), Download, PublishTargets,
then for a failure BumpAfterFailure, RouteToRetry and RequeueAfterFailure, or
RouteExhausted.  ingestItem is MarkSeen, CreateSeed, EnqueueJob or DropJob.
retireCheck and abortSlowTorrent have a step for each write, ResendSeed and
deleteSeed likewise.  Start, Stop (three phases) and Crash complete it.
Crash keeps the database only.

Abstracted: the clock (module RetryQueue), the content of a seed, the targets
(module Publish: here they all succeed, some do, or none), which qB holds a
replica, the error text.  Inputs: any seed may appear in a feed at any time.

### Publish and PublishOnce

`Publish` follows one seed.  `relay[r]` are the attempts that may overlap (the
worker's, a resend's, a slow abort's), `step[r][t]` the goroutine of
publishToTargets for one target, with the program points wait (semaphore),
look (GetRecord), claim (UpsertRecord), upload, accepted, refused, demote
(SetRecordRole), join (crossSeed), joined.  `record` and `role` are the
relay_records row, `site` the environment: which sites have the torrent.  A
site answers an upload of a torrent it has with "duplicate", with an error, or,
on the classic form, with a page that links to the torrent and is taken for a
success (nexusphp_classic.go:135-142), all of which are branches of Upload; an
upload it takes may still end in an error for us (the answer is lost).  Sites
in test mode, where adapters always return an error, are the refused branch.
A retirement marks the records one by one, then DropReplicas, then RetireSeed.

`PublishOnce` has two variables: for each target open, uploading or settled,
and whether the site has it.  `Publish` implements it when the attempts do not
overlap, under the mapping of `Once`: uploading when some goroutine is at the
upload, settled when the record is published, cross_seeding or retired.

### RetryQueue

Enqueue is two steps (append under the lock, then signal), retryLoop alternates
Due, Submit for each handed-over item, Sleep (NextWait and the choice of the
select) and Woken, TimerFires or Exit.  The clock ticks between any two steps.
The backoff schedule is a constant sequence whose last entry serves all larger
numbers.

### Breaker

Do is split at its lock boundaries: phase 1 (RunClosed, RunProbe, Skip), the
send outside the lock, phase 3 (one action for each outcome and state).
`call[c].at` is the variable `now` of Do, read before the send.

### NotifyRouter

`pending` is Router.pending keyed by instance and topic: the messages and what
is `left` of the window.  `thread` is each goroutine that can take expired
windows out (a caller of Notify, a flusher, Stop's Flush) with the list it took
and still has to send; the lock of the router makes each take-out one step and
each send another.  `started` and `current` are the fields of Router that Start
and Stop use; a flusher that Start began is a goroutine of its own, so an
orphan would be seen.  `cancelled` is the engine's context, whose end makes a
send of the engine fail.  A hand-over to an instance of `Silent` may Hang: an
SMTP command has no deadline after the dial (provider.go:381), and its goroutine
never comes back.  Abstracted: what handing over to an instance does otherwise
(module Breaker, and the provider's request), the text of an aggregate, levels
beyond critical and the rest.

### SourceHealth

`row` is the sources row as far as the poller touches it, `state` the entry of
Engine.pollState (an absent one is a fresh one), `poller` where pollLoop is
with its list.  One source goes through BeginSource, FetchSucceeds or
FetchFails, then IncSourceFail, PauseSource, Alert or BackOff.  A fetch that
the engine's Stop cancels fails like any other.  `edit` is an updateSource
request between its read and its write.  Times are what is left until them.
History: `streak` counts failed fetches, `rested` the time since the last.
Abstracted: the items of the feed (SeedLifecycle), database errors other than
those of a cancelled context.

### Restore

`main` and `wal` are relay.db and the newest state in its WAL file, `txn` a
migration's open transaction, `safety` the files of data/backups, `pending` and
`staged` the archive and the extracted database.  A database is its set of
writes, its DDL, its version and whether it is sound.  Restore is CheckMeta,
Extract, ValidateRestoredDB, BeginCopy, EndCopy, Swap and the reopening, whose
migrations (ApplyDDL, SetVersion, Commit) the server's own start shares.  Each
can fail or be the last step before a crash.  The startup hook that calls
Restore belongs to a main that is not in the repository: it restores a pending
archive before the server opens its store, removes it after a success and does
as it likes after an error.  The package comment of backup asks a caller that
holds an open store to close it, which checks the WAL in; a hook that holds none
need not, so after a crash the WAL may lie beside the file that Swap replaces.
`walLeft` remembers that it did, and what is promised of the data is promised
until then.  Archives are those of Export, of any version, possibly damaged or
truncated, and with a meta.json whose version is another one than the file's.

### Feed

`post` is what the site shows of each torrent, `feed` the window the RSS shows;
`Announce` and `Edit` are the site, `SaveStrategy` and `DeleteSeed` the
operator.  FetchRSS takes the items, Ingest marks the identity of the first
(GuidToInfohash) and applies keywords and sizes, CreateSeed or CreateFails ends
it.  A Relay is Begin, Locate (the item is looked for in the feed again),
FetchDetail (AskAPI, or ReadPage with ParsePromotion over the page's classes and
aliases in the code's order), Filter (the promotion whitelist) and Download with
the comparison of the hashes, each of which may Fail or be the last before a
Restart.  History: `ingested` and `born`, which torrents stood for an item and
got a row, and `verdict`, the filter's last decision.  Abstracted: XML, the
place of the row in the page, retries (SeedLifecycle).

### DirectPull and DirectDownload

`category` and `fetching` are the qB, `registry` is pendingBefore, a record for
each download its local variables.  Snapshot, Register, Add, Poll and its
timeout, Export and its timeout, Delete follow the code; an error goes on with
Direct, and Verify compares the hash whichever way the file came.  A category
may hold left-overs at the beginning.

`DirectDownload` follows one download of a file: `urls` still to try, the
`attempt` of the current one, the pause `slept` before it, and the requests
`asked` as history.  Start, Reject (a URL refused by the address check), Get,
Wake and Cancel.

### Torrents, Titles, Descriptions

Pure algorithms.  Their state is only the input, built up token by token or
chosen whole, and what is made of it, so that TLC goes through all inputs up to
a length.  `Torrents`: the bytes are tokens; parsing, the limit on the depth,
the canonical encoding, Clean and Reannounce are recursive functions over
positions and paths; a hash is what it is taken of.  `Titles`: a title is a
sequence of words and a tail; the regular expressions are tables of the words they match, tried in the code's order, and
each blanks what it matched.  `Descriptions`: references, scripts, logos, event
handlers and labels are tokens; the cuts come in the code's order.  The
reference definitions are the properties: a parsed file encodes to itself and
its info dict is that of every file published (TorrentsKept); what a title says,
in words or as seasons and episodes, is what is read (TitleRead); of the
author's words only referring ones are cut, and a field's value is its own
(DescriptionFaithful).

### SiteUpload

`site` is the environment (type, session, who has the torrent), `config` the
target's row, `job` one publication.  Begin builds the adapter from the row
(siteConfigFromTarget) and resolves category and dimensions; FetchForm reads
what the site offers; Post sends the form and classifies the answer; Probe and
Save are the operator's wizard.  `last` records what the site was, what was
sent and what came back, for AnswersUnderstood and SentAsConfigured.

### Dispatch

`rows` and `registry` are the enabled rows and the live instances, which differ
while an edit is under way.  Select is SelectQB with the fallbacks of selectQB
around it, on any answers of the instances; Edit is everything an operator
does.  `turns` lists the picks of round robin.

### QBAlerts, SlowTracker, Retirement

One Pass of `QBAlerts` is observeHealth and monitorDisk; Outside moves disks
and reachability; Restart forgets what is in memory, not what the operator was
`told`.  `SlowTracker` counts time in passes; `tracker` is slowTracker's entry
of one hash, `age` and `calm` the history of the torrent; the delete that aborts
it may fail.  `Retirement` follows
a pass over one torrent: Info takes the list, then ListReplicasByQB,
CheckReplica for each row, and for a torrent without rows SeedingSeeds and
MatchHash.  A check that finds the torrent ripe goes on in steps of its own:
Delete in qB, MarkRetired (or the return when the records cannot be read),
ListReplicas, DeleteReplica for each and Close.  Between any two of these the
torrent changes, seeds are relayed, cross-seeded or deleted, the strategy is
edited, and the process may Crash.

### QBSession

`jar` is the cookie jar (none, a live or a dead session), `loggedIn` the flag,
`call` each goroutine in request: EnsureLogin, LoginCheck, PostLogin,
KeepCookie, StoreFlag, Send, then Served, Refused or Retry.  The server
Expires sessions; a login or a request may be lost.  None of it is atomic in
the code but the flag and the jar on their own.

### Providers

SendTelegram edits or posts (`ref` is the last message and its age, `quiet` the
time since a Send last succeeded); ReaderDeletes is a reader.  The SMTP
transaction is one action for each command: Advance (up to the sender), Rcpt,
Data, Quit, each of which may be refused or lose its connection; `inbox` is who
got the mail.  An HTTP service is one request.

### WebAuth

`hash` is the stored password, `session` and `holder` the two cookies, `tab`
what each tab believes and waits for, `age` and `count` the limiter's window.
Load, Status and Me are the bootstrap of a tab, SetupCheck and SetupInsert the
two halves of CompleteSetup, then Login, Request, Logout; Expire and Tick are
time, Restart the process with another AUTOSEED password.  The limiter is that
of one address (server.go:171): all tabs here share it.  `recent` and `starts`
are the history, of passwords tried and of restarts, which forget the limiter's
window but not what was tried.

### ConfigForms

A row of any of the four tables, with its credential and the key that sealed
it.  ListMasked and ListNotifiers fill a tab's form, Submit begins an update;
what follows depends on the table: Read and WriteMerged (source, target),
WriteQB in one statement, Read and WriteNotifier.  A form whose credential the
operator leaves alone sends the mask, or, for a qB, no password (LeftAlone).
Validate and Replace are the routing matrix, Restart may bring another master
key.

### EventsPage and SeedsPage

`EventsPage` has the component's variables as they are in Events.vue; a load is
a request that the server serves once (Serve) and whose answer is taken or
dropped in any order; rows are written and deleted meanwhile.  `SeedsPage` is
the server's paging seen by a walker that takes the pages of one filter in
order while seeds arrive and change; the rows of a page are those whose place
in the descending order of ids lies in the page.

## Runs

| run | instance | checks |
|---|---|---|
| lifecycle_faults | 2 seeds, 2 workers, 2 crashes; then 1 seed, 1 worker, every other fault and request once | RetryOwned, ReclaimedOwned, SingleChain, RetryBudget, SettledStays |
| lifecycle_live | 2 seeds, 1 worker, one stop; fair | DiscoveredRelayed, StopReturns |
| lifecycle_drop | 1 seed, one stop; fair | DroppedRelayed is violated |
| lifecycle_midflight | 1 seed, one crash | MidFlightReclaimed is violated |
| publish_chain | parts publish (1 attempt at a time, 2 targets) and retire; fair | StatusesAgree, OncePerTarget (refinement), RetirementSound, SeedsGetOn |
| notifier | parts breaker, router, provider; fair | TypesOK, BreakerSound, RouterConserves, ChatKept, MailWhole, NotifierServes |
| loops | parts queue, health, alerts, slow, chooser; fair | TypesOK, SourcesKept, AlertsCurrent, SlowJudged, SelectionSound, LoopsServe |
| pipeline | parts pull, file, feed, torrent, title, text, upload, overlap (2 attempts, 1 target, every disturbance) | TypesOK, VerifiedOnly, LimitRespected, SeedPerItem, PromotionHonoured, TorrentsKept, TitleRead, DescriptionFaithful, UploadFaithful, PublishedOnSite |
| console | parts auth, config, backup, session, events, seeds; fair | TypesOK, AccountGuarded, FormsKeep, RestoreCorrect, RequestsCheap, PagesFaithful, ConsoleRecovers |
| slow_inherited | one torrent, duration 2, idle limit 3 | AbortEarned is violated |
| retry_gap | 1 seed, two delays, 2 entries | BlocksOnlyWhenEmpty is violated |
| qb_blank | 1 tab, one qB | BlankKeepsPassword is violated |

The last property of each fair run is its liveness: SeedsGetOn (a Relay returns,
a ripe seed is retired), NotifierServes (what is buffered is handed over and
Stop returns, unless a silent mail server holds the goroutine that would; a chat
is not silenced for good), LoopsServe (a queued retry whose time comes is
submitted, unless its engine ends or the loop falls into the gap that retry_gap
shows; an active source is polled or paused; a download that stays slow is
aborted, if qB deletes it at last) and ConsoleRecovers (a stale tab leaves when
its operator goes on working in it, an acceptable archive is restored, a lost
session heals).

All runs set CHECK_DEADLOCK FALSE: the inputs are bounded, so the system comes
to rest when the feeds have offered all seeds and the fault budgets are spent.
That nothing is stuck before is what the liveness properties say.

**Bounds.** The seeds do not interact except through the jobs channel, the
workers and the one poller and one monitor goroutine: two seeds on one worker
with a channel of one slot fill the channel and block the poller, and the
ownership invariants are per seed, so one seed with every fault is the hard
case.  RetryMax is 1 or 2, so a chain has an initial attempt, a retry and an
exhaustion; DefaultRetryMax is larger, so an attempt whose context is cancelled
goes by another limit than its predecessor.  In lifecycle_faults the
constraint `Bounded` keeps the two
seeds and two workers until the first stop, request or abort, and from there on
goes on with one seed, one worker and at most one more crash: the properties of
two seeds are stated for the time before.  Two overlapping attempts are the
smallest number that can interfere, and one more is the same race again.
Targets are independent rows, and two are enough for a partial success.
Budget, MaxFaults, MaxEdits, MaxExpiries, MaxOutages and MaxRestarts bound how
often each fault or request happens; MaxTime, MaxSkips, MaxEnqueues,
MaxMessages, MaxTurns, MaxLoads, MaxEvents and MaxSeeds bound clocks, counters
and inputs.

* notifier: three callers of the breaker are a probe, a stale send and a third
  that finds the result; 5 ticks hold two whole open windows.  In the router a
  warning and a critical topic, two messages and a window of two intervals give
  a window that a second message joins and one that expires under Notify, the
  flusher and Flush alike; two flushers are one more than the code means to
  have, and one instance of two has a mail server that may fall silent.  Three faults refuse an edit, a post and one more within a window of
  three ticks; two recipients are the least of which one can be refused.
* loops: the retry schedule has two different delays, so the insertion order is
  not the due order.  In the source health the delays differ and the limit is
  the code's three.  Two qBs may be offline apart and together.  A duration of
  two passes and an idle limit of three let an entry expire both ways.  Three
  qBs with amounts 0 and 1 have ties and a list that shrinks under the cursor.
* publish_chain: in the part retire two seeds can share a hash; one condition
  always on and one switched tell "and" from "or".  MaxUpsets is 1: any one
  crash, failed read of the records, lost condition or torrent, new attempt at a
  settled seed, edit or delete, at any step of any pass.  With 2 the run also
  passes but takes the whole of its time; the steps of a pass that interfere
  with one upset do so whatever came before, and the theorem RetirementEarned
  has no bound.
* pipeline: two pulls and two hashes are what can be mistaken for each other.
  Three URLs with the code's own five attempts.  A feed of one item loses an
  item to a newer one; one item has an info hash for a guid, the other none and
  two titles, or another guid.  Torrents of up to six tokens contain every
  nesting of two levels, beside whole files with unsorted and repeated keys.  Titles
  have up to three words from both spellings of each class, as a pattern spans
  at most that many; texts up to four tokens, as a construct has an opening, a
  closing, a word inside and one outside.
* console: two tabs, with the one the other is stale against; a limit of two in
  a window of two ticks has a boundary to straddle, and MaxRestarts allows a
  restart in each tick.  Two credentials and two
  keys tell an old from a new one.  In the restore a crash and an error, or two
  crashes, are the least that interrupt a restore and its repetition; two schema
  versions leave one migration for an older archive.  Two callers and two
  expiries lose a session twice during one login.  An answer of one row is cut
  off as soon as two are new; five seeds are three pages of two.

**Fairness.** FairSpec of SeedLifecycle assumes weak fairness of the poller
(every feed is polled for ever), of each worker, of a submitJob that the retry
loop began, of the monitor in the middle of an operation, and of Start, Cancel
and Stopped (the service manager starts the process again; Stop's timer fires;
Stop waits).  The requests to sites, feeds and qBs under these steps have
timeouts; notifications have not.  Workers, poller and monitor hand messages to
the router themselves (`poller.go:185`, `target.go:139`, `retry.go:252`,
`monitor.go:78`), and an SMTP server that falls silent after the dial holds the
goroutine that does, for good.  The modules other than NotifyRouter leave
notifications out, so their liveness is that of an installation whose mail
server answers; NotifyRouter has the silence and says what it can hold.
Retirements,
faults and requests are never forced, and neither is the retry loop's pick-up,
so DiscoveredRelayed does not lean on it, nor on the gap of retryLoop.  Publish
assumes weak fairness of the goroutines of an attempt, RetryQueue that the
loop, a begun signal and the clock advance, and strong fairness of Exit: a
select with a ready Done case and a ready wake case picks either, so Done is
taken sooner or later.  NotifyRouter assumes weak fairness of the ticker and of
every goroutine in the middle of its work that does not hang, and the same
strong fairness of the flusher's Done case; SourceHealth weak fairness of the poller (its fetches have
a timeout) and of the clock; Restore weak fairness of a boot that was begun,
while PendingRestored says of itself that the process is started again and
again.  SlowTracker and Retirement assume that the monitor's ticker goes on and
that a pass begun goes on; QBSession that a caller's requests end and that it
makes others (poller and monitor do for ever); Providers that time passes and
that there is always something more to report; WebAuth that a tab's bootstrap
requests and a first-run form are answered.  Two premises stand in the
properties instead: no view polls, so a stale tab leaves only under KeepsWorking
(its operator makes requests again and again), and a slow torrent goes only
under DeletesAtLast (qB, asked to delete it again and again, does so once).  The
pipeline run states no fairness: it checks no liveness.

**What the violation runs show.**

* lifecycle_drop: enqueue's comment says that a seed dropped by a graceful stop
  is re-discovered in the next round; its hash is tombstoned already, and the
  row stays `discovered`, which nothing reclaims.
* lifecycle_midflight: a process that ends during publishing leaves the seed
  `downloaded`; Start reclaims only `downloading` and `processing`.
* slow_inherited: monitorSlow's comment says that it aborts torrents that have
  been slow for longer than the configured duration; the entry of an aborted
  torrent stays, so the one the retry adds again is aborted on its first slow
  sample.
* retry_gap: retryLoop's comment says that it blocks without a timer when the
  queue is empty; it does so too when an entry came due between Due and
  NextWait, for which NextWait answers 0 as well, and sleeps until some later
  Enqueue or the end of the engine.
* qb_blank: the page's comment says that a password left blank is left out and
  keeps the server's value; updateQB takes the missing field for an empty
  password and stores that.

## Divergences without a run

Met while modelling, at the line named or in the file of the heading.  Some are
behaviours of the models, in whose presence the properties hold or which they
name as their exception; others are in what a model abstracts (wording, dead
code, a connection test, a page's display) and are noted only.

**Engine.** A retired seed is re-opened by an attempt that was
queued or running (`poller.go:127` says only a manual resend does);
abortSlowTorrent and the rebuild queue retry numbers above RetryMax (`retry.go:28`);
Start after Stop in one process doubles the queue entries (`engine.go:240`);
deleteSeed can remove a row while a Relay works on it (`ops_seeds.go:373`);
a crash between MarkSeen and CreateSeed loses the seed (`poller.go:119`);
the "fresh window" of a failed probe begins before the probe (`breaker.go:127`);
what is buffered after Stop's Flush stays pending for
ever (`engine.go:314`, `router.go:173`); a Stop that cancels a running fetch counts
it as a failure of the source and can announce a pause that the cancelled
context keeps from happening (`poller.go:166-190`); updateSource writes back the
counter and the status it read, over a count or a pause in between
(`config_sources.go:179`), and fail_count is never reset by a success.

**Publishing.** OneUploadPerTarget, PartialKeptSeeding and AbortSparesFinished
of `Publish` state the promise for a reader who wants the trace (add
PartialKeptSeeding to publish_chain.cfg, the others to pipeline.cfg, of `Overlap`): the claim protects the first attempt only, an overlapping attempt
that finds a `pending` or `failed` record uploads without claiming it
(`target.go:105-129`, against `pipeline.go:339`); a success of an earlier attempt
does not count as partial, so a seed can end `failed` although a target has it
(`pipeline.go:306-332`, against `retry.go:197`); abortSlowTorrent tests a status
it read earlier and overwrites a record published in the meantime
(`monitor.go:186-197`, against `monitor.go:431`).  A target demoted to seeder
whose cross-seed did not come about, and whose next upload is taken for a
success (`nexusphp_classic.go:135-142`), ends `published` with the role seeder,
since MarkPublished leaves the role (`relay.go:94-101`), and the dashboard counts
it neither as published nor as cross-seeded (`ops_dashboard.go:148-149`).

**Monitor and dispatcher.** With a monitor interval above slowEntryIdle nothing
is ever slow.  abortSlowTorrent deletes the torrent before it reads the records
(`monitor.go:182-190`): a database error there loses it without a retry.  A
seed is judged by its first row that is present, whatever its status; its
torrents elsewhere stay in qB and nobody owns them; an error of the delete is
ignored, and one of ListRecordsBySeed (`monitor.go:348-352`), or a crash before
the close, leaves the seed `seeding` after the torrent is gone.  "Exactly one seed" of fallbackHashMatch leaves out those already
processed, and when several seeds without rows share a torrent and one is
retired, the others stay `seeding` without a torrent.  A torrent added again
between Info and the delete is deleted on the old one's merits.  The last
fallback of selectQB returns row id 0, and the replica's foreign key fails after
the torrent was added.

**Feed and download.** A promotion that cannot be read skips the seed
(against `BIZ-SPEC:34`), keywords also match the description
(`poller.go:230`, against `BIZ-SPEC:76`); a seed whose guid is not an info hash
never passes the comparison of its file; an edited title of an item without a
guid makes a second identity; the classes pro_2x, pro_2x_free, pro_50 and pro_30
have no alias and classes are searched on the whole page; a failing file list
fails the HTML detail; `detail.go:304` asks for a compressed answer itself.
When qB names no ids, overlapping pulls take each other's torrent, which only
the hash comparison notices; a torrent that another pull's snapshot registered
is never found by its own; left-overs starve later pulls until a restart, and a
cancelled pull leaves one.  The direct download also pauses after the last
attempt at each URL (`download.go:30` says before the retry), up to 90 minutes
of a worker for one seed, and writes a page that is typed as a torrent.

**Torrents and texts.** A source file that is not canonical gets another
info hash, so its cross-seed is always refused (`parser.go:206-212` says it is
preserved).  The second season pattern never matches; "Complete" is not
recognised between dots; "1080P" has no key; the group is cut out of "WEB-DL"
when words with dots follow (`titler.go:192`, `685`); an M-Team title loses its
leading digits (`title.go:103`; the example in `title.go:99` differs); the
third category fallback of buildPublishParams is unreachable.  A reference cut
to the end of its line takes the words after it along; any "logo" in an
address makes an image a logo; an empty field takes the next line; 1048575 B
is shown as "1024.00 KiB"; an IMDb link is appended to a text that has it; the
DescrBuilder, ExtractSections and htmlToText have no caller but the tests.

**Adapters.** A success without an id (M-Team) and the classic page of a
duplicate that links to the existing torrent (against `adapter.go:78`) are taken
for a publication, and words of the title echoed in the answer can change its
class; spellings of one kind collide in the order of a map; the wizard's probe
is not authenticated and its category cache serves no later publication; a
malformed tags_map is an empty one, and its keys are not normalised; `m.teams`
is never filled and the adapters' Probe methods have no caller.

**qB and providers.** A late `loggedIn.Store(true)` hides an expiry, and the
request is refused without the re-login its comment promises; the next one
heals it.  A Telegram edit overwrites the previous notification, and after the
reader deleted it Sends fail until the window ends; SMTP commands have no
deadline after the dial (`provider.go:381-387`, which says so), so a silent mail
server stops the flusher or Stop's Flush, and any loop that notifies, for good;
one refused recipient stops the mail for all, and an
error of QUIT after the delivery is a failure; an HTTP service that reports its
error with status 200 counts as delivered.

**Access, forms and lists.** A second tab's CSRF token makes the first tab's
stale (`session.go:58`); a logout with a stale token is refused while the tab
shows it done; a failed bootstrap keeps the tab on /setup.  Editing a qB wipes
its password (run qb_blank); the login limit is kept in memory, so each restart
of the process gives an address a new window, and each address has one of its
own (`manager.go:87`, `ratelimit.go:20`, `server.go:171`); no view loads again by
itself, so an idle tab shows the application after its session is gone; other
tables write back the credential they read, over a
newer one; an update of a deleted row answers 200; a row sealed under another
master key cannot be updated, and a notifier disappears from its list; the live
registries follow only after a restart.  The connection tests send no
credential to a target, accept any status below 500 and never test what is
running.  "Load more" of the events shows newer rows only, at the end, so older
ones are out of reach, of more than 50 new ones only the newest 50 are ever
shown, and one empty answer disables the button; the page's levels `error` and
`success` do not occur on the server.  `Seeds.vue` takes late answers for new
ones; pages counted from the newest repeat rows as seeds arrive and skip rows as
seeds leave a filter.

**Restore.** After a crash, a hook that does not open and close the store first
leaves the newest writes out of the safety copy and the old WAL file beside the
new database (`backup.go:207-213`): acknowledged writes are lost and the restored
database may be damaged.  `Restore` has this; its promises end with it.

## Proofs

Checked by TLAPS, for every value of the constants that satisfies the named
assumptions; in the theorems about several parts these are the assumptions of
the instances, which the MC module states and TLC evaluates.  They ask for
finite sets of seeds, workers, targets, pulls, sources, instances and
recipients, positive limits and windows, natural bounds, and markers such as
None, the mask and the empty credential that are no value; UploadAssumption and
FeedAssumption say that a row has the table's columns and that a post of a
torrent is of that torrent; TitleAssumption says that the words of a title are
of the tables' spellings and that the empty word is none of them.  No bound on a set, a limit, a clock or a budget of
faults is fixed.

Where several parts are put together, a step of the whole is a step of one part
or leaves its variables alone, so an invariant of a part is an invariant of the
whole; each theorem names the property exactly as a run checks it.

**`SeedLifecycle_proofs`.** TypeCorrect by one step per action; bags need lemmas
about adding, removing and counting.  RetryNeverForgotten (RetryOwned) and
NothingStranded (ReclaimedOwned) are not inductive alone: a submitJob between
its bump and its queue entry owns its seed without the queue, a handler between
its UPDATE and its Enqueue does, and Start relies on there being no running
actor while the engine is stopped.  The strengthening names each of these
owners, and says that a stopped engine has nobody mid-relay.  OneChain
(SingleChain), FailuresBounded (RetryBudget) and SettledForGood (SettledStays)
are about every state before somebody stops the engine, resends or aborts
(`Unrequested`, a premise of the three properties), through crashes, deletes and
retirements.  ChainInv says that a seed is claimed in one place and once
(Exclusive: poller, channel, running attempt, queue), that a claim has a
tombstone, that a settled seed has none, and that the number an attempt carries
bounds the failures in the row, with one more for each crash.  SettledForGood is
an action property over the same invariant.

**`Publish_proofs`.** TypeCorrect; PublishedIsOnSite (what pipeline checks of its
instance of Publish, overlapping attempts included), whose invariant adds that an
`accepted` goroutine's target is on the site, and a site never loses a torrent.
StatusesFollowRecords (StatusesAgree) and PublishesOnce (OncePerTarget: Publish
implements PublishOnce, initial states to initial states and every step to a
step or a stutter) assume OneByOne, that is one attempt at a time and neither a
full republish nor a slow abort, as publish_chain does; the divergences under
Publishing are the reason.  The invariant Settling says of each goroutine what
it has made of its record and its site so far, that a cross-seeded record has
the role seeder, and that a retirement only closes what is finished.
RetirementEarned, of `MCSeeding`: the types, and RetirementSound.  While a check
is in its steps the listed torrent is ripe by the strategy it read; a seed
retired in a pass is among those the pass has processed, or not among those left
for the fallback; a crash ends the pass and the memory of it.

**`Notifier_proofs`.** MessagesConserved (RouterConserves): every message accepted
for an instance is handed over, held by one goroutine or in one window, a
window closes in time, no flusher outlives Stop, and Stop hands over what was
there, whichever goroutines hang: one that does holds what it held.  The
invariant says the first by membership (Once, Apart) instead of by
unions, and adds what is true of a goroutine while it holds messages (Hands), of
every deadline (WindowFixed) and of the phases of Stop (Said, Stopping).
BreakerCorrect (BreakerSound): one probe, the threshold and, an action property,
the open window; the probe's invariant is the property with the types.
MailsWhole (MailWhole): who got the mail is known at each command of the
transaction.  NotFlooded (ChatKept): a message that can still be edited is no
older than the last success.  TypesCorrect (TypesOK).

**`Loops_proofs`.** AlertsStayCurrent (AlertsCurrent) is inductive as it stands.
AbortAfterCalm (SlowJudged): a count that runs is no longer than the time since
the torrent was last seen fast.  PausesEarned (SourcesKept): what is counted has
happened, what is left of a delay makes up for what has not passed of it, and
the count reaches the limit only on the way to the pause.  AnsweringAndFair
(SelectionSound): the choice with the most room or the fewest jobs is a first
largest value, which exists in any finite list; the turns taken are the last
ones of the cursor, and numbers closer together than n have different
remainders.  OnlyTheGapOversleeps states, without a run's property of its own,
that unless a signal is under way a timer of retryLoop runs past no entry and a
sleep without a timer is over an empty queue or over an entry that is due, the
gap of retry_gap (SleepCovered), and that no entry is handed over twice
(HandedOverOnce); NextWait is the least due time by rank.  That what is queued
is submitted but for the gap (EntriesSubmitted) is only model-checked.
TypesCorrect (TypesOK).

**`Pipeline_proofs`.** PullVerified (VerifiedOnly): a torrent that is exported or
deleted is known.  SiteSpared (LimitRespected), with FileInv: the candidates
still to come have not been asked, of the current one it is known how often it
was and after which pauses, and the pauses of one URL double or are the longest.
FilterFollowsSite (PromotionHonoured): a Relay that read a page holds the
promotion of that page, with lemmas on the first class that a page shows.
NoneTwiceNoneLost (SeedPerItem): what has a tombstone was ingested, the item
that is marked has no row yet, and the torrents lost are counted by the faults;
the identity of an item names its torrent.  SentAndUnderstood (UploadFaithful):
what an adapter was given is a reading of the row it was built from, and the
form follows from both.  TypesCorrect (TypesOK), where each list, text and file
is known to be one of the kind.

**`Console_proofs`.** RequestsBounded (RequestsCheap): the invariant relates the
sends and logins of a call to its place and to whether it may still retry.
AccountStands (AccountGuarded): the password is written where there is none; of
the passwords tried from one address in a window's length, those before the
limiter's present window are at most Limit for it and for each restart in that
time, and those in it are counted, with lemmas about sums over a shifted and a
bumped history.  FormsStand (FormsKeep), three action properties about the mask
and the matrix, not about a blank field: an update of a source or a target that
has read its row can still open it, because only a restart changes the key and a
restart loses the request.
PagesComplete (PagesFaithful): an answer under way has the newest rows of its
level after its cursor without a gap (AnswerHeld), a load that is not superseded
asked for what the page still shows (LoadHeld), and the list has every row of
the log down to its oldest unless an answer was cut off (ListedRows); for the
seeds, who was there when a walk began has been sent or lies beyond the pages
walked (WalkKeeps).  RestoreStands (RestoreCorrect) has no hypothesis about the
hook: until a file is replaced with its WAL beside it (`walLeft`) the promises of
the data hold, and schema and version agree throughout.  Its invariant says of each place of a restore what main, WAL, migration and safety
copy are then, and where each acknowledged write is.  TypesCorrect (TypesOK)
needs no hypothesis.

**`Texts_proofs`.** TitlesRead (TitleRead), for titles of any length: of a title
with a tail, a component is read exactly when a word for it is there, the main
title is what no rule knows, no component is taken for the group, and a single
season, episode or range is read as what it means.  The reading is
a fold over the words, the ten season patterns and the eleven rules, each of
which blanks what it matched for those after it; a fold of the community modules
is a recursion over sets of indices, which FoldRuns shows to have a solution and
so lets be unrolled one entry at a time.  PatternsTo and RulesTo say what the
first n patterns and rules have left of the words and told of the title; a word
is matched by the rule of its own kind only (KindsApart), so what the earlier
rules blanked is none of what the later ones look for.  The invariant adds that
a tail comes after words (Tailed), because a group is only read behind one.

DescriptionsFaithful (DescriptionFaithful), for texts of any length over any
vocabulary: the published body has the author's words in order and nothing that
cleaning takes out, no closed script, and each file's size is exact to half a
hundredth of its unit; a field read is what follows its own label.  Splitting
into lines and joining them are folds, unrolled like those above (LinesSnoc,
JoinSnoc).  Says is what lines still have of a set W of tokens once each is cut
at its reference: it is the concatenation of what each line has (SaysSnoc), so
passes that drop only lines that say nothing, blank ones or bare references, do
not change it (SaysKept), and neither does joining and splitting again
(LinesJoined).  WrittenTo follows the source text one token at a time: the lines
so far say exactly the tokens of W outside scripts and not behind a reference,
and the last line holds a reference exactly if the position is behind one.  With
W the words that is the third conjunct; with W the two script tags it says
that a closed script in the body would be one of the text outside a script,
which is absurd (BodyUnscripted).  The invariant is that what is published was
built of the text and the files as they are (Described).

**`Ranks_proofs`.** A finite set of numbers has exactly one number of each rank, a
non-empty set of naturals a least one, and a finite list of naturals a largest
value; what is kept of a sequence by rank is a sequence of its entries in their
order.  Induction over numbers and sequences is stated with the set of those
that have the property instead of an operator (NatsReached, SeqsReached): a
statement that fails for some number fails for a least one (LeastNat), which its
predecessor contradicts.

Model-checked only: TorrentsKept, and all liveness properties (the prover has no
support for fairness and ENABLED).  A torrent is parsed by a function that goes on
where its own result says, and encoded by one over the paths of a tree.  That
these recursions have solutions, and that one undoes the other, are inductions
over trees that have not been carried out, and SwarmKept would also need an
assumption that the key "info" occurs once in a file, since RawInfo looks for it
among the tokens.  Both are compared with their reference over bounded inputs.

## Plan

Modelled in this order: the lifecycle, publishing, the breaker, the retry
queue, the router, source health and restore; then everything from the feed to
the adapters, the monitor's judgements, the session, the providers, access,
forms and lists.  Every invariant and action property that a run finds to
hold is proved, except TorrentsKept: a proof of it would begin with the parse of one
value, whose index after it is larger than the one it began at.

## Not modelled

* `src/archive`: the previous generation, not built or deployed any more.
* Dashboard, statistics, seed detail and connection tests: they only read.
* Routing, static files, request logging, parsing of the environment, column
  lists and NULL conversions: no state of their own.
* Decoding of XML and JSON, the lookup of a row in a page, redaction of logs,
  splitting a migration into statements: text in, text out, with no property
  that their own tests do not state as well.
* The views that only display.

PROJECT.json lists every component with its status and the reason.
