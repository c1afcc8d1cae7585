---------------------------- MODULE SeedLifecycle ----------------------------
(***************************************************************************)
(* The relay engine: how one seed travels from the RSS poller through the  *)
(* jobs channel, the worker pool and the retry loop to a settled status,   *)
(* while the monitor, the API handlers, Start/Stop and process crashes     *)
(* interleave with it (backend/internal/engine, the status writes of       *)
(* pipeline.Relay, and the resend/delete handlers of backend/internal/api).*)
(*                                                                         *)
(* Every database statement is one step; the steps of one goroutine run in *)
(* program order and interleave freely with those of the others.  What the *)
(* pipeline does at the target sites is the subject of module Publish.     *)
(***************************************************************************)
EXTENDS Naturals, Sequences, FiniteSets, Bags

CONSTANTS
  Seeds,            \* the seeds (source_site, info_hash) the feeds can offer
  Workers,          \* the worker goroutines; the jobs channel holds as many ids
  RetryLoop,        \* the retry goroutine, which runs submitJob itself
  NoSeed,           \* "no seed" in a goroutine's local state
  RetryMax,         \* strategy.retry_max, normalised to a positive number
  DefaultRetryMax,  \* the fallback when the strategy row cannot be read
  Budget            \* bound: how often each fault or operator request happens

Faults == {"crash", "stop", "resend", "delete", "abort"}

Actors == Workers \cup {RetryLoop}

ASSUME LifecycleAssumption ==
  /\ IsFiniteSet(Seeds)
  /\ IsFiniteSet(Workers) /\ Workers # {}
  /\ RetryLoop \notin Workers
  /\ NoSeed \notin Seeds
  /\ RetryMax \in Nat \ {0}
  /\ DefaultRetryMax \in Nat \ {0}
  /\ Budget \in [Faults -> Nat]

VARIABLES
  seen,        \* DB: the seen_hashes tombstones
  status,      \* DB: seeds.status, "none" when the row does not exist
  retryCount,  \* DB: seeds.retry_count
  replicas,    \* DB: the seeds that have a seed_replicas row
  mode,        \* the engine: stopped, running, draining or cancelled
  jobs,        \* the buffered jobs channel
  queue,       \* RetryQueue.items: a bag of [seed, no]
  actor,       \* the goroutines that run submitJob
  poller,      \* the poll goroutine inside ingestItem
  monitor,     \* the monitor goroutine inside retireCheck or abortSlowTorrent
  resend,      \* one API handler inside ResendSeed
  deletion,    \* one API handler inside deleteSeed
  budget       \* what is left of Budget

db == <<seen, status, retryCount, replicas>>
goroutines == <<actor, poller, monitor>>
handlers == <<resend, deletion>>
vars == <<db, mode, jobs, queue, goroutines, handlers, budget>>

Statuses == {"none", "discovered", "processing", "downloading", "downloaded",
             "seeding", "retry", "failed", "skipped", "retired"}

Items == [seed : Seeds, no : Nat]
Item(s, n) == [seed |-> s, no |-> n]

RelayPcs == {"load", "prepare", "download", "publish", "bump", "route", "requeue"}
Idle == [pc |-> "idle", seed |-> NoSeed, no |-> 0, partial |-> FALSE]
Exited == [Idle EXCEPT !.pc = "exited"]
NoWork == [pc |-> "idle", seed |-> NoSeed, no |-> 0]

Live == {"running", "draining"}     \* the engine context is not cancelled
Running(a) == actor[a].pc \in RelayPcs

-----------------------------------------------------------------------------
(* Helpers. *)

(* An UPDATE of a seeds row: it does nothing to a row that is gone, and a     *)
(* statement on the engine's cancelled context is not executed.              *)
Writable(s) == mode \in Live /\ status[s] # "none"

WriteStatus(s, st) ==
  status' = IF Writable(s) THEN [status EXCEPT ![s] = st] ELSE status

BumpRetry(s) ==
  retryCount' = IF Writable(s) THEN [retryCount EXCEPT ![s] = @ + 1] ELSE retryCount

Enqueue(s, n) == queue' = queue (+) SetToBag({Item(s, n)})

AtLeastOne(n) == IF n < 1 THEN 1 ELSE n

Spend(f) == /\ budget[f] > 0
            /\ budget' = [budget EXCEPT ![f] = @ - 1]

Goto(a, pc) == actor' = [actor EXCEPT ![a].pc = pc]
Finish(a) == actor' = [actor EXCEPT ![a] = Idle]
Fail(a, isPartial) ==
  actor' = [actor EXCEPT ![a].pc = "bump", ![a].partial = isPartial]

(* strategy(ctx): the stored retry_max, or the default when the read fails.  *)
RetryLimit == IF mode \in Live THEN RetryMax ELSE DefaultRetryMax

-----------------------------------------------------------------------------
Init ==
  /\ seen = {}
  /\ status = [s \in Seeds |-> "none"]
  /\ retryCount = [s \in Seeds |-> 0]
  /\ replicas = {}
  /\ mode = "stopped"
  /\ jobs = <<>>
  /\ queue = EmptyBag
  /\ actor = [a \in Actors |-> Idle]
  /\ poller = NoWork
  /\ monitor = NoWork
  /\ resend = NoWork
  /\ deletion = NoWork
  /\ budget = Budget

-----------------------------------------------------------------------------
(* The poller: ingestItem of an item that passes the strategy filter.        *)

(* HasSeen is false, MarkSeen writes the tombstone.  A seen hash is skipped.  *)
MarkSeen(s) ==
  /\ mode \in Live
  /\ poller.pc = "idle"
  /\ s \notin seen
  /\ seen' = seen \cup {s}
  /\ poller' = [pc |-> "create", seed |-> s, no |-> 0]
  /\ UNCHANGED <<status, retryCount, replicas, mode, jobs, queue, actor,
                 monitor, handlers, budget>>

(* GetSeedByHash, then CreateSeed: a cancelled context or an existing row    *)
(* ends the ingest here.                                                     *)
CreateSeed ==
  /\ poller.pc = "create"
  /\ IF Writable(poller.seed) \/ mode \notin Live
     THEN poller' = NoWork /\ UNCHANGED <<status, retryCount>>
     ELSE /\ status' = [status EXCEPT ![poller.seed] = "discovered"]
          /\ retryCount' = [retryCount EXCEPT ![poller.seed] = 0]
          /\ poller' = [poller EXCEPT !.pc = "enqueue"]
  /\ UNCHANGED <<seen, replicas, mode, jobs, queue, actor, monitor, handlers,
                 budget>>

(* Fault for mutation: a channel one slot too small.                         *)
EnqueueJobBelowCapacity ==
  /\ poller.pc = "enqueue"
  /\ Len(jobs) + 1 < Cardinality(Workers)
  /\ jobs' = Append(jobs, poller.seed)
  /\ poller' = NoWork
  /\ UNCHANGED <<db, mode, queue, actor, monitor, handlers, budget>>

(* enqueue: the select sends when the channel has room, ...                   *)
EnqueueJob ==
  /\ poller.pc = "enqueue"
  /\ Len(jobs) < Cardinality(Workers)
  /\ jobs' = Append(jobs, poller.seed)
  /\ poller' = NoWork
  /\ UNCHANGED <<db, mode, queue, actor, monitor, handlers, budget>>

(* ... and gives up once the drain channel or the context is closed.          *)
DropJob ==
  /\ poller.pc = "enqueue"
  /\ mode # "running"
  /\ poller' = NoWork
  /\ UNCHANGED <<db, mode, jobs, queue, actor, monitor, handlers, budget>>

-----------------------------------------------------------------------------
(* The goroutines that run submitJob.                                        *)

(* workerLoop receives a job: the initial attempt has retryNo 0.  Once the   *)
(* graceful stop began the id is discarded and the worker exits.             *)
TakeJob(w) ==
  /\ actor[w].pc = "idle"
  /\ jobs # <<>>
  /\ jobs' = Tail(jobs)
  /\ actor' = [actor EXCEPT ![w] =
       IF mode = "running"
       THEN [pc |-> "load", seed |-> Head(jobs), no |-> 0, partial |-> FALSE]
       ELSE Exited]
  /\ UNCHANGED <<db, mode, queue, poller, monitor, handlers, budget>>

WorkerExit(w) ==
  /\ mode \in {"draining", "cancelled"}
  /\ actor[w].pc = "idle"
  /\ actor' = [actor EXCEPT ![w] = Exited]
  /\ UNCHANGED <<db, mode, jobs, queue, poller, monitor, handlers, budget>>

(* Fault for mutation: Due returns an item and leaves it in the queue.       *)
TakeRetryKeepingItem ==
  /\ mode # "stopped"
  /\ actor[RetryLoop].pc = "idle"
  /\ \E it \in BagToSet(queue) :
       actor' = [actor EXCEPT ![RetryLoop] =
         [pc |-> "load", seed |-> it.seed, no |-> it.no, partial |-> FALSE]]
  /\ UNCHANGED <<db, mode, jobs, queue, poller, monitor, handlers, budget>>

(* retryLoop takes the next item that Due handed over, its backoff elapsed.  *)
(* Due takes all due items out at once: here those not yet reached stay in   *)
(* the bag (module RetryQueue has the batch, the clock and the sleep).       *)
TakeRetry ==
  /\ mode # "stopped"
  /\ actor[RetryLoop].pc = "idle"
  /\ \E it \in BagToSet(queue) :
       /\ queue' = queue (-) SetToBag({it})
       /\ actor' = [actor EXCEPT ![RetryLoop] =
            [pc |-> "load", seed |-> it.seed, no |-> it.no, partial |-> FALSE]]
  /\ UNCHANGED <<db, mode, jobs, poller, monitor, handlers, budget>>

(* Relay loads the seed and marks it processing.                             *)
LoadSeed(a) ==
  LET s == actor[a].seed IN
  /\ actor[a].pc = "load"
  /\ WriteStatus(s, "processing")
  /\ IF Writable(s) THEN Goto(a, "prepare") ELSE Fail(a, FALSE)
  /\ UNCHANGED <<seen, retryCount, replicas, mode, jobs, queue, poller,
                 monitor, handlers, budget>>

(* Source lookup, Locate, FetchDetail and the promotion filter.              *)
Prepare(a) ==
  LET s == actor[a].seed IN
  /\ actor[a].pc = "prepare"
  /\ \/ WriteStatus(s, "downloading") /\ Goto(a, "download")
     \/ WriteStatus(s, "skipped") /\ Finish(a)
     \/ Fail(a, FALSE) /\ UNCHANGED status
  /\ UNCHANGED <<seen, retryCount, replicas, mode, jobs, queue, poller,
                 monitor, handlers, budget>>

(* downloadAndParse.                                                         *)
Download(a) ==
  /\ actor[a].pc = "download"
  /\ \/ WriteStatus(actor[a].seed, "downloaded") /\ Goto(a, "publish")
     \/ Fail(a, FALSE) /\ UNCHANGED status
  /\ UNCHANGED <<seen, retryCount, replicas, mode, jobs, queue, poller,
                 monitor, handlers, budget>>

(* The targets: every pending one succeeds, some do, or none does (which     *)
(* includes "no enabled targets").  A cross-seeded target leaves a replica;  *)
(* its foreign key needs the seeds row.                                      *)
PublishTargets(a) ==
  LET s == actor[a].seed IN
  /\ actor[a].pc = "publish"
  /\ \/ /\ WriteStatus(s, "seeding") /\ Finish(a)
        /\ replicas' \in {replicas, IF Writable(s) THEN replicas \cup {s} ELSE replicas}
     \/ /\ Fail(a, TRUE) /\ UNCHANGED status
        /\ replicas' \in {replicas, IF Writable(s) THEN replicas \cup {s} ELSE replicas}
     \/ Fail(a, FALSE) /\ UNCHANGED <<status, replicas>>
  /\ UNCHANGED <<seen, retryCount, mode, jobs, queue, poller, monitor,
                 handlers, budget>>

(* submitJob after an error: BumpRetry, ...                                  *)
BumpAfterFailure(a) ==
  /\ actor[a].pc = "bump"
  /\ BumpRetry(actor[a].seed)
  /\ Goto(a, "route")
  /\ UNCHANGED <<seen, status, replicas, mode, jobs, queue, poller, monitor,
                 handlers, budget>>

(* ... then back to retry while retries are left, ...                        *)
RouteToRetry(a) ==
  /\ actor[a].pc = "route"
  /\ actor[a].no + 1 <= RetryLimit
  /\ WriteStatus(actor[a].seed, "retry")
  /\ Goto(a, "requeue")
  /\ UNCHANGED <<seen, retryCount, replicas, mode, jobs, queue, poller,
                 monitor, handlers, budget>>

(* Fault for mutation: the retry number is not advanced.                     *)
RequeueSameNumber(a) ==
  /\ actor[a].pc = "requeue"
  /\ Enqueue(actor[a].seed, AtLeastOne(actor[a].no))
  /\ Finish(a)
  /\ UNCHANGED <<db, mode, jobs, poller, monitor, handlers, budget>>

RequeueAfterFailure(a) ==
  /\ actor[a].pc = "requeue"
  /\ Enqueue(actor[a].seed, actor[a].no + 1)
  /\ Finish(a)
  /\ UNCHANGED <<db, mode, jobs, poller, monitor, handlers, budget>>

(* ... or the terminal status: a partial success is kept seeding.            *)
RouteExhausted(a) ==
  /\ actor[a].pc = "route"
  /\ actor[a].no + 1 > RetryLimit
  /\ WriteStatus(actor[a].seed, IF actor[a].partial THEN "seeding" ELSE "failed")
  /\ Finish(a)
  /\ UNCHANGED <<seen, retryCount, replicas, mode, jobs, queue, poller,
                 monitor, handlers, budget>>

-----------------------------------------------------------------------------
(* The monitor.                                                              *)

(* fallbackHashMatch: a seeding seed without a replica here gets one.        *)
AttachReplica(s) ==
  /\ mode \in Live
  /\ monitor.pc = "idle"
  /\ status[s] = "seeding" /\ s \notin replicas
  /\ replicas' = replicas \cup {s}
  /\ UNCHANGED <<seen, status, retryCount, mode, jobs, queue, goroutines,
                 handlers, budget>>

(* retireCheck of a seed that has a replica, whatever its status: the        *)
(* torrent and the replicas go first, ...                                    *)
RetireTorrent(s) ==
  /\ mode \in Live
  /\ monitor.pc = "idle"
  /\ s \in replicas
  /\ replicas' = replicas \ {s}
  /\ monitor' = [pc |-> "retire", seed |-> s, no |-> 0]
  /\ UNCHANGED <<seen, status, retryCount, mode, jobs, queue, actor, poller,
                 handlers, budget>>

(* ... the status last.                                                      *)
RetireSeed ==
  /\ monitor.pc = "retire"
  /\ WriteStatus(monitor.seed, "retired")
  /\ monitor' = NoWork
  /\ UNCHANGED <<seen, retryCount, replicas, mode, jobs, queue, actor, poller,
                 handlers, budget>>

(* abortSlowTorrent: delete from qB, then read retry_count, ...              *)
AbortSlow(s) ==
  /\ mode \in Live
  /\ monitor.pc = "idle"
  /\ s \in replicas
  /\ Spend("abort")
  /\ monitor' = [pc |-> "abort-bump", seed |-> s, no |-> retryCount[s] + 1]
  /\ UNCHANGED <<db, mode, jobs, queue, actor, poller, handlers>>

(* ... BumpRetry, ...                                                        *)
AbortBump ==
  /\ monitor.pc = "abort-bump"
  /\ BumpRetry(monitor.seed)
  /\ monitor' = [monitor EXCEPT !.pc = "abort-mark"]
  /\ UNCHANGED <<seen, status, replicas, mode, jobs, queue, actor, poller,
                 handlers, budget>>

(* ... status retry, ...                                                     *)
AbortMark ==
  /\ monitor.pc = "abort-mark"
  /\ WriteStatus(monitor.seed, "retry")
  /\ monitor' = [monitor EXCEPT !.pc = "abort-enqueue"]
  /\ UNCHANGED <<seen, retryCount, replicas, mode, jobs, queue, actor, poller,
                 handlers, budget>>

(* ... and the queue, with no look at RetryMax.                              *)
AbortEnqueue ==
  /\ monitor.pc = "abort-enqueue"
  /\ Enqueue(monitor.seed, monitor.no)
  /\ monitor' = NoWork
  /\ UNCHANGED <<db, mode, jobs, actor, poller, handlers, budget>>

-----------------------------------------------------------------------------
(* The API handlers, on the request's own context.                           *)

(* ResendSeed: a full rerun first deletes the records and the replicas, ...   *)
ResendBegin(s) ==
  /\ resend.pc = "idle"
  /\ status[s] # "none"
  /\ Spend("resend")
  /\ replicas' \in {replicas, replicas \ {s}}
  /\ resend' = [pc |-> "reset", seed |-> s, no |-> 0]
  /\ UNCHANGED <<seen, status, retryCount, mode, jobs, queue, goroutines,
                 deletion>>

(* ... then one UPDATE resets the retry state, ...                           *)
ResendReset ==
  LET s == resend.seed IN
  /\ resend.pc = "reset"
  /\ IF status[s] = "none" THEN UNCHANGED <<status, retryCount>>
     ELSE /\ status' = [status EXCEPT ![s] = "retry"]
          /\ retryCount' = [retryCount EXCEPT ![s] = 0]
  /\ resend' = [resend EXCEPT !.pc = "enqueue"]
  /\ UNCHANGED <<seen, replicas, mode, jobs, queue, goroutines, deletion,
                 budget>>

(* ... and the seed enters the retry queue as retry 1.                       *)
ResendEnqueue ==
  /\ resend.pc = "enqueue"
  /\ Enqueue(resend.seed, 1)
  /\ resend' = NoWork
  /\ UNCHANGED <<db, mode, jobs, goroutines, deletion, budget>>

(* deleteSeed: the status check, ...                                         *)
DeleteCheck(s) ==
  /\ deletion.pc = "idle"
  /\ status[s] \notin {"none", "downloading", "processing"}
  /\ Spend("delete")
  /\ deletion' = [pc |-> "delete", seed |-> s, no |-> 0]
  /\ UNCHANGED <<db, mode, jobs, queue, goroutines, resend>>

(* ... and the transaction that removes the row and everything it owns.      *)
DeleteRow ==
  LET s == deletion.seed IN
  /\ deletion.pc = "delete"
  /\ status' = [status EXCEPT ![s] = "none"]
  /\ retryCount' = [retryCount EXCEPT ![s] = 0]
  /\ replicas' = replicas \ {s}
  /\ deletion' = NoWork
  /\ UNCHANGED <<seen, mode, jobs, queue, goroutines, resend, budget>>

-----------------------------------------------------------------------------
(* Start, Stop and the end of the process.                                   *)

ReclaimedDownloadingOnly(st) == IF st = "downloading" THEN "retry" ELSE st
ReclaimedWithFailed(st) ==
  IF st \in {"downloading", "processing", "failed"} THEN "retry" ELSE st

(* ListSeedsByStatus: the seeds whose row has the status st.                  *)
ListSeedsByStatus(rows, st) == {s \in Seeds : rows[s] = st}

Reclaimed(st) == IF st \in {"downloading", "processing"} THEN "retry" ELSE st

(* Fault for mutation: the retry queue is not rebuilt.                       *)
StartWithoutRebuild ==
  /\ mode = "stopped"
  /\ mode' = "running"
  /\ status' = [s \in Seeds |-> Reclaimed(status[s])]
  /\ jobs' = <<>>
  /\ actor' = [a \in Actors |-> Idle]
  /\ UNCHANGED <<seen, retryCount, replicas, queue, poller, monitor, handlers, budget>>

(* Start: reclaim mid-flight seeds, rebuild the retry queue from the rows in  *)
(* retry, a fresh jobs channel and fresh goroutines.  The RetryQueue object   *)
(* survives a Stop and is added to.                                          *)
Start ==
  LET reclaimed == [s \in Seeds |-> Reclaimed(status[s])]
      retrying == ListSeedsByStatus(reclaimed, "retry")
  IN
  /\ mode = "stopped"
  /\ mode' = "running"
  /\ status' = reclaimed
  /\ queue' = queue (+) SetToBag({Item(s, AtLeastOne(retryCount[s])) : s \in retrying})
  /\ jobs' = <<>>
  /\ actor' = [a \in Actors |-> Idle]
  /\ UNCHANGED <<seen, retryCount, replicas, poller, monitor, handlers, budget>>

(* Stop: set stopGraceful and close the drain channel, ...                    *)
Stop ==
  /\ mode = "running"
  /\ Spend("stop")
  /\ mode' = "draining"
  /\ UNCHANGED <<db, jobs, queue, goroutines, handlers>>

(* ... cancel the context once the workers are out or the timeout fires, ...  *)
Cancel ==
  /\ mode = "draining"
  /\ mode' = "cancelled"
  /\ UNCHANGED <<db, jobs, queue, goroutines, handlers, budget>>

(* ... and wait for every tracked goroutine to return.                       *)
Stopped ==
  /\ mode = "cancelled"
  /\ \A w \in Workers : actor[w].pc = "exited"
  /\ actor[RetryLoop].pc = "idle" /\ poller.pc = "idle" /\ monitor.pc = "idle"
  /\ mode' = "stopped"
  /\ UNCHANGED <<db, jobs, queue, goroutines, handlers, budget>>

(* The process ends, at any point: only the database is left.                *)
Crash ==
  /\ Spend("crash")
  /\ mode' = "stopped"
  /\ jobs' = <<>>
  /\ queue' = EmptyBag
  /\ actor' = [a \in Actors |-> Idle]
  /\ poller' = NoWork /\ monitor' = NoWork
  /\ resend' = NoWork /\ deletion' = NoWork
  /\ UNCHANGED db

-----------------------------------------------------------------------------
PollerNext == (\E s \in Seeds : MarkSeen(s)) \/ CreateSeed \/ EnqueueJob \/ DropJob

RelayNext(a) ==
  \/ LoadSeed(a) \/ Prepare(a) \/ Download(a) \/ PublishTargets(a)
  \/ BumpAfterFailure(a) \/ RouteToRetry(a) \/ RequeueAfterFailure(a)
  \/ RouteExhausted(a)

WorkerNext(w) == TakeJob(w) \/ WorkerExit(w) \/ RelayNext(w)

RetryLoopNext == TakeRetry \/ RelayNext(RetryLoop)

MonitorNext ==
  \/ \E s \in Seeds : AttachReplica(s) \/ RetireTorrent(s) \/ AbortSlow(s)
  \/ RetireSeed \/ AbortBump \/ AbortMark \/ AbortEnqueue

HandlerNext ==
  \/ \E s \in Seeds : ResendBegin(s) \/ DeleteCheck(s)
  \/ ResendReset \/ ResendEnqueue \/ DeleteRow

LifecycleNext == Start \/ Stop \/ Cancel \/ Stopped \/ Crash

Next ==
  \/ PollerNext
  \/ \E w \in Workers : WorkerNext(w)
  \/ RetryLoopNext
  \/ MonitorNext
  \/ HandlerNext
  \/ LifecycleNext

Spec == Init /\ [][Next]_vars

(* The goroutines are scheduled, the requests of a step have a timeout, the  *)
(* service manager starts the process again, and Stop's phases complete.     *)
(* Notifications are left out: a mail server that falls silent on one holds  *)
(* the goroutine that sends it (module NotifyRouter).                        *)
(* Crashes, stops, requests and retirements are never forced, and neither is *)
(* the retry loop's pick-up of a due item (see module RetryQueue).           *)
Fairness ==
  /\ \A s \in Seeds : WF_vars(MarkSeen(s))
  /\ WF_vars(CreateSeed) /\ WF_vars(EnqueueJob \/ DropJob)
  /\ \A w \in Workers : WF_vars(WorkerNext(w))
  /\ WF_vars(RelayNext(RetryLoop))
  /\ WF_vars(RetireSeed \/ AbortBump \/ AbortMark \/ AbortEnqueue)
  /\ WF_vars(Start) /\ WF_vars(Cancel) /\ WF_vars(Stopped)

FairSpec == Spec /\ Fairness

-----------------------------------------------------------------------------
(* Properties.                                                               *)

(* Every variable keeps its type.                                            *)
TypeOK ==
  /\ seen \subseteq Seeds
  /\ status \in [Seeds -> Statuses]
  /\ retryCount \in [Seeds -> Nat]
  /\ replicas \subseteq Seeds
  /\ mode \in {"stopped", "running", "draining", "cancelled"}
  /\ jobs \in Seq(Seeds)
  /\ IsABag(queue) /\ BagToSet(queue) \subseteq Items
  /\ actor \in [Actors -> [pc : RelayPcs, seed : Seeds, no : Nat, partial : BOOLEAN]
                          \cup {Idle, Exited}]
  /\ poller \in [pc : {"create", "enqueue"}, seed : Seeds, no : {0}] \cup {NoWork}
  /\ monitor \in [pc : {"retire", "abort-bump", "abort-mark", "abort-enqueue"},
                   seed : Seeds, no : Nat] \cup {NoWork}
  /\ resend \in [pc : {"reset", "enqueue"}, seed : Seeds, no : {0}] \cup {NoWork}
  /\ deletion \in [pc : {"delete"}, seed : Seeds, no : {0}] \cup {NoWork}
  /\ budget \in [Faults -> Nat]

InQueue(s) == \E it \in BagToSet(queue) : it.seed = s
InRelay(s) == \E a \in Actors : Running(a) /\ actor[a].seed = s
InAbort(s) == monitor.pc = "abort-enqueue" /\ monitor.seed = s
InResend(s) == resend.pc = "enqueue" /\ resend.seed = s

(* A seed waiting in status retry is never forgotten: some queue item, some   *)
(* running submitJob or some handler about to enqueue it will take it on,    *)
(* through resends, slow aborts, retirements, deletes, stops and crashes.    *)
RetryOwned ==
  mode \in Live =>
    \A s \in Seeds : status[s] = "retry" =>
      InQueue(s) \/ InRelay(s) \/ InAbort(s) \/ InResend(s)

MidRelayPcs == {"prepare", "download", "publish", "bump", "route"}

(* A seed that an accepting engine shows as processing or downloading is     *)
(* really inside a Relay: Start reclaims those that a crash or a forced stop *)
(* left behind, so none stays in such a status with nobody working on it.    *)
ReclaimedOwned ==
  mode \in Live =>
    \A s \in Seeds : status[s] \in {"processing", "downloading"} =>
      \E a \in Actors : actor[a].seed = s /\ actor[a].pc \in MidRelayPcs

(* The same claim for every status a Relay passes through, downloaded (the   *)
(* whole publish phase) included.                                            *)
MidFlightReclaimed ==
  mode \in Live =>
    \A s \in Seeds : status[s] \in {"processing", "downloading", "downloaded"} =>
      \E a \in Actors : actor[a].seed = s /\ actor[a].pc \in MidRelayPcs

(* The places that hold one claim to relay s.                                *)
Claims(s) ==
  (IF poller.pc = "enqueue" /\ poller.seed = s THEN {<<"poller", 0>>} ELSE {})
    \cup {<<"job", i>> : i \in {j \in DOMAIN jobs : jobs[j] = s}}
    \cup {<<"actor", a>> : a \in {b \in Actors : Running(b) /\ actor[b].seed = s}}
    \cup {<<"item", it.no>> : it \in {i \in BagToSet(queue) : i.seed = s}}

(* Nobody stopped the engine, resent a seed or aborted a slow torrent: these *)
(* may start a second chain of attempts at a seed (README, Divergences).     *)
Unrequested == \A f \in {"stop", "resend", "abort"} : budget[f] = Budget[f]

(* At most one chain of attempts exists for a seed: it is in the jobs        *)
(* channel, in one submitJob or in the queue once, never in two of them, so  *)
(* no two Relays of one seed overlap.  Crashes, restarts and deletes keep it *)
(* so.                                                                       *)
SingleChain ==
  Unrequested =>
    \A s \in Seeds :
      /\ \A c, d \in Claims(s) : c = d
      /\ \A it \in BagToSet(queue) : it.seed = s => queue[it] = 1

(* retry_max bounds the failures of a seed: an initial attempt and retry_max *)
(* retries, plus at most one for each time the process dies between the      *)
(* statements of an attempt and the queue is rebuilt from retry_count.       *)
RetryBudget ==
  Unrequested =>
    \A s \in Seeds :
      retryCount[s] <= RetryMax + 1 + (Budget["crash"] - budget["crash"])

(* A failed or skipped seed is settled: without a resend only the monitor's  *)
(* retirement changes it and a delete removes it, no restart and no          *)
(* left-over queue item relays it.                                           *)
SettledStays ==
  [][\A s \in Seeds : Unrequested' /\ status[s] \in {"failed", "skipped"} =>
       \/ status'[s] \in {status[s], "retired"}
       \/ deletion.seed = s /\ status'[s] = "none"]_vars

Undisturbed == budget["stop"] = Budget["stop"] /\ budget["crash"] = Budget["crash"]

(* A discovered seed is relayed in the end, however full the jobs channel and *)
(* however busy the workers, as long as the engine is not stopped.           *)
DiscoveredRelayed ==
  \A s \in Seeds : status[s] = "discovered" ~> status[s] # "discovered" \/ ~ Undisturbed

(* A seed that a graceful stop dropped is discovered again and relayed.      *)
DroppedRelayed ==
  \A s \in Seeds : status[s] = "discovered" ~> status[s] # "discovered"

(* Stop returns: no worker mid-Relay, no poller blocked on a full jobs       *)
(* channel and no item of the retry loop keeps it waiting for ever.          *)
StopReturns == mode = "draining" ~> mode = "stopped"

=============================================================================
