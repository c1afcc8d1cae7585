------------------------------ MODULE Publish ------------------------------
(***************************************************************************)
(* Publishing one seed to the target sites: the target half of             *)
(* pipeline.Relay (one goroutine per target, the relay_records row as the  *)
(* claim), submitJob's retries around it, and what may run at the same     *)
(* time: another Relay of the seed, a full resend, the monitor's slow      *)
(* abort and retirement, a cancelled engine context and a crash.           *)
(*                                                                         *)
(* Each database statement and each request to a site is one step.  The    *)
(* sites and the other uploaders on them are the environment; a site       *)
(* recognises a torrent it already has.                                    *)
(***************************************************************************)
EXTENDS Naturals, FiniteSets

CONSTANTS
  Targets,               \* the enabled target sites
  Relays,                \* slots for attempts at the seed that may overlap
  MaxTargetConcurrency,  \* targets of one Relay in progress at a time
  RetryMax,              \* strategy.retry_max, normalised to a positive number
  DefaultRetryMax,       \* the fallback when the strategy row cannot be read
  Enabled                \* which disturbances the instance has

Disturbances == {"crash", "cancel", "resend", "republish", "abort", "retire", "elsewhere"}

ASSUME PublishAssumption ==
  /\ IsFiniteSet(Targets) /\ Targets # {}
  /\ Relays # {}
  /\ MaxTargetConcurrency \in Nat \ {0}
  /\ RetryMax \in Nat \ {0} /\ DefaultRetryMax \in Nat \ {0}
  /\ Enabled \subseteq Disturbances

VARIABLES
  record,      \* DB: relay_records.status, "absent" when there is no row
  role,        \* DB: relay_records.role
  seedStatus,  \* DB: seeds.status; "open" stands for every unsettled status
  replica,     \* DB: the seed has a seed_replicas row
  site,        \* the targets whose site has the torrent
  relay,       \* the attempts: phase and retry number
  step,        \* the publish goroutine of each attempt and target
  monitor,     \* the monitor goroutine inside retireCheck or abortSlowTorrent
  resend,      \* a ResendSeed between its deletes and its enqueue
  ctx          \* the engine context: live or cancelled

db == <<record, role, seedStatus, replica>>
vars == <<db, site, relay, step, monitor, resend, ctx>>

Published == {"published", "cross_seeding"}
Done == Published \cup {"retired"}
Terminal == {"good", "bad"}
Held == {"look", "claim", "upload", "accepted", "refused", "demote", "join", "joined"}

Quiet == [kind |-> "idle", todo |-> {}]

-----------------------------------------------------------------------------
(* Helpers.                                                                  *)

Goto(r, t, pc) == step' = [step EXCEPT ![r][t] = pc]

(* An UPDATE of the record: nothing to do without a row or on a dead context. *)
WriteRecord(t, st) ==
  record' = IF ctx = "live" /\ record[t] # "absent"
            THEN [record EXCEPT ![t] = st] ELSE record

WriteSeed(st) == seedStatus' = IF ctx = "live" THEN st ELSE seedStatus

RetryLimit == IF ctx = "live" THEN RetryMax ELSE DefaultRetryMax

(* ListRecordsBySeed: the targets whose record has one of these statuses.     *)
ListRecordsBySeed(statuses) == {t \in Targets : record[t] \in statuses}

PendingTargets == Targets \ ListRecordsBySeed(Done)

(* UpsertRecord: INSERT ... ON CONFLICT DO NOTHING has one winner.           *)
UpsertRecord(t) ==
  IF record[t] = "absent"
  THEN record' = [record EXCEPT ![t] = "pending"] /\ role' = [role EXCEPT ![t] = "publisher"]
  ELSE UNCHANGED <<record, role>>

-----------------------------------------------------------------------------
Init ==
  /\ record = [t \in Targets |-> "absent"]
  /\ role = [t \in Targets |-> "publisher"]
  /\ seedStatus = "open"
  /\ replica = FALSE
  /\ site \in SUBSET Targets
  /\ \E r \in Relays :
       relay = [q \in Relays |->
                  [phase |-> IF q = r THEN "waiting" ELSE "idle", no |-> 0]]
  /\ step = [r \in Relays |-> [t \in Targets |-> "off"]]
  /\ monitor = Quiet
  /\ resend = FALSE
  /\ ctx = "live"

-----------------------------------------------------------------------------
(* Relay.                                                                    *)

(* An attempt starts and reads the records; when they cannot be read every    *)
(* target is processed.  Nothing pending: the seed is seeding.               *)
BeginRelay(r) ==
  /\ ctx = "live"
  /\ relay[r].phase = "waiting"
  /\ \E todo \in {PendingTargets, Targets} :
       \/ /\ todo = {}
          /\ WriteSeed("seeding")
          /\ relay' = [relay EXCEPT ![r].phase = "idle"]
          /\ UNCHANGED step
       \/ /\ todo # {}
          /\ WriteSeed("open")
          /\ relay' = [relay EXCEPT ![r].phase = "targets"]
          /\ step' = [step EXCEPT ![r] =
                        [t \in Targets |-> IF t \in todo THEN "wait" ELSE "off"]]
  /\ UNCHANGED <<record, role, replica, site, monitor, resend, ctx>>

(* The semaphore of publishToTargets.                                        *)
Acquire(r, t) ==
  /\ step[r][t] = "wait"
  /\ Cardinality({u \in Targets : step[r][u] \in Held}) < MaxTargetConcurrency
  /\ Goto(r, t, "look")
  /\ UNCHANGED <<db, site, relay, monitor, resend, ctx>>

(* Fault for mutation: the backstop check of a finished record is dropped.   *)
LookWithoutBackstop(r, t) ==
  /\ step[r][t] = "look"
  /\ \/ Goto(r, t, "bad")
     \/ ctx = "live" /\ Goto(r, t, IF record[t] = "absent" THEN "claim" ELSE "upload")
  /\ UNCHANGED <<db, site, relay, monitor, resend, ctx>>

(* publishToOneTarget up to GetRecord: site config, adapter, cleaned torrent, *)
(* any of which may fail.                                                    *)
Look(r, t) ==
  /\ step[r][t] = "look"
  /\ \/ Goto(r, t, "bad")
     \/ /\ ctx = "live"
        /\ Goto(r, t, CASE record[t] = "absent" -> "claim"
                        [] record[t] \in Done   -> "good"
                        [] OTHER                -> "upload")
  /\ UNCHANGED <<db, site, relay, monitor, resend, ctx>>

(* The claim: the loser of the insert joins the swarm of the winner.         *)
Claim(r, t) ==
  /\ step[r][t] = "claim"
  /\ \/ /\ ctx = "live"
        /\ UpsertRecord(t)
        /\ Goto(r, t, IF record[t] = "absent" THEN "upload" ELSE "demote")
     \/ /\ ctx # "live"
        /\ Goto(r, t, "bad")
        /\ UNCHANGED <<record, role>>
  /\ UNCHANGED <<seedStatus, replica, site, relay, monitor, resend, ctx>>

(* Fault for mutation: an answer that never came is taken for a success.     *)
UploadOptimistic(r, t) ==
  /\ step[r][t] = "upload"
  /\ Goto(r, t, "accepted")
  /\ site' \in {site, site \cup {t}}
  /\ UNCHANGED <<db, relay, monitor, resend, ctx>>

(* adapter.Publish: accepted, accepted with the answer lost, refused for any  *)
(* reason, or recognised as a duplicate.  A classic site may link to the     *)
(* torrent it has: the details link is taken for a success.                  *)
Upload(r, t) ==
  /\ step[r][t] = "upload"
  /\ \/ t \notin site /\ site' = site \cup {t} /\ Goto(r, t, "accepted")
     \/ t \notin site /\ site' = site \cup {t} /\ Goto(r, t, "refused")
     \/ site' = site /\ Goto(r, t, "refused")
     \/ t \in site /\ site' = site /\ (Goto(r, t, "demote") \/ Goto(r, t, "accepted"))
  /\ UNCHANGED <<db, relay, monitor, resend, ctx>>

MarkPublished(r, t) ==
  /\ step[r][t] = "accepted"
  /\ WriteRecord(t, "published")
  /\ Goto(r, t, "good")
  /\ UNCHANGED <<role, seedStatus, replica, site, relay, monitor, resend, ctx>>

(* UpdateRecordAttempt(failed).                                              *)
MarkFailed(r, t) ==
  /\ step[r][t] = "refused"
  /\ WriteRecord(t, "failed")
  /\ Goto(r, t, "bad")
  /\ UNCHANGED <<role, seedStatus, replica, site, relay, monitor, resend, ctx>>

(* Fault for mutation: the role is not written before the cross-seed.        *)
DemoteInMemory(r, t) ==
  /\ step[r][t] = "demote"
  /\ Goto(r, t, "join")
  /\ UNCHANGED <<db, site, relay, monitor, resend, ctx>>

(* SetRecordRole(seeder).                                                    *)
Demote(r, t) ==
  /\ step[r][t] = "demote"
  /\ role' = IF ctx = "live" /\ record[t] # "absent"
             THEN [role EXCEPT ![t] = "seeder"] ELSE role
  /\ Goto(r, t, "join")
  /\ UNCHANGED <<record, seedStatus, replica, site, relay, monitor, resend, ctx>>

(* Fault for mutation: the swarm is polled until it answers, context or not. *)
JoinPolling(r, t) ==
  /\ step[r][t] = "join"
  /\ ctx = "live"
  /\ \/ Goto(r, t, "refused") /\ UNCHANGED replica
     \/ Goto(r, t, "joined") /\ replica' = TRUE
  /\ UNCHANGED <<record, role, seedStatus, site, relay, monitor, resend, ctx>>

(* crossSeed: qB joins the swarm and the replica is written, or it fails.     *)
Join(r, t) ==
  /\ step[r][t] = "join"
  /\ \/ Goto(r, t, "refused") /\ UNCHANGED replica
     \/ ctx = "live" /\ Goto(r, t, "joined") /\ replica' = TRUE
  /\ UNCHANGED <<record, role, seedStatus, site, relay, monitor, resend, ctx>>

MarkCrossSeeding(r, t) ==
  /\ step[r][t] = "joined"
  /\ WriteRecord(t, "cross_seeding")
  /\ Goto(r, t, "good")
  /\ UNCHANGED <<role, seedStatus, replica, site, relay, monitor, resend, ctx>>

Results(r) == {t \in Targets : step[r][t] # "off"}
Failures(r) == {t \in Targets : step[r][t] = "bad"}

(* Relay collects the outcomes, and submitJob routes them: seeding, another   *)
(* retry, or exhausted, where a partial failure is kept seeding.             *)
EndRelay(r) ==
  LET retries == relay[r].no + 1 <= RetryLimit
      partial == Failures(r) # Results(r)
  IN
  /\ relay[r].phase = "targets"
  /\ \A t \in Results(r) : step[r][t] \in Terminal
  /\ \/ /\ Failures(r) = {}
        /\ WriteSeed("seeding")
        /\ relay' = [relay EXCEPT ![r].phase = "idle"]
     \/ /\ Failures(r) # {} /\ retries
        /\ WriteSeed("open")
        /\ relay' = [relay EXCEPT ![r] = [phase |-> "waiting", no |-> @.no + 1]]
     \/ /\ Failures(r) # {} /\ ~ retries
        /\ WriteSeed(IF partial THEN "seeding" ELSE "failed")
        /\ relay' = [relay EXCEPT ![r].phase = "idle"]
  /\ step' = [step EXCEPT ![r] = [t \in Targets |-> "off"]]
  /\ UNCHANGED <<record, role, replica, site, monitor, resend, ctx>>

-----------------------------------------------------------------------------
(* The monitor.                                                              *)

(* monitorInstance: a seeding seed whose torrent is in qB gets a replica.    *)
AttachReplica ==
  /\ ctx = "live" /\ monitor = Quiet
  /\ seedStatus = "seeding" /\ ~ replica
  /\ replica' = TRUE
  /\ UNCHANGED <<record, role, seedStatus, site, relay, step, monitor, resend, ctx>>

(* retireCheck lists the records, ...                                         *)
RetireBegin ==
  /\ "retire" \in Enabled
  /\ ctx = "live" /\ monitor = Quiet /\ replica
  /\ monitor' = [kind |-> "retire", todo |-> ListRecordsBySeed(Published)]
  /\ UNCHANGED <<db, site, relay, step, resend, ctx>>

(* ... retires the published ones, and abortSlowTorrent fails the others, ... *)
MonitorRecord(t) ==
  /\ t \in monitor.todo
  /\ WriteRecord(t, IF monitor.kind = "retire" THEN "retired" ELSE "failed")
  /\ monitor' = [monitor EXCEPT !.todo = @ \ {t}]
  /\ UNCHANGED <<role, seedStatus, replica, site, relay, step, resend, ctx>>

(* ... then drops the replicas ...                                            *)
DropReplicas ==
  /\ monitor.kind = "retire" /\ monitor.todo = {}
  /\ replica' = IF ctx = "live" THEN FALSE ELSE replica
  /\ monitor' = [monitor EXCEPT !.kind = "close"]
  /\ UNCHANGED <<record, role, seedStatus, site, relay, step, resend, ctx>>

(* ... and closes the seed.                                                   *)
RetireSeed ==
  /\ monitor.kind = "close"
  /\ WriteSeed("retired")
  /\ monitor' = Quiet
  /\ UNCHANGED <<record, role, replica, site, relay, step, resend, ctx>>

(* abortSlowTorrent lists the records, skips the finished ones, ...           *)
AbortBegin ==
  /\ "abort" \in Enabled
  /\ ctx = "live" /\ monitor = Quiet /\ replica
  /\ monitor' = [kind |-> "abort", todo |-> ListRecordsBySeed({"pending", "failed"})]
  /\ UNCHANGED <<db, site, relay, step, resend, ctx>>

(* ... and puts the seed back in the retry queue, as some retry number.      *)
AbortEnqueue(r) ==
  /\ monitor.kind = "abort" /\ monitor.todo = {}
  /\ relay[r].phase = "idle"
  /\ WriteSeed("open")
  /\ \E n \in 1 .. RetryMax + 1 :
       relay' = [relay EXCEPT ![r] = [phase |-> "waiting", no |-> n]]
  /\ monitor' = Quiet
  /\ UNCHANGED <<record, role, replica, site, step, resend, ctx>>

-----------------------------------------------------------------------------
(* The API, the engine's life and the other uploaders.                       *)

(* ResendSeed; a full rerun deletes the records and the replicas first.      *)
ResendBegin ==
  /\ ~ resend
  /\ resend' = TRUE
  /\ \/ "resend" \in Enabled /\ UNCHANGED <<record, replica>>
     \/ /\ "republish" \in Enabled
        /\ record' = [t \in Targets |-> "absent"]
        /\ replica' = FALSE
  /\ UNCHANGED <<role, seedStatus, site, relay, step, monitor, ctx>>

ResendEnqueue(r) ==
  /\ resend
  /\ relay[r].phase = "idle"
  /\ resend' = FALSE
  /\ seedStatus' = "open"
  /\ relay' = [relay EXCEPT ![r] = [phase |-> "waiting", no |-> 1]]
  /\ UNCHANGED <<record, role, replica, site, step, monitor, ctx>>

(* A forced stop cancels the context under the attempts; a new Start follows  *)
(* when they have returned.                                                  *)
Cancel ==
  /\ "cancel" \in Enabled
  /\ ctx = "live"
  /\ ctx' = "cancelled"
  /\ UNCHANGED <<db, site, relay, step, monitor, resend>>

Restart ==
  /\ ctx = "cancelled"
  /\ monitor = Quiet
  /\ \A r \in Relays : relay[r].phase # "targets"
  /\ ctx' = "live"
  /\ UNCHANGED <<db, site, relay, step, monitor, resend>>

(* The process dies; Start may find the seed and take it up again.            *)
Crash ==
  /\ "crash" \in Enabled
  /\ \E r \in Relays, n \in 1 .. RetryMax, ph \in {"idle", "waiting"} :
       relay' = [q \in Relays |-> IF q = r THEN [phase |-> ph, no |-> n]
                                           ELSE [phase |-> "idle", no |-> 0]]
  /\ step' = [r \in Relays |-> [t \in Targets |-> "off"]]
  /\ monitor' = Quiet
  /\ resend' = FALSE
  /\ ctx' = "live"
  /\ UNCHANGED <<db, site>>

Elsewhere(t) ==
  /\ "elsewhere" \in Enabled
  /\ t \notin site
  /\ site' = site \cup {t}
  /\ UNCHANGED <<db, relay, step, monitor, resend, ctx>>

-----------------------------------------------------------------------------
PublishToOneTarget(r, t) ==
  \/ Acquire(r, t) \/ Look(r, t) \/ Claim(r, t) \/ Upload(r, t)
  \/ MarkPublished(r, t) \/ MarkFailed(r, t) \/ Demote(r, t) \/ Join(r, t)
  \/ MarkCrossSeeding(r, t)

RelayNext(r) ==
  BeginRelay(r) \/ EndRelay(r) \/ \E t \in Targets : PublishToOneTarget(r, t)

MonitorNext ==
  \/ AttachReplica \/ RetireBegin \/ DropReplicas \/ RetireSeed \/ AbortBegin
  \/ \E t \in Targets : MonitorRecord(t)
  \/ \E r \in Relays : AbortEnqueue(r)

EnvironmentNext ==
  \/ ResendBegin \/ Cancel \/ Restart \/ Crash
  \/ \E r \in Relays : ResendEnqueue(r)
  \/ \E t \in Targets : Elsewhere(t)

Next == (\E r \in Relays : RelayNext(r)) \/ MonitorNext \/ EnvironmentNext

Spec == Init /\ [][Next]_vars

(* The goroutines of an attempt are scheduled, and their requests, unlike    *)
(* their notifications (NotifyRouter), time out.                             *)
FairSpec ==
  /\ Spec
  /\ \A r \in Relays : WF_vars(EndRelay(r))
  /\ \A r \in Relays, t \in Targets : WF_vars(PublishToOneTarget(r, t))

-----------------------------------------------------------------------------
(* Properties.                                                               *)

(* Every variable keeps its type.                                            *)
TypeOK ==
  /\ record \in [Targets -> {"absent", "pending", "failed"} \cup Done]
  /\ role \in [Targets -> {"publisher", "seeder"}]
  /\ seedStatus \in {"open", "seeding", "failed", "retired"}
  /\ replica \in BOOLEAN
  /\ site \subseteq Targets
  /\ relay \in [Relays -> [phase : {"idle", "waiting", "targets"}, no : Nat]]
  /\ step \in [Relays -> [Targets -> {"off", "wait"} \cup Held \cup Terminal]]
  /\ monitor \in [kind : {"idle", "retire", "close", "abort"}, todo : SUBSET Targets]
  /\ resend \in BOOLEAN
  /\ ctx \in {"live", "cancelled"}

(* Ops.stats: the targets counted as cross-seeded, by both columns.          *)
CrossSeeded == {t \in Targets : role[t] = "seeder" /\ record[t] = "cross_seeding"}

Uploading(t) == {r \in Relays : step[r][t] = "upload"}

(* A record says published only when its site took the torrent: a lost       *)
(* answer, a refusal or a slow abort never produces one, however many        *)
(* attempts overlap.                                                         *)
PublishedOnSite == \A t \in Targets : record[t] = "published" => t \in site

(* Publishing, seen as one PublishOnce per target, over the whole retry      *)
(* chain of one attempt at a time: through lost answers, failures, retries,  *)
(* crashes, stops, retirement.                                               *)
Once == INSTANCE PublishOnce WITH
          onSite <- site,
          phase <- [t \in Targets |->
                      IF Uploading(t) # {} THEN "uploading"
                      ELSE IF record[t] \in Done THEN "settled" ELSE "open"]
OncePerTarget == Once!Spec

(* A seed is shown as seeding only when some target is published or          *)
(* cross-seeded (BIZ-SPEC: at least one target), or was before it retired.   *)
SeedingHasTarget ==
  seedStatus = "seeding" /\ ~ resend => \E t \in Targets : record[t] \in Done

(* The dashboard counts the cross-seeded targets by both columns: none of    *)
(* them goes uncounted.  Of the published ones this is not so: a target that *)
(* one attempt demoted keeps the role when the next is accepted (README,     *)
(* Divergences).                                                             *)
RolesMatch == ListRecordsBySeed({"cross_seeding"}) \subseteq CrossSeeded

(* The statuses of the seed and the roles agree with its records.            *)
StatusesAgree == SeedingHasTarget /\ RolesMatch

(* A Relay always returns, with some outcome for each target: neither the     *)
(* semaphore nor a cancelled context leaves a target waiting for ever.       *)
RelayReturns ==
  \A r \in Relays : relay[r].phase = "targets" ~> relay[r].phase # "targets"

(* Three promises of the comments that this code does not keep and no run     *)
(* checks (README, Divergences).                                             *)

(* The atomic claim keeps two attempts from uploading to one target.         *)
OneUploadPerTarget == \A t \in Targets : Cardinality(Uploading(t)) <= 1

(* A partial success is preserved: a seed that has a finished target does    *)
(* not end up failed.                                                        *)
PartialKeptSeeding ==
  seedStatus = "failed" => \A t \in Targets : record[t] \notin Published

(* A slow abort fails the records in flight, and only those.                 *)
AbortSparesFinished ==
  [][\A t \in Targets : monitor.kind = "abort" /\ record[t] \in Done =>
       ~ (record'[t] = "failed" /\ monitor' # monitor)]_vars
=============================================================================
