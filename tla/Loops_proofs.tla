---------------------------- MODULE Loops_proofs ----------------------------
(* What the engine's loops promise, as the run explores them: the poller's   *)
(* pauses, the monitor's alerts and its judgement of slow downloads, for any *)
(* number of sources, instances, limits, delays and restarts.                *)
EXTENDS MCLoops, Ranks_proofs

-----------------------------------------------------------------------------
(* The alerts.  AlertsCurrent is inductive as it stands.                     *)

(* An announced level is the recorded one: monitorDisk writes both or finds  *)
(* that they agree already.                                                  *)
LEMMA DisksTold ==
  ASSUME AlertsCurrent, NEW answering, Alerts!MonitorDisk(answering)
  PROVE  \A i \in QBs : disk'[i] \in {"low", "critical"} => told'[i] = disk'[i]
<1> SUFFICES ASSUME NEW i \in QBs, disk'[i] \in {"low", "critical"}
             PROVE  told'[i] = disk'[i]
  OBVIOUS
<1>1. CASE i \in answering
  <2>1. disk'[i] = free[i]
    BY <1>1 DEF Alerts!MonitorDisk
  <2>2. told'[i] = IF Alerts!Announces(free[i], disk[i]) \/ free[i] = "ok"
                   THEN free[i] ELSE told[i]
    BY <1>1 DEF Alerts!MonitorDisk
  <2>3. ~ Alerts!Announces(free[i], disk[i]) => told[i] = free[i]
    BY <2>1 DEF Alerts!Announces, AlertsCurrent, Alerts!AlertsCurrent
  <2> QED BY <2>1, <2>2, <2>3
<1>2. CASE i \notin answering
  BY <1>2 DEF Alerts!MonitorDisk, AlertsCurrent, Alerts!AlertsCurrent
<1> QED BY <1>1, <1>2

(* The outage that observeHealth records is announced when it is new.        *)
LEMMA OutageTold ==
  ASSUME AlertsCurrent, Alerts!ObserveHealth(Alerts!AllHealthy)
  PROVE  allOffline' => outageTold'
<1>1. CASE allOffline
  BY <1>1 DEF AlertsCurrent, Alerts!AlertsCurrent, Alerts!ObserveHealth
<1>2. CASE ~ allOffline
  BY <1>2 DEF Alerts!ObserveHealth
<1> QED BY <1>1, <1>2

LEMMA AlertsInit == Alerts!Init => AlertsCurrent
  BY DEF Alerts!Init, AlertsCurrent, Alerts!AlertsCurrent

LEMMA AlertsNext == AlertsCurrent /\ [Alerts!Next]_(Alerts!vars) => AlertsCurrent'
<1> SUFFICES ASSUME AlertsCurrent, [Alerts!Next]_(Alerts!vars) PROVE AlertsCurrent'
  OBVIOUS
<1> USE DEF AlertsCurrent, Alerts!AlertsCurrent
<1>1. CASE Alerts!Pass
  <2>1. allOffline' => outageTold'
    BY <1>1, OutageTold DEF Alerts!Pass
  <2>2. PICK answering \in SUBSET online : Alerts!MonitorDisk(answering)
    BY <1>1 DEF Alerts!Pass
  <2> QED BY <2>1, <2>2, DisksTold
<1>2. CASE Alerts!Outside
  BY <1>2 DEF Alerts!Outside
<1>3. CASE Alerts!Restart
  BY <1>3 DEF Alerts!Restart
<1>4. CASE UNCHANGED Alerts!vars
  BY <1>4 DEF Alerts!vars
<1> QED BY <1>1, <1>2, <1>3, <1>4 DEF Alerts!Next

(* A disk recorded as low or critical was last announced at that level, and  *)
(* a recorded outage of every qB was announced (monitorDisk, observeHealth). *)
THEOREM AlertsStayCurrent == PartsSpec => []AlertsCurrent
<1>1. PartsInit => Alerts!Init
  BY DEF PartsInit
<1>2. [PartsNext]_allVars => [Alerts!Next]_(Alerts!vars)
  BY DEF PartsNext, allVars, judgeVars, alertVars, Alerts!vars
<1> QED BY <1>1, <1>2, AlertsInit, AlertsNext, PTL DEF PartsSpec

-----------------------------------------------------------------------------
(* Slow downloads.                                                           *)

(* A count that runs is no longer than what has passed since the torrent was *)
(* seen not to be slow.                                                      *)
Judged ==
  /\ tracker \in Slow!Entries /\ calm \in 0 .. Slow!Cap
  /\ tracker.on = "slow" => tracker.below <= calm
  /\ aborted => calm >= Duration

LEMMA SlowInit == Slow!Init => Judged
<1>1. Slow!Cap \in Nat
  BY SlowParameters DEF Slow!SlowAssumption, Slow!Cap
<1> QED BY <1>1 DEF Slow!Init, Slow!NoEntry, Slow!Entries, Judged

LEMMA SlowPass == ASSUME Judged, Slow!Pass PROVE Judged'
<1> DEFINE e == Slow!Aged(tracker)
           sampled == watching /\ answers /\ torrent \in {"slow", "fast"}
<1>1. Slow!Cap \in Nat /\ Duration \in Nat
  BY SlowParameters DEF Slow!SlowAssumption, Slow!Cap
<1>2. e \in Slow!Entries /\ (e.on = "slow" => e.below <= Slow!Later(calm))
  <2>1. tracker \in Slow!Entries /\ calm \in Nat /\ tracker.below \in 0 .. Slow!Cap
        /\ tracker.idle \in 0 .. Slow!Cap
    BY <1>1 DEF Judged, Slow!Entries
  <2>2. /\ Slow!Later(tracker.below) \in 0 .. Slow!Cap
        /\ Slow!Later(tracker.idle) \in 0 .. Slow!Cap
        /\ tracker.below <= calm => Slow!Later(tracker.below) <= Slow!Later(calm)
    BY <1>1, <2>1 DEF Slow!Later
  <2>3. e = [on |-> tracker.on,
             below |-> IF tracker.on = "slow" THEN Slow!Later(tracker.below) ELSE 0,
             idle |-> IF tracker.on = "absent" THEN 0 ELSE Slow!Later(tracker.idle)]
    <3>1. /\ tracker = [on |-> tracker.on, below |-> tracker.below, idle |-> tracker.idle]
          /\ DOMAIN tracker = {"on", "below", "idle"}
      BY <2>1 DEF Slow!Entries
    <3>2. e = [tracker EXCEPT
                 !.below = IF tracker.on = "slow" THEN Slow!Later(tracker.below) ELSE 0,
                 !.idle = IF tracker.on = "absent" THEN 0 ELSE Slow!Later(tracker.idle)]
      BY DEF Slow!Aged
    <3> HIDE DEF e
    <3> QED BY <3>1, <3>2
  <2>4. e \in Slow!Entries
    BY <1>1, <2>1, <2>2, <2>3 DEF Slow!Entries
  <2> QED BY <2>2, <2>3, <2>4 DEF Judged
<1>3. Slow!Later(calm) \in 0 .. Slow!Cap
  BY <1>1 DEF Judged, Slow!Later
<1>4. Slow!Sample(e) \in Slow!Entries
  BY <1>1, <1>2 DEF Slow!Sample, Slow!Reset, Slow!NewCount, Slow!Entries
<1>5. torrent = "fast" => Slow!Sample(e).on # "slow"
  BY <1>1, <1>2 DEF Slow!Sample, Slow!Reset, Slow!NewCount, Slow!Entries
<1>6. torrent # "fast" /\ Slow!Sample(e).on = "slow" => Slow!Sample(e).below <= Slow!Later(calm)
  BY <1>1, <1>2, <1>3 DEF Slow!Sample, Slow!Counting, Slow!NewCount, Slow!Entries
<1>7. Slow!IsSlow(e) => e.on = "slow" /\ e.below >= Duration /\ torrent = "slow"
  BY DEF Slow!IsSlow, Slow!Counting
<1>8. /\ tracker' = IF sampled THEN Slow!Sample(e) ELSE e
      /\ aborted' => sampled /\ Slow!IsSlow(e)
      /\ calm' = IF sampled /\ torrent = "fast" THEN 0 ELSE Slow!Later(calm)
  BY DEF Slow!Pass
<1> HIDE DEF e, sampled
<1>9. tracker' \in Slow!Entries /\ calm' \in 0 .. Slow!Cap
  BY <1>1, <1>2, <1>3, <1>4, <1>8
<1>10. tracker'.on = "slow" => tracker'.below <= calm'
  BY <1>2, <1>5, <1>6, <1>8
<1>11. ASSUME aborted' PROVE calm' >= Duration
  <2>1. calm' = Slow!Later(calm) /\ e.below <= Slow!Later(calm) /\ e.below >= Duration
    BY <1>2, <1>7, <1>8, <1>11
  <2>2. e.below \in Nat /\ Slow!Later(calm) \in Nat
    BY <1>1, <1>2, <1>3 DEF Slow!Entries
  <2> QED BY <1>1, <2>1, <2>2
<1> QED BY <1>9, <1>10, <1>11 DEF Judged

LEMMA SlowNext == Judged /\ [Slow!Next]_(Slow!vars) => Judged'
<1> SUFFICES ASSUME Judged, [Slow!Next]_(Slow!vars) PROVE Judged'
  OBVIOUS
<1>1. CASE Slow!Torrent \/ Slow!Settings
  BY <1>1 DEF Slow!Torrent, Slow!Settings, Judged
<1>2. CASE Slow!Restart
  <2>1. Slow!Cap \in Nat
    BY SlowParameters DEF Slow!SlowAssumption, Slow!Cap
  <2> QED BY <1>2, <2>1 DEF Slow!Restart, Slow!NoEntry, Slow!Entries, Judged
<1>3. CASE UNCHANGED Slow!vars
  BY <1>3 DEF Slow!vars, Judged
<1> QED BY <1>1, <1>2, <1>3, SlowPass DEF Slow!Next

(* No download is aborted within the configured duration of a pass that saw  *)
(* it fast, whatever was missed in between (IsSlow, resetSlowTimer).         *)
THEOREM AbortAfterCalm == PartsSpec => []SlowJudged
<1>1. PartsInit => Slow!Init
  BY DEF PartsInit
<1>2. [PartsNext]_allVars => [Slow!Next]_(Slow!vars)
  BY DEF PartsNext, allVars, judgeVars, slowVars, Slow!vars
<1>3. Judged => SlowJudged
  BY DEF Judged, SlowJudged, Slow!SlowJudged
<1> QED BY <1>1, <1>2, <1>3, SlowInit, SlowNext, PTL DEF PartsSpec

-----------------------------------------------------------------------------
(* The sources.                                                              *)

(* The delays of a schedule have a largest one.                              *)
LEMMA LargestDelay ==
  /\ Health!MaxDelay \in Health!Delays
  /\ \A d \in Health!Delays : d <= Health!MaxDelay
<1>1. Backoff \in Seq(Nat) /\ Len(Backoff) \in Nat \ {0}
  BY HealthParameters DEF Health!HealthAssumption
<1>2. \A k \in 1 .. Len(Backoff) : Backoff[k] \in Nat
  BY <1>1
<1>3. HasLargest(Backoff, Len(Backoff))
  BY <1>1, <1>2, Largest
<1>4. \E d \in Health!Delays : \A e \in Health!Delays : e <= d
  BY <1>3 DEF HasLargest, Health!Delays
<1> QED BY <1>4 DEF Health!MaxDelay

LEMMA DelayIsNat ==
  /\ Health!MaxDelay \in Nat
  /\ \A n \in Nat : Health!BackoffFor(n) \in 0 .. Health!MaxDelay
<1>1. Backoff \in Seq(Nat) /\ Len(Backoff) \in Nat /\ Len(Backoff) > 0
  BY HealthParameters DEF Health!HealthAssumption
<1>2. \A d \in Health!Delays : d \in Nat
  BY <1>1 DEF Health!Delays
<1>3. \A n \in Nat : Health!BackoffFor(n) \in Health!Delays
  BY <1>1 DEF Health!BackoffFor, Health!Delays
<1> QED BY <1>2, <1>3, LargestDelay

Handling == {"inc", "pause", "alert", "backoff"}
AtHand == Handling \cup {"fetch"}
Handled(s) == poller.source = s /\ poller.at \in Handling

(* Where the poller stands with the source at hand: a source is fetched when *)
(* it need not wait, and its failures reach the limit only on the way to the *)
(* pause that starts their count anew.                                       *)
Polled ==
  /\ poller.at \in AtHand => poller.source \in Sources
  /\ poller.at = "fetch" => state[poller.source].wait = 0
  /\ poller.at \in {"inc", "backoff"} => state[poller.source].fails > 0
  /\ poller.at \in {"pause", "alert"} => state[poller.source].fails = Limit
  /\ \A s \in Sources : state[s].fails = Limit =>
       poller.source = s /\ poller.at \in {"inc", "pause", "alert"}

(* What is counted has happened, a restart forgets but never adds; and what  *)
(* is left of a delay makes up for what has not passed of it.                *)
Counted == \A s \in Sources : state[s].fails <= streak[s]
Waited ==
  \A s \in Sources : state[s].fails > 0 /\ ~ Handled(s) =>
    rested[s] + state[s].wait >= Health!BackoffFor(state[s].fails - 1)

Healthy == Health!TypeOK /\ Polled /\ Counted /\ Waited

LEMMA HealthInit == Health!Init => Healthy
<1> SUFFICES ASSUME Health!Init PROVE Healthy
  OBVIOUS
<1>1. /\ Limit \in Nat \ {0} /\ MaxShown \in Nat /\ Budget \in Nat
      /\ Health!MaxDelay \in Nat /\ NoSource \notin Sources
  BY HealthParameters, DelayIsNat DEF Health!HealthAssumption
<1>2. Health!TypeOK
  BY <1>1 DEF Health!Init, Health!TypeOK, Health!Rows, Health!Fresh, Health!NoEdit,
     Health!Places
<1> QED
  BY <1>1, <1>2 DEF Health!Init, Healthy, Polled, Counted, Waited, Health!Fresh, AtHand,
     Handling

(* Steps of the operator, the feeds and the process that leave the poller's  *)
(* counts alone.                                                             *)
LEMMA HealthUntouched ==
  ASSUME Healthy, UNCHANGED <<state, poller, streak, rested>>
  PROVE  (Polled /\ Counted /\ Waited)'
  BY DEF Healthy, Polled, Counted, Waited, Handled

LEMMA HealthConstants ==
  /\ Limit \in Nat \ {0} /\ MaxShown \in Nat /\ Budget \in Nat
  /\ Health!MaxDelay \in Nat /\ NoSource \notin Sources
  /\ \A n \in Nat : Health!BackoffFor(n) \in 0 .. Health!MaxDelay
  BY HealthParameters, DelayIsNat DEF Health!HealthAssumption

LEMMA HealthOutside ==
  ASSUME Healthy,
         \/ Health!Cancel
         \/ \E s \in Sources : Health!UpdateReads(s) \/ Health!DeleteSource(s) \/ Health!FeedChanges(s)
         \/ \E status \in {"active", "paused"} : Health!UpdateWrites(status)
  PROVE  Healthy'
<1>1. UNCHANGED <<state, poller, streak, rested>>
  BY DEF Health!Cancel, Health!UpdateReads, Health!DeleteSource, Health!FeedChanges,
     Health!UpdateWrites
<1>2. Health!TypeOK
  BY DEF Healthy
<1>3. row' \in [Sources -> Health!Rows]
  <2>1. CASE \E s \in Sources : Health!DeleteSource(s)
    BY <1>2, <2>1 DEF Health!DeleteSource, Health!TypeOK, Health!Rows
  <2>2. ASSUME NEW status \in {"active", "paused"}, Health!UpdateWrites(status)
        PROVE  row' \in [Sources -> Health!Rows]
    <3>1. [status |-> status, fails |-> edit.fails] \in Health!Rows
      BY <1>2 DEF Health!TypeOK, Health!Rows
    <3> QED BY <1>2, <2>2, <3>1 DEF Health!UpdateWrites, Health!TypeOK
  <2>3. CASE row' = row
    BY <1>2, <2>3 DEF Health!TypeOK
  <2> QED BY <2>1, <2>2, <2>3 DEF Health!Cancel, Health!UpdateReads, Health!FeedChanges
<1>4. edit' \in [source : Sources \cup {NoSource}, fails : 0 .. MaxShown]
  <2>1. ASSUME NEW s \in Sources, Health!UpdateReads(s)
        PROVE  edit' \in [source : Sources \cup {NoSource}, fails : 0 .. MaxShown]
    BY <1>2, <2>1 DEF Health!UpdateReads, Health!TypeOK, Health!Rows
  <2>2. CASE edit' = edit \/ edit' = Health!NoEdit
    BY <1>2, <2>2, HealthConstants DEF Health!NoEdit, Health!TypeOK
  <2> QED BY <2>1, <2>2 DEF Health!Cancel, Health!DeleteSource, Health!FeedChanges,
     Health!UpdateWrites
<1>5. spent' \in 0 .. Budget
  BY <1>2, HealthConstants DEF Health!TypeOK, Health!Cancel, Health!UpdateReads,
     Health!DeleteSource,
     Health!FeedChanges, Health!UpdateWrites, Health!Spend
<1>6. down' \subseteq Sources /\ running' \in BOOLEAN
  BY <1>2 DEF Health!TypeOK, Health!Cancel, Health!UpdateReads, Health!DeleteSource,
     Health!FeedChanges, Health!UpdateWrites
<1>7. Health!TypeOK'
  BY <1>1, <1>2, <1>3, <1>4, <1>5, <1>6 DEF Health!TypeOK
<1> QED BY <1>1, <1>7, HealthUntouched DEF Healthy

(* Steps of the poller between two sources.                                  *)
LEMMA HealthMoves ==
  ASSUME Healthy,
         \/ Health!ListActive \/ Health!EndCycle \/ Health!PollerExits \/ Health!Start
         \/ \E s \in Sources : Health!BeginSource(s)
  PROVE  Healthy'
<1>1. UNCHANGED <<row, state, edit, spent, down, streak, rested>>
  BY DEF Health!ListActive, Health!EndCycle, Health!PollerExits, Health!Start,
     Health!BeginSource
<1>2. Health!TypeOK /\ Polled /\ Counted /\ Waited
  BY DEF Healthy
<1>3. /\ poller.at \in {"idle", "next", "gone"}
      /\ poller' \in [at : Health!Places, source : Sources \cup {NoSource}, list : SUBSET Sources]
      /\ running' \in BOOLEAN
      /\ \/ poller'.at \in {"idle", "next", "gone"}
         \/ poller'.at = "fetch" /\ poller'.source \in Sources /\ state[poller'.source].wait = 0
  <2>1. ASSUME NEW s \in Sources, Health!BeginSource(s)
        PROVE  /\ poller.at = "next"
               /\ poller' \in [at : Health!Places, source : Sources \cup {NoSource}, list : SUBSET Sources]
               /\ running' \in BOOLEAN
               /\ \/ poller'.at = "next"
                  \/ poller'.at = "fetch" /\ poller'.source \in Sources /\ state[poller'.source].wait = 0
    <3>1. state[s].wait \in Nat
      BY <1>2, HealthConstants DEF Health!TypeOK
    <3> QED BY <1>2, <2>1, <3>1 DEF Health!BeginSource, Health!TypeOK, Health!Places
  <2>2. CASE Health!ListActive
    BY <1>2, <2>2 DEF Health!ListActive, Health!GetActiveSources, Health!TypeOK, Health!Places
  <2>3. CASE Health!EndCycle \/ Health!PollerExits \/ Health!Start
    BY <1>2, <2>3 DEF Health!EndCycle, Health!PollerExits, Health!Start, Health!Go,
       Health!TypeOK, Health!Places
  <2> QED BY <2>1, <2>2, <2>3
<1>4. Health!TypeOK'
  BY <1>1, <1>2, <1>3 DEF Health!TypeOK
<1>5. Polled'
  BY <1>1, <1>2, <1>3 DEF Polled, AtHand, Handling
<1>6. Counted' /\ Waited'
  <2>1. \A s \in Sources : ~ Handled(s) /\ ~ Handled(s)'
    BY <1>3 DEF Handled, Handling
  <2> QED BY <1>1, <1>2, <2>1 DEF Counted, Waited
<1> QED BY <1>4, <1>5, <1>6 DEF Healthy

(* Steps of the poller with a source at hand.                                *)
LEMMA HealthSource ==
  ASSUME Healthy, NEW s \in Sources,
         \/ Health!FetchSucceeds(s) \/ Health!FetchFails(s) \/ Health!IncSourceFail(s)
         \/ Health!PauseSource(s) \/ Health!Alert(s) \/ Health!BackOff(s)
  PROVE  Healthy'
<1>2. Health!TypeOK /\ Polled /\ Counted /\ Waited
  BY DEF Healthy
<1>3. /\ poller.source = s /\ poller.at \in AtHand
      /\ UNCHANGED <<running, edit, spent, down>>
  BY DEF Health!FetchSucceeds, Health!FetchFails, Health!IncSourceFail, Health!PauseSource,
     Health!Alert, Health!BackOff, AtHand, Handling
<1>4. /\ state[s] \in [fails : 0 .. Limit, wait : 0 .. Health!MaxDelay]
      /\ streak[s] \in 0 .. Limit /\ rested[s] \in 0 .. Health!MaxDelay
      /\ state \in [Sources -> [fails : 0 .. Limit, wait : 0 .. Health!MaxDelay]]
      /\ streak \in [Sources -> 0 .. Limit] /\ rested \in [Sources -> 0 .. Health!MaxDelay]
  BY <1>2 DEF Health!TypeOK
<1>5. row' \in [Sources -> Health!Rows]
  <2>1. CASE Health!IncSourceFail(s)
    <3>1. Health!UpTo(row[s].fails + 1, MaxShown) \in 0 .. MaxShown
      <4>1. row[s].fails \in 0 .. MaxShown
        BY <1>2 DEF Health!TypeOK, Health!Rows
      <4> QED BY <4>1, HealthConstants DEF Health!UpTo
    <3> QED BY <1>2, <2>1, <3>1 DEF Health!IncSourceFail, Health!TypeOK, Health!Rows
  <2>2. CASE Health!PauseSource(s)
    BY <1>2, <2>2 DEF Health!PauseSource, Health!TypeOK, Health!Rows
  <2>3. CASE row' = row
    BY <1>2, <2>3 DEF Health!TypeOK
  <2> QED BY <2>1, <2>2, <2>3 DEF Health!FetchSucceeds, Health!FetchFails, Health!Alert,
     Health!BackOff
<1>6. poller' \in [at : Health!Places, source : Sources \cup {NoSource}, list : SUBSET Sources]
  BY <1>2, <1>3 DEF Health!FetchSucceeds, Health!FetchFails, Health!IncSourceFail,
     Health!PauseSource,
     Health!Alert, Health!BackOff, Health!TypeOK, Health!Places, Health!NextOf, Health!Go
\* The source at hand is the only one that changes.
<1>7. ASSUME NEW q \in Sources, q # s
      PROVE  state'[q] = state[q] /\ streak'[q] = streak[q] /\ rested'[q] = rested[q]
  BY <1>4, <1>7 DEF Health!FetchSucceeds, Health!FetchFails, Health!IncSourceFail,
     Health!PauseSource,
     Health!Alert, Health!BackOff
<1>8. /\ DOMAIN state' = Sources /\ DOMAIN streak' = Sources /\ DOMAIN rested' = Sources
      /\ state' = [q \in Sources |-> state'[q]] /\ streak' = [q \in Sources |-> streak'[q]]
      /\ rested' = [q \in Sources |-> rested'[q]]
  BY <1>4 DEF Health!FetchSucceeds, Health!FetchFails, Health!IncSourceFail,
     Health!PauseSource,
     Health!Alert, Health!BackOff
\* What becomes of it.
<1> DEFINE Good ==
      /\ state'[s] \in [fails : 0 .. Limit, wait : 0 .. Health!MaxDelay]
      /\ streak'[s] \in 0 .. Limit /\ rested'[s] \in 0 .. Health!MaxDelay
      /\ state'[s].fails <= streak'[s]
      /\ \/ /\ poller'.at = "next" /\ state'[s].fails < Limit
            /\ state'[s].fails > 0 => rested'[s] + state'[s].wait >= Health!BackoffFor(state'[s].fails - 1)
         \/ /\ poller'.source = s /\ poller'.at \in {"inc", "pause", "alert", "backoff"}
            /\ poller'.at \in {"inc", "backoff"} => state'[s].fails > 0
            /\ poller'.at \in {"pause", "alert"} => state'[s].fails = Limit
            /\ poller'.at = "backoff" => state'[s].fails # Limit
<1>9. state[s].fails <= streak[s]
  BY <1>2 DEF Counted
<1>10. ASSUME Health!FetchSucceeds(s) \/ Health!Alert(s) PROVE Good
  <2>1. state'[s] = Health!Fresh /\ streak'[s] = 0 /\ rested' = rested /\ poller'.at = "next"
    BY <1>2, <1>4, <1>10 DEF Health!FetchSucceeds, Health!Alert, Health!NextOf, Health!TypeOK
  <2> QED BY <1>4, <2>1, HealthConstants DEF Health!Fresh
<1>11. ASSUME Health!FetchFails(s) PROVE Good
  <2>1. poller.at = "fetch" /\ state[s].fails # Limit
    BY <1>2, <1>3, <1>11 DEF Health!FetchFails, Polled
  <2>2. state'[s] = [state[s] EXCEPT !.fails = @ + 1]
    BY <1>4, <1>11 DEF Health!FetchFails
  <2>3. streak'[s] = Health!UpTo(streak[s] + 1, Limit) /\ rested'[s] = 0
    BY <1>4, <1>11 DEF Health!FetchFails
  <2>4. poller'.at = "inc" /\ poller'.source = s
    BY <1>2, <1>3, <1>11 DEF Health!FetchFails, Health!Go, Health!TypeOK
  <2>5. state'[s].fails = state[s].fails + 1 /\ state'[s].wait = state[s].wait
        /\ state'[s] \in [fails : 0 .. Limit, wait : 0 .. Health!MaxDelay]
    BY <1>4, <2>1, <2>2, HealthConstants
  <2>6. streak'[s] \in 0 .. Limit /\ state'[s].fails <= streak'[s]
    BY <1>4, <1>9, <2>1, <2>3, <2>5, HealthConstants DEF Health!UpTo
  <2> QED BY <1>4, <2>3, <2>4, <2>5, <2>6, HealthConstants
<1>12. ASSUME Health!IncSourceFail(s) PROVE Good
  <2>1. state' = state /\ streak' = streak /\ rested' = rested /\ poller.at = "inc"
    BY <1>12 DEF Health!IncSourceFail
  <2>2. poller'.source = s /\ poller'.at = IF state[s].fails >= Limit THEN "pause" ELSE "backoff"
    BY <1>2, <1>3, <1>12 DEF Health!IncSourceFail, Health!Go, Health!TypeOK
  <2>3. state[s].fails > 0
    BY <1>2, <1>3, <2>1 DEF Polled
  <2> QED BY <1>4, <1>9, <2>1, <2>2, <2>3, HealthConstants
<1>13. ASSUME Health!PauseSource(s) PROVE Good
  <2>1. state' = state /\ streak' = streak /\ rested' = rested /\ poller.at = "pause"
    BY <1>13 DEF Health!PauseSource
  <2>2. poller'.source = s /\ poller'.at = "alert"
    BY <1>2, <1>3, <1>13 DEF Health!PauseSource, Health!Go, Health!TypeOK
  <2>3. state[s].fails = Limit
    BY <1>2, <1>3, <2>1 DEF Polled
  <2> QED BY <1>4, <1>9, <2>1, <2>2, <2>3
<1>14. ASSUME Health!BackOff(s) PROVE Good
  <2>1. poller.at = "backoff" /\ streak' = streak /\ rested' = rested /\ poller'.at = "next"
    BY <1>2, <1>14 DEF Health!BackOff, Health!NextOf, Health!TypeOK
  <2>2. state'[s] = [state[s] EXCEPT !.wait = Health!BackoffFor(state[s].fails - 1)]
    BY <1>4, <1>14 DEF Health!BackOff
  <2>3. state[s].fails > 0 /\ state[s].fails # Limit
    BY <1>2, <1>3, <2>1 DEF Polled
  <2>4. state[s].fails - 1 \in Nat
    BY <1>4, <2>3, HealthConstants
  <2>5. Health!BackoffFor(state[s].fails - 1) \in 0 .. Health!MaxDelay
    BY <2>4, HealthConstants
  <2>6. state'[s].fails = state[s].fails /\ state'[s].wait = Health!BackoffFor(state[s].fails - 1)
        /\ state'[s] \in [fails : 0 .. Limit, wait : 0 .. Health!MaxDelay]
    BY <1>4, <2>2, <2>5
  <2> QED BY <1>4, <1>9, <2>1, <2>3, <2>5, <2>6, HealthConstants
<1>15. Good
  BY <1>10, <1>11, <1>12, <1>13, <1>14
<1>16. Health!TypeOK'
  <2>1. \A q \in Sources : /\ state'[q] \in [fails : 0 .. Limit, wait : 0 .. Health!MaxDelay]
                           /\ streak'[q] \in 0 .. Limit /\ rested'[q] \in 0 .. Health!MaxDelay
    BY <1>4, <1>7, <1>15
  <2>2. state' \in [Sources -> [fails : 0 .. Limit, wait : 0 .. Health!MaxDelay]]
    BY <1>8, <2>1
  <2>3. streak' \in [Sources -> 0 .. Limit] /\ rested' \in [Sources -> 0 .. Health!MaxDelay]
    BY <1>8, <2>1
  <2> QED BY <1>2, <1>3, <1>5, <1>6, <2>2, <2>3 DEF Health!TypeOK
<1>17. Polled'
  <2>1. \A q \in Sources : q # s => state[q].fails # Limit
    BY <1>2, <1>3 DEF Polled
  <2>2. \A q \in Sources : state'[q].fails = Limit =>
           poller'.source = q /\ poller'.at \in {"inc", "pause", "alert"}
    BY <1>4, <1>7, <1>15, <2>1
  <2> QED BY <1>15, <2>2 DEF Polled, AtHand, Handling
<1>18. Counted'
  BY <1>2, <1>7, <1>15 DEF Counted
<1>19. Waited'
  <2> SUFFICES ASSUME NEW q \in Sources, state'[q].fails > 0, ~ Handled(q)'
               PROVE  rested'[q] + state'[q].wait >= Health!BackoffFor(state'[q].fails - 1)
    BY DEF Waited
  <2>1. CASE q = s
    BY <1>15, <2>1 DEF Handled, Handling
  <2>2. CASE q # s
    BY <1>2, <1>3, <1>7, <2>2 DEF Waited, Handled
  <2> QED BY <2>1, <2>2
<1> QED BY <1>16, <1>17, <1>18, <1>19 DEF Healthy

LEMMA HealthCrash == ASSUME Healthy, Health!Crash PROVE Healthy'
<1>1. /\ state' = [s \in Sources |-> Health!Fresh] /\ streak' = streak
      /\ rested' = [s \in Sources |-> Health!MaxDelay]
      /\ poller' = [at |-> "idle", source |-> NoSource, list |-> {}]
      /\ running' = TRUE /\ edit' = Health!NoEdit /\ row' = row /\ down' = down
      /\ spent' \in 0 .. Budget
  BY HealthConstants DEF Health!Crash, Health!Spend, Healthy, Health!TypeOK
<1>2. Health!TypeOK'
  BY <1>1, HealthConstants DEF Healthy, Health!TypeOK, Health!Fresh, Health!NoEdit,
     Health!Places
<1>3. Counted'
  <2>1. \A s \in Sources : streak[s] \in 0 .. Limit
    BY DEF Healthy, Health!TypeOK
  <2> QED BY <1>1, <2>1, HealthConstants DEF Counted, Health!Fresh
<1>4. Polled' /\ Waited'
  BY <1>1, HealthConstants DEF Polled, Waited, AtHand, Handling, Health!Fresh
<1> QED BY <1>2, <1>3, <1>4 DEF Healthy

LEMMA HealthTick == ASSUME Healthy, Health!Tick PROVE Healthy'
<1> DEFINE Left(s) == IF state[s].wait = 0 THEN 0 ELSE state[s].wait - 1
<1>1. Health!TypeOK /\ Polled /\ Counted /\ Waited
  BY DEF Healthy
<1>2. UNCHANGED <<row, poller, running, edit, spent, down, streak>>
  BY DEF Health!Tick
<1>3. \A s \in Sources : /\ state[s] \in [fails : 0 .. Limit, wait : 0 .. Health!MaxDelay]
                         /\ rested[s] \in 0 .. Health!MaxDelay
  BY <1>1 DEF Health!TypeOK
<1>4. /\ state' = [s \in Sources |-> [state[s] EXCEPT !.wait = Left(s)]]
      /\ rested' = [s \in Sources |-> Health!UpTo(rested[s] + 1, Health!MaxDelay)]
  BY DEF Health!Tick
<1>5. ASSUME NEW s \in Sources
      PROVE  /\ state'[s].fails = state[s].fails /\ state'[s].wait = Left(s)
             /\ state'[s] \in [fails : 0 .. Limit, wait : 0 .. Health!MaxDelay]
             /\ rested'[s] = Health!UpTo(rested[s] + 1, Health!MaxDelay)
             /\ rested'[s] \in 0 .. Health!MaxDelay
  <2>1. Left(s) \in 0 .. Health!MaxDelay
    BY <1>3, HealthConstants
  <2>2. state'[s] = [state[s] EXCEPT !.wait = Left(s)]
    BY <1>4
  <2>3. rested'[s] = Health!UpTo(rested[s] + 1, Health!MaxDelay)
    BY <1>4
  <2>4. rested'[s] \in 0 .. Health!MaxDelay
    BY <1>3, <2>3, HealthConstants DEF Health!UpTo
  <2> HIDE DEF Left
  <2> QED BY <1>3, <2>1, <2>2, <2>3, <2>4
<1>6. Health!TypeOK'
  <2>1. /\ state' \in [Sources -> [fails : 0 .. Limit, wait : 0 .. Health!MaxDelay]]
        /\ rested' \in [Sources -> 0 .. Health!MaxDelay]
    BY <1>4, <1>5
  <2> QED BY <1>1, <1>2, <2>1 DEF Health!TypeOK
<1>7. Polled'
  <2>1. \A s \in Sources : state[s].wait = 0 => state'[s].wait = 0
    BY <1>5
  <2> QED BY <1>1, <1>2, <1>5, <2>1 DEF Polled, AtHand, Handling
<1>8. Counted'
  BY <1>1, <1>2, <1>5 DEF Counted
<1>9. Waited'
  <2> SUFFICES ASSUME NEW s \in Sources, state'[s].fails > 0, ~ Handled(s)'
               PROVE  rested'[s] + state'[s].wait >= Health!BackoffFor(state'[s].fails - 1)
    BY DEF Waited
  <2>1. rested[s] + state[s].wait >= Health!BackoffFor(state[s].fails - 1)
    BY <1>1, <1>2, <1>5 DEF Waited, Handled
  <2>2. Health!BackoffFor(state[s].fails - 1) \in 0 .. Health!MaxDelay
    <3>1. state[s].fails - 1 \in Nat
      BY <1>3, <1>5
    <3> QED BY <3>1, HealthConstants
  <2>3. rested'[s] + Left(s) >= Health!BackoffFor(state[s].fails - 1)
    <3>1. rested[s] \in 0 .. Health!MaxDelay /\ state[s].wait \in 0 .. Health!MaxDelay
      BY <1>3
    <3> QED BY <1>5, <2>1, <2>2, <3>1, HealthConstants DEF Health!UpTo
  <2> QED BY <1>5, <2>3
<1> QED BY <1>6, <1>7, <1>8, <1>9 DEF Healthy

LEMMA HealthNext == Healthy /\ [Health!Next]_(Health!vars) => Healthy'
<1> SUFFICES ASSUME Healthy, [Health!Next]_(Health!vars) PROVE Healthy'
  OBVIOUS
<1>1. CASE UNCHANGED Health!vars
  BY <1>1, HealthUntouched DEF Health!vars, Healthy, Health!TypeOK
<1>2. CASE Health!PollStep
  BY <1>2, HealthMoves, HealthSource DEF Health!PollStep
<1> QED
  BY <1>1, <1>2, HealthMoves, HealthOutside, HealthCrash, HealthTick DEF Health!Next

LEMMA PollerCorrect == PartsSpec => []Healthy
<1>1. PartsInit => Health!Init
  BY DEF PartsInit
<1>2. [PartsNext]_allVars => [Health!Next]_(Health!vars)
  BY DEF PartsNext, allVars, healthVars, Health!vars
<1> QED BY <1>1, <1>2, HealthInit, HealthNext, PTL DEF PartsSpec

(* A source is paused automatically only for Limit failed fetches in a row   *)
(* that nobody counted before, and is left alone for the whole delay of its  *)
(* last failure, through stops, restarts, edits and deletions                *)
(* (poller.go: sourceFailed, nextAllowed).                                   *)
THEOREM PausesEarned == PartsSpec => []SourcesKept
<1>1. Healthy => SourcesKept
  <2> SUFFICES ASSUME Healthy PROVE Health!PauseEarned /\ Health!BackoffHonoured
    BY DEF SourcesKept
  <2>1. \A s \in Sources : /\ state[s] \in [fails : 0 .. Limit, wait : 0 .. Health!MaxDelay]
                           /\ streak[s] \in 0 .. Limit /\ rested[s] \in 0 .. Health!MaxDelay
    BY DEF Healthy, Health!TypeOK
  <2>2. Health!PauseEarned
    <3> SUFFICES ASSUME NEW s \in Sources, poller.at = "pause", poller.source = s
                 PROVE  streak[s] = Limit
      BY DEF Health!PauseEarned
    <3>1. state[s].fails = Limit /\ state[s].fails <= streak[s]
      BY DEF Healthy, Polled, Counted
    <3> QED BY <2>1, <3>1, HealthConstants
  <2>3. Health!BackoffHonoured
    <3> SUFFICES ASSUME NEW s \in Sources, poller.at = "fetch", poller.source = s, state[s].fails > 0
                 PROVE  rested[s] >= Health!BackoffFor(state[s].fails - 1)
      BY DEF Health!BackoffHonoured
    <3>1. state[s].wait = 0 /\ ~ Handled(s)
      BY DEF Healthy, Polled, Handled, AtHand, Handling
    <3>2. rested[s] + state[s].wait >= Health!BackoffFor(state[s].fails - 1)
      BY <3>1 DEF Healthy, Waited
    <3> QED BY <2>1, <3>1, <3>2
  <2> QED BY <2>2, <2>3
<1> QED BY <1>1, PollerCorrect, PTL

-----------------------------------------------------------------------------
(* The choice of a qB.                                                       *)

LEMMA ChooserConstants ==
  IsFiniteSet(Trio) /\ Cardinality(Trio) \in Nat /\ MaxTurns \in Nat
  /\ \A a \in Amounts : a \in Nat /\ a < 1000
<1>1. \A S : Chooser!Cardinality(S) = Cardinality(S)
  BY Zenon DEF Chooser!Cardinality, Cardinality
<1>2. \A S : Chooser!IsFiniteSet(S) = IsFiniteSet(S)
  BY Zenon DEF Chooser!IsFiniteSet, IsFiniteSet
<1> QED BY <1>1, <1>2, ChooserParameters, FS_CardinalityType DEF Chooser!DispatchAssumption
LEMMA ChooserKeeps == ASSUME NEW s, NEW K PROVE Chooser!EntriesAt(s, K) = EntriesAt(s, K)
  BY Zenon DEF Chooser!EntriesAt, EntriesAt, Chooser!Nth, Nth, Chooser!Cardinality, Cardinality

LEMMA ListsAre ==
  ASSUME NEW s \in Chooser!Lists
  PROVE  s \in Seq(Trio) /\ \A j, k \in DOMAIN s : s[j] = s[k] => j = k
<1>1. \A S : Chooser!Cardinality(S) = Cardinality(S)
  BY Zenon DEF Chooser!Cardinality, Cardinality
<1>2. PICK n \in 0 .. Cardinality(Trio) : s \in [1 .. n -> Trio]
  BY <1>1 DEF Chooser!Lists
<1>3. n \in Nat
  BY <1>2, ChooserConstants
<1>4. s \in Seq(Trio)
  BY <1>2, <1>3
<1>5. \A j, k \in DOMAIN s : s[j] = s[k] => j = k
  BY DEF Chooser!Lists, Chooser!IsInjective
<1> QED BY <1>4, <1>5

(* The usable names are rows the manager knows, each once.                   *)
LEMMA UsableNames ==
  ASSUME Chooser!TypeOK
  PROVE  /\ Chooser!Usable \in Seq(Trio)
         /\ \A j, k \in 1 .. Len(Chooser!Usable) :
              j < k => Chooser!Usable[j] # Chooser!Usable[k]
<1> DEFINE K == {k \in DOMAIN rows : rows[k] \in registry}
<1>1. Chooser!Usable = EntriesAt(rows, K)
  BY ChooserKeeps DEF Chooser!Usable
<1>2. rows \in Seq(Trio) /\ \A j, k \in DOMAIN rows : rows[j] = rows[k] => j = k
  BY ListsAre DEF Chooser!TypeOK
<1>3. K \subseteq DOMAIN rows /\ DOMAIN rows = 1 .. Len(rows) /\ Len(rows) \in Nat
  BY <1>2
<1> HIDE DEF K
<1>4. /\ EntriesAt(rows, K) \in Seq(Trio) /\ Len(EntriesAt(rows, K)) = Cardinality(K)
      /\ \A n \in 1 .. Cardinality(K) :
           Nth(K, n) \in K /\ EntriesAt(rows, K)[n] = rows[Nth(K, n)]
  BY <1>2, <1>3, EntriesKept
<1>5. \A j, k \in 1 .. Cardinality(K) : j < k => Nth(K, j) # Nth(K, k)
  BY <1>2, <1>3, EntriesKept
<1>6. ASSUME NEW j \in 1 .. Cardinality(K), NEW k \in 1 .. Cardinality(K), j < k
      PROVE  rows[Nth(K, j)] # rows[Nth(K, k)]
  <2>1. Nth(K, j) \in K /\ Nth(K, k) \in K /\ Nth(K, j) # Nth(K, k)
    BY <1>4, <1>5, <1>6
  <2> QED BY <1>2, <1>3, <2>1
<1> QED BY <1>1, <1>4, <1>6

(* Among values that are not less than -1000 there is a first largest one.   *)
FirstLargestAt(h, n, k) ==
  \A j \in 1 .. n : IF j < k THEN h[j] < h[k] ELSE h[j] <= h[k]

LEMMA HasFirstLargest ==
  ASSUME NEW n \in Nat \ {0}, NEW h, \A k \in 1 .. n : h[k] \in Int /\ h[k] >= -1000
  PROVE  \E k \in 1 .. n : FirstLargestAt(h, n, k)
<1> DEFINE f == [k \in 1 .. n |-> h[k] + 1000]
           T == {k \in 1 .. n : \A j \in 1 .. n : f[j] <= f[k]}
<1>1. \A k \in 1 .. n : f[k] \in Nat /\ f[k] = h[k] + 1000
  OBVIOUS
<1> HIDE DEF f
<1>2. HasLargest(f, n)
  BY <1>1, Largest
<1>3. T # {} /\ T \subseteq Nat
  BY <1>2 DEF HasLargest
<1>4. PICK k \in T : \A m \in T : k <= m
  <2> HIDE DEF T
  <2> QED BY <1>3, LeastNat
<1>5. ASSUME NEW j \in 1 .. n PROVE IF j < k THEN h[j] < h[k] ELSE h[j] <= h[k]
  <2>1. k \in 1 .. n /\ f[j] <= f[k]
    BY <1>4
  <2>2. h[j] <= h[k] /\ h[j] \in Int /\ h[k] \in Int
    BY <1>1, <2>1
  <2>3. ASSUME j < k, h[j] = h[k] PROVE FALSE
    <3>1. f[j] = f[k]
      BY <1>1, <2>1, <2>3
    <3>2. j \in T
      BY <1>4, <3>1
    <3> QED BY <1>4, <2>1, <2>3, <3>2
  <2> QED BY <2>2, <2>3
<1> QED BY <1>4, <1>5 DEF FirstLargestAt

Spare(r, i) == IF i \in r.up THEN 0 - r.amount[i] ELSE -1000
Room(r, i) == IF i \in r.up THEN r.amount[i] ELSE 0

(* The two strategies that ask choose a usable name with the most of it.     *)
LEMMA ValuesFit ==
  ASSUME NEW r \in Chooser!Reports, NEW i \in Trio
  PROVE  /\ Spare(r, i) \in Int /\ Spare(r, i) >= -1000
         /\ i \in r.up <=> Spare(r, i) > -1000
         /\ Room(r, i) \in Int /\ Room(r, i) >= 0
         /\ Room(r, i) > 0 => i \in r.up
<1>1. r.amount[i] \in Nat /\ r.amount[i] < 1000
  BY ChooserConstants DEF Chooser!Reports
<1> QED BY <1>1 DEF Spare, Room

LEMMA StrategiesLead ==
  ASSUME Chooser!TypeOK, NEW r \in Chooser!Reports, Chooser!Usable # <<>>
  PROVE  \E j, k \in DOMAIN Chooser!Usable :
           /\ Chooser!LeastJobs(r) = Chooser!Usable[j]
           /\ Chooser!MostFreeDisk(r) = Chooser!Usable[k]
           /\ \A m \in DOMAIN Chooser!Usable :
                /\ Spare(r, Chooser!Usable[m]) <= Spare(r, Chooser!Usable[j])
                /\ Room(r, Chooser!Usable[m]) <= Room(r, Chooser!Usable[k])
<1> DEFINE names == Chooser!Usable
           n == Len(names)
           h == [k \in 1 .. n |-> Spare(r, names[k])]
           g == [k \in 1 .. n |-> Room(r, names[k])]
<1>1. /\ names \in Seq(Trio) /\ n \in Nat \ {0} /\ DOMAIN names = 1 .. n
      /\ \A k \in 1 .. n : names[k] \in Trio
  BY UsableNames
<1>2. /\ Chooser!LeastJobs(r) = names[CHOOSE k \in 1 .. n : \A j \in 1 .. n :
             IF j < k THEN Spare(r, names[j]) < Spare(r, names[k])
                      ELSE Spare(r, names[j]) <= Spare(r, names[k])]
      /\ Chooser!MostFreeDisk(r) = names[CHOOSE k \in 1 .. n : \A j \in 1 .. n :
             IF j < k THEN Room(r, names[j]) < Room(r, names[k])
                      ELSE Room(r, names[j]) <= Room(r, names[k])]
  BY <1>1 DEF Chooser!LeastJobs, Chooser!MostFreeDisk, Chooser!FirstLargest, Spare, Room
<1> HIDE DEF names, n
<1>3. \A k \in 1 .. n : h[k] \in Int /\ h[k] >= -1000 /\ g[k] \in Int /\ g[k] >= -1000
  BY <1>1, ValuesFit
<1>4. /\ \A k \in 1 .. n : h[k] = Spare(r, names[k]) /\ g[k] = Room(r, names[k])
  OBVIOUS
<1> HIDE DEF h, g
<1>5. (\E k \in 1 .. n : FirstLargestAt(h, n, k)) /\ \E k \in 1 .. n : FirstLargestAt(g, n, k)
  BY <1>1, <1>3, HasFirstLargest
<1>6. \E j \in 1 .. n :
         /\ Chooser!LeastJobs(r) = names[j]
         /\ \A m \in 1 .. n : IF m < j THEN Spare(r, names[m]) < Spare(r, names[j])
                                     ELSE Spare(r, names[m]) <= Spare(r, names[j])
  BY <1>2, <1>4, <1>5 DEF FirstLargestAt
<1>7. \E k \in 1 .. n :
         /\ Chooser!MostFreeDisk(r) = names[k]
         /\ \A m \in 1 .. n : IF m < k THEN Room(r, names[m]) < Room(r, names[k])
                                     ELSE Room(r, names[m]) <= Room(r, names[k])
  BY <1>2, <1>4, <1>5 DEF FirstLargestAt
<1>8. \A k \in 1 .. n : Spare(r, names[k]) \in Int /\ Room(r, names[k]) \in Int
  BY <1>3, <1>4
<1>9. PICK j \in 1 .. n :
         /\ Chooser!LeastJobs(r) = names[j]
         /\ \A m \in 1 .. n : Spare(r, names[m]) <= Spare(r, names[j])
  BY <1>6, <1>8
<1>10. PICK k \in 1 .. n :
         /\ Chooser!MostFreeDisk(r) = names[k]
         /\ \A m \in 1 .. n : Room(r, names[m]) <= Room(r, names[k])
  BY <1>7, <1>8
<1> QED BY <1>1, <1>9, <1>10 DEF names
(* A qB that answers is preferred, in every state.                           *)
LEMMA LiveChosen == ASSUME Chooser!TypeOK PROVE Chooser!LivePreferred
<1> SUFFICES ASSUME NEW r \in Chooser!Reports, NEW i \in Chooser!ToSet(Chooser!Usable) \cap r.up
             PROVE  /\ Chooser!LeastJobs(r) \in r.up
                    /\ r.amount[i] > 0 => Chooser!MostFreeDisk(r) \in r.up
  BY DEF Chooser!LivePreferred
<1>1. PICK m \in DOMAIN Chooser!Usable : Chooser!Usable[m] = i
  BY DEF Chooser!ToSet
<1>2. Chooser!Usable \in Seq(Trio) /\ Chooser!Usable # <<>> /\ i \in Trio
  BY <1>1, UsableNames
<1>3. PICK j \in DOMAIN Chooser!Usable, k \in DOMAIN Chooser!Usable :
        /\ Chooser!LeastJobs(r) = Chooser!Usable[j]
        /\ Chooser!MostFreeDisk(r) = Chooser!Usable[k]
        /\ Spare(r, i) <= Spare(r, Chooser!Usable[j])
        /\ Room(r, i) <= Room(r, Chooser!Usable[k])
  BY <1>1, <1>2, StrategiesLead
<1>4. Chooser!Usable[j] \in Trio /\ Chooser!Usable[k] \in Trio
  BY <1>2
<1>5. Spare(r, i) > -1000 => Spare(r, Chooser!Usable[j]) > -1000
  BY <1>2, <1>3, <1>4, ValuesFit
<1>6. Room(r, i) > 0 => Room(r, Chooser!Usable[k]) > 0
  BY <1>2, <1>3, <1>4, ValuesFit
<1>7. Room(r, i) = r.amount[i]
  BY DEF Room
<1> QED BY <1>2, <1>3, <1>4, <1>5, <1>6, <1>7, ValuesFit

(* The turns taken are the last ones of the cursor.                          *)
TurnOf(n) == Chooser!Usable[(n % Len(Chooser!Usable)) + 1]
Turned ==
  /\ Len(turns) <= cursor
  /\ turns # <<>> => Chooser!Usable # <<>>
  /\ \A m \in 1 .. Len(turns) : turns[m] = TurnOf(cursor - Len(turns) + m - 1)

ChooserInv == Chooser!TypeOK /\ Turned

(* Numbers closer together than n leave different remainders.                *)
LEMMA Remainders ==
  ASSUME NEW n \in Nat \ {0}, NEW a \in Nat, NEW b \in Nat, a < b, b - a < n
  PROVE  a % n # b % n /\ a % n \in 0 .. n - 1 /\ b % n \in 0 .. n - 1
<1>0. \A c \in Nat : c % n = c - n * (c \div n)
  OBVIOUS
<1>1. /\ a % n = a - n * (a \div n) /\ a % n \in 0 .. n - 1 /\ a \div n \in Int
      /\ b % n = b - n * (b \div n) /\ b % n \in 0 .. n - 1 /\ b \div n \in Int
  <2>1. a % n \in 0 .. n - 1 /\ b % n \in 0 .. n - 1
    OBVIOUS
  <2>2. a \div n \in Int /\ b \div n \in Int
    OBVIOUS
  <2> QED BY <1>0, <2>1, <2>2
<1>2. SUFFICES ASSUME a % n = b % n PROVE FALSE
  BY <1>1
<1> DEFINE d == (b \div n) - (a \div n)
<1>3. d \in Int /\ n * d = n * (b \div n) - n * (a \div n)
  BY <1>1
<1>4. n * d = b - a
  BY <1>1, <1>2, <1>3
<1> HIDE DEF d
<1>5. d >= 1 => n * d >= n
  BY <1>3
<1>6. d <= 0 => n * d <= 0
  BY <1>3
<1> QED BY <1>3, <1>4, <1>5, <1>6

LEMMA TurnsAreEven == ASSUME ChooserInv PROVE Chooser!TurnsEven
<1> DEFINE names == Chooser!Usable
           first == cursor - Len(turns)
<1>1. /\ turns \in Seq(Trio) /\ Len(turns) \in Nat /\ DOMAIN turns = 1 .. Len(turns)
      /\ cursor \in Nat /\ first \in Nat
  BY ChooserConstants DEF ChooserInv, Turned, Chooser!TypeOK
<1>2. /\ names \in Seq(Trio) /\ Len(names) \in Nat
      /\ \A j, k \in 1 .. Len(names) : j < k => names[j] # names[k]
  BY UsableNames DEF ChooserInv
<1>3. SUFFICES ASSUME NEW m \in DOMAIN turns, NEW n \in DOMAIN turns, m < n,
                      n - m < Len(names)
               PROVE  turns[m] # turns[n]
  BY DEF Chooser!TurnsEven
<1>4. turns[m] = TurnOf(first + m - 1) /\ turns[n] = TurnOf(first + n - 1)
  BY <1>1 DEF ChooserInv, Turned
<1> HIDE DEF first, names
<1>5. Len(names) \in Nat \ {0} /\ first + m - 1 \in Nat /\ first + n - 1 \in Nat
      /\ first + m - 1 < first + n - 1 /\ (first + n - 1) - (first + m - 1) < Len(names)
  BY <1>1, <1>2, <1>3
<1> DEFINE a == (first + m - 1) % Len(names)
           b == (first + n - 1) % Len(names)
<1>6. a # b /\ a \in 0 .. Len(names) - 1 /\ b \in 0 .. Len(names) - 1
  BY <1>5, Remainders
<1>7. turns[m] = names[a + 1] /\ turns[n] = names[b + 1]
  BY <1>4 DEF TurnOf, names
<1> HIDE DEF a, b
<1>8. a + 1 \in 1 .. Len(names) /\ b + 1 \in 1 .. Len(names)
      /\ (a + 1 < b + 1 \/ b + 1 < a + 1)
  BY <1>2, <1>6
<1>9. names[a + 1] # names[b + 1]
  BY <1>2, <1>8
<1> QED BY <1>7, <1>9
(* What a selection returns.                                                 *)
LEMMA TurnTyped ==
  ASSUME Chooser!TypeOK, Chooser!Usable # <<>>
  PROVE  \A n \in Nat : TurnOf(n) \in Trio
<1> SUFFICES ASSUME NEW n \in Nat PROVE TurnOf(n) \in Trio
  OBVIOUS
<1> DEFINE size == Len(Chooser!Usable)
<1>1. Chooser!Usable \in Seq(Trio) /\ size \in Nat \ {0}
  BY UsableNames
<1> HIDE DEF size
<1>2. n % size \in 0 .. size - 1
  BY <1>1
<1>3. (n % size) + 1 \in 1 .. size
  BY <1>1, <1>2
<1> QED BY <1>1, <1>3 DEF TurnOf, size

LEMMA ChoiceTyped ==
  ASSUME Chooser!TypeOK, NEW prefer, NEW r \in Chooser!Reports
  PROVE  /\ Chooser!Choice(prefer, r) \in Trio \cup {None}
         /\ Chooser!Fallback(Chooser!Choice(prefer, r)) \in
              [name : Trio \cup {None}, known : BOOLEAN]
         /\ rows # <<>> /\ prefer \notin registry /\ mode = "round_robin"
              /\ Chooser!Usable # <<>> => Chooser!Choice(prefer, r) = TurnOf(cursor)
<1>1. registry \subseteq Trio /\ mode \in Chooser!Modes /\ cursor \in Nat
  BY ChooserConstants DEF Chooser!TypeOK
<1> DEFINE choice == Chooser!Choice(prefer, r)
           turn == /\ rows # <<>> /\ prefer \notin registry /\ mode = "round_robin"
                   /\ Chooser!Usable # <<>>
<1>2. ASSUME rows = <<>> \/ prefer \in registry \/ Chooser!Usable = <<>>
      PROVE  choice \in Trio \cup {None} /\ ~ turn
  <2>1. choice = None \/ (choice = prefer /\ prefer \in registry)
    BY <1>2 DEF Chooser!Choice
  <2> QED BY <1>1, <1>2, <2>1
<1>3. ASSUME rows # <<>> /\ prefer \notin registry /\ Chooser!Usable # <<>>
      PROVE  choice \in Trio \cup {None} /\ (turn => choice = TurnOf(cursor))
  <2>1. Chooser!Choice(prefer, r) =
          CASE mode = "priority" -> Chooser!Usable[1]
            [] mode = "most_free_disk" -> Chooser!MostFreeDisk(r)
            [] mode = "least_jobs" -> Chooser!LeastJobs(r)
            [] mode = "round_robin" -> Chooser!RoundRobin
    BY <1>3 DEF Chooser!Choice
  <2>2. Chooser!Usable \in Seq(Trio) /\ Chooser!Usable[1] \in Trio
    BY <1>3, UsableNames
  <2>3. Chooser!MostFreeDisk(r) \in Trio /\ Chooser!LeastJobs(r) \in Trio
    BY <1>3, <2>2, StrategiesLead
  <2>4. Chooser!RoundRobin = TurnOf(cursor) /\ TurnOf(cursor) \in Trio
    BY <1>1, <1>3, TurnTyped DEF Chooser!RoundRobin, TurnOf
  <2> QED BY <1>1, <2>1, <2>2, <2>3, <2>4 DEF Chooser!Modes
<1>4. choice \in Trio \cup {None} /\ (turn => choice = TurnOf(cursor))
  BY <1>2, <1>3
<1>5. Chooser!Fallback(Chooser!Choice(prefer, r)) \in [name : Trio \cup {None}, known : BOOLEAN]
  <2>1. registry # {} => (CHOOSE i \in registry : TRUE) \in Trio
    BY <1>1
  <2>2. \A c : (c \in Chooser!ToSet(rows)) \in BOOLEAN
    OBVIOUS
  <2> QED BY <1>4, <2>1, <2>2 DEF Chooser!Fallback, Chooser!Nothing
<1> QED BY <1>4, <1>5

LEMMA ChooserSelects ==
  ASSUME ChooserInv, NEW prefer, NEW r \in Chooser!Reports, Chooser!Select(prefer, r)
  PROVE  ChooserInv'
<1> DEFINE turn == /\ rows # <<>> /\ prefer \notin registry /\ mode = "round_robin"
                   /\ Chooser!Usable # <<>>
<1>1. /\ turn => cursor < MaxTurns
      /\ cursor' = IF turn THEN cursor + 1 ELSE cursor
      /\ turns' = IF turn THEN Append(turns, Chooser!Choice(prefer, r)) ELSE turns
      /\ picked' = Chooser!Fallback(Chooser!Choice(prefer, r))
      /\ UNCHANGED <<rows, registry, mode>>
  BY DEF Chooser!Select
<1>2. Chooser!TypeOK /\ Turned
  BY DEF ChooserInv
<1>3. /\ cursor \in 0 .. MaxTurns /\ MaxTurns \in Nat /\ turns \in Seq(Trio)
  BY <1>2, ChooserConstants DEF Chooser!TypeOK
<1>4. Chooser!Usable' = Chooser!Usable
  BY <1>1 DEF Chooser!Usable, Chooser!EntriesAt, Chooser!Nth
<1>5. turn => Chooser!Choice(prefer, r) = TurnOf(cursor) /\ TurnOf(cursor) \in Trio
  BY <1>2, <1>3, ChoiceTyped, TurnTyped
<1>6. picked' \in [name : Trio \cup {None}, known : BOOLEAN]
  BY <1>1, <1>2, ChoiceTyped
<1>7. turns' \in Seq(Trio) /\ cursor' \in 0 .. MaxTurns
  BY <1>1, <1>3, <1>5
<1>8. Chooser!TypeOK'
  BY <1>1, <1>2, <1>6, <1>7 DEF Chooser!TypeOK
<1>9. \A n : TurnOf(n)' = TurnOf(n)
  BY <1>4 DEF TurnOf
<1>10. Turned'
  <2>1. CASE turn
    <3> HIDE DEF turn
    <3>1. /\ turns' = Append(turns, TurnOf(cursor)) /\ cursor' = cursor + 1
          /\ Len(turns') = Len(turns) + 1 /\ Len(turns) \in Nat
      BY <1>1, <1>3, <1>5, <2>1
    <3>2. ASSUME NEW m \in 1 .. Len(turns')
          PROVE  turns'[m] = TurnOf(cursor' - Len(turns') + m - 1)
      <4>1. CASE m = Len(turns) + 1
        <5>1. cursor' - Len(turns') + m - 1 = cursor
          BY <1>3, <3>1, <4>1
        <5> QED BY <1>3, <3>1, <4>1, <5>1
      <4>2. CASE m \in 1 .. Len(turns)
        <5>1. cursor' - Len(turns') + m - 1 = cursor - Len(turns) + m - 1
          BY <1>3, <3>1, <4>2
        <5>2. turns'[m] = turns[m]
          BY <1>3, <3>1, <4>2
        <5> QED BY <1>2, <4>2, <5>1, <5>2 DEF Turned
      <4> QED BY <3>1, <3>2, <4>1, <4>2
    <3>3. Len(turns') <= cursor'
      BY <1>2, <1>3, <3>1 DEF Turned
    <3>4. Chooser!Usable' # <<>>
      BY <1>4, <2>1 DEF turn
    <3> QED BY <1>9, <3>2, <3>3, <3>4 DEF Turned
  <2>2. CASE ~ turn
    BY <1>1, <1>2, <1>4, <1>9, <2>2 DEF Turned
  <2> QED BY <2>1, <2>2
<1> QED BY <1>8, <1>10 DEF ChooserInv

LEMMA ChooserEdits == ASSUME ChooserInv, Chooser!Edit PROVE ChooserInv'
<1>1. Chooser!TypeOK
  BY DEF ChooserInv
<1>2. Chooser!ToSet(rows) \subseteq Trio
  BY <1>1, ListsAre DEF Chooser!TypeOK, Chooser!ToSet
<1>3. turns' = <<>> /\ turns' \in Seq(Trio) /\ Len(turns') = 0 /\ UNCHANGED <<cursor, picked>>
  BY DEF Chooser!Edit
<1>4. rows' \in Chooser!Lists /\ registry' \subseteq Trio /\ mode' \in Chooser!Modes
  BY <1>1, <1>2 DEF Chooser!Edit, Chooser!TypeOK
<1>5. Chooser!TypeOK'
  BY <1>1, <1>3, <1>4 DEF Chooser!TypeOK
<1>6. Turned'
  BY <1>1, <1>3, ChooserConstants DEF Chooser!TypeOK, Turned
<1> QED BY <1>5, <1>6 DEF ChooserInv

LEMMA ChooserInit == Chooser!Init => ChooserInv
<1> SUFFICES ASSUME Chooser!Init PROVE ChooserInv
  OBVIOUS
<1>1. registry \subseteq Trio
  BY ListsAre DEF Chooser!Init, Chooser!ToSet
<1>2. /\ turns = <<>> /\ turns \in Seq(Trio) /\ Len(turns) = 0
      /\ cursor = 0 /\ cursor \in 0 .. MaxTurns
      /\ picked \in [name : Trio \cup {None}, known : BOOLEAN]
  BY ChooserConstants DEF Chooser!Init, Chooser!Nothing
<1> QED BY <1>1, <1>2 DEF Chooser!Init, ChooserInv, Chooser!TypeOK, Turned

LEMMA ChooserMoves == ChooserInv /\ [Chooser!Next]_(Chooser!vars) => ChooserInv'
<1> SUFFICES ASSUME ChooserInv, [Chooser!Next]_(Chooser!vars) PROVE ChooserInv'
  OBVIOUS
<1>1. CASE Chooser!Next
  BY <1>1, ChooserSelects, ChooserEdits DEF Chooser!Next
<1>2. CASE UNCHANGED Chooser!vars
  <2>1. Chooser!Usable' = Chooser!Usable
    BY <1>2 DEF Chooser!vars, Chooser!Usable, Chooser!EntriesAt, Chooser!Nth
  <2>2. Chooser!TypeOK'
    BY <1>2 DEF Chooser!vars, ChooserInv, Chooser!TypeOK
  <2>3. \A n : TurnOf(n)' = TurnOf(n)
    BY <2>1 DEF TurnOf
  <2> QED BY <1>2, <2>1, <2>2, <2>3 DEF Chooser!vars, ChooserInv, Turned
<1> QED BY <1>1, <1>2

LEMMA ChooserCorrect == PartsSpec => []ChooserInv
<1>1. PartsInit => Chooser!Init
  BY DEF PartsInit
<1>2. [PartsNext]_allVars => [Chooser!Next]_(Chooser!vars)
  BY DEF PartsNext, allVars, judgeVars, chooserVars, Chooser!vars
<1> QED BY <1>1, <1>2, ChooserInit, ChooserMoves, PTL DEF PartsSpec

(* While an enabled qB answers, the strategies that ask the qBs choose one   *)
(* that does, and round robin gives every usable qB its turn (mostFreeDisk,  *)
(* leastJobs, roundRobin in dispatcher.go).                                  *)
THEOREM AnsweringAndFair == PartsSpec => []SelectionSound
<1>1. ChooserInv => SelectionSound
  BY LiveChosen, TurnsAreEven DEF ChooserInv, SelectionSound, Chooser!SelectionSound
<1> QED BY <1>1, ChooserCorrect, PTL

-----------------------------------------------------------------------------
(* The retry queue.                                                          *)

Queued == [seed : Seeds, no : Nat, due : Nat]

(* Only a batch that is being submitted holds something.                     *)
Submitting == loop # "submit" => batch = <<>>

QueueInv == TypeOK /\ Submitting /\ HandedOverOnce /\ SleepCovered

LEMMA QueueConstants == RetryMax \in Nat /\ MaxTime \in Nat /\ MaxEnqueues \in Nat
  BY RetryQueueAssumption

LEMMA BackoffIsNat == \A n \in Nat : BackoffFor(n) \in Nat
<1>1. Backoff \in Seq(Nat \ {0}) /\ Len(Backoff) \in Nat \ {0}
  BY RetryQueueAssumption
<1>2. \A i \in 1 .. Len(Backoff) : Backoff[i] \in Nat
  BY <1>1
<1> SUFFICES ASSUME NEW n \in Nat PROVE BackoffFor(n) \in Nat
  OBVIOUS
<1> DEFINE i == IF n < 1 THEN 1 ELSE n
           j == IF i > Len(Backoff) THEN Len(Backoff) ELSE i
<1>3. j \in 1 .. Len(Backoff)
  BY <1>1
<1> QED BY <1>2, <1>3 DEF BackoffFor

LEMMA Adds ==
  ASSUME TypeOK, NEW s \in Seeds, NEW n \in Nat, Add(s, n)
  PROVE  items' \in Seq(Queued) /\ Len(items') = Len(items) + 1
<1>1. now + BackoffFor(n) \in Nat
  <2>1. BackoffFor(n) \in Nat
    BY BackoffIsNat
  <2>2. now \in Nat
    BY DEF TypeOK
  <2> QED BY <2>1, <2>2
<1>2. Item(s, n, now + BackoffFor(n)) \in Queued
  BY <1>1 DEF Item, Queued
<1> QED BY <1>2 DEF Add, TypeOK, Queued

(* NextWait finds the earliest of the queued items.                          *)
LEMMA EarliestIs ==
  ASSUME TypeOK, items # <<>>
  PROVE  /\ Earliest(QueuedItems) \in Nat
         /\ \E it \in QueuedItems : it.due = Earliest(QueuedItems)
         /\ \A it \in QueuedItems : Earliest(QueuedItems) <= it.due
<1> DEFINE its == QueuedItems
           dues == {it.due : it \in its}
<1>1. items \in Seq(Queued) /\ Len(items) \in Nat \ {0}
  BY DEF TypeOK, Queued
<1>2. \A it \in its : it \in Queued
  BY <1>1 DEF QueuedItems
<1>3. items[1] \in its
  BY <1>1 DEF QueuedItems
<1> HIDE DEF its
<1>4. dues \subseteq Nat /\ dues # {}
  BY <1>2, <1>3 DEF Queued
<1>5. \E d \in dues : \A e \in dues : d <= e
  <2> HIDE DEF dues
  <2> QED BY <1>4, LeastNat
<1>6. \E d \in dues : \A it \in its : d <= it.due
  BY <1>5
<1>7. Earliest(its) \in dues /\ \A it \in its : Earliest(its) <= it.due
  BY <1>6 DEF Earliest
<1> QED BY <1>4, <1>7 DEF its

(* Due parts the items: each goes to the batch or stays.                     *)
LEMMA DueParts ==
  ASSUME TypeOK, Due
  PROVE  /\ batch' \in Seq(Queued) /\ items' \in Seq(Queued)
         /\ Len(batch') + Len(items') = Len(items)
         /\ \A i \in DOMAIN batch' : batch'[i].due <= now
<1>1. items \in Seq(Queued) /\ now \in Nat /\ Len(items) \in Nat
      /\ DOMAIN items = 1 .. Len(items)
  BY DEF TypeOK, Queued
<1>2. DueNow \subseteq DOMAIN items /\ Later \subseteq DOMAIN items
  BY DEF DueNow, Later
<1>3. /\ batch' \in Seq(Queued) /\ Len(batch') = Cardinality(DueNow)
      /\ \A n \in 1 .. Cardinality(DueNow) :
           Nth(DueNow, n) \in DueNow /\ batch'[n] = items[Nth(DueNow, n)]
      /\ items' \in Seq(Queued) /\ Len(items') = Cardinality(Later)
      /\ IsFiniteSet(DueNow) /\ IsFiniteSet(Later)
  BY <1>1, <1>2, EntriesKept DEF Due
<1>4. \A i \in DOMAIN batch' : batch'[i].due <= now
  <2>1. DOMAIN batch' = 1 .. Cardinality(DueNow)
    BY <1>3
  <2> QED BY <1>3, <2>1 DEF DueNow
<1>5. ASSUME NEW i \in DOMAIN items PROVE items[i].due \in Nat
  <2>1. items[i] \in Queued
    BY <1>1
  <2> QED BY <2>1 DEF Queued
<1>6. DueNow \cup Later = 1 .. Len(items) /\ DueNow \cap Later = {}
  BY <1>1, <1>5 DEF DueNow, Later
<1>7. Cardinality(DueNow \cup Later) = Cardinality(DueNow) + Cardinality(Later)
  <2>1. Cardinality({}) = 0 /\ Cardinality(DueNow) \in Nat /\ Cardinality(Later) \in Nat
    BY <1>3, FS_EmptySet, FS_CardinalityType
  <2>2. Cardinality(DueNow \cup Later) =
          Cardinality(DueNow) + Cardinality(Later) - Cardinality(DueNow \cap Later)
    BY <1>3, FS_Union
  <2>3. DueNow \cap Later = {}
    BY <1>6
  <2>4. Cardinality(DueNow \cap Later) = 0
    BY <2>1, <2>3, Zenon
  <2> QED BY <2>1, <2>2, <2>4
<1>8. Cardinality(1 .. Len(items)) = Len(items)
  BY <1>1, FS_Interval
<1> QED BY <1>3, <1>4, <1>6, <1>7, <1>8
LEMMA QueueInit == Init => QueueInv
<1> SUFFICES ASSUME Init PROVE QueueInv
  OBVIOUS
<1>1. TypeOK
  <2>1. <<>> \in Seq(Queued)
    OBVIOUS
  <2>2. items \in Seq(Queued) /\ batch \in Seq(Queued)
    BY <2>1 DEF Init
  <2>3. now \in Nat /\ timer \in Nat /\ enqueues \in 0 .. MaxEnqueues
    BY QueueConstants DEF Init
  <2> QED BY <2>2, <2>3 DEF Init, TypeOK, Queued
<1>2. Submitting /\ HandedOverOnce /\ SleepCovered
  BY DEF Init, Submitting, HandedOverOnce, Outstanding, SleepCovered, Overslept
<1> QED BY <1>1, <1>2 DEF QueueInv

LEMMA QueueFacts ==
  ASSUME QueueInv
  PROVE  /\ now \in Nat /\ enqueues \in 0 .. MaxEnqueues /\ timer \in Nat
         /\ items \in Seq(Queued) /\ Len(items) \in Nat /\ DOMAIN items = 1 .. Len(items)
         /\ batch \in Seq(Queued) /\ Len(batch) \in Nat /\ DOMAIN batch = 1 .. Len(batch)
         /\ Len(items) + Len(batch) <= enqueues
         /\ \A i \in DOMAIN batch : batch[i].due <= now
         /\ loop # "submit" => batch = <<>>
  BY DEF QueueInv, TypeOK, Queued, HandedOverOnce, Outstanding, Submitting

LEMMA QueueEnqueues ==
  ASSUME QueueInv, NEW e \in Enqueuers, Signal(e) \/ \E s \in Seeds, n \in 1 .. RetryMax + 1 : Append1(e, s, n)
  PROVE  QueueInv'
<1>0. /\ TypeOK /\ SleepCovered
  BY DEF QueueInv
<1>1. ASSUME NEW s \in Seeds, NEW n \in 1 .. RetryMax + 1, Append1(e, s, n) PROVE QueueInv'
  <2>1. n \in Nat /\ MaxEnqueues \in Nat
    BY QueueConstants
  <2>2. items' \in Seq(Queued) /\ Len(items') = Len(items) + 1
    BY <1>0, <1>1, <2>1, Adds DEF Append1
  <2>3. /\ UNCHANGED <<now, wake, loop, batch, timer, cancelled>> /\ enqueues' = enqueues + 1
        /\ enqueues < MaxEnqueues /\ signalling' = signalling \cup {e}
    BY <1>1 DEF Append1, retryLoop
  <2>4. TypeOK'
    BY <1>0, <2>1, <2>2, <2>3 DEF TypeOK, Queued
  <2>5. Submitting' /\ HandedOverOnce'
    BY <2>1, <2>2, <2>3, QueueFacts DEF Submitting, HandedOverOnce, Outstanding
  <2>6. SleepCovered'
    BY <2>3 DEF SleepCovered, Overslept, WakeComing
  <2> QED BY <2>4, <2>5, <2>6 DEF QueueInv
<1>2. CASE Signal(e)
  <2>1. /\ UNCHANGED <<now, items, enqueues, loop, batch, timer, cancelled>>
        /\ wake' = TRUE /\ signalling' \subseteq Enqueuers
    BY <1>0, <1>2 DEF Signal, retryLoop, TypeOK
  <2>2. TypeOK' /\ Submitting'
    BY <1>0, <2>1 DEF TypeOK, Submitting, QueueInv
  <2>3. HandedOverOnce' /\ SleepCovered'
    BY <2>1 DEF HandedOverOnce, Outstanding, SleepCovered, Overslept, WakeComing, QueueInv
  <2> QED BY <2>2, <2>3 DEF QueueInv
<1> QED BY <1>1, <1>2

LEMMA QueueDue == ASSUME QueueInv, Due PROVE QueueInv'
<1>1. TypeOK /\ UNCHANGED <<now, wake, signalling, enqueues, timer, cancelled>>
      /\ loop = "drain" /\ loop' = "submit"
  BY DEF QueueInv, Due
<1>2. /\ batch' \in Seq(Queued) /\ items' \in Seq(Queued)
      /\ Len(batch') + Len(items') = Len(items)
      /\ \A i \in DOMAIN batch' : batch'[i].due <= now
  BY <1>1, DueParts
<1>3. TypeOK'
  BY <1>1, <1>2 DEF TypeOK, Queued
<1>4. HandedOverOnce'
  <2>1. Len(batch) = 0 /\ Len(batch') \in Nat /\ Len(items') \in Nat
    BY <1>1, <1>2, QueueFacts
  <2> QED BY <1>1, <1>2, <2>1, QueueFacts DEF HandedOverOnce, Outstanding
<1> QED BY <1>1, <1>3, <1>4 DEF QueueInv, Submitting, SleepCovered, Overslept

LEMMA QueueSubmits == ASSUME QueueInv, Submit PROVE QueueInv'
<1>1. /\ TypeOK /\ UNCHANGED <<now, signalling, enqueues, loop, timer, cancelled>>
      /\ loop = "submit" /\ batch # <<>> /\ batch' = Tail(batch)
  BY DEF QueueInv, Submit
<1>2. /\ batch' \in Seq(Queued) /\ Len(batch') = Len(batch) - 1
      /\ \A i \in 1 .. Len(batch') : batch'[i] = batch[i + 1] /\ i + 1 \in 1 .. Len(batch)
  BY <1>1, QueueFacts
<1>3. /\ items' \in Seq(Queued) /\ Len(items') <= Len(items) + 1
      /\ wake' \in BOOLEAN
  <2>1. CASE UNCHANGED <<items, wake>>
    BY <1>1, <2>1, QueueFacts DEF TypeOK
  <2>2. CASE /\ Add(Head(batch).seed, Head(batch).no + 1) /\ wake' = TRUE
    <3>1. Head(batch) \in Queued
      BY <1>1, QueueFacts
    <3>2. Head(batch).seed \in Seeds /\ Head(batch).no + 1 \in Nat
      BY <3>1 DEF Queued
    <3> HIDE DEF Queued
    <3>3. items' \in Seq(Queued) /\ Len(items') = Len(items) + 1
      BY <1>1, <2>2, <3>2, Adds
    <3> QED BY <2>2, <3>3, QueueFacts
  <2> QED BY <2>1, <2>2 DEF Submit
<1>4. TypeOK'
  BY <1>1, <1>2, <1>3 DEF TypeOK, Queued
<1>5. HandedOverOnce'
  <2>1. Len(items') \in Nat /\ Len(batch') \in Nat /\ DOMAIN batch' = 1 .. Len(batch')
    BY <1>2, <1>3
  <2>2. Len(items') + Len(batch') <= enqueues'
    BY <1>1, <1>2, <1>3, <2>1, QueueFacts
  <2>3. \A i \in DOMAIN batch' : batch'[i].due <= now'
    BY <1>1, <1>2, <2>1, QueueFacts
  <2> QED BY <2>2, <2>3 DEF HandedOverOnce, Outstanding
<1> QED BY <1>1, <1>4, <1>5 DEF QueueInv, Submitting, SleepCovered, Overslept
LEMMA QueueSleeps == ASSUME QueueInv, Sleep PROVE QueueInv'
<1>1. /\ TypeOK /\ loop = "submit" /\ batch = <<>>
      /\ UNCHANGED <<now, items, wake, signalling, enqueues, batch, cancelled>>
  BY DEF QueueInv, Sleep, queue
<1>2. CASE items = <<>> \/ Earliest(QueuedItems) <= now
  <2>1. loop' = "blocked" /\ UNCHANGED timer
    BY <1>2 DEF Sleep
  <2>2. items = <<>> \/ \E it \in QueuedItems : it.due <= now
    <3>1. CASE items # <<>>
      <4>1. \E it \in QueuedItems : it.due = Earliest(QueuedItems)
        BY <1>1, <3>1, EarliestIs
      <4> QED BY <1>2, <3>1, <4>1
    <3> QED BY <3>1
  <2>3. SleepCovered'
    BY <1>1, <2>1, <2>2 DEF SleepCovered, Overslept, QueuedItems
  <2> QED BY <1>1, <2>1, <2>3 DEF QueueInv, TypeOK, Submitting, HandedOverOnce, Outstanding
<1>3. CASE ~ (items = <<>> \/ Earliest(QueuedItems) <= now)
  <2>1. loop' = "timed" /\ timer' = Earliest(QueuedItems)
    BY <1>3 DEF Sleep
  <2>2. Earliest(QueuedItems) \in Nat /\ \A it \in QueuedItems : Earliest(QueuedItems) <= it.due
    BY <1>1, <1>3, EarliestIs
  <2>3. ASSUME NEW it \in QueuedItems PROVE it.due >= timer'
    <3>1. it \in Queued
      BY QueueFacts DEF QueuedItems
    <3>2. it.due \in Nat
      BY <3>1 DEF Queued
    <3> QED BY <2>1, <2>2, <3>2
  <2>4. SleepCovered'
    BY <1>1, <1>3, <2>1, <2>3 DEF SleepCovered, Overslept, QueuedItems
  <2> QED BY <1>1, <2>1, <2>2, <2>4 DEF QueueInv, TypeOK, Submitting, HandedOverOnce, Outstanding
<1> QED BY <1>2, <1>3

LEMMA QueueWakes == ASSUME QueueInv, Woken \/ TimerFires \/ Exit \/ Cancel PROVE QueueInv'
<1>1. /\ UNCHANGED <<now, items, signalling, enqueues, batch, timer>>
      /\ wake' \in BOOLEAN /\ cancelled' \in BOOLEAN
      /\ \/ loop' \in {"drain", "exited"} /\ loop \in {"blocked", "timed"}
         \/ UNCHANGED <<loop, wake>>
  BY DEF Woken, TimerFires, Exit, Cancel, queue, retryLoop, QueueInv, TypeOK
<1>2. TypeOK' /\ Submitting' /\ HandedOverOnce'
  BY <1>1 DEF QueueInv, TypeOK, Submitting, HandedOverOnce, Outstanding
<1>3. SleepCovered'
  BY <1>1 DEF QueueInv, SleepCovered, Overslept, WakeComing, QueuedItems
<1> QED BY <1>2, <1>3 DEF QueueInv

(* Time only makes more items due.                                           *)
LEMMA QueueTicks == ASSUME QueueInv, Tick PROVE QueueInv'
<1>1. /\ now' = now + 1 /\ now \in Nat
      /\ UNCHANGED <<items, wake, signalling, enqueues, loop, batch, timer, cancelled>>
  BY QueueFacts DEF Tick, queue, retryLoop
<1>2. TypeOK' /\ Submitting'
  BY <1>1 DEF QueueInv, TypeOK, Submitting
<1>3. HandedOverOnce'
  <2>1. ASSUME NEW i \in DOMAIN batch PROVE batch[i].due <= now'
    <3>1. batch[i] \in Queued /\ batch[i].due <= now
      BY QueueFacts
    <3>2. batch[i].due \in Nat
      BY <3>1 DEF Queued
    <3> QED BY <1>1, <3>1, <3>2
  <2> QED BY <1>1, <2>1 DEF QueueInv, HandedOverOnce, Outstanding
<1>4. SleepCovered'
  <2>1. ASSUME NEW it \in QueuedItems, it.due <= now PROVE it.due <= now'
    <3>1. it \in Queued
      BY QueueFacts DEF QueuedItems
    <3>2. it.due \in Nat
      BY <3>1 DEF Queued
    <3> QED BY <1>1, <2>1, <3>2
  <2> QED BY <1>1, <2>1 DEF QueueInv, SleepCovered, Overslept, WakeComing, QueuedItems
<1> QED BY <1>2, <1>3, <1>4 DEF QueueInv

LEMMA QueueMoves == QueueInv /\ [Next]_vars => QueueInv'
<1> SUFFICES ASSUME QueueInv, [Next]_vars PROVE QueueInv'
  OBVIOUS
<1>1. CASE \E e \in Enqueuers : EnqueuerNext(e)
  BY <1>1, QueueEnqueues DEF EnqueuerNext
<1>2. CASE LoopNext \/ Cancel \/ Tick
  BY <1>2, QueueDue, QueueSubmits, QueueSleeps, QueueWakes, QueueTicks DEF LoopNext
<1>3. CASE UNCHANGED vars
  BY <1>3 DEF vars, queue, retryLoop, QueueInv, TypeOK, Submitting, HandedOverOnce,
     Outstanding, SleepCovered, Overslept, WakeComing, QueuedItems
<1> QED BY <1>1, <1>2, <1>3 DEF Next

LEMMA QueueCorrect == PartsSpec => []QueueInv
<1>1. PartsInit => QueueInv
  BY QueueInit DEF PartsInit
<1>2. [PartsNext]_allVars => [Next]_vars
  BY DEF PartsNext, allVars
<1> QED BY <1>1, <1>2, QueueMoves, PTL DEF PartsSpec

(* A timer of the retry loop never runs past a queued item, a sleep without a  *)
(* timer over a queued item is the gap between Due and NextWait and nothing  *)
(* else, and no item is handed over twice (retryLoop, NextWait, Enqueue,     *)
(* Due).  That an item is submitted in the end, but for that gap, is         *)
(* EntriesSubmitted, which only TLC checks.                                  *)
THEOREM OnlyTheGapOversleeps == PartsSpec => [](SleepCovered /\ HandedOverOnce)
  BY QueueCorrect, PTL DEF QueueInv

-----------------------------------------------------------------------------
(* The types of the loops.                                                   *)

LEMMA RestartsBounded == MaxRestarts \in Nat
  BY SlowParameters DEF Slow!SlowAssumption

LEMMA AlertTypesInit == Alerts!Init => Alerts!TypeOK
<1> SUFFICES ASSUME Alerts!Init PROVE Alerts!TypeOK
  OBVIOUS
<1>1. allOffline \in BOOLEAN /\ outageTold \in BOOLEAN
  BY Zenon DEF Alerts!Init
<1>2. restarts \in 0 .. MaxRestarts
  BY RestartsBounded DEF Alerts!Init
<1>3. /\ free \in [QBs -> Alerts!Levels] /\ told \in [QBs -> Alerts!Levels]
      /\ disk \in [QBs -> Alerts!Levels \cup {"unknown"}] /\ online \subseteq QBs
  BY DEF Alerts!Init, Alerts!Levels
<1> QED BY <1>1, <1>2, <1>3 DEF Alerts!TypeOK

LEMMA AlertTypes == Alerts!TypeOK /\ [Alerts!Next]_(Alerts!vars) => Alerts!TypeOK'
<1> SUFFICES ASSUME Alerts!TypeOK, [Alerts!Next]_(Alerts!vars) PROVE Alerts!TypeOK'
  OBVIOUS
<1>1. CASE Alerts!Pass
  <2>1. UNCHANGED <<online, free, restarts>>
    BY <1>1 DEF Alerts!Pass
  <2>2. allOffline' \in BOOLEAN /\ outageTold' \in BOOLEAN
    <3>1. Alerts!ObserveHealth(Alerts!AllHealthy)
      BY <1>1 DEF Alerts!Pass
    <3>2. CASE QBs = {}
      BY <3>1, <3>2 DEF Alerts!ObserveHealth, Alerts!TypeOK
    <3>3. CASE QBs # {}
      <4> DEFINE outage == \A i \in QBs : ~ Alerts!AllHealthy[i].online
      <4>1. allOffline' = outage /\ outageTold' = (outage /\ (outageTold \/ ~ allOffline))
        BY <3>1, <3>3, Zenon DEF Alerts!ObserveHealth
      <4> QED BY <4>1, Zenon
    <3> QED BY <3>2, <3>3
  <2>3. disk' \in [QBs -> Alerts!Levels \cup {"unknown"}] /\ told' \in [QBs -> Alerts!Levels]
    <3>1. PICK answering \in SUBSET online : Alerts!MonitorDisk(answering)
      BY <1>1 DEF Alerts!Pass
    <3> QED BY <3>1 DEF Alerts!MonitorDisk, Alerts!TypeOK
  <2> QED BY <2>1, <2>2, <2>3 DEF Alerts!TypeOK
<1>2. CASE Alerts!Outside
  BY <1>2 DEF Alerts!Outside, Alerts!TypeOK
<1>3. CASE Alerts!Restart
  <2>1. allOffline' \in BOOLEAN /\ outageTold' \in BOOLEAN
    BY <1>3, Zenon DEF Alerts!Restart, Alerts!TypeOK
  <2>2. restarts' \in 0 .. MaxRestarts /\ UNCHANGED <<online, free, told>>
    BY <1>3, RestartsBounded DEF Alerts!Restart, Alerts!TypeOK
  <2>3. disk' \in [QBs -> Alerts!Levels \cup {"unknown"}]
    BY <1>3 DEF Alerts!Restart
  <2> QED BY <2>1, <2>2, <2>3 DEF Alerts!TypeOK
<1>4. CASE UNCHANGED Alerts!vars
  BY <1>4 DEF Alerts!vars, Alerts!TypeOK
<1> QED BY <1>1, <1>2, <1>3, <1>4 DEF Alerts!Next

LEMMA SlowTypesInit == Slow!Init => Slow!TypeOK
<1>1. Slow!Cap \in Nat
  BY SlowParameters DEF Slow!SlowAssumption, Slow!Cap
<1> SUFFICES ASSUME Slow!Init PROVE Slow!TypeOK
  OBVIOUS
<1>2. {answers, watching, owned, aborted} \subseteq BOOLEAN
  BY Zenon DEF Slow!Init
<1>3. tracker \in Slow!Entries /\ age \in 0 .. Slow!Cap /\ calm \in 0 .. Slow!Cap
  BY <1>1 DEF Slow!Init, Slow!NoEntry, Slow!Entries
<1>4. reboots \in 0 .. MaxRestarts
  BY RestartsBounded DEF Slow!Init
<1> QED BY <1>2, <1>3, <1>4 DEF Slow!Init, Slow!TypeOK

LEMMA SlowTypes == Judged /\ Slow!TypeOK /\ [Slow!Next]_(Slow!vars) => Slow!TypeOK'
<1> SUFFICES ASSUME Judged, Slow!TypeOK, [Slow!Next]_(Slow!vars) PROVE Slow!TypeOK'
  OBVIOUS
<1>0. Slow!Cap \in Nat
  BY SlowParameters DEF Slow!SlowAssumption, Slow!Cap
<1>1. tracker' \in Slow!Entries /\ calm' \in 0 .. Slow!Cap
  BY SlowNext DEF Judged
<1>3. CASE Slow!Pass
  <2>1. UNCHANGED <<answers, watching, owned, reboots>> /\ aborted' \in BOOLEAN
    BY <1>3 DEF Slow!Pass
  <2>2. torrent' \in {torrent, "absent"} /\ age' \in {0, Slow!Later(age)}
    BY <1>3 DEF Slow!Pass
  <2>3. Slow!Later(age) \in 0 .. Slow!Cap
    BY <1>0 DEF Slow!Later, Slow!TypeOK
  <2> QED BY <1>0, <1>1, <2>1, <2>2, <2>3 DEF Slow!TypeOK
<1>4. CASE Slow!Torrent
  <2>1. UNCHANGED <<answers, watching, owned, reboots>> /\ aborted' \in BOOLEAN
    BY <1>4, Zenon DEF Slow!Torrent
  <2>2. torrent' \in {"absent", "slow", "fast", "done"} /\ age' \in {0, age}
    BY <1>4 DEF Slow!Torrent, Slow!Add, Slow!Move
  <2> QED BY <1>0, <1>1, <2>1, <2>2 DEF Slow!TypeOK
<1>5. CASE Slow!Settings
  BY <1>1, <1>5 DEF Slow!Settings, Slow!TypeOK
<1>6. CASE Slow!Restart
  <2>1. UNCHANGED <<answers, watching, owned>> /\ aborted' \in BOOLEAN
    BY <1>6, Zenon DEF Slow!Restart
  <2>2. reboots' \in 0 .. MaxRestarts /\ UNCHANGED <<torrent, age>>
    BY <1>6, RestartsBounded DEF Slow!Restart, Slow!TypeOK
  <2> QED BY <1>1, <2>1, <2>2 DEF Slow!TypeOK
<1>7. CASE UNCHANGED Slow!vars
  BY <1>7 DEF Slow!vars, Slow!TypeOK
<1> QED BY <1>3, <1>4, <1>5, <1>6, <1>7 DEF Slow!Next

LEMMA JudgeMoves ==
  [PartsNext]_allVars => [Alerts!Next]_(Alerts!vars) /\ [Slow!Next]_(Slow!vars)
  BY DEF PartsNext, allVars, judgeVars, alertVars, slowVars, Alerts!vars, Slow!vars

(* Every variable of the loops keeps its type.                               *)
THEOREM TypesCorrect == PartsSpec => []TypesOK
<1> DEFINE Judging == Judged /\ Slow!TypeOK /\ Alerts!TypeOK
<1>1. PartsInit => Judging
  BY SlowInit, SlowTypesInit, AlertTypesInit DEF PartsInit
<1>2. Judging /\ [PartsNext]_allVars => Judging'
  BY SlowNext, SlowTypes, AlertTypes, JudgeMoves
<1>3. PartsSpec => []Judging
  BY <1>1, <1>2, PTL DEF PartsSpec
<1>4. PartsSpec => []Healthy
  BY PollerCorrect
<1>5. QueueInv /\ ChooserInv /\ Healthy /\ Judging => TypesOK
  BY DEF QueueInv, ChooserInv, Healthy, TypesOK
<1> QED BY <1>3, <1>4, <1>5, QueueCorrect, ChooserCorrect, PTL
=============================================================================
