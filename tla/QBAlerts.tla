------------------------------ MODULE QBAlerts ------------------------------
(* What the monitor reports of the qB instances (engine/monitor.go,          *)
(* qb/manager.go): one Pass pings every registered instance and asks those   *)
(* that answer for their free space, and alerts on what is new.              *)
EXTENDS Integers

CONSTANTS
  Instances,
  MaxRestarts  \* bound of the restarts of the process

VARIABLES
  online,      \* environment: the instances that answer a ping
  free,        \* environment: where an instance's free space stands
  disk,        \* Engine.diskState
  allOffline,  \* Engine.qbAllOffline
  told,        \* history: the level of the last alert about each disk
  outageTold,  \* history: the standing outage has been announced
  restarts

vars == <<online, free, disk, allOffline, told, outageTold, restarts>>

Levels == {"ok", "low", "critical"}

(* Every variable keeps its type.                                            *)
TypeOK ==
  /\ online \subseteq Instances
  /\ free \in [Instances -> Levels]
  /\ disk \in [Instances -> Levels \cup {"unknown"}]
  /\ told \in [Instances -> Levels]
  /\ {allOffline, outageTold} \subseteq BOOLEAN
  /\ restarts \in 0 .. MaxRestarts

Init ==
  /\ online = Instances
  /\ free = [i \in Instances |-> "ok"] /\ told = free
  /\ disk = [i \in Instances |-> "unknown"]
  /\ allOffline = FALSE /\ outageTold = FALSE /\ restarts = 0

-----------------------------------------------------------------------------
(* AllHealthy: a ping of every registered instance.                          *)
AllHealthy == [i \in Instances |-> [online |-> i \in online]]

(* observeHealth: the critical alert is given when the flag is not up yet;   *)
(* without instances nothing is observed.                                    *)
ObserveHealth(statuses) ==
  LET outage == \A i \in Instances : ~statuses[i].online
  IN IF Instances = {} THEN UNCHANGED <<allOffline, outageTold>>
     ELSE /\ allOffline' = outage
          /\ outageTold' = (outage /\ (outageTold \/ ~allOffline))

\* Fault for mutation: any known problem keeps the next one quiet.
AnnouncesOnce(level, before) == level # "ok" /\ before \notin {"low", "critical"}

\* A new level of a disk is announced; its recovery is recorded silently.
Announces(level, before) == level # "ok" /\ level # before

(* monitorDisk on every instance whose Info and disk query answer.           *)
MonitorDisk(answering) ==
  /\ disk' = [i \in Instances |-> IF i \in answering THEN free[i] ELSE disk[i]]
  /\ told' = [i \in Instances |->
       IF i \notin answering THEN told[i]
       ELSE IF Announces(free[i], disk[i]) \/ free[i] = "ok" THEN free[i]
       ELSE told[i]]

(* One round of monitor; an instance that is up may still fail a query.      *)
Pass ==
  /\ ObserveHealth(AllHealthy)
  /\ \E answering \in SUBSET online : MonitorDisk(answering)
  /\ UNCHANGED <<online, free, restarts>>

(* A qB goes down or comes back, a disk fills or empties.                    *)
Outside ==
  /\ \E i \in Instances :
       \/ online' \in {online \cup {i}, online \ {i}} /\ UNCHANGED free
       \/ (\E l \in Levels : free' = [free EXCEPT ![i] = l]) /\ UNCHANGED online
  /\ UNCHANGED <<disk, allOffline, told, outageTold, restarts>>

(* The process restarts and forgets what it has reported.                    *)
Restart ==
  /\ restarts < MaxRestarts /\ restarts' = restarts + 1
  /\ allOffline' = FALSE /\ disk' = [i \in Instances |-> "unknown"]
  /\ UNCHANGED <<online, free, told, outageTold>>

Next == Pass \/ Outside \/ Restart
Spec == Init /\ [][Next]_vars

-----------------------------------------------------------------------------
(* The operator knows the standing problem: a disk recorded as low or        *)
(* critical was last announced at that very level, and a recorded outage of  *)
(* every qB was announced, however the levels moved, queries failed and the  *)
(* process restarted in between (monitorDisk, observeHealth).                *)
AlertsCurrent ==
  /\ \A i \in Instances : disk[i] \in {"low", "critical"} => told[i] = disk[i]
  /\ allOffline => outageTold
=============================================================================
