------------------------------ MODULE MCLoops -------------------------------
(* Instances for TLC of the engine's loops and what they decide with: the    *)
(* retry queue and its loop, the poller's pauses, the monitor's alerts and   *)
(* slow downloads, the dispatcher's choice of a qB.  They share no variable: *)
(* each is explored from its own initial states while the others rest.       *)
EXTENDS MCRetryQueue

CONSTANTS
  Sources, NoSource, Limit, MaxShown, Budget, QBs, MaxRestarts, Duration, IdleLimit,
  Trio, None, Amounts, MaxTurns

VARIABLES
  part,
  row, state, poller, running, edit, spent, down, streak, rested,
  online, free, disk, allOffline, told, outageTold, restarts,
  answers, torrent, watching, owned, tracker, age, calm, aborted, reboots,
  rows, registry, mode, cursor, picked, turns

Health == INSTANCE SourceHealth
Alerts == INSTANCE QBAlerts WITH Instances <- QBs
Slow == INSTANCE SlowTracker WITH online <- answers, restarts <- reboots
Chooser == INSTANCE Dispatch WITH Instances <- Trio
ASSUME HealthParameters == Health!HealthAssumption
ASSUME SlowParameters == Slow!SlowAssumption
ASSUME ChooserParameters == Chooser!DispatchAssumption

healthVars == <<row, state, poller, running, edit, spent, down, streak, rested>>
alertVars == <<online, free, disk, allOffline, told, outageTold, restarts>>
slowVars == <<answers, torrent, watching, owned, tracker, age, calm, aborted, reboots>>
chooserVars == <<rows, registry, mode, cursor, picked, turns>>
judgeVars == <<alertVars, slowVars>>
allVars == <<part, vars, healthVars, judgeVars, chooserVars>>

PartsInit ==
  /\ part \in {"queue", "health", "alerts", "slow", "chooser"}
  /\ Init /\ Health!Init /\ Alerts!Init /\ Slow!Init /\ Chooser!Init
  /\ part # "chooser" => rows = <<>> /\ mode = "priority"
PartsNext ==
  \/ part = "queue" /\ Next /\ UNCHANGED <<part, healthVars, judgeVars, chooserVars>>
  \/ part = "health" /\ Health!Next /\ UNCHANGED <<part, vars, judgeVars, chooserVars>>
  \/ /\ part = "alerts" /\ Alerts!Next
     /\ UNCHANGED <<part, vars, healthVars, slowVars, chooserVars>>
  \/ /\ part = "slow" /\ Slow!Next
     /\ UNCHANGED <<part, vars, healthVars, alertVars, chooserVars>>
  \/ part = "chooser" /\ Chooser!Next /\ UNCHANGED <<part, vars, healthVars, judgeVars>>
PartsSpec == PartsInit /\ [][PartsNext]_allVars

(* The fairness of the modules, each for its own part.                       *)
PartsFairness ==
  /\ WF_vars(part = "queue" /\ (Due \/ Submit \/ Sleep \/ Woken \/ TimerFires))
  /\ SF_vars(part = "queue" /\ Exit)
  /\ \A e \in Enqueuers : WF_vars(part = "queue" /\ Signal(e))
  /\ WF_vars(part = "queue" /\ Tick)
  /\ WF_healthVars(part = "health" /\ Health!PollStep)
  /\ WF_healthVars(part = "health" /\ Health!Tick)
  /\ WF_slowVars(part = "slow" /\ Slow!Pass)
FairPartsSpec == PartsSpec /\ PartsFairness

(* Every variable keeps its type (the modules' TypeOK).                      *)
TypesOK ==
  TypeOK /\ Health!TypeOK /\ Alerts!TypeOK /\ Slow!TypeOK /\ Chooser!TypeOK

(* A source's failures count exactly (SourceHealth).                         *)
SourcesKept == Health!PauseEarned /\ Health!BackoffHonoured

(* The operator knows the standing problem of the qBs (QBAlerts).            *)
AlertsCurrent == Alerts!AlertsCurrent

(* A fast download is not aborted (SlowTracker).                             *)
SlowJudged == Slow!SlowJudged

(* A qB that answers is preferred and every qB gets its turn (Dispatch).     *)
SelectionSound == part = "chooser" => Chooser!SelectionSound

(* The loops serve: the retry queue its items, but for the gap that           *)
(* Overslept names, until it is cancelled (RetryQueue), the poller each      *)
(* source until it is paused (SourceHealth), the monitor each download that  *)
(* stays slow (SlowTracker).                                                 *)
LoopsServe ==
  /\ QueueServes
  /\ part = "health" => Health!PolledOrPaused
  /\ Slow!SlowAborted
=============================================================================
