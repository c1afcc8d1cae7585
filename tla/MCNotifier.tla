----------------------------- MODULE MCNotifier -----------------------------
(* Instances for TLC of the notifier's modules: the router, the breaker of   *)
(* an instance and the provider behind it.  They share no variable: each is  *)
(* explored from its own initial states while the others rest in theirs.     *)
EXTENDS NotifyRouter, TLC

CONSTANTS
  Senders, MaxFailures, OpenDuration, MaxTime, MaxSkips,
  Texts, Recipients, EditWindow, MaxFaults, None

VARIABLES
  part,
  now, state, failures, openedAt, probing, skips, call,
  config, shown, gone, ref, quiet, mail, inbox, result, faults

\* All instances subscribe to warnings, one of them to critical messages too.
Subscribers ==
  (Instances \X Topics) \cup {<<CHOOSE i \in Instances : TRUE, u>> : u \in Urgent}

Circuit == INSTANCE Breaker WITH Callers <- Senders
Provider == INSTANCE Providers WITH Window <- EditWindow
ASSUME RouterParameters == RouterAssumption
ASSUME CircuitParameters == Circuit!BreakerAssumption
ASSUME ProviderParameters == Provider!ProviderAssumption

circuitVars == <<now, state, failures, openedAt, probing, skips, call>>
providerVars == <<config, shown, gone, ref, quiet, mail, inbox, result, faults>>
allVars == <<part, vars, circuitVars, providerVars>>

PartsInit ==
  /\ part \in {"router", "breaker", "provider"}
  /\ Init /\ Circuit!Init /\ Provider!Init
  /\ part # "provider" => config.type = "smtp"
PartsNext ==
  \/ part = "router" /\ Next /\ UNCHANGED <<part, circuitVars, providerVars>>
  \/ part = "breaker" /\ Circuit!Next /\ UNCHANGED <<part, vars, providerVars>>
  \/ part = "provider" /\ Provider!Next /\ UNCHANGED <<part, vars, circuitVars>>
PartsSpec == PartsInit /\ [][PartsNext]_allVars

(* The fairness of the modules, each for its own part.                       *)
PartsFairness ==
  /\ WF_vars(part = "router" /\ Tick)
  /\ \A t \in Threads : WF_vars(part = "router" /\ (Sweep(t) \/ Send(t) \/ AllSent(t)))
  /\ \A f \in Flushers : /\ WF_vars(part = "router" /\ FlusherTicks(f))
                         /\ SF_vars(part = "router" /\ FlusherExits(f))
  /\ WF_vars(part = "router" /\ (Flush \/ StopCancels \/ StopWaits))
  /\ WF_providerVars(part = "provider" /\ Provider!Tick)
  /\ WF_providerVars(part = "provider" /\ \E text \in Texts : Provider!SendTelegram(text))
FairPartsSpec == PartsSpec /\ PartsFairness

(* Every variable of the notifier keeps its type (the modules' TypeOK).      *)
TypesOK == TypeOK /\ Circuit!TypeOK /\ Provider!TypeOK

(* One probe at a time, the threshold, and the window kept to its end        *)
(* (Breaker).                                                                *)
BreakerSound == Circuit!BreakerSound

(* The chat is not flooded (Providers).                                      *)
ChatKept == Provider!NoFlood

(* A mail reaches all of its recipients or none (Providers).                 *)
MailWhole == Provider!MailWhole

(* What is buffered goes out, Stop returns (NotifyRouter), and the chat is   *)
(* not silenced for good (Providers).                                        *)
NotifierServes == RouterServes /\ Provider!ChatRecovers
=============================================================================
