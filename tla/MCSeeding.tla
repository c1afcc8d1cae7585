----------------------------- MODULE MCSeeding ------------------------------
(* Instances for TLC of what makes a seed's records and what closes it: its  *)
(* publication and the retirement of its torrent.  The two share no          *)
(* variable: each is explored from its own initial states while the other    *)
(* rests.                                                                    *)
EXTENDS Publish, TLC

CONSTANTS Seeds, Always, Optional, MaxUpsets

ASSUME UpsetsAssumption == MaxUpsets \in Nat

VARIABLES part, torrent, strategy, status, replicas, pass, upsets

Retiring == INSTANCE Retirement

retireVars == <<torrent, strategy, status, replicas, pass, upsets>>
allVars == <<part, vars, retireVars>>

(* The strategy begins with every condition required; saves reach the others. *)
PartsInit ==
  /\ part \in {"publish", "retire"}
  /\ Init /\ Retiring!Init
  /\ strategy = [mode |-> "and", on |-> Optional]
  /\ part # "publish" => site = {}
PartsNext ==
  \/ part = "publish" /\ Next /\ UNCHANGED <<part, retireVars>>
  \/ part = "retire" /\ Retiring!Next /\ UNCHANGED <<part, vars>>
PartsSpec == PartsInit /\ [][PartsNext]_allVars

(* The fairness of the modules, each for its own part.                       *)
PartsFairness ==
  /\ \A r \in Relays : WF_vars(part = "publish" /\ EndRelay(r))
  /\ \A r \in Relays, t \in Targets : WF_vars(part = "publish" /\ PublishToOneTarget(r, t))
  /\ WF_retireVars(part = "retire" /\ Retiring!PassStep)
FairPartsSpec == PartsSpec /\ PartsFairness

(* Retirement is earned, and a pass closes a seed once (Retirement).         *)
RetirementSound == Retiring!RetiredOnMerit

(* The seeds get on: a Relay returns (Publish), and a seed that is ripe is   *)
(* retired in the end (Retirement).                                          *)
SeedsGetOn == RelayReturns /\ (part = "retire" => Retiring!RipeRetired)
=============================================================================
