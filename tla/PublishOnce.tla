---------------------------- MODULE PublishOnce ----------------------------
(***************************************************************************)
(* What the pipeline promises about one seed and its target sites: for     *)
(* each target at most one upload is in flight, a target is settled (its   *)
(* record says published, cross-seeding or retired) only when the torrent  *)
(* really is on the site, and a settled target is never uploaded to again  *)
(* unless an operator asks for a full republish.                           *)
(***************************************************************************)
CONSTANT Targets

VARIABLES
  phase,   \* open, uploading or settled, for each target
  onSite   \* the targets whose site has the torrent

vars == <<phase, onSite>>

Init == /\ phase = [t \in Targets |-> "open"]
        /\ onSite \in SUBSET Targets

Begin(t) == /\ phase[t] = "open"
            /\ phase' = [phase EXCEPT ![t] = "uploading"]
            /\ UNCHANGED onSite

(* The site takes the torrent; the answer may or may not arrive.             *)
Accept(t) == /\ phase[t] = "uploading"
             /\ phase' = [phase EXCEPT ![t] = "open"]
             /\ onSite' = onSite \cup {t}

(* Rejected, timed out, or the process died with uploads in flight.          *)
Abandon(S) == /\ S # {} /\ \A t \in S : phase[t] = "uploading"
              /\ phase' = [t \in Targets |-> IF t \in S THEN "open" ELSE phase[t]]
              /\ UNCHANGED onSite

Settle(t) == /\ phase[t] = "open" /\ t \in onSite
             /\ phase' = [phase EXCEPT ![t] = "settled"]
             /\ UNCHANGED onSite

(* Somebody else uploads the torrent.                                        *)
Elsewhere(t) == onSite' = onSite \cup {t} /\ UNCHANGED phase

(* An operator's full rerun forgets what was settled.                        *)
Republish == /\ phase' = [t \in Targets |->
                            IF phase[t] = "settled" THEN "open" ELSE phase[t]]
             /\ UNCHANGED onSite

Next == \/ \E t \in Targets : Begin(t) \/ Accept(t) \/ Settle(t) \/ Elsewhere(t)
        \/ \E S \in SUBSET Targets : Abandon(S)
        \/ Republish

Spec == Init /\ [][Next]_vars
=============================================================================
