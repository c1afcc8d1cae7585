-------------------------- MODULE MCSeedLifecycle --------------------------
(* Instances of SeedLifecycle for TLC: the budgets of the runs, and where    *)
(* one of them stops.                                                        *)
EXTENDS SeedLifecycle, TLC

Allow(n, F) == [f \in Faults |-> IF f \in F THEN n ELSE 0]

CrashTwiceRestOnce == [Allow(1, Faults) EXCEPT !["crash"] = 2]
CrashOnce == Allow(1, {"crash"})
StopOnce == Allow(1, {"stop"})

(* A bound: after the first stop, request or abort there are one seed, one   *)
(* worker beside the retry loop and one more crash at most.                  *)
First == CHOOSE s \in Seeds : TRUE
Extra == CHOOSE w \in Workers : TRUE
Bounded ==
  \/ \A f \in Faults \ {"crash"} : budget[f] = Budget[f]
  \/ /\ seen \subseteq {First} /\ budget["crash"] > 0
     /\ actor[Extra].pc \in {"idle", "exited"}
=============================================================================
