---------------------------- MODULE MCRetryQueue ----------------------------
(* Instances of RetryQueue for TLC: its schedule of delays.                  *)
EXTENDS RetryQueue, TLC

\* Two delays; the last one also serves the third retry or failure.
TwoDelays == <<1, 2>>
=============================================================================
