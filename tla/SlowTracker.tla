---------------------------- MODULE SlowTracker -----------------------------
(* The abort of slow downloads (monitorSlow and abortSlowTorrent in          *)
(* engine/monitor.go, IsSlow in qb/client.go) for one torrent of one qB: a   *)
(* pass of the monitor samples it and counts how long it has been slow.      *)
(* What an abort makes of its seed and records is module SeedLifecycle.      *)
(* Time is counted in passes.                                                *)
EXTENDS Integers

CONSTANTS
  Duration,    \* LowSpeedDurationSec, in passes
  IdleLimit,   \* slowEntryIdle, in passes
  MaxRestarts  \* bound of the restarts of the process

\* What an instance of this module gives its parameters.
SlowAssumption == Duration \in Nat /\ IdleLimit \in Nat /\ MaxRestarts \in Nat

VARIABLES
  online,      \* environment: the qB answers Info and GetTorrent
  torrent,     \* environment: the torrent on it
  watching,    \* LowSpeedAction = "abort" and LowSpeedKbps > 0
  owned,       \* a replica row of this qB names the torrent's hash
  tracker,     \* slowTracker[hash]
  age,         \* history: passes since the torrent was added
  calm,        \* history: passes since the torrent was seen not to be slow
  aborted,     \* history: the last step was an abort
  restarts

vars == <<online, torrent, watching, owned, tracker, age, calm, aborted, restarts>>

Cap == IdleLimit + Duration + 1
Later(n) == IF n < Cap THEN n + 1 ELSE Cap

\* below: how long ago the speed fell under the threshold, while on = "slow";
\* idle: how long ago the entry was last touched.
Entries == [on : {"absent", "reset", "slow"}, below : 0 .. Cap, idle : 0 .. Cap]
NoEntry == [on |-> "absent", below |-> 0, idle |-> 0]
NewCount == [on |-> "slow", below |-> 0, idle |-> 0]

(* Every variable keeps its type.                                            *)
TypeOK ==
  /\ torrent \in {"absent", "slow", "fast", "done"}
  /\ {online, watching, owned, aborted} \subseteq BOOLEAN
  /\ tracker \in Entries
  /\ {age, calm} \subseteq 0 .. Cap /\ restarts \in 0 .. MaxRestarts

Init ==
  /\ torrent = "absent" /\ tracker = NoEntry
  /\ online = TRUE /\ owned = TRUE /\ watching = TRUE
  /\ age = 0 /\ calm = 0 /\ aborted = FALSE /\ restarts = 0

-----------------------------------------------------------------------------
\* Fault for mutation: a sample above the threshold leaves the count running.
ResetNothing(e) == e

(* resetSlowTimer                                                            *)
Reset(e) == IF e.on = "absent" THEN e ELSE [NewCount EXCEPT !.on = "reset"]

(* What IsSlow leaves in the tracker and answers.  Entries left alone for    *)
(* too long are dropped before this one is looked up.                        *)
Counting(e) == e.on = "slow" /\ e.idle <= IdleLimit
Sample(e) ==
  IF torrent = "fast" THEN Reset(e)
  ELSE IF Counting(e) THEN [e EXCEPT !.idle = 0] ELSE NewCount
IsSlow(e) == torrent = "slow" /\ Counting(e) /\ e.below >= Duration

\* The entry one pass later.
Aged(e) == [e EXCEPT !.below = IF e.on = "slow" THEN Later(@) ELSE 0,
                     !.idle = IF e.on = "absent" THEN 0 ELSE Later(@)]

(* monitorSlow: only downloading torrents are sampled, and only while aborts *)
(* are wanted; abortSlowTorrent deletes the torrent and leaves its entry.  A *)
(* delete that fails leaves all to the next pass.                            *)
Pass ==
  LET e == Aged(tracker)
      sampled == watching /\ online /\ torrent \in {"slow", "fast"}
  IN /\ tracker' = IF sampled THEN Sample(e) ELSE e
     /\ aborted' \in {FALSE, sampled /\ owned /\ IsSlow(e)}
     /\ torrent' = IF aborted' THEN "absent" ELSE torrent
     /\ calm' = IF sampled /\ torrent = "fast" THEN 0 ELSE Later(calm)
     /\ age' = IF torrent = "absent" THEN 0 ELSE Later(age)
     /\ UNCHANGED <<online, watching, owned, restarts>>

-----------------------------------------------------------------------------
(* The torrent is added, by the first relay of its seed or by a retry; its   *)
(* speed changes, it completes, or it is removed by hand.                    *)
Add == torrent = "absent" /\ torrent' \in {"slow", "fast"} /\ age' = 0
Move ==
  /\ torrent # "absent" /\ torrent' \in {"slow", "fast", "done", "absent"}
  /\ UNCHANGED age
Torrent ==
  /\ Add \/ Move
  /\ aborted' = FALSE
  /\ UNCHANGED <<online, watching, owned, tracker, calm, restarts>>

(* The qB goes away or comes back, the strategy is edited (putStrategy), the *)
(* replica row of the hash is written or removed.                            *)
Settings ==
  /\ \/ online' = ~online /\ UNCHANGED <<watching, owned>>
     \/ watching' = ~watching /\ UNCHANGED <<online, owned>>
     \/ owned' = ~owned /\ UNCHANGED <<online, watching>>
  /\ aborted' = FALSE
  /\ UNCHANGED <<torrent, tracker, age, calm, restarts>>

(* The process restarts: what it kept in memory is gone.                     *)
Restart ==
  /\ restarts < MaxRestarts /\ restarts' = restarts + 1
  /\ tracker' = NoEntry /\ aborted' = FALSE
  /\ UNCHANGED <<online, torrent, watching, owned, age, calm>>

Next == Pass \/ Torrent \/ Settings \/ Restart
Fairness == WF_vars(Pass)
Spec == Init /\ [][Next]_vars /\ Fairness

-----------------------------------------------------------------------------
(* "aborts torrents whose download speed has been below the strategy         *)
(* threshold for longer than the configured duration" (monitor.go:137): what *)
(* is aborted has been in the qB for that long.  The code does not keep it:  *)
(* the entry of an aborted torrent outlives it, and a retry within           *)
(* slowEntryIdle inherits its count.                                         *)
AbortEarned == aborted => age >= Duration

(* No download is aborted within the configured duration of a pass that saw  *)
(* it fast, whatever was missed in between (IsSlow, resetSlowTimer).         *)
SlowJudged == aborted => calm >= Duration

(* A download that stays slow on a reachable qB, owned by a replica, is      *)
(* aborted at last, so that its seed gets its retry, if a qB that is asked   *)
(* to delete it again and again does so once.                                *)
DeletesAtLast == SF_vars(Pass /\ aborted')
SlowAborted == DeletesAtLast => []<>~(torrent = "slow" /\ online /\ watching /\ owned)
=============================================================================
