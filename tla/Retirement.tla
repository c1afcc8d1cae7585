----------------------------- MODULE Retirement ------------------------------
(* The monitor's reconciliation of one qB with the seeds and its decision to *)
(* retire (engine/monitor.go): ownership by replica rows, the fallback by    *)
(* info_hash, and a pass that works on the list of torrents it took at the   *)
(* start while attempts, operators and qB go on.  Torrents of different      *)
(* info_hashes do not meet, so one is watched; the seeds are those of        *)
(* several sites that have it (UNIQUE (source_site, info_hash)).  What       *)
(* retiring does to the records is in Publish.                               *)
EXTENDS FiniteSets, Naturals

CONSTANTS
  Seeds,
  Always,   \* conditions of the strategy that are always on: seeders, minutes
  Optional, \* conditions that the strategy switches: the ratio
  MaxUpsets \* bound: crashes and failed reads of the records, torrents gone or
            \* worse than they were, attempts at settled seeds, edits and deletes

VARIABLES
  torrent,   \* in qB: absent, loading or done, and the conditions it meets
  strategy,  \* retire_mode and the conditions switched on
  status,    \* of the seeds; "relaying" stands for what is not named here
  replicas,  \* seed_replicas of this qB, UNIQUE (seed, role)
  pass,      \* the pass under way and the torrent as it listed it
  upsets     \* how many of these there were

vars == <<torrent, strategy, status, replicas, pass, upsets>>

Upset == upsets < MaxUpsets /\ upsets' = upsets + 1

Conditions == Always \cup Optional
Roles == {"origin", "cross"}
Statuses == {"seeding", "relaying", "retired", "gone"}
Absent == [st |-> "absent", met |-> {}]
Unread == [mode |-> "or", on |-> {}]
Resting == [pc |-> "rest", listed |-> Absent, todo |-> {}, processed |-> {}, retired |-> {},
            at |-> "next", sd |-> {}, st |-> Unread, reps |-> {}]

Torrents == [st : {"absent", "loading", "done"}, met : SUBSET Conditions]
Strategies == [mode : {"and", "or"}, on : SUBSET Optional]
Passes == [pc : {"rest", "rows", "replicas", "match"}, listed : Torrents,
           todo : SUBSET (Seeds \cup (Seeds \X Roles)),
           processed : SUBSET Seeds, retired : SUBSET Seeds,
           at : {"next", "delete", "records", "reps", "close"},
           sd : SUBSET Seeds, st : Strategies, reps : SUBSET (Seeds \X Roles)]

(* Every variable keeps its type, and a deleted seed has no rows.            *)
TypeOK ==
  /\ torrent \in Torrents /\ strategy \in Strategies
  /\ status \in [Seeds -> Statuses]
  /\ replicas \subseteq {s \in Seeds : status[s] # "gone"} \X Roles
  /\ pass \in Passes
  /\ upsets \in 0 .. MaxUpsets

Init ==
  /\ torrent = Absent /\ replicas = {} /\ pass = Resting /\ upsets = 0
  /\ strategy \in Strategies
  /\ status = [s \in Seeds |-> "relaying"]

-----------------------------------------------------------------------------
(* The decision (shouldRetire, IsCompletedSeeding).                          *)

ShouldRetire(met, st) ==
  LET active == Always \cup st.on IN
  IF st.mode = "or" THEN met \cap active # {} ELSE active \subseteq met
Ripe(t, st) == t.st = "done" /\ ShouldRetire(t.met, st)

(* What a pass does after a check: the next row, or it ends.                 *)
Checked(p) ==
  IF p.pc = "match" THEN Resting
                    ELSE [p EXCEPT !.at = "next", !.sd = {}, !.st = Unread]

(* retireCheck(s) reads the strategy and judges; what is ripe it retires in  *)
(* the steps below.                                                          *)
RetireCheck(s, p) ==
  pass' = IF Ripe(p.listed, strategy)
          THEN [p EXCEPT !.at = "delete", !.sd = {s}, !.st = strategy] ELSE Checked(p)

(* The torrent is deleted from qB by its hash, which may fail.               *)
Delete ==
  /\ pass.at = "delete"
  /\ torrent' \in {torrent, Absent}
  /\ pass' = [pass EXCEPT !.at = "records"]
  /\ UNCHANGED <<strategy, status, replicas, upsets>>

(* When the records cannot be read the check returns, the torrent deleted    *)
(* and the seed open; else the published ones are retired (Publish).         *)
MarkRetired ==
  /\ pass.at = "records"
  /\ \/ pass' = [pass EXCEPT !.at = "reps"] /\ UNCHANGED upsets
     \/ Upset /\ pass' = Checked(pass)
  /\ UNCHANGED <<torrent, strategy, status, replicas>>

(* The replicas are listed, of every instance; none when that fails.         *)
ListReplicas ==
  /\ pass.at = "reps"
  /\ \E rows \in {{}, {r \in replicas : r[1] \in pass.sd}} :
       pass' = [pass EXCEPT !.at = "close", !.reps = rows]
  /\ UNCHANGED <<torrent, strategy, status, replicas, upsets>>

DeleteReplica(r) ==
  /\ pass.at = "close" /\ r \in pass.reps
  /\ pass' = [pass EXCEPT !.reps = @ \ {r}]
  /\ replicas' = replicas \ {r}
  /\ UNCHANGED <<torrent, strategy, status, upsets>>

(* UpdateSeedStatus(retired), whatever the status is by now.                 *)
Close ==
  /\ pass.at = "close" /\ pass.reps = {}
  /\ status' = [s \in Seeds |-> IF s \in pass.sd /\ status[s] # "gone"
                                THEN "retired" ELSE status[s]]
  /\ pass' = Checked([pass EXCEPT !.retired = @ \cup pass.sd])
  /\ UNCHANGED <<torrent, strategy, replicas, upsets>>

-----------------------------------------------------------------------------
(* The pass.                                                                 *)

(* A pass that lists no torrent passes every row over: it is left out.       *)
Info ==
  /\ pass.pc = "rest" /\ torrent.st # "absent"
  /\ pass' = [Resting EXCEPT !.pc = "rows", !.listed = torrent]
  /\ UNCHANGED <<torrent, strategy, status, replicas, upsets>>

ListReplicasByQB ==
  /\ pass.pc = "rows"
  /\ pass' = [pass EXCEPT !.pc = "replicas", !.todo = replicas]
  /\ UNCHANGED <<torrent, strategy, status, replicas, upsets>>

(* The row of a deleted seed is passed over, and a seed is checked once,     *)
(* whatever its status.                                                      *)
\* Fault for mutation: a check for every row.
PassedOverUncounted(s) == status[s] = "gone"
PassedOver(s) == status[s] = "gone" \/ s \in pass.processed

(* The next row listed.                                                      *)
CheckReplica(s, role) ==
  /\ pass.pc = "replicas" /\ pass.at = "next" /\ <<s, role>> \in pass.todo
  /\ LET rest == [pass EXCEPT !.todo = @ \ {<<s, role>>}] IN
       IF PassedOver(s) THEN pass' = rest
                        ELSE RetireCheck(s, [rest EXCEPT !.processed = @ \cup {s}])
  /\ UNCHANGED <<torrent, strategy, status, replicas, upsets>>

(* fallbackHashMatch lists the seeding seeds that no row led to.             *)
SeedingSeeds ==
  /\ pass.pc = "replicas" /\ pass.at = "next" /\ pass.todo = {}
  /\ pass' = [pass EXCEPT !.pc = "match", !.processed = {},
                          !.todo = {s \in Seeds : status[s] = "seeding"} \ pass.processed]
  /\ UNCHANGED <<torrent, strategy, status, replicas, upsets>>

(* Exactly one of them may claim the torrent.  It is given an origin row,    *)
(* unless it has one, was deleted (foreign key) or the database fails, and   *)
(* is checked.                                                               *)
Claim(s) == IF status[s] = "gone" THEN replicas ELSE replicas \cup {<<s, "origin">>}
MatchHash ==
  /\ pass.pc = "match" /\ pass.at = "next"
  /\ IF Cardinality(pass.todo) = 1
       THEN \E s \in pass.todo :
              replicas' \in {replicas, Claim(s)} /\ RetireCheck(s, pass)
       ELSE UNCHANGED replicas /\ pass' = Resting
  /\ UNCHANGED <<torrent, strategy, status, upsets>>

RetireStep ==
  \/ Delete \/ MarkRetired \/ ListReplicas \/ Close
  \/ \E r \in pass.reps : DeleteReplica(r)

PassStep ==
  \/ Info \/ ListReplicasByQB \/ SeedingSeeds \/ MatchHash \/ RetireStep
  \/ \E s \in Seeds, role \in Roles : CheckReplica(s, role)

(* The process dies, or a forced stop cancels the context and nothing more   *)
(* of the pass has an effect.                                                *)
Crash ==
  /\ Upset
  /\ pass # Resting /\ pass' = Resting
  /\ UNCHANGED <<torrent, strategy, status, replicas>>

-----------------------------------------------------------------------------
(* What goes on meanwhile.                                                   *)

(* qB: the torrent is added, finishes and meets conditions, ...              *)
TorrentProceeds ==
  /\ \/ torrent.st = "absent" /\ torrent' = [Absent EXCEPT !.st = "loading"]
     \/ torrent.st = "loading" /\ torrent' = [torrent EXCEPT !.st = "done"]
     \/ \E c \in Conditions : torrent.st = "done" /\ c \notin torrent.met
                              /\ torrent' = [torrent EXCEPT !.met = @ \cup {c}]
  /\ UNCHANGED <<strategy, status, replicas, pass, upsets>>

(* ... meets them no longer, or is removed by hand.                          *)
TorrentRelapses ==
  /\ Upset
  /\ torrent' \in {[torrent EXCEPT !.met = @ \ Always], Absent} \ {torrent}
  /\ UNCHANGED <<strategy, status, replicas, pass>>

(* An attempt begins (a retry or a resend, of a retired seed too) and ends,  *)
(* with a row for a torrent cross-seeded on the way.                         *)
Relay(s) ==
  /\ Upset
  /\ status[s] \in {"seeding", "retired"} /\ status' = [status EXCEPT ![s] = "relaying"]
  /\ UNCHANGED <<torrent, strategy, replicas, pass>>
CrossSeed(s) ==
  /\ status[s] = "relaying" /\ replicas' = replicas \cup {<<s, "cross">>}
  /\ UNCHANGED <<torrent, strategy, status, pass, upsets>>
Relayed(s) ==
  /\ status[s] = "relaying" /\ status' = [status EXCEPT ![s] = "seeding"]
  /\ UNCHANGED <<torrent, strategy, replicas, pass, upsets>>

(* The operator deletes a seed, its rows go with it, or saves a strategy.    *)
DeleteSeed(s) ==
  /\ Upset
  /\ status[s] # "gone" /\ status' = [status EXCEPT ![s] = "gone"]
  /\ replicas' = {r \in replicas : r[1] # s}
  /\ UNCHANGED <<torrent, strategy, pass>>
PutStrategy(on, mode) ==
  /\ Upset
  /\ strategy' = [mode |-> mode, on |-> on] /\ strategy' # strategy
  /\ UNCHANGED <<torrent, status, replicas, pass>>

Next ==
  \/ PassStep \/ Crash \/ TorrentProceeds \/ TorrentRelapses
  \/ \E s \in Seeds : Relay(s) \/ CrossSeed(s) \/ Relayed(s) \/ DeleteSeed(s)
  \/ \E on \in SUBSET Optional, mode \in {"and", "or"} : PutStrategy(on, mode)

Spec == Init /\ [][Next]_vars /\ WF_vars(PassStep)

-----------------------------------------------------------------------------
(* A seed is closed only by a check that found its torrent finished and met  *)
(* the strategy it read, of the pass under way and not of one that a crash   *)
(* cut off; and a pass closes it once, however many rows it has and although *)
(* an attempt may have opened it again in between (monitorInstance,          *)
(* retireCheck).                                                             *)
RetiredOnMerit ==
  [][\A s \in Seeds : status[s] # "retired" /\ status'[s] = "retired" =>
       Ripe(pass.listed, pass.st) /\ s \notin pass.retired]_vars

(* A seeding seed whose finished torrent meets every condition and which     *)
(* nobody disturbs is retired in the end, with a row or without one, when    *)
(* no other seeding seed shares the hash: also after a crash in the middle   *)
(* of a check, as long as the torrent is still in qB (monitorInstance).      *)
RipeRetired ==
  \A s \in Seeds :
    ~ <>[] /\ torrent = [st |-> "done", met |-> Conditions]
           /\ {x \in Seeds : status[x] = "seeding"} = {s}
=============================================================================
