----------------------------- MODULE DirectPull -----------------------------
(* The download step of a Relay.  DownloadViaQB lets a qB fetch the seed's   *)
(* .torrent into the category relay-pending, finds out which torrent that    *)
(* was, exports it and deletes it again; an error falls back to a direct     *)
(* download, and the file is compared with the seed whichever way it came.   *)
(* Overlapping downloads share the category and a process-wide registry of   *)
(* the hashes that were pending before some download began.                  *)
EXTENDS Integers, FiniteSets

CONSTANTS
  Pulls,   \* the Relays that download at the same time
  Hashes,  \* info hashes of the seeds
  None     \* no hash

ASSUME PullAssumption == IsFiniteSet(Pulls) /\ None \notin Hashes

VARIABLES
  category,  \* qB: absent, pending (relay-pending) or kept (any other category)
  fetching,  \* qB: the torrents whose URL it accepted and has not listed yet
  registry,  \* pendingBefore, process-wide
  pull       \* per download: where it is and its local variables

vars == <<category, fetching, registry, pull>>

Categories == {"absent", "pending", "kept"}
Resting == {"idle", "done", "failed"}
Places == Resting \cup
  {"snapshot", "register", "add", "poll", "export", "clean", "discard", "direct", "verify"}

PullRecord ==
  [at : Places, seed : Hashes \cup {None}, before : SUBSET Hashes,
   hash : Hashes \cup {None}, file : Hashes \cup {None}]

NoPull == [at |-> "idle", seed |-> None, before |-> {}, hash |-> None, file |-> None]

Init ==
  /\ category \in [Hashes -> Categories]
  /\ fetching = {}
  /\ registry = {}
  /\ pull = [p \in Pulls |-> NoPull]

-----------------------------------------------------------------------------
(* Helpers.                                                                  *)

Pending == {h \in Hashes : category[h] = "pending"}

Goto(p, place) == pull' = [pull EXCEPT ![p].at = place]

(* An answer of torrents/add: its status, its text and the ids it names.     *)
AddRefused(a) == a.status >= 400 \/ (a.status = 200 /\ a.text = "Fails.")
AddedIDs(a) == IF a.text \in {"Ok.", ""} THEN {} ELSE a.ids

(* What qB can answer to the add of h: qB 5 lists a torrent it has added,    *)
(* qB 4 says Ok. and both may refuse.                                        *)
AddAnswers(h) ==
  {[status |-> 200, text |-> "Ok.", ids |-> {}],
   [status |-> 200, text |-> "Fails.", ids |-> {}],
   [status |-> 415, text |-> "", ids |-> {}]}
  \cup IF category[h] = "absent"
       THEN {[status |-> 200, text |-> "json", ids |-> {h}]} ELSE {}

(* The pending torrents that are new to this download and were not pending   *)
(* before any other download of this process.                                *)
Candidates(p) == Pending \ (pull[p].before \cup registry)

-----------------------------------------------------------------------------
(* The downloads.                                                            *)

(* sourceProvider.Download: the qB way first, if an instance can be picked.  *)
Begin(p, h) ==
  /\ pull[p].at \in Resting
  /\ \E way \in {"snapshot", "direct"} :
       pull' = [pull EXCEPT ![p] = [NoPull EXCEPT !.at = way, !.seed = h]]
  /\ UNCHANGED <<category, fetching, registry>>

(* The snapshot is empty when the list cannot be read.                       *)
Snapshot(p) ==
  /\ pull[p].at = "snapshot"
  /\ \E seen \in {Pending, {}} :
       pull' = [pull EXCEPT ![p].before = seen, ![p].at = "register"]
  /\ UNCHANGED <<category, fetching, registry>>

Register(p) ==
  /\ pull[p].at = "register"
  /\ registry' = registry \cup pull[p].before
  /\ Goto(p, "add")
  /\ UNCHANGED <<category, fetching>>

(* AddTorrentURL.  Without ids qB fetches the URL on its own; an add whose   *)
(* answer is lost has been accepted all the same.                            *)
Add(p) ==
  /\ pull[p].at = "add"
  /\ \/ \E a \in AddAnswers(pull[p].seed) :
          \/ /\ AddRefused(a)
             /\ Goto(p, "direct")
             /\ UNCHANGED <<category, fetching>>
          \/ /\ ~ AddRefused(a) /\ AddedIDs(a) = {}
             /\ fetching' = fetching \cup {pull[p].seed}
             /\ Goto(p, "poll")
             /\ UNCHANGED category
          \/ /\ ~ AddRefused(a)
             /\ \E h \in AddedIDs(a) :
                  /\ category' = [category EXCEPT ![h] = "pending"]
                  /\ pull' = [pull EXCEPT ![p].hash = h, ![p].at = "export"]
             /\ UNCHANGED fetching
     \/ /\ fetching' = fetching \cup {pull[p].seed}
        /\ Goto(p, "direct")
        /\ UNCHANGED category
  /\ UNCHANGED registry

(* qB lists a torrent it has fetched, unless it has it already or the source *)
(* refused the download.                                                     *)
Arrive(h) ==
  /\ h \in fetching
  /\ fetching' = fetching \ {h}
  /\ \/ category[h] = "absent" /\ category' = [category EXCEPT ![h] = "pending"]
     \/ UNCHANGED category
  /\ UNCHANGED <<registry, pull>>

(* Every three seconds; the last candidate in qB's own order.                *)
Poll(p) ==
  /\ pull[p].at = "poll"
  /\ \E h \in Candidates(p) :
       pull' = [pull EXCEPT ![p].hash = h, ![p].at = "export"]
  /\ UNCHANGED <<category, fetching, registry>>

(* 30 seconds without a candidate, or the context is done.                   *)
PollTimeout(p) ==
  /\ pull[p].at = "poll"
  /\ Goto(p, "direct")
  /\ UNCHANGED <<category, fetching, registry>>

(* ExportTorrent and WriteFile; a file that cannot be written leaves the     *)
(* torrent in qB.                                                            *)
Export(p) ==
  /\ pull[p].at = "export"
  /\ category[pull[p].hash] # "absent"
  /\ \/ pull' = [pull EXCEPT ![p].file = pull[p].hash, ![p].at = "clean"]
     \/ Goto(p, "direct")
  /\ UNCHANGED <<category, fetching, registry>>

(* 120 seconds without an export: delete and fail.  When the context is done *)
(* the delete is not sent any more.                                          *)
ExportTimeout(p) ==
  /\ pull[p].at = "export"
  /\ \E place \in {"discard", "direct"} : Goto(p, place)
  /\ UNCHANGED <<category, fetching, registry>>

(* Delete by hash, whatever the category; its error is ignored.              *)
Delete(p) ==
  /\ pull[p].at \in {"clean", "discard"}
  /\ \/ category' = [category EXCEPT ![pull[p].hash] = "absent"]
     \/ UNCHANGED category
  /\ Goto(p, IF pull[p].at = "clean" THEN "verify" ELSE "direct")
  /\ UNCHANGED <<fetching, registry>>

(* The direct download: what the site answers for the item, or nothing.      *)
Direct(p) ==
  /\ pull[p].at = "direct"
  /\ \/ \E h \in Hashes : pull' = [pull EXCEPT ![p].file = h, ![p].at = "verify"]
     \/ Goto(p, "failed")
  /\ UNCHANGED <<category, fetching, registry>>

(* downloadAndParse compares the file's info hash with the seed's.           *)
\* Fault for mutation: what qB exported is believed.
VerifyTrusting(p) ==
  /\ pull[p].at = "verify"
  /\ Goto(p, "done")
  /\ UNCHANGED <<category, fetching, registry>>
Verify(p) ==
  /\ pull[p].at = "verify"
  /\ Goto(p, IF pull[p].file = pull[p].seed THEN "done" ELSE "failed")
  /\ UNCHANGED <<category, fetching, registry>>

(* The process dies: the registry is gone, qB goes on.                       *)
Crash ==
  /\ registry' = {}
  /\ pull' = [p \in Pulls |-> NoPull]
  /\ UNCHANGED <<category, fetching>>

PullNext(p) ==
  \/ \E h \in Hashes : Begin(p, h)
  \/ Snapshot(p) \/ Register(p) \/ Add(p) \/ Poll(p) \/ PollTimeout(p)
  \/ Export(p) \/ ExportTimeout(p) \/ Delete(p) \/ Direct(p) \/ Verify(p)

Next ==
  \/ \E p \in Pulls : PullNext(p)
  \/ \E h \in Hashes : Arrive(h)
  \/ Crash

Spec == Init /\ [][Next]_vars

-----------------------------------------------------------------------------
(* Properties.                                                               *)

(* Every variable keeps its type.                                            *)
TypeOK ==
  /\ category \in [Hashes -> Categories]
  /\ fetching \subseteq Hashes /\ registry \subseteq Hashes
  /\ pull \in [Pulls -> PullRecord]

(* Whatever qB, other downloads or a crash do, a Relay goes on only with its *)
(* own seed's torrent: a torrent taken from another download, a left-over or *)
(* a wrong answer of the site ends the attempt.                              *)
VerifiedOnly == \A p \in Pulls : pull[p].at = "done" => pull[p].file = pull[p].seed
=============================================================================
