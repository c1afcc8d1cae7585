---------------------------- MODULE SourceHealth ----------------------------
(* The health of the feed sources (engine/poller.go, store/sources.go,       *)
(* api/config_sources.go): pollLoop fetches every active source, counts its  *)
(* consecutive failures in memory, backs off and pauses the source's row at  *)
(* the limit, while an operator edits, resumes or deletes the row and the    *)
(* engine is stopped or killed.  What a fetched item becomes is module       *)
(* SeedLifecycle.  Times are kept as what is left until them.                *)
EXTENDS Integers, Sequences, FiniteSets

CONSTANTS
  Sources,
  NoSource,
  Limit,     \* maxSourceFailures
  Backoff,   \* the first delays of the injected backoff, the last one is its cap
  MaxShown,  \* bound of the counter in the database, which only a reader sees
  Budget     \* bound of the crashes, edits and deletions of a behaviour

\* What an instance of this module gives its parameters.
HealthAssumption ==
  /\ IsFiniteSet(Sources) /\ Sources # {} /\ NoSource \notin Sources
  /\ Limit \in Nat \ {0} /\ MaxShown \in Nat /\ Budget \in Nat
  /\ Backoff \in Seq(Nat) /\ Len(Backoff) > 0

\* backoff(attempt), attempt from 0
BackoffFor(attempt) ==
  Backoff[IF attempt + 1 <= Len(Backoff) THEN attempt + 1 ELSE Len(Backoff)]
Delays == {Backoff[n] : n \in 1 .. Len(Backoff)}
MaxDelay == CHOOSE d \in Delays : \A e \in Delays : e <= d

VARIABLES
  row,       \* the sources table
  state,     \* Engine.pollState; an absent entry is a fresh one
  poller,    \* pollLoop: where it is, the source at hand, the rest of its list
  running,   \* the engine's context is alive
  edit,      \* an updateSource request between its read and its write
  spent,     \* how much of Budget is used
  down,      \* environment: the sources whose feed fails
  streak,    \* history: failed fetches since the last success or pause
  rested     \* history: time since the last failed fetch, up to MaxDelay

vars == <<row, state, poller, running, edit, spent, down, streak, rested>>

Rows == [status : {"active", "paused", "deleted"}, fails : 0 .. MaxShown]
Fresh == [fails |-> 0, wait |-> 0]
NoEdit == [source |-> NoSource, fails |-> 0]
Places == {"idle", "next", "fetch", "inc", "pause", "alert", "backoff", "gone"}

TypeOK ==
  /\ row \in [Sources -> Rows]
  /\ state \in [Sources -> [fails : 0 .. Limit, wait : 0 .. MaxDelay]]
  /\ poller \in [at : Places, source : Sources \cup {NoSource}, list : SUBSET Sources]
  /\ running \in BOOLEAN
  /\ edit \in [source : Sources \cup {NoSource}, fails : 0 .. MaxShown]
  /\ spent \in 0 .. Budget
  /\ down \subseteq Sources
  /\ streak \in [Sources -> 0 .. Limit]
  /\ rested \in [Sources -> 0 .. MaxDelay]

Init ==
  /\ row = [s \in Sources |-> [status |-> "active", fails |-> 0]]
  /\ state = [s \in Sources |-> Fresh]
  /\ poller = [at |-> "idle", source |-> NoSource, list |-> {}]
  /\ running = TRUE
  /\ edit = NoEdit
  /\ spent = 0
  /\ down = {}
  /\ streak = [s \in Sources |-> 0]
  /\ rested = [s \in Sources |-> 0]

Exists(s) == row[s].status # "deleted"
UpTo(n, max) == IF n <= max THEN n ELSE max
\* Spends one of the budgeted disturbances.
Spend == spent < Budget /\ spent' = spent + 1

Go(place) == poller' = [poller EXCEPT !.at = place]
NextOf == [poller EXCEPT !.at = "next", !.source = NoSource]

-----------------------------------------------------------------------------
(* One cycle of the poller.                                                  *)

\* The rows that are neither paused nor deleted.
GetActiveSources == {s \in Sources : row[s].status = "active"}

ListActive ==
  /\ poller.at = "idle" /\ running
  /\ poller' = [poller EXCEPT !.at = "next", !.list = GetActiveSources]
  /\ UNCHANGED <<row, state, running, edit, spent, down, streak, rested>>

\* pollSource: nothing happens to a source that is still backing off.
BeginSource(s) ==
  /\ poller.at = "next" /\ s \in poller.list
  /\ poller' = IF state[s].wait > 0
                 THEN [poller EXCEPT !.list = @ \ {s}]
                 ELSE [at |-> "fetch", source |-> s, list |-> poller.list \ {s}]
  /\ UNCHANGED <<row, state, running, edit, spent, down, streak, rested>>

EndCycle ==
  /\ poller.at = "next" /\ poller.list = {}
  /\ Go("idle")
  /\ UNCHANGED <<row, state, running, edit, spent, down, streak, rested>>

FetchSucceeds(s) ==
  /\ poller.at = "fetch" /\ poller.source = s
  /\ running /\ s \notin down
  /\ state' = [state EXCEPT ![s] = Fresh]
  /\ streak' = [streak EXCEPT ![s] = 0]
  /\ poller' = NextOf
  /\ UNCHANGED <<row, running, edit, spent, down, rested>>

\* A cancelled context fails the fetch like a broken feed does.
FetchFails(s) ==
  /\ poller.at = "fetch" /\ poller.source = s
  /\ ~running \/ s \in down
  /\ state' = [state EXCEPT ![s].fails = @ + 1]
  /\ streak' = [streak EXCEPT ![s] = UpTo(@ + 1, Limit)]
  /\ rested' = [rested EXCEPT ![s] = 0]
  /\ Go("inc")
  /\ UNCHANGED <<row, running, edit, spent, down>>

\* IncSourceFail: for the dashboard only, its failure is logged.
IncSourceFail(s) ==
  /\ poller.at = "inc" /\ poller.source = s
  /\ row' = IF running /\ Exists(s)
              THEN [row EXCEPT ![s].fails = UpTo(@ + 1, MaxShown)] ELSE row
  /\ Go(IF state[s].fails >= Limit THEN "pause" ELSE "backoff")
  /\ UNCHANGED <<state, running, edit, spent, down, streak, rested>>

PauseSource(s) ==
  /\ poller.at = "pause" /\ poller.source = s
  /\ row' = IF running /\ Exists(s) THEN [row EXCEPT ![s].status = "paused"] ELSE row
  /\ Go("alert")
  /\ UNCHANGED <<state, running, edit, spent, down, streak, rested>>

\* The critical notification, and the entry of pollState is deleted.
Alert(s) ==
  /\ poller.at = "alert" /\ poller.source = s
  /\ state' = [state EXCEPT ![s] = Fresh]
  /\ streak' = [streak EXCEPT ![s] = 0]
  /\ poller' = NextOf
  /\ UNCHANGED <<row, running, edit, spent, down, rested>>

\* Fault for mutation: every delay is the first.
BackOffConstant(s) ==
  /\ poller.at = "backoff" /\ poller.source = s
  /\ state' = [state EXCEPT ![s].wait = BackoffFor(0)]
  /\ poller' = NextOf
  /\ UNCHANGED <<row, running, edit, spent, down, streak, rested>>

\* Fault for mutation: the delay is doubled on top of its schedule.
BackOffDoubled(s) ==
  /\ poller.at = "backoff" /\ poller.source = s
  /\ state' = [state EXCEPT ![s].wait = 2 * BackoffFor(state[s].fails - 1)]
  /\ poller' = NextOf
  /\ UNCHANGED <<row, running, edit, spent, down, streak, rested>>

BackOff(s) ==
  /\ poller.at = "backoff" /\ poller.source = s
  /\ state' = [state EXCEPT ![s].wait = BackoffFor(state[s].fails - 1)]
  /\ poller' = NextOf
  /\ UNCHANGED <<row, running, edit, spent, down, streak, rested>>

-----------------------------------------------------------------------------
(* The engine, the operator and the feeds.                                   *)

Cancel ==
  /\ running /\ poller.at # "gone"
  /\ running' = FALSE
  /\ UNCHANGED <<row, state, poller, edit, spent, down, streak, rested>>

\* The context is looked at between two cycles only.
PollerExits ==
  /\ poller.at = "idle" /\ ~running
  /\ Go("gone")
  /\ UNCHANGED <<row, state, running, edit, spent, down, streak, rested>>

\* Start again in the same process: pollState is kept.
Start ==
  /\ poller.at = "gone"
  /\ running' = TRUE
  /\ Go("idle")
  /\ UNCHANGED <<row, state, edit, spent, down, streak, rested>>

\* The end of the process and its next start.
Crash ==
  /\ Spend
  /\ state' = [s \in Sources |-> Fresh]
  /\ poller' = [at |-> "idle", source |-> NoSource, list |-> {}]
  /\ running' = TRUE
  /\ edit' = NoEdit
  /\ rested' = [s \in Sources |-> MaxDelay]
  /\ UNCHANGED <<row, down, streak>>

\* updateSource reads the row, then writes all of it: the status of the request
\* and the failure counter that it read.
UpdateReads(s) ==
  /\ edit = NoEdit /\ Exists(s)
  /\ Spend
  /\ edit' = [source |-> s, fails |-> row[s].fails]
  /\ UNCHANGED <<row, state, poller, running, down, streak, rested>>

UpdateWrites(status) ==
  /\ edit # NoEdit
  /\ row' = IF Exists(edit.source)
              THEN [row EXCEPT ![edit.source] = [status |-> status, fails |-> edit.fails]]
              ELSE row
  /\ edit' = NoEdit
  /\ UNCHANGED <<state, poller, running, spent, down, streak, rested>>

DeleteSource(s) ==
  /\ Exists(s)
  /\ Spend
  /\ row' = [row EXCEPT ![s].status = "deleted"]
  /\ UNCHANGED <<state, poller, running, edit, down, streak, rested>>

FeedChanges(s) ==
  /\ down' = IF s \in down THEN down \ {s} ELSE down \cup {s}
  /\ UNCHANGED <<row, state, poller, running, edit, spent, streak, rested>>

Tick ==
  /\ state' = [s \in Sources |-> [state[s] EXCEPT !.wait = IF @ = 0 THEN 0 ELSE @ - 1]]
  /\ rested' = [s \in Sources |-> UpTo(rested[s] + 1, MaxDelay)]
  /\ UNCHANGED <<row, poller, running, edit, spent, down, streak>>

PollStep ==
  \/ ListActive \/ EndCycle \/ PollerExits
  \/ \E s \in Sources :
       \/ BeginSource(s) \/ FetchSucceeds(s) \/ FetchFails(s) \/ IncSourceFail(s)
       \/ PauseSource(s) \/ Alert(s) \/ BackOff(s)

Next ==
  \/ PollStep \/ Tick
  \/ Cancel \/ Start \/ Crash
  \/ \E s \in Sources : UpdateReads(s) \/ DeleteSource(s) \/ FeedChanges(s)
  \/ \E status \in {"active", "paused"} : UpdateWrites(status)

Spec == Init /\ [][Next]_vars

\* Every fetch has a timeout and the alert's hand-over ends, the ticker starts every
\* cycle, time passes.
FairSpec == Spec /\ WF_vars(PollStep) /\ WF_vars(Tick)

-----------------------------------------------------------------------------
(* Properties.                                                               *)

\* A source is paused automatically only for Limit failed fetches without a
\* success or an earlier pause among them: what was counted before an operator's
\* resume never counts twice, through stops and restarts
\* (poller.go: sourceFailed deletes the entry of pollState).
PauseEarned ==
  \A s \in Sources : poller.at = "pause" /\ poller.source = s => streak[s] = Limit

\* After the n-th failure in a row a source is left alone for the n-th delay,
\* however late the poller comes to record it (poller.go: nextAllowed).
BackoffHonoured ==
  \A s \in Sources :
    poller.at = "fetch" /\ poller.source = s /\ state[s].fails > 0
      => rested[s] >= BackoffFor(state[s].fails - 1)

\* A source whose feed stays broken does not stay active: it is paused however
\* often stops, restarts and edits start its count anew, and stays paused once
\* nobody edits it any more (poller.go: sourceFailed).
BrokenIsPaused ==
  \A s \in Sources : <>[](s \in down /\ running) => <>[](row[s].status # "active")

\* A source that stays active is fetched again and again, whatever the other
\* sources do (poller.go: poll goes on after a failed source).
ActivePolled ==
  \A s \in Sources :
    <>[](row[s].status = "active" /\ running)
      => []<>(poller.at = "fetch" /\ poller.source = s)

\* A source is fetched or paused in the end, never forgotten.
PolledOrPaused == BrokenIsPaused /\ ActivePolled
=============================================================================
