---------------------------- MODULE RetryQueue ----------------------------
(***************************************************************************)
(* The delay queue of failed seeds and the goroutine that drains it        *)
(* (backend/internal/engine/retry.go): Enqueue appends under the lock and  *)
(* signals afterwards through a channel of one slot, retryLoop alternates  *)
(* Due, submitJob and a sleep whose length NextWait computes, and time     *)
(* passes between any two of these.                                        *)
(***************************************************************************)
EXTENDS Ranks, Sequences

CONSTANTS
  Seeds,         \* the seeds that are retried
  Enqueuers,     \* the other goroutines that enqueue: workers, monitor, API
  RetryMax,      \* strategy.retry_max
  Backoff,       \* retryBackoffs, in ticks
  MaxTime,       \* bound: the last tick
  MaxEnqueues    \* bound: how many Enqueues the other goroutines make

ASSUME RetryQueueAssumption ==
  /\ RetryMax \in Nat \ {0}
  /\ Backoff \in Seq(Nat \ {0}) /\ Backoff # <<>>
  /\ MaxTime \in Nat /\ MaxEnqueues \in Nat

VARIABLES
  now,        \* the clock
  items,      \* RetryQueue.items, in insertion order
  wake,       \* the wake channel holds its one token
  signalling, \* the enqueuers between append and signal
  enqueues,   \* how many Enqueues were made
  loop,       \* the program counter of retryLoop
  batch,      \* the due items it is working through
  timer,      \* when its timer fires
  cancelled   \* the engine context is cancelled

queue == <<items, wake, signalling, enqueues>>
retryLoop == <<loop, batch, timer>>
vars == <<now, queue, retryLoop, cancelled>>

Item(s, n, due) == [seed |-> s, no |-> n, due |-> due]

-----------------------------------------------------------------------------
(* Helpers.                                                                  *)

(* The last entry of the schedule serves every larger retry number.          *)
BackoffFor(n) ==
  LET i == IF n < 1 THEN 1 ELSE n
  IN  Backoff[IF i > Len(Backoff) THEN Len(Backoff) ELSE i]

Add(s, n) == items' = Append(items, Item(s, n, now + BackoffFor(n)))

DueNow == {i \in DOMAIN items : items[i].due <= now}
Later == {i \in DOMAIN items : items[i].due > now}

QueuedItems == {items[i] : i \in DOMAIN items}

Earliest(its) == CHOOSE d \in {it.due : it \in its} : \A it \in its : d <= it.due

-----------------------------------------------------------------------------
Init ==
  /\ now = 0
  /\ items = <<>>
  /\ wake = FALSE
  /\ signalling = {}
  /\ enqueues = 0
  /\ loop = "drain"
  /\ batch = <<>>
  /\ timer = 0
  /\ cancelled = FALSE

-----------------------------------------------------------------------------
(* Enqueue by another goroutine: a first retry, a rebuilt one, or one of a     *)
(* slow abort, whose number may lie past RetryMax.                           *)

Append1(e, s, n) ==
  /\ e \notin signalling
  /\ enqueues < MaxEnqueues
  /\ Add(s, n)
  /\ signalling' = signalling \cup {e}
  /\ enqueues' = enqueues + 1
  /\ UNCHANGED <<now, wake, retryLoop, cancelled>>

(* signal: a full channel already holds the token.                           *)
Signal(e) ==
  /\ e \in signalling
  /\ wake' = TRUE
  /\ signalling' = signalling \ {e}
  /\ UNCHANGED <<now, items, enqueues, retryLoop, cancelled>>

-----------------------------------------------------------------------------
(* retryLoop.                                                                *)

Due ==
  /\ loop = "drain"
  /\ batch' = EntriesAt(items, DueNow)
  /\ items' = EntriesAt(items, Later)
  /\ loop' = "submit"
  /\ UNCHANGED <<now, wake, signalling, enqueues, timer, cancelled>>

(* submitJob of the next item: relayed, exhausted, or enqueued again.  Only   *)
(* this goroutine receives from wake, so its append and signal are one step. *)
Submit ==
  /\ loop = "submit" /\ batch # <<>>
  /\ batch' = Tail(batch)
  /\ \/ UNCHANGED <<items, wake>>
     \/ /\ Head(batch).no + 1 <= RetryMax
        /\ Add(Head(batch).seed, Head(batch).no + 1)
        /\ wake' = TRUE
  /\ UNCHANGED <<now, signalling, enqueues, loop, timer, cancelled>>

(* Fault for mutation: NextWait looks at the first item only.                *)
SleepByFirstItem ==
  /\ loop = "submit" /\ batch = <<>>
  /\ IF items = <<>> \/ Head(items).due <= now
     THEN loop' = "blocked" /\ UNCHANGED timer
     ELSE loop' = "timed" /\ timer' = Head(items).due
  /\ UNCHANGED <<now, queue, batch, cancelled>>

(* NextWait, and the select it leads to: 0 for an empty queue and for a queue *)
(* with a due item alike, and then no timer is set.                          *)
Sleep ==
  /\ loop = "submit" /\ batch = <<>>
  /\ IF items = <<>> \/ Earliest(QueuedItems) <= now
     THEN loop' = "blocked" /\ UNCHANGED timer
     ELSE loop' = "timed" /\ timer' = Earliest(QueuedItems)
  /\ UNCHANGED <<now, queue, batch, cancelled>>

Woken ==
  /\ loop \in {"blocked", "timed"} /\ wake
  /\ wake' = FALSE
  /\ loop' = "drain"
  /\ UNCHANGED <<now, items, signalling, enqueues, batch, timer, cancelled>>

TimerFires ==
  /\ loop = "timed" /\ now >= timer
  /\ loop' = "drain"
  /\ UNCHANGED <<now, queue, batch, timer, cancelled>>

Exit ==
  /\ cancelled
  /\ loop \in {"blocked", "timed"}
  /\ loop' = "exited"
  /\ UNCHANGED <<now, queue, batch, timer, cancelled>>

-----------------------------------------------------------------------------
Cancel ==
  /\ ~ cancelled
  /\ cancelled' = TRUE
  /\ UNCHANGED <<now, queue, retryLoop>>

Tick ==
  /\ now < MaxTime
  /\ now' = now + 1
  /\ UNCHANGED <<queue, retryLoop, cancelled>>

LoopNext == Due \/ Submit \/ Sleep \/ Woken \/ TimerFires \/ Exit

EnqueuerNext(e) ==
  Signal(e) \/ \E s \in Seeds, n \in 1 .. RetryMax + 1 : Append1(e, s, n)

Next == LoopNext \/ (\E e \in Enqueuers : EnqueuerNext(e)) \/ Cancel \/ Tick

Spec == Init /\ [][Next]_vars

(* The loop and a begun Enqueue are scheduled, a cancelled select takes its   *)
(* Done case (a token in wake can be taken first, but not for ever), and     *)
(* time passes.                                                              *)
Fairness ==
  /\ WF_vars(Due \/ Submit \/ Sleep \/ Woken \/ TimerFires)
  /\ SF_vars(Exit)
  /\ \A e \in Enqueuers : WF_vars(Signal(e))
  /\ WF_vars(Tick)

FairSpec == Spec /\ Fairness

-----------------------------------------------------------------------------
(* Properties.                                                               *)

(* Every variable keeps its type.                                            *)
TypeOK ==
  /\ now \in Nat
  /\ items \in Seq([seed : Seeds, no : Nat, due : Nat])
  /\ wake \in BOOLEAN
  /\ signalling \subseteq Enqueuers
  /\ enqueues \in 0 .. MaxEnqueues
  /\ loop \in {"drain", "submit", "blocked", "timed", "exited"}
  /\ batch \in Seq([seed : Seeds, no : Nat, due : Nat])
  /\ timer \in Nat
  /\ cancelled \in BOOLEAN

WakeComing == wake \/ signalling # {}

(* The loop is blocked without a timer over an item that is due, and no       *)
(* wake-up is on its way: the item waits until something else is enqueued.   *)
Overslept ==
  loop = "blocked" /\ ~ WakeComing /\ \E it \in QueuedItems : it.due <= now

(* A timer never overshoots: while retryLoop sleeps with a timer, each queued *)
(* item is due no earlier than the timer, or a wake-up is on its way.  And    *)
(* it sleeps without a timer over an empty queue, or else over an item that  *)
(* is due already, which NextWait does not tell from an empty queue: the gap *)
(* is there, and it is the only one.                                         *)
SleepCovered ==
  ~ WakeComing =>
    /\ loop = "timed" => items # <<>> /\ \A it \in QueuedItems : it.due >= timer
    /\ loop = "blocked" => items = <<>> \/ Overslept

(* retryLoop blocks without a timer only while the queue is empty: "Queue     *)
(* empty: block until a wake or shutdown", as its comment says.  The code    *)
(* breaks it: an item that comes due after Due and before NextWait, while    *)
(* another seed is relayed for instance, makes NextWait answer 0.            *)
BlocksOnlyWhenEmpty == loop = "blocked" /\ ~ WakeComing => items = <<>>

(* An entry that Due handed over is out of the queue, so it runs once: the   *)
(* entries held together never outnumber the enqueues that made them.        *)
Outstanding == Len(items) + Len(batch)
HandedOverOnce ==
  /\ Outstanding <= enqueues
  /\ \A i \in DOMAIN batch : batch[i].due <= now

(* What is queued is submitted: every item whose time comes within the bound  *)
(* of the clock leaves the queue for a submitJob, however the delays are     *)
(* ordered and whatever is enqueued meanwhile, unless the engine is cancelled *)
(* or the loop falls into the gap between Due and NextWait.                  *)
Within(its) == {it \in its : it.due <= MaxTime}
EntriesSubmitted ==
  Within(QueuedItems) # {} ~> Within(QueuedItems) = {} \/ cancelled \/ Overslept

(* Once the engine's context is cancelled, retryLoop returns, which Stop     *)
(* waits for: no sleep and no batch outlives the cancellation for ever.      *)
LoopReturns == cancelled ~> loop = "exited"

(* The queue hands its items over, each once and each in the end but for the *)
(* gap named above, and its loop returns when it is cancelled.               *)
QueueServes ==
  [](SleepCovered /\ HandedOverOnce) /\ EntriesSubmitted /\ LoopReturns
=============================================================================
