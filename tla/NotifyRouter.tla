---------------------------- MODULE NotifyRouter ----------------------------
(* The notification router (notifier/router.go): critical messages go out at *)
(* once, warnings and infos are collected for a window per instance and      *)
(* topic and handed over in one batch, by the flusher goroutine or by any    *)
(* caller of Notify that comes after the window.  The engine starts the      *)
(* flusher and, on Stop, cancels its context, flushes and stops the router.  *)
(* What a hand-over does (the instance's circuit breaker) is module Breaker. *)
(* The code only compares times with now, so a time is kept as what is left  *)
(* until it, and Tick is the passing of one unit.                            *)
EXTENDS Integers, FiniteSets

CONSTANTS
  Instances,     \* registered notifier instances
  Topics,        \* (tier, event) pairs of warnings and infos
  Urgent,        \* the critical topics
  Silent,        \* those whose mail server may stop answering after the dial
  Subscriptions, \* <<instance, topic>>: the tiers an instance subscribes to
  Callers,       \* goroutines that call Notify: poller, monitor, workers
  Flushers,      \* names for the flusher goroutines of successive Starts
  Stopper,       \* the goroutine of Engine.Stop
  Window,        \* the aggregation window
  Interval,      \* the flusher's ticker
  MaxMessages    \* bound of the messages

\* What an instance of this module gives its parameters.
RouterAssumption ==
  /\ Subscriptions \subseteq Instances \X (Topics \cup Urgent)
  /\ Silent \subseteq Instances
  /\ Topics \cap Urgent = {}
  /\ Callers \cap Flushers = {} /\ Stopper \notin Callers \cup Flushers
  /\ Window \in Nat \ {0} /\ Interval \in Nat \ {0}
  /\ MaxMessages \in Nat

Threads == Callers \cup Flushers \cup {Stopper}
Messages == 1 .. MaxMessages
Keys == Instances \X Topics

VARIABLES
  pending,   \* Router.pending: for a key, the open aggregate
  thread,    \* per goroutine: where it is and the aggregates it took to send
  started,   \* Router.started
  current,   \* the flusher that r.cancel cancels and r.wg counts, or NoFlusher
  cancelled, \* the context of that flusher is cancelled
  ticker,    \* what is left until its ticker fires
  age,       \* history: for each message so far, its age, up to Window
  accepted,  \* history: the messages of each instance
  handed,    \* history: the messages whose hand-over to the instance ended
  before     \* history: what pending and the flusher hold when Stop's Flush begins

vars == <<pending, thread, started, current, cancelled, ticker,
          age, accepted, handed, before>>

NoFlusher == "none"
NoAggregate == [left |-> Window, messages |-> {}]
Aggregates == [left : 0 .. Window, messages : SUBSET Messages]
Batches == [instance : Instances, messages : SUBSET Messages]
Places == {"idle", "sweep", "send", "flush", "stop", "wait", "stopped", "gone",
           "stuck"}

TypeOK ==
  /\ pending \in [Keys -> Aggregates]
  /\ thread \in [Threads -> [at : Places, due : SUBSET Batches]]
  /\ started \in BOOLEAN
  /\ current \in Flushers \cup {NoFlusher}
  /\ cancelled \in BOOLEAN
  /\ ticker \in 0 .. Interval
  /\ \E n \in 0 .. MaxMessages : age \in [1 .. n -> 0 .. Window]
  /\ accepted \in [Instances -> SUBSET Messages]
  /\ handed \in [Instances -> SUBSET Messages]
  /\ before \in [Instances -> SUBSET Messages]

Init ==
  /\ pending = [k \in Keys |-> NoAggregate]
  /\ thread = [t \in Threads |->
                 [at |-> IF t \in Flushers THEN "gone" ELSE "idle", due |-> {}]]
  /\ started = FALSE
  /\ current = NoFlusher
  /\ cancelled = FALSE
  /\ ticker = Interval
  /\ age = <<>>
  /\ accepted = [i \in Instances |-> {}]
  /\ handed = [i \in Instances |-> {}]
  /\ before = [i \in Instances |-> {}]

-----------------------------------------------------------------------------
(* Pending aggregates.                                                       *)

Open(k) == pending[k].messages # {}
WaitingOf(i) == UNION {pending[k].messages : k \in {i} \X Topics}
HeldBy(t, i) == UNION {b.messages : b \in {d \in thread[t].due : d.instance = i}}
Subscribed(topic) == {i \in Instances : <<i, topic>> \in Subscriptions}

\* Fault for mutation: every message adds a window.
WithMessageExtended(agg, m) ==
  [left |-> IF agg.messages = {} THEN Window ELSE agg.left + Window,
   messages |-> agg.messages \cup {m}]

\* An aggregate keeps the deadline of its first message.
WithMessage(agg, m) ==
  [left |-> IF agg.messages = {} THEN Window ELSE agg.left,
   messages |-> agg.messages \cup {m}]

Due(k) == Open(k) /\ pending[k].left = 0

\* Fault for mutation: the windows are copied under the lock and deleted by whoever sends.
TakeOutCopy(t, keys, next) ==
  /\ thread' = [thread EXCEPT ![t] =
       [at |-> next,
        due |-> {[instance |-> k[1], messages |-> pending[k].messages] : k \in keys}]]
  /\ UNCHANGED pending

\* Under the lock: the aggregates of the keys leave pending for t's due list.
TakeOut(t, keys, next) ==
  /\ pending' = [k \in Keys |-> IF k \in keys THEN NoAggregate ELSE pending[k]]
  /\ thread' = [thread EXCEPT ![t] =
       [at |-> next,
        due |-> {[instance |-> k[1], messages |-> pending[k].messages] : k \in keys}]]

\* Where a goroutine goes when it has sent what it took.
Done(t) == IF t = Stopper THEN "stop" ELSE "idle"

Idle(t) == thread[t].at = "idle"

-----------------------------------------------------------------------------
(* Notify.                                                                   *)

NextMessage == Cardinality(DOMAIN age) + 1

Say(topic) ==
  /\ NextMessage \in Messages
  /\ age' = [m \in 1 .. NextMessage |-> IF m = NextMessage THEN 0 ELSE age[m]]
  /\ accepted' = [i \in Instances |->
       IF i \in Subscribed(topic) THEN accepted[i] \cup {NextMessage} ELSE accepted[i]]

\* buffer: merged under the lock, then the caller flushes what has expired.
NotifyBuffered(c, topic) ==
  /\ Idle(c)
  /\ Say(topic)
  /\ pending' = [k \in Keys |->
       IF k[2] = topic /\ k[1] \in Subscribed(topic)
         THEN WithMessage(pending[k], NextMessage) ELSE pending[k]]
  /\ thread' = [thread EXCEPT ![c].at = "sweep"]
  /\ UNCHANGED <<started, current, cancelled, ticker, handed, before>>

\* dispatch: the subscribed instances are collected under the lock.
NotifyCritical(c, topic) ==
  /\ Idle(c)
  /\ Say(topic)
  /\ thread' = [thread EXCEPT ![c] =
       [at |-> "send",
        due |-> {[instance |-> i, messages |-> {NextMessage}] : i \in Subscribed(topic)}]]
  /\ UNCHANGED <<pending, started, current, cancelled, ticker, handed, before>>

\* flushExpired, first half: take every expired aggregate under the lock.
Sweep(t) ==
  /\ thread[t].at = "sweep"
  /\ TakeOut(t, {k \in Keys : Due(k)}, "send")
  /\ UNCHANGED <<started, current, cancelled, ticker, age, accepted, handed, before>>

\* The second half, and that of Flush and dispatch: send outside the lock, one
\* after the other; an error of the breaker is ignored by all but dispatch.
Send(t) ==
  /\ thread[t].at = "send"
  /\ \E b \in thread[t].due :
       /\ handed' = [handed EXCEPT ![b.instance] = @ \cup b.messages]
       /\ thread' = [thread EXCEPT ![t].due = @ \ {b}]
  /\ UNCHANGED <<pending, started, current, cancelled, ticker, age, accepted, before>>

\* A mail server falls silent: its commands have no deadline after the dial, so
\* the goroutine never comes back.
Hang(t) ==
  /\ thread[t].at = "send"
  /\ \E b \in thread[t].due : b.instance \in Silent
  /\ thread' = [thread EXCEPT ![t].at = "stuck"]
  /\ UNCHANGED <<pending, started, current, cancelled, ticker, age, accepted, handed, before>>

AllSent(t) ==
  /\ thread[t].at = "send" /\ thread[t].due = {}
  /\ thread' = [thread EXCEPT ![t].at = Done(t)]
  /\ UNCHANGED <<pending, started, current, cancelled, ticker, age, accepted, handed, before>>

-----------------------------------------------------------------------------
(* The flusher, Start and Stop.                                              *)

\* Start: a second call while started is a no-op, even in the middle of Stop.
Start ==
  /\ ~started
  /\ \E f \in Flushers :
       /\ thread[f].at = "gone"
       /\ thread' = [thread EXCEPT ![f].at = "idle"]
       /\ current' = f
  /\ started' = TRUE
  /\ cancelled' = FALSE
  /\ ticker' = Interval
  /\ UNCHANGED <<pending, age, accepted, handed, before>>

\* Fault for mutation: the goroutine returns on a tick that finds nothing pending.
FlusherTicksUntilEmpty(f) ==
  /\ f \in Flushers /\ Idle(f)
  /\ ticker = 0
  /\ ticker' \in 1 .. Interval
  /\ thread' = [thread EXCEPT ![f].at = IF \E k \in Keys : Open(k) THEN "sweep" ELSE "gone"]
  /\ UNCHANGED <<pending, started, current, cancelled, age, accepted, handed, before>>

\* case <-t.C: a tick that was taken late is followed by the next one sooner.
FlusherTicks(f) ==
  /\ f \in Flushers /\ Idle(f)
  /\ ticker = 0
  /\ ticker' \in 1 .. Interval
  /\ thread' = [thread EXCEPT ![f].at = "sweep"]
  /\ UNCHANGED <<pending, started, current, cancelled, age, accepted, handed, before>>

\* case <-fctx.Done()
FlusherExits(f) ==
  /\ f \in Flushers /\ Idle(f)
  /\ cancelled
  /\ thread' = [thread EXCEPT ![f].at = "gone"]
  /\ UNCHANGED <<pending, started, current, cancelled, ticker, age, accepted, handed, before>>

\* Engine.Stop cancels the engine's context, the parent of the flusher's.
CancelEngine ==
  /\ Idle(Stopper) /\ started
  /\ cancelled' = TRUE
  /\ thread' = [thread EXCEPT ![Stopper].at = "flush"]
  /\ UNCHANGED <<pending, started, current, ticker, age, accepted, handed, before>>

Flush ==
  /\ thread[Stopper].at = "flush"
  /\ before' = [i \in Instances |->
                   WaitingOf(i) \cup UNION {HeldBy(f, i) : f \in Flushers}]
  /\ TakeOut(Stopper, {k \in Keys : Open(k)}, "send")
  /\ UNCHANGED <<started, current, cancelled, ticker, age, accepted, handed>>

\* Stop: cancel under the lock, wait, then clear started under the lock.
StopCancels ==
  /\ thread[Stopper].at = "stop"
  /\ cancelled' = TRUE
  /\ thread' = [thread EXCEPT ![Stopper].at = "wait"]
  /\ UNCHANGED <<pending, started, current, ticker, age, accepted, handed, before>>

StopWaits ==
  /\ thread[Stopper].at = "wait"
  /\ thread[current].at = "gone"
  /\ started' = FALSE
  /\ current' = NoFlusher
  /\ thread' = [thread EXCEPT ![Stopper].at = "stopped"]
  /\ UNCHANGED <<pending, cancelled, ticker, age, accepted, handed, before>>

\* The next Start and Stop of the engine.
StopReturned ==
  /\ thread[Stopper].at = "stopped"
  /\ thread' = [thread EXCEPT ![Stopper].at = "idle"]
  /\ before' = [i \in Instances |-> {}]
  /\ UNCHANGED <<pending, started, current, cancelled, ticker, age, accepted, handed>>

Less(n) == IF n = 0 THEN 0 ELSE n - 1

Tick ==
  /\ pending' = [k \in Keys |-> IF Open(k) THEN [pending[k] EXCEPT !.left = Less(@)]
                                           ELSE NoAggregate]
  /\ ticker' = Less(ticker)
  /\ age' = [m \in DOMAIN age |-> IF age[m] = Window THEN Window ELSE age[m] + 1]
  /\ UNCHANGED <<thread, started, current, cancelled, accepted, handed, before>>

Next ==
  \/ \E c \in Callers : \/ \E topic \in Topics : NotifyBuffered(c, topic)
                        \/ \E topic \in Urgent : NotifyCritical(c, topic)
  \/ \E t \in Threads : Sweep(t) \/ Send(t) \/ Hang(t) \/ AllSent(t)
  \/ \E f \in Flushers : FlusherTicks(f) \/ FlusherExits(f)
  \/ Start \/ CancelEngine \/ Flush \/ StopCancels \/ StopWaits \/ StopReturned
  \/ Tick

Spec == Init /\ [][Next]_vars

\* A hand-over ends, unless it hangs: the other providers have a timeout.
Fairness ==
  /\ WF_vars(Tick)
  /\ \A t \in Threads : WF_vars(Sweep(t) \/ Send(t) \/ AllSent(t))
  /\ \A f \in Flushers : WF_vars(FlusherTicks(f)) /\ SF_vars(FlusherExits(f))
  /\ WF_vars(Flush \/ StopCancels \/ StopWaits)

FairSpec == Spec /\ Fairness
-----------------------------------------------------------------------------
(* Properties.                                                               *)

\* Every message that Notify accepted for an instance is in exactly one place:
\* an open window, the due list of one goroutine, or handed over.  So none is
\* lost in the router and none is handed over twice, whichever of flusher,
\* callers and Flush takes the window out (router.go: flushExpired, Flush).
Conserved ==
  \A i \in Instances :
    /\ accepted[i] = WaitingOf(i) \cup handed[i] \cup UNION {HeldBy(t, i) : t \in Threads}
    /\ WaitingOf(i) \cap handed[i] = {}
    /\ \A t \in Threads : /\ HeldBy(t, i) \cap (WaitingOf(i) \cup handed[i]) = {}
                           /\ \A u \in Threads \ {t} : HeldBy(t, i) \cap HeldBy(u, i) = {}

\* A window closes one Window after its first message: the messages that keep
\* coming in do not push it out (router.go: buffer sets the deadline once).
WindowFixed ==
  \A k \in Keys : Open(k) =>
    /\ \A m \in pending[k].messages : pending[k].left <= Window - age[m]
    /\ \E m \in pending[k].messages : pending[k].left = Window - age[m]

\* A flusher that is alive is the one that Stop cancels and waits for, through
\* any order of Start and Stop (router.go: started, cancel, wg).
NoOrphanFlusher ==
  \A f \in Flushers : thread[f].at # "gone" => started /\ current = f

\* When the engine's Stop returns, everything that was buffered or in the hands of
\* the flusher when its Flush began has been handed over (engine.go: Stop flushes,
\* then stops the router, which waits for the flusher).  A batch in the hands of a
\* caller of Notify is that caller's, and what is buffered later stays pending.
StopHandsOver ==
  thread[Stopper].at = "stopped" =>
    \A i \in Instances : before[i] \subseteq handed[i]

Stuck == {t \in Threads : thread[t].at = "stuck"}

\* While the flusher runs, a buffered message is handed over even if nobody
\* calls Notify again (router.go: Start's ticker).  What a silent mail server can
\* take from it is the flusher or the Stop, and the batches of a goroutine it holds.
BufferedHandedOver ==
  \A i \in Instances, m \in Messages :
    (m \in WaitingOf(i) /\ started)
      ~> \/ m \in handed[i] \/ ~started
         \/ \E t \in Stuck : t \notin Callers \/ m \in HeldBy(t, i)

\* Stop returns although callers go on buffering, the flusher may be in the
\* middle of a batch and a caller may hang (router.go: Stop waits on the
\* WaitGroup).  It does not when the server falls silent on the Stop's own Flush
\* or on the flusher that it waits for.
StopReturns ==
  thread[Stopper].at = "flush"
    ~> (thread[Stopper].at = "stopped" \/ {Stopper, current} \cap Stuck # {})

\* No message is lost, repeated, held back or stranded with a flusher that
\* nobody waits for: the four invariants above.
RouterConserves == Conserved /\ WindowFixed /\ NoOrphanFlusher /\ StopHandsOver

\* The router hands over, and it stops, as far as the mail servers answer.
RouterServes == BufferedHandedOver /\ StopReturns
=============================================================================
