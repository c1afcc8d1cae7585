------------------------------ MODULE Breaker ------------------------------
(***************************************************************************)
(* The circuit breaker of one notification instance (backend/internal/     *)
(* notifier/breaker.go).  Do decides under the lock whether to run the     *)
(* send and from which state it started, runs it outside the lock, and     *)
(* applies the result under the lock again, so any number of sends may be  *)
(* in flight while the state, the failure count and the clock move on.     *)
(***************************************************************************)
EXTENDS Naturals

CONSTANTS
  Callers,       \* the goroutines that send through the instance
  MaxFailures,   \* consecutive failures that open the breaker
  OpenDuration,  \* how long it stays open, in ticks
  MaxTime,       \* bound: the last tick
  MaxSkips       \* bound: counted skips

\* What an instance of this module gives its parameters.
BreakerAssumption ==
  /\ MaxFailures \in Nat \ {0}
  /\ OpenDuration \in Nat
  /\ MaxTime \in Nat /\ MaxSkips \in Nat

VARIABLES
  now,       \* the clock
  state,     \* closed, open or half_open
  failures,  \* consecutive failures
  openedAt,  \* the time the open window is measured from
  probing,   \* a half-open probe is in flight
  skips,     \* calls refused with ErrBreakerOpen
  call       \* for each caller the send in flight, if any

vars == <<now, state, failures, openedAt, probing, skips, call>>

States == {"closed", "open", "half_open"}
NoCall == [running |-> FALSE, from |-> "closed", at |-> 0]
Send(st) == [running |-> TRUE, from |-> st, at |-> now]   \* runState and now

Init ==
  /\ now = 0
  /\ state = "closed"
  /\ failures = 0
  /\ openedAt = 0
  /\ probing = FALSE
  /\ skips = 0
  /\ call = [c \in Callers |-> NoCall]

Elapsed == now - openedAt >= OpenDuration

-----------------------------------------------------------------------------
(* Phase 1 of Do, under the lock.                                            *)

RunClosed(c) ==
  /\ ~ call[c].running
  /\ state = "closed"
  /\ call' = [call EXCEPT ![c] = Send("closed")]
  /\ UNCHANGED <<now, state, failures, openedAt, probing, skips>>

(* Fault for mutation: the probing flag is not consulted.                    *)
RunProbeUnserialised(c) ==
  /\ ~ call[c].running
  /\ (state = "open" /\ Elapsed) \/ state = "half_open"
  /\ state' = "half_open"
  /\ probing' = TRUE
  /\ call' = [call EXCEPT ![c] = Send("half_open")]
  /\ UNCHANGED <<now, failures, openedAt, skips>>

(* The window has elapsed, or the breaker is half open without a probe.      *)
RunProbe(c) ==
  /\ ~ call[c].running
  /\ (state = "open" /\ Elapsed) \/ (state = "half_open" /\ ~ probing)
  /\ state' = "half_open"
  /\ probing' = TRUE
  /\ call' = [call EXCEPT ![c] = Send("half_open")]
  /\ UNCHANGED <<now, failures, openedAt, skips>>

Skip(c) ==
  /\ ~ call[c].running
  /\ (state = "open" /\ ~ Elapsed) \/ (state = "half_open" /\ probing)
  /\ skips < MaxSkips
  /\ skips' = skips + 1
  /\ UNCHANGED <<now, state, failures, openedAt, probing, call>>

(* Phase 3 of Do: the send failed.                                           *)

ProbeFails(c) ==
  /\ call[c].running /\ call[c].from = "half_open"
  /\ state' = "open"
  /\ openedAt' = call[c].at
  /\ probing' = FALSE
  /\ call' = [call EXCEPT ![c] = NoCall]
  /\ UNCHANGED <<now, failures, skips>>

ClosedFails(c) ==
  /\ call[c].running /\ call[c].from = "closed"
  /\ state = "closed"
  /\ failures' = failures + 1
  /\ IF failures + 1 >= MaxFailures
     THEN state' = "open" /\ openedAt' = call[c].at
     ELSE UNCHANGED <<state, openedAt>>
  /\ call' = [call EXCEPT ![c] = NoCall]
  /\ UNCHANGED <<now, probing, skips>>

(* ... or succeeded.                                                         *)

ProbeSucceeds(c) ==
  /\ call[c].running /\ call[c].from = "half_open"
  /\ state' = "closed"
  /\ failures' = 0
  /\ probing' = FALSE
  /\ call' = [call EXCEPT ![c] = NoCall]
  /\ UNCHANGED <<now, openedAt, skips>>

ClosedSucceeds(c) ==
  /\ call[c].running /\ call[c].from = "closed"
  /\ state = "closed"
  /\ failures' = 0
  /\ call' = [call EXCEPT ![c] = NoCall]
  /\ UNCHANGED <<now, state, openedAt, probing, skips>>

(* A send that began before the breaker opened changes nothing.              *)
StaleResult(c) ==
  /\ call[c].running /\ call[c].from = "closed"
  /\ state # "closed"
  /\ call' = [call EXCEPT ![c] = NoCall]
  /\ UNCHANGED <<now, state, failures, openedAt, probing, skips>>

Tick ==
  /\ now < MaxTime
  /\ now' = now + 1
  /\ UNCHANGED <<state, failures, openedAt, probing, skips, call>>

-----------------------------------------------------------------------------
Begin(c) == RunClosed(c) \/ RunProbe(c) \/ Skip(c)
Return(c) ==
  \/ ProbeFails(c) \/ ClosedFails(c) \/ ProbeSucceeds(c) \/ ClosedSucceeds(c)
  \/ StaleResult(c)

Next == Tick \/ \E c \in Callers : Begin(c) \/ Return(c)

Spec == Init /\ [][Next]_vars

-----------------------------------------------------------------------------
(* Properties.                                                               *)

(* Every variable keeps its type.                                            *)
TypeOK ==
  /\ now \in Nat
  /\ state \in States
  /\ failures \in Nat
  /\ openedAt \in Nat
  /\ probing \in BOOLEAN
  /\ skips \in Nat
  /\ call \in [Callers -> [running : BOOLEAN, from : {"closed", "half_open"}, at : Nat]]

IsProbe(c) == call[c].running /\ call[c].from = "half_open"

(* Exactly one probe is in flight while the breaker is half open and none     *)
(* otherwise, so no late result of another call can close or re-open it.     *)
SingleProbe ==
  /\ state = "half_open" <=> \E c \in Callers : IsProbe(c)
  /\ \A c, d \in Callers : IsProbe(c) /\ IsProbe(d) => c = d
  /\ probing <=> state = "half_open"

(* A closed breaker is below its threshold, however many sends that began    *)
(* before, in between or after the last open window return late.             *)
ClosedBelowThreshold == state = "closed" => failures < MaxFailures

(* The open window is preserved: only an elapsed window ends it, no stale    *)
(* success does.                                                             *)
WindowPreserved ==
  [][state = "open" /\ state' # "open" => Elapsed]_vars

(* The breaker's promise whatever results return late: one probe at a time,  *)
(* a closed breaker below its threshold, an open window kept to its end.     *)
BreakerSound == [](SingleProbe /\ ClosedBelowThreshold) /\ WindowPreserved
=============================================================================
