----------------------- MODULE SeedLifecycle_proofs -----------------------
(***************************************************************************)
(* Proofs about SeedLifecycle, for every set of seeds, every worker pool,  *)
(* every retry limit and every budget of faults.                           *)
(***************************************************************************)
EXTENDS SeedLifecycle, Integers, TLAPS

(* Adding one copy of an item, or of every item of a set, keeps a bag of      *)
(* items a bag of items and adds exactly those items.                        *)
LEMMA BagAdd ==
  ASSUME NEW B, NEW S, NEW T, IsABag(B), BagToSet(B) \subseteq T, S \subseteq T
  PROVE  /\ IsABag(B (+) SetToBag(S))
         /\ BagToSet(B (+) SetToBag(S)) = BagToSet(B) \cup S
         /\ BagToSet(B (+) SetToBag(S)) \subseteq T
<1>1. DOMAIN (B (+) SetToBag(S)) = DOMAIN B \cup S
  BY DEF SetToBag, (+)
<1>2. ASSUME NEW e \in DOMAIN B \cup S
      PROVE  (B (+) SetToBag(S))[e] \in {n \in Nat : n > 0}
  BY DEF SetToBag, (+), IsABag
<1>3. B (+) SetToBag(S) = [e \in DOMAIN B \cup S |-> (B (+) SetToBag(S))[e]]
  BY <1>1 DEF SetToBag, (+)
<1>. QED  BY <1>1, <1>2, <1>3 DEF IsABag, BagToSet

(* Taking one copy of an item away leaves a bag that lacks at most that item. *)
LEMMA BagTake ==
  ASSUME NEW B, NEW it, NEW T, IsABag(B), BagToSet(B) \subseteq T,
         it \in BagToSet(B)
  PROVE  /\ IsABag(B (-) SetToBag({it}))
         /\ BagToSet(B) \ {it} \subseteq BagToSet(B (-) SetToBag({it}))
         /\ BagToSet(B (-) SetToBag({it})) \subseteq T
<1>. DEFINE C == [e \in DOMAIN B |-> IF e \in {it} THEN B[e] - 1 ELSE B[e]]
            R == [e \in {d \in DOMAIN C : C[d] > 0} |-> C[e]]
<1>1. B (-) SetToBag({it}) = R
  BY DEF SetToBag, (-)
<1>2. \A e \in DOMAIN B : C[e] \in Nat /\ (e # it => C[e] > 0)
  BY DEF IsABag, BagToSet
<1>3. DOMAIN R \subseteq DOMAIN B /\ DOMAIN B \ {it} \subseteq DOMAIN R
  BY <1>2
<1>4. R \in [DOMAIN R -> {n \in Nat : n > 0}]
  BY <1>2
<1>. QED  BY <1>1, <1>3, <1>4 DEF IsABag, BagToSet

-----------------------------------------------------------------------------
(* Type correctness.                                                         *)

ActorStates ==
  [pc : RelayPcs, seed : Seeds, no : Nat, partial : BOOLEAN] \cup {Idle, Exited}

LEMMA InitType == Init => TypeOK
<1>. SUFFICES ASSUME Init PROVE TypeOK
  OBVIOUS
<1>1. IsABag(queue) /\ BagToSet(queue) \subseteq Items
  BY DEF Init, EmptyBag, SetToBag, IsABag, BagToSet
<1>2. status \in [Seeds -> Statuses] /\ retryCount \in [Seeds -> Nat]
  BY DEF Init, Statuses
<1>3. jobs \in Seq(Seeds)
  BY DEF Init
<1>. QED
  BY <1>1, <1>2, <1>3, LifecycleAssumption DEF Init, TypeOK

(* What a goroutine in a Relay carries.                                      *)
LEMMA ActorType ==
  ASSUME TypeOK, NEW a \in Actors, Running(a)
  PROVE  /\ actor[a].seed \in Seeds
         /\ actor[a].no \in Nat
         /\ actor[a] \in [pc : RelayPcs, seed : Seeds, no : Nat, partial : BOOLEAN]
  BY DEF TypeOK, Running, RelayPcs, Idle, Exited

(* Its moves keep the type of the goroutines.                                *)
LEMMA ActorMoves ==
  ASSUME TypeOK, NEW a \in Actors, Running(a)
  PROVE  /\ \A pc \in RelayPcs : Goto(a, pc) => actor' \in [Actors -> ActorStates]
         /\ Finish(a) => actor' \in [Actors -> ActorStates]
         /\ \A p \in BOOLEAN : Fail(a, p) => actor' \in [Actors -> ActorStates]
<1>1. actor \in [Actors -> ActorStates]
  BY DEF TypeOK, ActorStates
<1>2. actor[a] \in [pc : RelayPcs, seed : Seeds, no : Nat, partial : BOOLEAN]
  BY ActorType
<1>3. "bump" \in RelayPcs
  BY DEF RelayPcs
<1>. QED  BY <1>1, <1>2, <1>3 DEF Goto, Finish, Fail, ActorStates

LEMMA WriteType ==
  ASSUME TypeOK, NEW s \in Seeds
  PROVE  /\ \A st \in Statuses : WriteStatus(s, st) => status' \in [Seeds -> Statuses]
         /\ BumpRetry(s) => retryCount' \in [Seeds -> Nat]
<1>1. status \in [Seeds -> Statuses] /\ retryCount \in [Seeds -> Nat]
  BY DEF TypeOK
<1>2. CASE Writable(s)
  BY <1>1, <1>2 DEF WriteStatus, BumpRetry
<1>3. CASE ~ Writable(s)
  BY <1>1, <1>3 DEF WriteStatus, BumpRetry
<1>. QED  BY <1>2, <1>3

LEMMA EnqueueType ==
  ASSUME TypeOK, NEW s \in Seeds, NEW n \in Nat, Enqueue(s, n)
  PROVE  /\ IsABag(queue') /\ BagToSet(queue') \subseteq Items
         /\ BagToSet(queue') = BagToSet(queue) \cup {Item(s, n)}
<1>1. {Item(s, n)} \subseteq Items
  BY DEF Item, Items
<1>2. IsABag(queue) /\ BagToSet(queue) \subseteq Items
  BY DEF TypeOK
<1>. DEFINE S == {Item(s, n)}
<1>3. /\ IsABag(queue (+) SetToBag(S))
      /\ BagToSet(queue (+) SetToBag(S)) = BagToSet(queue) \cup S
      /\ BagToSet(queue (+) SetToBag(S)) \subseteq Items
  BY <1>1, <1>2, BagAdd
<1>. QED  BY <1>3 DEF Enqueue

LEMMA SpendType ==
  ASSUME TypeOK, NEW f \in Faults, Spend(f)
  PROVE  budget' \in [Faults -> Nat]
  BY DEF TypeOK, Spend

LEMMA PollerType == TypeOK /\ PollerNext => TypeOK'
<1>. SUFFICES ASSUME TypeOK, PollerNext PROVE TypeOK'
  OBVIOUS
<1>. USE DEF db, goroutines, handlers
<1>1. ASSUME NEW s \in Seeds, MarkSeen(s) PROVE TypeOK'
  BY <1>1 DEF MarkSeen, TypeOK
<1>2. CASE CreateSeed
  <2>1. poller.seed \in Seeds
    BY <1>2 DEF CreateSeed, TypeOK, NoWork
  <2>2. poller \in [pc : {"create", "enqueue"}, seed : Seeds, no : {0}]
    BY <1>2 DEF CreateSeed, TypeOK, NoWork
  <2>3. CASE Writable(poller.seed) \/ mode \notin Live
    BY <1>2, <2>3 DEF CreateSeed, TypeOK
  <2>4. CASE ~ (Writable(poller.seed) \/ mode \notin Live)
    <3>1. /\ status' = [status EXCEPT ![poller.seed] = "discovered"]
          /\ retryCount' = [retryCount EXCEPT ![poller.seed] = 0]
          /\ poller' = [poller EXCEPT !.pc = "enqueue"]
      BY <1>2, <2>4 DEF CreateSeed
    <3>2. status' \in [Seeds -> Statuses] /\ retryCount' \in [Seeds -> Nat]
      BY <3>1, <2>1 DEF TypeOK, Statuses
    <3>3. poller' \in [pc : {"create", "enqueue"}, seed : Seeds, no : {0}]
      BY <3>1, <2>2
    <3>. QED  BY <1>2, <3>2, <3>3 DEF CreateSeed, TypeOK
  <2>. QED  BY <2>3, <2>4
<1>3. CASE EnqueueJob
  <2>1. poller.seed \in Seeds
    BY <1>3 DEF EnqueueJob, TypeOK, NoWork
  <2>2. jobs' \in Seq(Seeds)
    BY <1>3, <2>1 DEF EnqueueJob, TypeOK
  <2>. QED  BY <1>3, <2>2 DEF EnqueueJob, TypeOK
<1>4. CASE DropJob
  BY <1>4 DEF DropJob, TypeOK
<1>. QED  BY <1>1, <1>2, <1>3, <1>4 DEF PollerNext

LEMMA RelayType == ASSUME NEW a \in Actors PROVE TypeOK /\ RelayNext(a) => TypeOK'
<1>. SUFFICES ASSUME TypeOK, RelayNext(a) PROVE TypeOK'
  OBVIOUS
<1>. USE DEF db, goroutines, handlers
<1>0. Running(a) /\ actor[a].seed \in Seeds /\ actor[a].no \in Nat
  <2>1. Running(a)
    BY DEF RelayNext, LoadSeed, Prepare, Download, PublishTargets, BumpAfterFailure,
           RouteToRetry, RequeueAfterFailure, RouteExhausted, Running, RelayPcs
  <2>. QED  BY <2>1, ActorType
<1>m. /\ \A pc \in RelayPcs : Goto(a, pc) => actor' \in [Actors -> ActorStates]
      /\ Finish(a) => actor' \in [Actors -> ActorStates]
      /\ \A p \in BOOLEAN : Fail(a, p) => actor' \in [Actors -> ActorStates]
  BY <1>0, ActorMoves
<1>w. /\ \A st \in Statuses : WriteStatus(actor[a].seed, st) => status' \in [Seeds -> Statuses]
      /\ BumpRetry(actor[a].seed) => retryCount' \in [Seeds -> Nat]
  BY <1>0, WriteType
<1>1. CASE LoadSeed(a)
  <2>1. status' \in [Seeds -> Statuses]
    BY <1>1, <1>w DEF LoadSeed, Statuses
  <2>2. actor' \in [Actors -> ActorStates]
    BY <1>1, <1>m DEF LoadSeed, RelayPcs
  <2>. QED  BY <1>1, <2>1, <2>2 DEF LoadSeed, TypeOK, ActorStates
<1>2. CASE Prepare(a)
  <2>1. status' \in [Seeds -> Statuses]
    BY <1>2, <1>w DEF Prepare, Statuses, TypeOK
  <2>2. actor' \in [Actors -> ActorStates]
    BY <1>2, <1>m DEF Prepare, RelayPcs
  <2>. QED  BY <1>2, <2>1, <2>2 DEF Prepare, TypeOK, ActorStates
<1>3. CASE Download(a)
  <2>1. status' \in [Seeds -> Statuses]
    BY <1>3, <1>w DEF Download, Statuses, TypeOK
  <2>2. actor' \in [Actors -> ActorStates]
    BY <1>3, <1>m DEF Download, RelayPcs
  <2>. QED  BY <1>3, <2>1, <2>2 DEF Download, TypeOK, ActorStates
<1>4. CASE PublishTargets(a)
  <2>1. status' \in [Seeds -> Statuses]
    BY <1>4, <1>w DEF PublishTargets, Statuses, TypeOK
  <2>2. actor' \in [Actors -> ActorStates]
    BY <1>4, <1>m DEF PublishTargets
  <2>3. replicas' \subseteq Seeds
    BY <1>4, <1>0 DEF PublishTargets, TypeOK
  <2>. QED  BY <1>4, <2>1, <2>2, <2>3 DEF PublishTargets, TypeOK, ActorStates
<1>5. CASE BumpAfterFailure(a)
  <2>1. retryCount' \in [Seeds -> Nat] /\ actor' \in [Actors -> ActorStates]
    BY <1>5, <1>w, <1>m DEF BumpAfterFailure, RelayPcs
  <2>. QED  BY <1>5, <2>1 DEF BumpAfterFailure, TypeOK, ActorStates
<1>6. CASE RouteToRetry(a)
  <2>1. status' \in [Seeds -> Statuses] /\ actor' \in [Actors -> ActorStates]
    BY <1>6, <1>w, <1>m DEF RouteToRetry, RelayPcs, Statuses
  <2>. QED  BY <1>6, <2>1 DEF RouteToRetry, TypeOK, ActorStates
<1>7. CASE RequeueAfterFailure(a)
  <2>1. IsABag(queue') /\ BagToSet(queue') \subseteq Items
    BY <1>7, <1>0, EnqueueType, actor[a].no + 1 \in Nat DEF RequeueAfterFailure
  <2>2. actor' \in [Actors -> ActorStates]
    BY <1>7, <1>m DEF RequeueAfterFailure
  <2>. QED  BY <1>7, <2>1, <2>2 DEF RequeueAfterFailure, TypeOK, ActorStates
<1>8. CASE RouteExhausted(a)
  <2>1. status' \in [Seeds -> Statuses] /\ actor' \in [Actors -> ActorStates]
    BY <1>8, <1>w, <1>m DEF RouteExhausted, Statuses
  <2>. QED  BY <1>8, <2>1 DEF RouteExhausted, TypeOK, ActorStates
<1>. QED
  BY <1>1, <1>2, <1>3, <1>4, <1>5, <1>6, <1>7, <1>8 DEF RelayNext

LEMMA TakeType ==
  /\ \A w \in Workers : TypeOK /\ (TakeJob(w) \/ WorkerExit(w)) => TypeOK'
  /\ TypeOK /\ TakeRetry => TypeOK'
<1>. USE DEF db, goroutines, handlers
<1>0. ASSUME TypeOK PROVE actor \in [Actors -> ActorStates]
  BY <1>0 DEF TypeOK, ActorStates
<1>1. ASSUME NEW w \in Workers, TypeOK, TakeJob(w) PROVE TypeOK'
  <2>1. Head(jobs) \in Seeds /\ jobs' \in Seq(Seeds)
    BY <1>1 DEF TakeJob, TypeOK
  <2>2. actor' \in [Actors -> ActorStates]
    BY <1>0, <1>1, <2>1 DEF TakeJob, ActorStates, Actors, RelayPcs
  <2>. QED  BY <1>1, <2>1, <2>2 DEF TakeJob, TypeOK, ActorStates
<1>2. ASSUME NEW w \in Workers, TypeOK, WorkerExit(w) PROVE TypeOK'
  <2>1. actor' \in [Actors -> ActorStates]
    BY <1>0, <1>2 DEF WorkerExit, ActorStates, Actors
  <2>. QED  BY <1>2, <2>1 DEF WorkerExit, TypeOK, ActorStates
<1>3. ASSUME TypeOK, TakeRetry PROVE TypeOK'
  <2>1. PICK it \in BagToSet(queue) :
          /\ queue' = queue (-) SetToBag({it})
          /\ actor' = [actor EXCEPT ![RetryLoop] =
               [pc |-> "load", seed |-> it.seed, no |-> it.no, partial |-> FALSE]]
    BY <1>3 DEF TakeRetry
  <2>2. IsABag(queue) /\ BagToSet(queue) \subseteq Items
    BY <1>3 DEF TypeOK
  <2>3. IsABag(queue') /\ BagToSet(queue') \subseteq Items
    BY <2>1, <2>2, BagTake
  <2>4. it.seed \in Seeds /\ it.no \in Nat
    BY <2>2 DEF Items
  <2>5. actor' \in [Actors -> ActorStates]
    BY <1>0, <1>3, <2>1, <2>4 DEF ActorStates, Actors, RelayPcs
  <2>. QED  BY <1>3, <2>3, <2>5 DEF TakeRetry, TypeOK, ActorStates
<1>. QED  BY <1>1, <1>2, <1>3

MonitorWork == [pc : {"retire", "abort-bump", "abort-mark", "abort-enqueue"},
                seed : Seeds, no : Nat]

LEMMA MonitorType == TypeOK /\ MonitorNext => TypeOK'
<1>. SUFFICES ASSUME TypeOK, MonitorNext PROVE TypeOK'
  OBVIOUS
<1>. USE DEF db, goroutines, handlers
<1>0. monitor.pc # "idle" => monitor \in MonitorWork
  BY DEF TypeOK, NoWork, MonitorWork
<1>1. ASSUME NEW s \in Seeds, AttachReplica(s) \/ RetireTorrent(s) PROVE TypeOK'
  BY <1>1 DEF AttachReplica, RetireTorrent, TypeOK
<1>2. ASSUME NEW s \in Seeds, AbortSlow(s) PROVE TypeOK'
  <2>1. budget' \in [Faults -> Nat]
    BY <1>2, SpendType DEF AbortSlow, Faults
  <2>2. retryCount[s] + 1 \in Nat
    BY DEF TypeOK
  <2>. QED  BY <1>2, <2>1, <2>2 DEF AbortSlow, TypeOK
<1>3. CASE RetireSeed
  <2>1. status' \in [Seeds -> Statuses]
    BY <1>0, <1>3, WriteType DEF RetireSeed, MonitorWork, Statuses
  <2>. QED  BY <1>3, <2>1 DEF RetireSeed, TypeOK
<1>4. CASE AbortBump
  <2>1. retryCount' \in [Seeds -> Nat]
    BY <1>0, <1>4, WriteType DEF AbortBump, MonitorWork
  <2>2. monitor' \in MonitorWork
    BY <1>0, <1>4 DEF AbortBump, MonitorWork
  <2>. QED  BY <1>4, <2>1, <2>2 DEF AbortBump, TypeOK, MonitorWork
<1>5. CASE AbortMark
  <2>1. status' \in [Seeds -> Statuses]
    BY <1>0, <1>5, WriteType DEF AbortMark, MonitorWork, Statuses
  <2>2. monitor' \in MonitorWork
    BY <1>0, <1>5 DEF AbortMark, MonitorWork
  <2>. QED  BY <1>5, <2>1, <2>2 DEF AbortMark, TypeOK, MonitorWork
<1>6. CASE AbortEnqueue
  <2>1. IsABag(queue') /\ BagToSet(queue') \subseteq Items
    BY <1>0, <1>6, EnqueueType DEF AbortEnqueue, MonitorWork
  <2>. QED  BY <1>6, <2>1 DEF AbortEnqueue, TypeOK
<1>. QED  BY <1>1, <1>2, <1>3, <1>4, <1>5, <1>6 DEF MonitorNext

LEMMA HandlerType == TypeOK /\ HandlerNext => TypeOK'
<1>. SUFFICES ASSUME TypeOK, HandlerNext PROVE TypeOK'
  OBVIOUS
<1>. USE DEF db, goroutines, handlers
<1>0. /\ resend.pc # "idle" => resend \in [pc : {"reset", "enqueue"}, seed : Seeds, no : {0}]
      /\ deletion.pc # "idle" => deletion.seed \in Seeds
  BY DEF TypeOK, NoWork
<1>1. ASSUME NEW s \in Seeds, ResendBegin(s) PROVE TypeOK'
  <2>1. budget' \in [Faults -> Nat]
    BY <1>1, SpendType DEF ResendBegin, Faults
  <2>. QED  BY <1>1, <2>1 DEF ResendBegin, TypeOK
<1>2. ASSUME NEW s \in Seeds, DeleteCheck(s) PROVE TypeOK'
  <2>1. budget' \in [Faults -> Nat]
    BY <1>2, SpendType DEF DeleteCheck, Faults
  <2>. QED  BY <1>2, <2>1 DEF DeleteCheck, TypeOK
<1>3. CASE ResendReset
  <2>1. status' \in [Seeds -> Statuses] /\ retryCount' \in [Seeds -> Nat]
    <3>1. CASE status[resend.seed] = "none"
      BY <1>3, <3>1 DEF ResendReset, TypeOK
    <3>2. CASE status[resend.seed] # "none"
      <4>1. /\ status' = [status EXCEPT ![resend.seed] = "retry"]
            /\ retryCount' = [retryCount EXCEPT ![resend.seed] = 0]
        BY <1>3, <3>2 DEF ResendReset
      <4>. QED  BY <4>1 DEF TypeOK, Statuses
    <3>. QED  BY <3>1, <3>2
  <2>2. resend' \in [pc : {"reset", "enqueue"}, seed : Seeds, no : {0}]
    BY <1>0, <1>3 DEF ResendReset
  <2>. QED  BY <1>3, <2>1, <2>2 DEF ResendReset, TypeOK
<1>4. CASE ResendEnqueue
  <2>1. IsABag(queue') /\ BagToSet(queue') \subseteq Items
    BY <1>0, <1>4, EnqueueType, 1 \in Nat DEF ResendEnqueue
  <2>. QED  BY <1>4, <2>1 DEF ResendEnqueue, TypeOK
<1>5. CASE DeleteRow
  <2>1. status' \in [Seeds -> Statuses] /\ retryCount' \in [Seeds -> Nat]
    BY <1>5 DEF DeleteRow, TypeOK, Statuses
  <2>. QED  BY <1>5, <2>1 DEF DeleteRow, TypeOK
<1>. QED  BY <1>1, <1>2, <1>3, <1>4, <1>5 DEF HandlerNext

(* What Start rebuilds: one item for each seed that waits in retry.          *)
Retrying == {s \in Seeds : Reclaimed(status[s]) = "retry"}
Rebuilt == {Item(s, AtLeastOne(retryCount[s])) : s \in Retrying}

LEMMA StartQueue ==
  ASSUME TypeOK, Start
  PROVE  /\ IsABag(queue') /\ BagToSet(queue') \subseteq Items
         /\ BagToSet(queue') = BagToSet(queue) \cup Rebuilt
<1>1. Rebuilt \subseteq Items
  BY DEF Rebuilt, Retrying, Item, Items, AtLeastOne, TypeOK
<1>2. IsABag(queue) /\ BagToSet(queue) \subseteq Items
  BY DEF TypeOK
<1>3. queue' = queue (+) SetToBag(Rebuilt)
  BY DEF Start, Rebuilt, Retrying, ListSeedsByStatus
<1>. HIDE DEF Rebuilt
<1>. QED  BY <1>1, <1>2, <1>3, BagAdd

LEMMA LifecycleType == TypeOK /\ LifecycleNext => TypeOK'
<1>. SUFFICES ASSUME TypeOK, LifecycleNext PROVE TypeOK'
  OBVIOUS
<1>. USE DEF db, goroutines, handlers
<1>1. CASE Start
  <2>1. status' \in [Seeds -> Statuses]
    BY <1>1 DEF Start, Reclaimed, Statuses, TypeOK
  <2>2. IsABag(queue') /\ BagToSet(queue') \subseteq Items
    BY <1>1, StartQueue
  <2>3. jobs' \in Seq(Seeds) /\ actor' \in [Actors -> ActorStates] /\ mode' = "running"
    BY <1>1 DEF Start, ActorStates
  <2>4. UNCHANGED <<seen, retryCount, replicas, poller, monitor, resend, deletion, budget>>
    BY <1>1 DEF Start
  <2>. QED  BY <2>1, <2>2, <2>3, <2>4 DEF TypeOK, ActorStates
<1>2. CASE Stop
  <2>1. budget' \in [Faults -> Nat]
    BY <1>2, SpendType DEF Stop, Faults
  <2>. QED  BY <1>2, <2>1 DEF Stop, TypeOK
<1>3. CASE Cancel \/ Stopped
  BY <1>3 DEF Cancel, Stopped, TypeOK
<1>4. CASE Crash
  <2>1. budget' \in [Faults -> Nat]
    BY <1>4, SpendType DEF Crash, Faults
  <2>2. IsABag(queue') /\ BagToSet(queue') \subseteq Items
    BY <1>4 DEF Crash, EmptyBag, SetToBag, IsABag, BagToSet
  <2>3. jobs' \in Seq(Seeds) /\ actor' \in [Actors -> ActorStates]
    BY <1>4 DEF Crash, ActorStates
  <2>. QED  BY <1>4, <2>1, <2>2, <2>3 DEF Crash, TypeOK, ActorStates
<1>. QED  BY <1>1, <1>2, <1>3, <1>4 DEF LifecycleNext

LEMMA StepType == TypeOK /\ [Next]_vars => TypeOK'
<1>. SUFFICES ASSUME TypeOK, [Next]_vars PROVE TypeOK'
  OBVIOUS
<1>1. ASSUME NEW w \in Workers, WorkerNext(w) PROVE TypeOK'
  BY <1>1, TakeType, RelayType DEF WorkerNext, Actors
<1>2. CASE RetryLoopNext
  BY <1>2, TakeType, RelayType DEF RetryLoopNext, Actors
<1>3. CASE UNCHANGED vars
  BY <1>3 DEF TypeOK, vars, db, goroutines, handlers
<1>. QED
  BY <1>1, <1>2, <1>3, PollerType, MonitorType, HandlerType, LifecycleType DEF Next

(* Every variable of the engine keeps its type, whatever faults occur.       *)
THEOREM TypeCorrect == Spec => []TypeOK
<1>. QED  BY InitType, StepType, PTL DEF Spec

-----------------------------------------------------------------------------
(* Ownership of the seeds in status retry, and of those in a Relay.          *)

Owned(s) == InQueue(s) \/ InRelay(s) \/ InAbort(s) \/ InResend(s)
MidRelay(s) == \E a \in Actors : actor[a].seed = s /\ actor[a].pc \in MidRelayPcs
InFlight == {"processing", "downloading"}

(* A step of submitJob touches one seed; it goes on with that seed, hands it  *)
(* to the queue, or leaves it in a status that needs no owner.               *)
LEMMA RelayEffect ==
  ASSUME TypeOK, NEW a \in Actors, RelayNext(a), mode \in Live
  PROVE  LET s == actor[a].seed IN
         /\ s \in Seeds
         /\ UNCHANGED <<mode, monitor, resend>>
         /\ BagToSet(queue) \subseteq BagToSet(queue')
         /\ \A b \in Actors \ {a} : actor'[b] = actor[b]
         /\ \A r \in Seeds \ {s} : status'[r] = status[r]
         /\ \/ Running(a)' /\ actor'[a].seed = s
            \/ \E it \in BagToSet(queue') : it.seed = s
            \/ status'[s] # "retry"
         /\ \/ actor'[a].seed = s /\ actor'[a].pc \in MidRelayPcs
            \/ status'[s] \notin InFlight
            \/ status'[s] = status[s] /\ actor[a].pc \notin MidRelayPcs
<1>. DEFINE s == actor[a].seed
<1>. USE DEF db, goroutines, handlers
<1>1. Running(a)
  BY DEF RelayNext, LoadSeed, Prepare, Download, PublishTargets, BumpAfterFailure,
         RouteToRetry, RequeueAfterFailure, RouteExhausted, Running, RelayPcs
<1>2. /\ s \in Seeds /\ actor[a].no \in Nat
      /\ actor[a] \in [pc : RelayPcs, seed : Seeds, no : Nat, partial : BOOLEAN]
  BY <1>1, ActorType
<1>3. actor \in [Actors -> ActorStates] /\ status \in [Seeds -> Statuses]
  BY DEF TypeOK, ActorStates
<1>4. UNCHANGED <<mode, monitor, resend>>
  BY DEF RelayNext, LoadSeed, Prepare, Download, PublishTargets, BumpAfterFailure,
         RouteToRetry, RequeueAfterFailure, RouteExhausted
<1>5. BagToSet(queue) \subseteq BagToSet(queue')
  <2>1. CASE RequeueAfterFailure(a)
    BY <1>2, <2>1, EnqueueType, actor[a].no + 1 \in Nat DEF RequeueAfterFailure
  <2>2. CASE ~ RequeueAfterFailure(a)
    BY <2>2 DEF RelayNext, LoadSeed, Prepare, Download, PublishTargets,
       BumpAfterFailure, RouteToRetry, RouteExhausted
  <2>. QED  BY <2>1, <2>2
(* What the helpers do to the goroutine and to the row. *)
<1>6. /\ \A pc \in RelayPcs : Goto(a, pc) =>
            /\ \A b \in Actors \ {a} : actor'[b] = actor[b]
            /\ actor'[a].pc = pc /\ actor'[a].seed = s
      /\ \A p \in BOOLEAN : Fail(a, p) =>
            /\ \A b \in Actors \ {a} : actor'[b] = actor[b]
            /\ actor'[a].pc = "bump" /\ actor'[a].seed = s
      /\ Finish(a) => \A b \in Actors \ {a} : actor'[b] = actor[b]
  BY <1>2, <1>3 DEF Goto, Fail, Finish
<1>7. \A st \in Statuses : WriteStatus(s, st) =>
            /\ \A r \in Seeds \ {s} : status'[r] = status[r]
            /\ status'[s] \in {st, "none"}
  <2>1. CASE Writable(s)
    BY <1>2, <1>3, <2>1 DEF WriteStatus
  <2>2. CASE ~ Writable(s)
    BY <1>2, <1>3, <2>2 DEF WriteStatus, Writable
  <2>. QED  BY <2>1, <2>2
<1>. DEFINE Effect ==
       /\ \A b \in Actors \ {a} : actor'[b] = actor[b]
       /\ \A r \in Seeds \ {s} : status'[r] = status[r]
       /\ \/ actor'[a].pc \in RelayPcs /\ actor'[a].seed = s
          \/ \E it \in BagToSet(queue') : it.seed = s
          \/ status'[s] # "retry"
       /\ \/ actor'[a].seed = s /\ actor'[a].pc \in MidRelayPcs
          \/ status'[s] \notin InFlight
          \/ status'[s] = status[s] /\ actor[a].pc \notin MidRelayPcs
<1>8. ASSUME LoadSeed(a) PROVE Effect
  BY <1>6, <1>7, <1>8 DEF LoadSeed, RelayPcs, MidRelayPcs, Statuses
<1>9. ASSUME Prepare(a) PROVE Effect
  BY <1>6, <1>7, <1>9 DEF Prepare, RelayPcs, MidRelayPcs, Statuses, InFlight
<1>10. ASSUME Download(a) PROVE Effect
  BY <1>6, <1>7, <1>10 DEF Download, RelayPcs, MidRelayPcs, Statuses
<1>11. ASSUME PublishTargets(a) PROVE Effect
  BY <1>6, <1>7, <1>11 DEF PublishTargets, RelayPcs, MidRelayPcs, Statuses, InFlight
<1>12. ASSUME BumpAfterFailure(a) PROVE Effect
  BY <1>6, <1>12 DEF BumpAfterFailure, RelayPcs, MidRelayPcs
<1>13. ASSUME RouteToRetry(a) PROVE Effect
  BY <1>6, <1>7, <1>13 DEF RouteToRetry, RelayPcs, Statuses, InFlight
<1>14. ASSUME RequeueAfterFailure(a) PROVE Effect
  <2>1. Item(s, actor[a].no + 1) \in BagToSet(queue')
    BY <1>2, <1>14, EnqueueType, actor[a].no + 1 \in Nat DEF RequeueAfterFailure
  <2>2. \E it \in BagToSet(queue') : it.seed = s
    BY <2>1 DEF Item
  <2>. QED  BY <1>6, <1>14, <2>2 DEF RequeueAfterFailure, MidRelayPcs
<1>15. ASSUME RouteExhausted(a) PROVE Effect
  <2>1. status'[s] \in {"seeding", "failed", "none"}
    BY <1>7, <1>15 DEF RouteExhausted, Statuses
  <2>2. \A r \in Seeds \ {s} : status'[r] = status[r]
    BY <1>7, <1>15 DEF RouteExhausted, Statuses
  <2>. QED  BY <1>6, <1>15, <2>1, <2>2 DEF RouteExhausted, InFlight
<1>16. Effect
  BY <1>8, <1>9, <1>10, <1>11, <1>12, <1>13, <1>14, <1>15 DEF RelayNext
<1>. QED  BY <1>2, <1>4, <1>5, <1>16 DEF Running


LEMMA StatusUnlessWritten ==
  ASSUME TypeOK, NEW s \in Seeds, NEW st \in Statuses, WriteStatus(s, st), mode \in Live
  PROVE  /\ \A r \in Seeds \ {s} : status'[r] = status[r]
         /\ status'[s] \in {st, "none"}
<1>1. status \in [Seeds -> Statuses]
  BY DEF TypeOK
<1>2. CASE Writable(s)
  BY <1>1, <1>2 DEF WriteStatus
<1>3. CASE ~ Writable(s)
  BY <1>1, <1>3 DEF WriteStatus, Writable
<1>. QED  BY <1>2, <1>3

(* The two ownership invariants together.                                    *)
Ownership == RetryOwned /\ ReclaimedOwned

LEMMA OwnershipMeaning ==
  Ownership <=> (mode \in Live => \A s \in Seeds :
                   /\ status[s] = "retry" => Owned(s)
                   /\ status[s] \in InFlight => MidRelay(s))
  BY DEF Ownership, RetryOwned, ReclaimedOwned, Owned, MidRelay, InFlight

LEMMA OwnershipNext ==
  Ownership' <=> (mode' \in Live => \A s \in Seeds :
                   /\ status'[s] = "retry" => Owned(s)'
                   /\ status'[s] \in InFlight => MidRelay(s)')
  BY DEF Ownership, RetryOwned, ReclaimedOwned, Owned, MidRelay, InFlight

LEMMA PollerOwnership == TypeOK /\ Ownership /\ PollerNext => Ownership'
<1>. SUFFICES ASSUME TypeOK, Ownership, PollerNext, mode' \in Live, NEW s \in Seeds
              PROVE  /\ status'[s] = "retry" => Owned(s)'
                     /\ status'[s] \in InFlight => MidRelay(s)'
  BY OwnershipNext
<1>1. UNCHANGED <<mode, queue, actor, monitor, resend>>
  BY DEF PollerNext, MarkSeen, CreateSeed, EnqueueJob, DropJob, db, goroutines, handlers
<1>2. status'[s] \in {status[s], "discovered"}
  BY DEF PollerNext, MarkSeen, CreateSeed, EnqueueJob, DropJob, db, TypeOK
<1>3. /\ status[s] = "retry" => Owned(s)
      /\ status[s] \in InFlight => MidRelay(s)
  BY <1>1, OwnershipMeaning
<1>. QED
  BY <1>1, <1>2, <1>3 DEF Owned, InQueue, InRelay, InAbort, InResend, MidRelay,
     InFlight, Running

LEMMA RelayOwnership ==
  ASSUME NEW a \in Actors
  PROVE  TypeOK /\ Ownership /\ RelayNext(a) => Ownership'
<1>. SUFFICES ASSUME TypeOK, Ownership, RelayNext(a), mode' \in Live, NEW s \in Seeds
              PROVE  /\ status'[s] = "retry" => Owned(s)'
                     /\ status'[s] \in InFlight => MidRelay(s)'
  BY OwnershipNext
<1>0. mode' = mode
  BY DEF RelayNext, LoadSeed, Prepare, Download, PublishTargets, BumpAfterFailure,
         RouteToRetry, RequeueAfterFailure, RouteExhausted, db
<1>. DEFINE r == actor[a].seed
<1>1. /\ UNCHANGED <<monitor, resend>>
      /\ BagToSet(queue) \subseteq BagToSet(queue')
      /\ \A b \in Actors \ {a} : actor'[b] = actor[b]
      /\ s # r => status'[s] = status[s]
      /\ \/ Running(a)' /\ actor'[a].seed = r
         \/ \E it \in BagToSet(queue') : it.seed = r
         \/ status'[r] # "retry"
      /\ \/ actor'[a].seed = r /\ actor'[a].pc \in MidRelayPcs
         \/ status'[r] \notin InFlight
         \/ status'[r] = status[r] /\ actor[a].pc \notin MidRelayPcs
  BY <1>0, RelayEffect
<1>2. /\ status[s] = "retry" => Owned(s)
      /\ status[s] \in InFlight => MidRelay(s)
  BY <1>0, OwnershipMeaning
<1>. HIDE DEF r
<1>3. ASSUME s # r PROVE Owned(s) => Owned(s)'
  BY <1>1, <1>3 DEF Owned, InQueue, InRelay, InAbort, InResend, Running, r
<1>4. ASSUME s # r PROVE MidRelay(s) => MidRelay(s)'
  BY <1>1, <1>4 DEF MidRelay, r
<1>5. ASSUME s = r, status'[s] = "retry" PROVE Owned(s)'
  BY <1>1, <1>5 DEF Owned, InQueue, InRelay
<1>6. ASSUME s = r, status'[s] \in InFlight PROVE MidRelay(s)'
  <2>1. CASE actor'[a].seed = r /\ actor'[a].pc \in MidRelayPcs
    BY <1>6, <2>1 DEF MidRelay
  <2>2. CASE status'[r] = status[r] /\ actor[a].pc \notin MidRelayPcs
    <3>1. PICK b \in Actors : actor[b].seed = s /\ actor[b].pc \in MidRelayPcs
      BY <1>2, <1>6, <2>2 DEF MidRelay
    <3>. QED  BY <1>1, <2>2, <3>1 DEF MidRelay
  <2>. QED  BY <1>1, <1>6, <2>1, <2>2
<1>. QED  BY <1>1, <1>2, <1>3, <1>4, <1>5, <1>6

LEMMA TakeOwnership ==
  TypeOK /\ Ownership /\ ((\E w \in Workers : TakeJob(w) \/ WorkerExit(w)) \/ TakeRetry)
    => Ownership'
<1>. SUFFICES ASSUME TypeOK, Ownership, mode' \in Live, NEW s \in Seeds,
                     (\E w \in Workers : TakeJob(w) \/ WorkerExit(w)) \/ TakeRetry
              PROVE  /\ status'[s] = "retry" => Owned(s)'
                     /\ status'[s] \in InFlight => MidRelay(s)'
  BY OwnershipNext
<1>1. UNCHANGED <<mode, status, monitor, resend>>
  BY DEF TakeJob, WorkerExit, TakeRetry, db, handlers
<1>2. /\ status[s] = "retry" => Owned(s)
      /\ status[s] \in InFlight => MidRelay(s)
  BY <1>1, OwnershipMeaning
<1>3. PICK a \in Actors : actor[a].pc = "idle" /\ \A b \in Actors \ {a} : actor'[b] = actor[b]
  <2>1. CASE TakeRetry
    BY <2>1 DEF TakeRetry, Actors, TypeOK
  <2>2. ASSUME NEW w \in Workers, TakeJob(w) \/ WorkerExit(w)
        PROVE  actor[w].pc = "idle" /\ \A b \in Actors \ {w} : actor'[b] = actor[b]
    BY <2>2 DEF TakeJob, WorkerExit, Actors, TypeOK
  <2> QED BY <2>1, <2>2 DEF Actors
<1>4. ASSUME NEW b \in Actors, Running(b) \/ actor[b].pc \in MidRelayPcs
      PROVE  actor'[b] = actor[b]
  BY <1>3, <1>4 DEF Running, RelayPcs, MidRelayPcs
<1>5. MidRelay(s) => MidRelay(s)'
  BY <1>4 DEF MidRelay
<1>6. InRelay(s) => InRelay(s)'
  BY <1>4 DEF InRelay, Running
<1>7. InQueue(s) => InQueue(s)' \/ InRelay(s)'
  <2>1. CASE TakeRetry
    <3>1. PICK it \in BagToSet(queue) :
            /\ queue' = queue (-) SetToBag({it})
            /\ actor' = [actor EXCEPT ![RetryLoop] =
                 [pc |-> "load", seed |-> it.seed, no |-> it.no, partial |-> FALSE]]
      BY <2>1 DEF TakeRetry
    <3>2. BagToSet(queue) \ {it} \subseteq BagToSet(queue')
      BY <3>1, BagTake DEF TypeOK
    <3>3. actor'[RetryLoop].pc = "load" /\ actor'[RetryLoop].seed = it.seed
      BY <3>1 DEF TypeOK, Actors
    <3>. QED  BY <3>2, <3>3 DEF InQueue, InRelay, Running, RelayPcs, Actors
  <2>2. CASE \E w \in Workers : TakeJob(w) \/ WorkerExit(w)
    BY <2>2 DEF TakeJob, WorkerExit, InQueue
  <2>. QED  BY <2>1, <2>2
<1>. QED  BY <1>1, <1>2, <1>5, <1>6, <1>7 DEF Owned, InAbort, InResend


LEMMA MonitorOwnership == TypeOK /\ Ownership /\ MonitorNext => Ownership'
<1>. SUFFICES ASSUME TypeOK, Ownership, MonitorNext, mode' \in Live, NEW s \in Seeds
              PROVE  /\ status'[s] = "retry" => Owned(s)'
                     /\ status'[s] \in InFlight => MidRelay(s)'
  BY OwnershipNext
<1>. USE DEF db, goroutines, handlers
<1>1. UNCHANGED <<mode, actor, resend>>
  BY DEF MonitorNext, AttachReplica, RetireTorrent, AbortSlow, RetireSeed, AbortBump,
     AbortMark, AbortEnqueue
<1>2. /\ status[s] = "retry" => Owned(s)
      /\ status[s] \in InFlight => MidRelay(s)
  BY <1>1, OwnershipMeaning
<1>3. MidRelay(s) => MidRelay(s)'
  BY <1>1 DEF MidRelay
<1>4. InRelay(s) \/ InResend(s) => InRelay(s)' \/ InResend(s)'
  BY <1>1 DEF InRelay, InResend, Running
<1>5. monitor.pc # "idle" => monitor \in MonitorWork
  BY DEF TypeOK, NoWork, MonitorWork
<1>6. CASE (\E r \in Seeds : AttachReplica(r) \/ RetireTorrent(r) \/ AbortSlow(r)) \/ AbortBump
  <2>1. UNCHANGED <<status, queue>> /\ monitor.pc # "abort-enqueue"
    BY <1>6 DEF AttachReplica, RetireTorrent, AbortSlow, AbortBump
  <2>. QED  BY <1>2, <1>3, <1>4, <2>1 DEF Owned, InQueue, InAbort
<1>7. CASE RetireSeed
  <2>1. UNCHANGED queue /\ monitor.pc # "abort-enqueue"
        /\ status'[s] \in {status[s], "retired", "none"}
    <3>1. monitor.seed \in Seeds /\ WriteStatus(monitor.seed, "retired")
      BY <1>5, <1>7 DEF RetireSeed, MonitorWork
    <3>2. status'[s] \in {status[s], "retired", "none"}
      BY <1>1, <3>1, StatusUnlessWritten DEF Statuses
    <3>. QED  BY <1>7, <3>2 DEF RetireSeed
  <2>. QED  BY <1>2, <1>3, <1>4, <2>1 DEF Owned, InQueue, InAbort, InFlight
<1>8. CASE AbortMark
  <2>1. monitor.seed \in Seeds /\ WriteStatus(monitor.seed, "retry")
    BY <1>5, <1>8 DEF AbortMark, MonitorWork
  <2>2. /\ s # monitor.seed => status'[s] = status[s]
        /\ s = monitor.seed => status'[s] \in {"retry", "none"}
    BY <1>1, <2>1, StatusUnlessWritten DEF Statuses
  <2>3. UNCHANGED queue /\ ~ InAbort(s)
    BY <1>8 DEF AbortMark, InAbort
  <2>4. s = monitor.seed => InAbort(s)'
    BY <1>5, <1>8 DEF AbortMark, InAbort, MonitorWork
  <2>. QED  BY <1>2, <1>3, <1>4, <2>2, <2>3, <2>4 DEF Owned, InQueue, InFlight
<1>9. CASE AbortEnqueue
  <2>1. monitor.seed \in Seeds /\ monitor.no \in Nat /\ Enqueue(monitor.seed, monitor.no)
    BY <1>5, <1>9 DEF AbortEnqueue, MonitorWork
  <2>2. BagToSet(queue') = BagToSet(queue) \cup {Item(monitor.seed, monitor.no)}
    BY <2>1, EnqueueType
  <2>3. InQueue(s) \/ InAbort(s) => InQueue(s)'
    <3>1. InQueue(s) => InQueue(s)'
      BY <2>2 DEF InQueue
    <3>2. ASSUME InAbort(s) PROVE InQueue(s)'
      <4>1. PICK it \in BagToSet(queue') : it = Item(monitor.seed, monitor.no)
        BY <2>2
      <4>2. it.seed = s
        BY <3>2, <4>1 DEF Item, InAbort
      <4>. QED  BY <4>2 DEF InQueue
    <3>. QED  BY <3>1, <3>2
  <2>4. UNCHANGED status
    BY <1>9 DEF AbortEnqueue
  <2>. QED  BY <1>2, <1>3, <1>4, <2>3, <2>4 DEF Owned
<1>. QED  BY <1>6, <1>7, <1>8, <1>9 DEF MonitorNext

LEMMA HandlerOwnership == TypeOK /\ Ownership /\ HandlerNext => Ownership'
<1>. SUFFICES ASSUME TypeOK, Ownership, HandlerNext, mode' \in Live, NEW s \in Seeds
              PROVE  /\ status'[s] = "retry" => Owned(s)'
                     /\ status'[s] \in InFlight => MidRelay(s)'
  BY OwnershipNext
<1>. USE DEF db, goroutines, handlers
<1>1. UNCHANGED <<mode, actor, monitor>>
  BY DEF HandlerNext, ResendBegin, DeleteCheck, ResendReset, ResendEnqueue, DeleteRow
<1>2. /\ status[s] = "retry" => Owned(s)
      /\ status[s] \in InFlight => MidRelay(s)
  BY <1>1, OwnershipMeaning
<1>3. MidRelay(s) => MidRelay(s)'
  BY <1>1 DEF MidRelay
<1>4. InRelay(s) \/ InAbort(s) => InRelay(s)' \/ InAbort(s)'
  BY <1>1 DEF InRelay, InAbort, Running
<1>5. resend.pc # "idle" => resend \in [pc : {"reset", "enqueue"}, seed : Seeds, no : {0}]
  BY DEF TypeOK, NoWork
<1>6. CASE \E r \in Seeds : ResendBegin(r) \/ DeleteCheck(r)
  <2>1. UNCHANGED <<status, queue>> /\ (InResend(s) => InResend(s)')
    BY <1>6 DEF ResendBegin, DeleteCheck, InResend
  <2>. QED  BY <1>2, <1>3, <1>4, <2>1 DEF Owned, InQueue
<1>7. CASE ResendReset
  <2>1. /\ s # resend.seed => status'[s] = status[s]
        /\ s = resend.seed => status'[s] \in {"retry", "none"}
    BY <1>7 DEF ResendReset, TypeOK
  <2>2. s = resend.seed => InResend(s)'
    BY <1>5, <1>7 DEF ResendReset, InResend
  <2>3. UNCHANGED queue /\ ~ InResend(s)
    BY <1>7 DEF ResendReset, InResend
  <2>. QED  BY <1>2, <1>3, <1>4, <2>1, <2>2, <2>3 DEF Owned, InQueue, InFlight
<1>8. CASE ResendEnqueue
  <2>1. resend.seed \in Seeds /\ Enqueue(resend.seed, 1)
    BY <1>5, <1>8 DEF ResendEnqueue
  <2>2. BagToSet(queue') = BagToSet(queue) \cup {Item(resend.seed, 1)}
    BY <2>1, EnqueueType, 1 \in Nat
  <2>3. InQueue(s) \/ InResend(s) => InQueue(s)'
    <3>1. InQueue(s) => InQueue(s)'
      BY <2>2 DEF InQueue
    <3>2. ASSUME InResend(s) PROVE InQueue(s)'
      <4>1. PICK it \in BagToSet(queue') : it = Item(resend.seed, 1)
        BY <2>2
      <4>2. it.seed = s
        BY <3>2, <4>1 DEF Item, InResend
      <4>. QED  BY <4>2 DEF InQueue
    <3>. QED  BY <3>1, <3>2
  <2>4. UNCHANGED status
    BY <1>8 DEF ResendEnqueue
  <2>. QED  BY <1>2, <1>3, <1>4, <2>3, <2>4 DEF Owned
<1>9. CASE DeleteRow
  <2>1. status'[s] \in {status[s], "none"} /\ UNCHANGED <<queue, resend>>
    <3>1. status' = [status EXCEPT ![deletion.seed] = "none"]
      BY <1>9 DEF DeleteRow
    <3>2. status \in [Seeds -> Statuses]
      BY DEF TypeOK
    <3>3. status'[s] \in {status[s], "none"}
      BY <3>1, <3>2
    <3>. QED  BY <1>9, <3>3 DEF DeleteRow
  <2>. QED  BY <1>2, <1>3, <1>4, <2>1 DEF Owned, InQueue, InResend, InFlight
<1>. QED  BY <1>6, <1>7, <1>8, <1>9 DEF HandlerNext

(* Start is where ownership is re-established.                               *)
LEMMA LifecycleOwnership == TypeOK /\ Ownership /\ LifecycleNext => Ownership'
<1>. SUFFICES ASSUME TypeOK, Ownership, LifecycleNext, mode' \in Live, NEW s \in Seeds
              PROVE  /\ status'[s] = "retry" => Owned(s)'
                     /\ status'[s] \in InFlight => MidRelay(s)'
  BY OwnershipNext
<1>. USE DEF db, goroutines, handlers
<1>1. CASE Start
  <2>1. status'[s] = Reclaimed(status[s])
    BY <1>1 DEF Start
  <2>2. status'[s] \notin InFlight
    BY <2>1 DEF Reclaimed, InFlight
  <2>3. status'[s] = "retry" => InQueue(s)'
    <3>1. status'[s] = "retry" => Item(s, AtLeastOne(retryCount[s])) \in Rebuilt
      BY <2>1 DEF Rebuilt, Retrying
    <3>2. Rebuilt \subseteq BagToSet(queue')
      BY <1>1, StartQueue
    <3>. QED  BY <3>1, <3>2 DEF InQueue, Item
  <2>. QED  BY <2>2, <2>3 DEF Owned
<1>2. CASE Stop
  <2>1. UNCHANGED <<status, queue, actor, monitor, resend>> /\ mode \in Live
    BY <1>2 DEF Stop, Live
  <2>2. /\ status[s] = "retry" => Owned(s)
        /\ status[s] \in InFlight => MidRelay(s)
    BY <2>1, OwnershipMeaning
  <2>. QED  BY <2>1, <2>2 DEF Owned, InQueue, InRelay, InAbort, InResend, MidRelay, Running
<1>3. ~ Cancel /\ ~ Stopped /\ ~ Crash
  BY DEF Cancel, Stopped, Crash, Live
<1>. QED  BY <1>1, <1>2, <1>3 DEF LifecycleNext

LEMMA InitOwnership == Init => Ownership
  BY DEF Init, Ownership, RetryOwned, ReclaimedOwned, Live

LEMMA StepOwnership == TypeOK /\ Ownership /\ [Next]_vars => Ownership'
<1>. SUFFICES ASSUME TypeOK, Ownership, [Next]_vars PROVE Ownership'
  OBVIOUS
<1>1. ASSUME NEW w \in Workers, WorkerNext(w) PROVE Ownership'
  BY <1>1, TakeOwnership, RelayOwnership DEF WorkerNext, Actors
<1>2. CASE RetryLoopNext
  BY <1>2, TakeOwnership, RelayOwnership DEF RetryLoopNext, Actors
<1>3. CASE UNCHANGED vars
  BY <1>3 DEF Ownership, RetryOwned, ReclaimedOwned, InQueue, InRelay, InAbort,
     InResend, Running, vars, db, goroutines, handlers
<1>. QED
  BY <1>1, <1>2, <1>3, PollerOwnership, MonitorOwnership, HandlerOwnership,
     LifecycleOwnership DEF Next

LEMMA OwnershipCorrect == Spec => []Ownership
<1>. QED  BY InitType, StepType, InitOwnership, StepOwnership, PTL DEF Spec

(* No seed that waits in status retry is ever forgotten by a live engine: an *)
(* entry of the retry queue, a running submitJob, a slow abort or a resend   *)
(* about to enqueue it holds it, however these interleave with crashes,      *)
(* stops, deletes and retirements.                                           *)
THEOREM RetryNeverForgotten == Spec => []RetryOwned
<1>1. Ownership => RetryOwned
  BY DEF Ownership
<1>. QED  BY <1>1, OwnershipCorrect, PTL

(* No seed of a live engine stays in processing or downloading without a     *)
(* Relay that works on it: what a crash strands, the next Start reclaims.    *)
THEOREM NothingStranded == Spec => []ReclaimedOwned
<1>1. Ownership => ReclaimedOwned
  BY DEF Ownership
<1>. QED  BY <1>1, OwnershipCorrect, PTL

-----------------------------------------------------------------------------
(* The chain of attempts of one seed, while no operator request, no stop and *)
(* no slow abort has started a second one.                                   *)

Crashes == Budget["crash"] - budget["crash"]
BudgetKept == \A f \in Faults : budget[f] <= Budget[f]

Creating(s) == poller.pc = "create" /\ poller.seed = s
Polled(s) == poller.pc = "enqueue" /\ poller.seed = s
Channelled(s) == \E i \in DOMAIN jobs : jobs[i] = s
Claimed(s) == Polled(s) \/ Channelled(s) \/ InRelay(s) \/ InQueue(s)

OneJob(s) == \A i, j \in DOMAIN jobs : jobs[i] = s /\ jobs[j] = s => i = j
OneRelay(s) ==
  \A a, b \in Actors :
    Running(a) /\ Running(b) /\ actor[a].seed = s /\ actor[b].seed = s => a = b
OneItem(s) ==
  /\ \A it, o \in BagToSet(queue) : it.seed = s /\ o.seed = s => it = o
  /\ \A it \in BagToSet(queue) : it.seed = s => queue[it] = 1

(* The seed is claimed in one place, once.                                   *)
Exclusive(s) ==
  /\ Polled(s) => ~Channelled(s) /\ ~InRelay(s) /\ ~InQueue(s)
  /\ Channelled(s) => ~InRelay(s) /\ ~InQueue(s)
  /\ InRelay(s) => ~InQueue(s)
  /\ OneJob(s) /\ OneRelay(s) /\ OneItem(s)

(* Only a seed with a tombstone has a row or a claim, so that the poller     *)
(* starts no second chain.                                                   *)
Known(s) ==
  /\ Claimed(s) \/ status[s] # "none" => s \in seen
  /\ Creating(s) => s \in seen /\ ~Claimed(s) /\ status[s] = "none"

(* A settled seed has no claim left.                                         *)
Settled(s) == status[s] \in {"failed", "skipped"} => ~Claimed(s)

(* The number an attempt carries bounds the failures counted in the row.     *)
Numbered(s) ==
  /\ retryCount[s] <= RetryMax + 1 + Crashes
  /\ mode = "stopped" => retryCount[s] <= RetryMax + Crashes
  /\ Polled(s) \/ Channelled(s) => retryCount[s] = 0
  /\ \A it \in BagToSet(queue) :
       it.seed = s => it.no <= RetryMax + Crashes /\ retryCount[s] <= it.no
  /\ \A a \in Actors : Running(a) /\ actor[a].seed = s =>
       /\ actor[a].no <= RetryMax + Crashes
       /\ actor[a].pc \notin {"route", "requeue"} => retryCount[s] <= actor[a].no
       /\ retryCount[s] <= actor[a].no + 1
       /\ actor[a].pc = "requeue" => actor[a].no + 1 <= RetryMax

Chain(s) == Exclusive(s) /\ Known(s) /\ Settled(s) /\ Numbered(s)

(* The engine runs or the process is down, with nothing in memory.           *)
EngineOnly ==
  /\ mode \in {"stopped", "running"}
  /\ resend = NoWork
  /\ monitor.pc \in {"idle", "retire"}
  /\ mode = "stopped" => /\ jobs = <<>> /\ queue = EmptyBag /\ poller = NoWork
                         /\ \A a \in Actors : actor[a] = Idle

ChainInv == Unrequested => EngineOnly /\ \A s \in Seeds : Chain(s)

-----------------------------------------------------------------------------
(* Counting copies: a new item has one, an item with one copy leaves the bag. *)

LEMMA BagAddCount ==
  ASSUME NEW B, NEW S, IsABag(B)
  PROVE  /\ \A e \in BagToSet(B) \ S : (B (+) SetToBag(S))[e] = B[e]
         /\ \A e \in S \ BagToSet(B) : (B (+) SetToBag(S))[e] = 1
<1>1. \A e \in DOMAIN B : B[e] \in Nat
  BY DEF IsABag
<1>. QED  BY <1>1 DEF SetToBag, (+), BagToSet

LEMMA BagTakeCount ==
  ASSUME NEW B, NEW it, IsABag(B), it \in BagToSet(B), B[it] = 1
  PROVE  /\ BagToSet(B (-) SetToBag({it})) = BagToSet(B) \ {it}
         /\ \A e \in BagToSet(B) \ {it} : (B (-) SetToBag({it}))[e] = B[e]
<1>. DEFINE C == [e \in DOMAIN B |-> IF e \in {it} THEN B[e] - 1 ELSE B[e]]
            R == [e \in {d \in DOMAIN C : C[d] > 0} |-> C[e]]
<1>1. B (-) SetToBag({it}) = R
  BY DEF SetToBag, (-)
<1>2. \A e \in DOMAIN B : B[e] \in Nat /\ B[e] > 0
  BY DEF IsABag
<1>3. DOMAIN R = DOMAIN B \ {it}
  BY <1>2
<1>4. \A e \in DOMAIN B \ {it} : R[e] = B[e]
  BY <1>2
<1>. QED  BY <1>1, <1>3, <1>4 DEF BagToSet

LEMMA BagTakeOthers ==
  ASSUME NEW B, NEW it, IsABag(B), it \in BagToSet(B)
  PROVE  \A e \in BagToSet(B (-) SetToBag({it})) : e # it =>
           e \in BagToSet(B) /\ (B (-) SetToBag({it}))[e] = B[e]
<1>. DEFINE C == [e \in DOMAIN B |-> IF e \in {it} THEN B[e] - 1 ELSE B[e]]
            R == [e \in {d \in DOMAIN C : C[d] > 0} |-> C[e]]
<1>1. B (-) SetToBag({it}) = R
  BY DEF SetToBag, (-)
<1>2. \A e \in DOMAIN R : e # it => e \in DOMAIN B /\ R[e] = B[e]
  OBVIOUS
<1>. QED  BY <1>1, <1>2 DEF BagToSet

-----------------------------------------------------------------------------
(* Every clause asks less of a seed with fewer claims: a step that gives s no *)
(* claim it had not, and raises nothing of its row, keeps the chain of s.     *)
LEMMA FewerClaims ==
  ASSUME TypeOK, TypeOK', NEW s \in Seeds, Chain(s),
         UNCHANGED mode, budget'["crash"] = budget["crash"], seen \subseteq seen',
         Polled(s)' => Polled(s), Creating(s)' => Creating(s),
         Channelled(s)' => Channelled(s), OneJob(s)',
         \A a \in Actors : Running(a)' /\ actor'[a].seed = s => actor'[a] = actor[a],
         \A it \in BagToSet(queue') : it.seed = s =>
           it \in BagToSet(queue) /\ queue'[it] = queue[it],
         \/ status'[s] \in {status[s], "none"}
         \/ status[s] # "none" /\ status'[s] \notin {"failed", "skipped"},
         retryCount'[s] <= retryCount[s]
  PROVE  Chain(s)'
<1>1. /\ InRelay(s)' => InRelay(s)
      /\ InQueue(s)' => InQueue(s)
      /\ Claimed(s)' => Claimed(s)
      /\ OneRelay(s)' /\ OneItem(s)'
  <2>1. InRelay(s)' => InRelay(s)
    BY DEF InRelay, Running
  <2>2. InQueue(s)' => InQueue(s)
    BY DEF InQueue
  <2>3. OneRelay(s)'
    BY DEF Chain, Exclusive, OneRelay, Running
  <2>4. OneItem(s)'
    BY DEF Chain, Exclusive, OneItem
  <2>. QED  BY <2>1, <2>2, <2>3, <2>4 DEF Claimed
<1>2. Exclusive(s)'
  BY <1>1 DEF Chain, Exclusive
<1>3. Known(s)'
  BY <1>1 DEF Chain, Known
<1>4. Settled(s)'
  BY <1>1 DEF Chain, Settled
<1>5. Numbered(s)'
  <2>1. retryCount[s] \in Nat /\ retryCount'[s] \in Nat
    BY DEF TypeOK
  <2>2. /\ Crashes' = Crashes /\ Crashes \in Int /\ RetryMax \in Nat
    BY LifecycleAssumption DEF Crashes, TypeOK, Faults
  <2>3. \A it \in BagToSet(queue) : it.no \in Nat
    BY DEF TypeOK, Items
  <2>4. \A a \in Actors : Running(a) => actor[a].no \in Nat
    BY ActorType
  <2>5. \A it \in BagToSet(queue') : it.seed = s =>
          it.no <= RetryMax + Crashes' /\ retryCount'[s] <= it.no
    BY <2>1, <2>2, <2>3 DEF Chain, Numbered
  <2>6. ASSUME NEW a \in Actors, Running(a)', actor'[a].seed = s
        PROVE  /\ actor'[a].no <= RetryMax + Crashes'
               /\ actor'[a].pc \notin {"route", "requeue"} => retryCount'[s] <= actor'[a].no
               /\ retryCount'[s] <= actor'[a].no + 1
               /\ actor'[a].pc = "requeue" => actor'[a].no + 1 <= RetryMax
    <3>1. actor'[a] = actor[a] /\ Running(a)
      BY <2>6 DEF Running
    <3>. QED  BY <2>1, <2>2, <2>4, <2>6, <3>1 DEF Chain, Numbered
  <2>7. Polled(s)' \/ Channelled(s)' => retryCount'[s] = 0
    BY <2>1 DEF Chain, Numbered
  <2>8. /\ retryCount'[s] <= RetryMax + 1 + Crashes'
        /\ mode' = "stopped" => retryCount'[s] <= RetryMax + Crashes'
    BY <2>1, <2>2 DEF Chain, Numbered
  <2>. QED  BY <2>5, <2>6, <2>7, <2>8 DEF Numbered
<1>. QED  BY <1>2, <1>3, <1>4, <1>5 DEF Chain

LEMMA CrashesNat == TypeOK /\ BudgetKept => Crashes \in Nat
<1>1. ASSUME TypeOK PROVE budget["crash"] \in Nat /\ Budget["crash"] \in Nat
  BY <1>1, LifecycleAssumption DEF TypeOK, Faults
<1>2. ASSUME BudgetKept PROVE budget["crash"] <= Budget["crash"]
  BY <1>2 DEF BudgetKept, Faults
<1>. QED  BY <1>1, <1>2 DEF Crashes

-----------------------------------------------------------------------------
(* The poller makes the first claim of a seed it never saw.                  *)
LEMMA PollerChain ==
  ASSUME TypeOK, TypeOK', EngineOnly, PollerNext, NEW s \in Seeds, Chain(s)
  PROVE  Chain(s)'
<1>. USE DEF db, goroutines, handlers
<1>0. Crashes' = Crashes /\ UNCHANGED <<mode, queue, actor, budget>>
      /\ (InRelay(s)' <=> InRelay(s)) /\ (InQueue(s)' <=> InQueue(s))
      /\ (OneRelay(s)' <=> OneRelay(s)) /\ (OneItem(s)' <=> OneItem(s))
  BY DEF PollerNext, MarkSeen, CreateSeed, EnqueueJob, DropJob, Crashes, InRelay,
     InQueue, Running, OneRelay, OneItem
<1>1. ASSUME NEW r \in Seeds, MarkSeen(r) PROVE Chain(s)'
  <2>1. /\ UNCHANGED <<jobs, status, retryCount>> /\ seen' = seen \cup {r}
        /\ poller'.pc = "create" /\ poller'.seed = r
        /\ r \notin seen
    BY <1>1 DEF MarkSeen
  <2>2. CASE r # s
    <3>1. ~ Polled(s)' /\ ~ Creating(s)'
      BY <2>1, <2>2 DEF Polled, Creating
    <3>2. OneJob(s)' /\ (Channelled(s)' => Channelled(s))
      BY <2>1 DEF OneJob, Channelled, Chain, Exclusive
    <3>3. retryCount'[s] <= retryCount[s]
      BY <2>1 DEF TypeOK
    <3>. QED
      BY <1>0, <2>1, <3>1, <3>2, <3>3, FewerClaims DEF Running
  <2>3. CASE r = s
    <3>1. /\ ~ Claimed(s) /\ status[s] = "none"
      BY <2>1, <2>3 DEF Chain, Known
    <3>2. ~ Polled(s)' /\ ~ Channelled(s)' /\ ~ InRelay(s)' /\ ~ InQueue(s)'
      BY <1>0, <2>1, <3>1 DEF Claimed, Polled, Channelled
    <3>3. OneJob(s)'
      BY <2>1 DEF OneJob, Chain, Exclusive
    <3>4. Exclusive(s)'
      BY <1>0, <3>2, <3>3 DEF Chain, Exclusive
    <3>5. Known(s)' /\ Settled(s)'
      BY <2>1, <2>3, <3>1, <3>2 DEF Known, Settled, Claimed
    <3>6. Numbered(s)'
      BY <1>0, <2>1, <3>2 DEF Chain, Numbered, InRelay, InQueue, Running
    <3>. QED  BY <3>4, <3>5, <3>6 DEF Chain
  <2>. QED  BY <2>2, <2>3
<1>2. CASE CreateSeed
  <2>1. poller.pc = "create" /\ poller.seed \in Seeds /\ mode = "running"
    BY <1>2 DEF CreateSeed, TypeOK, NoWork, EngineOnly
  <2>2. UNCHANGED <<jobs, seen>> /\ (OneJob(s)' <=> OneJob(s))
        /\ (Channelled(s)' <=> Channelled(s))
    BY <1>2 DEF CreateSeed, OneJob, Channelled
  <2>3. CASE poller.seed # s \/ Writable(poller.seed)
    <3>1. /\ status'[s] = status[s] /\ retryCount'[s] = retryCount[s]
          /\ ~ Polled(s)' /\ ~ Creating(s)'
      BY <1>2, <2>1, <2>3 DEF CreateSeed, TypeOK, Polled, Creating, NoWork, Live
    <3>2. OneJob(s)' /\ retryCount'[s] <= retryCount[s]
      BY <2>2, <3>1 DEF Chain, Exclusive, TypeOK
    <3>. QED
      BY <1>0, <2>2, <3>1, <3>2, FewerClaims DEF Running
  <2>4. CASE poller.seed = s /\ ~ Writable(poller.seed)
    <3>1. Creating(s) /\ s \in seen /\ ~ Claimed(s)
      BY <2>1, <2>4 DEF Creating, Chain, Known
    <3>2. /\ status'[s] = "discovered" /\ retryCount'[s] = 0
          /\ Polled(s)' /\ ~ Creating(s)'
      <4>1. poller \in [pc : {"create", "enqueue"}, seed : Seeds, no : {0}]
        BY <2>1 DEF TypeOK, NoWork
      <4>2. /\ status' = [status EXCEPT ![s] = "discovered"]
            /\ retryCount' = [retryCount EXCEPT ![s] = 0]
            /\ poller' = [poller EXCEPT !.pc = "enqueue"]
        BY <1>2, <2>1, <2>4 DEF CreateSeed, Live
      <4>3. poller'.pc = "enqueue" /\ poller'.seed = s
        BY <2>4, <4>1, <4>2
      <4>. QED  BY <4>2, <4>3 DEF TypeOK, Polled, Creating
    <3>3. ~ Channelled(s)' /\ ~ InRelay(s)' /\ ~ InQueue(s)'
      BY <1>0, <2>2, <3>1 DEF Claimed
    <3>4. Exclusive(s)'
      BY <1>0, <2>2, <3>3 DEF Chain, Exclusive
    <3>5. Known(s)' /\ Settled(s)'
      BY <2>2, <3>1, <3>2 DEF Known, Settled
    <3>6. Numbered(s)'
      <4>1. Crashes' \in Int /\ RetryMax \in Nat /\ Crashes' = Crashes
        BY <1>0, LifecycleAssumption DEF Crashes, TypeOK, Faults
      <4>2. retryCount[s] \in Nat /\ 0 <= RetryMax + 1 + Crashes
        BY <4>1 DEF Chain, Numbered, TypeOK
      <4>. QED
        BY <1>0, <2>1, <3>2, <3>3, <4>1, <4>2 DEF Numbered, InRelay, InQueue, Running
    <3>. QED  BY <3>4, <3>5, <3>6 DEF Chain
  <2>. QED  BY <2>3, <2>4
<1>3. CASE EnqueueJob
  <2>1. /\ poller.pc = "enqueue" /\ poller.seed \in Seeds /\ mode = "running"
        /\ jobs' = Append(jobs, poller.seed) /\ jobs \in Seq(Seeds)
        /\ UNCHANGED <<seen, status, retryCount>>
    BY <1>3 DEF EnqueueJob, TypeOK, NoWork, EngineOnly
  <2>2. ~ Polled(s)' /\ ~ Creating(s)'
    BY <1>3 DEF EnqueueJob, Polled, Creating, NoWork
  <2>3. CASE poller.seed # s
    <3>1. OneJob(s)' /\ (Channelled(s)' => Channelled(s))
      BY <2>1, <2>3 DEF OneJob, Channelled, Chain, Exclusive
    <3>2. retryCount'[s] <= retryCount[s]
      BY <2>1 DEF TypeOK
    <3>. QED  BY <1>0, <2>1, <2>2, <3>1, <3>2, FewerClaims DEF Running
  <2>4. CASE poller.seed = s
    <3>1. /\ Polled(s) /\ ~ Channelled(s) /\ ~ InRelay(s) /\ ~ InQueue(s)
      BY <2>1, <2>4 DEF Polled, Chain, Exclusive
    <3>2. OneJob(s)'
      BY <2>1, <2>4, <3>1 DEF OneJob, Channelled
    <3>3. ~ InRelay(s)' /\ ~ InQueue(s)'
      BY <1>0, <3>1
    <3>4. Exclusive(s)'
      BY <1>0, <2>2, <3>2, <3>3 DEF Chain, Exclusive
    <3>5. Known(s)' /\ Settled(s)'
      BY <2>1, <2>2, <3>1 DEF Chain, Known, Settled, Claimed
    <3>6. Numbered(s)'
      BY <1>0, <2>1, <3>1, <3>3 DEF Chain, Numbered, InRelay, InQueue, Running
    <3>. QED  BY <3>4, <3>5, <3>6 DEF Chain
  <2>. QED  BY <2>3, <2>4
<1>4. CASE DropJob
  <2>1. UNCHANGED <<jobs, status, retryCount, seen>> /\ ~ Polled(s)' /\ ~ Creating(s)'
    BY <1>4 DEF DropJob, Polled, Creating, NoWork
  <2>2. OneJob(s)' /\ (Channelled(s)' => Channelled(s))
    BY <2>1 DEF OneJob, Channelled, Chain, Exclusive
  <2>3. retryCount'[s] <= retryCount[s]
    BY <2>1 DEF TypeOK
  <2>. QED  BY <1>0, <2>1, <2>2, <2>3, FewerClaims DEF Running
<1>. QED  BY <1>1, <1>2, <1>3, <1>4 DEF PollerNext

-----------------------------------------------------------------------------
(* A worker or the retry loop turns a claim into a running attempt.          *)

Attempt(r, n) == [pc |-> "load", seed |-> r, no |-> n, partial |-> FALSE]

(* The attempt a takes on is the only claim of its seed.                     *)
LEMMA AttemptChain ==
  ASSUME TypeOK, TypeOK', EngineOnly, NEW s \in Seeds, Chain(s), NEW a \in Actors,
         NEW n \in Nat, n <= RetryMax + Crashes, retryCount[s] <= n,
         ~ InRelay(s), Claimed(s), actor' = [actor EXCEPT ![a] = Attempt(s, n)],
         ~ Polled(s)', ~ Creating(s)', ~ Channelled(s)', ~ InQueue(s)',
         UNCHANGED <<mode, seen, status, retryCount, budget>>
  PROVE  Chain(s)'
<1>1. /\ actor'[a] = Attempt(s, n)
      /\ \A b \in Actors \ {a} : actor'[b] = actor[b]
  BY DEF TypeOK
<1>2. /\ \A b \in Actors : Running(b)' /\ actor'[b].seed = s => b = a
      /\ OneRelay(s)' /\ OneJob(s)' /\ OneItem(s)'
  <2>1. \A b \in Actors : Running(b)' /\ actor'[b].seed = s => b = a
    BY <1>1 DEF InRelay, Running
  <2>. QED  BY <2>1 DEF OneRelay, OneJob, OneItem, Channelled, InQueue
<1>3. Exclusive(s)'
  BY <1>2 DEF Exclusive
<1>4. Known(s)' /\ Settled(s)'
  BY DEF Chain, Known, Settled
<1>5. Numbered(s)'
  <2>1. /\ retryCount[s] \in Nat /\ Crashes \in Int /\ RetryMax \in Nat
        /\ Crashes' = Crashes
    BY LifecycleAssumption DEF TypeOK, Crashes, Faults
  <2>. QED
    BY <1>1, <1>2, <2>1 DEF Chain, Numbered, InQueue, Attempt
<1>. QED  BY <1>3, <1>4, <1>5 DEF Chain

LEMMA TakeChain ==
  ASSUME TypeOK, TypeOK', BudgetKept, EngineOnly, NEW s \in Seeds, Chain(s),
         (\E w \in Workers : TakeJob(w) \/ WorkerExit(w)) \/ TakeRetry
  PROVE  Chain(s)'
<1>. USE DEF db, goroutines, handlers
<1>0. /\ UNCHANGED <<mode, seen, status, retryCount, budget, poller>>
      /\ (Polled(s)' <=> Polled(s)) /\ (Creating(s)' <=> Creating(s))
      /\ retryCount'[s] <= retryCount[s]
      /\ retryCount[s] \in Nat /\ Crashes \in Nat /\ RetryMax \in Nat
  <2>1. UNCHANGED <<mode, seen, status, retryCount, budget, poller>>
    BY DEF TakeJob, WorkerExit, TakeRetry
  <2>2. /\ retryCount[s] \in Nat /\ RetryMax \in Nat
        /\ budget["crash"] \in Nat /\ Budget["crash"] \in Nat
    BY LifecycleAssumption DEF TypeOK, Faults
  <2>3. budget["crash"] <= Budget["crash"]
    BY DEF BudgetKept, Faults
  <2>. QED  BY <2>1, <2>2, <2>3 DEF Polled, Creating, Crashes
<1>1. ASSUME NEW w \in Workers, TakeJob(w) PROVE Chain(s)'
  <2>1. /\ actor[w].pc = "idle" /\ jobs # <<>> /\ jobs \in Seq(Seeds)
        /\ jobs' = Tail(jobs) /\ UNCHANGED queue
        /\ mode = "running" /\ w \in Actors
    BY <1>1, Zenon DEF TakeJob, EngineOnly, TypeOK, Actors
  <2>2. actor' = [actor EXCEPT ![w] = Attempt(Head(jobs), 0)]
    BY <1>1, <2>1 DEF TakeJob, Attempt
  <2>3. /\ \A i \in DOMAIN jobs' : i + 1 \in DOMAIN jobs /\ jobs'[i] = jobs[i + 1]
                                   /\ i \in Nat /\ i > 0
        /\ 1 \in DOMAIN jobs /\ jobs[1] = Head(jobs)
    BY <2>1
  <2>4. OneJob(s)' /\ (Channelled(s)' => Channelled(s))
    <3>1. ASSUME NEW i \in DOMAIN jobs', NEW j \in DOMAIN jobs',
                 jobs'[i] = s, jobs'[j] = s
          PROVE  i = j
      <4>1. i + 1 = j + 1
        BY <2>3, <3>1 DEF Chain, Exclusive, OneJob
      <4>. QED  BY <2>3, <4>1
    <3>2. Channelled(s)' => Channelled(s)
      BY <2>3 DEF Channelled
    <3>. QED  BY <3>1, <3>2 DEF OneJob
  <2>5. CASE Head(jobs) # s
    <3>1. \A a \in Actors : Running(a)' /\ actor'[a].seed = s => actor'[a] = actor[a]
      BY <2>1, <2>2, <2>5 DEF Attempt, TypeOK
    <3>. QED  BY <1>0, <2>1, <2>4, <3>1, FewerClaims
  <2>6. CASE Head(jobs) = s
    <3>1. Channelled(s)
      BY <2>3, <2>6 DEF Channelled
    <3>2. ~ Channelled(s)'
      <4>1. SUFFICES ASSUME NEW i \in DOMAIN jobs', jobs'[i] = s PROVE FALSE
        BY DEF Channelled
      <4>2. i + 1 = 1
        BY <2>3, <2>6, <4>1 DEF Chain, Exclusive, OneJob
      <4>. QED  BY <2>3, <4>2
    <3>3. ~ InRelay(s) /\ ~ InQueue(s) /\ ~ Polled(s) /\ Claimed(s) /\ ~ Creating(s)
      BY <3>1 DEF Chain, Exclusive, Claimed, Known
    <3>4. ~ InQueue(s)' /\ ~ Polled(s)' /\ ~ Creating(s)'
      BY <1>0, <2>1, <3>3 DEF InQueue
    <3>5. retryCount[s] <= 0 /\ 0 <= RetryMax + Crashes
      <4>1. retryCount[s] = 0
        BY <3>1 DEF Chain, Numbered
      <4>. QED  BY <1>0, <4>1
    <3>. QED  BY <1>0, <2>1, <2>2, <2>6, <3>2, <3>3, <3>4, <3>5, AttemptChain
  <2>. QED  BY <2>5, <2>6
<1>2. ASSUME NEW w \in Workers, WorkerExit(w) PROVE Chain(s)'
  BY <1>2 DEF WorkerExit, EngineOnly
<1>3. CASE TakeRetry
  <2>1. PICK it \in BagToSet(queue) :
          /\ queue' = queue (-) SetToBag({it})
          /\ actor' = [actor EXCEPT ![RetryLoop] = Attempt(it.seed, it.no)]
    BY <1>3 DEF TakeRetry, Attempt
  <2>2. /\ UNCHANGED jobs /\ RetryLoop \in Actors /\ IsABag(queue)
        /\ BagToSet(queue) \subseteq Items /\ it \in Items
    BY <1>3, <2>1 DEF TakeRetry, Actors, TypeOK
  <2>3. OneJob(s)' /\ (Channelled(s)' <=> Channelled(s))
    BY <2>2 DEF OneJob, Channelled, Chain, Exclusive
  <2>4. CASE it.seed # s
    <3>1. \A a \in Actors : Running(a)' /\ actor'[a].seed = s => actor'[a] = actor[a]
      BY <2>1, <2>4 DEF Attempt, TypeOK
    <3>2. \A e \in BagToSet(queue') : e.seed = s =>
            e \in BagToSet(queue) /\ queue'[e] = queue[e]
      BY <2>1, <2>2, <2>4, BagTakeOthers
    <3>. QED  BY <1>0, <2>2, <2>3, <3>1, <3>2, FewerClaims
  <2>5. CASE it.seed = s
    <3>1. queue[it] = 1 /\ \A e \in BagToSet(queue) : e.seed = s => e = it
      BY <2>1, <2>5 DEF Chain, Exclusive, OneItem
    <3>2. ~ InQueue(s)'
      BY <2>1, <2>2, <3>1, BagTakeCount DEF InQueue
    <3>3. InQueue(s)
      BY <2>1, <2>5 DEF InQueue
    <3>4. ~ InRelay(s) /\ ~ Channelled(s) /\ ~ Polled(s) /\ Claimed(s) /\ ~ Creating(s)
      BY <3>3 DEF Chain, Exclusive, Claimed, Known
    <3>5. it.no \in Nat /\ it.no <= RetryMax + Crashes /\ retryCount[s] <= it.no
      BY <2>1, <2>2, <2>5 DEF Chain, Numbered, Items
    <3>. QED  BY <1>0, <2>1, <2>2, <2>3, <2>5, <3>2, <3>4, <3>5, AttemptChain
  <2>. QED  BY <2>4, <2>5
<1>. QED  BY <1>1, <1>2, <1>3

-----------------------------------------------------------------------------
(* A running attempt goes on with its seed, ends, or goes back to the queue.  *)

GoesOn(a, s) ==
  /\ actor'[a].pc \in RelayPcs /\ actor'[a].seed = s /\ actor'[a].no = actor[a].no
  /\ queue' = queue
  /\ status'[s] \notin {"failed", "skipped"} \/ status'[s] = status[s]
  /\ \/ /\ actor[a].pc \notin {"bump", "route", "requeue"}
        /\ actor'[a].pc \notin {"route", "requeue"}
        /\ retryCount'[s] = retryCount[s]
     \/ /\ actor[a].pc = "bump" /\ actor'[a].pc = "route"
        /\ retryCount'[s] <= retryCount[s] + 1
     \/ /\ actor[a].pc = "route" /\ actor'[a].pc = "requeue"
        /\ actor[a].no + 1 <= RetryMax
        /\ retryCount'[s] = retryCount[s]

Ends(a, s) == actor'[a] = Idle /\ queue' = queue /\ retryCount'[s] = retryCount[s]

GoesBack(a, s) ==
  /\ actor[a].pc = "requeue" /\ actor'[a] = Idle
  /\ Enqueue(s, actor[a].no + 1)
  /\ status'[s] = status[s] /\ retryCount'[s] = retryCount[s]

LEMMA RelayStep ==
  ASSUME TypeOK, NEW a \in Actors, RelayNext(a), mode = "running"
  PROVE  LET s == actor[a].seed IN
         /\ Running(a) /\ s \in Seeds /\ actor[a].no \in Nat
         /\ UNCHANGED <<mode, seen, jobs, poller, monitor, resend, budget>>
         /\ \A b \in Actors \ {a} : actor'[b] = actor[b]
         /\ \A r \in Seeds \ {s} : status'[r] = status[r] /\ retryCount'[r] = retryCount[r]
         /\ status[s] = "none" => status'[s] = "none"
         /\ GoesOn(a, s) \/ Ends(a, s) \/ GoesBack(a, s)
<1>. DEFINE s == actor[a].seed
<1>. USE DEF db, goroutines, handlers
<1>1. Running(a)
  BY DEF RelayNext, LoadSeed, Prepare, Download, PublishTargets, BumpAfterFailure,
         RouteToRetry, RequeueAfterFailure, RouteExhausted, Running, RelayPcs
<1>2. /\ s \in Seeds /\ actor[a].no \in Nat
      /\ actor[a] \in [pc : RelayPcs, seed : Seeds, no : Nat, partial : BOOLEAN]
  BY <1>1, ActorType
<1>3. /\ actor \in [Actors -> ActorStates] /\ status \in [Seeds -> Statuses]
      /\ retryCount \in [Seeds -> Nat]
  BY DEF TypeOK, ActorStates
<1>4. UNCHANGED <<mode, seen, jobs, poller, monitor, resend, budget>>
  BY DEF RelayNext, LoadSeed, Prepare, Download, PublishTargets, BumpAfterFailure,
         RouteToRetry, RequeueAfterFailure, RouteExhausted
<1>5. \A b \in Actors \ {a} : actor'[b] = actor[b]
  BY <1>1, RelayEffect DEF Live
<1>6. /\ \A pc \in RelayPcs : Goto(a, pc) =>
            actor'[a].pc = pc /\ actor'[a].seed = s /\ actor'[a].no = actor[a].no
      /\ \A p \in BOOLEAN : Fail(a, p) =>
            actor'[a].pc = "bump" /\ actor'[a].seed = s /\ actor'[a].no = actor[a].no
      /\ Finish(a) => actor'[a] = Idle
  BY <1>2, <1>3 DEF Goto, Fail, Finish
<1>7. \A st \in Statuses : WriteStatus(s, st) =>
            /\ \A r \in Seeds \ {s} : status'[r] = status[r]
            /\ status'[s] = st \/ status'[s] = status[s]
            /\ status[s] = "none" => status'[s] = "none"
  BY <1>2, <1>3 DEF WriteStatus, Writable
<1>8. BumpRetry(s) =>
        /\ \A r \in Seeds \ {s} : retryCount'[r] = retryCount[r]
        /\ retryCount'[s] <= retryCount[s] + 1
  BY <1>2, <1>3 DEF BumpRetry
<1>. DEFINE Effect ==
       /\ \A r \in Seeds \ {s} : status'[r] = status[r] /\ retryCount'[r] = retryCount[r]
       /\ status[s] = "none" => status'[s] = "none"
       /\ GoesOn(a, s) \/ Ends(a, s) \/ GoesBack(a, s)
<1>11. ASSUME LoadSeed(a) PROVE Effect
  BY <1>6, <1>7, <1>11 DEF LoadSeed, RelayPcs, Statuses, GoesOn
<1>12. ASSUME Prepare(a) PROVE Effect
  BY <1>6, <1>7, <1>12 DEF Prepare, RelayPcs, Statuses, GoesOn, Ends
<1>13. ASSUME Download(a) PROVE Effect
  BY <1>6, <1>7, <1>13 DEF Download, RelayPcs, Statuses, GoesOn
<1>14. ASSUME PublishTargets(a) PROVE Effect
  BY <1>6, <1>7, <1>14 DEF PublishTargets, RelayPcs, Statuses, GoesOn, Ends
<1>15. ASSUME BumpAfterFailure(a) PROVE Effect
  BY <1>6, <1>8, <1>15 DEF BumpAfterFailure, RelayPcs, GoesOn
<1>16. ASSUME RouteToRetry(a) PROVE Effect
  <2>1. actor[a].no + 1 <= RetryMax
    BY <1>16 DEF RouteToRetry, RetryLimit, Live
  <2>. QED  BY <1>6, <1>7, <1>16, <2>1 DEF RouteToRetry, RelayPcs, Statuses, GoesOn
<1>17. ASSUME RequeueAfterFailure(a) PROVE Effect
  BY <1>6, <1>17 DEF RequeueAfterFailure, GoesBack
<1>18. ASSUME RouteExhausted(a) PROVE Effect
  BY <1>6, <1>7, <1>18 DEF RouteExhausted, Statuses, Ends
<1>. HIDE DEF Effect
<1>19. Effect
  BY <1>11, <1>12, <1>13, <1>14, <1>15, <1>16, <1>17, <1>18 DEF RelayNext
<1>. QED  BY <1>1, <1>2, <1>4, <1>5, <1>19 DEF Effect

LEMMA RelayChain ==
  ASSUME TypeOK, TypeOK', BudgetKept, EngineOnly, NEW s \in Seeds, Chain(s),
         NEW a \in Actors, RelayNext(a)
  PROVE  Chain(s)'
<1>. DEFINE r == actor[a].seed
<1>1. mode = "running"
  <2>1. actor[a].pc # "idle"
    BY DEF RelayNext, LoadSeed, Prepare, Download, PublishTargets, BumpAfterFailure,
           RouteToRetry, RequeueAfterFailure, RouteExhausted
  <2>. QED  BY <2>1 DEF EngineOnly, Idle
<1>2. /\ Running(a) /\ r \in Seeds /\ actor[a].no \in Nat
      /\ UNCHANGED <<mode, seen, jobs, poller, monitor, resend, budget>>
      /\ \A b \in Actors \ {a} : actor'[b] = actor[b]
      /\ \A q \in Seeds \ {r} : status'[q] = status[q] /\ retryCount'[q] = retryCount[q]
      /\ status[r] = "none" => status'[r] = "none"
      /\ GoesOn(a, r) \/ Ends(a, r) \/ GoesBack(a, r)
  BY <1>1, RelayStep
<1>3. /\ (Polled(s)' <=> Polled(s)) /\ (Creating(s)' <=> Creating(s))
      /\ (Channelled(s)' <=> Channelled(s)) /\ (OneJob(s)' <=> OneJob(s))
      /\ Crashes' = Crashes /\ Crashes \in Int /\ RetryMax \in Nat
      /\ retryCount[s] \in Nat /\ retryCount'[s] \in Nat
  <2>1. Crashes \in Int /\ RetryMax \in Nat /\ retryCount[s] \in Nat /\ retryCount'[s] \in Nat
    BY LifecycleAssumption DEF TypeOK, Crashes, Faults
  <2>. QED  BY <1>2, <2>1 DEF Polled, Creating, Channelled, OneJob, Crashes
<1>. HIDE DEF r
<1>4. CASE r # s
  <2>1. actor'[a].seed # s \/ ~ Running(a)'
    BY <1>2, <1>4 DEF GoesOn, Ends, GoesBack, Running, Idle, RelayPcs
  <2>2. \A b \in Actors : Running(b)' /\ actor'[b].seed = s => actor'[b] = actor[b]
    BY <1>2, <2>1
  <2>3. \A it \in BagToSet(queue') : it.seed = s =>
          it \in BagToSet(queue) /\ queue'[it] = queue[it]
    <3>1. CASE queue' = queue
      BY <3>1
    <3>2. CASE GoesBack(a, r)
      <4>. DEFINE new == {Item(r, actor[a].no + 1)}
      <4>1. queue' = queue (+) SetToBag(new) /\ \A e \in new : e.seed = r
        BY <3>2 DEF GoesBack, Enqueue, Item
      <4>2. IsABag(queue)
        BY DEF TypeOK
      <4>3. BagToSet(queue') = BagToSet(queue) \cup new
        BY <3>2, <1>2, EnqueueType, actor[a].no + 1 \in Nat DEF GoesBack
      <4>. HIDE DEF new
      <4>4. \A e \in BagToSet(queue) \ new : queue'[e] = queue[e]
        BY <4>1, <4>2, BagAddCount
      <4>. QED  BY <1>4, <4>1, <4>3, <4>4
    <3>. QED  BY <1>2, <3>1, <3>2 DEF GoesOn, Ends
  <2>4. status'[s] = status[s] /\ retryCount'[s] <= retryCount[s]
    BY <1>2, <1>3, <1>4
  <2>5. OneJob(s)' /\ budget'["crash"] = budget["crash"] /\ seen \subseteq seen'
    BY <1>2, <1>3 DEF Chain, Exclusive
  <2>. QED  BY <1>2, <1>3, <2>2, <2>3, <2>4, <2>5, FewerClaims
<1>5. CASE r = s
  <2>1. /\ ~ Polled(s)' /\ ~ Channelled(s)' /\ ~ Creating(s)' /\ OneJob(s)'
        /\ ~ InQueue(s) /\ s \in seen' /\ status[s] \notin {"failed", "skipped"}
    <3>1. InRelay(s)
      BY <1>2, <1>5 DEF InRelay, r
    <3>. QED
      BY <1>2, <1>3, <3>1 DEF Chain, Exclusive, Known, Settled, Claimed
  <2>2. \A b \in Actors : Running(b)' /\ actor'[b].seed = s => b = a
    BY <1>2, <1>5 DEF Chain, Exclusive, OneRelay, Running, r
  <2>3. OneRelay(s)' /\ Known(s)'
    BY <2>1, <2>2 DEF OneRelay, Known
  <2>n. /\ retryCount[s] <= RetryMax + 1 + Crashes
        /\ actor[a].no <= RetryMax + Crashes
        /\ actor[a].pc \notin {"route", "requeue"} => retryCount[s] <= actor[a].no
        /\ retryCount[s] <= actor[a].no + 1
        /\ actor[a].pc = "requeue" => actor[a].no + 1 <= RetryMax
    BY <1>2, <1>5 DEF Chain, Numbered, r
  <2>4. CASE GoesOn(a, s)
    <3>1. ~ InQueue(s)' /\ OneItem(s)'
      BY <2>1, <2>4 DEF GoesOn, InQueue, OneItem
    <3>2. Exclusive(s)'
      BY <2>1, <2>3, <3>1 DEF Exclusive
    <3>3. Settled(s)'
      BY <2>1, <2>4 DEF GoesOn, Settled
    <3>4. Numbered(s)'
      <4>1. /\ retryCount'[s] <= RetryMax + 1 + Crashes
            /\ actor'[a].pc \notin {"route", "requeue"} => retryCount'[s] <= actor'[a].no
            /\ retryCount'[s] <= actor'[a].no + 1
            /\ actor'[a].pc = "requeue" => actor'[a].no + 1 <= RetryMax
            /\ actor'[a].no <= RetryMax + Crashes
        BY <1>2, <1>3, <2>n, <2>4 DEF GoesOn
      <4>. QED
        BY <1>1, <1>2, <1>3, <2>1, <2>2, <3>1, <4>1 DEF Numbered, InQueue
    <3>. QED  BY <2>3, <3>2, <3>3, <3>4 DEF Chain
  <2>5. CASE Ends(a, s)
    <3>1. ~ InQueue(s)' /\ OneItem(s)' /\ ~ InRelay(s)'
      <4>1. ~ Running(a)'
        BY <2>5 DEF Ends, Running, Idle, RelayPcs
      <4>. QED  BY <2>1, <2>2, <2>5, <4>1 DEF Ends, InQueue, OneItem, InRelay
    <3>2. Exclusive(s)'
      BY <2>1, <2>3, <3>1 DEF Exclusive
    <3>3. Settled(s)'
      BY <2>1, <3>1 DEF Settled, Claimed
    <3>4. Numbered(s)'
      BY <1>1, <1>2, <1>3, <2>n, <2>1, <2>5, <3>1 DEF Numbered, InQueue, InRelay, Ends
    <3>. QED  BY <2>3, <3>2, <3>3, <3>4 DEF Chain
  <2>6. CASE GoesBack(a, s)
    <3>. DEFINE it == Item(s, actor[a].no + 1)
    <3>1. IsABag(queue) /\ queue' = queue (+) SetToBag({it})
      BY <2>6 DEF GoesBack, Enqueue, TypeOK
    <3>2. BagToSet(queue') = BagToSet(queue) \cup {it}
      BY <1>2, <2>6, EnqueueType, actor[a].no + 1 \in Nat DEF GoesBack
    <3>3. it.seed = s /\ it.no = actor[a].no + 1
      BY DEF Item
    <3>. HIDE DEF it
    <3>4. it \notin BagToSet(queue)
      BY <2>1, <3>3 DEF InQueue
    <3>5. queue'[it] = 1
      BY <3>1, <3>4, BagAddCount
    <3>6. \A o \in BagToSet(queue') : o.seed = s => o = it
      BY <2>1, <3>2 DEF InQueue
    <3>7. OneItem(s)' /\ ~ InRelay(s)'
      <4>1. ~ Running(a)'
        BY <2>6 DEF GoesBack, Running, Idle, RelayPcs
      <4>. QED  BY <2>2, <3>5, <3>6, <4>1 DEF OneItem, InRelay
    <3>8. Exclusive(s)'
      BY <2>1, <2>3, <3>7 DEF Exclusive
    <3>9. Settled(s)'
      BY <2>1, <2>6 DEF Settled, GoesBack
    <3>10. Numbered(s)'
      <4>1. /\ it.no <= RetryMax + Crashes' /\ retryCount'[s] <= it.no
            /\ retryCount'[s] <= RetryMax + 1 + Crashes'
        BY <1>2, <1>3, <2>n, <2>6, <3>3, CrashesNat DEF GoesBack
      <4>. QED
        BY <1>1, <1>2, <2>1, <3>6, <3>7, <4>1 DEF Numbered, InRelay
    <3>. QED  BY <2>3, <3>8, <3>9, <3>10 DEF Chain
  <2>. QED  BY <1>2, <1>5, <2>4, <2>5, <2>6
<1>. QED  BY <1>4, <1>5

-----------------------------------------------------------------------------
(* The monitor's retirement and a delete take claims from no one, and a       *)
(* restart makes one claim for each row in retry.                            *)

LEMMA AsideChain ==
  ASSUME TypeOK, TypeOK', EngineOnly, NEW s \in Seeds, Chain(s),
         UNCHANGED <<mode, seen, poller, jobs, actor, queue>>,
         budget'["crash"] = budget["crash"],
         \/ status'[s] \in {status[s], "none"}
         \/ status[s] # "none" /\ status'[s] \notin {"failed", "skipped"},
         retryCount'[s] \in {retryCount[s], 0}
  PROVE  Chain(s)'
<1>1. (Polled(s)' => Polled(s)) /\ (Creating(s)' => Creating(s))
      /\ (Channelled(s)' => Channelled(s)) /\ OneJob(s)'
  BY DEF Polled, Creating, Channelled, OneJob, Chain, Exclusive
<1>2. retryCount'[s] <= retryCount[s]
  BY DEF TypeOK
<1>3. \A a \in Actors : Running(a)' /\ actor'[a].seed = s => actor'[a] = actor[a]
  OBVIOUS
<1>. QED  BY <1>1, <1>2, <1>3, FewerClaims

LEMMA MonitorChain ==
  ASSUME TypeOK, TypeOK', EngineOnly, EngineOnly', MonitorNext, NEW s \in Seeds, Chain(s)
  PROVE  Chain(s)'
<1>. USE DEF db, goroutines, handlers
<1>1. ASSUME NEW r \in Seeds, AttachReplica(r) \/ RetireTorrent(r) PROVE Chain(s)'
  BY <1>1, AsideChain DEF AttachReplica, RetireTorrent
<1>2. CASE RetireSeed
  <2>1. monitor.seed \in Seeds
    BY <1>2 DEF RetireSeed, TypeOK, NoWork
  <2>2. \/ status'[s] = status[s]
        \/ status[s] # "none" /\ status'[s] = "retired"
    BY <1>2, <2>1 DEF RetireSeed, WriteStatus, Writable, TypeOK
  <2>. QED  BY <1>2, <2>2, AsideChain DEF RetireSeed
<1>3. ASSUME NEW r \in Seeds PROVE ~ AbortSlow(r)
  <2>1. ASSUME AbortSlow(r) PROVE FALSE
    BY <2>1 DEF AbortSlow, EngineOnly
  <2>. QED  BY <2>1
<1>4. ~ AbortBump /\ ~ AbortMark /\ ~ AbortEnqueue
  BY DEF AbortBump, AbortMark, AbortEnqueue, EngineOnly
<1>. QED  BY <1>1, <1>2, <1>3, <1>4 DEF MonitorNext

LEMMA HandlerChain ==
  ASSUME TypeOK, TypeOK', EngineOnly, EngineOnly', HandlerNext, NEW s \in Seeds, Chain(s)
  PROVE  Chain(s)'
<1>. USE DEF db, goroutines, handlers
<1>1. ASSUME NEW r \in Seeds, DeleteCheck(r) PROVE Chain(s)'
  <2>1. budget'["crash"] = budget["crash"]
    BY <1>1 DEF DeleteCheck, Spend, TypeOK, Faults
  <2>. QED  BY <1>1, <2>1, AsideChain DEF DeleteCheck
<1>2. CASE DeleteRow
  <2>1. status'[s] \in {status[s], "none"} /\ retryCount'[s] \in {retryCount[s], 0}
    BY <1>2 DEF DeleteRow, TypeOK
  <2>. QED  BY <1>2, <2>1, AsideChain DEF DeleteRow
<1>3. ASSUME NEW r \in Seeds PROVE ~ ResendBegin(r)
  <2>1. ASSUME ResendBegin(r) PROVE FALSE
    BY <2>1 DEF ResendBegin, EngineOnly, NoWork
  <2>. QED  BY <2>1
<1>4. ~ ResendReset /\ ~ ResendEnqueue
  BY DEF ResendReset, ResendEnqueue, EngineOnly, NoWork
<1>. QED  BY <1>1, <1>2, <1>3, <1>4 DEF HandlerNext

LEMMA StartChain ==
  ASSUME TypeOK, TypeOK', BudgetKept, EngineOnly, Start, NEW s \in Seeds, Chain(s)
  PROVE  Chain(s)'
<1>1. /\ queue = EmptyBag /\ poller = NoWork /\ mode' = "running" /\ jobs' = <<>>
      /\ actor' = [a \in Actors |-> Idle] /\ status'[s] = Reclaimed(status[s])
      /\ UNCHANGED <<seen, retryCount, poller, budget>>
  BY DEF Start, EngineOnly
<1>2. BagToSet(queue') = Rebuilt /\ \A it \in Rebuilt : queue'[it] = 1
  <2>1. BagToSet(queue) = {}
    BY <1>1 DEF EmptyBag, SetToBag, BagToSet
  <2>2. queue' = queue (+) SetToBag(Rebuilt)
    BY DEF Start, Rebuilt, Retrying, ListSeedsByStatus
  <2>3. IsABag(queue)
    BY DEF TypeOK
  <2>. HIDE DEF Rebuilt
  <2>4. BagToSet(queue') = Rebuilt
    BY <2>1, StartQueue
  <2>. QED  BY <2>1, <2>2, <2>3, <2>4, BagAddCount
<1>3. ~ Polled(s)' /\ ~ Creating(s)' /\ ~ Channelled(s)' /\ ~ InRelay(s)'
  BY <1>1 DEF Polled, Creating, Channelled, InRelay, Running, RelayPcs, Idle, NoWork
<1>4. \A it \in BagToSet(queue') : it.seed = s =>
        it = Item(s, AtLeastOne(retryCount[s])) /\ status'[s] = "retry"
  BY <1>1, <1>2 DEF Rebuilt, Retrying, Item
<1>5. OneJob(s)' /\ OneRelay(s)' /\ OneItem(s)'
  <2>1. OneItem(s)'
    BY <1>2, <1>4 DEF OneItem
  <2>. QED  BY <1>1, <2>1 DEF OneJob, OneRelay, Running, RelayPcs, Idle
<1>6. Exclusive(s)'
  BY <1>3, <1>5 DEF Exclusive
<1>7. Known(s)' /\ Settled(s)'
  <2>1. InQueue(s)' => status'[s] = "retry"
    BY <1>4 DEF InQueue
  <2>2. status'[s] # "none" => status[s] # "none"
    BY <1>1 DEF Reclaimed
  <2>. QED  BY <1>1, <1>3, <2>1, <2>2 DEF Chain, Known, Settled, Claimed
<1>8. Numbered(s)'
  <2>1. Crashes \in Nat /\ RetryMax \in Nat \ {0} /\ retryCount[s] \in Nat
        /\ Crashes' = Crashes
    BY <1>1, CrashesNat, LifecycleAssumption DEF TypeOK, Crashes
  <2>2. retryCount[s] <= RetryMax + Crashes
    BY DEF Chain, Numbered, Start
  <2>3. \A it \in BagToSet(queue') : it.seed = s =>
          it.no <= RetryMax + Crashes' /\ retryCount'[s] <= it.no
    BY <1>1, <1>4, <2>1, <2>2 DEF Item, AtLeastOne
  <2>. QED
    BY <1>1, <1>3, <2>1, <2>2, <2>3 DEF Numbered, InRelay
<1>. QED  BY <1>6, <1>7, <1>8 DEF Chain

(* A crash forgets every claim; the failure it interrupts may be counted twice. *)
LEMMA CrashChain ==
  ASSUME TypeOK, TypeOK', BudgetKept, Crash, NEW s \in Seeds, Chain(s)
  PROVE  Chain(s)'
<1>1. /\ UNCHANGED <<seen, status, retryCount>> /\ mode' = "stopped" /\ jobs' = <<>>
      /\ queue' = EmptyBag /\ actor' = [a \in Actors |-> Idle] /\ poller' = NoWork
  BY DEF Crash, db
<1>2. /\ ~ Polled(s)' /\ ~ Creating(s)' /\ ~ Channelled(s)' /\ ~ InRelay(s)'
      /\ BagToSet(queue') = {} /\ ~ InQueue(s)'
  BY <1>1 DEF Polled, Creating, Channelled, InRelay, Running, RelayPcs, Idle, NoWork,
     EmptyBag, SetToBag, BagToSet, InQueue
<1>3. Exclusive(s)'
  BY <1>1, <1>2 DEF Exclusive, OneJob, OneRelay, OneItem, InRelay
<1>4. Known(s)' /\ Settled(s)'
  BY <1>1, <1>2 DEF Chain, Known, Settled, Claimed
<1>5. Numbered(s)'
  <2>1. budget["crash"] \in Nat /\ Budget["crash"] \in Nat
        /\ budget'["crash"] = budget["crash"] - 1
    BY LifecycleAssumption DEF Crash, Spend, TypeOK, Faults
  <2>2. Crashes' = Crashes + 1 /\ Crashes \in Int
    BY <2>1 DEF Crashes
  <2>3. RetryMax \in Nat /\ retryCount[s] \in Nat
    BY LifecycleAssumption DEF TypeOK
  <2>. QED
    BY <1>1, <1>2, <2>2, <2>3 DEF Chain, Numbered, InRelay
<1>. QED  BY <1>3, <1>4, <1>5 DEF Chain

-----------------------------------------------------------------------------
(* The budgets only shrink, so what is still whole was whole before.          *)
LEMMA StepBudget ==
  ASSUME TypeOK, BudgetKept, [Next]_vars
  PROVE  BudgetKept' /\ \A f \in Faults : budget'[f] <= budget[f]
<1>. USE DEF db, goroutines, handlers
<1>1. budget \in [Faults -> Nat] /\ Budget \in [Faults -> Nat]
  BY LifecycleAssumption DEF TypeOK
<1>2. UNCHANGED budget \/ \E f \in Faults : Spend(f)
  <2>1. PollerNext => UNCHANGED budget
    BY DEF PollerNext, MarkSeen, CreateSeed, EnqueueJob, DropJob
  <2>2. \A a \in Actors : RelayNext(a) => UNCHANGED budget
    BY DEF RelayNext, LoadSeed, Prepare, Download, PublishTargets, BumpAfterFailure,
       RouteToRetry, RequeueAfterFailure, RouteExhausted
  <2>3. (\E w \in Workers : WorkerNext(w)) \/ RetryLoopNext => UNCHANGED budget
    BY <2>2 DEF WorkerNext, RetryLoopNext, TakeJob, WorkerExit, TakeRetry, Actors
  <2>4. MonitorNext => UNCHANGED budget \/ Spend("abort")
    BY DEF MonitorNext, AttachReplica, RetireTorrent, AbortSlow, RetireSeed, AbortBump,
       AbortMark, AbortEnqueue
  <2>5. HandlerNext => UNCHANGED budget \/ Spend("resend") \/ Spend("delete")
    BY DEF HandlerNext, ResendBegin, DeleteCheck, ResendReset, ResendEnqueue, DeleteRow
  <2>6. LifecycleNext => UNCHANGED budget \/ Spend("stop") \/ Spend("crash")
    BY DEF LifecycleNext, Start, Stop, Cancel, Stopped, Crash
  <2>. QED
    BY <2>1, <2>3, <2>4, <2>5, <2>6 DEF Next, vars, Faults
<1>3. \A f \in Faults : budget'[f] <= budget[f]
  BY <1>1, <1>2 DEF Spend
<1>. QED  BY <1>1, <1>3, StepType DEF BudgetKept, TypeOK

LEMMA StillUnrequested ==
  ASSUME TypeOK, BudgetKept, [Next]_vars, Unrequested'
  PROVE  /\ Unrequested
         /\ ~ Stop /\ \A s \in Seeds : ~ ResendBegin(s) /\ ~ AbortSlow(s)
<1>1. \A f \in Faults : budget'[f] <= budget[f] /\ budget[f] <= Budget[f]
                      /\ budget[f] \in Nat /\ Budget[f] \in Nat /\ budget'[f] \in Nat
  <2>1. TypeOK'
    BY StepType
  <2>2. \A f \in Faults : budget'[f] <= budget[f]
    BY StepBudget
  <2>. QED  BY <2>1, <2>2, LifecycleAssumption DEF BudgetKept, TypeOK
<1>2. \A f \in {"stop", "resend", "abort"} : budget[f] = Budget[f] /\ budget'[f] = budget[f]
  <2>1. SUFFICES ASSUME NEW f \in {"stop", "resend", "abort"}
                 PROVE  budget[f] = Budget[f] /\ budget'[f] = budget[f]
    OBVIOUS
  <2>2. f \in Faults
    BY DEF Faults
  <2>3. budget'[f] = Budget[f]
    BY DEF Unrequested
  <2>. QED  BY <1>1, <2>2, <2>3
<1>3. \A f \in {"stop", "resend", "abort"} : ~ Spend(f)
  <2>1. ASSUME NEW f \in {"stop", "resend", "abort"}, Spend(f) PROVE FALSE
    <3>1. f \in Faults
      BY DEF Faults
    <3>2. budget'[f] = budget[f] - 1
      BY <2>1, <3>1 DEF Spend, TypeOK
    <3>. QED  BY <1>1, <1>2, <3>1, <3>2
  <2>. QED  BY <2>1
<1>. QED
  BY <1>2, <1>3 DEF Unrequested, Stop, ResendBegin, AbortSlow

LEMMA StepEngineOnly ==
  ASSUME TypeOK, BudgetKept, EngineOnly, [Next]_vars, Unrequested'
  PROVE  EngineOnly'
<1>. USE DEF db, goroutines, handlers
<1>0. ~ Stop /\ \A s \in Seeds : ~ ResendBegin(s) /\ ~ AbortSlow(s)
  BY StillUnrequested
<1>1. CASE UNCHANGED <<mode, resend>> /\ monitor' \in {monitor, NoWork} /\ mode # "stopped"
  BY <1>1 DEF EngineOnly, NoWork
<1>2. CASE PollerNext
  <2>1. poller.pc # "idle" => poller # NoWork
    BY DEF NoWork
  <2>2. UNCHANGED <<mode, resend, monitor>> /\ mode # "stopped"
    BY <1>2, <2>1 DEF PollerNext, MarkSeen, CreateSeed, EnqueueJob, DropJob, EngineOnly, Live, NoWork
  <2>. QED  BY <1>1, <2>2
<1>3. ASSUME NEW a \in Actors, RelayNext(a) PROVE EngineOnly'
  <2>1. UNCHANGED <<mode, resend, monitor>> /\ actor[a].pc # "idle"
    BY <1>3 DEF RelayNext, LoadSeed, Prepare, Download, PublishTargets, BumpAfterFailure,
       RouteToRetry, RequeueAfterFailure, RouteExhausted
  <2>2. mode # "stopped"
    BY <2>1 DEF EngineOnly, Idle
  <2>. QED  BY <1>1, <2>1, <2>2
<1>4. CASE (\E w \in Workers : TakeJob(w) \/ WorkerExit(w)) \/ TakeRetry
  <2>1. UNCHANGED <<mode, resend, monitor>> /\ mode # "stopped"
    BY <1>4 DEF TakeJob, WorkerExit, TakeRetry, EngineOnly
  <2>. QED  BY <1>1, <2>1
<1>5. CASE MonitorNext
  <2>1. UNCHANGED <<mode, resend, jobs, queue, poller, actor>>
    BY <1>0, <1>5 DEF MonitorNext, AttachReplica, RetireTorrent, RetireSeed, AbortBump,
       AbortMark, AbortEnqueue, EngineOnly
  <2>2. monitor'.pc \in {"idle", "retire"}
    BY <1>0, <1>5 DEF MonitorNext, AttachReplica, RetireTorrent, RetireSeed, AbortBump,
       AbortMark, AbortEnqueue, EngineOnly, NoWork
  <2>. QED  BY <2>1, <2>2 DEF EngineOnly
<1>6. CASE HandlerNext
  <2>1. UNCHANGED <<mode, resend, monitor, jobs, queue, poller, actor>>
    BY <1>0, <1>6 DEF HandlerNext, DeleteCheck, ResendReset, ResendEnqueue, DeleteRow,
       EngineOnly, NoWork
  <2>. QED  BY <2>1 DEF EngineOnly
<1>7. CASE LifecycleNext
  BY <1>0, <1>7 DEF LifecycleNext, Start, Cancel, Stopped, Crash, EngineOnly, NoWork
<1>8. CASE UNCHANGED vars
  BY <1>8 DEF vars, EngineOnly
<1>. QED
  BY <1>2, <1>3, <1>4, <1>5, <1>6, <1>7, <1>8
     DEF Next, WorkerNext, RetryLoopNext, Actors

LEMMA StepChain == TypeOK /\ BudgetKept /\ ChainInv /\ [Next]_vars => ChainInv'
<1>. SUFFICES ASSUME TypeOK, BudgetKept, ChainInv, [Next]_vars, Unrequested'
              PROVE  EngineOnly' /\ \A s \in Seeds : Chain(s)'
  BY DEF ChainInv
<1>1. /\ Unrequested /\ EngineOnly /\ \A s \in Seeds : Chain(s)
      /\ ~ Stop
  BY StillUnrequested DEF ChainInv
<1>2. TypeOK' /\ EngineOnly'
  BY <1>1, StepType, StepEngineOnly
<1>3. SUFFICES ASSUME NEW s \in Seeds PROVE Chain(s)'
  BY <1>2
<1>4. Chain(s)
  BY <1>1
<1>5. CASE PollerNext
  BY <1>1, <1>2, <1>4, <1>5, PollerChain
<1>6. ASSUME NEW a \in Actors, RelayNext(a) PROVE Chain(s)'
  BY <1>1, <1>2, <1>4, <1>6, RelayChain
<1>7. CASE (\E w \in Workers : TakeJob(w) \/ WorkerExit(w)) \/ TakeRetry
  BY <1>1, <1>2, <1>4, <1>7, TakeChain
<1>8. CASE MonitorNext
  BY <1>1, <1>2, <1>4, <1>8, MonitorChain
<1>9. CASE HandlerNext
  BY <1>1, <1>2, <1>4, <1>9, HandlerChain
<1>10. CASE Start
  BY <1>1, <1>2, <1>4, <1>10, StartChain
<1>11. CASE Crash
  BY <1>2, <1>4, <1>11, CrashChain
<1>12. ~ Cancel /\ ~ Stopped
  BY <1>1 DEF Cancel, Stopped, EngineOnly
<1>13. CASE UNCHANGED vars
  <2>1. UNCHANGED <<mode, seen, poller, jobs, actor, queue, budget, status, retryCount>>
    BY <1>13 DEF vars, db, goroutines
  <2>. QED  BY <1>1, <1>2, <1>4, <2>1, AsideChain
<1>. QED
  BY <1>1, <1>5, <1>6, <1>7, <1>8, <1>9, <1>10, <1>11, <1>12, <1>13
     DEF Next, WorkerNext, RetryLoopNext, LifecycleNext, Actors

LEMMA InitChain == Init => BudgetKept /\ ChainInv
<1>. SUFFICES ASSUME Init PROVE BudgetKept /\ ChainInv
  OBVIOUS
<1>1. budget = Budget /\ Budget \in [Faults -> Nat] /\ RetryMax \in Nat
  BY LifecycleAssumption DEF Init
<1>2. BudgetKept /\ Crashes = 0
  <2>1. \A f \in Faults : budget[f] <= Budget[f]
    BY <1>1
  <2>2. Budget["crash"] \in Nat
    BY <1>1 DEF Faults
  <2>. QED  BY <1>1, <2>1, <2>2 DEF BudgetKept, Crashes
<1>3. EngineOnly
  BY DEF Init, EngineOnly, NoWork
<1>4. ASSUME NEW s \in Seeds PROVE Chain(s)
  <2>1. /\ ~ Polled(s) /\ ~ Creating(s) /\ ~ Channelled(s) /\ ~ InRelay(s)
        /\ BagToSet(queue) = {} /\ ~ InQueue(s)
    BY DEF Init, Polled, Creating, Channelled, InRelay, Running, RelayPcs, Idle, NoWork,
       EmptyBag, SetToBag, BagToSet, InQueue
  <2>2. Exclusive(s)
    BY <2>1 DEF Init, Exclusive, OneJob, OneRelay, OneItem, InRelay
  <2>3. Known(s) /\ Settled(s)
    BY <2>1, <1>4 DEF Init, Known, Settled, Claimed
  <2>4. retryCount[s] = 0
    BY <1>4 DEF Init
  <2>5. Numbered(s)
    BY <1>1, <1>2, <2>1, <2>4 DEF Numbered, InRelay
  <2>. QED  BY <2>2, <2>3, <2>5 DEF Chain
<1>. QED  BY <1>2, <1>3, <1>4 DEF ChainInv

LEMMA ChainCorrect == Spec => [](TypeOK /\ BudgetKept /\ ChainInv)
<1>1. BudgetKept /\ TypeOK /\ [Next]_vars => BudgetKept'
  BY StepBudget
<1>. QED  BY <1>1, InitType, StepType, InitChain, StepChain, PTL DEF Spec

LEMMA ChainSingle ==
  ASSUME ChainInv PROVE SingleChain
<1>1. SUFFICES ASSUME Unrequested, NEW s \in Seeds
               PROVE  /\ \A c, d \in Claims(s) : c = d
                      /\ \A it \in BagToSet(queue) : it.seed = s => queue[it] = 1
  BY DEF SingleChain
<1>2. Exclusive(s)
  BY <1>1 DEF ChainInv, Chain
<1>. DEFINE P == IF poller.pc = "enqueue" /\ poller.seed = s THEN {<<"poller", 0>>} ELSE {}
            J == {<<"job", i>> : i \in {j \in DOMAIN jobs : jobs[j] = s}}
            A == {<<"actor", a>> : a \in {b \in Actors : Running(b) /\ actor[b].seed = s}}
            Q == {<<"item", it.no>> : it \in {i \in BagToSet(queue) : i.seed = s}}
<1>3. /\ \A c, d \in P : c = d
      /\ \A c, d \in J : c = d
      /\ \A c, d \in A : c = d
      /\ \A c, d \in Q : c = d
  BY <1>2 DEF Exclusive, OneJob, OneRelay, OneItem
<1>4. /\ P # {} => Polled(s)
      /\ J # {} => Channelled(s)
      /\ A # {} => InRelay(s)
      /\ Q # {} => InQueue(s)
  BY DEF Polled, Channelled, InRelay, InQueue
<1>5. Claims(s) = P \cup J \cup A \cup Q
  BY DEF Claims
<1>. HIDE DEF P, J, A, Q
<1>6. \A c, d \in Claims(s) : c = d
  BY <1>2, <1>3, <1>4, <1>5 DEF Exclusive
<1>. QED  BY <1>2, <1>6 DEF Exclusive, OneItem

(* As long as nobody resent the seed, stopped the engine or aborted a slow    *)
(* torrent, each seed is claimed in one place: no two Relays of one seed      *)
(* overlap, however many workers, crashes, deletes and retirements there are. *)
THEOREM OneChain == Spec => []SingleChain
<1>1. ChainInv => SingleChain
  BY ChainSingle
<1>. QED  BY <1>1, ChainCorrect, PTL

(* Under the same condition the failures counted in a row stay within one     *)
(* initial attempt, retry_max retries and one more for each crash.            *)
THEOREM FailuresBounded == Spec => []RetryBudget
<1>1. ChainInv => RetryBudget
  BY DEF ChainInv, Chain, Numbered, RetryBudget, Crashes
<1>. QED  BY <1>1, ChainCorrect, PTL

(* A settled seed has no claim, so no step of the engine relays it.           *)
LEMMA SettledStep ==
  ASSUME TypeOK, BudgetKept, ChainInv, [Next]_vars, Unrequested',
         NEW s \in Seeds, status[s] \in {"failed", "skipped"}
  PROVE  \/ status'[s] \in {status[s], "retired"}
         \/ deletion.seed = s /\ status'[s] = "none"
<1>. USE DEF db, goroutines, handlers
<1>1. /\ Unrequested /\ EngineOnly /\ Chain(s)
  BY StillUnrequested DEF ChainInv
<1>2. ~ Claimed(s) /\ s \in seen /\ ~ Creating(s) /\ status[s] # "none"
  BY <1>1 DEF Chain, Settled, Known
<1>3. CASE PollerNext
  BY <1>2, <1>3 DEF PollerNext, MarkSeen, CreateSeed, EnqueueJob, DropJob, Creating, TypeOK
<1>4. ASSUME NEW a \in Actors, RelayNext(a) PROVE status'[s] = status[s]
  <2>1. actor[a].pc # "idle"
    BY <1>4 DEF RelayNext, LoadSeed, Prepare, Download, PublishTargets, BumpAfterFailure,
           RouteToRetry, RequeueAfterFailure, RouteExhausted
  <2>2. mode = "running"
    BY <1>1, <2>1 DEF EngineOnly, Idle
  <2>3. actor[a].seed # s
    BY <1>2, <1>4, <2>2, RelayStep DEF Claimed, InRelay
  <2>. QED  BY <1>4, <2>2, <2>3, RelayStep
<1>5. CASE (\E w \in Workers : TakeJob(w) \/ WorkerExit(w)) \/ TakeRetry
  BY <1>5 DEF TakeJob, WorkerExit, TakeRetry
<1>6. CASE MonitorNext
  <2>1. UNCHANGED status \/ RetireSeed
    BY <1>1, <1>6 DEF MonitorNext, AttachReplica, RetireTorrent, AbortSlow, AbortBump,
       AbortMark, AbortEnqueue, EngineOnly
  <2>2. ASSUME RetireSeed PROVE status'[s] \in {status[s], "retired"}
    BY <2>2 DEF RetireSeed, WriteStatus, TypeOK
  <2>. QED  BY <2>1, <2>2
<1>7. CASE HandlerNext
  BY <1>1, <1>7 DEF HandlerNext, ResendBegin, DeleteCheck, ResendReset, ResendEnqueue,
     DeleteRow, EngineOnly, NoWork, TypeOK
<1>8. CASE LifecycleNext
  BY <1>8 DEF LifecycleNext, Start, Stop, Cancel, Stopped, Crash, Reclaimed
<1>9. CASE UNCHANGED vars
  BY <1>9 DEF vars
<1>. QED
  BY <1>3, <1>4, <1>5, <1>6, <1>7, <1>8, <1>9
     DEF Next, WorkerNext, RetryLoopNext, Actors

(* As long as nobody resent a seed, stopped the engine or aborted a slow     *)
(* torrent, no restart and no left-over claim relays a failed or skipped     *)
(* seed again; only its retirement changes it and a delete removes it.       *)
THEOREM SettledForGood == Spec => SettledStays
<1>1. TypeOK /\ BudgetKept /\ ChainInv /\ [Next]_vars =>
        [\A s \in Seeds : Unrequested' /\ status[s] \in {"failed", "skipped"} =>
           \/ status'[s] \in {status[s], "retired"}
           \/ deletion.seed = s /\ status'[s] = "none"]_vars
  BY SettledStep
<1>. QED  BY <1>1, ChainCorrect, PTL DEF Spec, SettledStays

=============================================================================
