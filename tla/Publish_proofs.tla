--------------------------- MODULE Publish_proofs ---------------------------
(***************************************************************************)
(* Proofs about Publish, for every set of targets, any number of           *)
(* overlapping attempts and every combination of disturbances, and about   *)
(* Retirement, for any number of seeds and conditions.                     *)
(***************************************************************************)
EXTENDS MCSeeding, TLAPS

-----------------------------------------------------------------------------
(* The publication.                                                          *)
RecordStatuses == {"absent", "pending", "failed"} \cup Done
Steps == {"off", "wait"} \cup Held \cup Terminal
Attempts == [phase : {"idle", "waiting", "targets"}, no : Nat]

(* What an UPDATE of a record and a move of a goroutine do.                  *)
LEMMA WriteRecordEffect ==
  ASSUME record \in [Targets -> RecordStatuses], NEW t \in Targets,
         NEW st \in RecordStatuses, WriteRecord(t, st)
  PROVE  /\ record' \in [Targets -> RecordStatuses]
         /\ \A u \in Targets : record'[u] = record[u] \/ (u = t /\ record'[u] = st)
<1>1. CASE ctx = "live" /\ record[t] # "absent"
  BY <1>1 DEF WriteRecord
<1>2. CASE ~ (ctx = "live" /\ record[t] # "absent")
  BY <1>2 DEF WriteRecord
<1>. QED  BY <1>1, <1>2

LEMMA GotoEffect ==
  ASSUME step \in [Relays -> [Targets -> Steps]], NEW r \in Relays, NEW t \in Targets,
         NEW pc \in Steps, Goto(r, t, pc)
  PROVE  /\ step' \in [Relays -> [Targets -> Steps]]
         /\ step'[r][t] = pc
         /\ \A q \in Relays, u \in Targets :
              q # r \/ u # t => step'[q][u] = step[q][u]
  BY DEF Goto

-----------------------------------------------------------------------------
LEMMA InitType == Init => TypeOK
<1>. SUFFICES ASSUME Init PROVE TypeOK
  OBVIOUS
<1>1. relay \in [Relays -> Attempts]
  BY DEF Init, Attempts
<1>2. monitor \in [kind : {"idle", "retire", "close", "abort"}, todo : SUBSET Targets]
  BY DEF Init, Quiet
<1>3. step \in [Relays -> [Targets -> Steps]] /\ record \in [Targets -> RecordStatuses]
  BY DEF Init, Steps, RecordStatuses
<1>. QED  BY <1>1, <1>2, <1>3 DEF Init, TypeOK, Attempts, Steps, RecordStatuses

LEMMA TargetType ==
  ASSUME TypeOK, NEW r \in Relays, NEW t \in Targets, PublishToOneTarget(r, t)
  PROVE  TypeOK'
<1>. USE DEF db
<1>0. step \in [Relays -> [Targets -> Steps]] /\ record \in [Targets -> RecordStatuses]
  BY DEF TypeOK, Steps, RecordStatuses
<1>1. step' \in [Relays -> [Targets -> Steps]]
  <2>1. \E pc \in Steps : Goto(r, t, pc)
    BY DEF PublishToOneTarget, Acquire, Look, Claim, Upload, MarkPublished, MarkFailed,
       Demote, Join, MarkCrossSeeding, Steps, Held, Terminal
  <2>. QED  BY <1>0, <2>1, GotoEffect
<1>2. record' \in [Targets -> RecordStatuses]
  <2>1. CASE Claim(r, t)
    BY <1>0, <2>1 DEF Claim, UpsertRecord, RecordStatuses
  <2>2. CASE MarkPublished(r, t) \/ MarkFailed(r, t) \/ MarkCrossSeeding(r, t)
    BY <1>0, <2>2, WriteRecordEffect DEF MarkPublished, MarkFailed, MarkCrossSeeding,
       RecordStatuses, Done, Published
  <2>3. CASE UNCHANGED record
    BY <1>0, <2>3
  <2>. QED
    BY <2>1, <2>2, <2>3 DEF PublishToOneTarget, Acquire, Look, Upload, Demote, Join
<1>3. role' \in [Targets -> {"publisher", "seeder"}]
  <2>1. CASE Claim(r, t)
    BY <2>1 DEF Claim, UpsertRecord, TypeOK
  <2>2. CASE Demote(r, t)
    <3>1. role' \in {role, [role EXCEPT ![t] = "seeder"]}
      BY <2>2 DEF Demote
    <3>. QED  BY <3>1 DEF TypeOK
  <2>3. CASE UNCHANGED role
    BY <2>3 DEF TypeOK
  <2>. QED
    BY <2>1, <2>2, <2>3 DEF PublishToOneTarget, Acquire, Look, Upload, MarkPublished,
       MarkFailed, Join, MarkCrossSeeding
<1>4. site' \subseteq Targets /\ replica' \in BOOLEAN
  BY DEF PublishToOneTarget, Acquire, Look, Claim, Upload, MarkPublished, MarkFailed,
     Demote, Join, MarkCrossSeeding, TypeOK
<1>5. UNCHANGED <<seedStatus, relay, monitor, resend, ctx>>
  BY DEF PublishToOneTarget, Acquire, Look, Claim, Upload, MarkPublished, MarkFailed,
     Demote, Join, MarkCrossSeeding
<1>. QED  BY <1>1, <1>2, <1>3, <1>4, <1>5 DEF TypeOK, Steps, RecordStatuses

LEMMA AttemptType ==
  ASSUME TypeOK, NEW r \in Relays, BeginRelay(r) \/ EndRelay(r)
  PROVE  TypeOK'
<1>. USE DEF db
<1>1. seedStatus' \in {"open", "seeding", "failed", "retired"}
  <2>1. CASE BeginRelay(r)
    BY <2>1 DEF BeginRelay, WriteSeed, TypeOK
  <2>2. CASE EndRelay(r)
    BY <2>2 DEF EndRelay, WriteSeed, TypeOK
  <2>. QED  BY <2>1, <2>2
<1>2. relay' \in [Relays -> Attempts]
  <2>0. relay \in [Relays -> Attempts]
    BY DEF TypeOK, Attempts
  <2>1. \/ relay' = [relay EXCEPT ![r].phase = "idle"]
        \/ relay' = [relay EXCEPT ![r].phase = "targets"]
        \/ relay' = [relay EXCEPT ![r] = [phase |-> "waiting", no |-> @.no + 1]]
    BY DEF BeginRelay, EndRelay
  <2>. QED  BY <2>0, <2>1 DEF Attempts
<1>3. step' \in [Relays -> [Targets -> Steps]]
  <2>0. step \in [Relays -> [Targets -> Steps]]
    BY DEF TypeOK, Steps
  <2>1. step' = step \/ \E f \in [Targets -> Steps] : step' = [step EXCEPT ![r] = f]
    <3>1. ASSUME NEW todo PROVE [t \in Targets |-> IF t \in todo THEN "wait" ELSE "off"]
                                  \in [Targets -> Steps]
      BY DEF Steps
    <3>2. [t \in Targets |-> "off"] \in [Targets -> Steps]
      BY DEF Steps
    <3>. QED  BY <3>1, <3>2 DEF BeginRelay, EndRelay
  <2>. QED  BY <2>0, <2>1
<1>4. UNCHANGED <<record, role, replica, site, monitor, resend, ctx>>
  BY DEF BeginRelay, EndRelay
<1>. QED  BY <1>1, <1>2, <1>3, <1>4 DEF TypeOK, Attempts, Steps

LEMMA MonitorType == TypeOK /\ MonitorNext => TypeOK'
<1>. SUFFICES ASSUME TypeOK, MonitorNext PROVE TypeOK'
  OBVIOUS
<1>. USE DEF db
<1>1. CASE AttachReplica
  BY <1>1 DEF AttachReplica, TypeOK
<1>2. CASE RetireBegin \/ AbortBegin
  <2>1. monitor' \in [kind : {"idle", "retire", "close", "abort"}, todo : SUBSET Targets]
    BY <1>2 DEF RetireBegin, AbortBegin, ListRecordsBySeed, TypeOK
  <2>. QED  BY <1>2, <2>1 DEF RetireBegin, AbortBegin, ListRecordsBySeed, TypeOK
<1>3. CASE DropReplicas \/ RetireSeed
  <2>1. /\ seedStatus' \in {"open", "seeding", "failed", "retired"}
        /\ replica' \in BOOLEAN
        /\ monitor' \in [kind : {"idle", "retire", "close", "abort"}, todo : SUBSET Targets]
    <3>1. CASE DropReplicas
      BY <3>1 DEF DropReplicas, TypeOK
    <3>2. CASE RetireSeed
      BY <3>2 DEF RetireSeed, WriteSeed, Quiet, TypeOK
    <3>. QED  BY <1>3, <3>1, <3>2
  <2>. QED  BY <1>3, <2>1 DEF DropReplicas, RetireSeed, TypeOK
<1>4. ASSUME NEW t \in Targets, MonitorRecord(t) PROVE TypeOK'
  <2>1. record' \in [Targets -> RecordStatuses]
    BY <1>4, WriteRecordEffect DEF MonitorRecord, RecordStatuses, Done, TypeOK
  <2>2. monitor' \in [kind : {"idle", "retire", "close", "abort"}, todo : SUBSET Targets]
    BY <1>4 DEF MonitorRecord, TypeOK
  <2>. QED  BY <1>4, <2>1, <2>2 DEF MonitorRecord, TypeOK, RecordStatuses
<1>5. ASSUME NEW r \in Relays, AbortEnqueue(r) PROVE TypeOK'
  <2>1. seedStatus' \in {"open", "seeding", "failed", "retired"}
    BY <1>5 DEF AbortEnqueue, WriteSeed, TypeOK
  <2>2. relay' \in [Relays -> Attempts]
    BY <1>5, PublishAssumption DEF AbortEnqueue, TypeOK, Attempts
  <2>3. monitor' \in [kind : {"idle", "retire", "close", "abort"}, todo : SUBSET Targets]
    BY <1>5 DEF AbortEnqueue, Quiet
  <2>. QED  BY <1>5, <2>1, <2>2, <2>3 DEF AbortEnqueue, TypeOK, Attempts
<1>. QED  BY <1>1, <1>2, <1>3, <1>4, <1>5 DEF MonitorNext

LEMMA EnvironmentType == TypeOK /\ EnvironmentNext => TypeOK'
<1>. SUFFICES ASSUME TypeOK, EnvironmentNext PROVE TypeOK'
  OBVIOUS
<1>. USE DEF db
<1>1. CASE ResendBegin
  <2>1. record' \in [Targets -> RecordStatuses] /\ replica' \in BOOLEAN
    BY <1>1 DEF ResendBegin, RecordStatuses, TypeOK
  <2>. QED  BY <1>1, <2>1 DEF ResendBegin, TypeOK, RecordStatuses
<1>2. ASSUME NEW r \in Relays, ResendEnqueue(r) PROVE TypeOK'
  <2>1. relay' \in [Relays -> Attempts]
    BY <1>2 DEF ResendEnqueue, TypeOK, Attempts
  <2>. QED  BY <1>2, <2>1 DEF ResendEnqueue, TypeOK, Attempts
<1>3. CASE Cancel \/ Restart
  BY <1>3 DEF Cancel, Restart, TypeOK
<1>4. CASE Crash
  <2>1. relay' \in [Relays -> Attempts]
    BY <1>4, PublishAssumption DEF Crash, Attempts
  <2>2. step' \in [Relays -> [Targets -> Steps]]
    BY <1>4 DEF Crash, Steps
  <2>3. monitor' \in [kind : {"idle", "retire", "close", "abort"}, todo : SUBSET Targets]
    BY <1>4 DEF Crash, Quiet
  <2>. QED  BY <1>4, <2>1, <2>2, <2>3 DEF Crash, TypeOK, Attempts, Steps
<1>5. ASSUME NEW t \in Targets, Elsewhere(t) PROVE TypeOK'
  BY <1>5 DEF Elsewhere, TypeOK
<1>. QED  BY <1>1, <1>2, <1>3, <1>4, <1>5 DEF EnvironmentNext

LEMMA StepType == TypeOK /\ [Next]_vars => TypeOK'
<1>1. CASE UNCHANGED vars
  BY <1>1 DEF vars, db, TypeOK
<1>. QED
  BY <1>1, TargetType, AttemptType, MonitorType, EnvironmentType DEF Next, RelayNext

(* Every variable of the publishing phase keeps its type.                    *)
THEOREM TypeCorrect == Spec => []TypeOK
<1>. QED  BY InitType, StepType, PTL DEF Spec

-----------------------------------------------------------------------------
(* PublishedOnSite is not inductive: MarkPublished relies on what Upload      *)
(* left in the goroutine, the answer of a site that took the torrent.        *)
AcceptedOnSite ==
  \A r \in Relays, t \in Targets : step[r][t] = "accepted" => t \in site

OnSite == PublishedOnSite /\ AcceptedOnSite

LEMMA StepOnSite == TypeOK /\ OnSite /\ [Next]_vars => OnSite'
<1>. SUFFICES ASSUME TypeOK, OnSite, [Next]_vars PROVE OnSite'
  OBVIOUS
<1>. USE DEF db
<1>0. /\ step \in [Relays -> [Targets -> Steps]]
      /\ record \in [Targets -> RecordStatuses]
      /\ \A t \in Targets : record[t] = "published" => t \in site
      /\ \A r \in Relays, t \in Targets : step[r][t] = "accepted" => t \in site
  BY DEF TypeOK, Steps, RecordStatuses, OnSite, PublishedOnSite, AcceptedOnSite
<1>1. ASSUME NEW r \in Relays, NEW t \in Targets, PublishToOneTarget(r, t) PROVE OnSite'
  <2>1. CASE Upload(r, t)
    <3>1. \E pc \in {"accepted", "refused", "demote"} :
             Goto(r, t, pc) /\ (pc = "accepted" => t \in site')
      BY <2>1 DEF Upload
    <3>2. \A q \in Relays, u \in Targets :
             step'[q][u] = "accepted" => step[q][u] = "accepted" \/ u \in site'
      BY <1>0, <3>1, GotoEffect DEF Steps, Held
    <3>3. UNCHANGED record /\ site \subseteq site'
      BY <2>1 DEF Upload
    <3>. QED  BY <1>0, <3>2, <3>3 DEF OnSite, PublishedOnSite, AcceptedOnSite
  <2>2. CASE MarkPublished(r, t)
    <3>1. t \in site /\ UNCHANGED site
      BY <1>0, <2>2 DEF MarkPublished
    <3>2. \A u \in Targets : record'[u] = record[u] \/ u = t
      BY <1>0, <2>2, WriteRecordEffect DEF MarkPublished, RecordStatuses, Done, Published
    <3>3. \A q \in Relays, u \in Targets :
             step'[q][u] = "accepted" => step[q][u] = "accepted"
      BY <1>0, <2>2, GotoEffect DEF MarkPublished, Steps, Terminal
    <3>. QED  BY <1>0, <3>1, <3>2, <3>3 DEF OnSite, PublishedOnSite, AcceptedOnSite
  <2>3. CASE PublishToOneTarget(r, t) /\ ~ Upload(r, t) /\ ~ MarkPublished(r, t)
    <3>1. UNCHANGED site
      BY <2>3 DEF PublishToOneTarget, Acquire, Look, Claim, MarkFailed, Demote, Join,
         MarkCrossSeeding
    <3>2. \E pc \in Steps \ {"accepted"} : Goto(r, t, pc)
      BY <2>3 DEF PublishToOneTarget, Acquire, Look, Claim, MarkFailed, Demote, Join,
         MarkCrossSeeding, Steps, Held, Terminal
    <3>3. \A q \in Relays, u \in Targets :
             step'[q][u] = "accepted" => step[q][u] = "accepted"
      BY <1>0, <3>2, GotoEffect
    <3>4. \A u \in Targets : record'[u] = "published" => record[u] = "published"
      <4>1. CASE Claim(r, t)
        BY <1>0, <4>1 DEF Claim, UpsertRecord
      <4>2. CASE MarkFailed(r, t)
        BY <1>0, <4>2, WriteRecordEffect DEF MarkFailed, RecordStatuses
      <4>3. CASE MarkCrossSeeding(r, t)
        BY <1>0, <4>3, WriteRecordEffect DEF MarkCrossSeeding, RecordStatuses, Done, Published
      <4>4. CASE UNCHANGED record
        BY <4>4
      <4>. QED
        BY <2>3, <4>1, <4>2, <4>3, <4>4 DEF PublishToOneTarget, Acquire, Look, Demote, Join
    <3>. QED  BY <1>0, <3>1, <3>3, <3>4 DEF OnSite, PublishedOnSite, AcceptedOnSite
  <2>. QED  BY <1>1, <2>1, <2>2, <2>3
<1>2. ASSUME NEW r \in Relays, BeginRelay(r) \/ EndRelay(r) PROVE OnSite'
  <2>1. UNCHANGED <<record, site>>
    BY <1>2 DEF BeginRelay, EndRelay
  <2>2. \/ step' = step
        \/ \E todo : step' = [step EXCEPT ![r] =
                        [t \in Targets |-> IF t \in todo THEN "wait" ELSE "off"]]
        \/ step' = [step EXCEPT ![r] = [t \in Targets |-> "off"]]
    BY <1>2 DEF BeginRelay, EndRelay
  <2>3. \A q \in Relays, u \in Targets :
           step'[q][u] = "accepted" => step[q][u] = "accepted"
    BY <1>0, <2>2
  <2>. QED  BY <1>0, <2>1, <2>3 DEF OnSite, PublishedOnSite, AcceptedOnSite
<1>3. CASE MonitorNext
  <2>1. UNCHANGED <<site, step>>
    BY <1>3 DEF MonitorNext, AttachReplica, RetireBegin, DropReplicas, RetireSeed, AbortBegin,
       MonitorRecord, AbortEnqueue
  <2>2. \A u \in Targets : record'[u] = "published" => record[u] = "published"
    <3>1. ASSUME NEW t \in Targets, MonitorRecord(t)
          PROVE  \A u \in Targets : record'[u] = "published" => record[u] = "published"
      BY <1>0, <3>1, WriteRecordEffect DEF MonitorRecord, RecordStatuses, Done
    <3>2. CASE UNCHANGED record
      BY <3>2
    <3>. QED
      BY <1>3, <3>1, <3>2 DEF MonitorNext, AttachReplica, RetireBegin, DropReplicas, RetireSeed,
         AbortBegin, AbortEnqueue
  <2>. QED  BY <1>0, <2>1, <2>2 DEF OnSite, PublishedOnSite, AcceptedOnSite
<1>4. CASE EnvironmentNext
  <2>1. site \subseteq site'
    BY <1>4 DEF EnvironmentNext, ResendBegin, Cancel, Restart, Crash, ResendEnqueue, Elsewhere
  <2>2. \A u \in Targets : record'[u] = "published" => record[u] = "published"
    BY <1>4 DEF EnvironmentNext, ResendBegin, Cancel, Restart, Crash, ResendEnqueue, Elsewhere
  <2>3. \A q \in Relays, u \in Targets :
           step'[q][u] = "accepted" => step[q][u] = "accepted"
    BY <1>4 DEF EnvironmentNext, ResendBegin, Cancel, Restart, Crash, ResendEnqueue, Elsewhere
  <2>. QED  BY <1>0, <2>1, <2>2, <2>3 DEF OnSite, PublishedOnSite, AcceptedOnSite
<1>5. CASE UNCHANGED vars
  BY <1>5 DEF vars, OnSite, PublishedOnSite, AcceptedOnSite
<1>. QED  BY <1>1, <1>2, <1>3, <1>4, <1>5 DEF Next, RelayNext

(* A published record always has its torrent on the site, for any number of  *)
(* targets and overlapping attempts, whatever is lost, aborted or restarted. *)
THEOREM PublishedIsOnSite == Spec => []PublishedOnSite
<1>1. Init => OnSite
  BY DEF Init, OnSite, PublishedOnSite, AcceptedOnSite
<1>2. OnSite => PublishedOnSite
  BY DEF OnSite
<1>. QED  BY <1>1, <1>2, InitType, StepType, StepOnSite, PTL DEF Spec

-----------------------------------------------------------------------------
(* One attempt at a time (SeedLifecycle_proofs!OneChain), no full republish   *)
(* and no slow abort: then the records only move forward, and the statuses of *)
(* the seed and the roles follow them.                                       *)

OneByOne ==
  /\ \A q, r \in Relays : q = r
  /\ Enabled \cap {"republish", "abort"} = {}

Working == {"upload", "accepted", "refused", "demote", "join", "joined"}

(* What the goroutine of a target relies on between its look and its end.    *)
Goes(r, t) ==
  /\ step[r][t] = "claim" => record[t] = "absent"
  /\ step[r][t] \in Working => record[t] \in {"pending", "failed"}
  /\ step[r][t] \in {"accepted", "demote", "join", "joined"} => t \in site
  /\ step[r][t] \in {"join", "joined"} /\ ctx = "live" => role[t] = "seeder"
  /\ step[r][t] = "good" /\ ctx = "live" => record[t] \in Done

(* A target is demoted only when its site has the torrent.                   *)
Row(t) ==
  /\ role[t] = "seeder" => t \in site
  /\ record[t] = "cross_seeding" => role[t] = "seeder"

Attempted(r) == relay[r].phase = "targets" <=> \E t \in Targets : step[r][t] # "off"

Retires ==
  /\ monitor.kind \in {"idle", "retire", "close"}
  /\ monitor.kind # "retire" => monitor.todo = {}
  /\ \A t \in monitor.todo : record[t] \in Done

Settling ==
  /\ Retires
  /\ \A r \in Relays : Attempted(r)
  /\ \A r \in Relays, t \in Targets : Goes(r, t)
  /\ \A t \in Targets : Row(t)
  /\ seedStatus = "seeding" => \E t \in Targets : record[t] \in Done

(* Every step of a target's goroutine leaves it what its next step relies on. *)
LEMMA TargetSettling ==
  ASSUME OneByOne, TypeOK, Settling, NEW r \in Relays, NEW t \in Targets,
         PublishToOneTarget(r, t)
  PROVE  Settling'
<1>. USE DEF db
<1>0. /\ step \in [Relays -> [Targets -> Steps]] /\ record \in [Targets -> RecordStatuses]
      /\ role \in [Targets -> {"publisher", "seeder"}]
      /\ Goes(r, t) /\ Row(t)
  BY DEF TypeOK, Steps, RecordStatuses, Settling
<1>1. UNCHANGED <<relay, monitor, seedStatus, ctx>> /\ site \subseteq site'
  BY DEF PublishToOneTarget, Acquire, Look, Claim, Upload, MarkPublished, MarkFailed,
     Demote, Join, MarkCrossSeeding
<1>2. PICK pc \in Steps \ {"off"} : Goto(r, t, pc) /\ step[r][t] # "off"
  BY DEF PublishToOneTarget, Acquire, Look, Claim, Upload, MarkPublished, MarkFailed,
     Demote, Join, MarkCrossSeeding, Steps, Held, Terminal
<1>3. /\ step'[r][t] = pc
      /\ \A u \in Targets \ {t} : step'[r][u] = step[r][u]
  BY <1>0, <1>2, GotoEffect
<1>w. \A st \in RecordStatuses : WriteRecord(t, st) =>
        /\ record'[t] = (IF ctx = "live" /\ record[t] # "absent" THEN st ELSE record[t])
        /\ \A u \in Targets \ {t} : record'[u] = record[u]
  BY <1>0 DEF WriteRecord
<1>. DEFINE Effect ==
       /\ \A u \in Targets \ {t} : record'[u] = record[u] /\ role'[u] = role[u]
       /\ record[t] \in Done => record'[t] \in Done
       /\ Goes(r, t)' /\ Row(t)'
<1>4. ASSUME Acquire(r, t) PROVE Effect
  BY <1>0, <1>3, <1>4 DEF Acquire, Goto, Goes, Row, Working
<1>5. ASSUME Look(r, t) PROVE Effect
  <2>1. /\ UNCHANGED <<record, role, site, ctx>>
        /\ \/ step'[r][t] = "bad"
           \/ step'[r][t] = "claim" /\ record[t] = "absent"
           \/ step'[r][t] = "good" /\ record[t] \in Done
           \/ step'[r][t] = "upload" /\ record[t] \notin Done \cup {"absent"}
    BY <1>0, <1>5 DEF Look, Goto
  <2>. QED  BY <1>0, <2>1 DEF Goes, Row, Working, RecordStatuses
<1>6. ASSUME Claim(r, t) PROVE Effect
  <2>1. record[t] = "absent"
    BY <1>0, <1>6 DEF Claim, Goes
  <2>2. /\ UNCHANGED <<site, ctx>>
        /\ \/ /\ record' = [record EXCEPT ![t] = "pending"]
              /\ role' = [role EXCEPT ![t] = "publisher"]
              /\ step'[r][t] = "upload"
           \/ UNCHANGED <<record, role>> /\ step'[r][t] = "bad"
    BY <1>0, <1>6, <2>1 DEF Claim, UpsertRecord, Goto
  <2>. QED  BY <1>0, <2>1, <2>2 DEF Goes, Row, Working, Done, Published
<1>7. ASSUME Upload(r, t) PROVE Effect
  <2>1. /\ UNCHANGED <<record, role, ctx>>
        /\ record[t] \in {"pending", "failed"}
        /\ \/ step'[r][t] = "accepted" /\ t \notin site /\ t \in site'
           \/ step'[r][t] = "refused"
           \/ step'[r][t] \in {"accepted", "demote"} /\ t \in site /\ t \in site'
    BY <1>0, <1>7 DEF Upload, Goto, Goes, Working
  <2>. QED  BY <1>0, <1>1, <2>1 DEF Goes, Row, Working
<1>8. ASSUME MarkPublished(r, t) PROVE Effect
  <2>1. /\ UNCHANGED <<role, site, ctx>> /\ step'[r][t] = "good"
        /\ t \in site /\ record[t] \in {"pending", "failed"}
        /\ record'[t] = (IF ctx = "live" THEN "published" ELSE record[t])
        /\ \A u \in Targets \ {t} : record'[u] = record[u]
    BY <1>0, <1>w, <1>8 DEF MarkPublished, Goto, Goes, Working, RecordStatuses, Done, Published
  <2>. QED  BY <1>0, <2>1 DEF Goes, Row, Working, Done, Published
<1>9. ASSUME MarkFailed(r, t) PROVE Effect
  <2>1. /\ UNCHANGED <<role, site, ctx>> /\ step'[r][t] = "bad"
        /\ record[t] \in {"pending", "failed"}
        /\ record'[t] \in {"failed", record[t]}
        /\ \A u \in Targets \ {t} : record'[u] = record[u]
    BY <1>0, <1>w, <1>9 DEF MarkFailed, Goto, Goes, Working, RecordStatuses
  <2>. QED  BY <1>0, <2>1 DEF Goes, Row, Working, Done, Published
<1>10. ASSUME Demote(r, t) PROVE Effect
  <2>1. /\ UNCHANGED <<record, site, ctx>> /\ step'[r][t] = "join"
        /\ t \in site /\ record[t] \in {"pending", "failed"}
        /\ role' = IF ctx = "live" THEN [role EXCEPT ![t] = "seeder"] ELSE role
    BY <1>0, <1>10 DEF Demote, Goto, Goes, Working
  <2>. QED  BY <1>0, <2>1 DEF Goes, Row, Working
<1>11. ASSUME Join(r, t) PROVE Effect
  <2>1. /\ UNCHANGED <<record, role, site, ctx>> /\ step'[r][t] \in {"refused", "joined"}
        /\ step[r][t] = "join"
    BY <1>0, <1>11 DEF Join, Goto
  <2>. QED  BY <1>0, <2>1 DEF Goes, Row, Working
<1>12. ASSUME MarkCrossSeeding(r, t) PROVE Effect
  <2>1. /\ UNCHANGED <<role, site, ctx>> /\ step'[r][t] = "good"
        /\ t \in site /\ record[t] \in {"pending", "failed"}
        /\ ctx = "live" => role[t] = "seeder"
        /\ record'[t] = (IF ctx = "live" THEN "cross_seeding" ELSE record[t])
        /\ \A u \in Targets \ {t} : record'[u] = record[u]
    BY <1>0, <1>w, <1>12 DEF MarkCrossSeeding, Goto, Goes, Working, RecordStatuses, Done, Published
  <2>. QED  BY <1>0, <2>1 DEF Goes, Row, Working, Done, Published
<1>13. Effect
  BY <1>4, <1>5, <1>6, <1>7, <1>8, <1>9, <1>10, <1>11, <1>12 DEF PublishToOneTarget
<1>. HIDE DEF Effect
<1>14. \A u \in Targets : record[u] \in Done => record'[u] \in Done
  BY <1>13 DEF Effect
<1>15. ASSUME NEW q \in Relays PROVE Attempted(q)'
  <2>1. q = r
    BY DEF OneByOne
  <2>2. relay[r].phase = "targets"
    BY <1>2 DEF Settling, Attempted
  <2>. QED  BY <1>1, <1>3, <2>1, <2>2 DEF Attempted
<1>16. ASSUME NEW q \in Relays, NEW u \in Targets PROVE Goes(q, u)'
  <2>1. q = r
    BY DEF OneByOne
  <2>2. CASE u = t
    BY <1>13, <2>1, <2>2 DEF Effect
  <2>3. CASE u # t
    <3>1. Goes(r, u)
      BY DEF Settling
    <3>2. record'[u] = record[u] /\ role'[u] = role[u] /\ step'[r][u] = step[r][u]
      BY <1>3, <1>13, <2>3 DEF Effect
    <3>. QED  BY <1>1, <2>1, <3>1, <3>2 DEF Goes
  <2>. QED  BY <2>2, <2>3
<1>17. ASSUME NEW u \in Targets PROVE Row(u)'
  <2>1. CASE u = t
    BY <1>13, <2>1 DEF Effect
  <2>2. CASE u # t
    <3>1. Row(u)
      BY DEF Settling
    <3>. QED  BY <1>1, <1>13, <2>2, <3>1 DEF Effect, Row
  <2>. QED  BY <2>1, <2>2
<1>18. Retires' /\ (seedStatus' = "seeding" => \E u \in Targets : record'[u] \in Done)
  <2>1. monitor.todo \subseteq Targets
    BY DEF TypeOK
  <2>. QED  BY <1>1, <1>14, <2>1 DEF Settling, Retires
<1>. QED  BY <1>15, <1>16, <1>17, <1>18 DEF Settling

LEMMA AttemptSettling ==
  ASSUME OneByOne, TypeOK, Settling, NEW r \in Relays, BeginRelay(r) \/ EndRelay(r)
  PROVE  Settling'
<1>. USE DEF db
<1>0. /\ step \in [Relays -> [Targets -> Steps]] /\ relay \in [Relays -> Attempts]
      /\ \A q \in Relays : q = r
  BY DEF TypeOK, Steps, Attempts, OneByOne
<1>1. UNCHANGED <<record, role, site, monitor, ctx>>
  BY DEF BeginRelay, EndRelay
<1>2. Retires' /\ \A t \in Targets : Row(t)'
  BY <1>1 DEF Settling, Retires, Row
<1>3. CASE BeginRelay(r)
  <2>1. relay[r].phase = "waiting" /\ \A t \in Targets : step[r][t] = "off"
    BY <1>3 DEF BeginRelay, Settling, Attempted
  <2>2. PICK todo \in {PendingTargets, Targets} :
          \/ /\ todo = {} /\ WriteSeed("seeding") /\ UNCHANGED step
             /\ relay' = [relay EXCEPT ![r].phase = "idle"]
          \/ /\ todo # {} /\ WriteSeed("open")
             /\ relay' = [relay EXCEPT ![r].phase = "targets"]
             /\ step' = [step EXCEPT ![r] =
                           [t \in Targets |-> IF t \in todo THEN "wait" ELSE "off"]]
    BY <1>3 DEF BeginRelay
  <2>3. todo \subseteq Targets
    BY DEF PendingTargets
  <2>4. CASE todo = {}
    <3>1. UNCHANGED step /\ relay'[r].phase = "idle" /\ \A t \in Targets : record[t] \in Done
      <4>1. todo = PendingTargets
        BY <2>2, <2>4, PublishAssumption
      <4>. QED  BY <1>0, <2>2, <2>4, <4>1 DEF PendingTargets, ListRecordsBySeed, Attempts
    <3>2. \E t \in Targets : record'[t] \in Done
      BY <1>1, <3>1, PublishAssumption
    <3>3. Attempted(r)' /\ \A t \in Targets : Goes(r, t)'
      BY <1>1, <2>1, <3>1 DEF Attempted, Goes, Settling
    <3>. QED  BY <1>0, <1>2, <3>2, <3>3 DEF Settling
  <2>5. CASE todo # {}
    <3>1. /\ relay'[r].phase = "targets"
          /\ \A t \in Targets : step'[r][t] = IF t \in todo THEN "wait" ELSE "off"
          /\ WriteSeed("open")
      BY <1>0, <2>2, <2>5 DEF Attempts
    <3>2. Attempted(r)' /\ \A t \in Targets : Goes(r, t)'
      BY <2>3, <2>5, <3>1 DEF Attempted, Goes, Working
    <3>3. seedStatus' \in {"open", seedStatus}
      BY <3>1 DEF WriteSeed
    <3>. QED  BY <1>0, <1>1, <1>2, <3>2, <3>3 DEF Settling
  <2>. QED  BY <2>4, <2>5
<1>4. CASE EndRelay(r)
  <2>1. /\ relay[r].phase = "targets" /\ \A t \in Results(r) : step[r][t] \in Terminal
        /\ step' = [step EXCEPT ![r] = [t \in Targets |-> "off"]]
        /\ \/ relay' = [relay EXCEPT ![r].phase = "idle"]
           \/ relay' = [relay EXCEPT ![r] = [phase |-> "waiting", no |-> @.no + 1]]
    BY <1>4 DEF EndRelay
  <2>2. relay'[r].phase # "targets" /\ \A t \in Targets : step'[r][t] = "off"
    BY <1>0, <2>1 DEF Attempts
  <2>3. Attempted(r)' /\ \A t \in Targets : Goes(r, t)'
    BY <2>2 DEF Attempted, Goes, Working
  <2>4. seedStatus' = "seeding" /\ seedStatus # "seeding" => \E t \in Targets : record[t] \in Done
    <3>. SUFFICES ASSUME seedStatus' = "seeding", seedStatus # "seeding"
                  PROVE  \E t \in Targets : record[t] \in Done
      OBVIOUS
    <3>1. ctx = "live" /\ (Failures(r) = {} \/ Failures(r) # Results(r))
      BY <1>4 DEF EndRelay, WriteSeed
    <3>2. Results(r) # {}
      BY <2>1 DEF Settling, Attempted, Results
    <3>3. PICK t \in Targets : t \in Results(r) /\ t \notin Failures(r)
      BY <3>1, <3>2 DEF Results, Failures
    <3>4. step[r][t] = "good"
      BY <2>1, <3>3 DEF Terminal, Failures
    <3>. QED  BY <3>1, <3>4 DEF Settling, Goes
  <2>. QED  BY <1>0, <1>1, <1>2, <2>3, <2>4 DEF Settling
<1>. QED  BY <1>3, <1>4

LEMMA MonitorSettling ==
  ASSUME OneByOne, TypeOK, Settling, MonitorNext
  PROVE  Settling'
<1>. USE DEF db
<1>0. monitor \in [kind : {"idle", "retire", "close", "abort"}, todo : SUBSET Targets]
      /\ record \in [Targets -> RecordStatuses]
  BY DEF TypeOK, RecordStatuses
<1>1. CASE AttachReplica
  <2>1. UNCHANGED <<record, role, site, monitor, ctx, step, relay, seedStatus>>
    BY <1>1 DEF AttachReplica
  <2>. QED  BY <2>1 DEF Settling, Retires, Attempted, Goes, Row
<1>2. CASE RetireBegin
  <2>1. UNCHANGED <<record, role, site, ctx, step, relay, seedStatus>>
        /\ monitor' = [kind |-> "retire", todo |-> ListRecordsBySeed(Published)]
    BY <1>2 DEF RetireBegin
  <2>2. Retires'
    BY <2>1 DEF Retires, ListRecordsBySeed, Done
  <2>. QED  BY <2>1, <2>2 DEF Settling, Attempted, Goes, Row
<1>3. CASE DropReplicas \/ RetireSeed
  <2>1. UNCHANGED <<record, role, site, ctx, step, relay>>
        /\ seedStatus' \in {seedStatus, "retired"}
    BY <1>3 DEF DropReplicas, RetireSeed, WriteSeed
  <2>2. Retires'
    <3>1. CASE DropReplicas
      BY <1>0, <3>1 DEF DropReplicas, Retires
    <3>2. CASE RetireSeed
      BY <3>2 DEF RetireSeed, Quiet, Retires
    <3>. QED  BY <1>3, <3>1, <3>2
  <2>. QED  BY <2>1, <2>2 DEF Settling, Attempted, Goes, Row
<1>4. ASSUME NEW t \in Targets, MonitorRecord(t) PROVE Settling'
  <2>1. /\ UNCHANGED <<role, site, ctx, step, relay, seedStatus>>
        /\ monitor' = [monitor EXCEPT !.todo = @ \ {t}]
        /\ record[t] \in Done /\ WriteRecord(t, "retired")
    BY <1>4 DEF MonitorRecord, Settling, Retires, Quiet
  <2>2. /\ \A u \in Targets \ {t} : record'[u] = record[u]
        /\ record'[t] \in {record[t], "retired"}
    BY <1>0, <2>1 DEF WriteRecord
  <2>3. monitor'.kind = monitor.kind /\ monitor'.todo \subseteq monitor.todo
    BY <1>0, <2>1
  <2>4. \A u \in Targets : record[u] \in Done => record'[u] \in Done
    BY <2>1, <2>2 DEF Done, Published
  <2>5. Retires'
    BY <1>0, <2>3, <2>4 DEF Settling, Retires
  <2>6. ASSUME NEW r \in Relays, NEW u \in Targets PROVE Goes(r, u)'
    <3>1. Goes(r, u)
      BY DEF Settling
    <3>. QED  BY <2>1, <2>2, <2>4, <3>1 DEF Goes, Done, Published
  <2>7. ASSUME NEW u \in Targets PROVE Row(u)'
    <3>1. Row(u)
      BY DEF Settling
    <3>. QED  BY <2>1, <2>2, <3>1 DEF Row
  <2>. QED  BY <2>1, <2>4, <2>5, <2>6, <2>7 DEF Settling, Attempted
<1>5. ~ AbortBegin /\ \A r \in Relays : ~ AbortEnqueue(r)
  BY DEF AbortBegin, AbortEnqueue, OneByOne, Settling, Retires
<1>. QED  BY <1>1, <1>2, <1>3, <1>4, <1>5 DEF MonitorNext

LEMMA EnvironmentSettling ==
  ASSUME OneByOne, TypeOK, Settling, EnvironmentNext
  PROVE  Settling'
<1>. USE DEF db
<1>1. UNCHANGED <<record, role>> /\ site \subseteq site'
      /\ seedStatus' \in {seedStatus, "open"} /\ monitor' \in {monitor, Quiet}
  BY DEF EnvironmentNext, ResendBegin, Cancel, Restart, Crash, ResendEnqueue, Elsewhere,
     OneByOne
<1>2. Retires' /\ (\A t \in Targets : Row(t)')
      /\ (seedStatus' = "seeding" => \E t \in Targets : record'[t] \in Done)
  BY <1>1 DEF Settling, Retires, Quiet, Row
<1>3. CASE ResendBegin \/ \E t \in Targets : Elsewhere(t)
  <2>1. UNCHANGED <<step, relay, ctx>>
    BY <1>3 DEF ResendBegin, Elsewhere
  <2>. QED  BY <1>1, <1>2, <2>1 DEF Settling, Attempted, Goes
<1>4. ASSUME NEW r \in Relays, ResendEnqueue(r) PROVE Settling'
  <2>1. UNCHANGED <<step, ctx>> /\ relay[r].phase = "idle"
        /\ relay' = [relay EXCEPT ![r] = [phase |-> "waiting", no |-> 1]]
    BY <1>4 DEF ResendEnqueue
  <2>2. \A q \in Relays : Attempted(q)'
    BY <2>1 DEF Settling, Attempted, TypeOK, OneByOne
  <2>. QED  BY <1>1, <1>2, <2>1, <2>2 DEF Settling, Goes
<1>5. CASE Cancel
  <2>1. UNCHANGED <<step, relay>> /\ ctx' = "cancelled"
    BY <1>5 DEF Cancel
  <2>. QED  BY <1>1, <1>2, <2>1 DEF Settling, Attempted, Goes
<1>6. CASE Restart
  <2>1. UNCHANGED <<step, relay>> /\ \A r \in Relays : relay[r].phase # "targets"
    BY <1>6 DEF Restart
  <2>2. \A r \in Relays, t \in Targets : step'[r][t] = "off"
    BY <2>1 DEF Settling, Attempted
  <2>. QED  BY <1>1, <1>2, <2>1, <2>2 DEF Settling, Attempted, Goes, Working
<1>7. CASE Crash
  <2>1. \A r \in Relays : relay'[r].phase # "targets"
    BY <1>7 DEF Crash
  <2>2. \A r \in Relays, t \in Targets : step'[r][t] = "off"
    BY <1>7 DEF Crash
  <2>. QED  BY <1>1, <1>2, <2>1, <2>2 DEF Settling, Attempted, Goes, Working
<1>. QED  BY <1>3, <1>4, <1>5, <1>6, <1>7 DEF EnvironmentNext

LEMMA StepSettling == OneByOne /\ TypeOK /\ Settling /\ [Next]_vars => Settling'
<1>1. CASE UNCHANGED vars
  BY <1>1 DEF vars, db, Settling, Retires, Attempted, Goes, Row
<1>. QED
  BY <1>1, TargetSettling, AttemptSettling, MonitorSettling, EnvironmentSettling
     DEF Next, RelayNext

LEMMA InitSettling == Init => Settling
<1>. SUFFICES ASSUME Init PROVE Settling
  OBVIOUS
<1>1. Retires /\ seedStatus # "seeding"
  BY DEF Init, Retires, Quiet
<1>2. \A r \in Relays, t \in Targets : step[r][t] = "off"
  BY DEF Init
<1>3. \A r \in Relays : relay[r].phase # "targets"
  BY DEF Init
<1>4. \A t \in Targets : record[t] = "absent" /\ role[t] = "publisher"
  BY DEF Init
<1>. QED  BY <1>1, <1>2, <1>3, <1>4 DEF Settling, Attempted, Goes, Working, Row

(* One attempt at a time and no full republish or slow abort: a seed shown as *)
(* seeding has a finished target, and the dashboard counts every target that *)
(* is cross-seeded, through lost answers, retries, crashes, stops and        *)
(* retirements.                                                              *)
THEOREM StatusesFollowRecords ==
  ASSUME OneByOne
  PROVE  Spec => []StatusesAgree
<1>1. Settling => StatusesAgree
  <2>. SUFFICES ASSUME Settling PROVE SeedingHasTarget /\ RolesMatch
    BY DEF StatusesAgree
  <2>1. SeedingHasTarget
    BY DEF Settling, SeedingHasTarget
  <2>2. RolesMatch
    BY DEF Settling, Row, RolesMatch, ListRecordsBySeed, CrossSeeded
  <2>. QED  BY <2>1, <2>2
<1>2. TypeOK /\ Settling /\ [Next]_vars => Settling'
  BY StepSettling
<1>. QED  BY <1>1, <1>2, InitType, StepType, InitSettling, PTL DEF Spec

-----------------------------------------------------------------------------
(* Publish implements PublishOnce under the same conditions: each step is a   *)
(* step of PublishOnce or leaves its variables alone.                        *)

Phase(t) == IF Uploading(t) # {} THEN "uploading"
            ELSE IF record[t] \in Done THEN "settled" ELSE "open"
Phases == [t \in Targets |-> Phase(t)]

LEMMA PhaseAlone ==
  ASSUME OneByOne, NEW r \in Relays, NEW t \in Targets
  PROVE  /\ Phase(t) = IF step[r][t] = "upload" THEN "uploading"
                       ELSE IF record[t] \in Done THEN "settled" ELSE "open"
         /\ Phase(t)' = IF step'[r][t] = "upload" THEN "uploading"
                        ELSE IF record'[t] \in Done THEN "settled" ELSE "open"
<1>1. \A q \in Relays : q = r
  BY DEF OneByOne
<1>2. Uploading(t) # {} <=> step[r][t] = "upload"
  BY <1>1 DEF Uploading
<1>3. Uploading(t)' # {} <=> step'[r][t] = "upload"
  BY <1>1 DEF Uploading
<1>. QED  BY <1>2, <1>3 DEF Phase

(* A step of PublishOnce on one target, in the terms of its phases.          *)
LEMMA OnceSteps ==
  ASSUME NEW t \in Targets, \A u \in Targets \ {t} : Phase(u)' = Phase(u)
  PROVE  /\ Phase(t)' = Phase(t) /\ UNCHANGED site => UNCHANGED Once!vars
         /\ Phase(t) = "open" /\ Phase(t)' = "uploading" /\ UNCHANGED site => Once!Begin(t)
         /\ Phase(t) = "uploading" /\ Phase(t)' = "open" /\ site' = site \cup {t}
              => Once!Accept(t)
         /\ Phase(t) = "uploading" /\ Phase(t)' = "open" /\ UNCHANGED site
              => Once!Abandon({t})
         /\ Phase(t) = "open" /\ Phase(t)' = "settled" /\ t \in site /\ UNCHANGED site
              => Once!Settle(t)
<1>1. Phases' = [Phases EXCEPT ![t] = Phase(t)']
  BY DEF Phases
<1>2. Phases = [u \in Targets |-> Phase(u)]
  BY DEF Phases
<1>3. Phases' = [u \in Targets |-> IF u \in {t} THEN Phase(t)' ELSE Phases[u]]
  BY <1>1, <1>2
<1>4. Phase(t)' = Phase(t) /\ UNCHANGED site => UNCHANGED Once!vars
  BY <1>1, <1>2 DEF Phases, Phase, Once!vars
<1>5. Phase(t) = "open" /\ Phase(t)' = "uploading" /\ UNCHANGED site => Once!Begin(t)
  BY <1>1, <1>2 DEF Phases, Phase, Once!Begin
<1>6. Phase(t) = "uploading" /\ Phase(t)' = "open" /\ site' = site \cup {t} => Once!Accept(t)
  BY <1>1, <1>2 DEF Phases, Phase, Once!Accept
<1>7. Phase(t) = "uploading" /\ Phase(t)' = "open" /\ UNCHANGED site => Once!Abandon({t})
  BY <1>2, <1>3 DEF Phases, Phase, Once!Abandon
<1>8. Phase(t) = "open" /\ Phase(t)' = "settled" /\ t \in site /\ UNCHANGED site
      => Once!Settle(t)
  BY <1>1, <1>2 DEF Phases, Phase, Once!Settle
<1>. QED  BY <1>4, <1>5, <1>6, <1>7, <1>8

LEMMA TargetOnce ==
  ASSUME OneByOne, TypeOK, Settling, Settling', NEW r \in Relays, NEW t \in Targets,
         PublishToOneTarget(r, t)
  PROVE  Once!Next \/ UNCHANGED Once!vars
<1>. USE DEF db
<1>0. /\ step \in [Relays -> [Targets -> Steps]] /\ record \in [Targets -> RecordStatuses]
      /\ Goes(r, t) /\ Goes(r, t)'
  BY DEF TypeOK, Steps, RecordStatuses, Settling
<1>1. PICK pc \in Steps : Goto(r, t, pc)
  BY DEF PublishToOneTarget, Acquire, Look, Claim, Upload, MarkPublished, MarkFailed,
     Demote, Join, MarkCrossSeeding, Steps, Held, Terminal
<1>2. \A u \in Targets \ {t} : step'[r][u] = step[r][u] /\ record'[u] = record[u]
  <2>1. \A u \in Targets \ {t} : step'[r][u] = step[r][u]
    BY <1>0, <1>1, GotoEffect
  <2>2. \A st \in RecordStatuses : WriteRecord(t, st) =>
          \A u \in Targets \ {t} : record'[u] = record[u]
    BY <1>0 DEF WriteRecord
  <2>3. \A u \in Targets \ {t} : record'[u] = record[u]
    BY <1>0, <2>2 DEF PublishToOneTarget, Acquire, Look, Claim, UpsertRecord, Upload,
       MarkPublished, MarkFailed, Demote, Join, MarkCrossSeeding, RecordStatuses, Done, Published
  <2>. QED  BY <2>1, <2>3
<1>3. \A u \in Targets \ {t} : Phase(u)' = Phase(u)
  BY <1>2, PhaseAlone
<1>4. /\ Phase(t) = IF step[r][t] = "upload" THEN "uploading"
                    ELSE IF record[t] \in Done THEN "settled" ELSE "open"
      /\ Phase(t)' = IF step'[r][t] = "upload" THEN "uploading"
                     ELSE IF record'[t] \in Done THEN "settled" ELSE "open"
  BY PhaseAlone
<1>. DEFINE Same == Phase(t)' = Phase(t) /\ UNCHANGED site
            Begins == Phase(t) = "open" /\ Phase(t)' = "uploading" /\ UNCHANGED site
            Accepts == Phase(t) = "uploading" /\ Phase(t)' = "open" /\ site' = site \cup {t}
            Abandons == Phase(t) = "uploading" /\ Phase(t)' = "open" /\ UNCHANGED site
            Settles == Phase(t) = "open" /\ Phase(t)' = "settled" /\ t \in site /\ UNCHANGED site
<1>5. ASSUME Acquire(r, t) \/ Demote(r, t) \/ Join(r, t) PROVE Same
  BY <1>0, <1>4, <1>5 DEF Acquire, Demote, Join, Goto
<1>6. ASSUME Look(r, t) PROVE Same \/ Begins
  <2>1. /\ UNCHANGED <<record, site>> /\ step[r][t] # "upload"
        /\ step'[r][t] = "upload" => record[t] \notin Done
    BY <1>0, <1>6 DEF Look, Goto
  <2>. QED  BY <1>4, <2>1
<1>7. ASSUME Claim(r, t) PROVE Same \/ Begins
  <2>1. /\ UNCHANGED site /\ step[r][t] # "upload" /\ record[t] = "absent"
        /\ step'[r][t] # "upload" => UNCHANGED record
    <3>1. UNCHANGED site /\ step[r][t] = "claim" /\ record[t] = "absent"
      BY <1>0, <1>7 DEF Claim, Goes
    <3>2. Goto(r, t, "upload") \/ (Goto(r, t, "bad") /\ UNCHANGED record)
      BY <1>7, <3>1 DEF Claim
    <3>3. step'[r][t] = "upload" \/ (step'[r][t] = "bad" /\ UNCHANGED record)
      BY <1>0, <3>2 DEF Goto
    <3>. QED  BY <3>1, <3>3
  <2>. QED  BY <1>4, <2>1 DEF Done, Published
<1>8. ASSUME Upload(r, t) PROVE Accepts \/ Abandons
  <2>1. /\ step[r][t] = "upload" /\ step'[r][t] # "upload" /\ UNCHANGED record
        /\ site' = site \cup {t} \/ UNCHANGED site
    BY <1>0, <1>8 DEF Upload, Goto
  <2>2. record[t] \notin Done
    BY <1>0, <2>1 DEF Goes, Working, Done, Published
  <2>. QED  BY <1>4, <2>1, <2>2
<1>9. ASSUME MarkPublished(r, t) \/ MarkFailed(r, t) \/ MarkCrossSeeding(r, t)
      PROVE  Same \/ Settles
  <2>1. /\ UNCHANGED site /\ step[r][t] \in {"accepted", "refused", "joined"}
        /\ step'[r][t] \in {"good", "bad"}
        /\ step[r][t] = "refused" => record'[t] \in {record[t], "failed"}
    BY <1>0, <1>9 DEF MarkPublished, MarkFailed, MarkCrossSeeding, Goto, WriteRecord
  <2>2. record[t] \notin Done /\ (step[r][t] # "refused" => t \in site)
    BY <1>0, <2>1 DEF Goes, Working, Done, Published
  <2>. QED  BY <1>4, <2>1, <2>2 DEF Done, Published
<1>10. Same \/ Begins \/ Accepts \/ Abandons \/ Settles
  BY <1>5, <1>6, <1>7, <1>8, <1>9 DEF PublishToOneTarget
<1>11. UNCHANGED Once!vars \/ Once!Begin(t) \/ Once!Accept(t) \/ Once!Abandon({t}) \/ Once!Settle(t)
  BY <1>3, <1>10, OnceSteps
<1>. QED  BY <1>11 DEF Once!Next

(* The steps that move no upload and unsettle no record.                     *)
LEMMA PhasesKept ==
  ASSUME \A t \in Targets : Phase(t)' = Phase(t)
  PROVE  /\ UNCHANGED site => UNCHANGED Once!vars
         /\ \A u \in Targets : site' = site \cup {u} => Once!Elsewhere(u)
<1>1. Phases' = Phases
  BY DEF Phases
<1>. QED  BY <1>1 DEF Phases, Phase, Once!vars, Once!Elsewhere

LEMMA StepOnce ==
  ASSUME OneByOne, TypeOK, Settling, Settling', [Next]_vars
  PROVE  [Once!Next]_(Once!vars)
<1>. USE DEF db
<1>0. step \in [Relays -> [Targets -> Steps]] /\ record \in [Targets -> RecordStatuses]
  BY DEF TypeOK, Steps, RecordStatuses
<1>1. ASSUME NEW r \in Relays, NEW t \in Targets, PublishToOneTarget(r, t)
      PROVE  Once!Next \/ UNCHANGED Once!vars
  BY <1>1, TargetOnce
<1>2. ASSUME NEW r \in Relays, BeginRelay(r) \/ EndRelay(r) PROVE UNCHANGED Once!vars
  <2>1. UNCHANGED <<record, site>>
    BY <1>2 DEF BeginRelay, EndRelay
  <2>2. \A t \in Targets : step[r][t] # "upload" /\ step'[r][t] # "upload"
    <3>1. CASE BeginRelay(r)
      <4>1. \A t \in Targets : step[r][t] = "off"
        BY <3>1 DEF BeginRelay, Settling, Attempted
      <4>2. \A t \in Targets : step'[r][t] \in {"off", "wait"}
        BY <1>0, <3>1, <4>1 DEF BeginRelay
      <4>. QED  BY <4>1, <4>2
    <3>2. CASE EndRelay(r)
      <4>1. \A t \in Targets : step'[r][t] = "off"
        BY <1>0, <3>2 DEF EndRelay
      <4>2. \A t \in Targets : step[r][t] # "upload"
        BY <3>2 DEF EndRelay, Results, Terminal
      <4>. QED  BY <4>1, <4>2
    <3>. QED  BY <1>2, <3>1, <3>2
  <2>3. \A t \in Targets : Phase(t)' = Phase(t)
    BY <2>1, <2>2, PhaseAlone
  <2>. QED  BY <2>1, <2>3, PhasesKept
<1>3. CASE UNCHANGED step /\ (\A t \in Targets : record[t] \in Done <=> record'[t] \in Done)
  <2>1. \A t \in Targets : Phase(t)' = Phase(t)
    BY <1>3 DEF Phase, Uploading
  <2>2. UNCHANGED site => UNCHANGED Once!vars
    BY <2>1, PhasesKept
  <2>3. ASSUME NEW u \in Targets, site' = site \cup {u} PROVE Once!Next
    <3>1. Once!Elsewhere(u)
      BY <2>1, <2>3, PhasesKept
    <3>. QED  BY <3>1 DEF Once!Next
  <2>4. UNCHANGED site \/ \E u \in Targets : site' = site \cup {u}
    <3>1. ASSUME NEW r \in Relays, RelayNext(r)
          PROVE  UNCHANGED site \/ \E u \in Targets : site' = site \cup {u}
      BY <3>1 DEF RelayNext, BeginRelay, EndRelay, PublishToOneTarget, Acquire, Look, Claim,
         Upload, MarkPublished, MarkFailed, Demote, Join, MarkCrossSeeding
    <3>2. MonitorNext => UNCHANGED site
      BY DEF MonitorNext, AttachReplica, RetireBegin, DropReplicas, RetireSeed, AbortBegin,
         MonitorRecord, AbortEnqueue
    <3>3. EnvironmentNext => UNCHANGED site \/ \E u \in Targets : site' = site \cup {u}
      BY DEF EnvironmentNext, ResendBegin, ResendEnqueue, Cancel, Restart, Crash, Elsewhere
    <3>4. UNCHANGED vars => UNCHANGED site
      BY DEF vars
    <3>. QED  BY <3>1, <3>2, <3>3, <3>4 DEF Next
  <2>. QED  BY <2>2, <2>3, <2>4
<1>4. ASSUME NEW t \in Targets, MonitorRecord(t)
      PROVE  UNCHANGED step /\ \A u \in Targets : record[u] \in Done <=> record'[u] \in Done
  <2>1. record[t] \in Done /\ WriteRecord(t, "retired")
    BY <1>4 DEF MonitorRecord, Settling, Retires
  <2>. QED  BY <1>0, <1>4, <2>1 DEF MonitorRecord, WriteRecord, Done
<1>5. ASSUME MonitorNext
      PROVE  UNCHANGED step /\ \A u \in Targets : record[u] \in Done <=> record'[u] \in Done
  BY <1>4, <1>5 DEF MonitorNext, AttachReplica, RetireBegin, DropReplicas, RetireSeed,
     AbortBegin, AbortEnqueue
<1>6. CASE Crash
  <2>. DEFINE S == {t \in Targets : Phase(t) = "uploading"}
  <2>1. UNCHANGED <<record, site>> /\ \A r \in Relays, t \in Targets : step'[r][t] = "off"
    BY <1>6 DEF Crash
  <2>2. ASSUME NEW t \in S PROVE Phase(t)' = "open"
    <3>1. PICK r \in Relays : step[r][t] = "upload"
      BY <2>2 DEF Phase, Uploading
    <3>2. record[t] \notin Done
      BY <2>2, <3>1 DEF Settling, Goes, Working, Done, Published
    <3>. QED  BY <2>1, <2>2, <3>2 DEF Phase, Uploading
  <2>3. ASSUME NEW t \in Targets \ S PROVE Phase(t)' = Phase(t)
    BY <2>1, <2>3 DEF Phase, Uploading
  <2>. HIDE DEF S
  <2>4. CASE S = {}
    BY <2>1, <2>3, <2>4, PhasesKept
  <2>5. CASE S # {}
    <3>0. PICK T \in SUBSET Targets : T = S
      BY DEF S
    <3>1. Phases' = [t \in Targets |-> IF t \in T THEN "open" ELSE Phases[t]]
      BY <2>2, <2>3, <3>0 DEF Phases
    <3>2. T # {} /\ \A t \in T : t \in Targets /\ Phases[t] = "uploading"
      BY <2>5, <3>0 DEF S, Phases
    <3>3. Once!Abandon(T)
      BY <2>1, <3>1, <3>2 DEF Once!Abandon, Phases, Phase
    <3>. QED  BY <3>3 DEF Once!Next
  <2>. QED  BY <2>4, <2>5
<1>7. ASSUME EnvironmentNext, ~ Crash PROVE UNCHANGED <<step, record>>
  BY <1>7 DEF EnvironmentNext, ResendBegin, ResendEnqueue, Cancel, Restart, Elsewhere, OneByOne
<1>8. CASE UNCHANGED vars
  BY <1>3, <1>8 DEF vars
<1>. QED  BY <1>1, <1>2, <1>3, <1>5, <1>6, <1>7, <1>8 DEF Next, RelayNext

LEMMA InitOnce == Init => Once!Init
<1>. SUFFICES ASSUME Init PROVE Once!Init
  OBVIOUS
<1>1. \A t \in Targets : Uploading(t) = {} /\ record[t] \notin Done
  BY DEF Init, Uploading, Done, Published
<1>. QED  BY <1>1 DEF Init, Once!Init

(* One attempt at a time and no full republish or slow abort: the pipeline is *)
(* PublishOnce.  Each target has one upload in flight at most, is settled     *)
(* only with the torrent on its site, and is not uploaded to once settled.    *)
THEOREM PublishesOnce ==
  ASSUME OneByOne
  PROVE  Spec => OncePerTarget
<1>1. TypeOK /\ Settling /\ [Next]_vars => Settling'
  BY StepSettling
<1>2. TypeOK /\ Settling /\ Settling' /\ [Next]_vars => [Once!Next]_(Once!vars)
  BY StepOnce
<1>. QED
  BY <1>1, <1>2, InitType, StepType, InitSettling, InitOnce, PTL
     DEF Spec, OncePerTarget, Once!Spec

-----------------------------------------------------------------------------
(* The retirement: the types, and the safety half of its promise.            *)

(* Who was retired by this pass is not looked at again: in the loop over the *)
(* rows it is processed, and in the fallback it is not among the seeds left; *)
(* and a seed is being retired only after a judgement that it is ripe.       *)
OnceInv(p) ==
  /\ p.pc \in {"rest", "rows"} => p.retired = {} /\ p.sd = {} /\ p.at = "next"
  /\ p.pc = "replicas" => p.retired \cup p.sd \subseteq p.processed
  /\ p.pc = "match" => p.todo \subseteq Seeds /\ p.todo \cap p.retired = {}
  /\ p.sd \cap p.retired = {}
  /\ p.at # "next" => Retiring!Ripe(p.listed, p.st)
IInv == Retiring!TypeOK /\ OnceInv(pass)

Earned == \A x \in Seeds : status[x] # "retired" /\ status'[x] = "retired" =>
            Retiring!Ripe(pass.listed, pass.st) /\ x \notin pass.retired

LEMMA RestingTyped ==
  Retiring!Resting \in Retiring!Passes /\ OnceInv(Retiring!Resting)
BY DEF Retiring!Resting, Retiring!Unread, Retiring!Absent, Retiring!Passes, Retiring!Torrents,
   Retiring!Strategies, OnceInv

LEMMA InitInv == Retiring!Init => IInv
<1> SUFFICES ASSUME Retiring!Init PROVE IInv
  OBVIOUS
<1>1. torrent \in Retiring!Torrents /\ pass = Retiring!Resting /\ upsets \in 0 .. MaxUpsets
  BY UpsetsAssumption DEF Retiring!Init, Retiring!Torrents, Retiring!Absent
<1>2. Retiring!TypeOK
  BY <1>1, RestingTyped DEF Retiring!Init, Retiring!TypeOK, Retiring!Statuses
<1> QED BY <1>1, <1>2, RestingTyped DEF IInv

(* What is left of a pass after a check.                                     *)
LEMMA CheckedTyped ==
  ASSUME NEW p, p \in Retiring!Passes,
         p.pc \in {"replicas", "match"},
         p.pc = "replicas" => p.retired \subseteq p.processed
  PROVE  Retiring!Checked(p) \in Retiring!Passes /\ OnceInv(Retiring!Checked(p))
<1>1. CASE p.pc = "match"
  BY <1>1, RestingTyped DEF Retiring!Checked
<1>2. CASE p.pc = "replicas"
  <2>1. Retiring!Checked(p) = [p EXCEPT !.at = "next", !.sd = {}, !.st = Retiring!Unread]
    BY <1>2 DEF Retiring!Checked
  <2>2. Retiring!Unread \in Retiring!Strategies
    BY DEF Retiring!Unread, Retiring!Strategies
  <2>3. Retiring!Checked(p) \in Retiring!Passes
    BY <2>1, <2>2 DEF Retiring!Passes
  <2> QED BY <1>2, <2>1, <2>3 DEF OnceInv, Retiring!Passes
<1> QED BY <1>1, <1>2

(* The judgement: the seed is one that the pass has not retired.             *)
LEMMA JudgedTyped ==
  ASSUME NEW p, p \in Retiring!Passes, OnceInv(p), p.at = "next",
         p.pc \in {"replicas", "match"}, strategy \in Retiring!Strategies,
         NEW s \in Seeds, s \notin p.retired, p.pc = "replicas" => s \in p.processed,
         Retiring!RetireCheck(s, p)
  PROVE  pass' \in Retiring!Passes /\ OnceInv(pass')
<1>1. CASE Retiring!Ripe(p.listed, strategy)
  <2>1. pass' = [p EXCEPT !.at = "delete", !.sd = {s}, !.st = strategy]
    BY <1>1 DEF Retiring!RetireCheck
  <2>2. pass' \in Retiring!Passes
    BY <2>1 DEF Retiring!Passes
  <2>3. /\ pass'.pc = p.pc /\ pass'.retired = p.retired /\ pass'.processed = p.processed
        /\ pass'.todo = p.todo /\ pass'.sd = {s} /\ pass'.listed = p.listed
        /\ pass'.st = strategy
    BY <2>1 DEF Retiring!Passes
  <2>4. p.retired \subseteq p.processed \/ p.pc # "replicas"
    BY DEF OnceInv
  <2> QED BY <1>1, <2>2, <2>3, <2>4 DEF OnceInv
<1>2. CASE ~ Retiring!Ripe(p.listed, strategy)
  <2>1. pass' = Retiring!Checked(p)
    BY <1>2 DEF Retiring!RetireCheck
  <2>2. p.pc = "replicas" => p.retired \subseteq p.processed
    BY DEF OnceInv
  <2> QED BY <2>1, <2>2, CheckedTyped
<1> QED BY <1>1, <1>2

(* The next row: a seed that is not passed over is not processed, and so not *)
(* retired.                                                                  *)
LEMMA CheckReplicaStep ==
  ASSUME IInv, NEW s \in Seeds, NEW rl \in Retiring!Roles, Retiring!CheckReplica(s, rl)
  PROVE  IInv' /\ Earned
<1> DEFINE rest == [pass EXCEPT !.todo = @ \ {<<s, rl>>}]
           went == [rest EXCEPT !.processed = @ \cup {s}]
<1>1. /\ pass \in Retiring!Passes /\ OnceInv(pass) /\ Retiring!TypeOK
      /\ strategy \in Retiring!Strategies
  BY DEF IInv, Retiring!TypeOK
<1>2. /\ pass.pc = "replicas" /\ pass.at = "next"
      /\ UNCHANGED <<torrent, strategy, status, replicas, upsets>>
      /\ IF Retiring!PassedOver(s) THEN pass' = rest ELSE Retiring!RetireCheck(s, went)
  BY DEF Retiring!CheckReplica
<1>3. rest \in Retiring!Passes
  BY <1>1 DEF Retiring!Passes
<1>4. /\ rest.pc = "replicas" /\ rest.at = "next" /\ rest.retired = pass.retired
      /\ rest.sd = pass.sd /\ rest.processed = pass.processed
  BY <1>1, <1>2 DEF Retiring!Passes
<1>5. pass' \in Retiring!Passes /\ OnceInv(pass')
  <2>1. CASE Retiring!PassedOver(s)
    BY <1>1, <1>2, <1>3, <1>4, <2>1 DEF OnceInv
  <2>2. CASE ~ Retiring!PassedOver(s)
    <3>1. went \in Retiring!Passes
      BY <1>3 DEF Retiring!Passes
    <3>2. /\ went.pc = "replicas" /\ went.at = "next" /\ went.retired = pass.retired
          /\ went.sd = pass.sd /\ went.processed = pass.processed \cup {s}
      BY <1>3, <1>4 DEF Retiring!Passes
    <3>3. OnceInv(went)
      BY <1>1, <1>2, <3>2 DEF OnceInv
    <3>4. s \notin went.retired
      BY <1>1, <1>2, <2>2, <3>2 DEF OnceInv, Retiring!PassedOver
    <3>5. s \in went.processed
      BY <3>2
    <3>6. Retiring!RetireCheck(s, went)
      BY <1>2, <2>2
    <3> HIDE DEF went
    <3> QED BY <1>1, <3>1, <3>2, <3>3, <3>4, <3>5, <3>6, JudgedTyped
  <2> QED BY <2>1, <2>2
<1> HIDE DEF rest, went
<1>6. Retiring!TypeOK'
  BY <1>1, <1>2, <1>5 DEF Retiring!TypeOK
<1> QED BY <1>2, <1>5, <1>6 DEF IInv, Earned

(* The fallback: the one seed left was not retired by the loop.              *)
LEMMA MatchHashStep ==
  ASSUME IInv, Retiring!MatchHash
  PROVE  IInv' /\ Earned
<1>1. /\ pass \in Retiring!Passes /\ OnceInv(pass) /\ Retiring!TypeOK
      /\ strategy \in Retiring!Strategies
  BY DEF IInv, Retiring!TypeOK
<1>2. pass.pc = "match" /\ pass.at = "next" /\ UNCHANGED <<torrent, strategy, status, upsets>>
  BY DEF Retiring!MatchHash
<1>3. /\ pass' \in Retiring!Passes /\ OnceInv(pass')
      /\ replicas' \subseteq {x \in Seeds : status[x] # "gone"} \X Retiring!Roles
  <2>1. CASE Retiring!Cardinality(pass.todo) = 1
    <3>1. PICK s \in pass.todo :
             replicas' \in {replicas, Retiring!Claim(s)} /\ Retiring!RetireCheck(s, pass)
      BY <2>1 DEF Retiring!MatchHash
    <3>2. s \in Seeds /\ s \notin pass.retired
      BY <1>1, <1>2, <3>1 DEF OnceInv
    <3>3. replicas' \subseteq {x \in Seeds : status[x] # "gone"} \X Retiring!Roles
      BY <1>1, <3>1, <3>2 DEF Retiring!Claim, Retiring!TypeOK, Retiring!Roles
    <3>4. pass' \in Retiring!Passes /\ OnceInv(pass')
      BY <1>1, <1>2, <3>1, <3>2, JudgedTyped
    <3> QED BY <3>3, <3>4
  <2>2. CASE Retiring!Cardinality(pass.todo) # 1
    <3>1. pass' = Retiring!Resting /\ replicas' = replicas
      BY <2>2 DEF Retiring!MatchHash
    <3> QED BY <1>1, <3>1, RestingTyped DEF Retiring!TypeOK
  <2> QED BY <2>1, <2>2
<1>4. Retiring!TypeOK'
  BY <1>1, <1>2, <1>3 DEF Retiring!TypeOK
<1> QED BY <1>2, <1>3, <1>4 DEF IInv, Earned

(* The steps of retireCheck: only the last closes the seed, which was judged *)
(* ripe and is not among the retired ones.                                   *)
LEMMA RetireStepStep ==
  ASSUME IInv, Retiring!RetireStep
  PROVE  IInv' /\ Earned
<1>1. /\ pass \in Retiring!Passes /\ OnceInv(pass) /\ Retiring!TypeOK
      /\ pass.at # "next" /\ pass.pc \in {"replicas", "match"}
  <2>1. pass.at # "next"
    BY DEF Retiring!RetireStep, Retiring!Delete, Retiring!MarkRetired, Retiring!ListReplicas,
       Retiring!Close, Retiring!DeleteReplica
  <2> QED BY <2>1 DEF IInv, Retiring!TypeOK, Retiring!Passes, OnceInv
<1>2. pass.pc = "replicas" => pass.retired \subseteq pass.processed
  BY <1>1 DEF OnceInv
<1>3. ASSUME Retiring!Delete PROVE IInv' /\ Earned
  <2>1. pass' = [pass EXCEPT !.at = "records"]
    BY <1>3 DEF Retiring!Delete
  <2>2. pass' \in Retiring!Passes
    BY <1>1, <2>1 DEF Retiring!Passes
  <2>3. OnceInv(pass')
    BY <1>1, <1>3, <2>1 DEF OnceInv, Retiring!Passes, Retiring!Delete
  <2>4. torrent' \in Retiring!Torrents
    BY <1>1, <1>3 DEF Retiring!Delete, Retiring!TypeOK, Retiring!Torrents, Retiring!Absent
  <2> QED BY <1>1, <1>3, <2>2, <2>3, <2>4 DEF Retiring!Delete, Retiring!TypeOK, IInv, Earned
<1>4. ASSUME Retiring!MarkRetired PROVE IInv' /\ Earned
  <2>1. /\ pass' = [pass EXCEPT !.at = "reps"] \/ pass' = Retiring!Checked(pass)
        /\ UNCHANGED <<torrent, strategy, status, replicas>>
    BY <1>4 DEF Retiring!MarkRetired
  <2>2. pass' \in Retiring!Passes /\ OnceInv(pass')
    <3>1. CASE pass' = [pass EXCEPT !.at = "reps"]
      BY <1>1, <3>1 DEF OnceInv, Retiring!Passes
    <3>2. CASE pass' = Retiring!Checked(pass)
      BY <1>1, <1>2, <3>2, CheckedTyped
    <3> QED BY <2>1, <3>1, <3>2
  <2>3. upsets' \in 0 .. MaxUpsets
    BY <1>1, <1>4, UpsetsAssumption DEF Retiring!MarkRetired, Retiring!Upset, Retiring!TypeOK
  <2> QED BY <1>1, <2>1, <2>2, <2>3 DEF Retiring!TypeOK, IInv, Earned
<1>5. ASSUME Retiring!ListReplicas PROVE IInv' /\ Earned
  <2>1. PICK rows \in {{}, {r \in replicas : r[1] \in pass.sd}} :
           pass' = [pass EXCEPT !.at = "close", !.reps = rows]
    BY <1>5 DEF Retiring!ListReplicas
  <2>2. rows \subseteq Seeds \X Retiring!Roles
    BY <1>1, <2>1 DEF Retiring!TypeOK
  <2>3. pass' \in Retiring!Passes /\ OnceInv(pass')
    BY <1>1, <1>5, <2>1, <2>2 DEF OnceInv, Retiring!Passes, Retiring!ListReplicas
  <2> QED BY <1>1, <1>5, <2>3 DEF Retiring!ListReplicas, Retiring!TypeOK, IInv, Earned
<1>6. ASSUME NEW r, Retiring!DeleteReplica(r) PROVE IInv' /\ Earned
  <2>1. pass' = [pass EXCEPT !.reps = @ \ {r}] /\ replicas' \subseteq replicas
    BY <1>6 DEF Retiring!DeleteReplica
  <2>2. pass' \in Retiring!Passes /\ OnceInv(pass')
    BY <1>1, <2>1 DEF OnceInv, Retiring!Passes
  <2> QED BY <1>1, <1>6, <2>1, <2>2 DEF Retiring!DeleteReplica, Retiring!TypeOK, IInv, Earned
<1>7. ASSUME Retiring!Close PROVE IInv' /\ Earned
  <2> DEFINE p == [pass EXCEPT !.retired = @ \cup pass.sd]
  <2>1. /\ pass' = Retiring!Checked(p) /\ UNCHANGED <<torrent, strategy, replicas, upsets>>
        /\ status' = [s \in Seeds |-> IF s \in pass.sd /\ status[s] # "gone"
                                      THEN "retired" ELSE status[s]]
    BY <1>7 DEF Retiring!Close
  <2>2. p \in Retiring!Passes /\ p.pc = pass.pc
        /\ (p.pc = "replicas" => p.retired \subseteq p.processed)
    BY <1>1 DEF OnceInv, Retiring!Passes
  <2>3. pass' \in Retiring!Passes /\ OnceInv(pass')
    <3> HIDE DEF p
    <3> QED BY <1>1, <2>1, <2>2, CheckedTyped
  <2>4. status' \in [Seeds -> Retiring!Statuses]
    BY <1>1, <2>1 DEF Retiring!TypeOK, Retiring!Statuses
  <2>5. \A x \in Seeds : status'[x] = "gone" <=> status[x] = "gone"
    BY <2>1
  <2>6. {x \in Seeds : status'[x] # "gone"} = {x \in Seeds : status[x] # "gone"}
    BY <2>5
  <2>7. Retiring!TypeOK'
    BY <1>1, <2>1, <2>3, <2>4, <2>6 DEF Retiring!TypeOK
  <2>8. Earned
    BY <1>1, <2>1 DEF Earned, OnceInv
  <2> QED BY <2>3, <2>7, <2>8 DEF IInv
<1> QED BY <1>3, <1>4, <1>5, <1>6, <1>7 DEF Retiring!RetireStep

(* Every step keeps the invariant, and closes a seed only after a judgement  *)
(* that it is ripe, in a pass that has not closed it before.                 *)
LEMMA NextStep ==
  ASSUME IInv, Retiring!Next
  PROVE  IInv' /\ Earned
<1>1. pass \in Retiring!Passes /\ OnceInv(pass) /\ Retiring!TypeOK
  BY DEF IInv, Retiring!TypeOK
<1>0. Retiring!Upset => upsets' \in 0 .. MaxUpsets
  BY <1>1, UpsetsAssumption DEF Retiring!Upset, Retiring!TypeOK
<1>2. ASSUME Retiring!Info PROVE IInv' /\ Earned
  <2>1. pass' \in Retiring!Passes /\ OnceInv(pass')
    BY <1>1, <1>2, RestingTyped DEF Retiring!Info, Retiring!Resting, Retiring!Passes,
       Retiring!TypeOK, OnceInv
  <2> QED BY <1>1, <1>2, <2>1 DEF Retiring!Info, Retiring!TypeOK, IInv, Earned
<1>3. ASSUME Retiring!ListReplicasByQB PROVE IInv' /\ Earned
  <2>1. replicas \subseteq Seeds \X Retiring!Roles
    BY <1>1 DEF Retiring!TypeOK
  <2>2. pass' \in Retiring!Passes
    BY <1>1, <1>3, <2>1 DEF Retiring!ListReplicasByQB, Retiring!Passes
  <2>3. OnceInv(pass')
    BY <1>1, <1>3 DEF Retiring!ListReplicasByQB, OnceInv, Retiring!Passes
  <2> QED BY <1>1, <1>3, <2>2, <2>3 DEF Retiring!ListReplicasByQB, Retiring!TypeOK, IInv, Earned
<1>4. ASSUME Retiring!SeedingSeeds PROVE IInv' /\ Earned
  <2>1. pass' \in Retiring!Passes
    BY <1>1, <1>4 DEF Retiring!SeedingSeeds, Retiring!Passes
  <2>2. OnceInv(pass')
    BY <1>1, <1>4 DEF Retiring!SeedingSeeds, OnceInv, Retiring!Passes
  <2> QED BY <1>1, <1>4, <2>1, <2>2 DEF Retiring!SeedingSeeds, Retiring!TypeOK, IInv, Earned
<1>5. ASSUME Retiring!TorrentProceeds \/ Retiring!TorrentRelapses PROVE IInv' /\ Earned
  <2>1. torrent' \in Retiring!Torrents
    BY <1>1, <1>5 DEF Retiring!TorrentProceeds, Retiring!TorrentRelapses, Retiring!TypeOK,
       Retiring!Torrents, Retiring!Absent, Retiring!Conditions
  <2>2. upsets' \in 0 .. MaxUpsets
    BY <1>0, <1>1, <1>5 DEF Retiring!TorrentProceeds, Retiring!TorrentRelapses, Retiring!TypeOK
  <2> QED BY <1>1, <1>5, <2>1, <2>2 DEF Retiring!TorrentProceeds, Retiring!TorrentRelapses,
         Retiring!TypeOK, IInv, Earned
<1>6. ASSUME NEW s \in Seeds,
             \/ Retiring!Relay(s) \/ Retiring!CrossSeed(s)
             \/ Retiring!Relayed(s) \/ Retiring!DeleteSeed(s)
      PROVE  IInv' /\ Earned
  <2>1. status' \in [Seeds -> Retiring!Statuses]
    BY <1>1, <1>6 DEF Retiring!Relay, Retiring!CrossSeed, Retiring!Relayed, Retiring!DeleteSeed,
       Retiring!TypeOK, Retiring!Statuses
  <2>2. \A x \in Seeds : status[x] # "retired" => status'[x] # "retired"
    BY <1>1, <1>6 DEF Retiring!Relay, Retiring!CrossSeed, Retiring!Relayed, Retiring!DeleteSeed,
       Retiring!TypeOK
  <2>3. replicas' \subseteq {x \in Seeds : status'[x] # "gone"} \X Retiring!Roles
    <3>1. CASE Retiring!Relay(s) \/ Retiring!Relayed(s)
      BY <1>1, <3>1 DEF Retiring!Relay, Retiring!Relayed, Retiring!TypeOK
    <3>2. CASE Retiring!CrossSeed(s)
      BY <1>1, <3>2 DEF Retiring!CrossSeed, Retiring!TypeOK, Retiring!Roles
    <3>3. CASE Retiring!DeleteSeed(s)
      <4>1. \A r \in replicas' : r \in replicas /\ r[1] # s
        BY <3>3 DEF Retiring!DeleteSeed
      <4>2. \A x \in Seeds : x # s => status'[x] = status[x]
        BY <1>1, <3>3 DEF Retiring!DeleteSeed, Retiring!TypeOK
      <4> QED BY <1>1, <4>1, <4>2 DEF Retiring!TypeOK
    <3> QED BY <1>6, <3>1, <3>2, <3>3
  <2>4. upsets' \in 0 .. MaxUpsets
    BY <1>0, <1>1, <1>6 DEF Retiring!Relay, Retiring!CrossSeed, Retiring!Relayed,
       Retiring!DeleteSeed, Retiring!TypeOK
  <2>5. Retiring!TypeOK' /\ OnceInv(pass')
    BY <1>1, <1>6, <2>1, <2>3, <2>4 DEF Retiring!Relay, Retiring!CrossSeed, Retiring!Relayed,
       Retiring!DeleteSeed, Retiring!TypeOK
  <2> QED BY <2>2, <2>5 DEF IInv, Earned
<1>7. ASSUME NEW on \in SUBSET Optional, NEW mode \in {"and", "or"}, Retiring!PutStrategy(on, mode)
      PROVE  IInv' /\ Earned
  <2>1. Retiring!TypeOK' /\ OnceInv(pass')
    BY <1>0, <1>1, <1>7 DEF Retiring!PutStrategy, Retiring!TypeOK, Retiring!Strategies
  <2> QED BY <1>7, <2>1 DEF Retiring!PutStrategy, IInv, Earned
<1>8. ASSUME Retiring!Crash PROVE IInv' /\ Earned
  BY <1>0, <1>1, <1>8, RestingTyped DEF Retiring!Crash, Retiring!TypeOK, IInv, Earned
<1> QED
  BY <1>2, <1>3, <1>4, <1>5, <1>6, <1>7, <1>8, CheckReplicaStep, MatchHashStep, RetireStepStep
     DEF Retiring!Next, Retiring!PassStep

LEMMA RetirePart == [PartsNext]_allVars => [Retiring!Next]_(Retiring!vars)
  BY DEF PartsNext, allVars, retireVars, Retiring!vars

(* A pass closes a seed once, and only after a check of its own that found   *)
(* the torrent ripe, in every reachable state: whatever attempts, deletes,   *)
(* qB, crashes and edits of the strategy do between the steps of the check   *)
(* (monitorInstance, retireCheck).                                           *)
THEOREM RetirementEarned == PartsSpec => []Retiring!TypeOK /\ RetirementSound
<1>1. PartsInit => IInv
  BY InitInv DEF PartsInit
<1>2. IInv /\ [PartsNext]_allVars => IInv'
  <2> SUFFICES ASSUME IInv, [Retiring!Next]_(Retiring!vars) PROVE IInv'
    BY RetirePart
  <2>1. CASE UNCHANGED Retiring!vars
    BY <2>1 DEF Retiring!vars, IInv, Retiring!TypeOK
  <2> QED BY <2>1, NextStep
<1>3. IInv /\ [PartsNext]_allVars =>
        [\A s \in Seeds : status[s] # "retired" /\ status'[s] = "retired" =>
           Retiring!Ripe(pass.listed, pass.st) /\ s \notin pass.retired]_(Retiring!vars)
  BY NextStep, RetirePart DEF Retiring!vars, Earned
<1>4. IInv => Retiring!TypeOK
  BY DEF IInv
<1> QED
  BY <1>1, <1>2, <1>3, <1>4, PTL DEF PartsSpec, RetirementSound, Retiring!RetiredOnMerit
=============================================================================
