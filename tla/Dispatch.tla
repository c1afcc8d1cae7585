------------------------------ MODULE Dispatch ------------------------------
(* The choice of a qB for a download or a cross-seed (engine/dispatcher.go,  *)
(* qb/manager.go, selectQB in pipeline/pipeline.go).  The enabled rows come  *)
(* from the database in priority order, the live instances from the          *)
(* manager's registry; the two may differ.                                   *)
EXTENDS Ranks, SequencesExt

CONSTANTS
  Instances, None,
  Amounts,   \* free space and torrent counts an instance reports
  MaxTurns   \* bound of the round-robin cursor

\* No count is as large as the one that stands for an unknown count.
DispatchAssumption ==
  IsFiniteSet(Instances) /\ Amounts \subseteq 0 .. 999 /\ MaxTurns \in Nat

VARIABLES
  rows,      \* GetEnabledQBInstances: enabled names by priority DESC, id ASC
  registry,  \* Manager.insts
  mode,      \* strategies.dispatch_mode
  cursor,    \* Dispatcher.rr
  picked,    \* what the last selection returned, and whether with its row's id
  turns      \* history: the picks round robin made of the present names

vars == <<rows, registry, mode, cursor, picked, turns>>

Modes == {"priority", "most_free_disk", "least_jobs", "round_robin"}
Lists == {s \in UNION {[1 .. n -> Instances] : n \in 0 .. Cardinality(Instances)} :
            IsInjective(s)}

(* Every variable keeps its type.                                            *)
TypeOK ==
  /\ rows \in Lists /\ registry \subseteq Instances
  /\ mode \in Modes /\ cursor \in 0 .. MaxTurns
  /\ picked \in [name : Instances \cup {None}, known : BOOLEAN]
  /\ turns \in Seq(Instances)

Nothing == [name |-> None, known |-> FALSE]

Init ==
  /\ rows \in Lists /\ registry = ToSet(rows)
  /\ mode \in Modes /\ cursor = 0 /\ picked = Nothing /\ turns = <<>>

-----------------------------------------------------------------------------
\* What the instances report to the one query a strategy makes: who answers,
\* and the free space or the number of torrents.
Reports == [up : SUBSET Instances, amount : [Instances -> Amounts]]

(* Every strategy chooses among the enabled names the manager knows.         *)
Usable == EntriesAt(rows, {k \in DOMAIN rows : rows[k] \in registry})

\* The first name of the sequence with the largest value.
FirstLargest(names, value(_)) ==
  names[CHOOSE k \in DOMAIN names : \A j \in DOMAIN names :
          IF j < k THEN value(names[j]) < value(names[k])
                   ELSE value(names[j]) <= value(names[k])]

(* mostFreeDisk and leastJobs: a failed query reports no space, and as many  *)
(* torrents as an int holds.                                                 *)
MostFreeDisk(r) ==
  LET Free(i) == IF i \in r.up THEN r.amount[i] ELSE 0 IN FirstLargest(Usable, Free)
LeastJobs(r) ==
  LET Spare(i) == IF i \in r.up THEN 0 - r.amount[i] ELSE -1000
  IN FirstLargest(Usable, Spare)

\* Fault for mutation: the cursor runs over all enabled rows.
RoundRobinOfRows ==
  LET i == rows[(cursor % Len(rows)) + 1] IN IF i \in registry THEN i ELSE Usable[1]

RoundRobin == Usable[(cursor % Len(Usable)) + 1]

(* SelectQB.  ErrNoQB is None.                                               *)
Choice(prefer, r) ==
  CASE rows = <<>> -> None
    [] rows # <<>> /\ prefer \in registry -> prefer
    [] rows # <<>> /\ prefer \notin registry /\ Usable = <<>> -> None
    [] OTHER -> CASE mode = "priority" -> Usable[1]
                  [] mode = "most_free_disk" -> MostFreeDisk(r)
                  [] mode = "least_jobs" -> LeastJobs(r)
                  [] mode = "round_robin" -> RoundRobin

(* RelayOne.selectQB around it: without a choice any registered instance     *)
(* will do, but its row's id is not known.                                   *)
Fallback(choice) ==
  IF choice # None THEN [name |-> choice, known |-> choice \in ToSet(rows)]
  ELSE IF registry # {} THEN [name |-> CHOOSE i \in registry : TRUE, known |-> FALSE]
  ELSE Nothing

(* One selection; prefer is the origin's qB when a row names it.             *)
Select(prefer, r) ==
  LET turn == rows # <<>> /\ prefer \notin registry /\ mode = "round_robin" /\ Usable # <<>>
  IN /\ turn => cursor < MaxTurns
     /\ cursor' = IF turn THEN cursor + 1 ELSE cursor
     /\ turns' = IF turn THEN Append(turns, Choice(prefer, r)) ELSE turns
     /\ picked' = Fallback(Choice(prefer, r))
     /\ UNCHANGED <<rows, registry, mode>>

(* The rows are edited, or the registry is rebuilt from them.                *)
Edit ==
  /\ \/ rows' \in Lists /\ UNCHANGED <<registry, mode>>
     \/ registry' \in {ToSet(rows), {}} /\ UNCHANGED <<rows, mode>>
     \/ mode' \in Modes /\ UNCHANGED <<rows, registry>>
  /\ turns' = <<>> /\ UNCHANGED <<cursor, picked>>

Next ==
  \/ \E prefer \in ToSet(rows) \cup {None}, r \in Reports : Select(prefer, r)
  \/ Edit
Spec == Init /\ [][Next]_vars

-----------------------------------------------------------------------------
(* While one enabled instance answers, least_jobs chooses one that does, and *)
(* so does most_free_disk when it has any space (dispatcher.go:92, :116).    *)
LivePreferred ==
  \A r \in Reports :
    LET answering == ToSet(Usable) \cap r.up
    IN /\ answering # {} => LeastJobs(r) \in r.up
       /\ (\E i \in answering : r.amount[i] > 0) => MostFreeDisk(r) \in r.up

(* Round robin gives every usable instance its turn: while the names stay as *)
(* they are, as many consecutive turns as there are names are all different, *)
(* whatever selections of other kinds fall in between (roundRobin).          *)
TurnsEven ==
  \A m, n \in DOMAIN turns : m < n /\ n - m < Len(Usable) => turns[m] # turns[n]

(* A selection prefers who answers and gives everyone a turn.                *)
SelectionSound == LivePreferred /\ TurnsEven
=============================================================================
