------------------------------ MODULE SeedsPage ------------------------------
(* The table of the seeds as the endpoint hands it out page by page          *)
(* (listSeeds in api/ops_seeds.go), while seeds are discovered, change their *)
(* status and are deleted between two pages.  The page (views/Seeds.vue)     *)
(* starts a load without looking at the ones under way, so any page of any   *)
(* filter may be asked for at any time, in any order.                        *)
EXTENDS Integers, FiniteSets

CONSTANTS
  Statuses,  \* statuses of a seed
  Filters,   \* choices of the filter: statuses, or AnyOne
  AnyOne,    \* the filter that lets every status through
  Size,      \* rows of a page
  MaxSeeds   \* bound of the seeds discovered

SeedsAssumption == Size \in Nat \ {0} /\ MaxSeeds \in Nat

VARIABLES
  seeds,   \* the table: the status by id, "none" when there is no such row
  last,    \* the last id given (AUTOINCREMENT)
  walk     \* history: a walk through the pages of one filter from the first
           \* one on, for as long as no seed leaves what the filter lets through

vars == <<seeds, last, walk>>

Ids == 1 .. MaxSeeds
NoWalk == [upto |-> 0, filter |-> AnyOne, seen |-> {}, start |-> {}]

(* Every variable keeps its type.                                            *)
TypeOK ==
  /\ seeds \in [Ids -> Statuses \cup {"none"}] /\ last \in 0 .. MaxSeeds
  /\ walk.upto \in 0 .. MaxSeeds /\ walk.filter \in Filters \cup {AnyOne}
  /\ walk.seen \cup walk.start \subseteq Ids

Init == seeds = [i \in Ids |-> "none"] /\ last = 0 /\ walk = NoWalk

-----------------------------------------------------------------------------
Matches(status, f) == status # "none" /\ f \in {AnyOne, status}
Matching(f) == {i \in Ids : Matches(seeds[i], f)}

Offset(p) == (p - 1) * Size

(* ORDER BY id DESC LIMIT size OFFSET (page-1)*size: the rows by their place *)
(* in that order.                                                            *)
Place(i, f) == Cardinality({j \in Matching(f) : j >= i})
RowsOf(p, f) == {i \in Matching(f) : Place(i, f) \in Offset(p) + 1 .. Offset(p) + Size}

\* The first page starts a walk, the next page continues it.
Walked(p, f) ==
  IF p = 1
    THEN [upto |-> 1, filter |-> f, seen |-> RowsOf(1, f), start |-> Matching(f)]
  ELSE IF p = walk.upto + 1 /\ f = walk.filter
    THEN [walk EXCEPT !.upto = p, !.seen = @ \cup RowsOf(p, f)]
  ELSE walk

(* listSeeds reads the rows of a page in one statement.  The count it takes  *)
(* with another one before only tells the pager how many pages to offer.     *)
ListSeeds(p, f) ==
  /\ walk' = Walked(p, f)
  /\ UNCHANGED <<seeds, last>>

(* A seed is discovered (CreateSeed), ...                                  *)
Discover(status) ==
  /\ last < MaxSeeds /\ last' = last + 1
  /\ seeds' = [seeds EXCEPT ![last'] = status]
  /\ UNCHANGED walk

(* ... moved on by the engine (UpdateSeedStatus) or deleted (deleteSeed).    *)
Change(i, status) ==
  /\ seeds[i] # "none" /\ status # seeds[i]
  /\ seeds' = [seeds EXCEPT ![i] = status]
  /\ walk' = IF Matches(seeds[i], walk.filter) /\ ~ Matches(status, walk.filter)
               THEN NoWalk ELSE walk
  /\ UNCHANGED last

Next ==
  \/ \E p \in Ids, f \in Filters : ListSeeds(p, f)
  \/ \E status \in Statuses : Discover(status)
  \/ \E i \in Ids, status \in Statuses \cup {"none"} : Change(i, status)

Spec == Init /\ [][Next]_vars

-----------------------------------------------------------------------------
(* Who walks from the first page to the k-th has been sent every seed that   *)
(* was there at the start and is not older than the last row, although new   *)
(* seeds push the others to later pages all the time; only a seed that goes  *)
(* (deleted, or out of the filter) may pull another one past the walker      *)
(* (listSeeds: ORDER BY id DESC LIMIT size OFFSET (page-1)*size).            *)
PagingComplete ==
  \A i \in walk.start, oldest \in walk.seen : i >= oldest => i \in walk.seen
=============================================================================
