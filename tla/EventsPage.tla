----------------------------- MODULE EventsPage ------------------------------
(* The page of the activity log (views/Events.vue) against the endpoint it   *)
(* reads (listEvents in api/ops_events.go): loads that overlap a change of   *)
(* the filter, rows that are written and deleted meanwhile, and a cursor     *)
(* that only moves towards newer rows.                                       *)
EXTENDS Ranks, SequencesExt

CONSTANTS
  Levels,     \* levels of the rows
  Filters,    \* choices of the filter: levels, or AnyOne
  AnyOne,     \* the filter that lets every level through
  Size,       \* rows of an answer at most
  MaxEvents,  \* bound of the rows written
  MaxLoads    \* bound of the loads of the page

\* What an instance of this module gives its parameters.
EventsAssumption ==
  AnyOne \in Filters /\ Size \in Nat \ {0} /\ MaxEvents \in Nat /\ MaxLoads \in Nat

VARIABLES
  log,        \* activity_log: the rows, numbered by AUTOINCREMENT
  last,       \* the last number given
  level,      \* the filter chosen
  events,     \* the rows shown, in the order shown
  since, hasMore, loading, requestId,
  requests,   \* the loads under way, and what the server has read
  gap         \* history: an answer that was added to the list was cut off

vars == <<log, last, level, events, since, hasMore, loading, requestId, requests, gap>>
page == <<level, events, since, hasMore, loading, requestId, gap>>

Rows == [id : 1 .. MaxEvents, level : Levels]

(* Every variable keeps its type.                                            *)
TypeOK ==
  /\ log \subseteq Rows /\ last \in 0 .. MaxEvents
  /\ level \in Filters /\ since \in 0 .. last /\ requestId \in 0 .. MaxLoads
  /\ {hasMore, loading, gap} \subseteq BOOLEAN
  /\ ToSet(events) \subseteq Rows
  /\ \A r \in requests : r.no \in 1 .. requestId /\ r.level \in Filters

Init ==
  /\ log = {} /\ last = 0 /\ level = AnyOne
  /\ events = <<>> /\ since = 0 /\ hasMore = TRUE /\ loading = FALSE
  /\ requestId = 0 /\ requests = {} /\ gap = FALSE

-----------------------------------------------------------------------------
(* The server.                                                               *)

Matching(after, filter) ==
  {e \in log : e.id > after /\ filter \in {AnyOne, e.level}}

(* ORDER BY id DESC LIMIT: the answer ends with the oldest row of rank Size. *)
Newest(rows) ==
  LET ids == {e.id : e \in rows}
      count == Cardinality(ids)
      Places == 1 .. (IF count < Size THEN count ELSE Size)
  IN [n \in Places |-> CHOOSE e \in rows : e.id = Nth(ids, count + 1 - n)]

(* listEvents reads the rows of an answer in one statement.                  *)
Serve(r) ==
  /\ ~r.read
  /\ LET found == Matching(r.since, r.level)
     IN requests' = (requests \ {r}) \cup
          {[r EXCEPT !.read = TRUE, !.rows = Newest(found), !.cut = Cardinality(found) > Size]}
  /\ UNCHANGED <<log, last, page>>

(* The engine appends a row (AppendLog, AppendLogSeed).                      *)
AppendRow(l) ==
  /\ last < MaxEvents
  /\ last' = last + 1 /\ log' = log \cup {[id |-> last', level |-> l]}
  /\ UNCHANGED <<requests, page>>

(* deleteSeed takes the rows of its seed along.                              *)
DeleteRows(rows) ==
  /\ log' = log \ rows
  /\ UNCHANGED <<last, requests, page>>

-----------------------------------------------------------------------------
(* The page.                                                                 *)

Send(reset, after, filter) ==
  /\ requestId < MaxLoads /\ requestId' = requestId + 1
  /\ requests' = requests \cup {[no |-> requestId', reset |-> reset, since |-> after,
                                 level |-> filter, read |-> FALSE, rows |-> <<>>, cut |-> FALSE]}
  /\ loading' = TRUE

(* onMounted and onFilterChange: load(true) starts the list anew, also while *)
(* a load is under way.                                                      *)
Reset(filter) ==
  /\ IF requestId = 0 THEN filter = AnyOne ELSE filter # level
  /\ level' = filter /\ events' = <<>> /\ since' = 0 /\ hasMore' = TRUE /\ gap' = FALSE
  /\ Send(TRUE, 0, filter)
  /\ UNCHANGED <<log, last>>

(* loadMore: the button is there below a list, and disabled during a load.   *)
LoadMore ==
  /\ events # <<>> /\ hasMore /\ ~loading
  /\ Send(FALSE, since, level)
  /\ UNCHANGED <<log, last, level, events, since, hasMore, gap>>

\* Fault for mutation: the answer to a superseded load is not told apart.
NeverLate(r) == FALSE
Late(r) == r.no # requestId

(* A late answer or error is dropped.                                        *)
Drop(r) ==
  /\ Late(r) /\ requests' = requests \ {r}
  /\ UNCHANGED <<log, last, page>>

(* The rows that are not shown yet go to the end of the list.                *)
Take(r) ==
  LET new == EntriesAt(r.rows, {k \in DOMAIN r.rows : ~ Contains(events, r.rows[k])})
  IN /\ r.read /\ ~ Late(r) /\ requests' = requests \ {r}
     /\ loading' = FALSE
     /\ IF r.rows = <<>> THEN hasMore' = FALSE /\ UNCHANGED <<events, since, gap>>
        ELSE /\ since' = r.rows[1].id
             /\ events' = IF r.reset THEN r.rows ELSE events \o new
             /\ hasMore' = IF r.reset THEN hasMore ELSE new # <<>>
             /\ gap' = (gap \/ (r.cut /\ ~r.reset))
     /\ UNCHANGED <<log, last, level, requestId>>

Fail(r) ==
  /\ ~ Late(r) /\ requests' = requests \ {r}
  /\ loading' = FALSE
  /\ UNCHANGED <<log, last, level, events, since, hasMore, requestId, gap>>

Next ==
  \/ \E r \in requests : Serve(r) \/ Drop(r) \/ Take(r) \/ Fail(r)
  \/ \E l \in Levels : AppendRow(l)
  \/ \E rows \in SUBSET log : DeleteRows(rows)
  \/ \E f \in Filters : Reset(f)
  \/ LoadMore

Spec == Init /\ [][Next]_vars

-----------------------------------------------------------------------------
(* The list shows rows of the chosen level only, each once, and misses no    *)
(* row of the log between its oldest and its cursor unless an answer that    *)
(* was added to it had been cut off at Size rows (load in Events.vue,        *)
(* listEvents): whatever overlapped, failed or was deleted meanwhile.        *)
EventsFaithful ==
  /\ \A e \in ToSet(events) : level \in {AnyOne, e.level}
  /\ IsInjective(events)
  /\ ~gap => \A e \in Matching(0, level) :
       (\E old \in ToSet(events) : old.id <= e.id) /\ e.id <= since => Contains(events, e)
=============================================================================
