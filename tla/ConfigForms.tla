----------------------------- MODULE ConfigForms -----------------------------
(* The configuration pages: a row of sources, targets, qb_instances or       *)
(* notifier_instances with its encrypted credential (for a notifier the      *)
(* whole config), edited by several tabs through handlers that read before   *)
(* they write, and the notifier's routing matrix.  AUTOINCREMENT never gives *)
(* an id twice, so one row of each table is enough to watch.                 *)
EXTENDS FiniteSets

CONSTANTS
  Kinds,  \* the tables: "source", "target", "qb", "notifier"
  Tabs,   \* browser tabs
  Creds,  \* credentials an operator may type
  Mask,   \* what is shown for a stored credential and sent back to keep it
  Empty,  \* the empty credential, NULL in the table
  Keys,   \* master keys the process may start with
  Tiers   \* critical, warning, info

\* What an instance of this module gives its parameters: a form's mask is
\* nothing an operator types (who types it keeps what is stored).
FormsAssumption == Empty \notin Creds /\ {Mask, "closed"} \cap (Creds \cup {Empty}) = {} /\ Mask # "closed"

VARIABLES
  kind,    \* the table of the row
  key,     \* the master key of the running process
  row,     \* unborn, live or gone, and the credential with the key that sealed it
  routes,  \* notifier_routes of the row: the tiers it receives
  form,    \* per tab: the credential field of its open form, or "closed"
  req      \* per tab: the request in its handler

vars == <<kind, key, row, routes, form, req>>

Values == Creds \cup {Empty}
Null == [val |-> Empty, key |-> "none"]
Idle == [op |-> "idle", in |-> Empty, alone |-> FALSE, kept |-> Empty, tiers |-> {}]

Init ==
  /\ kind \in Kinds
  /\ key \in Keys
  /\ row = [st |-> "unborn", enc |-> Null]
  /\ routes = {}
  /\ form = [t \in Tabs |-> "closed"]
  /\ req = [t \in Tabs |-> Idle]

-----------------------------------------------------------------------------
(* The helpers of the handlers and of the repository.                        *)

(* An empty credential is stored as NULL, any other sealed with the key.     *)
Encrypt(v) == IF v = Empty THEN Null ELSE [val |-> v, key |-> key]

(* A ciphertext opens under the key that sealed it only.                     *)
Opens(enc) == enc = Null \/ enc.key = key

(* "***" keeps what is stored, anything else replaces it.                    *)
\* Fault for mutation: what arrives is what is stored.
MergeNothing(existing, incoming) == incoming
MergeCredential(existing, incoming) == IF incoming = Mask THEN existing ELSE incoming

(* Presence only.                                                            *)
MaskIf(enc) == IF enc = Null THEN Empty ELSE Mask

(* UPDATE ... WHERE id = ?: a row deleted meanwhile is not written.          *)
Update(v) == row' = IF row.st = "live" THEN [row EXCEPT !.enc = Encrypt(v)] ELSE row
Answer(t) == req' = [req EXCEPT ![t] = Idle]

-----------------------------------------------------------------------------
(* The handlers.                                                             *)

(* The list of sources, targets or qBs, from which the page opens the form.  *)
ListMasked(t) ==
  /\ kind # "notifier" /\ req[t].op = "idle" /\ row.st = "live"
  /\ form' = [form EXCEPT ![t] = MaskIf(row.enc)]
  /\ UNCHANGED <<kind, key, row, routes, req>>

(* The list of notifiers shows their configs as they are and leaves out the  *)
(* instance whose config does not open.                                      *)
ListNotifiers(t) ==
  /\ kind = "notifier" /\ req[t].op = "idle" /\ row.st = "live" /\ Opens(row.enc)
  /\ form' = [form EXCEPT ![t] = row.enc.val]
  /\ UNCHANGED <<kind, key, row, routes, req>>

(* createSource, createTarget, createQB, createNotifier.                     *)
Create(v) ==
  /\ row.st = "unborn"
  /\ row' = [st |-> "live", enc |-> Encrypt(v)]
  /\ UNCHANGED <<kind, key, routes, form, req>>

(* What a form sends for a credential the operator left alone: what it       *)
(* shows.  The page of the qBs leaves the field out, which the handler reads *)
(* as empty; other clients of the API send "***" there too.                  *)
LeftAlone(t) == IF kind = "qb" THEN {Empty, form[t]} ELSE {form[t]}

(* Save, with the credential left alone or a new one typed.                  *)
Submit(t, v, alone) ==
  /\ req[t].op = "idle" /\ form[t] # "closed"
  /\ v \in IF alone THEN LeftAlone(t) ELSE Creds
  /\ req' = [req EXCEPT ![t] = [Idle EXCEPT !.op = "read", !.in = v, !.alone = alone]]
  /\ form' = [form EXCEPT ![t] = "closed"]
  /\ UNCHANGED <<kind, key, row, routes>>

(* updateSource and updateTarget first take the credentials out of the row   *)
(* and fail when they do not open; the other two only look whether it is     *)
(* there.                                                                    *)
Read(t) ==
  /\ req[t].op = "read"
  /\ IF row.st = "live" /\ (kind \in {"source", "target"} => Opens(row.enc))
       THEN req' = [req EXCEPT ![t].op = "write", ![t].kept = row.enc.val]
       ELSE Answer(t)
  /\ UNCHANGED <<kind, key, row, routes, form>>

(* Then they write the whole row with what they have read merged in; ...     *)
WriteMerged(t) ==
  /\ kind \in {"source", "target"} /\ req[t].op = "write"
  /\ Update(MergeCredential(req[t].kept, req[t].in))
  /\ Answer(t)
  /\ UNCHANGED <<kind, key, routes, form>>

(* ... updateQB has a statement of its own for "***", which leaves the       *)
(* column of the password alone; ...                                         *)
\* Fault for mutation: updateQB without its own statement for "***".
WriteQBSealing(t) ==
  /\ kind = "qb" /\ req[t].op = "write"
  /\ Update(MergeCredential(req[t].kept, req[t].in))
  /\ Answer(t)
  /\ UNCHANGED <<kind, key, routes, form>>
WriteQB(t) ==
  /\ kind = "qb" /\ req[t].op = "write"
  /\ IF req[t].in = Mask THEN UNCHANGED row ELSE Update(req[t].in)
  /\ Answer(t)
  /\ UNCHANGED <<kind, key, routes, form>>

(* ... updateNotifier writes the config that came.                           *)
WriteNotifier(t) ==
  /\ kind = "notifier" /\ req[t].op = "write"
  /\ Update(req[t].in)
  /\ Answer(t)
  /\ UNCHANGED <<kind, key, routes, form>>

(* DELETE of a source, a target or a qB ...                                  *)
Delete ==
  /\ kind # "notifier" /\ row.st = "live"
  /\ row' = [st |-> "gone", enc |-> Null]
  /\ UNCHANGED <<kind, key, routes, form, req>>

(* ... and of a notifier, whose routes go with it.                           *)
DeleteNotifier ==
  /\ kind = "notifier" /\ row.st = "live"
  /\ row' = [st |-> "gone", enc |-> Null]
  /\ routes' = {}
  /\ UNCHANGED <<kind, key, form, req>>

(* putNotifierRoutes: every instance named must be in the list of instances. *)
Validate(t, tiers) ==
  /\ kind = "notifier" /\ req[t].op = "idle"
  /\ (tiers # {} => row.st = "live" /\ Opens(row.enc))
  /\ req' = [req EXCEPT ![t] = [Idle EXCEPT !.op = "routes", !.tiers = tiers]]
  /\ UNCHANGED <<kind, key, row, routes, form>>

(* Then one transaction empties the matrix and fills it; the foreign key     *)
(* refuses the cells of an instance deleted meanwhile, which undoes it all.  *)
Replace(t) ==
  /\ req[t].op = "routes"
  /\ routes' = IF req[t].tiers = {} \/ row.st = "live" THEN req[t].tiers ELSE routes
  /\ Answer(t)
  /\ UNCHANGED <<kind, key, row, form>>

(* The process starts again, with the key the environment or the file holds; *)
(* requests are lost, open forms are not.                                    *)
Restart(k) ==
  /\ key' = k
  /\ req' = [t \in Tabs |-> Idle]
  /\ UNCHANGED <<kind, row, routes, form>>

Next ==
  \/ \E t \in Tabs :
       \/ ListMasked(t) \/ ListNotifiers(t) \/ Read(t)
       \/ WriteMerged(t) \/ WriteQB(t) \/ WriteNotifier(t) \/ Replace(t)
  \/ \E t \in Tabs, v \in Values \cup {Mask}, alone \in BOOLEAN : Submit(t, v, alone)
  \/ \E v \in Values : Create(v)
  \/ \E t \in Tabs, tiers \in SUBSET Tiers : Validate(t, tiers)
  \/ \E k \in Keys : Restart(k)
  \/ Delete \/ DeleteNotifier

Spec == Init /\ [][Next]_vars

-----------------------------------------------------------------------------
(* Properties.                                                               *)

(* Every variable keeps its type, and no mask is ever stored: the "***" a    *)
(* form was shown does not become the password of the next login.            *)
TypeOK ==
  /\ kind \in Kinds /\ key \in Keys /\ routes \subseteq Tiers
  /\ row.st \in {"unborn", "live", "gone"} /\ row.enc.val \in Values
  /\ \A t \in Tabs : form[t] \in Values \cup {Mask, "closed"}
                     /\ req[t].op \in {"idle", "read", "write", "routes"}

(* Tab t's update reaches its write.                                         *)
Writes(t) == req[t].op = "write" /\ row.st = "live" /\ req'[t].op = "idle"
Kept == row'.enc.val = row.enc.val

(* An update that sends "***" leaves the credential as it is: in the table   *)
(* of the qBs always, in the others when no other write came between the     *)
(* read of the update and its write.                                         *)
MaskKeeps ==
  [][\A t \in Tabs :
       Writes(t) /\ req[t].in = Mask /\ (kind = "qb" \/ req[t].kept = row.enc.val)
         => Kept]_vars

(* A credential sealed under another master key than the running one is not  *)
(* lost to an update that asked to keep it: it goes only for what an update  *)
(* carried in its place, or with the row.                                    *)
UnreadableKept ==
  [][~ Opens(row.enc) /\ row' # row =>
       \/ row'.st = "gone"
       \/ \E t \in Tabs : Writes(t) /\ (req[t].in # Mask \/ Kept)]_vars

(* The routing matrix changes as a whole: to what one request asked for,     *)
(* with its instance there, or to nothing because the instance goes.  A      *)
(* refused request leaves the old matrix.                                    *)
MatrixWhole ==
  [][routes' # routes =>
       \/ row.st = "live" /\ row'.st = "gone"
       \/ \E t \in Tabs : req[t].op = "routes" /\ routes' = req[t].tiers
                        /\ (routes' = {} \/ row'.st = "live")]_vars

(* A password left blank in the form of a qB is kept: "blank leaves the field *)
(* out, which keeps the server's value", says the page.  The code breaks it: *)
(* updateQB reads a missing field as the empty password and stores that.     *)
BlankKeepsPassword ==
  [][\A t \in Tabs : kind = "qb" /\ Writes(t) /\ req[t].alone => Kept]_vars

(* The mask keeps what is stored, an update that asks to keep a credential    *)
(* cannot lose one it could not read, and the routing matrix changes as a    *)
(* whole: the three properties above (mergeCredential, updateQB,             *)
(* ReplaceRoutes).  A field left blank is not the mask (BlankKeepsPassword). *)
FormsKeep == MaskKeeps /\ UnreadableKept /\ MatrixWhole
=============================================================================
