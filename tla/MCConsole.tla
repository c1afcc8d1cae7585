----------------------------- MODULE MCConsole ------------------------------
(* Instances for TLC of what the operator and the service's own session work *)
(* with: the login, the configuration forms, the pages of events and seeds,  *)
(* the restore of a backup and the session with qB.  Each module is explored *)
(* from its own initial states while the others rest, for they share no      *)
(* variable.                                                                 *)
EXTENDS WebAuth, TLC

CONSTANTS
  Kinds, Creds, Mask, Empty, Keys, Tiers,
  Current, Handlers, MaxWrites, Budget,
  Callers, MaxExpiries, MaxOutages,
  Levels, Choices, AnyOne, AnswerSize, MaxEvents, MaxLoads,
  Statuses, Shown, PageSize, MaxSeeds

VARIABLES
  part,
  kind, key, row, routes, form, req,
  main, wal, txn, pending, safety, staged, at, upload, exported, acked, walLeft,
  spent,
  jar, loggedIn, call, expiries, outages,
  log, written, level, events, since, hasMore, loading, requestId, requests, gap,
  seeds, last, walk

\* The archives an operator has from elsewhere: of an older version, a newer one,
\* one whose meta.json hides that, one with a damaged database and a truncated
\* one.  Archives of the current version are exported.
Archive(meta, version, sound, whole) ==
  [whole |-> whole, meta |-> meta,
   db |-> [writes |-> {0}, ddl |-> version, version |-> version, sound |-> sound]]
Offered ==
  {Archive(1, 1, TRUE, TRUE), Archive(3, 3, TRUE, TRUE), Archive(2, 3, TRUE, TRUE),
   Archive(2, 2, FALSE, TRUE), Archive(2, 2, TRUE, FALSE)}

Config == INSTANCE ConfigForms
Backup == INSTANCE Restore
Session == INSTANCE QBSession
Events == INSTANCE EventsPage WITH Filters <- Choices, Size <- AnswerSize, last <- written
Listing == INSTANCE SeedsPage WITH Filters <- Shown, Size <- PageSize
ASSUME FormsParameters == Config!FormsAssumption
ASSUME SessionParameters == Session!SessionAssumption
ASSUME EventParameters == Events!EventsAssumption
ASSUME ListParameters == Listing!SeedsAssumption
ASSUME BackupParameters == Backup!RestoreAssumption

configVars == <<kind, key, row, routes, form, req>>
backupVars ==
  <<main, wal, txn, pending, safety, staged, at, upload, exported, acked, walLeft, spent>>
sessionVars == <<jar, loggedIn, call, expiries, outages>>
eventVars == <<log, written, level, events, since, hasMore, loading, requestId, requests, gap>>
listVars == <<seeds, last, walk>>
pageVars == <<eventVars, listVars>>
allVars == <<part, vars, configVars, backupVars, sessionVars, pageVars>>

PartsInit ==
  /\ part \in {"auth", "config", "backup", "session", "events", "seeds"}
  /\ Init /\ Config!Init /\ Backup!Init /\ Session!Init /\ Events!Init /\ Listing!Init
  /\ part # "config" => kind = "qb" /\ key = CHOOSE k \in Keys : TRUE
PartsNext ==
  \/ part = "auth" /\ Next /\ UNCHANGED <<part, configVars, backupVars, sessionVars, pageVars>>
  \/ part = "config" /\ Config!Next /\ UNCHANGED <<part, vars, backupVars, sessionVars, pageVars>>
  \/ part = "backup" /\ Backup!Next /\ UNCHANGED <<part, vars, configVars, sessionVars, pageVars>>
  \/ part = "session" /\ Session!Next /\ UNCHANGED <<part, vars, configVars, backupVars, pageVars>>
  \/ /\ part = "events" /\ Events!Next
     /\ UNCHANGED <<part, vars, configVars, backupVars, sessionVars, listVars>>
  \/ /\ part = "seeds" /\ Listing!Next
     /\ UNCHANGED <<part, vars, configVars, backupVars, sessionVars, eventVars>>
PartsSpec == PartsInit /\ [][PartsNext]_allVars

(* The fairness of the modules, each for its own part.                       *)
PartsFairness ==
  /\ \A t \in Tabs : WF_vars(part = "auth" /\ (Status(t) \/ Me(t) \/ SetupInsert(t)))
  /\ WF_backupVars(part = "backup" /\ Backup!BootStep)
  /\ \A c \in Callers :
       /\ WF_sessionVars(part = "session" /\ Session!Step(c))
       /\ WF_sessionVars(part = "session" /\ Session!Begin(c))
FairPartsSpec == PartsSpec /\ PartsFairness

(* Every variable keeps its type (the modules' TypeOK).                      *)
TypesOK ==
  /\ TypeOK /\ Config!TypeOK /\ Backup!TypeOK /\ Session!TypeOK
  /\ Events!TypeOK /\ Listing!TypeOK

(* A credential sent back as its mask stays, and the matrix changes whole    *)
(* (ConfigForms).                                                            *)
FormsKeep == Config!FormsKeep

(* A restore leaves a sound database and loses nothing, as long as no file   *)
(* is replaced beside its WAL (Restore).                                     *)
RestoreCorrect ==
  /\ Backup!NothingLost /\ Backup!LiveSound
  /\ Backup!SchemaMatchesVersion /\ Backup!RestoredIsArchive

(* What the pages of the console show is complete and of the chosen filter   *)
(* (EventsPage, SeedsPage).                                                  *)
PagesFaithful == Events!EventsFaithful /\ Listing!PagingComplete

(* One request to qB costs a bounded number of sends and logins, whatever    *)
(* the other callers and the server do (QBSession).                          *)
RequestsCheap == Session!ReloginBounded

(* What goes wrong at the console passes: a tab whose session is gone leaves *)
(* when it is used (WebAuth), an acceptable pending archive is restored in   *)
(* the end (Restore), and a lost session with qB heals (QBSession).          *)
ConsoleRecovers == StaleTabLeaves /\ Backup!PendingRestored /\ Session!Recovers
=============================================================================
