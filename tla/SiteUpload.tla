----------------------------- MODULE SiteUpload -----------------------------
(* The adapters: how a publication becomes one site's form and how the       *)
(* site's answer is understood (adapters/*.go, siteConfigFromTarget), with   *)
(* the probe an operator may take the overrides from.  The site is the       *)
(* environment: sessions expire, others upload, answers get lost.            *)
(*                                                                           *)
(* A name is <<token, spelling>>: normToken keeps the token, and a name that *)
(* is a number is spelt in digits.  A listing is a sequence of <<name, id>>, *)
(* what the site's own pages offer.                                          *)
EXTENDS Integers, Sequences, FiniteSets

CONSTANTS
  Listing,   \* what the site lists
  Configs,   \* rows an operator may save
  Requests,  \* what the pipeline may publish: [key, codec, tags]
  Malformed, \* a column that is no JSON
  None

\* A row has its columns, and no id is None.
Columns == {"type", "version", "cookie", "test", "overrides", "codecs", "tags", "fallback"}
UploadAssumption == None # "new" /\ \A row \in Configs : DOMAIN row = Columns

VARIABLES
  site,    \* type, session, copy ("none", "ours" or "others")
  config,  \* the target's row
  shown,   \* the categories the wizard last displayed
  job,     \* the publication in progress and its adapter
  last     \* history: what the last publication sent, met and returned

vars == <<site, config, shown, job, last>>

NexusPHP == "nexusphp"
Classic == "nexusphp_classic"
MTeam == "mteam"
NoRow == [type |-> "", version |-> "", cookie |-> FALSE, test |-> FALSE,
          overrides |-> <<>>, codecs |-> <<>>, tags |-> <<>>, fallback |-> None]

-----------------------------------------------------------------------------
(* Configuration                                                             *)

NormToken(name) == name[1]
IsDigits(name) == name[2] = "digits"

(* canonicalDimKind: every spelling of a dimension's kind is one kind.       *)
CanonicalDimKind(kind) ==
  IF kind \in {"codec", "video_codec", "videoCodec"} THEN "codec" ELSE kind

(* normalizeIntMap: of two spellings of one name either may win, a map has   *)
(* no order.                                                                 *)
NormalizeIntMap(map) ==
  {f \in [{NormToken(n) : n \in DOMAIN map} -> {map[n] : n \in DOMAIN map}] :
     \A t \in DOMAIN f : \E n \in DOMAIN map : NormToken(n) = t /\ map[n] = f[t]}

(* normalizeDimOverrides: of two spellings of one kind the whole table of    *)
(* either is kept.                                                           *)
NormalizeDims(dims) ==
  {f \in [{CanonicalDimKind(k) : k \in DOMAIN dims} ->
            UNION {NormalizeIntMap(dims[k]) : k \in DOMAIN dims}] :
     \A c \in DOMAIN f : \E k \in DOMAIN dims :
       CanonicalDimKind(k) = c /\ f[c] \in NormalizeIntMap(dims[k])}

(* adapterType and normalizeType.                                            *)
AdapterType(row) ==
  CASE row.type \in {MTeam, "m_team"} -> MTeam
    [] row.type \in {Classic, "classic"} \/ (row.type = NexusPHP /\ row.version = "classic") -> Classic
    [] row.type \in {NexusPHP, ""} /\ row.version # "classic" -> NexusPHP
    [] OTHER -> row.type

(* siteConfigFromTarget and newBase: an override column that is no JSON is   *)
(* an error, a tags column that is none counts as empty.                     *)
SiteConfigs(row) ==
  IF Malformed \in {row.overrides, row.codecs} THEN {}
  ELSE {[type |-> AdapterType(row), cookie |-> row.cookie, test |-> row.test,
         overrides |-> o, dims |-> d, fallback |-> row.fallback,
         tags |-> IF row.tags = Malformed THEN <<>> ELSE row.tags] :
        o \in NormalizeIntMap(row.overrides), d \in NormalizeDims(row.codecs)}

-----------------------------------------------------------------------------
(* The form                                                                  *)

(* resolveCategoryID: the digits themselves, the overrides, what was probed, *)
(* the fallback; None when nothing resolves the key.                         *)
ResolveCategoryID(key, cfg, probed) ==
  LET token == NormToken(key) IN
  IF IsDigits(key) THEN token
  ELSE IF token \in DOMAIN cfg.overrides THEN cfg.overrides[token]
  ELSE IF token \in DOMAIN probed THEN probed[token]
  ELSE cfg.fallback

(* resolveDimID: a configured number, the digits themselves, or nothing.     *)
ResolveDimID(token, kind, cfg) ==
  IF kind \in DOMAIN cfg.dims /\ NormToken(token) \in DOMAIN cfg.dims[kind]
  THEN cfg.dims[kind][NormToken(token)]
  ELSE IF IsDigits(token) THEN NormToken(token) ELSE None

(* mapTags: without a map the names go out as they are.  The map's own keys  *)
(* are not normalised.                                                       *)
MapTags(tags, map) ==
  IF map = <<>> THEN tags
  ELSE {map[t] : t \in tags \cap DOMAIN map}
       \cup {map[NormToken(t)] : t \in {u \in tags \ DOMAIN map : NormToken(u) \in DOMAIN map}}

(* The fields of one architecture: numbers for the two APIs, readable words  *)
(* in the description of a classic site.                                     *)
Form(cfg, req, category) ==
  [category |-> category,
   codec |-> IF cfg.type = Classic THEN req.codec ELSE ResolveDimID(req.codec, "codec", cfg),
   tags |-> IF cfg.type = Classic THEN req.tags ELSE MapTags(req.tags, cfg.tags)]

-----------------------------------------------------------------------------
(* The site's answers, as the tests of the adapters give them                *)

Answer == [status |-> 200, location |-> "none", words |-> "none", code |-> None, id |-> None]

(* What the site may answer to what it found.  A classic site may name the   *)
(* existing torrent of a duplicate by a link to it.                          *)
Answers(type, met) ==
  CASE met = "credentials" /\ type = NexusPHP -> {[Answer EXCEPT !.status = 401]}
    [] met = "credentials" /\ type = MTeam ->
         {[Answer EXCEPT !.status = s, !.words = "auth"] : s \in {200, 401, 403}}
    [] met = "credentials" /\ type = Classic ->
         {[Answer EXCEPT !.status = 302, !.location = "login"], [Answer EXCEPT !.words = "auth"]}
    [] met = "exists" -> {[Answer EXCEPT !.status = s, !.words = "dup", !.code = 1] :
                            s \in IF type = Classic THEN {200} ELSE {200, 409, 422}}
                         \cup (IF type = Classic
                               THEN {[Answer EXCEPT !.words = "dup", !.id = "existing"]} ELSE {})
    [] met = "accepted" /\ type = Classic ->
         {[Answer EXCEPT !.status = 302, !.location = "details", !.id = "new"]}
    [] met = "accepted" /\ type # Classic -> {[Answer EXCEPT !.code = 0, !.id = "new"]}
    [] met = "refused" -> {[Answer EXCEPT !.status = s, !.code = 1] : s \in {200, 422, 500}}

(* isDuplicateBody.                                                          *)
IsDuplicate(answer) == answer.status = 409 \/ answer.words = "dup"

(* isMTeamAuthBody with its statuses, isClassicLoginRedirect, and the 401 of *)
(* the NexusPHP API.                                                         *)
IsAuth(type, answer) ==
  \/ answer.status = 401
  \/ type # NexusPHP /\ (answer.status = 403 \/ answer.words = "auth")
  \/ type = Classic /\ answer.location = "login"

\* Fault for mutation: a status of failure is one before the body is read.
ClassifyStatusFirst(type, answer) ==
  CASE IsAuth(type, answer) -> "auth"
    [] answer.status >= 400 -> "failed"
    [] ~IsAuth(type, answer) /\ answer.status < 400 /\ IsDuplicate(answer) -> "duplicate"
    [] OTHER -> IF answer.id # None THEN "ok" ELSE "failed"

(* The tails of the three Publish: what an answer is taken for.              *)
Classify(type, answer) ==
  IF IsAuth(type, answer) THEN "auth"
  ELSE IF type = Classic /\ answer.id # None THEN "ok"
  ELSE IF IsDuplicate(answer) THEN "duplicate"
  ELSE IF type # Classic /\ answer.status < 400
          /\ (answer.id # None \/ (type = MTeam /\ answer.code = 0)) THEN "ok"
  ELSE "failed"

-----------------------------------------------------------------------------
(* A publication                                                             *)

NoLast == [req |-> None, row |-> NoRow, sent |-> None, met |-> "nothing",
           answer |-> Answer, result |-> "none"]

Init ==
  /\ site \in [type : {NexusPHP, Classic, MTeam}, session : BOOLEAN, copy : {"none"}]
  /\ config \in Configs /\ AdapterType(config) = site.type
  /\ shown = <<>> /\ job = None /\ last = NoLast

Returned(req, row, result) ==
  last' = [NoLast EXCEPT !.req = req, !.row = row, !.result = result]

(* publishToOneTarget builds an adapter for this one publication; Publish    *)
(* resolves the category before anything is sent.                            *)
BeginOne(req, cfg) ==
  LET category == ResolveCategoryID(req.key, cfg, <<>>) IN
  CASE cfg.test -> Returned(req, config, "test") /\ UNCHANGED job
    [] ~cfg.test /\ cfg.type = Classic /\ ~cfg.cookie ->
         Returned(req, config, "auth") /\ UNCHANGED job
    [] OTHER ->
         IF category = None THEN Returned(req, config, "mismatch") /\ UNCHANGED job
         ELSE job' = [req |-> req, row |-> config, cfg |-> cfg, probed |-> <<>>,
                      form |-> Form(cfg, req, category),
                      at |-> IF cfg.type = Classic THEN "page" ELSE "post"]
              /\ last' = NoLast

Begin ==
  /\ job = None
  /\ \E req \in Requests :
       \/ SiteConfigs(config) = {} /\ Returned(req, config, "failed") /\ UNCHANGED job
       \/ \E cfg \in SiteConfigs(config) : BeginOne(req, cfg)
  /\ UNCHANGED <<site, config, shown>>

(* parseSelectOptions into the cache: of two spellings the later one counts. *)
Options ==
  LET named(t) == {i \in DOMAIN Listing : NormToken(Listing[i][1]) = t}
      latest(t) == CHOOSE i \in named(t) : \A j \in named(t) : j <= i
  IN [t \in {NormToken(Listing[i][1]) : i \in DOMAIN Listing} |-> Listing[latest(t)][2]]

(* fetchHiddenFields: only a redirect to the login page stops the upload; a  *)
(* page fills the adapter's categories, too late for this publication.       *)
FetchForm ==
  /\ job # None /\ job.at = "page"
  /\ \/ /\ ~site.session
        /\ Returned(job.req, job.row, "auth") /\ job' = None
     \/ /\ job' = [job EXCEPT !.at = "post"]
        /\ UNCHANGED last
     \/ /\ site.session
        /\ job' = [job EXCEPT !.at = "post", !.probed = Options]
        /\ UNCHANGED last
  /\ UNCHANGED <<site, config, shown>>

(* What the site makes of an upload; it may refuse any for reasons of its    *)
(* own.                                                                      *)
Meets == IF ~site.session THEN {"credentials"}
         ELSE IF site.copy # "none" THEN {"exists"} ELSE {"accepted", "refused"}

(* postMultipart and the reading of the answer, which may be lost.           *)
Post ==
  /\ job # None /\ job.at = "post"
  /\ \E met \in Meets, answer \in UNION {Answers(site.type, m) : m \in Meets} \cup {None} :
       /\ answer # None => answer \in Answers(site.type, met)
       /\ site' = [site EXCEPT !.copy = IF met = "accepted" THEN "ours" ELSE @]
       /\ last' = [req |-> job.req, row |-> job.row, sent |-> job.form, met |-> met,
                   answer |-> IF answer = None THEN Answer ELSE answer,
                   result |-> IF answer = None THEN "lost"
                              ELSE Classify(job.cfg.type, answer)]
  /\ job' = None /\ UNCHANGED <<config, shown>>

-----------------------------------------------------------------------------
(* The operator and the site                                                 *)

(* walkCategories and parseMTeamCategories keep each name as it is spelt,    *)
(* classicResult normalises it.                                              *)
Categories(type) ==
  IF type = Classic THEN [n \in {<<t, "shown">> : t \in DOMAIN Options} |-> Options[n[1]]]
  ELSE [n \in {Listing[i][1] : i \in DOMAIN Listing} |->
          Listing[CHOOSE i \in DOMAIN Listing : Listing[i][1] = n][2]]

(* Probe as probeTarget calls it: without the target's credentials.  A site  *)
(* that asks for a login shows nothing.                                      *)
Probe ==
  /\ shown' \in {<<>>, Categories(site.type)}
  /\ UNCHANGED <<site, config, job, last>>

(* The overrides the wizard showed, or any other row for this site.          *)
Save ==
  /\ \/ \E row \in Configs : AdapterType(row) = site.type /\ config' = row
     \/ shown # <<>> /\ config' = [config EXCEPT !.overrides = shown]
  /\ UNCHANGED <<site, shown, job, last>>

Credentials == \E ok \in BOOLEAN : site' = [site EXCEPT !.session = ok]
OthersUpload == site.copy = "none" /\ site' = [site EXCEPT !.copy = "others"]
Removed == site.copy # "none" /\ site' = [site EXCEPT !.copy = "none"]
SiteMoves == (Credentials \/ OthersUpload \/ Removed) /\ UNCHANGED <<config, shown, job, last>>

Next == Begin \/ FetchForm \/ Post \/ Probe \/ Save \/ SiteMoves
Spec == Init /\ [][Next]_vars

-----------------------------------------------------------------------------
(* Properties                                                                *)

(* Every variable keeps its type.                                            *)
TypeOK ==
  /\ site.type \in {NexusPHP, Classic, MTeam} /\ site.copy \in {"none", "ours", "others"}
  /\ last.result \in {"none", "test", "auth", "mismatch", "failed", "lost", "duplicate", "ok"}
  /\ job # None => job.at \in {"page", "post"} /\ job.cfg.type = site.type

(* A publication the site accepted is reported as published, one it already  *)
(* had as a duplicate, one it did not let in as expired credentials, and     *)
(* nothing else is; a lost answer is a failure.  (The classic duplicate page *)
(* that links to the existing torrent is the exception, see the README.)     *)
AnswersUnderstood ==
  last.met # "nothing" /\ last.result # "lost" /\ last.answer.id # "existing" =>
    /\ (last.result = "ok") <=> (last.met = "accepted")
    /\ (last.result = "duplicate") <=> (last.met = "exists")
    /\ (last.result = "auth") <=> (last.met = "credentials")

(* What reaches the site is what the row saved when the publication began    *)
(* says, whatever the spelling of names and kinds: an override when one      *)
(* names the category or the codec, else the fallback or nothing.            *)
SentAsConfigured ==
  last.sent # None =>
    LET named == {n \in DOMAIN last.row.overrides :
                    ~IsDigits(last.req.key) /\ NormToken(n) = NormToken(last.req.key)}
        kinds == {k \in DOMAIN last.row.codecs : CanonicalDimKind(k) = "codec"}
        plain == IF IsDigits(last.req.codec) THEN NormToken(last.req.codec) ELSE None
        coded(k) == {n \in DOMAIN last.row.codecs[k] : NormToken(n) = NormToken(last.req.codec)}
    IN /\ IF IsDigits(last.req.key) THEN last.sent.category = NormToken(last.req.key)
          ELSE IF named # {} THEN \E n \in named : last.sent.category = last.row.overrides[n]
          ELSE last.sent.category = last.row.fallback
       /\ AdapterType(last.row) # Classic =>
            IF kinds = {} THEN last.sent.codec = plain
            ELSE \E k \in kinds :
                   IF coded(k) = {} THEN last.sent.codec = plain
                   ELSE \E n \in coded(k) : last.sent.codec = last.row.codecs[k][n]

(* A publication sends what it should and learns what became of it.          *)
UploadFaithful == AnswersUnderstood /\ SentAsConfigured
=============================================================================
