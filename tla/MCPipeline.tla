---------------------------- MODULE MCPipeline ------------------------------
(* Instances for TLC of what one relay goes through, from the feed to the    *)
(* target site: each module is explored from its own initial states while    *)
(* the others rest, for they share no variable.                              *)
EXTENDS DirectPull, Sequences, TLC

CONSTANTS
  MaxAttempts,
  Releases, Hashed, Window, MaxEdits, MaxFaults,
  Targets, MaxDepth, MaxTokens,
  Relays, Site,
  Plain, Spelled, Tails, MaxWords, Vocabulary, MaxLength, Malformed

VARIABLES
  part,
  client, urls, attempt, at, slept, file, asked,
  post, feed, strategy, token, seen, seeds, poll, relay, edits, faults, ingested, born, verdict,
  data, torrent, cleaned, joined,
  words, tail, sep, params,
  text, files, descr,
  site, config, shown, job, last,
  rowStatus, rowRole, seedRow, seedReplica, hosts, rivals, doing, closes, resends, engineCtx

-----------------------------------------------------------------------------
(* A small site: what it shows of an item.  The row of the page wins over    *)
(* the picture of another torrent.                                           *)
Page(promo, row, classes) == [promo |-> promo, row |-> row, classes |-> classes]
Pages == {Page("free", "mianfei", {"pro_free2up"}), Page("free2x", "", {"pro_free2up"})}
Unclear == Page("half", "", {"pro_50"})  \* no alias
ItemOf(t, guid, title, named, size, page) ==
  [of |-> t, guid |-> guid, title |-> title, words |-> named, size |-> size, page |-> page]
\* One item has an info hash for a guid, or none; the other one has a guid of
\* another kind, or none and two titles.
Posts == [t \in Releases |->
  IF t = Hashed THEN {ItemOf(t, "hash", 1, {"x"}, 2, page) : page \in Pages}
                       \cup {ItemOf(t, "none", 1, {}, None, Unclear)}
  ELSE {ItemOf(t, "none", title, {}, None, Unclear) : title \in {1, 2}}
         \cup {ItemOf(t, "other", 1, {"x"}, 1, Unclear)}]
Strategy(listed, min, max, promos) ==
  [keywords |-> listed, min |-> min, max |-> max, promotions |-> promos]
Strategies ==
  {Strategy({}, 0, 0, {}), Strategy({"x"}, 2, 2, {"2x_free"}), Strategy({}, 0, 1, {"free", "50%"})}

-----------------------------------------------------------------------------
(* The alphabet of the small torrent files and the torrents that arrive      *)
(* whole: canonical, with unsorted or repeated keys, with an integer not in  *)
(* its shortest form, of BitTorrent v2, and without an info dict.            *)
Atom(kind, v) == [t |-> kind, v |-> v]
S(v) == Atom("s", v)
I(v) == Atom("i", v)
Open(kind) == Atom(kind, "")
Alphabet == {Open("l"), Open("d"), Open("e"), S("a"), S("b"), I("1"), Atom("i0", "1")}
Infos ==
  {<<S("name"), S("a"), S("private"), I("1"), S("source"), S("b")>>,
   <<S("name"), S("a"), S("private"), I("0")>>, <<S("private"), I("1"), S("name"), S("a")>>,
   <<S("name"), S("a"), S("name"), S("b")>>, <<S("name"), S("a"), S("private"), Atom("i0", "1")>>}
InfoEntry(info) == <<S("info"), Open("d")>> \o info \o <<Open("e")>>
Whole(entries) == <<Open("d")>> \o entries \o <<Open("e")>>
Announces ==
  <<S("announce"), S("a"), S("announce-list"), Open("l"), S("b"), Open("e"),
    S("comment"), S("a"), S("creation date"), I("1")>>
Offered ==
  {Whole(Announces \o InfoEntry(info)) : info \in Infos}
    \cup {Whole(InfoEntry(info) \o Announces) : info \in Infos}
    \cup {Whole(InfoEntry(info) \o <<S("piece layers"), Open("d"), Open("e")>>) : info \in Infos}
    \cup {Whole(InfoEntry(<<S("meta version"), I(n), S("name"), S("a")>>)) : n \in {"1", "2"}}
    \cup {Whole(InfoEntry(<<S("files tree"), Open("d"), Open("e"), S("name"), S("a")>>))}
    \cup {Whole(Announces)}

-----------------------------------------------------------------------------
(* A target site's list, what is published there, and the rows of a target:  *)
(* names in two spellings, columns that are no JSON, adapters of each type.  *)
Listing == <<<<<<"movie", "a">>, "401">>, <<<<"movie", "b">>, "402">>, <<<<"tv", "a">>, "403">>>>
Requests ==
  {[key |-> <<"402", "digits">>, codec |-> <<"8", "digits">>, tags |-> {}],
   [key |-> <<"movie", "a">>, codec |-> <<"h265", "a">>, tags |-> {<<"web", "a">>}]}
Row ==
  [type |-> "nexusphp", version |-> "", cookie |-> TRUE, test |-> FALSE,
   overrides |-> <<>>, codecs |-> <<>>, tags |-> <<>>, fallback |-> None]
Overrides == (<<"movie", "b">> :> "1") @@ (<<"movie", "c">> :> "2")
Codecs == "video_codec" :> (<<"h265", "b">> :> "7")
Configs ==
  {[Row EXCEPT !.version = v, !.overrides = Overrides, !.codecs = Codecs, !.tags = Malformed] :
     v \in {"", "classic"}}
  \cup {[Row EXCEPT !.type = "m_team", !.fallback = "409", !.codecs = Codecs,
                    !.tags = <<"web", "a">> :> "5"],
        [Row EXCEPT !.type = "m_team", !.overrides = Malformed],
        [Row EXCEPT !.type = "classic", !.cookie = FALSE],
        [Row EXCEPT !.type = "", !.test = TRUE]}

-----------------------------------------------------------------------------
File == INSTANCE DirectDownload
Source == INSTANCE Feed WITH Torrents <- Releases
Torrent == INSTANCE Torrents
Title == INSTANCE Titles
Text == INSTANCE Descriptions WITH
  Tokens <- Vocabulary, MaxTokens <- MaxLength, Sizes <- {<<>>, <<1023, 1152, 1048575>>}
Upload == INSTANCE SiteUpload
Overlap == INSTANCE Publish WITH
  Targets <- {Site}, MaxTargetConcurrency <- 1, RetryMax <- 1, DefaultRetryMax <- 2,
  Enabled <- {"crash", "cancel", "resend", "republish", "abort", "retire", "elsewhere"},
  record <- rowStatus, role <- rowRole, seedStatus <- seedRow, replica <- seedReplica,
  site <- hosts, relay <- rivals, step <- doing, monitor <- closes, resend <- resends,
  ctx <- engineCtx
ASSUME FileParameters == File!DownloadAssumption
ASSUME FeedParameters == Source!FeedAssumption
ASSUME UploadParameters == Upload!UploadAssumption
ASSUME OverlapParameters == Overlap!PublishAssumption
ASSUME TextParameters == Title!TitleAssumption /\ Text!TextAssumption

fileVars == <<client, urls, attempt, at, slept, file, asked>>
feedVars == <<post, feed, strategy, token, seen, seeds, poll, relay, edits, faults,
              ingested, born, verdict>>
torrentVars == <<data, torrent, cleaned, joined>>
titleVars == <<words, tail, sep, params>>
textVars == <<text, files, descr>>
uploadVars == <<site, config, shown, job, last>>
overlapVars == <<rowStatus, rowRole, seedRow, seedReplica, hosts, rivals, doing, closes,
                 resends, engineCtx>>
allVars == <<part, vars, fileVars, feedVars, torrentVars, titleVars, textVars,
             uploadVars, overlapVars>>

PartsInit ==
  /\ part \in {"pull", "file", "feed", "torrent", "title", "text", "upload", "overlap"}
  /\ Init /\ File!Init /\ Source!Init /\ Torrent!Init
  /\ Title!Init /\ Text!Init /\ Upload!Init /\ Overlap!Init
  /\ part # "pull" => category = [h \in Hashes |-> "kept"]
  /\ part # "file" => client = [passkey |-> None, cookie |-> None]
  /\ part # "feed" => ~token /\ strategy = Strategy({}, 0, 0, {})
  /\ part # "torrent" => data = <<>>
  /\ part # "title" => sep = "."
  /\ part # "text" => files = <<>>
  /\ part # "upload" => config.test /\ ~site.session
  /\ part # "overlap" => hosts = {} /\ rivals[CHOOSE r \in Relays : TRUE].phase = "waiting"
PartsNext ==
  \/ /\ part = "pull" /\ Next
     /\ UNCHANGED <<part, fileVars, feedVars, torrentVars, titleVars, textVars, uploadVars,
                    overlapVars>>
  \/ /\ part = "file" /\ File!Next
     /\ UNCHANGED <<part, vars, feedVars, torrentVars, titleVars, textVars, uploadVars,
                    overlapVars>>
  \/ /\ part = "feed" /\ Source!Next
     /\ UNCHANGED <<part, vars, fileVars, torrentVars, titleVars, textVars, uploadVars,
                    overlapVars>>
  \/ /\ part = "torrent" /\ Torrent!Next
     /\ UNCHANGED <<part, vars, fileVars, feedVars, titleVars, textVars, uploadVars,
                    overlapVars>>
  \/ /\ part = "title" /\ Title!Next
     /\ UNCHANGED <<part, vars, fileVars, feedVars, torrentVars, textVars, uploadVars,
                    overlapVars>>
  \/ /\ part = "text" /\ Text!Next
     /\ UNCHANGED <<part, vars, fileVars, feedVars, torrentVars, titleVars, uploadVars,
                    overlapVars>>
  \/ /\ part = "upload" /\ Upload!Next
     /\ UNCHANGED <<part, vars, fileVars, feedVars, torrentVars, titleVars, textVars,
                    overlapVars>>
  \/ /\ part = "overlap" /\ Overlap!Next
     /\ UNCHANGED <<part, vars, fileVars, feedVars, torrentVars, titleVars, textVars,
                    uploadVars>>
PartsSpec == PartsInit /\ [][PartsNext]_allVars

-----------------------------------------------------------------------------
(* Every variable keeps its type (the modules' TypeOK).                      *)
TypesOK ==
  /\ TypeOK /\ File!TypeOK /\ Source!TypeOK /\ Torrent!TypeOK
  /\ Title!TypeOK /\ Text!TypeOK /\ Upload!TypeOK

(* A site that limits is left alone (DirectDownload).                        *)
LimitRespected == File!LimitRespected

(* Every announced torrent becomes a seed once (Feed).                       *)
SeedPerItem == Source!SeedPerItem

(* The filter decides by the promotion the site shows (Feed).                *)
PromotionHonoured == Source!PromotionHonoured

(* Republishing keeps the info dict (Torrents).                              *)
TorrentsKept == part = "torrent" => Torrent!TorrentsKept

(* What the title says is read from it (Titles).                             *)
TitleRead == part = "title" => Title!TitleRead

(* What is published or read of a description is its author's (Descriptions). *)
DescriptionFaithful == part = "text" => Text!DescriptionFaithful

(* A publication sends what it should and learns what became of it           *)
(* (SiteUpload).                                                             *)
UploadFaithful == part = "upload" => Upload!UploadFaithful

(* A record says published only when the site took the torrent, although two *)
(* attempts at it overlap (Publish).                                         *)
PublishedOnSite == Overlap!PublishedOnSite
=============================================================================
