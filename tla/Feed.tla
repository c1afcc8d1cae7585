-------------------------------- MODULE Feed --------------------------------
(* From a site's RSS feed to the first steps of a Relay: what identifies an  *)
(* item (source/rss.go), which items become seeds (engine/poller.go), how a  *)
(* Relay finds its item again, reads the detail page or asks the API         *)
(* (pipeline/source.go, source/detail.go, source/api.go), applies the        *)
(* promotion whitelist and checks the file.  The feed is a sliding window    *)
(* and the site may edit what it shows.  Statuses are written by one Relay   *)
(* at a time: SeedLifecycle has the workers.                                 *)
EXTENDS Integers, Sequences, FiniteSets

CONSTANTS
  Torrents, None,
  Posts,       \* [Torrents -> what the site may show of the torrent]
  Window,      \* number of items the feed shows
  Strategies,  \* what an operator may save
  MaxEdits, MaxFaults  \* bounds of the edits and of the crashes and failed calls

\* A post is of its torrent, its guid of one of three kinds.
FeedAssumption ==
  /\ Window \in Nat \ {0} /\ MaxEdits \in Nat /\ MaxFaults \in Nat
  /\ \A t \in Torrents : None \notin Posts[t] /\ \A item \in Posts[t] :
       item.of = t /\ item.guid \in {"hash", "other", "none"}

VARIABLES
  post,      \* what the site shows of each torrent, None before it is announced
  feed,      \* the torrents in the feed, newest first
  strategy,
  token,     \* whether the source has an API token
  seen,      \* seen_hashes
  seeds,     \* the rows of seeds: identity |-> status and promotion
  poll,      \* the items fetched and not yet ingested; whether the first is marked
  relay,     \* the Relay and its local variables
  edits, faults,
  \* history
  ingested,  \* the torrents that an ingested item stood for
  born,      \* the rows ever inserted: identity and torrent
  verdict    \* the last decision of the promotion filter

vars == <<post, feed, strategy, token, seen, seeds, poll, relay, edits, faults,
          ingested, born, verdict>>
site == <<post, feed, strategy, token, edits>>
history == <<ingested, born, verdict>>

-----------------------------------------------------------------------------
(* GuidToInfohash: a guid that is an info hash, the digest of another guid,  *)
(* or without one the digest of link and title.                              *)
InfoHash(t) == <<"hash", t>>
\* Fault for mutation: without a guid nothing is digested.
GuidDigested(item) ==
  CASE item.guid = "hash" -> InfoHash(item.of)
    [] item.guid = "other" -> <<"sha1", item.of>>
    [] item.guid = "none" -> <<"sha1">>

GuidToInfohash(item) ==
  CASE item.guid = "hash" -> InfoHash(item.of)
    [] item.guid = "other" -> <<"sha1", item.of>>
    [] item.guid = "none" -> <<"sha1", item.of, item.title>>

(* itemMatchesStrategy: the keywords and the size.                           *)
ItemMatchesStrategy(item, st) ==
  /\ st.keywords # {} => item.words \cap st.keywords # {}
  /\ item.size # None => /\ st.min > 0 => item.size >= st.min
                         /\ st.max > 0 => item.size <= st.max

(* promotionAliases.                                                         *)
Aliases ==
  [free |-> {"free", "mianfei", "pro_free", "freeleech"},
   free2x |-> {"2x_free", "2xfree", "2xmianfei", "free2x", "pro_free2up", "pro_2xfree"},
   up2x |-> {"2x", "2xshangchuan", "double_upload", "pro_2up"},
   half |-> {"50%", "50%down", "pro_50pctdown", "50pctdown"},
   third |-> {"30%", "30%down", "pro_30pctdown", "30pctdown"},
   neutral |-> {"neutral", "putong", "pro_neutral"}]
NormalizePromotion(raw) ==
  IF \E p \in DOMAIN Aliases : raw \in Aliases[p]
  THEN CHOOSE p \in DOMAIN Aliases : raw \in Aliases[p] ELSE ""

\* Fault for mutation: the general class is looked for first.
PromoClassOrderGeneral ==
  <<"pro_free", "pro_free2up", "pro_2xfree", "pro_2x_free", "pro_2up", "pro_2x",
    "pro_50pctdown", "pro_50", "pro_30pctdown", "pro_30", "pro_neutral">>

PromoClassOrder ==
  <<"pro_free2up", "pro_2xfree", "pro_2x_free", "pro_2up", "pro_2x", "pro_free",
    "pro_50pctdown", "pro_50", "pro_30pctdown", "pro_30", "pro_neutral">>

\* The classes whose name contains another one's.
Contained == [pro_free |-> {"pro_free2up"}, pro_2x |-> {"pro_2xfree", "pro_2x_free"},
              pro_50 |-> {"pro_50pctdown"}, pro_30 |-> {"pro_30pctdown"}]
Occurs(class, page) ==
  \/ class \in page.classes
  \/ class \in DOMAIN Contained /\ Contained[class] \cap page.classes # {}

(* ParsePromotion: the text of its row, or the first class of the order that *)
(* occurs anywhere in the page.                                              *)
ParsePromotion(page) ==
  LET hits == {n \in DOMAIN PromoClassOrder : Occurs(PromoClassOrder[n], page)}
      first == CHOOSE n \in hits : \A m \in hits : n <= m
  IN IF page.row # "" THEN page.row
     ELSE IF hits # {} THEN PromoClassOrder[first] ELSE ""

-----------------------------------------------------------------------------
(* The site and the operator.                                                *)
Announce(t) ==
  /\ post[t] = None
  /\ \E item \in Posts[t] : post' = [post EXCEPT ![t] = item]
  /\ feed' = SubSeq(<<t>> \o feed, 1, IF Len(feed) < Window THEN Len(feed) + 1 ELSE Window)
  /\ UNCHANGED <<strategy, token, seen, seeds, poll, relay, edits, faults, history>>

(* The site shows another title, size or promotion; the guid stays.          *)
Edit(t) ==
  /\ post[t] # None /\ edits < MaxEdits
  /\ \E item \in Posts[t] \ {post[t]} :
       item.guid = post[t].guid /\ post' = [post EXCEPT ![t] = item]
  /\ edits' = edits + 1
  /\ UNCHANGED <<feed, strategy, token, seen, seeds, poll, relay, faults, history>>

SaveStrategy ==
  /\ edits < MaxEdits
  /\ strategy' \in Strategies \ {strategy}
  /\ edits' = edits + 1
  /\ UNCHANGED <<post, feed, token, seen, seeds, poll, relay, faults, history>>

(* deleteSeed: the row goes, the tombstone stays.                            *)
DeleteSeed(id) ==
  /\ edits < MaxEdits
  /\ seeds' = [other \in DOMAIN seeds \ {id} |-> seeds[other]]
  /\ edits' = edits + 1
  /\ UNCHANGED <<post, feed, strategy, token, seen, poll, relay, faults, history>>

-----------------------------------------------------------------------------
(* The poller, the only one that marks hashes as seen.                       *)
NoPoll == [items |-> <<>>, marked |-> FALSE]
NextItem == [items |-> Tail(poll.items), marked |-> FALSE]
Item == Head(poll.items)

(* FetchRSS and ParseRSS: the items as the site shows them now.              *)
FetchRSS ==
  /\ poll = NoPoll
  /\ poll' = [items |-> [n \in DOMAIN feed |-> post[feed[n]]], marked |-> FALSE]
  /\ UNCHANGED <<site, seen, seeds, relay, faults, history>>

\* Fault for mutation: the row is created without its tombstone.
IngestUnmarked ==
  /\ poll.items # <<>> /\ ~poll.marked
  /\ LET id == GuidToInfohash(Item)
         passes == ItemMatchesStrategy(Item, strategy)
     IN /\ ingested' = IF passes THEN ingested \cup {Item.of} ELSE ingested
        /\ poll' = IF passes /\ id \notin seen /\ id \notin DOMAIN seeds
                   THEN [poll EXCEPT !.marked = TRUE] ELSE NextItem
  /\ UNCHANGED <<site, seen, seeds, relay, faults, born, verdict>>

(* ingestItem up to CreateSeed: the filter, HasSeen, MarkSeen and the look   *)
(* for a row.                                                                *)
Ingest ==
  /\ poll.items # <<>> /\ ~poll.marked
  /\ LET id == GuidToInfohash(Item)
         passes == ItemMatchesStrategy(Item, strategy)
     IN /\ seen' = IF passes THEN seen \cup {id} ELSE seen
        /\ ingested' = IF passes THEN ingested \cup {Item.of} ELSE ingested
        /\ poll' = IF passes /\ id \notin seen /\ id \notin DOMAIN seeds
                   THEN [poll EXCEPT !.marked = TRUE] ELSE NextItem
  /\ UNCHANGED <<site, seeds, relay, faults, born, verdict>>

Row(status) == [status |-> status, promotion |-> ""]

(* CreateSeed, or its failure.                                               *)
CreateSeed ==
  /\ poll.marked
  /\ LET id == GuidToInfohash(Item)
     IN /\ seeds' = [i \in DOMAIN seeds \cup {id} |->
                       IF i = id THEN Row("discovered") ELSE seeds[i]]
        /\ born' = born \cup {<<id, Item.of>>}
  /\ poll' = NextItem
  /\ UNCHANGED <<site, seen, relay, faults, ingested, verdict>>

CreateFails ==
  /\ poll.marked /\ faults < MaxFaults
  /\ poll' = NextItem /\ faults' = faults + 1
  /\ UNCHANGED <<site, seen, seeds, relay, history>>

-----------------------------------------------------------------------------
(* A Relay.                                                                  *)
NoRelay == [at |-> "idle", id |-> None, item |-> None, promotion |-> "", page |-> None]
AtStep(step) == relay.at = step

\* An UPDATE of a deleted row has no effect.
Update(id, field, value) ==
  seeds' = IF id \in DOMAIN seeds THEN [seeds EXCEPT ![id][field] = value] ELSE seeds

Begin(id) ==
  /\ AtStep("idle") /\ seeds[id].status \in {"discovered", "retry"}
  /\ relay' = [NoRelay EXCEPT !.at = "locate", !.id = id]
  /\ Update(id, "status", "processing")
  /\ UNCHANGED <<site, seen, poll, faults, history>>

(* Locate: the first item of the feed, fetched again, that has the seed's    *)
(* identity.                                                                 *)
Locate ==
  LET here == {n \in DOMAIN feed : GuidToInfohash(post[feed[n]]) = relay.id}
      first == CHOOSE n \in here : \A m \in here : n <= m
  IN /\ AtStep("locate") /\ here # {}
     /\ relay' = [relay EXCEPT !.at = "detail", !.item = post[feed[first]]]
     /\ UNCHANGED <<site, seen, seeds, poll, faults, history>>

(* FetchDetailAPI: a JSON answer, which tells no promotion.                  *)
AskAPI ==
  /\ token
  /\ relay' = [relay EXCEPT !.at = "filter"]
  /\ UNCHANGED seeds

(* fetchDetailHTML: the request asks for compressed pages, which net/http    *)
(* then does not unpack: nothing is found in such a page.                    *)
ReadPage ==
  \E packed \in BOOLEAN :
    LET page == post[relay.item.of].page
        promotion == IF packed THEN "" ELSE ParsePromotion(page)
    IN /\ relay' = [relay EXCEPT !.at = "filter", !.promotion = promotion,
                                 !.page = IF packed THEN None ELSE page]
       /\ IF promotion = "" THEN UNCHANGED seeds
          ELSE Update(relay.id, "promotion", promotion)

(* FetchAllDetail: with a token the API; without one, or when the API fails, *)
(* the pages.                                                                *)
FetchDetail ==
  /\ AtStep("detail")
  /\ AskAPI \/ ReadPage
  /\ UNCHANGED <<site, seen, poll, faults, history>>

(* checkPromotionFilter, with the strategy as it is now.                     *)
Filter ==
  /\ AtStep("filter")
  /\ LET promo == NormalizePromotion(relay.promotion)
         listed == {NormalizePromotion(p) : p \in strategy.promotions}
         skip == strategy.promotions # {} /\ (promo = "" \/ promo \notin listed)
     IN /\ Update(relay.id, "status", IF skip THEN "skipped" ELSE "downloading")
        /\ relay' = IF skip THEN NoRelay ELSE [relay EXCEPT !.at = "download"]
        /\ verdict' = [skip |-> skip, page |-> relay.page, listed |-> strategy.promotions]
  /\ UNCHANGED <<site, seen, poll, faults, ingested, born>>

(* downloadAndParse: through a qB the file may be another torrent's, which   *)
(* its info hash tells.                                                      *)
Download ==
  /\ AtStep("download")
  /\ InfoHash(relay.item.of) = relay.id
  /\ Update(relay.id, "status", "downloaded")
  /\ relay' = NoRelay
  /\ UNCHANGED <<site, seen, poll, faults, history>>

(* Any step but the filter may fail: no active source, a feed that cannot be *)
(* read or no longer has the item, a page that is not 200, an empty list of  *)
(* files, no file or the wrong one.  The engine tries again or gives up.     *)
Fail ==
  /\ relay.at \in {"locate", "detail", "download"}
  /\ \E status \in {"retry", "failed"} : Update(relay.id, "status", status)
  /\ relay' = NoRelay
  /\ UNCHANGED <<site, seen, poll, faults, history>>

(* A crash, after which Start reclaims what was in the middle.               *)
Restart ==
  /\ faults < MaxFaults /\ faults' = faults + 1
  /\ poll' = NoPoll /\ relay' = NoRelay
  /\ seeds' = [id \in DOMAIN seeds |->
       IF seeds[id].status \in {"processing", "downloading"}
       THEN [seeds[id] EXCEPT !.status = "retry"] ELSE seeds[id]]
  /\ UNCHANGED <<site, seen, history>>

-----------------------------------------------------------------------------
Init ==
  /\ post = [t \in Torrents |-> None] /\ feed = <<>>
  /\ strategy \in Strategies /\ token \in BOOLEAN
  /\ seen = {} /\ seeds = <<>> /\ poll = NoPoll /\ relay = NoRelay
  /\ edits = 0 /\ faults = 0
  /\ ingested = {} /\ born = {} /\ verdict = None

Next ==
  \/ \E t \in Torrents : Announce(t) \/ Edit(t)
  \/ SaveStrategy
  \/ \E id \in DOMAIN seeds : DeleteSeed(id) \/ Begin(id)
  \/ FetchRSS \/ Ingest \/ CreateSeed \/ CreateFails
  \/ Locate \/ FetchDetail \/ Filter \/ Download \/ Fail
  \/ Restart

Spec == Init /\ [][Next]_vars

-----------------------------------------------------------------------------
(* Every variable keeps its type.                                            *)
TypeOK ==
  /\ Len(feed) <= Window /\ {feed[n] : n \in DOMAIN feed} \subseteq Torrents
  /\ DOMAIN seeds \subseteq seen /\ {row[1] : row \in born} \subseteq seen
  /\ relay.at \in {"idle", "locate", "detail", "filter", "download"}
  /\ relay.at # "idle" => relay.id \in seen

\* The torrents whose item was ingested and that have had no row, apart from
\* the one whose row comes next.
Lost ==
  LET kept == {t \in Torrents : \E row \in born : row[2] = t}
      current == IF poll.marked THEN {Item.of} ELSE {}
  IN ingested \ (kept \cup current)

(* A hash that was once a seed is never one again, not even when its row was *)
(* deleted or its item comes back (poller.go:104, HasSeen, MarkSeen).        *)
NeverReborn ==
  [][\A id \in DOMAIN seeds' \ DOMAIN seeds : \A row \in born : row[1] # id]_vars

\* The page tells what the site grants in a spelling the aliases know: by its
\* row, or without one by its only picture.
Clear(page) ==
  /\ page # None /\ page.promo \in DOMAIN Aliases
  /\ \/ page.row \in Aliases[page.promo]
     \/ /\ page.row = ""
        /\ \E n \in DOMAIN PromoClassOrder :
             page.classes = {PromoClassOrder[n]} /\ PromoClassOrder[n] \in Aliases[page.promo]

(* "Matched exactly by level, free is not mistaken for 2x free" (BIZ-SPEC    *)
(* 75): of a page that tells its promotion in a spelling the aliases know,   *)
(* the filter's decision is the site's promotion against the whitelist;      *)
(* beside a text the page may have the pictures of other torrents            *)
(* (ParsePromotion, NormalizePromotion, checkPromotionFilter).               *)
PromotionHonoured ==
  verdict # None /\ Clear(verdict.page) =>
    (verdict.skip <=> /\ verdict.listed # {}
                      /\ verdict.page.promo \notin {NormalizePromotion(p) : p \in verdict.listed})

(* Every announced torrent becomes a seed once.  The tombstone is committed  *)
(* before the row: a crash or a failed INSERT in between loses a torrent for *)
(* good.  It never loses more than that one, and no torrent is lost in       *)
(* another's identity (ingestItem, GuidToInfohash).                          *)
SeedPerItem == [](Cardinality(Lost) <= faults) /\ NeverReborn
=============================================================================
