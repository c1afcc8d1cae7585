------------------------------- MODULE Titles -------------------------------
(* What the relay reads out of a seed's title and writes into the form of    *)
(* the target site (titler/titler.go, mteam/title.go, buildPublishParams in  *)
(* pipeline/target.go).  A title is a sequence of words with an optional     *)
(* tail after a last "-"; the regular expressions are tables of the words    *)
(* they match, one or two spellings of each value.                           *)
EXTENDS Integers, SequencesExt, Ranks

CONSTANTS
  Plain,     \* words that mean nothing to the parser
  Spelled,   \* the words titles are made of here
  Tails,     \* what may follow the last "-"
  MaxWords   \* bound of the length of a title

TitleAssumption == MaxWords \in Nat /\ "" \notin Plain \cup Spelled \cup Tails

VARIABLES
  words, tail,  \* the title, words with "-" inside included, and its tail
  sep,          \* what stands between the words, a dot or a space
  params        \* what is published under it
vars == <<words, tail, sep, params>>

-----------------------------------------------------------------------------
(* The component tables: the spellings and what they are normalized to       *)
(* (videoNormalize, audioNormalize, hdrNormalize, bitsNormalize,             *)
(* sourceNormalize); years, resolutions and channels stay as written.        *)
Same(set) == [w \in set |-> w]
VideoNormalize ==
  [w \in {"HEVC", "x265", "H.265", "x264", "AVC", "MPEG-4", "VC-1", "MPEG-2", "XviD",
         "DivX"} |->
     CASE w \in {"HEVC", "x265", "H.265"} -> "HEVC" [] w \in {"x264", "AVC"} -> "H264"
       [] w = "MPEG-4" -> "MPEG4" [] w = "VC-1" -> "VC-1" [] w = "MPEG-2" -> "MPEG2"
       [] w = "XviD" -> "XVID" [] w = "DivX" -> "DIVX"]
AudioNormalize ==
  [w \in {"DDP", "EAC3", "AC-3", "TrueHD", "DTS-HD MA", "DTS-HD", "DTS", "Atmos",
         "FLAC", "AAC", "LPCM", "PCM", "MP3", "Opus"} |->
     CASE w \in {"DDP", "EAC3"} -> "DDP" [] w = "AC-3" -> "AC3"
       [] w = "TrueHD" -> "TRUEHD" [] w = "DTS-HD MA" -> "DTS-HD MA"
       [] w = "DTS-HD" -> "DTS-HD" [] w = "DTS" -> "DTS" [] w = "Atmos" -> "ATMOS"
       [] w = "FLAC" -> "FLAC" [] w = "AAC" -> "AAC" [] w = "LPCM" -> "LPCM"
       [] w = "PCM" -> "PCM" [] w = "MP3" -> "MP3" [] w = "Opus" -> "OPUS"]
HDRNormalize ==
  [w \in {"DV", "DoVi", "HDR10+", "HDR10Plus", "HDR10", "HDR Vivid", "HDR"} |->
     CASE w \in {"DV", "DoVi"} -> "DV" [] w \in {"HDR10+", "HDR10Plus"} -> "HDR10+"
       [] w = "HDR10" -> "HDR10" [] w = "HDR Vivid" -> "HDRVIVID" [] w = "HDR" -> "HDR"]
BitsNormalize == Same({"10bit", "8bit"})
SourceNormalize ==
  [w \in {"WEB-DL", "WEBRip", "Blu-Ray", "HDTV", "DVDRip", "BDRip", "HDRip", "PDTV",
         "BDMV"} |->
     CASE w = "WEB-DL" -> "WEB-DL" [] w = "WEBRip" -> "WEBRip"
       [] w = "Blu-Ray" -> "BluRay" [] w = "HDTV" -> "HDTV" [] w = "DVDRip" -> "DVDRip"
       [] w = "BDRip" -> "BDRip" [] w = "HDRip" -> "HDRip" [] w = "PDTV" -> "PDTV"
       [] w = "BDMV" -> "BDMV"]
SourceMedium ==
  [w \in {"WEB-DL", "WEBRip", "HDRip", "BluRay", "BDRip", "HDTV", "PDTV", "DVDRip",
         "BDMV"} |->
     CASE w \in {"WEB-DL", "WEBRip", "HDRip"} -> "WEB"
       [] w \in {"BluRay", "BDRip"} -> "BLURAY" [] w \in {"HDTV", "PDTV"} -> "HDTV"
       [] w = "DVDRip" -> "DVD" [] w = "BDMV" -> "BDMV"]

(* componentRules, in their order; a rule blanks every word it matches.      *)
Matches ==
  [year |-> Same({"1963", "2023"}),
   resolution |-> Same({"2160p", "1440p", "1080p", "1080P", "720p", "576p", "480p", "4K", "UHD"}),
   hdr |-> HDRNormalize, video_codec |-> VideoNormalize, audio_codec |-> AudioNormalize,
   channels |-> Same({"2.0", "5.1", "7.1", "6.1", "4.0", "1.0", "5.1.4", "7.1.4", "2Audio"}),
   bits |-> BitsNormalize, source |-> SourceNormalize,
   medium |-> Same({"REMUX", "WEB"}), complete |-> Same({"Complete"}),
   noise |-> Same({"REPACK", "PROPER", "DSNP", "INTERNAL"})]

ComponentRules == <<"year", "resolution", "hdr", "video_codec", "audio_codec", "channels",
                    "bits", "source", "medium", "complete", "noise">>

\* The tables of StandardKeys; a value without an entry gives no key.
ResolutionKeys ==
  [w \in {"2160p", "4K", "UHD", "1440p", "1080p", "720p", "576p", "480p"} |->
     CASE w \in {"2160p", "4K", "UHD"} -> "2160" [] w = "1440p" -> "1440"
       [] w = "1080p" -> "1080" [] w = "720p" -> "720" [] w = "576p" -> "576"
       [] w = "480p" -> "480"]
SourceKeys ==
  [w \in {"WEB-DL", "WEBRip", "BluRay", "HDTV", "DVDRip", "BDRip", "HDRip", "PDTV",
         "BDMV"} |->
     CASE w = "WEB-DL" -> "WEB-DL" [] w = "WEBRip" -> "WEBRIP"
       [] w = "BluRay" -> "BLURAY" [] w = "HDTV" -> "HDTV" [] w = "DVDRip" -> "DVDRIP"
       [] w = "BDRip" -> "BDRIP" [] w = "HDRip" -> "HDRIP" [] w = "PDTV" -> "PDTV"
       [] w = "BDMV" -> "BDMV"]

-----------------------------------------------------------------------------
(* sePatterns: what each pattern, in its order, reads from a word and what   *)
(* it leaves of it.                                                          *)
Part(s, s2, e, e2, rest) == [s |-> s, s2 |-> s2, e |-> e, e2 |-> e2, rest |-> rest]
Read(s, s2, e, e2) == Part(s, s2, e, e2, "")
SePatterns ==
  << [w \in {"S01E07", "S01E07-S01E08", "S01E07-E08"} |->
       CASE w = "S01E07" -> Read(1, 0, 7, 0) [] w = "S01E07-S01E08" -> Read(1, 1, 7, 8)
         [] w = "S01E07-E08" -> Part(1, 0, 7, 0, "-E08")],
     [w \in {"S01E07", "S01E07-E08"} |->
       CASE w = "S01E07" -> Read(1, 0, 7, 0) [] w = "S01E07-E08" -> Read(1, 0, 7, 8)],
     [w \in {"S01-S02"} |-> Read(1, 2, 0, 0)],
     [w \in {"Season 1-2"} |-> Read(1, 2, 0, 0)],
     [w \in {"S01", "S01-S02"} |-> Read(1, 0, 0, 0)],
     [w \in {"Season 1", "Season 1-2"} |->
       CASE w = "Season 1" -> Read(1, 0, 0, 0) [] w = "Season 1-2" -> Part(1, 0, 0, 0, "-2")],
     [w \in {"Episode 7"} |-> Read(0, 0, 7, 0)],
     [w \in {"EP07", "E08", "-E08"} |->
       CASE w = "EP07" -> Read(0, 0, 7, 0) [] w \in {"E08", "-E08"} -> Read(0, 0, 8, 0)],
     [w \in {"di7ji"} |-> Read(0, 0, 7, 0)],      \* 第7集
     [w \in {"di1ji"} |-> Read(1, 0, 0, 0)] >>    \* 第1季

\* Fault for mutation: the general pattern of a season comes before its range.
PatternOrderGeneral == <<1, 2, 5, 4, 3, 6, 7, 8, 9, 10>>

PatternOrder == <<1, 2, 3, 4, 5, 6, 7, 8, 9, 10>>

Nothing == [title |-> <<>>, group |-> <<>>, season |-> <<>>, episode |-> <<>>,
            channels |-> <<>>, complete |-> FALSE, year |-> "", resolution |-> "",
            hdr |-> "", video_codec |-> "", audio_codec |-> "", bits |-> "",
            source |-> "", medium |-> ""]

\* A range replaces what was read before, a single number does not.
ApplySeMatch(c, m) ==
  [c EXCEPT !.season = IF m.s = 0 THEN @ ELSE IF m.s2 \notin {0, m.s} THEN <<m.s, m.s2>>
                       ELSE IF @ = <<>> THEN <<m.s>> ELSE @,
            !.episode = IF m.e = 0 THEN @ ELSE IF m.e2 # 0 THEN <<m.e, m.e2>>
                        ELSE IF @ = <<>> THEN <<m.e>> ELSE @]

(* extractSeasonEpisode: pattern after pattern over what the ones before     *)
(* left; st holds the words left and the components read.                    *)
ReadPattern(st, n) ==
  LET p == SePatterns[n]
      Word(w) == IF w \in DOMAIN p THEN p[w].rest ELSE w
      Reading(c, w) == IF w \in DOMAIN p THEN ApplySeMatch(c, p[w]) ELSE c
  IN [words |-> [k \in DOMAIN st.words |-> Word(st.words[k])],
      c |-> FoldLeft(Reading, st.c, st.words)]
ExtractSeasonEpisode(st) == FoldLeft(ReadPattern, st, PatternOrder)

(* The apply functions: the first match counts, and only while the component *)
(* is unset; all channels are kept once; REMUX and WEB override the medium   *)
(* that came with the source.                                                *)
Apply(c, kind, found) ==
  LET value == Matches[kind][found[1]]
  IN CASE kind = "noise" -> c
       [] kind = "complete" -> [c EXCEPT !.complete = TRUE]
       [] kind = "channels" -> [c EXCEPT !.channels =
              EntriesAt(found, {k \in DOMAIN found : \A j \in 1 .. k - 1 : found[j] # found[k]})]
       [] kind = "medium" -> [c EXCEPT !.medium = value]
       [] kind = "source" -> [c EXCEPT !.source = value,
                                       !.medium = IF @ = "" THEN SourceMedium[value] ELSE @]
       [] OTHER -> [c EXCEPT ![kind] = IF @ = "" THEN value ELSE @]

\* findComplete wants white space, and a word not yet blanked, before it.
Hits(st, kind) ==
  {k \in DOMAIN st.words :
     /\ st.words[k] \in DOMAIN Matches[kind]
     /\ kind = "complete" => sep = " " /\ \E j \in 1 .. k - 1 : st.words[j] # ""}

ApplyRule(st, kind) ==
  LET hits == Hits(st, kind)
      found == EntriesAt(st.words, hits)
  IN IF hits = {} THEN st
     ELSE [words |-> [k \in DOMAIN st.words |-> IF k \in hits THEN "" ELSE st.words[k]],
           c |-> Apply(st.c, kind, found)]

-----------------------------------------------------------------------------
(* isTechnicalToken, of one of several words a segment may have, and of a    *)
(* whole segment.                                                            *)
Technical(w) ==
  \E kind \in {"video_codec", "audio_codec", "channels", "source", "resolution",
               "bits", "hdr", "noise"} : w \in DOMAIN Matches[kind]
TechnicalSegment(w) ==
  \/ Technical(w)
  \/ w \in {"Complete", "WEB", "REMUX", "S01", "S02", "S01E07", "S01E08"}
NonGroupSuffixes == {"Final", "Complete", "REPACK", "PROPER", "INTERNAL"}

(* The words in Chinese, those with a blank inside, and those with a "-"     *)
(* inside, cut at it.  What starts with no letter or has a blank inside is   *)
(* no name of a group (groupTokenShapeRe).                                   *)
Chinese == {"cn", "di7ji", "di1ji"}
Spaced == {"DTS-HD MA", "HDR Vivid", "Season 1", "Season 1-2", "Episode 7"}
Halves ==
  [w \in {"WEB-DL", "Blu-Ray", "DTS-HD", "DTS-HD MA", "S01E07-E08", "S01E07-S01E08",
          "S01-S02", "Season 1-2", "AC-3", "VC-1", "MPEG-4", "MPEG-2"} |->
     CASE w = "WEB-DL" -> <<"WEB", "DL">> [] w = "Blu-Ray" -> <<"Blu", "Ray">>
       [] w = "DTS-HD" -> <<"DTS", "HD">> [] w = "DTS-HD MA" -> <<"DTS", "HD MA">>
       [] w = "S01E07-E08" -> <<"S01E07", "E08">>
       [] w = "S01E07-S01E08" -> <<"S01E07", "S01E08">>
       [] w = "S01-S02" -> <<"S01", "S02">> [] w = "Season 1-2" -> <<"Season 1", "2">>
       [] w = "AC-3" -> <<"AC", "3">> [] w = "VC-1" -> <<"VC", "1">>
       [] w = "MPEG-4" -> <<"MPEG", "4">> [] w = "MPEG-2" -> <<"MPEG", "2">>]
Nameless == Chinese \cup Spaced \cup {"HD MA", "1963", "2023", "1", "2", "3", "4"}
KnownHyphenTokens == {"WEB-DL", "Blu-Ray", "DTS-HD"}

Suffix == IF tail = "" THEN <<>> ELSE <<tail>>
Hyphens == {k \in DOMAIN words : words[k] \in DOMAIN Halves}
LastHyphen == CHOOSE k \in Hyphens : \A j \in Hyphens : j <= k

(* extractGroup: what follows the last "-" of the title, if it may be a      *)
(* group's name.                                                             *)
ExtractGroup ==
  LET half == Halves[words[LastHyphen]]
      after == SubSeq(words, LastHyphen + 1, Len(words))
      whole == [words |-> words \o Suffix, group |-> <<>>]
  IN CASE tail # "" ->
            IF TechnicalSegment(tail) \/ tail \in NonGroupSuffixes \cup Nameless THEN whole
            ELSE [words |-> words, group |-> Suffix]
       [] tail = "" /\ Hyphens = {} -> whole
       [] OTHER ->
            IF \/ half[2] \in Nameless \/ TechnicalSegment(half[2])
               \/ after # <<>> /\ sep = " "
               \/ after = <<>> /\ words[LastHyphen] \in KnownHyphenTokens
               \/ \E w \in ToSet(after) : Technical(w) \/ w \in Chinese
            THEN whole
            ELSE [words |-> SubSeq(words, 1, LastHyphen - 1) \o <<half[1]>>,
                  group |-> <<half[2]>> \o after]

(* ParseTitle                                                                *)
ParseTitle ==
  LET g == ExtractGroup
      read == ExtractSeasonEpisode([words |-> g.words, c |-> [Nothing EXCEPT !.group = g.group]])
      left == FoldLeft(ApplyRule, read, ComponentRules)
      main == EntriesAt(left.words, {k \in DOMAIN left.words : left.words[k] # ""})
  IN IF words = <<>> THEN Nothing
     ELSE [left.c EXCEPT !.title = 
       IF main # <<>> THEN main ELSE words \o Suffix]

(* StandardKeys, the ones buildPublishParams uses; "" where there is none.   *)
StandardKeys(c) ==
  [category |-> IF c.season # <<>> \/ c.episode # <<>> THEN "tv" ELSE "movie",
   standard |-> IF c.resolution \in DOMAIN ResolutionKeys THEN ResolutionKeys[c.resolution] ELSE "",
   source |-> IF c.source \in DOMAIN SourceKeys THEN SourceKeys[c.source] ELSE "",
   codec |-> c.video_codec, audiocodec |-> c.audio_codec, medium |-> c.medium]

-----------------------------------------------------------------------------
CodecMap ==
  [w \in {"HEVC", "x265", "H.265", "x264", "AVC"} |->
     CASE w \in {"HEVC", "x265", "H.265"} -> "H.265" [] w \in {"x264", "AVC"} -> "H.264"]
MTeamWord(w) == IF w \in DOMAIN CodecMap THEN CodecMap[w] ELSE w
NoLetters == Chinese \cup {"1963", "2023", "2.0", "5.1"}
FromFirstLetter ==
  [w \in {"1080p", "2160p", "1080P", "4K", "10bit", "2Audio"} |->
     CASE w \in {"1080p", "2160p"} -> "p" [] w = "1080P" -> "P" [] w = "4K" -> "K"
       [] w = "10bit" -> "bit" [] w = "2Audio" -> "Audio"]

(* CleanMTteamTitle: what stands before the first ASCII letter is taken for  *)
(* the Chinese name, what follows the last "-" for the group, and the codecs *)
(* of the words between are respelled.                                       *)
CleanMTeamTitle ==
  LET lettered == {k \in DOMAIN words : words[k] \notin NoLetters}
      from == IF lettered = {} THEN 1 ELSE CHOOSE k \in lettered : \A j \in lettered : k <= j
      first == IF words[from] \in DOMAIN FromFirstLetter THEN FromFirstLetter[words[from]]
               ELSE words[from]
      cut == tail = "" /\ Hyphens # {} /\ (sep = "." \/ LastHyphen = Len(words))
      last == IF cut THEN LastHyphen - 1 ELSE Len(words)
      body == [k \in from .. last |-> IF k = from THEN first ELSE words[k]]
  IN [name |-> [k \in 1 .. last - from + 1 |-> MTeamWord(body[from + k - 1])]
                 \o (IF cut THEN <<Halves[words[LastHyphen]][1]>> ELSE <<>>),
      group |-> IF cut THEN <<Halves[words[LastHyphen]][2]>>
                              \o SubSeq(words, LastHyphen + 1, Len(words))
                ELSE Suffix,
      cn |-> SubSeq(words, 1, from - 1)]

(* buildPublishParams: the fields the title gives rise to.  The category the *)
(* title implies is never empty, so the source site's is never asked.        *)
PublishParams(mteam, category) ==
  LET c == ParseTitle
      keys == StandardKeys(c)
      m == CleanMTeamTitle
  IN [title |-> IF mteam THEN m.name \o m.group ELSE words \o Suffix,
      subtitle |-> IF mteam THEN m.cn ELSE <<>>,
      dimensions |-> keys, team |-> c.group,
      category |-> IF category # "" THEN category ELSE keys.category]

-----------------------------------------------------------------------------
(* A title is written word by word, its tail last, and published.  Where the *)
(* separator is a dot, no pattern with a space in it can match.              *)
Init == words = <<>> /\ tail = "" /\ sep \in {".", " "} /\ params = <<>>

Write(w) ==
  /\ tail = "" /\ params = <<>> /\ Len(words) < MaxWords
  /\ sep = "." => w \notin Spaced
  /\ words' = Append(words, w)
  /\ UNCHANGED <<tail, sep, params>>

WriteTail(w) ==
  /\ tail = "" /\ params = <<>> /\ words # <<>>
  /\ tail' = w /\ UNCHANGED <<words, sep, params>>

Publish(mteam, category) ==
  /\ params = <<>> /\ words # <<>>
  /\ params' = <<PublishParams(mteam, category)>>
  /\ UNCHANGED <<words, tail, sep>>

Next ==
  \/ \E w \in Spelled \cup Plain : Write(w)
  \/ \E w \in Tails : WriteTail(w)
  \/ \E mteam \in BOOLEAN, category \in {"", "401"} : Publish(mteam, category)
Spec == Init /\ [][Next]_vars

-----------------------------------------------------------------------------
(* Every variable keeps its type.                                            *)
TypeOK ==
  /\ words \in Seq(Plain \cup Spelled) /\ Len(words) <= MaxWords
  /\ tail \in Tails \cup {""} /\ sep \in {".", " "} /\ Len(params) <= 1

\* A word that some rule or pattern reads.
Known(w) ==
  \/ \E kind \in DOMAIN Matches : w \in DOMAIN Matches[kind]
  \/ \E n \in DOMAIN SePatterns : w \in DOMAIN SePatterns[n]

(* Of a title with a tail nothing known stays in the main title and nothing  *)
(* else leaves it, a component is there exactly when a word for it is, and   *)
(* no component is taken for the group, in whatever order the words stand        *)
(* (ParseTitle, extractGroup).                                               *)
WordsRead ==
  LET c == ParseTitle
      all == words \o (IF c.group = <<>> THEN Suffix ELSE <<>>)
      main == EntriesAt(all, {k \in DOMAIN all : ~Known(all[k])})
  IN tail # "" /\ {"S01E07-E08", "Complete"} \cap ToSet(all) = {} =>
       /\ c.title = IF main # <<>> THEN main ELSE words \o Suffix
       /\ c.group # <<>> => \A kind \in DOMAIN Matches : tail \notin DOMAIN Matches[kind]
       /\ \A kind \in {"year", "resolution", "hdr", "video_codec", "audio_codec", "source"} :
            (c[kind] # "") = (ToSet(all) \cap DOMAIN Matches[kind] # {})

\* What the ways to write a season or an episode mean.
Meaning ==
  [w \in {"S01E07", "S01E07-S01E08", "S01E07-E08", "S01-S02", "Season 1-2", "S01", "Season 1",
          "di1ji", "EP07", "Episode 7", "di7ji", "E08", "-E08"} |->
     CASE w = "S01E07" -> <<<<1>>, <<7>>>>
       [] w \in {"S01E07-S01E08", "S01E07-E08"} -> <<<<1>>, <<7, 8>>>>
       [] w \in {"S01-S02", "Season 1-2"} -> <<<<1, 2>>, <<>>>>
       [] w \in {"S01", "Season 1", "di1ji"} -> <<<<1>>, <<>>>>
       [] w \in {"EP07", "Episode 7", "di7ji"} -> <<<<>>, <<7>>>>
       [] w \in {"E08", "-E08"} -> <<<<>>, <<8>>>>]

(* A single season, episode or range is read as what it means, whatever      *)
(* stands around it (sePatterns, applySeMatch).  Left out is "S01E07-E08":   *)
(* its pattern comes second, after one that has already eaten "S01E07".      *)
SeasonsRead ==
  LET all == words \o Suffix
      told == {k \in DOMAIN all : all[k] \in DOMAIN Meaning}
      c == ParseTitle
  IN \A k \in told :
       told = {k} /\ k \in DOMAIN words /\ tail # "" /\ all[k] # "S01E07-E08" =>
         <<c.season, c.episode>> = Meaning[all[k]]

(* What the title says is read from it: components, seasons and episodes.    *)
TitleRead == WordsRead /\ SeasonsRead
=============================================================================
