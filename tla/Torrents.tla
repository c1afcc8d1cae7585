------------------------------ MODULE Torrents ------------------------------
(* A .torrent file from its bytes to the two files made of it for each       *)
(* target site: the cleaned one that is published and the reannounced one    *)
(* that joins an existing swarm (bencode/bencode.go, parser/parser.go, the   *)
(* cross-seed in pipeline/target.go).  The bytes are a sequence of tokens:   *)
(* the markers "l", "d" and "e", a string "s", an integer "i", and an        *)
(* integer "i0" that is not written in its shortest form.  A SHA-1 is the    *)
(* tokens it is taken of.                                                    *)
EXTENDS Integers, Sequences, FiniteSets

CONSTANTS
  Targets, None,
  MaxDepth,   \* maxDepth
  Alphabet,   \* the tokens of the small files
  MaxTokens,  \* bound of the length of a small file
  Offered     \* the torrents that arrive whole

VARIABLES
  data,     \* the bytes downloaded so far
  torrent,  \* ParsedTorrent.RawDict, None before and Rejected when there is none
  cleaned,  \* the published torrents
  joined    \* the bytes added to qB for a cross-seed, or why there are none

vars == <<data, torrent, cleaned, joined>>

Scalar(kind, v) == [kind |-> kind, v |-> v]
List(q) == [kind |-> "list", items |-> q]
Dict(f) == [kind |-> "dict", map |-> f]
Token(t, v) == [t |-> t, v |-> v]
Close == Token("e", "")

\* The order of sort.Strings on the keys that occur.
KeyOrder == <<"a", "announce", "announce-list", "b", "comment", "creation date",
              "files tree", "info", "meta version", "name", "piece layers", "private",
              "source">>
Place(k) == CHOOSE n \in DOMAIN KeyOrder : KeyOrder[n] = k

-----------------------------------------------------------------------------
(* parse: a value and the index after it, or the error at which it stops.    *)
Got(v, i) == [error |-> "", value |-> v, next |-> i]
Fail(e) == [error |-> e, value |-> None, next |-> 0]
Put(f, k, v) == [x \in DOMAIN f \cup {k} |-> IF x = k THEN v ELSE f[x]]

\* What the rest of a list or a dict becomes with one more item before it; of
\* a repeated key the later value counts.
Before(v, rest) ==
  IF rest.error # "" THEN rest ELSE [rest EXCEPT !.value = List(<<v>> \o @.items)]
Under(k, v, rest) ==
  IF rest.error # "" THEN rest
  ELSE [rest EXCEPT !.value = Dict(IF k \in DOMAIN @.map THEN @.map ELSE Put(@.map, k, v))]

(* What stands at index i of d, at a depth of nested markers: a value, or    *)
(* the rest of a list's items or of a dict's entries up to the "e".          *)
Parse(d, first, depth) ==
  LET P[what \in {"value", "items", "entries"}, i \in Nat, n \in Nat] ==
        IF what = "value" /\ n > MaxDepth THEN Fail("deep")
        ELSE IF i > Len(d) THEN Fail("end")
        ELSE CASE what = "value" /\ d[i].t \in {"i", "i0"} -> Got(Scalar("int", d[i].v), i + 1)
               [] what = "value" /\ d[i].t = "s" -> Got(Scalar("str", d[i].v), i + 1)
               [] what = "value" /\ d[i].t = "l" -> P["items", i + 1, n]
               [] what = "value" /\ d[i].t = "d" -> P["entries", i + 1, n]
               [] what = "value" /\ d[i].t = "e" -> Fail("marker")
               [] what = "items" /\ d[i] = Close -> Got(List(<<>>), i + 1)
               [] what = "entries" /\ d[i] = Close -> Got(Dict(<<>>), i + 1)
               [] what = "items" /\ d[i] # Close ->
                    LET item == P["value", i, n + 1]
                    IN IF item.error # "" THEN item
                       ELSE Before(item.value, P["items", item.next, n])
               [] what = "entries" /\ d[i] # Close ->
                    LET key == P["value", i, n + 1]
                        val == P["value", key.next, n + 1]
                    IN IF key.error # "" THEN key
                       ELSE IF key.value.kind # "str" THEN Fail("key")
                       ELSE IF val.error # "" THEN val
                       ELSE Under(key.value.v, val.value, P["entries", val.next, n])
  IN P["value", first, depth]

Decode(d) ==
  LET r == Parse(d, 1, 0)
  IN IF r.error = "" /\ r.next # Len(d) + 1 THEN Fail("trailing") ELSE r

Concat(n, part(_)) ==
  LET f[k \in 0 .. n] == IF k = 0 THEN <<>> ELSE f[k - 1] \o part(k) IN f[n]

Sorted(keys) ==
  CHOOSE q \in [1 .. Cardinality(keys) -> keys] :
    \A m, n \in DOMAIN q : m < n => Place(q[m]) < Place(q[n])

\* The value reached from a value by choosing an item or an entry, again and
\* again.
Child(value, n) ==
  IF value.kind = "list" THEN value.items[n] ELSE value.map[Sorted(DOMAIN value.map)[n]]
At(value, path) ==
  LET f[n \in 0 .. Len(path)] == IF n = 0 THEN value ELSE Child(f[n - 1], path[n])
  IN f[Len(path)]

(* Encode: keys in byte order, integers in their shortest form.              *)
Encode(value) ==
  LET E[path \in Seq(Nat)] ==
        LET v == At(value, path)
            Item(n) == E[Append(path, n)]
            Entry(n) == <<Token("s", Sorted(DOMAIN v.map)[n])>> \o E[Append(path, n)]
        IN CASE v.kind = "int" -> <<Token("i", v.v)>>
             [] v.kind = "str" -> <<Token("s", v.v)>>
             [] v.kind = "list" ->
                  <<Token("l", "")>> \o Concat(Len(v.items), Item) \o <<Close>>
             [] v.kind = "dict" ->
                  <<Token("d", "")>> \o Concat(Cardinality(DOMAIN v.map), Entry) \o <<Close>>
  IN E[<<>>]

InfoHash(t) == Encode(t.map["info"])

-----------------------------------------------------------------------------
Rejected == Scalar("rejected", "")

(* BitTorrent v2: meta version 2, piece layers, or a files tree in info.     *)
VersionTwo(t, info) ==
  \/ "meta version" \in DOMAIN info /\ info["meta version"] = Scalar("int", "2")
  \/ "piece layers" \in DOMAIN t \/ "files tree" \in DOMAIN info

(* ParseTorrent: a dict with an info dict, and not of BitTorrent v2.         *)
ParseTorrent ==
  /\ torrent = None
  /\ LET r == Decode(data)
         sound == /\ r.error = "" /\ r.value.kind = "dict"
                  /\ "info" \in DOMAIN r.value.map
                  /\ r.value.map["info"].kind = "dict"
                  /\ ~VersionTwo(r.value.map, r.value.map["info"].map)
     IN torrent' = IF sound THEN r.value ELSE Rejected
  /\ UNCHANGED <<data, cleaned, joined>>

Parsed == torrent # None /\ torrent # Rejected

\* What names other trackers or the source site is dropped.
Dropped == {"announce-list", "nodes", "url-list", "httpseeds", "comment"}
Announced(t, target) ==
  Dict(Put([k \in DOMAIN t.map \ Dropped |-> t.map[k]], "announce", Scalar("str", target)))

CleanedFor(target) ==
  LET t == Announced(torrent, target)
      info == Put(Put(t.map["info"].map, "private", Scalar("int", "1")),
                  "source", Scalar("str", target))
  IN Dict(Put(Put(t.map, "info", Dict(info)), "creation date", Scalar("int", "later")))

\* Fault for mutation: without the deep copy, the shared info dict is changed.
CleanSharing(target) ==
  /\ Parsed /\ cleaned[target] = None
  /\ cleaned' = [cleaned EXCEPT ![target] = CleanedFor(target)]
  /\ torrent' = Dict(Put(torrent.map, "info", CleanedFor(target).map["info"]))
  /\ UNCHANGED <<data, joined>>

(* CleanTorrentForTarget, for one target of the relay.                       *)
Clean(target) ==
  /\ Parsed /\ cleaned[target] = None
  /\ cleaned' = [cleaned EXCEPT ![target] = CleanedFor(target)]
  /\ UNCHANGED <<data, torrent, joined>>

\* The bytes of the info value as they stand in the file.
RawInfo(d) ==
  LET at == CHOOSE n \in DOMAIN d : d[n] = Token("s", "info")
  IN SubSeq(d, at + 1, Parse(d, at + 1, 1).next - 1)

(* ReannounceTorrent and crossSeed's check of its hash against the seed's,   *)
(* which the source site took of the file.                                   *)
Join(target) ==
  /\ Parsed /\ cleaned[target] # None /\ joined[target] = None
  /\ LET re == Announced(torrent, target)
     IN joined' = [joined EXCEPT ![target] =
          IF InfoHash(re) = RawInfo(data) THEN List(Encode(re)) ELSE Rejected]
  /\ UNCHANGED <<data, torrent, cleaned>>

(* A small file arrives token by token; parse fails at the end of a prefix.  *)
Receive ==
  /\ torrent = None /\ data \notin Offered /\ Len(data) < MaxTokens
  /\ Decode(data).error = "end"
  /\ \E token \in Alphabet : data' = Append(data, token)
  /\ UNCHANGED <<torrent, cleaned, joined>>

Init ==
  /\ data \in Offered \cup {<<>>}
  /\ torrent = None
  /\ cleaned = [t \in Targets |-> None] /\ joined = [t \in Targets |-> None]

Next ==
  \/ Receive \/ ParseTorrent
  \/ \E target \in Targets : Clean(target) \/ Join(target)
Spec == Init /\ [][Next]_vars

-----------------------------------------------------------------------------
(* Every variable keeps its type.                                            *)
TypeOK ==
  /\ torrent \in {None, Rejected} \/ torrent.kind = "dict"
  /\ DOMAIN cleaned = Targets /\ DOMAIN joined = Targets
  /\ \A t \in Targets : joined[t] = None \/ joined[t].kind \in {"list", "rejected"}

\* The keys of the dict whose first entry stands at i.
DirectKeys(d, first) ==
  LET K[i \in Nat] ==
        IF d[i] = Close THEN <<>>
        ELSE <<Place(d[i].v)>> \o K[Parse(d, i + 1, 0).next]
  IN K[first]

\* One way to write each value: keys in strictly ascending order, no "i0".
Canonical(d) ==
  \A n \in DOMAIN d :
    /\ d[n].t # "i0"
    /\ d[n].t = "d" => LET q == DirectKeys(d, n + 1)
                       IN \A k, m \in DOMAIN q : k < m => q[k] < q[m]

(* A decoded value survives its encoding, and a file is its own encoding     *)
(* exactly when it is canonical: no two canonical files share their hash,    *)
(* and no canonical file's hash differs from the one its site took of it     *)
(* (bencode.go: Decode, Encode, InfoHash).                                   *)
RoundTrip ==
  LET r == Decode(data)
      bytes == Encode(r.value)
  IN r.error = "" => /\ Decode(bytes) = Got(r.value, Len(bytes) + 1)
                     /\ (bytes = data) = Canonical(data)

(* What a cross-seed adds has byte for byte the info dict of the source's    *)
(* file, so it joins its swarm; and it is refused only for a file whose info *)
(* dict is not canonical, whichever targets had their copy cleaned before    *)
(* (ReannounceTorrent, CleanTorrentForTarget, crossSeed).                    *)
SwarmKept ==
  \A t \in Targets :
    /\ joined[t] = Rejected => ~Canonical(RawInfo(data))
    /\ joined[t] \notin {None, Rejected} => RawInfo(joined[t].items) = RawInfo(data)

(* Neither decoding and encoding nor republishing changes the info dict.     *)
TorrentsKept == RoundTrip /\ SwarmKept
=============================================================================
