-------------------------- MODULE Pipeline_proofs --------------------------
(* Theorems about what one relay goes through, from the feed to the target   *)
(* site: the pull through qB, the direct download, the feed and the          *)
(* promotion filter, and the publication.                                    *)
EXTENDS MCPipeline, FiniteSetTheorems, TLAPS

-----------------------------------------------------------------------------
(* The pull through qB.                                                      *)

(* A torrent that is exported or deleted is known, and so is a file that is  *)
(* compared: the types alone would allow None.                               *)
Chosen ==
  \A p \in Pulls :
    /\ pull[p].at \in {"export", "clean", "discard"} => pull[p].hash \in Hashes
    /\ pull[p].at \in {"snapshot", "register", "add"} => pull[p].seed \in Hashes
PullInv == TypeOK /\ Chosen /\ VerifiedOnly

(* A step of one download that leaves the others alone keeps the invariant   *)
(* if the download's new record does.                                        *)
LEMMA PullKept ==
  ASSUME PullInv, NEW p \in Pulls, NEW r \in PullRecord,
         pull' = [pull EXCEPT ![p] = r],
         r.at \in {"export", "clean", "discard"} => r.hash \in Hashes,
         r.at \in {"snapshot", "register", "add"} => r.seed \in Hashes,
         r.at = "done" => r.file = r.seed
  PROVE  pull' \in [Pulls -> PullRecord] /\ Chosen' /\ VerifiedOnly'
<1>1. pull \in [Pulls -> PullRecord]
  BY DEF PullInv, TypeOK
<1>2. \A q \in Pulls : pull'[q] = IF q = p THEN r ELSE pull[q]
  BY <1>1
<1>3. Chosen'
  BY <1>2 DEF Chosen, PullInv
<1>4. VerifiedOnly'
  BY <1>2 DEF VerifiedOnly, PullInv
<1> QED BY <1>1, <1>3, <1>4

LEMMA PullInit == Init => PullInv
  BY DEF Init, PullInv, TypeOK, Chosen, VerifiedOnly, NoPull, PullRecord, Places, Resting

(* What qB may name as added is the torrent it was asked for.                *)
LEMMA AddedKnown ==
  ASSUME NEW h \in Hashes, NEW a \in AddAnswers(h)
  PROVE  AddedIDs(a) \subseteq Hashes
<1>1. \/ a = [status |-> 200, text |-> "Ok.", ids |-> {}]
      \/ a = [status |-> 200, text |-> "Fails.", ids |-> {}]
      \/ a = [status |-> 415, text |-> "", ids |-> {}]
      \/ a = [status |-> 200, text |-> "json", ids |-> {h}]
  BY Zenon DEF AddAnswers
<1>2. ASSUME a = [status |-> 200, text |-> "Ok.", ids |-> {}] PROVE a.ids \subseteq Hashes
  BY <1>2
<1>3. ASSUME a = [status |-> 200, text |-> "Fails.", ids |-> {}] PROVE a.ids \subseteq Hashes
  BY <1>3
<1>4. ASSUME a = [status |-> 415, text |-> "", ids |-> {}] PROVE a.ids \subseteq Hashes
  BY <1>4
<1>5. ASSUME a = [status |-> 200, text |-> "json", ids |-> {h}] PROVE a.ids \subseteq Hashes
  BY <1>5
<1> QED BY <1>1, <1>2, <1>3, <1>4, <1>5, Zenon DEF AddedIDs

LEMMA PullStep == ASSUME PullInv, NEW p \in Pulls, PullNext(p) PROVE PullInv'
<1> DEFINE r == pull[p]
<1>0. /\ pull \in [Pulls -> PullRecord] /\ category \in [Hashes -> Categories]
      /\ fetching \subseteq Hashes /\ registry \subseteq Hashes
      /\ r \in PullRecord
  BY DEF PullInv, TypeOK
<1>r. /\ r = [at |-> r.at, seed |-> r.seed, before |-> r.before, hash |-> r.hash, file |-> r.file]
      /\ r.at \in Places /\ r.seed \in Hashes \cup {None} /\ r.before \subseteq Hashes
      /\ r.hash \in Hashes \cup {None} /\ r.file \in Hashes \cup {None}
  BY <1>0 DEF PullRecord
<1>g. ASSUME NEW place \in Places, Goto(p, place),
             place \in {"export", "clean", "discard"} => r.hash \in Hashes,
             place \in {"snapshot", "register", "add"} => r.seed \in Hashes,
             place = "done" => r.file = r.seed
      PROVE  pull' \in [Pulls -> PullRecord] /\ Chosen' /\ VerifiedOnly'
  <2>1. [r EXCEPT !.at = place] \in PullRecord
    BY <1>r DEF PullRecord
  <2>2. pull' = [pull EXCEPT ![p] = [r EXCEPT !.at = place]]
    BY <1>g DEF Goto
  <2> HIDE DEF r
  <2>3. /\ [r EXCEPT !.at = place].at = place /\ [r EXCEPT !.at = place].hash = r.hash
        /\ [r EXCEPT !.at = place].seed = r.seed /\ [r EXCEPT !.at = place].file = r.file
    BY <1>r
  <2> QED BY <2>1, <2>2, <2>3, <1>g, PullKept
<1>k. Chosen /\ VerifiedOnly
  BY DEF PullInv
<1>1. ASSUME NEW h \in Hashes, Begin(p, h) PROVE PullInv'
  <2>1. PICK way \in {"snapshot", "direct"} :
          pull' = [pull EXCEPT ![p] = [NoPull EXCEPT !.at = way, !.seed = h]]
    BY <1>1 DEF Begin
  <2>2. [NoPull EXCEPT !.at = way, !.seed = h] \in PullRecord
    BY DEF NoPull, PullRecord, Places
  <2>3. pull' \in [Pulls -> PullRecord] /\ Chosen' /\ VerifiedOnly'
    BY <2>1, <2>2, PullKept DEF NoPull
  <2> QED BY <1>0, <1>1, <2>3 DEF Begin, PullInv, TypeOK
<1>2. ASSUME Snapshot(p) PROVE PullInv'
  <2>1. PICK there \in {Pending, {}} :
          pull' = [pull EXCEPT ![p] = [r EXCEPT !.before = there, !.at = "register"]]
    BY <1>2, <1>0 DEF Snapshot
  <2>2. there \subseteq Hashes
    BY DEF Pending
  <2>3. [r EXCEPT !.before = there, !.at = "register"] \in PullRecord
    BY <1>r, <2>2 DEF PullRecord, Places
  <2>4. r.seed \in Hashes
    BY <1>2, <1>k DEF Snapshot, Chosen
  <2>5. pull' \in [Pulls -> PullRecord] /\ Chosen' /\ VerifiedOnly'
    BY <1>r, <2>1, <2>3, <2>4, PullKept
  <2> QED BY <1>0, <1>2, <2>5 DEF Snapshot, PullInv, TypeOK
<1>3. ASSUME Register(p) PROVE PullInv'
  <2>1. Goto(p, "add") /\ r.seed \in Hashes
    BY <1>3, <1>k DEF Register, Chosen
  <2>2. pull' \in [Pulls -> PullRecord] /\ Chosen' /\ VerifiedOnly'
    BY <1>g, <2>1 DEF Places
  <2> QED BY <1>0, <1>r, <1>3, <2>2 DEF Register, PullInv, TypeOK
<1>4. ASSUME Add(p) PROVE PullInv'
  <2>0. r.seed \in Hashes
    BY <1>4, <1>k DEF Add, Chosen
  <2>1. ASSUME Goto(p, "direct") \/ Goto(p, "poll")
        PROVE  pull' \in [Pulls -> PullRecord] /\ Chosen' /\ VerifiedOnly'
    BY <1>g, <2>1 DEF Places
  <2>2. ASSUME NEW h \in Hashes, pull' = [pull EXCEPT ![p].hash = h, ![p].at = "export"]
        PROVE  pull' \in [Pulls -> PullRecord] /\ Chosen' /\ VerifiedOnly'
    <3>1. pull' = [pull EXCEPT ![p] = [r EXCEPT !.hash = h, !.at = "export"]]
      BY <2>2, <1>0
    <3>2. [r EXCEPT !.hash = h, !.at = "export"] \in PullRecord
      BY <1>r DEF PullRecord, Places
    <3> QED BY <1>r, <3>1, <3>2, PullKept
  <2>3. ASSUME NEW a \in AddAnswers(r.seed) PROVE AddedIDs(a) \subseteq Hashes
    BY <2>0, AddedKnown
  <2>4. CASE /\ Goto(p, "direct") \/ Goto(p, "poll")
             /\ fetching' \subseteq Hashes
             /\ UNCHANGED <<category, registry>>
    BY <1>0, <2>1, <2>4 DEF PullInv, TypeOK
  <2>5. CASE \E h \in Hashes : /\ category' = [category EXCEPT ![h] = "pending"]
                               /\ pull' = [pull EXCEPT ![p].hash = h, ![p].at = "export"]
                               /\ UNCHANGED <<fetching, registry>>
    <3>1. PICK h \in Hashes : /\ category' = [category EXCEPT ![h] = "pending"]
                              /\ pull' = [pull EXCEPT ![p].hash = h, ![p].at = "export"]
                              /\ UNCHANGED <<fetching, registry>>
      BY <2>5
    <3>2. category' \in [Hashes -> Categories]
      BY <1>0, <3>1 DEF Categories
    <3> QED BY <1>0, <2>2, <3>1, <3>2 DEF PullInv, TypeOK
  <2>6. fetching \cup {r.seed} \subseteq Hashes
    BY <1>0, <2>0
  <2> QED BY <1>0, <1>4, <2>3, <2>4, <2>5, <2>6 DEF Add
<1>5. ASSUME Poll(p) PROVE PullInv'
  <2>1. PICK h \in Candidates(p) : pull' = [pull EXCEPT ![p].hash = h, ![p].at = "export"]
    BY <1>5 DEF Poll
  <2>2. h \in Hashes
    BY DEF Candidates, Pending
  <2>3. pull' = [pull EXCEPT ![p] = [r EXCEPT !.hash = h, !.at = "export"]]
    BY <2>1, <1>0
  <2>4. [r EXCEPT !.hash = h, !.at = "export"] \in PullRecord
    BY <1>r, <2>2 DEF PullRecord, Places
  <2>5. pull' \in [Pulls -> PullRecord] /\ Chosen' /\ VerifiedOnly'
    BY <1>r, <2>2, <2>3, <2>4, PullKept
  <2> QED BY <1>0, <1>5, <2>5 DEF Poll, PullInv, TypeOK
<1>6. ASSUME PollTimeout(p) PROVE PullInv'
  <2>1. pull' \in [Pulls -> PullRecord] /\ Chosen' /\ VerifiedOnly'
    BY <1>g, <1>6 DEF PollTimeout, Places
  <2> QED BY <1>0, <1>6, <2>1 DEF PollTimeout, PullInv, TypeOK
<1>7. ASSUME Export(p) PROVE PullInv'
  <2>0. r.hash \in Hashes
    BY <1>7, <1>k DEF Export, Chosen
  <2>1. CASE Goto(p, "direct")
    BY <1>g, <2>1, <1>0, <1>7 DEF Export, Places, PullInv, TypeOK
  <2>2. CASE pull' = [pull EXCEPT ![p].file = pull[p].hash, ![p].at = "clean"]
    <3>1. pull' = [pull EXCEPT ![p] = [r EXCEPT !.file = r.hash, !.at = "clean"]]
      BY <2>2, <1>0
    <3>2. [r EXCEPT !.file = r.hash, !.at = "clean"] \in PullRecord
      BY <1>r DEF PullRecord, Places
    <3>3. pull' \in [Pulls -> PullRecord] /\ Chosen' /\ VerifiedOnly'
      BY <1>r, <2>0, <3>1, <3>2, PullKept
    <3> QED BY <1>0, <1>7, <3>3 DEF Export, PullInv, TypeOK
  <2> QED BY <1>7, <2>1, <2>2 DEF Export
<1>8. ASSUME ExportTimeout(p) PROVE PullInv'
  <2>1. r.hash \in Hashes
    BY <1>8, <1>k DEF ExportTimeout, Chosen
  <2>2. pull' \in [Pulls -> PullRecord] /\ Chosen' /\ VerifiedOnly'
    BY <1>g, <1>8, <2>1 DEF ExportTimeout, Places
  <2> QED BY <1>0, <1>8, <2>2 DEF ExportTimeout, PullInv, TypeOK
<1>9. ASSUME Delete(p) PROVE PullInv'
  <2>1. category' \in [Hashes -> Categories]
    BY <1>0, <1>9 DEF Delete, Categories
  <2>2. pull' \in [Pulls -> PullRecord] /\ Chosen' /\ VerifiedOnly'
    BY <1>g, <1>9 DEF Delete, Places
  <2> QED BY <1>0, <1>9, <2>1, <2>2 DEF Delete, PullInv, TypeOK
<1>10. ASSUME Direct(p) PROVE PullInv'
  <2>1. CASE Goto(p, "failed")
    BY <1>g, <2>1, <1>0, <1>10 DEF Direct, Places, Resting, PullInv, TypeOK
  <2>2. CASE \E h \in Hashes : pull' = [pull EXCEPT ![p].file = h, ![p].at = "verify"]
    <3>1. PICK h \in Hashes : pull' = [pull EXCEPT ![p] = [r EXCEPT !.file = h, !.at = "verify"]]
      BY <2>2, <1>0
    <3>2. [r EXCEPT !.file = h, !.at = "verify"] \in PullRecord
      BY <1>r DEF PullRecord, Places
    <3>3. pull' \in [Pulls -> PullRecord] /\ Chosen' /\ VerifiedOnly'
      BY <1>r, <3>1, <3>2, PullKept
    <3> QED BY <1>0, <1>10, <3>3 DEF Direct, PullInv, TypeOK
  <2> QED BY <1>10, <2>1, <2>2 DEF Direct
<1>11. ASSUME Verify(p) PROVE PullInv'
  <2>1. pull' \in [Pulls -> PullRecord] /\ Chosen' /\ VerifiedOnly'
    BY <1>g, <1>11 DEF Verify, Places, Resting
  <2> QED BY <1>0, <1>11, <2>1 DEF Verify, PullInv, TypeOK
<1> QED BY <1>1, <1>2, <1>3, <1>4, <1>5, <1>6, <1>7, <1>8, <1>9, <1>10, <1>11 DEF PullNext

LEMMA PullMoves == PullInv /\ [Next]_vars => PullInv'
<1> SUFFICES ASSUME PullInv, [Next]_vars PROVE PullInv'
  OBVIOUS
<1>1. ASSUME NEW p \in Pulls, PullNext(p) PROVE PullInv'
  BY <1>1, PullStep
<1>2. ASSUME NEW h \in Hashes, Arrive(h) PROVE PullInv'
  <2>1. fetching' \subseteq Hashes /\ category' \in [Hashes -> Categories]
    BY <1>2 DEF Arrive, PullInv, TypeOK, Categories
  <2> QED BY <1>2, <2>1 DEF Arrive, PullInv, TypeOK, Chosen, VerifiedOnly
<1>3. CASE Crash
  BY <1>3 DEF Crash, PullInv, TypeOK, Chosen, VerifiedOnly, NoPull, PullRecord, Places, Resting
<1>4. CASE UNCHANGED vars
  BY <1>4 DEF vars, PullInv, TypeOK, Chosen, VerifiedOnly
<1> QED BY <1>1, <1>2, <1>3, <1>4 DEF Next

LEMMA PullPart == [PartsNext]_allVars => [Next]_vars
  BY DEF PartsNext, allVars

LEMMA PullCorrect == PartsSpec => []PullInv
<1>1. PartsInit => PullInv
  BY PullInit DEF PartsInit
<1> QED BY <1>1, PullMoves, PullPart, PTL DEF PartsSpec

(* Whatever qB, other downloads, a wrong answer or a crash do, a Relay goes  *)
(* on only with its own seed's torrent (downloadAndParse).                   *)
THEOREM PullVerified == PartsSpec => []VerifiedOnly
<1>1. PullInv => VerifiedOnly
  BY DEF PullInv
<1> QED BY <1>1, PullCorrect, PTL

-----------------------------------------------------------------------------
(* The direct download.  The candidates are tried one after the other, so    *)
(* those behind the current one have not been asked, and of the current one  *)
(* it is known how often it was and with which pauses.                       *)
Names == {"passkey", "enclosure", "cookie"}
Pause(k) == IF k = 0 THEN 0 ELSE File!Backoff(k - 1)
Of(q, url) == {n \in DOMAIN q : q[n].url = url}

Distinct(s) == \A m, n \in DOMAIN s : m # n => s[m] # s[n]

FileTypes ==
  /\ urls \in Seq(Names) /\ Len(urls) <= 3
  /\ at \in {"idle", "get", "wait", "done", "failed"}
  /\ attempt \in 0 .. MaxAttempts - 1 /\ slept = Pause(attempt)
  /\ asked \in Seq([url : Names, after : Nat])
  /\ file # None <=> at = "done"
Turns ==
  /\ Distinct(urls)
  /\ at \in {"get", "wait"} => urls # <<>>
  /\ at = "idle" => asked = <<>> /\ attempt = 0
  /\ at \in {"get", "wait"} =>
       /\ \A n \in DOMAIN urls : n # 1 => Of(asked, urls[n]) = {}
       /\ \A n \in Of(asked, urls[1]) : IF at = "get" THEN /\ attempt # 0
                                                   /\ asked[n].after <= Pause(attempt - 1)
                                 ELSE asked[n].after <= Pause(attempt)
Counted ==
  \A url \in Names :
    /\ IsFiniteSet(Of(asked, url)) /\ Cardinality(Of(asked, url)) <= MaxAttempts
    /\ at = "get" /\ url = urls[1] => Cardinality(Of(asked, url)) <= attempt
    /\ at = "wait" /\ url = urls[1] => Cardinality(Of(asked, url)) <= attempt + 1
Doubling ==
  \A m, n \in DOMAIN asked : m < n /\ asked[m].url = asked[n].url =>
    asked[n].after >= 1 /\ (asked[n].after >= 2 * asked[m].after \/ asked[n].after = 15)
FileInv == FileTypes /\ Turns /\ Counted /\ Doubling

LEMMA Attempts == MaxAttempts \in Nat /\ MaxAttempts >= 1
<1>1. MaxAttempts \in Nat \ {0}
  BY FileParameters, Zenon DEF File!DownloadAssumption
<1> QED BY <1>1

(* The pauses double up to the cap.                                          *)
LEMMA PauseDoubles ==
  ASSUME NEW k \in Nat
  PROVE  /\ Pause(k) \in Nat /\ Pause(k) <= 15
         /\ k # 0 => /\ Pause(k) >= 1
                     /\ Pause(k) >= 2 * Pause(k - 1) \/ Pause(k) = 15
<1>1. ASSUME NEW n \in Nat PROVE /\ n = 0 => File!Backoff(n) = 1
                                 /\ n = 1 => File!Backoff(n) = 2
                                 /\ n = 2 => File!Backoff(n) = 4
                                 /\ n = 3 => File!Backoff(n) = 8
                                 /\ n > 3 => File!Backoff(n) = 15
  BY DEF File!Backoff, File!Doubled
<1>2. CASE k = 0
  BY <1>2 DEF Pause
<1>3. CASE k # 0
  <2>1. k - 1 \in Nat /\ Pause(k) = File!Backoff(k - 1)
    BY <1>3 DEF Pause
  <2>2. CASE k = 1
    BY <1>1, <2>1, <2>2 DEF Pause
  <2>3. CASE k # 1
    <3>1. k - 2 \in Nat /\ Pause(k - 1) = File!Backoff(k - 2)
      BY <1>3, <2>3 DEF Pause
    <3>2. k - 1 = 1 \/ k - 1 = 2 \/ k - 1 = 3 \/ k - 1 = 4 \/ k - 1 > 4
      BY <1>3, <2>3
    <3> QED BY <1>1, <2>1, <3>1, <3>2
  <2> QED BY <2>2, <2>3
<1> QED BY <1>2, <1>3

LEMMA FileInit == File!Init => FileInv
<1> SUFFICES ASSUME File!Init PROVE FileInv
  OBVIOUS
<1>1. Pause(0) = 0
  BY DEF Pause
<1>2. \A url : Of(asked, url) = {}
  BY DEF Of, File!Init
<1>3. Counted
  <2>1. IsFiniteSet({}) /\ Cardinality({}) = 0
    BY FS_EmptySet
  <2>2. at = "idle"
    BY Zenon DEF File!Init
  <2> QED BY <1>2, <2>1, <2>2, Attempts DEF Counted
<1>4. Turns /\ Doubling
  BY DEF Turns, Doubling, Distinct, File!Init
<1> QED BY <1>1, <1>3, <1>4, Attempts DEF FileInv, FileTypes, File!Init

(* What is tried: each candidate once.                                       *)
LEMMA EachOnce ==
  \A item \in [id : BOOLEAN, enclosure : BOOLEAN] :
    /\ File!TorrentURLs(item) \in Seq(Names) /\ Len(File!TorrentURLs(item)) <= 3
    /\ Distinct(File!TorrentURLs(item))
<1> SUFFICES ASSUME NEW item \in [id : BOOLEAN, enclosure : BOOLEAN]
             PROVE  /\ File!TorrentURLs(item) \in Seq(Names)
                    /\ Len(File!TorrentURLs(item)) <= 3
                    /\ Distinct(File!TorrentURLs(item))
  OBVIOUS
<1> DEFINE a == IF item.id /\ client.passkey # None THEN <<"passkey">> ELSE <<>>
           b == IF item.enclosure THEN <<"enclosure">> ELSE <<>>
           c == IF item.id /\ client.cookie # None THEN <<"cookie">> ELSE <<>>
           s == a \o b \o c
<1>1. File!TorrentURLs(item) = s
  BY DEF File!TorrentURLs
<1>2. /\ a = <<"passkey">> \/ a = <<>>
      /\ b = <<"enclosure">> \/ b = <<>>
      /\ c = <<"cookie">> \/ c = <<>>
  OBVIOUS
<1> HIDE DEF a, b, c
<1>3. /\ a \in Seq(Names) /\ Len(a) <= 1 /\ \A n \in DOMAIN a : a[n] = "passkey"
      /\ b \in Seq(Names) /\ Len(b) <= 1 /\ \A n \in DOMAIN b : b[n] = "enclosure"
      /\ c \in Seq(Names) /\ Len(c) <= 1 /\ \A n \in DOMAIN c : c[n] = "cookie"
  <2>1. ASSUME NEW v \in Names, NEW q, q = <<v>> \/ q = <<>>
        PROVE  q \in Seq(Names) /\ Len(q) <= 1 /\ \A n \in DOMAIN q : q[n] = v
    <3> HIDE DEF Names
    <3>1. CASE q = <<v>>
      BY <3>1
    <3>2. CASE q = <<>>
      BY <3>2
    <3> QED BY <2>1, <3>1, <3>2
  <2>2. "passkey" \in Names /\ "enclosure" \in Names /\ "cookie" \in Names
    BY DEF Names
  <2> HIDE DEF Names
  <2> QED BY <1>2, <2>1, <2>2
<1>4. s \in Seq(Names) /\ Len(s) = Len(a) + Len(b) + Len(c)
  BY <1>3
<1>5. \A n \in DOMAIN s : /\ n <= Len(a) => s[n] = "passkey"
                          /\ n > Len(a) /\ n <= Len(a) + Len(b) => s[n] = "enclosure"
                          /\ n > Len(a) + Len(b) => s[n] = "cookie"
  BY <1>3
<1>6. DOMAIN s = 1 .. Len(s) /\ Len(a) \in Nat /\ Len(b) \in Nat /\ Len(c) \in Nat
  BY <1>3, <1>4
<1> HIDE DEF s
<1>7. ASSUME NEW m \in DOMAIN s, NEW n \in DOMAIN s, m # n PROVE s[m] # s[n]
  BY <1>3, <1>4, <1>5, <1>6, <1>7
<1>8. Distinct(s)
  BY <1>7 DEF Distinct
<1> QED BY <1>1, <1>3, <1>4, <1>6, <1>8

(* The next candidate has not been asked yet, and the one left was not asked *)
(* too often.                                                                *)
LEMMA NextCandidate ==
  ASSUME FileInv, at \in {"get", "wait"}, File!NextURL, UNCHANGED <<client, file>>,
         asked' \in Seq([url : Names, after : Nat]), Doubling',
         \A url \in Names : /\ IsFiniteSet(Of(asked', url)) /\ Cardinality(Of(asked', url)) <= MaxAttempts
                            /\ url # urls[1] => Of(asked', url) = Of(asked, url)
  PROVE  FileInv'
<1>1. /\ urls \in Seq(Names) /\ urls # <<>> /\ Len(urls) <= 3 /\ Len(urls) \in Nat
      /\ Len(urls) >= 1
  BY DEF FileInv, FileTypes, Turns
<1>2. /\ urls' \in Seq(Names) /\ Len(urls') = Len(urls) - 1
      /\ \A n \in DOMAIN urls' : /\ n + 1 \in DOMAIN urls /\ urls'[n] = urls[n + 1]
                                 /\ n \in Nat /\ n >= 1
  BY <1>1 DEF File!NextURL
<1>3. /\ attempt' = 0 /\ slept' = 0 /\ at' \in {"get", "failed"}
      /\ at' = "get" => Len(urls) # 1
  BY DEF File!NextURL
<1>4. FileTypes'
  BY <1>1, <1>2, <1>3, Attempts DEF FileTypes, FileInv, Pause
<1>5. ASSUME NEW n \in DOMAIN urls' PROVE Of(asked', urls'[n]) = {}
  <2>1. n + 1 # 1 /\ n + 1 \in DOMAIN urls /\ urls'[n] = urls[n + 1] /\ urls[n + 1] \in Names
    BY <1>1, <1>2
  <2>2. Of(asked, urls[n + 1]) = {} /\ 1 \in DOMAIN urls /\ urls[n + 1] # urls[1]
    BY <1>1, <2>1 DEF FileInv, Turns, Distinct
  <2> QED BY <2>1, <2>2
<1>6. ASSUME at' = "get" PROVE urls' # <<>> /\ 1 \in DOMAIN urls'
  BY <1>1, <1>2, <1>3, <1>6
<1>7. Distinct(urls')
  <2> SUFFICES ASSUME NEW m \in DOMAIN urls', NEW n \in DOMAIN urls', m # n
               PROVE  urls'[m] # urls'[n]
    BY DEF Distinct
  <2>1. m + 1 # n + 1
    BY <1>2
  <2> QED BY <1>2, <2>1 DEF FileInv, Turns, Distinct
<1>8. Turns'
  BY <1>3, <1>5, <1>6, <1>7 DEF Turns
<1>9. Counted'
  BY <1>3, <1>5, <1>6, FS_EmptySet DEF Counted
<1> QED BY <1>4, <1>8, <1>9 DEF FileInv

LEMMA FileStart == FileInv /\ File!Start => FileInv'
<1> SUFFICES ASSUME FileInv, File!Start PROVE FileInv'
  OBVIOUS
<1>1. PICK item \in [id : BOOLEAN, enclosure : BOOLEAN] :
        /\ urls' = File!TorrentURLs(item)
        /\ at' = IF urls' = <<>> THEN "failed" ELSE "get"
  BY DEF File!Start
<1>2. urls' \in Seq(Names) /\ Len(urls') <= 3 /\ Distinct(urls')
  BY <1>1, EachOnce
<1>3. /\ at = "idle" /\ asked = <<>> /\ asked' = asked /\ attempt = 0
      /\ UNCHANGED <<client, attempt, slept, file>> /\ at' \in {"get", "failed"}
      /\ at' = "get" => urls' # <<>>
  BY <1>1 DEF File!Start, FileInv, Turns
<1>4. FileTypes'
  BY <1>2, <1>3 DEF FileInv, FileTypes, Pause
<1>5. \A url : Of(asked', url) = {}
  BY <1>3 DEF Of
<1>6. Turns' /\ Doubling'
  BY <1>2, <1>3, <1>5 DEF Turns, Doubling
<1>7. Counted'
  <2>1. IsFiniteSet({}) /\ Cardinality({}) = 0
    BY FS_EmptySet
  <2> SUFFICES ASSUME NEW url \in Names
               PROVE  /\ IsFiniteSet(Of(asked', url))
                      /\ Cardinality(Of(asked', url)) <= MaxAttempts
                      /\ Cardinality(Of(asked', url)) <= attempt'
    BY <1>3 DEF Counted
  <2>2. Of(asked', url) = {}
    BY <1>5
  <2>3. attempt' = 0
    BY <1>3
  <2> QED BY <2>1, <2>2, <2>3, Attempts
<1> QED BY <1>4, <1>6, <1>7 DEF FileInv

LEMMA FileReject == FileInv /\ File!Reject => FileInv'
<1> SUFFICES ASSUME FileInv, File!Reject PROVE FileInv'
  OBVIOUS
<1>1. at = "get" /\ File!NextURL /\ UNCHANGED <<client, file, asked>>
  BY DEF File!Reject
<1>2. \A url : Of(asked', url) = Of(asked, url)
  BY <1>1 DEF Of
<1>3. Doubling' /\ asked' \in Seq([url : Names, after : Nat])
  BY <1>1 DEF FileInv, FileTypes, Doubling
<1> QED BY <1>1, <1>2, <1>3, NextCandidate DEF FileInv, Counted

(* One more request, after a pause that is long enough.                      *)
LEMMA OneMore ==
  ASSUME FileInv, at = "get", File!Asked
  PROVE  /\ asked' \in Seq([url : Names, after : Nat]) /\ Doubling'
         /\ \A url \in Names :
              /\ IsFiniteSet(Of(asked', url))
              /\ url # urls[1] => Of(asked', url) = Of(asked, url)
              /\ url = urls[1] => Cardinality(Of(asked', url)) <= attempt + 1
         /\ \A n \in Of(asked', urls[1]) : asked'[n].after <= Pause(attempt)
<1> DEFINE r == [url |-> urls[1], after |-> slept]
<1>1. /\ urls \in Seq(Names) /\ urls # <<>> /\ urls[1] \in Names /\ Head(urls) = urls[1]
      /\ attempt \in Nat /\ slept = Pause(attempt) /\ slept \in Nat
      /\ attempt # 0 => attempt - 1 \in Nat
  <2>1. /\ urls \in Seq(Names) /\ urls # <<>>
        /\ attempt \in 0 .. MaxAttempts - 1 /\ slept = Pause(attempt)
    BY DEF FileInv, FileTypes, Turns
  <2>2. attempt \in Nat
    BY <2>1, Attempts
  <2>3. Pause(attempt) \in Nat
    BY <2>2, PauseDoubles
  <2> HIDE DEF r
  <2>4. Head(urls) = urls[1] /\ urls[1] \in Names
    BY <2>1
  <2> QED BY <2>1, <2>2, <2>3, <2>4
<1>2. asked \in Seq([url : Names, after : Nat]) /\ r \in [url : Names, after : Nat]
  BY <1>1 DEF FileInv, FileTypes
<1>3. asked' = Append(asked, r)
  BY <1>1 DEF File!Asked
<1>4. /\ asked' \in Seq([url : Names, after : Nat]) /\ Len(asked) \in Nat
      /\ DOMAIN asked = 1 .. Len(asked) /\ DOMAIN asked' = 1 .. (Len(asked) + 1)
      /\ \A n \in DOMAIN asked : asked'[n] = asked[n]
      /\ asked'[Len(asked) + 1] = r
  BY <1>2, <1>3
<1>5. r.url = urls[1] /\ r.after = slept
  OBVIOUS
<1> HIDE DEF r
<1>6. Len(asked) + 1 \notin DOMAIN asked
  BY <1>4
<1>7. ASSUME NEW url PROVE Of(asked', url) = IF url = urls[1] THEN Of(asked, url) \cup {Len(asked) + 1} ELSE Of(asked, url)
  <2>1. Of(asked', url) = {n \in DOMAIN asked' : asked'[n].url = url}
    BY DEF Of
  <2>2. DOMAIN asked' = DOMAIN asked \cup {Len(asked) + 1}
    BY <1>4
  <2> QED BY <1>4, <1>5, <2>1, <2>2 DEF Of
<1>8. \A n \in Of(asked, urls[1]) : attempt # 0 /\ asked[n].after <= Pause(attempt - 1)
  BY DEF FileInv, Turns
<1>9. \A n \in DOMAIN asked : asked[n].after \in Nat
  <2>1. \A n \in DOMAIN asked : asked[n] \in [url : Names, after : Nat]
    <3> DEFINE R == [url : Names, after : Nat]
    <3>1. asked \in Seq(R)
      BY <1>2
    <3> HIDE DEF R
    <3>2. \A n \in DOMAIN asked : asked[n] \in R
      BY <3>1
    <3> QED BY <3>2 DEF R
  <2> QED BY <2>1
<1>10. ASSUME NEW n \in Of(asked, urls[1])
       PROVE  /\ slept >= 1 /\ (slept >= 2 * asked[n].after \/ slept = 15)
              /\ asked[n].after <= slept
  <2>1. /\ n \in DOMAIN asked /\ asked[n].after \in Nat
        /\ attempt # 0 /\ asked[n].after <= Pause(attempt - 1)
    BY <1>8, <1>9 DEF Of
  <2>2. /\ Pause(attempt - 1) \in Nat /\ Pause(attempt) \in Nat /\ Pause(attempt) >= 1
        /\ Pause(attempt) >= 2 * Pause(attempt - 1) \/ Pause(attempt) = 15
    BY <1>1, <2>1, PauseDoubles
  <2>3. Pause(attempt - 1) <= 15
    BY <1>1, <2>1, PauseDoubles
  <2> QED BY <1>1, <2>1, <2>2, <2>3
<1>11. Doubling'
  <2> SUFFICES ASSUME NEW m \in DOMAIN asked', NEW n \in DOMAIN asked', m < n,
                      asked'[m].url = asked'[n].url
               PROVE  /\ asked'[n].after >= 1
                      /\ asked'[n].after >= 2 * asked'[m].after \/ asked'[n].after = 15
    BY DEF Doubling
  <2>1. m \in DOMAIN asked /\ asked'[m] = asked[m]
    BY <1>4
  <2>2. CASE n \in DOMAIN asked
    BY <1>4, <2>1, <2>2 DEF FileInv, Doubling
  <2>3. CASE n = Len(asked) + 1
    <3>1. asked'[n].url = urls[1] /\ asked'[n].after = slept
      BY <1>4, <1>5, <2>3
    <3>2. m \in Of(asked, urls[1])
      BY <2>1, <3>1 DEF Of
    <3> QED BY <1>10, <2>1, <3>1, <3>2
  <2> QED BY <1>4, <2>2, <2>3
<1>12. \A n \in Of(asked', urls[1]) : asked'[n].after <= Pause(attempt)
  <2> SUFFICES ASSUME NEW n \in Of(asked, urls[1]) \cup {Len(asked) + 1}
               PROVE  asked'[n].after <= Pause(attempt)
    <3>1. ASSUME NEW q, q = urls[1] PROVE Of(asked', q) = Of(asked, q) \cup {Len(asked) + 1}
      BY <1>7, <3>1
    <3> QED BY <1>7
  <2>1. CASE n \in Of(asked, urls[1])
    BY <1>1, <1>4, <1>10, <2>1 DEF Of
  <2>2. CASE n = Len(asked) + 1
    BY <1>1, <1>4, <1>5, <2>2
  <2> QED BY <2>1, <2>2
<1>13. ASSUME NEW url \in Names
       PROVE  /\ IsFiniteSet(Of(asked', url))
              /\ url # urls[1] => Of(asked', url) = Of(asked, url)
              /\ url = urls[1] => Cardinality(Of(asked', url)) <= attempt + 1
  <2>1. CASE url # urls[1]
    BY <1>7, <2>1 DEF FileInv, Counted
  <2>2. CASE url = urls[1]
    <3>1. IsFiniteSet(Of(asked, url)) /\ Cardinality(Of(asked, url)) <= attempt
      BY <2>2 DEF FileInv, Counted
    <3>2. Len(asked) + 1 \notin Of(asked, url)
      BY <1>6 DEF Of
    <3>3. /\ IsFiniteSet(Of(asked, url) \cup {Len(asked) + 1})
          /\ Cardinality(Of(asked, url) \cup {Len(asked) + 1}) = Cardinality(Of(asked, url)) + 1
      BY <3>1, <3>2, FS_AddElement
    <3>4. Cardinality(Of(asked, url)) \in Nat
      BY <3>1, FS_CardinalityType
    <3>5. Of(asked', url) = Of(asked, url) \cup {Len(asked) + 1}
      BY <1>7, <2>2
    <3> QED BY <1>1, <2>2, <3>1, <3>3, <3>4, <3>5
  <2> QED BY <2>1, <2>2
<1> QED BY <1>4, <1>11, <1>12, <1>13

LEMMA FileGet == FileInv /\ File!Get => FileInv'
<1> SUFFICES ASSUME FileInv, File!Get PROVE FileInv'
  OBVIOUS
<1>1. /\ at = "get" /\ File!Asked /\ UNCHANGED client
      /\ attempt \in Nat /\ attempt + 1 <= MaxAttempts
  BY Attempts DEF File!Get, FileInv, FileTypes
<1>2. /\ asked' \in Seq([url : Names, after : Nat]) /\ Doubling'
      /\ \A url \in Names :
           /\ IsFiniteSet(Of(asked', url))
           /\ url # urls[1] => Of(asked', url) = Of(asked, url)
           /\ url = urls[1] => Cardinality(Of(asked', url)) <= attempt + 1
      /\ \A n \in Of(asked', urls[1]) : asked'[n].after <= Pause(attempt)
  BY <1>1, OneMore
<1>3. ASSUME NEW url \in Names PROVE Cardinality(Of(asked', url)) <= MaxAttempts
  <2>1. CASE url # urls[1]
    BY <1>2, <2>1 DEF FileInv, Counted
  <2>2. CASE url = urls[1]
    BY <1>1, <1>2, <2>2, Attempts, FS_CardinalityType
  <2> QED BY <2>1, <2>2
<1>4. PICK answer \in File!Answer :
        IF File!IsTorrentBody(answer)
        THEN /\ \/ file' = answer /\ at' = "done"
                \/ at' = "failed" /\ UNCHANGED file
             /\ UNCHANGED <<urls, attempt, slept>>
        ELSE /\ IF answer = "limited" THEN File!Limited ELSE File!NextURL
             /\ UNCHANGED file
  BY DEF File!Get
<1>5. ASSUME at' \in {"done", "failed"}, UNCHANGED <<urls, attempt, slept>>,
             file' # None <=> at' = "done"
      PROVE  FileInv'
  <2>1. FileTypes'
    BY <1>2, <1>5 DEF FileInv, FileTypes
  <2>2. Turns'
    BY <1>5 DEF FileInv, Turns
  <2>3. Counted'
    BY <1>2, <1>3, <1>5 DEF Counted
  <2> QED BY <1>2, <2>1, <2>2, <2>3 DEF FileInv
<1>6. CASE File!IsTorrentBody(answer)
  <2>1. answer # None
    BY <1>6, FileParameters DEF File!IsTorrentBody, File!DownloadAssumption
  <2>2. file = None
    BY <1>1 DEF FileInv, FileTypes
  <2> QED BY <1>4, <1>5, <1>6, <2>1, <2>2
<1>7. CASE ~ File!IsTorrentBody(answer) /\ answer # "limited"
  BY <1>1, <1>2, <1>3, <1>4, <1>7, NextCandidate
<1>8. CASE ~ File!IsTorrentBody(answer) /\ answer = "limited"
  <2>1. at' = "wait" /\ UNCHANGED <<urls, attempt, slept, file>>
    BY <1>4, <1>8 DEF File!Limited
  <2>2. FileTypes'
    BY <1>1, <1>2, <2>1 DEF FileInv, FileTypes
  <2>3. /\ urls \in Seq(Names) /\ urls # <<>> /\ 1 \in DOMAIN urls
        /\ \A n \in DOMAIN urls : urls[n] \in Names
    BY <1>1 DEF FileInv, FileTypes, Turns
  <2>4. \A n \in DOMAIN urls : n # 1 => Of(asked', urls[n]) = {}
    <3> SUFFICES ASSUME NEW n \in DOMAIN urls, n # 1 PROVE Of(asked', urls[n]) = {}
      OBVIOUS
    <3>1. urls[n] # urls[1] /\ urls[n] \in Names /\ Of(asked, urls[n]) = {}
      BY <1>1, <2>3 DEF FileInv, Turns, Distinct
    <3> DEFINE url == urls[n]
    <3>2. \A x \in Names : x # urls[1] => Of(asked', x) = Of(asked, x)
      BY <1>2
    <3> QED BY <2>1, <3>1, <3>2
  <2>5. Turns'
    <3>1. urls' = urls /\ at' = "wait" /\ attempt' = attempt
      BY <2>1
    <3>2. \A n \in DOMAIN urls' : n # 1 => Of(asked', urls'[n]) = {}
      BY <2>4, <3>1
    <3>3. \A n \in Of(asked', urls'[1]) : asked'[n].after <= Pause(attempt')
      BY <1>2, <3>1 DEF Pause
    <3>4. Distinct(urls')
      BY <3>1 DEF FileInv, Turns
    <3> QED BY <2>3, <3>1, <3>2, <3>3, <3>4 DEF Turns
  <2>6. Counted'
    BY <1>2, <1>3, <2>1 DEF Counted
  <2> QED BY <1>2, <2>2, <2>5, <2>6 DEF FileInv
<1> QED BY <1>6, <1>7, <1>8

LEMMA FileWake == FileInv /\ File!Wake => FileInv'
<1> SUFFICES ASSUME FileInv, File!Wake PROVE FileInv'
  OBVIOUS
<1>1. at = "wait" /\ UNCHANGED <<client, file, asked>>
  BY DEF File!Wake
<1>2. \A url : Of(asked', url) = Of(asked, url)
  BY <1>1 DEF Of
<1>3. Doubling' /\ asked' \in Seq([url : Names, after : Nat])
  BY <1>1 DEF FileInv, FileTypes, Doubling
<1>4. CASE File!Woken
  BY <1>1, <1>2, <1>3, <1>4, NextCandidate DEF File!Wake, FileInv, Counted
<1>5. CASE ~ File!Woken
  <2>1. at' = "get" /\ attempt' = attempt + 1 /\ slept' = File!Backoff(attempt) /\ urls' = urls
    BY <1>5 DEF File!Wake
  <2>2. attempt \in Nat /\ attempt + 1 < MaxAttempts /\ attempt + 1 - 1 = attempt
    BY <1>5, Attempts DEF File!Woken, FileInv, FileTypes
  <2>3. FileTypes'
    BY <1>1, <1>3, <2>1, <2>2, Attempts DEF FileInv, FileTypes, Pause
  <2>4. Turns'
    BY <1>1, <1>2, <2>1, <2>2 DEF FileInv, Turns
  <2>5. Counted'
    BY <1>1, <1>2, <2>1, <2>2 DEF FileInv, Counted
  <2> QED BY <1>3, <2>3, <2>4, <2>5 DEF FileInv
<1> QED BY <1>4, <1>5

LEMMA FileMoves == FileInv /\ [File!Next]_(File!vars) => FileInv'
<1> SUFFICES ASSUME FileInv, [File!Next]_(File!vars) PROVE FileInv'
  OBVIOUS
<1>1. CASE File!Cancel
  <2>1. at \in {"get", "wait"} /\ at' = "failed" /\ UNCHANGED <<client, urls, attempt, slept, file, asked>>
    BY <1>1 DEF File!Cancel
  <2>2. \A url : Of(asked', url) = Of(asked, url)
    BY <2>1 DEF Of
  <2>3. FileTypes' /\ Turns' /\ Doubling'
    BY <2>1 DEF FileInv, FileTypes, Turns, Doubling
  <2>4. Counted'
    BY <2>1, <2>2 DEF FileInv, Counted
  <2> QED BY <2>3, <2>4 DEF FileInv
<1>2. CASE UNCHANGED File!vars
  <2>1. UNCHANGED <<client, urls, attempt, at, slept, file, asked>>
    BY <1>2 DEF File!vars
  <2>2. \A url : Of(asked', url) = Of(asked, url)
    BY <2>1 DEF Of
  <2>3. FileTypes' /\ Turns' /\ Doubling'
    BY <2>1, <2>2 DEF FileInv, FileTypes, Turns, Doubling
  <2>4. Counted'
    BY <2>1, <2>2 DEF FileInv, Counted
  <2> QED BY <2>3, <2>4 DEF FileInv
<1> QED BY <1>1, <1>2, FileStart, FileReject, FileGet, FileWake DEF File!Next

LEMMA FilePart == [PartsNext]_allVars => [File!Next]_(File!vars)
  BY DEF PartsNext, allVars, fileVars, File!vars

LEMMA FileCorrect == PartsSpec => []FileInv
<1>1. PartsInit => FileInv
  BY FileInit DEF PartsInit
<1> QED BY <1>1, FileMoves, FilePart, PTL DEF PartsSpec

(* A site that limits is left alone: of two requests to one URL the later    *)
(* comes after a pause that has doubled or is the longest, and one URL is    *)
(* asked MaxAttempts times at most, whatever the site answers and however    *)
(* many URLs are tried (DownloadTorrent, downloadRaw).                       *)
THEOREM SiteSpared == PartsSpec => []LimitRespected
<1>1. ASSUME NEW set PROVE File!Cardinality(set) = Cardinality(set)
  BY Zenon DEF File!Cardinality, Cardinality
<1>2. FileInv => LimitRespected
  <2> SUFFICES ASSUME FileInv, NEW url \in {"passkey", "enclosure", "cookie"}
               PROVE  /\ Cardinality(Of(asked, url)) <= MaxAttempts
                      /\ \A m, n \in Of(asked, url) : m < n =>
                           /\ asked[n].after >= 1
                           /\ asked[n].after >= 2 * asked[m].after \/ asked[n].after = 15
    BY <1>1 DEF LimitRespected, File!LimitRespected, Of
  <2> QED BY DEF FileInv, Counted, Doubling, Names, Of
<1> QED BY <1>2, FileCorrect, PTL

-----------------------------------------------------------------------------
(* The promotion.  The aliases of two levels have no name in common, and of  *)
(* the classes one that contains another's name is looked for first.         *)
Levels == {"free", "free2x", "up2x", "half", "third", "neutral"}

LEMMA AliasesDisjoint ==
  /\ DOMAIN Source!Aliases = Levels
  /\ \A p \in Levels : "" \notin Source!Aliases[p]
  /\ \A p, q \in Levels : p # q => Source!Aliases[p] \cap Source!Aliases[q] = {}
<1>1. DOMAIN Source!Aliases = Levels
  BY DEF Source!Aliases, Levels
<1>2. /\ Source!Aliases["free"] = {"free", "mianfei", "pro_free", "freeleech"}
      /\ Source!Aliases["free2x"] =
           {"2x_free", "2xfree", "2xmianfei", "free2x", "pro_free2up", "pro_2xfree"}
      /\ Source!Aliases["up2x"] = {"2x", "2xshangchuan", "double_upload", "pro_2up"}
      /\ Source!Aliases["half"] = {"50%", "50%down", "pro_50pctdown", "50pctdown"}
      /\ Source!Aliases["third"] = {"30%", "30%down", "pro_30pctdown", "30pctdown"}
      /\ Source!Aliases["neutral"] = {"neutral", "putong", "pro_neutral"}
  BY DEF Source!Aliases
<1>3. ASSUME NEW p \in Levels, NEW q \in Levels, NEW raw,
             raw \in Source!Aliases[p], raw \in Source!Aliases[q]
      PROVE  p = q
  <2>1. \A level \in Levels : \/ level = "free" \/ level = "free2x" \/ level = "up2x"
                              \/ level = "half" \/ level = "third" \/ level = "neutral"
    BY DEF Levels
  <2>2. CASE p = "free"
    BY <1>2, <1>3, <2>1, <2>2
  <2>3. CASE p = "free2x"
    BY <1>2, <1>3, <2>1, <2>3
  <2>4. CASE p = "up2x"
    BY <1>2, <1>3, <2>1, <2>4
  <2>5. CASE p = "half"
    BY <1>2, <1>3, <2>1, <2>5
  <2>6. CASE p = "third"
    BY <1>2, <1>3, <2>1, <2>6
  <2>7. CASE p = "neutral"
    BY <1>2, <1>3, <2>1, <2>7
  <2> QED BY <2>1, <2>2, <2>3, <2>4, <2>5, <2>6, <2>7
<1>4. ASSUME NEW p \in Levels PROVE "" \notin Source!Aliases[p]
  <2>1. \A level \in Levels : \/ level = "free" \/ level = "free2x" \/ level = "up2x"
                              \/ level = "half" \/ level = "third" \/ level = "neutral"
    BY DEF Levels
  <2>2. CASE p = "free"
    BY <1>2, <2>2
  <2>3. CASE p = "free2x"
    BY <1>2, <2>3
  <2>4. CASE p = "up2x"
    BY <1>2, <2>4
  <2>5. CASE p = "half"
    BY <1>2, <2>5
  <2>6. CASE p = "third"
    BY <1>2, <2>6
  <2>7. CASE p = "neutral"
    BY <1>2, <2>7
  <2> QED BY <2>1, <2>2, <2>3, <2>4, <2>5, <2>6, <2>7
<1> QED BY <1>1, <1>3, <1>4

LEMMA Normalized ==
  ASSUME NEW p \in Levels, NEW raw \in Source!Aliases[p]
  PROVE  Source!NormalizePromotion(raw) = p /\ raw # ""
<1>1. \A q \in Levels : raw \in Source!Aliases[q] => q = p
  BY AliasesDisjoint
<1> QED BY <1>1, AliasesDisjoint DEF Source!NormalizePromotion

Order == Source!PromoClassOrder
LEMMA Ordered ==
  /\ DOMAIN Order = 1 .. 11
  /\ \A m, n \in 1 .. 11 : Order[m] = Order[n] => m = n
  /\ \A m, n \in 1 .. 11 : Order[m] \in DOMAIN Source!Contained
                             /\ Order[n] \in Source!Contained[Order[m]] => n < m
<1>1. /\ DOMAIN Order = 1 .. 11
      /\ Order[1] = "pro_free2up" /\ Order[2] = "pro_2xfree" /\ Order[3] = "pro_2x_free"
      /\ Order[4] = "pro_2up" /\ Order[5] = "pro_2x" /\ Order[6] = "pro_free"
      /\ Order[7] = "pro_50pctdown" /\ Order[8] = "pro_50" /\ Order[9] = "pro_30pctdown"
      /\ Order[10] = "pro_30" /\ Order[11] = "pro_neutral"
  BY DEF Order, Source!PromoClassOrder
<1> HIDE DEF Order
<1>2. \A n \in 1 .. 11 : \/ n = 1 \/ n = 2 \/ n = 3 \/ n = 4 \/ n = 5 \/ n = 6
                         \/ n = 7 \/ n = 8 \/ n = 9 \/ n = 10 \/ n = 11
  OBVIOUS
<1>3. \A m, n \in 1 .. 11 : Order[m] = Order[n] => m = n
  BY <1>1, <1>2
<1>4. /\ DOMAIN Source!Contained = {"pro_free", "pro_2x", "pro_50", "pro_30"}
      /\ Source!Contained["pro_free"] = {"pro_free2up"}
      /\ Source!Contained["pro_2x"] = {"pro_2xfree", "pro_2x_free"}
      /\ Source!Contained["pro_50"] = {"pro_50pctdown"}
      /\ Source!Contained["pro_30"] = {"pro_30pctdown"}
  BY DEF Source!Contained
<1>5. ASSUME NEW m \in 1 .. 11, NEW n \in 1 .. 11, Order[m] \in DOMAIN Source!Contained,
             Order[n] \in Source!Contained[Order[m]]
      PROVE  n < m
  <2>1. CASE Order[m] = "pro_free"
    <3>1. m = 6 /\ n = 1
      BY <1>1, <1>3, <1>4, <1>5, <2>1
    <3> QED BY <3>1
  <2>2. CASE Order[m] = "pro_2x"
    <3>1. m = 5 /\ (n = 2 \/ n = 3)
      BY <1>1, <1>3, <1>4, <1>5, <2>2
    <3> QED BY <3>1
  <2>3. CASE Order[m] = "pro_50"
    <3>1. m = 8 /\ n = 7
      BY <1>1, <1>3, <1>4, <1>5, <2>3
    <3> QED BY <3>1
  <2>4. CASE Order[m] = "pro_30"
    <3>1. m = 10 /\ n = 9
      BY <1>1, <1>3, <1>4, <1>5, <2>4
    <3> QED BY <3>1
  <2> QED BY <1>4, <1>5, <2>1, <2>2, <2>3, <2>4
<1> QED BY <1>1, <1>3, <1>5

(* What is read of a page that tells its promotion is that promotion.        *)
LEMMA PromotionRead ==
  ASSUME NEW page, Source!Clear(page)
  PROVE  /\ Source!NormalizePromotion(Source!ParsePromotion(page)) = page.promo
         /\ page.promo # ""
<1>1. page.promo \in Levels /\ page.promo # ""
  BY AliasesDisjoint DEF Source!Clear, Levels
<1>2. CASE page.row \in Source!Aliases[page.promo]
  <2>1. Source!NormalizePromotion(page.row) = page.promo /\ page.row # ""
    BY <1>1, <1>2, Normalized
  <2> QED BY <1>1, <2>1 DEF Source!ParsePromotion
<1>3. CASE /\ page.row = ""
           /\ \E n \in DOMAIN Source!PromoClassOrder :
                /\ page.classes = {Source!PromoClassOrder[n]}
                /\ Source!PromoClassOrder[n] \in Source!Aliases[page.promo]
  <2>1. PICK n \in DOMAIN Order : /\ page.classes = {Order[n]}
                                  /\ Order[n] \in Source!Aliases[page.promo]
    BY <1>3 DEF Order
  <2> DEFINE hits == {m \in DOMAIN Order : Source!Occurs(Order[m], page)}
             first == CHOOSE k \in hits : \A m \in hits : k <= m
  <2>2. n \in hits /\ \A m \in hits : n <= m
    <3>1. Source!Occurs(Order[n], page)
      BY <2>1 DEF Source!Occurs
    <3>2. ASSUME NEW m \in hits PROVE n <= m
      <4>1. m \in 1 .. 11 /\ n \in 1 .. 11
        BY <2>1, Ordered
      <4>2. CASE Order[m] \in page.classes
        BY <2>1, <4>1, <4>2, Ordered
      <4>3. CASE /\ Order[m] \in DOMAIN Source!Contained
                 /\ Source!Contained[Order[m]] \cap page.classes # {}
        <5>1. n < m
          BY <2>1, <4>1, <4>3, Ordered
        <5> QED BY <4>1, <5>1
      <4> QED BY <3>2, <4>2, <4>3 DEF Source!Occurs
    <3> QED BY <3>1, <3>2
  <2>3. \A m \in hits : m \in 1 .. 11
    BY Ordered
  <2> HIDE DEF hits
  <2>4. first \in hits /\ \A m \in hits : first <= m
    BY <2>2
  <2>5. first = n /\ hits # {}
    BY <2>2, <2>3, <2>4
  <2>6. Source!ParsePromotion(page) = IF hits # {} THEN Order[first] ELSE ""
    BY <1>3 DEF Source!ParsePromotion, hits, Order
  <2> HIDE DEF first
  <2>7. Source!ParsePromotion(page) = Order[n]
    BY <2>5, <2>6
  <2> QED BY <1>1, <2>1, <2>7, Normalized
<1> QED BY <1>2, <1>3 DEF Source!Clear

(* A Relay that read a page holds the promotion of that page.                *)
Reading ==
  /\ DOMAIN relay = {"at", "id", "item", "promotion", "page"}
  /\ relay.at \in {"idle", "locate", "detail", "filter", "download"}
  /\ relay.at \in {"locate", "detail"} => relay.page = None
  /\ relay.at = "filter" /\ relay.page # None =>
       relay.promotion = Source!ParsePromotion(relay.page)
PromotionInv == Reading /\ PromotionHonoured

LEMMA NoRelayReads ==
  ASSUME relay' = Source!NoRelay
  PROVE  Reading'
<1>1. DOMAIN relay' = {"at", "id", "item", "promotion", "page"}
  BY DEF Source!NoRelay
<1>2. relay'.at = "idle" /\ relay'.page = None
  BY DEF Source!NoRelay
<1> QED BY <1>1, <1>2 DEF Reading

LEMMA PromotionInit == Source!Init => PromotionInv
<1> SUFFICES ASSUME Source!Init PROVE PromotionInv
  OBVIOUS
<1>1. Reading
  BY DEF Source!Init, Source!NoRelay, Reading
<1>2. PromotionHonoured
  BY DEF Source!Init, PromotionHonoured, Source!PromotionHonoured
<1> QED BY <1>1, <1>2 DEF PromotionInv

LEMMA PromotionFrame == PromotionInv /\ UNCHANGED <<relay, verdict>> => PromotionInv'
<1> SUFFICES ASSUME PromotionInv, UNCHANGED <<relay, verdict>> PROVE PromotionInv'
  OBVIOUS
<1>1. Reading'
  BY DEF PromotionInv, Reading
<1>2. PromotionHonoured'
  BY DEF PromotionInv, PromotionHonoured, Source!PromotionHonoured
<1> QED BY <1>1, <1>2 DEF PromotionInv

LEMMA PromotionIdle ==
  PromotionInv /\ Reading' /\ UNCHANGED verdict => PromotionInv'
  BY DEF PromotionInv, PromotionHonoured, Source!PromotionHonoured

LEMMA PromotionFilter == PromotionInv /\ Source!Filter => PromotionInv'
<1> SUFFICES ASSUME PromotionInv, Source!Filter PROVE PromotionInv'
  OBVIOUS
<1> DEFINE promo == Source!NormalizePromotion(relay.promotion)
           listed == {Source!NormalizePromotion(p) : p \in strategy.promotions}
           skip == strategy.promotions # {} /\ (promo = "" \/ promo \notin listed)
<1>1. /\ relay.at = "filter"
      /\ relay' = IF skip THEN Source!NoRelay ELSE [relay EXCEPT !.at = "download"]
      /\ verdict' = [skip |-> skip, page |-> relay.page, listed |-> strategy.promotions]
  BY DEF Source!Filter, Source!AtStep
<1>2. Reading'
  <2>1. CASE skip
    BY <1>1, <2>1, NoRelayReads
  <2>2. CASE ~ skip
    <3>1. relay' = [relay EXCEPT !.at = "download"]
      BY <1>1, <2>2
    <3> QED BY <3>1 DEF PromotionInv, Reading
  <2> QED BY <2>1, <2>2
<1>3. PromotionHonoured'
  <2>1. verdict'.skip = skip /\ verdict'.page = relay.page
        /\ verdict'.listed = strategy.promotions
    BY <1>1
  <2>2. ASSUME Source!Clear(relay.page) PROVE promo = relay.page.promo /\ promo # ""
    <3>1. relay.page # None
      BY <2>2 DEF Source!Clear
    <3>2. relay.promotion = Source!ParsePromotion(relay.page)
      BY <1>1, <3>1 DEF PromotionInv, Reading
    <3> QED BY <2>2, <3>2, PromotionRead
  <2>3. Source!Clear(verdict'.page) =>
          (skip <=> /\ strategy.promotions # {} /\ verdict'.page.promo \notin listed)
    BY <2>1, <2>2
  <2> HIDE DEF promo, skip
  <2>4. Source!Clear(verdict'.page) =>
          (verdict'.skip <=> /\ verdict'.listed # {}
                             /\ verdict'.page.promo \notin
                                  {Source!NormalizePromotion(p) : p \in verdict'.listed})
    BY <2>1, <2>3
  <2> QED BY <2>4 DEF PromotionHonoured, Source!PromotionHonoured
<1> QED BY <1>2, <1>3 DEF PromotionInv

LEMMA PromotionMoves == PromotionInv /\ [Source!Next]_(Source!vars) => PromotionInv'
<1> SUFFICES ASSUME PromotionInv, [Source!Next]_(Source!vars) PROVE PromotionInv'
  OBVIOUS
<1>1. CASE \/ \E t \in Releases : Source!Announce(t) \/ Source!Edit(t)
           \/ Source!SaveStrategy \/ \E id \in DOMAIN seeds : Source!DeleteSeed(id)
           \/ Source!FetchRSS \/ Source!Ingest \/ Source!CreateSeed \/ Source!CreateFails
           \/ UNCHANGED Source!vars
  <2>1. UNCHANGED <<relay, verdict>>
    BY <1>1 DEF Source!Announce, Source!Edit, Source!SaveStrategy, Source!DeleteSeed,
       Source!FetchRSS, Source!Ingest, Source!CreateSeed, Source!CreateFails, Source!vars,
       Source!history
  <2> QED BY <2>1, PromotionFrame
<1>2. CASE \E id \in DOMAIN seeds : Source!Begin(id)
  <2>1. PICK id \in DOMAIN seeds : relay' = [Source!NoRelay EXCEPT !.at = "locate", !.id = id]
    BY <1>2 DEF Source!Begin
  <2>2. UNCHANGED verdict
    BY <1>2 DEF Source!Begin, Source!history
  <2>3. Reading'
    BY <2>1 DEF Reading, Source!NoRelay
  <2> QED BY <2>2, <2>3, PromotionIdle
<1>3. CASE Source!Locate
  <2>1. PICK item : relay' = [relay EXCEPT !.at = "detail", !.item = item]
    BY <1>3 DEF Source!Locate
  <2>2. UNCHANGED verdict /\ relay.at = "locate"
    BY <1>3 DEF Source!Locate, Source!history, Source!AtStep
  <2>3. Reading'
    BY <2>1, <2>2 DEF PromotionInv, Reading
  <2> QED BY <2>2, <2>3, PromotionIdle
<1>4. CASE Source!FetchDetail
  <2>1. UNCHANGED verdict /\ relay.at = "detail"
    BY <1>4 DEF Source!FetchDetail, Source!AskAPI, Source!ReadPage, Source!history,
       Source!AtStep
  <2>2. CASE relay' = [relay EXCEPT !.at = "filter"]
    <3>1. Reading'
      BY <2>1, <2>2 DEF PromotionInv, Reading
    <3> QED BY <2>1, <3>1, PromotionIdle
  <2>3. CASE \E packed \in BOOLEAN :
               LET page == post[relay.item.of].page
                   promotion == IF packed THEN "" ELSE Source!ParsePromotion(page)
               IN  relay' = [relay EXCEPT !.at = "filter", !.promotion = promotion,
                                          !.page = IF packed THEN None ELSE page]
    <3>1. PICK packed, page :
            relay' = [relay EXCEPT
                        !.at = "filter",
                        !.promotion = IF packed THEN "" ELSE Source!ParsePromotion(page),
                        !.page = IF packed THEN None ELSE page]
      BY <2>3
    <3>2. /\ DOMAIN relay' = DOMAIN relay /\ relay'.at = "filter"
          /\ relay'.promotion = IF packed THEN "" ELSE Source!ParsePromotion(page)
          /\ relay'.page = IF packed THEN None ELSE page
      BY <3>1 DEF PromotionInv, Reading
    <3>3. Reading'
      BY <3>2 DEF PromotionInv, Reading
    <3> QED BY <2>1, <3>3, PromotionIdle
  <2> QED BY <1>4, <2>2, <2>3 DEF Source!FetchDetail, Source!AskAPI, Source!ReadPage
<1>5. CASE Source!Download \/ Source!Fail \/ Source!Restart
  <2>1. relay' = Source!NoRelay /\ UNCHANGED verdict
    BY <1>5 DEF Source!Download, Source!Fail, Source!Restart, Source!history
  <2> QED BY <2>1, NoRelayReads, PromotionIdle
<1> QED BY <1>1, <1>2, <1>3, <1>4, <1>5, PromotionFilter DEF Source!Next

LEMMA FeedPart == [PartsNext]_allVars => [Source!Next]_(Source!vars)
  BY DEF PartsNext, allVars, feedVars, Source!vars

LEMMA PromotionCorrect == PartsSpec => []PromotionInv
<1>1. PartsInit => PromotionInv
  BY PromotionInit DEF PartsInit
<1> QED BY <1>1, PromotionMoves, FeedPart, PTL DEF PartsSpec

(* The filter decides by the promotion the site shows, whatever the          *)
(* operators change between the detail page and the decision and whatever    *)
(* other pictures are on the page (ParsePromotion, NormalizePromotion,       *)
(* checkPromotionFilter).                                                    *)
THEOREM FilterFollowsSite == PartsSpec => []PromotionHonoured
<1>1. PromotionInv => PromotionHonoured
  BY DEF PromotionInv
<1> QED BY <1>1, PromotionCorrect, PTL

-----------------------------------------------------------------------------
(* The poller.  What is fetched is a post of its torrent; whatever has a     *)
(* tombstone was ingested, and the item that is marked has no row yet.       *)
Items == UNION {Posts[t] : t \in Releases}
Shown ==
  /\ post \in [Releases -> Items \cup {None}] /\ \A t \in Releases : post[t] # None => post[t] \in Posts[t]
  /\ feed \in Seq(Releases) /\ \A n \in DOMAIN feed : post[feed[n]] # None
Polled == poll \in [items : Seq(Items), marked : BOOLEAN] /\ (poll.marked => poll.items # <<>>)
Marks ==
  /\ DOMAIN seeds \subseteq seen /\ \A row \in born : row[1] \in seen
  /\ \A id \in seen : id[2] \in ingested
  /\ poll.marked => LET id == Source!GuidToInfohash(Source!Item)
                    IN  id \in seen /\ \A row \in born : row[1] # id
Losses ==
  /\ IsFiniteSet(ingested) /\ ingested \subseteq Releases /\ faults \in Nat
  /\ Cardinality(Source!Lost) <= faults
SeedInv == Shown /\ Polled /\ Marks /\ Losses

(* An item is known by its torrent, whatever guid it has.                    *)
LEMMA Identity ==
  ASSUME NEW item \in Items
  PROVE  Source!GuidToInfohash(item)[2] = item.of /\ item.of \in Releases
<1>1. PICK t \in Releases : item \in Posts[t]
  BY DEF Items
<1>2. item.of = t /\ item.guid \in {"hash", "other", "none"}
  BY <1>1, FeedParameters DEF Source!FeedAssumption
<1>3. CASE item.guid = "hash"
  BY <1>2, <1>3 DEF Source!GuidToInfohash, Source!InfoHash
<1>4. CASE item.guid = "other"
  BY <1>2, <1>4 DEF Source!GuidToInfohash
<1>5. CASE item.guid = "none"
  BY <1>2, <1>5 DEF Source!GuidToInfohash
<1> QED BY <1>2, <1>3, <1>4, <1>5

LEMMA NextItems ==
  ASSUME Polled, poll.items # <<>>
  PROVE  /\ Source!Item \in Items
         /\ Source!NextItem \in [items : Seq(Items), marked : BOOLEAN]
         /\ Source!NextItem.marked = FALSE
<1>1. poll.items \in Seq(Items) /\ poll.items # <<>>
  BY DEF Polled
<1> QED BY <1>1 DEF Source!Item, Source!NextItem

LEMMA SeedInit == Source!Init => SeedInv
<1> SUFFICES ASSUME Source!Init PROVE SeedInv
  OBVIOUS
<1>1. Shown
  BY DEF Source!Init, Shown
<1>2. Polled
  BY DEF Source!Init, Polled, Source!NoPoll
<1>3. Marks
  BY DEF Source!Init, Marks, Source!NoPoll
<1>4. Source!Lost = {}
  BY DEF Source!Init, Source!Lost
<1>5. Losses
  BY <1>4, FS_EmptySet DEF Source!Init, Losses
<1> QED BY <1>1, <1>2, <1>3, <1>5 DEF SeedInv

(* Nothing is lost while the poller rests.                                   *)
LEMMA LostFrame ==
  ASSUME ingested' = ingested, born' = born, poll' = poll
  PROVE  Source!Lost' = Source!Lost
  BY DEF Source!Lost, Source!Item

(* A step of the site, of an operator or of the Relay.                       *)
LEMMA SeedFrame ==
  ASSUME SeedInv, UNCHANGED <<seen, poll, faults, ingested, born>>,
         Shown', DOMAIN seeds' \subseteq DOMAIN seeds
  PROVE  SeedInv'
<1>1. Polled'
  BY DEF SeedInv, Polled
<1>2. Marks'
  BY DEF SeedInv, Marks, Source!Item
<1>3. Losses'
  BY LostFrame DEF SeedInv, Losses
<1> QED BY <1>1, <1>2, <1>3 DEF SeedInv

LEMMA ShownFrame == SeedInv /\ UNCHANGED <<post, feed>> => Shown'
  BY DEF SeedInv, Shown

LEMMA SeedsUpdated ==
  ASSUME NEW id, NEW field, NEW value, Source!Update(id, field, value)
  PROVE  DOMAIN seeds' = DOMAIN seeds
  BY DEF Source!Update

LEMMA SeedAnnounce ==
  ASSUME SeedInv, NEW t \in Releases, Source!Announce(t)
  PROVE  SeedInv'
<1>1. PICK item \in Posts[t] : post' = [post EXCEPT ![t] = item]
  BY DEF Source!Announce
<1>2. /\ feed' = SubSeq(<<t>> \o feed, 1, IF Len(feed) < Window THEN Len(feed) + 1 ELSE Window)
      /\ UNCHANGED <<seen, seeds, poll, faults, ingested, born>>
  BY DEF Source!Announce, Source!history
<1>3. item # None /\ item \in Items
  BY FeedParameters DEF Source!FeedAssumption, Items
<1> DEFINE s == <<t>> \o feed
           k == IF Len(feed) < Window THEN Len(feed) + 1 ELSE Window
<1>4. feed \in Seq(Releases) /\ Window \in Nat
  BY FeedParameters DEF SeedInv, Shown, Source!FeedAssumption
<1>5. /\ s \in Seq(Releases) /\ Len(s) = Len(feed) + 1 /\ s[1] = t
      /\ \A n \in 2 .. Len(s) : n - 1 \in DOMAIN feed /\ s[n] = feed[n - 1]
  BY <1>4
<1>6. k \in 0 .. Len(s)
  BY <1>4, <1>5
<1> HIDE DEF s, k
<1>7. /\ feed' = SubSeq(s, 1, k) /\ feed' \in Seq(Releases)
      /\ \A n \in DOMAIN feed' : n \in 1 .. Len(s) /\ feed'[n] = s[n]
  BY <1>2, <1>5, <1>6 DEF s, k
<1>8. \A q \in Releases : post'[q] = IF q = t THEN item ELSE post[q]
  BY <1>1 DEF SeedInv, Shown
<1>9. ASSUME NEW n \in DOMAIN feed' PROVE post'[feed'[n]] # None
  <2>1. n = 1 \/ n \in 2 .. Len(s)
    BY <1>5, <1>7
  <2>2. CASE n = 1
    BY <1>3, <1>5, <1>7, <1>8, <2>2
  <2>3. CASE n \in 2 .. Len(s)
    <3>1. feed'[n] = feed[n - 1] /\ n - 1 \in DOMAIN feed /\ feed[n - 1] \in Releases
      BY <1>4, <1>5, <1>7, <2>3
    <3> QED BY <1>3, <1>8, <3>1 DEF SeedInv, Shown
  <2> QED BY <2>1, <2>2, <2>3
<1>10. Shown'
  BY <1>1, <1>3, <1>7, <1>8, <1>9 DEF SeedInv, Shown
<1> QED BY <1>2, <1>10, SeedFrame

LEMMA SeedEdit ==
  ASSUME SeedInv, NEW t \in Releases, Source!Edit(t)
  PROVE  SeedInv'
<1>1. PICK item \in Posts[t] : post' = [post EXCEPT ![t] = item]
  BY DEF Source!Edit
<1>2. UNCHANGED <<feed, seen, seeds, poll, faults, ingested, born>>
  BY DEF Source!Edit, Source!history
<1>3. item # None /\ item \in Items
  BY FeedParameters DEF Source!FeedAssumption, Items
<1>4. \A q \in Releases : post'[q] = IF q = t THEN item ELSE post[q]
  BY <1>1 DEF SeedInv, Shown
<1>5. \A n \in DOMAIN feed : feed[n] \in Releases
  BY DEF SeedInv, Shown
<1>6. Shown'
  BY <1>1, <1>2, <1>3, <1>4, <1>5 DEF SeedInv, Shown
<1> QED BY <1>2, <1>6, SeedFrame

(* The poller is between two items, or before a poll.                        *)
LEMMA SeedFetch == SeedInv /\ Source!FetchRSS => SeedInv'
<1> SUFFICES ASSUME SeedInv, Source!FetchRSS PROVE SeedInv'
  OBVIOUS
<1> DEFINE fetched == [n \in DOMAIN feed |-> post[feed[n]]]
<1>1. /\ poll = Source!NoPoll /\ poll' = [items |-> fetched, marked |-> FALSE]
      /\ UNCHANGED <<post, feed, seen, seeds, faults, ingested, born>>
  BY DEF Source!FetchRSS, Source!site, Source!history
<1>2. fetched \in Seq(Items)
  <2>1. feed \in Seq(Releases) /\ DOMAIN feed = 1 .. Len(feed) /\ Len(feed) \in Nat
    BY DEF SeedInv, Shown
  <2>2. ASSUME NEW n \in DOMAIN feed PROVE post[feed[n]] \in Items
    <3>1. feed[n] \in Releases /\ post[feed[n]] # None
      BY <2>1 DEF SeedInv, Shown
    <3> QED BY <3>1 DEF SeedInv, Shown
  <2> QED BY <2>1, <2>2
<1> HIDE DEF fetched
<1>3. /\ poll.marked = FALSE /\ poll'.marked = FALSE
      /\ poll' \in [items : Seq(Items), marked : BOOLEAN]
  BY <1>1, <1>2 DEF Source!NoPoll
<1>4. Shown'
  BY <1>1, ShownFrame
<1>5. Marks'
  BY <1>1, <1>3 DEF SeedInv, Marks
<1>6. Source!Lost' = Source!Lost
  BY <1>1, <1>3 DEF Source!Lost
<1>7. Losses'
  BY <1>1, <1>6 DEF SeedInv, Losses
<1> QED BY <1>3, <1>4, <1>5, <1>7 DEF SeedInv, Polled

LEMMA SeedIngest == SeedInv /\ Source!Ingest => SeedInv'
<1> SUFFICES ASSUME SeedInv, Source!Ingest PROVE SeedInv'
  OBVIOUS
<1> DEFINE id == Source!GuidToInfohash(Source!Item)
           passes == Source!ItemMatchesStrategy(Source!Item, strategy)
<1>1. /\ poll.items # <<>> /\ ~poll.marked
      /\ seen' = IF passes THEN seen \cup {id} ELSE seen
      /\ ingested' = IF passes THEN ingested \cup {Source!Item.of} ELSE ingested
      /\ poll' = IF passes /\ id \notin seen /\ id \notin DOMAIN seeds
                 THEN [poll EXCEPT !.marked = TRUE] ELSE Source!NextItem
      /\ UNCHANGED <<post, feed, seeds, faults, born>>
  BY DEF Source!Ingest, Source!site
<1>2. /\ Source!Item \in Items
      /\ Source!NextItem \in [items : Seq(Items), marked : BOOLEAN]
      /\ Source!NextItem.marked = FALSE
  BY <1>1, NextItems DEF SeedInv
<1>3. id[2] = Source!Item.of /\ Source!Item.of \in Releases
  BY <1>2, Identity
<1> HIDE DEF id, passes
<1>4. Shown'
  BY <1>1, ShownFrame
<1>5. CASE ~ passes
  <2>1. UNCHANGED <<seen, ingested>> /\ poll' = Source!NextItem
    BY <1>1, <1>5
  <2>2. Polled'
    BY <1>2, <2>1 DEF Polled
  <2>3. Marks'
    BY <1>1, <1>2, <2>1 DEF SeedInv, Marks
  <2>4. Source!Lost' = Source!Lost
    BY <1>1, <1>2, <2>1 DEF Source!Lost
  <2>5. Losses'
    BY <1>1, <2>1, <2>4 DEF SeedInv, Losses
  <2> QED BY <1>4, <2>2, <2>3, <2>5 DEF SeedInv
<1>6. CASE passes /\ id \in seen
  <2>1. Source!Item.of \in ingested
    BY <1>3, <1>6 DEF SeedInv, Marks
  <2>2. UNCHANGED <<seen, ingested>> /\ poll' = Source!NextItem
    BY <1>1, <1>6, <2>1
  <2>3. Polled'
    BY <1>2, <2>2 DEF Polled
  <2>4. Marks'
    BY <1>1, <1>2, <2>2 DEF SeedInv, Marks
  <2>5. Source!Lost' = Source!Lost
    BY <1>1, <1>2, <2>2 DEF Source!Lost
  <2>6. Losses'
    BY <1>1, <2>2, <2>5 DEF SeedInv, Losses
  <2> QED BY <1>4, <2>3, <2>4, <2>6 DEF SeedInv
<1>7. CASE passes /\ id \notin seen
  <2>1. /\ id \notin DOMAIN seeds
        /\ seen' = seen \cup {id} /\ ingested' = ingested \cup {Source!Item.of}
        /\ poll' = [poll EXCEPT !.marked = TRUE]
    BY <1>1, <1>7 DEF SeedInv, Marks
  <2>2. poll \in [items : Seq(Items), marked : BOOLEAN]
    BY DEF SeedInv, Polled
  <2>3. poll'.items = poll.items /\ poll'.marked = TRUE
        /\ poll' \in [items : Seq(Items), marked : BOOLEAN]
    BY <2>1, <2>2
  <2>4. Source!Item' = Source!Item
    BY <2>3 DEF Source!Item
  <2>5. Polled'
    BY <1>1, <2>3 DEF Polled
  <2>6. Marks'
    <3>1. \A row \in born : row[1] # id
      BY <1>7 DEF SeedInv, Marks
    <3>2. Source!GuidToInfohash(Source!Item') = id
      BY <2>4 DEF id
    <3>3. DOMAIN seeds' \subseteq seen' /\ \A row \in born' : row[1] \in seen' /\ row[1] # id
      BY <1>1, <2>1, <3>1 DEF SeedInv, Marks
    <3>4. \A x \in seen' : x[2] \in ingested'
      BY <1>3, <2>1 DEF SeedInv, Marks
    <3>5. id \in seen'
      BY <2>1
    <3> QED BY <3>2, <3>3, <3>4, <3>5 DEF Marks
  <2>7. Source!Lost' \subseteq Source!Lost
    <3>1. Source!Item.of \notin Source!Lost'
      BY <2>3, <2>4 DEF Source!Lost
    <3> QED BY <1>1, <2>1, <2>3, <2>4, <3>1 DEF Source!Lost
  <2>8. Losses'
    <3>1. IsFiniteSet(ingested') /\ ingested' \subseteq Releases
      BY <1>3, <2>1, FS_AddElement DEF SeedInv, Losses
    <3>2. IsFiniteSet(Source!Lost)
      BY FS_Subset DEF SeedInv, Losses, Source!Lost
    <3>3. IsFiniteSet(Source!Lost') /\ Cardinality(Source!Lost') <= Cardinality(Source!Lost)
      BY <2>7, <3>2, FS_Subset
    <3>4. Cardinality(Source!Lost) \in Nat /\ Cardinality(Source!Lost') \in Nat
      BY <3>2, <3>3, FS_CardinalityType
    <3> QED BY <1>1, <3>1, <3>3, <3>4 DEF SeedInv, Losses
  <2> QED BY <1>4, <2>5, <2>6, <2>8 DEF SeedInv
<1> QED BY <1>5, <1>6, <1>7

LEMMA SeedCreate == SeedInv /\ Source!CreateSeed => SeedInv'
<1> SUFFICES ASSUME SeedInv, Source!CreateSeed PROVE SeedInv'
  OBVIOUS
<1> DEFINE id == Source!GuidToInfohash(Source!Item)
<1>1. /\ poll.marked /\ poll' = Source!NextItem
      /\ DOMAIN seeds' = DOMAIN seeds \cup {id}
      /\ born' = born \cup {<<id, Source!Item.of>>}
      /\ UNCHANGED <<post, feed, seen, faults, ingested>>
  BY DEF Source!CreateSeed, Source!site
<1>2. poll.items # <<>>
  BY <1>1 DEF SeedInv, Polled
<1>3. /\ Source!Item \in Items /\ Source!Item.of \in Releases
      /\ Source!NextItem \in [items : Seq(Items), marked : BOOLEAN]
      /\ Source!NextItem.marked = FALSE
  BY <1>2, NextItems, Identity DEF SeedInv
<1>4. id \in seen
  BY <1>1 DEF SeedInv, Marks
<1> HIDE DEF id
<1>5. Polled' /\ Shown'
  BY <1>1, <1>3, ShownFrame DEF Polled
<1>6. Marks'
  BY <1>1, <1>3, <1>4 DEF SeedInv, Marks
<1>7. Source!Lost' = Source!Lost
  <2> DEFINE t0 == Source!Item.of
             had == {t \in Releases : \E row \in born : row[2] = t}
             has == {t \in Releases : \E row \in born' : row[2] = t}
  <2>1. has = had \cup {t0}
    <3>1. <<id, t0>>[2] = t0 /\ t0 \in Releases
      BY <1>3
    <3>2. \A row : row \in born' <=> row \in born \/ row = <<id, t0>>
      BY <1>1
    <3> HIDE DEF t0
    <3> QED BY <3>1, <3>2
  <2>2. Source!Lost = ingested \ (had \cup {t0})
    BY <1>1 DEF Source!Lost
  <2>3. Source!Lost' = ingested \ has
    BY <1>1, <1>3 DEF Source!Lost
  <2> QED BY <2>1, <2>2, <2>3
<1>8. Losses'
  BY <1>1, <1>7 DEF SeedInv, Losses
<1> QED BY <1>5, <1>6, <1>8 DEF SeedInv

(* A failed INSERT or a crash loses at most the item that was marked.        *)
LEMMA OneLost ==
  ASSUME SeedInv, Shown', Polled', UNCHANGED <<seen, ingested, born>>,
         DOMAIN seeds' \subseteq DOMAIN seeds, poll'.marked = FALSE, faults' = faults + 1
  PROVE  SeedInv'
<1>1. Marks'
  BY DEF SeedInv, Marks
<1>2. Source!Lost' \subseteq Source!Lost \cup {Source!Item.of}
  BY DEF Source!Lost
<1>3. Losses'
  <2>1. IsFiniteSet(Source!Lost)
    BY FS_Subset DEF SeedInv, Losses, Source!Lost
  <2>2. /\ IsFiniteSet(Source!Lost \cup {Source!Item.of})
        /\ Cardinality(Source!Lost \cup {Source!Item.of}) <= Cardinality(Source!Lost) + 1
    <3>1. Cardinality(Source!Lost) \in Nat
      BY <2>1, FS_CardinalityType
    <3> QED BY <2>1, <3>1, FS_AddElement
  <2>3. /\ IsFiniteSet(Source!Lost')
        /\ Cardinality(Source!Lost') <= Cardinality(Source!Lost \cup {Source!Item.of})
    BY <1>2, <2>2, FS_Subset
  <2>4. /\ Cardinality(Source!Lost) \in Nat /\ Cardinality(Source!Lost') \in Nat
        /\ Cardinality(Source!Lost \cup {Source!Item.of}) \in Nat
    BY <2>1, <2>2, <2>3, FS_CardinalityType
  <2> QED BY <2>2, <2>3, <2>4 DEF SeedInv, Losses
<1> QED BY <1>1, <1>3 DEF SeedInv

LEMMA SeedFails == SeedInv /\ (Source!CreateFails \/ Source!Restart) => SeedInv'
<1> SUFFICES ASSUME SeedInv, Source!CreateFails \/ Source!Restart PROVE SeedInv'
  OBVIOUS
<1>1. /\ UNCHANGED <<post, feed, seen, ingested, born>> /\ faults' = faults + 1
      /\ DOMAIN seeds' = DOMAIN seeds
  BY DEF Source!CreateFails, Source!Restart, Source!site, Source!history
<1>2. poll'.marked = FALSE /\ Polled'
  <2>1. CASE Source!CreateFails
    <3>1. poll.items # <<>> /\ poll' = Source!NextItem
      BY <2>1 DEF Source!CreateFails, SeedInv, Polled
    <3>2. Source!NextItem \in [items : Seq(Items), marked : BOOLEAN]
          /\ Source!NextItem.marked = FALSE
      BY <3>1, NextItems DEF SeedInv
    <3> QED BY <3>1, <3>2 DEF Polled
  <2>2. CASE Source!Restart
    BY <2>2 DEF Source!Restart, Source!NoPoll, Polled
  <2> QED BY <2>1, <2>2
<1> QED BY <1>1, <1>2, ShownFrame, OneLost

LEMMA SeedMoves == SeedInv /\ [Source!Next]_(Source!vars) => SeedInv'
<1> SUFFICES ASSUME SeedInv, [Source!Next]_(Source!vars) PROVE SeedInv'
  OBVIOUS
<1>1. CASE \E t \in Releases : Source!Announce(t) \/ Source!Edit(t)
  BY <1>1, SeedAnnounce, SeedEdit
<1>2. CASE \/ Source!SaveStrategy \/ Source!Locate \/ UNCHANGED Source!vars
  <2>1. UNCHANGED <<post, feed, seen, seeds, poll, faults, ingested, born>>
    BY <1>2 DEF Source!SaveStrategy, Source!Locate, Source!vars, Source!site, Source!history
  <2> QED BY <2>1, ShownFrame, SeedFrame
<1>3. CASE \E id \in DOMAIN seeds : Source!DeleteSeed(id)
  <2>1. UNCHANGED <<post, feed, seen, poll, faults, ingested, born>>
        /\ DOMAIN seeds' \subseteq DOMAIN seeds
    BY <1>3 DEF Source!DeleteSeed, Source!history
  <2> QED BY <2>1, ShownFrame, SeedFrame
<1>4. CASE \/ \E id \in DOMAIN seeds : Source!Begin(id)
           \/ Source!FetchDetail \/ Source!Filter \/ Source!Download \/ Source!Fail
  <2>1. UNCHANGED <<post, feed, seen, poll, faults, ingested, born>>
    BY <1>4 DEF Source!Begin, Source!FetchDetail, Source!AskAPI, Source!ReadPage,
       Source!Filter, Source!Download,
       Source!Fail, Source!site, Source!history
  <2>2. \/ UNCHANGED seeds \/ \E id, field, value : Source!Update(id, field, value)
    BY <1>4 DEF Source!Begin, Source!FetchDetail, Source!AskAPI, Source!ReadPage,
       Source!Filter, Source!Download, Source!Fail
  <2>3. DOMAIN seeds' = DOMAIN seeds
    BY <2>2, SeedsUpdated
  <2> QED BY <2>1, <2>3, ShownFrame, SeedFrame
<1> QED BY <1>1, <1>2, <1>3, <1>4, SeedFetch, SeedIngest, SeedCreate, SeedFails
     DEF Source!Next

LEMMA NeverAgain ==
  ASSUME SeedInv, [Source!Next]_(Source!vars)
  PROVE  \A id \in DOMAIN seeds' \ DOMAIN seeds : \A row \in born : row[1] # id
<1>1. CASE Source!CreateSeed
  <2>1. DOMAIN seeds' = DOMAIN seeds \cup {Source!GuidToInfohash(Source!Item)} /\ poll.marked
    BY <1>1 DEF Source!CreateSeed
  <2> QED BY <2>1 DEF SeedInv, Marks
<1>2. CASE ~ Source!CreateSeed
  <2>1. DOMAIN seeds' \subseteq DOMAIN seeds
    <3>1. CASE \/ \E id \in DOMAIN seeds : Source!Begin(id)
               \/ Source!FetchDetail \/ Source!Filter \/ Source!Download \/ Source!Fail
      <4>1. \/ UNCHANGED seeds \/ \E id, field, value : Source!Update(id, field, value)
        BY <3>1 DEF Source!Begin, Source!FetchDetail, Source!AskAPI, Source!ReadPage,
           Source!Filter, Source!Download,
           Source!Fail
      <4> QED BY <4>1, SeedsUpdated
    <3>2. CASE \/ \E t \in Releases : Source!Announce(t) \/ Source!Edit(t)
               \/ Source!SaveStrategy \/ \E id \in DOMAIN seeds : Source!DeleteSeed(id)
               \/ Source!FetchRSS \/ Source!Ingest \/ Source!CreateFails
               \/ Source!Locate \/ Source!Restart \/ UNCHANGED Source!vars
      BY <3>2 DEF Source!Announce, Source!Edit, Source!SaveStrategy, Source!DeleteSeed,
         Source!FetchRSS, Source!Ingest, Source!CreateFails, Source!Locate, Source!Restart,
         Source!vars
    <3> QED BY <1>2, <3>1, <3>2 DEF Source!Next
  <2> QED BY <2>1
<1> QED BY <1>1, <1>2

LEMMA FeedCorrect == PartsSpec => []SeedInv
<1>1. PartsInit => SeedInv
  BY SeedInit DEF PartsInit
<1> QED BY <1>1, SeedMoves, FeedPart, PTL DEF PartsSpec

(* Every announced torrent becomes a seed once: a crash or a failed INSERT   *)
(* between tombstone and row loses at most the torrent in hand, none is lost *)
(* in another's identity, and what was once a seed is never one again        *)
(* (ingestItem, GuidToInfohash, MarkSeen).                                   *)
THEOREM NoneTwiceNoneLost == PartsSpec => SeedPerItem
<1>1. ASSUME NEW set PROVE Source!Cardinality(set) = Cardinality(set)
  BY Zenon DEF Source!Cardinality, Cardinality
<1>2. SeedInv => Source!Cardinality(Source!Lost) <= faults
  BY <1>1 DEF SeedInv, Losses
<1>3. SeedInv /\ [Source!Next]_(Source!vars) =>
        [\A id \in DOMAIN seeds' \ DOMAIN seeds : \A row \in born : row[1] # id]_(Source!vars)
  BY NeverAgain
<1> QED BY <1>2, <1>3, FeedCorrect, FeedPart, PTL
     DEF PartsSpec, SeedPerItem, Source!SeedPerItem, Source!NeverReborn

-----------------------------------------------------------------------------
(* The publication.  What an adapter was given is one of the readings of the *)
(* row it was built from, and its form follows from both.                    *)
SiteTypes == {Upload!NexusPHP, Upload!Classic, Upload!MTeam}
Formed(j) ==
  /\ DOMAIN j = {"req", "row", "cfg", "probed", "form", "at"} /\ j.at \in {"page", "post"}
  /\ j.cfg \in Upload!SiteConfigs(j.row)
  /\ j.form = Upload!Form(j.cfg, j.req, Upload!ResolveCategoryID(j.req.key, j.cfg, <<>>))
UploadInv ==
  /\ site \in [type : SiteTypes, session : BOOLEAN, copy : {"none", "ours", "others"}]
  /\ DOMAIN config = Upload!Columns /\ Upload!AdapterType(config) = site.type
  /\ job # None => Formed(job) /\ job.cfg.type = site.type
  /\ Upload!UploadFaithful

LEMMA Distinguished ==
  Upload!NexusPHP # Upload!Classic /\ Upload!NexusPHP # Upload!MTeam
    /\ Upload!Classic # Upload!MTeam
  BY DEF Upload!NexusPHP, Upload!Classic, Upload!MTeam

(* An answer is taken for what the site met.                                 *)
LEMMA Understood ==
  ASSUME NEW type \in SiteTypes, NEW met \in {"credentials", "exists", "accepted", "refused"},
         NEW answer \in Upload!Answers(type, met), answer.id # "existing"
  PROVE  /\ (Upload!Classify(type, answer) = "ok") <=> (met = "accepted")
         /\ (Upload!Classify(type, answer) = "duplicate") <=> (met = "exists")
         /\ (Upload!Classify(type, answer) = "auth") <=> (met = "credentials")
<1>1. None # "new"
  BY UploadParameters DEF Upload!UploadAssumption
<1>2. CASE met = "credentials"
  <2>1. Upload!IsAuth(type, answer)
    <3>1. CASE type = Upload!NexusPHP
      <4>1. answer \in {[Upload!Answer EXCEPT !.status = 401]}
        BY <1>2, <3>1, Distinguished DEF Upload!Answers
      <4> QED BY <4>1 DEF Upload!Answer, Upload!IsAuth
    <3>2. CASE type = Upload!MTeam
      <4> DEFINE reply(s) == [Upload!Answer EXCEPT !.status = s, !.words = "auth"]
      <4>1. answer \in {reply(s) : s \in {200, 401, 403}}
        BY <1>2, <3>2, Distinguished DEF Upload!Answers
      <4>2. \A s : reply(s).words = "auth"
        BY DEF Upload!Answer
      <4> HIDE DEF reply
      <4>3. answer.words = "auth"
        BY <4>1, <4>2
      <4> QED BY <3>2, <4>3, Distinguished DEF Upload!IsAuth
    <3>3. CASE type = Upload!Classic
      <4>1. answer \in {[Upload!Answer EXCEPT !.status = 302, !.location = "login"],
                       [Upload!Answer EXCEPT !.words = "auth"]}
        BY <1>2, <3>3, Distinguished DEF Upload!Answers
      <4>2. answer.location = "login" \/ answer.words = "auth"
        BY <4>1 DEF Upload!Answer
      <4> QED BY <3>3, <4>2, Distinguished DEF Upload!IsAuth
    <3> QED BY <3>1, <3>2, <3>3 DEF SiteTypes
  <2> QED BY <1>2, <2>1 DEF Upload!Classify
<1>3. CASE met = "exists"
  <2>1. /\ answer.words = "dup" /\ answer.status \in {200, 409, 422} /\ answer.location = "none"
        /\ type = Upload!Classic => answer.id = None
    <3> DEFINE reply(s) == [Upload!Answer EXCEPT !.status = s, !.words = "dup", !.code = 1]
               linked == [Upload!Answer EXCEPT !.words = "dup", !.id = "existing"]
    <3>1. answer \in {reply(s) : s \in IF type = Upload!Classic THEN {200} ELSE {200, 409, 422}}
                     \cup (IF type = Upload!Classic THEN {linked} ELSE {})
      BY <1>3 DEF Upload!Answers
    <3>2. \A s : /\ reply(s).words = "dup" /\ reply(s).status = s
                 /\ reply(s).location = "none" /\ reply(s).id = None
      BY DEF Upload!Answer
    <3>3. linked.id = "existing"
      BY DEF Upload!Answer
    <3> HIDE DEF reply, linked
    <3> QED BY <3>1, <3>2, <3>3
  <2>2. ~ Upload!IsAuth(type, answer)
    BY <2>1 DEF Upload!IsAuth
  <2> QED BY <1>3, <2>1, <2>2 DEF Upload!Classify, Upload!IsDuplicate
<1>4. CASE met = "accepted"
  <2>1. /\ answer.id = "new" /\ answer.words = "none"
        /\ type = Upload!Classic => answer.status = 302 /\ answer.location = "details"
        /\ type # Upload!Classic => answer.status = 200 /\ answer.location = "none"
    <3>1. CASE type = Upload!Classic
      <4>1. answer = [Upload!Answer EXCEPT !.status = 302, !.location = "details", !.id = "new"]
        BY <1>4, <3>1 DEF Upload!Answers
      <4> QED BY <3>1, <4>1 DEF Upload!Answer
    <3>2. CASE type # Upload!Classic
      <4>1. answer = [Upload!Answer EXCEPT !.code = 0, !.id = "new"]
        BY <1>4, <3>2 DEF Upload!Answers
      <4> QED BY <3>2, <4>1 DEF Upload!Answer
    <3> QED BY <3>1, <3>2
  <2>2. ~ Upload!IsAuth(type, answer) /\ ~ Upload!IsDuplicate(answer)
    BY <2>1 DEF Upload!IsAuth, Upload!IsDuplicate
  <2> QED BY <1>1, <1>4, <2>1, <2>2 DEF Upload!Classify
<1>5. CASE met = "refused"
  <2>1. answer.status \in {200, 422, 500} /\ answer.code = 1 /\ answer.id = None
        /\ answer.words = "none" /\ answer.location = "none"
    <3>1. answer \in {[Upload!Answer EXCEPT !.status = s, !.code = 1] : s \in {200, 422, 500}}
      BY <1>5 DEF Upload!Answers
    <3>2. PICK s \in {200, 422, 500} : answer = [Upload!Answer EXCEPT !.status = s, !.code = 1]
      BY <3>1
    <3> QED BY <3>2 DEF Upload!Answer
  <2>2. ~ Upload!IsAuth(type, answer) /\ ~ Upload!IsDuplicate(answer)
    BY <2>1 DEF Upload!IsAuth, Upload!IsDuplicate
  <2> QED BY <1>5, <2>1, <2>2 DEF Upload!Classify
<1> QED BY <1>2, <1>3, <1>4, <1>5

(* Whatever spelling of a name wins, its value is one the row gives it.      *)
LEMMA IntMap ==
  ASSUME NEW map, NEW f \in Upload!NormalizeIntMap(map)
  PROVE  /\ DOMAIN f = {Upload!NormToken(n) : n \in DOMAIN map}
         /\ \A t \in DOMAIN f : \E n \in DOMAIN map : Upload!NormToken(n) = t /\ map[n] = f[t]
  BY DEF Upload!NormalizeIntMap

LEMMA Dims ==
  ASSUME NEW dims, NEW f \in Upload!NormalizeDims(dims)
  PROVE  /\ DOMAIN f = {Upload!CanonicalDimKind(k) : k \in DOMAIN dims}
         /\ \A c \in DOMAIN f : \E k \in DOMAIN dims :
              Upload!CanonicalDimKind(k) = c /\ f[c] \in Upload!NormalizeIntMap(dims[k])
  BY DEF Upload!NormalizeDims

(* SentAsConfigured of one publication.                                      *)
AsConfigured(sent, req, row) ==
  LET named == {n \in DOMAIN row.overrides :
                  ~Upload!IsDigits(req.key) /\ Upload!NormToken(n) = Upload!NormToken(req.key)}
      kinds == {k \in DOMAIN row.codecs : Upload!CanonicalDimKind(k) = "codec"}
      plain == IF Upload!IsDigits(req.codec) THEN Upload!NormToken(req.codec) ELSE None
      coded(k) == {n \in DOMAIN row.codecs[k] : Upload!NormToken(n) = Upload!NormToken(req.codec)}
  IN /\ IF Upload!IsDigits(req.key) THEN sent.category = Upload!NormToken(req.key)
        ELSE IF named # {} THEN \E n \in named : sent.category = row.overrides[n]
        ELSE sent.category = row.fallback
     /\ Upload!AdapterType(row) # Upload!Classic =>
          IF kinds = {} THEN sent.codec = plain
          ELSE \E k \in kinds :
                 IF coded(k) = {} THEN sent.codec = plain
                 ELSE \E n \in coded(k) : sent.codec = row.codecs[k][n]

LEMMA FormAsConfigured ==
  ASSUME NEW row, NEW req, NEW cfg \in Upload!SiteConfigs(row)
  PROVE  AsConfigured(Upload!Form(cfg, req, Upload!ResolveCategoryID(req.key, cfg, <<>>)),
                      req, row)
<1> DEFINE tok == Upload!NormToken(req.key)
           name == Upload!NormToken(req.codec)
           named == {n \in DOMAIN row.overrides :
                       ~Upload!IsDigits(req.key) /\ Upload!NormToken(n) = tok}
           kinds == {k \in DOMAIN row.codecs : Upload!CanonicalDimKind(k) = "codec"}
           plain == IF Upload!IsDigits(req.codec) THEN name ELSE None
           coded(k) == {n \in DOMAIN row.codecs[k] : Upload!NormToken(n) = name}
           cat == Upload!ResolveCategoryID(req.key, cfg, <<>>)
           codec == Upload!ResolveDimID(req.codec, "codec", cfg)
<1>1. /\ cfg.type = Upload!AdapterType(row) /\ cfg.fallback = row.fallback
      /\ cfg.overrides \in Upload!NormalizeIntMap(row.overrides)
      /\ cfg.dims \in Upload!NormalizeDims(row.codecs)
  BY DEF Upload!SiteConfigs
<1>2. IF Upload!IsDigits(req.key) THEN cat = tok
      ELSE IF named # {} THEN \E n \in named : cat = row.overrides[n]
      ELSE cat = row.fallback
  <2>1. cat = IF Upload!IsDigits(req.key) THEN tok
                   ELSE IF tok \in DOMAIN cfg.overrides THEN cfg.overrides[tok]
                   ELSE cfg.fallback
    BY DEF Upload!ResolveCategoryID
  <2>0. /\ DOMAIN cfg.overrides = {Upload!NormToken(n) : n \in DOMAIN row.overrides}
        /\ \A t \in DOMAIN cfg.overrides : \E n \in DOMAIN row.overrides :
             Upload!NormToken(n) = t /\ row.overrides[n] = cfg.overrides[t]
    <3> DEFINE map == row.overrides
               f == cfg.overrides
    <3>1. f \in Upload!NormalizeIntMap(map)
      BY <1>1
    <3> HIDE DEF map, f
    <3>2. DOMAIN f = {Upload!NormToken(n) : n \in DOMAIN map}
      BY <3>1, IntMap
    <3>3. \A t \in DOMAIN f : \E n \in DOMAIN map : Upload!NormToken(n) = t /\ map[n] = f[t]
      BY <3>1, IntMap
    <3> QED BY <3>2, <3>3 DEF map, f
  <2>2. CASE Upload!IsDigits(req.key)
    BY <2>1, <2>2
  <2>3. CASE ~ Upload!IsDigits(req.key) /\ tok \in DOMAIN cfg.overrides
    <3>1. cat = cfg.overrides[tok]
      BY <2>1, <2>3
    <3>2. PICK n \in DOMAIN row.overrides :
            Upload!NormToken(n) = tok /\ row.overrides[n] = cfg.overrides[tok]
      BY <2>0, <2>3
    <3>3. n \in named
      BY <2>3, <3>2
    <3> HIDE DEF cat, named
    <3> QED BY <2>3, <3>1, <3>2, <3>3
  <2>4. CASE ~ Upload!IsDigits(req.key) /\ tok \notin DOMAIN cfg.overrides
    <3>1. cat = row.fallback
      BY <1>1, <2>1, <2>4
    <3>2. named = {}
      BY <2>0, <2>4
    <3> QED BY <2>4, <3>1, <3>2
  <2> QED BY <2>2, <2>3, <2>4
<1>3. IF kinds = {} THEN codec = plain
      ELSE \E k \in kinds : IF coded(k) = {} THEN codec = plain
                            ELSE \E n \in coded(k) : codec = row.codecs[k][n]
  <2>1. codec = IF "codec" \in DOMAIN cfg.dims /\ name \in DOMAIN cfg.dims["codec"]
                THEN cfg.dims["codec"][name] ELSE plain
    BY DEF Upload!ResolveDimID
  <2>0. /\ DOMAIN cfg.dims = {Upload!CanonicalDimKind(k) : k \in DOMAIN row.codecs}
        /\ \A c \in DOMAIN cfg.dims : \E k \in DOMAIN row.codecs :
             /\ Upload!CanonicalDimKind(k) = c
             /\ cfg.dims[c] \in Upload!NormalizeIntMap(row.codecs[k])
    BY <1>1, Dims
  <2>2. CASE "codec" \notin DOMAIN cfg.dims
    <3>1. kinds = {}
      BY <2>0, <2>2
    <3> QED BY <2>1, <2>2, <3>1
  <2>3. CASE "codec" \in DOMAIN cfg.dims
    <3>1. PICK k \in DOMAIN row.codecs :
            /\ Upload!CanonicalDimKind(k) = "codec"
            /\ cfg.dims["codec"] \in Upload!NormalizeIntMap(row.codecs[k])
      BY <2>0, <2>3
    <3>2. k \in kinds
      BY <3>1
    <3> DEFINE map == row.codecs[k]
               f == cfg.dims["codec"]
    <3>0. /\ DOMAIN f = {Upload!NormToken(n) : n \in DOMAIN map}
          /\ \A t \in DOMAIN f : \E n \in DOMAIN map : Upload!NormToken(n) = t /\ map[n] = f[t]
      <4> HIDE DEF map, f
      <4>1. f \in Upload!NormalizeIntMap(map)
        BY <3>1 DEF map, f
      <4>2. DOMAIN f = {Upload!NormToken(n) : n \in DOMAIN map}
        BY <4>1, IntMap
      <4>3. \A t \in DOMAIN f : \E n \in DOMAIN map : Upload!NormToken(n) = t /\ map[n] = f[t]
        BY <4>1, IntMap
      <4> QED BY <4>2, <4>3
    <3>3. CASE name \in DOMAIN cfg.dims["codec"]
      <4>1. PICK n \in DOMAIN row.codecs[k] :
              Upload!NormToken(n) = name /\ row.codecs[k][n] = cfg.dims["codec"][name]
        BY <3>0, <3>3
      <4>2. n \in coded(k) /\ codec = row.codecs[k][n]
        BY <2>1, <2>3, <3>3, <4>1
      <4> QED BY <3>2, <4>2
    <3>4. CASE name \notin DOMAIN cfg.dims["codec"]
      <4>1. coded(k) = {}
        BY <3>0, <3>4
      <4> QED BY <2>1, <3>2, <3>4, <4>1
    <3> QED BY <3>3, <3>4
  <2> QED BY <2>2, <2>3
<1>4. /\ Upload!Form(cfg, req, cat).category = cat
      /\ cfg.type # Upload!Classic => Upload!Form(cfg, req, cat).codec = codec
  BY DEF Upload!Form
<1> QED BY <1>1, <1>2, <1>3, <1>4 DEF AsConfigured

LEMMA UploadInit == Upload!Init => UploadInv
<1> SUFFICES ASSUME Upload!Init PROVE UploadInv
  OBVIOUS
<1>1. /\ site \in [type : SiteTypes, session : BOOLEAN, copy : {"none", "ours", "others"}]
      /\ DOMAIN config = Upload!Columns /\ Upload!AdapterType(config) = site.type
      /\ job = None /\ last = Upload!NoLast
  BY UploadParameters DEF Upload!Init, SiteTypes, Upload!UploadAssumption
<1>2. last.met = "nothing" /\ last.sent = None
  BY <1>1 DEF Upload!NoLast
<1>3. Upload!UploadFaithful
  BY <1>2 DEF Upload!UploadFaithful, Upload!AnswersUnderstood, Upload!SentAsConfigured
<1> QED BY <1>1, <1>3 DEF UploadInv

(* A publication that ended before anything was sent.                        *)
LEMMA NothingSent ==
  ASSUME \/ \E req, row, result : Upload!Returned(req, row, result)
         \/ last' = Upload!NoLast
  PROVE  Upload!UploadFaithful'
<1>1. last'.met = "nothing" /\ last'.sent = None
  <2>1. CASE last' = Upload!NoLast
    BY <2>1 DEF Upload!NoLast
  <2>2. CASE \E req, row, result : Upload!Returned(req, row, result)
    <3>1. PICK req, row, result : Upload!Returned(req, row, result)
      BY <2>2
    <3>2. last' = [Upload!NoLast EXCEPT !.req = req, !.row = row, !.result = result]
      BY <3>1 DEF Upload!Returned
    <3> QED BY <3>2 DEF Upload!NoLast
  <2> QED BY <2>1, <2>2
<1> QED BY <1>1 DEF Upload!UploadFaithful, Upload!AnswersUnderstood, Upload!SentAsConfigured

LEMMA FaithfulFrame ==
  ASSUME Upload!UploadFaithful, last' = last
  PROVE  Upload!UploadFaithful'
  BY DEF Upload!UploadFaithful, Upload!AnswersUnderstood, Upload!SentAsConfigured

LEMMA UploadBegin == UploadInv /\ Upload!Begin => UploadInv'
<1> SUFFICES ASSUME UploadInv, Upload!Begin PROVE UploadInv'
  OBVIOUS
<1>1. job = None /\ UNCHANGED <<site, config, shown>>
  BY DEF Upload!Begin
<1>2. PICK req \in Requests :
        \/ Upload!SiteConfigs(config) = {} /\ Upload!Returned(req, config, "failed")
           /\ UNCHANGED job
        \/ \E cfg \in Upload!SiteConfigs(config) : Upload!BeginOne(req, cfg)
  BY DEF Upload!Begin
<1>3. CASE UNCHANGED job /\ \E row, result : Upload!Returned(req, row, result)
  <2>1. Upload!UploadFaithful'
    BY <1>3, NothingSent
  <2> QED BY <1>1, <1>3, <2>1 DEF UploadInv
<1>4. CASE \E cfg \in Upload!SiteConfigs(config) :
             /\ job' = [req |-> req, row |-> config, cfg |-> cfg, probed |-> <<>>,
                        form |-> Upload!Form(cfg, req,
                                             Upload!ResolveCategoryID(req.key, cfg, <<>>)),
                        at |-> IF cfg.type = Upload!Classic THEN "page" ELSE "post"]
             /\ last' = Upload!NoLast
  <2>1. PICK cfg \in Upload!SiteConfigs(config) :
          /\ job' = [req |-> req, row |-> config, cfg |-> cfg, probed |-> <<>>,
                     form |-> Upload!Form(cfg, req,
                                          Upload!ResolveCategoryID(req.key, cfg, <<>>)),
                     at |-> IF cfg.type = Upload!Classic THEN "page" ELSE "post"]
          /\ last' = Upload!NoLast
    BY <1>4
  <2>2. DOMAIN job' = {"req", "row", "cfg", "probed", "form", "at"}
    BY <2>1
  <2>3. /\ job'.req = req /\ job'.row = config /\ job'.cfg = cfg /\ job'.at \in {"page", "post"}
        /\ job'.form = Upload!Form(cfg, req, Upload!ResolveCategoryID(req.key, cfg, <<>>))
    BY <2>1
  <2>4. Formed(job')
    BY <2>2, <2>3 DEF Formed
  <2>5. job'.cfg.type = site.type
    BY <2>3 DEF UploadInv, Upload!SiteConfigs
  <2>6. Upload!UploadFaithful'
    BY <2>1, NothingSent
  <2> QED BY <1>1, <2>4, <2>5, <2>6 DEF UploadInv
<1> QED BY <1>2, <1>3, <1>4 DEF Upload!BeginOne

LEMMA UploadForm == UploadInv /\ Upload!FetchForm => UploadInv'
<1> SUFFICES ASSUME UploadInv, Upload!FetchForm PROVE UploadInv'
  OBVIOUS
<1>1. job # None /\ UNCHANGED <<site, config, shown>>
  BY DEF Upload!FetchForm
<1>2. CASE job' = None /\ Upload!Returned(job.req, job.row, "auth")
  <2>1. Upload!UploadFaithful'
    BY <1>2, NothingSent
  <2> QED BY <1>1, <1>2, <2>1 DEF UploadInv
<1>3. CASE /\ \/ job' = [job EXCEPT !.at = "post"]
              \/ job' = [job EXCEPT !.at = "post", !.probed = Upload!Options]
           /\ UNCHANGED last
  <2>1. Formed(job) /\ job.cfg.type = site.type
    BY <1>1 DEF UploadInv
  <2>2. DOMAIN job = {"req", "row", "cfg", "probed", "form", "at"}
    BY <2>1 DEF Formed
  <2>3. /\ DOMAIN job' = DOMAIN job /\ job'.at = "post"
        /\ job'.req = job.req /\ job'.row = job.row /\ job'.cfg = job.cfg /\ job'.form = job.form
    BY <1>3, <2>2
  <2>4. Formed(job')
    BY <2>1, <2>3 DEF Formed
  <2>5. Upload!UploadFaithful'
    BY <1>3, FaithfulFrame DEF UploadInv
  <2> QED BY <1>1, <2>1, <2>3, <2>4, <2>5 DEF UploadInv
<1> QED BY <1>2, <1>3 DEF Upload!FetchForm

LEMMA UploadPost == UploadInv /\ Upload!Post => UploadInv'
<1> SUFFICES ASSUME UploadInv, Upload!Post PROVE UploadInv'
  OBVIOUS
<1>1. job # None /\ job' = None /\ UNCHANGED <<config, shown>>
  BY DEF Upload!Post
<1>2. PICK met, answer :
        /\ met \in Upload!Meets
        /\ answer # None => answer \in Upload!Answers(site.type, met)
        /\ site' = [site EXCEPT !.copy = IF met = "accepted" THEN "ours" ELSE @]
        /\ last' = [req |-> job.req, row |-> job.row, sent |-> job.form, met |-> met,
                    answer |-> IF answer = None THEN Upload!Answer ELSE answer,
                    result |-> IF answer = None THEN "lost"
                               ELSE Upload!Classify(job.cfg.type, answer)]
  BY DEF Upload!Post
<1>3. /\ site' \in [type : SiteTypes, session : BOOLEAN, copy : {"none", "ours", "others"}]
      /\ site'.type = site.type
  BY <1>2 DEF UploadInv
<1>4. Formed(job) /\ job.cfg.type = site.type /\ site.type \in SiteTypes
  BY <1>1 DEF UploadInv
<1>5. /\ last'.req = job.req /\ last'.row = job.row /\ last'.sent = job.form /\ last'.met = met
      /\ last'.answer = (IF answer = None THEN Upload!Answer ELSE answer)
      /\ last'.result = IF answer = None THEN "lost"
                        ELSE Upload!Classify(site.type, answer)
  BY <1>2, <1>4
<1>6. Upload!AnswersUnderstood'
  <2>1. met \in {"credentials", "exists", "accepted", "refused"}
    BY <1>2 DEF Upload!Meets
  <2>2. CASE answer = None
    BY <1>5, <2>2 DEF Upload!AnswersUnderstood
  <2>3. CASE answer # None
    <3>1. answer \in Upload!Answers(site.type, met)
      BY <1>2, <2>3
    <3> QED BY <1>4, <1>5, <2>1, <2>3, <3>1, Understood DEF Upload!AnswersUnderstood
  <2> QED BY <2>2, <2>3
<1>7. Upload!SentAsConfigured'
  <2>1. AsConfigured(last'.sent, last'.req, last'.row)
    BY <1>4, <1>5, FormAsConfigured DEF Formed
  <2> QED BY <2>1 DEF AsConfigured, Upload!SentAsConfigured
<1> QED BY <1>1, <1>3, <1>6, <1>7 DEF UploadInv, Upload!UploadFaithful

LEMMA UploadMoves == UploadInv /\ [Upload!Next]_(Upload!vars) => UploadInv'
<1> SUFFICES ASSUME UploadInv, [Upload!Next]_(Upload!vars) PROVE UploadInv'
  OBVIOUS
<1>1. CASE Upload!Probe \/ UNCHANGED Upload!vars
  <2>1. UNCHANGED <<site, config, job, last>>
    BY <1>1 DEF Upload!Probe, Upload!vars
  <2>2. Upload!UploadFaithful'
    BY <2>1, FaithfulFrame DEF UploadInv
  <2> QED BY <2>1, <2>2 DEF UploadInv
<1>2. CASE Upload!Save
  <2>1. UNCHANGED <<site, job, last>>
    BY <1>2 DEF Upload!Save
  <2>2. DOMAIN config' = Upload!Columns /\ Upload!AdapterType(config') = site.type
    <3>1. CASE config' \in Configs /\ Upload!AdapterType(config') = site.type
      BY <3>1, UploadParameters DEF Upload!UploadAssumption
    <3>2. CASE config' = [config EXCEPT !.overrides = shown]
      <4>1. DOMAIN config = Upload!Columns /\ Upload!AdapterType(config) = site.type
        BY DEF UploadInv
      <4>2. DOMAIN config' = DOMAIN config
            /\ config'.type = config.type /\ config'.version = config.version
        BY <3>2, <4>1 DEF Upload!Columns
      <4> QED BY <4>1, <4>2 DEF Upload!AdapterType
    <3> QED BY <1>2, <3>1, <3>2 DEF Upload!Save
  <2>3. Upload!UploadFaithful'
    BY <2>1, FaithfulFrame DEF UploadInv
  <2> QED BY <2>1, <2>2, <2>3 DEF UploadInv
<1>3. CASE Upload!SiteMoves
  <2>1. UNCHANGED <<config, shown, job, last>>
    BY <1>3 DEF Upload!SiteMoves
  <2>2. /\ site' \in [type : SiteTypes, session : BOOLEAN, copy : {"none", "ours", "others"}]
        /\ site'.type = site.type
    BY <1>3 DEF Upload!SiteMoves, Upload!Credentials, Upload!OthersUpload, Upload!Removed,
       UploadInv
  <2>3. Upload!UploadFaithful'
    BY <2>1, FaithfulFrame DEF UploadInv
  <2> QED BY <2>1, <2>2, <2>3 DEF UploadInv
<1> QED BY <1>1, <1>2, <1>3, UploadBegin, UploadForm, UploadPost DEF Upload!Next

LEMMA UploadPart == [PartsNext]_allVars => [Upload!Next]_(Upload!vars)
  BY DEF PartsNext, allVars, uploadVars, Upload!vars

LEMMA UploadCorrect == PartsSpec => []UploadInv
<1>1. PartsInit => UploadInv
  BY UploadInit DEF PartsInit
<1> QED BY <1>1, UploadMoves, UploadPart, PTL DEF PartsSpec

(* A publication sends what the row saved says and learns what became of it, *)
(* for all rows, listings and requests (siteConfigFromTarget,                *)
(* resolveCategoryID, resolveDimID, the tails of the three Publish).         *)
THEOREM SentAndUnderstood == PartsSpec => []UploadFaithful
<1>1. UploadInv => UploadFaithful
  BY DEF UploadInv, UploadFaithful
<1> QED BY <1>1, UploadCorrect, PTL

-----------------------------------------------------------------------------
(* The types of the other modules.                                           *)
LEMMA FileTyped == FileInv => File!TypeOK
<1> SUFFICES ASSUME FileInv PROVE File!TypeOK
  OBVIOUS
<1>1. attempt \in 0 .. MaxAttempts
  BY Attempts DEF FileInv, FileTypes
<1> QED BY <1>1 DEF FileInv, FileTypes, File!TypeOK

(* The feed shows no more than its window, and a Relay is of a known hash.   *)
FeedTypes == Len(feed) <= Window /\ (relay.at # "idle" => relay.id \in seen)

LEMMA FeedTyped == SeedInv /\ Reading /\ FeedTypes => Source!TypeOK
<1> SUFFICES ASSUME SeedInv, Reading, FeedTypes PROVE Source!TypeOK
  OBVIOUS
<1>1. {feed[n] : n \in DOMAIN feed} \subseteq Releases
  BY DEF SeedInv, Shown
<1>2. DOMAIN seeds \subseteq seen /\ {row[1] : row \in born} \subseteq seen
  BY DEF SeedInv, Marks
<1> QED BY <1>1, <1>2 DEF Reading, FeedTypes, Source!TypeOK

LEMMA WindowKept ==
  ASSUME SeedInv, FeedTypes, NEW t \in Releases, Source!Announce(t)
  PROVE  Len(feed') <= Window
<1> DEFINE s == <<t>> \o feed
           k == IF Len(feed) < Window THEN Len(feed) + 1 ELSE Window
<1>1. feed' = SubSeq(s, 1, k)
  BY DEF Source!Announce
<1>2. feed \in Seq(Releases) /\ Window \in Nat
  BY FeedParameters DEF SeedInv, Shown, Source!FeedAssumption
<1>3. s \in Seq(Releases) /\ Len(s) = Len(feed) + 1
  BY <1>2
<1>4. k \in 0 .. Len(s) /\ k <= Window
  BY <1>2, <1>3 DEF FeedTypes
<1> HIDE DEF s, k
<1> QED BY <1>1, <1>3, <1>4

LEMMA FeedTypesMove ==
  SeedInv /\ PromotionInv /\ FeedTypes /\ [Source!Next]_(Source!vars) => FeedTypes'
<1> SUFFICES ASSUME SeedInv, PromotionInv, FeedTypes, [Source!Next]_(Source!vars)
             PROVE  FeedTypes'
  OBVIOUS
<1>1. CASE \E t \in Releases : Source!Announce(t)
  <2>1. UNCHANGED <<relay, seen>>
    BY <1>1 DEF Source!Announce
  <2>2. Len(feed') <= Window
    BY <1>1, WindowKept
  <2> QED BY <2>1, <2>2 DEF FeedTypes
<1>2. CASE \/ \E t \in Releases : Source!Edit(t)
           \/ Source!SaveStrategy \/ \E id \in DOMAIN seeds : Source!DeleteSeed(id)
           \/ Source!FetchRSS \/ Source!Ingest \/ Source!CreateSeed \/ Source!CreateFails
           \/ UNCHANGED Source!vars
  <2>1. UNCHANGED <<feed, relay>>
    BY <1>2 DEF Source!Edit, Source!SaveStrategy, Source!DeleteSeed, Source!FetchRSS,
       Source!Ingest, Source!CreateSeed, Source!CreateFails, Source!vars, Source!site
  <2>2. seen \subseteq seen'
    BY <1>2 DEF Source!Edit, Source!SaveStrategy, Source!DeleteSeed, Source!FetchRSS,
       Source!Ingest, Source!CreateSeed, Source!CreateFails, Source!vars
  <2> QED BY <2>1, <2>2 DEF FeedTypes
<1>3. CASE \E id \in DOMAIN seeds : Source!Begin(id)
  <2>1. PICK id \in DOMAIN seeds : relay' = [Source!NoRelay EXCEPT !.at = "locate", !.id = id]
    BY <1>3 DEF Source!Begin
  <2>2. UNCHANGED <<feed, seen>>
    BY <1>3 DEF Source!Begin, Source!site
  <2>3. relay'.id = id
    BY <2>1 DEF Source!NoRelay
  <2>4. id \in seen
    BY DEF SeedInv, Marks
  <2> QED BY <2>2, <2>3, <2>4 DEF FeedTypes
<1>4. CASE \/ Source!Locate \/ Source!FetchDetail \/ Source!Filter
           \/ Source!Download \/ Source!Fail \/ Source!Restart
  <2>1. UNCHANGED <<feed, seen>>
    BY <1>4 DEF Source!Locate, Source!FetchDetail, Source!AskAPI, Source!ReadPage,
       Source!Filter, Source!Download,
       Source!Fail, Source!Restart, Source!site
  <2>2. relay' = Source!NoRelay \/ (relay.at # "idle" /\ relay'.id = relay.id)
    <3>1. DOMAIN relay = {"at", "id", "item", "promotion", "page"}
      BY DEF PromotionInv, Reading
    <3>2. CASE Source!Locate
      <4>1. PICK item : relay' = [relay EXCEPT !.at = "detail", !.item = item]
        BY <3>2 DEF Source!Locate
      <4> QED BY <3>1, <3>2, <4>1 DEF Source!Locate, Source!AtStep
    <3>3. CASE Source!FetchDetail
      <4>1. \/ relay' = [relay EXCEPT !.at = "filter"]
            \/ \E p, q : relay' = [relay EXCEPT !.at = "filter", !.promotion = p, !.page = q]
        BY <3>3, Zenon DEF Source!FetchDetail, Source!AskAPI, Source!ReadPage
      <4> QED BY <3>1, <3>3, <4>1 DEF Source!FetchDetail, Source!AskAPI, Source!ReadPage,
         Source!AtStep
    <3>4. CASE Source!Filter
      <4>1. \/ relay' = Source!NoRelay \/ relay' = [relay EXCEPT !.at = "download"]
        BY <3>4, Zenon DEF Source!Filter
      <4>2. relay.at = "filter"
        BY <3>4 DEF Source!Filter, Source!AtStep
      <4> QED BY <3>1, <4>1, <4>2
    <3>5. CASE Source!Download \/ Source!Fail \/ Source!Restart
      BY <3>5 DEF Source!Download, Source!Fail, Source!Restart
    <3> QED BY <1>4, <3>2, <3>3, <3>4, <3>5
  <2>3. Source!NoRelay.at = "idle"
    BY Zenon DEF Source!NoRelay
  <2> QED BY <2>1, <2>2, <2>3 DEF FeedTypes
<1> QED BY <1>1, <1>2, <1>3, <1>4 DEF Source!Next

LEMMA TorrentMoves == Torrent!TypeOK /\ [Torrent!Next]_(Torrent!vars) => Torrent!TypeOK'
<1> SUFFICES ASSUME Torrent!TypeOK, [Torrent!Next]_(Torrent!vars) PROVE Torrent!TypeOK'
  OBVIOUS
<1>1. CASE Torrent!ParseTorrent
  <2>1. torrent' = Torrent!Rejected \/ torrent'.kind = "dict"
    BY <1>1, Zenon DEF Torrent!ParseTorrent
  <2>2. UNCHANGED <<cleaned, joined>>
    BY <1>1, Zenon DEF Torrent!ParseTorrent
  <2> QED BY <2>1, <2>2 DEF Torrent!TypeOK
<1>2. ASSUME NEW target \in Targets, Torrent!Clean(target) PROVE Torrent!TypeOK'
  <2>1. UNCHANGED <<torrent, joined>> /\ DOMAIN cleaned' = DOMAIN cleaned
    BY <1>2 DEF Torrent!Clean
  <2> QED BY <2>1 DEF Torrent!TypeOK
<1>3. ASSUME NEW target \in Targets, Torrent!Join(target) PROVE Torrent!TypeOK'
  <2>1. PICK v : joined' = [joined EXCEPT ![target] = v]
                 /\ (v = Torrent!Rejected \/ \E q : v = Torrent!List(q))
    BY <1>3, Zenon DEF Torrent!Join
  <2>2. Torrent!Rejected.kind = "rejected"
    BY Zenon DEF Torrent!Rejected, Torrent!Scalar
  <2>3. v.kind \in {"list", "rejected"}
    BY <2>1, <2>2 DEF Torrent!List
  <2>4. UNCHANGED <<torrent, cleaned>>
    BY <1>3, Zenon DEF Torrent!Join
  <2> QED BY <2>1, <2>3, <2>4 DEF Torrent!TypeOK
<1>4. CASE Torrent!Receive \/ UNCHANGED Torrent!vars
  <2>1. UNCHANGED <<torrent, cleaned, joined>>
    BY <1>4, Zenon DEF Torrent!Receive, Torrent!vars
  <2> QED BY <2>1 DEF Torrent!TypeOK
<1> QED BY <1>1, <1>2, <1>3, <1>4 DEF Torrent!Next

LEMMA TitleMoves == Title!TypeOK /\ [Title!Next]_(Title!vars) => Title!TypeOK'
<1> SUFFICES ASSUME Title!TypeOK, [Title!Next]_(Title!vars) PROVE Title!TypeOK'
  OBVIOUS
<1>1. /\ words \in Seq(Plain \cup Spelled) /\ Len(words) <= MaxWords /\ Len(params) <= 1
      /\ tail \in Tails \cup {""} /\ sep \in {".", " "}
  BY Zenon DEF Title!TypeOK
<1>2. /\ words' \in Seq(Plain \cup Spelled) /\ Len(words') <= MaxWords
      /\ Len(params') <= 1
  <2>0. words \in Seq(Plain \cup Spelled) /\ Len(words) <= MaxWords /\ Len(params) <= 1
    BY <1>1, Zenon
  <2>1. ASSUME NEW w \in Spelled \cup Plain, Title!Write(w)
        PROVE  /\ words' \in Seq(Plain \cup Spelled) /\ Len(words') <= MaxWords
               /\ Len(params') <= 1
    <3>1. Len(words) < MaxWords /\ words' = Append(words, w) /\ params' = params
      BY <2>1, Zenon DEF Title!Write
    <3>2. MaxWords \in Nat
      BY TextParameters DEF Title!TitleAssumption
    <3> QED BY <2>0, <3>1, <3>2
  <2>2. ASSUME NEW w \in Tails, Title!WriteTail(w) PROVE words' = words /\ params' = params
    BY <2>2, Zenon DEF Title!WriteTail
  <2>3. ASSUME NEW mteam, NEW number, Title!Publish(mteam, number)
        PROVE  words' = words /\ Len(params') = 1
    <3>1. words' = words /\ params' = <<Title!PublishParams(mteam, number)>>
      BY <2>3, Zenon DEF Title!Publish
    <3> QED BY <3>1
  <2>4. ASSUME UNCHANGED Title!vars PROVE words' = words /\ params' = params
    BY <2>4, Zenon DEF Title!vars
  <2>5. \/ \E w \in Spelled \cup Plain : Title!Write(w)
        \/ \E w \in Tails : Title!WriteTail(w)
        \/ \E mteam, number : Title!Publish(mteam, number)
        \/ UNCHANGED Title!vars
    BY Zenon DEF Title!Next
  <2>6. CASE \E w \in Spelled \cup Plain : Title!Write(w)
    BY <2>1, <2>6, Zenon
  <2>7. CASE words' = words /\ Len(params') <= 1
    BY <2>0, <2>7
  <2>8. ASSUME words' = words, Len(params') = 1 PROVE Len(params') <= 1
    BY <2>8
  <2>9. ASSUME params' = params PROVE Len(params') <= 1
    BY <2>0, <2>9
  <2> QED BY <2>2, <2>3, <2>4, <2>5, <2>6, <2>7, <2>8, <2>9, Zenon
<1>3. tail' \in Tails \cup {""} /\ sep' = sep
  BY <1>1, Zenon DEF Title!Next, Title!Write, Title!WriteTail, Title!Publish, Title!vars
<1> QED BY <1>1, <1>2, <1>3, Zenon DEF Title!TypeOK

(* A description has at most its four parts.                                 *)
LEMMA FourParts ==
  ASSUME NEW body, NEW list, NEW small, NEW extra
  PROVE  Len(Text!BuildDescription(body, list, small, extra)) <= 4
<1> DEFINE sizes == [i \in DOMAIN list |-> Text!HumanSize(list[i])]
           Item0(name, q) == [part |-> name, of |-> q]
           U == {Item0("small", small), Item0("body", body), Item0("files", sizes),
                 Item0("section", extra)}
           a == Text!Piece("small", small)
           b == Text!Piece("body", body)
           c == Text!Piece("files", sizes)
           d == Text!Piece("section", extra)
<1>1. Text!BuildDescription(body, list, small, extra) = a \o b \o c \o d
  BY DEF Text!BuildDescription
<1>2. /\ a = <<>> \/ a = <<Item0("small", small)>>
      /\ b = <<>> \/ b = <<Item0("body", body)>>
      /\ c = <<>> \/ c = <<Item0("files", sizes)>>
      /\ d = <<>> \/ d = <<Item0("section", extra)>>
  BY Zenon DEF Text!Piece
<1>3. ASSUME NEW v \in U, NEW q, q = <<>> \/ q = <<v>>
      PROVE  q \in Seq(U) /\ Len(q) <= 1
  <2> HIDE DEF U
  <2>1. CASE q = <<>>
    BY <2>1
  <2>2. CASE q = <<v>>
    BY <2>2
  <2> QED BY <1>3, <2>1, <2>2
<1>4. /\ Item0("small", small) \in U /\ Item0("body", body) \in U
      /\ Item0("files", sizes) \in U /\ Item0("section", extra) \in U
  BY Zenon
<1> HIDE DEF U, Item0, a, b, c, d, sizes
<1>5. /\ a \in Seq(U) /\ Len(a) <= 1 /\ b \in Seq(U) /\ Len(b) <= 1
      /\ c \in Seq(U) /\ Len(c) <= 1 /\ d \in Seq(U) /\ Len(d) <= 1
  BY <1>2, <1>3, <1>4
<1> QED BY <1>1, <1>5

LEMMA TextMoves == Text!TypeOK /\ [Text!Next]_(Text!vars) => Text!TypeOK'
<1> SUFFICES ASSUME Text!TypeOK, [Text!Next]_(Text!vars) PROVE Text!TypeOK'
  OBVIOUS
<1>1. CASE \E t \in Vocabulary : Text!Write(t)
  <2>1. PICK t \in Vocabulary : text' = Append(text, t) /\ UNCHANGED <<files, descr>>
    BY <1>1 DEF Text!Write
  <2> QED BY <2>1 DEF Text!TypeOK
<1>2. CASE Text!Publish
  <2>1. UNCHANGED <<text, files>>
    BY <1>2 DEF Text!Publish
  <2>2. \E body, list, small, extra : descr' = Text!BuildDescription(body, list, small, extra)
    BY <1>2, Zenon DEF Text!Publish, Text!Description
  <2>3. Len(descr') <= 4
    BY <2>2, FourParts
  <2> QED BY <2>1, <2>3 DEF Text!TypeOK
<1>3. CASE UNCHANGED Text!vars
  BY <1>3 DEF Text!vars, Text!TypeOK
<1> QED BY <1>1, <1>2, <1>3 DEF Text!Next

Concluded ==
  last.result \in {"none", "test", "auth", "mismatch", "failed", "lost", "duplicate", "ok"}

LEMMA UploadTyped == UploadInv /\ Concluded => Upload!TypeOK
<1> SUFFICES ASSUME UploadInv, Concluded PROVE Upload!TypeOK
  OBVIOUS
<1>1. site.type \in {Upload!NexusPHP, Upload!Classic, Upload!MTeam}
      /\ site.copy \in {"none", "ours", "others"}
  BY DEF UploadInv, SiteTypes
<1>2. job # None => job.at \in {"page", "post"} /\ job.cfg.type = site.type
  BY DEF UploadInv, Formed
<1> QED BY <1>1, <1>2 DEF Upload!TypeOK, Concluded

LEMMA ReturnedConcludes ==
  ASSUME NEW req, NEW row, NEW result, Upload!Returned(req, row, result)
  PROVE  last'.result = result
  BY DEF Upload!Returned, Upload!NoLast

LEMMA ConcludedMoves == Concluded /\ [Upload!Next]_(Upload!vars) => Concluded'
<1> SUFFICES ASSUME Concluded, [Upload!Next]_(Upload!vars) PROVE Concluded'
  OBVIOUS
<1>1. CASE \/ last' = last \/ last' = Upload!NoLast
           \/ \E req, row : \E result \in {"test", "auth", "mismatch", "failed"} :
                Upload!Returned(req, row, result)
  <2>1. CASE last' = last
    BY <2>1 DEF Concluded
  <2>2. CASE last' = Upload!NoLast
    BY <2>2 DEF Concluded, Upload!NoLast
  <2>3. CASE \E req, row : \E result \in {"test", "auth", "mismatch", "failed"} :
               Upload!Returned(req, row, result)
    BY <2>3, ReturnedConcludes DEF Concluded
  <2> QED BY <1>1, <2>1, <2>2, <2>3
<1>2. CASE Upload!Post
  <2>1. PICK met, answer :
          last' = [req |-> job.req, row |-> job.row, sent |-> job.form, met |-> met,
                   answer |-> IF answer = None THEN Upload!Answer ELSE answer,
                   result |-> IF answer = None THEN "lost"
                              ELSE Upload!Classify(job.cfg.type, answer)]
    BY <1>2 DEF Upload!Post
  <2>2. Upload!Classify(job.cfg.type, answer) \in {"auth", "ok", "duplicate", "failed"}
    BY DEF Upload!Classify
  <2>3. last'.result \in {"lost", "auth", "ok", "duplicate", "failed"}
    BY <2>1, <2>2
  <2> QED BY <2>3 DEF Concluded
<1>3. CASE Upload!Begin
  <2>1. PICK req \in Requests :
          \/ Upload!Returned(req, config, "failed")
          \/ \E cfg \in Upload!SiteConfigs(config) : Upload!BeginOne(req, cfg)
    BY <1>3 DEF Upload!Begin
  <2>2. CASE Upload!Returned(req, config, "failed")
    BY <1>1, <2>2
  <2>3. CASE \E cfg \in Upload!SiteConfigs(config) : Upload!BeginOne(req, cfg)
    <3>1. \/ last' = Upload!NoLast
          \/ Upload!Returned(req, config, "test") \/ Upload!Returned(req, config, "auth")
          \/ Upload!Returned(req, config, "mismatch")
      BY <2>3 DEF Upload!BeginOne
    <3> QED BY <1>1, <3>1
  <2> QED BY <2>1, <2>2, <2>3
<1>4. CASE Upload!FetchForm
  <2>1. last' = last \/ Upload!Returned(job.req, job.row, "auth")
    BY <1>4 DEF Upload!FetchForm
  <2> QED BY <1>1, <2>1
<1>5. CASE Upload!Probe \/ Upload!Save \/ Upload!SiteMoves \/ UNCHANGED Upload!vars
  <2>1. last' = last
    BY <1>5 DEF Upload!Probe, Upload!Save, Upload!SiteMoves, Upload!vars
  <2> QED BY <1>1, <2>1
<1> QED BY <1>2, <1>3, <1>4, <1>5 DEF Upload!Next

OtherTypes == FeedTypes /\ Torrent!TypeOK /\ Title!TypeOK /\ Text!TypeOK /\ Concluded

LEMMA OtherInit == PartsInit => OtherTypes
<1> SUFFICES ASSUME PartsInit PROVE OtherTypes
  OBVIOUS
<1>1. FeedTypes
  <2>1. feed = <<>> /\ relay.at = "idle"
    BY DEF PartsInit, Source!Init, Source!NoRelay
  <2>2. Window \in Nat
    BY FeedParameters DEF Source!FeedAssumption
  <2> QED BY <2>1, <2>2 DEF FeedTypes
<1>2. Torrent!TypeOK
  <2>1. /\ torrent = None /\ cleaned = [t \in Targets |-> None]
        /\ joined = [t \in Targets |-> None]
    BY DEF PartsInit, Torrent!Init
  <2> QED BY <2>1 DEF Torrent!TypeOK
<1>3. Title!TypeOK
  <2>1. words = <<>> /\ tail = "" /\ sep \in {".", " "} /\ params = <<>>
    BY Zenon DEF PartsInit, Title!Init
  <2>2. words = <<>> /\ params = <<>>
    BY <2>1, Zenon
  <2>3. /\ words \in Seq(Plain \cup Spelled) /\ Len(words) <= MaxWords
        /\ Len(params) <= 1
    <3>1. MaxWords \in Nat
      BY TextParameters DEF Title!TitleAssumption
    <3> QED BY <2>2, <3>1
  <2> QED BY <2>1, <2>3, Zenon DEF Title!TypeOK
<1>4. Text!TypeOK
  BY DEF PartsInit, Text!Init, Text!TypeOK
<1>5. Concluded
  <2>1. last = Upload!NoLast
    BY DEF PartsInit, Upload!Init
  <2> QED BY <2>1 DEF Upload!NoLast, Concluded
<1> QED BY <1>1, <1>2, <1>3, <1>4, <1>5 DEF OtherTypes

LEMMA OtherParts ==
  [PartsNext]_allVars => /\ [Torrent!Next]_(Torrent!vars) /\ [Title!Next]_(Title!vars)
                         /\ [Text!Next]_(Text!vars)
<1>1. [PartsNext]_allVars => [Torrent!Next]_(Torrent!vars)
  BY DEF PartsNext, allVars, torrentVars, Torrent!vars
<1>2. [PartsNext]_allVars => [Title!Next]_(Title!vars)
  BY DEF PartsNext, allVars, titleVars, Title!vars
<1>3. [PartsNext]_allVars => [Text!Next]_(Text!vars)
  BY DEF PartsNext, allVars, textVars, Text!vars
<1> QED BY <1>1, <1>2, <1>3

LEMMA OtherMoves ==
  SeedInv /\ PromotionInv /\ OtherTypes /\ [PartsNext]_allVars => OtherTypes'
<1> SUFFICES ASSUME SeedInv, PromotionInv, OtherTypes, [PartsNext]_allVars
             PROVE  OtherTypes'
  OBVIOUS
<1>1. FeedTypes'
  BY FeedPart, FeedTypesMove DEF OtherTypes
<1>2. Torrent!TypeOK' /\ Title!TypeOK' /\ Text!TypeOK'
  BY OtherParts, TorrentMoves, TitleMoves, TextMoves DEF OtherTypes
<1>3. Concluded'
  BY UploadPart, ConcludedMoves DEF OtherTypes
<1> QED BY <1>1, <1>2, <1>3 DEF OtherTypes

(* Every variable of what one relay goes through keeps its type.             *)
THEOREM TypesCorrect == PartsSpec => []TypesOK
<1>1. PartsSpec => [](TypeOK /\ File!TypeOK)
  <2>1. PullInv => TypeOK
    BY DEF PullInv
  <2> QED BY <2>1, PullCorrect, FileCorrect, FileTyped, PTL
<1>2. PartsSpec => []OtherTypes
  BY OtherInit, OtherMoves, FeedCorrect, PromotionCorrect, PTL DEF PartsSpec
<1>3. PromotionInv => Reading
  BY DEF PromotionInv
<1>4. SeedInv /\ Reading /\ OtherTypes => Source!TypeOK
  BY FeedTyped DEF OtherTypes
<1>5. UploadInv /\ OtherTypes => Upload!TypeOK
  BY UploadTyped DEF OtherTypes
<1>6. /\ TypeOK /\ File!TypeOK /\ Source!TypeOK /\ Upload!TypeOK /\ OtherTypes
      => TypesOK
  BY DEF TypesOK, OtherTypes
<1> QED BY <1>1, <1>2, <1>3, <1>4, <1>5, <1>6, FeedCorrect, PromotionCorrect,
   UploadCorrect, PTL
=============================================================================
