---------------------------- MODULE Texts_proofs ----------------------------
(* Theorems about what a relay reads and writes of its texts.                *)
EXTENDS Pipeline_proofs, Ranks_proofs

-----------------------------------------------------------------------------
(* Titles.                                                                   *)
Rests == {"", "-E08", "-2"}
Word == Plain \cup Spelled \cup Tails \cup Rests
Numbers == Seq(Nat)

\* What has been read by the patterns: the group, seasons and episodes.
Told(g, a, b) == [Title!Nothing EXCEPT !.group = g, !.season = a, !.episode = b]
Reads == [s : Nat, s2 : Nat, e : Nat, e2 : Nat, rest : Rests]
SeasonOf(a, m) ==
  IF m.s = 0 THEN a ELSE IF m.s2 \notin {0, m.s} THEN <<m.s, m.s2>>
  ELSE IF a = <<>> THEN <<m.s>> ELSE a
EpisodeOf(b, m) ==
  IF m.e = 0 THEN b ELSE IF m.e2 # 0 THEN <<m.e, m.e2>>
  ELSE IF b = <<>> THEN <<m.e>> ELSE b

LEMMA MatchApplied ==
  ASSUME NEW g, NEW a \in Numbers, NEW b \in Numbers, NEW m \in Reads
  PROVE  /\ Title!ApplySeMatch(Told(g, a, b), m) = Told(g, SeasonOf(a, m), EpisodeOf(b, m))
         /\ SeasonOf(a, m) \in Numbers /\ EpisodeOf(b, m) \in Numbers
<1>1. Title!ApplySeMatch(Told(g, a, b), m) = Told(g, SeasonOf(a, m), EpisodeOf(b, m))
  <2> DEFINE c == Told(g, a, b)
  <2>1. c.season = a /\ c.episode = b
    BY DEF Told, Title!Nothing
  <2>2. Title!ApplySeMatch(c, m)
        = [c EXCEPT !.season = SeasonOf(c.season, m), !.episode = EpisodeOf(c.episode, m)]
    BY Zenon DEF Title!ApplySeMatch, SeasonOf, EpisodeOf
  <2>3. \A i, j : [c EXCEPT !.season = i, !.episode = j] = Told(g, i, j)
    BY DEF Told, Title!Nothing
  <2> QED BY <2>1, <2>2, <2>3
<1>2. SeasonOf(a, m) \in Numbers /\ EpisodeOf(b, m) \in Numbers
  BY DEF Numbers, Reads, SeasonOf, EpisodeOf
<1> QED BY <1>1, <1>2

ReadWord(c, w, p) == IF w \in DOMAIN p THEN Title!ApplySeMatch(c, p[w]) ELSE c
ReadBy(c, p, ws) ==
  Title!FoldLeft(LAMBDA d, w : IF w \in DOMAIN p THEN Title!ApplySeMatch(d, p[w]) ELSE d, c, ws)

ReadingRun(f, c, p, ws) ==
  /\ f[0] = c /\ \A k \in 1 .. Len(ws) : f[k] = ReadWord(f[k - 1], ws[k], p)
  /\ ReadBy(c, p, ws) = f[Len(ws)]

\* A pattern reads one word after the other.
LEMMA ReadingFolds ==
  ASSUME NEW g, NEW a \in Numbers, NEW b \in Numbers, NEW p, \A w \in DOMAIN p : p[w] \in Reads,
         NEW ws \in Seq(Word)
  PROVE  \E f : ReadingRun(f, Told(g, a, b), p, ws)
<1> DEFINE n == Len(ws)
           St == {Told(g, i, j) : i \in Numbers, j \in Numbers}
           step == [q \in St \X (1 .. n) |-> ReadWord(q[1], ws[q[2]], p)]
           base == Told(g, a, b)
           Runs(it) == it = [x \in SUBSET (1 .. n) |->
                               IF x = {} THEN base ELSE ReadWord(it[x \ {Last(x)}], ws[Last(x)], p)]
           fold == ReadBy(base, p, ws)
<1> SUFFICES \E f : /\ f[0] = base /\ \A k \in 1 .. n : f[k] = ReadWord(f[k - 1], ws[k], p)
                    /\ fold = f[n]
  BY DEF ReadingRun
<1>1. n \in Nat /\ DOMAIN ws = 1 .. n
  OBVIOUS
<1>2. step \in [St \X (1 .. n) -> St]
  <2>1. ASSUME NEW c \in St, NEW k \in 1 .. n PROVE ReadWord(c, ws[k], p) \in St
    <3>1. PICK i \in Numbers, j \in Numbers : c = Told(g, i, j)
      OBVIOUS
    <3> QED BY <3>1, MatchApplied DEF ReadWord
  <2> HIDE DEF St
  <2> QED BY <2>1
<1>3. PICK it : Folds(it, n, St, base, step)
  <2>1. base \in St
    OBVIOUS
  <2> HIDE DEF base, St, step
  <2> QED BY <1>1, <1>2, <2>1, FoldRuns
<1>4. \A x \in SUBSET (1 .. n) :
        it[x] = IF x = {} THEN base ELSE ReadWord(it[x \ {Last(x)}], ws[Last(x)], p)
  <2>1. ASSUME NEW x \in SUBSET (1 .. n), x # {}
        PROVE  <<it[x \ {Last(x)}], Last(x)>> \in St \X (1 .. n)
    <3>1. Last(x) \in 1 .. n
      BY <1>1, <2>1, LastIn
    <3> HIDE DEF St
    <3> QED BY <1>3, <3>1 DEF Folds
  <2>2. \A c \in St, k \in 1 .. n : step[<<c, k>>] = ReadWord(c, ws[k], p)
    OBVIOUS
  <2> HIDE DEF St, step, base
  <2> QED BY <1>3, <2>1, <2>2 DEF Folds
<1>5. \E i : Runs(i)
  <2> DEFINE i == [x \in SUBSET (1 .. n) |-> it[x]]
  <2>1. \A x \in SUBSET (1 .. n) : x # {} => x \ {Last(x)} \in SUBSET (1 .. n)
    OBVIOUS
  <2>2. Runs(i)
    BY <1>4, <2>1
  <2> QED BY <2>2
<1>6. fold = (CHOOSE i : Runs(i))[1 .. n]
  BY <1>1 DEF ReadBy, Title!FoldLeft, Title!MapThenFoldSet, Title!Max, Last, ReadWord
<1>7. PICK i : Runs(i) /\ i[1 .. n] = (CHOOSE j : Runs(j))[1 .. n]
  BY <1>5
<1> DEFINE f == [k \in 0 .. n |-> i[1 .. k]]
<1>8. f[0] = base
  <2>1. 1 .. 0 = {}
    OBVIOUS
  <2> QED BY <1>1, <1>7, <2>1
<1>9. ASSUME NEW k \in 1 .. n PROVE f[k] = ReadWord(f[k - 1], ws[k], p)
  <2>1. i[1 .. k] = ReadWord(i[1 .. (k - 1)], ws[k], p)
    BY <1>1, <1>7, FirstIndices
  <2> QED BY <1>1, <2>1
<1>10. f[n] = i[1 .. n]
  BY <1>1
<1>11. fold = f[n]
  BY <1>6, <1>7, <1>10
<1> HIDE DEF f, fold
<1> QED BY <1>8, <1>9, <1>11

LEMMA ReadingKeeps ==
  ASSUME NEW g, NEW a \in Numbers, NEW b \in Numbers, NEW p, \A w \in DOMAIN p : p[w] \in Reads,
         NEW ws \in Seq(Word)
  PROVE  \E i, j \in Numbers : ReadBy(Told(g, a, b), p, ws) = Told(g, i, j)
<1>0. PICK f : ReadingRun(f, Told(g, a, b), p, ws)
  BY ReadingFolds
<1>1. /\ f[0] = Told(g, a, b) /\ \A k \in 1 .. Len(ws) : f[k] = ReadWord(f[k - 1], ws[k], p)
      /\ ReadBy(Told(g, a, b), p, ws) = f[Len(ws)]
  BY <1>0 DEF ReadingRun
<1> DEFINE n == Len(ws)
           Good == {k \in Nat : k <= n => \E i, j \in Numbers : f[k] = Told(g, i, j)}
<1>2. n \in Nat
  OBVIOUS
<1>3. 0 \in Good
  BY <1>1
<1>4. ASSUME NEW k \in Nat, k \in Good PROVE k + 1 \in Good
  <2> SUFFICES ASSUME k + 1 <= n PROVE \E i, j \in Numbers : f[k + 1] = Told(g, i, j)
    OBVIOUS
  <2>1. PICK i \in Numbers, j \in Numbers : f[k] = Told(g, i, j)
    BY <1>2, <1>4
  <2>2. f[k + 1] = ReadWord(f[k], ws[k + 1], p)
    BY <1>1, <1>2
  <2> QED BY <2>1, <2>2, MatchApplied DEF ReadWord
<1> HIDE DEF Good
<1>5. n \in Good
  BY <1>2, <1>3, <1>4, NatsReached
<1> QED BY <1>1, <1>2, <1>5 DEF Good

\* Of the words a pattern matches, one that it matches alone decides.
LEMMA ReadingOne ==
  ASSUME NEW g, NEW a \in Numbers, NEW b \in Numbers, NEW p, \A w \in DOMAIN p : p[w] \in Reads,
         NEW ws \in Seq(Word), NEW m,
         \A k \in 1 .. Len(ws) : ws[k] \in DOMAIN p => k = m
  PROVE  ReadBy(Told(g, a, b), p, ws)
         = IF m \in 1 .. Len(ws) /\ ws[m] \in DOMAIN p
           THEN Title!ApplySeMatch(Told(g, a, b), p[ws[m]]) ELSE Told(g, a, b)
<1>0. PICK f : ReadingRun(f, Told(g, a, b), p, ws)
  BY ReadingFolds
<1>1. /\ f[0] = Told(g, a, b) /\ \A k \in 1 .. Len(ws) : f[k] = ReadWord(f[k - 1], ws[k], p)
      /\ ReadBy(Told(g, a, b), p, ws) = f[Len(ws)]
  BY <1>0 DEF ReadingRun
<1> DEFINE n == Len(ws)
           base == Told(g, a, b)
           Upto(k) == IF m \in 1 .. k /\ ws[m] \in DOMAIN p
                      THEN Title!ApplySeMatch(base, p[ws[m]]) ELSE base
           Good == {k \in Nat : k <= n => f[k] = Upto(k)}
<1>2. n \in Nat
  OBVIOUS
<1>3. 0 \in Good
  BY <1>1
<1>4. ASSUME NEW k \in Nat, k \in Good PROVE k + 1 \in Good
  <2> SUFFICES ASSUME k + 1 <= n PROVE f[k + 1] = Upto(k + 1)
    OBVIOUS
  <2>1. f[k] = Upto(k) /\ k + 1 \in 1 .. n
    BY <1>2, <1>4
  <2>2. f[k + 1] = ReadWord(f[k], ws[k + 1], p)
    BY <1>1, <2>1
  <2> HIDE DEF base
  <2>3. CASE ws[k + 1] \in DOMAIN p
    <3>1. m = k + 1
      BY <2>1, <2>3
    <3> QED BY <2>1, <2>2, <2>3, <3>1 DEF ReadWord
  <2>4. CASE ws[k + 1] \notin DOMAIN p
    <3>1. f[k + 1] = f[k]
      BY <2>2, <2>4 DEF ReadWord
    <3>2. m \in 1 .. (k + 1) /\ ws[m] \in DOMAIN p <=> m \in 1 .. k /\ ws[m] \in DOMAIN p
      BY <2>4
    <3> QED BY <2>1, <3>1, <3>2
  <2> QED BY <2>3, <2>4
<1> HIDE DEF Good
<1>5. n \in Good
  BY <1>2, <1>3, <1>4, NatsReached
<1> QED BY <1>1, <1>2, <1>5 DEF Good

\* What the patterns are, word by word.
LEMMA PatternWords ==
  /\ DOMAIN Title!SePatterns[1] = {"S01E07", "S01E07-S01E08", "S01E07-E08"}
  /\ DOMAIN Title!SePatterns[2] = {"S01E07", "S01E07-E08"}
  /\ DOMAIN Title!SePatterns[3] = {"S01-S02"}
  /\ DOMAIN Title!SePatterns[4] = {"Season 1-2"}
  /\ DOMAIN Title!SePatterns[5] = {"S01", "S01-S02"}
  /\ DOMAIN Title!SePatterns[6] = {"Season 1", "Season 1-2"}
  /\ DOMAIN Title!SePatterns[7] = {"Episode 7"}
  /\ DOMAIN Title!SePatterns[8] = {"EP07", "E08", "-E08"}
  /\ DOMAIN Title!SePatterns[9] = {"di7ji"}
  /\ DOMAIN Title!SePatterns[10] = {"di1ji"}
BY DEF Title!SePatterns

LEMMA PatternValues ==
  /\ Title!SePatterns[1]["S01E07"] = Title!Read(1, 0, 7, 0)
  /\ Title!SePatterns[1]["S01E07-S01E08"] = Title!Read(1, 1, 7, 8)
  /\ Title!SePatterns[1]["S01E07-E08"] = Title!Part(1, 0, 7, 0, "-E08")
  /\ Title!SePatterns[2]["S01E07"] = Title!Read(1, 0, 7, 0)
  /\ Title!SePatterns[2]["S01E07-E08"] = Title!Read(1, 0, 7, 8)
  /\ Title!SePatterns[3]["S01-S02"] = Title!Read(1, 2, 0, 0)
  /\ Title!SePatterns[4]["Season 1-2"] = Title!Read(1, 2, 0, 0)
  /\ Title!SePatterns[5]["S01"] = Title!Read(1, 0, 0, 0)
  /\ Title!SePatterns[5]["S01-S02"] = Title!Read(1, 0, 0, 0)
  /\ Title!SePatterns[6]["Season 1"] = Title!Read(1, 0, 0, 0)
  /\ Title!SePatterns[6]["Season 1-2"] = Title!Part(1, 0, 0, 0, "-2")
  /\ Title!SePatterns[7]["Episode 7"] = Title!Read(0, 0, 7, 0)
  /\ Title!SePatterns[8]["EP07"] = Title!Read(0, 0, 7, 0)
  /\ Title!SePatterns[8]["E08"] = Title!Read(0, 0, 8, 0)
  /\ Title!SePatterns[8]["-E08"] = Title!Read(0, 0, 8, 0)
  /\ Title!SePatterns[9]["di7ji"] = Title!Read(0, 0, 7, 0)
  /\ Title!SePatterns[10]["di1ji"] = Title!Read(1, 0, 0, 0)
BY DEF Title!SePatterns

LEMMA PatternReads ==
  ASSUME NEW n \in 1 .. 10, NEW w \in DOMAIN Title!SePatterns[n]
  PROVE  Title!SePatterns[n][w] \in Reads
<1>0. \A s, s2, e, e2 \in Nat, r \in Rests : Title!Part(s, s2, e, e2, r) \in Reads
  BY DEF Title!Part, Reads
<1>1. /\ Title!Read(1, 0, 7, 0) \in Reads /\ Title!Read(1, 1, 7, 8) \in Reads
      /\ Title!Read(1, 0, 7, 8) \in Reads /\ Title!Read(1, 2, 0, 0) \in Reads
      /\ Title!Read(1, 0, 0, 0) \in Reads /\ Title!Read(0, 0, 7, 0) \in Reads
      /\ Title!Read(0, 0, 8, 0) \in Reads
      /\ Title!Part(1, 0, 7, 0, "-E08") \in Reads /\ Title!Part(1, 0, 0, 0, "-2") \in Reads
  BY <1>0 DEF Title!Read, Rests
<1>11. CASE n = 1
  <2>1. w = "S01E07" \/ w = "S01E07-S01E08" \/ w = "S01E07-E08"
    BY <1>11, PatternWords
  <2>2. /\ Title!SePatterns[1]["S01E07"] \in Reads
        /\ Title!SePatterns[1]["S01E07-S01E08"] \in Reads
        /\ Title!SePatterns[1]["S01E07-E08"] \in Reads
    BY <1>1, PatternValues, Zenon
  <2> QED BY <1>11, <2>1, <2>2
<1>12. CASE n = 2
  <2>1. w = "S01E07" \/ w = "S01E07-E08"
    BY <1>12, PatternWords
  <2>2. /\ Title!SePatterns[2]["S01E07"] \in Reads
        /\ Title!SePatterns[2]["S01E07-E08"] \in Reads
    BY <1>1, PatternValues, Zenon
  <2> QED BY <1>12, <2>1, <2>2
<1>13. CASE n = 3
  <2>1. w = "S01-S02"
    BY <1>13, PatternWords
  <2>2. Title!SePatterns[3]["S01-S02"] \in Reads
    BY <1>1, PatternValues, Zenon
  <2> QED BY <1>13, <2>1, <2>2
<1>14. CASE n = 4
  <2>1. w = "Season 1-2"
    BY <1>14, PatternWords
  <2>2. Title!SePatterns[4]["Season 1-2"] \in Reads
    BY <1>1, PatternValues, Zenon
  <2> QED BY <1>14, <2>1, <2>2
<1>15. CASE n = 5
  <2>1. w = "S01" \/ w = "S01-S02"
    BY <1>15, PatternWords
  <2>2. /\ Title!SePatterns[5]["S01"] \in Reads
        /\ Title!SePatterns[5]["S01-S02"] \in Reads
    BY <1>1, PatternValues, Zenon
  <2> QED BY <1>15, <2>1, <2>2
<1>16. CASE n = 6
  <2>1. w = "Season 1" \/ w = "Season 1-2"
    BY <1>16, PatternWords
  <2>2. /\ Title!SePatterns[6]["Season 1"] \in Reads
        /\ Title!SePatterns[6]["Season 1-2"] \in Reads
    BY <1>1, PatternValues, Zenon
  <2> QED BY <1>16, <2>1, <2>2
<1>17. CASE n = 7
  <2>1. w = "Episode 7"
    BY <1>17, PatternWords
  <2>2. Title!SePatterns[7]["Episode 7"] \in Reads
    BY <1>1, PatternValues, Zenon
  <2> QED BY <1>17, <2>1, <2>2
<1>18. CASE n = 8
  <2>1. w = "EP07" \/ w = "E08" \/ w = "-E08"
    BY <1>18, PatternWords
  <2>2. /\ Title!SePatterns[8]["EP07"] \in Reads
        /\ Title!SePatterns[8]["E08"] \in Reads
        /\ Title!SePatterns[8]["-E08"] \in Reads
    BY <1>1, PatternValues, Zenon
  <2> QED BY <1>18, <2>1, <2>2
<1>19. CASE n = 9
  <2>1. w = "di7ji"
    BY <1>19, PatternWords
  <2>2. Title!SePatterns[9]["di7ji"] \in Reads
    BY <1>1, PatternValues, Zenon
  <2> QED BY <1>19, <2>1, <2>2
<1>20. CASE n = 10
  <2>1. w = "di1ji"
    BY <1>20, PatternWords
  <2>2. Title!SePatterns[10]["di1ji"] \in Reads
    BY <1>1, PatternValues, Zenon
  <2> QED BY <1>20, <2>1, <2>2
<1> QED BY <1>11, <1>12, <1>13, <1>14, <1>15, <1>16, <1>17, <1>18, <1>19, <1>20

\* What a word says alone is what it means.
Means(r, v) == r.rest = "" /\ v = <<SeasonOf(<<>>, r), EpisodeOf(<<>>, r)>>

LEMMA ReadMeans ==
  /\ Means(Title!Read(1, 0, 7, 0), <<<<1>>, <<7>>>>)
  /\ Means(Title!Read(1, 1, 7, 8), <<<<1>>, <<7, 8>>>>)
  /\ Means(Title!Read(1, 2, 0, 0), <<<<1, 2>>, <<>>>>)
  /\ Means(Title!Read(1, 0, 0, 0), <<<<1>>, <<>>>>)
  /\ Means(Title!Read(0, 0, 7, 0), <<<<>>, <<7>>>>)
  /\ Means(Title!Read(0, 0, 8, 0), <<<<>>, <<8>>>>)
<1>1. Means(Title!Read(1, 0, 7, 0), <<<<1>>, <<7>>>>)
  BY DEF Means, Title!Read, Title!Part, SeasonOf, EpisodeOf
<1>2. Means(Title!Read(1, 1, 7, 8), <<<<1>>, <<7, 8>>>>)
  BY DEF Means, Title!Read, Title!Part, SeasonOf, EpisodeOf
<1>3. Means(Title!Read(1, 2, 0, 0), <<<<1, 2>>, <<>>>>)
  BY DEF Means, Title!Read, Title!Part, SeasonOf, EpisodeOf
<1>4. Means(Title!Read(1, 0, 0, 0), <<<<1>>, <<>>>>)
  BY DEF Means, Title!Read, Title!Part, SeasonOf, EpisodeOf
<1>5. Means(Title!Read(0, 0, 7, 0), <<<<>>, <<7>>>>)
  BY DEF Means, Title!Read, Title!Part, SeasonOf, EpisodeOf
<1>6. Means(Title!Read(0, 0, 8, 0), <<<<>>, <<8>>>>)
  BY DEF Means, Title!Read, Title!Part, SeasonOf, EpisodeOf
<1> QED BY <1>1, <1>2, <1>3, <1>4, <1>5, <1>6

LEMMA WordMeans ==
  /\ Title!Meaning["S01E07"] = <<<<1>>, <<7>>>>
  /\ Title!Meaning["S01E07-S01E08"] = <<<<1>>, <<7, 8>>>>
  /\ Title!Meaning["S01-S02"] = <<<<1, 2>>, <<>>>>
  /\ Title!Meaning["Season 1-2"] = <<<<1, 2>>, <<>>>>
  /\ Title!Meaning["S01"] = <<<<1>>, <<>>>>
  /\ Title!Meaning["Season 1"] = <<<<1>>, <<>>>>
  /\ Title!Meaning["di1ji"] = <<<<1>>, <<>>>>
  /\ Title!Meaning["EP07"] = <<<<>>, <<7>>>>
  /\ Title!Meaning["Episode 7"] = <<<<>>, <<7>>>>
  /\ Title!Meaning["di7ji"] = <<<<>>, <<7>>>>
  /\ Title!Meaning["E08"] = <<<<>>, <<8>>>>
  /\ Title!Meaning["-E08"] = <<<<>>, <<8>>>>
BY DEF Title!Meaning

LEMMA PatternMeans ==
  ASSUME NEW n \in 1 .. 10, NEW w \in DOMAIN Title!SePatterns[n],
         \A j \in 1 .. (n - 1) : w \notin DOMAIN Title!SePatterns[j], w # "S01E07-E08"
  PROVE  Means(Title!SePatterns[n][w], Title!Meaning[w])
<1>1. /\ n = 2 => w \notin DOMAIN Title!SePatterns[1]
      /\ n = 5 => w \notin DOMAIN Title!SePatterns[3]
      /\ n = 6 => w \notin DOMAIN Title!SePatterns[4]
  OBVIOUS
<1>2. n \in {1, 2, 3, 4, 5, 6, 7, 8, 9, 10}
  OBVIOUS
<1>11. ASSUME n = 1 PROVE Means(Title!SePatterns[n][w], Title!Meaning[w])
  <2>1. w = "S01E07" \/ w = "S01E07-S01E08"
    BY <1>1, <1>11, PatternWords
  <2> QED BY <1>11, <2>1, ReadMeans, WordMeans, PatternValues
<1>12. ASSUME n = 2 PROVE Means(Title!SePatterns[n][w], Title!Meaning[w])
  <2>1. FALSE
    BY <1>1, <1>12, PatternWords
  <2> QED BY <1>12, <2>1, ReadMeans, WordMeans, PatternValues
<1>13. ASSUME n = 3 PROVE Means(Title!SePatterns[n][w], Title!Meaning[w])
  <2>1. w = "S01-S02"
    BY <1>1, <1>13, PatternWords
  <2> QED BY <1>13, <2>1, ReadMeans, WordMeans, PatternValues
<1>14. ASSUME n = 4 PROVE Means(Title!SePatterns[n][w], Title!Meaning[w])
  <2>1. w = "Season 1-2"
    BY <1>1, <1>14, PatternWords
  <2> QED BY <1>14, <2>1, ReadMeans, WordMeans, PatternValues
<1>15. ASSUME n = 5 PROVE Means(Title!SePatterns[n][w], Title!Meaning[w])
  <2>1. w = "S01"
    BY <1>1, <1>15, PatternWords
  <2> QED BY <1>15, <2>1, ReadMeans, WordMeans, PatternValues
<1>16. ASSUME n = 6 PROVE Means(Title!SePatterns[n][w], Title!Meaning[w])
  <2>1. w = "Season 1"
    BY <1>1, <1>16, PatternWords
  <2> QED BY <1>16, <2>1, ReadMeans, WordMeans, PatternValues
<1>17. ASSUME n = 7 PROVE Means(Title!SePatterns[n][w], Title!Meaning[w])
  <2>1. w = "Episode 7"
    BY <1>1, <1>17, PatternWords
  <2> QED BY <1>17, <2>1, ReadMeans, WordMeans, PatternValues
<1>18. ASSUME n = 8 PROVE Means(Title!SePatterns[n][w], Title!Meaning[w])
  <2>1. w = "EP07" \/ w = "E08" \/ w = "-E08"
    BY <1>1, <1>18, PatternWords
  <2> QED BY <1>18, <2>1, ReadMeans, WordMeans, PatternValues
<1>19. ASSUME n = 9 PROVE Means(Title!SePatterns[n][w], Title!Meaning[w])
  <2>1. w = "di7ji"
    BY <1>1, <1>19, PatternWords
  <2> QED BY <1>19, <2>1, ReadMeans, WordMeans, PatternValues
<1>20. ASSUME n = 10 PROVE Means(Title!SePatterns[n][w], Title!Meaning[w])
  <2>1. w = "di1ji"
    BY <1>1, <1>20, PatternWords
  <2> QED BY <1>20, <2>1, ReadMeans, WordMeans, PatternValues
<1> QED BY <1>2, <1>11, <1>12, <1>13, <1>14, <1>15, <1>16, <1>17, <1>18, <1>19, <1>20

LEMMA MeaningWords ==
  /\ \A w \in DOMAIN Title!Meaning : \E n \in 1 .. 10 : w \in DOMAIN Title!SePatterns[n]
  /\ \A n \in 1 .. 10 : \A w \in DOMAIN Title!SePatterns[n] : w \in DOMAIN Title!Meaning
<1>1. DOMAIN Title!Meaning =
        {"S01E07", "S01E07-S01E08", "S01E07-E08", "S01-S02", "Season 1-2", "S01", "Season 1",
         "di1ji", "EP07", "Episode 7", "di7ji", "E08", "-E08"}
  BY DEF Title!Meaning
<1>2. 1 .. 10 = {1, 2, 3, 4, 5, 6, 7, 8, 9, 10}
  OBVIOUS
<1>3. ASSUME NEW w \in DOMAIN Title!Meaning
      PROVE  \E n \in {1, 2, 3, 4, 5, 6, 7, 8, 9, 10} : w \in DOMAIN Title!SePatterns[n]
  BY <1>1, PatternWords
<1>4. ASSUME NEW n \in {1, 2, 3, 4, 5, 6, 7, 8, 9, 10}, NEW w \in DOMAIN Title!SePatterns[n]
      PROVE  w \in DOMAIN Title!Meaning
  <2>1. CASE n = 1
    BY <1>1, <2>1, PatternWords
  <2>2. CASE n = 2
    BY <1>1, <2>2, PatternWords
  <2>3. CASE n = 3
    BY <1>1, <2>3, PatternWords
  <2>4. CASE n = 4
    BY <1>1, <2>4, PatternWords
  <2>5. CASE n = 5
    BY <1>1, <2>5, PatternWords
  <2>6. CASE n = 6
    BY <1>1, <2>6, PatternWords
  <2>7. CASE n = 7
    BY <1>1, <2>7, PatternWords
  <2>8. CASE n = 8
    BY <1>1, <2>8, PatternWords
  <2>9. CASE n = 9
    BY <1>1, <2>9, PatternWords
  <2>10. CASE n = 10
    BY <1>1, <2>10, PatternWords
  <2> QED BY <2>1, <2>2, <2>3, <2>4, <2>5, <2>6, <2>7, <2>8, <2>9, <2>10
<1> QED BY <1>2, <1>3, <1>4

\* One pattern, and all in their order.
Left(q, p) == [k \in DOMAIN q |-> IF q[k] \in DOMAIN p THEN p[q[k]].rest ELSE q[k]]
PatternStates(g) == {[words |-> q, c |-> Told(g, i, j)] : q \in Seq(Word), i \in Numbers, j \in Numbers}

LEMMA PatternIs ==
  ASSUME NEW c, NEW q, NEW n
  PROVE  Title!ReadPattern([words |-> q, c |-> c], n)
         = [words |-> Left(q, Title!SePatterns[n]), c |-> ReadBy(c, Title!SePatterns[n], q)]
BY DEF Title!ReadPattern, Left, ReadBy

LEMMA OnePattern ==
  ASSUME NEW g, NEW a \in Numbers, NEW b \in Numbers, NEW q \in Seq(Word), NEW n \in 1 .. 10
  PROVE  /\ Left(q, Title!SePatterns[n]) \in Seq(Word)
         /\ \E i, j \in Numbers : ReadBy(Told(g, a, b), Title!SePatterns[n], q) = Told(g, i, j)
<1> DEFINE p == Title!SePatterns[n]
<1>1. \A w \in DOMAIN p : p[w] \in Reads
  BY PatternReads
<1> HIDE DEF p
<1>2. \E i, j \in Numbers : ReadBy(Told(g, a, b), p, q) = Told(g, i, j)
  BY <1>1, ReadingKeeps
<1>3. Left(q, p) \in Seq(Word)
  <2>1. \A r \in Reads : r.rest \in Word
    BY DEF Reads, Word
  <2>2. \A k \in DOMAIN q : q[k] \in Word
    OBVIOUS
  <2>3. Left(q, p) \in [1 .. Len(q) -> Word]
    BY <1>1, <2>1, <2>2 DEF Left
  <2> QED BY <2>3
<1> QED BY <1>2, <1>3 DEF p

LEMMA PatternKeeps ==
  ASSUME NEW g, NEW s \in PatternStates(g), NEW k \in 1 .. 10
  PROVE  Title!ReadPattern(s, k) \in PatternStates(g)
<1>1. PICK q \in Seq(Word), i \in Numbers, j \in Numbers : s = [words |-> q, c |-> Told(g, i, j)]
  BY DEF PatternStates
<1>2. Left(q, Title!SePatterns[k]) \in Seq(Word)
  BY OnePattern
<1>3. PICK i2 \in Numbers, j2 \in Numbers :
        ReadBy(Told(g, i, j), Title!SePatterns[k], q) = Told(g, i2, j2)
  BY OnePattern
<1>4. Title!ReadPattern(s, k) = [words |-> Left(q, Title!SePatterns[k]), c |-> Told(g, i2, j2)]
  BY <1>1, <1>3, PatternIs
<1> QED BY <1>2, <1>4 DEF PatternStates

PatternsRun(f, st) ==
  /\ f[0] = st /\ \A k \in 1 .. 10 : f[k] = Title!ReadPattern(f[k - 1], k)
  /\ Title!ExtractSeasonEpisode(st) = f[10]

LEMMA PatternsFold ==
  ASSUME NEW g, NEW st \in PatternStates(g)
  PROVE  \E f : PatternsRun(f, st)
<1> DEFINE St == PatternStates(g)
           step == [q \in St \X (1 .. 10) |-> Title!ReadPattern(q[1], q[2])]
           Runs(it) == it = [x \in SUBSET (1 .. 10) |->
                               IF x = {} THEN st
                               ELSE Title!ReadPattern(it[x \ {Last(x)}], Title!PatternOrder[Last(x)])]
           fold == Title!ExtractSeasonEpisode(st)
<1> SUFFICES \E f : /\ f[0] = st /\ \A k \in 1 .. 10 : f[k] = Title!ReadPattern(f[k - 1], k)
                    /\ fold = f[10]
  BY DEF PatternsRun
<1>1. Len(Title!PatternOrder) = 10 /\ \A k \in 1 .. 10 : Title!PatternOrder[k] = k
  BY DEF Title!PatternOrder
<1>2. step \in [St \X (1 .. 10) -> St]
  <2>1. ASSUME NEW s \in St, NEW k \in 1 .. 10 PROVE Title!ReadPattern(s, k) \in St
    BY PatternKeeps
  <2> HIDE DEF St
  <2> QED BY <2>1
<1>3. PICK it : Folds(it, 10, St, st, step)
  <2> HIDE DEF step
  <2> QED BY <1>2, FoldRuns
<1>4. ASSUME NEW x \in SUBSET (1 .. 10)
      PROVE  it[x] = IF x = {} THEN st
                     ELSE Title!ReadPattern(it[x \ {Last(x)}], Title!PatternOrder[Last(x)])
  <2>1. it[x] = IF x = {} THEN st ELSE step[<<it[x \ {Last(x)}], Last(x)>>]
    <3> HIDE DEF step, St
    <3> QED BY <1>3 DEF Folds
  <2>2. CASE x = {}
    BY <2>1, <2>2
  <2>3. CASE x # {}
    <3>1. Last(x) \in x
      BY <2>3, LastIn
    <3>2. Last(x) \in 1 .. 10 /\ x \ {Last(x)} \in SUBSET (1 .. 10)
      BY <3>1
    <3>3. it[x \ {Last(x)}] \in St
      <4> HIDE DEF step, St
      <4> QED BY <1>3, <3>2 DEF Folds
    <3>4. step[<<it[x \ {Last(x)}], Last(x)>>] = Title!ReadPattern(it[x \ {Last(x)}], Last(x))
      BY <3>2, <3>3
    <3>5. Title!PatternOrder[Last(x)] = Last(x)
      BY <1>1, <3>2
    <3> HIDE DEF step, St
    <3> QED BY <2>1, <2>3, <3>4, <3>5
  <2> QED BY <2>2, <2>3
<1>5. \E i : Runs(i)
  <2> DEFINE i == [x \in SUBSET (1 .. 10) |-> it[x]]
  <2>1. \A x \in SUBSET (1 .. 10) : x # {} => x \ {Last(x)} \in SUBSET (1 .. 10)
    OBVIOUS
  <2>2. Runs(i)
    BY <1>4, <2>1
  <2> QED BY <2>2
<1>6. fold = (CHOOSE i : Runs(i))[1 .. 10]
  BY <1>1 DEF Title!ExtractSeasonEpisode, Title!FoldLeft, Title!MapThenFoldSet, Title!Max, Last
<1>7. PICK i : Runs(i) /\ i[1 .. 10] = (CHOOSE j : Runs(j))[1 .. 10]
  BY <1>5
<1> DEFINE f == [k \in 0 .. 10 |-> i[1 .. k]]
<1>8. f[0] = st
  <2>1. 1 .. 0 = {}
    OBVIOUS
  <2> QED BY <1>7, <2>1
<1>9. ASSUME NEW k \in 1 .. 10 PROVE f[k] = Title!ReadPattern(f[k - 1], k)
  <2>1. /\ 1 .. k \in SUBSET (1 .. 10) /\ 1 .. k # {}
        /\ Last(1 .. k) = k /\ (1 .. k) \ {Last(1 .. k)} = 1 .. (k - 1)
    BY FirstIndices
  <2>2. i[1 .. k] = Title!ReadPattern(i[(1 .. k) \ {Last(1 .. k)}], Title!PatternOrder[Last(1 .. k)])
    BY <1>7, <2>1
  <2>3. i[1 .. k] = Title!ReadPattern(i[1 .. (k - 1)], k)
    BY <1>1, <2>1, <2>2
  <2> QED BY <2>3
<1>10. f[10] = i[1 .. 10]
  OBVIOUS
<1>11. fold = f[10]
  BY <1>6, <1>7, <1>10
<1> HIDE DEF f, fold
<1> QED BY <1>8, <1>9, <1>11

LEMMA PatternsKeep ==
  ASSUME NEW g, NEW st \in PatternStates(g)
  PROVE  Title!ExtractSeasonEpisode(st) \in PatternStates(g)
<1>1. PICK f : PatternsRun(f, st)
  BY PatternsFold
<1>2. /\ f[0] = st /\ \A k \in 1 .. 10 : f[k] = Title!ReadPattern(f[k - 1], k)
      /\ Title!ExtractSeasonEpisode(st) = f[10]
  BY <1>1 DEF PatternsRun
<1> DEFINE Good == {n \in Nat : n <= 10 => f[n] \in PatternStates(g)}
<1>3. 0 \in Good
  BY <1>2
<1>4. ASSUME NEW n \in Nat, n \in Good PROVE n + 1 \in Good
  <2> SUFFICES ASSUME n + 1 <= 10 PROVE f[n + 1] \in PatternStates(g)
    OBVIOUS
  <2>1. n + 1 \in 1 .. 10 /\ (n + 1) - 1 = n /\ f[n] \in PatternStates(g)
    BY <1>4
  <2>2. f[n + 1] = Title!ReadPattern(f[n], n + 1)
    BY <1>2, <2>1
  <2> QED BY <2>1, <2>2, PatternKeeps
<1> HIDE DEF Good
<1>5. 10 \in Good
  BY <1>3, <1>4, NatsReached
<1> QED BY <1>2, <1>5 DEF Good

\* What the first n patterns leave of a title, and what they tell.
Eaten(w, n) == \E j \in 1 .. n : w \in DOMAIN Title!SePatterns[j]
Blank(ws, n) == [k \in DOMAIN ws |-> IF Eaten(ws[k], n) THEN "" ELSE ws[k]]
ToldAlone(ws, m) == \A k \in DOMAIN ws : ws[k] \in DOMAIN Title!Meaning => k = m
Telling(g, w, n) ==
  IF Eaten(w, n) THEN Told(g, Title!Meaning[w][1], Title!Meaning[w][2]) ELSE Told(g, <<>>, <<>>)
PatternsTo(ws, n, g, st) ==
  /\ \E i, j \in Numbers : st = [words |-> Blank(ws, n), c |-> Told(g, i, j)]
  /\ \A m \in DOMAIN ws : ToldAlone(ws, m) => st.c = Telling(g, ws[m], n)

LEMMA EatenNext ==
  ASSUME NEW n \in Nat, NEW w
  PROVE  Eaten(w, n + 1) <=> Eaten(w, n) \/ w \in DOMAIN Title!SePatterns[n + 1]
<1>1. \A j : j \in 1 .. (n + 1) <=> j \in 1 .. n \/ j = n + 1
  OBVIOUS
<1> QED BY <1>1 DEF Eaten

LEMMA NothingEaten ==
  ASSUME NEW n \in 1 .. 10
  PROVE  "" \notin DOMAIN Title!SePatterns[n]
<1>1. /\ "" \notin DOMAIN Title!SePatterns[1] /\ "" \notin DOMAIN Title!SePatterns[2]
      /\ "" \notin DOMAIN Title!SePatterns[3] /\ "" \notin DOMAIN Title!SePatterns[4]
      /\ "" \notin DOMAIN Title!SePatterns[5] /\ "" \notin DOMAIN Title!SePatterns[6]
      /\ "" \notin DOMAIN Title!SePatterns[7] /\ "" \notin DOMAIN Title!SePatterns[8]
      /\ "" \notin DOMAIN Title!SePatterns[9] /\ "" \notin DOMAIN Title!SePatterns[10]
  BY PatternWords
<1>2. n \in {1, 2, 3, 4, 5, 6, 7, 8, 9, 10}
  OBVIOUS
<1> QED BY <1>1, <1>2

LEMMA BlankWords ==
  ASSUME NEW ws \in Seq(Word), NEW n
  PROVE  /\ Blank(ws, n) \in Seq(Word) /\ Len(Blank(ws, n)) = Len(ws)
         /\ DOMAIN Blank(ws, n) = DOMAIN ws
<1>1. \A k \in 1 .. Len(ws) : ws[k] \in Word
  OBVIOUS
<1>2. Blank(ws, n) \in [1 .. Len(ws) -> Word]
  <2>1. "" \in Word
    BY DEF Word, Rests
  <2>2. \A k \in 1 .. Len(ws) : (IF Eaten(ws[k], n) THEN "" ELSE ws[k]) \in Word
    BY <1>1, <2>1
  <2>3. Blank(ws, n) = [k \in 1 .. Len(ws) |-> IF Eaten(ws[k], n) THEN "" ELSE ws[k]]
    BY DEF Blank
  <2> QED BY <2>2, <2>3
<1> QED BY <1>2

LEMMA BlankNext ==
  ASSUME NEW ws \in Seq(Word), NEW n \in 0 .. 9, \A k \in DOMAIN ws : ws[k] # "S01E07-E08"
  PROVE  Left(Blank(ws, n), Title!SePatterns[n + 1]) = Blank(ws, n + 1)
<1> DEFINE p == Title!SePatterns[n + 1]
<1>1. DOMAIN Blank(ws, n) = DOMAIN ws /\ n \in Nat /\ n + 1 \in 1 .. 10
  BY BlankWords
<1>2. ASSUME NEW k \in DOMAIN ws
      PROVE  (IF Blank(ws, n)[k] \in DOMAIN p THEN p[Blank(ws, n)[k]].rest ELSE Blank(ws, n)[k])
             = IF Eaten(ws[k], n + 1) THEN "" ELSE ws[k]
  <2>1. Eaten(ws[k], n + 1) <=> Eaten(ws[k], n) \/ ws[k] \in DOMAIN p
    BY <1>1, EatenNext
  <2>2. CASE Eaten(ws[k], n)
    <3>1. Blank(ws, n)[k] = "" /\ "" \notin DOMAIN p
      BY <1>1, <2>2, NothingEaten DEF Blank
    <3> HIDE DEF p
    <3> QED BY <2>1, <2>2, <3>1
  <2>3. CASE ~Eaten(ws[k], n)
    <3>1. Blank(ws, n)[k] = ws[k]
      BY <2>3 DEF Blank
    <3>2. ws[k] \in DOMAIN p => p[ws[k]].rest = ""
      <4>1. SUFFICES ASSUME ws[k] \in DOMAIN p PROVE p[ws[k]].rest = ""
        OBVIOUS
      <4>2. \A j \in 1 .. ((n + 1) - 1) : ws[k] \notin DOMAIN Title!SePatterns[j]
        BY <1>1, <2>3 DEF Eaten
      <4>3. Means(p[ws[k]], Title!Meaning[ws[k]])
        BY <1>1, <4>1, <4>2, PatternMeans
      <4> QED BY <4>3 DEF Means
    <3> HIDE DEF p
    <3> QED BY <2>1, <2>3, <3>1, <3>2
  <2> QED BY <2>2, <2>3
<1>3. Left(Blank(ws, n), p)
      = [k \in DOMAIN ws |-> IF Blank(ws, n)[k] \in DOMAIN p THEN p[Blank(ws, n)[k]].rest
                             ELSE Blank(ws, n)[k]]
  BY <1>1 DEF Left
<1>4. Blank(ws, n + 1) = [k \in DOMAIN ws |-> IF Eaten(ws[k], n + 1) THEN "" ELSE ws[k]]
  BY DEF Blank
<1> HIDE DEF p
<1>5. Left(Blank(ws, n), p) = Blank(ws, n + 1)
  BY <1>2, <1>3, <1>4
<1> QED BY <1>5 DEF p

LEMMA PatternsNext ==
  ASSUME NEW ws \in Seq(Word), \A k \in DOMAIN ws : ws[k] # "S01E07-E08",
         NEW n \in 0 .. 9, NEW g, NEW st, PatternsTo(ws, n, g, st)
  PROVE  PatternsTo(ws, n + 1, g, Title!ReadPattern(st, n + 1))
<1> DEFINE p == Title!SePatterns[n + 1]
           q == Blank(ws, n)
           next == Title!ReadPattern(st, n + 1)
<1>0. n \in Nat /\ n + 1 \in 1 .. 10 /\ q \in Seq(Word) /\ DOMAIN q = DOMAIN ws /\ Len(q) = Len(ws)
  BY BlankWords
<1>1. PICK i \in Numbers, j \in Numbers : st = [words |-> q, c |-> Told(g, i, j)]
  BY DEF PatternsTo
<1>2. next = [words |-> Blank(ws, n + 1), c |-> ReadBy(Told(g, i, j), p, q)]
  BY <1>1, PatternIs, BlankNext
<1>3. \E i2, j2 \in Numbers : ReadBy(Told(g, i, j), p, q) = Told(g, i2, j2)
  BY <1>0, OnePattern
<1>4. ASSUME NEW m \in DOMAIN ws, ToldAlone(ws, m)
      PROVE  ReadBy(Told(g, i, j), p, q) = Telling(g, ws[m], n + 1)
  <2>1. Told(g, i, j) = Telling(g, ws[m], n)
    <3>1. st.c = Telling(g, ws[m], n)
      BY <1>4 DEF PatternsTo
    <3>2. st.c = Told(g, i, j)
      BY <1>1
    <3> QED BY <3>1, <3>2
  <2>2. \A k \in 1 .. Len(q) : q[k] \in DOMAIN p => k = m
    <3>1. \A w \in DOMAIN p : w \in DOMAIN Title!Meaning /\ w # ""
      BY <1>0, MeaningWords, NothingEaten
    <3>2. ASSUME NEW k \in DOMAIN ws, q[k] \in DOMAIN p PROVE k = m
      <4>1. q[k] = ws[k]
        BY <3>1, <3>2 DEF Blank
      <4> QED BY <1>4, <3>1, <3>2, <4>1 DEF ToldAlone
    <3> HIDE DEF q, p
    <3> QED BY <1>0, <3>2
  <2>3. \A w \in DOMAIN p : p[w] \in Reads
    BY <1>0, PatternReads
  <2>4. ReadBy(Told(g, i, j), p, q)
        = IF m \in 1 .. Len(q) /\ q[m] \in DOMAIN p
          THEN Title!ApplySeMatch(Told(g, i, j), p[q[m]]) ELSE Told(g, i, j)
    <3>1. q \in Seq(Word) /\ i \in Numbers /\ j \in Numbers
      BY <1>0
    <3> HIDE DEF p, q
    <3> QED BY <2>2, <2>3, <3>1, ReadingOne, Zenon
  <2>5. m \in 1 .. Len(q)
    <3> HIDE DEF q
    <3> QED BY <1>0
  <2>6. Eaten(ws[m], n + 1) <=> Eaten(ws[m], n) \/ ws[m] \in DOMAIN p
    BY <1>0, EatenNext
  <2>7. CASE Eaten(ws[m], n)
    <3>1. q[m] = "" /\ "" \notin DOMAIN p
      BY <1>0, <2>7, NothingEaten DEF Blank
    <3> HIDE DEF p, q
    <3> QED BY <2>1, <2>4, <2>6, <2>7, <3>1 DEF Telling
  <2>8. CASE ~Eaten(ws[m], n) /\ ws[m] \in DOMAIN p
    <3>1. q[m] = ws[m]
      BY <2>8 DEF Blank
    <3>2. Told(g, i, j) = Told(g, <<>>, <<>>)
      BY <2>1, <2>8 DEF Telling
    <3> DEFINE r == p[ws[m]]  v == Title!Meaning[ws[m]]
    <3>3. Means(r, v)
      <4>1. \A k \in 1 .. ((n + 1) - 1) : ws[m] \notin DOMAIN Title!SePatterns[k]
        BY <1>0, <2>8 DEF Eaten
      <4> QED BY <1>0, <2>8, <4>1, PatternMeans
    <3>4. r \in Reads
      BY <2>3, <2>8
    <3>5. ReadBy(Told(g, i, j), p, q) = Title!ApplySeMatch(Told(g, <<>>, <<>>), r)
      <4> HIDE DEF q
      <4> QED BY <2>4, <2>5, <2>8, <3>1, <3>2
    <3>6. Telling(g, ws[m], n + 1) = Told(g, v[1], v[2])
      BY <2>6, <2>8 DEF Telling
    <3> HIDE DEF r, v
    <3>7. Title!ApplySeMatch(Told(g, <<>>, <<>>), r)
          = Told(g, SeasonOf(<<>>, r), EpisodeOf(<<>>, r))
      <4>1. <<>> \in Numbers
        BY DEF Numbers
      <4> QED BY <3>4, <4>1, MatchApplied
    <3>8. v[1] = SeasonOf(<<>>, r) /\ v[2] = EpisodeOf(<<>>, r)
      BY <3>3 DEF Means
    <3> QED BY <3>5, <3>6, <3>7, <3>8
  <2>9. CASE ~Eaten(ws[m], n) /\ ws[m] \notin DOMAIN p
    <3>1. q[m] = ws[m]
      BY <2>9 DEF Blank
    <3> HIDE DEF p, q
    <3> QED BY <2>1, <2>4, <2>6, <2>9, <3>1 DEF Telling
  <2> QED BY <2>7, <2>8, <2>9
<1>5. next.c = ReadBy(Told(g, i, j), p, q)
  BY <1>2
<1> HIDE DEF p, q, next
<1>6. PatternsTo(ws, n + 1, g, next)
  BY <1>2, <1>3, <1>4, <1>5 DEF PatternsTo
<1> QED BY <1>6 DEF next

LEMMA PatternsRead ==
  ASSUME NEW ws \in Seq(Word), \A k \in DOMAIN ws : ws[k] # "S01E07-E08", NEW g
  PROVE  PatternsTo(ws, 10, g, Title!ExtractSeasonEpisode([words |-> ws, c |-> Told(g, <<>>, <<>>)]))
<1> DEFINE st == [words |-> ws, c |-> Told(g, <<>>, <<>>)]
<1>0. <<>> \in Numbers
  BY DEF Numbers
<1>1. st \in PatternStates(g)
  BY <1>0 DEF PatternStates
<1>2. PICK f : PatternsRun(f, st)
  BY <1>1, PatternsFold
<1>3. /\ f[0] = st /\ \A k \in 1 .. 10 : f[k] = Title!ReadPattern(f[k - 1], k)
      /\ Title!ExtractSeasonEpisode(st) = f[10]
  BY <1>2 DEF PatternsRun
<1> DEFINE Good == {n \in Nat : n <= 10 => PatternsTo(ws, n, g, f[n])}
<1>4. 0 \in Good
  <2>1. \A w : ~Eaten(w, 0)
    BY DEF Eaten
  <2>2. Blank(ws, 0) = ws
    <3>1. Blank(ws, 0) \in Seq(Word) /\ Len(Blank(ws, 0)) = Len(ws)
      BY BlankWords
    <3>2. ASSUME NEW k \in DOMAIN ws PROVE Blank(ws, 0)[k] = ws[k]
      <4>1. ~Eaten(ws[k], 0)
        BY <2>1
      <4>2. Blank(ws, 0)[k] = IF Eaten(ws[k], 0) THEN "" ELSE ws[k]
        BY DEF Blank
      <4> QED BY <4>1, <4>2
    <3>3. DOMAIN ws = 1 .. Len(ws)
      OBVIOUS
    <3> QED BY <3>1, <3>2, <3>3
  <2>3. st = [words |-> Blank(ws, 0), c |-> Told(g, <<>>, <<>>)]
    BY <2>2
  <2>4. \A m \in DOMAIN ws : st.c = Telling(g, ws[m], 0)
    BY <2>1 DEF Telling
  <2>5. PatternsTo(ws, 0, g, st)
    <3> HIDE DEF st
    <3> QED BY <1>0, <2>3, <2>4 DEF PatternsTo
  <2> HIDE DEF st
  <2> QED BY <1>3, <2>5
<1>5. ASSUME NEW n \in Nat, n \in Good PROVE n + 1 \in Good
  <2> HIDE DEF st
  <2> SUFFICES ASSUME n + 1 <= 10 PROVE PatternsTo(ws, n + 1, g, f[n + 1])
    OBVIOUS
  <2>1. n \in 0 .. 9 /\ n + 1 \in 1 .. 10 /\ (n + 1) - 1 = n /\ PatternsTo(ws, n, g, f[n])
    BY <1>5
  <2>2. f[n + 1] = Title!ReadPattern(f[n], n + 1)
    BY <1>3, <2>1
  <2> QED BY <2>1, <2>2, PatternsNext
<1> HIDE DEF Good, st
<1>6. 10 \in Good
  BY <1>4, <1>5, NatsReached
<1>7. PatternsTo(ws, 10, g, Title!ExtractSeasonEpisode(st))
  BY <1>3, <1>6 DEF Good
<1> QED BY <1>7 DEF st

\* The words the rules of the components match, each by one rule only.
LEMMA KindWords ==
  /\ DOMAIN Title!Matches["year"] = {"1963", "2023"}
  /\ DOMAIN Title!Matches["resolution"] = {"2160p", "1440p", "1080p", "1080P", "720p",
        "576p", "480p", "4K", "UHD"}
  /\ DOMAIN Title!Matches["hdr"] = {"DV", "DoVi", "HDR10+", "HDR10Plus", "HDR10",
        "HDR Vivid", "HDR"}
  /\ DOMAIN Title!Matches["video_codec"] = {"HEVC", "x265", "H.265", "x264", "AVC",
        "MPEG-4", "VC-1", "MPEG-2", "XviD", "DivX"}
  /\ DOMAIN Title!Matches["audio_codec"] = {"DDP", "EAC3", "AC-3", "TrueHD", "DTS-HD MA",
        "DTS-HD", "DTS", "Atmos", "FLAC", "AAC", "LPCM", "PCM", "MP3", "Opus"}
  /\ DOMAIN Title!Matches["channels"] = {"2.0", "5.1", "7.1", "6.1", "4.0", "1.0", "5.1.4",
        "7.1.4", "2Audio"}
  /\ DOMAIN Title!Matches["bits"] = {"10bit", "8bit"}
  /\ DOMAIN Title!Matches["source"] = {"WEB-DL", "WEBRip", "Blu-Ray", "HDTV", "DVDRip",
        "BDRip", "HDRip", "PDTV", "BDMV"}
  /\ DOMAIN Title!Matches["medium"] = {"REMUX", "WEB"}
  /\ DOMAIN Title!Matches["complete"] = {"Complete"}
  /\ DOMAIN Title!Matches["noise"] = {"REPACK", "PROPER", "DSNP", "INTERNAL"}
<1>1. DOMAIN Title!Matches["year"] = {"1963", "2023"}
  BY DEF Title!Matches, Title!Same
<1>2. DOMAIN Title!Matches["resolution"] = {"2160p", "1440p", "1080p", "1080P", "720p",
        "576p", "480p", "4K", "UHD"}
  BY DEF Title!Matches, Title!Same
<1>3. DOMAIN Title!Matches["hdr"] = {"DV", "DoVi", "HDR10+", "HDR10Plus", "HDR10",
        "HDR Vivid", "HDR"}
  BY DEF Title!Matches, Title!HDRNormalize
<1>4. DOMAIN Title!Matches["video_codec"] = {"HEVC", "x265", "H.265", "x264", "AVC",
        "MPEG-4", "VC-1", "MPEG-2", "XviD", "DivX"}
  BY DEF Title!Matches, Title!VideoNormalize
<1>5. DOMAIN Title!Matches["audio_codec"] = {"DDP", "EAC3", "AC-3", "TrueHD", "DTS-HD MA",
        "DTS-HD", "DTS", "Atmos", "FLAC", "AAC", "LPCM", "PCM", "MP3", "Opus"}
  BY DEF Title!Matches, Title!AudioNormalize
<1>6. DOMAIN Title!Matches["channels"] = {"2.0", "5.1", "7.1", "6.1", "4.0", "1.0", "5.1.4",
        "7.1.4", "2Audio"}
  BY DEF Title!Matches, Title!Same
<1>7. DOMAIN Title!Matches["bits"] = {"10bit", "8bit"}
  BY DEF Title!Matches, Title!BitsNormalize, Title!Same
<1>8. DOMAIN Title!Matches["source"] = {"WEB-DL", "WEBRip", "Blu-Ray", "HDTV", "DVDRip",
        "BDRip", "HDRip", "PDTV", "BDMV"}
  BY DEF Title!Matches, Title!SourceNormalize
<1>9. DOMAIN Title!Matches["medium"] = {"REMUX", "WEB"}
  BY DEF Title!Matches, Title!Same
<1>10. DOMAIN Title!Matches["complete"] = {"Complete"}
  BY DEF Title!Matches, Title!Same
<1>11. DOMAIN Title!Matches["noise"] = {"REPACK", "PROPER", "DSNP", "INTERNAL"}
  BY DEF Title!Matches, Title!Same
<1> QED BY <1>1, <1>2, <1>3, <1>4, <1>5, <1>6, <1>7, <1>8, <1>9, <1>10, <1>11

LEMMA KindsApart ==
  /\ \A w \in DOMAIN Title!Matches["year"] :
      /\ w \notin DOMAIN Title!Matches["resolution"]
      /\ w \notin DOMAIN Title!Matches["hdr"]
      /\ w \notin DOMAIN Title!Matches["video_codec"]
      /\ w \notin DOMAIN Title!Matches["audio_codec"]
      /\ w \notin DOMAIN Title!Matches["channels"]
      /\ w \notin DOMAIN Title!Matches["bits"]
      /\ w \notin DOMAIN Title!Matches["source"]
      /\ w \notin DOMAIN Title!Matches["medium"]
      /\ w \notin DOMAIN Title!Matches["complete"]
      /\ w \notin DOMAIN Title!Matches["noise"]
  /\ \A w \in DOMAIN Title!Matches["resolution"] :
      /\ w \notin DOMAIN Title!Matches["hdr"]
      /\ w \notin DOMAIN Title!Matches["video_codec"]
      /\ w \notin DOMAIN Title!Matches["audio_codec"]
      /\ w \notin DOMAIN Title!Matches["channels"]
      /\ w \notin DOMAIN Title!Matches["bits"]
      /\ w \notin DOMAIN Title!Matches["source"]
      /\ w \notin DOMAIN Title!Matches["medium"]
      /\ w \notin DOMAIN Title!Matches["complete"]
      /\ w \notin DOMAIN Title!Matches["noise"]
  /\ \A w \in DOMAIN Title!Matches["hdr"] :
      /\ w \notin DOMAIN Title!Matches["video_codec"]
      /\ w \notin DOMAIN Title!Matches["audio_codec"]
      /\ w \notin DOMAIN Title!Matches["channels"]
      /\ w \notin DOMAIN Title!Matches["bits"]
      /\ w \notin DOMAIN Title!Matches["source"]
      /\ w \notin DOMAIN Title!Matches["medium"]
      /\ w \notin DOMAIN Title!Matches["complete"]
      /\ w \notin DOMAIN Title!Matches["noise"]
  /\ \A w \in DOMAIN Title!Matches["video_codec"] :
      /\ w \notin DOMAIN Title!Matches["audio_codec"]
      /\ w \notin DOMAIN Title!Matches["channels"]
      /\ w \notin DOMAIN Title!Matches["bits"]
      /\ w \notin DOMAIN Title!Matches["source"]
      /\ w \notin DOMAIN Title!Matches["medium"]
      /\ w \notin DOMAIN Title!Matches["complete"]
      /\ w \notin DOMAIN Title!Matches["noise"]
  /\ \A w \in DOMAIN Title!Matches["audio_codec"] :
      /\ w \notin DOMAIN Title!Matches["channels"]
      /\ w \notin DOMAIN Title!Matches["bits"]
      /\ w \notin DOMAIN Title!Matches["source"]
      /\ w \notin DOMAIN Title!Matches["medium"]
      /\ w \notin DOMAIN Title!Matches["complete"]
      /\ w \notin DOMAIN Title!Matches["noise"]
  /\ \A w \in DOMAIN Title!Matches["channels"] :
      /\ w \notin DOMAIN Title!Matches["bits"]
      /\ w \notin DOMAIN Title!Matches["source"]
      /\ w \notin DOMAIN Title!Matches["medium"]
      /\ w \notin DOMAIN Title!Matches["complete"]
      /\ w \notin DOMAIN Title!Matches["noise"]
  /\ \A w \in DOMAIN Title!Matches["bits"] :
      /\ w \notin DOMAIN Title!Matches["source"]
      /\ w \notin DOMAIN Title!Matches["medium"]
      /\ w \notin DOMAIN Title!Matches["complete"]
      /\ w \notin DOMAIN Title!Matches["noise"]
  /\ \A w \in DOMAIN Title!Matches["source"] :
      /\ w \notin DOMAIN Title!Matches["medium"]
      /\ w \notin DOMAIN Title!Matches["complete"]
      /\ w \notin DOMAIN Title!Matches["noise"]
  /\ \A w \in DOMAIN Title!Matches["medium"] :
      /\ w \notin DOMAIN Title!Matches["complete"]
      /\ w \notin DOMAIN Title!Matches["noise"]
  /\ \A w \in DOMAIN Title!Matches["complete"] :
      /\ w \notin DOMAIN Title!Matches["noise"]
<1>1. \A w \in DOMAIN Title!Matches["year"] :
      /\ w \notin DOMAIN Title!Matches["resolution"]
      /\ w \notin DOMAIN Title!Matches["hdr"]
      /\ w \notin DOMAIN Title!Matches["video_codec"]
      /\ w \notin DOMAIN Title!Matches["audio_codec"]
      /\ w \notin DOMAIN Title!Matches["channels"]
      /\ w \notin DOMAIN Title!Matches["bits"]
      /\ w \notin DOMAIN Title!Matches["source"]
      /\ w \notin DOMAIN Title!Matches["medium"]
      /\ w \notin DOMAIN Title!Matches["complete"]
      /\ w \notin DOMAIN Title!Matches["noise"]
  BY KindWords
<1>2. \A w \in DOMAIN Title!Matches["resolution"] :
      /\ w \notin DOMAIN Title!Matches["hdr"]
      /\ w \notin DOMAIN Title!Matches["video_codec"]
      /\ w \notin DOMAIN Title!Matches["audio_codec"]
      /\ w \notin DOMAIN Title!Matches["channels"]
      /\ w \notin DOMAIN Title!Matches["bits"]
      /\ w \notin DOMAIN Title!Matches["source"]
      /\ w \notin DOMAIN Title!Matches["medium"]
      /\ w \notin DOMAIN Title!Matches["complete"]
      /\ w \notin DOMAIN Title!Matches["noise"]
  BY KindWords
<1>3. \A w \in DOMAIN Title!Matches["hdr"] :
      /\ w \notin DOMAIN Title!Matches["video_codec"]
      /\ w \notin DOMAIN Title!Matches["audio_codec"]
      /\ w \notin DOMAIN Title!Matches["channels"]
      /\ w \notin DOMAIN Title!Matches["bits"]
      /\ w \notin DOMAIN Title!Matches["source"]
      /\ w \notin DOMAIN Title!Matches["medium"]
      /\ w \notin DOMAIN Title!Matches["complete"]
      /\ w \notin DOMAIN Title!Matches["noise"]
  BY KindWords
<1>4. \A w \in DOMAIN Title!Matches["video_codec"] :
      /\ w \notin DOMAIN Title!Matches["audio_codec"]
      /\ w \notin DOMAIN Title!Matches["channels"]
      /\ w \notin DOMAIN Title!Matches["bits"]
      /\ w \notin DOMAIN Title!Matches["source"]
      /\ w \notin DOMAIN Title!Matches["medium"]
      /\ w \notin DOMAIN Title!Matches["complete"]
      /\ w \notin DOMAIN Title!Matches["noise"]
  BY KindWords
<1>5. \A w \in DOMAIN Title!Matches["audio_codec"] :
      /\ w \notin DOMAIN Title!Matches["channels"]
      /\ w \notin DOMAIN Title!Matches["bits"]
      /\ w \notin DOMAIN Title!Matches["source"]
      /\ w \notin DOMAIN Title!Matches["medium"]
      /\ w \notin DOMAIN Title!Matches["complete"]
      /\ w \notin DOMAIN Title!Matches["noise"]
  BY KindWords
<1>6. \A w \in DOMAIN Title!Matches["channels"] :
      /\ w \notin DOMAIN Title!Matches["bits"]
      /\ w \notin DOMAIN Title!Matches["source"]
      /\ w \notin DOMAIN Title!Matches["medium"]
      /\ w \notin DOMAIN Title!Matches["complete"]
      /\ w \notin DOMAIN Title!Matches["noise"]
  BY KindWords
<1>7. \A w \in DOMAIN Title!Matches["bits"] :
      /\ w \notin DOMAIN Title!Matches["source"]
      /\ w \notin DOMAIN Title!Matches["medium"]
      /\ w \notin DOMAIN Title!Matches["complete"]
      /\ w \notin DOMAIN Title!Matches["noise"]
  BY KindWords
<1>8. \A w \in DOMAIN Title!Matches["source"] :
      /\ w \notin DOMAIN Title!Matches["medium"]
      /\ w \notin DOMAIN Title!Matches["complete"]
      /\ w \notin DOMAIN Title!Matches["noise"]
  BY KindWords
<1>9. \A w \in DOMAIN Title!Matches["medium"] :
      /\ w \notin DOMAIN Title!Matches["complete"]
      /\ w \notin DOMAIN Title!Matches["noise"]
  BY KindWords
<1>10. \A w \in DOMAIN Title!Matches["complete"] :
      /\ w \notin DOMAIN Title!Matches["noise"]
  BY KindWords
<1> QED BY <1>1, <1>2, <1>3, <1>4, <1>5, <1>6, <1>7, <1>8, <1>9, <1>10

Kinds ==
  {"year", "resolution", "hdr", "video_codec", "audio_codec", "channels", "bits", "source",
   "medium", "complete", "noise"}

LEMMA TheKinds == DOMAIN Title!Matches = Kinds /\ Len(Title!ComponentRules) = 11
BY DEF Title!Matches, Kinds, Title!ComponentRules

LEMMA TheRules ==
  /\ Title!ComponentRules[1] = "year"
  /\ Title!ComponentRules[2] = "resolution"
  /\ Title!ComponentRules[3] = "hdr"
  /\ Title!ComponentRules[4] = "video_codec"
  /\ Title!ComponentRules[5] = "audio_codec"
  /\ Title!ComponentRules[6] = "channels"
  /\ Title!ComponentRules[7] = "bits"
  /\ Title!ComponentRules[8] = "source"
  /\ Title!ComponentRules[9] = "medium"
  /\ Title!ComponentRules[10] = "complete"
  /\ Title!ComponentRules[11] = "noise"
BY DEF Title!ComponentRules

LEMMA KindsLeft ==
  ASSUME NEW kind \in Kinds
  PROVE  /\ "" \notin DOMAIN Title!Matches[kind]
         /\ \A w \in DOMAIN Title!Meaning : w \notin DOMAIN Title!Matches[kind]
<1>1. DOMAIN Title!Meaning =
        {"S01E07", "S01E07-S01E08", "S01E07-E08", "S01-S02", "Season 1-2", "S01", "Season 1",
         "di1ji", "EP07", "Episode 7", "di7ji", "E08", "-E08"}
  BY DEF Title!Meaning
<1>10. CASE kind = "year"
  BY <1>1, <1>10, KindWords
<1>11. CASE kind = "resolution"
  BY <1>1, <1>11, KindWords
<1>12. CASE kind = "hdr"
  BY <1>1, <1>12, KindWords
<1>13. CASE kind = "video_codec"
  BY <1>1, <1>13, KindWords
<1>14. CASE kind = "audio_codec"
  BY <1>1, <1>14, KindWords
<1>15. CASE kind = "channels"
  BY <1>1, <1>15, KindWords
<1>16. CASE kind = "bits"
  BY <1>1, <1>16, KindWords
<1>17. CASE kind = "source"
  BY <1>1, <1>17, KindWords
<1>18. CASE kind = "medium"
  BY <1>1, <1>18, KindWords
<1>19. CASE kind = "complete"
  BY <1>1, <1>19, KindWords
<1>20. CASE kind = "noise"
  BY <1>1, <1>20, KindWords
<1> QED BY <1>10, <1>11, <1>12, <1>13, <1>14, <1>15, <1>16, <1>17, <1>18, <1>19, <1>20 DEF Kinds

LEMMA RulesApart ==
  ASSUME NEW n \in 1 .. 11, NEW j \in 1 .. (n - 1),
         NEW w \in DOMAIN Title!Matches[Title!ComponentRules[n]]
  PROVE  w \notin DOMAIN Title!Matches[Title!ComponentRules[j]]
<1>1. n \in {1, 2, 3, 4, 5, 6, 7, 8, 9, 10, 11}
  OBVIOUS
<1>11. CASE n = 1
  BY <1>11
<1>12. CASE n = 2
  <2>1. j = 1
    BY <1>12
  <2>2. w \in DOMAIN Title!Matches["resolution"]
    BY <1>12, TheRules
  <2>3. \E kind \in {"year"} :
          Title!ComponentRules[j] = kind
    BY <2>1, TheRules
  <2> QED BY <2>2, <2>3, KindsApart
<1>13. CASE n = 3
  <2>1. j = 1 \/ j = 2
    BY <1>13
  <2>2. w \in DOMAIN Title!Matches["hdr"]
    BY <1>13, TheRules
  <2>3. \E kind \in {"year", "resolution"} :
          Title!ComponentRules[j] = kind
    BY <2>1, TheRules
  <2> QED BY <2>2, <2>3, KindsApart
<1>14. CASE n = 4
  <2>1. j = 1 \/ j = 2 \/ j = 3
    BY <1>14
  <2>2. w \in DOMAIN Title!Matches["video_codec"]
    BY <1>14, TheRules
  <2>3. \E kind \in {"year", "resolution", "hdr"} :
          Title!ComponentRules[j] = kind
    BY <2>1, TheRules
  <2> QED BY <2>2, <2>3, KindsApart
<1>15. CASE n = 5
  <2>1. j = 1 \/ j = 2 \/ j = 3 \/ j = 4
    BY <1>15
  <2>2. w \in DOMAIN Title!Matches["audio_codec"]
    BY <1>15, TheRules
  <2>3. \E kind \in {"year", "resolution", "hdr", "video_codec"} :
          Title!ComponentRules[j] = kind
    BY <2>1, TheRules
  <2> QED BY <2>2, <2>3, KindsApart
<1>16. CASE n = 6
  <2>1. j = 1 \/ j = 2 \/ j = 3 \/ j = 4 \/ j = 5
    BY <1>16
  <2>2. w \in DOMAIN Title!Matches["channels"]
    BY <1>16, TheRules
  <2>3. \E kind \in {"year", "resolution", "hdr", "video_codec", "audio_codec"} :
          Title!ComponentRules[j] = kind
    BY <2>1, TheRules
  <2> QED BY <2>2, <2>3, KindsApart
<1>17. CASE n = 7
  <2>1. j = 1 \/ j = 2 \/ j = 3 \/ j = 4 \/ j = 5 \/ j = 6
    BY <1>17
  <2>2. w \in DOMAIN Title!Matches["bits"]
    BY <1>17, TheRules
  <2>3. \E kind \in {"year", "resolution", "hdr", "video_codec", "audio_codec", "channels"} :
          Title!ComponentRules[j] = kind
    BY <2>1, TheRules
  <2> QED BY <2>2, <2>3, KindsApart
<1>18. CASE n = 8
  <2>1. j = 1 \/ j = 2 \/ j = 3 \/ j = 4 \/ j = 5 \/ j = 6 \/ j = 7
    BY <1>18
  <2>2. w \in DOMAIN Title!Matches["source"]
    BY <1>18, TheRules
  <2>3. \E kind \in {"year", "resolution", "hdr", "video_codec", "audio_codec", "channels",
         "bits"} :
          Title!ComponentRules[j] = kind
    BY <2>1, TheRules
  <2> QED BY <2>2, <2>3, KindsApart
<1>19. CASE n = 9
  <2>1. j = 1 \/ j = 2 \/ j = 3 \/ j = 4 \/ j = 5 \/ j = 6 \/ j = 7 \/ j = 8
    BY <1>19
  <2>2. w \in DOMAIN Title!Matches["medium"]
    BY <1>19, TheRules
  <2>3. \E kind \in {"year", "resolution", "hdr", "video_codec", "audio_codec", "channels",
         "bits", "source"} :
          Title!ComponentRules[j] = kind
    BY <2>1, TheRules
  <2> QED BY <2>2, <2>3, KindsApart
<1>20. CASE n = 10
  <2>1. j = 1 \/ j = 2 \/ j = 3 \/ j = 4 \/ j = 5 \/ j = 6 \/ j = 7 \/ j = 8 \/ j = 9
    BY <1>20
  <2>2. w \in DOMAIN Title!Matches["complete"]
    BY <1>20, TheRules
  <2>3. \E kind \in {"year", "resolution", "hdr", "video_codec", "audio_codec", "channels",
         "bits", "source", "medium"} :
          Title!ComponentRules[j] = kind
    BY <2>1, TheRules
  <2> QED BY <2>2, <2>3, KindsApart
<1>21. CASE n = 11
  <2>1. j = 1 \/ j = 2 \/ j = 3 \/ j = 4 \/ j = 5 \/ j = 6 \/ j = 7 \/ j = 8 \/ j = 9 \/ j = 10
    BY <1>21
  <2>2. w \in DOMAIN Title!Matches["noise"]
    BY <1>21, TheRules
  <2>3. \E kind \in {"year", "resolution", "hdr", "video_codec", "audio_codec", "channels",
         "bits", "source", "medium", "complete"} :
          Title!ComponentRules[j] = kind
    BY <2>1, TheRules
  <2> QED BY <2>2, <2>3, KindsApart
<1> QED BY <1>1, <1>11, <1>12, <1>13, <1>14, <1>15, <1>16, <1>17, <1>18, <1>19, <1>20, <1>21

\* What the components are, and which of them a word gives.
Told6 == {"year", "resolution", "hdr", "video_codec", "audio_codec", "source"}
KindValue == UNION {{Title!Matches[k][u] : u \in DOMAIN Title!Matches[k]} : k \in Kinds}
Mediums == {Title!SourceMedium[v] : v \in DOMAIN Title!SourceMedium}
Value == {""} \cup KindValue \cup Mediums
Components(g, a, b) ==
  [title : {<<>>}, group : {g}, season : {a}, episode : {b}, channels : Seq(Word),
   complete : BOOLEAN, year : Value, resolution : Value, hdr : Value, video_codec : Value,
   audio_codec : Value, bits : Value, source : Value, medium : Value]

\* Entries are kept of a title the way they are kept of any sequence.
LEMMA SameRanks == \A K, n : Title!Nth(K, n) = Nth(K, n)
BY Zenon DEF Title!Nth, Nth, Title!Cardinality, Cardinality

LEMMA SameEntries == \A s, K : Title!EntriesAt(s, K) = EntriesAt(s, K)
BY SameRanks, Zenon DEF Title!EntriesAt, EntriesAt, Title!Cardinality, Cardinality

LEMMA KindValues ==
  ASSUME NEW kind \in Kinds, NEW w \in DOMAIN Title!Matches[kind]
  PROVE  /\ Title!Matches[kind][w] \in Value
         /\ kind \in Told6 => Title!Matches[kind][w] # ""
         /\ kind = "source" => Title!SourceMedium[Title!Matches[kind][w]] \in Value
<1>1. Title!Matches[kind][w] \in Value
  <2> DEFINE all == {{Title!Matches[k][u] : u \in DOMAIN Title!Matches[k]} : k \in Kinds}
             here == {Title!Matches[kind][u] : u \in DOMAIN Title!Matches[kind]}
  <2>1. Title!Matches[kind][w] \in here
    OBVIOUS
  <2>2. here \in all
    OBVIOUS
  <2> HIDE DEF all, here
  <2>3. Title!Matches[kind][w] \in UNION all
    BY <2>1, <2>2
  <2> QED BY <2>3 DEF Value, KindValue, all
<1>11. ASSUME kind = "year" PROVE Title!Matches[kind][w] # ""
  <2>1. w \in DOMAIN Title!Matches["year"] /\ w # ""
    BY <1>11, KindsLeft
  <2>2. Title!Matches["year"][w] = w
    BY <2>1 DEF Title!Matches, Title!Same
  <2> QED BY <1>11, <2>1, <2>2
<1>12. ASSUME kind = "resolution" PROVE Title!Matches[kind][w] # ""
  <2>1. w \in DOMAIN Title!Matches["resolution"] /\ w # ""
    BY <1>12, KindsLeft
  <2>2. Title!Matches["resolution"][w] = w
    BY <2>1 DEF Title!Matches, Title!Same
  <2> QED BY <1>12, <2>1, <2>2
<1>13. ASSUME kind = "hdr" PROVE Title!Matches[kind][w] # ""
  <2>1. Title!Matches[kind] = Title!HDRNormalize
    BY <1>13 DEF Title!Matches
  <2>2. \A u \in DOMAIN Title!HDRNormalize : Title!HDRNormalize[u] # ""
    BY DEF Title!HDRNormalize
  <2> QED BY <2>1, <2>2
<1>14. ASSUME kind = "video_codec" PROVE Title!Matches[kind][w] # ""
  <2>1. Title!Matches[kind] = Title!VideoNormalize
    BY <1>14 DEF Title!Matches
  <2>2. \A u \in DOMAIN Title!VideoNormalize : Title!VideoNormalize[u] # ""
    BY DEF Title!VideoNormalize
  <2> QED BY <2>1, <2>2
<1>15. ASSUME kind = "audio_codec" PROVE Title!Matches[kind][w] # ""
  <2>1. Title!Matches[kind] = Title!AudioNormalize
    BY <1>15 DEF Title!Matches
  <2>2. \A u \in DOMAIN Title!AudioNormalize : Title!AudioNormalize[u] # ""
    BY DEF Title!AudioNormalize
  <2> QED BY <2>1, <2>2
<1>16. ASSUME kind = "source" PROVE Title!Matches[kind][w] # ""
  <2>1. Title!Matches[kind] = Title!SourceNormalize
    BY <1>16 DEF Title!Matches
  <2>2. \A u \in DOMAIN Title!SourceNormalize : Title!SourceNormalize[u] # ""
    BY DEF Title!SourceNormalize
  <2> QED BY <2>1, <2>2
<1>2. ASSUME kind = "source" PROVE Title!SourceMedium[Title!Matches[kind][w]] \in Value
  <2>1. Title!Matches[kind] = Title!SourceNormalize
    BY <1>2 DEF Title!Matches
  <2>2. \A u \in DOMAIN Title!SourceNormalize :
          Title!SourceNormalize[u] \in DOMAIN Title!SourceMedium
    BY DEF Title!SourceNormalize, Title!SourceMedium
  <2> QED BY <2>1, <2>2 DEF Value, Mediums
<1> QED BY <1>1, <1>2, <1>11, <1>12, <1>13, <1>14, <1>15, <1>16 DEF Told6

\* A rule gives its own component and leaves the other ones.
Tells(d, kind, e) == \A K \in Told6 : IF K = kind THEN e[K] # "" ELSE e[K] = d[K]

LEMMA ApplyKeeps ==
  ASSUME NEW g, NEW a, NEW b, NEW d \in Components(g, a, b), NEW kind \in Kinds,
         NEW found \in Seq(Word), found # <<>>, found[1] \in DOMAIN Title!Matches[kind]
  PROVE  /\ Title!Apply(d, kind, found) \in Components(g, a, b)
         /\ Tells(d, kind, Title!Apply(d, kind, found))
<1> DEFINE value == Title!Matches[kind][found[1]]
           once == Title!EntriesAt(found, {k \in DOMAIN found : \A j \in 1 .. k - 1 : found[j] # found[k]})
           e == Title!Apply(d, kind, found)
<1>1. value \in Value /\ (kind \in Told6 => value # "")
      /\ (kind = "source" => Title!SourceMedium[value] \in Value)
  BY KindValues
<1>2. once \in Seq(Word)
  BY SameEntries, EntriesKept
<1>11. ASSUME kind = "year" PROVE e \in Components(g, a, b) /\ Tells(d, kind, e)
  <2>1. e = [d EXCEPT !.year = IF @ = "" THEN value ELSE @]
    BY <1>11 DEF Title!Apply
  <2> HIDE DEF value, once, e
  <2> QED BY <1>1, <1>2, <1>11, <2>1 DEF Told6, Tells, Components
<1>12. ASSUME kind = "resolution" PROVE e \in Components(g, a, b) /\ Tells(d, kind, e)
  <2>1. e = [d EXCEPT !.resolution = IF @ = "" THEN value ELSE @]
    BY <1>12 DEF Title!Apply
  <2> HIDE DEF value, once, e
  <2> QED BY <1>1, <1>2, <1>12, <2>1 DEF Told6, Tells, Components
<1>13. ASSUME kind = "hdr" PROVE e \in Components(g, a, b) /\ Tells(d, kind, e)
  <2>1. e = [d EXCEPT !.hdr = IF @ = "" THEN value ELSE @]
    BY <1>13 DEF Title!Apply
  <2> HIDE DEF value, once, e
  <2> QED BY <1>1, <1>2, <1>13, <2>1 DEF Told6, Tells, Components
<1>14. ASSUME kind = "video_codec" PROVE e \in Components(g, a, b) /\ Tells(d, kind, e)
  <2>1. e = [d EXCEPT !.video_codec = IF @ = "" THEN value ELSE @]
    BY <1>14 DEF Title!Apply
  <2> HIDE DEF value, once, e
  <2> QED BY <1>1, <1>2, <1>14, <2>1 DEF Told6, Tells, Components
<1>15. ASSUME kind = "audio_codec" PROVE e \in Components(g, a, b) /\ Tells(d, kind, e)
  <2>1. e = [d EXCEPT !.audio_codec = IF @ = "" THEN value ELSE @]
    BY <1>15 DEF Title!Apply
  <2> HIDE DEF value, once, e
  <2> QED BY <1>1, <1>2, <1>15, <2>1 DEF Told6, Tells, Components
<1>16. ASSUME kind = "channels" PROVE e \in Components(g, a, b) /\ Tells(d, kind, e)
  <2>1. e = [d EXCEPT !.channels = once]
    BY <1>16 DEF Title!Apply
  <2> HIDE DEF value, once, e
  <2> QED BY <1>1, <1>2, <1>16, <2>1 DEF Told6, Tells, Components
<1>17. ASSUME kind = "bits" PROVE e \in Components(g, a, b) /\ Tells(d, kind, e)
  <2>1. e = [d EXCEPT !.bits = IF @ = "" THEN value ELSE @]
    BY <1>17 DEF Title!Apply
  <2> HIDE DEF value, once, e
  <2> QED BY <1>1, <1>2, <1>17, <2>1 DEF Told6, Tells, Components
<1>18. ASSUME kind = "source" PROVE e \in Components(g, a, b) /\ Tells(d, kind, e)
  <2>1. e = [d EXCEPT !.source = value, !.medium = IF @ = "" THEN Title!SourceMedium[value] ELSE @]
    BY <1>18 DEF Title!Apply
  <2> HIDE DEF value, once, e
  <2> QED BY <1>1, <1>2, <1>18, <2>1 DEF Told6, Tells, Components
<1>19. ASSUME kind = "medium" PROVE e \in Components(g, a, b) /\ Tells(d, kind, e)
  <2>1. e = [d EXCEPT !.medium = value]
    BY <1>19 DEF Title!Apply
  <2> HIDE DEF value, once, e
  <2> QED BY <1>1, <1>2, <1>19, <2>1 DEF Told6, Tells, Components
<1>20. ASSUME kind = "complete" PROVE e \in Components(g, a, b) /\ Tells(d, kind, e)
  <2>1. e = [d EXCEPT !.complete = TRUE]
    BY <1>20 DEF Title!Apply
  <2> HIDE DEF value, once, e
  <2> QED BY <1>1, <1>2, <1>20, <2>1 DEF Told6, Tells, Components
<1>21. ASSUME kind = "noise" PROVE e \in Components(g, a, b) /\ Tells(d, kind, e)
  <2>1. e = d
    BY <1>21 DEF Title!Apply
  <2> HIDE DEF value, once, e
  <2> QED BY <1>1, <1>2, <1>21, <2>1 DEF Told6, Tells, Components
<1> QED BY <1>11, <1>12, <1>13, <1>14, <1>15, <1>16, <1>17, <1>18, <1>19, <1>20, <1>21 DEF Kinds

\* One rule, and all in their order.
Hits(q, kind) ==
  {k \in DOMAIN q :
     /\ q[k] \in DOMAIN Title!Matches[kind]
     /\ kind = "complete" => sep = " " /\ \E j \in 1 .. k - 1 : q[j] # ""}
Emptied(q, H) == [k \in DOMAIN q |-> IF k \in H THEN "" ELSE q[k]]
RuleStates(g, a, b) == {[words |-> q, c |-> d] : q \in Seq(Word), d \in Components(g, a, b)}

LEMMA RuleIs ==
  ASSUME NEW q, NEW d, NEW kind
  PROVE  Title!ApplyRule([words |-> q, c |-> d], kind)
         = IF Hits(q, kind) = {} THEN [words |-> q, c |-> d]
           ELSE [words |-> Emptied(q, Hits(q, kind)),
                 c |-> Title!Apply(d, kind, EntriesAt(q, Hits(q, kind)))]
<1> DEFINE st == [words |-> q, c |-> d]
<1>1. st.words = q /\ st.c = d
  OBVIOUS
<1> HIDE DEF st
<1>2. Title!Hits(st, kind) = Hits(q, kind)
  BY <1>1 DEF Title!Hits, Hits
<1>3. CASE Hits(q, kind) = {}
  <2>1. Title!ApplyRule(st, kind) = st
    BY <1>2, <1>3 DEF Title!ApplyRule
  <2> QED BY <1>3, <2>1 DEF st
<1>4. CASE Hits(q, kind) # {}
  <2>1. Title!ApplyRule(st, kind)
        = [words |-> Emptied(q, Hits(q, kind)),
           c |-> Title!Apply(d, kind, Title!EntriesAt(q, Hits(q, kind)))]
    BY <1>1, <1>2, <1>4 DEF Title!ApplyRule, Emptied
  <2>2. Title!EntriesAt(q, Hits(q, kind)) = EntriesAt(q, Hits(q, kind))
    BY SameEntries
  <2> QED BY <1>4, <2>1, <2>2 DEF st
<1> QED BY <1>3, <1>4

LEMMA HitWords ==
  ASSUME NEW q \in Seq(Word), NEW kind, Hits(q, kind) # {}
  PROVE  LET found == EntriesAt(q, Hits(q, kind))
         IN found \in Seq(Word) /\ found # <<>> /\ found[1] \in DOMAIN Title!Matches[kind]
<1> DEFINE H == Hits(q, kind)  found == EntriesAt(q, H)
<1>1. H \subseteq DOMAIN q /\ \A k \in H : q[k] \in DOMAIN Title!Matches[kind]
  BY DEF Hits
<1>2. H # {}
  OBVIOUS
<1> HIDE DEF H
<1>3. /\ EntriesAt(q, H) \in Seq(Word) /\ Len(EntriesAt(q, H)) = Cardinality(H)
      /\ \A n \in 1 .. Cardinality(H) : Nth(H, n) \in H /\ EntriesAt(q, H)[n] = q[Nth(H, n)]
      /\ IsFiniteSet(H)
  BY <1>1, EntriesKept
<1>4. Cardinality(H) # 0 /\ Cardinality(H) \in Nat
  BY <1>2, <1>3, FS_EmptySet, FS_CardinalityType
<1>5. 1 \in 1 .. Cardinality(H)
  BY <1>4
<1>6. Nth(H, 1) \in H /\ found[1] = q[Nth(H, 1)]
  BY <1>3, <1>5
<1> HIDE DEF found
<1>7. found \in Seq(Word) /\ Len(found) # 0
  BY <1>3, <1>4 DEF found
<1>8. found \in Seq(Word) /\ found # <<>> /\ found[1] \in DOMAIN Title!Matches[kind]
  BY <1>1, <1>6, <1>7
<1> QED BY <1>8 DEF H, found

LEMMA EmptiedWords ==
  ASSUME NEW q \in Seq(Word), NEW H
  PROVE  /\ Emptied(q, H) \in Seq(Word) /\ DOMAIN Emptied(q, H) = DOMAIN q
         /\ Len(Emptied(q, H)) = Len(q)
<1>1. "" \in Word /\ \A k \in 1 .. Len(q) : q[k] \in Word
  <2>1. "" \in Word
    BY DEF Word, Rests
  <2>2. \A k \in 1 .. Len(q) : q[k] \in Word
    OBVIOUS
  <2> QED BY <2>1, <2>2
<1>2. Emptied(q, H) \in [1 .. Len(q) -> Word]
  <2>1. \A k \in 1 .. Len(q) : (IF k \in H THEN "" ELSE q[k]) \in Word
    BY <1>1
  <2>2. Emptied(q, H) = [k \in 1 .. Len(q) |-> IF k \in H THEN "" ELSE q[k]]
    BY DEF Emptied
  <2> QED BY <2>1, <2>2
<1> QED BY <1>2

LEMMA RuleKeeps ==
  ASSUME NEW g, NEW a, NEW b, NEW st \in RuleStates(g, a, b), NEW kind \in Kinds
  PROVE  /\ Title!ApplyRule(st, kind) \in RuleStates(g, a, b)
         /\ IF Hits(st.words, kind) = {} THEN Title!ApplyRule(st, kind) = st
            ELSE /\ Title!ApplyRule(st, kind).words = Emptied(st.words, Hits(st.words, kind))
                 /\ Tells(st.c, kind, Title!ApplyRule(st, kind).c)
<1>1. PICK q \in Seq(Word), d \in Components(g, a, b) : st = [words |-> q, c |-> d]
  BY DEF RuleStates
<1>2. st.words = q /\ st.c = d
  BY <1>1
<1> DEFINE H == Hits(q, kind)  next == Title!ApplyRule(st, kind)
<1>3. CASE H = {}
  BY <1>1, <1>2, <1>3, RuleIs
<1>4. CASE H # {}
  <2> DEFINE found == EntriesAt(q, H)  e == Title!Apply(d, kind, found)
  <2>1. found \in Seq(Word) /\ found # <<>> /\ found[1] \in DOMAIN Title!Matches[kind]
    BY <1>4, HitWords
  <2>2. next = [words |-> Emptied(q, H), c |-> e]
    BY <1>1, <1>4, RuleIs
  <2> HIDE DEF found, next
  <2>3. e \in Components(g, a, b) /\ Tells(d, kind, e)
    BY <2>1, ApplyKeeps
  <2> HIDE DEF e, H
  <2>4. Emptied(q, H) \in Seq(Word)
    BY EmptiedWords
  <2>5. next \in RuleStates(g, a, b) /\ next.words = Emptied(q, H) /\ Tells(d, kind, next.c)
    BY <2>2, <2>3, <2>4 DEF RuleStates
  <2> QED BY <1>2, <1>4, <2>5 DEF H, next
<1> QED BY <1>3, <1>4

RulesFold(st) == Title!FoldLeft(Title!ApplyRule, st, Title!ComponentRules)
RulesRun(f, st) ==
  /\ f[0] = st /\ \A k \in 1 .. 11 : f[k] = Title!ApplyRule(f[k - 1], Title!ComponentRules[k])
  /\ RulesFold(st) = f[11]

LEMMA RuleKinds ==
  ASSUME NEW k \in 1 .. 11 PROVE Title!ComponentRules[k] \in Kinds
<1>1. k \in {1, 2, 3, 4, 5, 6, 7, 8, 9, 10, 11}
  OBVIOUS
<1> QED BY <1>1, TheRules DEF Kinds

LEMMA RulesFolds ==
  ASSUME NEW g, NEW a, NEW b, NEW st \in RuleStates(g, a, b)
  PROVE  \E f : RulesRun(f, st)
<1> DEFINE St == RuleStates(g, a, b)
           step == [q \in St \X (1 .. 11) |-> Title!ApplyRule(q[1], Title!ComponentRules[q[2]])]
           Runs(it) == it = [x \in SUBSET (1 .. 11) |->
                               IF x = {} THEN st
                               ELSE Title!ApplyRule(it[x \ {Last(x)}], Title!ComponentRules[Last(x)])]
           fold == RulesFold(st)
<1> SUFFICES \E f : /\ f[0] = st
                    /\ \A k \in 1 .. 11 : f[k] = Title!ApplyRule(f[k - 1], Title!ComponentRules[k])
                    /\ fold = f[11]
  BY DEF RulesRun
<1>2. step \in [St \X (1 .. 11) -> St]
  <2>1. ASSUME NEW s \in St, NEW k \in 1 .. 11
        PROVE  Title!ApplyRule(s, Title!ComponentRules[k]) \in St
    BY RuleKinds, RuleKeeps
  <2> HIDE DEF St
  <2> QED BY <2>1
<1>3. PICK it : Folds(it, 11, St, st, step)
  <2> HIDE DEF step
  <2> QED BY <1>2, FoldRuns
<1>4. ASSUME NEW x \in SUBSET (1 .. 11)
      PROVE  it[x] = IF x = {} THEN st
                     ELSE Title!ApplyRule(it[x \ {Last(x)}], Title!ComponentRules[Last(x)])
  <2>1. it[x] = IF x = {} THEN st ELSE step[<<it[x \ {Last(x)}], Last(x)>>]
    <3> HIDE DEF step, St
    <3> QED BY <1>3 DEF Folds
  <2>2. CASE x = {}
    BY <2>1, <2>2
  <2>3. CASE x # {}
    <3>1. Last(x) \in x
      BY <2>3, LastIn
    <3>2. Last(x) \in 1 .. 11 /\ x \ {Last(x)} \in SUBSET (1 .. 11)
      BY <3>1
    <3>3. it[x \ {Last(x)}] \in St
      <4> HIDE DEF step, St
      <4> QED BY <1>3, <3>2 DEF Folds
    <3>4. step[<<it[x \ {Last(x)}], Last(x)>>]
          = Title!ApplyRule(it[x \ {Last(x)}], Title!ComponentRules[Last(x)])
      BY <3>2, <3>3
    <3> HIDE DEF step, St
    <3> QED BY <2>1, <2>3, <3>4
  <2> QED BY <2>2, <2>3
<1>5. \E i : Runs(i)
  <2> DEFINE i == [x \in SUBSET (1 .. 11) |-> it[x]]
  <2>1. \A x \in SUBSET (1 .. 11) : x # {} => x \ {Last(x)} \in SUBSET (1 .. 11)
    OBVIOUS
  <2>2. Runs(i)
    BY <1>4, <2>1
  <2> QED BY <2>2
<1>6. fold = (CHOOSE i : Runs(i))[1 .. 11]
  BY TheKinds DEF RulesFold, Title!FoldLeft, Title!MapThenFoldSet, Title!Max, Last
<1>7. PICK i : Runs(i) /\ i[1 .. 11] = (CHOOSE j : Runs(j))[1 .. 11]
  BY <1>5
<1> DEFINE f == [k \in 0 .. 11 |-> i[1 .. k]]
<1>8. f[0] = st
  <2>1. 1 .. 0 = {}
    OBVIOUS
  <2> QED BY <1>7, <2>1
<1>9. ASSUME NEW k \in 1 .. 11
      PROVE  f[k] = Title!ApplyRule(f[k - 1], Title!ComponentRules[k])
  <2>1. /\ 1 .. k \in SUBSET (1 .. 11) /\ 1 .. k # {}
        /\ Last(1 .. k) = k /\ (1 .. k) \ {Last(1 .. k)} = 1 .. (k - 1)
    BY FirstIndices
  <2>2. i[1 .. k]
        = Title!ApplyRule(i[(1 .. k) \ {Last(1 .. k)}], Title!ComponentRules[Last(1 .. k)])
    BY <1>7, <2>1
  <2>3. i[1 .. k] = Title!ApplyRule(i[1 .. (k - 1)], Title!ComponentRules[k])
    BY <2>1, <2>2
  <2> QED BY <2>3
<1>10. f[11] = i[1 .. 11]
  OBVIOUS
<1>11. fold = f[11]
  BY <1>6, <1>7, <1>10
<1> HIDE DEF f, fold
<1> QED BY <1>8, <1>9, <1>11

\* What the first n rules leave of a title, and what they tell.
Rule(k) == Title!ComponentRules[k]
Ruled(w, n) == \E j \in 1 .. n : w \in DOMAIN Title!Matches[Rule(j)]
RuleBlank(q, n) == [k \in DOMAIN q |-> IF Ruled(q[k], n) THEN "" ELSE q[k]]
HasKind(q, kind) == \E k \in DOMAIN q : q[k] \in DOMAIN Title!Matches[kind]
RulesTo(q, n, st) ==
  /\ st.words = RuleBlank(q, n)
  /\ \A j \in 1 .. 11 :
       Rule(j) \in Told6 => ((st.c[Rule(j)] # "") <=> j <= n /\ HasKind(q, Rule(j)))

LEMMA RuledNext ==
  ASSUME NEW n \in Nat, NEW w
  PROVE  Ruled(w, n + 1) <=> Ruled(w, n) \/ w \in DOMAIN Title!Matches[Rule(n + 1)]
<1>1. \A j : j \in 1 .. (n + 1) <=> j \in 1 .. n \/ j = n + 1
  OBVIOUS
<1> QED BY <1>1 DEF Ruled

LEMMA RulesDiffer ==
  ASSUME NEW n \in 1 .. 11, NEW j \in 1 .. 11, Rule(n) = Rule(j)
  PROVE  n = j
<1>1. n \in {1, 2, 3, 4, 5, 6, 7, 8, 9, 10, 11} /\ j \in {1, 2, 3, 4, 5, 6, 7, 8, 9, 10, 11}
  OBVIOUS
<1> QED BY <1>1, TheRules DEF Rule

LEMMA RuleFinds ==
  ASSUME NEW q \in Seq(Word), \A k \in DOMAIN q : q[k] # "Complete", NEW n \in 0 .. 10
  PROVE  /\ Hits(RuleBlank(q, n), Rule(n + 1))
            = {k \in DOMAIN q : q[k] \in DOMAIN Title!Matches[Rule(n + 1)]}
         /\ Emptied(RuleBlank(q, n), Hits(RuleBlank(q, n), Rule(n + 1))) = RuleBlank(q, n + 1)
<1> DEFINE kind == Rule(n + 1)
           r == RuleBlank(q, n)
           H == {k \in DOMAIN q : q[k] \in DOMAIN Title!Matches[kind]}
<1>1. n \in Nat /\ n + 1 \in 1 .. 11 /\ (n + 1) - 1 = n /\ kind \in Kinds
  BY RuleKinds DEF Rule
<1>2. DOMAIN r = DOMAIN q
  BY DEF RuleBlank
<1>3. ASSUME NEW k \in DOMAIN q
      PROVE  r[k] \in DOMAIN Title!Matches[kind] <=> q[k] \in DOMAIN Title!Matches[kind]
  <2>1. CASE Ruled(q[k], n)
    <3>1. r[k] = ""
      BY <2>1 DEF RuleBlank
    <3>2. "" \notin DOMAIN Title!Matches[kind]
      BY <1>1, KindsLeft
    <3>3. q[k] \notin DOMAIN Title!Matches[kind]
      BY <1>1, <2>1, RulesApart DEF Ruled, Rule
    <3> QED BY <3>1, <3>2, <3>3
  <2>2. CASE ~Ruled(q[k], n)
    BY <2>2 DEF RuleBlank
  <2> QED BY <2>1, <2>2
<1>4. ASSUME NEW k \in DOMAIN q, q[k] \in DOMAIN Title!Matches[kind] PROVE kind # "complete"
  <2>1. q[k] # "Complete"
    OBVIOUS
  <2>2. DOMAIN Title!Matches["complete"] = {"Complete"}
    BY KindWords
  <2> HIDE DEF kind
  <2> QED BY <1>4, <2>1, <2>2
<1>5. Hits(r, kind) = H
  <2> HIDE DEF r, kind
  <2> QED BY <1>2, <1>3, <1>4 DEF Hits
<1>6. Emptied(r, H) = RuleBlank(q, n + 1)
  <2>1. ASSUME NEW k \in DOMAIN q
        PROVE  (IF k \in H THEN "" ELSE r[k]) = IF Ruled(q[k], n + 1) THEN "" ELSE q[k]
    <3>1. Ruled(q[k], n + 1) <=> Ruled(q[k], n) \/ q[k] \in DOMAIN Title!Matches[kind]
      BY <1>1, RuledNext
    <3>2. r[k] = IF Ruled(q[k], n) THEN "" ELSE q[k]
      BY DEF RuleBlank
    <3> HIDE DEF r, kind
    <3> QED BY <3>1, <3>2
  <2>2. Emptied(r, H) = [k \in DOMAIN q |-> IF k \in H THEN "" ELSE r[k]]
    BY <1>2 DEF Emptied
  <2>3. RuleBlank(q, n + 1) = [k \in DOMAIN q |-> IF Ruled(q[k], n + 1) THEN "" ELSE q[k]]
    BY DEF RuleBlank
  <2> HIDE DEF r, H
  <2> QED BY <2>1, <2>2, <2>3
<1> QED BY <1>5, <1>6

LEMMA RulesNext ==
  ASSUME NEW g, NEW a, NEW b, NEW q \in Seq(Word), \A k \in DOMAIN q : q[k] # "Complete",
         NEW n \in 0 .. 10, NEW st \in RuleStates(g, a, b), RulesTo(q, n, st)
  PROVE  RulesTo(q, n + 1, Title!ApplyRule(st, Rule(n + 1)))
<1> DEFINE kind == Rule(n + 1)
           next == Title!ApplyRule(st, kind)
           H == {k \in DOMAIN q : q[k] \in DOMAIN Title!Matches[kind]}
<1>1. n + 1 \in 1 .. 11 /\ kind \in Kinds /\ n \in Nat
  BY RuleKinds DEF Rule
<1>2. /\ st.words = RuleBlank(q, n)
      /\ \A j \in 1 .. 11 :
           Rule(j) \in Told6 => ((st.c[Rule(j)] # "") <=> j <= n /\ HasKind(q, Rule(j)))
  BY DEF RulesTo
<1>3. Hits(st.words, kind) = H /\ Emptied(st.words, H) = RuleBlank(q, n + 1)
  BY <1>2, RuleFinds
<1>4. IF H = {} THEN next = st
      ELSE next.words = RuleBlank(q, n + 1) /\ Tells(st.c, kind, next.c)
  <2>1. IF Hits(st.words, kind) = {} THEN next = st
        ELSE /\ next.words = Emptied(st.words, Hits(st.words, kind))
             /\ Tells(st.c, kind, next.c)
    BY <1>1, RuleKeeps, Zenon
  <2> HIDE DEF next, kind, H
  <2> QED BY <1>3, <2>1
<1>5. H = {} <=> ~HasKind(q, kind)
  BY DEF HasKind
<1>6. next.words = RuleBlank(q, n + 1)
  <2>1. CASE H = {}
    <3>1. Emptied(st.words, H) = st.words
      <4>1. st.words \in Seq(Word)
        BY DEF RuleStates
      <4>2. Emptied(st.words, {}) = [k \in DOMAIN st.words |-> st.words[k]]
        BY DEF Emptied
      <4>3. st.words = [k \in DOMAIN st.words |-> st.words[k]]
        BY <4>1
      <4> HIDE DEF H
      <4> QED BY <2>1, <4>2, <4>3
    <3> HIDE DEF next, kind, H
    <3> QED BY <1>3, <1>4, <2>1, <3>1
  <2> HIDE DEF next, kind, H
  <2> QED BY <1>4, <2>1
<1>7. ASSUME NEW j \in 1 .. 11, Rule(j) \in Told6
      PROVE  (next.c[Rule(j)] # "") <=> j <= n + 1 /\ HasKind(q, Rule(j))
  <2>1. (st.c[Rule(j)] # "") <=> j <= n /\ HasKind(q, Rule(j))
    BY <1>2, <1>7
  <2>2. CASE j = n + 1
    <3>1. Rule(j) = kind /\ ~ (j <= n)
      BY <1>1, <2>2
    <3>2. CASE H = {}
      <4> HIDE DEF next, kind, H
      <4> QED BY <1>4, <1>5, <2>1, <3>1, <3>2
    <3>3. CASE H # {}
      <4>1. next.c[kind] # ""
        <5> HIDE DEF next, kind, H
        <5> QED BY <1>4, <1>7, <3>1, <3>3 DEF Tells
      <4>2. HasKind(q, Rule(j)) /\ j <= n + 1
        BY <1>1, <1>5, <2>2, <3>1, <3>3
      <4> HIDE DEF next, kind, H
      <4> QED BY <3>1, <4>1, <4>2
    <3> QED BY <3>2, <3>3
  <2>3. CASE j # n + 1
    <3>1. Rule(j) # kind
      BY <1>1, <2>3, RulesDiffer
    <3>2. j <= n <=> j <= n + 1
      BY <2>3
    <3>3. next.c[Rule(j)] = st.c[Rule(j)]
      <4> HIDE DEF next, kind, H
      <4> QED BY <1>4, <1>7, <3>1 DEF Tells
    <3> HIDE DEF next, kind, H
    <3> QED BY <2>1, <3>2, <3>3
  <2> QED BY <2>2, <2>3
<1> HIDE DEF next, kind, H
<1>8. RulesTo(q, n + 1, next)
  BY <1>6, <1>7 DEF RulesTo
<1> QED BY <1>8 DEF next, kind

LEMMA RulesRead ==
  ASSUME NEW g, NEW a, NEW b, NEW q \in Seq(Word), NEW d \in Components(g, a, b)
  PROVE  /\ RulesFold([words |-> q, c |-> d]) \in RuleStates(g, a, b)
         /\ (\A k \in DOMAIN q : q[k] # "Complete") /\ (\A K \in Told6 : d[K] = "") =>
              RulesTo(q, 11, RulesFold([words |-> q, c |-> d]))
<1> DEFINE st == [words |-> q, c |-> d]
           Plainly == (\A k \in DOMAIN q : q[k] # "Complete") /\ (\A K \in Told6 : d[K] = "")
<1>1. st \in RuleStates(g, a, b)
  BY DEF RuleStates
<1>2. PICK f : RulesRun(f, st)
  BY <1>1, RulesFolds
<1>3. /\ f[0] = st /\ \A k \in 1 .. 11 : f[k] = Title!ApplyRule(f[k - 1], Rule(k))
      /\ RulesFold(st) = f[11]
  BY <1>2 DEF RulesRun, Rule
<1> DEFINE Good == {n \in Nat : n <= 11 => /\ f[n] \in RuleStates(g, a, b)
                                           /\ Plainly => RulesTo(q, n, f[n])}
<1>4. 0 \in Good
  <2>1. \A w : ~Ruled(w, 0)
    BY DEF Ruled
  <2>2. RuleBlank(q, 0) = q
    <3>1. RuleBlank(q, 0) = [k \in DOMAIN q |-> IF Ruled(q[k], 0) THEN "" ELSE q[k]]
      BY DEF RuleBlank
    <3>2. \A k \in DOMAIN q : (IF Ruled(q[k], 0) THEN "" ELSE q[k]) = q[k]
      BY <2>1
    <3>3. q = [k \in DOMAIN q |-> q[k]]
      OBVIOUS
    <3> QED BY <3>1, <3>2, <3>3
  <2>3. st.words = q /\ st.c = d
    OBVIOUS
  <2>4. ASSUME Plainly PROVE RulesTo(q, 0, st)
    <3>1. \A j \in 1 .. 11 : ~ (j <= 0)
      OBVIOUS
    <3>2. \A K \in Told6 : d[K] = ""
      BY <2>4
    <3> HIDE DEF st, Plainly
    <3> QED BY <2>2, <2>3, <3>1, <3>2 DEF RulesTo
  <2> HIDE DEF st, Plainly
  <2> QED BY <1>1, <1>3, <2>4
<1>5. ASSUME NEW n \in Nat, n \in Good PROVE n + 1 \in Good
  <2> HIDE DEF st, Plainly
  <2> SUFFICES ASSUME n + 1 <= 11
               PROVE  /\ f[n + 1] \in RuleStates(g, a, b)
                      /\ Plainly => RulesTo(q, n + 1, f[n + 1])
    OBVIOUS
  <2>1. /\ n \in 0 .. 10 /\ n + 1 \in 1 .. 11 /\ (n + 1) - 1 = n
        /\ f[n] \in RuleStates(g, a, b) /\ (Plainly => RulesTo(q, n, f[n]))
    BY <1>5
  <2>2. f[n + 1] = Title!ApplyRule(f[n], Rule(n + 1))
    BY <1>3, <2>1
  <2>3. f[n + 1] \in RuleStates(g, a, b)
    <3> DEFINE z == f[n]  kind == Rule(n + 1)
    <3>1. z \in RuleStates(g, a, b) /\ kind \in Kinds
      BY <2>1, RuleKinds DEF Rule
    <3> HIDE DEF z, kind
    <3>2. Title!ApplyRule(z, kind) \in RuleStates(g, a, b)
      BY <3>1, RuleKeeps
    <3> QED BY <2>2, <3>2 DEF z, kind
  <2>4. ASSUME Plainly PROVE RulesTo(q, n + 1, f[n + 1])
    <3>1. \A k \in DOMAIN q : q[k] # "Complete"
      BY <2>4 DEF Plainly
    <3> QED BY <2>1, <2>2, <2>4, <3>1, RulesNext
  <2> QED BY <2>3, <2>4
<1> HIDE DEF Good, st, Plainly
<1>6. 11 \in Good
  BY <1>4, <1>5, NatsReached
<1>7. RulesFold(st) \in RuleStates(g, a, b) /\ (Plainly => RulesTo(q, 11, RulesFold(st)))
  BY <1>3, <1>6 DEF Good
<1> QED BY <1>7 DEF st, Plainly

\* What the patterns start from and end with has no other component.
LEMMA NothingIs ==
  /\ Title!Nothing \in Components(<<>>, <<>>, <<>>)
  /\ \A K \in Told6 : Title!Nothing[K] = ""
<1>1. "" \in Value /\ <<>> \in Seq(Word) /\ FALSE \in BOOLEAN
  BY DEF Value
<1>2. Title!Nothing \in Components(<<>>, <<>>, <<>>)
  BY <1>1 DEF Title!Nothing, Components
<1>3. /\ Title!Nothing.year = "" /\ Title!Nothing.resolution = "" /\ Title!Nothing.hdr = ""
      /\ Title!Nothing.video_codec = "" /\ Title!Nothing.audio_codec = ""
      /\ Title!Nothing.source = ""
  BY DEF Title!Nothing
<1> QED BY <1>2, <1>3 DEF Told6

LEMMA ToldIs ==
  ASSUME NEW g, NEW a, NEW b
  PROVE  Told(g, a, b) \in Components(g, a, b) /\ \A K \in Told6 : Told(g, a, b)[K] = ""
<1> DEFINE d == Title!Nothing
<1>1. d \in Components(<<>>, <<>>, <<>>) /\ \A K \in Told6 : d[K] = ""
  BY NothingIs
<1>2. Told(g, a, b) = [d EXCEPT !.group = g, !.season = a, !.episode = b]
  BY Zenon DEF Told
<1> HIDE DEF d
<1> QED BY <1>1, <1>2 DEF Components, Told6

LEMMA ToldNothing ==
  ASSUME NEW g PROVE [Title!Nothing EXCEPT !.group = g] = Told(g, <<>>, <<>>)
<1> DEFINE d == Title!Nothing
<1>1. d \in Components(<<>>, <<>>, <<>>)
  BY NothingIs
<1>2. Told(g, <<>>, <<>>) = [d EXCEPT !.group = g, !.season = <<>>, !.episode = <<>>]
  BY Zenon DEF Told
<1> HIDE DEF d
<1>3. [d EXCEPT !.group = g] = [d EXCEPT !.group = g, !.season = <<>>, !.episode = <<>>]
  BY <1>1 DEF Components
<1>4. [d EXCEPT !.group = g] = Told(g, <<>>, <<>>)
  BY <1>2, <1>3
<1> QED BY <1>4 DEF d

\* The same entries at the same positions.
LEMMA SameAt ==
  ASSUME NEW U, NEW s \in Seq(U), NEW t \in Seq(U), NEW K,
         K \subseteq DOMAIN s, K \subseteq DOMAIN t, \A k \in K : s[k] = t[k]
  PROVE  EntriesAt(s, K) = EntriesAt(t, K)
<1>1. \A n \in 1 .. Cardinality(K) : Nth(K, n) \in K
  BY EntriesKept
<1>2. \A n \in 1 .. Cardinality(K) : s[Nth(K, n)] = t[Nth(K, n)]
  BY <1>1
<1> QED BY <1>2 DEF EntriesAt

LEMMA KnownWords == \A w : Title!Known(w) <=> Eaten(w, 10) \/ Ruled(w, 11)
<1> SUFFICES ASSUME NEW w PROVE Title!Known(w) <=> Eaten(w, 10) \/ Ruled(w, 11)
  OBVIOUS
<1>1. DOMAIN Title!SePatterns = 1 .. 10
  BY DEF Title!SePatterns
<1>2. \A kind \in Kinds : \E k \in 1 .. 11 : Rule(k) = kind
  BY TheRules DEF Kinds, Rule
<1>3. \A k \in 1 .. 11 : Rule(k) \in Kinds
  BY RuleKinds DEF Rule
<1>4. (\E kind \in DOMAIN Title!Matches : w \in DOMAIN Title!Matches[kind]) <=> Ruled(w, 11)
  BY <1>2, <1>3, TheKinds DEF Ruled
<1> QED BY <1>1, <1>4 DEF Title!Known, Eaten

LEMMA RuleBlankWords ==
  ASSUME NEW q \in Seq(Word), NEW n
  PROVE  RuleBlank(q, n) \in Seq(Word) /\ DOMAIN RuleBlank(q, n) = DOMAIN q
<1>1. "" \in Word /\ \A k \in 1 .. Len(q) : q[k] \in Word
  <2>1. "" \in Word
    BY DEF Word, Rests
  <2>2. \A k \in 1 .. Len(q) : q[k] \in Word
    OBVIOUS
  <2> QED BY <2>1, <2>2
<1>2. RuleBlank(q, n) \in [1 .. Len(q) -> Word]
  <2>1. \A k \in 1 .. Len(q) : (IF Ruled(q[k], n) THEN "" ELSE q[k]) \in Word
    BY <1>1
  <2>2. RuleBlank(q, n) = [k \in 1 .. Len(q) |-> IF Ruled(q[k], n) THEN "" ELSE q[k]]
    BY DEF RuleBlank
  <2> QED BY <2>1, <2>2
<1> QED BY <1>2

\* What all patterns and rules leave is what none of them knows.
LEMMA WordsLeft ==
  ASSUME NEW ws \in Seq(Word), \A k \in DOMAIN ws : ws[k] # ""
  PROVE  LET q == Blank(ws, 10)
             r == RuleBlank(q, 11)
         IN /\ EntriesAt(r, {k \in DOMAIN r : r[k] # ""})
               = EntriesAt(ws, {k \in DOMAIN ws : ~Title!Known(ws[k])})
            /\ \A kind \in Kinds : HasKind(q, kind) <=> HasKind(ws, kind)
            /\ (\A k \in DOMAIN ws : ws[k] # "Complete") => \A k \in DOMAIN q : q[k] # "Complete"
<1> DEFINE q == Blank(ws, 10)
           r == RuleBlank(q, 11)
           K == {k \in DOMAIN ws : ~Title!Known(ws[k])}
<1>1. q \in Seq(Word) /\ DOMAIN q = DOMAIN ws /\ DOMAIN r = DOMAIN ws /\ Len(q) = Len(ws)
  BY BlankWords DEF RuleBlank
<1>2. \A k \in DOMAIN ws : q[k] = IF Eaten(ws[k], 10) THEN "" ELSE ws[k]
  BY DEF Blank
<1>3. \A k \in DOMAIN ws : r[k] = IF Ruled(q[k], 11) THEN "" ELSE q[k]
  BY <1>1 DEF RuleBlank
<1>4. r \in Seq(Word)
  <2> HIDE DEF q
  <2> QED BY <1>1, RuleBlankWords
<1>5. ASSUME NEW k \in DOMAIN ws
      PROVE  /\ r[k] # "" <=> ~Title!Known(ws[k])
             /\ ~Title!Known(ws[k]) => r[k] = ws[k]
  <2>1. Title!Known(ws[k]) <=> Eaten(ws[k], 10) \/ Ruled(ws[k], 11)
    BY KnownWords
  <2>2. /\ q[k] = IF Eaten(ws[k], 10) THEN "" ELSE ws[k]
        /\ r[k] = IF Ruled(q[k], 11) THEN "" ELSE q[k]
        /\ ws[k] # ""
    BY <1>2, <1>3
  <2> HIDE DEF r, q
  <2>3. CASE Eaten(ws[k], 10)
    BY <2>1, <2>2, <2>3
  <2>4. CASE ~Eaten(ws[k], 10)
    <3>1. q[k] = ws[k]
      BY <2>2, <2>4
    <3> QED BY <2>1, <2>2, <2>4, <3>1
  <2> QED BY <2>3, <2>4
<1>6. {k \in DOMAIN r : r[k] # ""} = K
  <2> HIDE DEF r
  <2> QED BY <1>1, <1>5
<1>7. EntriesAt(r, K) = EntriesAt(ws, K)
  <2>1. K \subseteq DOMAIN r /\ K \subseteq DOMAIN ws /\ \A k \in K : r[k] = ws[k]
    BY <1>1, <1>5
  <2> HIDE DEF r, K
  <2> QED BY <1>4, <2>1, SameAt
<1>8. ASSUME NEW kind \in Kinds PROVE HasKind(q, kind) <=> HasKind(ws, kind)
  <2>1. ASSUME NEW k \in DOMAIN ws
        PROVE  q[k] \in DOMAIN Title!Matches[kind] <=> ws[k] \in DOMAIN Title!Matches[kind]
    <3>1. CASE Eaten(ws[k], 10)
      <4>1. q[k] = "" /\ ws[k] \in DOMAIN Title!Meaning
        BY <1>2, <3>1, MeaningWords DEF Eaten
      <4> HIDE DEF q
      <4> QED BY <4>1, KindsLeft
    <3>2. CASE ~Eaten(ws[k], 10)
      BY <1>2, <3>2
    <3> QED BY <3>1, <3>2
  <2> HIDE DEF q
  <2> QED BY <1>1, <2>1 DEF HasKind
<1>9. ASSUME \A k \in DOMAIN ws : ws[k] # "Complete" PROVE \A k \in DOMAIN q : q[k] # "Complete"
  <2> HIDE DEF q
  <2> QED BY <1>1, <1>2, <1>9
<1> HIDE DEF q, r, K
<1>10. EntriesAt(r, {k \in DOMAIN r : r[k] # ""}) = EntriesAt(ws, K)
  BY <1>6, <1>7
<1> QED BY <1>8, <1>9, <1>10 DEF q, r, K

\* The group is what follows the last "-", when no rule knows it.
LEMMA GroupIs ==
  ASSUME tail # ""
  PROVE  \/ Title!ExtractGroup = [words |-> words \o <<tail>>, group |-> <<>>]
         \/ /\ Title!ExtractGroup = [words |-> words, group |-> <<tail>>]
            /\ \A kind \in Kinds : tail \notin DOMAIN Title!Matches[kind]
<1> DEFINE no == Title!TechnicalSegment(tail) \/ tail \in Title!NonGroupSuffixes \cup Title!Nameless
<1>1. Title!ExtractGroup = IF no THEN [words |-> words \o <<tail>>, group |-> <<>>]
                           ELSE [words |-> words, group |-> <<tail>>]
  BY DEF Title!ExtractGroup, Title!Suffix
<1>2. ASSUME ~no, NEW kind \in Kinds PROVE tail \notin DOMAIN Title!Matches[kind]
  <2>1. tail \notin DOMAIN Title!Matches["year"]
    BY <1>2, KindWords DEF Title!Nameless
  <2>2. tail \notin DOMAIN Title!Matches["medium"] /\ tail \notin DOMAIN Title!Matches["complete"]
    BY <1>2, KindWords DEF Title!TechnicalSegment
  <2>3. kind \in {"video_codec", "audio_codec", "channels", "source", "resolution", "bits", "hdr",
                  "noise"} => tail \notin DOMAIN Title!Matches[kind]
    BY <1>2 DEF Title!TechnicalSegment, Title!Technical
  <2> QED BY <2>1, <2>2, <2>3 DEF Kinds
<1> HIDE DEF no
<1> QED BY <1>1, <1>2

LEMMA ParseIs ==
  ASSUME NEW ws, NEW g, Title!ExtractGroup = [words |-> ws, group |-> g], words # <<>>
  PROVE  LET left == RulesFold(Title!ExtractSeasonEpisode([words |-> ws, c |-> Told(g, <<>>, <<>>)]))
             main == EntriesAt(left.words, {k \in DOMAIN left.words : left.words[k] # ""})
         IN Title!ParseTitle
            = [left.c EXCEPT !.title = IF main # <<>> THEN main ELSE words \o Title!Suffix]
<1> DEFINE read == Title!ExtractSeasonEpisode([words |-> ws, c |-> Told(g, <<>>, <<>>)])
           left == RulesFold(read)
           main == EntriesAt(left.words, {k \in DOMAIN left.words : left.words[k] # ""})
<1>1. [Title!Nothing EXCEPT !.group = g] = Told(g, <<>>, <<>>)
  BY ToldNothing
<1>2. Title!ExtractSeasonEpisode([words |-> Title!ExtractGroup.words,
                                  c |-> [Title!Nothing EXCEPT !.group = Title!ExtractGroup.group]])
      = read
  <2>1. Title!ExtractGroup.words = ws /\ Title!ExtractGroup.group = g
    OBVIOUS
  <2> QED BY <1>1, <2>1
<1>3. Title!FoldLeft(Title!ApplyRule, read, Title!ComponentRules) = left
  BY DEF RulesFold
<1> HIDE DEF read, left
<1>4. Title!EntriesAt(left.words, {k \in DOMAIN left.words : left.words[k] # ""}) = main
  BY SameEntries
<1> HIDE DEF main
<1>5. Title!ParseTitle
      = [left.c EXCEPT !.title = IF main # <<>> THEN main ELSE words \o Title!Suffix]
  BY <1>2, <1>3, <1>4 DEF Title!ParseTitle
<1> QED BY <1>5 DEF main, left, read

\* Sequences of a larger set, and with one more word.
LEMMA WiderSeq ==
  ASSUME NEW U, NEW T, U \subseteq T, NEW s \in Seq(U)
  PROVE  s \in Seq(T) /\ \A k \in DOMAIN s : s[k] \in U
<1>1. \A k \in 1 .. Len(s) : s[k] \in U
  OBVIOUS
<1>2. s \in [1 .. Len(s) -> T] /\ Len(s) \in Nat
  BY <1>1
<1> QED BY <1>1, <1>2

LEMMA OneMoreWord ==
  ASSUME NEW U, NEW s \in Seq(U), NEW x \in U
  PROVE  /\ s \o <<x>> \in Seq(U) /\ DOMAIN (s \o <<x>>) = DOMAIN s \cup {Len(s) + 1}
         /\ \A k \in DOMAIN s : (s \o <<x>>)[k] = s[k]
         /\ (s \o <<x>>)[Len(s) + 1] = x /\ s \o <<>> = s
<1>1. s \o <<x>> \in Seq(U) /\ Len(s \o <<x>>) = Len(s) + 1
  OBVIOUS
<1>2. DOMAIN (s \o <<x>>) = 1 .. Len(s) + 1 /\ DOMAIN s = 1 .. Len(s) /\ Len(s) \in Nat
  BY <1>1
<1>3. s \o <<>> = s
  OBVIOUS
<1>4. \A k \in 1 .. Len(s) : (s \o <<x>>)[k] = s[k]
  OBVIOUS
<1>5. (s \o <<x>>)[Len(s) + 1] = x
  OBVIOUS
<1> QED BY <1>1, <1>2, <1>3, <1>4, <1>5

\* A title with a tail, as the module writes it.
Titled ==
  /\ words \in Seq(Plain \cup Spelled) /\ words # <<>> /\ tail \in Tails /\ tail # ""
  /\ "" \notin Plain \cup Spelled \cup Tails

\* What is parsed: the words that are no group.
Parsed(ws, g) ==
  /\ Title!ExtractGroup = [words |-> ws, group |-> g]
  /\ \/ ws = words \o <<tail>> /\ g = <<>>
     \/ ws = words /\ g = <<tail>> /\ \A kind \in Kinds : tail \notin DOMAIN Title!Matches[kind]
  /\ ws \in Seq(Word) /\ \A k \in DOMAIN ws : ws[k] # ""

LEMMA WordsTyped ==
  ASSUME Titled
  PROVE  /\ words \in Seq(Word) /\ \A k \in DOMAIN words : words[k] # ""
         /\ tail \in Word /\ tail # "" /\ words # <<>> /\ words \o <<>> = words
<1> DEFINE U == Plain \cup Spelled
<1>1. /\ words \in Seq(U) /\ tail \in Tails /\ tail # "" /\ "" \notin U \cup Tails
      /\ words # <<>>
  BY DEF Titled
<1>2. U \subseteq Word /\ tail \in Word
  BY <1>1 DEF Word
<1> HIDE DEF U
<1>3. words \in Seq(Word) /\ \A k \in DOMAIN words : words[k] \in U
  BY <1>1, <1>2, WiderSeq
<1>4. words \o <<>> = words
  BY <1>2, <1>3, OneMoreWord
<1> QED BY <1>1, <1>2, <1>3, <1>4

LEMMA ParsedIs ==
  ASSUME Titled PROVE \E ws, g : Parsed(ws, g)
<1> DEFINE ws == words \o <<tail>>
<1>1. words \in Seq(Word) /\ tail \in Word
  BY WordsTyped
<1>2. tail # "" /\ \A k \in DOMAIN words : words[k] # ""
  BY WordsTyped
<1>3. ws \in Seq(Word) /\ \A k \in DOMAIN ws : ws[k] # ""
  <2>1. /\ ws \in Seq(Word) /\ DOMAIN ws = DOMAIN words \cup {Len(words) + 1}
        /\ \A k \in DOMAIN words : ws[k] = words[k]
        /\ ws[Len(words) + 1] = tail
    BY <1>1, OneMoreWord
  <2> HIDE DEF ws
  <2> QED BY <1>2, <2>1
<1> HIDE DEF ws
<1>4. \/ Title!ExtractGroup = [words |-> ws, group |-> <<>>]
      \/ /\ Title!ExtractGroup = [words |-> words, group |-> <<tail>>]
         /\ \A kind \in Kinds : tail \notin DOMAIN Title!Matches[kind]
  BY <1>2, GroupIs DEF ws
<1>5. CASE Title!ExtractGroup = [words |-> ws, group |-> <<>>]
  BY <1>3, <1>5 DEF Parsed, ws
<1>6. CASE /\ Title!ExtractGroup = [words |-> words, group |-> <<tail>>]
           /\ \A kind \in Kinds : tail \notin DOMAIN Title!Matches[kind]
  BY <1>1, <1>2, <1>6 DEF Parsed
<1> QED BY <1>4, <1>5, <1>6

\* Left after all patterns and rules.
LeftOf(ws, g) == RulesFold(Title!ExtractSeasonEpisode([words |-> ws, c |-> Told(g, <<>>, <<>>)]))
Named(d, title) == [d EXCEPT !.title = title]

LEMMA LeftIs ==
  ASSUME Titled, NEW ws, NEW g, Parsed(ws, g)
  PROVE  \E a, b \in Numbers :
           /\ LeftOf(ws, g) \in RuleStates(g, a, b)
           /\ (\A k \in DOMAIN ws : ws[k] # "S01E07-E08") =>
                \A m \in DOMAIN ws : ToldAlone(ws, m) =>
                  Told(g, a, b) = Telling(g, ws[m], 10)
           /\ (\A k \in DOMAIN ws : ws[k] # "S01E07-E08" /\ ws[k] # "Complete") =>
                RulesTo(Blank(ws, 10), 11, LeftOf(ws, g))
<1> DEFINE st == [words |-> ws, c |-> Told(g, <<>>, <<>>)]
           read == Title!ExtractSeasonEpisode(st)
<1>0. ws \in Seq(Word) /\ \A k \in DOMAIN ws : ws[k] # ""
  BY DEF Parsed
<1>1. st \in PatternStates(g)
  <2>1. <<>> \in Numbers
    BY DEF Numbers
  <2>2. ws \in Seq(Word)
    BY DEF Parsed
  <2> QED BY <2>1, <2>2 DEF PatternStates
<1> HIDE DEF st
<1>2. PICK q \in Seq(Word), a \in Numbers, b \in Numbers : read = [words |-> q, c |-> Told(g, a, b)]
  BY <1>1, PatternsKeep DEF PatternStates
<1>3. Told(g, a, b) \in Components(g, a, b) /\ \A K \in Told6 : Told(g, a, b)[K] = ""
  BY ToldIs
<1> HIDE DEF read
<1>4. /\ RulesFold(read) \in RuleStates(g, a, b)
      /\ (\A k \in DOMAIN q : q[k] # "Complete") => RulesTo(q, 11, RulesFold(read))
  <2> DEFINE d == Told(g, a, b)
  <2>1. read = [words |-> q, c |-> d] /\ d \in Components(g, a, b) /\ \A K \in Told6 : d[K] = ""
    BY <1>2, <1>3
  <2> HIDE DEF d
  <2> QED BY <2>1, RulesRead
<1>5. ASSUME \A k \in DOMAIN ws : ws[k] # "S01E07-E08"
      PROVE  /\ q = Blank(ws, 10)
             /\ \A m \in DOMAIN ws : ToldAlone(ws, m) => Told(g, a, b) = Telling(g, ws[m], 10)
  <2>1. PatternsTo(ws, 10, g, read)
    BY <1>0, <1>5, PatternsRead DEF read, st
  <2>2. read.words = q /\ read.c = Told(g, a, b)
    BY <1>2
  <2>3. PICK i, j : read = [words |-> Blank(ws, 10), c |-> Told(g, i, j)]
    BY <2>1 DEF PatternsTo
  <2>4. read.words = Blank(ws, 10)
    BY <2>3
  <2>5. \A m \in DOMAIN ws : ToldAlone(ws, m) => read.c = Telling(g, ws[m], 10)
    BY <2>1 DEF PatternsTo
  <2> QED BY <2>2, <2>4, <2>5
<1>6. ASSUME \A k \in DOMAIN ws : ws[k] # "S01E07-E08" /\ ws[k] # "Complete"
      PROVE  RulesTo(Blank(ws, 10), 11, RulesFold(read))
  <2>1. q = Blank(ws, 10)
    BY <1>5, <1>6
  <2>2. \A k \in DOMAIN q : q[k] # "Complete"
    <3>1. \A k \in DOMAIN ws : ws[k] # "Complete"
      BY <1>6
    <3>2. (\A k \in DOMAIN ws : ws[k] # "Complete") =>
            \A k \in DOMAIN Blank(ws, 10) : Blank(ws, 10)[k] # "Complete"
      BY <1>0, WordsLeft
    <3> QED BY <2>1, <3>1, <3>2
  <2> QED BY <1>4, <2>1, <2>2
<1>7. RulesFold(read) = LeftOf(ws, g)
  BY DEF LeftOf, read, st
<1> QED BY <1>4, <1>5, <1>6, <1>7

LEMMA ParseNames ==
  ASSUME Titled, NEW ws, NEW g, Parsed(ws, g)
  PROVE  LET left == LeftOf(ws, g)
             main == EntriesAt(left.words, {k \in DOMAIN left.words : left.words[k] # ""})
         IN Title!ParseTitle = Named(left.c, IF main # <<>> THEN main ELSE words \o Title!Suffix)
<1>1. words # <<>> /\ Title!ExtractGroup = [words |-> ws, group |-> g]
  BY DEF Titled, Parsed
<1> QED BY <1>1, ParseIs DEF LeftOf, Named

LEMMA NamedIs ==
  ASSUME NEW g, NEW a, NEW b, NEW d \in Components(g, a, b), NEW title
  PROVE  /\ Named(d, title).title = title /\ Named(d, title).group = g
         /\ Named(d, title).season = a /\ Named(d, title).episode = b
         /\ \A K \in Told6 : Named(d, title)[K] = d[K]
BY DEF Named, Components, Told6

LEMMA WordsAreRead == ASSUME Titled PROVE Title!WordsRead
<1>1. PICK ws, g : Parsed(ws, g)
  BY ParsedIs
<1> DEFINE left == LeftOf(ws, g)
           main == EntriesAt(left.words, {k \in DOMAIN left.words : left.words[k] # ""})
           title == IF main # <<>> THEN main ELSE words \o Title!Suffix
           c == Title!ParseTitle
           all == words \o (IF c.group = <<>> THEN Title!Suffix ELSE <<>>)
           kept == Title!EntriesAt(all, {k \in DOMAIN all : ~Title!Known(all[k])})
<1>2. c = Named(left.c, title)
  BY <1>1, ParseNames
<1>3. PICK a \in Numbers, b \in Numbers :
        /\ left \in RuleStates(g, a, b)
        /\ (\A k \in DOMAIN ws : ws[k] # "S01E07-E08" /\ ws[k] # "Complete") =>
             RulesTo(Blank(ws, 10), 11, left)
  BY <1>1, LeftIs
<1> HIDE DEF left, title, c
<1>4. left.c \in Components(g, a, b)
  BY <1>3 DEF RuleStates
<1>5. c.title = title /\ c.group = g /\ \A K \in Told6 : c[K] = left.c[K]
  BY <1>2, <1>4, NamedIs
<1>6. all = ws
  <2>1. Title!Suffix = <<tail>> /\ <<tail>> # <<>>
    BY DEF Title!Suffix, Titled
  <2>2. CASE ws = words \o <<tail>> /\ g = <<>>
    BY <1>5, <2>1, <2>2
  <2>3. CASE ws = words /\ g = <<tail>>
    <3>1. words \o <<>> = words
      BY WordsTyped
    <3> QED BY <1>5, <2>1, <2>3, <3>1
  <2> QED BY <1>1, <2>2, <2>3 DEF Parsed
<1> HIDE DEF all
<1>7. ASSUME {"S01E07-E08", "Complete"} \cap Title!ToSet(all) = {}
      PROVE  /\ c.title = IF kept # <<>> THEN kept ELSE words \o Title!Suffix
             /\ c.group # <<>> => \A kind \in DOMAIN Title!Matches : tail \notin DOMAIN Title!Matches[kind]
             /\ \A kind \in Told6 :
                  (c[kind] # "") = (Title!ToSet(all) \cap DOMAIN Title!Matches[kind] # {})
  <2>1. \A k \in DOMAIN ws : ws[k] # "S01E07-E08" /\ ws[k] # "Complete"
    BY <1>6, <1>7 DEF Title!ToSet
  <2>2. RulesTo(Blank(ws, 10), 11, left)
    BY <1>3, <2>1
  <2>3. left.words = RuleBlank(Blank(ws, 10), 11)
    BY <2>2 DEF RulesTo
  <2>4. ws \in Seq(Word) /\ \A k \in DOMAIN ws : ws[k] # ""
    BY <1>1 DEF Parsed
  <2>5. main = kept
    <3>1. main = EntriesAt(ws, {k \in DOMAIN ws : ~Title!Known(ws[k])})
      BY <2>3, <2>4, WordsLeft
    <3>2. kept = EntriesAt(ws, {k \in DOMAIN ws : ~Title!Known(ws[k])})
      BY <1>6, SameEntries, Zenon
    <3> QED BY <3>1, <3>2
  <2>6. c.title = IF kept # <<>> THEN kept ELSE words \o Title!Suffix
    <3> HIDE DEF main, kept
    <3> QED BY <1>5, <2>5 DEF title
  <2>7. ASSUME c.group # <<>>
        PROVE  \A kind \in DOMAIN Title!Matches : tail \notin DOMAIN Title!Matches[kind]
    BY <1>1, <1>5, <2>7, TheKinds DEF Parsed
  <2>8. ASSUME NEW kind \in Told6
        PROVE  (c[kind] # "") = (Title!ToSet(all) \cap DOMAIN Title!Matches[kind] # {})
    <3>1. kind \in Kinds /\ \E j \in 1 .. 11 : Rule(j) = kind
      BY TheRules DEF Told6, Kinds, Rule
    <3>2. (left.c[kind] # "") <=> HasKind(Blank(ws, 10), kind)
      <4>1. PICK j \in 1 .. 11 : Rule(j) = kind
        BY <3>1
      <4>2. (left.c[Rule(j)] # "") <=> j <= 11 /\ HasKind(Blank(ws, 10), Rule(j))
        BY <2>2, <4>1 DEF RulesTo
      <4>3. j <= 11
        OBVIOUS
      <4> QED BY <4>1, <4>2, <4>3
    <3>3. HasKind(Blank(ws, 10), kind) <=> HasKind(ws, kind)
      BY <2>4, <3>1, WordsLeft
    <3>4. HasKind(ws, kind) <=> Title!ToSet(all) \cap DOMAIN Title!Matches[kind] # {}
      BY <1>6 DEF HasKind, Title!ToSet
    <3>5. c[kind] = left.c[kind]
      BY <1>5
    <3> QED BY <3>2, <3>3, <3>4, <3>5
  <2> QED BY <2>6, <2>7, <2>8
<1> HIDE DEF kept
<1>8. tail # "" /\ {"S01E07-E08", "Complete"} \cap Title!ToSet(all) = {} =>
        /\ c.title = IF kept # <<>> THEN kept ELSE words \o Title!Suffix
        /\ c.group # <<>> => \A kind \in DOMAIN Title!Matches : tail \notin DOMAIN Title!Matches[kind]
        /\ \A kind \in Told6 :
             (c[kind] # "") = (Title!ToSet(all) \cap DOMAIN Title!Matches[kind] # {})
  BY <1>7
<1> QED BY <1>8, Zenon DEF Title!WordsRead, kept, all, c, Told6

\* All meanings but the one left out are pairs.
LEMMA MeaningIs ==
  ASSUME NEW w \in DOMAIN Title!Meaning
  PROVE  Title!Meaning[w] = <<Title!Meaning[w][1], Title!Meaning[w][2]>>
<1>1. /\ \A v \in {"S01E07"} : Title!Meaning[v] = <<<<1>>, <<7>>>>
      /\ \A v \in {"S01E07-S01E08", "S01E07-E08"} : Title!Meaning[v] = <<<<1>>, <<7, 8>>>>
      /\ \A v \in {"S01-S02", "Season 1-2"} : Title!Meaning[v] = <<<<1, 2>>, <<>>>>
      /\ \A v \in {"S01", "Season 1", "di1ji"} : Title!Meaning[v] = <<<<1>>, <<>>>>
      /\ \A v \in {"EP07", "Episode 7", "di7ji"} : Title!Meaning[v] = <<<<>>, <<7>>>>
      /\ \A v \in {"E08", "-E08"} : Title!Meaning[v] = <<<<>>, <<8>>>>
  BY DEF Title!Meaning
<1>2. DOMAIN Title!Meaning =
        {"S01E07"} \cup {"S01E07-S01E08", "S01E07-E08"} \cup {"S01-S02", "Season 1-2"}
        \cup {"S01", "Season 1", "di1ji"} \cup {"EP07", "Episode 7", "di7ji"} \cup {"E08", "-E08"}
  BY DEF Title!Meaning
<1>3. \E x, y : Title!Meaning[w] = <<x, y>>
  BY <1>1, <1>2
<1> QED BY <1>3

LEMMA ToldSays ==
  ASSUME NEW g, NEW a, NEW b, NEW i, NEW j, Told(g, a, b) = Told(g, i, j)
  PROVE  a = i /\ b = j
<1>1. \A x, y : Told(g, x, y).season = x /\ Told(g, x, y).episode = y
  <2> SUFFICES ASSUME NEW x, NEW y PROVE Told(g, x, y).season = x /\ Told(g, x, y).episode = y
    OBVIOUS
  <2>1. Told(g, x, y) \in Components(g, x, y)
    BY ToldIs
  <2> QED BY <2>1 DEF Components
<1>2. Told(g, a, b).season = a /\ Told(g, i, j).season = i
  BY <1>1
<1>3. Told(g, a, b).episode = b /\ Told(g, i, j).episode = j
  BY <1>1
<1> QED BY <1>2, <1>3

LEMMA SeasonsAreRead == ASSUME Titled PROVE Title!SeasonsRead
<1>1. PICK ws, g : Parsed(ws, g)
  BY ParsedIs
<1> DEFINE left == LeftOf(ws, g)
           main == EntriesAt(left.words, {k \in DOMAIN left.words : left.words[k] # ""})
           title == IF main # <<>> THEN main ELSE words \o Title!Suffix
           c == Title!ParseTitle
           all == words \o Title!Suffix
           told == {k \in DOMAIN all : all[k] \in DOMAIN Title!Meaning}
<1>2. c = Named(left.c, title)
  BY <1>1, ParseNames
<1>3. PICK a \in Numbers, b \in Numbers :
        /\ left \in RuleStates(g, a, b)
        /\ (\A k \in DOMAIN ws : ws[k] # "S01E07-E08") =>
             \A m \in DOMAIN ws : ToldAlone(ws, m) => Told(g, a, b) = Telling(g, ws[m], 10)
  BY <1>1, LeftIs
<1> HIDE DEF left, title, c
<1>4. left.c \in Components(g, a, b)
  BY <1>3 DEF RuleStates
<1>5. c.season = a /\ c.episode = b
  BY <1>2, <1>4, NamedIs
<1>6. ASSUME NEW k \in told, told = {k}, k \in DOMAIN words, all[k] # "S01E07-E08"
      PROVE  <<c.season, c.episode>> = Title!Meaning[all[k]]
  <2>1. words \in Seq(Word) /\ tail \in Word /\ all = words \o <<tail>>
    BY WordsTyped DEF Title!Suffix
  <2>0. /\ DOMAIN all = DOMAIN words \cup {Len(words) + 1}
        /\ \A m \in DOMAIN words : all[m] = words[m]
    <3> HIDE DEF all
    <3> QED BY <2>1, OneMoreWord
  <2>2. /\ DOMAIN ws \subseteq DOMAIN all /\ DOMAIN words \subseteq DOMAIN ws
        /\ \A m \in DOMAIN ws : ws[m] = all[m]
    <3> HIDE DEF all
    <3> QED BY <1>1, <2>0, <2>1 DEF Parsed
  <2>3. k \in DOMAIN ws /\ ws[k] = all[k] /\ ws[k] \in DOMAIN Title!Meaning
    BY <1>6, <2>2
  <2>4. ToldAlone(ws, k)
    <3> HIDE DEF all
    <3> QED BY <1>6, <2>2 DEF ToldAlone
  <2>5. \A m \in DOMAIN ws : ws[m] # "S01E07-E08"
    <3>1. "S01E07-E08" \in DOMAIN Title!Meaning
      BY DEF Title!Meaning
    <3> HIDE DEF all
    <3> QED BY <1>6, <2>3, <2>4, <3>1 DEF ToldAlone
  <2> HIDE DEF all
  <2>6. Told(g, a, b) = Telling(g, ws[k], 10)
    BY <1>3, <2>3, <2>4, <2>5
  <2>7. Eaten(ws[k], 10)
    BY <2>3, MeaningWords DEF Eaten
  <2> DEFINE v == Title!Meaning[ws[k]]
  <2>8. Told(g, a, b) = Told(g, v[1], v[2]) /\ v = <<v[1], v[2]>>
    BY <2>3, <2>6, <2>7, MeaningIs DEF Telling
  <2> HIDE DEF v
  <2>9. a = v[1] /\ b = v[2]
    BY <2>8, ToldSays
  <2> QED BY <1>5, <2>3, <2>8, <2>9 DEF v
<1>7. \A k \in told :
        told = {k} /\ k \in DOMAIN words /\ tail # "" /\ all[k] # "S01E07-E08" =>
          <<c.season, c.episode>> = Title!Meaning[all[k]]
  BY <1>6
<1> QED BY <1>7, Zenon DEF Title!SeasonsRead, told, all, c

\* A tail comes after words.
Tailed == tail # "" => words # <<>>

LEMMA TailedMoves == Tailed /\ [Title!Next]_(Title!vars) => Tailed'
<1> SUFFICES ASSUME Tailed, [Title!Next]_(Title!vars) PROVE Tailed'
  OBVIOUS
<1>1. ASSUME NEW w, Title!Write(w) PROVE Tailed'
  <2>1. tail' = ""
    BY <1>1, Zenon DEF Title!Write
  <2> QED BY <2>1 DEF Tailed
<1>2. ASSUME NEW w, Title!WriteTail(w) PROVE Tailed'
  <2>1. words # <<>> /\ words' = words
    BY <1>2, Zenon DEF Title!WriteTail
  <2> QED BY <2>1 DEF Tailed
<1>3. ASSUME NEW mteam, NEW number, Title!Publish(mteam, number) PROVE Tailed'
  <2>1. words' = words /\ tail' = tail
    BY <1>3, Zenon DEF Title!Publish
  <2> QED BY <2>1 DEF Tailed
<1>4. ASSUME UNCHANGED Title!vars PROVE Tailed'
  <2>1. words' = words /\ tail' = tail
    BY <1>4, Zenon DEF Title!vars
  <2> QED BY <2>1 DEF Tailed
<1> QED BY <1>1, <1>2, <1>3, <1>4, Zenon DEF Title!Next

LEMMA TailedCorrect == PartsSpec => []Tailed
<1>1. PartsInit => Tailed
  <2>1. PartsInit => tail = ""
    BY Zenon DEF PartsInit, Title!Init
  <2> QED BY <2>1 DEF Tailed
<1>2. Tailed /\ [PartsNext]_allVars => Tailed'
  BY OtherParts, TailedMoves
<1> QED BY <1>1, <1>2, PTL DEF PartsSpec

(* What the title says is read from it, for all words and tails a title can  *)
(* be made of and any length (ParseTitle and what it calls).                 *)
THEOREM TitlesRead == PartsSpec => []TitleRead
<1>1. TypesOK /\ Tailed => TitleRead
  <2> SUFFICES ASSUME TypesOK, Tailed PROVE Title!TitleRead
    BY DEF TitleRead
  <2>1. words \in Seq(Plain \cup Spelled) /\ tail \in Tails \cup {""}
    BY Zenon DEF TypesOK, Title!TypeOK
  <2>2. CASE tail = ""
    <3>1. Title!WordsRead
      BY <2>2, Zenon DEF Title!WordsRead
    <3>2. Title!SeasonsRead
      BY <2>2, Zenon DEF Title!SeasonsRead
    <3> QED BY <3>1, <3>2 DEF Title!TitleRead
  <2>3. CASE tail # ""
    <3>1. "" \notin Plain \cup Spelled \cup Tails
      BY TextParameters DEF Title!TitleAssumption
    <3>2. Titled
      BY <2>1, <2>3, <3>1, Zenon DEF Titled, Tailed
    <3> QED BY <3>2, WordsAreRead, SeasonsAreRead DEF Title!TitleRead
  <2> QED BY <2>2, <2>3
<1> QED BY <1>1, TypesCorrect, TailedCorrect, PTL

-----------------------------------------------------------------------------
(* Descriptions: lines, and texts of lines, one token and one line at a time.*)
LEMMA SameTextEntries == \A s, K : Text!EntriesAt(s, K) = EntriesAt(s, K)
<1>1. \A K, n : Text!Nth(K, n) = Nth(K, n)
  BY Zenon DEF Text!Nth, Nth, Text!Cardinality, Cardinality
<1> QED BY <1>1, Zenon DEF Text!EntriesAt, EntriesAt, Text!Cardinality, Cardinality

(* Lines reads a text token by token: a fold, unrolled.                      *)
LineStep(ls, t) ==
  IF t = "nl" THEN Append(ls, <<>>) ELSE [ls EXCEPT ![Len(ls)] = Append(@, t)]
LineLists(X) == {ls \in Seq(Seq(X)) : ls # <<>>}

LEMMA LineSteps ==
  ASSUME NEW X, NEW ls \in LineLists(X), NEW t \in X \cup {"nl"}
  PROVE  LineStep(ls, t) \in LineLists(X)
<1> DEFINE n == Len(ls)
<1>1. n \in Nat \ {0} /\ ls \in Seq(Seq(X)) /\ ls[n] \in Seq(X)
  BY DEF LineLists
<1>2. CASE t = "nl"
  BY <1>1, <1>2 DEF LineStep, LineLists
<1>3. CASE t # "nl"
  <2> DEFINE r == [ls EXCEPT ![n] = Append(@, t)]
  <2>1. Append(ls[n], t) \in Seq(X)
    BY <1>1, <1>3
  <2>2. DOMAIN r = 1 .. n
    BY <1>1
  <2>3. \A k \in 1 .. n : r[k] \in Seq(X)
    BY <1>1, <2>1
  <2>4. r \in Seq(Seq(X)) /\ Len(r) = n
    <3>1. r \in [1 .. n -> Seq(X)]
      BY <2>2, <2>3
    <3> HIDE DEF r, n
    <3> QED BY <1>1, <3>1
  <2>5. r # <<>>
    BY <1>1, <2>4
  <2> QED BY <1>3, <2>4, <2>5 DEF LineStep, LineLists
<1> QED BY <1>2, <1>3

LinesRun(f, s) ==
  /\ f[0] = << <<>> >> /\ \A k \in 1 .. Len(s) : f[k] = LineStep(f[k - 1], s[k])
  /\ Text!Lines(s) = f[Len(s)]

LEMMA LinesFold ==
  ASSUME NEW X, NEW s \in Seq(X \cup {"nl"})
  PROVE  \E f : LinesRun(f, s)
<1> DEFINE n == Len(s)
           St == LineLists(X)
           step == [q \in St \X (1 .. n) |-> LineStep(q[1], s[q[2]])]
           base == << <<>> >>
           Runs(it) == it = [x \in SUBSET (1 .. n) |->
                               IF x = {} THEN base ELSE LineStep(it[x \ {Last(x)}], s[Last(x)])]
           fold == Text!Lines(s)
<1> SUFFICES \E f : /\ f[0] = base /\ \A k \in 1 .. n : f[k] = LineStep(f[k - 1], s[k])
                    /\ fold = f[n]
  BY DEF LinesRun
<1>1. n \in Nat /\ DOMAIN s = 1 .. n
  OBVIOUS
<1>2. step \in [St \X (1 .. n) -> St]
  <2>1. ASSUME NEW c \in St, NEW k \in 1 .. n PROVE LineStep(c, s[k]) \in St
    BY LineSteps
  <2> HIDE DEF St
  <2> QED BY <2>1
<1>3. PICK it : Folds(it, n, St, base, step)
  <2>1. base \in St
    BY DEF LineLists
  <2> HIDE DEF base, St, step
  <2> QED BY <1>1, <1>2, <2>1, FoldRuns
<1>4. \A x \in SUBSET (1 .. n) :
        it[x] = IF x = {} THEN base ELSE LineStep(it[x \ {Last(x)}], s[Last(x)])
  <2>1. ASSUME NEW x \in SUBSET (1 .. n), x # {}
        PROVE  <<it[x \ {Last(x)}], Last(x)>> \in St \X (1 .. n)
    <3>1. Last(x) \in 1 .. n
      BY <1>1, <2>1, LastIn
    <3> HIDE DEF St
    <3> QED BY <1>3, <3>1 DEF Folds
  <2>2. \A c \in St, k \in 1 .. n : step[<<c, k>>] = LineStep(c, s[k])
    OBVIOUS
  <2> HIDE DEF St, step, base
  <2> QED BY <1>3, <2>1, <2>2 DEF Folds
<1>5. \E i : Runs(i)
  <2> DEFINE i == [x \in SUBSET (1 .. n) |-> it[x]]
  <2>1. \A x \in SUBSET (1 .. n) : x # {} => x \ {Last(x)} \in SUBSET (1 .. n)
    OBVIOUS
  <2>2. Runs(i)
    BY <1>4, <2>1
  <2> QED BY <2>2
<1>6. fold = (CHOOSE i : Runs(i))[1 .. n]
  BY <1>1 DEF Text!Lines, Text!FoldLeft, Text!MapThenFoldSet, Text!Max, Last, LineStep
<1>7. PICK i : Runs(i) /\ i[1 .. n] = (CHOOSE j : Runs(j))[1 .. n]
  BY <1>5
<1> DEFINE f == [k \in 0 .. n |-> i[1 .. k]]
<1>8. f[0] = base
  <2>1. 1 .. 0 = {}
    OBVIOUS
  <2> QED BY <1>1, <1>7, <2>1
<1>9. ASSUME NEW k \in 1 .. n PROVE f[k] = LineStep(f[k - 1], s[k])
  <2>1. i[1 .. k] = LineStep(i[1 .. (k - 1)], s[k])
    BY <1>1, <1>7, FirstIndices
  <2> QED BY <1>1, <2>1
<1>10. f[n] = i[1 .. n]
  BY <1>1
<1>11. fold = f[n]
  BY <1>6, <1>7, <1>10
<1> HIDE DEF f, fold
<1> QED BY <1>8, <1>9, <1>11

LEMMA LinesSnoc ==
  ASSUME NEW X, NEW s \in Seq(X \cup {"nl"}), NEW t \in X \cup {"nl"}
  PROVE  Text!Lines(Append(s, t)) = LineStep(Text!Lines(s), t)
<1> DEFINE n == Len(s)  a == Append(s, t)
<1>1. n \in Nat /\ a \in Seq(X \cup {"nl"}) /\ Len(a) = n + 1 /\ a[n + 1] = t
      /\ \A k \in 1 .. n : a[k] = s[k]
  OBVIOUS
<1>2. PICK f : LinesRun(f, s)
  BY LinesFold
<1> HIDE DEF a
<1>3. PICK g : LinesRun(g, a)
  BY <1>1, LinesFold
<1> DEFINE Good == {k \in Nat : k <= n => f[k] = g[k]}
<1>4. f[0] = << <<>> >> /\ \A k \in 1 .. n : f[k] = LineStep(f[k - 1], s[k])
  BY <1>2 DEF LinesRun
<1>5. g[0] = << <<>> >> /\ \A k \in 1 .. n + 1 : g[k] = LineStep(g[k - 1], a[k])
  BY <1>1, <1>3 DEF LinesRun
<1>6. ASSUME NEW k \in Nat, k \in Good PROVE k + 1 \in Good
  <2> SUFFICES ASSUME k + 1 <= n PROVE f[k + 1] = g[k + 1]
    OBVIOUS
  <2>1. f[k] = g[k] /\ k + 1 \in 1 .. n /\ k + 1 \in 1 .. n + 1 /\ (k + 1) - 1 = k
    BY <1>1, <1>6
  <2> HIDE DEF n
  <2> QED BY <1>1, <1>4, <1>5, <2>1
<1>7. 0 \in Good
  BY <1>4, <1>5
<1> HIDE DEF Good
<1>8. n \in Good
  BY <1>1, <1>6, <1>7, NatsReached
<1>9. f[n] = g[n]
  BY <1>1, <1>8 DEF Good
<1>10. g[n + 1] = LineStep(g[n], t)
  <2>1. n + 1 \in 1 .. n + 1 /\ (n + 1) - 1 = n
    BY <1>1
  <2> HIDE DEF n
  <2> QED BY <1>1, <1>5, <2>1
<1>11. Text!Lines(s) = f[n] /\ Text!Lines(a) = g[n + 1]
  BY <1>1, <1>2, <1>3 DEF LinesRun
<1> QED BY <1>9, <1>10, <1>11 DEF a

LEMMA LinesNone == Text!Lines(<<>>) = << <<>> >>
<1>1. <<>> \in Seq({} \cup {"nl"}) /\ Len(<<>>) = 0
  OBVIOUS
<1>2. PICK f : LinesRun(f, <<>>)
  BY <1>1, LinesFold
<1> QED BY <1>1, <1>2 DEF LinesRun
(* JoinLines likewise, line by line.                                         *)
JoinStep(s, l) == s \o <<"nl">> \o l
JoinFold(b, ls) == Text!FoldLeft(LAMBDA s, l : s \o <<"nl">> \o l, b, ls)

JoinRun(f, b, ls) ==
  /\ f[0] = b /\ \A k \in 1 .. Len(ls) : f[k] = JoinStep(f[k - 1], ls[k])
  /\ JoinFold(b, ls) = f[Len(ls)]

LEMMA JoinFolds ==
  ASSUME NEW X, "nl" \in X, NEW b \in Seq(X), NEW ls \in Seq(Seq(X))
  PROVE  \E f : JoinRun(f, b, ls)
<1> DEFINE n == Len(ls)
           St == Seq(X)
           step == [q \in St \X (1 .. n) |-> JoinStep(q[1], ls[q[2]])]
           Runs(it) == it = [x \in SUBSET (1 .. n) |->
                               IF x = {} THEN b ELSE JoinStep(it[x \ {Last(x)}], ls[Last(x)])]
           fold == JoinFold(b, ls)
<1> SUFFICES \E f : /\ f[0] = b /\ \A k \in 1 .. n : f[k] = JoinStep(f[k - 1], ls[k])
                    /\ fold = f[n]
  BY DEF JoinRun
<1>1. n \in Nat /\ DOMAIN ls = 1 .. n
  OBVIOUS
<1>2. step \in [St \X (1 .. n) -> St]
  <2>1. ASSUME NEW c \in St, NEW k \in 1 .. n PROVE JoinStep(c, ls[k]) \in St
    <3>1. ls[k] \in Seq(X) /\ <<"nl">> \in Seq(X)
      OBVIOUS
    <3> QED BY <3>1 DEF JoinStep
  <2> HIDE DEF St
  <2> QED BY <2>1
<1>3. PICK it : Folds(it, n, St, b, step)
  <2>1. b \in St
    OBVIOUS
  <2> HIDE DEF St, step
  <2> QED BY <1>1, <1>2, <2>1, FoldRuns
<1>4. \A x \in SUBSET (1 .. n) :
        it[x] = IF x = {} THEN b ELSE JoinStep(it[x \ {Last(x)}], ls[Last(x)])
  <2>1. ASSUME NEW x \in SUBSET (1 .. n), x # {}
        PROVE  <<it[x \ {Last(x)}], Last(x)>> \in St \X (1 .. n)
    <3>1. Last(x) \in 1 .. n
      BY <1>1, <2>1, LastIn
    <3> HIDE DEF St
    <3> QED BY <1>3, <3>1 DEF Folds
  <2>2. \A c \in St, k \in 1 .. n : step[<<c, k>>] = JoinStep(c, ls[k])
    OBVIOUS
  <2> HIDE DEF St, step
  <2> QED BY <1>3, <2>1, <2>2 DEF Folds
<1>5. \E i : Runs(i)
  <2> DEFINE i == [x \in SUBSET (1 .. n) |-> it[x]]
  <2>1. \A x \in SUBSET (1 .. n) : x # {} => x \ {Last(x)} \in SUBSET (1 .. n)
    OBVIOUS
  <2>2. Runs(i)
    BY <1>4, <2>1
  <2> QED BY <2>2
<1>6. fold = (CHOOSE i : Runs(i))[1 .. n]
  BY <1>1 DEF JoinFold, Text!FoldLeft, Text!MapThenFoldSet, Text!Max, Last, JoinStep
<1>7. PICK i : Runs(i) /\ i[1 .. n] = (CHOOSE j : Runs(j))[1 .. n]
  BY <1>5
<1> DEFINE f == [k \in 0 .. n |-> i[1 .. k]]
<1>8. f[0] = b
  <2>1. 1 .. 0 = {}
    OBVIOUS
  <2> QED BY <1>1, <1>7, <2>1
<1>9. ASSUME NEW k \in 1 .. n PROVE f[k] = JoinStep(f[k - 1], ls[k])
  <2>1. i[1 .. k] = JoinStep(i[1 .. (k - 1)], ls[k])
    BY <1>1, <1>7, FirstIndices
  <2> QED BY <1>1, <2>1
<1>10. f[n] = i[1 .. n]
  BY <1>1
<1>11. fold = f[n]
  BY <1>6, <1>7, <1>10
<1> HIDE DEF f, fold
<1> QED BY <1>8, <1>9, <1>11

LEMMA JoinFoldSnoc ==
  ASSUME NEW X, "nl" \in X, NEW b \in Seq(X), NEW ls \in Seq(Seq(X)), NEW l \in Seq(X)
  PROVE  JoinFold(b, Append(ls, l)) = JoinStep(JoinFold(b, ls), l)
<1> DEFINE n == Len(ls)  a == Append(ls, l)
<1>1. n \in Nat /\ a \in Seq(Seq(X)) /\ Len(a) = n + 1 /\ a[n + 1] = l
      /\ \A k \in 1 .. n : a[k] = ls[k]
  OBVIOUS
<1>2. PICK f : JoinRun(f, b, ls)
  BY JoinFolds
<1> HIDE DEF a
<1>3. PICK g : JoinRun(g, b, a)
  BY <1>1, JoinFolds
<1> DEFINE Good == {k \in Nat : k <= n => f[k] = g[k]}
<1>4. f[0] = b /\ \A k \in 1 .. n : f[k] = JoinStep(f[k - 1], ls[k])
  BY <1>2 DEF JoinRun
<1>5. g[0] = b /\ \A k \in 1 .. n + 1 : g[k] = JoinStep(g[k - 1], a[k])
  BY <1>1, <1>3 DEF JoinRun
<1>6. ASSUME NEW k \in Nat, k \in Good PROVE k + 1 \in Good
  <2> SUFFICES ASSUME k + 1 <= n PROVE f[k + 1] = g[k + 1]
    OBVIOUS
  <2>1. f[k] = g[k] /\ k + 1 \in 1 .. n /\ k + 1 \in 1 .. n + 1 /\ (k + 1) - 1 = k
    BY <1>1, <1>6
  <2> HIDE DEF n
  <2> QED BY <1>1, <1>4, <1>5, <2>1
<1>7. 0 \in Good
  BY <1>4, <1>5
<1> HIDE DEF Good
<1>8. n \in Good
  BY <1>1, <1>6, <1>7, NatsReached
<1>9. f[n] = g[n]
  BY <1>1, <1>8 DEF Good
<1>10. g[n + 1] = JoinStep(g[n], l)
  <2>1. n + 1 \in 1 .. n + 1 /\ (n + 1) - 1 = n
    BY <1>1
  <2> HIDE DEF n
  <2> QED BY <1>1, <1>5, <2>1
<1>11. JoinFold(b, ls) = f[n] /\ JoinFold(b, a) = g[n + 1]
  BY <1>1, <1>2, <1>3 DEF JoinRun
<1> QED BY <1>9, <1>10, <1>11 DEF a

LEMMA JoinIs ==
  \A ls : Text!JoinLines(ls) = IF ls = <<>> THEN <<>> ELSE JoinFold(Head(ls), Tail(ls))
BY Zenon DEF Text!JoinLines, JoinFold

LEMMA JoinSnoc ==
  ASSUME NEW X, "nl" \in X, NEW ls \in Seq(Seq(X)), NEW l \in Seq(X)
  PROVE  Text!JoinLines(Append(ls, l))
         = IF ls = <<>> THEN l ELSE JoinStep(Text!JoinLines(ls), l)
<1> DEFINE a == Append(ls, l)
<1>1. CASE ls = <<>>
  <2>1. a # <<>> /\ Head(a) = l /\ Tail(a) = <<>>
    BY <1>1
  <2>2. PICK f : JoinRun(f, l, <<>>)
    <3>1. <<>> \in Seq(Seq(X))
      OBVIOUS
    <3> QED BY <3>1, JoinFolds
  <2>3. JoinFold(l, <<>>) = l
    BY <2>2 DEF JoinRun
  <2> HIDE DEF a
  <2> QED BY <1>1, <2>1, <2>3, JoinIs DEF a
<1>2. CASE ls # <<>>
  <2> DEFINE h == Head(ls)  ts == Tail(ls)
  <2>1. h \in Seq(X) /\ ts \in Seq(Seq(X))
    BY <1>2
  <2>2. a # <<>> /\ Head(a) = h
    BY <1>2
  <2>3. Tail(a) = Append(ts, l)
    BY <1>2
  <2> HIDE DEF a, h, ts
  <2>4. JoinFold(h, Append(ts, l)) = JoinStep(JoinFold(h, ts), l)
    BY <2>1, JoinFoldSnoc
  <2>5. Text!JoinLines(ls) = JoinFold(h, ts)
    BY <1>2, JoinIs DEF h, ts
  <2> QED BY <1>2, <2>2, <2>3, <2>4, <2>5, JoinIs DEF a
<1> QED BY <1>1, <1>2

LEMMA JoinNone == Text!JoinLines(<<>>) = <<>>
BY JoinIs

-----------------------------------------------------------------------------
(* Descriptions: what a text has of some tokens, and what a cut line has.    *)

(* The tokens W of a text: a homomorphism from texts.                        *)
OnlyIn(s, W) == EntriesAt(s, {i \in DOMAIN s : s[i] \in W})

LEMMA OnlySeq ==
  ASSUME NEW X, NEW s \in Seq(X), NEW W
  PROVE  OnlyIn(s, W) \in Seq(X)
<1>1. {i \in DOMAIN s : s[i] \in W} \subseteq DOMAIN s
  OBVIOUS
<1> QED BY <1>1, EntriesKept DEF OnlyIn

LEMMA OnlySnoc ==
  ASSUME NEW X, NEW s \in Seq(X), NEW t \in X, NEW W
  PROVE  OnlyIn(Append(s, t), W)
         = IF t \in W THEN Append(OnlyIn(s, W), t) ELSE OnlyIn(s, W)
<1> DEFINE a == Append(s, t)
           m == Len(s) + 1
           K == {i \in DOMAIN s : s[i] \in W}
           J == {i \in DOMAIN a : a[i] \in W}
<1>1. DOMAIN s = 1 .. Len(s) /\ Len(s) \in Nat /\ DOMAIN a = 1 .. m /\ a[m] = t
      /\ \A i \in 1 .. Len(s) : a[i] = s[i]
  OBVIOUS
<1>2. J \subseteq 1 .. m
  BY <1>1
<1>3. m \in J <=> t \in W
  BY <1>1
<1>4. t \in W => J \ {m} = K
  BY <1>1
<1>5. t \notin W => J = K
  BY <1>1
<1>6. EntriesAt(a, J) = IF m \in J THEN Append(EntriesAt(s, J \ {m}), t) ELSE EntriesAt(s, J)
  <2> HIDE DEF J
  <2>1. EntriesMore(s, t, J)
    BY <1>2, EntriesSnoc
  <2> QED BY <2>1 DEF EntriesMore
<1> HIDE DEF J, K
<1>7. EntriesAt(a, J) = IF t \in W THEN Append(EntriesAt(s, K), t) ELSE EntriesAt(s, K)
  BY <1>3, <1>4, <1>5, <1>6
<1> QED BY <1>7 DEF J, K, OnlyIn

LEMMA OnlyNone == \A W : OnlyIn(<<>>, W) = <<>>
<1>1. \A W : {i \in DOMAIN <<>> : <<>>[i] \in W} = {}
  OBVIOUS
<1> QED BY <1>1, NoEntries DEF OnlyIn

LEMMA SeqsEqual ==
  ASSUME NEW X, NEW i \in Seq(X), NEW j \in Seq(X), Len(i) = Len(j),
         \A k \in 1 .. Len(i) : i[k] = j[k]
  PROVE  i = j
<1>1. Len(i) \in Nat /\ i \in [1 .. Len(i) -> X] /\ j \in [1 .. Len(i) -> X]
  OBVIOUS
<1> QED BY <1>1

\* Wrapped, for the prover to match the equation.
AppendedLast(i, j, t) == Append(i \o j, t) = i \o Append(j, t)

LEMMA AppendOver ==
  ASSUME NEW X, NEW i \in Seq(X), NEW j \in Seq(X), NEW t \in X
  PROVE  AppendedLast(i, j, t)
<1> DEFINE p == Append(i \o j, t)  q == i \o Append(j, t)  m == Len(i)  n == Len(j)
<1>1. m \in Nat /\ n \in Nat /\ p \in Seq(X) /\ q \in Seq(X)
  OBVIOUS
<1>2. Len(p) = m + n + 1 /\ Len(q) = m + n + 1
  OBVIOUS
<1>3. ASSUME NEW k \in 1 .. m + n + 1 PROVE p[k] = q[k]
  <2>1. CASE k <= m
    BY <2>1
  <2>2. CASE m < k /\ k <= m + n
    BY <2>2
  <2>3. CASE k = m + n + 1
    BY <2>3
  <2> QED BY <1>1, <2>1, <2>2, <2>3
<1> HIDE DEF p, q, m, n
<1>4. p = q
  BY <1>1, <1>2, <1>3, SeqsEqual
<1> QED BY <1>4 DEF p, q, AppendedLast

LEMMA OnlyConcat ==
  ASSUME NEW X, NEW s \in Seq(X), NEW r \in Seq(X), NEW W
  PROVE  OnlyIn(s \o r, W) = OnlyIn(s, W) \o OnlyIn(r, W)
<1> DEFINE T == {z \in Seq(X) : OnlyIn(s \o z, W) = OnlyIn(s, W) \o OnlyIn(z, W)}
<1>1. <<>> \in T
  <2>1. s \o <<>> = s /\ OnlyIn(s, W) \in Seq(X)
    BY OnlySeq
  <2>2. OnlyIn(s, W) \o <<>> = OnlyIn(s, W)
    BY <2>1
  <2> QED BY <2>1, <2>2, OnlyNone
<1>2. ASSUME NEW z \in Seq(X), z \in T, NEW t \in X PROVE Append(z, t) \in T
  <2> DEFINE a == s \o z  b == Append(z, t)
  <2>1. s \o b = Append(a, t) /\ a \in Seq(X) /\ b \in Seq(X)
    OBVIOUS
  <2>2. OnlyIn(a, W) = OnlyIn(s, W) \o OnlyIn(z, W)
    BY <1>2
  <2>3. OnlyIn(s, W) \in Seq(X) /\ OnlyIn(z, W) \in Seq(X)
    BY OnlySeq
  <2>4. OnlyIn(b, W) = IF t \in W THEN Append(OnlyIn(z, W), t) ELSE OnlyIn(z, W)
    BY OnlySnoc
  <2> HIDE DEF a, b
  <2>5. OnlyIn(s \o b, W) = IF t \in W THEN Append(OnlyIn(a, W), t) ELSE OnlyIn(a, W)
    BY <2>1, OnlySnoc
  <2> DEFINE u == OnlyIn(s, W)  v == OnlyIn(z, W)
  <2>6. Append(u \o v, t) = u \o Append(v, t)
    <3>1. u \in Seq(X) /\ v \in Seq(X)
      BY <2>3
    <3>2. t \in X
      OBVIOUS
    <3> HIDE DEF u, v
    <3>3. AppendedLast(u, v, t)
      BY <3>1, <3>2, AppendOver
    <3> QED BY <3>3 DEF AppendedLast
  <2>7. OnlyIn(s \o b, W) = OnlyIn(s, W) \o OnlyIn(b, W)
    BY <2>2, <2>4, <2>5, <2>6
  <2> QED BY <2>1, <2>7 DEF b
<1> HIDE DEF T
<1>3. r \in T
  BY <1>1, <1>2, SeqsReached
<1> QED BY <1>3 DEF T

LEMMA OnlyJoin ==
  ASSUME NEW X, "nl" \in X, NEW s \in Seq(X), NEW l \in Seq(X), NEW W, "nl" \notin W
  PROVE  OnlyIn(JoinStep(s, l), W) = OnlyIn(s, W) \o OnlyIn(l, W)
<1>1. Append(s, "nl") \in Seq(X) /\ JoinStep(s, l) = Append(s, "nl") \o l
  BY DEF JoinStep
<1>2. OnlyIn(Append(s, "nl"), W) = OnlyIn(s, W)
  BY OnlySnoc
<1> DEFINE a == Append(s, "nl")
<1> HIDE DEF a
<1>4. a \in Seq(X)
  BY <1>1 DEF a
<1>3. OnlyIn(a \o l, W) = OnlyIn(a, W) \o OnlyIn(l, W)
  BY <1>4, OnlyConcat
<1> QED BY <1>1, <1>2, <1>3 DEF a

LEMMA OnlyTwice ==
  ASSUME NEW X, NEW s \in Seq(X), NEW V, NEW W, W \subseteq V
  PROVE  OnlyIn(OnlyIn(s, V), W) = OnlyIn(s, W)
<1> DEFINE T == {z \in Seq(X) : OnlyIn(OnlyIn(z, V), W) = OnlyIn(z, W)}
<1>1. <<>> \in T
  BY OnlyNone
<1>2. ASSUME NEW z \in Seq(X), z \in T, NEW t \in X PROVE Append(z, t) \in T
  <2> DEFINE b == Append(z, t)  v == OnlyIn(z, V)
  <2>1. b \in Seq(X) /\ v \in Seq(X)
    BY OnlySeq
  <2>2. OnlyIn(b, V) = IF t \in V THEN Append(v, t) ELSE v
    BY OnlySnoc
  <2>3. OnlyIn(b, W) = IF t \in W THEN Append(OnlyIn(z, W), t) ELSE OnlyIn(z, W)
    BY OnlySnoc
  <2>4. OnlyIn(v, W) = OnlyIn(z, W)
    BY <1>2
  <2> HIDE DEF b, v
  <2>5. OnlyIn(Append(v, t), W) = IF t \in W THEN Append(OnlyIn(v, W), t) ELSE OnlyIn(v, W)
    BY <2>1, OnlySnoc
  <2>6. OnlyIn(OnlyIn(b, V), W) = OnlyIn(b, W)
    BY <2>2, <2>3, <2>4, <2>5
  <2> QED BY <2>1, <2>6 DEF b
<1> HIDE DEF T
<1>3. s \in T
  BY <1>1, <1>2, SeqsReached
<1> QED BY <1>3 DEF T

-----------------------------------------------------------------------------
(* Where a line is cut, and what remains of it.                              *)
Before(l) == {i \in DOMAIN l : \A j \in 1 .. i : l[j] # "ref"}

LEMMA StripIs ==
  ASSUME NEW l
  PROVE  Text!StripLine(l) = IF Before(l) = DOMAIN l THEN l
                             ELSE EntriesAt(l, {i \in Before(l) : l[i] # "br"})
BY SameTextEntries, Zenon DEF Text!StripLine, Before

LEMMA StripTypes ==
  ASSUME NEW X, NEW l \in Seq(X)
  PROVE  /\ Text!StripLine(l) \in Seq(X)
         /\ \A i \in DOMAIN Text!StripLine(l) : Text!StripLine(l)[i] # "ref"
<1> DEFINE K == {i \in Before(l) : l[i] # "br"}
<1>1. DOMAIN l = 1 .. Len(l) /\ Len(l) \in Nat
  OBVIOUS
<1>2. \A i \in Before(l) : i \in DOMAIN l /\ l[i] # "ref"
  BY <1>1 DEF Before
<1>3. CASE Before(l) = DOMAIN l
  BY <1>2, <1>3, StripIs
<1>4. CASE Before(l) # DOMAIN l
  <2> DEFINE e == EntriesAt(l, K)
  <2>1. K \subseteq DOMAIN l /\ \A k \in K : l[k] # "ref"
    BY <1>2
  <2> HIDE DEF K
  <2>2. /\ e \in Seq(X) /\ Len(e) = Cardinality(K)
        /\ \A n \in 1 .. Cardinality(K) : Nth(K, n) \in K /\ e[n] = l[Nth(K, n)]
    BY <2>1, EntriesKept
  <2> HIDE DEF e
  <2>3. \A n \in DOMAIN e : e[n] # "ref"
    BY <2>1, <2>2
  <2>4. Text!StripLine(l) = e
    BY <1>4, StripIs DEF e, K
  <2> QED BY <2>2, <2>3, <2>4
<1> QED BY <1>3, <1>4

HasRef(l) == \E j \in DOMAIN l : l[j] = "ref"

LEMMA BeforeAll ==
  ASSUME NEW X, NEW l \in Seq(X)
  PROVE  Before(l) = DOMAIN l <=> ~ HasRef(l)
<1>1. DOMAIN l = 1 .. Len(l) /\ Len(l) \in Nat
  OBVIOUS
<1>2. ASSUME HasRef(l) PROVE Before(l) # DOMAIN l
  <2>1. PICK j \in DOMAIN l : l[j] = "ref"
    BY <1>2 DEF HasRef
  <2>2. j \in 1 .. j
    BY <1>1, <2>1
  <2>3. j \notin Before(l)
    BY <2>1, <2>2 DEF Before
  <2> QED BY <2>1, <2>3
<1>3. ASSUME ~ HasRef(l) PROVE Before(l) = DOMAIN l
  <2>1. ASSUME NEW i \in DOMAIN l, NEW j \in 1 .. i PROVE l[j] # "ref"
    <3>1. j \in DOMAIN l
      BY <1>1
    <3> QED BY <1>3, <3>1 DEF HasRef
  <2> QED BY <2>1 DEF Before
<1> QED BY <1>2, <1>3

\* What of W is left of a line.
Remains(l, W) == OnlyIn(Text!StripLine(l), W)

LEMMA StripSnoc ==
  ASSUME NEW X, NEW l \in Seq(X), NEW t \in X, NEW W, {"br", "ref"} \cap W = {}
  PROVE  /\ Remains(Append(l, t), W)
            = IF HasRef(l) \/ t \notin W THEN Remains(l, W) ELSE Append(Remains(l, W), t)
         /\ HasRef(Append(l, t)) <=> HasRef(l) \/ t = "ref"
<1> DEFINE a == Append(l, t)  n == Len(l)
<1>1. /\ n \in Nat /\ a \in Seq(X) /\ Len(a) = n + 1 /\ a[n + 1] = t
      /\ DOMAIN l = 1 .. n /\ DOMAIN a = 1 .. n + 1
      /\ \A i \in 1 .. n : a[i] = l[i]
  OBVIOUS
<1> HIDE DEF a, n
<1>2. HasRef(a) <=> HasRef(l) \/ t = "ref"
  BY <1>1 DEF HasRef
<1>3. CASE HasRef(l)
  <2>1. PICK r \in 1 .. n : l[r] = "ref"
    BY <1>1, <1>3 DEF HasRef
  <2>2. n + 1 \notin Before(a)
    BY <1>1, <2>1 DEF Before
  <2>3. Before(a) = Before(l)
    BY <1>1, <2>2 DEF Before
  <2>4. Text!StripLine(a) = Text!StripLine(l)
    <3> DEFINE K == {i \in Before(l) : l[i] # "br"}
               J == {i \in Before(a) : a[i] # "br"}
    <3>1. J = K /\ K \subseteq 1 .. n
      BY <1>1, <2>3 DEF Before
    <3>2. K \subseteq Int /\ IsFiniteSet(K) /\ \A k \in K : a[k] = l[k]
      <4>1. IsFiniteSet(1 .. n)
        BY <1>1, FS_Interval
      <4>2. K \in SUBSET (1 .. n) /\ K \subseteq Int
        BY <1>1, <3>1
      <4> HIDE DEF K
      <4>3. IsFiniteSet(K)
        BY <4>1, <4>2, FS_Subset
      <4>4. \A k \in K : a[k] = l[k]
        BY <1>1, <3>1
      <4> QED BY <4>2, <4>3, <4>4
    <3>3. Text!StripLine(l) = EntriesAt(l, K)
      BY <1>1, <1>3, BeforeAll, StripIs
    <3>4. Text!StripLine(a) = EntriesAt(a, J)
      BY <1>1, <1>2, <1>3, BeforeAll, StripIs
    <3> HIDE DEF K, J
    <3> QED BY <3>1, <3>2, <3>3, <3>4, EntriesAgree
  <2> QED BY <1>2, <1>3, <2>4 DEF a, Remains
<1>4. CASE ~ HasRef(l) /\ t # "ref"
  <2>1. Text!StripLine(a) = a /\ Text!StripLine(l) = l
    BY <1>1, <1>2, <1>4, BeforeAll, StripIs
  <2>2. OnlyIn(a, W) = IF t \in W THEN Append(OnlyIn(l, W), t) ELSE OnlyIn(l, W)
    BY OnlySnoc DEF a
  <2> QED BY <1>2, <1>4, <2>1, <2>2 DEF a, Remains
<1>5. CASE ~ HasRef(l) /\ t = "ref"
  <2> DEFINE V == X \ {"br"}
             K == {i \in Before(a) : a[i] # "br"}
             J == {i \in DOMAIN l : l[i] \in V}
  <2>1. n + 1 \notin Before(a) /\ Before(l) = 1 .. n
    BY <1>1, <1>5, BeforeAll DEF Before
  <2>2. Before(a) = 1 .. n
    <3>1. \A i \in 1 .. n : i \in Before(l) /\ i \in DOMAIN a
      BY <1>1, <2>1
    <3>2. \A i \in 1 .. n : \A j \in 1 .. i : l[j] # "ref" /\ a[j] = l[j]
      BY <1>1, <3>1 DEF Before
    <3> QED BY <1>1, <2>1, <3>1, <3>2 DEF Before
  <2>3. K = J /\ J \subseteq 1 .. n
    <3>1. \A i \in 1 .. n : l[i] \in X /\ a[i] = l[i]
      BY <1>1
    <3> QED BY <1>1, <2>2, <3>1
  <2>4. Text!StripLine(a) = EntriesAt(a, K)
    BY <1>1, <1>2, <1>5, BeforeAll, StripIs
  <2>5. K \subseteq Int /\ IsFiniteSet(K) /\ \A k \in K : a[k] = l[k]
    <3>1. IsFiniteSet(1 .. n)
      BY <1>1, FS_Interval
    <3>2. K \in SUBSET (1 .. n) /\ K \subseteq Int
      BY <1>1, <2>3
    <3>3. \A k \in K : a[k] = l[k]
      BY <1>1, <2>3
    <3> HIDE DEF K, J
    <3> QED BY <3>1, <3>2, <3>3, FS_Subset
  <2>6. EntriesAt(a, K) = EntriesAt(l, K)
    <3> HIDE DEF K, J
    <3> QED BY <2>5, EntriesAgree
  <2>7. Text!StripLine(a) = OnlyIn(l, V)
    <3> HIDE DEF K
    <3> QED BY <2>3, <2>4, <2>6 DEF OnlyIn
  <2>8. OnlyIn(OnlyIn(l, V), W \cap X) = OnlyIn(l, W \cap X)
    <3>1. W \cap X \subseteq V
      OBVIOUS
    <3> QED BY <3>1, OnlyTwice
  <2>9. ASSUME NEW z \in Seq(X) PROVE OnlyIn(z, W \cap X) = OnlyIn(z, W)
    <3>1. {i \in DOMAIN z : z[i] \in W \cap X} = {i \in DOMAIN z : z[i] \in W}
      OBVIOUS
    <3> QED BY <3>1 DEF OnlyIn
  <2>10. OnlyIn(OnlyIn(l, V), W) = OnlyIn(l, W)
    BY <2>8, <2>9, OnlySeq
  <2>11. Text!StripLine(l) = l
    BY <1>1, <1>5, BeforeAll, StripIs
  <2> QED BY <1>2, <1>5, <2>7, <2>10, <2>11 DEF a, Remains
<1> QED BY <1>3, <1>4, <1>5

(* What lines say once they are cut: what each of them says, in order.       *)
Stripped(ls) == [i \in DOMAIN ls |-> Text!StripLine(ls[i])]
Says(ls, W) == OnlyIn(Text!JoinLines(Stripped(ls)), W)

LEMMA JoinTypes ==
  ASSUME NEW X, "nl" \in X, NEW ls \in Seq(Seq(X))
  PROVE  Text!JoinLines(ls) \in Seq(X)
<1> DEFINE T == {z \in Seq(Seq(X)) : Text!JoinLines(z) \in Seq(X)}
<1>1. <<>> \in T
  <2>1. <<>> \in Seq(Seq(X)) /\ <<>> \in Seq(X)
    OBVIOUS
  <2> QED BY <2>1, JoinNone
<1>2. ASSUME NEW z \in Seq(Seq(X)), z \in T, NEW l \in Seq(X) PROVE Append(z, l) \in T
  <2>1. Append(z, l) \in Seq(Seq(X))
    OBVIOUS
  <2>2. Text!JoinLines(z) \in Seq(X)
    BY <1>2
  <2>3. JoinStep(Text!JoinLines(z), l) \in Seq(X)
    <3> DEFINE j == Text!JoinLines(z)
    <3> HIDE DEF j
    <3>1. j \o <<"nl">> \in Seq(X)
      BY <2>2 DEF j
    <3> QED BY <3>1 DEF JoinStep, j
  <2>4. Text!JoinLines(Append(z, l)) \in Seq(X)
    BY <2>2, <2>3, JoinSnoc
  <2> QED BY <2>1, <2>4
<1> HIDE DEF T
<1>3. ls \in T
  BY <1>1, <1>2, SeqsReached
<1> QED BY <1>3 DEF T

LEMMA StrippedSnoc ==
  ASSUME NEW X, NEW ls \in Seq(Seq(X)), NEW l \in Seq(X)
  PROVE  /\ Stripped(Append(ls, l)) = Append(Stripped(ls), Text!StripLine(l))
         /\ Stripped(ls) \in Seq(Seq(X))
<1> DEFINE a == Append(ls, l)  n == Len(ls)  e == Stripped(ls)
<1>1. /\ n \in Nat /\ Len(a) = n + 1 /\ a[n + 1] = l
      /\ DOMAIN ls = 1 .. n /\ DOMAIN a = 1 .. n + 1
      /\ \A i \in 1 .. n : a[i] = ls[i] /\ ls[i] \in Seq(X)
  OBVIOUS
<1> HIDE DEF a, n
<1>2. \A i \in 1 .. n : Text!StripLine(ls[i]) \in Seq(X)
  BY <1>1, StripTypes
<1>3. e = [i \in 1 .. n |-> Text!StripLine(ls[i])]
  BY <1>1 DEF Stripped
<1>4. e \in Seq(Seq(X)) /\ Len(e) = n
  <2> HIDE DEF e
  <2> QED BY <1>1, <1>2, <1>3
<1>5. Stripped(a) = [i \in 1 .. n + 1 |-> Text!StripLine(a[i])]
  BY <1>1 DEF Stripped
<1> DEFINE u == Text!StripLine(l)
<1>6. \A i \in 1 .. n + 1 : Text!StripLine(a[i]) = IF i = n + 1 THEN u ELSE e[i]
  BY <1>1, <1>3
<1> HIDE DEF e, u
<1>7. Append(e, u) = [i \in 1 .. n + 1 |-> IF i = n + 1 THEN u ELSE e[i]]
  BY <1>1, <1>3, <1>4
<1> QED BY <1>4, <1>5, <1>6, <1>7 DEF a, e, u

LEMMA StrippedNone == Stripped(<<>>) = <<>>
BY DEF Stripped

LEMMA SaysNone == \A W : Says(<<>>, W) = <<>>
BY StrippedNone, JoinNone, OnlyNone DEF Says

SaysMore(ls, l, W) == Says(Append(ls, l), W) = Says(ls, W) \o Remains(l, W)

LEMMA SaysSnoc ==
  ASSUME NEW X, "nl" \in X, NEW ls \in Seq(Seq(X)), NEW l \in Seq(X), NEW W, "nl" \notin W
  PROVE  /\ SaysMore(ls, l, W)
         /\ Says(ls, W) \in Seq(X) /\ Remains(l, W) \in Seq(X)
<1> DEFINE e == Stripped(ls)  u == Text!StripLine(l)  j == Text!JoinLines(e)
<1>1. e \in Seq(Seq(X)) /\ Stripped(Append(ls, l)) = Append(e, u)
  BY StrippedSnoc
<1>2. u \in Seq(X)
  BY StripTypes
<1> HIDE DEF e, u
<1>3. j \in Seq(X)
  BY <1>1, JoinTypes
<1>4. Says(ls, W) = OnlyIn(j, W) /\ Remains(l, W) = OnlyIn(u, W)
  BY DEF Says, Remains, e, u
<1>5. OnlyIn(j, W) \in Seq(X) /\ OnlyIn(u, W) \in Seq(X)
  BY <1>2, <1>3, OnlySeq
<1>6. Says(Append(ls, l), W) = OnlyIn(Text!JoinLines(Append(e, u)), W)
  BY <1>1 DEF Says
<1>7. CASE e = <<>>
  <2>1. Says(Append(ls, l), W) = OnlyIn(u, W)
    BY <1>1, <1>2, <1>6, <1>7, JoinSnoc
  <2>2. OnlyIn(j, W) = <<>>
    BY <1>7, JoinNone, OnlyNone
  <2> DEFINE r == OnlyIn(u, W)
  <2> HIDE DEF r
  <2>3. <<>> \o r = r
    BY <1>5 DEF r
  <2> QED BY <1>4, <1>5, <2>1, <2>2, <2>3 DEF r, SaysMore
<1>8. CASE e # <<>>
  <2>1. Text!JoinLines(Append(e, u)) = JoinStep(j, u)
    BY <1>1, <1>2, <1>8, JoinSnoc
  <2> HIDE DEF j
  <2>2. OnlyIn(JoinStep(j, u), W) = OnlyIn(j, W) \o OnlyIn(u, W)
    BY <1>2, <1>3, OnlyJoin
  <2> QED BY <1>4, <1>5, <1>6, <2>1, <2>2 DEF SaysMore
<1> QED BY <1>7, <1>8

(* Lines that say nothing can be dropped.                                    *)
LEMMA SaysKept ==
  ASSUME NEW X, "nl" \in X, NEW ls \in Seq(Seq(X)), NEW W, "nl" \notin W,
         NEW K, K \subseteq DOMAIN ls, \A i \in DOMAIN ls \ K : Remains(ls[i], W) = <<>>
  PROVE  Says(EntriesAt(ls, K), W) = Says(ls, W)
<1> DEFINE Silent(z, J) == \A i \in DOMAIN z \ J : Remains(z[i], W) = <<>>
           T == {z \in Seq(Seq(X)) : \A J \in SUBSET DOMAIN z :
                   Silent(z, J) => Says(EntriesAt(z, J), W) = Says(z, W)}
<1>1. <<>> \in T
  <2>1. ASSUME NEW J \in SUBSET DOMAIN <<>> PROVE EntriesAt(<<>>, J) = <<>>
    <3>1. J = {}
      OBVIOUS
    <3> QED BY <3>1, NoEntries
  <2> QED BY <2>1
<1>2. ASSUME NEW z \in Seq(Seq(X)), z \in T, NEW l \in Seq(X) PROVE Append(z, l) \in T
  <2> DEFINE a == Append(z, l)  n == Len(z)
  <2>1. /\ n \in Nat /\ a \in Seq(Seq(X)) /\ Len(a) = n + 1 /\ a[n + 1] = l
        /\ DOMAIN z = 1 .. n /\ DOMAIN a = 1 .. n + 1
        /\ \A i \in 1 .. n : a[i] = z[i]
    OBVIOUS
  <2>2. ASSUME NEW J \in SUBSET DOMAIN a, Silent(a, J)
        PROVE  Says(EntriesAt(a, J), W) = Says(a, W)
    <3> DEFINE H == J \ {n + 1}  e == EntriesAt(z, H)
    <3>1. H \in SUBSET DOMAIN z /\ Silent(z, H)
      <4> HIDE DEF a, n
      <4> QED BY <2>1, <2>2
    <3>2. Says(e, W) = Says(z, W)
      BY <1>2, <3>1
    <3>3. e \in Seq(Seq(X))
      <4> HIDE DEF H
      <4> QED BY <3>1, EntriesKept
    <3>4. Says(a, W) = Says(z, W) \o Remains(l, W) /\ Says(z, W) \in Seq(X)
      <4>1. SaysMore(z, l, W) /\ Says(z, W) \in Seq(X)
        BY SaysSnoc
      <4> QED BY <4>1 DEF SaysMore
    <3>5. J \subseteq 1 .. n + 1
      BY <2>1
    <3>6. EntriesAt(a, J) = IF n + 1 \in J THEN Append(e, l) ELSE EntriesAt(z, J)
      <4>1. EntriesMore(z, l, J)
        BY <3>5, EntriesSnoc
      <4> QED BY <4>1 DEF EntriesMore
    <3>7. CASE n + 1 \in J
      <4>1. EntriesAt(a, J) = Append(e, l)
        BY <3>6, <3>7
      <4> HIDE DEF e, a
      <4>2. Says(Append(e, l), W) = Says(e, W) \o Remains(l, W)
        <5>1. SaysMore(e, l, W)
          BY <3>3, SaysSnoc
        <5> QED BY <5>1 DEF SaysMore
      <4> QED BY <3>2, <3>4, <4>1, <4>2
    <3>8. CASE n + 1 \notin J
      <4>1. H = J
        BY <3>8
      <4>2. EntriesAt(a, J) = e
        BY <3>6, <3>8, <4>1
      <4>3. Remains(l, W) = <<>>
        <5> HIDE DEF a, n
        <5>1. n + 1 \in DOMAIN a \ J
          BY <2>1, <3>8
        <5>2. Remains(a[n + 1], W) = <<>>
          BY <2>2, <5>1
        <5> QED BY <2>1, <5>2
      <4>4. Says(z, W) \o <<>> = Says(z, W)
        <5> DEFINE q == Says(z, W)
        <5> HIDE DEF q
        <5> QED BY <3>4 DEF q
      <4> HIDE DEF e, a
      <4> QED BY <3>2, <3>4, <4>2, <4>3, <4>4
    <3> QED BY <3>7, <3>8
  <2> QED BY <2>1, <2>2
<1> HIDE DEF T
<1>3. ls \in T
  BY <1>1, <1>2, SeqsReached
<1> QED BY <1>3 DEF T

LEMMA StepLast ==
  ASSUME NEW X, NEW pre \in Seq(Seq(X)), NEW q \in Seq(X), NEW t \in X, t # "nl"
  PROVE  LineStep(Append(pre, q), t) = Append(pre, Append(q, t))
<1> DEFINE a == Append(pre, q)  n == Len(pre)  w == Append(q, t)  b == Append(pre, w)
<1>1. w \in Seq(X)
  OBVIOUS
<1>2. /\ n \in Nat /\ Len(a) = n + 1 /\ a[n + 1] = q /\ a \in Seq(Seq(X))
      /\ \A i \in 1 .. n : a[i] = pre[i]
  OBVIOUS
<1>3. LineStep(a, t) = [a EXCEPT ![n + 1] = w]
  <2>1. LineStep(a, t) = [a EXCEPT ![Len(a)] = Append(@, t)]
    BY DEF LineStep
  <2> HIDE DEF a
  <2> QED BY <1>2, <2>1
<1> HIDE DEF w
<1>4. b \in Seq(Seq(X)) /\ Len(b) = n + 1 /\ b[n + 1] = w /\ \A i \in 1 .. n : b[i] = pre[i]
  BY <1>1
<1> DEFINE c == [a EXCEPT ![n + 1] = w]
<1>5. c \in Seq(Seq(X)) /\ Len(c) = n + 1 /\ \A i \in 1 .. n + 1 : c[i] = IF i = n + 1 THEN w ELSE a[i]
  <2> HIDE DEF a, n
  <2>1. a \in [1 .. n + 1 -> Seq(X)]
    BY <1>2
  <2>2. c \in [1 .. n + 1 -> Seq(X)]
    BY <1>1, <2>1
  <2>3. \A i \in 1 .. n + 1 : c[i] = IF i = n + 1 THEN w ELSE a[i]
    BY <2>1
  <2> HIDE DEF c
  <2> QED BY <1>2, <2>2, <2>3
<1> HIDE DEF a, b, c, n
<1>6. ASSUME NEW i \in 1 .. n + 1 PROVE c[i] = b[i]
  <2>1. CASE i = n + 1
    BY <1>4, <1>5, <2>1
  <2>2. CASE i # n + 1
    <3>1. i \in 1 .. n
      BY <1>2, <2>2
    <3>2. c[i] = a[i] /\ a[i] = pre[i]
      BY <1>2, <1>5, <2>2, <3>1
    <3>3. b[i] = pre[i]
      BY <1>4, <3>1
    <3> QED BY <3>2, <3>3
  <2> QED BY <2>1, <2>2
<1>7. c = b
  BY <1>4, <1>5, <1>6, SeqsEqual
<1> QED BY <1>3, <1>7 DEF a, b, c, w

LEMMA LinesTypes ==
  ASSUME NEW X, NEW s \in Seq(X \cup {"nl"})
  PROVE  Text!Lines(s) \in LineLists(X)
<1> DEFINE Y == X \cup {"nl"}
           T == {z \in Seq(Y) : Text!Lines(z) \in LineLists(X)}
<1>1. <<>> \in T
  <2>1. <<>> \in Seq(Y) /\ << <<>> >> \in Seq(Seq(X)) /\ << <<>> >> # <<>>
    OBVIOUS
  <2> QED BY <2>1, LinesNone DEF LineLists
<1>2. ASSUME NEW z \in Seq(Y), z \in T, NEW t \in Y PROVE Append(z, t) \in T
  <2>1. Append(z, t) \in Seq(Y) /\ Text!Lines(z) \in LineLists(X)
    BY <1>2
  <2>2. Text!Lines(Append(z, t)) = LineStep(Text!Lines(z), t)
    BY LinesSnoc
  <2>3. LineStep(Text!Lines(z), t) \in LineLists(X)
    BY <2>1, LineSteps
  <2> QED BY <2>1, <2>2, <2>3
<1> HIDE DEF T, Y
<1>3. s \in Seq(Y)
  BY DEF Y
<1>4. s \in T
  BY <1>1, <1>2, <1>3, SeqsReached
<1> QED BY <1>4 DEF T

LEMMA LinesOver ==
  ASSUME NEW X, "nl" \notin X, NEW s \in Seq(X \cup {"nl"}), NEW pre \in Seq(Seq(X)), NEW q \in Seq(X),
         Text!Lines(s) = Append(pre, q), NEW l \in Seq(X)
  PROVE  Text!Lines(s \o l) = Append(pre, q \o l)
<1> DEFINE Y == X \cup {"nl"}
           T == {z \in Seq(X) : Text!Lines(s \o z) = Append(pre, q \o z)}
<1>1. <<>> \in T
  <2>1. s \o <<>> = s /\ q \o <<>> = q /\ <<>> \in Seq(X)
    OBVIOUS
  <2> QED BY <2>1
<1>2. ASSUME NEW z \in Seq(X), z \in T, NEW t \in X PROVE Append(z, t) \in T
  <2> DEFINE a == s \o z  w == q \o z  b == Append(z, t)
  <2>1. b \in Seq(X) /\ a \in Seq(Y) /\ w \in Seq(X) /\ z \in Seq(Y) /\ t \in Y /\ t # "nl"
    OBVIOUS
  <2>2. Text!Lines(a) = Append(pre, w)
    BY <1>2
  <2>3. AppendedLast(s, z, t) /\ AppendedLast(q, z, t)
    <3>1. s \in Seq(Y)
      OBVIOUS
    <3> HIDE DEF Y
    <3> QED BY <2>1, <3>1, AppendOver
  <2>4. Append(a, t) = s \o b /\ Append(w, t) = q \o b
    BY <2>3 DEF AppendedLast
  <2> HIDE DEF a, b, w
  <2>5. Text!Lines(Append(a, t)) = LineStep(Text!Lines(a), t)
    BY <2>1, LinesSnoc
  <2>6. LineStep(Append(pre, w), t) = Append(pre, Append(w, t))
    BY <2>1, StepLast
  <2>7. Text!Lines(s \o b) = Append(pre, q \o b)
    BY <2>2, <2>4, <2>5, <2>6
  <2> QED BY <2>1, <2>7 DEF b
<1> HIDE DEF T
<1>3. l \in T
  BY <1>1, <1>2, SeqsReached
<1> QED BY <1>3 DEF T

(* Reading joined lines gives the lines back.                                *)
LEMMA LinesJoined ==
  ASSUME NEW X, "nl" \notin X, NEW ls \in Seq(Seq(X)), ls # <<>>
  PROVE  Text!Lines(Text!JoinLines(ls)) = ls
<1> DEFINE Y == X \cup {"nl"}
           T == {z \in Seq(Seq(X)) : z # <<>> => Text!Lines(Text!JoinLines(z)) = z}
<1>1. <<>> \in T
  OBVIOUS
<1>2. ASSUME NEW z \in Seq(Seq(X)), z \in T, NEW l \in Seq(X) PROVE Append(z, l) \in T
  <2> DEFINE j == Text!JoinLines(z)
  <2>1. Append(z, l) \in Seq(Seq(X)) /\ z \in Seq(Seq(Y)) /\ l \in Seq(Y) /\ "nl" \in Y
    OBVIOUS
  <2>2. j \in Seq(Y)
    <3> HIDE DEF Y
    <3> QED BY <2>1, JoinTypes
  <2>3. Text!JoinLines(Append(z, l)) = IF z = <<>> THEN l ELSE JoinStep(j, l)
    <3> HIDE DEF Y
    <3> QED BY <2>1, JoinSnoc
  <2> HIDE DEF j
  <2>4. CASE z = <<>>
    <3> DEFINE none == <<>>
    <3>1. none \in Seq(Y) /\ none \in Seq(Seq(X)) /\ none \in Seq(X)
      OBVIOUS
    <3>2. Append(none, none) = << none >>
      OBVIOUS
    <3>3. Text!Lines(none) = Append(none, none)
      BY <3>2, LinesNone
    <3>4. none \o l = l
      OBVIOUS
    <3> HIDE DEF none
    <3>5. Text!Lines(none \o l) = Append(none, none \o l)
      BY <3>1, <3>3, LinesOver
    <3>6. Text!Lines(l) = Append(none, l)
      BY <3>4, <3>5
    <3> QED BY <2>1, <2>3, <2>4, <3>6 DEF none
  <2>5. CASE z # <<>>
    <3> DEFINE a == Append(j, "nl")
    <3>1. Text!Lines(j) = z
      BY <1>2, <2>5 DEF j
    <3>2. Text!Lines(a) = LineStep(Text!Lines(j), "nl")
      BY <2>2, LinesSnoc
    <3>3. Text!Lines(a) = Append(z, <<>>)
      BY <3>1, <3>2 DEF LineStep
    <3>4. a \in Seq(Y) /\ <<>> \in Seq(X)
      BY <2>2
    <3>5. JoinStep(j, l) = a \o l
      BY <2>1, <2>2 DEF JoinStep
    <3> HIDE DEF a
    <3>6. Text!Lines(a \o l) = Append(z, <<>> \o l)
      BY <3>3, <3>4, LinesOver
    <3>7. <<>> \o l = l
      OBVIOUS
    <3>8. Text!Lines(JoinStep(j, l)) = Append(z, l)
      BY <3>5, <3>6, <3>7
    <3> QED BY <2>1, <2>3, <2>5, <3>8
  <2> QED BY <2>4, <2>5
<1> HIDE DEF T
<1>3. ls \in T
  BY <1>1, <1>2, SeqsReached
<1> QED BY <1>3 DEF T

-----------------------------------------------------------------------------
(* Descriptions: the body, followed through the text one token at a time.    *)

UpTo(K, n) == {i \in K : i <= n}
OneFurther(x, K, n) ==
  EntriesAt(x, UpTo(K, n + 1))
  = IF n + 1 \in K THEN Append(EntriesAt(x, UpTo(K, n)), x[n + 1]) ELSE EntriesAt(x, UpTo(K, n))

LEMMA OneUpTo ==
  ASSUME NEW x, NEW m \in Nat, NEW K, K \subseteq 1 .. m, NEW n \in Nat
  PROVE  OneFurther(x, K, n)
<1> DEFINE J == UpTo(K, n + 1)
<1>0. \A k \in K : k \in Int /\ k \in 1 .. m /\ (k <= n + 1 <=> k <= n \/ k = n + 1)
  OBVIOUS
<1>1. J \subseteq Int /\ IsFiniteSet(J) /\ \A k \in J : k <= n + 1
  <2>1. IsFiniteSet(1 .. m)
    BY FS_Interval
  <2>2. J \in SUBSET (1 .. m) /\ J \subseteq Int /\ \A k \in J : k <= n + 1
    BY <1>0 DEF UpTo
  <2> HIDE DEF J
  <2> QED BY <2>1, <2>2, FS_Subset
<1>2. CASE n + 1 \in K
  <2>1. n + 1 \in J
    BY <1>2 DEF UpTo
  <2>2. J \ {n + 1} = UpTo(K, n)
    <3>1. \A k \in K : k <= n => k # n + 1
      BY <1>0
    <3> QED BY <1>0, <3>1 DEF UpTo
  <2> HIDE DEF J
  <2>3. EntriesAt(x, J) = Append(EntriesAt(x, J \ {n + 1}), x[n + 1])
    BY <1>1, <2>1, EntriesLast
  <2> QED BY <1>2, <2>2, <2>3 DEF J, OneFurther
<1>3. CASE n + 1 \notin K
  <2>1. J = UpTo(K, n)
    <3>1. \A k \in K : k <= n + 1 <=> k <= n
      BY <1>0, <1>3
    <3> QED BY <3>1 DEF UpTo
  <2> QED BY <1>3, <2>1 DEF OneFurther
<1> QED BY <1>2, <1>3

(* Outside a script; and behind a reference on the line that n ends, where   *)
(* the line breaks of scripts are gone.                                      *)
Outside(x, i) == ~ Text!InScript(x, i)
Wanted(x) == {i \in DOMAIN x : Outside(x, i) /\ x[i] \notin Text!Unwanted}
Behind(x, n) ==
  \E r \in 1 .. n : x[r] = "ref" /\ Outside(x, r) /\ \A k \in r .. n : x[k] = "nl" => ~ Outside(x, k)
OwnIn(x, W) == {i \in DOMAIN x : x[i] \in W /\ Outside(x, i) /\ ~ Behind(x, i - 1)}

(* The lines that the text has up to n say the tokens W of it that are the   *)
(* author's, and the last of them holds a reference exactly if n is behind   *)
(* one.                                                                      *)
WrittenTo(x, X, W, n) ==
  \E pre \in Seq(Seq(X)), q \in Seq(X) :
    /\ Text!Lines(EntriesAt(x, UpTo(Wanted(x), n))) = Append(pre, q)
    /\ Says(Append(pre, q), W) = EntriesAt(x, UpTo(OwnIn(x, W), n))
    /\ HasRef(q) <=> Behind(x, n)

LEMMA BehindNext ==
  ASSUME NEW x, NEW n \in Nat
  PROVE  Behind(x, n + 1)
         <=> \/ x[n + 1] = "ref" /\ Outside(x, n + 1)
             \/ Behind(x, n) /\ ~ (x[n + 1] = "nl" /\ Outside(x, n + 1))
<1> DEFINE Cut(r, m) == \A k \in r .. m : x[k] = "nl" => ~ Outside(x, k)
<1>1. \A r \in 1 .. n : Cut(r, n + 1) <=> Cut(r, n) /\ ~ (x[n + 1] = "nl" /\ Outside(x, n + 1))
  <2> TAKE r \in 1 .. n
  <2>1. r .. n + 1 = (r .. n) \cup {n + 1}
    OBVIOUS
  <2> QED BY <2>1
<1>2. x[n + 1] = "ref" => Cut(n + 1, n + 1)
  <2>1. (n + 1) .. (n + 1) = {n + 1}
    OBVIOUS
  <2> QED BY <2>1
<1>3. 1 .. n + 1 = (1 .. n) \cup {n + 1}
  OBVIOUS
<1>4. Behind(x, n) <=> \E r \in 1 .. n : x[r] = "ref" /\ Outside(x, r) /\ Cut(r, n)
  BY DEF Behind
<1>5. Behind(x, n + 1) <=> \E r \in 1 .. n + 1 : x[r] = "ref" /\ Outside(x, r) /\ Cut(r, n + 1)
  BY DEF Behind
<1> HIDE DEF Cut
<1> QED BY <1>1, <1>2, <1>3, <1>4, <1>5

LEMMA RemainsNone == \A W : Remains(<<>>, W) = <<>>
<1>1. Before(<<>>) = DOMAIN <<>>
  BY DEF Before
<1>2. Text!StripLine(<<>>) = <<>>
  BY <1>1, StripIs
<1> QED BY <1>2, OnlyNone DEF Remains

LEMMA WrittenFirst ==
  ASSUME NEW X, NEW x \in Seq(X \cup {"nl"}), NEW W, "nl" \notin W
  PROVE  WrittenTo(x, X, W, 0)
<1> DEFINE none == <<>>
<1>1. none \in Seq(Seq(X)) /\ none \in Seq(X) /\ none \in Seq(Seq(X \cup {"nl"}))
      /\ none \in Seq(X \cup {"nl"}) /\ "nl" \in X \cup {"nl"}
  OBVIOUS
<1>2. UpTo(Wanted(x), 0) = {} /\ UpTo(OwnIn(x, W), 0) = {}
  BY DEF UpTo, Wanted, OwnIn
<1>3. Text!Lines(none) = Append(none, none) /\ none \o none = none
  <2>1. Append(none, none) = << none >>
    OBVIOUS
  <2> QED BY <2>1, LinesNone
<1>4. ~ HasRef(none) /\ ~ Behind(x, 0)
  BY DEF HasRef, Behind
<1>5. Says(none, W) = none /\ Remains(none, W) = none
  BY SaysNone, RemainsNone
<1>6. EntriesAt(x, {}) = none
  BY NoEntries
<1> HIDE DEF none
<1>7. SaysMore(none, none, W)
  BY <1>1, SaysSnoc
<1>8. Says(Append(none, none), W) = none
  BY <1>3, <1>5, <1>7 DEF SaysMore
<1> QED BY <1>1, <1>2, <1>3, <1>4, <1>6, <1>8 DEF WrittenTo

LEMMA WrittenNext ==
  ASSUME NEW X, "nl" \notin X, NEW x \in Seq(X \cup {"nl"}), NEW W,
         {"nl", "ref", "br"} \cap W = {}, Text!Unwanted \cap (W \cup {"nl", "ref"}) = {},
         NEW n \in Nat, n < Len(x), WrittenTo(x, X, W, n)
  PROVE  WrittenTo(x, X, W, n + 1)
<1> DEFINE Y == X \cup {"nl"}
           t == x[n + 1]
           k == EntriesAt(x, UpTo(Wanted(x), n))
           o == EntriesAt(x, UpTo(OwnIn(x, W), n))
           k1 == EntriesAt(x, UpTo(Wanted(x), n + 1))
           o1 == EntriesAt(x, UpTo(OwnIn(x, W), n + 1))
<1>1. /\ DOMAIN x = 1 .. Len(x) /\ Len(x) \in Nat /\ n + 1 \in DOMAIN x /\ t \in Y
      /\ (n + 1) - 1 = n
  OBVIOUS
<1>2. Wanted(x) \subseteq 1 .. Len(x) /\ OwnIn(x, W) \subseteq 1 .. Len(x)
  BY <1>1 DEF Wanted, OwnIn
<1>3. n + 1 \in Wanted(x) <=> Outside(x, n + 1) /\ t \notin Text!Unwanted
  BY <1>1 DEF Wanted
<1>4. n + 1 \in OwnIn(x, W) <=> t \in W /\ Outside(x, n + 1) /\ ~ Behind(x, n)
  BY <1>1 DEF OwnIn
<1>5. k1 = IF n + 1 \in Wanted(x) THEN Append(k, t) ELSE k
  <2>1. OneFurther(x, Wanted(x), n)
    BY <1>1, <1>2, OneUpTo
  <2> QED BY <2>1 DEF OneFurther
<1>6. o1 = IF n + 1 \in OwnIn(x, W) THEN Append(o, t) ELSE o
  <2>1. OneFurther(x, OwnIn(x, W), n)
    BY <1>1, <1>2, OneUpTo
  <2> QED BY <2>1 DEF OneFurther
<1>7. k \in Seq(Y) /\ o \in Seq(Y)
  <2>1. UpTo(Wanted(x), n) \subseteq DOMAIN x /\ UpTo(OwnIn(x, W), n) \subseteq DOMAIN x
    BY <1>1, <1>2 DEF UpTo
  <2> QED BY <2>1, EntriesKept
<1>8. PICK pre \in Seq(Seq(X)), q \in Seq(X) :
        /\ Text!Lines(k) = Append(pre, q) /\ Says(Append(pre, q), W) = o
        /\ HasRef(q) <=> Behind(x, n)
  BY DEF WrittenTo
<1>9. WrittenTo(x, X, W, n + 1) <=>
        \E p \in Seq(Seq(X)), r \in Seq(X) :
          /\ Text!Lines(k1) = Append(p, r) /\ Says(Append(p, r), W) = o1
          /\ HasRef(r) <=> Behind(x, n + 1)
  BY DEF WrittenTo
<1> HIDE DEF t, k, o, k1, o1
<1>10. Behind(x, n + 1) <=> \/ t = "ref" /\ Outside(x, n + 1)
                            \/ Behind(x, n) /\ ~ (t = "nl" /\ Outside(x, n + 1))
  BY BehindNext DEF t
<1>11. CASE n + 1 \notin Wanted(x)
  <2>1. k1 = k /\ o1 = o
    BY <1>3, <1>4, <1>5, <1>6, <1>11
  <2>2. Behind(x, n + 1) <=> Behind(x, n)
    BY <1>3, <1>10, <1>11
  <2> QED BY <1>8, <1>9, <2>1, <2>2
<1>12. CASE n + 1 \in Wanted(x) /\ t = "nl"
  <2> DEFINE p == Append(pre, q)  r == <<>>
  <2>1. k1 = Append(k, t) /\ o1 = o /\ ~ Behind(x, n + 1)
    BY <1>3, <1>4, <1>5, <1>6, <1>10, <1>12
  <2>2. Text!Lines(k1) = Append(p, r)
    <3>1. Text!Lines(Append(k, t)) = LineStep(Text!Lines(k), t)
      BY <1>1, <1>7, LinesSnoc
    <3> QED BY <1>8, <1>12, <2>1, <3>1 DEF LineStep
  <2>3. p \in Seq(Seq(X)) /\ r \in Seq(X) /\ ~ HasRef(r)
    BY DEF HasRef
  <2>4. Says(p, W) = o /\ Remains(r, W) = <<>>
    BY <1>8, RemainsNone
  <2>5. p \in Seq(Seq(Y)) /\ r \in Seq(Y) /\ "nl" \in Y /\ "nl" \notin W
    <3>1. pre \in Seq(Seq(Y)) /\ q \in Seq(Y)
      OBVIOUS
    <3> QED BY <3>1
  <2> HIDE DEF p, r, Y
  <2>6. SaysMore(p, r, W)
    BY <2>5, SaysSnoc
  <2>7. o \o <<>> = o
    BY <1>7
  <2>8. Says(Append(p, r), W) = o1
    BY <2>1, <2>4, <2>6, <2>7 DEF SaysMore
  <2> QED BY <1>9, <2>1, <2>2, <2>3, <2>8
<1>13. CASE n + 1 \in Wanted(x) /\ t # "nl"
  <2> DEFINE r == Append(q, t)
  <2>1. t \in X /\ r \in Seq(X) /\ k1 = Append(k, t)
    BY <1>1, <1>5, <1>13
  <2>2. Text!Lines(k1) = Append(pre, r)
    <3>1. Text!Lines(Append(k, t)) = LineStep(Text!Lines(k), t)
      BY <1>1, <1>7, LinesSnoc
    <3>2. LineStep(Append(pre, q), t) = Append(pre, r)
      BY <1>13, <2>1, StepLast
    <3> QED BY <1>8, <2>1, <3>1, <3>2
  <2>3. Remains(r, W) = IF HasRef(q) \/ t \notin W THEN Remains(q, W) ELSE Append(Remains(q, W), t)
    BY <2>1, StripSnoc
  <2>4. HasRef(r) <=> HasRef(q) \/ t = "ref"
    <3>1. {"br", "ref"} \cap W = {}
      OBVIOUS
    <3> QED BY <2>1, <3>1, StripSnoc, Zenon
  <2>5. pre \in Seq(Seq(Y)) /\ q \in Seq(Y) /\ r \in Seq(Y) /\ "nl" \in Y /\ t \in Y /\ "nl" \notin W
    BY <1>1
  <2> HIDE DEF r, Y
  <2>6. SaysMore(pre, q, W) /\ SaysMore(pre, r, W) /\ Says(pre, W) \in Seq(Y) /\ Remains(q, W) \in Seq(Y)
    BY <2>5, SaysSnoc
  <2> DEFINE u == Says(pre, W)  v == Remains(q, W)
  <2>7. o = u \o v
    BY <1>8, <2>6 DEF SaysMore
  <2>8. Append(o, t) = u \o Append(v, t)
    <3>1. u \in Seq(Y) /\ v \in Seq(Y)
      BY <2>6
    <3> HIDE DEF u, v
    <3>2. AppendedLast(u, v, t)
      BY <2>5, <3>1, AppendOver
    <3> QED BY <2>7, <3>2 DEF AppendedLast
  <2>9. Says(Append(pre, r), W) = o1
    <3>1. Says(Append(pre, r), W) = u \o Remains(r, W)
      BY <2>6 DEF SaysMore
    <3>2. CASE HasRef(q) \/ t \notin W
      BY <1>4, <1>6, <1>8, <2>3, <2>7, <3>1, <3>2
    <3>3. CASE ~ (HasRef(q) \/ t \notin W)
      BY <1>3, <1>4, <1>6, <1>8, <1>13, <2>3, <2>8, <3>1, <3>3
    <3> QED BY <3>2, <3>3
  <2>10. HasRef(r) <=> Behind(x, n + 1)
    BY <1>3, <1>8, <1>10, <1>13, <2>4
  <2> QED BY <1>9, <2>1, <2>2, <2>9, <2>10
<1> QED BY <1>11, <1>12, <1>13

LEMMA WrittenAll ==
  ASSUME NEW X, "nl" \notin X, NEW x \in Seq(X \cup {"nl"}), NEW W,
         {"nl", "ref", "br"} \cap W = {}, Text!Unwanted \cap (W \cup {"nl", "ref"}) = {}
  PROVE  WrittenTo(x, X, W, Len(x))
<1> DEFINE T == {n \in Nat : n <= Len(x) => WrittenTo(x, X, W, n)}
<1>1. 0 \in T
  BY WrittenFirst
<1>2. ASSUME NEW n \in Nat, n \in T PROVE n + 1 \in T
  <2> SUFFICES ASSUME n + 1 <= Len(x) PROVE WrittenTo(x, X, W, n + 1)
    OBVIOUS
  <2>1. Len(x) \in Nat
    OBVIOUS
  <2>2. n < Len(x) /\ n <= Len(x)
    BY <2>1
  <2>3. WrittenTo(x, X, W, n)
    BY <1>2, <2>2
  <2> QED BY <2>2, <2>3, WrittenNext
<1> HIDE DEF T
<1>3. Len(x) \in T
  BY <1>1, <1>2, NatsReached
<1> QED BY <1>3 DEF T

(* Removing blank lines only.                                                *)
FullOf(ls) == {i \in DOMAIN ls : ls[i] # <<>>}
Thinned(ms, ls) ==
  \E K : ms = EntriesAt(ls, K) /\ K \subseteq DOMAIN ls /\ FullOf(ls) \subseteq K

LEMMA ParagraphsKeep ==
  ASSUME NEW X, NEW ls \in Seq(X)
  PROVE  Thinned(Text!Paragraphs(ls), ls)
<1> DEFINE P == {i \in DOMAIN ls : \E j \in i - 2 .. i : j >= 1 => ls[j] # <<>>}
<1>1. Text!Paragraphs(ls) = EntriesAt(ls, P)
  BY SameTextEntries, Zenon DEF Text!Paragraphs
<1>2. FullOf(ls) \subseteq P
  <2> SUFFICES ASSUME NEW i \in DOMAIN ls, ls[i] # <<>> PROVE i \in P
    BY DEF FullOf
  <2>1. i \in i - 2 .. i
    OBVIOUS
  <2> QED BY <2>1
<1>3. P \subseteq DOMAIN ls
  OBVIOUS
<1> HIDE DEF P
<1> QED BY <1>1, <1>2, <1>3 DEF Thinned

LEMMA TrimmedKeeps ==
  ASSUME NEW X, NEW ls \in Seq(X)
  PROVE  Thinned(Text!Trimmed(ls), ls)
<1> DEFINE P == {i \in DOMAIN ls : \E a, b \in FullOf(ls) : a <= i /\ i <= b}
<1>1. Text!Trimmed(ls) = EntriesAt(ls, P)
  BY SameTextEntries, Zenon DEF Text!Trimmed, FullOf
<1>2. FullOf(ls) \subseteq P
  <2> SUFFICES ASSUME NEW i \in FullOf(ls) PROVE i \in P
    OBVIOUS
  <2>1. i \in DOMAIN ls /\ i <= i
    BY DEF FullOf
  <2> QED BY <2>1
<1>3. P \subseteq DOMAIN ls
  OBVIOUS
<1> HIDE DEF P
<1> QED BY <1>1, <1>2, <1>3 DEF Thinned

LEMMA ThinnedSays ==
  ASSUME NEW X, "nl" \in X, NEW ls \in Seq(Seq(X)), NEW W, "nl" \notin W, NEW ms, Thinned(ms, ls)
  PROVE  Says(ms, W) = Says(ls, W)
<1>1. PICK K : ms = EntriesAt(ls, K) /\ K \subseteq DOMAIN ls /\ FullOf(ls) \subseteq K
  BY DEF Thinned
<1>2. \A i \in DOMAIN ls \ K : Remains(ls[i], W) = <<>>
  <2> TAKE i \in DOMAIN ls \ K
  <2>1. ls[i] = <<>>
    BY <1>1 DEF FullOf
  <2> QED BY <2>1, RemainsNone
<1>3. Says(EntriesAt(ls, K), W) = Says(ls, W)
  BY <1>1, <1>2, SaysKept
<1> QED BY <1>1, <1>3

LEMMA ThinnedTypes ==
  ASSUME NEW X, NEW ls \in Seq(X), NEW ms, Thinned(ms, ls)
  PROVE  ms \in Seq(X)
<1>1. PICK K : ms = EntriesAt(ls, K) /\ K \subseteq DOMAIN ls
  BY DEF Thinned
<1> QED BY <1>1, EntriesKept

Tidy(x) == Text!Trimmed(Text!Paragraphs(Text!Lines(EntriesAt(x, Wanted(x)))))

LEMMA NormalizeIs ==
  ASSUME NEW x
  PROVE  Text!NormalizeDescription(x) = Text!JoinLines(Tidy(x))
BY SameTextEntries, Zenon DEF Text!NormalizeDescription, Tidy, Wanted, Outside

Clean(X) == X \ Text!Unwanted

LEMMA WantedTypes ==
  ASSUME NEW X, NEW x \in Seq(X \cup {"nl"})
  PROVE  /\ EntriesAt(x, Wanted(x)) \in Seq(Clean(X) \cup {"nl"})
         /\ EntriesAt(x, Wanted(x)) \in Seq(X \cup {"nl"})
<1> DEFINE K == Wanted(x)  e == EntriesAt(x, K)  c == Cardinality(K)  Y == X \cup {"nl"}
<1>1. K \subseteq DOMAIN x /\ \A k \in K : x[k] \in Clean(X) \cup {"nl"}
  BY DEF Wanted, Clean
<1> HIDE DEF K
<1>2. /\ e \in Seq(Y) /\ Len(e) = c
      /\ \A n \in 1 .. c : Nth(K, n) \in K /\ e[n] = x[Nth(K, n)]
  <2> HIDE DEF Y
  <2>1. x \in Seq(Y)
    BY DEF Y
  <2> QED BY <1>1, <2>1, EntriesKept
<1>3. c \in Nat /\ e = [n \in 1 .. c |-> e[n]]
  BY <1>2
<1> HIDE DEF e, c
<1>4. \A n \in 1 .. c : e[n] \in Clean(X) \cup {"nl"}
  BY <1>1, <1>2
<1>5. e \in Seq(Clean(X) \cup {"nl"})
  <2> DEFINE Z == Clean(X) \cup {"nl"}
  <2> HIDE DEF Z
  <2>1. e \in [1 .. c -> Z]
    BY <1>3, <1>4 DEF Z
  <2>2. e \in Seq(Z)
    BY <1>3, <2>1
  <2> QED BY <2>2 DEF Z
<1> QED BY <1>2, <1>5 DEF e, K

LEMMA TidyTypes ==
  ASSUME NEW X, NEW x \in Seq(X \cup {"nl"})
  PROVE  Tidy(x) \in Seq(Seq(Clean(X)))
<1> DEFINE k == EntriesAt(x, Wanted(x))  ls == Text!Lines(k)  ps == Text!Paragraphs(ls)
<1>1. k \in Seq(Clean(X) \cup {"nl"})
  BY WantedTypes
<1> HIDE DEF k
<1>2. ls \in Seq(Seq(Clean(X)))
  BY <1>1, LinesTypes DEF LineLists
<1> HIDE DEF ls
<1>3. ps \in Seq(Seq(Clean(X)))
  BY <1>2, ParagraphsKeep, ThinnedTypes
<1> HIDE DEF ps
<1>4. Text!Trimmed(ps) \in Seq(Seq(Clean(X)))
  BY <1>3, TrimmedKeeps, ThinnedTypes
<1> QED BY <1>4 DEF Tidy, ps, ls, k

LEMMA TidySays ==
  ASSUME NEW X, "nl" \notin X, NEW x \in Seq(X \cup {"nl"}), NEW W,
         {"nl", "ref", "br"} \cap W = {}, Text!Unwanted \cap (W \cup {"nl", "ref"}) = {}
  PROVE  Says(Tidy(x), W) = EntriesAt(x, OwnIn(x, W))
<1> DEFINE k == EntriesAt(x, Wanted(x))  ls == Text!Lines(k)  ps == Text!Paragraphs(ls)
           Y == X \cup {"nl"}  o == EntriesAt(x, OwnIn(x, W))
<1>1. UpTo(Wanted(x), Len(x)) = Wanted(x) /\ UpTo(OwnIn(x, W), Len(x)) = OwnIn(x, W)
  <2>1. \A i \in DOMAIN x : i <= Len(x)
    OBVIOUS
  <2> QED BY <2>1 DEF UpTo, Wanted, OwnIn
<1>2. WrittenTo(x, X, W, Len(x))
  BY WrittenAll
<1>3. \E pre \in Seq(Seq(X)), q \in Seq(X) :
        ls = Append(pre, q) /\ Says(Append(pre, q), W) = o
  BY <1>1, <1>2 DEF WrittenTo
<1>4. Says(ls, W) = o
  BY <1>3
<1>5. k \in Seq(Y)
  BY WantedTypes
<1> HIDE DEF k, o
<1>6. ls \in Seq(Seq(X))
  BY <1>5, LinesTypes DEF LineLists
<1> HIDE DEF ls
<1>7. ls \in Seq(Seq(Y)) /\ "nl" \in Y /\ "nl" \notin W
  BY <1>6
<1> HIDE DEF Y
<1>8. Thinned(ps, ls)
  BY <1>7, ParagraphsKeep
<1>9. ps \in Seq(Seq(Y)) /\ Says(ps, W) = o
  BY <1>4, <1>7, <1>8, ThinnedTypes, ThinnedSays
<1> HIDE DEF ps
<1>10. Thinned(Text!Trimmed(ps), ps)
  BY <1>9, TrimmedKeeps
<1>11. Says(Text!Trimmed(ps), W) = o
  BY <1>7, <1>9, <1>10, ThinnedSays
<1> QED BY <1>11 DEF Tidy, ps, ls, k, o

Unreferred(ls) ==
  {i \in DOMAIN ls : "ref" \notin Text!Range(ls[i]) \/ Text!StripLine(ls[i]) # <<>>}

LEMMA StripSourceIs ==
  ASSUME NEW s
  PROVE  Text!StripSourceReferences(s)
         = Text!JoinLines(Stripped(EntriesAt(Text!Lines(s), Unreferred(Text!Lines(s)))))
BY SameTextEntries, Zenon DEF Text!StripSourceReferences, Unreferred, Stripped

(* What a description's body has of the tokens W that no cleaning takes out. *)
LEMMA BodySays ==
  ASSUME NEW X, "nl" \notin X, NEW x \in Seq(X \cup {"nl"}), NEW W,
         {"nl", "ref", "br"} \cap W = {}, Text!Unwanted \cap (W \cup {"nl", "ref"}) = {}
  PROVE  OnlyIn(Text!Body(x), W) = EntriesAt(x, OwnIn(x, W))
<1> DEFINE m == Tidy(x)  s == Text!JoinLines(m)  ls == Text!Lines(s)  K == Unreferred(ls)
           e == EntriesAt(ls, K)  Y == X \cup {"nl"}  o == EntriesAt(x, OwnIn(x, W))
<1>1. m \in Seq(Seq(X)) /\ Says(m, W) = o
  <2>1. m \in Seq(Seq(Clean(X)))
    BY TidyTypes
  <2>2. m \in Seq(Seq(X))
    <3>1. Clean(X) \subseteq X
      BY DEF Clean
    <3>2. Seq(Seq(Clean(X))) \subseteq Seq(Seq(X))
      BY <3>1
    <3> HIDE DEF m
    <3> QED BY <2>1, <3>2
  <2> QED BY <2>2, TidySays
<1> HIDE DEF m, o
<1>2. Says(ls, W) = o /\ ls \in Seq(Seq(X))
  <2>1. CASE m = <<>>
    <3> DEFINE none == <<>>
    <3>1. ls = Append(none, none)
      <4>1. s = <<>>
        BY <2>1, JoinNone
      <4>2. ls = << <<>> >>
        BY <4>1, LinesNone
      <4> QED BY <4>2
    <3>2. none \in Seq(Seq(Y)) /\ none \in Seq(Y) /\ "nl" \in Y /\ "nl" \notin W /\ none \o none = none
      OBVIOUS
    <3>3. Append(none, none) \in Seq(Seq(X))
      OBVIOUS
    <3>4. Says(none, W) = none /\ Remains(none, W) = none /\ Says(m, W) = none
      BY <2>1, SaysNone, RemainsNone
    <3> HIDE DEF none, Y
    <3>5. SaysMore(none, none, W)
      BY <3>2, SaysSnoc
    <3>6. Says(Append(none, none), W) = none
      BY <3>2, <3>4, <3>5 DEF SaysMore
    <3> HIDE DEF ls
    <3> QED BY <1>1, <3>1, <3>3, <3>4, <3>6
  <2>2. CASE m # <<>>
    <3>1. ls = m
      BY <1>1, <2>2, LinesJoined
    <3> HIDE DEF ls
    <3> QED BY <1>1, <3>1
  <2> QED BY <2>1, <2>2
<1>3. Text!Body(x) = Text!JoinLines(Stripped(e))
  BY NormalizeIs, StripSourceIs DEF Text!Body, m
<1> HIDE DEF ls
<1>4. ls \in Seq(Seq(Y)) /\ "nl" \in Y /\ "nl" \notin W
  BY <1>2
<1>5. K \subseteq DOMAIN ls /\ \A i \in DOMAIN ls \ K : Remains(ls[i], W) = <<>>
  <2>1. K \subseteq DOMAIN ls
    BY DEF Unreferred
  <2> SUFFICES ASSUME NEW i \in DOMAIN ls \ K PROVE Remains(ls[i], W) = <<>>
    BY <2>1
  <2>2. Text!StripLine(ls[i]) = <<>>
    BY DEF Unreferred
  <2> QED BY <2>2, OnlyNone DEF Remains
<1> HIDE DEF K, Y
<1>6. Says(e, W) = Says(ls, W)
  BY <1>4, <1>5, SaysKept
<1> QED BY <1>2, <1>3, <1>6 DEF Says, o

LEMMA StrippedTypes ==
  ASSUME NEW X, NEW ls \in Seq(Seq(X))
  PROVE  Stripped(ls) \in Seq(Seq(X \ {"ref"}))
<1> DEFINE Y == X \ {"ref"}
<1>1. \A i \in DOMAIN ls : Text!StripLine(ls[i]) \in Seq(Y)
  <2> TAKE i \in DOMAIN ls
  <2> DEFINE t == Text!StripLine(ls[i])
  <2>1. ls[i] \in Seq(X)
    OBVIOUS
  <2>2. t \in Seq(X) /\ \A j \in DOMAIN t : t[j] # "ref"
    BY <2>1, StripTypes
  <2> HIDE DEF t
  <2>3. t = [j \in 1 .. Len(t) |-> t[j]] /\ Len(t) \in Nat /\ \A j \in 1 .. Len(t) : t[j] \in Y
    BY <2>2
  <2>4. t \in [1 .. Len(t) -> Y]
    <3> HIDE DEF Y
    <3> QED BY <2>3
  <2>5. t \in Seq(Y)
    <3> HIDE DEF Y
    <3> QED BY <2>3, <2>4
  <2> QED BY <2>5 DEF t
<1>2. Stripped(ls) \in [1 .. Len(ls) -> Seq(Y)] /\ Len(ls) \in Nat
  <2> HIDE DEF Y
  <2>1. DOMAIN ls = 1 .. Len(ls) /\ Len(ls) \in Nat
    OBVIOUS
  <2> QED BY <1>1, <2>1 DEF Stripped
<1> HIDE DEF Y
<1>3. Stripped(ls) \in Seq(Seq(Y))
  <2> DEFINE r == Stripped(ls)  n == Len(ls)
  <2>1. r \in [1 .. n -> Seq(Y)] /\ n \in Nat
    BY <1>2
  <2> HIDE DEF r, n
  <2>2. r \in Seq(Seq(Y))
    BY <2>1
  <2> QED BY <2>2 DEF r
<1> QED BY <1>3 DEF Y

(* No cleaned text holds what cleaning takes out, nor a reference.           *)
LEMMA BodyTypes ==
  ASSUME NEW X, "nl" \notin X, NEW x \in Seq(X \cup {"nl"})
  PROVE  Text!Body(x) \in Seq((Clean(X) \ {"ref"}) \cup {"nl"})
<1> DEFINE C == Clean(X)  m == Tidy(x)  s == Text!JoinLines(m)  ls == Text!Lines(s)
           K == Unreferred(ls)  e == EntriesAt(ls, K)
<1>1. m \in Seq(Seq(C)) /\ "nl" \notin C
  BY TidyTypes DEF Clean
<1> HIDE DEF C, m
<1>2. ls \in Seq(Seq(C))
  <2>1. CASE m = <<>>
    <3>1. s = <<>>
      BY <2>1, JoinNone
    <3>2. ls = << <<>> >>
      BY <3>1, LinesNone
    <3> QED BY <3>2
  <2>2. CASE m # <<>>
    <3>1. ls = m
      BY <1>1, <2>2, LinesJoined
    <3> HIDE DEF ls
    <3> QED BY <1>1, <3>1
  <2> QED BY <2>1, <2>2
<1>3. Text!Body(x) = Text!JoinLines(Stripped(e))
  BY NormalizeIs, StripSourceIs DEF Text!Body, m
<1> HIDE DEF ls
<1>4. K \subseteq DOMAIN ls
  BY DEF Unreferred
<1> HIDE DEF K
<1>5. e \in Seq(Seq(C))
  BY <1>2, <1>4, EntriesKept
<1> HIDE DEF e
<1> DEFINE D == C \ {"ref"}  E == D \cup {"nl"}
<1>6. Stripped(e) \in Seq(Seq(D))
  BY <1>5, StrippedTypes
<1> HIDE DEF D
<1>7. Stripped(e) \in Seq(Seq(E)) /\ "nl" \in E
  <2>1. Seq(Seq(D)) \subseteq Seq(Seq(E))
    <3>1. D \subseteq E
      OBVIOUS
    <3> HIDE DEF E
    <3> QED BY <3>1
  <2> QED BY <1>6, <2>1
<1> HIDE DEF E
<1>8. Text!JoinLines(Stripped(e)) \in Seq(E)
  BY <1>7, JoinTypes
<1> QED BY <1>3, <1>8 DEF E, D, C

(* Two entries in this order.                                                *)
InOrder(s, u, v) == \E a, c \in DOMAIN s : a < c /\ s[a] = u /\ s[c] = v

LEMMA OrderKept ==
  ASSUME NEW X, NEW s \in Seq(X), NEW W, NEW u \in W, NEW v \in W, InOrder(s, u, v)
  PROVE  InOrder(OnlyIn(s, W), u, v)
<1> DEFINE K == {i \in DOMAIN s : s[i] \in W}
<1>1. PICK a \in DOMAIN s, c \in DOMAIN s : a < c /\ s[a] = u /\ s[c] = v
  BY DEF InOrder
<1>2. K \subseteq Int /\ IsFiniteSet(K) /\ K \subseteq DOMAIN s
  <2>1. IsFiniteSet(1 .. Len(s)) /\ K \in SUBSET (1 .. Len(s))
    BY FS_Interval
  <2>2. K \subseteq Int /\ K \subseteq DOMAIN s
    OBVIOUS
  <2> HIDE DEF K
  <2> QED BY <2>1, <2>2, FS_Subset
<1>3. a \in K /\ c \in K
  BY <1>1
<1> HIDE DEF K
<1> DEFINE m == RankIn(K, a)  n == RankIn(K, c)  e == EntriesAt(s, K)
<1>4. m < n
  BY <1>1, <1>2, <1>3, RanksGrow
<1>5. m \in 1 .. Cardinality(K) /\ Nth(K, m) = a /\ n \in 1 .. Cardinality(K) /\ Nth(K, n) = c
  BY <1>2, <1>3, NthReaches
<1> HIDE DEF m, n
<1>6. Len(e) = Cardinality(K) /\ e[m] = s[a] /\ e[n] = s[c] /\ e \in Seq(X)
  BY <1>2, <1>5, EntriesKept
<1> HIDE DEF e
<1>7. InOrder(e, u, v)
  BY <1>1, <1>4, <1>5, <1>6 DEF InOrder
<1> QED BY <1>7 DEF e, K, OnlyIn

LEMMA OrderTaken ==
  ASSUME NEW X, NEW s \in Seq(X), NEW K, K \subseteq DOMAIN s, NEW u, NEW v,
         InOrder(EntriesAt(s, K), u, v)
  PROVE  \E a, c \in K : a < c /\ s[a] = u /\ s[c] = v
<1> DEFINE e == EntriesAt(s, K)
<1>1. K \subseteq Int /\ IsFiniteSet(K)
  <2>1. IsFiniteSet(1 .. Len(s)) /\ K \in SUBSET (1 .. Len(s))
    BY FS_Interval
  <2>2. K \subseteq Int
    OBVIOUS
  <2> QED BY <2>1, <2>2, FS_Subset
<1>2. e \in Seq(X) /\ Len(e) = Cardinality(K)
      /\ \A n \in 1 .. Cardinality(K) : Nth(K, n) \in K /\ e[n] = s[Nth(K, n)]
  BY EntriesKept
<1>3. PICK m \in DOMAIN e, n \in DOMAIN e : m < n /\ e[m] = u /\ e[n] = v
  BY DEF InOrder
<1> HIDE DEF e
<1>4. m \in 1 .. Cardinality(K) /\ n \in 1 .. Cardinality(K)
  BY <1>2
<1>5. Nth(K, m) < Nth(K, n)
  BY <1>1, <1>3, <1>4, NthGrows
<1> QED BY <1>2, <1>3, <1>4, <1>5

(* No script is left that is closed.                                         *)
LEMMA BodyUnscripted ==
  ASSUME NEW X, "nl" \notin X, NEW x \in Seq(X \cup {"nl"})
  PROVE  ~ InOrder(Text!Body(x), "script", "/script")
<1> DEFINE Y == X \cup {"nl"}  W == {"script", "/script"}  K == OwnIn(x, W)  b == Text!Body(x)
<1> SUFFICES ASSUME InOrder(b, "script", "/script") PROVE FALSE
  OBVIOUS
<1>1. b \in Seq((Clean(X) \ {"ref"}) \cup {"nl"})
  BY BodyTypes
<1>2. {"nl", "ref", "br"} \cap W = {} /\ Text!Unwanted \cap (W \cup {"nl", "ref"}) = {}
  BY DEF Text!Unwanted
<1>3. "script" \in W /\ "/script" \in W
  OBVIOUS
<1>4. K \subseteq DOMAIN x /\ \A i \in K : Outside(x, i)
  BY DEF OwnIn
<1>5. OnlyIn(b, W) = EntriesAt(x, K)
  <2> HIDE DEF W
  <2> QED BY <1>2, BodySays
<1> HIDE DEF b, K, W
<1>6. InOrder(EntriesAt(x, K), "script", "/script")
  BY <1>1, <1>3, <1>5, OrderKept
<1>7. \E a, c \in K : a < c /\ x[a] = "script" /\ x[c] = "/script"
  <2>1. x \in Seq(Y)
    OBVIOUS
  <2> HIDE DEF Y
  <2> QED BY <1>4, <1>6, <2>1, OrderTaken
<1>8. PICK a \in K, c \in K : a < c /\ x[a] = "script" /\ x[c] = "/script"
  BY <1>7
<1>9. a \in DOMAIN x /\ c \in DOMAIN x /\ Outside(x, a)
  BY <1>4
<1>10. a \in 1 .. a /\ a .. a - 1 = {} /\ c \in a .. Len(x)
  BY <1>8, <1>9
<1>11. Text!InScript(x, a)
  BY <1>8, <1>10 DEF Text!InScript
<1> QED BY <1>9, <1>11 DEF Outside

(* The words of the body are the author's.                                   *)
LEMMA BodyWords ==
  ASSUME NEW X, "nl" \notin X, NEW x \in Seq(X \cup {"nl"})
  PROVE  Text!Only(Text!Body(x), Text!Words)
         = EntriesAt(x, {i \in DOMAIN x :
             /\ x[i] \in Text!Words /\ ~ Text!InScript(x, i)
             /\ ~ \E r \in 1 .. i - 1 :
                  x[r] = "ref" /\ ~ Text!InScript(x, r)
                  /\ \A k \in r .. i : x[k] = "nl" => Text!InScript(x, k)})
<1> DEFINE Own == {i \in DOMAIN x :
             /\ x[i] \in Text!Words /\ ~ Text!InScript(x, i)
             /\ ~ \E r \in 1 .. i - 1 :
                  x[r] = "ref" /\ ~ Text!InScript(x, r)
                  /\ \A k \in r .. i : x[k] = "nl" => Text!InScript(x, k)}
           W == Text!Words
<1>1. {"nl", "ref", "br"} \cap W = {} /\ Text!Unwanted \cap (W \cup {"nl", "ref"}) = {}
  BY DEF Text!Unwanted, Text!Words
<1>2. "nl" \notin W
  BY <1>1
<1>3. Text!Only(Text!Body(x), W) = OnlyIn(Text!Body(x), W)
  BY SameTextEntries, Zenon DEF Text!Only, OnlyIn
<1> HIDE DEF W
<1>4. OnlyIn(Text!Body(x), W) = EntriesAt(x, OwnIn(x, W))
  BY <1>1, BodySays
<1>5. OwnIn(x, W) = Own
  <2>1. \A i \in DOMAIN x : x[i] \in W =>
          (Behind(x, i - 1) <=>
             \E r \in 1 .. i - 1 :
               x[r] = "ref" /\ ~ Text!InScript(x, r)
               /\ \A k \in r .. i : x[k] = "nl" => Text!InScript(x, k))
    <3> SUFFICES ASSUME NEW i \in DOMAIN x, x[i] \in W
                 PROVE  Behind(x, i - 1) <=>
                          \E r \in 1 .. i - 1 :
                            x[r] = "ref" /\ ~ Text!InScript(x, r)
                            /\ \A k \in r .. i : x[k] = "nl" => Text!InScript(x, k)
      OBVIOUS
    <3>1. x[i] # "nl" /\ i \in Int
      BY <1>2
    <3>2. \A r \in 1 .. i - 1 :
            (\A k \in r .. i - 1 : x[k] = "nl" => Text!InScript(x, k))
            <=> \A k \in r .. i : x[k] = "nl" => Text!InScript(x, k)
      <4> TAKE r \in 1 .. i - 1
      <4>1. \A k : k \in r .. i <=> k \in r .. i - 1 \/ k = i
        BY <3>1
      <4> QED BY <3>1, <4>1
    <3> QED BY <3>2 DEF Behind, Outside
  <2> QED BY <2>1 DEF OwnIn, Outside, W
<1> QED BY <1>3, <1>4, <1>5 DEF W

-----------------------------------------------------------------------------
(* Descriptions: the parts of what is published.                             *)
PartOf(d, name) ==
  LET found == {i \in DOMAIN d : d[i].part = name}
  IN IF found = {} THEN <<>> ELSE d[CHOOSE i \in found : TRUE].of

(* No piece, or one of this name.                                            *)
Single(p, name) == Len(p) \in {0, 1} /\ (Len(p) = 1 => p[1].part = name)

Concats(s, a, b, m, n) ==
  /\ DOMAIN s = 1 .. n /\ Len(s) = n
  /\ \A i \in 1 .. m : s[i] = a[i]
  /\ \A i \in m + 1 .. n : s[i] = b[i - m]

LEMMA Concatenated ==
  ASSUME NEW X, NEW a \in Seq(X), NEW b \in Seq(X), NEW m, m = Len(a)
  PROVE  a \o b \in Seq(X) /\ Concats(a \o b, a, b, m, m + Len(b))
BY DEF Concats

LEMMA Division ==
  ASSUME NEW a \in Nat, NEW u \in Nat \ {0}
  PROVE  \E q \in Nat, r \in 0 .. u - 1 : a \div u = q /\ a % u = r /\ a = u * q + r
<1>1. PICK q \in Int : a \div u = q /\ a % u = a - u * q
  BY SMTT(20)
<1>2. a % u \in 0 .. u - 1 /\ a \div u >= 0
  BY SMTT(20)
<1> DEFINE m == u * q  r == a % u
<1>3. m \in Int /\ r = a - m /\ q \in Nat /\ r \in 0 .. u - 1
  BY <1>1, <1>2
<1> HIDE DEF m, r
<1>4. a = m + r
  BY <1>3
<1>5. a % u = r /\ a = u * q + r
  BY <1>4 DEF m, r
<1> QED BY <1>1, <1>3, <1>5

LEMMA PartsFound ==
  ASSUME NEW R, NEW a \in Seq(R), NEW b \in Seq(R), NEW c \in Seq(R), NEW e \in Seq(R),
         Single(a, "small"), Single(b, "body"), Single(c, "files"), Single(e, "section")
  PROVE  /\ PartOf(a \o b \o c \o e, "body") = IF Len(b) = 0 THEN <<>> ELSE b[1].of
         /\ PartOf(a \o b \o c \o e, "files") = IF Len(c) = 0 THEN <<>> ELSE c[1].of
<1> DEFINE d == a \o b \o c \o e  A == Len(a)  B == A + Len(b)  C == B + Len(c)  D == C + Len(e)
<1>1. /\ DOMAIN d = 1 .. D
      /\ \A i \in 1 .. A : d[i] = a[i]
      /\ \A i \in A + 1 .. B : d[i] = b[i - A]
      /\ \A i \in B + 1 .. C : d[i] = c[i - B]
      /\ \A i \in C + 1 .. D : d[i] = e[i - C]
  <2> DEFINE ab == a \o b  abc == ab \o c
  <2>1. ab \in Seq(R) /\ Concats(ab, a, b, A, B)
    BY Concatenated
  <2> HIDE DEF ab
  <2>2. abc \in Seq(R) /\ Concats(abc, ab, c, B, C)
    <3>1. Len(ab) = B
      BY <2>1 DEF Concats
    <3> HIDE DEF B
    <3> QED BY <2>1, <3>1, Concatenated
  <2> HIDE DEF abc
  <2>3. Concats(abc \o e, abc, e, C, D)
    <3>1. Len(abc) = C
      BY <2>2 DEF Concats
    <3> HIDE DEF C
    <3> QED BY <2>2, <3>1, Concatenated
  <2>4. d = abc \o e
    BY DEF abc, ab
  <2>5. A \in Nat /\ A <= B /\ B <= C /\ C <= D /\ B \in Int /\ C \in Int /\ D \in Int
    <3>1. Len(a) \in Nat /\ Len(b) \in Nat /\ Len(c) \in Nat /\ Len(e) \in Nat
      OBVIOUS
    <3> QED BY <3>1
  <2> HIDE DEF d, A, B, C, D
  <2>6. \A i \in 1 .. B : d[i] = ab[i]
    BY <2>2, <2>3, <2>4, <2>5 DEF Concats
  <2>7. \A i \in B + 1 .. C : d[i] = c[i - B]
    BY <2>2, <2>3, <2>4, <2>5 DEF Concats
  <2>8. \A i \in 1 .. A : d[i] = a[i]
    BY <2>1, <2>5, <2>6 DEF Concats
  <2>9. \A i \in A + 1 .. B : d[i] = b[i - A]
    BY <2>1, <2>5, <2>6 DEF Concats
  <2> QED BY <2>3, <2>4, <2>7, <2>8, <2>9 DEF Concats
<1>2. A \in {0, 1} /\ B \in {A, A + 1} /\ C \in {B, B + 1} /\ D \in {C, C + 1}
      /\ (Len(b) = 0 <=> B = A) /\ (Len(c) = 0 <=> C = B)
  <2>1. Len(a) \in {0, 1} /\ Len(b) \in {0, 1} /\ Len(c) \in {0, 1} /\ Len(e) \in {0, 1}
    BY DEF Single
  <2> DEFINE na == Len(a)  nb == Len(b)  nc == Len(c)  ne == Len(e)
  <2>2. A = na /\ B = A + nb /\ C = B + nc /\ D = C + ne
    OBVIOUS
  <2>3. na \in {0, 1} /\ nb \in {0, 1} /\ nc \in {0, 1} /\ ne \in {0, 1}
    BY <2>1
  <2> HIDE DEF A, B, C, D, na, nb, nc, ne
  <2>4. B \in {A, A + 1} /\ (nb = 0 <=> B = A) /\ A \in Int
    BY <2>2, <2>3
  <2>5. C \in {B, B + 1} /\ (nc = 0 <=> C = B) /\ B \in Int
    BY <2>2, <2>3, <2>4
  <2>6. D \in {C, C + 1} /\ A \in {0, 1}
    BY <2>2, <2>3, <2>5
  <2> QED BY <2>4, <2>5, <2>6 DEF nb, nc
<1>3. /\ \A i \in 1 .. A : d[i].part = "small"
      /\ \A i \in A + 1 .. B : d[i].part = "body" /\ d[i] = b[1]
      /\ \A i \in B + 1 .. C : d[i].part = "files" /\ d[i] = c[1]
      /\ \A i \in C + 1 .. D : d[i].part = "section"
  <2> USE DEF Single
  <2>1. \A i \in 1 .. A : i = 1 /\ A = 1
    <3> HIDE DEF A
    <3> QED BY <1>2
  <2>2. \A i \in A + 1 .. B : i - A = 1 /\ Len(b) = 1
    BY <1>2
  <2>3. \A i \in B + 1 .. C : i - B = 1 /\ Len(c) = 1
    BY <1>2
  <2>4. \A i \in C + 1 .. D : i - C = 1 /\ Len(e) = 1
    BY <1>2
  <2> HIDE DEF d, A, B, C, D
  <2>5. \A i \in 1 .. A : d[i].part = "small"
    BY <1>1, <2>1 DEF A
  <2>6. \A i \in A + 1 .. B : d[i].part = "body" /\ d[i] = b[1]
    BY <1>1, <2>2
  <2>7. \A i \in B + 1 .. C : d[i].part = "files" /\ d[i] = c[1]
    BY <1>1, <2>3
  <2>8. \A i \in C + 1 .. D : d[i].part = "section"
    BY <1>1, <2>4
  <2> QED BY <2>5, <2>6, <2>7, <2>8
<1> HIDE DEF d, A, B, C, D
<1>4. \A i : i \in DOMAIN d => i \in 1 .. A \/ i \in A + 1 .. B \/ i \in B + 1 .. C \/ i \in C + 1 .. D
  BY <1>1, <1>2
<1>5. A + 1 .. B \subseteq DOMAIN d /\ B + 1 .. C \subseteq DOMAIN d
  BY <1>1, <1>2
<1>6. {i \in DOMAIN d : d[i].part = "body"} = A + 1 .. B
  BY <1>3, <1>4, <1>5
<1>7. {i \in DOMAIN d : d[i].part = "files"} = B + 1 .. C
  BY <1>3, <1>4, <1>5
<1>8. (A + 1 .. B = {} <=> B = A) /\ (B + 1 .. C = {} <=> C = B)
  <2>1. A \in Int /\ B \in Int /\ C \in Int
    BY <1>2
  <2>2. A + 1 .. B = {} <=> B = A
    <3>1. B = A => \A i \in A + 1 .. B : FALSE
      BY <2>1
    <3>2. B # A => A + 1 \in A + 1 .. B
      BY <1>2, <2>1
    <3> QED BY <3>1, <3>2
  <2>3. B + 1 .. C = {} <=> C = B
    <3>1. C = B => \A i \in B + 1 .. C : FALSE
      BY <2>1
    <3>2. C # B => B + 1 \in B + 1 .. C
      BY <1>2, <2>1
    <3> QED BY <3>1, <3>2
  <2> QED BY <2>2, <2>3
<1>9. PartOf(d, "body") = IF B = A THEN <<>> ELSE b[1].of
  <2>1. CASE B = A
    BY <1>6, <1>8, <2>1 DEF PartOf
  <2>2. CASE B # A
    <3> DEFINE found == A + 1 .. B  i == CHOOSE i \in found : TRUE
    <3>1. i \in found
      BY <1>8, <2>2
    <3>2. PartOf(d, "body") = d[i].of
      BY <1>6, <1>8, <2>2, Zenon DEF PartOf
    <3> HIDE DEF i
    <3> QED BY <1>3, <2>2, <3>1, <3>2
  <2> QED BY <2>1, <2>2
<1>10. PartOf(d, "files") = IF C = B THEN <<>> ELSE c[1].of
  <2>1. CASE C = B
    BY <1>7, <1>8, <2>1 DEF PartOf
  <2>2. CASE C # B
    <3> DEFINE found == B + 1 .. C  i == CHOOSE i \in found : TRUE
    <3>1. i \in found
      BY <1>8, <2>2
    <3>2. PartOf(d, "files") = d[i].of
      BY <1>7, <1>8, <2>2, Zenon DEF PartOf
    <3> HIDE DEF i
    <3> QED BY <1>3, <2>2, <3>1, <3>2
  <2> QED BY <2>1, <2>2
<1> QED BY <1>2, <1>9, <1>10 DEF d

LEMMA PieceIs ==
  ASSUME NEW name, NEW of
  PROVE  /\ Text!Piece(name, of) \in Seq({[part |-> name, of |-> of]})
         /\ Single(Text!Piece(name, of), name)
         /\ (IF Len(Text!Piece(name, of)) = 0 THEN <<>> ELSE Text!Piece(name, of)[1].of) = of
<1>1. CASE of = <<>>
  <2>1. Text!Piece(name, of) = <<>>
    BY <1>1 DEF Text!Piece
  <2> DEFINE none == <<>>  Z == {[part |-> name, of |-> of]}
  <2> HIDE DEF Z
  <2>2. none \in Seq(Z) /\ Len(none) = 0
    OBVIOUS
  <2> HIDE DEF none
  <2>3. Single(none, name) /\ (IF Len(none) = 0 THEN <<>> ELSE none[1].of) = <<>>
    BY <2>2 DEF Single
  <2> QED BY <1>1, <2>1, <2>2, <2>3 DEF none, Z
<1>2. CASE of # <<>>
  <2>1. Text!Piece(name, of) = << [part |-> name, of |-> of] >>
    BY <1>2 DEF Text!Piece
  <2> DEFINE r == [part |-> name, of |-> of]
  <2>2. r.part = name /\ r.of = of
    OBVIOUS
  <2> HIDE DEF r
  <2>3. Text!Piece(name, of) = << r >>
    BY <2>1 DEF r
  <2>4. Text!Piece(name, of) \in Seq({r})
    BY <2>3
  <2> QED BY <2>2, <2>3, <2>4 DEF Single, r
<1> QED BY <1>1, <1>2

LEMMA BuiltOf ==
  ASSUME NEW body, NEW list, NEW small, NEW extra
  PROVE  LET d == Text!BuildDescription(body, list, small, extra) IN
         /\ PartOf(d, "body") = body
         /\ PartOf(d, "files") = [i \in DOMAIN list |-> Text!HumanSize(list[i])]
<1> DEFINE sizes == [i \in DOMAIN list |-> Text!HumanSize(list[i])]
           r1 == [part |-> "small", of |-> small]    r2 == [part |-> "body", of |-> body]
           r3 == [part |-> "files", of |-> sizes]  r4 == [part |-> "section", of |-> extra]
           R == {r1, r2, r3, r4}
           a == Text!Piece("small", small)   b == Text!Piece("body", body)
           c == Text!Piece("files", sizes)   e == Text!Piece("section", extra)
<1> HIDE DEF sizes
<1>1. a \in Seq({r1}) /\ b \in Seq({r2}) /\ c \in Seq({r3}) /\ e \in Seq({r4})
  BY PieceIs
<1>2. Single(a, "small") /\ Single(b, "body") /\ Single(c, "files") /\ Single(e, "section")
  BY PieceIs
<1>3. (IF Len(b) = 0 THEN <<>> ELSE b[1].of) = body
      /\ (IF Len(c) = 0 THEN <<>> ELSE c[1].of) = sizes
  BY PieceIs
<1>4. Text!BuildDescription(body, list, small, extra) = a \o b \o c \o e
  BY DEF Text!BuildDescription, sizes
<1> HIDE DEF r1, r2, r3, r4
<1>5. a \in Seq(R) /\ b \in Seq(R) /\ c \in Seq(R) /\ e \in Seq(R)
  BY <1>1
<1> HIDE DEF R, a, b, c, e
<1>6. PartOf(a \o b \o c \o e, "body") = body /\ PartOf(a \o b \o c \o e, "files") = sizes
  BY <1>2, <1>3, <1>5, PartsFound
<1> QED BY <1>4, <1>6 DEF sizes

(* A size is told to half a hundredth of its unit.                           *)
LEMMA SizesNear ==
  ASSUME NEW n \in Nat, NEW h, h = Text!HumanSize(n), NEW off,
         off = 100 * (n % h.unit) - (h.hundredths - 100 * (n \div h.unit)) * h.unit
  PROVE  2 * off <= h.unit /\ -2 * off <= h.unit
<1>1. CASE n < 1024
  <2>1. h = [hundredths |-> 100 * n, unit |-> 1]
    BY <1>1 DEF Text!HumanSize
  <2>2. h.hundredths = 100 * n /\ h.unit = 1
    BY <2>1
  <2>3. n % 1 = 0 /\ n \div 1 = n
    OBVIOUS
  <2> QED BY <2>2, <2>3
<1>2. ASSUME NEW u \in {1024, 1024 * 1024},
             h = [hundredths |-> 100 * (n \div u) + Text!Rounded(100 * (n % u), u), unit |-> u]
      PROVE  2 * off <= h.unit /\ -2 * off <= h.unit
  <2> DEFINE a == 100 * (n % u)  d == n \div u
  <2>1. h.unit = u /\ h.hundredths = 100 * d + Text!Rounded(a, u)
    BY <1>2
  <2>2. a \in Nat /\ d \in Nat
    BY <1>2
  <2>3. off = a - ((100 * d + Text!Rounded(a, u)) - 100 * d) * u
    BY <2>1
  <2> HIDE DEF a, d
  <2> DEFINE q == a \div u  r == a % u  up == Text!Rounded(a, u) - q
  <2>4. u \in Nat \ {0}
    BY <1>2
  <2>5. q \in Nat /\ r \in 0 .. u - 1 /\ a = u * q + r
    <3>1. \E i \in Nat, j \in 0 .. u - 1 : q = i /\ r = j /\ a = u * i + j
      BY <2>2, <2>4, Division
    <3> HIDE DEF q, r
    <3> QED BY <3>1
  <2>6. \/ Text!Rounded(a, u) = q + 1 /\ 2 * r >= u
        \/ Text!Rounded(a, u) = q /\ 2 * r <= u
    <3>1. Text!Rounded(a, u) = q + IF 2 * r > u \/ (2 * r = u /\ q % 2 = 1) THEN 1 ELSE 0
      BY DEF Text!Rounded
    <3> HIDE DEF q, r
    <3>2. r \in Int /\ q \in Int /\ u \in Int
      BY <2>4, <2>5
    <3>3. CASE 2 * r > u \/ (2 * r = u /\ q % 2 = 1)
      <4>1. 2 * r >= u
        BY <3>2, <3>3
      <4> QED BY <3>1, <3>3, <4>1
    <3>4. CASE ~ (2 * r > u \/ (2 * r = u /\ q % 2 = 1))
      <4>1. 2 * r <= u
        BY <3>2, <3>4
      <4>2. Text!Rounded(a, u) = q
        BY <3>1, <3>2, <3>4
      <4> QED BY <4>1, <4>2
    <3> QED BY <3>3, <3>4
  <2> DEFINE t == Text!Rounded(a, u)
  <2> HIDE DEF q, r, t
  <2>7. t \in Int /\ off = a - t * u
    <3>1. t \in Int
      BY <2>5, <2>6 DEF t
    <3>2. (100 * d + t) - 100 * d = t
      BY <2>2, <3>1
    <3> QED BY <2>3, <3>1, <3>2 DEF t
  <2>8. \/ t = q + 1 /\ 2 * r >= u
        \/ t = q /\ 2 * r <= u
    BY <2>6 DEF t
  <2>9. \/ off = r - u /\ 2 * r >= u
        \/ off = r /\ 2 * r <= u
    <3>1. (q + 1) * u = u * q + u /\ q * u = u * q /\ u * q \in Int
      BY <2>4, <2>5
    <3> DEFINE m == u * q
    <3>2. CASE t = q + 1 /\ 2 * r >= u
      <4>1. off = (m + r) - (m + u) /\ m \in Int
        BY <2>5, <2>7, <3>1, <3>2
      <4> HIDE DEF m
      <4>2. off = r - u
        BY <2>4, <2>5, <4>1
      <4> QED BY <3>2, <4>2
    <3>3. CASE t = q /\ 2 * r <= u
      <4>1. off = (m + r) - m /\ m \in Int
        BY <2>5, <2>7, <3>1, <3>3
      <4> HIDE DEF m
      <4>2. off = r
        BY <2>4, <2>5, <4>1
      <4> QED BY <3>3, <4>2
    <3> QED BY <2>8, <3>2, <3>3
  <2>10. r \in Int /\ u \in Int /\ 0 <= r /\ r < u
    BY <2>4, <2>5
  <2>11. 2 * off <= u /\ -2 * off <= u
    BY <2>9, <2>10
  <2> QED BY <2>1, <2>11
<1>3. CASE n >= 1024 /\ n < 1024 * 1024
  <2>1. h = [hundredths |-> 100 * (n \div 1024) + Text!Rounded(100 * (n % 1024), 1024), unit |-> 1024]
    BY <1>3 DEF Text!HumanSize
  <2> QED BY <1>2, <2>1
<1>4. CASE n >= 1024 * 1024
  <2>1. h = [hundredths |-> 100 * (n \div (1024 * 1024)) + Text!Rounded(100 * (n % (1024 * 1024)), 1024 * 1024),
             unit |-> 1024 * 1024]
    BY <1>4 DEF Text!HumanSize
  <2> QED BY <1>2, <2>1
<1> QED BY <1>1, <1>3, <1>4

-----------------------------------------------------------------------------
(* Descriptions: the fields read.                                            *)

(* The ranks in an interval.                                                 *)
LEMMA NthOfInterval ==
  ASSUME NEW a \in Nat, NEW b \in Nat, a <= b
  PROVE  /\ Cardinality(a .. b) = b - a + 1
         /\ \A n \in 1 .. b - a + 1 : Nth(a .. b, n) = a + n - 1
<1> DEFINE K == a .. b
<1>1. IsFiniteSet(K) /\ K \subseteq Int /\ Cardinality(K) = b - a + 1
  BY FS_Interval
<1>2. ASSUME NEW n \in 1 .. b - a + 1 PROVE Nth(K, n) = a + n - 1
  <2> DEFINE k == a + n - 1
  <2>1. k \in K /\ {j \in K : j <= k} = a .. k /\ k \in Int /\ a <= k /\ k - a + 1 = n
    OBVIOUS
  <2> HIDE DEF K, k
  <2>2. Cardinality(a .. k) = n
    BY <2>1, FS_Interval
  <2>3. RankIn(K, k) = n
    BY <2>1, <2>2 DEF RankIn
  <2>4. Nth(K, n) = k
    BY <1>1, <2>1, <2>3, NthReaches
  <2> QED BY <2>4 DEF k
<1> QED BY <1>1, <1>2

LEMMA EntriesOfInterval ==
  ASSUME NEW X, NEW s \in Seq(X), NEW a \in 1 .. Len(s), NEW b \in a .. Len(s)
  PROVE  /\ EntriesAt(s, a .. b) \in Seq(X) /\ Len(EntriesAt(s, a .. b)) = b - a + 1
         /\ EntriesAt(s, a .. b) = SubSeq(s, a, b)
<1> DEFINE e == EntriesAt(s, a .. b)  r == SubSeq(s, a, b)  n == b - a + 1
<1> DEFINE K == a .. b
<1>1. K \subseteq DOMAIN s
  OBVIOUS
<1>2. Cardinality(K) = n /\ \A m \in 1 .. n : Nth(K, m) = a + m - 1
  BY NthOfInterval
<1>3. e \in Seq(X) /\ Len(e) = n /\ \A m \in 1 .. n : e[m] = s[a + m - 1]
  <2> HIDE DEF K, n
  <2>1. EntriesAt(s, K) \in Seq(X) /\ Len(EntriesAt(s, K)) = n
        /\ \A m \in 1 .. n : EntriesAt(s, K)[m] = s[Nth(K, m)]
    BY <1>1, <1>2, EntriesKept
  <2> QED BY <1>2, <2>1 DEF K
<1>4. r \in Seq(X) /\ Len(r) = n /\ \A m \in 1 .. n : r[m] = s[a + m - 1]
  OBVIOUS
<1> HIDE DEF e, r, n
<1>5. e = r
  BY <1>3, <1>4, SeqsEqual
<1> QED BY <1>3, <1>5 DEF e, r, n

(* SearchInlineLabel by its choices: the label, the first token of its value *)
(* and the value's line.                                                     *)
LabelsOf(s, label, before) ==
  {i \in DOMAIN s : /\ s[i] = label /\ \E j \in i + 1 .. Len(s) : s[j] # "nl"
                    /\ ~ (i > 1 /\ s[i - 1] = before)}
ValueOf(s, i) == CHOOSE j \in i + 1 .. Len(s) : s[j] # "nl" /\ \A k \in i + 1 .. j - 1 : s[k] = "nl"
LineFrom(s, f) == {j \in DOMAIN s : j >= f /\ \A k \in f .. j : s[k] # "nl"}

LEMMA SearchIs ==
  ASSUME NEW s, NEW label, NEW before
  PROVE  Text!SearchInlineLabel(s, label, before)
         = LET K == LabelsOf(s, label, before) IN
           IF K = {} THEN <<>>
           ELSE EntriesAt(s, LineFrom(s, ValueOf(s, CHOOSE i \in K : \A j \in K : i <= j)))
BY SameTextEntries, Zenon DEF Text!SearchInlineLabel, LabelsOf, ValueOf, LineFrom

FieldAt(s, t, label, before) ==
  \E i \in DOMAIN s :
    /\ s[i] = label /\ (i > 1 => s[i - 1] # before)
    /\ \E from \in i + 1 .. Len(s) :
         /\ \A k \in i + 1 .. from - 1 : s[k] = "nl"
         /\ SubSeq(s, from, from + Len(t) - 1) = t

LEMMA FieldFound ==
  ASSUME NEW X, NEW s \in Seq(X), NEW label, NEW before,
         NEW t, t = Text!SearchInlineLabel(s, label, before), t # <<>>
  PROVE  FieldAt(s, t, label, before)
<1> DEFINE K == LabelsOf(s, label, before)  i == CHOOSE i \in K : \A j \in K : i <= j
           f == ValueOf(s, i)
<1>1. K # {} /\ t = EntriesAt(s, LineFrom(s, f))
  BY SearchIs
<1>2. K \subseteq Nat /\ \A k \in K : k \in DOMAIN s
  BY DEF LabelsOf
<1>3. i \in K
  <2> HIDE DEF K
  <2>1. \E k \in K : \A j \in K : k <= j
    BY <1>1, <1>2, LeastNat
  <2> QED BY <2>1
<1> HIDE DEF i, f
<1>4. i \in DOMAIN s /\ s[i] = label /\ ~ (i > 1 /\ s[i - 1] = before)
      /\ \E j \in i + 1 .. Len(s) : s[j] # "nl"
  BY <1>3 DEF LabelsOf
<1> HIDE DEF K
<1>5. f \in i + 1 .. Len(s) /\ s[f] # "nl" /\ \A k \in i + 1 .. f - 1 : s[k] = "nl"
  <2> DEFINE V == {j \in i + 1 .. Len(s) : s[j] # "nl"}
  <2>1. V \subseteq Nat /\ V # {}
    BY <1>4
  <2>2. PICK j \in V : \A k \in V : j <= k
    <3> HIDE DEF V
    <3> QED BY <2>1, LeastNat
  <2>3. \A k \in i + 1 .. j - 1 : s[k] = "nl"
    BY <1>4, <2>2
  <2>4. \E k \in i + 1 .. Len(s) : s[k] # "nl" /\ \A m \in i + 1 .. k - 1 : s[m] = "nl"
    BY <2>2, <2>3
  <2> QED BY <2>4 DEF ValueOf, f
<1>6. PICK z \in f + 1 .. Len(s) + 1 : LineFrom(s, f) = f .. z - 1
  <2> DEFINE V == {j \in f + 1 .. Len(s) + 1 : j = Len(s) + 1 \/ s[j] = "nl"}
  <2>0. f \in Int /\ 1 <= f /\ f <= Len(s) /\ Len(s) \in Nat
    BY <1>4, <1>5
  <2>1. V \subseteq Nat /\ Len(s) + 1 \in V
    BY <2>0
  <2>2. PICK z \in V : \A k \in V : z <= k
    <3> HIDE DEF V
    <3> QED BY <2>1, LeastNat
  <2>3. z \in f + 1 .. Len(s) + 1 /\ (z = Len(s) + 1 \/ s[z] = "nl")
    OBVIOUS
  <2>4. \A k \in f .. z - 1 : s[k] # "nl" /\ k \in DOMAIN s
    <3> TAKE k \in f .. z - 1
    <3>1. k \in DOMAIN s
      BY <2>0, <2>3
    <3>2. k # f => k \notin V
      BY <2>0, <2>2, <2>3
    <3> QED BY <1>5, <2>0, <2>3, <3>1, <3>2
  <2> HIDE DEF V
  <2>5. f .. z - 1 \subseteq LineFrom(s, f)
    <3> SUFFICES ASSUME NEW j \in f .. z - 1 PROVE j \in LineFrom(s, f)
      OBVIOUS
    <3>1. \A k \in f .. j : k \in f .. z - 1
      BY <2>0, <2>3
    <3> QED BY <2>0, <2>4, <3>1 DEF LineFrom
  <2>6. LineFrom(s, f) \subseteq f .. z - 1
    <3> SUFFICES ASSUME NEW j \in LineFrom(s, f) PROVE j \in f .. z - 1
      OBVIOUS
    <3>1. j \in 1 .. Len(s) /\ j >= f /\ \A k \in f .. j : s[k] # "nl"
      BY DEF LineFrom
    <3>2. CASE j >= z
      <4>1. z \in f .. j /\ z # Len(s) + 1
        BY <2>0, <2>3, <3>1, <3>2
      <4> QED BY <2>3, <3>1, <4>1
    <3> QED BY <2>0, <2>3, <3>1, <3>2
  <2> QED BY <2>3, <2>5, <2>6
<1> DEFINE b == z - 1
<1>7. b \in f .. Len(s) /\ f \in 1 .. Len(s) /\ f \in Int /\ b \in Int
  BY <1>4, <1>5
<1>8. t = EntriesAt(s, f .. b)
  BY <1>1, <1>6
<1> HIDE DEF b
<1>9. Len(t) = b - f + 1 /\ t = SubSeq(s, f, b)
  BY <1>7, <1>8, EntriesOfInterval
<1>10. f + Len(t) - 1 = b
  <2> DEFINE n == Len(t)
  <2>1. n = b - f + 1
    BY <1>9
  <2> HIDE DEF n
  <2>2. f + n - 1 = b
    BY <1>7, <2>1
  <2> QED BY <2>2 DEF n
<1>11. SubSeq(s, f, f + Len(t) - 1) = t
  BY <1>9, <1>10
<1> QED BY <1>4, <1>5, <1>11 DEF FieldAt

Spread(kept) == [i \in DOMAIN kept |-> IF kept[i] = "br" THEN "nl" ELSE kept[i]]
Singled(ls) == EntriesAt(ls, {i \in DOMAIN ls : \E j \in i - 1 .. i : j >= 1 /\ ls[j] # <<>>})

LEMMA HtmlTypes ==
  ASSUME NEW X, NEW x \in Seq(X \cup {"nl"})
  PROVE  Text!HtmlToText(x) \in Seq(X \cup {"nl"})
<1> DEFINE K == {i \in DOMAIN x : ~ Text!Skipped(x, i) /\ x[i] \notin Text!Unwanted \cup {"/script"}}
           k == EntriesAt(x, K)  sp == Spread(k)  ls == Text!Lines(sp)
           one == Singled(ls)  tr == Text!Trimmed(one)  Y == X \cup {"nl"}
<1>1. Text!HtmlToText(x) = Text!JoinLines(tr)
  BY SameTextEntries, Zenon DEF Text!HtmlToText, Spread, Singled
<1>2. K \subseteq DOMAIN x
  OBVIOUS
<1>0. "nl" \in Y /\ x \in Seq(Y)
  OBVIOUS
<1> HIDE DEF K, Y
<1>3. k \in Seq(Y)
  BY <1>0, <1>2, EntriesKept
<1> HIDE DEF k
<1>4. sp \in Seq(Y)
  <2>1. Len(k) \in Nat /\ DOMAIN k = 1 .. Len(k) /\ \A i \in DOMAIN k : k[i] \in Y
    BY <1>3
  <2> DEFINE n == Len(k)
  <2>2. sp \in [1 .. n -> Y]
    BY <1>0, <2>1 DEF Spread
  <2> HIDE DEF n, sp
  <2>3. n \in Nat
    BY <2>1 DEF n
  <2> QED BY <2>2, <2>3
<1> HIDE DEF sp
<1>5. ls \in Seq(Seq(X))
  <2>1. ls \in LineLists(X)
    BY <1>4, LinesTypes DEF Y
  <2> QED BY <2>1 DEF LineLists
<1> HIDE DEF ls
<1>6. one \in Seq(Seq(X))
  <2> DEFINE J == {i \in DOMAIN ls : \E j \in i - 1 .. i : j >= 1 /\ ls[j] # <<>>}
  <2>1. J \subseteq DOMAIN ls /\ one = EntriesAt(ls, J)
    BY DEF Singled
  <2> HIDE DEF J
  <2> QED BY <1>5, <2>1, EntriesKept
<1> HIDE DEF one
<1>7. tr \in Seq(Seq(X))
  BY <1>6, TrimmedKeeps, ThinnedTypes
<1> HIDE DEF tr
<1>8. tr \in Seq(Seq(Y))
  <2>1. Seq(Seq(X)) \subseteq Seq(Seq(Y))
    <3>1. X \subseteq Y
      BY DEF Y
    <3> QED BY <3>1
  <2> QED BY <1>7, <2>1
<1>9. Text!JoinLines(tr) \in Seq(Y)
  BY <1>0, <1>8, JoinTypes
<1> QED BY <1>1, <1>9 DEF Y

-----------------------------------------------------------------------------
(* Descriptions: the theorem.                                                *)

(* What is published is built of the text and the files as they are.         *)
Described ==
  descr # None =>
    \E small, extra : descr = Text!BuildDescription(Text!Body(text), files, small, extra)

LEMMA DescribedMoves == Described /\ [Text!Next]_(Text!vars) => Described'
<1> SUFFICES ASSUME Described, [Text!Next]_(Text!vars) PROVE Described'
  OBVIOUS
<1>1. ASSUME NEW t, Text!Write(t) PROVE Described'
  <2>1. descr' = None
    BY <1>1, Zenon DEF Text!Write
  <2> QED BY <2>1 DEF Described
<1>2. ASSUME Text!Publish PROVE Described'
  <2>1. text' = text /\ files' = files
    BY <1>2, Zenon DEF Text!Publish
  <2>2. \E small, extra : descr' = Text!BuildDescription(Text!Body(text), files, small, extra)
    BY <1>2, Zenon DEF Text!Publish, Text!Description
  <2> QED BY <2>1, <2>2, Zenon DEF Described
<1>3. ASSUME UNCHANGED Text!vars PROVE Described'
  <2>1. text' = text /\ files' = files /\ descr' = descr
    BY <1>3, Zenon DEF Text!vars
  <2> QED BY <2>1, Zenon DEF Described
<1> QED BY <1>1, <1>2, <1>3, Zenon DEF Text!Next

LEMMA DescribedCorrect == PartsSpec => []Described
<1>1. PartsInit => Described
  <2>1. PartsInit => Text!Init
    BY Zenon DEF PartsInit
  <2>2. Text!Init => descr = None
    BY SMT DEF Text!Init
  <2> QED BY <2>1, <2>2, Zenon DEF Described
<1>2. Described /\ [PartsNext]_allVars => Described'
  BY OtherParts, DescribedMoves
<1> QED BY <1>1, <1>2, PTL DEF PartsSpec

LEMMA BodiesFaithful ==
  ASSUME text \in Seq(Vocabulary), files \in Seq(Nat), Described
  PROVE  Text!BodyFaithful
<1> DEFINE body == PartOf(descr, "body")  listed == PartOf(descr, "files")
<1> SUFFICES ASSUME descr # None
             PROVE
       /\ Text!Range(body) \cap (Text!Unwanted \cup {"ref"}) = {}
       /\ ~ InOrder(body, "script", "/script")
       /\ Text!Only(body, Text!Words)
          = EntriesAt(text, {i \in DOMAIN text :
              /\ text[i] \in Text!Words /\ ~ Text!InScript(text, i)
              /\ ~ \E r \in 1 .. i - 1 :
                   text[r] = "ref" /\ ~ Text!InScript(text, r)
                   /\ \A k \in r .. i : text[k] = "nl" => Text!InScript(text, k)})
       /\ Len(listed) = Len(files)
       /\ \A i \in DOMAIN files :
            LET off == 100 * (files[i] % listed[i].unit)
                       - (listed[i].hundredths - 100 * (files[i] \div listed[i].unit)) * listed[i].unit
            IN 2 * off <= listed[i].unit /\ -2 * off <= listed[i].unit
  BY SameTextEntries, Zenon DEF Text!BodyFaithful, Text!Part, PartOf, InOrder
<1> DEFINE X == Vocabulary \ {"nl"}
<1>1. "nl" \notin X /\ text \in Seq(X \cup {"nl"})
  <2>1. Vocabulary \subseteq X \cup {"nl"}
    OBVIOUS
  <2> QED BY <2>1
<1> HIDE DEF X
<1>2. PICK small, extra : descr = Text!BuildDescription(Text!Body(text), files, small, extra)
  BY DEF Described
<1>3. body = Text!Body(text) /\ listed = [i \in DOMAIN files |-> Text!HumanSize(files[i])]
  BY <1>2, BuiltOf
<1> HIDE DEF body, listed
<1>4. Text!Range(body) \cap (Text!Unwanted \cup {"ref"}) = {}
  <2>1. body \in Seq((Clean(X) \ {"ref"}) \cup {"nl"})
    BY <1>1, <1>3, BodyTypes
  <2>2. \A i \in DOMAIN body : body[i] \in (Clean(X) \ {"ref"}) \cup {"nl"}
    <3> DEFINE Z == (Clean(X) \ {"ref"}) \cup {"nl"}
    <3>1. body \in Seq(Z)
      BY <2>1
    <3> HIDE DEF Z
    <3>2. \A i \in DOMAIN body : body[i] \in Z
      BY <3>1
    <3> QED BY <3>2 DEF Z
  <2>3. \A t \in (Clean(X) \ {"ref"}) \cup {"nl"} : t \notin Text!Unwanted \cup {"ref"}
    BY DEF Clean, Text!Unwanted
  <2> QED BY <2>2, <2>3 DEF Text!Range
<1>5. ~ InOrder(body, "script", "/script")
  BY <1>1, <1>3, BodyUnscripted
<1>6. Text!Only(body, Text!Words)
      = EntriesAt(text, {i \in DOMAIN text :
          /\ text[i] \in Text!Words /\ ~ Text!InScript(text, i)
          /\ ~ \E r \in 1 .. i - 1 :
               text[r] = "ref" /\ ~ Text!InScript(text, r)
               /\ \A k \in r .. i : text[k] = "nl" => Text!InScript(text, k)})
  BY <1>1, <1>3, BodyWords
<1>7. Len(listed) = Len(files)
  <2>1. Len(files) \in Nat /\ DOMAIN listed = 1 .. Len(files)
    BY <1>3
  <2> DEFINE n == Len(files)  R == {listed[i] : i \in 1 .. n}
  <2> HIDE DEF n
  <2>2. listed \in [1 .. n -> R] /\ n \in Nat
    BY <1>3, <2>1 DEF n
  <2> HIDE DEF R
  <2>3. Len(listed) = n
    BY <2>2
  <2> QED BY <2>3 DEF n
<1>8. ASSUME NEW i \in DOMAIN files
      PROVE  LET off == 100 * (files[i] % listed[i].unit)
                       - (listed[i].hundredths - 100 * (files[i] \div listed[i].unit)) * listed[i].unit
             IN 2 * off <= listed[i].unit /\ -2 * off <= listed[i].unit
  <2>1. files[i] \in Nat /\ listed[i] = Text!HumanSize(files[i])
    BY <1>3
  <2> QED BY <2>1, SizesNear
<1> QED BY <1>4, <1>5, <1>6, <1>7, <1>8

LEMMA FieldsFaithful ==
  ASSUME text \in Seq(Vocabulary)
  PROVE  Text!FieldsOwn
<1> DEFINE X == Vocabulary \ {"nl"}  Y == X \cup {"nl"}  sh == Text!HtmlToText(text)
           title == Text!ExtractSections(text)["title"]
<1>1. text \in Seq(Y)
  <2>1. Vocabulary \subseteq Y
    OBVIOUS
  <2> QED BY <2>1
<1>2. sh \in Seq(Y)
  <2> HIDE DEF X
  <2> QED BY <1>1, HtmlTypes
<1>3. title = Text!SearchInlineLabel(sh, "title", "Chinese")
  BY DEF Text!ExtractSections, Text!Labels
<1> HIDE DEF Y, sh, title
<1>4. ASSUME title # <<>> PROVE FieldAt(sh, title, "title", "Chinese")
  BY <1>2, <1>3, <1>4, FieldFound
<1> QED BY <1>4, Zenon DEF Text!FieldsOwn, FieldAt, sh, title

(* What is published of a description and read from it is its author's, for  *)
(* every text over the vocabulary and any length (NormalizeDescription,      *)
(* StripSourceReferences, BuildDescription and ExtractSections).             *)
THEOREM DescriptionsFaithful == PartsSpec => []DescriptionFaithful
<1>1. TypesOK /\ Described => DescriptionFaithful
  <2> SUFFICES ASSUME TypesOK, Described PROVE Text!DescriptionFaithful
    BY Zenon DEF DescriptionFaithful
  <2>1. Text!TypeOK
    BY Zenon DEF TypesOK
  <2>2. text \in Seq(Vocabulary)
    BY <2>1, SMT DEF Text!TypeOK
  <2>3. files \in {<<>>, <<1023, 1152, 1048575>>}
    BY <2>1, SMT DEF Text!TypeOK
  <2>4. files \in Seq(Nat)
    <3>1. \A i, j, k \in Nat : <<i, j, k>> \in Seq(Nat)
      OBVIOUS
    <3> DEFINE none == <<>>  three == <<1023, 1152, 1048575>>
    <3>2. three \in Seq(Nat)
      BY <3>1, SMT
    <3>3. none \in Seq(Nat)
      OBVIOUS
    <3>4. files \in {none, three}
      BY <2>3, SMT
    <3> HIDE DEF none, three
    <3> QED BY <3>2, <3>3, <3>4
  <2> QED BY <2>2, <2>4, BodiesFaithful, FieldsFaithful, Zenon DEF Text!DescriptionFaithful
<1> QED BY <1>1, TypesCorrect, DescribedCorrect, PTL
=============================================================================
