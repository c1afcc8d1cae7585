---------------------------- MODULE Descriptions ----------------------------
(* The description published with a torrent: what is taken out of the source *)
(* site's text, what is read from it and how the parts are put together      *)
(* (descr.go, buildDescription).  A text is a sequence of tokens: line       *)
(* breaks, script tags, site logos, event handlers, references to the source *)
(* site, <br>, labels of fields, and words.                                  *)
EXTENDS Integers, SequencesExt, Ranks

CONSTANTS
  Tokens,    \* what texts are made of
  MaxTokens, \* bound: the longest text
  Sizes,     \* lists of file sizes
  None

TextAssumption == MaxTokens \in Nat

VARIABLES
  text, files, \* what the source gives
  descr        \* what is published, None until then
vars == <<text, files, descr>>

Words == {"word", "picture", "note"}
Labels == {"title", "language"}

Lines(s) ==
  FoldLeft(LAMBDA ls, t : IF t = "nl" THEN Append(ls, <<>>)
                          ELSE [ls EXCEPT ![Len(ls)] = Append(@, t)], << <<>> >>, s)
JoinLines(ls) ==
  IF ls = <<>> THEN <<>>
  ELSE FoldLeft(LAMBDA s, l : s \o <<"nl">> \o l, Head(ls), Tail(ls))

-----------------------------------------------------------------------------
(* Cleaning                                                                  *)

(* scriptTagRe and styleTagRe: from an opening tag to the first closing one; *)
(* one that is never closed stays.                                           *)
InScript(s, i) ==
  \E a \in 1..i :
    /\ s[a] = "script" /\ \A b \in a..i-1 : s[b] # "/script"
    /\ \E c \in i..Len(s) : s[c] = "/script"

(* sanitizeEventAttrs and logoImgRe.                                         *)
Unwanted == {"logo", "handler"}

(* At most two blank lines in a row.                                         *)
Paragraphs(ls) ==
  EntriesAt(ls, {i \in DOMAIN ls : \E j \in i-2..i : j >= 1 => ls[j] # <<>>})

(* No blank line at either end.                                              *)
Trimmed(ls) ==
  LET full == {i \in DOMAIN ls : ls[i] # <<>>} IN
  EntriesAt(ls, {i \in DOMAIN ls : \E a, b \in full : a <= i /\ i <= b})

NormalizeDescription(s) ==
  LET kept == EntriesAt(s, {i \in DOMAIN s : ~InScript(s, i) /\ s[i] \notin Unwanted})
  IN JoinLines(Trimmed(Paragraphs(Lines(kept))))

\* Fault for mutation: the line is cut at its last reference.
StripLineAtLast(line) ==
  LET refs == {i \in DOMAIN line : line[i] = "ref"} IN
  IF refs = {} THEN line
  ELSE EntriesAt(line, {i \in DOMAIN line : line[i] # "br" /\ \E j \in refs : i < j})

(* A line is cut at the first reference in it, and loses its <br>.           *)
StripLine(line) ==
  LET before == {i \in DOMAIN line : \A j \in 1..i : line[j] # "ref"} IN
  IF before = DOMAIN line THEN line ELSE EntriesAt(line, {i \in before : line[i] # "br"})

(* A line that was nothing but a reference goes altogether.                  *)
StripSourceReferences(s) ==
  LET ls == Lines(s)
      kept == EntriesAt(ls, {i \in DOMAIN ls :
                               "ref" \notin Range(ls[i]) \/ StripLine(ls[i]) # <<>>})
  IN JoinLines([i \in DOMAIN kept |-> StripLine(kept[i])])

(* buildDescription cleans in this order, DescrBuilder.Build in the other.   *)
Body(s) == StripSourceReferences(NormalizeDescription(s))
BuilderBody(s) == NormalizeDescription(StripSourceReferences(s))

-----------------------------------------------------------------------------
(* Reading                                                                   *)

(* skipDepth: opening tags count up, closing ones down to zero; what stands  *)
(* above zero is skipped.                                                    *)
SkipDepth(n, t) ==
  CASE t = "script" -> n + 1 [] t = "/script" /\ n > 0 -> n - 1 [] OTHER -> n
Skipped(s, i) == FoldLeft(SkipDepth, 0, SubSeq(s, 1, i)) > 0

(* htmlToText: no scripts, a line for each <br>, one blank line at most, and *)
(* none at the ends.                                                         *)
HtmlToText(s) ==
  LET kept == EntriesAt(s, {i \in DOMAIN s : ~Skipped(s, i) /\ s[i] \notin Unwanted \cup {"/script"}})
      ls == Lines([i \in DOMAIN kept |-> IF kept[i] = "br" THEN "nl" ELSE kept[i]])
      single == EntriesAt(ls, {i \in DOMAIN ls : \E j \in i-1..i : j >= 1 /\ ls[j] # <<>>})
  IN JoinLines(Trimmed(single))

(* searchInlineLabel: the first occurrence with something after it, not      *)
(* following the word a longer label begins with.  The blanks skipped after  *)
(* a label include line breaks: an empty field takes the next line.          *)
SearchInlineLabel(s, label, before) ==
  LET at == {i \in DOMAIN s : /\ s[i] = label /\ \E j \in i+1..Len(s) : s[j] # "nl"
                              /\ ~(i > 1 /\ s[i - 1] = before)} IN
  IF at = {} THEN <<>>
  ELSE LET i == CHOOSE i \in at : \A j \in at : i <= j
           from == CHOOSE j \in i+1..Len(s) : s[j] # "nl" /\ \A k \in i+1..j-1 : s[k] = "nl"
       IN EntriesAt(s, {j \in DOMAIN s : j >= from /\ \A k \in from..j : s[k] # "nl"})

(* ExtractSections, of which two labels stand for the table: the title must  *)
(* not be the Chinese one.                                                   *)
ExtractSections(s) ==
  [label \in Labels |->
     SearchInlineLabel(HtmlToText(s), label, IF label = "title" THEN "Chinese" ELSE "none")]

-----------------------------------------------------------------------------
(* Assembling                                                                *)

\* Nearest, the even one of two equally near, as %.2f rounds.
Rounded(a, b) ==
  (a \div b) + IF 2 * (a % b) > b \/ (2 * (a % b) = b /\ (a \div b) % 2 = 1) THEN 1 ELSE 0

(* humanSize: the first unit that leaves less than 1024, and how many        *)
(* hundredths of it; the checker's integers end below the GiB.               *)
HumanSize(n) ==
  IF n < 1024 THEN [hundredths |-> 100 * n, unit |-> 1]
  ELSE LET unit == IF n < 1024 * 1024 THEN 1024 ELSE 1024 * 1024
       IN [hundredths |-> 100 * (n \div unit) + Rounded(100 * (n % unit), unit), unit |-> unit]

(* BuildDescription with RenderFileList: the subtitle, the body, the files   *)
(* and a further section, each only when there is one.                        *)
Piece(part, of) == IF of = <<>> THEN <<>> ELSE <<[part |-> part, of |-> of]>>
BuildDescription(body, list, small, extra) ==
  Piece("small", small) \o Piece("body", body)
  \o Piece("files", [i \in DOMAIN list |-> HumanSize(list[i])]) \o Piece("section", extra)

-----------------------------------------------------------------------------
(* buildDescription: an IMDb link is appended whenever there is a valid one. *)
Description(small, imdb) ==
  BuildDescription(Body(text), files, small, IF imdb THEN <<"IMDb">> ELSE <<>>)

(* Every text over the tokens, one token at a time, published at any length. *)
Init == text = <<>> /\ files \in Sizes /\ descr = None
Write(t) ==
  /\ descr = None /\ Len(text) < MaxTokens
  /\ text' = Append(text, t) /\ UNCHANGED <<files, descr>>
Publish ==
  /\ descr = None
  /\ \E small \in {<<>>, <<"subtitle">>}, imdb \in BOOLEAN : descr' = Description(small, imdb)
  /\ UNCHANGED <<text, files>>
Next == (\E t \in Tokens : Write(t)) \/ Publish
Spec == Init /\ [][Next]_vars

-----------------------------------------------------------------------------
(* Properties                                                                *)

(* Every variable keeps its type.                                            *)
TypeOK == text \in Seq(Tokens) /\ files \in Sizes /\ (descr # None => Len(descr) <= 4)

\* The entries of s that are in the set.
Only(s, set) == EntriesAt(s, {i \in DOMAIN s : s[i] \in set})
\* The part of what is published that has this name, empty without one.
Part(name) ==
  LET at == {i \in DOMAIN descr : descr[i].part = name}
  IN IF at = {} THEN <<>> ELSE descr[CHOOSE i \in at : TRUE].of

(* What is published is the source's text without scripts, logos, handlers   *)
(* and references: every word outside a script and not behind a reference on *)
(* its line is kept, in order, and nothing else is; and it lists every file  *)
(* with its size, exact to half a hundredth of the unit.                     *)
BodyFaithful ==
  LET own(i) == text[i] \in Words /\ ~InScript(text, i)
      referred(i) == \E r \in 1..i-1 :
        text[r] = "ref" /\ ~InScript(text, r)
        /\ \A k \in r..i : text[k] = "nl" => InScript(text, k)
      body == Part("body")
      listed == Part("files")
  IN descr # None =>
       /\ Range(body) \cap (Unwanted \cup {"ref"}) = {}
       /\ ~\E a, c \in DOMAIN body : a < c /\ body[a] = "script" /\ body[c] = "/script"
       /\ Only(body, Words) = EntriesAt(text, {i \in DOMAIN text : own(i) /\ ~referred(i)})
       /\ Len(listed) = Len(files)
       /\ \A i \in DOMAIN files :
            LET off == 100 * (files[i] % listed[i].unit)
                       - (listed[i].hundredths - 100 * (files[i] \div listed[i].unit)) * listed[i].unit
            IN 2 * off <= listed[i].unit /\ -2 * off <= listed[i].unit

(* A field read from a description is what follows its own label: the title  *)
(* is never taken from the Chinese title's line.                             *)
FieldsOwn ==
  LET shown == HtmlToText(text)
      title == ExtractSections(text)["title"]
  IN title # <<>> =>
       \E i \in DOMAIN shown :
         /\ shown[i] = "title" /\ (i > 1 => shown[i - 1] # "Chinese")
         /\ \E from \in i+1..Len(shown) :
              /\ \A k \in i+1..from-1 : shown[k] = "nl"
              /\ SubSeq(shown, from, from + Len(title) - 1) = title

(* What is published or read of a description is what its author wrote.      *)
DescriptionFaithful == BodyFaithful /\ FieldsOwn
=============================================================================
