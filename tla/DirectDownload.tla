--------------------------- MODULE DirectDownload ---------------------------
(* The direct download of a .torrent (NewClient, DownloadTorrent,            *)
(* downloadRaw): up to three URLs in turn, each asked again after a back-off *)
(* while the site answers 403 or 503.                                        *)
EXTENDS Integers, Sequences, FiniteSets

CONSTANTS
  MaxAttempts, \* maxDownloadAttempts
  None

DownloadAssumption == MaxAttempts \in Nat \ {0} /\ None \notin {"torrent", "page typed as torrent"}

VARIABLES
  client,   \* the client's credentials
  urls,     \* candidates left, the current one first
  attempt,  \* of the current one, from 0
  at,       \* idle, get, wait, done, failed
  slept,    \* the last back-off, in bases; 0 before the first request
  file,     \* what was written
  asked     \* history: the requests sent, each with the back-off before it

vars == <<client, urls, attempt, at, slept, file, asked>>

(* NewClient: the options, else the environment.                             *)
Setting(option, env) == IF option # None THEN option ELSE env
NewClient(options, env) ==
  [passkey |-> Setting(options.passkey, env.passkey), cookie |-> Setting(options.cookie, env.cookie)]

(* torrentURLs: by passkey, the enclosure, by cookie.                        *)
TorrentURLs(item) ==
  (IF item.id /\ client.passkey # None THEN <<"passkey">> ELSE <<>>)
  \o (IF item.enclosure THEN <<"enclosure">> ELSE <<>>)
  \o (IF item.id /\ client.cookie # None THEN <<"cookie">> ELSE <<>>)

(* DefaultBackoff: 60 s, doubled each time, at most 900 s; in bases.         *)
Doubled == <<1, 2, 4, 8>>
Backoff(n) == IF n < 4 THEN Doubled[n + 1] ELSE 15

Creds == [passkey : {None, "key"}, cookie : {None, "jar"}]
Init ==
  /\ client \in {NewClient(o, e) : o \in Creds, e \in Creds}
  /\ urls = <<>> /\ attempt = 0 /\ at = "idle" /\ slept = 0 /\ file = None /\ asked = <<>>

Start ==
  /\ at = "idle"
  /\ \E item \in [id : BOOLEAN, enclosure : BOOLEAN] :
       /\ urls' = TorrentURLs(item)
       /\ at' = IF urls' = <<>> THEN "failed" ELSE "get"
  /\ UNCHANGED <<client, attempt, slept, file, asked>>

(* The next candidate, or the error of the last.                             *)
NextURL ==
  /\ urls' = Tail(urls) /\ attempt' = 0 /\ slept' = 0
  /\ at' = IF Len(urls) = 1 THEN "failed" ELSE "get"

(* checkURL: a candidate that may not be asked is passed over.               *)
Reject ==
  /\ at = "get" /\ attempt = 0
  /\ NextURL /\ UNCHANGED <<client, file, asked>>

Asked == asked' = Append(asked, [url |-> Head(urls), after |-> slept])

(* isTorrentBody: by the first byte or by the type the site gives it.        *)
Answer == {"torrent", "page typed as torrent", "page", "limited", "broken"}
IsTorrentBody(answer) == answer \in {"torrent", "page typed as torrent"}

\* Fault for mutation: the retry follows at once.
LimitedAtOnce == at' = "get" /\ attempt' = attempt + 1 /\ UNCHANGED <<urls, slept>>

(* After each limited answer, the last one included, waitBackoff.            *)
Limited == at' = "wait" /\ UNCHANGED <<urls, attempt, slept>>

Get ==
  /\ at = "get"
  /\ Asked
  /\ \E answer \in Answer :
       IF IsTorrentBody(answer)
       THEN /\ \/ file' = answer /\ at' = "done"
               \/ at' = "failed" /\ UNCHANGED file  \* os.WriteFile
            /\ UNCHANGED <<urls, attempt, slept>>
       ELSE /\ IF answer = "limited" THEN Limited ELSE NextURL
            /\ UNCHANGED file
  /\ UNCHANGED client

(* The attempts of one candidate are used up.                                *)
Woken == attempt + 1 >= MaxAttempts

Wake ==
  /\ at = "wait"
  /\ IF Woken THEN NextURL
     ELSE at' = "get" /\ attempt' = attempt + 1 /\ slept' = Backoff(attempt) /\ UNCHANGED urls
  /\ UNCHANGED <<client, file, asked>>

(* The context of the Relay ends: the request or the wait fails, and so do   *)
(* the requests to the candidates left.                                      *)
Cancel ==
  /\ at \in {"get", "wait"} /\ at' = "failed"
  /\ UNCHANGED <<client, urls, attempt, slept, file, asked>>

Next == Start \/ Reject \/ Get \/ Wake \/ Cancel
Fairness == WF_vars(Get) /\ WF_vars(Wake)
Spec == Init /\ [][Next]_vars /\ Fairness

-----------------------------------------------------------------------------
(* Properties                                                                *)

(* Every variable keeps its type.                                            *)
TypeOK ==
  /\ at \in {"idle", "get", "wait", "done", "failed"} /\ attempt \in 0..MaxAttempts
  /\ Len(urls) <= 3 /\ (file # None <=> at = "done")

(* A site that limits is left alone: of two requests to one URL the second   *)
(* comes after a back-off, each twice those before up to the cap, and one    *)
(* URL is asked MaxAttempts times at most (DefaultBackoff, downloadRaw).     *)
LimitRespected ==
  \A url \in {"passkey", "enclosure", "cookie"} :
    LET own == {n \in DOMAIN asked : asked[n].url = url} IN
    /\ Cardinality(own) <= MaxAttempts
    /\ \A m, n \in own : m < n =>
         /\ asked[n].after >= 1
         /\ asked[n].after >= 2 * asked[m].after \/ asked[n].after = 15
=============================================================================
