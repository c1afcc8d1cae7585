------------------------------ MODULE QBSession ------------------------------
(* The session of a qB Instance.  Every call of poller, pipeline, monitor    *)
(* and API goes through request: log in if the flag says so, send with the   *)
(* cookie of the jar, and after a 401 or 403 clear the flag and do both once *)
(* more.  Flag, jar and the server's session are three places that callers   *)
(* change without a lock, and sessions expire at any time.                   *)
EXTENDS Naturals

CONSTANTS
  Callers,      \* goroutines that use the instance
  MaxExpiries,  \* bound: how often the server forgets its sessions
  MaxOutages    \* bound: how many logins or requests fail on the way

\* What an instance of this module gives its parameters.
SessionAssumption == MaxExpiries \in Nat /\ MaxOutages \in Nat

VARIABLES
  jar,       \* the SID in the cookie jar: none, live or dead at the server
  loggedIn,  \* Instance.loggedIn
  call,      \* per caller: its place in request and what it carries
  expiries,  \* bound
  outages    \* bound

vars == <<jar, loggedIn, call, expiries, outages>>

Sids == {"none", "live", "dead"}
Places == {"idle", "ensure", "login", "post", "granted", "store",
           "send", "answered", "served", "refused", "failed"}
Resting == {"idle", "served", "refused", "failed"}

CallRecord ==
  [at : Places, retry : BOOLEAN, sid : Sids, ok : BOOLEAN,
   logins : 0 .. 3, sends : 0 .. 3]

NoCall ==
  [at |-> "idle", retry |-> TRUE, sid |-> "none", ok |-> FALSE, logins |-> 0, sends |-> 0]

Init ==
  /\ jar = "none"
  /\ loggedIn = FALSE
  /\ call = [c \in Callers |-> NoCall]
  /\ expiries = 0
  /\ outages = 0

-----------------------------------------------------------------------------
(* Login.                                                                    *)

(* The answers of auth/login that mean success: 204 (qB 5), or 200 without   *)
(* "fails" in its text (qB 4).                                               *)
LoginSucceeds(a) == a.status = 204 \/ (a.status = 200 /\ a.text # "Fails.")
Refusals ==
  {[status |-> 200, text |-> "Fails."], [status |-> 401, text |-> ""],
   [status |-> 403, text |-> ""], [status |-> 502, text |-> ""]}
Grants == {[status |-> 204, text |-> ""], [status |-> 200, text |-> "Ok."]}

Goto(c, place) == call' = [call EXCEPT ![c].at = place]

(* request and its one repetition begin with ensureLogin.                    *)
Begin(c) ==
  /\ call[c].at \in Resting
  /\ call' = [call EXCEPT ![c] = [NoCall EXCEPT !.at = "ensure"]]
  /\ UNCHANGED <<jar, loggedIn, expiries, outages>>

EnsureLogin(c) ==
  /\ call[c].at = "ensure"
  /\ Goto(c, IF loggedIn THEN "send" ELSE "login")
  /\ UNCHANGED <<jar, loggedIn, expiries, outages>>

(* Login looks at the flag again: another caller may have logged in.         *)
LoginCheck(c) ==
  /\ call[c].at = "login"
  /\ Goto(c, IF loggedIn THEN "send" ELSE "post")
  /\ UNCHANGED <<jar, loggedIn, expiries, outages>>

(* The server opens a session, or the login fails and the flag is cleared.   *)
PostLogin(c) ==
  /\ call[c].at = "post"
  /\ \/ \E a \in Grants :
          /\ LoginSucceeds(a)
          /\ call' = [call EXCEPT ![c].at = "granted", ![c].sid = "live", ![c].logins = @ + 1]
          /\ UNCHANGED <<loggedIn, outages>>
     \/ /\ outages < MaxOutages
        /\ outages' = outages + 1
        /\ \E a \in Refusals : ~ LoginSucceeds(a)
        /\ loggedIn' = FALSE
        /\ call' = [call EXCEPT ![c].at = "failed", ![c].logins = @ + 1]
  /\ UNCHANGED <<jar, expiries>>

(* client.Do puts the answer's cookie in the jar, whoever else has put one   *)
(* there; the flag is set after the body has been read.                      *)
KeepCookie(c) ==
  /\ call[c].at = "granted"
  /\ jar' = call[c].sid
  /\ Goto(c, "store")
  /\ UNCHANGED <<loggedIn, expiries, outages>>

StoreFlag(c) ==
  /\ call[c].at = "store"
  /\ loggedIn' = TRUE
  /\ Goto(c, "send")
  /\ UNCHANGED <<jar, expiries, outages>>

-----------------------------------------------------------------------------
(* request.                                                                  *)

(* The server judges the cookie that the jar held; or no answer comes.       *)
Send(c) ==
  /\ call[c].at = "send"
  /\ \/ /\ call' = [call EXCEPT ![c].at = "answered", ![c].ok = (jar = "live"),
                                ![c].sends = @ + 1]
        /\ UNCHANGED outages
     \/ /\ outages < MaxOutages
        /\ outages' = outages + 1
        /\ call' = [call EXCEPT ![c].at = "failed", ![c].sends = @ + 1]
  /\ UNCHANGED <<jar, loggedIn, expiries>>

Served(c) ==
  /\ call[c].at = "answered" /\ call[c].ok
  /\ Goto(c, "served")
  /\ UNCHANGED <<jar, loggedIn, expiries, outages>>

(* 401 or 403, the first time.                                               *)
\* Fault for mutation: the repetition may be repeated.
RetryAgain(c) ==
  /\ call[c].at = "answered" /\ ~ call[c].ok /\ call[c].retry
  /\ loggedIn' = FALSE
  /\ call' = [call EXCEPT ![c].at = "ensure"]
  /\ UNCHANGED <<jar, expiries, outages>>
Retry(c) ==
  /\ call[c].at = "answered" /\ ~ call[c].ok /\ call[c].retry
  /\ loggedIn' = FALSE
  /\ call' = [call EXCEPT ![c].at = "ensure", ![c].retry = FALSE]
  /\ UNCHANGED <<jar, expiries, outages>>

(* The second time the answer goes to the caller, the flag stays as it is.   *)
Refused(c) ==
  /\ call[c].at = "answered" /\ ~ call[c].ok /\ ~ call[c].retry
  /\ Goto(c, "refused")
  /\ UNCHANGED <<jar, loggedIn, expiries, outages>>

(* The server forgets its sessions: a restart, or the idle limit.            *)
Forgotten(sid) == IF sid = "live" THEN "dead" ELSE sid
Expire ==
  /\ expiries < MaxExpiries
  /\ expiries' = expiries + 1
  /\ jar' = Forgotten(jar)
  /\ call' = [c \in Callers |-> [call[c] EXCEPT !.sid = Forgotten(@)]]
  /\ UNCHANGED <<loggedIn, outages>>

Step(c) ==
  \/ EnsureLogin(c) \/ LoginCheck(c) \/ PostLogin(c) \/ KeepCookie(c) \/ StoreFlag(c)
  \/ Send(c) \/ Served(c) \/ Retry(c) \/ Refused(c)

Next == Expire \/ \E c \in Callers : Begin(c) \/ Step(c)

Spec == Init /\ [][Next]_vars

(* A request that has begun is carried through, and the loops of the engine  *)
(* keep making requests.                                                     *)
Fairness == \A c \in Callers : WF_vars(Step(c)) /\ WF_vars(Begin(c))
FairSpec == Spec /\ Fairness

-----------------------------------------------------------------------------
(* Properties.                                                               *)

(* Every variable keeps its type.                                            *)
TypeOK ==
  /\ jar \in Sids /\ loggedIn \in BOOLEAN
  /\ call \in [Callers -> CallRecord]
  /\ expiries \in 0 .. MaxExpiries /\ outages \in 0 .. MaxOutages

(* One request costs at most two sends and two logins, whatever the other    *)
(* callers do to flag and jar meanwhile: no refusal loops.                   *)
ReloginBounded == \A c \in Callers : call[c].sends <= 2 /\ call[c].logins <= 2

(* Lost sessions heal: only finitely many requests are refused, for the      *)
(* server forgets its sessions only so often and no interleaving of flag and *)
(* jar leaves the instance with a dead cookie that it trusts.                *)
Recovers == \A c \in Callers : <>[](call[c].at # "refused")
=============================================================================
