------------------------------- MODULE WebAuth -------------------------------
(* Web access: the first-run password, the login limiter, the session and    *)
(* CSRF cookies with the middleware that checks them, and the tabs of the    *)
(* operator's browser, whose router guard and response interceptor follow    *)
(* what the server answers.  The tabs share the cookies; each holds a CSRF   *)
(* token of its own in memory.                                               *)
EXTENDS Integers, FiniteSets

CONSTANTS
  Tabs,       \* browser tabs
  Passwords,  \* what may be typed
  Env,        \* the passwords the environment may name for the first start
  None,
  Limit,      \* loginLimitPerMinute
  Window,     \* loginWindow, in ticks
  MaxFaults,  \* bound: database reads that fail
  MaxRestarts \* bound: restarts within one tick

ASSUME AuthAssumption ==
  /\ None \notin Passwords \cup Tabs /\ Env \subseteq Passwords
  /\ Limit \in Nat \ {0} /\ Window \in Nat \ {0}
  /\ MaxFaults \in Nat /\ MaxRestarts \in Nat

VARIABLES
  hash,     \* app_settings: the password, or None
  session,  \* the session cookie: none, valid or expired
  holder,   \* the tab whose token is the one in the CSRF cookie, or None
  tab,      \* per tab: the auth store, its page and what it waits for
  age,      \* limiter of the tabs' address: ticks since its window began, or Window
  count,    \* that limiter: attempts in the window
  recent,   \* history: attempts of that address let through, by ticks ago
  starts,   \* history: restarts of the process, by ticks ago
  faults    \* bound

server == <<hash, faults>>
cookies == <<session, holder>>
limiter == <<age, count, recent, starts>>
vars == <<server, cookies, tab, limiter>>

Pages == {"none", "setup", "login", "app"}
TabRecord ==
  [init : {"unknown", "yes", "no"}, in : BOOLEAN, page : Pages,
   wait : {"nothing", "status", "me", "insert"}, typed : Passwords \cup {None}]

NoTab ==
  [init |-> "unknown", in |-> FALSE, page |-> "none", wait |-> "nothing", typed |-> None]

Init ==
  /\ hash = None
  /\ session = "none"
  /\ holder = None
  /\ tab = [t \in Tabs |-> NoTab]
  /\ age = Window
  /\ count = 0
  /\ recent = [n \in 0 .. Window - 1 |-> 0]
  /\ starts = [n \in 0 .. Window - 1 |-> 0]
  /\ faults = 0

-----------------------------------------------------------------------------
(* The server.                                                               *)

(* SetupState: a read that fails counts as not initialised.                  *)
SetupState(answer) ==
  \/ answer = (hash # None) /\ UNCHANGED faults
  \/ answer = FALSE /\ faults < MaxFaults /\ faults' = faults + 1

(* StartSession: both cookies anew, and the token to the tab that asked.     *)
StartSession(t) == session' = "valid" /\ holder' = t

(* The middleware in front of every route but health, login and setup: the   *)
(* status of a request of tab t, 200 when the handler runs.                  *)
Checked(t, initialised, write) ==
  IF ~ initialised THEN 403
  ELSE IF session # "valid" THEN 401
  ELSE IF write /\ holder # t THEN 403
  ELSE 200

(* rateLimiter.allow, for the key of the tabs' address.                      *)
Allow(allowed) ==
  LET fresh == age >= Window
      used  == IF fresh THEN 0 ELSE count
  IN  /\ allowed = (used < Limit)
      /\ age' = IF fresh THEN 0 ELSE age
      /\ count' = IF allowed THEN used + 1 ELSE used
      /\ recent' = IF allowed THEN [recent EXCEPT ![0] = @ + 1] ELSE recent
      /\ UNCHANGED starts

-----------------------------------------------------------------------------
(* The browser.                                                              *)

(* router.beforeEach: where a navigation to path ends.                       *)
Guard(state, path) ==
  CASE state.init # "yes" -> "setup"
    [] state.init = "yes" /\ ~ state.in -> "login"
    [] OTHER -> IF path \in {"setup", "login"} THEN "app" ELSE path

Show(state, path) == [state EXCEPT !.page = Guard(state, path)]

(* The response interceptor: a 401 logs the tab out and asks for /login, a   *)
(* 403 asks for /setup; the guard decides.                                   *)
\* Fault for mutation: the store keeps believing in its session.
AfterStatusKeepingIn(state, status) ==
  CASE status = 401 -> Show(state, "login")
    [] status = 403 -> Show(state, "setup")
    [] OTHER -> state
AfterStatus(state, status) ==
  CASE status = 401 -> Show([state EXCEPT !.in = FALSE], "login")
    [] status = 403 -> Show(state, "setup")
    [] OTHER -> state

Idle(t) == tab[t].wait = "nothing"
Become(t, state) == tab' = [tab EXCEPT ![t] = state]

(* The page is loaded: the guard bootstraps the store first.                 *)
Load(t) ==
  /\ Idle(t)
  /\ Become(t, [NoTab EXCEPT !.wait = "status"])
  /\ UNCHANGED <<server, cookies, limiter>>

(* bootstrap: /setup/status, where a failure counts as not initialised, ...  *)
Status(t) ==
  /\ tab[t].wait = "status"
  /\ \E initialised \in BOOLEAN :
       /\ SetupState(initialised)
       /\ Become(t, IF initialised
                    THEN [tab[t] EXCEPT !.init = "yes", !.wait = "me"]
                    ELSE Show([tab[t] EXCEPT !.init = "no", !.wait = "nothing"], "app"))
  /\ UNCHANGED <<hash, cookies, limiter>>

(* ... then /auth/me, which also issues a new CSRF token.                    *)
Me(t) ==
  /\ tab[t].wait = "me"
  /\ \E initialised \in BOOLEAN :
       /\ SetupState(initialised)
       /\ LET ok == Checked(t, initialised, FALSE) = 200 IN
            /\ Become(t, Show([tab[t] EXCEPT !.in = ok, !.wait = "nothing"], "app"))
            /\ holder' = IF ok THEN t ELSE holder
  /\ UNCHANGED <<hash, session, limiter>>

(* The setup form: the handler looks first and inserts later.                *)
SetupCheck(t, pw) ==
  /\ Idle(t) /\ tab[t].page = "setup"
  /\ \E initialised \in BOOLEAN :
       /\ SetupState(initialised)
       /\ Become(t, IF initialised THEN AfterStatus(tab[t], 403)
                    ELSE [tab[t] EXCEPT !.wait = "insert", !.typed = pw])
  /\ UNCHANGED <<hash, cookies, limiter>>

(* CompleteSetup: the key is unique, so one INSERT wins.                     *)
\* Fault for mutation: the row is replaced.
SetupReplace(t) ==
  /\ tab[t].wait = "insert"
  /\ hash' = tab[t].typed
  /\ StartSession(t)
  /\ Become(t, Show([NoTab EXCEPT !.init = "yes", !.in = TRUE], "app"))
  /\ UNCHANGED <<faults, limiter>>
SetupInsert(t) ==
  /\ tab[t].wait = "insert"
  /\ \/ /\ hash = None
        /\ hash' = tab[t].typed
        /\ StartSession(t)
        /\ Become(t, Show([NoTab EXCEPT !.init = "yes", !.in = TRUE], "app"))
     \/ /\ hash # None
        /\ Become(t, AfterStatus([tab[t] EXCEPT !.wait = "nothing", !.typed = None], 403))
        /\ UNCHANGED <<hash, cookies>>
  /\ UNCHANGED <<faults, limiter>>

(* The login form: limiter, setup state, password.                           *)
Login(t, pw) ==
  /\ Idle(t) /\ tab[t].page = "login"
  /\ \E allowed \in BOOLEAN :
       /\ Allow(allowed)
       /\ \/ ~ allowed /\ UNCHANGED <<server, cookies, tab>>
          \/ /\ allowed
             /\ \E initialised \in BOOLEAN :
                  /\ SetupState(initialised)
                  /\ IF initialised /\ pw = hash
                     THEN /\ StartSession(t)
                          /\ Become(t, Show([tab[t] EXCEPT !.in = TRUE], "app"))
                     ELSE /\ Become(t, AfterStatus(tab[t], IF initialised THEN 401 ELSE 403))
                          /\ UNCHANGED cookies
             /\ UNCHANGED hash

(* A request of a view, reading or writing.                                  *)
Request(t) ==
  /\ Idle(t) /\ tab[t].page = "app"
  /\ \E write, initialised \in BOOLEAN :
       /\ SetupState(initialised)
       /\ Become(t, AfterStatus(tab[t], Checked(t, initialised, write)))
  /\ UNCHANGED <<hash, cookies, limiter>>

(* Logout is such a write; whatever it answers, the tab forgets its session. *)
Logout(t) ==
  /\ Idle(t) /\ tab[t].page = "app"
  /\ \E initialised \in BOOLEAN :
       /\ SetupState(initialised)
       /\ IF Checked(t, initialised, TRUE) = 200
          THEN session' = "none" /\ holder' = None
          ELSE UNCHANGED cookies
  /\ Become(t, Show([tab[t] EXCEPT !.in = FALSE], "login"))
  /\ UNCHANGED <<hash, limiter>>

(* The session's 24 hours are over.                                          *)
Expire ==
  /\ session = "valid"
  /\ session' = "expired"
  /\ UNCHANGED <<server, holder, tab, limiter>>

Tick ==
  /\ age' = IF age < Window THEN age + 1 ELSE age
  /\ recent' = [n \in 0 .. Window - 1 |-> IF n = 0 THEN 0 ELSE recent[n - 1]]
  /\ starts' = [n \in 0 .. Window - 1 |-> IF n = 0 THEN 0 ELSE starts[n - 1]]
  /\ UNCHANGED <<server, cookies, tab, count>>

(* The process starts anew: requests are lost, the limiter forgets its        *)
(* window, the session secret is read back, and a password of the            *)
(* environment is stored when there is none.  What was tried stays tried.    *)
Restart ==
  /\ starts[0] < MaxRestarts
  /\ hash' \in {hash} \cup (IF hash = None THEN Env ELSE {})
  /\ tab' = [t \in Tabs |-> IF Idle(t) THEN tab[t] ELSE NoTab]
  /\ age' = Window
  /\ count' = 0
  /\ starts' = [starts EXCEPT ![0] = @ + 1]
  /\ UNCHANGED <<faults, cookies, recent>>

TabNext(t) ==
  \/ Load(t) \/ Status(t) \/ Me(t) \/ SetupInsert(t) \/ Request(t) \/ Logout(t)
  \/ \E pw \in Passwords : SetupCheck(t, pw) \/ Login(t, pw)

Next == (\E t \in Tabs : TabNext(t)) \/ Expire \/ Tick \/ Restart

Spec == Init /\ [][Next]_vars

(* Requests that were sent are answered.  Nothing makes a tab send one: a view *)
(* loads once, when it is mounted, and the rest is the operator.             *)
Fairness == \A t \in Tabs : WF_vars(Status(t) \/ Me(t) \/ SetupInsert(t))
FairSpec == Spec /\ Fairness

-----------------------------------------------------------------------------
(* Properties.                                                               *)

(* Every variable keeps its type.                                            *)
TypeOK ==
  /\ hash \in Passwords \cup {None}
  /\ session \in {"none", "valid", "expired"}
  /\ holder \in Tabs \cup {None}
  /\ tab \in [Tabs -> TabRecord]
  /\ age \in 0 .. Window /\ count \in Nat
  /\ recent \in [0 .. Window - 1 -> Nat] /\ starts \in [0 .. Window - 1 -> Nat]
  /\ faults \in 0 .. MaxFaults

(* The administrator's password is set once: two first-run forms, a database *)
(* that hides the row and a restart with another AUTOSEED password cannot    *)
(* replace it.                                                               *)
PasswordSetOnce == [][hash # None => hash' = hash]_vars

(* In any stretch of a window's length fewer than two windows' worth of      *)
(* passwords is tried from one address, and one window's worth more for each *)
(* restart in it: the limiter's windows are fixed, so the rest of one and    *)
(* the whole of the next fall into the stretch, and they are kept in memory, *)
(* so a restart begins another.                                              *)
TotalUpTo[n \in 0 .. Window - 1] ==
  recent[n] + (IF n = 0 THEN 0 ELSE TotalUpTo[n - 1])
StartsUpTo[n \in 0 .. Window - 1] ==
  starts[n] + (IF n = 0 THEN 0 ELSE StartsUpTo[n - 1])
WithinLimit == TotalUpTo[Window - 1] < (2 + StartsUpTo[Window - 1]) * Limit

(* A tab that still shows the application after its session is gone ends at  *)
(* the login page (or finds a new session), if the operator goes on working  *)
(* in it, though reads of the setup state fail in between: interceptor and   *)
(* router guard do not send each other back and forth.  The premise is the   *)
(* operator's: a tab that nobody uses stays as it is, for no view asks the   *)
(* server again by itself.                                                   *)
KeepsWorking(t) == SF_vars(Request(t))
StaleTabLeaves ==
  \A t \in Tabs :
    KeepsWorking(t) =>
      ((tab[t].page = "app" /\ session # "valid")
         ~> (tab[t].page # "app" \/ session = "valid"))

(* The account is the first operator's for good, and guessing from one        *)
(* address is bounded: the two properties above (CompleteSetup, AllowLogin). *)
AccountGuarded == PasswordSetOnce /\ []WithinLimit
=============================================================================
