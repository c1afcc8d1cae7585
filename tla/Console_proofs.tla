-------------------------- MODULE Console_proofs ---------------------------
(* What the operator's side of the service promises, as the run explores it: *)
(* the session with qB, the configuration forms, the account, the pages of   *)
(* the event log and the restore of a backup, for any number of callers,     *)
(* tabs, credentials, entries and crashes.                                   *)
EXTENDS MCConsole, Ranks_proofs

-----------------------------------------------------------------------------
(* The session with qB: no request loops.                                    *)
(* What a call has cost by the time it is at a place, before its repetition  *)
(* (retry still allowed) and in it.  The bound on the whole follows from the *)
(* bounds at the places where another login or another send begins.          *)
LoggingIn == {"ensure", "login", "post"}
Sending == {"granted", "store", "send"}
Cost(r) ==
  /\ r.retry =>
       /\ r.at \in LoggingIn => r.sends = 0 /\ r.logins = 0
       /\ r.at \in Sending => r.sends = 0
       /\ r.sends <= 1 /\ r.logins <= 1
  /\ ~ r.retry =>
       /\ r.at \in LoggingIn => r.logins <= 1
       /\ r.at \in LoggingIn \cup Sending => r.sends <= 1
       /\ r.sends <= 2 /\ r.logins <= 2
Affordable ==
  /\ jar \in Session!Sids /\ loggedIn \in BOOLEAN
  /\ call \in [Callers -> Session!CallRecord]
  /\ \A c \in Callers : Cost(call[c])

LEMMA RecordFits ==
  ASSUME NEW place \in Session!Places, NEW b \in BOOLEAN, NEW s \in Session!Sids, NEW o \in BOOLEAN,
         NEW l \in 0 .. 3, NEW n \in 0 .. 3
  PROVE  [at |-> place, retry |-> b, sid |-> s, ok |-> o, logins |-> l, sends |-> n] \in Session!CallRecord
  BY DEF Session!CallRecord

(* A call begins at no cost.                                                 *)
LEMMA NoCallFits ==
  ASSUME NEW place \in {"idle", "ensure"}, NEW q, q = [Session!NoCall EXCEPT !.at = place]
  PROVE  q \in Session!CallRecord /\ Cost(q)
<1>1. q = [at |-> place, retry |-> TRUE, sid |-> "none", ok |-> FALSE,
           logins |-> 0, sends |-> 0]
  BY DEF Session!NoCall
<1>0. 0 \in 0 .. 3 /\ place \in Session!Places /\ "none" \in Session!Sids
  BY DEF Session!Places, Session!Sids
<1>b. TRUE \in BOOLEAN /\ FALSE \in BOOLEAN
  OBVIOUS
<1>2. q \in Session!CallRecord
  BY ONLY <1>0, <1>b, <1>1, RecordFits, Zenon
<1>3. q.retry /\ q.sends = 0 /\ q.logins = 0
  BY <1>1
<1> QED BY <1>2, <1>3 DEF Cost

LEMMA SessionInit == Session!Init => Affordable
<1> SUFFICES ASSUME Session!Init PROVE Affordable
  OBVIOUS
<1>1. Session!NoCall = [Session!NoCall EXCEPT !.at = "idle"]
  BY DEF Session!NoCall
<1>2. Session!NoCall \in Session!CallRecord /\ Cost(Session!NoCall)
  BY <1>1, NoCallFits
<1>3. call \in [Callers -> Session!CallRecord] /\ \A c \in Callers : Cost(call[c])
  BY <1>2 DEF Session!Init
<1> QED BY <1>3 DEF Session!Init, Affordable, Session!Sids

(* A step of one caller keeps the invariant if its new record does.          *)
LEMMA CallKept ==
  ASSUME Affordable, NEW c \in Callers, NEW r \in Session!CallRecord, Cost(r),
         call' = [call EXCEPT ![c] = r], jar' \in Session!Sids, loggedIn' \in BOOLEAN
  PROVE  Affordable'
<1>1. \A d \in Callers : call'[d] = IF d = c THEN r ELSE call[d]
  BY DEF Affordable
<1>2. \A d \in Callers : Cost(call'[d])
  BY <1>1 DEF Affordable
<1> QED BY <1>2 DEF Affordable

(* Moving on to a place keeps the invariant where the cost allows it.        *)
LEMMA GotoKept ==
  ASSUME Affordable, NEW c \in Callers, NEW place \in Session!Places, Session!Goto(c, place),
         jar' \in Session!Sids, loggedIn' \in BOOLEAN,
         place \in LoggingIn => call[c].at \in LoggingIn,
         place \in Sending => call[c].at \in LoggingIn \cup Sending
  PROVE  Affordable'
<1>1. PICK r \in Session!CallRecord : r = call[c]
  BY DEF Affordable
<1>2. PICK q : q = [r EXCEPT !.at = place]
  OBVIOUS
<1>3. /\ q \in Session!CallRecord /\ q.at = place
      /\ q.retry = r.retry /\ q.sends = r.sends /\ q.logins = r.logins
  BY <1>2 DEF Session!CallRecord
<1>4. Cost(r)
  BY <1>1 DEF Affordable
<1>5. r.sends \in 0 .. 3 /\ r.logins \in 0 .. 3 /\ r.retry \in BOOLEAN
  BY DEF Session!CallRecord
<1>6. Cost(q)
  BY <1>1, <1>3, <1>4, <1>5 DEF Cost, LoggingIn, Sending
<1>7. call' = [call EXCEPT ![c] = q]
  BY <1>1, <1>2 DEF Session!Goto, Affordable
<1> QED BY <1>3, <1>6, <1>7, CallKept

LEMMA SessionStep == ASSUME Affordable, NEW c \in Callers, Session!Begin(c) \/ Session!Step(c) PROVE Affordable'
<1>0. /\ jar \in Session!Sids /\ loggedIn \in BOOLEAN /\ call \in [Callers -> Session!CallRecord]
      /\ Cost(call[c])
  BY DEF Affordable
<1>1. PICK r \in Session!CallRecord : r = call[c]
  BY <1>0
<1>2. /\ r.at \in Session!Places /\ r.retry \in BOOLEAN /\ r.sid \in Session!Sids
      /\ r.logins \in 0 .. 3 /\ r.sends \in 0 .. 3 /\ Cost(r)
  BY <1>0, <1>1 DEF Session!CallRecord
<1>3. CASE Session!Begin(c)
  <2>1. PICK q : q = [Session!NoCall EXCEPT !.at = "ensure"]
    OBVIOUS
  <2>2. q \in Session!CallRecord /\ Cost(q)
    BY <2>1, NoCallFits
  <2> QED BY <1>0, <1>3, <2>1, <2>2, CallKept DEF Session!Begin
<1>4. CASE Session!EnsureLogin(c) \/ Session!LoginCheck(c)
  <2>1. \/ Session!Goto(c, "send") \/ Session!Goto(c, "login") \/ Session!Goto(c, "post")
    BY <1>4 DEF Session!EnsureLogin, Session!LoginCheck
  <2>2. call[c].at \in LoggingIn /\ UNCHANGED <<jar, loggedIn>>
    BY <1>4 DEF Session!EnsureLogin, Session!LoginCheck, LoggingIn
  <2> QED BY <1>0, <2>1, <2>2, GotoKept DEF Session!Places, LoggingIn, Sending
<1>5. CASE Session!PostLogin(c)
  <2>1. r.at = "post" /\ r.sends <= 1 /\ r.logins <= 1
        /\ (r.retry => r.sends = 0 /\ r.logins = 0)
    BY <1>1, <1>2, <1>5 DEF Session!PostLogin, Cost, LoggingIn
  <2>0. r.logins + 1 \in 0 .. 3
    BY <1>2, <2>1
  <2>2. CASE call' = [call EXCEPT ![c].at = "granted", ![c].sid = "live", ![c].logins = @ + 1]
             /\ UNCHANGED loggedIn
    <3>1. PICK q : q = [r EXCEPT !.at = "granted", !.sid = "live", !.logins = @ + 1]
      OBVIOUS
    <3>2. call' = [call EXCEPT ![c] = q]
      BY <1>0, <1>1, <2>2, <3>1
    <3>3. q \in Session!CallRecord
      BY <1>2, <2>0, <3>1 DEF Session!CallRecord, Session!Places, Session!Sids
    <3>4. q.at = "granted" /\ q.retry = r.retry /\ q.sends = r.sends /\ q.logins = r.logins + 1
      BY <3>1 DEF Session!CallRecord
    <3>5. Cost(q)
      BY <1>2, <2>1, <3>4 DEF Cost, LoggingIn, Sending
    <3> QED BY <1>0, <1>5, <2>2, <3>2, <3>3, <3>5, CallKept DEF Session!PostLogin
  <2>3. CASE call' = [call EXCEPT ![c].at = "failed", ![c].logins = @ + 1] /\ loggedIn' = FALSE
    <3>1. PICK q : q = [r EXCEPT !.at = "failed", !.logins = @ + 1]
      OBVIOUS
    <3>2. call' = [call EXCEPT ![c] = q]
      BY <1>0, <1>1, <2>3, <3>1
    <3>3. q \in Session!CallRecord
      BY <1>2, <2>0, <3>1 DEF Session!CallRecord, Session!Places, Session!Sids
    <3>4. q.at = "failed" /\ q.retry = r.retry /\ q.sends = r.sends /\ q.logins = r.logins + 1
      BY <3>1 DEF Session!CallRecord
    <3>5. Cost(q)
      BY <1>2, <2>1, <3>4 DEF Cost, LoggingIn, Sending
    <3> QED BY <1>0, <1>5, <2>3, <3>2, <3>3, <3>5, CallKept DEF Session!PostLogin
  <2> QED BY <1>5, <2>2, <2>3 DEF Session!PostLogin
<1>6. CASE Session!KeepCookie(c) \/ Session!StoreFlag(c)
  <2>1. call[c].at \in Sending /\ (Session!Goto(c, "store") \/ Session!Goto(c, "send"))
    BY <1>6 DEF Session!KeepCookie, Session!StoreFlag, Sending
  <2>2. jar' \in Session!Sids /\ loggedIn' \in BOOLEAN
    BY <1>0, <1>1, <1>2, <1>6 DEF Session!KeepCookie, Session!StoreFlag
  <2> QED BY <2>1, <2>2, GotoKept DEF Session!Places, LoggingIn, Sending
<1>7. CASE Session!Send(c)
  <2>1. r.at = "send" /\ r.sends <= 1 /\ (r.retry => r.sends = 0)
    BY <1>1, <1>2, <1>7 DEF Session!Send, Cost, Sending
  <2>0. r.sends + 1 \in 0 .. 3 /\ (jar = "live") \in BOOLEAN
    BY <1>2, <2>1
  <2>2. CASE call' = [call EXCEPT ![c].at = "answered", ![c].ok = (jar = "live"), ![c].sends = @ + 1]
    <3>1. PICK q : q = [r EXCEPT !.at = "answered", !.ok = (jar = "live"), !.sends = @ + 1]
      OBVIOUS
    <3>2. call' = [call EXCEPT ![c] = q]
      BY <1>0, <1>1, <2>2, <3>1
    <3>3. q \in Session!CallRecord
      BY <1>2, <2>0, <3>1 DEF Session!CallRecord, Session!Places, Session!Sids
    <3>4. q.at = "answered" /\ q.retry = r.retry /\ q.sends = r.sends + 1 /\ q.logins = r.logins
      BY <3>1 DEF Session!CallRecord
    <3>5. Cost(q)
      BY <1>2, <2>1, <3>4 DEF Cost, LoggingIn, Sending
    <3> QED BY <1>0, <1>7, <3>2, <3>3, <3>5, CallKept DEF Session!Send
  <2>3. CASE call' = [call EXCEPT ![c].at = "failed", ![c].sends = @ + 1]
    <3>1. PICK q : q = [r EXCEPT !.at = "failed", !.sends = @ + 1]
      OBVIOUS
    <3>2. call' = [call EXCEPT ![c] = q]
      BY <1>0, <1>1, <2>3, <3>1
    <3>3. q \in Session!CallRecord
      BY <1>2, <2>0, <3>1 DEF Session!CallRecord, Session!Places, Session!Sids
    <3>4. q.at = "failed" /\ q.retry = r.retry /\ q.sends = r.sends + 1 /\ q.logins = r.logins
      BY <3>1 DEF Session!CallRecord
    <3>5. Cost(q)
      BY <1>2, <2>1, <3>4 DEF Cost, LoggingIn, Sending
    <3> QED BY <1>0, <1>7, <3>2, <3>3, <3>5, CallKept DEF Session!Send
  <2> QED BY <1>7, <2>2, <2>3 DEF Session!Send
<1>8. CASE Session!Served(c) \/ Session!Refused(c)
  <2>1. UNCHANGED <<jar, loggedIn>> /\ (Session!Goto(c, "served") \/ Session!Goto(c, "refused"))
    BY <1>8 DEF Session!Served, Session!Refused
  <2> QED BY <1>0, <2>1, GotoKept DEF Session!Places, LoggingIn, Sending
<1>9. CASE Session!Retry(c)
  <2>1. PICK q : q = [r EXCEPT !.at = "ensure", !.retry = FALSE]
    OBVIOUS
  <2>2. call' = [call EXCEPT ![c] = q]
    BY <1>0, <1>1, <1>9, <2>1 DEF Session!Retry
  <2>3. r.retry
    BY <1>1, <1>9 DEF Session!Retry
  <2>4. q \in Session!CallRecord
    BY <1>2, <2>1 DEF Session!CallRecord, Session!Places
  <2>5. q.at = "ensure" /\ ~ q.retry /\ q.sends = r.sends /\ q.logins = r.logins
    BY <2>1 DEF Session!CallRecord
  <2>6. Cost(q)
    BY <1>2, <2>3, <2>5 DEF Cost, LoggingIn, Sending
  <2> QED BY <1>0, <1>9, <2>2, <2>4, <2>6, CallKept DEF Session!Retry
<1> QED BY <1>3, <1>4, <1>5, <1>6, <1>7, <1>8, <1>9 DEF Session!Step

(* A session that the server forgets changes no cost.                        *)
LEMMA SessionExpires == ASSUME Affordable, Session!Expire PROVE Affordable'
<1>1. \A s \in Session!Sids : Session!Forgotten(s) \in Session!Sids
  BY DEF Session!Forgotten, Session!Sids
<1>2. jar' \in Session!Sids /\ UNCHANGED loggedIn
  BY <1>1 DEF Session!Expire, Affordable
<1>3. ASSUME NEW c \in Callers
      PROVE  call'[c] \in Session!CallRecord /\ Cost(call'[c])
  <2>1. PICK r \in Session!CallRecord : r = call[c]
    BY DEF Affordable
  <2>2. PICK q : q = [r EXCEPT !.sid = Session!Forgotten(@)]
    OBVIOUS
  <2>3. call'[c] = q
    BY <2>1, <2>2 DEF Session!Expire
  <2>4. q \in Session!CallRecord
    BY <1>1, <2>2 DEF Session!CallRecord
  <2>5. q.at = r.at /\ q.retry = r.retry /\ q.sends = r.sends /\ q.logins = r.logins
    BY <2>2 DEF Session!CallRecord
  <2>6. Cost(r)
    BY <2>1 DEF Affordable
  <2> QED BY <2>3, <2>4, <2>5, <2>6 DEF Cost
<1>4. call' \in [Callers -> Session!CallRecord]
  BY <1>3 DEF Session!Expire
<1> QED BY <1>2, <1>3, <1>4 DEF Affordable

LEMMA SessionNext == Affordable /\ [Session!Next]_(Session!vars) => Affordable'
<1> SUFFICES ASSUME Affordable, [Session!Next]_(Session!vars) PROVE Affordable'
  OBVIOUS
<1>1. CASE UNCHANGED Session!vars
  BY <1>1 DEF Session!vars, Affordable
<1> QED BY <1>1, SessionStep, SessionExpires DEF Session!Next

LEMMA BoundedByCost == Affordable => Session!ReloginBounded
<1> SUFFICES ASSUME Affordable, NEW c \in Callers PROVE call[c].sends <= 2 /\ call[c].logins <= 2
  BY DEF Session!ReloginBounded
<1>1. PICK r \in Session!CallRecord : r = call[c] /\ Cost(r)
  BY DEF Affordable
<1>2. r.sends \in 0 .. 3 /\ r.logins \in 0 .. 3 /\ r.retry \in BOOLEAN
  BY DEF Session!CallRecord
<1> QED BY <1>1, <1>2 DEF Cost


LEMMA SessionPart == [PartsNext]_allVars => [Session!Next]_(Session!vars)
  BY DEF PartsNext, allVars, configVars, backupVars, sessionVars, Session!vars

(* One request costs at most two sends and two logins, whatever the other    *)
(* callers and the server do to flag, jar and session (request).             *)
THEOREM RequestsBounded == PartsSpec => []RequestsCheap
<1>1. PartsInit => Session!Init
  BY DEF PartsInit
<1>2. Affordable => RequestsCheap
  BY BoundedByCost DEF RequestsCheap
<1> QED BY <1>1, <1>2, SessionInit, SessionNext, SessionPart, PTL DEF PartsSpec

-----------------------------------------------------------------------------
(* The account.                                                              *)

(* The ticks a window looks back over, and what adds them up.                *)
Ticks == 0 .. Window - 1
Totals(t, r) == \A n \in Ticks : t[n] = r[n] + (IF n = 0 THEN 0 ELSE t[n - 1])

(* The totals of the ticks up to m.                                          *)
PartTotals(r, m) ==
  \E t \in [0 .. m -> Nat] : \A n \in 0 .. m : t[n] = r[n] + (IF n = 0 THEN 0 ELSE t[n - 1])

LEMMA OneTotalMore ==
  ASSUME NEW r \in [Ticks -> Nat], NEW m \in Nat, m + 1 \in Ticks, PartTotals(r, m)
  PROVE  PartTotals(r, m + 1)
<1>1. PICK t \in [0 .. m -> Nat] :
        \A n \in 0 .. m : t[n] = r[n] + (IF n = 0 THEN 0 ELSE t[n - 1])
  BY DEF PartTotals
<1> DEFINE u == [n \in 0 .. m + 1 |-> IF n = m + 1 THEN r[n] + t[m] ELSE t[n]]
<1>2. r[m + 1] \in Nat /\ t[m] \in Nat
  OBVIOUS
<1>3. u \in [0 .. m + 1 -> Nat]
  BY <1>2
<1>4. ASSUME NEW n \in 0 .. m + 1 PROVE u[n] = r[n] + (IF n = 0 THEN 0 ELSE u[n - 1])
  <2>1. CASE n = m + 1
    <3>1. n # 0 /\ n - 1 \in 0 .. m + 1 /\ n - 1 # m + 1 /\ n - 1 = m
      BY <2>1
    <3> QED BY <2>1, <3>1
  <2>2. CASE n \in 0 .. m
    <3>1. n # m + 1 /\ u[n] = t[n]
      BY <2>2
    <3>2. n # 0 => n - 1 \in 0 .. m + 1 /\ n - 1 # m + 1 /\ u[n - 1] = t[n - 1]
      BY <2>2
    <3> HIDE DEF u
    <3> QED BY <1>1, <2>2, <3>1, <3>2
  <2> QED BY <2>1, <2>2
<1> HIDE DEF u
<1> QED BY <1>3, <1>4 DEF PartTotals

LEMMA AllTotals ==
  ASSUME NEW r \in [Ticks -> Nat]
  PROVE  \A m \in Ticks : PartTotals(r, m)
<1> DEFINE Bad == {m \in Ticks : ~ PartTotals(r, m)}
<1> SUFFICES ASSUME Bad # {} PROVE FALSE
  OBVIOUS
<1>0. Window \in Nat \ {0}
  BY AuthAssumption
<1>1. PICK least \in Bad : \A y \in Bad : least <= y
  <2>1. Bad \subseteq Nat
    BY <1>0 DEF Ticks
  <2> HIDE DEF Bad
  <2> QED BY <2>1, LeastNat
<1>2. least \in Ticks /\ ~ PartTotals(r, least)
  OBVIOUS
<1>3. least # 0
  <2> SUFFICES ASSUME least = 0 PROVE FALSE
    OBVIOUS
  <2> DEFINE t == [n \in 0 .. 0 |-> r[0]]
  <2>1. r[0] \in Nat
    BY <1>0 DEF Ticks
  <2>2. t \in [0 .. 0 -> Nat] /\ t[0] = r[0]
    BY <2>1
  <2>3. \A n \in 0 .. 0 : n = 0
    OBVIOUS
  <2> HIDE DEF t
  <2>4. PartTotals(r, 0)
    BY <2>1, <2>2, <2>3 DEF PartTotals
  <2> QED BY <1>2, <2>4
<1>4. least - 1 \in Ticks /\ least - 1 \in Nat /\ ~ (least <= least - 1) /\ (least - 1) + 1 = least
  BY <1>0, <1>2, <1>3 DEF Ticks
<1>5. PartTotals(r, least - 1)
  BY <1>1, <1>4
<1> QED BY <1>2, <1>4, <1>5, OneTotalMore

(* TotalUpTo is what its recursion says.                                     *)
Summed(r) == CHOOSE t : t = [n \in Ticks |-> r[n] + (IF n = 0 THEN 0 ELSE t[n - 1])]

LEMMA SummedTotals ==
  ASSUME NEW r \in [Ticks -> Nat]
  PROVE  Summed(r) \in [Ticks -> Nat] /\ Totals(Summed(r), r)
<1>0. Window \in Nat \ {0} /\ Window - 1 \in Ticks /\ Ticks = 0 .. Window - 1
  BY AuthAssumption DEF Ticks
<1>1. PICK t \in [Ticks -> Nat] : \A n \in Ticks : t[n] = r[n] + (IF n = 0 THEN 0 ELSE t[n - 1])
  BY <1>0, AllTotals DEF PartTotals
<1>2. t = [n \in Ticks |-> r[n] + (IF n = 0 THEN 0 ELSE t[n - 1])]
  BY <1>1
<1>3. Summed(r) = [n \in Ticks |-> r[n] + (IF n = 0 THEN 0 ELSE Summed(r)[n - 1])]
  BY <1>2 DEF Summed
<1> DEFINE s == Summed(r)
<1>4. DOMAIN s = Ticks /\ \A n \in Ticks : s[n] = r[n] + (IF n = 0 THEN 0 ELSE s[n - 1])
  BY <1>3
<1>5. Totals(s, r)
  BY <1>4 DEF Totals
<1> HIDE DEF s
<1>6. ASSUME NEW n \in Ticks PROVE s[n] = t[n]
  <2> DEFINE Bad == {m \in Ticks : s[m] # t[m]}
  <2> SUFFICES ASSUME Bad # {} PROVE FALSE
    OBVIOUS
  <2>1. PICK least \in Bad : \A y \in Bad : least <= y
    <3>1. Bad \subseteq Nat
      BY <1>0
    <3> HIDE DEF Bad
    <3> QED BY <3>1, LeastNat
  <2>2. least \in Ticks /\ s[least] # t[least]
    OBVIOUS
  <2>3. least = 0 \/ (least - 1 \in Ticks /\ ~ (least <= least - 1))
    BY <1>0, <2>2
  <2>4. least = 0 \/ s[least - 1] = t[least - 1]
    BY <2>1, <2>3
  <2> QED BY <1>1, <1>4, <2>2, <2>4
<1>7. s = [n \in Ticks |-> s[n]]
  BY <1>3 DEF s
<1>8. s \in [Ticks -> Nat]
  BY <1>6, <1>7
<1> QED BY <1>5, <1>8 DEF s

LEMMA TotalsAre == TotalUpTo = Summed(recent) /\ StartsUpTo = Summed(starts)
  BY DEF TotalUpTo, StartsUpTo, Summed, Ticks

(* Totals grow along the window; a tick later they are the same, one place   *)
(* on; an attempt adds one to each of them.                                  *)
LEMMA TotalsGrow ==
  ASSUME NEW t \in [Ticks -> Nat], NEW r \in [Ticks -> Nat], Totals(t, r),
         NEW n \in Ticks, n # 0
  PROVE  t[n - 1] <= t[n] /\ n - 1 \in Ticks
<1>1. n - 1 \in Ticks /\ t[n] = r[n] + t[n - 1]
  BY AuthAssumption DEF Totals, Ticks
<1>2. t[n] \in Nat /\ t[n - 1] \in Nat /\ r[n] \in Nat
  BY <1>1
<1> QED BY <1>1, <1>2

LEMMA TotalsShift ==
  ASSUME NEW t \in [Ticks -> Nat], NEW r \in [Ticks -> Nat], Totals(t, r),
         NEW u \in [Ticks -> Nat], NEW q \in [Ticks -> Nat], Totals(u, q),
         q = [n \in Ticks |-> IF n = 0 THEN 0 ELSE r[n - 1]]
  PROVE  \A n \in Ticks : u[n] = IF n = 0 THEN 0 ELSE t[n - 1]
<1> DEFINE Bad == {m \in Ticks : u[m] # IF m = 0 THEN 0 ELSE t[m - 1]}
<1> SUFFICES ASSUME Bad # {} PROVE FALSE
  OBVIOUS
<1>0. Window \in Nat \ {0}
  BY AuthAssumption
<1>1. PICK least \in Bad : \A y \in Bad : least <= y
  <2>1. Bad \subseteq Nat
    BY <1>0 DEF Ticks
  <2> HIDE DEF Bad
  <2> QED BY <2>1, LeastNat
<1>2. least \in Ticks /\ u[least] # IF least = 0 THEN 0 ELSE t[least - 1]
  OBVIOUS
<1>3. least # 0
  <2>1. 0 \in Ticks /\ q[0] = 0
    BY <1>0 DEF Ticks
  <2> QED BY <1>2, <2>1 DEF Totals
<1>4. least - 1 \in Ticks /\ ~ (least <= least - 1)
  BY <1>0, <1>2, <1>3 DEF Ticks
<1>5. u[least - 1] = IF least - 1 = 0 THEN 0 ELSE t[(least - 1) - 1]
  BY <1>1, <1>4
<1>6. t[least - 1] = r[least - 1] + (IF least - 1 = 0 THEN 0 ELSE t[(least - 1) - 1])
  BY <1>4 DEF Totals
<1>7. u[least] = r[least - 1] + u[least - 1]
  BY <1>2, <1>3 DEF Totals
<1> QED BY <1>2, <1>3, <1>5, <1>6, <1>7

Newest(q, r) == q[0] = r[0] + 1 /\ \A n \in Ticks \ {0} : q[n] = r[n]
OneMore(u, t) == \A n \in Ticks : u[n] = t[n] + 1

LEMMA TotalsBump ==
  ASSUME NEW t \in [Ticks -> Nat], NEW r \in [Ticks -> Nat], Totals(t, r),
         NEW u \in [Ticks -> Nat], NEW q \in [Ticks -> Nat], Totals(u, q),
         Newest(q, r)
  PROVE  OneMore(u, t)
<1> DEFINE Bad == {m \in Ticks : u[m] # t[m] + 1}
<1> SUFFICES ASSUME Bad # {} PROVE FALSE
  BY DEF OneMore
<1>0. Window \in Nat \ {0}
  BY AuthAssumption
<1>1. PICK least \in Bad : \A y \in Bad : least <= y
  <2>1. Bad \subseteq Nat
    BY <1>0 DEF Ticks
  <2> HIDE DEF Bad
  <2> QED BY <2>1, LeastNat
<1>2. least \in Ticks /\ u[least] # t[least] + 1
  OBVIOUS
<1>3. least # 0
  <2>1. 0 \in Ticks /\ q[0] = r[0] + 1
    BY <1>0 DEF Ticks, Newest
  <2>2. u[0] = q[0] /\ t[0] = r[0]
    <3>1. q[0] \in Nat /\ r[0] \in Nat
      BY <2>1
    <3> QED BY <2>1, <3>1 DEF Totals
  <2> QED BY <1>2, <2>1, <2>2
<1>4. least - 1 \in Ticks /\ ~ (least <= least - 1)
  BY <1>0, <1>2, <1>3 DEF Ticks
<1>5. u[least - 1] = t[least - 1] + 1
  BY <1>1, <1>4
<1>6. q[least] = r[least] /\ u[least] = q[least] + u[least - 1] /\ t[least] = r[least] + t[least - 1]
  BY <1>2, <1>3 DEF Totals, Newest
<1>7. r[least] \in Nat /\ t[least - 1] \in Nat
  BY <1>2, <1>4
<1> QED BY <1>2, <1>5, <1>6, <1>7

LEMMA NoTotals ==
  ASSUME NEW t \in [Ticks -> Nat], Totals(t, [n \in Ticks |-> 0])
  PROVE  \A n \in Ticks : t[n] = 0
<1> DEFINE Bad == {m \in Ticks : t[m] # 0}
<1> SUFFICES ASSUME Bad # {} PROVE FALSE
  OBVIOUS
<1>0. Window \in Nat \ {0}
  BY AuthAssumption
<1>1. PICK least \in Bad : \A y \in Bad : least <= y
  <2>1. Bad \subseteq Nat
    BY <1>0 DEF Ticks
  <2> HIDE DEF Bad
  <2> QED BY <2>1, LeastNat
<1>2. least \in Ticks /\ t[least] # 0
  OBVIOUS
<1>3. least = 0 \/ (least - 1 \in Ticks /\ ~ (least <= least - 1))
  BY <1>0, <1>2 DEF Ticks
<1>4. least = 0 \/ t[least - 1] = 0
  BY <1>1, <1>3
<1>5. t[least] = 0 + (IF least = 0 THEN 0 ELSE t[least - 1])
  BY <1>2 DEF Totals
<1> QED BY <1>2, <1>4, <1>5

(* The limiter.  A window is begun by an attempt, so in an open one something *)
(* is counted.  Over the last ticks in which a window has been open, fewer    *)
(* passed than it counts, because the first of them came before; over more   *)
(* ticks, what is counted comes on top of fewer than one window's worth and  *)
(* one more for each restart; and with no window open there is nothing on    *)
(* top.                                                                      *)
Allowance(n) == Limit * (n + 1)
Limited(t, s, a, c) ==
  \A n \in Ticks :
    /\ a = Window => t[n] < Allowance(s[n])
    /\ a < Window /\ n < a => t[n] < c
    /\ a < Window /\ ~ (n < a) => t[n] < Allowance(s[n]) + c
LimiterKeeps ==
  /\ age \in 0 .. Window /\ count \in 0 .. Limit
  /\ age < Window => count # 0
  /\ recent \in [Ticks -> Nat] /\ starts \in [Ticks -> Nat]
  /\ Limited(Summed(recent), Summed(starts), age, count)

LEMMA Allowances ==
  ASSUME NEW n \in Nat
  PROVE  /\ Allowance(n) \in Nat /\ Limit <= Allowance(n)
         /\ Allowance(n + 1) = Allowance(n) + Limit
<1>1. Limit \in Nat \ {0}
  BY AuthAssumption
<1>2. Limit * (n + 1) = Limit * n + Limit /\ Limit * ((n + 1) + 1) = Limit * n + Limit + Limit
  BY <1>1
<1>3. Limit * n \in Nat
  BY <1>1
<1> QED BY <1>1, <1>2, <1>3 DEF Allowance

LEMMA NoHistory ==
  ASSUME NEW r, r = [n \in Ticks |-> 0]
  PROVE  r \in [Ticks -> Nat] /\ \A n \in Ticks : Summed(r)[n] = 0
<1>1. r \in [Ticks -> Nat]
  BY AuthAssumption
<1> QED BY <1>1, SummedTotals, NoTotals

LEMMA LimiterInit == Init => LimiterKeeps
<1> SUFFICES ASSUME Init PROVE LimiterKeeps
  OBVIOUS
<1>1. recent = [n \in Ticks |-> 0] /\ starts = [n \in Ticks |-> 0] /\ age = Window /\ count = 0
  BY DEF Init, Ticks
<1>2. /\ recent \in [Ticks -> Nat] /\ starts \in [Ticks -> Nat]
      /\ \A n \in Ticks : Summed(recent)[n] = 0 /\ Summed(starts)[n] = 0
  BY <1>1, NoHistory
<1>3. 0 < Allowance(0)
  BY AuthAssumption DEF Allowance
<1>a. ~ (age < Window)
  BY <1>1, AuthAssumption
<1>b. \A n \in Ticks : Summed(recent)[n] < Allowance(Summed(starts)[n])
  BY <1>2, <1>3
<1>4. Limited(Summed(recent), Summed(starts), age, count)
  BY <1>a, <1>b DEF Limited
<1> QED BY <1>1, <1>2, <1>4, AuthAssumption DEF LimiterKeeps

LEMMA LimiterTyped ==
  ASSUME LimiterKeeps
  PROVE  /\ Window \in Nat \ {0} /\ Limit \in Nat \ {0} /\ Ticks = 0 .. Window - 1
         /\ age \in 0 .. Window /\ count \in 0 .. Limit
         /\ Summed(recent) \in [Ticks -> Nat] /\ Totals(Summed(recent), recent)
         /\ Summed(starts) \in [Ticks -> Nat] /\ Totals(Summed(starts), starts)
  BY AuthAssumption, SummedTotals DEF LimiterKeeps, Ticks

(* A bump of the newest tick.                                                *)
LEMMA Bumped ==
  ASSUME NEW r \in [Ticks -> Nat], NEW q, q = [r EXCEPT ![0] = @ + 1]
  PROVE  q \in [Ticks -> Nat] /\ \A n \in Ticks : Summed(q)[n] = Summed(r)[n] + 1
<1>1. 0 \in Ticks
  BY AuthAssumption DEF Ticks
<1>2. q \in [Ticks -> Nat] /\ Newest(q, r)
  BY <1>1 DEF Newest
<1>3. /\ Summed(r) \in [Ticks -> Nat] /\ Totals(Summed(r), r)
      /\ Summed(q) \in [Ticks -> Nat] /\ Totals(Summed(q), q)
  BY <1>2, SummedTotals
<1>4. OneMore(Summed(q), Summed(r))
  BY <1>2, <1>3, TotalsBump
<1> QED BY <1>2, <1>4 DEF OneMore

(* A tick.                                                                   *)
LEMMA Shifted ==
  ASSUME NEW r \in [Ticks -> Nat], NEW q,
         q = [n \in Ticks |-> IF n = 0 THEN 0 ELSE r[n - 1]]
  PROVE  /\ q \in [Ticks -> Nat]
         /\ \A n \in Ticks : Summed(q)[n] = IF n = 0 THEN 0 ELSE Summed(r)[n - 1]
<1>1. \A n \in Ticks : n # 0 => n - 1 \in Ticks
  BY AuthAssumption DEF Ticks
<1>2. q \in [Ticks -> Nat]
  BY <1>1
<1> QED BY <1>2, SummedTotals, TotalsShift

LEMMA LimiterAllows ==
  ASSUME LimiterKeeps, NEW allowed \in BOOLEAN, Allow(allowed)
  PROVE  LimiterKeeps'
<1> DEFINE t == Summed(recent)
           u == Summed(recent')
           s == Summed(starts)
<1>1. /\ Window \in Nat \ {0} /\ Limit \in Nat \ {0}
      /\ age \in 0 .. Window /\ count \in 0 .. Limit /\ Ticks = 0 .. Window - 1
      /\ t \in [Ticks -> Nat] /\ s \in [Ticks -> Nat]
  BY LimiterTyped
<1>2. /\ age < Window => count # 0
      /\ recent \in [Ticks -> Nat] /\ starts \in [Ticks -> Nat] /\ Limited(t, s, age, count)
  BY DEF LimiterKeeps
<1>3. starts' = starts
  BY DEF Allow
<1>4. CASE ~ allowed
  <2>1. ~ (age >= Window)
    <3>1. age >= Window => allowed = (0 < Limit)
      BY Zenon DEF Allow
    <3> QED BY <1>1, <1>4, <3>1
  <2>2. UNCHANGED <<age, count, recent>>
    BY <1>4, <2>1 DEF Allow
  <2> QED BY <1>1, <1>2, <1>3, <2>2 DEF LimiterKeeps
<1>5. CASE allowed
  <2>1. recent' = [recent EXCEPT ![0] = @ + 1]
    BY <1>5 DEF Allow
  <2>2. recent' \in [Ticks -> Nat] /\ \A n \in Ticks : u[n] = t[n] + 1
    BY <1>2, <2>1, Bumped
  <2> HIDE DEF t, u, s
  <2>3. CASE age = Window
    <3>1. age' = 0 /\ count' = 1
      BY <1>1, <1>5, <2>3 DEF Allow
    <3>2. ASSUME NEW n \in Ticks PROVE u[n] < Allowance(s[n]) + 1
      <4>1. t[n] < Allowance(s[n]) /\ t[n] \in Nat /\ s[n] \in Nat
        BY <1>1, <1>2, <2>3 DEF Limited
      <4>2. Allowance(s[n]) \in Nat
        BY <4>1, Allowances
      <4> HIDE DEF Allowance
      <4> QED BY <2>2, <4>1, <4>2
    <3>3. \A n \in Ticks : ~ (n < 0)
      BY <1>1
    <3>4. Limited(u, s, age', count')
      BY <1>1, <3>1, <3>2, <3>3 DEF Limited
    <3>5. age' \in 0 .. Window /\ count' \in 0 .. Limit /\ count' # 0
      BY <1>1, <3>1
    <3>6. Limited(Summed(recent'), Summed(starts'), age', count')
      BY <1>3, <3>4 DEF u, s
    <3> QED BY <1>2, <1>3, <2>2, <3>5, <3>6 DEF LimiterKeeps
  <2>4. CASE age < Window
    <3>0. ~ (age >= Window) /\ age # Window
      BY <1>1, <2>4
    <3>1. age' = age /\ count' = count + 1 /\ count < Limit
      BY <1>5, <3>0 DEF Allow
    <3>2. ASSUME NEW n \in Ticks
          PROVE  /\ n < age => u[n] < count + 1
                 /\ ~ (n < age) => u[n] < Allowance(s[n]) + (count + 1)
      <4>1. /\ n < age => t[n] < count
            /\ ~ (n < age) => t[n] < Allowance(s[n]) + count
            /\ t[n] \in Nat /\ s[n] \in Nat
        BY <1>1, <1>2, <2>4 DEF Limited
      <4>2. Allowance(s[n]) \in Nat
        BY <4>1, Allowances
      <4>3. u[n] = t[n] + 1 /\ count \in Nat
        BY <1>1, <2>2
      <4> HIDE DEF Allowance
      <4>4. n < age => u[n] < count + 1
        BY <4>1, <4>3
      <4>5. ~ (n < age) => u[n] < Allowance(s[n]) + (count + 1)
        BY <4>1, <4>2, <4>3
      <4> QED BY <4>4, <4>5
    <3>3. Limited(u, s, age', count')
      BY <3>0, <3>1, <3>2 DEF Limited
    <3>4. count' \in 0 .. Limit /\ count' # 0
      BY <1>1, <3>1
    <3> QED BY <1>1, <1>2, <1>3, <2>2, <3>1, <3>3, <3>4 DEF LimiterKeeps, u, s
  <2> QED BY <1>1, <2>3, <2>4
<1> QED BY <1>4, <1>5

LEMMA LimiterTicks == ASSUME LimiterKeeps, Tick PROVE LimiterKeeps'
<1> DEFINE t == Summed(recent)
           u == Summed(recent')
           s == Summed(starts)
           v == Summed(starts')
<1>1. /\ Window \in Nat \ {0} /\ Limit \in Nat \ {0}
      /\ age \in 0 .. Window /\ count \in 0 .. Limit /\ Ticks = 0 .. Window - 1
      /\ t \in [Ticks -> Nat] /\ s \in [Ticks -> Nat]
  BY LimiterTyped
<1>2. /\ age < Window => count # 0
      /\ recent \in [Ticks -> Nat] /\ starts \in [Ticks -> Nat] /\ Limited(t, s, age, count)
  BY DEF LimiterKeeps
<1>3. /\ recent' = [n \in Ticks |-> IF n = 0 THEN 0 ELSE recent[n - 1]] /\ count' = count
      /\ starts' = [n \in Ticks |-> IF n = 0 THEN 0 ELSE starts[n - 1]]
      /\ age' = IF age < Window THEN age + 1 ELSE age
  BY DEF Tick, Ticks
<1>4. /\ recent' \in [Ticks -> Nat] /\ \A n \in Ticks : u[n] = IF n = 0 THEN 0 ELSE t[n - 1]
      /\ starts' \in [Ticks -> Nat] /\ \A n \in Ticks : v[n] = IF n = 0 THEN 0 ELSE s[n - 1]
  BY <1>2, <1>3, Shifted
<1> HIDE DEF t, u, s, v
<1>5. age' \in 0 .. Window /\ (age' < Window => count # 0)
  BY <1>1, <1>2, <1>3
<1>6. ASSUME NEW n \in Ticks
      PROVE  /\ age' = Window => u[n] < Allowance(v[n])
             /\ age' < Window /\ n < age' => u[n] < count
             /\ age' < Window /\ ~ (n < age') => u[n] < Allowance(v[n]) + count
  <2>1. CASE n = 0
    <3>1. u[n] = 0 /\ v[n] = 0
      BY <1>4, <2>1
    <3>2. Allowance(0) \in Nat /\ 0 < Allowance(0)
      BY <1>1, Allowances
    <3> HIDE DEF Allowance
    <3> QED BY <1>1, <1>5, <3>1, <3>2
  <2>2. CASE n # 0
    <3>1. n - 1 \in Ticks /\ u[n] = t[n - 1] /\ v[n] = s[n - 1] /\ n - 1 < Window - 1
      BY <1>1, <1>4, <2>2
    <3>2. t[n - 1] \in Nat /\ s[n - 1] \in Nat
      BY <1>1, <3>1
    <3>3. Allowance(s[n - 1]) \in Nat /\ Limit <= Allowance(s[n - 1])
      BY <3>2, Allowances
    <3>4. /\ age = Window => t[n - 1] < Allowance(s[n - 1])
          /\ age < Window /\ n - 1 < age => t[n - 1] < count
          /\ age < Window /\ ~ (n - 1 < age) => t[n - 1] < Allowance(s[n - 1]) + count
      BY <1>2, <3>1 DEF Limited
    <3> HIDE DEF Allowance
    <3> QED BY <1>1, <1>3, <3>1, <3>2, <3>3, <3>4
  <2> QED BY <2>1, <2>2
<1>7. Limited(u, v, age', count')
  BY <1>3, <1>6 DEF Limited
<1> QED BY <1>1, <1>3, <1>4, <1>5, <1>7 DEF LimiterKeeps, u, v

LEMMA LimiterRestarts == ASSUME LimiterKeeps, Restart PROVE LimiterKeeps'
<1> DEFINE t == Summed(recent)
           s == Summed(starts)
           v == Summed(starts')
<1>1. /\ Window \in Nat \ {0} /\ Limit \in Nat \ {0}
      /\ age \in 0 .. Window /\ count \in 0 .. Limit
      /\ t \in [Ticks -> Nat] /\ s \in [Ticks -> Nat]
  BY LimiterTyped
<1>2. recent \in [Ticks -> Nat] /\ starts \in [Ticks -> Nat] /\ Limited(t, s, age, count)
  BY DEF LimiterKeeps
<1>3. /\ starts' = [starts EXCEPT ![0] = @ + 1] /\ recent' = recent
      /\ age' = Window /\ count' = 0
  BY DEF Restart
<1>4. starts' \in [Ticks -> Nat] /\ \A n \in Ticks : v[n] = s[n] + 1
  BY <1>2, <1>3, Bumped
<1> HIDE DEF t, s, v
<1>5. ASSUME NEW n \in Ticks PROVE t[n] < Allowance(v[n])
  <2>1. t[n] \in Nat /\ s[n] \in Nat /\ v[n] = s[n] + 1
    BY <1>1, <1>4
  <2>2. /\ Allowance(s[n]) \in Nat /\ Limit <= Allowance(s[n])
        /\ Allowance(v[n]) = Allowance(s[n]) + Limit
    BY <2>1, Allowances
  <2>3. /\ age = Window => t[n] < Allowance(s[n])
        /\ age < Window /\ n < age => t[n] < count
        /\ age < Window /\ ~ (n < age) => t[n] < Allowance(s[n]) + count
    BY <1>2 DEF Limited
  <2> HIDE DEF Allowance
  <2> QED BY <1>1, <2>1, <2>2, <2>3
<1>6. Limited(t, v, age', count')
  BY <1>1, <1>3, <1>5 DEF Limited
<1> QED BY <1>1, <1>2, <1>3, <1>4, <1>6 DEF LimiterKeeps, t, v

LEMMA LimiterNext == LimiterKeeps /\ [Next]_vars => LimiterKeeps'
<1> SUFFICES ASSUME LimiterKeeps, [Next]_vars PROVE LimiterKeeps'
  OBVIOUS
<1>2. ASSUME NEW t \in Tabs, NEW pw \in Passwords, Login(t, pw) PROVE LimiterKeeps'
  <2>1. PICK allowed \in BOOLEAN : Allow(allowed)
    BY <1>2 DEF Login
  <2> QED BY <2>1, LimiterAllows
<1>3. CASE UNCHANGED limiter
  BY <1>3 DEF limiter, LimiterKeeps
<1>4. CASE UNCHANGED vars
  BY <1>3, <1>4 DEF vars
<1>5. CASE Expire
  BY <1>3, <1>5 DEF Expire
<1>6. ASSUME NEW t \in Tabs, NEW pw \in Passwords,
             \/ Load(t) \/ Status(t) \/ Me(t) \/ SetupInsert(t) \/ Request(t) \/ Logout(t)
             \/ SetupCheck(t, pw)
      PROVE  LimiterKeeps'
  BY <1>3, <1>6 DEF Load, Status, Me, SetupInsert, Request, Logout, SetupCheck
<1>7. ASSUME NEW t \in Tabs,
             Load(t) \/ Status(t) \/ Me(t) \/ SetupInsert(t) \/ Request(t) \/ Logout(t)
      PROVE  LimiterKeeps'
  BY <1>3, <1>7 DEF Load, Status, Me, SetupInsert, Request, Logout
<1> QED BY <1>2, <1>4, <1>5, <1>6, <1>7, LimiterTicks, LimiterRestarts DEF Next, TabNext

LEMMA WithinBounds == LimiterKeeps => WithinLimit
<1> SUFFICES ASSUME LimiterKeeps
             PROVE  TotalUpTo[Window - 1] < (2 + StartsUpTo[Window - 1]) * Limit
  BY DEF WithinLimit
<1> DEFINE t == Summed(recent)
           s == Summed(starts)
<1>1. /\ Window \in Nat \ {0} /\ Limit \in Nat \ {0} /\ Ticks = 0 .. Window - 1
      /\ age \in 0 .. Window /\ count \in 0 .. Limit
      /\ t \in [Ticks -> Nat] /\ s \in [Ticks -> Nat]
  BY LimiterTyped
<1>2. Limited(t, s, age, count) /\ TotalUpTo = t /\ StartsUpTo = s
  BY TotalsAre DEF LimiterKeeps
<1> HIDE DEF t, s
<1>3. Window - 1 \in Ticks
  BY <1>1
<1>4. t[Window - 1] \in Nat /\ s[Window - 1] \in Nat
  BY <1>1, <1>3
<1>5. /\ age = Window => t[Window - 1] < Allowance(s[Window - 1])
      /\ age < Window => t[Window - 1] < Allowance(s[Window - 1]) + count
  <2>1. /\ age = Window => t[Window - 1] < Allowance(s[Window - 1])
        /\ age < Window /\ Window - 1 < age => t[Window - 1] < count
        /\ age < Window /\ ~ (Window - 1 < age) => t[Window - 1] < Allowance(s[Window - 1]) + count
    BY <1>2, <1>3 DEF Limited
  <2>2. age < Window => ~ (Window - 1 < age)
    BY <1>1
  <2> QED BY <2>1, <2>2
<1>6. /\ Allowance(s[Window - 1]) \in Nat
      /\ Allowance(s[Window - 1] + 1) = Allowance(s[Window - 1]) + Limit
  BY <1>4, Allowances
<1>7. t[Window - 1] < Allowance(s[Window - 1] + 1)
  <2> HIDE DEF Allowance
  <2> QED BY <1>1, <1>4, <1>5, <1>6
<1>8. Allowance(s[Window - 1] + 1) = (2 + s[Window - 1]) * Limit
  BY <1>1, <1>4 DEF Allowance
<1> QED BY <1>2, <1>7, <1>8

(* The password is set once: SetupInsert and Restart write it where there is *)
(* none, and nothing else writes it.                                         *)
LEMMA PasswordStays == [Next]_vars => (hash # None => hash' = hash)
<1> SUFFICES ASSUME [Next]_vars, hash # None PROVE hash' = hash
  OBVIOUS
<1>1. ASSUME NEW t \in Tabs, NEW pw \in Passwords, SetupCheck(t, pw) \/ Login(t, pw)
      PROVE  hash' = hash
  BY <1>1 DEF SetupCheck, Login, server
<1>2. ASSUME NEW t \in Tabs,
             Load(t) \/ Status(t) \/ Me(t) \/ SetupInsert(t) \/ Request(t) \/ Logout(t)
      PROVE  hash' = hash
  BY <1>2 DEF Load, Status, Me, SetupInsert, Request, Logout, server
<1>3. CASE Expire \/ Tick \/ Restart \/ UNCHANGED vars
  BY <1>3 DEF Expire, Tick, Restart, vars, server
<1> QED BY <1>1, <1>2, <1>3 DEF Next, TabNext

LEMMA AuthPart == [PartsNext]_allVars => [Next]_vars
  BY DEF PartsNext, allVars, vars

(* The account is the first operator's for good, whatever forms, restarts    *)
(* and failing reads come together, and in any stretch of a window's length  *)
(* fewer passwords than twice the limit are tried from one address, and the  *)
(* limit once more for each restart of the process in that stretch           *)
(* (CompleteSetup, allow).                                                   *)
THEOREM AccountStands == PartsSpec => AccountGuarded
<1>1. PartsInit => LimiterKeeps
  BY LimiterInit DEF PartsInit
<1>2. [PartsNext]_allVars => [hash # None => hash' = hash]_vars
  BY AuthPart, PasswordStays
<1> QED BY <1>1, <1>2, AuthPart, LimiterNext, WithinBounds, PTL
        DEF PartsSpec, AccountGuarded, PasswordSetOnce

-----------------------------------------------------------------------------
(* The configuration forms.                                                  *)

(* What a form and a request carry, and when the row opens: a source's or    *)
(* target's update that has read its row can still open it, because nothing  *)
(* but a restart changes the key, and a restart loses the request; and       *)
(* nothing masks a notifier's config.                                        *)
Stored == [val : Config!Values, key : Keys \cup {"none"}]
Requests ==
  [op : {"idle", "read", "write", "routes"}, in : Config!Values \cup {Mask}, alone : BOOLEAN,
   kept : Config!Values, tiers : SUBSET Tiers]
FormsTyped ==
  /\ key \in Keys /\ kind \in Kinds /\ routes \subseteq Tiers
  /\ row \in [st : {"unborn", "live", "gone"}, enc : Stored]
  /\ form \in [Tabs -> Config!Values \cup {Mask, "closed"}]
  /\ req \in [Tabs -> Requests]
  /\ row.st = "unborn" => row.enc = Config!Null
ReadOpens ==
  \A t \in Tabs : kind \in {"source", "target"} /\ req[t].op = "write" => Config!Opens(row.enc)
Unmasked == kind = "notifier" => \A t \in Tabs : form[t] # Mask /\ req[t].in # Mask
FormsInv == FormsTyped /\ ReadOpens /\ Unmasked

LEMMA FormValues == Empty \in Config!Values /\ Mask \notin Config!Values /\ Mask # "closed"
  BY FormsParameters DEF Config!FormsAssumption, Config!Values

LEMMA Encrypts ==
  ASSUME key \in Keys, NEW v \in Config!Values
  PROVE  /\ Config!Encrypt(v) \in Stored /\ Config!Encrypt(v).val = v
         /\ Config!Opens(Config!Encrypt(v))
<1>1. CASE v = Empty
  BY <1>1 DEF Config!Encrypt, Config!Opens, Config!Null, Stored
<1>2. CASE v # Empty
  BY <1>2 DEF Config!Encrypt, Config!Opens, Stored
<1> QED BY <1>1, <1>2

LEMMA IdleRequest == Config!Idle \in Requests /\ Config!Idle.op = "idle" /\ Config!Idle.in = Empty
  BY FormValues DEF Config!Idle, Requests

LEMMA FormsInit == Config!Init => FormsInv
<1> SUFFICES ASSUME Config!Init PROVE FormsInv
  OBVIOUS
<1>1. Config!Null \in Stored /\ Config!Opens(Config!Null)
  BY FormValues DEF Config!Null, Stored, Config!Opens
<1>2. row \in [st : {"unborn", "live", "gone"}, enc : Stored] /\ row.enc = Config!Null
  BY <1>1 DEF Config!Init
<1>3. form \in [Tabs -> Config!Values \cup {Mask, "closed"}] /\ req \in [Tabs -> Requests]
  BY IdleRequest DEF Config!Init
<1>4. \A t \in Tabs : form[t] = "closed" /\ req[t] = Config!Idle
  BY DEF Config!Init
<1> QED BY <1>1, <1>2, <1>3, <1>4, IdleRequest, FormValues
        DEF Config!Init, FormsInv, FormsTyped, ReadOpens, Unmasked

(* A step that leaves row, key and kind alone.                               *)
LEMMA RequestKept ==
  ASSUME FormsInv, NEW t \in Tabs, NEW r \in Requests, req' = [req EXCEPT ![t] = r],
         UNCHANGED <<kind, key, row>>, routes' \subseteq Tiers,
         form' = form \/ form' = [form EXCEPT ![t] = "closed"],
         kind = "notifier" => r.in # Mask,
         r.op = "write" => (kind \in {"source", "target"} => Config!Opens(row.enc))
  PROVE  FormsInv'
<1>0. form \in [Tabs -> Config!Values \cup {Mask, "closed"}] /\ req \in [Tabs -> Requests]
  BY DEF FormsInv, FormsTyped
<1>1. \A u \in Tabs : req'[u] = IF u = t THEN r ELSE req[u]
  BY <1>0
<1>2. \A u \in Tabs : form'[u] = form[u] \/ form'[u] = "closed"
  BY <1>0
<1>3. form' \in [Tabs -> Config!Values \cup {Mask, "closed"}] /\ req' \in [Tabs -> Requests]
  BY <1>0
<1>4. ReadOpens'
  BY <1>1 DEF FormsInv, ReadOpens, Config!Opens
<1>5. Unmasked'
  BY <1>1, <1>2, FormValues DEF FormsInv, Unmasked
<1> QED BY <1>3, <1>4, <1>5 DEF FormsInv, FormsTyped

LEMMA AnswerKept ==
  ASSUME FormsInv, NEW t \in Tabs, Config!Answer(t), UNCHANGED <<kind, key, form>>,
         routes' \subseteq Tiers,
         row' \in [st : {"unborn", "live", "gone"}, enc : Stored],
         row'.st = "unborn" => row'.enc = Config!Null,
         kind \in {"source", "target"} => row' = row \/ Config!Opens(row'.enc)
  PROVE  FormsInv'
<1>0. req \in [Tabs -> Requests]
  BY DEF FormsInv, FormsTyped
<1>1. \A u \in Tabs : req'[u] = IF u = t THEN Config!Idle ELSE req[u]
  BY <1>0 DEF Config!Answer
<1>2. req' \in [Tabs -> Requests]
  BY <1>0, IdleRequest DEF Config!Answer
<1>3. ReadOpens'
  BY <1>1, IdleRequest DEF FormsInv, ReadOpens, Config!Opens
<1>4. Unmasked'
  BY <1>1, IdleRequest, FormValues DEF FormsInv, Unmasked
<1> QED BY <1>2, <1>3, <1>4 DEF FormsInv, FormsTyped

(* An update writes a credential that opens.                                 *)
LEMMA UpdateKept ==
  ASSUME FormsInv, NEW t \in Tabs, Config!Answer(t), UNCHANGED <<kind, key, routes, form>>,
         NEW v \in Config!Values, Config!Update(v)
  PROVE  FormsInv'
<1>0. row \in [st : {"unborn", "live", "gone"}, enc : Stored] /\ key \in Keys
  BY DEF FormsInv, FormsTyped
<1>1. Config!Encrypt(v) \in Stored /\ Config!Opens(Config!Encrypt(v))
  BY <1>0, Encrypts
<1>2. CASE row.st = "live"
  <2>1. PICK e \in Stored : e = Config!Encrypt(v)
    BY <1>1
  <2>2. row' = [row EXCEPT !.enc = e]
    BY <1>2, <2>1 DEF Config!Update
  <2>3. row' \in [st : {"unborn", "live", "gone"}, enc : Stored] /\ row'.st = "live" /\ row'.enc = e
    BY <1>0, <1>2, <2>2
  <2>4. Config!Opens(row'.enc)
    BY <1>1, <2>1, <2>3
  <2> QED BY <2>3, <2>4, AnswerKept DEF FormsInv, FormsTyped
<1>3. CASE row.st # "live"
  <2>1. row' = row
    BY <1>3 DEF Config!Update
  <2> QED BY <2>1, AnswerKept DEF FormsInv, FormsTyped
<1> QED BY <1>2, <1>3

LEMMA FormsNext == FormsInv /\ [Config!Next]_(Config!vars) => FormsInv'
<1> SUFFICES ASSUME FormsInv, [Config!Next]_(Config!vars) PROVE FormsInv'
  OBVIOUS
<1>0. /\ key \in Keys /\ kind \in Kinds /\ routes \subseteq Tiers
      /\ row \in [st : {"unborn", "live", "gone"}, enc : Stored]
      /\ form \in [Tabs -> Config!Values \cup {Mask, "closed"}]
      /\ req \in [Tabs -> Requests]
      /\ row.st = "unborn" => row.enc = Config!Null
      /\ row.enc.val \in Config!Values
  BY DEF FormsInv, FormsTyped, Stored
<1>1. ASSUME NEW t \in Tabs, NEW v, form' = [form EXCEPT ![t] = v],
             UNCHANGED <<kind, key, row, routes, req>>,
             v \in Config!Values \/ (v = Mask /\ kind # "notifier")
      PROVE  FormsInv'
  <2>1. \A u \in Tabs : form'[u] = IF u = t THEN v ELSE form[u]
    BY <1>0, <1>1
  <2>2. form' \in [Tabs -> Config!Values \cup {Mask, "closed"}]
    BY <1>0, <1>1
  <2>3. Unmasked'
    BY <1>1, <2>1, FormValues DEF FormsInv, Unmasked
  <2> QED BY <1>1, <2>2, <2>3 DEF FormsInv, FormsTyped, ReadOpens, Config!Opens
<1>2. ASSUME NEW t \in Tabs, Config!ListMasked(t) PROVE FormsInv'
  <2>1. Config!MaskIf(row.enc) \in {Empty, Mask}
    BY DEF Config!MaskIf
  <2> QED BY <1>1, <1>2, <2>1, FormValues DEF Config!ListMasked
<1>3. ASSUME NEW t \in Tabs, Config!ListNotifiers(t) PROVE FormsInv'
  BY <1>0, <1>1, <1>3 DEF Config!ListNotifiers
<1>4. ASSUME NEW v \in Config!Values, Config!Create(v) PROVE FormsInv'
  <2>1. PICK e \in Stored : e = Config!Encrypt(v) /\ Config!Opens(e)
    BY <1>0, Encrypts
  <2>2. row' = [st |-> "live", enc |-> e] /\ UNCHANGED <<kind, key, routes, form, req>>
    BY <1>4, <2>1 DEF Config!Create
  <2>3. row' \in [st : {"unborn", "live", "gone"}, enc : Stored] /\ row'.st = "live" /\ row'.enc = e
    BY <2>2
  <2> QED BY <2>1, <2>2, <2>3 DEF FormsInv, FormsTyped, ReadOpens, Unmasked, Config!Opens
<1>5. ASSUME NEW t \in Tabs, NEW v \in Config!Values \cup {Mask}, NEW alone \in BOOLEAN,
             Config!Submit(t, v, alone)
      PROVE  FormsInv'
  <2>1. kind = "notifier" => v # Mask
    <3> SUFFICES ASSUME kind = "notifier", v = Mask PROVE FALSE
      OBVIOUS
    <3>1. form[t] # Mask
      BY DEF FormsInv, Unmasked
    <3>2. v \in Creds \cup {form[t]}
      BY <1>5 DEF Config!Submit, Config!LeftAlone
    <3> QED BY <3>1, <3>2, FormValues DEF Config!Values
  <2>2. PICK r : r = [Config!Idle EXCEPT !.op = "read", !.in = v, !.alone = alone]
    OBVIOUS
  <2>3. r = [op |-> "read", in |-> v, alone |-> alone, kept |-> Empty, tiers |-> {}]
    BY <2>2 DEF Config!Idle
  <2>4. r \in Requests /\ r.op = "read" /\ r.in = v
    BY <2>3, FormValues DEF Requests
  <2>5. req' = [req EXCEPT ![t] = r] /\ form' = [form EXCEPT ![t] = "closed"]
        /\ UNCHANGED <<kind, key, row, routes>>
    BY <1>5, <2>2 DEF Config!Submit
  <2> QED BY <1>0, <2>1, <2>4, <2>5, RequestKept
<1>6. ASSUME NEW t \in Tabs, Config!Read(t) PROVE FormsInv'
  <2>1. CASE Config!Answer(t) /\ UNCHANGED row
    BY <1>0, <1>6, <2>1, AnswerKept DEF Config!Read
  <2>2. CASE /\ row.st = "live" /\ (kind \in {"source", "target"} => Config!Opens(row.enc))
             /\ req' = [req EXCEPT ![t].op = "write", ![t].kept = row.enc.val]
    <3>1. PICK q \in Requests : q = req[t]
      BY <1>0
    <3>2. PICK r : r = [q EXCEPT !.op = "write", !.kept = row.enc.val]
      OBVIOUS
    <3>3. req' = [req EXCEPT ![t] = r]
      BY <1>0, <2>2, <3>1, <3>2
    <3>4. r \in Requests /\ r.op = "write" /\ r.in = q.in
      BY <1>0, <3>2 DEF Requests
    <3>5. kind = "notifier" => q.in # Mask
      BY <3>1 DEF FormsInv, Unmasked
    <3>6. UNCHANGED <<kind, key, row, routes, form>>
      BY <1>6 DEF Config!Read
    <3>7. routes' \subseteq Tiers
      BY <1>0, <3>6 DEF FormsInv, FormsTyped
    <3>8. kind = "notifier" => r.in # Mask
      BY <3>4, <3>5
    <3>9. kind \in {"source", "target"} => Config!Opens(row.enc)
      BY <2>2
    <3>10. r \in Requests
      BY <3>4
    <3>11. UNCHANGED <<kind, key, row>> /\ form' = form
      BY <3>6
    <3> QED BY <3>3, <3>7, <3>8, <3>9, <3>10, <3>11, RequestKept
  <2> QED BY <1>6, <2>1, <2>2 DEF Config!Read
<1>7. ASSUME NEW t \in Tabs, Config!WriteMerged(t) PROVE FormsInv'
  <2>1. Config!MergeCredential(req[t].kept, req[t].in) \in Config!Values
    BY <1>0 DEF Config!MergeCredential, Requests
  <2> QED BY <1>7, <2>1, UpdateKept DEF Config!WriteMerged
<1>8. ASSUME NEW t \in Tabs, Config!WriteQB(t) \/ Config!WriteNotifier(t) PROVE FormsInv'
  <2>1. CASE req[t].in = Mask
    <3>1. UNCHANGED row /\ Config!Answer(t) /\ UNCHANGED <<kind, key, routes, form>>
      BY <1>8, <2>1 DEF Config!WriteQB, Config!WriteNotifier, FormsInv, Unmasked
    <3> QED BY <1>0, <3>1, AnswerKept
  <2>2. CASE req[t].in # Mask
    <3>1. req[t].in \in Config!Values
      BY <1>0, <2>2 DEF Requests
    <3> QED BY <1>8, <2>2, <3>1, UpdateKept DEF Config!WriteQB, Config!WriteNotifier
  <2> QED BY <2>1, <2>2
<1>9. CASE Config!Delete \/ Config!DeleteNotifier
  <2>1. row' = [st |-> "gone", enc |-> Config!Null] /\ UNCHANGED <<kind, key, form, req>>
        /\ routes' \subseteq Tiers
    BY <1>0, <1>9 DEF Config!Delete, Config!DeleteNotifier
  <2>2. Config!Null \in Stored /\ Config!Opens(Config!Null)'
    BY FormValues DEF Config!Null, Stored, Config!Opens
  <2>3. row' \in [st : {"unborn", "live", "gone"}, enc : Stored] /\ row'.st = "gone"
        /\ row'.enc = Config!Null
    BY <2>1, <2>2
  <2> QED BY <2>1, <2>2, <2>3 DEF FormsInv, FormsTyped, ReadOpens, Unmasked, Config!Opens
<1>10. ASSUME NEW t \in Tabs, NEW tiers \in SUBSET Tiers, Config!Validate(t, tiers) PROVE FormsInv'
  <2>1. PICK r : r = [Config!Idle EXCEPT !.op = "routes", !.tiers = tiers]
    OBVIOUS
  <2>2. r = [op |-> "routes", in |-> Empty, alone |-> FALSE, kept |-> Empty, tiers |-> tiers]
    BY <2>1 DEF Config!Idle
  <2>3. r \in Requests /\ r.op = "routes" /\ r.in = Empty
    BY <2>2, FormValues DEF Requests
  <2> QED BY <1>0, <1>10, <2>1, <2>3, FormValues, RequestKept DEF Config!Validate
<1>11. ASSUME NEW t \in Tabs, Config!Replace(t) PROVE FormsInv'
  <2>1. req[t].tiers \subseteq Tiers
    BY <1>0 DEF Requests
  <2>2. routes' \subseteq Tiers
    BY <1>0, <1>11, <2>1 DEF Config!Replace
  <2> QED BY <1>0, <1>11, <2>2, AnswerKept DEF Config!Replace
<1>12. ASSUME NEW k \in Keys, Config!Restart(k) PROVE FormsInv'
  <2>1. req' \in [Tabs -> Requests] /\ \A t \in Tabs : req'[t] = Config!Idle
    BY <1>12, IdleRequest DEF Config!Restart
  <2>2. ReadOpens' /\ Unmasked'
    BY <1>12, <2>1, IdleRequest, FormValues DEF Config!Restart, FormsInv, ReadOpens, Unmasked
  <2> QED BY <1>0, <1>12, <2>1, <2>2 DEF Config!Restart, FormsInv, FormsTyped
<1>13. CASE UNCHANGED Config!vars
  BY <1>13 DEF Config!vars, FormsInv, FormsTyped, ReadOpens, Unmasked, Config!Opens
<1> QED BY <1>2, <1>3, <1>4, <1>5, <1>6, <1>7, <1>8, <1>9, <1>10, <1>11, <1>12, <1>13
        DEF Config!Next

(* Only its own write, or the loss of its request, ends tab t's update.      *)
LEMMA OwnStep ==
  ASSUME FormsInv, NEW t \in Tabs, NEW u \in Tabs, Config!Answer(u), Config!Writes(t)
  PROVE  u = t
<1>1. req \in [Tabs -> Requests]
  BY DEF FormsInv, FormsTyped
<1>2. u # t => req'[t] = req[t]
  BY <1>1 DEF Config!Answer
<1> QED BY <1>2 DEF Config!Writes

(* An update stores what it writes.                                          *)
LEMMA StoresValue ==
  ASSUME FormsInv, row.st = "live", NEW v \in Config!Values, Config!Update(v)
  PROVE  row'.enc.val = v
<1>1. row \in [st : {"unborn", "live", "gone"}, enc : Stored] /\ key \in Keys
  BY DEF FormsInv, FormsTyped
<1>2. PICK e : e = Config!Encrypt(v) /\ e.val = v
  BY <1>1, Encrypts
<1>3. row' = [row EXCEPT !.enc = e]
  BY <1>2 DEF Config!Update
<1> QED BY <1>1, <1>2, <1>3

(* A step that writes no row keeps what the properties of the row ask.       *)
RowKept ==
  /\ \A t \in Tabs :
       Config!Writes(t) /\ req[t].in = Mask /\ (kind = "qb" \/ req[t].kept = row.enc.val)
         => Config!Kept
  /\ ~ Config!Opens(row.enc) /\ row' # row =>
       \/ row'.st = "gone"
       \/ \E t \in Tabs : Config!Writes(t) /\ (req[t].in # Mask \/ Config!Kept)

LEMMA RowSteps == FormsInv /\ [Config!Next]_(Config!vars) => RowKept
<1> SUFFICES ASSUME FormsInv, [Config!Next]_(Config!vars) PROVE RowKept
  OBVIOUS
<1>0. /\ row \in [st : {"unborn", "live", "gone"}, enc : Stored]
      /\ req \in [Tabs -> Requests] /\ row.enc.val \in Config!Values
      /\ row.st = "unborn" => row.enc = Config!Null
  BY DEF FormsInv, FormsTyped, Stored
<1>1. UNCHANGED row => RowKept
  BY DEF RowKept, Config!Kept
<1>2. ASSUME NEW v \in Config!Values, Config!Create(v) PROVE RowKept
  <2>1. Config!Opens(row.enc) /\ row.st = "unborn"
    BY <1>0, <1>2 DEF Config!Create, Config!Opens
  <2> QED BY <2>1 DEF RowKept, Config!Writes
<1>3. ASSUME Config!Delete \/ Config!DeleteNotifier PROVE RowKept
  <2>1. row'.st = "gone" /\ UNCHANGED req
    BY <1>3 DEF Config!Delete, Config!DeleteNotifier
  <2> QED BY <2>1 DEF RowKept, Config!Writes
<1>4. ASSUME NEW u \in Tabs, Config!WriteMerged(u) PROVE RowKept
  <2>1. Config!MergeCredential(req[u].kept, req[u].in) \in Config!Values
    BY <1>0 DEF Config!MergeCredential, Requests
  <2>2. Config!Opens(row.enc) /\ kind # "qb"
    BY <1>4 DEF Config!WriteMerged, FormsInv, ReadOpens
  <2>3. ASSUME NEW t \in Tabs, Config!Writes(t), req[t].in = Mask, req[t].kept = row.enc.val
        PROVE  Config!Kept
    <3>1. u = t /\ row.st = "live"
      BY <1>4, <2>3, OwnStep DEF Config!WriteMerged, Config!Writes
    <3>2. Config!Update(row.enc.val)
      BY <1>4, <2>3, <3>1 DEF Config!WriteMerged, Config!MergeCredential
    <3> QED BY <1>0, <3>1, <3>2, StoresValue DEF Config!Kept
  <2> QED BY <2>2, <2>3 DEF RowKept
<1>5. ASSUME NEW u \in Tabs, Config!WriteQB(u) \/ Config!WriteNotifier(u) PROVE RowKept
  <2>1. Config!Answer(u) /\ req[u].op = "write"
    BY <1>5 DEF Config!WriteQB, Config!WriteNotifier
  <2>2. CASE req[u].in = Mask
    <3>1. UNCHANGED row
      BY <1>5, <2>2 DEF Config!WriteQB, Config!WriteNotifier, FormsInv, Unmasked
    <3> QED BY <1>1, <3>1
  <2>3. CASE req[u].in # Mask
    <3>1. \A t \in Tabs : Config!Writes(t) => req[t].in # Mask
      BY <2>1, <2>3, OwnStep
    <3>2. row' # row => row.st = "live"
      BY <1>5, <2>3 DEF Config!WriteQB, Config!WriteNotifier, Config!Update
    <3>3. req'[u].op = "idle"
      BY <1>0, <2>1, IdleRequest DEF Config!Answer
    <3> QED BY <2>1, <2>3, <3>1, <3>2, <3>3 DEF RowKept, Config!Writes
  <2> QED BY <2>2, <2>3
<1>6. ASSUME NEW t \in Tabs,
             \/ Config!ListMasked(t) \/ Config!ListNotifiers(t) \/ Config!Read(t) \/ Config!Replace(t)
             \/ \E v \in Config!Values \cup {Mask}, alone \in BOOLEAN : Config!Submit(t, v, alone)
             \/ \E tiers \in SUBSET Tiers : Config!Validate(t, tiers)
      PROVE  RowKept
  BY <1>1, <1>6 DEF Config!ListMasked, Config!ListNotifiers, Config!Read, Config!Replace,
                    Config!Submit, Config!Validate
<1>7. ASSUME NEW k \in Keys, Config!Restart(k) PROVE RowKept
  BY <1>1, <1>7 DEF Config!Restart
<1>8. CASE UNCHANGED Config!vars
  BY <1>1, <1>8 DEF Config!vars
<1> QED BY <1>2, <1>3, <1>4, <1>5, <1>6, <1>7, <1>8 DEF Config!Next

(* The matrix changes by Replace and by the delete of its notifier.          *)
MatrixKept ==
  routes' # routes =>
    \/ row.st = "live" /\ row'.st = "gone"
    \/ \E t \in Tabs : req[t].op = "routes" /\ routes' = req[t].tiers
                     /\ (routes' = {} \/ row'.st = "live")

LEMMA MatrixSteps == [Config!Next]_(Config!vars) => MatrixKept
<1> SUFFICES ASSUME [Config!Next]_(Config!vars), routes' # routes PROVE MatrixKept
  BY DEF MatrixKept
<1>1. CASE Config!DeleteNotifier
  BY <1>1 DEF Config!DeleteNotifier, MatrixKept
<1>2. ASSUME NEW t \in Tabs, Config!Replace(t) PROVE MatrixKept
  BY <1>2 DEF Config!Replace, MatrixKept
<1>3. ASSUME NEW t \in Tabs,
             \/ Config!ListMasked(t) \/ Config!ListNotifiers(t) \/ Config!Read(t)
             \/ Config!WriteMerged(t) \/ Config!WriteQB(t) \/ Config!WriteNotifier(t)
             \/ \E v \in Config!Values \cup {Mask}, alone \in BOOLEAN : Config!Submit(t, v, alone)
             \/ \E tiers \in SUBSET Tiers : Config!Validate(t, tiers)
      PROVE  UNCHANGED routes
  BY <1>3 DEF Config!ListMasked, Config!ListNotifiers, Config!Read, Config!WriteMerged,
              Config!WriteQB, Config!WriteNotifier, Config!Submit, Config!Validate
<1>4. (\E v \in Config!Values : Config!Create(v)) \/ (\E k \in Keys : Config!Restart(k))
        \/ Config!Delete \/ UNCHANGED Config!vars => UNCHANGED routes
  BY DEF Config!Create, Config!Restart, Config!Delete, Config!vars
<1> QED BY <1>1, <1>2, <1>3, <1>4 DEF Config!Next

LEMMA FormsPart == [PartsNext]_allVars => [Config!Next]_(Config!vars)
  BY DEF PartsNext, allVars, configVars, Config!vars

(* A credential that an update sends back as its mask stays, one under        *)
(* another key is not lost to such an update, and the matrix changes as a    *)
(* whole, in whatever order tabs, deletes and restarts with other keys come  *)
(* (mergeCredential, updateQB, ReplaceRoutes).  It says nothing of a field   *)
(* that is left blank, which updateQB takes for an empty password.           *)
THEOREM FormsStand == PartsSpec => FormsKeep
<1>1. PartsInit => FormsInv
  BY FormsInit DEF PartsInit
<1>2. FormsInv /\ [PartsNext]_allVars => FormsInv'
  BY FormsPart, FormsNext
<1>3. FormsInv /\ [PartsNext]_allVars =>
        [\A t \in Tabs :
           Config!Writes(t) /\ req[t].in = Mask /\ (kind = "qb" \/ req[t].kept = row.enc.val)
             => Config!Kept]_(Config!vars)
  BY FormsPart, RowSteps DEF RowKept
<1>4. FormsInv /\ [PartsNext]_allVars =>
        [~ Config!Opens(row.enc) /\ row' # row =>
           \/ row'.st = "gone"
           \/ \E t \in Tabs : Config!Writes(t) /\ (req[t].in # Mask \/ Config!Kept)]_(Config!vars)
  BY FormsPart, RowSteps DEF RowKept
<1>5. [PartsNext]_allVars =>
        [routes' # routes =>
           \/ row.st = "live" /\ row'.st = "gone"
           \/ \E t \in Tabs : req[t].op = "routes" /\ routes' = req[t].tiers
                            /\ (routes' = {} \/ row'.st = "live")]_(Config!vars)
  BY FormsPart, MatrixSteps DEF MatrixKept
<1> QED BY <1>1, <1>2, <1>3, <1>4, <1>5, PTL
        DEF PartsSpec, FormsKeep, Config!FormsKeep, Config!MaskKeeps, Config!UnreadableKept,
            Config!MatrixWhole

-----------------------------------------------------------------------------
(* The pages of the seeds.                                                   *)

(* The seeds a walk began with are still there, and each has been sent or    *)
(* lies beyond the pages walked; ids are given in order.                     *)
WalkKeeps ==
  /\ seeds \in [Listing!Ids -> Statuses \cup {"none"}] /\ last \in Nat
  /\ \A i \in Listing!Ids : i > last => seeds[i] = "none"
  /\ walk \in [upto : Nat, filter : Shown \cup {AnyOne}, seen : SUBSET Listing!Ids,
               start : SUBSET Listing!Ids]
  /\ walk.start \subseteq Listing!Matching(walk.filter)
  /\ \A i \in walk.start :
       i \in walk.seen \/ Listing!Place(i, walk.filter) > walk.upto * PageSize
  /\ Listing!PagingComplete

LEMMA ListConstants == PageSize \in Nat \ {0} /\ MaxSeeds \in Nat
  BY ListParameters DEF Listing!SeedsAssumption

LEMMA SameCardinality == ASSUME NEW S PROVE Listing!Cardinality(S) = Cardinality(S)
  BY Zenon DEF Listing!Cardinality, Cardinality

LEMMA Finite == ASSUME NEW S, S \subseteq Listing!Ids PROVE IsFiniteSet(S)
  BY ListConstants, FS_Interval, FS_Subset, 1 \in Int, MaxSeeds \in Int DEF Listing!Ids

LEMMA PlaceGrows ==
  ASSUME NEW S, NEW T, S \subseteq T, T \subseteq Listing!Ids
  PROVE  /\ Cardinality(S) \in Nat /\ Cardinality(T) \in Nat
         /\ Cardinality(S) <= Cardinality(T)
  BY Finite, FS_Subset, FS_CardinalityType

LEMMA PlaceType ==
  ASSUME NEW i \in Listing!Ids, NEW f
  PROVE  /\ Listing!Place(i, f) \in Nat
         /\ i \in Listing!Matching(f) => Listing!Place(i, f) >= 1
<1> DEFINE S == {j \in Listing!Matching(f) : j >= i}
<1>1. S \subseteq Listing!Ids
  BY DEF Listing!Matching
<1>2. Cardinality(S) \in Nat
  BY <1>1, PlaceGrows
<1>3. ASSUME i \in Listing!Matching(f) PROVE Cardinality(S) >= 1
  <2>1. {i} \subseteq S /\ Cardinality({i}) = 1
    BY <1>3, FS_Singleton DEF Listing!Ids
  <2> HIDE DEF S
  <2>2. Cardinality({i}) <= Cardinality(S)
    BY <1>1, <2>1, PlaceGrows
  <2> QED BY <1>2, <2>1, <2>2
<1>4. Listing!Place(i, f) = Cardinality(S)
  BY SameCardinality, Zenon DEF Listing!Place
<1> QED BY <1>2, <1>3, <1>4

(* Older seeds are further on.                                               *)
LEMMA OlderFurther ==
  ASSUME NEW i \in Listing!Ids, NEW o \in Listing!Ids, i >= o, NEW f
  PROVE  Listing!Place(i, f) <= Listing!Place(o, f)
<1> DEFINE S == {j \in Listing!Matching(f) : j >= i}
           T == {j \in Listing!Matching(f) : j >= o}
<1>1. S \subseteq T /\ T \subseteq Listing!Ids
  BY DEF Listing!Matching, Listing!Ids
<1>2. Listing!Place(i, f) = Cardinality(S) /\ Listing!Place(o, f) = Cardinality(T)
  BY SameCardinality, Zenon DEF Listing!Place
<1> HIDE DEF S, T
<1> QED BY <1>1, <1>2, PlaceGrows

LEMMA ListInit == Listing!Init => WalkKeeps
  BY DEF Listing!Init, WalkKeeps, Listing!NoWalk, Listing!PagingComplete, Listing!Matching

(* Without a walk there is nothing to keep; a walk is not disturbed by what  *)
(* joins the rows of its filter.                                             *)
LEMMA Disturbed ==
  ASSUME WalkKeeps, seeds' \in [Listing!Ids -> Statuses \cup {"none"}], last' \in Nat,
         \A i \in Listing!Ids : i > last' => seeds'[i] = "none",
         \/ walk' = Listing!NoWalk
         \/ walk' = walk /\ Listing!Matching(walk.filter) \subseteq Listing!Matching(walk.filter)'
  PROVE  WalkKeeps'
<1>1. CASE walk' = Listing!NoWalk
  BY <1>1 DEF WalkKeeps, Listing!NoWalk, Listing!PagingComplete
<1>2. CASE walk' = walk /\ Listing!Matching(walk.filter) \subseteq Listing!Matching(walk.filter)'
  <2>1. ASSUME NEW i \in walk.start
        PROVE  i \in walk.seen \/ Listing!Place(i, walk.filter)' > walk.upto * PageSize
    <3> DEFINE S == {j \in Listing!Matching(walk.filter) : j >= i}
               T == {j \in Listing!Matching(walk.filter)' : j >= i}
    <3>1. S \subseteq T /\ T \subseteq Listing!Ids
      BY <1>2 DEF Listing!Matching
    <3>2. Listing!Place(i, walk.filter) = Cardinality(S)
          /\ Listing!Place(i, walk.filter)' = Cardinality(T)
      BY <1>2, SameCardinality, Zenon DEF Listing!Place
    <3> HIDE DEF S, T
    <3>3. /\ Listing!Place(i, walk.filter) <= Listing!Place(i, walk.filter)'
          /\ Listing!Place(i, walk.filter) \in Nat /\ Listing!Place(i, walk.filter)' \in Nat
      BY <3>1, <3>2, PlaceGrows
    <3>4. walk.upto * PageSize \in Nat
      BY ListConstants DEF WalkKeeps
    <3> QED BY <2>1, <3>3, <3>4 DEF WalkKeeps
  <2> QED BY <1>2, <2>1 DEF WalkKeeps, Listing!PagingComplete
<1> QED BY <1>1, <1>2

(* The first page of a walk, and the next one.                               *)
LEMMA FirstPage ==
  ASSUME WalkKeeps, NEW f \in Shown, UNCHANGED <<seeds, last>>,
         walk' = [upto |-> 1, filter |-> f, seen |-> Listing!RowsOf(1, f),
                  start |-> Listing!Matching(f)]
  PROVE  WalkKeeps'
<1>1. Listing!Matching(f)' = Listing!Matching(f) /\ Listing!Matching(f) \subseteq Listing!Ids
  BY DEF Listing!Matching
<1>2. Listing!RowsOf(1, f) \subseteq Listing!Matching(f)
  BY DEF Listing!RowsOf
<1>3. walk'.upto = 1 /\ walk'.filter = f /\ walk'.seen = Listing!RowsOf(1, f)
      /\ walk'.start = Listing!Matching(f)
  OBVIOUS
<1>4. Listing!Offset(1) = 0 /\ 1 * PageSize = PageSize
  BY ListConstants DEF Listing!Offset
<1>5. \A i \in Listing!Ids : Listing!Place(i, f)' = Listing!Place(i, f)
  BY <1>1 DEF Listing!Place
<1>6. ASSUME NEW i \in Listing!Matching(f)
      PROVE  i \in Listing!RowsOf(1, f) \/ Listing!Place(i, f) > PageSize
  <2>1. Listing!Place(i, f) \in Nat /\ Listing!Place(i, f) >= 1
    BY <1>1, PlaceType
  <2> QED BY <1>4, <2>1, ListConstants DEF Listing!RowsOf
<1>7. ASSUME NEW i \in Listing!Matching(f), NEW o \in Listing!RowsOf(1, f), i >= o
      PROVE  i \in Listing!RowsOf(1, f)
  <2>1. Listing!Place(i, f) <= Listing!Place(o, f) /\ Listing!Place(i, f) \in Nat
        /\ Listing!Place(o, f) \in Nat
    BY <1>1, <1>2, <1>7, OlderFurther, PlaceType
  <2>2. Listing!Place(o, f) <= PageSize
    <3>1. Listing!Place(o, f) \in 0 + 1 .. 0 + PageSize
      BY <1>4, Zenon DEF Listing!RowsOf
    <3> QED BY <3>1, ListConstants
  <2> QED BY <1>6, <2>1, <2>2, ListConstants
<1> QED BY <1>1, <1>2, <1>3, <1>4, <1>5, <1>6, <1>7 DEF WalkKeeps, Listing!PagingComplete

LEMMA NextPage ==
  ASSUME WalkKeeps, UNCHANGED <<seeds, last>>,
         walk' = [walk EXCEPT !.upto = walk.upto + 1,
                              !.seen = @ \cup Listing!RowsOf(walk.upto + 1, walk.filter)]
  PROVE  WalkKeeps'
<1> DEFINE f == walk.filter
           rows == Listing!RowsOf(walk.upto + 1, f)
<1>1. Listing!Matching(f)' = Listing!Matching(f) /\ Listing!Matching(f) \subseteq Listing!Ids
      /\ rows \subseteq Listing!Matching(f)
  BY DEF Listing!Matching, Listing!RowsOf
<1>2. /\ walk'.upto = walk.upto + 1 /\ walk'.filter = f /\ walk'.seen = walk.seen \cup rows
      /\ walk'.start = walk.start
      /\ walk' \in [upto : Nat, filter : Shown \cup {AnyOne}, seen : SUBSET Listing!Ids,
                    start : SUBSET Listing!Ids]
  <2>1. rows \subseteq Listing!Ids
    BY <1>1
  <2>2. walk' = [walk EXCEPT !.upto = walk.upto + 1, !.seen = walk.seen \cup rows]
    OBVIOUS
  <2> HIDE DEF rows
  <2>3. /\ walk \in [upto : Nat, filter : Shown \cup {AnyOne}, seen : SUBSET Listing!Ids,
                    start : SUBSET Listing!Ids]
        /\ walk.upto + 1 \in Nat /\ walk.seen \cup rows \in SUBSET Listing!Ids
    BY <2>1 DEF WalkKeeps
  <2> QED BY <2>2, <2>3
<1>3. /\ Listing!Offset(walk.upto + 1) = walk.upto * PageSize /\ walk.upto * PageSize \in Nat
      /\ (walk.upto + 1) * PageSize = walk.upto * PageSize + PageSize
  <2>1. walk.upto \in Nat /\ PageSize \in Nat
    BY ListConstants DEF WalkKeeps
  <2>2. (walk.upto + 1) - 1 = walk.upto
    BY <2>1
  <2> QED BY <2>1, <2>2 DEF Listing!Offset
<1>4. \A i \in Listing!Ids : Listing!Place(i, f)' = Listing!Place(i, f)
  BY <1>1 DEF Listing!Place
<1>5. ASSUME NEW i \in walk.start
      PROVE  i \in walk.seen \cup rows \/ Listing!Place(i, f) > walk.upto * PageSize + PageSize
  <2>1. i \in Listing!Matching(f) /\ Listing!Place(i, f) \in Nat
    BY <1>1, PlaceType DEF WalkKeeps
  <2>2. i \in walk.seen \/ Listing!Place(i, f) > walk.upto * PageSize
    BY DEF WalkKeeps
  <2> QED BY <1>3, <2>1, <2>2, ListConstants DEF Listing!RowsOf
<1>6. ASSUME NEW i \in walk.start, NEW o \in rows, i >= o
      PROVE  i \in walk.seen \cup rows
  <2>1. Listing!Place(i, f) <= Listing!Place(o, f) /\ Listing!Place(i, f) \in Nat
        /\ Listing!Place(o, f) \in Nat
    BY <1>1, <1>6, OlderFurther, PlaceType DEF WalkKeeps
  <2>2. Listing!Place(o, f) <= walk.upto * PageSize + PageSize
    BY <1>3 DEF Listing!RowsOf
  <2> QED BY <1>3, <1>5, <2>1, <2>2, ListConstants
<1> HIDE DEF rows
<1>7. Listing!PagingComplete'
  BY <1>2, <1>6 DEF WalkKeeps, Listing!PagingComplete
<1> QED BY <1>1, <1>2, <1>3, <1>4, <1>5, <1>7 DEF WalkKeeps

LEMMA ListNext == WalkKeeps /\ [Listing!Next]_(Listing!vars) => WalkKeeps'
<1> SUFFICES ASSUME WalkKeeps, [Listing!Next]_(Listing!vars) PROVE WalkKeeps'
  OBVIOUS
<1>0. seeds \in [Listing!Ids -> Statuses \cup {"none"}] /\ last \in Nat
      /\ \A i \in Listing!Ids : i > last => seeds[i] = "none"
  BY DEF WalkKeeps
<1>1. ASSUME UNCHANGED <<seeds, last, walk>> PROVE WalkKeeps'
  BY <1>1 DEF WalkKeeps, Listing!Place, Listing!Matching, Listing!PagingComplete
<1>2. ASSUME NEW p \in Listing!Ids, NEW f \in Shown, Listing!ListSeeds(p, f) PROVE WalkKeeps'
  <2>1. UNCHANGED <<seeds, last>> /\ walk' = Listing!Walked(p, f)
    BY <1>2 DEF Listing!ListSeeds
  <2>2. CASE p = 1
    BY <2>1, <2>2, FirstPage DEF Listing!Walked
  <2>3. CASE p # 1 /\ p = walk.upto + 1 /\ f = walk.filter
    BY <2>1, <2>3, NextPage DEF Listing!Walked
  <2>4. CASE p # 1 /\ ~ (p = walk.upto + 1 /\ f = walk.filter)
    BY <1>1, <2>1, <2>4 DEF Listing!Walked
  <2> QED BY <2>2, <2>3, <2>4
<1>3. ASSUME NEW status \in Statuses, Listing!Discover(status) PROVE WalkKeeps'
  <2>1. last' = last + 1 /\ seeds' = [seeds EXCEPT ![last + 1] = status] /\ walk' = walk
        /\ last < MaxSeeds
    BY <1>3 DEF Listing!Discover
  <2>2. last + 1 \in Listing!Ids /\ seeds[last + 1] = "none"
    BY <1>0, <2>1, ListConstants DEF Listing!Ids
  <2>3. /\ seeds' \in [Listing!Ids -> Statuses \cup {"none"}]
        /\ \A i \in Listing!Ids : i # last + 1 => seeds'[i] = seeds[i]
    BY <1>0, <2>1, <2>2
  <2>4. \A i \in Listing!Ids : i > last' => seeds'[i] = "none"
    BY <1>0, <2>1, <2>3 DEF Listing!Ids
  <2>5. Listing!Matching(walk.filter) \subseteq Listing!Matching(walk.filter)'
    BY <2>1, <2>2, <2>3 DEF Listing!Matching, Listing!Matches
  <2>6. last' \in Nat
    BY <1>0, <2>1
  <2> QED BY <2>1, <2>3, <2>4, <2>5, <2>6, Disturbed
<1>4. ASSUME NEW k \in Listing!Ids, NEW status \in Statuses \cup {"none"}, Listing!Change(k, status)
      PROVE  WalkKeeps'
  <2>1. seeds[k] # "none" /\ seeds' = [seeds EXCEPT ![k] = status] /\ last' = last
    BY <1>4 DEF Listing!Change
  <2>2. /\ seeds' \in [Listing!Ids -> Statuses \cup {"none"}]
        /\ \A i \in Listing!Ids : seeds'[i] = IF i = k THEN status ELSE seeds[i]
    BY <1>0, <2>1
  <2>3. \A i \in Listing!Ids : i > last' => seeds'[i] = "none"
    BY <1>0, <2>1, <2>2
  <2>4. CASE Listing!Matches(seeds[k], walk.filter) /\ ~ Listing!Matches(status, walk.filter)
    BY <1>0, <1>4, <2>1, <2>2, <2>3, <2>4, Disturbed DEF Listing!Change
  <2>5. CASE ~ (Listing!Matches(seeds[k], walk.filter) /\ ~ Listing!Matches(status, walk.filter))
    <3>1. walk' = walk
      BY <1>4, <2>5 DEF Listing!Change
    <3>2. Listing!Matching(walk.filter) \subseteq Listing!Matching(walk.filter)'
      BY <2>2, <2>5, <3>1 DEF Listing!Matching, Listing!Matches
    <3> QED BY <1>0, <2>1, <2>2, <2>3, <3>1, <3>2, Disturbed
  <2> QED BY <2>4, <2>5
<1>5. CASE UNCHANGED Listing!vars
  BY <1>1, <1>5 DEF Listing!vars
<1> QED BY <1>2, <1>3, <1>4, <1>5 DEF Listing!Next

LEMMA ListPart == [PartsNext]_allVars => [Listing!Next]_(Listing!vars)
  BY DEF PartsNext, allVars, pageVars, listVars, Listing!vars

LEMMA WalksComplete == PartsSpec => []Listing!PagingComplete
<1>1. PartsInit => WalkKeeps
  BY ListInit DEF PartsInit
<1>2. WalkKeeps /\ [PartsNext]_allVars => WalkKeeps'
  BY ListPart, ListNext
<1>3. WalkKeeps => Listing!PagingComplete
  BY DEF WalkKeeps
<1> QED BY <1>1, <1>2, <1>3, PTL DEF PartsSpec

-----------------------------------------------------------------------------
(* The page of the events.                                                   *)

(* The rows are numbered in the order they are written.                      *)
LogHeld ==
  /\ log \subseteq Events!Rows /\ IsFiniteSet(log) /\ written \in 0 .. MaxEvents
  /\ \A e \in log : e.id <= written
  /\ \A d, e \in log : d.id = e.id => d = e

(* An answer has the newest rows of its level after its cursor: nothing is   *)
(* missing between its newest row and its oldest one, nor, unless it is cut  *)
(* off, between its newest row and the cursor.                               *)
Fits(f, e) == f \in {AnyOne, e.level}
AnswerHeld(r) ==
  /\ \A i \in DOMAIN r.rows :
       r.rows[i].id > r.since /\ r.rows[i].id <= written /\ Fits(r.level, r.rows[i])
  /\ \A i, j \in DOMAIN r.rows : i < j => r.rows[i].id > r.rows[j].id
  /\ r.rows # <<>> =>
       \A e \in log :
         /\ Fits(r.level, e) /\ e.id > r.since /\ e.id <= r.rows[1].id
         /\ r.cut => \E i \in DOMAIN r.rows : r.rows[i].id <= e.id
         => \E i \in DOMAIN r.rows : r.rows[i] = e

(* A load that is not superseded asked for what the page still shows.        *)
LoadRecord ==
  [no : Nat \ {0}, reset : BOOLEAN, since : Nat, level : Choices, read : BOOLEAN,
   rows : Seq(Events!Rows), cut : BOOLEAN]
LoadHeld(r) ==
  /\ r.no <= requestId /\ AnswerHeld(r)
  /\ r.no = requestId => r.level = level /\ r.since = IF r.reset THEN 0 ELSE since

PageTyped ==
  /\ level \in Choices /\ since \in 0 .. written /\ requestId \in 0 .. MaxLoads
  /\ hasMore \in BOOLEAN /\ loading \in BOOLEAN /\ gap \in BOOLEAN
  /\ events \in Seq(Events!Rows)
LoadsHeld ==
  /\ requests \subseteq LoadRecord
  /\ \A q, r \in requests : q.no = r.no => q = r
  /\ \A r \in requests : LoadHeld(r)

(* EventsFaithful over the positions of the list.                            *)
ListedRows ==
  /\ \A i \in DOMAIN events : Fits(level, events[i])
  /\ \A i, j \in DOMAIN events : events[i] = events[j] => i = j
  /\ ~gap => \A e \in log :
       /\ Fits(level, e) /\ e.id <= since
       /\ \E i \in DOMAIN events : events[i].id <= e.id
       => \E i \in DOMAIN events : events[i] = e

EventsInv == LogHeld /\ PageTyped /\ LoadsHeld /\ ListedRows

LEMMA EventConstants ==
  AnyOne \in Choices /\ AnswerSize \in Nat \ {0} /\ MaxEvents \in Nat /\ MaxLoads \in Nat
  BY EventParameters DEF Events!EventsAssumption

LEMMA SameRanks ==
  /\ \A S : Events!Cardinality(S) = Cardinality(S)
  /\ \A K, n : Events!Nth(K, n) = Nth(K, n)
<1>1. ASSUME NEW S PROVE Events!Cardinality(S) = Cardinality(S)
  BY Zenon DEF Events!Cardinality, Cardinality
<1>2. ASSUME NEW K, NEW n PROVE Events!Nth(K, n) = Nth(K, n)
  BY <1>1, Zenon DEF Events!Nth, Nth
<1> QED BY <1>1, <1>2

LEMMA SameEntries == \A s, K : Events!EntriesAt(s, K) = EntriesAt(s, K)
<1>1. ASSUME NEW s, NEW K PROVE Events!EntriesAt(s, K) = EntriesAt(s, K)
  BY SameRanks, Zenon DEF Events!EntriesAt, EntriesAt
<1> QED BY <1>1

LEMMA RowIds == \A e \in Events!Rows : e.id \in 1 .. MaxEvents /\ e.id \in Nat /\ e.level \in Levels
  BY EventConstants DEF Events!Rows

(* The newest rows, newest first, and all of them when they are few enough.  *)
LEMMA NewestIs ==
  ASSUME NEW found, found \subseteq Events!Rows, IsFiniteSet(found),
         \A d, e \in found : d.id = e.id => d = e,
         NEW out, out = Events!Newest(found)
  PROVE  /\ out \in Seq(found)
         /\ \A i, j \in DOMAIN out : i < j => out[i].id > out[j].id
         /\ \A e \in found, j \in DOMAIN out :
              e.id >= out[j].id => \E i \in DOMAIN out : out[i] = e
         /\ Events!Cardinality(found) <= AnswerSize =>
              \A e \in found : \E i \in DOMAIN out : out[i] = e
<1> DEFINE ids == {e.id : e \in found}
           many == Events!Cardinality(ids)
           m == IF many < AnswerSize THEN many ELSE AnswerSize
           Row(n) == CHOOSE e \in found : e.id = Events!Nth(ids, many + 1 - n)
<1>1. found \subseteq Events!Rows /\ ids \subseteq 1 .. MaxEvents /\ ids \subseteq Int
  BY RowIds
<1>2. IsFiniteSet(ids) /\ many \in Nat
  <2>1. IsFiniteSet(1 .. MaxEvents)
    BY EventConstants, FS_Interval
  <2> HIDE DEF ids
  <2> QED BY <1>1, <2>1, SameRanks, FS_Subset, FS_CardinalityType
<1>0. many = Cardinality(ids)
  BY SameRanks, Zenon
<1>3. m \in Nat /\ m <= many
  BY <1>2, EventConstants
<1>4. out = [n \in 1 .. m |-> Row(n)]
  BY DEF Events!Newest
<1>5. ASSUME NEW n \in 1 .. m
      PROVE  /\ many + 1 - n \in 1 .. many
             /\ out[n] \in found /\ out[n].id = Nth(ids, many + 1 - n)
  <2>1. many + 1 - n \in 1 .. many
    BY <1>2, <1>3
  <2>2. Nth(ids, many + 1 - n) \in ids
    <3> HIDE DEF ids
    <3> QED BY <1>0, <1>1, <1>2, <2>1, NthRanked
  <2>3. \E e \in found : e.id = Events!Nth(ids, many + 1 - n)
    BY <2>2, SameRanks
  <2>4. Row(n) \in found /\ Row(n).id = Events!Nth(ids, many + 1 - n)
    BY <2>3
  <2>5. out[n] = Row(n)
    BY <1>4
  <2> QED BY <2>1, <2>4, <2>5, SameRanks
<1>6. /\ out \in Seq(found) /\ DOMAIN out = 1 .. m
  <2>1. out \in [1 .. m -> found]
    BY <1>4, <1>5
  <2> HIDE DEF m
  <2> QED BY <1>3, <2>1
<1>7. \A e \in found : e.id \in ids
  OBVIOUS
<1>8. ASSUME NEW e \in found, RankIn(ids, e.id) \in many + 1 - m .. many
      PROVE  \E i \in DOMAIN out : out[i] = e
  <2> DEFINE i == many + 1 - RankIn(ids, e.id)
  <2>1. i \in 1 .. m /\ many + 1 - i = RankIn(ids, e.id)
    BY <1>2, <1>3, <1>8
  <2>2. Nth(ids, RankIn(ids, e.id)) = e.id
    <3> HIDE DEF ids
    <3> QED BY <1>1, <1>2, <1>7, <1>0, NthReaches
  <2>3. out[i] \in found /\ out[i].id = e.id
    <3> HIDE DEF ids, m
    <3> QED BY <1>5, <2>1, <2>2
  <2>4. out[i] = e
    <3> HIDE DEF i
    <3> QED BY <2>3
  <2> QED BY <1>6, <2>1, <2>4
<1>9. ASSUME NEW e \in found PROVE RankIn(ids, e.id) \in 1 .. many /\ Nth(ids, RankIn(ids, e.id)) = e.id
  <2> HIDE DEF ids
  <2> QED BY <1>1, <1>2, <1>7, <1>0, NthReaches
<1>10. ASSUME NEW i \in DOMAIN out, NEW j \in DOMAIN out, i < j PROVE out[i].id > out[j].id
  <2>1. /\ many + 1 - i \in 1 .. many /\ many + 1 - j \in 1 .. many
        /\ many + 1 - j < many + 1 - i
        /\ out[i].id = Nth(ids, many + 1 - i) /\ out[j].id = Nth(ids, many + 1 - j)
    <3>1. i \in 1 .. m /\ j \in 1 .. m
      BY <1>6
    <3> HIDE DEF ids, m
    <3>2. many + 1 - j < many + 1 - i
      BY <1>2, <1>3, <1>10, <3>1
    <3> QED BY <1>5, <3>1, <3>2
  <2> HIDE DEF ids
  <2>2. Nth(ids, many + 1 - j) < Nth(ids, many + 1 - i)
    BY <1>1, <1>2, <2>1, <1>0, NthGrows
  <2>3. Nth(ids, many + 1 - j) \in Int /\ Nth(ids, many + 1 - i) \in Int
    BY <1>1, <1>2, <2>1, <1>0, NthRanked
  <2> QED BY <2>1, <2>2, <2>3
<1>11. ASSUME NEW e \in found, NEW j \in DOMAIN out, e.id >= out[j].id
       PROVE  \E i \in DOMAIN out : out[i] = e
  <2>1. /\ many + 1 - j \in 1 .. many /\ out[j].id = Nth(ids, many + 1 - j)
        /\ j \in 1 .. m
    BY <1>5, <1>6
  <2>2. RankIn(ids, e.id) \in 1 .. many /\ Nth(ids, RankIn(ids, e.id)) = e.id
    BY <1>9
  <2>3. ~ (RankIn(ids, e.id) < many + 1 - j)
    <3> SUFFICES ASSUME RankIn(ids, e.id) < many + 1 - j PROVE FALSE
      OBVIOUS
    <3> HIDE DEF ids
    <3>1. Nth(ids, RankIn(ids, e.id)) < Nth(ids, many + 1 - j)
      BY <1>1, <1>2, <2>1, <2>2, <1>0, NthGrows
    <3>2. e.id \in Int /\ out[j].id \in Int
      BY <1>1, <1>2, <2>1, <2>2, <1>0, NthRanked
    <3> QED BY <1>11, <2>1, <2>2, <3>1, <3>2
  <2>4. RankIn(ids, e.id) \in many + 1 - m .. many
    <3> HIDE DEF ids, m
    <3> QED BY <1>2, <1>3, <2>1, <2>2, <2>3
  <2> HIDE DEF ids
  <2> QED BY <1>8, <2>4
<1>12. ASSUME Events!Cardinality(found) <= AnswerSize, NEW e \in found
       PROVE  \E i \in DOMAIN out : out[i] = e
  <2>1. many <= Cardinality(found) /\ Cardinality(found) \in Nat
    <3> DEFINE g == [k \in ids |-> CHOOSE e2 \in found : e2.id = k]
    <3>1. \A k \in ids : g[k] \in found /\ g[k].id = k
      OBVIOUS
    <3>2. g \in [ids -> found]
      BY <3>1
    <3> HIDE DEF ids, g
    <3>3. ~ (Cardinality(found) < Cardinality(ids))
      BY <1>2, <3>1, <3>2, FS_PigeonHole
    <3> QED BY <1>0, <1>2, <3>3, FS_CardinalityType
  <2>2. m = many
    BY <1>2, <1>12, <2>1, EventConstants, SameRanks
  <2>3. RankIn(ids, e.id) \in many + 1 - m .. many
    <3> HIDE DEF ids, m
    <3> QED BY <1>2, <1>9, <2>2
  <2> HIDE DEF ids, m
  <2> QED BY <1>8, <2>3
<1> QED BY <1>6, <1>10, <1>11, <1>12

(* The positions of the list tell what the list shows.                       *)
LEMMA ListedIs ==
  ASSUME events \in Seq(Events!Rows), log \subseteq Events!Rows, ListedRows
  PROVE  Events!EventsFaithful
<1>1. DOMAIN events = 1 .. Len(events) /\ Events!ToSet(events) = {events[i] : i \in DOMAIN events}
  BY DEF Events!ToSet
<1>2. \A e \in Events!ToSet(events) : level \in {AnyOne, e.level}
  BY <1>1 DEF ListedRows, Fits
<1>3. Events!IsInjective(events)
  BY DEF ListedRows, Events!IsInjective
<1>4. ASSUME ~gap, NEW e \in Events!Matching(0, level), e.id <= since,
             NEW old \in Events!ToSet(events), old.id <= e.id
      PROVE  Events!Contains(events, e)
  <2>1. e \in log /\ Fits(level, e)
    BY DEF Events!Matching, Fits
  <2>2. \E i \in DOMAIN events : events[i].id <= e.id
    BY <1>1, <1>4
  <2>3. \E i \in DOMAIN events : events[i] = e
    BY <1>4, <2>1, <2>2 DEF ListedRows
  <2> QED BY <1>1, <2>3 DEF Events!Contains
<1> QED BY <1>2, <1>3, <1>4 DEF Events!EventsFaithful

LEMMA EventsInit == Events!Init => EventsInv
<1> SUFFICES ASSUME Events!Init PROVE EventsInv
  OBVIOUS
<1>1. LogHeld
  BY FS_EmptySet, EventConstants DEF Events!Init, LogHeld
<1>2. PageTyped
  <2>1. <<>> \in Seq(Events!Rows)
    OBVIOUS
  <2>2. events \in Seq(Events!Rows)
    BY <2>1, Zenon DEF Events!Init
  <2>3. since \in 0 .. written /\ requestId \in 0 .. MaxLoads
    BY EventConstants DEF Events!Init
  <2> QED BY <2>2, <2>3, EventConstants, Zenon DEF Events!Init, PageTyped
<1>3. LoadsHeld /\ ListedRows
  BY DEF Events!Init, LoadsHeld, ListedRows
<1> QED BY <1>1, <1>2, <1>3 DEF EventsInv

(* What is known of a load under way.                                        *)
LEMMA LoadFacts ==
  ASSUME EventsInv, NEW r \in requests
  PROVE  /\ r \in LoadRecord /\ r.no \in Nat /\ r.since \in Nat /\ r.level \in Choices
         /\ r.rows \in Seq(Events!Rows) /\ Len(r.rows) \in Nat /\ DOMAIN r.rows = 1 .. Len(r.rows)
         /\ r.read \in BOOLEAN /\ r.cut \in BOOLEAN /\ r.reset \in BOOLEAN
         /\ \A i \in DOMAIN r.rows : r.rows[i] \in Events!Rows /\ r.rows[i].id \in Nat
         /\ r.no <= requestId /\ AnswerHeld(r)
         /\ r.no = requestId => r.level = level /\ r.since = IF r.reset THEN 0 ELSE since
<1>1. r \in LoadRecord /\ LoadHeld(r)
  BY DEF EventsInv, LoadsHeld
<1>2. r.rows \in Seq(Events!Rows)
  BY <1>1 DEF LoadRecord
<1>3. \A i \in DOMAIN r.rows : r.rows[i] \in Events!Rows
  BY <1>2
<1> QED BY <1>1, <1>2, <1>3, RowIds DEF LoadRecord, LoadHeld

(* An answer stands when rows are written or deleted.                        *)
LEMMA AnswersStand ==
  ASSUME EventsInv, written' \in Nat, written <= written',
         \A e \in log' : e \in log \/ e.id > written, \A e \in log' : e.id \in Nat,
         NEW r \in requests
  PROVE  AnswerHeld(r)'
<1>1. AnswerHeld(r) /\ r.rows \in Seq(Events!Rows)
      /\ \A i \in DOMAIN r.rows : r.rows[i].id \in Nat
  BY LoadFacts
<1>2. written \in Nat
  BY EventConstants DEF EventsInv, LogHeld
<1>3. \A i \in DOMAIN r.rows : r.rows[i].id <= written'
  BY <1>1, <1>2 DEF AnswerHeld
<1>4. ASSUME r.rows # <<>>, NEW e \in log', Fits(r.level, e), e.id > r.since, e.id <= r.rows[1].id,
             r.cut => \E i \in DOMAIN r.rows : r.rows[i].id <= e.id
      PROVE  \E i \in DOMAIN r.rows : r.rows[i] = e
  <2>1. 1 \in DOMAIN r.rows
    BY <1>1, <1>4
  <2>2. r.rows[1].id <= written
    BY <1>1, <2>1 DEF AnswerHeld
  <2>3. e \in log
    <3>1. e.id \in Nat /\ r.rows[1].id \in Nat
      BY <1>1, <2>1
    <3> QED BY <1>2, <1>4, <2>2, <3>1
  <2> QED BY <1>1, <1>4, <2>3 DEF AnswerHeld
<1> QED BY <1>1, <1>3, <1>4 DEF AnswerHeld, Fits

LEMMA LogChanges ==
  ASSUME EventsInv, (\E l \in Levels : Events!AppendRow(l))
                    \/ (\E rows \in SUBSET log : Events!DeleteRows(rows))
  PROVE  EventsInv'
<1>0. /\ log \subseteq Events!Rows /\ IsFiniteSet(log) /\ written \in 0 .. MaxEvents
      /\ written \in Nat /\ MaxEvents \in Nat
      /\ \A e \in log : e.id <= written
      /\ \A d, e \in log : d.id = e.id => d = e
  BY EventConstants DEF EventsInv, LogHeld
<1>1. UNCHANGED <<level, events, since, hasMore, loading, requestId, gap, requests>>
  BY DEF Events!AppendRow, Events!DeleteRows, Events!page
<1>2. LogHeld' /\ written' \in Nat /\ written <= written'
      /\ \A e \in log' : e \in log \/ e.id > written
  <2>1. ASSUME NEW l \in Levels, Events!AppendRow(l)
        PROVE  LogHeld' /\ written' \in Nat /\ written <= written'
               /\ \A e \in log' : e \in log \/ e.id > written
    <3> DEFINE e == [id |-> written + 1, level |-> l]
    <3>1. written' = written + 1 /\ written < MaxEvents /\ log' = log \cup {e}
      BY <2>1 DEF Events!AppendRow
    <3>2. e \in Events!Rows /\ e.id = written + 1
      BY <1>0, <3>1 DEF Events!Rows
    <3>3. IsFiniteSet(log')
      BY <1>0, <3>1, FS_AddElement
    <3> HIDE DEF e
    <3>4. \A d \in log : d.id \in Nat
      BY <1>0, RowIds
    <3> QED BY <1>0, <3>1, <3>2, <3>3, <3>4 DEF LogHeld
  <2>2. ASSUME NEW rows \in SUBSET log, Events!DeleteRows(rows)
        PROVE  LogHeld' /\ written' \in Nat /\ written <= written'
               /\ \A e \in log' : e \in log \/ e.id > written
    <3>1. log' = log \ rows /\ written' = written
      BY <2>2 DEF Events!DeleteRows
    <3>2. log' \in SUBSET log
      BY <3>1
    <3>3. IsFiniteSet(log')
      BY <1>0, <3>2, FS_Subset
    <3> QED BY <1>0, <3>1, <3>3 DEF LogHeld
  <2> QED BY <2>1, <2>2
<1>3. \A e \in log' : e.id \in Nat
  BY <1>2, RowIds DEF LogHeld
<1>4. PageTyped'
  BY <1>0, <1>1, <1>2 DEF EventsInv, PageTyped
<1>5. LoadsHeld'
  <2>1. ASSUME NEW r \in requests PROVE LoadHeld(r)'
    <3>1. AnswerHeld(r)'
      BY <1>2, <1>3, AnswersStand
    <3> QED BY <1>1, <3>1, LoadFacts DEF LoadHeld
  <2> QED BY <1>1, <2>1 DEF EventsInv, LoadsHeld
<1>6. ListedRows'
  <2>1. ASSUME NEW e \in log', e.id <= since PROVE e \in log
    BY <1>0, <1>2, <1>3, <2>1 DEF EventsInv, PageTyped
  <2> QED BY <1>1, <2>1 DEF EventsInv, ListedRows, Fits
<1> QED BY <1>2, <1>4, <1>5, <1>6 DEF EventsInv

(* A step of the page that takes loads away or adds one.                     *)
LEMMA EventsServe ==
  ASSUME EventsInv, NEW r \in requests, Events!Serve(r)
  PROVE  EventsInv'
<1> DEFINE found == Events!Matching(r.since, r.level)
           out == Events!Newest(found)
           cut == Events!Cardinality(found) > AnswerSize
           answered == [r EXCEPT !.read = TRUE, !.rows = out, !.cut = cut]
<1>1. /\ requests' = (requests \ {r}) \cup {answered}
      /\ UNCHANGED <<log, written, level, events, since, hasMore, loading, requestId, gap>>
  BY DEF Events!Serve, Events!page
<1>2. /\ r \in LoadRecord /\ r.no \in Nat /\ r.since \in Nat /\ r.level \in Choices
      /\ r.no <= requestId
      /\ r.no = requestId => r.level = level /\ r.since = IF r.reset THEN 0 ELSE since
  BY LoadFacts
<1>3. /\ log \subseteq Events!Rows /\ IsFiniteSet(log) /\ \A e \in log : e.id <= written
      /\ \A d, e \in log : d.id = e.id => d = e
  BY DEF EventsInv, LogHeld
<1>4. /\ found \subseteq log /\ IsFiniteSet(found)
      /\ \A e \in log : e \in found <=> Fits(r.level, e) /\ e.id > r.since
  <2>1. found \subseteq log /\ \A e \in log : e \in found <=> Fits(r.level, e) /\ e.id > r.since
    BY DEF Events!Matching, Fits
  <2> HIDE DEF found
  <2> QED BY <1>3, <2>1, FS_Subset
<1> HIDE DEF found
<1>5. /\ out \in Seq(found) /\ \A i, j \in DOMAIN out : i < j => out[i].id > out[j].id
      /\ \A e \in found, j \in DOMAIN out : e.id >= out[j].id => \E i \in DOMAIN out : out[i] = e
      /\ ~cut => \A e \in found : \E i \in DOMAIN out : out[i] = e
  <2>1. found \subseteq Events!Rows /\ \A d, e \in found : d.id = e.id => d = e
    BY <1>3, <1>4
  <2>2. /\ out \in Seq(found) /\ \A i, j \in DOMAIN out : i < j => out[i].id > out[j].id
        /\ \A e \in found, j \in DOMAIN out : e.id >= out[j].id => \E i \in DOMAIN out : out[i] = e
        /\ Events!Cardinality(found) <= AnswerSize =>
              \A e \in found : \E i \in DOMAIN out : out[i] = e
    BY <1>4, <2>1, NewestIs
  <2>3. Events!Cardinality(found) \in Nat /\ AnswerSize \in Nat
    BY <1>4, SameRanks, FS_CardinalityType, EventConstants
  <2> QED BY <2>2, <2>3
<1> HIDE DEF out, cut
<1>6. \A i \in DOMAIN out : out[i] \in found /\ out[i].id \in Nat
  BY <1>3, <1>4, <1>5, RowIds
<1>7. /\ answered \in LoadRecord /\ answered.no = r.no /\ answered.since = r.since
      /\ answered.level = r.level /\ answered.reset = r.reset
      /\ answered.rows = out /\ answered.cut = cut
  <2>1. out \in Seq(Events!Rows)
    BY <1>3, <1>4, <1>5
  <2>2. cut \in BOOLEAN
    BY DEF cut
  <2> QED BY <1>2, <2>1, <2>2 DEF LoadRecord
<1>8. PICK a : a = answered
  OBVIOUS
<1> HIDE DEF answered
<1>9. AnswerHeld(a)
  <2>1. \A i \in DOMAIN out : out[i].id > r.since /\ out[i].id <= written /\ Fits(r.level, out[i])
    BY <1>3, <1>4, <1>6
  <2>2. ASSUME NEW e \in log, Fits(r.level, e), e.id > r.since,
               cut => \E i \in DOMAIN out : out[i].id <= e.id
        PROVE  \E i \in DOMAIN out : out[i] = e
    <3>1. e \in found /\ e.id \in Nat
      BY <1>3, <1>4, <2>2, RowIds
    <3>2. CASE ~cut
      BY <1>5, <3>1, <3>2
    <3>3. CASE \E i \in DOMAIN out : out[i].id <= e.id
      <4>1. PICK j \in DOMAIN out : out[j].id <= e.id
        BY <3>3
      <4>2. e.id >= out[j].id
        BY <1>6, <3>1, <4>1
      <4> QED BY <1>5, <3>1, <4>2
    <3> QED BY <2>2, <3>2, <3>3
  <2> QED BY <1>5, <1>7, <1>8, <2>1, <2>2 DEF AnswerHeld
<1>10. LoadsHeld'
  <2>1. requests' \subseteq LoadRecord
    BY <1>1, <1>7, <1>8 DEF EventsInv, LoadsHeld
  <2>2. ASSUME NEW p \in requests', NEW q \in requests', p.no = q.no PROVE p = q
    BY <1>1, <1>7, <1>8, <2>2 DEF EventsInv, LoadsHeld
  <2>3. ASSUME NEW q \in requests' PROVE LoadHeld(q)'
    <3>1. CASE q = a
      BY <1>1, <1>2, <1>7, <1>8, <1>9, <3>1 DEF LoadHeld, AnswerHeld, Fits
    <3>2. CASE q \in requests
      <4>1. LoadHeld(q)
        BY <3>2 DEF EventsInv, LoadsHeld
      <4> QED BY <1>1, <4>1 DEF LoadHeld, AnswerHeld, Fits
    <3> QED BY <1>1, <1>8, <3>1, <3>2
  <2> QED BY <2>1, <2>2, <2>3 DEF LoadsHeld
<1> QED BY <1>1, <1>10 DEF EventsInv, LogHeld, PageTyped, ListedRows, Fits

(* A load that is dropped or fails leaves what is shown.                     *)
LEMMA EventsDrop ==
  ASSUME EventsInv, NEW r \in requests, Events!Drop(r) \/ Events!Fail(r)
  PROVE  EventsInv'
<1>1. /\ requests' = requests \ {r} /\ loading' \in BOOLEAN
      /\ UNCHANGED <<log, written, level, events, since, hasMore, requestId, gap>>
  BY DEF Events!Drop, Events!Fail, Events!page, EventsInv, PageTyped
<1>2. LoadsHeld'
  BY <1>1 DEF EventsInv, LoadsHeld, LoadHeld, AnswerHeld, Fits
<1> QED BY <1>1, <1>2 DEF EventsInv, LogHeld, PageTyped, ListedRows, Fits

(* A new load: the others are late from then on.                             *)
LEMMA EventsSend ==
  ASSUME EventsInv, UNCHANGED <<log, written>>,
         NEW reset \in BOOLEAN, NEW after \in Nat, NEW filter \in Choices,
         Events!Send(reset, after, filter),
         level' = filter /\ after = IF reset THEN 0 ELSE since'
  PROVE  LoadsHeld' /\ requestId' \in 0 .. MaxLoads /\ loading' \in BOOLEAN
<1> DEFINE load == [no |-> requestId', reset |-> reset, since |-> after, level |-> filter,
                    read |-> FALSE, rows |-> <<>>, cut |-> FALSE]
<1>1. /\ requestId' = requestId + 1 /\ requests' = requests \cup {load} /\ loading' = TRUE
      /\ requestId < MaxLoads
  BY DEF Events!Send
<1>2. requestId \in Nat /\ requestId' \in 0 .. MaxLoads
  BY <1>1, EventConstants DEF EventsInv, PageTyped
<1>3. /\ load \in LoadRecord /\ load.no = requestId' /\ load.since = after /\ load.level = filter
      /\ load.reset = reset /\ load.rows = <<>>
  <2>1. <<>> \in Seq(Events!Rows)
    OBVIOUS
  <2>2. requestId' \in Nat \ {0} /\ after \in Nat
    BY <1>1, <1>2
  <2> QED BY <2>1, <2>2 DEF LoadRecord
<1>4. PICK a : a = load
  OBVIOUS
<1> HIDE DEF load
<1>5. LoadHeld(a)'
  <2>1. AnswerHeld(a)'
    BY <1>3, <1>4 DEF AnswerHeld
  <2> QED BY <1>2, <1>3, <1>4, <2>1 DEF LoadHeld
<1>6. ASSUME NEW q \in requests PROVE LoadHeld(q)' /\ q.no < requestId' /\ q \in LoadRecord
  <2>1. AnswerHeld(q) /\ q.no \in Nat /\ q.no <= requestId /\ q \in LoadRecord
    BY LoadFacts
  <2>2. AnswerHeld(q)'
    BY <2>1 DEF AnswerHeld, Fits
  <2> QED BY <1>1, <1>2, <2>1, <2>2 DEF LoadHeld
<1>7. ASSUME NEW p \in requests', NEW q \in requests', p.no = q.no PROVE p = q
  <2>1. p.no \in Nat /\ q.no \in Nat
    BY <1>1, <1>2, <1>3, <1>6, LoadFacts
  <2> QED BY <1>1, <1>2, <1>3, <1>6, <1>7, <2>1 DEF EventsInv, LoadsHeld
<1> QED BY <1>1, <1>2, <1>3, <1>4, <1>5, <1>6, <1>7 DEF LoadsHeld

LEMMA EventsAsk ==
  ASSUME EventsInv, Events!LoadMore \/ \E f \in Choices : Events!Reset(f)
  PROVE  EventsInv'
<1>0. written \in Nat /\ MaxEvents \in Nat
  BY EventConstants DEF EventsInv, LogHeld
<1>1. CASE Events!LoadMore
  <2>1. /\ UNCHANGED <<log, written, level, events, since, hasMore, gap>>
        /\ Events!Send(FALSE, since, level)
    BY <1>1 DEF Events!LoadMore
  <2>2. since \in Nat /\ level \in Choices
    BY <1>0 DEF EventsInv, PageTyped
  <2>3. LoadsHeld' /\ requestId' \in 0 .. MaxLoads /\ loading' \in BOOLEAN
    BY <2>1, <2>2, EventsSend
  <2> QED BY <2>1, <2>3 DEF EventsInv, LogHeld, PageTyped, ListedRows, Fits
<1>2. ASSUME NEW f \in Choices, Events!Reset(f) PROVE EventsInv'
  <2>1. /\ UNCHANGED <<log, written>> /\ level' = f /\ events' = <<>> /\ since' = 0
        /\ hasMore' = TRUE /\ gap' = FALSE /\ Events!Send(TRUE, 0, f)
    BY <1>2 DEF Events!Reset
  <2>2. LoadsHeld' /\ requestId' \in 0 .. MaxLoads /\ loading' \in BOOLEAN
    BY <2>1, EventsSend
  <2>3. PageTyped'
    <3>1. <<>> \in Seq(Events!Rows)
      OBVIOUS
    <3>2. events' \in Seq(Events!Rows)
      BY <2>1, <3>1, Zenon
    <3>3. since' \in 0 .. written'
      BY <1>0, <2>1
    <3> QED BY <2>1, <2>2, <3>2, <3>3, Zenon DEF PageTyped
  <2>4. ListedRows'
    BY <2>1 DEF ListedRows
  <2> QED BY <2>1, <2>2, <2>3, <2>4 DEF EventsInv, LogHeld
<1> QED BY <1>1, <1>2

(* The rows of an answer that are not shown yet.                             *)
LEMMA NewRows ==
  ASSUME NEW rows \in Seq(Events!Rows), NEW shown \in Seq(Events!Rows),
         \A i, j \in DOMAIN rows : i < j => rows[i] # rows[j],
         NEW K, K \subseteq DOMAIN rows,
         \A k \in DOMAIN rows : k \in K <=> ~ Events!Contains(shown, rows[k]),
         NEW new, new = Events!EntriesAt(rows, K)
  PROVE  /\ new \in Seq(Events!Rows)
         /\ \A n \in DOMAIN new : /\ \E k \in DOMAIN rows : new[n] = rows[k]
                                  /\ \A i \in DOMAIN shown : shown[i] # new[n]
         /\ \A m, n \in DOMAIN new : new[m] = new[n] => m = n
         /\ \A k \in DOMAIN rows :
              \/ \E i \in DOMAIN shown : shown[i] = rows[k]
              \/ \E n \in DOMAIN new : new[n] = rows[k]
<1>2. \A k \in DOMAIN rows : k \in K <=> \A i \in DOMAIN shown : shown[i] # rows[k]
  BY DEF Events!Contains
<1>3. new = EntriesAt(rows, K)
  BY SameEntries
<1>4. /\ new \in Seq(Events!Rows) /\ Len(new) = Cardinality(K)
      /\ \A n \in 1 .. Cardinality(K) : Nth(K, n) \in K /\ new[n] = rows[Nth(K, n)]
      /\ \A k \in K : \E n \in 1 .. Cardinality(K) : new[n] = rows[k]
      /\ \A m, n \in 1 .. Cardinality(K) : m < n => Nth(K, m) < Nth(K, n)
  <2>1. /\ EntriesAt(rows, K) \in Seq(Events!Rows)
        /\ Len(EntriesAt(rows, K)) = Cardinality(K)
        /\ \A n \in 1 .. Cardinality(K) :
             Nth(K, n) \in K /\ EntriesAt(rows, K)[n] = rows[Nth(K, n)]
        /\ \A k \in K : \E n \in 1 .. Cardinality(K) : EntriesAt(rows, K)[n] = rows[k]
        /\ \A m, n \in 1 .. Cardinality(K) : m < n => Nth(K, m) < Nth(K, n)
    BY EntriesKept
  <2> QED BY <1>3, <2>1, Zenon
<1>5. DOMAIN new = 1 .. Cardinality(K) /\ Cardinality(K) \in Nat
  BY <1>4
<1>6. ASSUME NEW m \in DOMAIN new, NEW n \in DOMAIN new, m < n PROVE new[m] # new[n]
  <2>1. Nth(K, m) \in DOMAIN rows /\ Nth(K, n) \in DOMAIN rows /\ Nth(K, m) < Nth(K, n)
    BY <1>4, <1>5, <1>6
  <2> QED BY <1>4, <1>5, <2>1
<1>7. ASSUME NEW m \in DOMAIN new, NEW n \in DOMAIN new, new[m] = new[n] PROVE m = n
  <2>1. m \in Int /\ n \in Int
    BY <1>5
  <2>2. ~ (m < n) /\ ~ (n < m)
    BY <1>6, <1>7
  <2> QED BY <2>1, <2>2
<1>8. ASSUME NEW n \in DOMAIN new
      PROVE  /\ \E k \in DOMAIN rows : new[n] = rows[k]
             /\ \A i \in DOMAIN shown : shown[i] # new[n]
  <2>1. Nth(K, n) \in K /\ new[n] = rows[Nth(K, n)]
    BY <1>4, <1>5
  <2> QED BY <1>2, <2>1
<1>9. ASSUME NEW k \in DOMAIN rows
      PROVE  \/ \E i \in DOMAIN shown : shown[i] = rows[k]
             \/ \E n \in DOMAIN new : new[n] = rows[k]
  BY <1>2, <1>4, <1>5
<1> QED BY <1>4, <1>7, <1>8, <1>9

LEMMA EventsTake ==
  ASSUME EventsInv, NEW r \in requests, Events!Take(r)
  PROVE  EventsInv'
<1> DEFINE new == Events!EntriesAt(r.rows,
                    {k \in DOMAIN r.rows : ~ Events!Contains(events, r.rows[k])})
<1>1. /\ requests' = requests \ {r} /\ loading' = FALSE /\ r.no = requestId
      /\ UNCHANGED <<log, written, level, requestId>>
  BY DEF Events!Take, Events!Late
<1>2. /\ r.since \in Nat /\ r.rows \in Seq(Events!Rows) /\ DOMAIN r.rows = 1 .. Len(r.rows)
      /\ Len(r.rows) \in Nat /\ r.cut \in BOOLEAN /\ r.reset \in BOOLEAN
      /\ \A i \in DOMAIN r.rows : r.rows[i] \in Events!Rows /\ r.rows[i].id \in Nat
      /\ AnswerHeld(r) /\ r.level = level /\ r.since = IF r.reset THEN 0 ELSE since
  BY <1>1, LoadFacts
<1>3. /\ events \in Seq(Events!Rows) /\ since \in 0 .. written /\ written \in Nat
      /\ DOMAIN events = 1 .. Len(events) /\ Len(events) \in Nat
      /\ hasMore \in BOOLEAN /\ gap \in BOOLEAN
      /\ log \subseteq Events!Rows /\ \A e \in log : e.id \in Nat
  BY RowIds, EventConstants DEF EventsInv, PageTyped, LogHeld
<1>4. \A i, j \in DOMAIN r.rows : i < j => r.rows[i] # r.rows[j]
  BY <1>2 DEF AnswerHeld
<1>5. /\ new \in Seq(Events!Rows)
      /\ \A n \in DOMAIN new : /\ \E k \in DOMAIN r.rows : new[n] = r.rows[k]
                               /\ \A i \in DOMAIN events : events[i] # new[n]
      /\ \A m, n \in DOMAIN new : new[m] = new[n] => m = n
      /\ \A k \in DOMAIN r.rows : \/ \E i \in DOMAIN events : events[i] = r.rows[k]
                                  \/ \E n \in DOMAIN new : new[n] = r.rows[k]
  <2>1. PICK K : K = {k \in DOMAIN r.rows : ~ Events!Contains(events, r.rows[k])}
    OBVIOUS
  <2>2. /\ K \subseteq DOMAIN r.rows /\ new = Events!EntriesAt(r.rows, K)
        /\ \A k \in DOMAIN r.rows : k \in K <=> ~ Events!Contains(events, r.rows[k])
    BY <2>1
  <2>3. r.rows \in Seq(Events!Rows) /\ events \in Seq(Events!Rows)
    BY <1>2, <1>3
  <2> HIDE DEF new
  <2> QED BY <1>4, <2>2, <2>3, NewRows
<1>6. LoadsHeld'
  <2>1. ASSUME NEW q \in requests' PROVE LoadHeld(q)'
    <3>1. q \in requests /\ q # r /\ LoadHeld(q) /\ q.no # requestId
      BY <1>1 DEF EventsInv, LoadsHeld
    <3> QED BY <1>1, <3>1 DEF LoadHeld, AnswerHeld, Fits
  <2> QED BY <1>1, <2>1 DEF EventsInv, LoadsHeld
<1>7. CASE r.rows = <<>>
  <2>1. UNCHANGED <<events, since, gap>> /\ hasMore' = FALSE
    BY <1>7 DEF Events!Take
  <2> QED BY <1>1, <1>6, <2>1 DEF EventsInv, LogHeld, PageTyped, ListedRows, Fits
<1>8. CASE r.rows # <<>>
  <2>1. /\ since' = r.rows[1].id /\ gap' = (gap \/ (r.cut /\ ~r.reset))
        /\ events' = IF r.reset THEN r.rows ELSE events \o new
        /\ hasMore' = IF r.reset THEN hasMore ELSE new # <<>>
    BY <1>8 DEF Events!Take
  <2> HIDE DEF new
  <2>2. 1 \in DOMAIN r.rows /\ since' \in Nat /\ r.rows[1].id <= written /\ r.rows[1].id > r.since
    BY <1>2, <1>8, <2>1 DEF AnswerHeld
  <2>3. /\ DOMAIN new = 1 .. Len(new) /\ Len(new) \in Nat
        /\ events \o new \in Seq(Events!Rows)
        /\ DOMAIN (events \o new) = 1 .. (Len(events) + Len(new))
        /\ \A i \in 1 .. (Len(events) + Len(new)) :
             (events \o new)[i] = IF i <= Len(events) THEN events[i] ELSE new[i - Len(events)]
    BY <1>3, <1>5
  <2>4. PageTyped'
    <3>1. events' \in Seq(Events!Rows)
      BY <1>2, <2>1, <2>3
    <3>2. hasMore' \in BOOLEAN /\ gap' \in BOOLEAN
      BY <1>2, <1>3, <2>1, Zenon
    <3>3. since' \in 0 .. written'
      BY <1>1, <1>2, <1>3, <2>1, <2>2
    <3> QED BY <1>1, <3>1, <3>2, <3>3 DEF EventsInv, PageTyped
  <2>5. CASE r.reset
    <3>1. events' = r.rows /\ (gap' <=> gap)
      BY <2>1, <2>5
    <3>2. ASSUME NEW e \in log, Fits(level, e), e.id <= since', NEW i \in DOMAIN r.rows,
                 r.rows[i].id <= e.id
          PROVE  \E j \in DOMAIN r.rows : r.rows[j] = e
      <4>1. e.id > r.since
        BY <1>2, <1>3, <3>2 DEF AnswerHeld
      <4> QED BY <1>2, <1>8, <2>1, <3>2, <4>1 DEF AnswerHeld
    <3>3. \A i, j \in DOMAIN r.rows : r.rows[i] = r.rows[j] => i = j
      BY <1>2, <1>4
    <3>4. ListedRows'
      BY <1>1, <1>2, <3>1, <3>2, <3>3 DEF ListedRows, AnswerHeld, Fits
    <3> QED BY <1>1, <1>6, <2>4, <3>4 DEF EventsInv, LogHeld
  <2>6. CASE ~r.reset
    <3> DEFINE all == events \o new
    <3>1. /\ events' = all /\ r.since = since /\ (~gap' => ~gap /\ ~r.cut)
      BY <1>2, <2>1, <2>6
    <3>2. /\ \A i \in DOMAIN all : (\E j \in DOMAIN events : all[i] = events[j])
                                   \/ (\E j \in DOMAIN new : all[i] = new[j])
          /\ \A j \in DOMAIN events : \E i \in DOMAIN all : all[i] = events[j]
          /\ \A j \in DOMAIN new : \E i \in DOMAIN all : all[i] = new[j]
      <4>1. ASSUME NEW i \in DOMAIN all
            PROVE  (\E j \in DOMAIN events : all[i] = events[j])
                   \/ (\E j \in DOMAIN new : all[i] = new[j])
        <5>1. CASE i <= Len(events)
          BY <1>3, <2>3, <5>1
        <5>2. CASE ~ (i <= Len(events))
          <6>1. i - Len(events) \in DOMAIN new
            BY <1>3, <2>3, <5>2
          <6> QED BY <2>3, <5>2, <6>1
        <5> QED BY <5>1, <5>2
      <4>2. ASSUME NEW j \in DOMAIN events PROVE \E i \in DOMAIN all : all[i] = events[j]
        BY <1>3, <2>3
      <4>3. ASSUME NEW j \in DOMAIN new PROVE \E i \in DOMAIN all : all[i] = new[j]
        <5>1. j + Len(events) \in DOMAIN all /\ ~ (j + Len(events) <= Len(events))
              /\ (j + Len(events)) - Len(events) = j
          BY <1>3, <2>3
        <5> QED BY <2>3, <5>1
      <4> QED BY <4>1, <4>2, <4>3
    <3>3. \A i \in DOMAIN all : Fits(level, all[i])
      BY <1>2, <1>5, <3>2 DEF EventsInv, ListedRows, AnswerHeld
    <3>4. ASSUME NEW i \in DOMAIN all, NEW j \in DOMAIN all, all[i] = all[j] PROVE i = j
      <4>1. CASE i <= Len(events) /\ j <= Len(events)
        BY <1>3, <2>3, <3>4, <4>1 DEF EventsInv, ListedRows
      <4>2. CASE i <= Len(events) /\ ~ (j <= Len(events))
        <5>1. i \in DOMAIN events /\ j - Len(events) \in DOMAIN new
          BY <1>3, <2>3, <4>2
        <5> QED BY <1>5, <2>3, <3>4, <4>2, <5>1
      <4>3. CASE ~ (i <= Len(events)) /\ j <= Len(events)
        <5>1. j \in DOMAIN events /\ i - Len(events) \in DOMAIN new
          BY <1>3, <2>3, <4>3
        <5> QED BY <1>5, <2>3, <3>4, <4>3, <5>1
      <4>4. CASE ~ (i <= Len(events)) /\ ~ (j <= Len(events))
        <5>1. i - Len(events) \in DOMAIN new /\ j - Len(events) \in DOMAIN new
          BY <1>3, <2>3, <4>4
        <5>2. i - Len(events) = j - Len(events)
          BY <1>5, <2>3, <3>4, <4>4, <5>1
        <5> QED BY <1>3, <2>3, <5>2
      <4> QED BY <4>1, <4>2, <4>3, <4>4
    <3>5. ASSUME ~gap', NEW e \in log, Fits(level, e), e.id <= since', NEW i \in DOMAIN all,
                 all[i].id <= e.id
          PROVE  \E j \in DOMAIN all : all[j] = e
      <4>1. CASE e.id > since
        <5>1. \E k \in DOMAIN r.rows : r.rows[k] = e
          BY <1>2, <1>8, <2>1, <3>1, <3>5, <4>1 DEF AnswerHeld
        <5>2. (\E j \in DOMAIN events : events[j] = e) \/ (\E j \in DOMAIN new : new[j] = e)
          BY <1>5, <5>1, Zenon
        <5> HIDE DEF all
        <5>3. CASE \E j \in DOMAIN events : events[j] = e
          BY <3>2, <5>3
        <5>4. CASE \E j \in DOMAIN new : new[j] = e
          BY <3>2, <5>4
        <5> QED BY <5>2, <5>3, <5>4
      <4>2. CASE ~ (e.id > since)
        <5>1. CASE \E j \in DOMAIN events : all[i] = events[j]
          <6>1. \E j \in DOMAIN events : events[j] = e
            BY <1>3, <3>1, <3>5, <4>2, <5>1 DEF EventsInv, ListedRows
          <6> QED BY <3>2, <6>1
        <5>2. CASE \E j \in DOMAIN new : all[i] = new[j]
          <6>1. PICK k \in DOMAIN r.rows : all[i] = r.rows[k]
            BY <1>5, <5>2
          <6>2. r.rows[k].id > since /\ r.rows[k].id \in Nat
            BY <1>2, <3>1 DEF AnswerHeld
          <6> QED BY <1>3, <3>5, <4>2, <6>1, <6>2
        <5> QED BY <3>2, <5>1, <5>2
      <4> QED BY <4>1, <4>2
    <3>6. ListedRows'
      <4> HIDE DEF all
      <4> QED BY <1>1, <3>1, <3>3, <3>4, <3>5 DEF ListedRows, Fits
    <3> QED BY <1>1, <1>6, <2>4, <3>6 DEF EventsInv, LogHeld
  <2> QED BY <2>5, <2>6
<1> QED BY <1>7, <1>8

LEMMA EventsNext == EventsInv /\ [Events!Next]_(Events!vars) => EventsInv'
<1> SUFFICES ASSUME EventsInv, [Events!Next]_(Events!vars) PROVE EventsInv'
  OBVIOUS
<1>1. CASE Events!Next
  BY <1>1, LogChanges, EventsServe, EventsDrop, EventsAsk, EventsTake DEF Events!Next
<1>2. CASE UNCHANGED Events!vars
  BY <1>2 DEF Events!vars, EventsInv, LogHeld, PageTyped, LoadsHeld, LoadHeld, AnswerHeld,
     ListedRows, Fits
<1> QED BY <1>1, <1>2

LEMMA EventsPart == [PartsNext]_allVars => [Events!Next]_(Events!vars)
  BY DEF PartsNext, allVars, pageVars, eventVars, Events!vars

LEMMA EventsHold == PartsSpec => []EventsInv
<1>1. PartsInit => EventsInv
  BY EventsInit DEF PartsInit
<1>2. EventsInv /\ [PartsNext]_allVars => EventsInv'
  BY EventsPart, EventsNext
<1> QED BY <1>1, <1>2, PTL DEF PartsSpec

(* The list of events is of the chosen level, without repetitions and without *)
(* gaps, however loads overlap, fail and are superseded while rows are       *)
(* written and deleted (Events.vue: load; listEvents).  And who walks through *)
(* the pages of the seeds is sent every seed that was there at the start and *)
(* is not older than the last row sent, for any size of a page and however   *)
(* many seeds are discovered meanwhile (listSeeds).                          *)
THEOREM PagesComplete == PartsSpec => []PagesFaithful
<1>1. EventsInv => Events!EventsFaithful
  BY ListedIs DEF EventsInv, PageTyped, LogHeld
<1> QED BY <1>1, EventsHold, WalksComplete, PTL DEF PagesFaithful

-----------------------------------------------------------------------------
(* The restore of a backup.  What is said of the data holds until a file is  *)
(* replaced while its WAL lies beside it (walLeft).                          *)

(* A file that can become the live one: sound, its version that of its DDL.  *)
Held(db) ==
  /\ db \in Backup!Dbs(Backup!Versions) /\ db.ddl = db.version
  /\ ~walLeft => db.sound
FilesHeld ==
  /\ main # None => Held(main)
  /\ wal # None => Held(wal) /\ main # None
  /\ \A c \in safety : c \in [db : Backup!Dbs(Backup!Versions), whole : BOOLEAN] /\ Held(c.db)

(* An archive that the upload let through: only its database may be damaged. *)
Uploaded(a) == a \in Backup!Archives /\ Backup!MetaAccepted(a) /\ a.db.ddl = a.db.version
ArchivesHeld ==
  /\ \A a \in exported : a \in Backup!Archives /\ a.db.ddl = a.db.version
  /\ pending # None => Uploaded(pending)
  /\ upload \in [Handlers -> [archive : Backup!Archives \cup {None}, written : BOOLEAN]]
  /\ \A h \in Handlers : /\ upload[h].archive # None => Uploaded(upload[h].archive)
                         /\ upload[h].written => upload[h].archive # None
                         /\ at # "up" => upload[h] = Backup!Idle

(* An open migration has the writes of the live database.                    *)
MigrationHeld ==
  txn # None =>
    /\ at \in {"reopen", "open"} /\ main # None
    /\ txn \in Backup!Dbs(Backup!Versions) /\ (~walLeft => txn.sound)
    /\ txn.writes = Backup!Content.writes
    /\ txn.ddl = txn.version \/ txn.ddl = txn.version + 1

(* What Restore has established by the time the boot is at a place: the      *)
(* archive is the one at hand and validated, the live file is copied before  *)
(* it goes, and then it is the archive's.                                    *)
Restoring == {"meta", "extract", "validate", "backup", "copying", "swap"}
Accepted == {"backup", "copying", "swap"}
PlaceHeld ==
  /\ at \in Backup!Booting \cup {"down", "open", "up"}
  /\ at \in Restoring \cup {"hook", "reopen", "restored", "failed"} => pending # None
  /\ at \in Accepted \cup {"validate"} => staged = pending.db
  /\ at \in Accepted => staged.version <= Current /\ staged.sound
  /\ at = "copying" => main # None
  /\ at = "swap" /\ main # None => [db |-> main, whole |-> TRUE] \in safety
  /\ at \in {"reopen", "restored"} => main # None
  /\ ~walLeft /\ at \in {"reopen", "restored"} =>
       Backup!Content.writes = pending.db.writes
  /\ at = "restored" => wal = None
  /\ at \in {"restored", "up"} => main # None /\ Backup!Content.version = Current

Found(w) ==
  \/ Backup!Content # None /\ Backup!Content.sound /\ w \in Backup!Content.writes
  \/ \E c \in safety : c.whole /\ c.db.sound /\ w \in c.db.writes
WritesFound ==
  /\ acked \subseteq Backup!Writes /\ walLeft \in BOOLEAN
  /\ ~walLeft => \A w \in acked : Found(w)

RestoreInv == FilesHeld /\ ArchivesHeld /\ MigrationHeld /\ PlaceHeld /\ WritesFound

LEMMA BackupConstants ==
  /\ Current \in Nat \ {0} /\ None \notin Backup!Archives /\ None \notin Backup!Dbs(Backup!Versions)
  /\ Offered \subseteq Backup!Archives
  BY BackupParameters DEF Backup!RestoreAssumption

LEMMA OfferedVersions == \A a \in Offered : a.db.ddl = a.db.version
  BY DEF Offered, Archive

(* Only the swap can leave a WAL beside a file that is not its own.          *)
LEMMA WalKept == Backup!Next /\ ~ Backup!Swap => UNCHANGED walLeft
<1>1. ASSUME NEW h \in Handlers,
             \/ \E archive \in Offered \cup exported : Backup!BeginUpload(h, archive)
             \/ Backup!WriteUpload(h) \/ Backup!FinishUpload(h)
      PROVE  UNCHANGED walLeft
  BY <1>1 DEF Backup!BeginUpload, Backup!WriteUpload, Backup!FinishUpload
<1>2. ASSUME \/ Backup!Boot \/ Backup!HookBegins \/ Backup!CheckMeta \/ Backup!Extract
             \/ Backup!ValidateRestoredDB \/ Backup!BeginCopy \/ Backup!EndCopy
             \/ Backup!HookEnds
      PROVE  UNCHANGED walLeft
  BY <1>2 DEF Backup!Boot, Backup!HookBegins, Backup!CheckMeta, Backup!Extract,
     Backup!ValidateRestoredDB, Backup!BeginCopy, Backup!EndCopy, Backup!HookEnds
<1>3. ASSUME \/ Backup!CreateDatabase \/ Backup!ApplyDDL \/ Backup!SetVersion \/ Backup!Commit
             \/ Backup!Opened \/ Backup!OpenFails
      PROVE  UNCHANGED walLeft
  BY <1>3 DEF Backup!CreateDatabase, Backup!ApplyDDL, Backup!SetVersion, Backup!Commit,
     Backup!Opened, Backup!OpenFails
<1>4. ASSUME \/ Backup!SwapFails \/ Backup!Checkpoint \/ Backup!Export \/ Backup!Close
             \/ Backup!Crash \/ \E w \in Backup!Writes : Backup!Write(w)
      PROVE  UNCHANGED walLeft
  BY <1>4 DEF Backup!SwapFails, Backup!Checkpoint, Backup!Export, Backup!Close, Backup!Crash,
     Backup!Write
<1> QED BY <1>1, <1>2, <1>3, <1>4 DEF Backup!Next, Backup!BootStep

(* The swap: the WAL is none, or its loss is noted.                          *)
LEMMA WalSwapped ==
  ASSUME walLeft \in BOOLEAN, Backup!Swap
  PROVE  /\ walLeft' \in BOOLEAN /\ (walLeft => walLeft')
         /\ ~walLeft' => wal = None /\ wal' = None /\ ~walLeft
  BY DEF Backup!Swap

LEMMA LiveContent ==
  ASSUME FilesHeld
  PROVE  /\ Backup!Content # None => Held(Backup!Content)
         /\ (Backup!Content = None) <=> (main = None)
         /\ main # None => Held(Backup!Content)
  BY DEF FilesHeld, Backup!Content

LEMMA RestoreInit == Backup!Init => RestoreInv
<1> SUFFICES ASSUME Backup!Init PROVE RestoreInv
  OBVIOUS
<1>1. /\ main = None /\ wal = None /\ txn = None /\ pending = None /\ safety = {} /\ staged = None
      /\ at = "down" /\ exported = {} /\ acked = {} /\ walLeft = FALSE
      /\ upload = [h \in Handlers |-> Backup!Idle]
  BY DEF Backup!Init
<1>2. Backup!Idle \in [archive : Backup!Archives \cup {None}, written : BOOLEAN]
      /\ Backup!Idle.archive = None /\ Backup!Idle.written = FALSE
  BY DEF Backup!Idle
<1>3. ArchivesHeld
  BY <1>1, <1>2 DEF ArchivesHeld
<1>4. PlaceHeld
  BY <1>1 DEF PlaceHeld, Backup!Booting, Restoring, Accepted
<1> QED BY <1>1, <1>3, <1>4 DEF RestoreInv, FilesHeld, MigrationHeld, WritesFound

LEMMA FilesNext == ASSUME RestoreInv, Backup!Next PROVE FilesHeld'
<1>0. FilesHeld /\ PlaceHeld /\ MigrationHeld /\ ArchivesHeld
  BY DEF RestoreInv
<1>a. walLeft \in BOOLEAN
  BY DEF RestoreInv, WritesFound
<1> USE BackupConstants
<1>1. ASSUME NEW w \in Backup!Writes, Backup!Write(w) PROVE FilesHeld'
  <2>1. main # None /\ Held(Backup!Content)
    BY <1>0, <1>1, LiveContent DEF Backup!Write, PlaceHeld
  <2>2. PICK c : c = Backup!Content
    OBVIOUS
  <2>3. PICK d : d = [c EXCEPT !.writes = @ \cup {w}]
    OBVIOUS
  <2>4. d \in Backup!Dbs(Backup!Versions) /\ d.sound = c.sound /\ d.ddl = d.version
    BY <2>1, <2>2, <2>3 DEF Held, Backup!Dbs
  <2>5. wal' = d /\ UNCHANGED <<main, safety, walLeft>>
    BY <1>1, <2>2, <2>3 DEF Backup!Write
  <2> QED BY <1>0, <2>1, <2>2, <2>4, <2>5 DEF FilesHeld, Held
<1>2. CASE Backup!Checkpoint \/ Backup!Close \/ Backup!HookBegins \/ Backup!Opened
  <2>1. /\ UNCHANGED <<safety, walLeft>>
        /\ (main' = Backup!Content /\ wal' = None) \/ UNCHANGED <<main, wal>>
    BY <1>2 DEF Backup!Checkpoint, Backup!Close, Backup!HookBegins, Backup!Opened,
       Backup!Content
  <2> QED BY <1>0, <2>1, LiveContent DEF FilesHeld, Held
<1>3. CASE Backup!BeginCopy
  <2>1. PICK c : c = [db |-> main, whole |-> FALSE]
    OBVIOUS
  <2>2. main' = main /\ wal' = wal /\ walLeft' = walLeft /\ safety' = IF main = None THEN safety ELSE safety \cup {c}
    BY <1>3, <2>1 DEF Backup!BeginCopy
  <2>3. main # None => c \in [db : Backup!Dbs(Backup!Versions), whole : BOOLEAN] /\ Held(c.db)
    BY <1>0, <2>1 DEF FilesHeld, Held
  <2> QED BY <1>0, <2>2, <2>3 DEF FilesHeld, Held
<1>4. CASE Backup!EndCopy
  <2>1. PICK c : c = [db |-> main, whole |-> TRUE]
    OBVIOUS
  <2>2. UNCHANGED <<main, wal, walLeft>> /\ safety' \subseteq safety \cup {c} /\ main # None
    BY <1>0, <1>4, <2>1 DEF Backup!EndCopy, PlaceHeld
  <2>3. c \in [db : Backup!Dbs(Backup!Versions), whole : BOOLEAN] /\ Held(c.db)
    BY <1>0, <2>1, <2>2 DEF FilesHeld, Held
  <2> QED BY <1>0, <2>2, <2>3 DEF FilesHeld, Held
<1>5. CASE Backup!Swap
  <2>1. main' = staged /\ UNCHANGED safety
    BY <1>5 DEF Backup!Swap
  <2>5. wal' # None => Held(wal)'
    <3>1. CASE wal = None
      BY <1>5, <3>1 DEF Backup!Swap
    <3>2. CASE wal # None
      <4>1. Held(wal) /\ walLeft'
        BY <1>0, <1>5, <3>2 DEF FilesHeld, Backup!Swap
      <4>2. PICK w : w = [wal EXCEPT !.sound = FALSE]
        OBVIOUS
      <4>3. w \in Backup!Dbs(Backup!Versions) /\ w.ddl = w.version
        BY <4>1, <4>2 DEF Held, Backup!Dbs
      <4> QED BY <1>5, <3>2, <4>1, <4>2, <4>3 DEF Backup!Swap, Held
    <3> QED BY <3>1, <3>2
  <2>2. staged = pending.db /\ staged.version <= Current /\ staged.sound /\ Uploaded(pending)
    BY <1>0, <1>5 DEF Backup!Swap, PlaceHeld, Restoring, Accepted, ArchivesHeld
  <2>3. pending.db \in Backup!Dbs(0 .. Current + 1) /\ pending.db.ddl = pending.db.version
    BY <2>2 DEF Uploaded, Backup!Archives
  <2>4. Held(main)'
    BY <2>1, <2>2, <2>3 DEF Held, Backup!Dbs, Backup!Versions
  <2>6. main' # None
    BY <2>4 DEF Held
  <2>7. \A c \in safety : (Held(c.db))'
    BY <1>0, <1>a, <1>5, WalSwapped DEF FilesHeld, Held
  <2> QED BY <1>0, <2>1, <2>4, <2>5, <2>6, <2>7 DEF FilesHeld
<1>6. CASE Backup!CreateDatabase
  <2>1. Held(Backup!EmptyDatabase)
    BY DEF Held, Backup!EmptyDatabase, Backup!Dbs, Backup!Versions
  <2> QED BY <1>0, <1>6, <2>1 DEF Backup!CreateDatabase, FilesHeld, Held
<1>7. CASE Backup!Commit
  <2>1. Held(txn) /\ main # None
    BY <1>0, <1>7 DEF Backup!Commit, MigrationHeld, Held
  <2> QED BY <1>0, <1>7, <2>1 DEF Backup!Commit, FilesHeld, Held
<1>8. ASSUME UNCHANGED <<main, wal, safety, walLeft>> PROVE FilesHeld'
  BY <1>0, <1>8 DEF FilesHeld, Held
<1>9. ASSUME \/ Backup!Boot \/ Backup!CheckMeta \/ Backup!Extract \/ Backup!ValidateRestoredDB
             \/ Backup!HookEnds \/ Backup!ApplyDDL \/ Backup!SetVersion
             \/ Backup!SwapFails \/ Backup!OpenFails \/ Backup!Export \/ Backup!Crash
      PROVE  UNCHANGED <<main, wal, safety, walLeft>>
  BY <1>9 DEF Backup!Boot, Backup!CheckMeta, Backup!Extract, Backup!ValidateRestoredDB,
              Backup!HookEnds, Backup!ApplyDDL, Backup!SetVersion, Backup!SwapFails,
              Backup!OpenFails, Backup!Export, Backup!Crash, Backup!files
<1>10. ASSUME NEW h \in Handlers,
              \/ \E archive \in Offered \cup exported : Backup!BeginUpload(h, archive)
              \/ Backup!WriteUpload(h) \/ Backup!FinishUpload(h)
       PROVE  UNCHANGED <<main, wal, safety, walLeft>>
  BY <1>10 DEF Backup!BeginUpload, Backup!WriteUpload, Backup!FinishUpload
<1> QED BY <1>1, <1>2, <1>3, <1>4, <1>5, <1>6, <1>7, <1>8, <1>9, <1>10
        DEF Backup!Next, Backup!BootStep

LEMMA ArchivesNext == ASSUME RestoreInv, Backup!Next PROVE ArchivesHeld'
<1>0. FilesHeld /\ PlaceHeld /\ ArchivesHeld
  BY DEF RestoreInv
<1> USE BackupConstants
<1>1. Backup!Idle \in [archive : Backup!Archives \cup {None}, written : BOOLEAN]
      /\ Backup!Idle.archive = None /\ Backup!Idle.written = FALSE
  BY DEF Backup!Idle
<1>2. CASE Backup!Export
  <2>1. PICK a : a = [whole |-> TRUE, meta |-> Backup!Content.version, db |-> Backup!Content]
    OBVIOUS
  <2>2. Held(Backup!Content)
    BY <1>0, <1>2, LiveContent DEF Backup!Export, PlaceHeld
  <2>3. a \in Backup!Archives /\ a.db.ddl = a.db.version
    BY <2>1, <2>2 DEF Held, Backup!Archives, Backup!Dbs, Backup!Versions
  <2> QED BY <1>0, <1>2, <2>1, <2>3 DEF Backup!Export, ArchivesHeld
<1>3. ASSUME NEW h \in Handlers, NEW r \in [archive : Backup!Archives \cup {None}, written : BOOLEAN],
             upload' = [upload EXCEPT ![h] = r], UNCHANGED <<at, exported>>, at = "up",
             r.archive # None => Uploaded(r.archive), r.written => r.archive # None,
             pending' # None => Uploaded(pending')
      PROVE  ArchivesHeld'
  <2>1. \A g \in Handlers : upload'[g] = IF g = h THEN r ELSE upload[g]
    BY <1>0, <1>3 DEF ArchivesHeld
  <2>2. upload' \in [Handlers -> [archive : Backup!Archives \cup {None}, written : BOOLEAN]]
    BY <1>0, <1>3 DEF ArchivesHeld
  <2> QED BY <1>0, <1>3, <2>1, <2>2 DEF ArchivesHeld
<1>4. ASSUME NEW h \in Handlers, NEW archive \in Offered \cup exported, Backup!BeginUpload(h, archive)
      PROVE  ArchivesHeld'
  <2>1. Uploaded(archive)
    BY <1>0, <1>4, OfferedVersions DEF Backup!BeginUpload, Uploaded, ArchivesHeld
  <2>2. PICK r : r = [Backup!Idle EXCEPT !.archive = archive]
    OBVIOUS
  <2>3. upload' = [upload EXCEPT ![h] = r]
    BY <1>0, <1>4, <2>2 DEF Backup!BeginUpload, ArchivesHeld
  <2>4. r = [archive |-> archive, written |-> FALSE]
    BY <2>2 DEF Backup!Idle
  <2>5. r \in [archive : Backup!Archives \cup {None}, written : BOOLEAN] /\ r.archive = archive
        /\ r.written = FALSE
    BY <2>1, <2>4 DEF Uploaded
  <2> QED BY <1>0, <1>3, <1>4, <2>1, <2>3, <2>5 DEF Backup!BeginUpload, ArchivesHeld
<1>5. ASSUME NEW h \in Handlers, Backup!WriteUpload(h) PROVE ArchivesHeld'
  <2>0. at = "up" /\ UNCHANGED <<at, exported, pending>>
    BY <1>0, <1>1, <1>5 DEF Backup!WriteUpload, ArchivesHeld
  <2>1. CASE upload' = [upload EXCEPT ![h] = Backup!Idle]
    BY <1>0, <1>1, <1>3, <2>0, <2>1 DEF ArchivesHeld
  <2>2. CASE upload' = [upload EXCEPT ![h].written = TRUE]
    <3>1. PICK q \in [archive : Backup!Archives \cup {None}, written : BOOLEAN] : q = upload[h]
      BY <1>0 DEF ArchivesHeld
    <3>2. PICK r : r = [q EXCEPT !.written = TRUE]
      OBVIOUS
    <3>3. upload' = [upload EXCEPT ![h] = r]
      BY <1>0, <2>2, <3>1, <3>2 DEF ArchivesHeld
    <3>4. r \in [archive : Backup!Archives \cup {None}, written : BOOLEAN] /\ r.archive = q.archive
      BY <3>2
    <3>5. q.archive # None /\ Uploaded(q.archive)
      BY <1>0, <1>5, <3>1 DEF Backup!WriteUpload, ArchivesHeld
    <3> QED BY <1>0, <1>3, <2>0, <3>3, <3>4, <3>5 DEF ArchivesHeld
  <2> QED BY <1>5, <2>1, <2>2 DEF Backup!WriteUpload
<1>6. ASSUME NEW h \in Handlers, Backup!FinishUpload(h) PROVE ArchivesHeld'
  <2>0. at = "up" /\ UNCHANGED <<at, exported>> /\ upload' = [upload EXCEPT ![h] = Backup!Idle]
    BY <1>0, <1>1, <1>6 DEF Backup!FinishUpload, ArchivesHeld
  <2>1. Uploaded(pending')
    BY <1>0, <1>6 DEF Backup!FinishUpload, ArchivesHeld
  <2> QED BY <1>1, <1>3, <2>0, <2>1
<1>7. CASE Backup!Close \/ Backup!Crash
  <2>1. upload' = [h \in Handlers |-> Backup!Idle] /\ UNCHANGED <<pending, exported>> /\ at' = "down"
    BY <1>7 DEF Backup!Close, Backup!Crash, Backup!files
  <2> QED BY <1>0, <1>1, <2>1 DEF ArchivesHeld
<1>8. ASSUME UNCHANGED <<upload, exported>>, pending' \in {None, pending}, at # "up" \/ at' = at
      PROVE  ArchivesHeld'
  BY <1>0, <1>8 DEF ArchivesHeld
<1>9. ASSUME \/ Backup!Boot \/ Backup!HookBegins \/ Backup!CheckMeta \/ Backup!Extract
             \/ Backup!ValidateRestoredDB \/ Backup!BeginCopy \/ Backup!EndCopy \/ Backup!Swap
             \/ Backup!HookEnds \/ Backup!CreateDatabase \/ Backup!ApplyDDL \/ Backup!Opened
             \/ Backup!SwapFails \/ Backup!OpenFails
      PROVE  UNCHANGED <<upload, exported>> /\ pending' \in {None, pending} /\ (at # "up" \/ at' = at)
  BY <1>9 DEF Backup!Boot, Backup!HookBegins, Backup!CheckMeta, Backup!Extract,
              Backup!ValidateRestoredDB, Backup!BeginCopy, Backup!EndCopy, Backup!Swap,
              Backup!HookEnds, Backup!CreateDatabase, Backup!ApplyDDL, Backup!Opened,
              Backup!SwapFails, Backup!OpenFails, Backup!files, Backup!Opening
<1>10. ASSUME Backup!SetVersion \/ Backup!Commit \/ Backup!Checkpoint \/ \E w \in Backup!Writes : Backup!Write(w)
      PROVE  UNCHANGED <<upload, exported, pending, at>>
  BY <1>10 DEF Backup!SetVersion, Backup!Commit, Backup!Checkpoint, Backup!Write, Backup!files
<1> QED BY <1>2, <1>4, <1>5, <1>6, <1>7, <1>8, <1>9, <1>10 DEF Backup!Next, Backup!BootStep

LEMMA MigrationNext == ASSUME RestoreInv, Backup!Next PROVE MigrationHeld'
<1>0. FilesHeld /\ PlaceHeld /\ ArchivesHeld /\ MigrationHeld
  BY DEF RestoreInv
<1> USE BackupConstants
<1>1. CASE Backup!ApplyDDL
  <2>1. PICK c : c = Backup!Content
    OBVIOUS
  <2>2. Held(c) /\ main # None /\ at \in {"reopen", "open"} /\ c.version < Current
    BY <1>0, <1>1, <2>1, LiveContent DEF Backup!ApplyDDL, Backup!Opening, Backup!MigrationsLeft
  <2>3. PICK d : d = [c EXCEPT !.ddl = c.version + 1]
    OBVIOUS
  <2>4. txn' = d /\ UNCHANGED <<main, wal, at, walLeft>>
    BY <1>1, <2>1, <2>3 DEF Backup!ApplyDDL, Backup!files
  <2>5. /\ c.version + 1 \in Backup!Versions /\ c.version \in Backup!Versions
        /\ c \in Backup!Dbs(Backup!Versions)
    BY <2>2 DEF Held, Backup!Dbs, Backup!Versions
  <2>6. /\ d \in Backup!Dbs(Backup!Versions) /\ d.sound = c.sound /\ d.writes = c.writes
        /\ d.version = c.version /\ d.ddl = c.version + 1
    BY <2>3, <2>5 DEF Backup!Dbs
  <2>7. Backup!Content' = c
    BY <2>1, <2>4 DEF Backup!Content
  <2> QED BY <2>2, <2>4, <2>6, <2>7 DEF MigrationHeld, Held
<1>2. CASE Backup!SetVersion
  <2>1. PICK d : d = [txn EXCEPT !.version = @ + 1]
    OBVIOUS
  <2>2. txn' = d /\ UNCHANGED <<main, wal, at, walLeft>>
    BY <1>2, <2>1 DEF Backup!SetVersion, Backup!files
  <2>3. /\ txn \in Backup!Dbs(Backup!Versions) /\ (~walLeft => txn.sound)
        /\ txn.writes = Backup!Content.writes
        /\ txn.ddl = txn.version + 1 /\ at \in {"reopen", "open"} /\ main # None
    BY <1>0, <1>2 DEF MigrationHeld, Backup!SetVersion
  <2>4. txn.version + 1 \in Backup!Versions
    BY <2>3 DEF Backup!Dbs
  <2>5. /\ d \in Backup!Dbs(Backup!Versions) /\ d.sound = txn.sound /\ d.writes = txn.writes
        /\ d.version = txn.version + 1 /\ d.ddl = txn.ddl
    BY <2>1, <2>3, <2>4 DEF Backup!Dbs
  <2>6. Backup!Content' = Backup!Content
    BY <2>2 DEF Backup!Content
  <2> QED BY <2>2, <2>3, <2>5, <2>6 DEF MigrationHeld
<1>3. CASE Backup!Commit \/ Backup!Crash \/ Backup!OpenFails
  BY <1>3 DEF Backup!Commit, Backup!Crash, Backup!OpenFails, MigrationHeld
<1>4. CASE txn' = txn /\ txn = None
  BY <1>4 DEF MigrationHeld
<1>5. ASSUME txn # None
      PROVE  at \in {"reopen", "open"}
  BY <1>0, <1>5 DEF MigrationHeld
<1>6. ASSUME \/ Backup!Boot \/ Backup!HookBegins \/ Backup!CheckMeta \/ Backup!Extract
             \/ Backup!ValidateRestoredDB \/ Backup!BeginCopy \/ Backup!EndCopy \/ Backup!Swap
             \/ Backup!HookEnds \/ Backup!SwapFails
      PROVE  txn' = txn /\ at \notin {"reopen", "open"}
  BY <1>6 DEF Backup!Boot, Backup!HookBegins, Backup!CheckMeta, Backup!Extract,
              Backup!ValidateRestoredDB, Backup!BeginCopy, Backup!EndCopy, Backup!Swap,
              Backup!HookEnds, Backup!SwapFails
<1>7. ASSUME Backup!CreateDatabase \/ Backup!Opened
      PROVE  txn' = txn /\ txn = None
  BY <1>7 DEF Backup!CreateDatabase, Backup!Opened, Backup!Opening
<1>8. ASSUME \/ Backup!Checkpoint \/ Backup!Export \/ Backup!Close \/ \E w \in Backup!Writes : Backup!Write(w)
      PROVE  txn' = txn /\ at = "up"
  BY <1>8 DEF Backup!Checkpoint, Backup!Export, Backup!Close, Backup!Write
<1>9. ASSUME NEW h \in Handlers,
             \/ \E archive \in Offered \cup exported : Backup!BeginUpload(h, archive)
             \/ Backup!WriteUpload(h) \/ Backup!FinishUpload(h)
      PROVE  txn' = txn /\ at = "up"
  <2>1. Backup!Idle.archive = None /\ Backup!Idle.written = FALSE
    BY DEF Backup!Idle
  <2>2. (upload[h].archive # None \/ upload[h].written) => at = "up"
    BY <1>0, <2>1 DEF ArchivesHeld
  <2> QED BY <1>9, <2>2 DEF Backup!BeginUpload, Backup!WriteUpload, Backup!FinishUpload
<1> QED BY <1>1, <1>2, <1>3, <1>4, <1>5, <1>6, <1>7, <1>8, <1>9 DEF Backup!Next,
   Backup!BootStep

(* A step of the running server, and the steps of the boot up to the swap.   *)
LEMMA PlaceUp ==
  ASSUME RestoreInv, at = "up", at' = "up", main' # None, Backup!Content'.version = Current
  PROVE  PlaceHeld'
  BY DEF PlaceHeld, Restoring, Accepted, Backup!Booting

LEMMA PlaceRunning ==
  ASSUME RestoreInv,
         \/ Backup!Checkpoint \/ Backup!Export \/ \E w \in Backup!Writes : Backup!Write(w)
         \/ \E h \in Handlers :
              \/ \E archive \in Offered \cup exported : Backup!BeginUpload(h, archive)
              \/ Backup!WriteUpload(h) \/ Backup!FinishUpload(h)
  PROVE  PlaceHeld'
<1>0. FilesHeld /\ PlaceHeld /\ ArchivesHeld
  BY DEF RestoreInv
<1> USE BackupConstants
<1>1. at = "up" => main # None /\ Held(Backup!Content) /\ Backup!Content.version = Current
  BY <1>0, LiveContent DEF PlaceHeld
<1>2. CASE Backup!Checkpoint
  <2>1. main' = Backup!Content /\ wal' = None /\ at = "up" /\ at' = "up" /\ wal # None
    BY <1>2 DEF Backup!Checkpoint, Backup!Content
  <2> QED BY <1>1, <2>1, PlaceUp DEF Backup!Content, Held
<1>3. ASSUME at = "up", UNCHANGED <<at, main, wal>> PROVE PlaceHeld'
  BY <1>1, <1>3, PlaceUp DEF Backup!Content
<1>4. CASE Backup!Export
  BY <1>3, <1>4 DEF Backup!Export
<1>5. ASSUME NEW w \in Backup!Writes, Backup!Write(w) PROVE PlaceHeld'
  <2>1. PICK c : c = Backup!Content
    OBVIOUS
  <2>2. PICK d : d = [c EXCEPT !.writes = @ \cup {w}]
    OBVIOUS
  <2>3. at = "up" /\ at' = "up" /\ wal' = d /\ main' = main
    BY <1>5, <2>1, <2>2 DEF Backup!Write
  <2>4. d \in Backup!Dbs(Backup!Versions) /\ d.version = Current
    BY <1>1, <2>1, <2>2, <2>3 DEF Held, Backup!Dbs
  <2>5. Backup!Content' = d
    BY <2>3, <2>4 DEF Backup!Content
  <2> QED BY <1>1, <2>3, <2>4, <2>5, PlaceUp
<1>6. ASSUME NEW h \in Handlers,
             \/ \E archive \in Offered \cup exported : Backup!BeginUpload(h, archive)
             \/ Backup!WriteUpload(h) \/ Backup!FinishUpload(h)
      PROVE  PlaceHeld'
  <2>1. Backup!Idle.archive = None /\ Backup!Idle.written = FALSE
    BY DEF Backup!Idle
  <2>2. (upload[h].archive # None \/ upload[h].written) => at = "up"
    BY <1>0, <2>1 DEF ArchivesHeld
  <2>3. at = "up" /\ UNCHANGED <<at, main, wal>>
    BY <1>6, <2>2 DEF Backup!BeginUpload, Backup!WriteUpload, Backup!FinishUpload
  <2> QED BY <1>3, <2>3
<1> QED BY <1>2, <1>4, <1>5, <1>6

LEMMA PlaceBooting ==
  ASSUME RestoreInv,
         \/ Backup!Boot \/ Backup!HookBegins \/ Backup!CheckMeta \/ Backup!Extract
         \/ Backup!ValidateRestoredDB \/ Backup!BeginCopy \/ Backup!EndCopy \/ Backup!Swap
         \/ Backup!SwapFails \/ Backup!HookEnds \/ Backup!Close \/ Backup!Crash \/ Backup!OpenFails
  PROVE  PlaceHeld'
<1>0. FilesHeld /\ PlaceHeld /\ ArchivesHeld
  BY DEF RestoreInv
<1> USE BackupConstants
<1> USE DEF Restoring, Accepted, Backup!Booting
<1>1. CASE Backup!Close \/ Backup!Crash \/ Backup!HookEnds
  BY <1>1 DEF Backup!Close, Backup!Crash, Backup!HookEnds, PlaceHeld
<1>2. CASE Backup!Boot
  BY <1>2 DEF Backup!Boot, Backup!files, PlaceHeld
<1>3. CASE Backup!HookBegins
  BY <1>0, <1>3 DEF Backup!HookBegins, PlaceHeld
<1>4. CASE Backup!CheckMeta
  BY <1>0, <1>4 DEF Backup!CheckMeta, Backup!files, PlaceHeld
<1>5. CASE Backup!Extract
  BY <1>0, <1>5 DEF Backup!Extract, Backup!files, PlaceHeld
<1>6. CASE Backup!ValidateRestoredDB
  BY <1>0, <1>6 DEF Backup!ValidateRestoredDB, Backup!files, PlaceHeld
<1>7. CASE Backup!BeginCopy
  BY <1>0, <1>7 DEF Backup!BeginCopy, PlaceHeld
<1>8. CASE Backup!EndCopy
  BY <1>0, <1>8 DEF Backup!EndCopy, PlaceHeld
<1>9. CASE Backup!SwapFails \/ Backup!OpenFails
  BY <1>0, <1>9 DEF Backup!SwapFails, Backup!OpenFails, Backup!files, PlaceHeld
<1>10. CASE Backup!Swap
  <2>1. /\ staged = pending.db /\ staged.version <= Current /\ staged.sound
        /\ Uploaded(pending) /\ pending # None
    BY <1>0, <1>10 DEF Backup!Swap, PlaceHeld, ArchivesHeld
  <2>2. pending.db \in Backup!Dbs(0 .. Current + 1)
    BY <2>1 DEF Uploaded, Backup!Archives
  <2>3. staged \in Backup!Dbs(Backup!Versions)
    BY <2>1, <2>2 DEF Uploaded, Backup!Dbs, Backup!Versions
  <2>4. /\ main' = staged /\ at' = "reopen" /\ pending' = pending
        /\ ~walLeft' => wal' = None
    BY <1>10, <2>1, WalSwapped DEF Backup!Swap, RestoreInv, WritesFound
  <2>5. main' # None /\ (~walLeft' => Backup!Content' = staged)
    BY <2>3, <2>4 DEF Backup!Content
  <2> QED BY <2>1, <2>4, <2>5 DEF PlaceHeld
<1> QED BY <1>1, <1>2, <1>3, <1>4, <1>5, <1>6, <1>7, <1>8, <1>9, <1>10

LEMMA PlaceOpening ==
  ASSUME RestoreInv,
         \/ Backup!CreateDatabase \/ Backup!ApplyDDL \/ Backup!SetVersion \/ Backup!Commit
         \/ Backup!Opened
  PROVE  PlaceHeld'
<1>0. FilesHeld /\ PlaceHeld /\ MigrationHeld
  BY DEF RestoreInv
<1> USE BackupConstants
<1> USE DEF Restoring, Accepted, Backup!Booting
<1>1. CASE Backup!CreateDatabase
  BY <1>0, <1>1 DEF Backup!CreateDatabase, Backup!Opening, PlaceHeld
<1>2. CASE Backup!ApplyDDL
  BY <1>0, <1>2 DEF Backup!ApplyDDL, Backup!Opening, Backup!files, PlaceHeld, Backup!Content
<1>3. CASE Backup!SetVersion
  BY <1>0, <1>3 DEF Backup!SetVersion, Backup!files, PlaceHeld, Backup!Content, MigrationHeld
<1>4. CASE Backup!Commit
  <2>1. /\ at \in {"reopen", "open"} /\ main # None /\ txn.writes = Backup!Content.writes
        /\ txn # None
    BY <1>0, <1>4 DEF Backup!Commit, MigrationHeld
  <2>2. UNCHANGED <<at, main, pending, walLeft>> /\ Backup!Content' = txn
    BY <1>4, <2>1 DEF Backup!Commit, Backup!Content
  <2> QED BY <1>0, <2>1, <2>2 DEF PlaceHeld
<1>5. CASE Backup!Opened
  <2>1. at \in {"reopen", "open"} /\ main # None /\ ~ (Backup!Content.version < Current)
    BY <1>5 DEF Backup!Opened, Backup!Opening, Backup!MigrationsLeft
  <2>2. Held(Backup!Content)
    BY <1>0, <2>1, LiveContent
  <2>3. Backup!Content.version = Current /\ Backup!Content # None
    BY <2>1, <2>2 DEF Held, Backup!Dbs, Backup!Versions
  <2>4. main' # None /\ Backup!Content' = Backup!Content /\ UNCHANGED <<pending, walLeft>>
        /\ (at = "reopen" => at' = "restored" /\ wal' = None) /\ (at = "open" => at' = "up")
    BY <1>5, <2>1, <2>3 DEF Backup!Opened, Backup!Content
  <2> QED BY <1>0, <2>1, <2>3, <2>4 DEF PlaceHeld
<1> QED BY <1>1, <1>2, <1>3, <1>4, <1>5

LEMMA WritesNext ==
  ASSUME RestoreInv, Backup!Next, ~walLeft'
  PROVE  \A w \in acked' : Found(w)'
<1>0. FilesHeld /\ PlaceHeld /\ MigrationHeld /\ WritesFound /\ ArchivesHeld
  BY DEF RestoreInv
<1> USE BackupConstants
<1>a. ~walLeft
  BY <1>0, WalKept, WalSwapped DEF WritesFound
<1>b. FilesHeld /\ \A x \in acked : Found(x)
  BY <1>0, <1>a DEF WritesFound
<1>1. ASSUME NEW w \in Backup!Writes, Backup!Write(w) PROVE \A x \in acked' : Found(x)'
  <2>1. PICK c : c = Backup!Content
    OBVIOUS
  <2>2. PICK d : d = [c EXCEPT !.writes = @ \cup {w}]
    OBVIOUS
  <2>3. /\ at = "up" /\ wal' = d /\ UNCHANGED <<main, safety>> /\ acked' = acked \cup {w}
    BY <1>1, <2>1, <2>2 DEF Backup!Write
  <2>4. Held(c)
    BY <1>0, <2>1, <2>3, LiveContent DEF PlaceHeld
  <2>5. /\ d \in Backup!Dbs(Backup!Versions) /\ d.sound /\ d.writes = c.writes \cup {w}
    BY <1>a, <2>2, <2>4 DEF Held, Backup!Dbs
  <2>6. Backup!Content' = d /\ d # None
    BY <2>3, <2>5 DEF Backup!Content
  <2>7. ASSUME NEW x \in acked' PROVE Found(x)'
    BY <1>b, <2>1, <2>3, <2>5, <2>6, <2>7 DEF Found
  <2> QED BY <2>7
<1>2. ASSUME UNCHANGED acked, Backup!Content' = Backup!Content,
             \A c \in safety : c.whole => c \in safety'
      PROVE  \A x \in acked' : Found(x)'
  BY <1>b, <1>2 DEF Found
<1>3. CASE Backup!Checkpoint \/ Backup!Close \/ Backup!HookBegins \/ Backup!Opened
  <2>1. UNCHANGED <<acked, safety>> /\ ((main' = Backup!Content /\ wal' = None) \/ UNCHANGED <<main, wal>>)
    BY <1>3 DEF Backup!Checkpoint, Backup!Close, Backup!HookBegins, Backup!Opened,
       Backup!Content
  <2>2. Backup!Content' = Backup!Content
    BY <2>1 DEF Backup!Content
  <2> QED BY <1>2, <2>1, <2>2
<1>4. CASE Backup!BeginCopy
  <2>1. UNCHANGED <<acked, main, wal>> /\ safety \subseteq safety'
    BY <1>4 DEF Backup!BeginCopy
  <2> QED BY <1>2, <2>1 DEF Backup!Content
<1>5. CASE Backup!EndCopy
  <2>1. UNCHANGED <<acked, main, wal>>
    BY <1>5 DEF Backup!EndCopy
  <2>2. PICK d : d = [db |-> main, whole |-> FALSE]
    OBVIOUS
  <2>3. safety \ {d} \subseteq safety' /\ ~ d.whole
    BY <1>5, <2>2 DEF Backup!EndCopy
  <2> QED BY <1>2, <2>1, <2>3 DEF Backup!Content
<1>6. CASE Backup!Swap
  <2>1. wal = None /\ UNCHANGED <<acked, safety>> /\ (main # None => [db |-> main, whole |-> TRUE] \in safety)
    BY <1>0, <1>6, WalSwapped DEF Backup!Swap, PlaceHeld, WritesFound
  <2>2. ASSUME NEW w \in acked, main # None, main.sound, w \in main.writes
        PROVE  \E c \in safety : c.whole /\ c.db.sound /\ w \in c.db.writes
    <3>1. PICK d : d = [db |-> main, whole |-> TRUE]
      OBVIOUS
    <3>2. d \in safety /\ d.whole /\ d.db = main
      BY <2>1, <2>2, <3>1
    <3> QED BY <2>2, <3>2
  <2>3. ASSUME NEW w \in acked PROVE \E c \in safety : c.whole /\ c.db.sound /\ w \in c.db.writes
    BY <1>b, <2>1, <2>2 DEF Found, Backup!Content
  <2> QED BY <2>1, <2>3 DEF Found
<1>7. CASE Backup!CreateDatabase
  <2>1. UNCHANGED <<acked, safety>> /\ main = None
    BY <1>7 DEF Backup!CreateDatabase
  <2>2. Backup!Content = None
    BY <1>0, <2>1, LiveContent
  <2> QED BY <1>b, <2>1, <2>2 DEF Found
<1>8. CASE Backup!Commit
  <2>1. /\ txn # None /\ txn.sound /\ txn.writes = Backup!Content.writes
    BY <1>0, <1>a, <1>8 DEF Backup!Commit, MigrationHeld
  <2>2. Backup!Content' = txn /\ UNCHANGED <<acked, safety>>
    BY <1>8, <2>1 DEF Backup!Commit, Backup!Content
  <2> QED BY <1>b, <2>1, <2>2 DEF Found
<1>9. ASSUME UNCHANGED <<acked, main, wal, safety>> PROVE \A x \in acked' : Found(x)'
  BY <1>2, <1>9 DEF Backup!Content
<1>10. ASSUME \/ Backup!Boot \/ Backup!CheckMeta \/ Backup!Extract \/ Backup!ValidateRestoredDB
             \/ Backup!HookEnds \/ Backup!ApplyDDL \/ Backup!SetVersion
             \/ Backup!SwapFails \/ Backup!OpenFails \/ Backup!Export \/ Backup!Crash
      PROVE  UNCHANGED <<acked, main, wal, safety>>
  BY <1>10 DEF Backup!Boot, Backup!CheckMeta, Backup!Extract, Backup!ValidateRestoredDB,
               Backup!HookEnds, Backup!ApplyDDL, Backup!SetVersion, Backup!SwapFails,
               Backup!OpenFails, Backup!Export, Backup!Crash, Backup!files
<1>11. ASSUME NEW h \in Handlers,
              \/ \E archive \in Offered \cup exported : Backup!BeginUpload(h, archive)
              \/ Backup!WriteUpload(h) \/ Backup!FinishUpload(h)
       PROVE  UNCHANGED <<acked, main, wal, safety>>
  BY <1>11 DEF Backup!BeginUpload, Backup!WriteUpload, Backup!FinishUpload
<1> QED BY <1>1, <1>3, <1>4, <1>5, <1>6, <1>7, <1>8, <1>9, <1>10, <1>11
        DEF Backup!Next, Backup!BootStep

LEMMA AckedNext == ASSUME WritesFound, Backup!Next PROVE acked' \subseteq Backup!Writes
<1>1. acked \subseteq Backup!Writes
  BY DEF WritesFound
<1>2. ASSUME NEW w \in Backup!Writes, Backup!Write(w) PROVE acked' \subseteq Backup!Writes
  BY <1>1, <1>2 DEF Backup!Write
<1>3. ASSUME NEW h \in Handlers,
             \/ \E archive \in Offered \cup exported : Backup!BeginUpload(h, archive)
             \/ Backup!WriteUpload(h) \/ Backup!FinishUpload(h)
      PROVE  UNCHANGED acked
  BY <1>3 DEF Backup!BeginUpload, Backup!WriteUpload, Backup!FinishUpload
<1>4. ASSUME Backup!BootStep PROVE UNCHANGED acked
  BY <1>4 DEF Backup!BootStep, Backup!Boot, Backup!HookBegins, Backup!CheckMeta, Backup!Extract,
     Backup!ValidateRestoredDB, Backup!BeginCopy, Backup!EndCopy, Backup!Swap, Backup!HookEnds,
     Backup!CreateDatabase, Backup!ApplyDDL, Backup!SetVersion, Backup!Commit, Backup!Opened
<1>5. ASSUME \/ Backup!SwapFails \/ Backup!OpenFails \/ Backup!Checkpoint \/ Backup!Export
             \/ Backup!Close \/ Backup!Crash
      PROVE  UNCHANGED acked
  BY <1>5 DEF Backup!SwapFails, Backup!OpenFails, Backup!Checkpoint, Backup!Export,
     Backup!Close, Backup!Crash
<1> QED BY <1>1, <1>2, <1>3, <1>4, <1>5 DEF Backup!Next

LEMMA RestoreNext == RestoreInv /\ [Backup!Next]_(Backup!vars) => RestoreInv'
<1> SUFFICES ASSUME RestoreInv, [Backup!Next]_(Backup!vars) PROVE RestoreInv'
  OBVIOUS
<1>1. CASE Backup!Next
  <2>1. PlaceHeld'
    BY <1>1, PlaceRunning, PlaceBooting, PlaceOpening DEF Backup!Next, Backup!BootStep
  <2>2. WritesFound'
    <3>1. acked' \subseteq Backup!Writes
      BY <1>1, AckedNext DEF RestoreInv
    <3>2. walLeft' \in BOOLEAN
      BY <1>1, WalKept, WalSwapped DEF RestoreInv, WritesFound
    <3>3. ~walLeft' => \A w \in acked' : Found(w)'
      BY <1>1, WritesNext
    <3> QED BY <3>1, <3>2, <3>3 DEF WritesFound
  <2> QED BY <1>1, <2>1, <2>2, FilesNext, ArchivesNext, MigrationNext DEF RestoreInv
<1>2. CASE UNCHANGED Backup!vars
  BY <1>2 DEF Backup!vars, RestoreInv, FilesHeld, Held, ArchivesHeld, MigrationHeld, PlaceHeld,
     WritesFound,
              Found, Backup!Content
<1> QED BY <1>1, <1>2

LEMMA RestoreHolds ==
  RestoreInv =>
                /\ Backup!NothingLost /\ Backup!LiveSound
                /\ Backup!SchemaMatchesVersion /\ Backup!RestoredIsArchive
<1> SUFFICES ASSUME RestoreInv
             PROVE  /\ Backup!NothingLost /\ Backup!LiveSound
                    /\ Backup!SchemaMatchesVersion /\ Backup!RestoredIsArchive
  OBVIOUS
<1>0. FilesHeld /\ PlaceHeld /\ WritesFound
  BY DEF RestoreInv
<1>1. Backup!NothingLost
  BY <1>0 DEF WritesFound, Found, Backup!NothingLost
<1>2. Backup!LiveSound
  BY <1>0, LiveContent DEF PlaceHeld, Held, Backup!LiveSound
<1>3. Backup!SchemaMatchesVersion
  BY <1>0 DEF FilesHeld, Held, Backup!Dbs, Backup!Versions, Backup!SchemaMatchesVersion
<1>4. Backup!RestoredIsArchive
  BY <1>0 DEF PlaceHeld, Backup!RestoredIsArchive
<1> QED BY <1>1, <1>2, <1>3, <1>4

LEMMA BackupPart == [PartsNext]_allVars => [Backup!Next]_(Backup!vars)
  BY DEF PartsNext, allVars, backupVars, Backup!vars

LEMMA RestoreKeeps == PartsSpec => []RestoreInv
<1>1. PartsInit => RestoreInv
  BY RestoreInit DEF PartsInit
<1>2. RestoreInv /\ [PartsNext]_allVars => RestoreInv'
  BY BackupPart, RestoreNext
<1> QED BY <1>1, <1>2, PTL DEF PartsSpec

(* Through uploads, exports, restores that fail or crash at any step and     *)
(* migrations, every file has the schema of its version and none is newer    *)
(* than the binary; and until a restore replaces a file whose WAL was not    *)
(* checked in, no acknowledged write is lost, the live database is sound,    *)
(* and a restore that reports success has restored its archive               *)
(* (backup.go: Restore, autoBackup, validateRestoredDB).                     *)
THEOREM RestoreStands == PartsSpec => []RestoreCorrect
<1>1. RestoreInv => RestoreCorrect
  BY RestoreHolds DEF RestoreCorrect
<1> QED BY <1>1, RestoreKeeps, PTL

(* What Restore has extracted is of an archive, and the bound is kept.       *)
StagedHeld ==
  staged \in Backup!Dbs(0 .. Current + 1) \cup {None} /\ spent \in 0 .. Budget

LEMMA StagedNext ==
  ASSUME RestoreInv, StagedHeld, [Backup!Next]_(Backup!vars)
  PROVE  StagedHeld'
<1>1. ASSUME staged' \in {staged, None} \/ (pending # None /\ staged' = pending.db),
             spent' = spent \/ Backup!Spend
      PROVE  StagedHeld'
  <2>1. Budget \in Nat
    BY BackupParameters DEF Backup!RestoreAssumption
  <2>2. spent' \in 0 .. Budget
    BY <1>1, <2>1 DEF StagedHeld, Backup!Spend
  <2>3. pending # None => pending.db \in Backup!Dbs(0 .. Current + 1)
    BY DEF RestoreInv, ArchivesHeld, Uploaded, Backup!Archives
  <2> QED BY <1>1, <2>2, <2>3 DEF StagedHeld
<1>2. ASSUME Backup!BootStep
      PROVE  /\ staged' \in {staged, None} \/ (pending # None /\ staged' = pending.db)
             /\ spent' = spent \/ Backup!Spend
  <2>1. CASE Backup!Extract
    <3>1. pending # None
      BY <2>1 DEF Backup!Extract, RestoreInv, PlaceHeld, Restoring
    <3> QED BY <2>1, <3>1 DEF Backup!Extract
  <2>2. CASE Backup!BeginCopy \/ Backup!EndCopy \/ Backup!Swap \/ Backup!HookEnds
    BY <2>2 DEF Backup!BeginCopy, Backup!EndCopy, Backup!Swap, Backup!HookEnds
  <2>3. CASE \/ Backup!Boot \/ Backup!HookBegins \/ Backup!CheckMeta \/ Backup!ValidateRestoredDB
             \/ Backup!CreateDatabase \/ Backup!ApplyDDL \/ Backup!SetVersion
             \/ Backup!Commit \/ Backup!Opened
    BY <2>3 DEF Backup!Boot, Backup!HookBegins, Backup!CheckMeta, Backup!ValidateRestoredDB,
       Backup!CreateDatabase, Backup!ApplyDDL, Backup!SetVersion, Backup!Commit, Backup!Opened
  <2> QED BY <1>2, <2>1, <2>2, <2>3 DEF Backup!BootStep
<1>3. ASSUME \/ Backup!SwapFails \/ Backup!OpenFails \/ Backup!Checkpoint \/ Backup!Export
             \/ Backup!Close \/ Backup!Crash \/ \E w \in Backup!Writes : Backup!Write(w)
      PROVE  staged' \in {staged, None} /\ (spent' = spent \/ Backup!Spend)
  BY <1>3 DEF Backup!SwapFails, Backup!OpenFails, Backup!Checkpoint, Backup!Export,
     Backup!Close, Backup!Crash, Backup!Write
<1>4. ASSUME NEW h \in Handlers,
             \/ \E archive \in Offered \cup exported : Backup!BeginUpload(h, archive)
             \/ Backup!WriteUpload(h) \/ Backup!FinishUpload(h)
      PROVE  staged' = staged /\ (spent' = spent \/ Backup!Spend)
  BY <1>4 DEF Backup!BeginUpload, Backup!WriteUpload, Backup!FinishUpload
<1>5. ASSUME UNCHANGED Backup!vars PROVE staged' = staged /\ spent' = spent
  BY <1>5 DEF Backup!vars
<1> QED BY <1>1, <1>2, <1>3, <1>4, <1>5 DEF Backup!Next

LEMMA BackupTyped == RestoreInv /\ StagedHeld => Backup!TypeOK
<1> SUFFICES ASSUME RestoreInv, StagedHeld PROVE Backup!TypeOK
  OBVIOUS
<1>1. /\ main \in Backup!Dbs(Backup!Versions) \cup {None}
      /\ wal \in Backup!Dbs(Backup!Versions) \cup {None}
      /\ safety \subseteq [db : Backup!Dbs(Backup!Versions), whole : BOOLEAN]
  BY DEF RestoreInv, FilesHeld, Held
<1>2. txn \in Backup!Dbs(Backup!Versions) \cup {None}
  BY DEF RestoreInv, MigrationHeld
<1>3. /\ pending \in Backup!Archives \cup {None} /\ exported \subseteq Backup!Archives
      /\ upload \in [Handlers -> [archive : Backup!Archives \cup {None}, written : BOOLEAN]]
  BY DEF RestoreInv, ArchivesHeld, Uploaded
<1>4. at \in Backup!Booting \cup {"down", "open", "up"}
  BY DEF RestoreInv, PlaceHeld
<1>5. acked \subseteq Backup!Writes /\ walLeft \in BOOLEAN
  BY DEF RestoreInv, WritesFound
<1> QED BY <1>1, <1>2, <1>3, <1>4, <1>5 DEF StagedHeld, Backup!TypeOK

LEMMA BackupTypes == PartsSpec => []Backup!TypeOK
<1>1. PartsInit => StagedHeld
  BY BackupParameters DEF PartsInit, Backup!Init, StagedHeld, Backup!RestoreAssumption
<1>2. RestoreInv /\ StagedHeld /\ [PartsNext]_allVars => StagedHeld'
  BY BackupPart, StagedNext
<1> QED BY <1>1, <1>2, RestoreKeeps, BackupTyped, PTL DEF PartsSpec

-----------------------------------------------------------------------------
(* The types of the other parts.                                             *)

LEMMA FormsTypes == PartsSpec => []Config!TypeOK
<1>1. PartsInit => FormsInv
  BY FormsInit DEF PartsInit
<1>2. FormsInv /\ [PartsNext]_allVars => FormsInv'
  BY FormsPart, FormsNext
<1>3. ASSUME FormsInv PROVE Config!TypeOK
  <2>1. row.st \in {"unborn", "live", "gone"} /\ row.enc.val \in Config!Values
    BY <1>3 DEF FormsInv, FormsTyped, Stored
  <2>2. ASSUME NEW t \in Tabs
        PROVE  /\ form[t] \in Config!Values \cup {Mask, "closed"}
               /\ req[t].op \in {"idle", "read", "write", "routes"}
    BY <1>3 DEF FormsInv, FormsTyped, Requests
  <2> QED BY <1>3, <2>1, <2>2 DEF FormsInv, FormsTyped, Config!TypeOK
<1> QED BY <1>1, <1>2, <1>3, PTL DEF PartsSpec

(* How often sessions expire and requests fail on the way is bounded.        *)
Disturbances == expiries \in 0 .. MaxExpiries /\ outages \in 0 .. MaxOutages

LEMMA DisturbancesNext == Disturbances /\ [Session!Next]_(Session!vars) => Disturbances'
<1> SUFFICES ASSUME Disturbances, [Session!Next]_(Session!vars) PROVE Disturbances'
  OBVIOUS
<1>0. MaxExpiries \in Nat /\ MaxOutages \in Nat
  BY SessionParameters DEF Session!SessionAssumption
<1>1. ASSUME expiries' = expiries \/ (expiries < MaxExpiries /\ expiries' = expiries + 1),
             outages' = outages \/ (outages < MaxOutages /\ outages' = outages + 1)
      PROVE  Disturbances'
  BY <1>0, <1>1 DEF Disturbances
<1>2. CASE Session!Expire
  BY <1>1, <1>2 DEF Session!Expire
<1>3. ASSUME NEW c \in Callers, Session!Begin(c) \/ Session!Step(c) PROVE Disturbances'
  <2>1. CASE Session!PostLogin(c)
    BY <1>1, <2>1, Zenon DEF Session!PostLogin
  <2>2. CASE Session!Send(c)
    BY <1>1, <2>2 DEF Session!Send
  <2>3. CASE \/ Session!Begin(c) \/ Session!EnsureLogin(c) \/ Session!LoginCheck(c)
             \/ Session!KeepCookie(c) \/ Session!StoreFlag(c) \/ Session!Served(c)
             \/ Session!Retry(c) \/ Session!Refused(c)
    BY <1>1, <2>3 DEF Session!Begin, Session!EnsureLogin, Session!LoginCheck,
       Session!KeepCookie, Session!StoreFlag, Session!Served, Session!Retry, Session!Refused
  <2> QED BY <1>3, <2>1, <2>2, <2>3 DEF Session!Step
<1>4. CASE UNCHANGED Session!vars
  BY <1>4 DEF Session!vars, Disturbances
<1> QED BY <1>2, <1>3, <1>4 DEF Session!Next

LEMMA SessionTypes == PartsSpec => []Session!TypeOK
<1>1. PartsInit => Affordable /\ Disturbances
  BY SessionInit, SessionParameters
  DEF PartsInit, Session!Init, Disturbances, Session!SessionAssumption
<1>2. Affordable /\ Disturbances /\ [PartsNext]_allVars => (Affordable /\ Disturbances)'
  BY SessionPart, SessionNext, DisturbancesNext
<1>3. Affordable /\ Disturbances => Session!TypeOK
  BY DEF Affordable, Disturbances, Session!TypeOK
<1> QED BY <1>1, <1>2, <1>3, PTL DEF PartsSpec

LEMMA EventTypes == PartsSpec => []Events!TypeOK
<1>1. ASSUME EventsInv PROVE Events!TypeOK
  <2>1. Events!ToSet(events) \subseteq Events!Rows
    BY <1>1 DEF EventsInv, PageTyped, Events!ToSet
  <2>2. ASSUME NEW r \in requests PROVE r.no \in 1 .. requestId /\ r.level \in Choices
    <3>1. r \in LoadRecord /\ r.no <= requestId /\ requestId \in Nat
      BY <1>1 DEF EventsInv, LoadsHeld, LoadHeld, PageTyped
    <3>2. r.no \in Nat \ {0} /\ r.level \in Choices
      BY <3>1 DEF LoadRecord
    <3> QED BY <3>1, <3>2
  <2> QED BY <1>1, <2>1, <2>2 DEF EventsInv, LogHeld, PageTyped, Events!TypeOK
<1> QED BY <1>1, EventsHold, PTL

(* Ids and pages stay within the bound.                                      *)
ListBounds == last <= MaxSeeds /\ walk.upto <= MaxSeeds

LEMMA ListTypes == PartsSpec => []Listing!TypeOK
<1>1. PartsInit => WalkKeeps /\ ListBounds
  BY ListInit, ListConstants DEF PartsInit, Listing!Init, Listing!NoWalk, ListBounds
<1>2. ASSUME WalkKeeps, ListBounds, [Listing!Next]_(Listing!vars) PROVE ListBounds'
  <2>0. last \in Nat /\ MaxSeeds \in Nat
    BY <1>2, ListConstants DEF WalkKeeps
  <2>1. ASSUME NEW p \in Listing!Ids, NEW f \in Shown, Listing!ListSeeds(p, f) PROVE ListBounds'
    <3>1. walk' = Listing!Walked(p, f) /\ last' = last
      BY <2>1 DEF Listing!ListSeeds
    <3>2. Listing!Walked(p, f).upto \in {p, walk.upto}
      <4>1. CASE p = 1
        BY <4>1 DEF Listing!Walked
      <4>2. CASE p # 1 /\ p = walk.upto + 1 /\ f = walk.filter
        BY <1>2, <4>2 DEF Listing!Walked, WalkKeeps
      <4>3. CASE p # 1 /\ ~ (p = walk.upto + 1 /\ f = walk.filter)
        BY <4>3 DEF Listing!Walked
      <4> QED BY <4>1, <4>2, <4>3
    <3>3. p <= MaxSeeds
      BY <2>0 DEF Listing!Ids
    <3> QED BY <1>2, <3>1, <3>2, <3>3 DEF ListBounds
  <2>2. ASSUME NEW status \in Statuses, Listing!Discover(status) PROVE ListBounds'
    BY <1>2, <2>0, <2>2 DEF Listing!Discover, ListBounds
  <2>3. ASSUME NEW i \in Listing!Ids, NEW status \in Statuses \cup {"none"},
               Listing!Change(i, status)
        PROVE  ListBounds'
    BY <1>2, <2>0, <2>3 DEF Listing!Change, ListBounds, Listing!NoWalk
  <2>4. CASE UNCHANGED Listing!vars
    BY <1>2, <2>4 DEF Listing!vars, ListBounds
  <2> QED BY <1>2, <2>1, <2>2, <2>3, <2>4 DEF Listing!Next
<1>3. WalkKeeps /\ ListBounds /\ [PartsNext]_allVars => (WalkKeeps /\ ListBounds)'
  BY <1>2, ListPart, ListNext
<1>4. ASSUME WalkKeeps, ListBounds PROVE Listing!TypeOK
  BY <1>4, ListConstants DEF WalkKeeps, ListBounds, Listing!TypeOK
<1> QED BY <1>1, <1>3, <1>4, PTL DEF PartsSpec

-----------------------------------------------------------------------------
(* The types of the account and the tabs.                                    *)
AccountTyped ==
  /\ hash \in Passwords \cup {None} /\ session \in {"none", "valid", "expired"}
  /\ holder \in Tabs \cup {None} /\ tab \in [Tabs -> TabRecord]
  /\ faults \in 0 .. MaxFaults

LEMMA Guarded ==
  ASSUME NEW state \in TabRecord, NEW path \in Pages
  PROVE  Show(state, path) \in TabRecord
<1>1. Guard(state, path) \in Pages
  <2>1. CASE state.init # "yes"
    BY <2>1 DEF Guard, Pages
  <2>2. CASE state.init = "yes" /\ ~ state.in
    BY <2>2 DEF Guard, Pages
  <2>3. CASE state.init = "yes" /\ state.in
    BY <2>3 DEF Guard, Pages
  <2> QED BY <2>1, <2>2, <2>3
<1> HIDE DEF Guard
<1> QED BY <1>1 DEF Show, TabRecord

LEMMA Answered ==
  ASSUME NEW state \in TabRecord, NEW status
  PROVE  AfterStatus(state, status) \in TabRecord
<1>1. [state EXCEPT !.in = FALSE] \in TabRecord /\ {"login", "setup"} \subseteq Pages
  BY DEF TabRecord, Pages
<1>2. CASE status = 401
  BY <1>1, <1>2, Guarded DEF AfterStatus
<1>3. CASE status # 401 /\ status = 403
  BY <1>1, <1>3, Guarded DEF AfterStatus
<1>4. CASE status # 401 /\ status # 403
  BY <1>4 DEF AfterStatus
<1> QED BY <1>2, <1>3, <1>4

LEMMA TabBecomes ==
  ASSUME AccountTyped, NEW t \in Tabs, NEW state \in TabRecord, Become(t, state)
  PROVE  tab' \in [Tabs -> TabRecord]
BY DEF AccountTyped, Become

LEMMA FaultsBounded ==
  ASSUME AccountTyped, NEW answer, SetupState(answer)
  PROVE  faults' \in 0 .. MaxFaults
BY AuthAssumption DEF AccountTyped, SetupState

LEMMA NoTabTyped ==
  /\ NoTab \in TabRecord /\ [NoTab EXCEPT !.wait = "status"] \in TabRecord
  /\ [NoTab EXCEPT !.init = "yes", !.in = TRUE] \in TabRecord
BY DEF NoTab, TabRecord, Pages

LEMMA AccountNext == AccountTyped /\ [Next]_vars => AccountTyped'
<1> SUFFICES ASSUME AccountTyped, [Next]_vars PROVE AccountTyped'
  OBVIOUS
<1>p. {"app", "login", "setup"} \subseteq Pages
  BY DEF Pages
<1>t. ASSUME NEW t \in Tabs PROVE tab[t] \in TabRecord
  BY <1>t DEF AccountTyped
<1>1. ASSUME NEW t \in Tabs, Load(t) PROVE AccountTyped'
  BY <1>1, NoTabTyped, TabBecomes DEF Load, AccountTyped, server, cookies
<1>2. ASSUME NEW t \in Tabs, Status(t) PROVE AccountTyped'
  <2>1. PICK initialised \in BOOLEAN :
          /\ SetupState(initialised)
          /\ Become(t, IF initialised
                       THEN [tab[t] EXCEPT !.init = "yes", !.wait = "me"]
                       ELSE Show([tab[t] EXCEPT !.init = "no", !.wait = "nothing"], "app"))
    BY <1>2 DEF Status
  <2>2. /\ [tab[t] EXCEPT !.init = "yes", !.wait = "me"] \in TabRecord
        /\ [tab[t] EXCEPT !.init = "no", !.wait = "nothing"] \in TabRecord
    BY <1>t DEF TabRecord
  <2>3. Show([tab[t] EXCEPT !.init = "no", !.wait = "nothing"], "app") \in TabRecord
    BY <1>p, <2>2, Guarded
  <2>4. tab' \in [Tabs -> TabRecord]
    BY <2>1, <2>2, <2>3, TabBecomes
  <2>5. faults' \in 0 .. MaxFaults
    BY <2>1, FaultsBounded
  <2> QED BY <1>2, <2>4, <2>5 DEF Status, AccountTyped, cookies
<1>3. ASSUME NEW t \in Tabs, Me(t) PROVE AccountTyped'
  <2>1. PICK initialised \in BOOLEAN :
          /\ SetupState(initialised)
          /\ LET ok == Checked(t, initialised, FALSE) = 200 IN
               /\ Become(t, Show([tab[t] EXCEPT !.in = ok, !.wait = "nothing"], "app"))
               /\ holder' = IF ok THEN t ELSE holder
    BY <1>3 DEF Me
  <2> DEFINE ok == Checked(t, initialised, FALSE) = 200
  <2>2. ok \in BOOLEAN
    OBVIOUS
  <2>3. /\ Become(t, Show([tab[t] EXCEPT !.in = ok, !.wait = "nothing"], "app"))
        /\ holder' = IF ok THEN t ELSE holder
    BY <2>1
  <2> HIDE DEF ok
  <2>4. [tab[t] EXCEPT !.in = ok, !.wait = "nothing"] \in TabRecord
    BY <1>t, <2>2 DEF TabRecord
  <2>5. Show([tab[t] EXCEPT !.in = ok, !.wait = "nothing"], "app") \in TabRecord
    BY <1>p, <2>4, Guarded
  <2>6. tab' \in [Tabs -> TabRecord]
    BY <2>3, <2>5, TabBecomes
  <2>7. faults' \in 0 .. MaxFaults
    BY <2>1, FaultsBounded
  <2> QED BY <1>3, <2>3, <2>6, <2>7 DEF Me, AccountTyped
<1>4. ASSUME NEW t \in Tabs, NEW pw \in Passwords, SetupCheck(t, pw) PROVE AccountTyped'
  <2>1. PICK initialised \in BOOLEAN :
          /\ SetupState(initialised)
          /\ Become(t, IF initialised THEN AfterStatus(tab[t], 403)
                       ELSE [tab[t] EXCEPT !.wait = "insert", !.typed = pw])
    BY <1>4 DEF SetupCheck
  <2>2. [tab[t] EXCEPT !.wait = "insert", !.typed = pw] \in TabRecord
    BY <1>t DEF TabRecord
  <2>3. AfterStatus(tab[t], 403) \in TabRecord
    BY <1>t, Answered
  <2>4. tab' \in [Tabs -> TabRecord]
    BY <2>1, <2>2, <2>3, TabBecomes
  <2>5. faults' \in 0 .. MaxFaults
    BY <2>1, FaultsBounded
  <2> QED BY <1>4, <2>4, <2>5 DEF SetupCheck, AccountTyped, cookies
<1>5. ASSUME NEW t \in Tabs, SetupInsert(t) PROVE AccountTyped'
  <2>1. faults' = faults
    BY <1>5 DEF SetupInsert
  <2>2. CASE /\ hash' = tab[t].typed /\ StartSession(t)
             /\ Become(t, Show([NoTab EXCEPT !.init = "yes", !.in = TRUE], "app"))
    <3>1. Show([NoTab EXCEPT !.init = "yes", !.in = TRUE], "app") \in TabRecord
      BY <1>p, NoTabTyped, Guarded
    <3>2. tab' \in [Tabs -> TabRecord]
      BY <2>2, <3>1, TabBecomes
    <3>3. hash' \in Passwords \cup {None}
      BY <1>t, <2>2 DEF TabRecord
    <3> QED BY <2>1, <2>2, <3>2, <3>3 DEF StartSession, AccountTyped
  <2>3. CASE /\ Become(t, AfterStatus([tab[t] EXCEPT !.wait = "nothing", !.typed = None], 403))
             /\ UNCHANGED <<hash, cookies>>
    <3>1. [tab[t] EXCEPT !.wait = "nothing", !.typed = None] \in TabRecord
      BY <1>t DEF TabRecord
    <3>2. AfterStatus([tab[t] EXCEPT !.wait = "nothing", !.typed = None], 403) \in TabRecord
      BY <3>1, Answered
    <3>3. tab' \in [Tabs -> TabRecord]
      BY <2>3, <3>2, TabBecomes
    <3> QED BY <2>1, <2>3, <3>3 DEF AccountTyped, cookies
  <2> QED BY <1>5, <2>2, <2>3 DEF SetupInsert
<1>6. ASSUME NEW t \in Tabs, NEW pw \in Passwords, Login(t, pw) PROVE AccountTyped'
  <2>1. CASE UNCHANGED <<server, cookies, tab>>
    BY <2>1 DEF AccountTyped, server, cookies
  <2>2. ASSUME NEW initialised \in BOOLEAN, SetupState(initialised), hash' = hash,
               IF initialised /\ pw = hash
                 THEN /\ StartSession(t)
                      /\ Become(t, Show([tab[t] EXCEPT !.in = TRUE], "app"))
                 ELSE /\ Become(t, AfterStatus(tab[t], IF initialised THEN 401 ELSE 403))
                      /\ UNCHANGED cookies
        PROVE  AccountTyped'
    <3>1. faults' \in 0 .. MaxFaults
      BY <2>2, FaultsBounded
    <3>2. [tab[t] EXCEPT !.in = TRUE] \in TabRecord
      BY <1>t DEF TabRecord
    <3>3. /\ Show([tab[t] EXCEPT !.in = TRUE], "app") \in TabRecord
          /\ AfterStatus(tab[t], IF initialised THEN 401 ELSE 403) \in TabRecord
      BY <1>p, <1>t, <3>2, Guarded, Answered
    <3>4. tab' \in [Tabs -> TabRecord]
      BY <2>2, <3>3, TabBecomes
    <3>5. session' \in {"none", "valid", "expired"} /\ holder' \in Tabs \cup {None}
      BY <2>2 DEF StartSession, cookies, AccountTyped
    <3> QED BY <2>2, <3>1, <3>4, <3>5 DEF AccountTyped
  <2> QED BY <1>6, <2>1, <2>2, Zenon DEF Login
<1>7. ASSUME NEW t \in Tabs, Request(t) PROVE AccountTyped'
  <2>1. PICK write, initialised \in BOOLEAN :
          /\ SetupState(initialised)
          /\ Become(t, AfterStatus(tab[t], Checked(t, initialised, write)))
    BY <1>7 DEF Request
  <2>2. AfterStatus(tab[t], Checked(t, initialised, write)) \in TabRecord
    BY <1>t, Answered
  <2>3. tab' \in [Tabs -> TabRecord]
    BY <2>1, <2>2, TabBecomes
  <2>4. faults' \in 0 .. MaxFaults
    BY <2>1, FaultsBounded
  <2> QED BY <1>7, <2>3, <2>4 DEF Request, AccountTyped, cookies
<1>8. ASSUME NEW t \in Tabs, Logout(t) PROVE AccountTyped'
  <2>1. PICK initialised \in BOOLEAN :
          /\ SetupState(initialised)
          /\ IF Checked(t, initialised, TRUE) = 200
             THEN session' = "none" /\ holder' = None
             ELSE UNCHANGED cookies
    BY <1>8 DEF Logout
  <2>2. [tab[t] EXCEPT !.in = FALSE] \in TabRecord
    BY <1>t DEF TabRecord
  <2>3. Show([tab[t] EXCEPT !.in = FALSE], "login") \in TabRecord
    BY <1>p, <2>2, Guarded
  <2>4. tab' \in [Tabs -> TabRecord]
    BY <1>8, <2>3, TabBecomes DEF Logout
  <2>5. faults' \in 0 .. MaxFaults
    BY <2>1, FaultsBounded
  <2>6. session' \in {"none", "valid", "expired"} /\ holder' \in Tabs \cup {None}
    BY <2>1 DEF cookies, AccountTyped
  <2> QED BY <1>8, <2>4, <2>5, <2>6 DEF Logout, AccountTyped
<1>9. CASE Expire
  BY <1>9 DEF Expire, AccountTyped, server
<1>10. CASE Tick
  BY <1>10 DEF Tick, AccountTyped, server, cookies
<1>11. CASE Restart
  <2>1. tab' \in [Tabs -> TabRecord]
    BY <1>11, <1>t, NoTabTyped DEF Restart
  <2>2. hash' \in Passwords \cup {None}
    BY <1>11, AuthAssumption DEF Restart, AccountTyped
  <2> QED BY <1>11, <2>1, <2>2 DEF Restart, AccountTyped, cookies
<1>12. CASE UNCHANGED vars
  BY <1>12 DEF vars, server, cookies, AccountTyped
<1> QED BY <1>1, <1>2, <1>3, <1>4, <1>5, <1>6, <1>7, <1>8, <1>9, <1>10, <1>11, <1>12
        DEF Next, TabNext

LEMMA AuthTypes == PartsSpec => []TypeOK
<1>1. PartsInit => AccountTyped /\ LimiterKeeps
  <2> SUFFICES ASSUME Init PROVE AccountTyped
    BY LimiterInit DEF PartsInit
  <2> QED BY NoTabTyped, AuthAssumption DEF Init, AccountTyped
<1>2. AccountTyped /\ LimiterKeeps /\ [PartsNext]_allVars => (AccountTyped /\ LimiterKeeps)'
  BY AuthPart, AccountNext, LimiterNext
<1>3. ASSUME AccountTyped, LimiterKeeps PROVE TypeOK
  BY <1>3, AuthAssumption DEF AccountTyped, LimiterKeeps, TypeOK, Ticks
<1> QED BY <1>1, <1>2, <1>3, PTL DEF PartsSpec

(* Every variable of the console's parts keeps its type, for any number of   *)
(* tabs, callers, rows, seeds and crashes.                                   *)
THEOREM TypesCorrect == PartsSpec => []TypesOK
<1>1. TypeOK /\ Config!TypeOK /\ Backup!TypeOK /\ Session!TypeOK /\ Events!TypeOK
      /\ Listing!TypeOK => TypesOK
  BY DEF TypesOK
<1> QED BY <1>1, AuthTypes, FormsTypes, BackupTypes, SessionTypes, EventTypes, ListTypes, PTL
=============================================================================
