---------------------------- MODULE Notifier_proofs ----------------------------
(* What the notifier promises, as the run explores it: the router before the  *)
(* breakers, the breaker of an instance and the provider behind it, for any   *)
(* number of callers, instances, topics, flushers, messages and recipients.   *)
EXTENDS MCNotifier, FiniteSetTheorems, TLAPS

-----------------------------------------------------------------------------
(* The router.                                                               *)

(* Where a message of an instance is.                                        *)
Waits(i, m) == \E topic \in Topics : m \in pending[<<i, topic>>].messages
Holds(t, i, m) == \E b \in thread[t].due : b.instance = i /\ m \in b.messages

(* Conserved, message by message.                                            *)
Once ==
  \A i \in Instances, m \in Messages :
    /\ m \in accepted[i]
         <=> Waits(i, m) \/ m \in handed[i] \/ \E t \in Threads : Holds(t, i, m)
    /\ Waits(i, m) => m \notin handed[i]
    /\ \A t \in Threads : Holds(t, i, m) =>
         /\ ~ Waits(i, m) /\ m \notin handed[i]
         /\ \A u \in Threads : Holds(u, i, m) => u = t

(* What makes it inductive: the windows of an instance share no message, nor *)
(* do the batches that a goroutine took for it, so that taking out or        *)
(* sending one of them leaves none of its messages behind; and a new message *)
(* is nowhere yet.                                                           *)
Apart ==
  /\ \A i \in Instances, p, q \in Topics, m \in Messages :
       m \in pending[<<i, p>>].messages /\ m \in pending[<<i, q>>].messages => p = q
  /\ \A t \in Threads : \A b, c \in thread[t].due : \A m \in Messages :
       b.instance = c.instance /\ m \in b.messages /\ m \in c.messages => b = c
Said == \A i \in Instances : accepted[i] \subseteq DOMAIN age

(* Only a goroutine that is sending has something to send, and Stop's        *)
(* goroutine never sweeps.                                                   *)
Hands ==
  /\ \A t \in Threads : thread[t].at \notin {"send", "stuck"} => thread[t].due = {}
  /\ thread[Stopper].at # "sweep"

(* What Stop's Flush found is handed over or in the hands of Stop's          *)
(* goroutine or of a flusher until Stop returns.                             *)
Stopping ==
  /\ thread[Stopper].at \in {"send", "stop", "wait"} =>
       \A i \in Instances : \A m \in before[i] :
         m \in handed[i] \/ \E t \in Flushers \cup {Stopper} : Holds(t, i, m)
  /\ StopHandsOver

IInv ==
  /\ TypeOK /\ Once /\ Apart /\ Said /\ Hands
  /\ WindowFixed /\ NoOrphanFlusher /\ Stopping

-----------------------------------------------------------------------------
(* The message by message form says what Conserved says.                     *)
LEMMA OnceConserves == ASSUME TypeOK, Once PROVE Conserved
<1> SUFFICES ASSUME NEW i \in Instances
             PROVE  /\ accepted[i] = WaitingOf(i) \cup handed[i]
                                       \cup UNION {HeldBy(t, i) : t \in Threads}
                    /\ WaitingOf(i) \cap handed[i] = {}
                    /\ \A t \in Threads :
                         /\ HeldBy(t, i) \cap (WaitingOf(i) \cup handed[i]) = {}
                         /\ \A u \in Threads \ {t} : HeldBy(t, i) \cap HeldBy(u, i) = {}
  BY DEF Conserved
<1>1. \A m : m \in WaitingOf(i) <=> Waits(i, m)
  <2>1. \A m : m \in WaitingOf(i) <=> \E k \in {i} \X Topics : m \in pending[k].messages
    BY DEF WaitingOf
  <2>2. \A k : k \in {i} \X Topics <=> \E topic \in Topics : k = <<i, topic>>
    OBVIOUS
  <2> QED BY <2>1, <2>2, Zenon DEF Waits
<1>2. \A t, m : m \in HeldBy(t, i) <=> Holds(t, i, m)
  BY DEF HeldBy, Holds
<1>3. \A m : Waits(i, m) => m \in Messages
  BY DEF Waits, TypeOK, Keys, Aggregates
<1>4. \A t \in Threads : \A m : Holds(t, i, m) => m \in Messages
  BY DEF Holds, TypeOK, Batches
<1>5. accepted[i] \subseteq Messages /\ handed[i] \subseteq Messages
  BY DEF TypeOK
<1>6. accepted[i] = WaitingOf(i) \cup handed[i] \cup UNION {HeldBy(t, i) : t \in Threads}
  <2>1. \A m : m \in UNION {HeldBy(t, i) : t \in Threads} <=> \E t \in Threads : Holds(t, i, m)
    BY <1>2
  <2>2. \A m \in Messages : m \in accepted[i]
          <=> Waits(i, m) \/ m \in handed[i] \/ \E t \in Threads : Holds(t, i, m)
    BY DEF Once
  <2> QED BY <1>1, <1>3, <1>4, <1>5, <2>1, <2>2
<1>7. WaitingOf(i) \cap handed[i] = {}
  BY <1>1, <1>3 DEF Once
<1>8. ASSUME NEW t \in Threads
      PROVE  /\ HeldBy(t, i) \cap (WaitingOf(i) \cup handed[i]) = {}
             /\ \A u \in Threads \ {t} : HeldBy(t, i) \cap HeldBy(u, i) = {}
  BY <1>1, <1>2, <1>4 DEF Once
<1> QED BY <1>6, <1>7, <1>8

-----------------------------------------------------------------------------
(* Steps that move no message.                                               *)
LEMMA SameContents ==
  ASSUME IInv, UNCHANGED <<accepted, handed>>, DOMAIN age' = DOMAIN age,
         \A k \in Keys : pending'[k].messages = pending[k].messages,
         \A t \in Threads : thread'[t].due = thread[t].due
  PROVE  /\ Once' /\ Apart' /\ Said'
         /\ \A t \in Threads : \A i, m : Holds(t, i, m)' <=> Holds(t, i, m)
<1>1. \A i \in Instances : \A m : Waits(i, m)' <=> Waits(i, m)
  BY DEF Waits, Keys
<1>2. \A t \in Threads : \A i, m : Holds(t, i, m)' <=> Holds(t, i, m)
  BY DEF Holds
<1>3. Once'
  BY <1>1, <1>2 DEF Once, IInv
<1>4. Apart'
  BY DEF Apart, Keys, IInv
<1> QED BY <1>2, <1>3, <1>4 DEF Said, IInv

(* The next message has a number of its own.                                 *)
LEMMA NextIsNew ==
  ASSUME TypeOK, RouterAssumption
  PROVE  /\ NextMessage \notin DOMAIN age
         /\ DOMAIN age \subseteq Messages
         /\ NextMessage \in Messages => DOMAIN age \cup {NextMessage} = 1 .. NextMessage
         /\ NextMessage \in Nat
<1>1. PICK n \in 0 .. MaxMessages : age \in [1 .. n -> 0 .. Window]
  BY DEF TypeOK
<1>2. DOMAIN age = 1 .. n /\ n \in Nat /\ MaxMessages \in Nat
  BY <1>1 DEF RouterAssumption
<1>3. Cardinality(1 .. n) = n
  BY <1>2, FS_Interval
<1>4. NextMessage = n + 1
  BY <1>2, <1>3 DEF NextMessage
<1> QED BY <1>1, <1>2, <1>4 DEF Messages

(* Saying a message: it is younger than all, and the others keep their age.  *)
LEMMA SayTyped ==
  ASSUME IInv, RouterAssumption, NEW topic, Say(topic)
  PROVE  /\ \E n \in 0 .. MaxMessages : age' \in [1 .. n -> 0 .. Window]
         /\ DOMAIN age' = DOMAIN age \cup {NextMessage}
         /\ age'[NextMessage] = 0 /\ \A m \in DOMAIN age : age'[m] = age[m]
         /\ accepted' \in [Instances -> SUBSET Messages] /\ Said'
<1>0. TypeOK
  BY DEF IInv
<1>1. NextMessage \in Messages /\ NextMessage \in 0 .. MaxMessages
  BY DEF Say, Messages
<1>2. /\ NextMessage \notin DOMAIN age
      /\ DOMAIN age \cup {NextMessage} = 1 .. NextMessage
  BY <1>0, <1>1, NextIsNew
<1>3. \A m \in DOMAIN age : age[m] \in 0 .. Window
  BY <1>0 DEF TypeOK
<1>4. age' = [m \in 1 .. NextMessage |-> IF m = NextMessage THEN 0 ELSE age[m]]
  BY DEF Say
<1>5. 0 \in 0 .. Window
  BY DEF RouterAssumption
<1>6. DOMAIN age' = DOMAIN age \cup {NextMessage}
  BY <1>2, <1>4
<1>7. age'[NextMessage] = 0 /\ \A m \in DOMAIN age : age'[m] = age[m]
  BY <1>2, <1>4
<1>8. age' \in [1 .. NextMessage -> 0 .. Window]
  <2>1. \A m \in 1 .. NextMessage : m = NextMessage \/ m \in DOMAIN age
    BY <1>2
  <2> QED BY <1>3, <1>4, <1>5, <2>1
<1>9. accepted' \in [Instances -> SUBSET Messages]
  BY <1>0, <1>1 DEF Say, TypeOK
<1>10. Said'
  BY <1>6 DEF Say, Said, IInv
<1> QED BY <1>1, <1>6, <1>7, <1>8, <1>9, <1>10

-----------------------------------------------------------------------------
(* Steps that move messages.                                                 *)

(* A message without a number yet is nowhere.                                *)
LEMMA NewIsNowhere ==
  ASSUME IInv, RouterAssumption, NextMessage \in Messages
  PROVE  \A i \in Instances :
           /\ NextMessage \notin accepted[i] /\ NextMessage \notin handed[i]
           /\ ~ Waits(i, NextMessage)
           /\ \A t \in Threads : ~ Holds(t, i, NextMessage)
<1>1. NextMessage \notin DOMAIN age
  BY NextIsNew DEF IInv
<1>2. \A i \in Instances : NextMessage \notin accepted[i]
  BY <1>1 DEF IInv, Said
<1> QED BY <1>2 DEF IInv, Once

(* A buffered message waits in one window of each subscriber.                *)
LEMMA BufferedOnce ==
  ASSUME IInv, RouterAssumption, NEW c \in Callers, NEW topic \in Topics,
         NotifyBuffered(c, topic)
  PROVE  Once' /\ Apart' /\ \A t \in Threads : \A i, m : Holds(t, i, m)' <=> Holds(t, i, m)
<1> DEFINE new == NextMessage
           to == Subscribed(topic)
<1>1. new \in Messages
  BY DEF NotifyBuffered, Say
<1>2. \A i \in Instances :
        /\ new \notin accepted[i] /\ new \notin handed[i] /\ ~ Waits(i, new)
        /\ \A t \in Threads : ~ Holds(t, i, new)
  BY <1>1, NewIsNowhere
<1>3. \A i \in Instances, p \in Topics : \A m :
        m \in pending'[<<i, p>>].messages
          <=> m \in pending[<<i, p>>].messages \/ (m = new /\ i \in to /\ p = topic)
  BY DEF NotifyBuffered, WithMessage, Keys
<1>4. \A t \in Threads : thread'[t].due = thread[t].due
  BY DEF NotifyBuffered, IInv, TypeOK
<1>5. \A t \in Threads : \A i, m : Holds(t, i, m)' <=> Holds(t, i, m)
  BY <1>4 DEF Holds
<1>6. \A i \in Instances : \A m : Waits(i, m)' <=> Waits(i, m) \/ (m = new /\ i \in to)
  BY <1>3 DEF Waits
<1>7. \A i \in Instances : \A m : m \in accepted'[i] <=> m \in accepted[i] \/ (m = new /\ i \in to)
  BY DEF NotifyBuffered, Say
<1>8. handed' = handed
  BY DEF NotifyBuffered
<1>9. Once /\ Apart
  BY DEF IInv
<1> HIDE DEF new, to
<1>10. Once'
  <2> SUFFICES ASSUME NEW i \in Instances, NEW m \in Messages
               PROVE  /\ m \in accepted'[i]
                           <=> Waits(i, m)' \/ m \in handed'[i] \/ \E t \in Threads : Holds(t, i, m)'
                      /\ Waits(i, m)' => m \notin handed'[i]
                      /\ \A t \in Threads : Holds(t, i, m)' =>
                           /\ ~ Waits(i, m)' /\ m \notin handed'[i]
                           /\ \A u \in Threads : Holds(u, i, m)' => u = t
    BY DEF Once
  <2>1. /\ m \in accepted[i]
             <=> Waits(i, m) \/ m \in handed[i] \/ \E t \in Threads : Holds(t, i, m)
        /\ Waits(i, m) => m \notin handed[i]
        /\ \A t \in Threads : Holds(t, i, m) =>
             /\ ~ Waits(i, m) /\ m \notin handed[i]
             /\ \A u \in Threads : Holds(u, i, m) => u = t
    BY <1>9 DEF Once
  <2> QED BY <1>2, <1>5, <1>6, <1>7, <1>8, <2>1, Zenon
<1>11. Apart'
  <2>1. ASSUME NEW i \in Instances, NEW p \in Topics, NEW q \in Topics, NEW m \in Messages,
               m \in pending'[<<i, p>>].messages, m \in pending'[<<i, q>>].messages
        PROVE  p = q
    <3>1. CASE m = new
      <4>1. m \notin pending[<<i, p>>].messages /\ m \notin pending[<<i, q>>].messages
        BY <1>2, <3>1 DEF Waits
      <4> QED BY <1>3, <2>1, <4>1
    <3>2. CASE m # new
      BY <1>3, <1>9, <2>1, <3>2 DEF Apart
    <3> QED BY <3>1, <3>2
  <2> QED BY <1>4, <1>9, <2>1 DEF Apart
<1> QED BY <1>5, <1>10, <1>11

(* A critical message is in its caller's hands.                              *)
LEMMA CriticalOnce ==
  ASSUME IInv, RouterAssumption, NEW c \in Callers, NEW topic, NotifyCritical(c, topic)
  PROVE  Once' /\ Apart' /\ \A t \in Threads \ {c} : \A i, m : Holds(t, i, m)' <=> Holds(t, i, m)
<1> DEFINE new == NextMessage
           to == Subscribed(topic)
<1>1. new \in Messages
  BY DEF NotifyCritical, Say
<1>2. \A i \in Instances :
        /\ new \notin accepted[i] /\ new \notin handed[i] /\ ~ Waits(i, new)
        /\ \A t \in Threads : ~ Holds(t, i, new)
  BY <1>1, NewIsNowhere
<1>3. c \in Threads /\ thread[c].due = {}
  BY DEF NotifyCritical, Idle, IInv, Hands, Threads
<1>4. /\ thread'[c].due = {[instance |-> i, messages |-> {new}] : i \in to}
      /\ \A t \in Threads : t # c => thread'[t].due = thread[t].due
  BY <1>3 DEF NotifyCritical, IInv, TypeOK
<1>5. \A t \in Threads : t # c => \A i, m : Holds(t, i, m)' <=> Holds(t, i, m)
  BY <1>4 DEF Holds
<1>6. \A i, m : Holds(c, i, m)' <=> (m = new /\ i \in to)
  <2>1. ASSUME NEW i, NEW m, Holds(c, i, m)' PROVE m = new /\ i \in to
    <3>1. PICK b \in thread'[c].due : b.instance = i /\ m \in b.messages
      BY <2>1 DEF Holds
    <3>2. PICK j \in to : b = [instance |-> j, messages |-> {new}]
      BY <1>4, <3>1
    <3> QED BY <3>1, <3>2
  <2>2. ASSUME NEW i \in to, NEW m, m = new PROVE Holds(c, i, m)'
    <3>1. PICK b \in thread'[c].due : b = [instance |-> i, messages |-> {new}]
      BY <1>4
    <3>2. b.instance = i /\ m \in b.messages
      BY <2>2, <3>1
    <3> QED BY <3>2 DEF Holds
  <2> QED BY <2>1, <2>2
<1>7. \A i, m : ~ Holds(c, i, m)
  BY <1>3 DEF Holds
<1>8. \A i \in Instances : \A m : Waits(i, m)' <=> Waits(i, m)
  BY DEF NotifyCritical, Waits
<1>9. \A i \in Instances : \A m : m \in accepted'[i] <=> m \in accepted[i] \/ (m = new /\ i \in to)
  BY DEF NotifyCritical, Say
<1>10. handed' = handed /\ pending' = pending
  BY DEF NotifyCritical
<1>11. Once /\ Apart
  BY DEF IInv
<1> HIDE DEF new, to
<1>12. Once'
  <2> SUFFICES ASSUME NEW i \in Instances, NEW m \in Messages
               PROVE  /\ m \in accepted'[i]
                           <=> Waits(i, m)' \/ m \in handed'[i] \/ \E t \in Threads : Holds(t, i, m)'
                      /\ Waits(i, m)' => m \notin handed'[i]
                      /\ \A t \in Threads : Holds(t, i, m)' =>
                           /\ ~ Waits(i, m)' /\ m \notin handed'[i]
                           /\ \A u \in Threads : Holds(u, i, m)' => u = t
    BY DEF Once
  <2>1. /\ m \in accepted[i]
             <=> Waits(i, m) \/ m \in handed[i] \/ \E t \in Threads : Holds(t, i, m)
        /\ Waits(i, m) => m \notin handed[i]
        /\ \A t \in Threads : Holds(t, i, m) =>
             /\ ~ Waits(i, m) /\ m \notin handed[i]
             /\ \A u \in Threads : Holds(u, i, m) => u = t
    BY <1>11 DEF Once
  <2>2. Waits(i, m)' <=> Waits(i, m)
    BY <1>8
  <2>3. CASE m = new /\ i \in to
    <3>1. ASSUME NEW t \in Threads PROVE Holds(t, i, m)' <=> t = c
      <4>1. CASE t = c
        BY <1>6, <2>3, <4>1
      <4>2. CASE t # c
        <5>1. Holds(t, i, m)' <=> Holds(t, i, m)
          BY <1>5, <4>2
        <5>2. ~ Holds(t, i, new)
          BY <1>2
        <5> QED BY <2>3, <4>2, <5>1, <5>2
      <4> QED BY <4>1, <4>2
    <3> QED BY <1>2, <1>3, <1>9, <1>10, <2>2, <2>3, <3>1
  <2>4. CASE ~ (m = new /\ i \in to)
    <3>1. \A t \in Threads : Holds(t, i, m)' <=> Holds(t, i, m)
      BY <1>5, <1>6, <1>7, <2>4, Zenon
    <3> QED BY <1>9, <1>10, <2>1, <2>2, <2>4, <3>1
  <2> QED BY <2>3, <2>4
<1>13. Apart'
  <2>1. \A b, d \in thread'[c].due : b.instance = d.instance => b = d
    BY <1>4
  <2> QED BY <1>4, <1>10, <1>11, <2>1 DEF Apart
<1> QED BY <1>5, <1>12, <1>13

(* Taken out of its window, a message is in one goroutine's hands.           *)
LEMMA TakenOutOnce ==
  ASSUME IInv, NEW t \in Threads, NEW keys \in SUBSET Keys, NEW next,
         thread[t].due = {}, TakeOut(t, keys, next), UNCHANGED <<accepted, handed>>
  PROVE  /\ Once' /\ Apart'
         /\ \A u \in Threads : \A i, m : Holds(u, i, m) => Holds(u, i, m)'
         /\ \A i \in Instances : \A m : Waits(i, m) => Waits(i, m)' \/ Holds(t, i, m)'
<1> DEFINE batch(k) == [instance |-> k[1], messages |-> pending[k].messages]
           Takes(i, m) == \E p \in Topics : <<i, p>> \in keys /\ m \in pending[<<i, p>>].messages
<1>1. /\ thread'[t].due = {batch(k) : k \in keys}
      /\ \A u \in Threads : u # t => thread'[u].due = thread[u].due
  BY DEF TakeOut, IInv, TypeOK
<1>2. \A k \in Keys : pending'[k] = IF k \in keys THEN NoAggregate ELSE pending[k]
  BY DEF TakeOut
<1>3. \A u \in Threads : u # t => \A i, m : Holds(u, i, m)' <=> Holds(u, i, m)
  BY <1>1 DEF Holds
<1>4. \A i, m : ~ Holds(t, i, m)
  BY DEF Holds
<1>5. \A k \in keys : \E i \in Instances, p \in Topics : k = <<i, p>>
  BY DEF Keys
<1>6. \A i \in Instances : \A m : Holds(t, i, m)' <=> Takes(i, m)
  <2>1. ASSUME NEW i \in Instances, NEW m, Holds(t, i, m)' PROVE Takes(i, m)
    <3>1. PICK b \in thread'[t].due : b.instance = i /\ m \in b.messages
      BY <2>1 DEF Holds
    <3>2. PICK k \in keys : b = batch(k)
      BY <1>1, <3>1
    <3>3. k[1] = i /\ m \in pending[k].messages
      BY <3>1, <3>2
    <3> QED BY <1>5, <3>3
  <2>2. ASSUME NEW i \in Instances, NEW m, Takes(i, m) PROVE Holds(t, i, m)'
    <3>1. PICK k \in keys : k[1] = i /\ m \in pending[k].messages
      BY <2>2
    <3>2. PICK b \in thread'[t].due : b = batch(k)
      BY <1>1
    <3>3. b.instance = i /\ m \in b.messages
      BY <3>1, <3>2
    <3> QED BY <3>3 DEF Holds
  <2> QED BY <2>1, <2>2
<1>7. \A i \in Instances, p \in Topics : \A m :
        m \in pending'[<<i, p>>].messages
          <=> m \in pending[<<i, p>>].messages /\ <<i, p>> \notin keys
  BY <1>2 DEF Keys, NoAggregate
<1>8. Once /\ Apart
  BY DEF IInv
<1>9. \A i \in Instances : \A m : Waits(i, m) <=> Waits(i, m)' \/ Takes(i, m)
  BY <1>7 DEF Waits
<1>10. \A i \in Instances, m \in Messages : ~ (Waits(i, m)' /\ Takes(i, m))
  <2> SUFFICES ASSUME NEW i \in Instances, NEW m \in Messages, Waits(i, m)', Takes(i, m)
               PROVE  FALSE
    OBVIOUS
  <2>1. PICK p \in Topics : m \in pending'[<<i, p>>].messages
    BY DEF Waits
  <2>2. PICK q \in Topics : <<i, q>> \in keys /\ m \in pending[<<i, q>>].messages
    OBVIOUS
  <2>3. m \in pending[<<i, p>>].messages /\ <<i, p>> \notin keys
    BY <1>7, <2>1
  <2>4. p = q
    BY <1>8, <2>2, <2>3 DEF Apart
  <2> QED BY <2>2, <2>3, <2>4
<1>11. Apart'
  <2>1. ASSUME NEW b \in thread'[t].due, NEW d \in thread'[t].due, NEW m \in Messages,
               b.instance = d.instance, m \in b.messages, m \in d.messages
        PROVE  b = d
    <3>1. PICK k \in keys : b = batch(k)
      BY <1>1
    <3>2. PICK l \in keys : d = batch(l)
      BY <1>1
    <3>3. PICK i \in Instances, p \in Topics : k = <<i, p>>
      BY <1>5
    <3>4. PICK j \in Instances, q \in Topics : l = <<j, q>>
      BY <1>5
    <3>5. /\ b.instance = i /\ d.instance = j
          /\ b.messages = pending[<<i, p>>].messages /\ d.messages = pending[<<j, q>>].messages
      BY <3>1, <3>2, <3>3, <3>4
    <3>6. i = j /\ m \in pending[<<i, p>>].messages /\ m \in pending[<<i, q>>].messages
      BY <2>1, <3>5
    <3>7. p = q
      BY <1>8, <3>6 DEF Apart
    <3> QED BY <3>1, <3>2, <3>3, <3>4, <3>6, <3>7
  <2>2. \A i \in Instances, p, q \in Topics, m \in Messages :
          m \in pending'[<<i, p>>].messages /\ m \in pending'[<<i, q>>].messages => p = q
    BY <1>7, <1>8 DEF Apart
  <2>3. ASSUME NEW u \in Threads, u # t, NEW b \in thread'[u].due, NEW d \in thread'[u].due,
               NEW m \in Messages, b.instance = d.instance, m \in b.messages, m \in d.messages
        PROVE  b = d
    BY <1>1, <1>8, <2>3 DEF Apart
  <2> QED BY <2>1, <2>2, <2>3 DEF Apart
<1> HIDE DEF batch, Takes
<1>12. Once'
  <2> SUFFICES ASSUME NEW i \in Instances, NEW m \in Messages
               PROVE  /\ m \in accepted'[i]
                           <=> Waits(i, m)' \/ m \in handed'[i] \/ \E u \in Threads : Holds(u, i, m)'
                      /\ Waits(i, m)' => m \notin handed'[i]
                      /\ \A u \in Threads : Holds(u, i, m)' =>
                           /\ ~ Waits(i, m)' /\ m \notin handed'[i]
                           /\ \A v \in Threads : Holds(v, i, m)' => v = u
    BY DEF Once
  <2>1. /\ m \in accepted[i]
             <=> Waits(i, m) \/ m \in handed[i] \/ \E u \in Threads : Holds(u, i, m)
        /\ Waits(i, m) => m \notin handed[i]
        /\ \A u \in Threads : Holds(u, i, m) =>
             /\ ~ Waits(i, m) /\ m \notin handed[i]
             /\ \A v \in Threads : Holds(v, i, m) => v = u
    BY <1>8 DEF Once
  <2>2. /\ Holds(t, i, m)' <=> Takes(i, m)
        /\ Waits(i, m) <=> Waits(i, m)' \/ Takes(i, m)
        /\ ~ (Waits(i, m)' /\ Takes(i, m))
        /\ ~ Holds(t, i, m)
    BY <1>4, <1>6, <1>9, <1>10
  <2>3. \A u \in Threads : u # t => (Holds(u, i, m)' <=> Holds(u, i, m))
    BY <1>3
  <2> QED BY <2>1, <2>2, <2>3, Zenon
<1>13. \A u \in Threads : \A i, m : Holds(u, i, m) => Holds(u, i, m)'
  BY <1>3, <1>4
<1>14. \A i \in Instances : \A m : Waits(i, m) => Waits(i, m)' \/ Holds(t, i, m)'
  BY <1>6, <1>9
<1> QED BY <1>11, <1>12, <1>13, <1>14

(* Sent, a batch is handed over and in nobody's hands.                       *)
LEMMA SentOnce ==
  ASSUME IInv, NEW t \in Threads, Send(t)
  PROVE  /\ Once' /\ Apart'
         /\ \A i \in Instances, m \in Messages : \A u \in Threads :
              Holds(u, i, m) => Holds(u, i, m)' \/ (u = t /\ m \in handed'[i])
<1>1. PICK b \in thread[t].due :
        /\ handed' = [handed EXCEPT ![b.instance] = @ \cup b.messages]
        /\ thread' = [thread EXCEPT ![t].due = @ \ {b}]
  BY DEF Send
<1>2. pending' = pending /\ accepted' = accepted
  BY DEF Send
<1>3. b.instance \in Instances /\ b.messages \subseteq Messages
  BY DEF IInv, TypeOK, Batches
<1>4. /\ thread'[t].due = thread[t].due \ {b}
      /\ \A u \in Threads : u # t => thread'[u].due = thread[u].due
  BY <1>1 DEF IInv, TypeOK
<1>5. \A i \in Instances : \A m :
        m \in handed'[i] <=> m \in handed[i] \/ (i = b.instance /\ m \in b.messages)
  BY <1>1 DEF IInv, TypeOK
<1>6. Once /\ Apart
  BY DEF IInv
<1>7. \A u \in Threads : u # t => \A i, m : Holds(u, i, m)' <=> Holds(u, i, m)
  BY <1>4 DEF Holds
<1>8. \A i \in Instances, m \in Messages :
        Holds(t, i, m)' <=> Holds(t, i, m) /\ ~ (i = b.instance /\ m \in b.messages)
  <2> SUFFICES ASSUME NEW i \in Instances, NEW m \in Messages
               PROVE  Holds(t, i, m)' <=> Holds(t, i, m) /\ ~ (i = b.instance /\ m \in b.messages)
    OBVIOUS
  <2>1. ASSUME Holds(t, i, m)' PROVE Holds(t, i, m) /\ ~ (i = b.instance /\ m \in b.messages)
    <3>1. PICK d \in thread[t].due \ {b} : d.instance = i /\ m \in d.messages
      BY <1>4, <2>1 DEF Holds
    <3> QED BY <1>6, <3>1 DEF Apart, Holds
  <2>2. ASSUME Holds(t, i, m), ~ (i = b.instance /\ m \in b.messages) PROVE Holds(t, i, m)'
    BY <1>4, <2>2 DEF Holds
  <2> QED BY <2>1, <2>2
<1>9. \A m \in b.messages : Holds(t, b.instance, m)
  BY DEF Holds
<1>10. \A i \in Instances : \A m : Waits(i, m)' <=> Waits(i, m)
  BY <1>2 DEF Waits
<1>11. Apart'
  <2>1. \A u \in Threads : thread'[u].due \subseteq thread[u].due
    BY <1>4
  <2> QED BY <1>2, <1>6, <2>1 DEF Apart
<1>12. Once'
  <2> SUFFICES ASSUME NEW i \in Instances, NEW m \in Messages
               PROVE  /\ m \in accepted'[i]
                           <=> Waits(i, m)' \/ m \in handed'[i] \/ \E u \in Threads : Holds(u, i, m)'
                      /\ Waits(i, m)' => m \notin handed'[i]
                      /\ \A u \in Threads : Holds(u, i, m)' =>
                           /\ ~ Waits(i, m)' /\ m \notin handed'[i]
                           /\ \A v \in Threads : Holds(v, i, m)' => v = u
    BY DEF Once
  <2>1. /\ m \in accepted[i]
             <=> Waits(i, m) \/ m \in handed[i] \/ \E u \in Threads : Holds(u, i, m)
        /\ Waits(i, m) => m \notin handed[i]
        /\ \A u \in Threads : Holds(u, i, m) =>
             /\ ~ Waits(i, m) /\ m \notin handed[i]
             /\ \A v \in Threads : Holds(v, i, m) => v = u
    BY <1>6 DEF Once
  <2>2. (Waits(i, m)' <=> Waits(i, m)) /\ accepted'[i] = accepted[i]
    BY <1>2, <1>10
  <2>3. \A u \in Threads : u # t => (Holds(u, i, m)' <=> Holds(u, i, m))
    BY <1>7
  <2>4. CASE i = b.instance /\ m \in b.messages
    <3>1. Holds(t, i, m) /\ m \in handed'[i] /\ ~ Holds(t, i, m)'
      BY <1>5, <1>8, <1>9, <2>4
    <3>2. \A u \in Threads : ~ Holds(u, i, m)'
      BY <2>1, <2>3, <3>1
    <3>3. ~ Waits(i, m) /\ m \in accepted[i]
      BY <2>1, <3>1
    <3> QED BY <2>2, <3>1, <3>2, <3>3
  <2>5. CASE ~ (i = b.instance /\ m \in b.messages)
    <3>1. \A u \in Threads : Holds(u, i, m)' <=> Holds(u, i, m)
      BY <1>8, <2>3, <2>5
    <3>2. m \in handed'[i] <=> m \in handed[i]
      BY <1>5, <2>5
    <3> QED BY <2>1, <2>2, <3>1, <3>2
  <2> QED BY <2>4, <2>5
<1>13. \A i \in Instances, m \in Messages : \A u \in Threads :
         Holds(u, i, m) => Holds(u, i, m)' \/ (u = t /\ m \in handed'[i])
  BY <1>5, <1>7, <1>8
<1> QED BY <1>11, <1>12, <1>13

-----------------------------------------------------------------------------
(* The windows.                                                              *)

LEMMA WaitingIsSaid ==
  ASSUME IInv, NEW k \in Keys, NEW m \in pending[k].messages
  PROVE  m \in DOMAIN age /\ age[m] \in 0 .. Window /\ pending[k].left \in 0 .. Window
<1>1. m \in Messages /\ pending[k].left \in 0 .. Window
  BY DEF IInv, TypeOK, Aggregates
<1>2. PICK i \in Instances, topic \in Topics : k = <<i, topic>>
  BY DEF Keys
<1>3. Waits(i, m)
  BY <1>2 DEF Waits
<1>4. m \in accepted[i]
  BY <1>1, <1>3 DEF IInv, Once
<1>5. m \in DOMAIN age
  BY <1>4 DEF IInv, Said
<1>6. PICK n \in 0 .. MaxMessages : age \in [1 .. n -> 0 .. Window]
  BY DEF IInv, TypeOK
<1> QED BY <1>1, <1>5, <1>6

(* Aggregates that stay as they are or are taken out keep their windows.     *)
LEMMA WindowsKept ==
  ASSUME IInv, \A m \in DOMAIN age : age'[m] = age[m],
         \A k \in Keys : pending'[k] = pending[k] \/ pending'[k] = NoAggregate
  PROVE  WindowFixed'
<1> SUFFICES ASSUME NEW k \in Keys, pending'[k].messages # {}
             PROVE  /\ \A m \in pending'[k].messages : pending'[k].left <= Window - age'[m]
                    /\ \E m \in pending'[k].messages : pending'[k].left = Window - age'[m]
  BY DEF WindowFixed, Open
<1>1. pending'[k] = pending[k]
  BY DEF NoAggregate
<1>2. \A m \in pending[k].messages : age'[m] = age[m]
  BY WaitingIsSaid
<1>3. Open(k)
  BY <1>1 DEF Open
<1>4. /\ \A m \in pending[k].messages : pending[k].left <= Window - age[m]
      /\ \E m \in pending[k].messages : pending[k].left = Window - age[m]
  BY <1>3 DEF IInv, WindowFixed
<1> QED BY <1>1, <1>2, <1>4

(* A new message has all of the window left, the aggregate no more than it.  *)
LEMMA WindowsBuffered ==
  ASSUME IInv, RouterAssumption, NEW c \in Callers, NEW topic \in Topics,
         NotifyBuffered(c, topic)
  PROVE  WindowFixed'
<1> DEFINE new == NextMessage
<1> SUFFICES ASSUME NEW k \in Keys, pending'[k].messages # {}
             PROVE  /\ \A m \in pending'[k].messages : pending'[k].left <= Window - age'[m]
                    /\ \E m \in pending'[k].messages : pending'[k].left = Window - age'[m]
  BY DEF WindowFixed, Open
<1>1. age'[new] = 0 /\ \A m \in DOMAIN age : age'[m] = age[m]
  BY SayTyped DEF NotifyBuffered
<1>2. \A m \in pending[k].messages : age'[m] = age[m] /\ age[m] \in 0 .. Window
  BY <1>1, WaitingIsSaid
<1>3. pending[k].left \in 0 .. Window /\ Window \in Nat
  BY DEF IInv, TypeOK, Aggregates, RouterAssumption
<1>4. Open(k) => /\ \A m \in pending[k].messages : pending[k].left <= Window - age[m]
                 /\ \E m \in pending[k].messages : pending[k].left = Window - age[m]
  BY DEF IInv, WindowFixed
<1>5. pending'[k] = pending[k] \/ pending'[k] = WithMessage(pending[k], new)
  BY DEF NotifyBuffered
<1>6. CASE pending'[k] = pending[k]
  BY <1>2, <1>4, <1>6 DEF Open
<1>7. CASE pending'[k] = WithMessage(pending[k], new)
  <2>1. pending'[k].messages = pending[k].messages \cup {new}
    BY <1>7 DEF WithMessage
  <2>2. pending'[k].left = IF pending[k].messages = {} THEN Window ELSE pending[k].left
    BY <1>7 DEF WithMessage
  <2> HIDE DEF new
  <2>3. CASE pending[k].messages = {}
    BY <1>1, <1>3, <2>1, <2>2, <2>3
  <2>4. CASE pending[k].messages # {}
    <3>1. Open(k)
      BY <2>4 DEF Open
    <3> QED BY <1>1, <1>2, <1>3, <1>4, <2>1, <2>2, <2>4, <3>1
  <2> QED BY <2>3, <2>4
<1> QED BY <1>5, <1>6, <1>7

(* Time passes for a window and its messages alike.                          *)
LEMMA WindowsTick == ASSUME IInv, RouterAssumption, Tick PROVE WindowFixed'
<1> SUFFICES ASSUME NEW k \in Keys, pending'[k].messages # {}
             PROVE  /\ \A m \in pending'[k].messages : pending'[k].left <= Window - age'[m]
                    /\ \E m \in pending'[k].messages : pending'[k].left = Window - age'[m]
  BY DEF WindowFixed, Open
<1>1. pending[k] \in Aggregates /\ Window \in Nat
  BY DEF IInv, TypeOK, RouterAssumption
<1>2. Open(k) /\ pending'[k] = [pending[k] EXCEPT !.left = Less(@)]
  BY DEF Tick, NoAggregate
<1>3. /\ pending'[k].messages = pending[k].messages
      /\ pending'[k].left = Less(pending[k].left)
  BY <1>1, <1>2 DEF Aggregates
<1>4. \A m \in pending[k].messages :
        /\ age[m] \in 0 .. Window
        /\ age'[m] = IF age[m] = Window THEN Window ELSE age[m] + 1
  BY WaitingIsSaid DEF Tick
<1>5. pending[k].left \in 0 .. Window
  BY <1>1 DEF Aggregates
<1>6. /\ \A m \in pending[k].messages : pending[k].left <= Window - age[m]
      /\ \E m \in pending[k].messages : pending[k].left = Window - age[m]
  BY <1>2 DEF IInv, WindowFixed
<1>7. ASSUME NEW m \in pending[k].messages
      PROVE  /\ Less(pending[k].left) <= Window - age'[m]
             /\ pending[k].left = Window - age[m] => Less(pending[k].left) = Window - age'[m]
  <2>1. pending[k].left <= Window - age[m]
    BY <1>6
  <2> QED BY <1>1, <1>4, <1>5, <2>1 DEF Less
<1> QED BY <1>3, <1>6, <1>7

-----------------------------------------------------------------------------
(* Goroutines, Start and Stop.                                               *)

(* A goroutine that only moves on takes nothing along.                       *)
LEMMA MovesOn ==
  ASSUME IInv, NEW t \in Threads, NEW place \in Places,
         thread' = [thread EXCEPT ![t].at = place],
         place \notin {"send", "stuck"} => thread[t].due = {}, t = Stopper => place # "sweep"
  PROVE  /\ thread' \in [Threads -> [at : Places, due : SUBSET Batches]]
         /\ \A u \in Threads : thread'[u].due = thread[u].due
         /\ thread'[t].at = place
         /\ \A u \in Threads : u # t => thread'[u] = thread[u]
         /\ Hands'
<1>1. thread \in [Threads -> [at : Places, due : SUBSET Batches]]
  BY DEF IInv, TypeOK
<1>2. thread' \in [Threads -> [at : Places, due : SUBSET Batches]]
  BY <1>1
<1>3. /\ \A u \in Threads : thread'[u].due = thread[u].due
      /\ thread'[t].at = place
      /\ \A u \in Threads : u # t => thread'[u] = thread[u]
  BY <1>1
<1>4. Hands'
  BY <1>3 DEF Hands, IInv, Threads
<1> QED BY <1>2, <1>3, <1>4

(* A goroutine that takes batches goes on to send them.                      *)
LEMMA Takes ==
  ASSUME IInv, NEW t \in Threads, NEW due \in SUBSET Batches,
         thread' = [thread EXCEPT ![t] = [at |-> "send", due |-> due]]
  PROVE  /\ thread' \in [Threads -> [at : Places, due : SUBSET Batches]]
         /\ thread'[t].at = "send" /\ thread'[t].due = due
         /\ \A u \in Threads : u # t => thread'[u] = thread[u]
         /\ Hands'
<1>1. thread \in [Threads -> [at : Places, due : SUBSET Batches]]
  BY DEF IInv, TypeOK
<1>2. thread' \in [Threads -> [at : Places, due : SUBSET Batches]]
  BY <1>1 DEF Places
<1>3. /\ thread'[t].at = "send" /\ thread'[t].due = due
      /\ \A u \in Threads : u # t => thread'[u] = thread[u]
  BY <1>1
<1>4. Hands'
  BY <1>3 DEF Hands, IInv, Threads
<1> QED BY <1>2, <1>3, <1>4

(* No flusher comes to life beside Start.                                    *)
LEMMA NoNewFlusher ==
  ASSUME IInv, UNCHANGED <<started, current>>,
         \A f \in Flushers : thread'[f].at # "gone" => thread[f].at # "gone"
  PROVE  NoOrphanFlusher'
  BY DEF IInv, NoOrphanFlusher

(* While what is held stays held or is handed over, Stop keeps its promise.  *)
LEMMA StopKept ==
  ASSUME IInv, before' = before,
         \A i \in Instances : handed[i] \subseteq handed'[i],
         \A i \in Instances, m \in Messages : \A t \in Threads :
           Holds(t, i, m) => Holds(t, i, m)' \/ m \in handed'[i],
         \/ thread'[Stopper].at = thread[Stopper].at
         \/ thread[Stopper].at \in {"send", "stop"} /\ thread'[Stopper].at \in {"stop", "wait"}
         \/ thread'[Stopper].at \in {"idle", "flush", "stuck"}
  PROVE  Stopping'
<1>1. Stopping /\ \A i \in Instances : before[i] \subseteq Messages
  BY DEF IInv, TypeOK
<1>2. Flushers \cup {Stopper} \subseteq Threads
  BY DEF Threads
<1>3. ASSUME thread'[Stopper].at \in {"send", "stop", "wait"},
             NEW i \in Instances, NEW m \in before'[i]
      PROVE  m \in handed'[i] \/ \E t \in Flushers \cup {Stopper} : Holds(t, i, m)'
  <2>1. thread[Stopper].at \in {"send", "stop", "wait"} /\ m \in before[i] /\ m \in Messages
    BY <1>1, <1>3
  <2>2. m \in handed[i] \/ \E t \in Flushers \cup {Stopper} : Holds(t, i, m)
    BY <1>1, <2>1 DEF Stopping
  <2> QED BY <1>2, <2>1, <2>2
<1>4. StopHandsOver'
  BY <1>1 DEF Stopping, StopHandsOver
<1> QED BY <1>3, <1>4 DEF Stopping

(* Messages stay where they are: what the steps of Start and Stop have in    *)
(* common.                                                                   *)
LEMMA NothingMoves ==
  ASSUME IInv, UNCHANGED <<pending, age, accepted, handed>>,
         \A t \in Threads : thread'[t].due = thread[t].due
  PROVE  /\ Once' /\ Apart' /\ Said' /\ WindowFixed'
         /\ \A i \in Instances, m \in Messages : \A t \in Threads :
              Holds(t, i, m) => Holds(t, i, m)'
<1>1. Once' /\ Apart' /\ Said' /\ \A t \in Threads : \A i, m : Holds(t, i, m)' <=> Holds(t, i, m)
  BY SameContents
<1>2. WindowFixed'
  BY WindowsKept
<1> QED BY <1>1, <1>2

LEMMA RouterInit == ASSUME RouterAssumption, Init PROVE IInv
<1>1. /\ \A k \in Keys : pending[k].messages = {} /\ pending[k] \in Aggregates
      /\ \A t \in Threads : thread[t].due = {}
  BY DEF Init, NoAggregate, Aggregates, RouterAssumption
<1>2. TypeOK
  <2>1. thread \in [Threads -> [at : Places, due : SUBSET Batches]]
    BY DEF Init, Places
  <2>2. pending \in [Keys -> Aggregates]
    BY <1>1 DEF Init
  <2>3. PICK n \in 0 .. MaxMessages : n = 0
    BY DEF RouterAssumption
  <2>4. age \in [1 .. n -> 0 .. Window]
    BY <2>3 DEF Init
  <2>5. \E k \in 0 .. MaxMessages : age \in [1 .. k -> 0 .. Window]
    BY <2>4
  <2>6. ticker \in 0 .. Interval
    BY DEF Init, RouterAssumption
  <2>7. {} \in SUBSET Messages
    OBVIOUS
  <2> QED BY <2>1, <2>2, <2>5, <2>6, <2>7 DEF Init, TypeOK
<1>3. \A i \in Instances : \A m : ~ Waits(i, m)
  <2>1. \A i \in Instances, topic \in Topics : pending[<<i, topic>>].messages = {}
    BY <1>1 DEF Keys
  <2> QED BY <2>1 DEF Waits
<1>12. \A t \in Threads : \A i, m : ~ Holds(t, i, m)
  BY <1>1 DEF Holds
<1>4. Once
  BY <1>3, <1>12 DEF Init, Once
<1>5. Apart
  BY <1>1 DEF Apart, Keys
<1>6. Said
  BY DEF Init, Said
<1>7. \A t \in Threads : thread[t].at = IF t \in Flushers THEN "gone" ELSE "idle"
  BY DEF Init
<1>8. Stopper \in Threads /\ Stopper \notin Flushers /\ Flushers \subseteq Threads
  BY DEF Threads, RouterAssumption
<1>9. Hands /\ NoOrphanFlusher
  BY <1>1, <1>7, <1>8 DEF Hands, NoOrphanFlusher
<1>10. Stopping
  BY <1>7, <1>8 DEF Stopping, StopHandsOver
<1>11. WindowFixed
  BY <1>1 DEF WindowFixed, Open
<1> QED BY <1>2, <1>4, <1>5, <1>6, <1>9, <1>10, <1>11 DEF IInv

-----------------------------------------------------------------------------
(* The steps.                                                                *)

(* Notify by a caller.                                                       *)
LEMMA NotifyInv ==
  ASSUME IInv, RouterAssumption, NEW c \in Callers,
         \/ \E topic \in Topics : NotifyBuffered(c, topic)
         \/ \E topic \in Urgent : NotifyCritical(c, topic)
  PROVE  IInv'
<1>0. /\ TypeOK /\ c \in Threads /\ c \notin Flushers /\ c # Stopper
      /\ Stopper \in Threads /\ Flushers \subseteq Threads
  BY DEF IInv, Threads, RouterAssumption
<1>1. ASSUME NEW topic \in Topics, NotifyBuffered(c, topic) PROVE IInv'
  <2>1. /\ \E n \in 0 .. MaxMessages : age' \in [1 .. n -> 0 .. Window]
        /\ accepted' \in [Instances -> SUBSET Messages] /\ Said'
    BY <1>1, SayTyped DEF NotifyBuffered
  <2>2. thread' = [thread EXCEPT ![c].at = "sweep"] /\ thread[c].due = {}
    BY <1>0, <1>1 DEF NotifyBuffered, Idle, IInv, Hands
  <2>3. /\ thread' \in [Threads -> [at : Places, due : SUBSET Batches]] /\ Hands'
        /\ \A u \in Threads : u # c => thread'[u] = thread[u]
    BY <1>0, <2>2, MovesOn DEF Places
  <2>4. pending' \in [Keys -> Aggregates]
    <3>1. NextMessage \in Messages /\ Window \in 0 .. Window
      BY <1>1 DEF NotifyBuffered, Say, RouterAssumption
    <3>2. ASSUME NEW a \in Aggregates PROVE WithMessage(a, NextMessage) \in Aggregates
      BY <3>1 DEF WithMessage, Aggregates
    <3>3. \A k \in Keys : pending[k] \in Aggregates
      BY <1>0 DEF TypeOK
    <3> QED BY <1>1, <3>2, <3>3 DEF NotifyBuffered
  <2>5. TypeOK'
    BY <1>0, <1>1, <2>1, <2>3, <2>4 DEF TypeOK, NotifyBuffered
  <2>6. Once' /\ Apart' /\ \A t \in Threads : \A i, m : Holds(t, i, m)' <=> Holds(t, i, m)
    BY <1>1, BufferedOnce
  <2>7. WindowFixed'
    BY <1>1, WindowsBuffered
  <2>8. NoOrphanFlusher'
    BY <1>0, <1>1, <2>3, NoNewFlusher DEF NotifyBuffered
  <2>9. Stopping'
    BY <1>0, <1>1, <2>3, <2>6, StopKept DEF NotifyBuffered
  <2> QED BY <2>1, <2>3, <2>5, <2>6, <2>7, <2>8, <2>9 DEF IInv
<1>2. ASSUME NEW topic \in Urgent, NotifyCritical(c, topic) PROVE IInv'
  <2>1. /\ \E n \in 0 .. MaxMessages : age' \in [1 .. n -> 0 .. Window]
        /\ accepted' \in [Instances -> SUBSET Messages] /\ Said'
        /\ \A m \in DOMAIN age : age'[m] = age[m]
    BY <1>2, SayTyped DEF NotifyCritical
  <2>2. PICK due : /\ due = {[instance |-> i, messages |-> {NextMessage}] : i \in Subscribed(topic)}
                   /\ thread' = [thread EXCEPT ![c] = [at |-> "send", due |-> due]]
    BY <1>2 DEF NotifyCritical
  <2>3. due \in SUBSET Batches
    <3>1. NextMessage \in Messages
      BY <1>2 DEF NotifyCritical, Say
    <3>2. \A i \in Subscribed(topic) : i \in Instances
      BY DEF Subscribed
    <3>3. \A i \in Instances : [instance |-> i, messages |-> {NextMessage}] \in Batches
      BY <3>1 DEF Batches
    <3> QED BY <2>2, <3>2, <3>3
  <2>4. /\ thread' \in [Threads -> [at : Places, due : SUBSET Batches]] /\ Hands'
        /\ \A u \in Threads : u # c => thread'[u] = thread[u]
    BY <1>0, <2>2, <2>3, Takes
  <2>5. TypeOK'
    BY <1>0, <1>2, <2>1, <2>4 DEF TypeOK, NotifyCritical
  <2>6. Once' /\ Apart' /\ \A t \in Threads \ {c} : \A i, m : Holds(t, i, m)' <=> Holds(t, i, m)
    BY <1>2, CriticalOnce
  <2>7. WindowFixed'
    BY <1>2, <2>1, WindowsKept DEF NotifyCritical
  <2>8. NoOrphanFlusher'
    BY <1>0, <1>2, <2>4, NoNewFlusher DEF NotifyCritical
  <2>9. \A i, m : ~ Holds(c, i, m)
    BY <1>0, <1>2 DEF NotifyCritical, Idle, IInv, Hands, Holds
  <2>10. Stopping'
    BY <1>0, <1>2, <2>4, <2>6, <2>9, StopKept DEF NotifyCritical
  <2> QED BY <2>1, <2>4, <2>5, <2>6, <2>7, <2>8, <2>10 DEF IInv
<1> QED BY <1>1, <1>2

(* Taking out: a sweep of a caller or a flusher, and Stop's Flush.           *)
LEMMA TakenOutKept ==
  ASSUME IInv, RouterAssumption, NEW t \in Threads, NEW keys \in SUBSET Keys,
         thread[t].due = {}, TakeOut(t, keys, "send"),
         UNCHANGED <<started, current, cancelled, ticker, age, accepted, handed>>,
         before' \in [Instances -> SUBSET Messages],
         t \in Flushers => thread[t].at # "gone"
  PROVE  /\ TypeOK' /\ Once' /\ Apart' /\ Said' /\ Hands' /\ WindowFixed' /\ NoOrphanFlusher'
         /\ thread'[t].at = "send" /\ \A u \in Threads : u # t => thread'[u] = thread[u]
         /\ \A u \in Threads : \A i, m : Holds(u, i, m) => Holds(u, i, m)'
         /\ \A i \in Instances : \A m : Waits(i, m) => Waits(i, m)' \/ Holds(t, i, m)'
<1>1. PICK due : /\ due = {[instance |-> k[1], messages |-> pending[k].messages] : k \in keys}
                 /\ thread' = [thread EXCEPT ![t] = [at |-> "send", due |-> due]]
  BY DEF TakeOut
<1>2. due \in SUBSET Batches
  <2>1. \A k \in keys : k[1] \in Instances /\ pending[k].messages \in SUBSET Messages
    BY DEF IInv, TypeOK, Keys, Aggregates
  <2>2. \A k \in keys : [instance |-> k[1], messages |-> pending[k].messages] \in Batches
    BY <2>1 DEF Batches
  <2> QED BY <1>1, <2>2
<1>3. /\ thread' \in [Threads -> [at : Places, due : SUBSET Batches]] /\ Hands'
      /\ thread'[t].at = "send" /\ \A u \in Threads : u # t => thread'[u] = thread[u]
  BY <1>1, <1>2, Takes
<1>4. NoAggregate \in Aggregates
  BY DEF NoAggregate, Aggregates, RouterAssumption
<1>5. pending' \in [Keys -> Aggregates]
  BY <1>4 DEF TakeOut, IInv, TypeOK
<1>6. TypeOK'
  BY <1>3, <1>5 DEF IInv, TypeOK
<1>7. /\ Once' /\ Apart'
      /\ \A u \in Threads : \A i, m : Holds(u, i, m) => Holds(u, i, m)'
      /\ \A i \in Instances : \A m : Waits(i, m) => Waits(i, m)' \/ Holds(t, i, m)'
  BY TakenOutOnce
<1>8. Said'
  BY DEF Said, IInv
<1>9. WindowFixed'
  BY WindowsKept DEF TakeOut
<1>10. NoOrphanFlusher'
  BY <1>3, NoNewFlusher DEF Threads
<1> QED BY <1>3, <1>6, <1>7, <1>8, <1>9, <1>10

(* Sweep, Send, Hang and AllSent of any goroutine.                           *)
LEMMA SenderInv ==
  ASSUME IInv, RouterAssumption, NEW t \in Threads,
         Sweep(t) \/ Send(t) \/ Hang(t) \/ AllSent(t)
  PROVE  IInv'
<1>0. /\ TypeOK /\ Stopper \in Threads /\ Flushers \subseteq Threads /\ Stopper \notin Flushers
      /\ Hands
  BY DEF IInv, Threads, RouterAssumption
<1>1. CASE Sweep(t)
  <2>1. /\ thread[t].at = "sweep" /\ thread[t].due = {} /\ t # Stopper
        /\ {k \in Keys : Due(k)} \in SUBSET Keys
        /\ TakeOut(t, {k \in Keys : Due(k)}, "send")
        /\ UNCHANGED <<started, current, cancelled, ticker, age, accepted, handed>>
        /\ before' = before /\ before \in [Instances -> SUBSET Messages]
    BY <1>0, <1>1 DEF Sweep, Hands, TypeOK
  <2>2. /\ TypeOK' /\ Once' /\ Apart' /\ Said' /\ Hands' /\ WindowFixed' /\ NoOrphanFlusher'
        /\ \A u \in Threads : u # t => thread'[u] = thread[u]
        /\ \A u \in Threads : \A i, m : Holds(u, i, m) => Holds(u, i, m)'
    BY <2>1, TakenOutKept
  <2>3. Stopping'
    BY <1>0, <2>1, <2>2, StopKept
  <2> QED BY <2>2, <2>3 DEF IInv
<1>2. CASE Send(t)
  <2>1. PICK b \in thread[t].due :
          /\ handed' = [handed EXCEPT ![b.instance] = @ \cup b.messages]
          /\ thread' = [thread EXCEPT ![t].due = @ \ {b}]
    BY <1>2 DEF Send
  <2>2. b.instance \in Instances /\ b.messages \subseteq Messages
    BY <1>0 DEF TypeOK, Batches
  <2>3. /\ handed' \in [Instances -> SUBSET Messages]
        /\ \A i \in Instances : handed[i] \subseteq handed'[i]
    BY <1>0, <2>1, <2>2 DEF TypeOK
  <2>4. /\ thread' \in [Threads -> [at : Places, due : SUBSET Batches]]
        /\ \A u \in Threads : thread'[u].at = thread[u].at /\ thread'[u].due \subseteq thread[u].due
    BY <1>0, <2>1 DEF TypeOK
  <2>5. Hands'
    BY <1>0, <2>4 DEF Hands
  <2>6. TypeOK'
    BY <1>0, <1>2, <2>3, <2>4 DEF TypeOK, Send
  <2>7. /\ Once' /\ Apart'
        /\ \A i \in Instances, m \in Messages : \A u \in Threads :
             Holds(u, i, m) => Holds(u, i, m)' \/ (u = t /\ m \in handed'[i])
    BY <1>2, SentOnce
  <2>8. Said' /\ WindowFixed' /\ NoOrphanFlusher'
    BY <1>0, <1>2, <2>4, WindowsKept, NoNewFlusher DEF Send, Said, IInv
  <2>9. Stopping'
    BY <1>0, <1>2, <2>3, <2>4, <2>7, StopKept DEF Send
  <2> QED BY <2>5, <2>6, <2>7, <2>8, <2>9 DEF IInv
<1>3. CASE AllSent(t)
  <2>1. /\ thread' = [thread EXCEPT ![t].at = Done(t)] /\ thread[t].due = {}
        /\ thread[t].at = "send" /\ Done(t) \in Places /\ Done(t) # "sweep"
        /\ UNCHANGED <<pending, started, current, cancelled, ticker, age, accepted, handed, before>>
    BY <1>3 DEF AllSent, Done, Places
  <2>2. /\ thread' \in [Threads -> [at : Places, due : SUBSET Batches]]
        /\ \A u \in Threads : thread'[u].due = thread[u].due
        /\ thread'[t].at = Done(t)
        /\ \A u \in Threads : u # t => thread'[u] = thread[u]
        /\ Hands'
    BY <2>1, MovesOn
  <2>3. TypeOK'
    BY <1>0, <2>1, <2>2 DEF TypeOK
  <2>4. /\ Once' /\ Apart' /\ Said' /\ WindowFixed'
        /\ \A i \in Instances, m \in Messages : \A u \in Threads :
             Holds(u, i, m) => Holds(u, i, m)'
    BY <2>1, <2>2, NothingMoves
  <2>5. NoOrphanFlusher'
    BY <1>0, <2>1, <2>2, NoNewFlusher
  <2>6. \/ thread'[Stopper].at = thread[Stopper].at
        \/ thread[Stopper].at = "send" /\ thread'[Stopper].at = "stop"
    BY <1>0, <2>1, <2>2 DEF Done
  <2>7. Stopping'
    BY <2>1, <2>4, <2>6, StopKept
  <2> QED BY <2>2, <2>3, <2>4, <2>5, <2>7 DEF IInv
<1>4. CASE Hang(t)
  <2>1. /\ thread' = [thread EXCEPT ![t].at = "stuck"] /\ "stuck" \in Places
        /\ UNCHANGED <<pending, started, current, cancelled, ticker, age, accepted, handed, before>>
        /\ thread[t].at = "send"
    BY <1>4 DEF Hang, Places
  <2>2. /\ thread' \in [Threads -> [at : Places, due : SUBSET Batches]]
        /\ \A u \in Threads : thread'[u].due = thread[u].due
        /\ thread'[t].at = "stuck"
        /\ \A u \in Threads : u # t => thread'[u] = thread[u]
        /\ Hands'
    BY <2>1, MovesOn
  <2>3. TypeOK'
    BY <1>0, <2>1, <2>2 DEF TypeOK
  <2>4. /\ Once' /\ Apart' /\ Said' /\ WindowFixed'
        /\ \A i \in Instances, m \in Messages : \A u \in Threads :
             Holds(u, i, m) => Holds(u, i, m)'
    BY <2>1, <2>2, NothingMoves
  <2>5. NoOrphanFlusher'
    BY <1>0, <2>1, <2>2, NoNewFlusher
  <2>6. \/ thread'[Stopper].at = thread[Stopper].at
        \/ thread'[Stopper].at = "stuck"
    BY <1>0, <2>2
  <2>7. Stopping'
    BY <2>1, <2>4, <2>6, StopKept
  <2> QED BY <2>2, <2>3, <2>4, <2>5, <2>7 DEF IInv
<1> QED BY <1>1, <1>2, <1>3, <1>4

(* The flusher's ticks and end, and the steps of Start and Stop but two.     *)
LEMMA PlacesInv ==
  ASSUME IInv, RouterAssumption,
         \/ \E f \in Flushers : FlusherTicks(f) \/ FlusherExits(f)
         \/ Start \/ CancelEngine \/ StopCancels \/ StopReturned
  PROVE  IInv'
<1>0. /\ TypeOK /\ Stopper \in Threads /\ Flushers \subseteq Threads /\ Stopper \notin Flushers
      /\ Hands /\ NoOrphanFlusher
  BY DEF IInv, Threads, RouterAssumption
<1>m. ASSUME NEW t \in Threads, NEW place \in Places,
             thread' = [thread EXCEPT ![t].at = place],
             thread[t].at \notin {"send", "stuck"}, t = Stopper => place # "sweep",
             UNCHANGED <<pending, age, accepted, handed>>
      PROVE  /\ thread' \in [Threads -> [at : Places, due : SUBSET Batches]] /\ Hands'
             /\ thread'[t].at = place /\ \A u \in Threads : u # t => thread'[u] = thread[u]
             /\ Once' /\ Apart' /\ Said' /\ WindowFixed'
             /\ \A i \in Instances, m \in Messages : \A u \in Threads :
                  Holds(u, i, m) => Holds(u, i, m)'
  <2>1. thread[t].due = {}
    BY <1>0, <1>m DEF Hands
  <2>2. /\ thread' \in [Threads -> [at : Places, due : SUBSET Batches]] /\ Hands'
        /\ \A u \in Threads : thread'[u].due = thread[u].due
        /\ thread'[t].at = place /\ \A u \in Threads : u # t => thread'[u] = thread[u]
    BY <1>m, <2>1, MovesOn
  <2> QED BY <1>m, <2>2, NothingMoves
<1>1. ASSUME NEW f \in Flushers, FlusherTicks(f) \/ FlusherExits(f) PROVE IInv'
  <2>1. PICK place \in {"sweep", "gone"} : thread' = [thread EXCEPT ![f].at = place]
    BY <1>1 DEF FlusherTicks, FlusherExits
  <2>2. /\ thread[f].at = "idle"
        /\ UNCHANGED <<pending, started, current, cancelled, age, accepted, handed, before>>
        /\ ticker' \in 0 .. Interval
    BY <1>0, <1>1 DEF FlusherTicks, FlusherExits, Idle, TypeOK, RouterAssumption
  <2>3. /\ thread' \in [Threads -> [at : Places, due : SUBSET Batches]] /\ Hands'
        /\ thread'[f].at = place /\ \A u \in Threads : u # f => thread'[u] = thread[u]
        /\ Once' /\ Apart' /\ Said' /\ WindowFixed'
        /\ \A i \in Instances, m \in Messages : \A u \in Threads :
             Holds(u, i, m) => Holds(u, i, m)'
    BY <1>0, <1>m, <2>1, <2>2 DEF Places
  <2>4. TypeOK'
    BY <1>0, <2>2, <2>3 DEF TypeOK
  <2>5. NoOrphanFlusher'
    BY <1>0, <2>2, <2>3, NoNewFlusher
  <2>6. Stopping'
    BY <1>0, <2>2, <2>3, StopKept
  <2> QED BY <2>3, <2>4, <2>5, <2>6 DEF IInv
<1>2. CASE Start
  <2>1. PICK f \in Flushers : /\ thread[f].at = "gone" /\ current' = f
                              /\ thread' = [thread EXCEPT ![f].at = "idle"]
    BY <1>2 DEF Start
  <2>2. /\ ~ started /\ started' = TRUE /\ cancelled' = FALSE /\ ticker' \in 0 .. Interval
        /\ UNCHANGED <<pending, age, accepted, handed, before>>
    BY <1>2 DEF Start, RouterAssumption
  <2>3. /\ thread' \in [Threads -> [at : Places, due : SUBSET Batches]] /\ Hands'
        /\ thread'[f].at = "idle" /\ \A u \in Threads : u # f => thread'[u] = thread[u]
        /\ Once' /\ Apart' /\ Said' /\ WindowFixed'
        /\ \A i \in Instances, m \in Messages : \A u \in Threads :
             Holds(u, i, m) => Holds(u, i, m)'
    BY <1>0, <1>m, <2>1, <2>2 DEF Places
  <2>4. TypeOK'
    BY <1>0, <2>1, <2>2, <2>3 DEF TypeOK
  <2>5. NoOrphanFlusher'
    BY <1>0, <2>1, <2>2, <2>3 DEF NoOrphanFlusher
  <2>6. Stopping'
    BY <1>0, <2>2, <2>3, StopKept
  <2> QED BY <2>3, <2>4, <2>5, <2>6 DEF IInv
<1>3. CASE CancelEngine \/ StopCancels \/ StopReturned
  <2>1. PICK place \in {"flush", "wait", "idle"} : thread' = [thread EXCEPT ![Stopper].at = place]
    BY <1>3 DEF CancelEngine, StopCancels, StopReturned
  <2>2. /\ thread[Stopper].at \in {"idle", "stop", "stopped"}
        /\ place = "wait" => thread[Stopper].at = "stop" /\ before' = before
        /\ place = "flush" => before' = before
        /\ UNCHANGED <<pending, started, current, ticker, age, accepted, handed>>
        /\ cancelled' \in BOOLEAN /\ before' \in [Instances -> SUBSET Messages]
    <3>1. CASE CancelEngine
      <4>1. place = "flush"
        BY <1>0, <2>1, <3>1 DEF CancelEngine, TypeOK
      <4> QED BY <1>0, <3>1, <4>1 DEF CancelEngine, Idle, TypeOK
    <3>2. CASE StopCancels
      <4>1. place = "wait"
        BY <1>0, <2>1, <3>2 DEF StopCancels, TypeOK
      <4> QED BY <1>0, <3>2, <4>1 DEF StopCancels, TypeOK
    <3>3. CASE StopReturned
      <4>1. place = "idle"
        BY <1>0, <2>1, <3>3 DEF StopReturned, TypeOK
      <4> QED BY <1>0, <3>3, <4>1 DEF StopReturned, TypeOK
    <3> QED BY <1>3, <3>1, <3>2, <3>3
  <2>3. /\ thread' \in [Threads -> [at : Places, due : SUBSET Batches]] /\ Hands'
        /\ thread'[Stopper].at = place
        /\ \A u \in Threads : u # Stopper => thread'[u] = thread[u]
        /\ Once' /\ Apart' /\ Said' /\ WindowFixed'
        /\ \A i \in Instances, m \in Messages : \A u \in Threads :
             Holds(u, i, m) => Holds(u, i, m)'
    BY <1>0, <1>m, <2>1, <2>2 DEF Places
  <2>4. TypeOK'
    BY <1>0, <2>2, <2>3 DEF TypeOK
  <2>5. NoOrphanFlusher'
    BY <1>0, <2>2, <2>3, NoNewFlusher
  <2>6. CASE place = "idle"
    BY <2>3, <2>4, <2>5, <2>6 DEF IInv, Stopping, StopHandsOver
  <2>7. CASE place # "idle"
    <3>1. Stopping'
      BY <2>1, <2>2, <2>3, <2>7, StopKept
    <3> QED BY <2>3, <2>4, <2>5, <3>1 DEF IInv
  <2> QED BY <2>6, <2>7
<1> QED BY <1>1, <1>2, <1>3

(* Stop's Flush takes out everything and notes what it is to hand over.      *)
LEMMA FlushInv == ASSUME IInv, RouterAssumption, Flush PROVE IInv'
<1>0. /\ TypeOK /\ Stopper \in Threads /\ Flushers \subseteq Threads /\ Stopper \notin Flushers
      /\ Hands
  BY DEF IInv, Threads, RouterAssumption
<1>1. /\ thread[Stopper].at = "flush" /\ thread[Stopper].due = {}
      /\ {k \in Keys : Open(k)} \in SUBSET Keys
      /\ TakeOut(Stopper, {k \in Keys : Open(k)}, "send")
      /\ UNCHANGED <<started, current, cancelled, ticker, age, accepted, handed>>
      /\ before' = [i \in Instances |-> WaitingOf(i) \cup UNION {HeldBy(f, i) : f \in Flushers}]
  BY <1>0 DEF Flush, Hands
<1>2. ASSUME NEW i \in Instances, NEW m \in before'[i]
      PROVE  m \in Messages /\ (Waits(i, m) \/ \E f \in Flushers : Holds(f, i, m))
  <2>1. CASE m \in WaitingOf(i)
    <3>1. PICK k \in {i} \X Topics : m \in pending[k].messages
      BY <2>1 DEF WaitingOf
    <3>2. k \in Keys
      BY DEF Keys
    <3>3. Waits(i, m)
      BY <3>1 DEF Waits
    <3>4. m \in Messages
      BY <1>0, <3>1, <3>2 DEF TypeOK, Aggregates
    <3> QED BY <3>3, <3>4
  <2>2. CASE m \notin WaitingOf(i)
    <3>1. PICK f \in Flushers : m \in HeldBy(f, i)
      BY <1>1, <1>2, <2>2
    <3>2. PICK b \in thread[f].due : b.instance = i /\ m \in b.messages
      BY <3>1 DEF HeldBy
    <3>3. b \in Batches
      BY <1>0 DEF TypeOK
    <3>4. m \in Messages
      BY <3>2, <3>3 DEF Batches
    <3> QED BY <3>2, <3>4 DEF Holds
  <2> QED BY <2>1, <2>2
<1>3. before' \in [Instances -> SUBSET Messages]
  BY <1>1, <1>2
<1>4. /\ TypeOK' /\ Once' /\ Apart' /\ Said' /\ Hands' /\ WindowFixed' /\ NoOrphanFlusher'
      /\ thread'[Stopper].at = "send"
      /\ \A u \in Threads : \A i, m : Holds(u, i, m) => Holds(u, i, m)'
      /\ \A i \in Instances : \A m : Waits(i, m) => Waits(i, m)' \/ Holds(Stopper, i, m)'
  BY <1>0, <1>1, <1>3, TakenOutKept
<1>5. \A i \in Instances : \A m : ~ Waits(i, m)'
  <2>1. \A i \in Instances, p \in Topics : pending'[<<i, p>>].messages = {}
    BY <1>1 DEF TakeOut, Open, NoAggregate, Keys
  <2> QED BY <2>1 DEF Waits
<1>6. Stopping'
  <2>1. \A i \in Instances : \A m \in before'[i] :
          \E t \in Flushers \cup {Stopper} : Holds(t, i, m)'
    BY <1>0, <1>2, <1>4, <1>5
  <2> QED BY <1>4, <2>1 DEF Stopping, StopHandsOver
<1> QED BY <1>4, <1>6 DEF IInv

(* Stop returns when its flusher is gone, and no other is alive.             *)
LEMMA StopWaitsInv == ASSUME IInv, RouterAssumption, StopWaits PROVE IInv'
<1>0. /\ TypeOK /\ Stopper \in Threads /\ Flushers \subseteq Threads /\ Stopper \notin Flushers
      /\ Hands /\ NoOrphanFlusher /\ Stopping
  BY DEF IInv, Threads, RouterAssumption
<1>1. /\ thread[Stopper].at = "wait" /\ thread[Stopper].due = {} /\ thread[current].at = "gone"
      /\ thread' = [thread EXCEPT ![Stopper].at = "stopped"]
      /\ started' = FALSE /\ current' = NoFlusher
      /\ UNCHANGED <<pending, cancelled, ticker, age, accepted, handed, before>>
  BY <1>0 DEF StopWaits, Hands
<1>2. \A f \in Flushers : thread[f].at = "gone" /\ thread[f].due = {}
  BY <1>0, <1>1 DEF NoOrphanFlusher, Hands
<1>3. /\ thread' \in [Threads -> [at : Places, due : SUBSET Batches]] /\ Hands'
      /\ \A u \in Threads : thread'[u].due = thread[u].due
      /\ thread'[Stopper].at = "stopped"
      /\ \A u \in Threads : u # Stopper => thread'[u] = thread[u]
  BY <1>0, <1>1, MovesOn DEF Places
<1>4. Once' /\ Apart' /\ Said' /\ WindowFixed'
  BY <1>1, <1>3, NothingMoves
<1>5. TypeOK'
  BY <1>0, <1>1, <1>3 DEF TypeOK
<1>6. NoOrphanFlusher'
  BY <1>0, <1>2, <1>3 DEF NoOrphanFlusher
<1>7. \A t \in Flushers \cup {Stopper} : \A i, m : ~ Holds(t, i, m)
  BY <1>1, <1>2 DEF Holds
<1>8. \A i \in Instances : before[i] \subseteq handed[i]
  BY <1>0, <1>1, <1>7 DEF Stopping
<1>9. Stopping'
  BY <1>1, <1>3, <1>8 DEF Stopping, StopHandsOver
<1> QED BY <1>3, <1>4, <1>5, <1>6, <1>9 DEF IInv

LEMMA TickInv == ASSUME IInv, RouterAssumption, Tick PROVE IInv'
<1>0. TypeOK
  BY DEF IInv
<1>1. UNCHANGED <<thread, started, current, cancelled, accepted, handed, before>>
  BY DEF Tick
<1>2. \A n \in 0 .. Window : Less(n) \in 0 .. Window
  BY DEF Less, RouterAssumption
<1>3. pending' \in [Keys -> Aggregates]
  <2>1. \A a \in Aggregates : [a EXCEPT !.left = Less(@)] \in Aggregates
    BY <1>2 DEF Aggregates
  <2>2. NoAggregate \in Aggregates
    BY DEF NoAggregate, Aggregates, RouterAssumption
  <2> QED BY <1>0, <2>1, <2>2 DEF Tick, TypeOK
<1>4. \E n \in 0 .. MaxMessages : age' \in [1 .. n -> 0 .. Window]
  <2>1. PICK n \in 0 .. MaxMessages : age \in [1 .. n -> 0 .. Window]
    BY <1>0 DEF TypeOK
  <2>2. \A w \in 0 .. Window : (IF w = Window THEN Window ELSE w + 1) \in 0 .. Window
    BY DEF RouterAssumption
  <2>3. age' \in [1 .. n -> 0 .. Window]
    BY <2>1, <2>2 DEF Tick
  <2> QED BY <2>3
<1>5. ticker' \in 0 .. Interval
  BY <1>0 DEF Tick, Less, TypeOK, RouterAssumption
<1>6. TypeOK'
  BY <1>0, <1>1, <1>3, <1>4, <1>5 DEF TypeOK
<1>7. \A k \in Keys : pending'[k].messages = pending[k].messages
  <2> SUFFICES ASSUME NEW k \in Keys PROVE pending'[k].messages = pending[k].messages
    OBVIOUS
  <2>1. pending[k] \in Aggregates
    BY <1>0 DEF TypeOK
  <2>2. CASE Open(k)
    BY <2>1, <2>2 DEF Tick, Aggregates
  <2>3. CASE ~ Open(k)
    BY <2>3 DEF Tick, Open, NoAggregate
  <2> QED BY <2>2, <2>3
<1>8. DOMAIN age' = DOMAIN age
  BY DEF Tick
<1>9. /\ Once' /\ Apart' /\ Said'
      /\ \A t \in Threads : \A i, m : Holds(t, i, m)' <=> Holds(t, i, m)
  BY <1>1, <1>7, <1>8, SameContents
<1>10. WindowFixed'
  BY WindowsTick
<1>11. Hands' /\ NoOrphanFlusher'
  BY <1>1 DEF Hands, NoOrphanFlusher, IInv
<1>12. Stopping'
  BY <1>1, <1>9, StopKept
<1> QED BY <1>6, <1>9, <1>10, <1>11, <1>12 DEF IInv

LEMMA RouterNext == ASSUME IInv, RouterAssumption, [Next]_vars PROVE IInv'
<1>1. CASE UNCHANGED vars
  <2>1. /\ UNCHANGED <<pending, age, accepted, handed, before, thread, started, current,
                        cancelled, ticker>>
    BY <1>1 DEF vars
  <2>2. Once' /\ Apart' /\ Said' /\ WindowFixed'
    BY <2>1, NothingMoves
  <2> QED BY <2>1, <2>2
          DEF IInv, TypeOK, Hands, NoOrphanFlusher, Stopping, StopHandsOver, Holds
<1>2. ASSUME NEW c \in Callers, NEW topic \in Topics, NotifyBuffered(c, topic) PROVE IInv'
  BY <1>2, NotifyInv
<1>3. ASSUME NEW c \in Callers, NEW topic \in Urgent, NotifyCritical(c, topic) PROVE IInv'
  BY <1>3, NotifyInv
<1>4. ASSUME NEW t \in Threads, Sweep(t) \/ Send(t) \/ Hang(t) \/ AllSent(t) PROVE IInv'
  BY <1>4, SenderInv
<1>5. ASSUME NEW f \in Flushers, FlusherTicks(f) \/ FlusherExits(f) PROVE IInv'
  BY <1>5, PlacesInv
<1>6. CASE Start \/ CancelEngine \/ StopCancels \/ StopReturned
  BY <1>6, PlacesInv
<1>7. CASE Flush \/ StopWaits \/ Tick
  BY <1>7, FlushInv, StopWaitsInv, TickInv
<1> QED BY <1>1, <1>2, <1>3, <1>4, <1>5, <1>6, <1>7 DEF Next

LEMMA RouterCorrect == RouterAssumption /\ Spec => [](TypeOK /\ RouterConserves)
<1>1. RouterAssumption /\ Init => IInv
  BY RouterInit
<1>2. RouterAssumption /\ IInv /\ [Next]_vars => IInv'
  BY RouterNext
<1>3. IInv => TypeOK /\ RouterConserves
  BY OnceConserves DEF IInv, RouterConserves, Stopping
<1>4. ASSUME RouterAssumption PROVE Spec => [](TypeOK /\ RouterConserves)
  <2>1. Init => IInv
    BY <1>1, <1>4
  <2>2. IInv /\ [Next]_vars => IInv'
    BY <1>2, <1>4
  <2> QED BY <1>3, <2>1, <2>2, PTL DEF Spec
<1> QED BY <1>4
-----------------------------------------------------------------------------

LEMMA RouterPart == [PartsNext]_allVars => [Next]_vars
  BY DEF PartsNext, allVars

(* No message is lost in the router, handed over twice or held back by later *)
(* ones; no flusher is left alone; and when Stop returns, what its Flush     *)
(* found is handed over (router.go, Engine.Stop).                            *)
THEOREM MessagesConserved == PartsSpec => [](TypeOK /\ RouterConserves)
<1>1. PartsInit => Init
  BY DEF PartsInit
<1>2. Spec => [](TypeOK /\ RouterConserves)
  BY RouterCorrect, RouterParameters
<1>. QED  BY <1>1, <1>2, RouterPart, PTL DEF PartsSpec, Spec

-----------------------------------------------------------------------------
(* The breaker.                                                              *)

Calls == [running : BOOLEAN, from : {"closed", "half_open"}, at : Nat]

(* The three invariants hold together: which results may close or re-open    *)
(* the breaker depends on who holds the probe.                               *)
Guarded == Circuit!TypeOK /\ Circuit!SingleProbe /\ Circuit!ClosedBelowThreshold

LEMMA BreakerInit == Circuit!Init => Guarded
<1>. SUFFICES ASSUME Circuit!Init PROVE Guarded
  OBVIOUS
<1>1. Circuit!TypeOK
  BY DEF Circuit!Init, Circuit!TypeOK, Circuit!States, Circuit!NoCall
<1>2. Circuit!SingleProbe
  BY DEF Circuit!Init, Circuit!SingleProbe, Circuit!IsProbe, Circuit!NoCall
<1>3. Circuit!ClosedBelowThreshold
  BY CircuitParameters DEF Circuit!BreakerAssumption, Circuit!Init,
     Circuit!ClosedBelowThreshold
<1>. QED  BY <1>1, <1>2, <1>3 DEF Guarded

LEMMA BreakerType ==
  ASSUME Circuit!TypeOK, NEW c \in Senders, Circuit!Begin(c) \/ Circuit!Return(c) \/ Circuit!Tick
  PROVE  Circuit!TypeOK'
<1>1. /\ now' \in Nat /\ openedAt' \in Nat /\ failures' \in Nat /\ skips' \in Nat
      /\ probing' \in BOOLEAN /\ state' \in Circuit!States
  <2>1. now' \in {now, now + 1} /\ skips' \in {skips, skips + 1}
    BY DEF Circuit!Begin, Circuit!RunClosed, Circuit!RunProbe, Circuit!Skip,
       Circuit!Return, Circuit!ProbeFails, Circuit!ClosedFails,
       Circuit!ProbeSucceeds, Circuit!ClosedSucceeds, Circuit!StaleResult, Circuit!Tick
  <2>2. openedAt' \in {openedAt, call[c].at} /\ failures' \in {failures, failures + 1, 0}
    BY DEF Circuit!Begin, Circuit!RunClosed, Circuit!RunProbe, Circuit!Skip,
       Circuit!Return, Circuit!ProbeFails, Circuit!ClosedFails,
       Circuit!ProbeSucceeds, Circuit!ClosedSucceeds, Circuit!StaleResult, Circuit!Tick
  <2>3. probing' \in {probing, TRUE, FALSE} /\ state' \in {state, "closed", "open", "half_open"}
    BY DEF Circuit!Begin, Circuit!RunClosed, Circuit!RunProbe, Circuit!Skip,
       Circuit!Return, Circuit!ProbeFails, Circuit!ClosedFails,
       Circuit!ProbeSucceeds, Circuit!ClosedSucceeds, Circuit!StaleResult, Circuit!Tick
  <2>4. call[c].at \in Nat
    BY DEF Circuit!TypeOK
  <2>5. /\ now \in Nat /\ openedAt \in Nat /\ failures \in Nat /\ skips \in Nat
        /\ probing \in BOOLEAN /\ state \in Circuit!States
    BY DEF Circuit!TypeOK
  <2>6. now' \in Nat /\ skips' \in Nat /\ openedAt' \in Nat /\ failures' \in Nat
    BY <2>1, <2>2, <2>4, <2>5
  <2>7. probing' \in BOOLEAN
    BY <2>3, <2>5, Zenon
  <2>8. state' \in Circuit!States
    BY <2>3, <2>5, Zenon DEF Circuit!States
  <2>. QED  BY <2>6, <2>7, <2>8
<1>2. call' = call \/ \E e \in Calls : call' = [call EXCEPT ![c] = e]
  <2>1. Circuit!NoCall \in Calls /\ Circuit!Send("closed") \in Calls /\ Circuit!Send("half_open") \in Calls
    BY DEF Circuit!TypeOK, Calls, Circuit!NoCall, Circuit!Send
  <2>. QED
    BY <2>1 DEF Circuit!Begin, Circuit!RunClosed, Circuit!RunProbe, Circuit!Skip,
       Circuit!Return, Circuit!ProbeFails, Circuit!ClosedFails,
       Circuit!ProbeSucceeds, Circuit!ClosedSucceeds, Circuit!StaleResult, Circuit!Tick
<1>3. call' \in [Senders -> Calls]
  BY <1>2 DEF Circuit!TypeOK, Calls
<1>. QED  BY <1>1, <1>3 DEF Circuit!TypeOK, Calls

LEMMA BreakerStep == Guarded /\ [Circuit!Next]_(Circuit!vars) => Guarded'
<1>. SUFFICES ASSUME Guarded, [Circuit!Next]_(Circuit!vars) PROVE Guarded'
  OBVIOUS
<1>. USE DEF Guarded
<1>0. call \in [Senders -> Calls] /\ failures \in Nat /\ MaxFailures \in Nat \ {0}
  BY CircuitParameters DEF Circuit!BreakerAssumption, Circuit!TypeOK, Calls
<1>t. Circuit!TypeOK'
  <2>1. CASE UNCHANGED Circuit!vars
    BY <2>1 DEF Circuit!TypeOK, Circuit!vars
  <2>2. CASE Circuit!Tick
    BY <2>2 DEF Circuit!Tick, Circuit!TypeOK
  <2>. QED  BY <2>1, <2>2, BreakerType DEF Circuit!Next
<1>1. ASSUME NEW c \in Senders, Circuit!RunClosed(c) PROVE Guarded'
  <2>1. \A d \in Senders : Circuit!IsProbe(d)' <=> Circuit!IsProbe(d)
    BY <1>0, <1>1 DEF Circuit!RunClosed, Circuit!IsProbe, Circuit!Send
  <2>. QED  BY <1>t, <1>1, <2>1 DEF Circuit!RunClosed, Circuit!SingleProbe,
     Circuit!ClosedBelowThreshold
<1>2. ASSUME NEW c \in Senders, Circuit!RunProbe(c) PROVE Guarded'
  <2>1. \A d \in Senders : ~ Circuit!IsProbe(d)
    BY <1>2 DEF Circuit!RunProbe, Circuit!SingleProbe
  <2>2. \A d \in Senders : Circuit!IsProbe(d)' <=> d = c
    BY <1>0, <1>2, <2>1 DEF Circuit!RunProbe, Circuit!IsProbe, Circuit!Send
  <2>. QED  BY <1>t, <1>2, <2>2 DEF Circuit!RunProbe, Circuit!SingleProbe,
     Circuit!ClosedBelowThreshold
<1>3. ASSUME NEW c \in Senders, Circuit!Skip(c) PROVE Guarded'
  BY <1>t, <1>3 DEF Circuit!Skip, Circuit!SingleProbe, Circuit!ClosedBelowThreshold,
     Circuit!IsProbe
<1>4. ASSUME NEW c \in Senders, Circuit!ProbeFails(c) \/ Circuit!ProbeSucceeds(c) PROVE Guarded'
  <2>1. Circuit!IsProbe(c) /\ \A d \in Senders : Circuit!IsProbe(d) => d = c
    BY <1>4 DEF Circuit!ProbeFails, Circuit!ProbeSucceeds, Circuit!SingleProbe,
       Circuit!IsProbe
  <2>2. \A d \in Senders : ~ Circuit!IsProbe(d)'
    BY <1>0, <1>4, <2>1 DEF Circuit!ProbeFails, Circuit!ProbeSucceeds, Circuit!IsProbe,
       Circuit!NoCall
  <2>3. state' \in {"open", "closed"} /\ ~ probing' /\ (state' = "closed" => failures' = 0)
    BY <1>4 DEF Circuit!ProbeFails, Circuit!ProbeSucceeds
  <2>. QED  BY <1>0, <1>t, <2>2, <2>3 DEF Circuit!SingleProbe, Circuit!ClosedBelowThreshold
<1>5. ASSUME NEW c \in Senders, Circuit!ClosedFails(c) \/ Circuit!ClosedSucceeds(c) \/ Circuit!StaleResult(c)
      PROVE  Guarded'
  <2>1. \A d \in Senders : Circuit!IsProbe(d)' <=> Circuit!IsProbe(d)
    BY <1>0, <1>5 DEF Circuit!ClosedFails, Circuit!ClosedSucceeds, Circuit!StaleResult,
       Circuit!IsProbe, Circuit!NoCall
  <2>2. /\ probing' = probing
        /\ state' = "half_open" <=> state = "half_open"
        /\ state' = "closed" => failures' < MaxFailures
    BY <1>0, <1>5 DEF Circuit!ClosedFails, Circuit!ClosedSucceeds, Circuit!StaleResult,
       Circuit!ClosedBelowThreshold
  <2>. QED  BY <1>t, <2>1, <2>2 DEF Circuit!SingleProbe, Circuit!ClosedBelowThreshold
<1>6. CASE Circuit!Tick \/ UNCHANGED Circuit!vars
  BY <1>t, <1>6 DEF Circuit!Tick, Circuit!vars, Circuit!SingleProbe,
     Circuit!ClosedBelowThreshold, Circuit!IsProbe
<1>. QED  BY <1>1, <1>2, <1>3, <1>4, <1>5, <1>6 DEF Circuit!Next, Circuit!Begin,
   Circuit!Return

LEMMA BreakerPart == [PartsNext]_allVars => [Circuit!Next]_(Circuit!vars)
  BY DEF PartsNext, allVars, circuitVars, Circuit!vars

LEMMA GuardedCorrect == PartsSpec => []Guarded
<1>1. PartsInit => Circuit!Init
  BY DEF PartsInit
<1>. QED  BY <1>1, BreakerInit, BreakerStep, BreakerPart, PTL DEF PartsSpec

(* Only an elapsed window ends the open state: a probe's result cannot, as   *)
(* an open breaker has no probe in flight, and a stale result never does.    *)
LEMMA WindowCorrect == PartsSpec => Circuit!WindowPreserved
<1>. DEFINE Preserved == state = "open" /\ state' # "open" => Circuit!Elapsed
<1>1. Guarded /\ [PartsNext]_allVars => [Preserved]_(Circuit!vars)
  <2>. SUFFICES ASSUME Guarded, [Circuit!Next]_(Circuit!vars), state = "open", state' # "open"
                PROVE  Circuit!Elapsed
    BY BreakerPart
  <2>1. PICK c \in Senders : Circuit!Begin(c) \/ Circuit!Return(c)
    BY DEF Circuit!Next, Circuit!Tick, Circuit!vars
  <2>2. ~ Circuit!IsProbe(c)
    BY DEF Guarded, Circuit!SingleProbe
  <2>. QED
    BY <2>1, <2>2 DEF Circuit!Begin, Circuit!Return, Circuit!RunClosed, Circuit!RunProbe,
       Circuit!Skip, Circuit!ProbeFails, Circuit!ClosedFails, Circuit!ProbeSucceeds,
       Circuit!ClosedSucceeds, Circuit!StaleResult, Circuit!IsProbe
<1>. QED  BY <1>1, GuardedCorrect, PTL DEF PartsSpec, Circuit!WindowPreserved

(* A half-open breaker has one probe and no other state has one, a closed    *)
(* one is below its threshold, and an open one waits for its window          *)
(* (breaker.go: Do).                                                         *)
THEOREM BreakerCorrect == PartsSpec => BreakerSound
<1>1. Guarded => Circuit!SingleProbe /\ Circuit!ClosedBelowThreshold
  BY DEF Guarded
<1>. QED  BY <1>1, GuardedCorrect, WindowCorrect, PTL DEF BreakerSound, Circuit!BreakerSound

-----------------------------------------------------------------------------
(* The provider.                                                             *)

Commands == {"idle", "hello", "auth", "from", "rcpt", "quit"}

(* The server has accepted whom the client has named so far, and has taken   *)
(* the mail over for all of them before the client quits.                    *)
Mailing ==
  /\ mail \in [at : Commands, asked : SUBSET Recipients, accepted : SUBSET Recipients]
  /\ mail.asked = mail.accepted
  /\ inbox \in {{}, Recipients}
  /\ mail.at = "quit" \/ (mail.at = "idle" /\ result = "ok") => inbox = Recipients

(* The message of a success within the window is still the one to edit.      *)
Chatting == quiet < EditWindow => ref.known /\ ref.age <= quiet

Provided == Provider!TypeOK /\ Chatting /\ (config.type = "smtp" => Mailing)

LEMMA ProviderInit == Provider!Init => Provided
<1>. SUFFICES ASSUME Provider!Init PROVE Provided
  OBVIOUS
<1>1. EditWindow \in Nat
  BY ProviderParameters DEF Provider!ProviderAssumption
<1>2. Provider!Buildable(config)
  BY DEF Provider!Init
<1>3. Mailing
  BY DEF Provider!Init, Provider!Idle, Mailing, Commands
<1>4. Chatting
  BY <1>1 DEF Provider!Init, Chatting
<1>5. Provider!TypeOK
  <2>1. ref \in [known : BOOLEAN, age : 0 .. EditWindow] /\ quiet \in 0 .. EditWindow
    BY <1>1 DEF Provider!Init
  <2>. QED  BY <1>2, <1>3, <2>1 DEF Provider!Init, Provider!TypeOK, Mailing
<1>. QED  BY <1>3, <1>4, <1>5 DEF Provided

LEMMA ProviderStep == Provided /\ [Provider!Next]_(Provider!vars) => Provided'
<1>. SUFFICES ASSUME Provided, [Provider!Next]_(Provider!vars) PROVE Provided'
  OBVIOUS
<1>0. EditWindow \in Nat
  BY ProviderParameters DEF Provider!ProviderAssumption
<1>. USE <1>0 DEF Provided
<1>1. ASSUME NEW text \in Texts, Provider!SendTelegram(text) PROVE Provided'
  <2>1. config.type # "smtp" /\ config' = config /\ mail' = mail /\ inbox' = inbox
    BY <1>1 DEF Provider!SendTelegram, Provider!mailVars
  <2>2. /\ shown' \in {shown, text} /\ gone' \in {gone, FALSE}
        /\ \/ ref' = ref /\ quiet' = quiet
           \/ ref' = [known |-> TRUE, age |-> 0] /\ quiet' \in {0, quiet}
    BY <1>1 DEF Provider!SendTelegram, Provider!Edit, Provider!PostNew, Provider!Refreshed,
       Provider!Succeeded, Provider!FailedSend
  <2>3. Chatting'
    BY <2>2 DEF Chatting, Provider!TypeOK
  <2>4. ref' \in [known : BOOLEAN, age : 0 .. EditWindow] /\ quiet' \in 0 .. EditWindow
    <3>1. [known |-> TRUE, age |-> 0] \in [known : BOOLEAN, age : 0 .. EditWindow]
      OBVIOUS
    <3>2. ref \in [known : BOOLEAN, age : 0 .. EditWindow] /\ quiet \in 0 .. EditWindow
      BY DEF Provider!TypeOK
    <3>. QED  BY <2>2, <3>1, <3>2
  <2>5. shown' \in Texts \cup {None} /\ gone' \in BOOLEAN
    BY <2>2 DEF Provider!TypeOK
  <2>. QED  BY <2>1, <2>3, <2>4, <2>5 DEF Provider!TypeOK
<1>2. CASE Provider!ReaderDeletes
  BY <1>2 DEF Provider!ReaderDeletes, Provider!mailVars, Provider!TypeOK, Chatting, Mailing
<1>3. CASE Provider!Tick
  <2>1. config.type # "smtp" /\ config' = config /\ mail' = mail /\ inbox' = inbox
        /\ shown' = shown /\ gone' = gone
    BY <1>3 DEF Provider!Tick, Provider!mailVars
  <2>2. /\ ref \in [known : BOOLEAN, age : 0 .. EditWindow] /\ quiet \in 0 .. EditWindow
    BY DEF Provider!TypeOK
  <2>3. /\ ref'.known = ref.known /\ ref'.age = Provider!Older(ref.age)
        /\ ref' \in [known : BOOLEAN, age : 0 .. EditWindow]
        /\ quiet' = Provider!Older(quiet) /\ quiet' \in 0 .. EditWindow
    BY <1>3, <2>2 DEF Provider!Tick, Provider!Older
  <2>4. Chatting'
    BY <2>2, <2>3 DEF Chatting, Provider!Older
  <2>. QED  BY <2>1, <2>3, <2>4 DEF Provider!TypeOK
<1>4. CASE Provider!Advance \/ Provider!Data \/ Provider!Quit
           \/ \E r \in Recipients : Provider!Rcpt(r)
  <2>1. config.type = "smtp" /\ UNCHANGED <<config, shown, gone, ref, quiet>>
    BY <1>4 DEF Provider!Advance, Provider!Data, Provider!Quit, Provider!Rcpt,
       Provider!chatVars
  <2>2. Mailing
    BY <2>1
  <2>3. ASSUME Provider!Advance PROVE Mailing'
    BY <2>2, <2>3 DEF Mailing, Commands, Provider!Advance, Provider!Give,
       Provider!Idle, Provider!Order
  <2>4. ASSUME NEW r \in Recipients, Provider!Rcpt(r) PROVE Mailing'
    <3>1. CASE Provider!Give("error")
      BY <2>2, <2>4, <3>1 DEF Mailing, Commands, Provider!Rcpt, Provider!Give, Provider!Idle
    <3>2. CASE ~ Provider!Give("error")
      <4>1. /\ mail' = [mail EXCEPT !.asked = @ \cup {r}, !.accepted = @ \cup {r}]
            /\ inbox' = inbox /\ result' = result /\ mail.at = "rcpt"
        BY <2>4, <3>2 DEF Provider!Rcpt
      <4>2. /\ mail'.at = mail.at /\ mail'.asked = mail'.accepted
            /\ mail' \in [at : Commands, asked : SUBSET Recipients, accepted : SUBSET Recipients]
        BY <2>2, <4>1 DEF Mailing
      <4>. QED  BY <2>2, <4>1, <4>2 DEF Mailing
    <3>. QED  BY <3>1, <3>2
  <2>5. ASSUME Provider!Data PROVE Mailing'
    <3>1. mail.accepted = Recipients
      BY <2>2, <2>5 DEF Mailing, Provider!Data
    <3>2. CASE Provider!Give("error")
      BY <2>2, <2>5, <3>1, <3>2 DEF Mailing, Commands, Provider!Data, Provider!Give,
         Provider!Idle
    <3>3. CASE ~ Provider!Give("error")
      BY <2>2, <2>5, <3>1, <3>3 DEF Mailing, Commands, Provider!Data
    <3>. QED  BY <3>2, <3>3
  <2>6. ASSUME Provider!Quit PROVE Mailing'
    BY <2>2, <2>6 DEF Mailing, Commands, Provider!Quit, Provider!Give, Provider!Idle
  <2>7. Mailing'
    BY <1>4, <2>3, <2>4, <2>5, <2>6
  <2>8. inbox' \subseteq Recipients /\ mail'.accepted \subseteq Recipients
    BY <2>7 DEF Mailing
  <2>. QED  BY <2>1, <2>7, <2>8 DEF Provider!TypeOK, Chatting
<1>5. CASE Provider!SendHTTP
  BY <1>5 DEF Provider!SendHTTP, Provider!chatVars, Provider!mailVars, Provider!TypeOK,
     Chatting
<1>6. CASE UNCHANGED Provider!vars
  BY <1>6 DEF Provider!vars, Provider!TypeOK, Chatting, Mailing
<1>. QED  BY <1>1, <1>2, <1>3, <1>4, <1>5, <1>6 DEF Provider!Next

LEMMA ProviderPart == [PartsNext]_allVars => [Provider!Next]_(Provider!vars)
  BY DEF PartsNext, allVars, providerVars, Provider!vars

LEMMA ProvidedCorrect == PartsSpec => []Provided
<1>1. PartsInit => Provider!Init
  BY DEF PartsInit
<1>. QED  BY <1>1, ProviderInit, ProviderStep, ProviderPart, PTL DEF PartsSpec

(* A mail reaches all of its recipients or none, and all of them when Send   *)
(* says so, whatever step of the transaction fails (provider.go: smtp).      *)
THEOREM MailsWhole == PartsSpec => []MailWhole
<1>1. Provided => MailWhole
  BY DEF Provided, Mailing, MailWhole, Provider!MailWhole
<1>. QED  BY <1>1, ProvidedCorrect, PTL

(* The chat is not flooded: while a success is younger than the window there *)
(* is a message to edit, so Send posts no new one (provider.go: telegram).   *)
THEOREM NotFlooded == PartsSpec => ChatKept
<1>. DEFINE Reuses == \A text \in Texts :
              quiet < EditWindow /\ Provider!SendTelegram(text) => Provider!InWindow
<1>1. Provided => Reuses
  <2>1. EditWindow \in Nat
    BY ProviderParameters DEF Provider!ProviderAssumption
  <2>. QED  BY <2>1 DEF Provided, Chatting, Provider!InWindow, Provider!TypeOK
<1>2. Provided /\ [PartsNext]_allVars => [Reuses]_(Provider!vars)
  BY <1>1
<1>. QED  BY <1>2, ProvidedCorrect, PTL DEF PartsSpec, ChatKept, Provider!NoFlood

-----------------------------------------------------------------------------
(* Every variable of the notifier keeps its type.                            *)
THEOREM TypesCorrect == PartsSpec => []TypesOK
<1>1. Guarded /\ Provided /\ TypeOK => TypesOK
  BY DEF Guarded, Provided, TypesOK
<1>. QED  BY <1>1, MessagesConserved, GuardedCorrect, ProvidedCorrect, PTL
=============================================================================
