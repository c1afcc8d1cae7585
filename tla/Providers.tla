----------------------------- MODULE Providers ------------------------------
(* One provider of notifications (provider.go): how it is built, and what a  *)
(* Send of it does to a Telegram chat, to the mailboxes behind an SMTP       *)
(* server or to an HTTP service.  The services are the environment: they may *)
(* refuse, be out of reach, or do what they are asked and lose the answer.   *)
EXTENDS Integers, FiniteSets

CONSTANTS
  Texts,      \* what is sent
  Recipients, \* of the mails
  Window,     \* editWindow
  MaxFaults,  \* bound: answers lost and requests that do not arrive
  None

\* What an instance of this module gives its parameters.
ProviderAssumption == Window \in Nat

VARIABLES
  config,  \* the instance's type and the fields it has
  shown,   \* the text of the newest message of the chat, None without one
  gone,    \* the reader has deleted it
  ref,     \* Ref: known (MessageID # 0), and its age
  quiet,   \* history: the time since a Send last succeeded
  mail,    \* the SMTP transaction: what is next, who was accepted
  inbox,   \* history: who has got the mail of the transaction
  result,  \* what the last Send returned
  faults

vars == <<config, shown, gone, ref, quiet, mail, inbox, result, faults>>

-----------------------------------------------------------------------------
(* New: the type and the fields its constructor insists on; ntfy takes       *)
(* either of two.                                                            *)
Required ==
  [webhook |-> {{"url"}}, telegram |-> {{"token", "chat"}}, smtp |-> {{"host", "from", "to"}},
   ntfy |-> {{"url"}, {"topic"}}, gotify |-> {{"url", "token"}}, serverchan |-> {{"key"}},
   pushplus |-> {{"token"}}]
Buildable(cfg) ==
  cfg.type \in DOMAIN Required /\ \E fields \in Required[cfg.type] : fields \subseteq cfg.fields

Fields == UNION UNION {Required[t] : t \in DOMAIN Required}
Configs == {[type |-> t, fields |-> f] : t \in DOMAIN Required \cup {"sms"}, f \in {{}, Fields}}

Idle == [at |-> "idle", asked |-> {}, accepted |-> {}]

Init ==
  /\ config \in {c \in Configs : Buildable(c)}
  /\ shown = None /\ gone = FALSE /\ ref = [known |-> FALSE, age |-> Window]
  /\ quiet = Window /\ mail = Idle /\ inbox = {} /\ result = "none" /\ faults = 0

mailVars == <<mail, inbox>>
chatVars == <<shown, gone, ref, quiet>>

Fault == faults < MaxFaults /\ faults' = faults + 1

-----------------------------------------------------------------------------
(* Telegram.  Send holds the mutex for the whole call: one step with the     *)
(* service's part in it.                                                     *)

Succeeded == result' = "ok" /\ quiet' = 0
FailedSend == result' = "error" /\ UNCHANGED quiet

\* Fault for mutation: an edit leaves the reference at its age.
NotReused(ok) == UNCHANGED ref

(* The reference is renewed by an edit that succeeded.                       *)
Refreshed(ok) == IF ok THEN ref' = [known |-> TRUE, age |-> 0] ELSE UNCHANGED ref

(* editMessageText: the service refuses to edit a deleted message, and to    *)
(* change nothing.                                                           *)
Edit(text) ==
  \/ /\ ~gone /\ shown # text /\ shown' = text
     /\ \/ Refreshed(TRUE) /\ Succeeded /\ UNCHANGED faults
        \/ Refreshed(FALSE) /\ FailedSend /\ Fault
     /\ UNCHANGED gone
  \/ (gone \/ shown = text) /\ Refreshed(FALSE) /\ FailedSend /\ UNCHANGED <<shown, gone, faults>>
  \/ Refreshed(FALSE) /\ FailedSend /\ Fault /\ UNCHANGED <<shown, gone>>

(* sendMessage: a new message, which the reference takes over.               *)
PostNew(text) ==
  \/ /\ shown' = text /\ gone' = FALSE
     /\ \/ ref' = [known |-> TRUE, age |-> 0] /\ Succeeded /\ UNCHANGED faults
        \/ FailedSend /\ Fault /\ UNCHANGED ref
  \/ FailedSend /\ Fault /\ UNCHANGED <<shown, gone, ref>>

InWindow == ref.known /\ ref.age < Window

SendTelegram(text) ==
  /\ config.type = "telegram"
  /\ IF InWindow THEN Edit(text) ELSE PostNew(text)
  /\ UNCHANGED <<config, mailVars>>

ReaderDeletes ==
  /\ config.type = "telegram" /\ shown # None /\ ~gone /\ faults < MaxFaults
  /\ gone' = TRUE /\ faults' = faults + 1
  /\ UNCHANGED <<config, shown, ref, quiet, mailVars, result>>

(* Only what is younger than the window matters.                             *)
Older(age) == IF age < Window THEN age + 1 ELSE age
Tick ==
  /\ config.type = "telegram"
  /\ ref' = [ref EXCEPT !.age = Older(@)] /\ quiet' = Older(quiet)
  /\ UNCHANGED <<config, shown, gone, mailVars, result, faults>>

-----------------------------------------------------------------------------
(* SMTP: the commands of one transaction, any of which may fail; an error    *)
(* closes the connection.                                                    *)

Order == [idle |-> "hello", hello |-> "auth", auth |-> "from", from |-> "rcpt"]

Give(outcome) == mail' = Idle /\ result' = outcome

Advance ==
  /\ config.type = "smtp" /\ mail.at \in DOMAIN Order
  /\ \/ mail' = [mail EXCEPT !.at = Order[@]] /\ UNCHANGED result
     \/ Give("error")
  /\ inbox' = IF mail.at = "idle" THEN {} ELSE inbox
  /\ UNCHANGED <<config, chatVars, faults>>

\* Fault for mutation: a refused recipient is passed over.
RcptSkipping(r) ==
  /\ config.type = "smtp" /\ mail.at = "rcpt" /\ r \notin mail.asked
  /\ \/ mail' = [mail EXCEPT !.asked = @ \cup {r}, !.accepted = @ \cup {r}]
     \/ mail' = [mail EXCEPT !.asked = @ \cup {r}]
  /\ UNCHANGED <<config, chatVars, inbox, result, faults>>

(* One refused recipient ends the transaction.                               *)
Rcpt(r) ==
  /\ config.type = "smtp" /\ mail.at = "rcpt" /\ r \notin mail.asked
  /\ \/ mail' = [mail EXCEPT !.asked = @ \cup {r}, !.accepted = @ \cup {r}] /\ UNCHANGED result
     \/ Give("error")
  /\ UNCHANGED <<config, chatVars, inbox, faults>>

(* DATA, the content and its closing dot, where the server takes it over.    *)
Data ==
  /\ config.type = "smtp" /\ mail.at = "rcpt" /\ mail.asked = Recipients
  /\ \/ /\ mail' = [mail EXCEPT !.at = "quit"] /\ inbox' = mail.accepted
        /\ UNCHANGED result
     \/ Give("error") /\ inbox' \in {inbox, mail.accepted}
  /\ UNCHANGED <<config, chatVars, faults>>

Quit ==
  /\ config.type = "smtp" /\ mail.at = "quit"
  /\ Give("ok") \/ Give("error")
  /\ UNCHANGED <<config, chatVars, inbox, faults>>

-----------------------------------------------------------------------------
(* The other five post once; doRequest takes any 2xx for success.            *)
SendHTTP ==
  /\ config.type \notin {"telegram", "smtp"}
  /\ \E status \in {200, 302, 500} :
       result' = IF status \in 200..299 THEN "ok" ELSE "error"
  /\ UNCHANGED <<config, chatVars, mailVars, faults>>

Next ==
  \/ \E text \in Texts : SendTelegram(text)
  \/ ReaderDeletes \/ Tick
  \/ Advance \/ (\E r \in Recipients : Rcpt(r)) \/ Data \/ Quit
  \/ SendHTTP

(* Time passes and there is always something to tell.                        *)
Fairness == WF_vars(Tick) /\ WF_vars(\E text \in Texts : SendTelegram(text))
Spec == Init /\ [][Next]_vars /\ Fairness

-----------------------------------------------------------------------------
(* Properties                                                                *)

(* Every variable keeps its type.                                            *)
TypeOK ==
  /\ Buildable(config) /\ shown \in Texts \cup {None} /\ gone \in BOOLEAN
  /\ ref \in [known : BOOLEAN, age : 0..Window] /\ quiet \in 0..Window
  /\ mail.accepted \subseteq Recipients /\ inbox \subseteq Recipients

(* "Reuses it instead of posting a brand-new message": no new message while  *)
(* the last success is younger than the window, whatever failed since.       *)
NoFlood == [][\A text \in Texts : quiet < Window /\ SendTelegram(text) => InWindow]_vars

(* A message the reader deletes silences the chat for a window at most: the  *)
(* Sends that fail to edit it do not keep it alive.                          *)
ChatRecovers == config.type = "telegram" => []<>(result = "ok")

(* A mail reaches all of its recipients or none, and all when Send says so.  *)
MailWhole ==
  config.type = "smtp" =>
    /\ inbox \in {{}, Recipients}
    /\ mail.at = "idle" /\ result = "ok" => inbox = Recipients
=============================================================================
