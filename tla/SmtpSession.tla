----------------------------- MODULE SmtpSession -----------------------------
(***************************************************************************)
(* One SMTP session, pkg/server/smtp: the command loop of startSession,    *)
(* the handler of each state, the DATA block, and StoreManager.Deliver,    *)
(* which stores the message in one mailbox after the other.                *)
(*                                                                         *)
(* view is what the client has been told: the sender and the recipients    *)
(* answered with 250 since its last transaction ended.  Once the           *)
(* connection breaks the client hears nothing more, while the session may  *)
(* still find input in its buffer and may or may not notice that a reply   *)
(* was lost.                                                               *)
(***************************************************************************)
EXTENDS Integers, Sequences, SequencesExt

CONSTANTS
    Sender,           \* addresses a MAIL command may name
    Recipient,        \* addresses a RCPT command may name
    AcceptedOrigins,  \* senders for which Origin.ShouldAccept
    Accepts,          \* recipients for which Recipient.ShouldAccept
    Stores,           \* recipients for which Recipient.ShouldStore
    MailboxOf,        \* Recipient.Mailbox
    Overrides,        \* mailbox lists a BeforeMessageStored listener may answer
    MaxRecipients,    \* config.SMTP.MaxRecipients
    TLSEnabled,       \* config.SMTP.TLSEnabled
    ForceTLS,         \* config.SMTP.ForceTLS
    None

ASSUME SessionAssumption ==
    /\ AcceptedOrigins \subseteq Sender
    /\ Accepts \subseteq Recipient /\ Stores \subseteq Recipient
    /\ DOMAIN MailboxOf = Recipient
    /\ \A s \in Overrides : s \in Seq(ToSet(s))
    /\ MaxRecipients \in Nat
    /\ TLSEnabled \in BOOLEAN /\ ForceTLS \in BOOLEAN
    /\ None \notin Sender

State == {"GREET", "READY", "LOGIN", "PASSWORD", "MAIL", "DATA", "QUIT"}

(* What a listener of the Before... events may answer; no listener defers. *)
Action == {"defer", "allow", "deny"}

Mailbox == {MailboxOf[r] : r \in Recipient} \cup UNION {ToSet(s) : s \in Overrides}

VARIABLES
    state,       \* Session.state
    tls,         \* Session.tlsState is set
    from,        \* Session.from
    recipients,  \* Session.recipients
    sendError,   \* Session.sendError is set
    pc,          \* command loop, reading a DATA block, delivering, closed
    due,         \* mailboxes Deliver has still to store the message in
    link,        \* the connection
    mail,        \* mailboxes that have the session's latest message, in order
    view,        \* auxiliary: the envelope as the client knows it
    owed,        \* auxiliary: where that message belongs by what the client knows
    verdict      \* auxiliary: what the client was told of that message

vars == <<state, tls, from, recipients, sendError, pc, due, link, mail, view, owed, verdict>>
storeVars == <<due, mail, owed, verdict>>

Empty == [from |-> None, rcpts |-> <<>>]

TypeOK ==
    /\ state \in State
    /\ tls \in BOOLEAN
    /\ from \in Sender \cup {None}
    /\ recipients \in Seq(Recipient) /\ Len(recipients) <= MaxRecipients
    /\ sendError \in BOOLEAN
    /\ pc \in {"loop", "read", "deliver", "closed"}
    /\ due \in Seq(Mailbox)
    /\ link \in {"up", "down"}
    /\ mail \in Seq(Mailbox)
    /\ view \in [from : Sender \cup {None}, rcpts : Seq(Recipient)]
    /\ owed \in Seq(Mailbox)
    /\ verdict \in {"none", "stored", "failed"}

Init ==
    /\ state = "GREET"
    /\ tls = ForceTLS
    /\ from = None
    /\ recipients = <<>>
    /\ sendError = FALSE
    /\ pc = "loop"
    /\ due = <<>>
    /\ link = "up"
    /\ mail = <<>>
    /\ view = Empty
    /\ owed = <<>>
    /\ verdict = "none"

-----------------------------------------------------------------------------
(* send: on a broken connection the error may or may not show.             *)
Send == IF link = "up" THEN UNCHANGED sendError ELSE sendError' \in {sendError, TRUE}

Told(v) == view' = IF link = "up" THEN v ELSE view

(* reset, and the envelope it leaves.                                      *)
Reset_KeepsRecipients ==
    /\ state' = "READY"
    /\ from' = None
    /\ UNCHANGED recipients

Reset ==
    /\ state' = "READY"
    /\ from' = None
    /\ recipients' = <<>>

(* The loop is at its readLine in state s.                                 *)
AtPrompt(s) == pc = "loop" /\ ~sendError /\ state = s

AtAnyPrompt == \E s \in {"GREET", "READY", "MAIL"} : AtPrompt(s)

(* Every command answered with an error, and NOOP, VRFY and AUTH PLAIN:    *)
(* one reply, nothing changed.                                             *)
Refuse ==
    /\ AtAnyPrompt
    /\ Send
    /\ UNCHANGED <<state, tls, from, recipients, pc, link, view, storeVars>>

(* HELO, and EHLO with its feature list.                                   *)
Helo ==
    /\ AtPrompt("GREET")
    /\ state' = "READY"
    /\ Send
    /\ UNCHANGED <<tls, from, recipients, pc, link, view, storeVars>>

(* RSET in any state, EHLO once past GREET.                                *)
ResetSession ==
    /\ AtAnyPrompt
    /\ Reset
    /\ Send
    /\ Told(Empty)
    /\ UNCHANGED <<tls, pc, link, storeVars>>

Quit ==
    /\ AtAnyPrompt
    /\ state' = "QUIT"
    /\ Send
    /\ UNCHANGED <<tls, from, recipients, pc, link, view, storeVars>>

StartTLS ==
    /\ AtPrompt("READY")
    /\ TLSEnabled /\ ~tls
    /\ tls' = TRUE
    /\ state' = "GREET"
    /\ Send
    /\ UNCHANGED <<from, recipients, pc, link, view, storeVars>>

(* AUTH LOGIN, then two lines that are not looked at.                      *)
AuthLogin ==
    /\ \/ AtPrompt("READY") /\ state' = "LOGIN"
       \/ AtPrompt("LOGIN") /\ state' = "PASSWORD"
       \/ AtPrompt("PASSWORD") /\ state' = "READY"
    /\ Send
    /\ UNCHANGED <<tls, from, recipients, pc, link, view, storeVars>>

(* MAIL from a: an origin the policy rejects is kept in from all the same. *)
Mail(a, action) ==
    /\ AtPrompt("READY")
    /\ action # "deny"
    /\ from' = a
    /\ IF action = "allow" \/ a \in AcceptedOrigins
       THEN state' = "MAIL" /\ Told([from |-> a, rcpts |-> <<>>])
       ELSE UNCHANGED <<state, view>>
    /\ Send
    /\ UNCHANGED <<tls, recipients, pc, link, storeVars>>

(* The limit comes after the policy and the extensions.                    *)
HasRoom_OffByOne == Len(recipients) <= MaxRecipients
HasRoom == Len(recipients) < MaxRecipients

Rcpt(r, action) ==
    /\ AtPrompt("MAIL")
    /\ action = "allow" \/ (action = "defer" /\ r \in Accepts)
    /\ HasRoom
    /\ recipients' = Append(recipients, r)
    /\ Told([from |-> view.from, rcpts |-> Append(view.rcpts, r)])
    /\ Send
    /\ UNCHANGED <<state, tls, from, pc, link, storeVars>>

(* DATA is answered by dataHandler, in the next turn of the loop.          *)
Data ==
    /\ AtPrompt("MAIL")
    /\ recipients # <<>>
    /\ state' = "DATA"
    /\ UNCHANGED <<tls, from, recipients, sendError, pc, link, view, storeVars>>

-----------------------------------------------------------------------------
(* dataHandler *)

Prompt354 ==
    /\ AtPrompt("DATA")
    /\ pc' = "read"
    /\ Send
    /\ UNCHANGED <<state, tls, from, recipients, link, view, storeVars>>

(* Where Deliver takes a message for these recipients, collected one after *)
(* the other: an extension's answer, if there is one, replaces them and    *)
(* the policy.                                                             *)
Destination(rcpts, extResult) ==
    LET stored[k \in 0 .. Len(rcpts)] ==
            IF k = 0 THEN <<>>
            ELSE IF rcpts[k] \in Stores THEN Append(stored[k-1], MailboxOf[rcpts[k]])
            ELSE stored[k-1]
    IN  IF extResult = None THEN stored[Len(rcpts)] ELSE extResult

(* The DATA block was read to its end, and Deliver starts.                 *)
ReadBlock ==
    /\ pc = "read"
    /\ pc' = "deliver"
    /\ mail' = <<>>
    /\ verdict' = "none"
    /\ \E extResult \in Overrides \cup {None} :
         /\ due' = Destination(recipients, extResult)
         /\ owed' = Destination(view.rcpts, extResult)
    /\ UNCHANGED <<state, tls, from, recipients, sendError, link, view>>

(* It was not: a timeout is answered with 221, and the session ends.       *)
ReadBlockError ==
    /\ pc = "read"
    /\ state' = "QUIT"
    /\ pc' = "loop"
    /\ Send
    /\ UNCHANGED <<tls, from, recipients, link, view, storeVars>>

(* Store.AddMessage for the next mailbox.                                  *)
Store_Twice ==
    /\ pc = "deliver"
    /\ due # <<>>
    /\ mail' = mail \o <<Head(due), Head(due)>>
    /\ due' = Tail(due)
    /\ UNCHANGED <<state, tls, from, recipients, sendError, pc, link, view, owed, verdict>>

Store ==
    /\ pc = "deliver"
    /\ due # <<>>
    /\ mail' = Append(mail, Head(due))
    /\ due' = Tail(due)
    /\ UNCHANGED <<state, tls, from, recipients, sendError, pc, link, view, owed, verdict>>

(* The reply to a DATA block, and the end of its transaction.              *)
Answer(v) ==
    /\ pc' = "loop"
    /\ due' = <<>>
    /\ Reset
    /\ Send
    /\ Told(Empty)
    /\ verdict' = IF link = "up" THEN v ELSE verdict
    /\ UNCHANGED <<tls, link, mail, owed>>

Accepted_AnyTime ==
    /\ pc = "deliver"
    /\ Answer("stored")

Accepted ==
    /\ pc = "deliver"
    /\ due = <<>>
    /\ Answer("stored")

(* The header does not parse, before any mailbox has the message, or       *)
(* AddMessage fails for a mailbox: those before it keep their copy.        *)
Failed ==
    /\ pc = "deliver"
    /\ due # <<>> \/ mail = <<>>
    /\ Answer("failed")

-----------------------------------------------------------------------------
(* readLine fails: end of input, an error, or the idle timeout.            *)
ReadError ==
    /\ \E s \in State \ {"DATA", "QUIT"} : AtPrompt(s)
    /\ pc' = "closed"
    /\ Send
    /\ UNCHANGED <<state, tls, from, recipients, link, view, storeVars>>

(* The loop condition fails: conn.Close, wg.Done.                          *)
HangUp_OnlyOnQuit ==
    /\ pc = "loop"
    /\ state = "QUIT"
    /\ pc' = "closed"
    /\ UNCHANGED <<state, tls, from, recipients, sendError, link, view, storeVars>>

HangUp ==
    /\ pc = "loop"
    /\ state = "QUIT" \/ sendError
    /\ pc' = "closed"
    /\ UNCHANGED <<state, tls, from, recipients, sendError, link, view, storeVars>>

Break ==
    /\ link = "up"
    /\ pc # "closed"
    /\ link' = "down"
    /\ UNCHANGED <<state, tls, from, recipients, sendError, pc, view, storeVars>>

Command ==
    \/ Refuse \/ Helo \/ ResetSession \/ Quit \/ StartTLS \/ AuthLogin \/ Data
    \/ \E action \in Action :
        \/ \E a \in Sender : Mail(a, action)
        \/ \E r \in Recipient : Rcpt(r, action)

DeliverStep == Store \/ Accepted \/ Failed

EndOfInput == ReadError \/ ReadBlockError

Next == Command \/ Prompt354 \/ ReadBlock \/ DeliverStep \/ EndOfInput \/ HangUp \/ Break

Spec == Init /\ [][Next]_vars

(* A session that can run runs.  Every read has a deadline, so one that    *)
(* keeps coming back to a read on a broken connection fails in the end.    *)
Fairness ==
    /\ WF_vars(Prompt354) /\ WF_vars(DeliverStep) /\ WF_vars(HangUp)
    /\ SF_vars(EndOfInput)

FairSpec == Spec /\ Fairness

-----------------------------------------------------------------------------
(* Properties *)

(* Client and server agree on the transaction: between two commands on a   *)
(* working connection, the session's envelope is the sender and the        *)
(* recipients the client was told 250 for, and there is none outside MAIL. *)
EnvelopeAgreed ==
    link = "up" /\ pc = "loop" /\ state # "QUIT" =>
        IF state \in {"MAIL", "DATA"}
        THEN view = [from |-> from, rcpts |-> recipients]
        ELSE view = Empty /\ recipients = <<>>

(* The envelope is within its bounds, MaxRecipients among them, and it is  *)
(* the one that the client knows.                                          *)
EnvelopeSound == TypeOK /\ EnvelopeAgreed

(* A message the client was told 250 for is stored once for each recipient *)
(* it was told 250 for, in that order, unless the policy discards it or an *)
(* extension sent it elsewhere.                                            *)
AcceptedIsStored == verdict = "stored" => mail = owed

(* A message answered with 451 is not in all of its mailboxes: it stopped  *)
(* at the first failure, and those before have it exactly once.            *)
FailedIsPartial ==
    verdict = "failed" =>
        /\ IsPrefix(mail, owed)
        /\ mail # owed \/ mail = <<>>

(* The reply to a DATA block, 250 or 451, is true of the mailboxes.        *)
AnswerIsTrue == AcceptedIsStored /\ FailedIsPartial

(* Drain waits for every session: each ends once its peer is gone.         *)
SessionEnds == link = "down" ~> pc = "closed"
=============================================================================
