------------------------------ MODULE MailStore ------------------------------
(***************************************************************************)
(* What pkg/storage.Store promises its callers, for every implementation:  *)
(* a mailbox is the list of its messages in delivery order, a delivery     *)
(* appends one message that was never there before and may push the oldest *)
(* ones out when the mailbox is capped, and the only other changes are the *)
(* removal of one message, the purge of one mailbox and the seen flag.     *)
(***************************************************************************)
EXTENDS Integers, Sequences, SequencesExt

CONSTANTS
    Mailbox,   \* mailbox names
    Message,   \* every message that may ever be delivered
    Cap        \* messages allowed in one mailbox, 0 for no cap

VARIABLES
    box,       \* box[mb]: the messages of mb, oldest first
    used,      \* every message delivered so far, removed ones included
    seen       \* the messages marked as read

vars == <<box, used, seen>>

TypeOK ==
    /\ box \in [Mailbox -> Seq(Message)]
    /\ used \in SUBSET Message
    /\ seen \in SUBSET used

Init ==
    /\ box = [mb \in Mailbox |-> <<>>]
    /\ used = {}
    /\ seen = {}

(* The newest Cap messages of s: all of them when there is no cap.         *)
Newest(s) == IF Cap = 0 \/ Len(s) <= Cap THEN s ELSE SubSeq(s, Len(s) - Cap + 1, Len(s))

AddMessage(mb, m) ==
    /\ m \notin used
    /\ box' = [box EXCEPT ![mb] = Newest(Append(@, m))]
    /\ used' = used \cup {m}
    /\ UNCHANGED seen

RemoveMessage(mb, m) ==
    /\ \E k \in DOMAIN box[mb] : box[mb][k] = m /\ box' = [box EXCEPT ![mb] = RemoveAt(@, k)]
    /\ UNCHANGED <<used, seen>>

PurgeMessages(mb) ==
    /\ box' = [box EXCEPT ![mb] = <<>>]
    /\ UNCHANGED <<used, seen>>

MarkSeen(mb, m) ==
    /\ m \in ToSet(box[mb])
    /\ seen' = seen \cup {m}
    /\ UNCHANGED <<box, used>>

Next ==
    \E mb \in Mailbox :
        \/ PurgeMessages(mb)
        \/ \E m \in Message : AddMessage(mb, m) \/ RemoveMessage(mb, m) \/ MarkSeen(mb, m)

Spec == Init /\ [][Next]_vars
=============================================================================
