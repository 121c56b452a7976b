---------------------------- MODULE MCSmtpSession ----------------------------
(***************************************************************************)
(* A bounded instance of SmtpSession.  Mailboxes are named by the local    *)
(* part, so user@refused, which only an extension lets in, shares the      *)
(* mailbox of user; mail to discarded is accepted and not stored.          *)
(***************************************************************************)
EXTENDS SmtpSession

CONSTANTS user, discarded, refused, mbU, mbD, mbX

Mailboxes == [r \in Recipient |-> IF r = discarded THEN mbD ELSE mbU]

(* An extension that redirects to a mailbox nobody named.                  *)
Redirects == {<<mbX>>}
=============================================================================
