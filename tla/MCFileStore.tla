---------------------------- MODULE MCFileStore ----------------------------
(***************************************************************************)
(* A bounded instance of FileStore: each mailbox in a level 2 directory of *)
(* its own, named like it, so that the mailboxes are interchangeable.      *)
(***************************************************************************)
EXTENDS FileStore, TLC

Directories == [b \in Mailbox |-> b]

Renaming == Permutations(Mailbox)
=============================================================================
