----------------------------- MODULE MCMemStore -----------------------------
(***************************************************************************)
(* Bounded instances of MemStore.                                          *)
(***************************************************************************)
EXTENDS MemStore, TLC

(* Two clients, and two mailboxes, differ in nothing but their names.      *)
Symmetry == Permutations(Client) \cup Permutations(Mailbox)
=============================================================================
