------------------------------ MODULE MCMsgHub ------------------------------
(***************************************************************************)
(* Bounded instances of MsgHub: who watches what.                          *)
(***************************************************************************)
EXTENDS MsgHub, TLC

CONSTANTS m1, m2, w1, w2

(* One websocket on every mailbox.                                         *)
WatchAll == [l \in Listener |-> Message]

(* w1 monitors every mailbox, w2 the mailbox of m1 alone.                  *)
WatchOne == [l \in Listener |-> IF l = w2 THEN {m1} ELSE Message]
=============================================================================
