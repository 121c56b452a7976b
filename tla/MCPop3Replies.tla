--------------------------- MODULE MCPop3Replies ---------------------------
(***************************************************************************)
(* Messages for Pop3Replies: one with dots wherever they matter and a body *)
(* longer than TOP asks for, one without a body, an empty one, and one     *)
(* with a line too long for the scanner behind the first line of its body. *)
(***************************************************************************)
EXTENDS Pop3Replies

Header == Line(0, "Subject: x")
Text == Line(0, "text")

Various ==
    {<<Line(1, "x"), Blank, Line(1, ""), Line(2, ""), Line(0, "-ERR"), Blank, Text>>,
     <<Header, Blank, Text, TooLong>>,
     <<Header>>,
     <<>>}
=============================================================================
