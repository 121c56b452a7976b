--------------------------- MODULE MCAddressPolicy ---------------------------
(***************************************************************************)
(* An alphabet for AddressPolicy: letters of both cases, and one or more   *)
(* of each sort of character that the code tells apart.                    *)
(***************************************************************************)
EXTENDS AddressPolicy

MCChar == {"a", "A", "+", "-", "_", ".", "\\", "\"", "@", ":", "[", "]", "U+E9"}
MCLetter == {"a", "A"}
MCSpecial == {"+", "-", "_"}
MCNonAscii == {"U+E9"}
MCLower == [c \in MCChar \cup {"*", "?"} |-> IF c = "A" THEN "a" ELSE c]
MCIPs == {<<":", ":">>}
MCDomains == {<<"a">>, <<"a", ".", "A">>, <<"[", ":", ":", "]">>}
Listed == {<<"a", ".", "A">>, <<"A">>}

(* Every pattern of up to three characters.                                *)
MCPatterns == UNION {[1 .. n -> {"a", "A", ".", "*", "?"}] : n \in 0 .. 3}
=============================================================================
