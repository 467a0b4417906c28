------------------------------ MODULE MCHeaderV6 ------------------------------
(* Small instances of HeaderV6 for TLC. *)
EXTENDS HeaderV6

\* Accepted: short and long fields in several orders, fields in two pieces.
\* Refused: another letter, a letter that does not occur, nothing at all.
SomeFormats ==
  { <<"E", "I", "L", "T">>, <<"L", "L", "T", "I", "E">>, <<"E", "I", "I", "L", "L", "T", "T">>,
    <<"T", "E", "E", "L", "I">>, <<"E", "T", "L", "I", "T">>, <<"L", "E", "I", "L", "T">>,
    <<"T", "L", "E", "I", "I", "L", "E">>,
    <<"E", "I", "L", "X", "T">>, <<"E", "I", "L">>, <<>> }

\* Long enough to overflow a length field of one byte, and of two.
SomePayloads == { [i \in 1..n |-> 2] : n \in {0, 1, 31} } \cup { <<3, 0>> }
=============================================================================
