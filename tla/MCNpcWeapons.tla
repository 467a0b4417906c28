----------------------------- MODULE MCNpcWeapons -----------------------------
(* A small instance of NpcWeapons for TLC. *)
EXTENDS NpcWeapons

Repeat(c, n) == [i \in 1..n |-> c]

\* "a"; one with a line end; one that write_gu8 refuses
SomeNames   == {<<97>>, <<97, LF, 98>>, Repeat(97, 224)}
\* the longest with a length of 7 bits, ending in an accented letter; one byte more
SomeImages  == {Repeat(98, 125) \o <<195, 169>>, Repeat(98, 128)}
\* none; two lines; a letter with a 0xa7; one that makes its frame too long
SomeScripts == {<<>>, <<97, CR, LF, LF, 98>>, <<195, Mark>>, Repeat(99, 30)}

\* The last script stands for one of many thousand letters.
SomePackedSize(contents) == IF Len(contents) > 150 THEN 65537 ELSE Len(contents)

Chat  == [head |-> 74 + Bias, data |-> <<97>>]
Empty == [head |-> 74 + Bias, data |-> <<>>]
New   == [head |-> 60 + Bias, data |-> <<97>>]   \* no id has the number 60
Low   == [head |-> 29, data |-> <<>>]
SomeBursts == {<<>>, <<Empty, Chat>>, <<Chat, New>>, <<Low>>}
SomeIds == {74, NcWeaponGetReply, 253}
=============================================================================
