----------------------------- MODULE MCProtocolV6 -----------------------------
(* Small instances of ProtocolV6 for TLC. *)
EXTENDS ProtocolV6

CONSTANTS s1, k1, k2

MCPacket(name, what, size, flaw, n, key, parts) ==
  [name |-> name, what |-> what, size |-> size, flaw |-> flaw, sum |-> n, key |-> key,
   parts |-> parts]
Data(name, size, flaw, n) == MCPacket(name, "data", size, flaw, n, NoKey, <<>>)
Key(name, flaw, key)      == MCPacket(name, "key", 2, flaw, 2, key, <<>>)
Bundle(name, size, parts) == MCPacket(name, "bundle", size, "none", 3, NoKey, parts)

chat  == Data("chat", 1, "none", 1)
empty == Data("empty", 0, "none", 3)
setK1 == Key("setK1", "none", k1)
setK2 == Key("setK2", "none", k2)
inner == Bundle("inner", 6, <<setK2, empty>>)
outer == Bundle("outer", 13, <<empty, inner, chat>>)

noId  == Data("noId", 1, "header", 1)
under == Data("under", 1, "short", 1)
over  == Data("over", 1, "long", 1)
noRsa == Key("noRsa", "body", k1)
lost  == Bundle("lost", 7, <<over, setK1>>)
torn  == Bundle("torn", 7, <<chat, noRsa>>)

AllPackets == {chat, empty, setK1, setK2, inner, outer, noId, under, over, noRsa, lost, torn}
AllFrames  == {chat, empty, setK1, outer, noId, under, lost, torn}
=============================================================================
