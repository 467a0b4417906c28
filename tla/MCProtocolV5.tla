----------------------------- MODULE MCProtocolV5 -----------------------------
(* Small instances of ProtocolV5 for TLC. *)
EXTENDS ProtocolV5

CONSTANTS s1, s2, k1, k2, unk

Sizes3 == {3, 20, 65535}    \* one group, more than zlib's limit, too long with a type byte
AFew   == {<<k2, k1>>, <<k1, unk>>, <<>>}
=============================================================================
