------------------------------- MODULE HeaderV6 -------------------------------
(***************************************************************************)
(* The header of a v6 frame.  Its layout is a string in the configuration, *)
(* a letter for each byte: E compression, I checksum, L length, T packet   *)
(* type.  A client makes headers and sends frames; the other end, with the *)
(* same string, cuts what it receives into frames again.                   *)
(***************************************************************************)
EXTENDS Naturals, FiniteSets, Sequences

CONSTANTS
  Formats,        \* what a configuration may have as header_format
  Base,           \* 256: how many values a byte has
  Ids,            \* the ids of FromClientPacketId
  Payloads,       \* data of packets, plain or compressed
  CompressAbove,  \* 55: longer data is compressed
  MaxFrames       \* bound: frames sent

Letters      == {"E", "I", "L", "T"}
Byte         == 0..(Base - 1)
Compressions == 0..2      \* none, zlib, bzip2

ASSUME HeaderOK ==
  /\ \A f \in Formats :       \* a number has eight bytes: beyond, a shift overflows
       /\ f \in Seq(STRING)
       /\ \A l \in Letters : Cardinality({i \in 1..Len(f) : f[i] = l}) <= 8
  /\ Base \in Nat /\ Base > 2         \* a compression type fits a byte
  /\ Ids \subseteq Byte
  /\ \A p \in Payloads : p \in Seq(Byte)
  /\ CompressAbove \in Nat /\ MaxFrames \in Nat

VARIABLES
  format,  \* the string of the configuration
  client,  \* "config", then "running", "refused" (no configuration) or "panicked"
  sent,    \* the frames the client has sent
  wire,    \* the bytes of them that have not been read
  peer,    \* the other end: "reading" or "failed"
  got      \* the frames it has read

vars == <<format, client, sent, wire, peer, got>>

Init ==
  /\ format \in Formats
  /\ client = "config" /\ peer = "reading"
  /\ sent = <<>> /\ wire = <<>> /\ got = <<>>

-----------------------------------------------------------------------------
(* GProtocolV6HeaderFormat: where a letter is first, and how often it occurs *)

Positions(l) == {i \in 1..Len(format) : format[i] = l}
Count(l)     == Cardinality(Positions(l))

\* Mutant: a letter is looked for from the end.
IndexLast(l) == CHOOSE i \in Positions(l) : \A j \in Positions(l) : i >= j

Index(l) == CHOOSE i \in Positions(l) : \A j \in Positions(l) : i <= j

\* The bytes that are taken for a letter's.
Field(l) == Index(l)..(Index(l) + Count(l) - 1)

Configure ==
  /\ client = "config"
  /\ client' = IF /\ \A i \in 1..Len(format) : format[i] \in Letters
                  /\ \A l \in Letters : Positions(l) # {}
                 THEN "running" ELSE "refused"
  /\ UNCHANGED <<format, sent, wire, peer, got>>

-----------------------------------------------------------------------------
(* create_header and send_packet *)

\* A value shifted right by n bytes.
Shift(value, n) ==
  LET shifted[k \in Nat] == IF k = 0 THEN value ELSE shifted[k - 1] \div Base
  IN  shifted[n]

\* Mutant: the lowest byte comes first.
BytesLittle(value, size) == [i \in 1..size |-> Shift(value, i - 1) % Base]

\* Mutant: the highest byte takes what is left over.
BytesUncut(value, size) ==
  [i \in 1..size |-> IF i = 1 THEN Shift(value, size - 1) ELSE Shift(value, size - i) % Base]

\* Big-endian; what is beyond the field is cut off.
Bytes(value, size) == [i \in 1..size |-> Shift(value, size - i) % Base]

\* A field is copied over what the fields before it have put there.
Put(header, l, value) ==
  [i \in DOMAIN header |->
     IF i \in Field(l) THEN Bytes(value, Count(l))[i - Index(l) + 1] ELSE header[i]]

Header(values) ==
  Put(Put(Put(Put([i \in 1..Len(format) |-> 0],
    "E", values["E"]), "I", values["I"]), "L", values["L"]), "T", values["T"])

\* No field reaches beyond the header: there copying panics and reading fails.
FieldsInside == \A l \in Letters : Field(l) \subseteq 1..Len(format)

Length(frame) == Len(format) + Len(frame.body)

Values(frame) == [E |-> frame.compression, I |-> frame.checksum, L |-> Length(frame),
                  T |-> frame.id]

\* Long data is compressed, to some other data.
Packed(data) ==
  IF Len(data) > CompressAbove
    THEN {[compression |-> 1, body |-> p] : p \in Payloads \ {<<>>}}
    ELSE {[compression |-> 0, body |-> data]}

\* One task sends, so that frames are numbered in order, from 1.
Send ==
  /\ client = "running" /\ Len(sent) < MaxFrames
  /\ \E id \in Ids, data \in Payloads : \E p \in Packed(data) :
       LET frame == [compression |-> p.compression, checksum |-> (Len(sent) + 1) % Base,
                     id |-> id, body |-> p.body]
       IN  IF FieldsInside
             THEN /\ wire' = wire \o Header(Values(frame)) \o p.body
                  /\ sent' = Append(sent, frame)
                  /\ client' = client
             ELSE client' = "panicked" /\ UNCHANGED <<sent, wire>>
  /\ UNCHANGED <<format, peer, got>>

-----------------------------------------------------------------------------
(* parse_header, and cutting off a frame as read_from_stream does *)

Number(bytes) ==
  LET value[n \in 0..Len(bytes)] == IF n = 0 THEN 0 ELSE value[n - 1] * Base + bytes[n]
  IN  value[Len(bytes)]

Value(header, l) == Number([i \in 1..Count(l) |-> header[Index(l) + i - 1]])

\* A packet id is cut to a byte before it is looked up.
PacketId(header) == Value(header, "T") % Base

Parses(header) ==
  FieldsInside /\ Value(header, "E") \in Compressions /\ PacketId(header) \in Ids

\* The header is there, and when it can be parsed, the length it gives, too.  A
\* length below the header's is an overflow, which ends the read loop.
Readable ==
  /\ client = "running" /\ Len(wire) >= Len(format)
  /\ Parses(wire) => Len(wire) >= Value(wire, "L")

Read ==
  /\ peer = "reading" /\ Readable
  /\ LET length == Value(wire, "L")
     IN  IF Parses(wire) /\ length >= Len(format)
           THEN /\ got' = Append(got, [compression |-> Value(wire, "E"),
                                       checksum |-> Value(wire, "I") % Base,
                                       id |-> PacketId(wire),
                                       body |-> SubSeq(wire, Len(format) + 1, length)])
                /\ wire' = SubSeq(wire, length + 1, Len(wire))
                /\ peer' = peer
           ELSE peer' = "failed" /\ UNCHANGED <<wire, got>>
  /\ UNCHANGED <<format, client, sent>>

-----------------------------------------------------------------------------
Next == Configure \/ Send \/ Read

Spec == Init /\ [][Next]_vars

-----------------------------------------------------------------------------
(* Properties *)

FrameTypes == [compression : Compressions, checksum : Byte, id : Ids, body : Seq(Byte)]

\* Every variable keeps its type: what is written are bytes.
TypeOK ==
  /\ format \in Formats
  /\ client \in {"config", "running", "refused", "panicked"}
  /\ peer \in {"reading", "failed"}
  /\ sent \in Seq(FrameTypes) /\ got \in Seq(FrameTypes)
  /\ wire \in Seq(Byte)

\* No format that is accepted makes create_header panic, even one in which the
\* bytes of a letter are not next to each other.
NeverPanics == client # "panicked"

\* The bytes of each letter are next to each other.
InOnePiece ==
  \A l \in Letters, i, j \in 1..Len(format) :
    format[i] = l /\ format[j] = l => \A k \in i..j : format[k] = l

\* With such a format the other end reads the frames that were sent, up to the
\* first that is too long for its length field, and does not fail before that
\* nor wait for more.  (With another format fields overwrite each other.)
Fit(n)    == \A i \in 1..n : Shift(Length(sent[i]), Count("L")) = 0
ReadsFrames ==
  InOnePiece => \A n \in 0..Len(sent) : Fit(n) =>
    /\ \A i \in 1..n : i <= Len(got) => got[i] = sent[i]
    /\ Len(got) < n => peer = "reading" /\ Readable
=============================================================================
