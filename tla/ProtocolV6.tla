------------------------------ MODULE ProtocolV6 ------------------------------
(***************************************************************************)
(* One v6 connection: the handshake, the tasks that send, the read loop's  *)
(* read(), and the server at the other end.                                *)
(*                                                                         *)
(* Outgoing frames are numbered by a checksum and not encrypted.  Incoming *)
(* frames are, as soon as a packet has brought a key: a cipher is its key  *)
(* and the bytes it has been applied to.  A frame is a packet, and a       *)
(* packet may be a bundle of packets.  Payloads are left out, but for      *)
(* their size, the packets or the key they hold, and what is wrong with    *)
(* them: nothing; a header that cannot be parsed; a length below the       *)
(* header's or beyond the data; or a body that cannot be decompressed or,  *)
(* of a key packet, decrypted or used.                                     *)
(***************************************************************************)
EXTENDS Naturals, Sequences, SequencesExt

CONSTANTS
  Senders,       \* tasks that call send_packet
  Nobody,        \* no task
  MaxChecksum,   \* 255: checksums are bytes
  HeaderLength,  \* header_format.header_length
  Packets,       \* packets of the server, those inside bundles included
  Frames,        \* the ones it sends as frames
  NoKey,         \* no RC4 key
  MaxFrames,     \* bound: frames the client sends
  MaxReplies     \* bound: frames the server sends

Whats == {"data", "key", "bundle"}
Flaws == {"none", "header", "short", "long", "body"}

ASSUME ConstantsOK ==
  /\ Nobody \notin Senders
  /\ MaxChecksum \in Nat \ {0} /\ HeaderLength \in Nat \ {0}
  /\ Frames \subseteq Packets
  /\ \A p \in Packets : /\ p.what \in Whats /\ p.flaw \in Flaws
                        /\ p.size \in Nat /\ p.sum \in 0..MaxChecksum
                        /\ p.parts \in Seq(Packets)
                        /\ p.what = "key" => p.size > 0
                        \* Around each of its packets a bundle has a header.
                        /\ \A i \in 1..Len(p.parts) : p.parts[i].size < p.size
  /\ \A f \in Frames : f.flaw # "long"     \* the reader waits for what is missing
  /\ MaxFrames \in Nat /\ MaxReplies \in Nat

VARIABLES
  pc,        \* where each sender is; nobody sends before the handshake
  sum,       \* the checksum in the header it has made
  outSum,    \* to_client_checksum
  writer,    \* who holds the mutex on the write half
  buffer,    \* written and not flushed
  wire,      \* flushed: the handshake, then frames, each with its checksum
  cipher,    \* rc4_key
  inSum,     \* from_gserver_checksum
  levels,    \* process_packet_bundle: what is left of each bundle it is in
  queue,     \* packet_queue
  reader,    \* "read", "process", "failed" (an error) or "panicked"
  fetched,   \* how many of the server's frames the reader has fetched
  delivered, \* the packets read() has returned
  srvCipher, \* the server's cipher
  sent       \* the frames the server has sent, and its cipher at the start of each

sendVars == <<pc, sum, outSum, writer, buffer, wire>>
readVars == <<cipher, inSum, levels, queue, reader, fetched, delivered>>
srvVars  == <<srvCipher, sent>>
vars     == <<sendVars, readVars, srvVars>>

Handshake  == [what |-> "handshake", sum |-> 0]
Frame(n)   == [what |-> "frame", sum |-> n]
Plain      == [key |-> NoKey, pos |-> 0]

Init ==
  /\ pc = [s \in Senders |-> "connect"] /\ sum = [s \in Senders |-> 0]
  /\ outSum = 1 /\ writer = Nobody /\ buffer = <<>> /\ wire = <<>>
  /\ cipher = Plain /\ inSum = 1
  /\ levels = <<>> /\ queue = <<>> /\ reader = "read" /\ fetched = 0 /\ delivered = <<>>
  /\ srvCipher = Plain /\ sent = <<>>

-----------------------------------------------------------------------------
(* GClient::connect sends the handshake; then there is a client to send with *)

\* Nothing flushes the handshake.
SendHandshake ==
  /\ buffer = <<>> /\ \A s \in Senders : pc[s] = "connect"
  /\ buffer' = <<Handshake>>
  /\ pc' = [s \in Senders |-> "idle"]
  /\ UNCHANGED <<sum, outSum, writer, wire, readVars, srvVars>>

Go(s, l) == pc' = [pc EXCEPT ![s] = l]

LoadChecksum(s) ==
  /\ pc[s] = "idle"
  /\ sum' = [sum EXCEPT ![s] = outSum]
  /\ Go(s, "count")
  /\ UNCHANGED <<outSum, writer, buffer, wire, readVars, srvVars>>

\* Mutant: the checksum starts over where it started at first.
CountFromOne(s) ==
  /\ pc[s] = "count"
  /\ outSum' = IF sum[s] = MaxChecksum THEN 1 ELSE (outSum + 1) % (MaxChecksum + 1)
  /\ Go(s, "lock")
  /\ UNCHANGED <<sum, writer, buffer, wire, readVars, srvVars>>

\* The test is on the value loaded before, the addition on the one stored now.
CountChecksum(s) ==
  /\ pc[s] = "count"
  /\ outSum' = IF sum[s] = MaxChecksum THEN 0 ELSE (outSum + 1) % (MaxChecksum + 1)
  /\ Go(s, "lock")
  /\ UNCHANGED <<sum, writer, buffer, wire, readVars, srvVars>>

LockWriter(s) ==
  /\ pc[s] = "lock" /\ writer = Nobody
  /\ Len(wire) <= MaxFrames
  /\ writer' = s
  /\ Go(s, "write")
  /\ UNCHANGED <<sum, outSum, buffer, wire, readVars, srvVars>>

WriteFrame(s) ==
  /\ pc[s] = "write"
  /\ wire' = wire \o Append(buffer, Frame(sum[s]))
  /\ buffer' = <<>>
  /\ writer' = Nobody
  /\ Go(s, "idle")
  /\ UNCHANGED <<sum, outSum, readVars, srvVars>>

-----------------------------------------------------------------------------
(* read() and read_from_stream *)

Advance(c, bytes) == IF c.key = NoKey THEN c ELSE [c EXCEPT !.pos = @ + bytes]

\* Header and payload go through the cipher one after the other.  With another
\* cipher than the server's the header is noise: it is refused, its length is
\* too small to subtract the header's from, or it passes for any packet's.
Fetch ==
  /\ reader = "read" /\ queue = <<>>
  /\ fetched < Len(sent)
  /\ LET f == sent[fetched + 1] IN
       /\ cipher' = Advance(cipher, HeaderLength + f.packet.size)
       /\ IF cipher # f.from
            THEN \/ reader' \in {"failed", "panicked"} /\ levels' = levels
                 \/ \E p \in Packets : reader' = "process" /\ levels' = <<<<p>>>>
          ELSE IF f.packet.flaw \in {"header", "short"}
            THEN /\ reader' = IF f.packet.flaw = "header" THEN "failed" ELSE "panicked"
                 /\ levels' = levels
          ELSE reader' = "process" /\ levels' = <<<<f.packet>>>>
  /\ fetched' = fetched + 1
  /\ UNCHANGED <<sendVars, inSum, queue, delivered, srvVars>>

\* read() returns a copy of the first packet, then takes it off the queue; both
\* are the read loop's.
Pop ==
  /\ reader = "read" /\ queue # <<>>
  /\ delivered' = Append(delivered, Head(queue))
  /\ queue' = Tail(queue)
  /\ UNCHANGED <<sendVars, cipher, inSum, levels, reader, fetched, srvVars>>

-----------------------------------------------------------------------------
(* process_packet_bundle, called for a frame as for a bundle with one packet *)

Level == Last(levels)

\* A packet is looked at only if there is more data than a header.
HasMore == Level # <<>> /\ (Len(Level) > 1 \/ Head(Level).size > 0)

\* The packet at the head of a level has been dealt with.
NextSum(packet)  == IF packet.sum = MaxChecksum THEN 0 ELSE packet.sum + 1
Shorten(nesting) == [nesting EXCEPT ![Len(nesting)] = Tail(@)]

Processing(flaws) == reader = "process" /\ HasMore /\ Head(Level).flaw \in flaws

RefusePacket ==
  /\ Processing({"header", "short", "body"})
  /\ reader' = IF Head(Level).flaw = "short" THEN "panicked" ELSE "failed"
  /\ UNCHANGED <<sendVars, cipher, inSum, levels, queue, fetched, delivered, srvVars>>

OpenBundle ==
  /\ Processing({"none"}) /\ Head(Level).what = "bundle"
  /\ levels' = Append(levels, Head(Level).parts)
  /\ UNCHANGED <<sendVars, cipher, inSum, queue, reader, fetched, delivered, srvVars>>

\* Mutant: a new key goes on where the old one was.
QueuePacketKeepsPos ==
  LET p == Head(Level) IN
  /\ Processing({"none"}) /\ p.what # "bundle"
  /\ cipher' = IF p.what = "key" THEN [cipher EXCEPT !.key = p.key] ELSE cipher
  /\ inSum' = NextSum(p)
  /\ queue' = Append(queue, p)
  /\ levels' = Shorten(levels)
  /\ UNCHANGED <<sendVars, reader, fetched, delivered, srvVars>>

\* Mutant: a checksum of 255 is not looked out for.
QueuePacketNoWrap ==
  LET p == Head(Level) IN
  /\ Processing({"none"}) /\ p.what # "bundle"
  /\ cipher' = IF p.what = "key" THEN [key |-> p.key, pos |-> 0] ELSE cipher
  /\ inSum' = p.sum + 1
  /\ queue' = Append(queue, p)
  /\ levels' = Shorten(levels)
  /\ UNCHANGED <<sendVars, reader, fetched, delivered, srvVars>>

\* A key packet replaces the cipher, and is queued like any other.
QueuePacket ==
  LET p == Head(Level) IN
  /\ Processing({"none"}) /\ p.what # "bundle"
  /\ cipher' = IF p.what = "key" THEN [key |-> p.key, pos |-> 0] ELSE cipher
  /\ inSum' = NextSum(p)
  /\ queue' = Append(queue, p)
  /\ levels' = Shorten(levels)
  /\ UNCHANGED <<sendVars, reader, fetched, delivered, srvVars>>

\* Mutant: what follows the bundle is dropped with it.
EndBundleAndFrame ==
  /\ reader = "process"
  /\ HasMore => Head(Level).flaw = "long"
  /\ levels' = <<>> /\ reader' = "read" /\ inSum' = inSum
  /\ UNCHANGED <<sendVars, cipher, queue, fetched, delivered, srvVars>>

\* A bundle ends with a header alone, with a packet that is longer than what is
\* left, or with its last packet; its own checksum comes after theirs.
EndBundle ==
  /\ reader = "process"
  /\ HasMore => Head(Level).flaw = "long"
  /\ IF Len(levels) = 1
       THEN levels' = <<>> /\ reader' = "read" /\ inSum' = inSum
       ELSE LET outer == Front(levels) IN
            /\ inSum' = NextSum(Head(Last(outer)))
            /\ levels' = Shorten(outer)
            /\ reader' = reader
  /\ UNCHANGED <<sendVars, cipher, queue, fetched, delivered, srvVars>>

-----------------------------------------------------------------------------
(* The server *)

\* The packets in a packet that are not bundles, in order.
Leaves[p \in Packets] ==
  IF p.what = "bundle" THEN FlattenSeq([i \in 1..Len(p.parts) |-> Leaves[p.parts[i]]]) ELSE <<p>>

Keys(packets) ==
  FlattenSeq([i \in 1..Len(packets) |-> IF packets[i].what = "key" THEN <<packets[i]>> ELSE <<>>])

\* The server encrypts with the last key it has sent, from the next frame on.
ServerSend ==
  /\ Len(sent) < MaxReplies
  /\ \E f \in Frames :
       LET keys == Keys(Leaves[f]) IN
       /\ sent' = Append(sent, [packet |-> f, from |-> srvCipher])
       /\ srvCipher' = IF keys # <<>> THEN [key |-> Last(keys).key, pos |-> 0]
                       ELSE Advance(srvCipher, HeaderLength + f.size)
  /\ UNCHANGED <<sendVars, readVars>>

-----------------------------------------------------------------------------
SendStep(s) == LoadChecksum(s) \/ CountChecksum(s) \/ LockWriter(s) \/ WriteFrame(s)

Next ==
  \/ SendHandshake
  \/ \E s \in Senders : SendStep(s)
  \/ Fetch \/ Pop \/ RefusePacket \/ OpenBundle \/ QueuePacket \/ EndBundle
  \/ ServerSend

Spec == Init /\ [][Next]_vars

-----------------------------------------------------------------------------
(* Properties *)

Ciphers  == [key : {NoKey} \cup {p.key : p \in Packets}, pos : Nat]
Outgoing == [what : {"handshake", "frame"}, sum : 0..MaxChecksum]

\* Every variable keeps its type: the checksums, above all, stay bytes.
SendTypeOK ==
  /\ pc \in [Senders -> {"connect", "idle", "count", "lock", "write"}]
  /\ sum \in [Senders -> 0..MaxChecksum]
  /\ outSum \in 0..MaxChecksum
  /\ writer \in Senders \cup {Nobody}
  /\ buffer \in Seq(Outgoing) /\ wire \in Seq(Outgoing)
TypeOK ==
  /\ SendTypeOK
  /\ inSum \in 0..MaxChecksum
  /\ cipher \in Ciphers /\ srvCipher \in Ciphers
  /\ levels \in Seq(Seq(Packets)) /\ reader = "process" => levels # <<>>
  /\ queue \in Seq(Packets) /\ delivered \in Seq(Packets)
  /\ reader \in {"read", "process", "failed", "panicked"}
  /\ sent \in Seq([packet : Frames, from : Ciphers])
  /\ fetched \in 0..Len(sent)

\* The server sees the handshake first, then frames numbered from 1 up, with 0
\* after 255.  (Two tasks that send at once may use a number twice and then
\* miss one out, or write their frames in the other order.)
Succ(n) == IF n = MaxChecksum THEN 0 ELSE n + 1
NumberedInOrder ==
  /\ wire # <<>> => wire[1] = Handshake
  /\ \A i \in 2..Len(wire) :
       wire[i] = Frame(IF i = 2 THEN 1 ELSE Succ(wire[i - 1].sum))

\* What a sender on its own is about to write continues what is written, and the
\* handshake is in front of it.
NextNumber == IF Len(wire) < 2 THEN 1 ELSE Succ(wire[Len(wire)].sum)
SendInv(s) ==
  /\ pc[s] = "connect" => wire = <<>> /\ buffer = <<>>
  /\ pc[s] # "connect" => buffer = IF wire = <<>> THEN <<Handshake>> ELSE <<>>
  /\ pc[s] \in {"connect", "idle", "count"} => outSum = NextNumber
  /\ pc[s] \in {"count", "lock", "write"} => sum[s] = NextNumber
  /\ pc[s] \in {"lock", "write"} => outSum = Succ(sum[s])
IInv == SendTypeOK /\ NumberedInOrder /\ \A s \in Senders : SendInv(s)

\* A packet with nothing wrong in it.
Sound[p \in Packets] == p.flaw = "none" /\ \A i \in 1..Len(p.parts) : Sound[p.parts[i]]
AllSound == \A i \in 1..fetched : Sound[sent[i].packet]

\* While the server sends nothing wrong, the reader starts every frame with the
\* server's cipher: bundled or not, dropped or not, each packet moves both alike.
KeyInStep ==
  AllSound /\ reader = "read" =>
    cipher = IF fetched < Len(sent) THEN sent[fetched + 1].from ELSE srvCipher

\* Then, too, read() does not fail, and returns the packets that have a payload
\* in the order the server wrote them, however they are bundled.  (One without
\* is lost if it is a frame or the last in its bundle.)  Key packets are among
\* them: the code queues them, though the comment above it says that it does not.
AllLeaves(packets) == FlattenSeq([i \in 1..Len(packets) |-> Leaves[packets[i]]])
Pending ==
  LET n == Len(levels)
      rest(i) == IF i = n THEN levels[i] ELSE Tail(levels[i])
  IN  FlattenSeq([i \in 1..n |-> AllLeaves(rest(n + 1 - i))])
WithPayload(packets) ==
  FlattenSeq([i \in 1..Len(packets) |-> IF packets[i].size > 0 THEN <<packets[i]>> ELSE <<>>])
ReadsWhatWasSent == AllSound =>
  /\ reader \notin {"failed", "panicked"}
  /\ WithPayload(delivered \o queue \o Pending)
       = WithPayload(AllLeaves([i \in 1..fetched |-> sent[i].packet]))
=============================================================================
