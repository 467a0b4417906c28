--------------------------- MODULE ProtocolV6Proofs ---------------------------
(***************************************************************************)
(* A v6 connection.  If one task sends, one packet after the other, the    *)
(* server gets the handshake and then frames whose checksums count on      *)
(* modulo 256, however many there are and whatever the read loop does.     *)
(* However many tasks send, the reader keeps in step with the server: as   *)
(* long as the server sends nothing wrong, read() starts each frame with   *)
(* the server's cipher and loses no packet that has a payload, however     *)
(* deep its bundles are nested.                                            *)
(***************************************************************************)
EXTENDS ProtocolV6, DataInduction

-----------------------------------------------------------------------------
(* The sending side *)

\* No two tasks send.
Serial == \A s, t \in Senders : s = t

\* Checksums are natural numbers up to the largest, and there is more than one.
LEMMA Constants == /\ MaxChecksum \in Nat /\ MaxChecksum > 0
                   /\ Nobody \notin Senders
  BY ConstantsOK DEF ConstantsOK

\* A checksum's successor is a checksum; both ways of counting on reach it.
LEMMA Counting ==
  ASSUME NEW n \in 0..MaxChecksum
  PROVE  /\ Succ(n) \in 0..MaxChecksum
         /\ (IF n = MaxChecksum THEN 0 ELSE (n + 1) % (MaxChecksum + 1)) = Succ(n)
<1>1. MaxChecksum \in Nat /\ n \in Nat /\ n <= MaxChecksum
  BY Constants
<1>2. CASE n = MaxChecksum
  BY <1>1, <1>2 DEF Succ
<1>3. CASE n # MaxChecksum
  <2>1. n + 1 < MaxChecksum + 1
    BY <1>1, <1>3
  <2>2. ASSUME NEW a \in Nat, NEW b \in Nat, a < b PROVE a % b = a
    BY <2>2
  <2>3. (n + 1) % (MaxChecksum + 1) = n + 1
    BY <1>1, <2>1, <2>2
  <2> QED BY <1>1, <1>3, <2>1, <2>3 DEF Succ
<1> QED BY <1>2, <1>3

\* A frame can be written, and so can the handshake.
LEMMA WhatIsWritten ==
  /\ Handshake \in Outgoing
  /\ \A n \in 0..MaxChecksum : Frame(n) \in Outgoing /\ Frame(n).sum = n
  BY Constants DEF Handshake, Frame, Outgoing

\* A connection starts in a state of the inductive invariant.
LEMMA InitInv == Init => IInv
<1> SUFFICES ASSUME Init PROVE IInv
  OBVIOUS
<1>1. SendTypeOK
  BY Constants DEF Init, SendTypeOK
<1>2. NumberedInOrder
  BY DEF Init, NumberedInOrder
<1>3. \A s \in Senders : SendInv(s)
  BY DEF Init, SendInv, NextNumber
<1> QED BY <1>1, <1>2, <1>3 DEF IInv

\* Every step keeps the types of the sending side.
LEMMA TypeStep == ASSUME SendTypeOK, [Next]_vars PROVE SendTypeOK'
<1> USE DEF SendTypeOK, sendVars, Go
<1>1. CASE SendHandshake
  <2>1. buffer' \in Seq(Outgoing)
    BY <1>1, WhatIsWritten DEF SendHandshake
  <2> QED BY <1>1, <2>1 DEF SendHandshake
<1>2. ASSUME NEW s \in Senders, LoadChecksum(s) PROVE SendTypeOK'
  BY <1>2 DEF LoadChecksum
<1>3. ASSUME NEW s \in Senders, CountChecksum(s) PROVE SendTypeOK'
  <2>1. outSum' \in 0..MaxChecksum
    <3>1. /\ (outSum + 1) % (MaxChecksum + 1) \in 0..MaxChecksum
          /\ 0 \in 0..MaxChecksum
      BY Constants
    <3>2. outSum' \in {0, (outSum + 1) % (MaxChecksum + 1)}
      BY <1>3 DEF CountChecksum
    <3> QED BY <3>1, <3>2
  <2> QED BY <1>3, <2>1 DEF CountChecksum
<1>4. ASSUME NEW s \in Senders, LockWriter(s) PROVE SendTypeOK'
  BY <1>4 DEF LockWriter
<1>5. ASSUME NEW s \in Senders, WriteFrame(s) PROVE SendTypeOK'
  <2>1. Append(buffer, Frame(sum[s])) \in Seq(Outgoing)
    BY WhatIsWritten, AppendProperties
  <2>2. wire' \in Seq(Outgoing)
    BY <1>5, <2>1, ConcatProperties DEF WriteFrame
  <2>3. buffer' \in Seq(Outgoing)
    BY <1>5 DEF WriteFrame
  <2> QED BY <1>5, <2>2, <2>3 DEF WriteFrame
<1>6. CASE UNCHANGED sendVars
  BY <1>6
<1> QED BY <1>1, <1>2, <1>3, <1>4, <1>5, <1>6
        DEF Next, SendStep, Fetch, Pop, RefusePacket, OpenBundle, QueuePacket, EndBundle,
            ServerSend, vars

\* A frame that continues what is written keeps it in order.
LEMMA WriteInOrder ==
  ASSUME NEW s \in Senders, IInv, WriteFrame(s)
  PROVE  /\ NumberedInOrder'
         /\ wire' # <<>> /\ Len(wire') > 1 /\ wire'[Len(wire')].sum = sum[s]
<1> DEFINE n == Len(wire)
           f == Frame(sum[s])
<1>1. /\ pc[s] = "write" /\ wire' = wire \o Append(buffer, f)
      /\ sum[s] \in 0..MaxChecksum /\ wire \in Seq(Outgoing) /\ n \in Nat
  BY DEF WriteFrame, IInv, SendTypeOK
<1>2. /\ buffer = IF wire = <<>> THEN <<Handshake>> ELSE <<>>
      /\ sum[s] = NextNumber
      /\ f \in Outgoing /\ f.sum = sum[s] /\ Handshake \in Outgoing
  BY <1>1, WhatIsWritten DEF IInv, SendInv
<1>3. CASE wire = <<>>
  <2>0. buffer = <<Handshake>> /\ buffer \in Seq(Outgoing)
    BY <1>2, <1>3
  <2>1. wire' = Append(buffer, f)
    <3>1. Append(buffer, f) \in Seq(Outgoing)
      BY <1>2, <2>0, AppendProperties
    <3> QED BY <1>1, <1>3, <3>1, ConcatEmptySeq
  <2>3. /\ Len(wire') = 2 /\ wire' # <<>>
        /\ wire'[1] = Handshake /\ wire'[2] = f
    <3>1. Len(buffer) = 1 /\ buffer[1] = Handshake
      BY <2>0
    <3> HIDE DEF f
    <3> QED BY <1>2, <2>0, <2>1, <3>1, AppendProperties
  <2>2. sum[s] = 1
    BY <1>2, <1>3 DEF NextNumber
  <2> QED BY <1>2, <2>2, <2>3 DEF NumberedInOrder
<1>4. CASE wire # <<>>
  <2>1. wire' = Append(wire, f)
    BY <1>1, <1>2, <1>4
  <2>2. /\ Len(wire') = n + 1 /\ wire'[n + 1] = f
        /\ \A i \in 1..n : wire'[i] = wire[i]
    BY <1>1, <1>2, <2>1, AppendProperties
  <2>3. n > 0
    BY <1>1, <1>4
  <2>4. f = Frame(IF n + 1 = 2 THEN 1 ELSE Succ(wire[n].sum))
    BY <1>1, <1>2, <2>3 DEF NextNumber
  <2>5. wire[1] = Handshake /\ \A i \in 2..n :
          wire[i] = Frame(IF i = 2 THEN 1 ELSE Succ(wire[i - 1].sum))
    BY <1>4 DEF IInv, NumberedInOrder
  <2> HIDE DEF n, f
  <2>6. ASSUME NEW i \in 2..(n + 1)
        PROVE  wire'[i] = Frame(IF i = 2 THEN 1 ELSE Succ(wire'[i - 1].sum))
    <3>1. i - 1 \in 1..n
      BY <1>1
    <3>2. wire'[i - 1] = wire[i - 1]
      BY <2>2, <3>1, Zenon
    <3>3. CASE i = n + 1
      <4>1. i - 1 = n
        BY <1>1, <3>3
      <4> QED BY <2>2, <2>4, <3>2, <3>3, <4>1, Zenon
    <3>4. CASE i # n + 1
      <4>1. i \in 2..n /\ i \in 1..n
        BY <1>1, <3>4
      <4> QED BY <2>2, <2>5, <3>2, <4>1, Zenon
    <3> QED BY <3>3, <3>4
  <2>7. wire'[1] = Handshake
    BY <1>1, <2>2, <2>3, <2>5
  <2>8. NumberedInOrder'
    <3> HIDE DEF IInv
    <3> QED BY <2>2, <2>6, <2>7 DEF NumberedInOrder
  <2> QED BY <1>1, <1>2, <2>2, <2>3, <2>8
<1> QED BY <1>3, <1>4

\* Every step keeps what is known of the only sender.
LEMMA SenderStep ==
  ASSUME Serial, IInv, [Next]_vars, NEW s \in Senders PROVE SendInv(s)'
<1>1. /\ pc \in [Senders -> {"connect", "idle", "count", "lock", "write"}]
      /\ sum \in [Senders -> 0..MaxChecksum] /\ outSum \in 0..MaxChecksum
      /\ wire \in Seq(Outgoing)
  BY DEF IInv, SendTypeOK
<1>2. SendInv(s)
  BY DEF IInv
<1>3. CASE SendHandshake
  BY <1>1, <1>2, <1>3 DEF SendHandshake, SendInv, NextNumber
<1>4. CASE LoadChecksum(s)
  BY <1>1, <1>2, <1>4 DEF LoadChecksum, Go, SendInv, NextNumber
<1>5. CASE CountChecksum(s)
  <2>1. sum[s] = outSum /\ outSum' = Succ(sum[s])
    <3>1. sum[s] = outSum
      BY <1>2, <1>5 DEF CountChecksum, SendInv
    <3> QED BY <1>1, <1>5, <3>1, Counting DEF CountChecksum
  <2> QED BY <1>1, <1>2, <1>5, <2>1 DEF CountChecksum, Go, SendInv, NextNumber
<1>6. CASE LockWriter(s)
  BY <1>1, <1>2, <1>6 DEF LockWriter, Go, SendInv, NextNumber
<1>7. CASE WriteFrame(s)
  <2>1. /\ wire' # <<>> /\ Len(wire') > 1 /\ wire'[Len(wire')].sum = sum[s]
    BY <1>7, WriteInOrder
  <2>2. outSum = Succ(sum[s])
    BY <1>2, <1>7 DEF WriteFrame, SendInv
  <2>3. NextNumber' = Succ(sum[s])
    BY <1>7, <2>1 DEF NextNumber, Succ
  <2> QED BY <1>1, <1>7, <2>1, <2>2, <2>3 DEF WriteFrame, Go, SendInv
<1>8. CASE UNCHANGED sendVars
  BY <1>2, <1>8 DEF sendVars, SendInv, NextNumber
<1> QED BY <1>3, <1>4, <1>5, <1>6, <1>7, <1>8
        DEF Serial, Next, SendStep, Fetch, Pop, RefusePacket, OpenBundle, QueuePacket, EndBundle,
            ServerSend, vars

\* A connection with one sender keeps the inductive invariant.
LEMMA InvStep == Serial /\ IInv /\ [Next]_vars => IInv'
<1> SUFFICES ASSUME Serial, IInv, [Next]_vars PROVE IInv'
  OBVIOUS
<1>1. SendTypeOK'
  BY TypeStep DEF IInv
<1>2. NumberedInOrder'
  <2>1. CASE \E s \in Senders : WriteFrame(s)
    BY <2>1, WriteInOrder
  <2>2. CASE UNCHANGED wire
    BY <2>2 DEF IInv, NumberedInOrder
  <2> QED BY <2>1, <2>2
          DEF Next, SendStep, SendHandshake, LoadChecksum, CountChecksum, LockWriter, Fetch, Pop,
              RefusePacket, OpenBundle, QueuePacket, EndBundle, ServerSend, vars, sendVars
<1>3. \A s \in Senders : SendInv(s)'
  BY SenderStep
<1> QED BY <1>1, <1>2, <1>3 DEF IInv

\* The invariant of the sending side holds throughout a connection with one sender.
THEOREM SerialInvariance == ASSUME Serial PROVE Spec => []IInv
<1>1. Init => IInv
  BY InitInv
<1>2. IInv /\ [Next]_vars => IInv'
  BY InvStep
<1> QED BY <1>1, <1>2, PTL DEF Spec

\* With one sender the handshake comes first, and each frame's checksum is the next.
THEOREM SerialSendsAreNumbered == ASSUME Serial PROVE Spec => []NumberedInOrder
<1>1. IInv => NumberedInOrder
  BY DEF IInv
<1> QED BY <1>1, SerialInvariance, PTL

-----------------------------------------------------------------------------
(* Packets in bundles *)

\* What is assumed of packets, where it is needed.
LEMMA PacketFacts ==
  ASSUME NEW p \in Packets
  PROVE  /\ p.size \in Nat /\ p.sum \in 0..MaxChecksum /\ p.parts \in Seq(Packets)
         /\ p.what = "key" => p.size > 0
         /\ Len(p.parts) \in Nat
         /\ \A i \in 1..Len(p.parts) : p.parts[i] \in Packets /\ p.parts[i].size < p.size
<1>1. /\ p.size \in Nat /\ p.sum \in 0..MaxChecksum /\ p.parts \in Seq(Packets)
      /\ p.what = "key" => p.size > 0
      /\ \A i \in 1..Len(p.parts) : p.parts[i].size < p.size
  BY ConstantsOK, Zenon DEF ConstantsOK
<1> QED BY <1>1, LenProperties, ElementOfSeq

\* What the recursion over nested bundles goes down along.
PacketSize == [p \in Packets |-> p.size]

\* Leaves is what its definition says: bundles are nested finitely.
LEMMA LeavesDefined ==
  Leaves = [p \in Packets |->
              IF p.what = "bundle" THEN FlattenSeq([i \in 1..Len(p.parts) |-> Leaves[p.parts[i]]])
              ELSE <<p>>]
<1> DEFINE V == Seq(Packets)
           Body(g) == [p \in Packets |->
                         IF p.what = "bundle"
                           THEN FlattenSeq([i \in 1..Len(p.parts) |-> g[p.parts[i]]]) ELSE <<p>>]
           F == [g \in [Packets -> V] |-> Body(g)]
<1>1. ASSUME NEW g \in [Packets -> V] PROVE Body(g) \in [Packets -> V]
  <2>1. ASSUME NEW p \in Packets PROVE Body(g)[p] \in V
    <3>1. FlattenSeq([i \in 1..Len(p.parts) |-> g[p.parts[i]]]) \in Seq(Packets)
      <4>1. p.parts \in Seq(Packets)
        BY PacketFacts
      <4>2. [i \in 1..Len(p.parts) |-> g[p.parts[i]]] \in Seq(Seq(Packets))
        BY <4>1, MapType
      <4> QED BY <4>2, FlattenType, Zenon
    <3>2. <<p>> \in Seq(Packets)
      OBVIOUS
    <3> QED BY <3>1, <3>2
  <2> HIDE DEF V
  <2> QED BY <2>1
<1>2. F \in [[Packets -> V] -> [Packets -> V]]
  <2> HIDE DEF V, Body
  <2> QED BY <1>1
<1>3. PacketSize \in [Packets -> Nat]
  BY PacketFacts DEF PacketSize
<1>4. ASSUME NEW g \in [Packets -> V], NEW h \in [Packets -> V], NEW p \in Packets,
             \A q \in Packets : PacketSize[q] < PacketSize[p] => g[q] = h[q]
      PROVE  F[g][p] = F[h][p]
  <2>1. \A i \in 1..Len(p.parts) : g[p.parts[i]] = h[p.parts[i]]
    BY <1>4, PacketFacts DEF PacketSize
  <2>2. [i \in 1..Len(p.parts) |-> g[p.parts[i]]] = [i \in 1..Len(p.parts) |-> h[p.parts[i]]]
    BY <2>1
  <2>3. Body(g)[p] = Body(h)[p]
    BY <2>2
  <2>4. F[g] = Body(g) /\ F[h] = Body(h)
    OBVIOUS
  <2> HIDE DEF F, Body
  <2> QED BY <2>3, <2>4, Zenon
<1>5. [Packets -> V] # {}
  <2>1. [p \in Packets |-> <<>>] \in [Packets -> V]
    OBVIOUS
  <2> QED BY <2>1, Zenon
<1>6. Recurses(F, Packets, V, PacketSize)
  <2> HIDE DEF F, V
  <2> QED BY <1>2, <1>3, <1>4, <1>5, Zenon DEF Recurses
<1>7. \E f : f \in [Packets -> V] /\ f = F[f]
  <2> HIDE DEF F, V
  <2> QED BY <1>6, Recursion
<1>8. \E f : f = Body(f)
  <2> HIDE DEF Body, V
  <2> QED BY <1>7
<1> QED BY <1>8, Zenon DEF Leaves

\* The packets in a packet are packets.
LEMMA LeavesType == Leaves \in [Packets -> Seq(Packets)]
<1> DEFINE G == {p \in Packets : Leaves[p] \in Seq(Packets)}
<1>1. ASSUME NEW p \in Packets, \A q \in Packets : PacketSize[q] < PacketSize[p] => q \in G
      PROVE  p \in G
  <2>1. CASE p.what = "bundle"
    <3>1. \A i \in 1..Len(p.parts) : Leaves[p.parts[i]] \in Seq(Packets)
      BY <1>1, PacketFacts DEF PacketSize
    <3>2. [i \in 1..Len(p.parts) |-> Leaves[p.parts[i]]] \in [1..Len(p.parts) -> Seq(Packets)]
      BY <3>1, Zenon
    <3>3. [i \in 1..Len(p.parts) |-> Leaves[p.parts[i]]] \in Seq(Seq(Packets))
      BY <3>2, PacketFacts, SeqDef
    <3>4. Leaves[p] = FlattenSeq([i \in 1..Len(p.parts) |-> Leaves[p.parts[i]]])
      BY <2>1, LeavesDefined, Zenon
    <3> QED BY <3>3, <3>4, FlattenType
  <2>2. CASE p.what # "bundle"
    <3>1. Leaves[p] = <<p>>
      BY <2>2, LeavesDefined, Zenon
    <3>2. <<p>> \in Seq(Packets)
      OBVIOUS
    <3> QED BY <3>1, <3>2, Zenon
  <2> QED BY <2>1, <2>2
<1>2. PacketSize \in [Packets -> Nat]
  BY PacketFacts DEF PacketSize
<1>3. Packets \subseteq G
  <2> HIDE DEF G
  <2> QED BY <1>1, <1>2, SizeInduction
<1>4. \E f : Leaves = [p \in Packets |-> f[p]]
  <2> DEFINE b == [p \in Packets |->
              IF p.what = "bundle" THEN FlattenSeq([i \in 1..Len(p.parts) |-> Leaves[p.parts[i]]])
              ELSE <<p>>]
  <2>1. b = [p \in Packets |-> b[p]]
    OBVIOUS
  <2>2. Leaves = b
    BY LeavesDefined, Zenon
  <2> QED BY <2>1, <2>2, Zenon
<1> QED BY <1>3, <1>4

\* Sound is what its definition says.
LEMMA SoundDefined ==
  Sound = [p \in Packets |-> p.flaw = "none" /\ \A i \in 1..Len(p.parts) : Sound[p.parts[i]]]
<1> DEFINE Body(g) == [p \in Packets |->
                         p.flaw = "none" /\ \A i \in 1..Len(p.parts) : g[p.parts[i]]]
           F == [g \in [Packets -> BOOLEAN] |-> Body(g)]
<1>1. ASSUME NEW g \in [Packets -> BOOLEAN] PROVE Body(g) \in [Packets -> BOOLEAN]
  BY Zenon
<1>2. F \in [[Packets -> BOOLEAN] -> [Packets -> BOOLEAN]]
  <2> HIDE DEF Body
  <2> QED BY <1>1
<1>3. PacketSize \in [Packets -> Nat]
  BY PacketFacts DEF PacketSize
<1>4. ASSUME NEW g \in [Packets -> BOOLEAN], NEW h \in [Packets -> BOOLEAN], NEW p \in Packets,
             \A q \in Packets : PacketSize[q] < PacketSize[p] => g[q] = h[q]
      PROVE  F[g][p] = F[h][p]
  <2>1. \A i \in 1..Len(p.parts) : g[p.parts[i]] = h[p.parts[i]]
    BY <1>4, PacketFacts DEF PacketSize
  <2>2. Body(g)[p] = Body(h)[p]
    BY <2>1, Zenon
  <2>3. F[g] = Body(g) /\ F[h] = Body(h)
    BY Zenon
  <2> HIDE DEF F, Body
  <2> QED BY <2>2, <2>3, Zenon
<1>5. [Packets -> BOOLEAN] # {}
  <2>1. [p \in Packets |-> TRUE] \in [Packets -> BOOLEAN]
    OBVIOUS
  <2> QED BY <2>1, Zenon
<1>6. Recurses(F, Packets, BOOLEAN, PacketSize)
  <2> HIDE DEF F
  <2> QED BY <1>2, <1>3, <1>4, <1>5, Zenon DEF Recurses
<1>7. \E f : f \in [Packets -> BOOLEAN] /\ f = F[f]
  <2> HIDE DEF F
  <2> QED BY <1>6, Recursion
<1>8. \E f : f = Body(f)
  <2> HIDE DEF Body
  <2> QED BY <1>7
<1> QED BY <1>8, Zenon DEF Sound

\* Which packets there are in a packet, or in one that is not a bundle.
LEMMA LeavesOf ==
  ASSUME NEW p \in Packets
  PROVE  /\ p.what = "bundle" => Leaves[p] = AllLeaves(p.parts)
         /\ p.what # "bundle" => Leaves[p] = <<p>>
<1>1. Leaves[p] = IF p.what = "bundle"
                    THEN FlattenSeq([i \in 1..Len(p.parts) |-> Leaves[p.parts[i]]]) ELSE <<p>>
  BY LeavesDefined, Zenon
<1> QED BY <1>1, Zenon DEF AllLeaves

\* A sound packet has nothing wrong with it nor with those in it.
LEMMA SoundParts ==
  ASSUME NEW p \in Packets, Sound[p]
  PROVE  p.flaw = "none" /\ \A i \in 1..Len(p.parts) : Sound[p.parts[i]]
<1>1. Sound[p] = (p.flaw = "none" /\ \A i \in 1..Len(p.parts) : Sound[p.parts[i]])
  BY SoundDefined, Zenon
<1> QED BY <1>1, Zenon

\* The three things that are done with every packet of a sequence.
LeafKeys    == [p \in Packets |-> IF p.what = "key" THEN <<p>> ELSE <<>>]
LeafPayload == [p \in Packets |-> IF p.size > 0 THEN <<p>> ELSE <<>>]

\* Each makes a sequence of packets of a packet.
LEMMA MapsType ==
  /\ Leaves \in [Packets -> Seq(Packets)]
  /\ LeafKeys \in [Packets -> Seq(Packets)]
  /\ LeafPayload \in [Packets -> Seq(Packets)]
<1>1. \A p \in Packets : <<p>> \in Seq(Packets) /\ <<>> \in Seq(Packets)
  OBVIOUS
<1> QED BY <1>1, LeavesType DEF LeafKeys, LeafPayload

\* They are what AllLeaves, Keys and WithPayload do.
LEMMA AreMaps ==
  ASSUME NEW s \in Seq(Packets)
  PROVE  /\ AllLeaves(s) = FlatMap(Leaves, s)
         /\ Keys(s) = FlatMap(LeafKeys, s)
         /\ WithPayload(s) = FlatMap(LeafPayload, s)
<1>1. \A i \in 1..Len(s) : s[i] \in Packets
  BY ElementOfSeq
<1>2. /\ \A i \in 1..Len(s) : LeafKeys[s[i]] = IF s[i].what = "key" THEN <<s[i]>> ELSE <<>>
      /\ \A i \in 1..Len(s) : LeafPayload[s[i]] = IF s[i].size > 0 THEN <<s[i]>> ELSE <<>>
  BY <1>1, Zenon DEF LeafKeys, LeafPayload
<1>3. [i \in 1..Len(s) |-> IF s[i].what = "key" THEN <<s[i]>> ELSE <<>>]
        = [i \in 1..Len(s) |-> LeafKeys[s[i]]]
  BY <1>2, Zenon
<1>4. [i \in 1..Len(s) |-> IF s[i].size > 0 THEN <<s[i]>> ELSE <<>>]
        = [i \in 1..Len(s) |-> LeafPayload[s[i]]]
  BY <1>2, Zenon
<1> QED BY <1>3, <1>4, Zenon DEF AllLeaves, Keys, WithPayload, FlatMap

\* They go with concatenation;
LEMMA MapsConcat ==
  ASSUME NEW s \in Seq(Packets), NEW t \in Seq(Packets)
  PROVE  /\ AllLeaves(s \o t) = AllLeaves(s) \o AllLeaves(t)
         /\ Keys(s \o t) = Keys(s) \o Keys(t)
         /\ WithPayload(s \o t) = WithPayload(s) \o WithPayload(t)
<1>1. s \o t \in Seq(Packets)
  BY ConcatProperties
<1>2. ASSUME NEW f \in [Packets -> Seq(Packets)]
      PROVE  FlatMap(f, s \o t) = FlatMap(f, s) \o FlatMap(f, t)
  BY FlatMapConcat
<1> QED BY <1>1, <1>2, AreMaps, MapsType, Zenon

\* they make a sequence of packets,
LEMMA MapsTyped ==
  ASSUME NEW s \in Seq(Packets)
  PROVE  /\ AllLeaves(s) \in Seq(Packets)
         /\ Keys(s) \in Seq(Packets)
         /\ WithPayload(s) \in Seq(Packets)
<1>1. \A f \in [Packets -> Seq(Packets)] : FlatMap(f, s) \in Seq(Packets)
  BY FlatMapType
<1> QED BY <1>1, AreMaps, MapsType, Zenon

\* nothing of nothing,
LEMMA MapsEmpty == AllLeaves(<<>>) = <<>> /\ Keys(<<>>) = <<>> /\ WithPayload(<<>>) = <<>>
<1>1. <<>> \in Seq(Packets)
  OBVIOUS
<1> QED BY <1>1, AreMaps, FlatMapEmpty

\* and of one packet what is in it, or is a key, or has a payload.
LEMMA MapsOne ==
  ASSUME NEW p \in Packets
  PROVE  /\ AllLeaves(<<p>>) = Leaves[p]
         /\ Keys(<<p>>) = IF p.what = "key" THEN <<p>> ELSE <<>>
         /\ WithPayload(<<p>>) = IF p.size > 0 THEN <<p>> ELSE <<>>
<1>1. <<p>> \in Seq(Packets)
  OBVIOUS
<1>2. \A f \in [Packets -> Seq(Packets)] : FlatMap(f, <<p>>) = f[p]
  BY FlatMapOne
<1> QED BY <1>1, <1>2, AreMaps, MapsType, Zenon DEF LeafKeys, LeafPayload

-----------------------------------------------------------------------------
(* The levels of process_packet_bundle *)

\* Of the levels but the innermost, each is still at the bundle that is open.
Stacked(ls) == ls \in Seq(Seq(Packets)) /\ \A i \in 1..Len(ls) : i < Len(ls) => ls[i] # <<>>

\* What is left of the m outermost levels, but for the bundles that are open.
Outer(ls, m) == Back([i \in 1..m |-> AllLeaves(Tail(ls[i]))], m)

\* Pending, of any levels.
PendingOf(ls) ==
  Back([i \in 1..Len(ls) |-> AllLeaves(IF i = Len(ls) THEN ls[i] ELSE Tail(ls[i]))], Len(ls))

\* So it is written in the model, where the innermost level is counted from.
LEMMA PendingText ==
  ASSUME NEW ls \in Seq(Seq(Packets)), NEW n, n = Len(ls)
  PROVE  PendingOf(ls)
           = FlattenSeq([i \in 1..n |-> AllLeaves(IF n + 1 - i = n THEN ls[n + 1 - i]
                                                  ELSE Tail(ls[n + 1 - i]))])
<1> DEFINE g == [i \in 1..n |-> AllLeaves(IF i = n THEN ls[i] ELSE Tail(ls[i]))]
<1>1. n \in Nat
  BY LenProperties
<1>2. \A i \in 1..n : n + 1 - i \in 1..n
  BY <1>1
<1>3. [i \in 1..n |-> g[n + 1 - i]]
        = [i \in 1..n |-> AllLeaves(IF n + 1 - i = n THEN ls[n + 1 - i] ELSE Tail(ls[n + 1 - i]))]
  BY <1>2, Zenon
<1> QED BY <1>3, Zenon DEF PendingOf, Back

\* A level is a sequence of packets, and so is what follows its first.
LEMMA LevelFacts ==
  ASSUME NEW ls \in Seq(Seq(Packets)), NEW i \in 1..Len(ls)
  PROVE  /\ ls[i] \in Seq(Packets) /\ AllLeaves(ls[i]) \in Seq(Packets)
         /\ ls[i] # <<>> =>
              /\ Head(ls[i]) \in Packets /\ Tail(ls[i]) \in Seq(Packets)
              /\ AllLeaves(Tail(ls[i])) \in Seq(Packets)
              /\ AllLeaves(ls[i]) = Leaves[Head(ls[i])] \o AllLeaves(Tail(ls[i]))
<1>1. ls[i] \in Seq(Packets)
  BY ElementOfSeq
<1>2. AllLeaves(ls[i]) \in Seq(Packets)
  BY <1>1, MapsTyped
<1>3. ASSUME ls[i] # <<>>
      PROVE  /\ Head(ls[i]) \in Packets /\ Tail(ls[i]) \in Seq(Packets)
             /\ AllLeaves(Tail(ls[i])) \in Seq(Packets)
             /\ AllLeaves(ls[i]) = Leaves[Head(ls[i])] \o AllLeaves(Tail(ls[i]))
  <2> DEFINE h == Head(ls[i])  t == Tail(ls[i])
  <2>1. h \in Packets /\ t \in Seq(Packets)
    BY <1>1, <1>3, HeadTailProperties
  <2>2. <<h>> \in Seq(Packets) /\ ls[i] = <<h>> \o t
    BY <1>1, <1>3, <2>1
  <2> HIDE DEF h, t
  <2>3. AllLeaves(ls[i]) = Leaves[h] \o AllLeaves(t)
    BY <2>1, <2>2, MapsConcat, MapsOne
  <2>4. AllLeaves(t) \in Seq(Packets)
    BY <2>1, MapsTyped
  <2> QED BY <2>1, <2>3, <2>4 DEF h, t
<1> QED BY <1>1, <1>2, <1>3

\* A level further in comes before what is left of those around it.
LEMMA OuterStep ==
  ASSUME NEW ls \in Seq(Seq(Packets)), NEW m \in 0..Len(ls), \A i \in 1..m : ls[i] # <<>>
  PROVE  /\ Outer(ls, m) \in Seq(Packets)
         /\ m = 0 => Outer(ls, m) = <<>>
         /\ m # 0 => Outer(ls, m) = AllLeaves(Tail(ls[m])) \o Outer(ls, m - 1)
<1> DEFINE g == [i \in 1..m |-> AllLeaves(Tail(ls[i]))]
           h == [i \in 1..(m - 1) |-> AllLeaves(Tail(ls[i]))]
<1>1. m \in Nat /\ \A i \in 1..m : i \in 1..Len(ls)
  BY LenProperties
<1>2. \A i \in 1..m : g[i] \in Seq(Packets)
  BY <1>1, LevelFacts
<1>3. Outer(ls, m) = Back(g, m) /\ Outer(ls, m - 1) = Back(h, m - 1)
  BY Zenon DEF Outer
<1>4. m # 0 => m - 1 \in Nat /\ (\A i \in 1..(m - 1) : g[i] = h[i]) /\ g[m] = AllLeaves(Tail(ls[m]))
  BY <1>1
<1> HIDE DEF g, h
<1>5. m # 0 => Back(g, m - 1) = Back(h, m - 1)
  BY <1>4, BackSame
<1>6. /\ Back(g, m) \in Seq(Packets)
      /\ m = 0 => Back(g, m) = <<>>
      /\ m # 0 => Back(g, m) = g[m] \o Back(g, m - 1)
  BY <1>1, <1>2, BackStep
<1> QED BY <1>3, <1>4, <1>5, <1>6, Zenon

\* It looks no further in.
LEMMA OuterSame ==
  ASSUME NEW ls, NEW ls2, NEW m \in Nat, \A i \in 1..m : ls[i] = ls2[i]
  PROVE  Outer(ls, m) = Outer(ls2, m)
<1>1. [i \in 1..m |-> AllLeaves(Tail(ls[i]))] = [i \in 1..m |-> AllLeaves(Tail(ls2[i]))]
  BY Zenon
<1> QED BY <1>1, Zenon DEF Outer

\* First come the packets of the innermost level.
LEMMA PendingTop ==
  ASSUME NEW ls, Stacked(ls), ls # <<>>
  PROVE  /\ Len(ls) \in Nat \ {0} /\ Len(ls) - 1 \in 0..Len(ls)
         /\ ls[Len(ls)] \in Seq(Packets)
         /\ PendingOf(ls) = AllLeaves(ls[Len(ls)]) \o Outer(ls, Len(ls) - 1)
         /\ AllLeaves(ls[Len(ls)]) \in Seq(Packets)
         /\ Outer(ls, Len(ls) - 1) \in Seq(Packets)
         /\ PendingOf(ls) \in Seq(Packets)
<1> DEFINE n == Len(ls)
           g == [i \in 1..n |-> AllLeaves(IF i = n THEN ls[i] ELSE Tail(ls[i]))]
           h == [i \in 1..(n - 1) |-> AllLeaves(Tail(ls[i]))]
<1>1. ls \in Seq(Seq(Packets)) /\ n \in Nat \ {0} /\ n - 1 \in 0..n /\ n \in 1..n
  BY EmptySeq DEF Stacked
<1>2. ASSUME NEW i \in 1..n PROVE g[i] \in Seq(Packets)
  <2>1. i # n => ls[i] # <<>>
    BY <1>1 DEF Stacked
  <2> QED BY <1>1, <2>1, LevelFacts
<1>3. /\ \A i \in 1..(n - 1) : g[i] = h[i]
      /\ g[n] = AllLeaves(ls[n])
  BY <1>1
<1>4. PendingOf(ls) = Back(g, n) /\ Outer(ls, n - 1) = Back(h, n - 1)
  BY Zenon DEF PendingOf, Outer
<1>5. \A i \in 1..(n - 1) : ls[i] # <<>>
  <2>1. \A i \in 1..(n - 1) : i \in 1..n /\ i < n
    BY <1>1
  <2> QED BY <2>1, Zenon DEF Stacked
<1>6. Outer(ls, n - 1) \in Seq(Packets)
  BY <1>1, <1>5, OuterStep
<1>7. ls[n] \in Seq(Packets) /\ AllLeaves(ls[n]) \in Seq(Packets)
  BY <1>1, LevelFacts
<1> HIDE DEF g, h, n
<1>8. Back(g, n - 1) = Back(h, n - 1)
  BY <1>1, <1>3, BackSame
<1>9. Back(g, n) = g[n] \o Back(g, n - 1) /\ Back(g, n) \in Seq(Packets)
  BY <1>1, <1>2, BackStep
<1> QED BY <1>1, <1>3, <1>4, <1>6, <1>7, <1>8, <1>9 DEF n

\* Without levels nothing is pending.
LEMMA PendingNone == PendingOf(<<>>) = <<>> /\ Stacked(<<>>)
<1>1. Len(<<>>) = 0 /\ 0 \in Nat
  OBVIOUS
<1>2. ASSUME NEW g PROVE Back(g, 0) = <<>>
  <2>1. \A i \in 1..0 : g[i] \in Seq(Packets)
    OBVIOUS
  <2> QED BY <1>1, <2>1, BackStep
<1> QED BY <1>1, <1>2 DEF PendingOf, Stacked

\* The innermost level without its first packet.
LEMMA ShortenFacts ==
  ASSUME NEW ls, Stacked(ls), ls # <<>>, ls[Len(ls)] # <<>>
  PROVE  /\ Stacked(Shorten(ls)) /\ Len(Shorten(ls)) = Len(ls) /\ Shorten(ls) # <<>>
         /\ \A i \in 1..Len(ls) :
              Shorten(ls)[i] = IF i = Len(ls) THEN Tail(ls[i]) ELSE ls[i]
         /\ PendingOf(Shorten(ls)) = AllLeaves(Tail(ls[Len(ls)])) \o Outer(ls, Len(ls) - 1)
<1> DEFINE n == Len(ls)  ls2 == Shorten(ls)
<1>1. /\ ls \in Seq(Seq(Packets)) /\ n \in Nat \ {0} /\ n \in 1..n
      /\ ls[n] \in Seq(Packets) /\ Tail(ls[n]) \in Seq(Packets)
  BY EmptySeq, HeadTailProperties, ElementOfSeq DEF Stacked
<1>2. /\ ls2 \in Seq(Seq(Packets)) /\ Len(ls2) = n
      /\ \A i \in 1..n : ls2[i] = IF i = n THEN Tail(ls[i]) ELSE ls[i]
  BY <1>1, ExceptSeq DEF Shorten
<1>3. Stacked(ls2)
  <2> HIDE DEF ls2
  <2> QED BY <1>1, <1>2 DEF Stacked
<1>4. ls2 # <<>>
  <2> HIDE DEF ls2, n
  <2> QED BY <1>1, <1>2, EmptySeq
<1>5. Outer(ls2, n - 1) = Outer(ls, n - 1)
  <2>1. n - 1 \in Nat /\ \A i \in 1..(n - 1) : i \in 1..n /\ i # n
    BY <1>1
  <2>2. \A i \in 1..(n - 1) : ls2[i] = ls[i]
    BY <1>2, <2>1, Zenon
  <2> HIDE DEF ls2, n
  <2> QED BY <2>1, <2>2, OuterSame
<1> HIDE DEF ls2, n
<1>6. PendingOf(ls2) = AllLeaves(ls2[n]) \o Outer(ls2, n - 1)
  BY <1>2, <1>3, <1>4, PendingTop
<1>7. ls2[n] = Tail(ls[n])
  BY <1>1, <1>2, Zenon
<1> QED BY <1>1, <1>2, <1>3, <1>4, <1>5, <1>6, <1>7, Zenon DEF n, ls2

\* A packet that is no bundle is the first one pending, and is taken off.
LEMMA Queued ==
  ASSUME NEW ls, Stacked(ls), ls # <<>>, ls[Len(ls)] # <<>>,
         NEW p, p = Head(ls[Len(ls)]), p.what # "bundle"
  PROVE  /\ PendingOf(ls) = <<p>> \o PendingOf(Shorten(ls))
         /\ p \in Packets /\ PendingOf(Shorten(ls)) \in Seq(Packets)
<1> DEFINE n == Len(ls)
<1>1. ls \in Seq(Seq(Packets)) /\ n \in 1..n
  BY EmptySeq DEF Stacked
<1>2. /\ p \in Packets /\ AllLeaves(Tail(ls[n])) \in Seq(Packets)
      /\ AllLeaves(ls[n]) = Leaves[p] \o AllLeaves(Tail(ls[n]))
  BY <1>1, LevelFacts
<1>3. Leaves[p] = <<p>> /\ <<p>> \in Seq(Packets)
  BY <1>2, LeavesOf
<1>4. /\ PendingOf(ls) = AllLeaves(ls[n]) \o Outer(ls, n - 1)
      /\ Outer(ls, n - 1) \in Seq(Packets)
  BY PendingTop
<1>5. PendingOf(Shorten(ls)) = AllLeaves(Tail(ls[n])) \o Outer(ls, n - 1)
  BY ShortenFacts
<1> HIDE DEF n
<1>6. (<<p>> \o AllLeaves(Tail(ls[n]))) \o Outer(ls, n - 1)
        = <<p>> \o (AllLeaves(Tail(ls[n])) \o Outer(ls, n - 1))
  BY <1>2, <1>3, <1>4, ConcatAssociative
<1>7. PendingOf(Shorten(ls)) \in Seq(Packets)
  BY <1>2, <1>4, <1>5, ConcatProperties
<1> QED BY <1>2, <1>3, <1>4, <1>5, <1>6, <1>7

\* Opening a bundle does not change which packets are pending.
LEMMA Opened ==
  ASSUME NEW ls, Stacked(ls), ls # <<>>, ls[Len(ls)] # <<>>,
         NEW p, p = Head(ls[Len(ls)]), p.what = "bundle"
  PROVE  /\ Stacked(Append(ls, p.parts)) /\ Append(ls, p.parts) # <<>> /\ p \in Packets
         /\ PendingOf(Append(ls, p.parts)) = PendingOf(ls)
<1> DEFINE n == Len(ls)  ls2 == Append(ls, p.parts)
<1>1. ls \in Seq(Seq(Packets)) /\ n \in Nat \ {0} /\ n \in 1..n
  BY EmptySeq DEF Stacked
<1>2. /\ p \in Packets /\ AllLeaves(Tail(ls[n])) \in Seq(Packets)
      /\ AllLeaves(ls[n]) = Leaves[p] \o AllLeaves(Tail(ls[n]))
  BY <1>1, LevelFacts
<1>3. Leaves[p] = AllLeaves(p.parts) /\ p.parts \in Seq(Packets)
  BY <1>2, LeavesOf, PacketFacts
<1>4. /\ ls2 \in Seq(Seq(Packets)) /\ ls2 # <<>> /\ Len(ls2) = n + 1
      /\ ls2[n + 1] = p.parts /\ \A i \in 1..n : ls2[i] = ls[i]
  BY <1>1, <1>3, AppendProperties
<1> HIDE DEF ls2
<1>5. Stacked(ls2)
  <2>1. ASSUME NEW i \in 1..Len(ls2), i < Len(ls2) PROVE ls2[i] # <<>>
    <3>1. i \in 1..n /\ (i = n \/ i < n)
      BY <1>1, <1>4, <2>1
    <3> QED BY <1>4, <3>1 DEF Stacked
  <2> QED BY <1>4, <2>1 DEF Stacked
<1> HIDE DEF n
<1>6. PendingOf(ls2) = AllLeaves(p.parts) \o Outer(ls2, n)
  <2>1. Len(ls2) - 1 = n /\ Len(ls2) = n + 1
    BY <1>1, <1>4
  <2> QED BY <1>4, <1>5, <2>1, PendingTop
<1>7. Outer(ls2, n) = Outer(ls, n)
  BY <1>1, <1>4, OuterSame
<1>8. Outer(ls, n) = AllLeaves(Tail(ls[n])) \o Outer(ls, n - 1)
  <2>1. \A i \in 1..n : ls[i] # <<>>
    BY <1>1 DEF Stacked, n
  <2>2. n \in 0..Len(ls) /\ n # 0
    BY <1>1 DEF n
  <2> QED BY <1>1, <2>1, <2>2, OuterStep
<1>9. /\ PendingOf(ls) = AllLeaves(ls[n]) \o Outer(ls, n - 1)
      /\ Outer(ls, n - 1) \in Seq(Packets)
  BY PendingTop DEF n
<1>10. AllLeaves(p.parts) \in Seq(Packets)
  BY <1>3, MapsTyped
<1>11. (AllLeaves(p.parts) \o AllLeaves(Tail(ls[n]))) \o Outer(ls, n - 1)
         = AllLeaves(p.parts) \o (AllLeaves(Tail(ls[n])) \o Outer(ls, n - 1))
  BY <1>2, <1>9, <1>10, ConcatAssociative
<1> QED BY <1>2, <1>3, <1>4, <1>5, <1>6, <1>7, <1>8, <1>9, <1>11, Zenon DEF ls2

\* With a level what is left of it is dropped, and the bundle it was in is done.
LEMMA Ended ==
  ASSUME NEW ls, Stacked(ls), ls # <<>>
  PROVE  /\ Len(ls) = 1 => PendingOf(ls) = AllLeaves(ls[Len(ls)])
         /\ Len(ls) # 1 =>
              /\ Stacked(Front(ls)) /\ Front(ls) # <<>> /\ Len(Front(ls)) = Len(ls) - 1
              /\ Front(ls)[Len(Front(ls))] # <<>>
              /\ PendingOf(ls) = AllLeaves(ls[Len(ls)]) \o PendingOf(Shorten(Front(ls)))
              /\ PendingOf(Shorten(Front(ls))) \in Seq(Packets)
<1> DEFINE n == Len(ls)  o == Front(ls)
<1>1. /\ ls \in Seq(Seq(Packets)) /\ n \in Nat \ {0}
      /\ PendingOf(ls) = AllLeaves(ls[n]) \o Outer(ls, n - 1)
      /\ AllLeaves(ls[n]) \in Seq(Packets) /\ Outer(ls, n - 1) \in Seq(Packets)
  BY PendingTop DEF Stacked
<1>2. CASE n = 1
  <2>1. Outer(ls, 0) = <<>>
    <3>1. 0 \in 0..Len(ls) /\ \A i \in 1..0 : ls[i] # <<>>
      BY <1>1
    <3> QED BY <1>1, <3>1, OuterStep
  <2> HIDE DEF n
  <2>2. PendingOf(ls) = AllLeaves(ls[n]) \o <<>>
    BY <1>1, <1>2, <2>1
  <2>3. PendingOf(ls) = AllLeaves(ls[n])
    BY <1>1, <2>2, ConcatEmptySeq
  <2> QED BY <1>2, <2>3 DEF n
<1>3. CASE n # 1
  <2>1. /\ o \in Seq(Seq(Packets)) /\ Len(o) = n - 1
        /\ \A i \in 1..(n - 1) : o[i] = ls[i]
    <3>1. \A i \in 1..(n - 1) : ls[i] \in Seq(Packets)
      <4>1. \A i \in 1..(n - 1) : i \in 1..Len(ls)
        BY <1>1
      <4> QED BY <1>1, <4>1, ElementOfSeq
    <3>2. o = SubSeq(ls, 1, n - 1)
      BY Zenon DEF Front
    <3> HIDE DEF n, o
    <3>3. /\ 1 \in Int /\ n - 1 \in Int /\ 1 <= n - 1 /\ (n - 1) - 1 + 1 = n - 1
          /\ \A i \in 1..(n - 1) : 1 + i - 1 = i
      BY <1>1, <1>3
    <3>4. /\ SubSeq(ls, 1, n - 1) \in Seq(Seq(Packets))
          /\ Len(SubSeq(ls, 1, n - 1)) = IF 1 <= n - 1 THEN (n - 1) - 1 + 1 ELSE 0
          /\ \A i \in 1..((n - 1) - 1 + 1) : SubSeq(ls, 1, n - 1)[i] = ls[1 + i - 1]
      BY <3>1, <3>3, SubSeqProperties
    <3> QED BY <3>2, <3>3, <3>4
  <2> HIDE DEF o
  <2>2. n - 1 \in Nat \ {0} /\ n - 1 \in 1..(n - 1) /\ \A i \in 1..(n - 1) : i \in 1..n /\ i < n
    <3> HIDE DEF n
    <3> QED BY <1>1, <1>3
  <2>3. \A i \in 1..(n - 1) : ls[i] # <<>>
    BY <2>2, Zenon DEF Stacked
  <2>4. Stacked(o) /\ o # <<>> /\ o[Len(o)] # <<>>
    <3> HIDE DEF n
    <3>1. \A i \in 1..Len(o) : o[i] # <<>>
      BY <2>1, <2>3
    <3> QED BY <2>1, <2>2, <3>1, EmptySeq DEF Stacked
  <2> HIDE DEF n
  <2>5. PendingOf(Shorten(o)) = AllLeaves(Tail(o[Len(o)])) \o Outer(o, Len(o) - 1)
    BY <2>4, ShortenFacts
  <2>6. /\ Outer(ls, n - 1) = Outer(o, n - 1)
        /\ Outer(o, n - 1) = AllLeaves(Tail(o[n - 1])) \o Outer(o, (n - 1) - 1)
    <3>1. \A i \in 1..(n - 1) : o[i] # <<>>
      BY <2>1, <2>3
    <3>2. n - 1 \in 0..Len(o) /\ n - 1 # 0
      BY <2>1, <2>2
    <3> QED BY <2>1, <2>2, <3>1, <3>2, OuterSame, OuterStep
  <2>7. PendingOf(Shorten(o)) = Outer(ls, n - 1)
    BY <2>1, <2>5, <2>6
  <2> QED BY <1>1, <1>3, <2>1, <2>4, <2>7 DEF n, o
<1> QED BY <1>2, <1>3

\* A frame comes in as a bundle of one.
LEMMA Started ==
  ASSUME NEW p \in Packets
  PROVE  Stacked(<<<<p>>>>) /\ PendingOf(<<<<p>>>>) = Leaves[p]
<1>1. <<p>> \in Seq(Packets) /\ Len(<<<<p>>>>) = 1 /\ <<<<p>>>>[1] = <<p>>
  OBVIOUS
<1>2. Stacked(<<<<p>>>>) /\ <<<<p>>>> # <<>>
  BY <1>1 DEF Stacked
<1>3. AllLeaves(<<p>>) = Leaves[p]
  BY MapsOne
<1> QED BY <1>1, <1>2, <1>3, Ended

-----------------------------------------------------------------------------
(* The reading side *)

\* TypeOK's other part, but for the levels.
ReadTypeOK ==
  /\ inSum \in 0..MaxChecksum
  /\ cipher \in Ciphers /\ srvCipher \in Ciphers
  /\ queue \in Seq(Packets) /\ delivered \in Seq(Packets)
  /\ reader \in {"read", "process", "failed", "panicked"}
  /\ sent \in Seq([packet : Frames, from : Ciphers])
  /\ fetched \in 0..Len(sent)

\* Levels are there while a frame is processed, and none while the next is awaited.
LevelsOK ==
  /\ Stacked(levels)
  /\ reader = "read" => levels = <<>>
  /\ reader = "process" => levels # <<>>

\* A cipher that goes on or is replaced is one of the server's packets' keys.
LEMMA CipherTypes ==
  /\ Plain \in Ciphers
  /\ \A c \in Ciphers, n \in Nat : Advance(c, n) \in Ciphers
  /\ \A p \in Packets : [key |-> p.key, pos |-> 0] \in Ciphers
BY DEF Plain, Ciphers, Advance

\* A frame's size is its header's and its payload's.
LEMMA FrameSize ==
  ASSUME NEW f \in Frames
  PROVE  f \in Packets /\ HeaderLength + f.size \in Nat
<1>1. HeaderLength \in Nat /\ Frames \subseteq Packets
  BY ConstantsOK DEF ConstantsOK
<1> QED BY <1>1, PacketFacts

\* A level that is looked into has a first packet.
LEMMA TopLevel ==
  ASSUME LevelsOK, reader = "process"
  PROVE  /\ Stacked(levels) /\ levels # <<>> /\ Len(levels) \in 1..Len(levels)
         /\ Level = levels[Len(levels)] /\ Level \in Seq(Packets)
         /\ Level # <<>> => Head(Level) \in Packets /\ NextSum(Head(Level)) \in 0..MaxChecksum
<1>1. /\ Stacked(levels) /\ levels # <<>> /\ levels \in Seq(Seq(Packets))
      /\ Level = levels[Len(levels)]
  BY DEF LevelsOK, Level, Last, Stacked
<1>2. Len(levels) \in 1..Len(levels)
  BY <1>1, EmptySeq
<1>3. Level \in Seq(Packets)
  BY <1>1, <1>2, ElementOfSeq
<1>4. ASSUME Level # <<>> PROVE Head(Level) \in Packets /\ NextSum(Head(Level)) \in 0..MaxChecksum
  <2>1. Head(Level) \in Packets
    BY <1>3, <1>4, HeadTailProperties
  <2>2. Head(Level).sum \in 0..MaxChecksum /\ MaxChecksum \in Nat
    BY <2>1, PacketFacts, Constants
  <2> QED BY <2>1, <2>2 DEF NextSum
<1> QED BY <1>1, <1>2, <1>3, <1>4

\* Every step keeps the types of the reading side.
LEMMA ReadTypeStep ==
  ASSUME ReadTypeOK, LevelsOK, [Next]_vars PROVE ReadTypeOK' /\ LevelsOK'
<1> USE DEF ReadTypeOK
<1>1. CASE Fetch
  <2> DEFINE f == sent[fetched + 1]
  <2>1. /\ reader = "read" /\ queue = <<>> /\ fetched < Len(sent)
        /\ cipher' = Advance(cipher, HeaderLength + f.packet.size)
        /\ fetched' = fetched + 1
        /\ UNCHANGED <<inSum, queue, delivered, srvCipher, sent>>
    BY <1>1 DEF Fetch, srvVars
  <2>2. \/ reader' \in {"failed", "panicked"} /\ levels' = levels
        \/ \E p \in Packets : reader' = "process" /\ levels' = <<<<p>>>>
        \/ reader' = "process" /\ levels' = <<<<f.packet>>>>
    BY <1>1 DEF Fetch
  <2>3. fetched + 1 \in 1..Len(sent) /\ fetched + 1 \in 0..Len(sent)
    BY <2>1
  <2>4. f \in [packet : Frames, from : Ciphers]
    BY <2>3, ElementOfSeq
  <2>5. f.packet \in Packets /\ HeaderLength + f.packet.size \in Nat
    BY <2>4, FrameSize
  <2> HIDE DEF f
  <2>6. cipher' \in Ciphers
    BY <2>1, <2>5, CipherTypes
  <2>7. \/ reader' \in {"failed", "panicked"} /\ levels' = levels
        \/ \E p \in Packets : reader' = "process" /\ levels' = <<<<p>>>>
    BY <2>2, <2>5, Zenon
  <2>8. LevelsOK' /\ reader' \in {"process", "failed", "panicked"}
    <3>1. CASE reader' \in {"failed", "panicked"} /\ levels' = levels
      BY <3>1 DEF LevelsOK
    <3>2. ASSUME NEW p \in Packets, reader' = "process", levels' = <<<<p>>>> PROVE LevelsOK'
      BY <3>2, Started DEF LevelsOK
    <3> QED BY <2>7, <3>1, <3>2
  <2> QED BY <2>1, <2>3, <2>6, <2>8
<1>2. CASE Pop
  <2>1. /\ queue # <<>> /\ delivered' = Append(delivered, Head(queue)) /\ queue' = Tail(queue)
        /\ UNCHANGED <<cipher, inSum, levels, reader, fetched, srvCipher, sent>>
    BY <1>2 DEF Pop, srvVars
  <2>2. queue' \in Seq(Packets) /\ delivered' \in Seq(Packets)
    BY <2>1, HeadTailProperties, AppendProperties
  <2> QED BY <2>1, <2>2 DEF LevelsOK
<1>3. CASE RefusePacket
  <2>1. /\ reader' \in {"failed", "panicked"}
        /\ UNCHANGED <<cipher, inSum, levels, queue, fetched, delivered, srvCipher, sent>>
    BY <1>3 DEF RefusePacket, srvVars
  <2> QED BY <2>1 DEF LevelsOK
<1>4. CASE OpenBundle
  <2>1. /\ reader = "process" /\ Level # <<>> /\ Head(Level).what = "bundle"
        /\ levels' = Append(levels, Head(Level).parts)
        /\ UNCHANGED <<cipher, inSum, queue, reader, fetched, delivered, srvCipher, sent>>
    BY <1>4 DEF OpenBundle, Processing, HasMore, srvVars
  <2>2. Stacked(levels') /\ levels' # <<>>
    BY <2>1, TopLevel, Opened
  <2> QED BY <2>1, <2>2 DEF LevelsOK
<1>5. CASE QueuePacket
  <2> DEFINE p == Head(Level)
  <2>1. /\ reader = "process" /\ Level # <<>> /\ p.what # "bundle"
        /\ cipher' = IF p.what = "key" THEN [key |-> p.key, pos |-> 0] ELSE cipher
        /\ inSum' = NextSum(p) /\ queue' = Append(queue, p) /\ levels' = Shorten(levels)
        /\ UNCHANGED <<reader, fetched, delivered, srvCipher, sent>>
    BY <1>5 DEF QueuePacket, Processing, HasMore, srvVars
  <2>2. Stacked(levels') /\ levels' # <<>> /\ p \in Packets /\ inSum' \in 0..MaxChecksum
    BY <2>1, TopLevel, ShortenFacts
  <2> HIDE DEF p
  <2>3. queue' \in Seq(Packets) /\ cipher' \in Ciphers
    BY <2>1, <2>2, AppendProperties, CipherTypes
  <2> QED BY <2>1, <2>2, <2>3 DEF LevelsOK
<1>6. CASE EndBundle
  <2>1. /\ reader = "process"
        /\ UNCHANGED <<cipher, queue, fetched, delivered, srvCipher, sent>>
    BY <1>6 DEF EndBundle, srvVars
  <2>2. CASE Len(levels) = 1
    <3>1. levels' = <<>> /\ reader' = "read" /\ inSum' = inSum
      BY <1>6, <2>2 DEF EndBundle
    <3> QED BY <2>1, <3>1, PendingNone DEF LevelsOK
  <2>3. CASE Len(levels) # 1
    <3> DEFINE o == Front(levels)
    <3>1. levels' = Shorten(o) /\ reader' = reader /\ inSum' = NextSum(Head(Last(o)))
      BY <1>6, <2>3 DEF EndBundle
    <3>2. Stacked(o) /\ o # <<>> /\ o[Len(o)] # <<>> /\ Last(o) = o[Len(o)]
      BY <2>1, <2>3, TopLevel, Ended DEF Last
    <3> HIDE DEF o
    <3>3. Stacked(levels') /\ levels' # <<>>
      BY <3>1, <3>2, ShortenFacts
    <3>4. Head(Last(o)) \in Packets
      <4>1. o \in Seq(Seq(Packets)) /\ Len(o) \in 1..Len(o)
        BY <3>2, EmptySeq DEF Stacked
      <4> QED BY <3>2, <4>1, LevelFacts
    <3>5. inSum' \in 0..MaxChecksum
      <4>1. Head(Last(o)).sum \in 0..MaxChecksum /\ MaxChecksum \in Nat
        BY <3>4, PacketFacts, Constants
      <4> QED BY <3>1, <4>1 DEF NextSum
    <3> QED BY <2>1, <3>1, <3>3, <3>5 DEF LevelsOK
  <2> QED BY <2>2, <2>3
<1>7. CASE ServerSend
  <2>1. UNCHANGED <<cipher, inSum, levels, queue, reader, fetched, delivered>>
    BY <1>7 DEF ServerSend, readVars
  <2>2. PICK f \in Frames :
          /\ sent' = Append(sent, [packet |-> f, from |-> srvCipher])
          /\ srvCipher' = IF Keys(Leaves[f]) # <<>> THEN [key |-> Last(Keys(Leaves[f])).key, pos |-> 0]
                          ELSE Advance(srvCipher, HeaderLength + f.size)
    BY <1>7, Zenon DEF ServerSend
  <2>3. [packet |-> f, from |-> srvCipher] \in [packet : Frames, from : Ciphers]
    OBVIOUS
  <2>4. /\ sent' \in Seq([packet : Frames, from : Ciphers])
        /\ Len(sent') = Len(sent) + 1
    BY <2>2, <2>3, AppendProperties
  <2>5. srvCipher' \in Ciphers
    <3>1. f \in Packets /\ HeaderLength + f.size \in Nat
      BY FrameSize
    <3>2. Keys(Leaves[f]) \in Seq(Packets)
      BY <3>1, LeavesType, MapsTyped
    <3>3. Keys(Leaves[f]) # <<>> => Last(Keys(Leaves[f])) \in Packets
      BY <3>2, EmptySeq, ElementOfSeq DEF Last
    <3> QED BY <2>2, <3>1, <3>3, CipherTypes
  <2>6. fetched' \in 0..Len(sent')
    BY <2>1, <2>4
  <2> QED BY <2>1, <2>4, <2>5, <2>6 DEF LevelsOK
<1>8. CASE UNCHANGED <<readVars, srvVars>>
  BY <1>8 DEF readVars, srvVars, LevelsOK
<1> QED BY <1>1, <1>2, <1>3, <1>4, <1>5, <1>6, <1>7, <1>8, Zenon
        DEF Next, SendStep, SendHandshake, LoadChecksum, CountChecksum, LockWriter, WriteFrame, vars

-----------------------------------------------------------------------------
(* What a sound server's packets do to the reader *)

\* The cipher after the keys that are still to come.
After(c, keys) == IF keys = <<>> THEN c ELSE [key |-> Last(keys).key, pos |-> 0]

\* The server's cipher at the start of the frame after the first n.
NextAt(n) == IF n < Len(sent) THEN sent[n + 1].from ELSE srvCipher

\* Each frame takes the server's cipher to where the next one starts.
SentInv ==
  \A i \in 1..Len(sent) :
    NextAt(i) = After(Advance(sent[i].from, HeaderLength + sent[i].packet.size),
                      Keys(Leaves[sent[i].packet]))

\* Nothing is wrong with the packets that are left.
LevelsSound == \A i \in 1..Len(levels) : \A j \in 1..Len(levels[i]) : Sound[levels[i][j]]

\* The frames that have been fetched, and the packets that are in them.
FetchedPackets == [i \in 1..fetched |-> sent[i].packet]

\* Nothing has failed; the keys that are still pending take the reader's cipher
\* to the server's; and no packet with a payload is lost or out of order.
SoundInv ==
  /\ reader \notin {"failed", "panicked"}
  /\ LevelsSound
  /\ After(cipher, Keys(Pending)) = NextAt(fetched)
  /\ WithPayload(delivered \o queue \o Pending) = WithPayload(AllLeaves(FetchedPackets))

\* The inductive invariant of the reading side.
ReadInv == ReadTypeOK /\ LevelsOK /\ SentInv /\ (AllSound => SoundInv)

\* Pending is PendingOf the levels.
LEMMA PendingIs ==
  /\ levels \in Seq(Seq(Packets)) => Pending = PendingOf(levels)
  /\ levels' \in Seq(Seq(Packets)) => Pending' = PendingOf(levels')
<1>1. ASSUME levels \in Seq(Seq(Packets)) PROVE Pending = PendingOf(levels)
  BY <1>1, PendingText DEF Pending
<1>2. ASSUME levels' \in Seq(Seq(Packets)) PROVE Pending' = PendingOf(levels')
  BY <1>2, PendingText DEF Pending
<1> QED BY <1>1, <1>2

\* A packet that is queued moves the cipher on by its key.
LEMMA AfterQueued ==
  ASSUME NEW p \in Packets, NEW rest \in Seq(Packets), NEW c
  PROVE  After(IF p.what = "key" THEN [key |-> p.key, pos |-> 0] ELSE c, Keys(rest))
           = After(c, Keys(<<p>> \o rest))
<1> DEFINE k == Keys(rest)  first == IF p.what = "key" THEN <<p>> ELSE <<>>
<1>1. <<p>> \in Seq(Packets) /\ k \in Seq(Packets) /\ first \in Seq(Packets)
  BY MapsTyped
<1>2. Keys(<<p>> \o rest) = first \o k
  <2>1. Keys(<<p>> \o rest) = Keys(<<p>>) \o Keys(rest)
    BY <1>1, MapsConcat, Zenon
  <2>2. Keys(<<p>>) = first
    BY MapsOne, Zenon
  <2> QED BY <2>1, <2>2, Zenon
<1> HIDE DEF k
<1>3. CASE p.what # "key"
  <2>1. first \o k = k
    BY <1>1, <1>3, ConcatEmptySeq
  <2> QED BY <1>2, <1>3, <2>1, Zenon DEF k
<1>4. CASE p.what = "key" /\ k = <<>>
  <2>1. first \o k = <<p>>
    BY <1>1, <1>4, ConcatEmptySeq
  <2>2. <<p>> # <<>> /\ Last(<<p>>) = p
    BY DEF Last
  <2> QED BY <1>2, <1>4, <2>1, <2>2, Zenon DEF After, k
<1>5. CASE p.what = "key" /\ k # <<>>
  <2>1. /\ Len(first) = 1 /\ Len(k) \in Nat \ {0}
        /\ Len(first \o k) = Len(first) + Len(k)
        /\ \A i \in 1..(Len(first) + Len(k)) :
             (first \o k)[i] = IF i <= Len(first) THEN first[i] ELSE k[i - Len(first)]
        /\ first \o k \in Seq(Packets)
    BY <1>1, <1>5, EmptySeq, ConcatProperties
  <2>2. Last(first \o k) = Last(k)
    <3> HIDE DEF first
    <3>1. /\ 1 + Len(k) \in 1..(1 + Len(k)) /\ ~ (1 + Len(k) <= 1) /\ (1 + Len(k)) - 1 = Len(k)
      BY <2>1
    <3> QED BY <2>1, <3>1 DEF Last
  <2>3. first \o k # <<>>
    <3> HIDE DEF first
    <3> QED BY <2>1, EmptySeq
  <2> QED BY <1>2, <1>5, <2>2, <2>3, Zenon DEF After, k
<1> QED BY <1>3, <1>4, <1>5

\* What is left of a level when it ends holds neither a key nor a payload.
LEMMA Dropped ==
  ASSUME NEW rest \in Seq(Packets),
         ~ (rest # <<>> /\ (Len(rest) > 1 \/ Head(rest).size > 0))
  PROVE  Keys(AllLeaves(rest)) = <<>> /\ WithPayload(AllLeaves(rest)) = <<>>
<1>1. CASE rest = <<>>
  BY <1>1, MapsEmpty
<1>2. CASE rest # <<>>
  <2> DEFINE p == Head(rest)
  <2>1. p \in Packets /\ Len(rest) = 1 /\ ~ (p.size > 0) /\ rest[1] = p
    <3>1. Len(rest) \in Nat \ {0} /\ p \in Packets
      BY <1>2, EmptySeq, HeadTailProperties
    <3>2. ~ (Len(rest) > 1) /\ ~ (p.size > 0)
      BY <1>2, Zenon
    <3> HIDE DEF p
    <3>3. \A k \in Nat \ {0} : ~ (k > 1) => k = 1
      OBVIOUS
    <3>4. Len(rest) = 1
      BY <3>1, <3>2, <3>3, Zenon
    <3> QED BY <3>1, <3>2, <3>4 DEF p
  <2>2. rest = <<p>>
    BY <2>1
  <2> HIDE DEF p
  <2>3. p.size = 0 /\ p.what # "key"
    BY <2>1, PacketFacts
  <2>4. AllLeaves(rest) = Leaves[p]
    BY <2>1, <2>2, MapsOne
  <2>5. CASE p.what = "bundle"
    <3>1. Len(p.parts) = 0
      <4>1. ASSUME Len(p.parts) # 0 PROVE FALSE
        <5>1. 1 \in 1..Len(p.parts)
          BY <2>1, <4>1, PacketFacts
        <5>2. p.parts[1] \in Packets /\ p.parts[1].size < p.size
          BY <2>1, <5>1, PacketFacts
        <5>3. p.parts[1].size \in Nat
          BY <5>2, PacketFacts
        <5> QED BY <2>3, <5>2, <5>3
      <4> QED BY <4>1
    <3>2. p.parts = <<>>
      BY <2>1, <3>1, PacketFacts, EmptySeq
    <3>3. Leaves[p] = <<>>
      BY <2>1, <2>5, <3>2, LeavesOf, MapsEmpty
    <3> QED BY <2>4, <3>3, MapsEmpty
  <2>6. CASE p.what # "bundle"
    <3>1. Leaves[p] = <<p>>
      BY <2>1, <2>6, LeavesOf
    <3> QED BY <2>1, <2>3, <2>4, <3>1, MapsOne
  <2> QED BY <2>5, <2>6
<1> QED BY <1>1, <1>2

\* The server's ciphers follow each other as the frames' keys say.
LEMMA SentStep == ASSUME ReadInv, [Next]_vars PROVE SentInv'
<1>1. CASE ServerSend
  <2> DEFINE n == Len(sent)
  <2>1. PICK f \in Frames :
          /\ sent' = Append(sent, [packet |-> f, from |-> srvCipher])
          /\ srvCipher' = IF Keys(Leaves[f]) # <<>> THEN [key |-> Last(Keys(Leaves[f])).key, pos |-> 0]
                          ELSE Advance(srvCipher, HeaderLength + f.size)
    BY <1>1, Zenon DEF ServerSend
  <2>2. [packet |-> f, from |-> srvCipher] \in [packet : Frames, from : Ciphers]
    BY DEF ReadInv, ReadTypeOK
  <2>3. /\ n \in Nat /\ Len(sent') = n + 1
        /\ sent'[n + 1] = [packet |-> f, from |-> srvCipher]
        /\ \A i \in 1..n : sent'[i] = sent[i]
    BY <2>1, <2>2, AppendProperties, LenProperties DEF ReadInv, ReadTypeOK
  <2>4. srvCipher' = After(Advance(srvCipher, HeaderLength + f.size), Keys(Leaves[f]))
    BY <2>1, Zenon DEF After
  <2> HIDE DEF n
  <2>5. ASSUME NEW i \in 1..(n + 1)
        PROVE  (IF i < n + 1 THEN sent'[i + 1].from ELSE srvCipher')
                 = After(Advance(sent'[i].from, HeaderLength + sent'[i].packet.size),
                         Keys(Leaves[sent'[i].packet]))
    <3>1. CASE i = n + 1
      <4>1. ~ (i < n + 1)
        BY <2>3, <3>1
      <4>2. sent'[i].from = srvCipher /\ sent'[i].packet = f
        BY <2>3, <3>1
      <4> QED BY <2>4, <4>1, <4>2, Zenon
    <3>2. CASE i # n + 1
      <4>1. i \in 1..n /\ i < n + 1 /\ (i < n => i + 1 \in 1..n) /\ (~ (i < n) => i + 1 = n + 1)
        BY <2>3, <3>2
      <4>2. sent'[i] = sent[i]
        BY <2>3, <4>1, Zenon
      <4>3. (IF i < n THEN sent[i + 1].from ELSE srvCipher)
              = After(Advance(sent[i].from, HeaderLength + sent[i].packet.size),
                      Keys(Leaves[sent[i].packet]))
        BY <4>1, Zenon DEF ReadInv, SentInv, NextAt, n
      <4>4. sent'[i + 1].from = IF i < n THEN sent[i + 1].from ELSE srvCipher
        <5>1. CASE i < n
          BY <2>3, <4>1, <5>1, Zenon
        <5>2. CASE ~ (i < n)
          BY <2>3, <4>1, <5>2
        <5> QED BY <5>1, <5>2
      <4> QED BY <4>1, <4>2, <4>3, <4>4, Zenon
    <3> QED BY <3>1, <3>2
  <2> QED BY <2>3, <2>5, Zenon DEF SentInv, NextAt
<1>2. CASE UNCHANGED srvVars
  BY <1>2 DEF srvVars, ReadInv, SentInv, NextAt
<1> QED BY <1>1, <1>2, Zenon
        DEF Next, SendStep, SendHandshake, LoadChecksum, CountChecksum, LockWriter, WriteFrame, vars,
            Fetch, Pop, RefusePacket, OpenBundle, QueuePacket, EndBundle

\* A step that leaves the server's frames as they are leaves it as sound as it was.
LEMMA SoundBefore ==
  ASSUME ReadTypeOK, AllSound',
         \/ fetched' = fetched /\ \A i \in 1..fetched : sent'[i] = sent[i]
         \/ fetched' = fetched + 1 /\ sent' = sent
  PROVE  AllSound
<1>1. fetched \in Nat
  BY DEF ReadTypeOK
<1> QED BY <1>1 DEF AllSound

\* What read() has in hand, when a step takes x off what is pending.
LEMMA PayloadMoves ==
  ASSUME NEW d \in Seq(Packets), NEW q \in Seq(Packets), NEW x \in Seq(Packets),
         NEW rest \in Seq(Packets), WithPayload(x) = <<>>
  PROVE  WithPayload(d \o q \o (x \o rest)) = WithPayload(d \o q \o rest)
<1>1. d \o q \in Seq(Packets) /\ x \o rest \in Seq(Packets)
  BY ConcatProperties
<1>2. /\ WithPayload(d \o q \o (x \o rest)) = WithPayload(d \o q) \o WithPayload(x \o rest)
      /\ WithPayload(d \o q \o rest) = WithPayload(d \o q) \o WithPayload(rest)
      /\ WithPayload(x \o rest) = WithPayload(x) \o WithPayload(rest)
  BY <1>1, MapsConcat
<1>3. WithPayload(rest) \in Seq(Packets)
  BY MapsTyped
<1>4. <<>> \o WithPayload(rest) = WithPayload(rest)
  BY <1>3, ConcatEmptySeq
<1> QED BY <1>2, <1>4

\* Fetching a sound frame makes its packets the ones that are pending.
LEMMA FetchSound ==
  ASSUME ReadInv, ReadTypeOK', LevelsOK', Fetch, AllSound' PROVE SoundInv'
<1> DEFINE f == sent[fetched + 1]  p == sent[fetched + 1].packet
<1>1. /\ reader = "read" /\ queue = <<>> /\ fetched < Len(sent)
      /\ cipher' = Advance(cipher, HeaderLength + p.size)
      /\ fetched' = fetched + 1
      /\ UNCHANGED <<inSum, queue, delivered, srvCipher, sent>>
  BY DEF Fetch, srvVars
<1>2. /\ ReadTypeOK /\ LevelsOK /\ SentInv /\ fetched \in Nat /\ fetched + 1 \in 1..Len(sent)
      /\ sent \in Seq([packet : Frames, from : Ciphers]) /\ levels = <<>>
  BY <1>1 DEF ReadInv, ReadTypeOK, LevelsOK
<1>3. AllSound /\ SoundInv
  BY <1>1, <1>2, SoundBefore DEF ReadInv
<1>4. Pending = <<>> /\ Keys(Pending) = <<>>
  <2>1. <<>> \in Seq(Seq(Packets))
    OBVIOUS
  <2> QED BY <1>2, <2>1, PendingIs, PendingNone, MapsEmpty
<1>5. cipher = f.from
  <2>1. After(cipher, Keys(Pending)) = cipher
    BY <1>4, Zenon DEF After
  <2>2. NextAt(fetched) = f.from
    BY <1>1, Zenon DEF NextAt
  <2> QED BY <1>3, <2>1, <2>2, Zenon DEF SoundInv
<1>6. p \in Packets /\ Sound[p] /\ p.flaw = "none"
  <2>1. p \in Frames
    <3>1. sent[fetched + 1] \in [packet : Frames, from : Ciphers]
      BY <1>2, ElementOfSeq
    <3> QED BY <3>1
  <2>2. Sound[p]
    <3>1. fetched + 1 \in 1..fetched'
      BY <1>1, <1>2
    <3> QED BY <1>1, <3>1 DEF AllSound
  <2> QED BY <2>1, <2>2, FrameSize, SoundParts
<1>7. reader' = "process" /\ levels' = <<<<p>>>>
  BY <1>5, <1>6 DEF Fetch
<1> HIDE DEF p, f
<1>8. Pending' = Leaves[p] /\ Leaves[p] \in Seq(Packets)
  <2>1. <<<<p>>>> \in Seq(Seq(Packets))
    BY <1>6
  <2>2. Pending' = PendingOf(<<<<p>>>>)
    BY <1>7, <2>1, PendingIs
  <2> QED BY <1>6, <2>2, Started, LeavesType
<1>9. LevelsSound'
  <2>1. \A i \in 1..Len(<<<<p>>>>) : \A j \in 1..Len(<<<<p>>>>[i]) : <<<<p>>>>[i][j] = p
    OBVIOUS
  <2> QED BY <1>6, <1>7, <2>1, Zenon DEF LevelsSound
<1>10. (After(cipher, Keys(Pending)))' = NextAt(fetched)'
  <2>1. NextAt(fetched + 1) = After(Advance(f.from, HeaderLength + p.size), Keys(Leaves[p]))
    BY <1>2, Zenon DEF SentInv, f, p
  <2>2. NextAt(fetched)' = NextAt(fetched + 1)
    BY <1>1, Zenon DEF NextAt
  <2> QED BY <1>1, <1>5, <1>8, <2>1, <2>2, Zenon
<1>11. (WithPayload(delivered \o queue \o Pending) = WithPayload(AllLeaves(FetchedPackets)))'
  <2> DEFINE all == FetchedPackets
  <2>1. all \in Seq(Packets) /\ Len(all) = fetched
    <3>1. \A i \in 1..fetched : sent[i].packet \in Packets
      <4>1. \A i \in 1..fetched : i \in 1..Len(sent)
        BY <1>1, <1>2
      <4>2. \A i \in 1..fetched : sent[i].packet \in Frames
        <5>1. \A i \in 1..fetched : sent[i] \in [packet : Frames, from : Ciphers]
          BY <1>2, <4>1, ElementOfSeq
        <5> QED BY <5>1
      <4> QED BY <4>2, FrameSize
    <3>2. all \in [1..fetched -> Packets]
      BY <3>1, Zenon DEF FetchedPackets
    <3>3. all \in Seq(Packets)
      BY <1>2, <3>2, SeqDef
    <3> QED BY <1>2, <3>2, <3>3, LenProperties
  <2>2. FetchedPackets' = Append(all, p)
    <3>1. FetchedPackets' = [i \in 1..(fetched + 1) |-> sent[i].packet]
      BY <1>1, Zenon DEF FetchedPackets
    <3>2. \A i \in 1..(fetched + 1) : i \in 1..fetched \/ i = fetched + 1
      BY <1>2
    <3>3. all = [i \in 1..fetched |-> sent[i].packet]
      BY Zenon DEF FetchedPackets
    <3> HIDE DEF all
    <3>4. /\ Append(all, p) \in Seq(Packets) /\ Len(Append(all, p)) = fetched + 1
          /\ Append(all, p)[fetched + 1] = p
          /\ \A i \in 1..fetched : Append(all, p)[i] = all[i]
      BY <1>6, <2>1, AppendProperties
    <3>5. \A i \in 1..(fetched + 1) : Append(all, p)[i] = sent[i].packet
      BY <3>2, <3>3, <3>4, Zenon DEF p
    <3>6. Append(all, p) = [i \in 1..(fetched + 1) |-> Append(all, p)[i]]
      BY <3>4, LenProperties
    <3> QED BY <3>1, <3>5, <3>6, Zenon
  <2>3. WithPayload(AllLeaves(Append(all, p))) = WithPayload(AllLeaves(all)) \o WithPayload(Leaves[p])
    <3> HIDE DEF all
    <3>1. <<p>> \in Seq(Packets) /\ Append(all, p) = all \o <<p>>
      BY <1>6, <2>1, AppendIsConcat
    <3>2. AllLeaves(Append(all, p)) = AllLeaves(all) \o Leaves[p]
      <4>1. AllLeaves(all \o <<p>>) = AllLeaves(all) \o AllLeaves(<<p>>)
        BY <2>1, <3>1, MapsConcat
      <4>2. AllLeaves(<<p>>) = Leaves[p]
        BY <1>6, MapsOne
      <4> QED BY <3>1, <4>1, <4>2
    <3>3. AllLeaves(all) \in Seq(Packets)
      BY <2>1, MapsTyped
    <3> QED BY <1>8, <3>2, <3>3, MapsConcat
  <2>4. delivered \o queue \in Seq(Packets)
    BY <1>2, ConcatProperties DEF ReadTypeOK
  <2>5. WithPayload(delivered \o queue \o Leaves[p])
          = WithPayload(delivered \o queue) \o WithPayload(Leaves[p])
    BY <1>8, <2>4, MapsConcat
  <2>6. WithPayload(delivered \o queue) = WithPayload(AllLeaves(all))
    <3>1. (delivered \o queue) \o <<>> = delivered \o queue
      BY <2>4, ConcatEmptySeq
    <3> QED BY <1>3, <1>4, <3>1 DEF SoundInv
  <2> HIDE DEF all
  <2>7. (WithPayload(delivered \o queue \o Pending))' = WithPayload(delivered \o queue \o Leaves[p])
    BY <1>1, <1>8
  <2> QED BY <2>2, <2>3, <2>5, <2>6, <2>7, Zenon
<1> QED BY <1>7, <1>9, <1>10, <1>11 DEF SoundInv

\* What the reader does with a fetched frame leaves the server's side alone.
LEMMA SameFrames ==
  ASSUME ReadInv, AllSound', UNCHANGED <<fetched, srvVars>>
  PROVE  /\ SoundInv /\ NextAt(fetched)' = NextAt(fetched)
         /\ WithPayload(AllLeaves(FetchedPackets))' = WithPayload(AllLeaves(FetchedPackets))
<1>1. fetched' = fetched /\ sent' = sent /\ srvCipher' = srvCipher
  BY DEF srvVars
<1>2. AllSound
  BY <1>1, Zenon DEF AllSound
<1> QED BY <1>1, <1>2, Zenon DEF ReadInv, NextAt, FetchedPackets

\* So does what the server sends.
LEMMA ServerSound ==
  ASSUME ReadInv, ServerSend, AllSound' PROVE SoundInv'
<1>1. UNCHANGED <<cipher, inSum, levels, queue, reader, fetched, delivered>>
  BY DEF ServerSend, readVars
<1>2. PICK f \in Frames : sent' = Append(sent, [packet |-> f, from |-> srvCipher])
  BY Zenon DEF ServerSend
<1>3. [packet |-> f, from |-> srvCipher] \in [packet : Frames, from : Ciphers]
  BY DEF ReadInv, ReadTypeOK
<1>4. /\ Len(sent) \in Nat /\ Len(sent') = Len(sent) + 1 /\ fetched \in 0..Len(sent)
      /\ \A i \in 1..Len(sent) : sent'[i] = sent[i]
      /\ sent'[Len(sent) + 1] = [packet |-> f, from |-> srvCipher]
  BY <1>2, <1>3, AppendProperties, LenProperties DEF ReadInv, ReadTypeOK
<1>5. \A i \in 1..fetched : i \in 1..Len(sent)
  BY <1>4
<1>6. SoundInv
  <2>1. AllSound
    BY <1>1, <1>4, <1>5, SoundBefore, Zenon DEF ReadInv
  <2> QED BY <2>1 DEF ReadInv
<1>7. FetchedPackets' = FetchedPackets
  BY <1>1, <1>4, <1>5, Zenon DEF FetchedPackets
<1>8. NextAt(fetched)' = NextAt(fetched)
  <2>1. CASE fetched < Len(sent)
    <3>1. fetched + 1 \in 1..Len(sent) /\ fetched < Len(sent')
      BY <1>4, <2>1
    <3> QED BY <1>1, <1>4, <2>1, <3>1, Zenon DEF NextAt
  <2>2. CASE ~ (fetched < Len(sent))
    <3>1. fetched = Len(sent) /\ fetched < Len(sent')
      BY <1>4, <2>2
    <3>2. sent'[fetched + 1].from = srvCipher
      BY <1>4, <3>1
    <3> QED BY <1>1, <2>2, <3>1, <3>2, Zenon DEF NextAt
  <2> QED BY <2>1, <2>2
<1>9. Pending' = Pending
  BY <1>1 DEF Pending
<1> QED BY <1>1, <1>6, <1>7, <1>8, <1>9, Zenon DEF SoundInv, LevelsSound

\* read() takes a packet off the queue.
LEMMA PopSound ==
  ASSUME ReadInv, Pop, AllSound' PROVE SoundInv'
<1>1. /\ queue # <<>> /\ delivered' = Append(delivered, Head(queue)) /\ queue' = Tail(queue)
      /\ UNCHANGED <<cipher, inSum, levels, reader, fetched, srvVars>>
  BY DEF Pop
<1>2. SoundInv /\ NextAt(fetched)' = NextAt(fetched)
      /\ WithPayload(AllLeaves(FetchedPackets))' = WithPayload(AllLeaves(FetchedPackets))
  BY <1>1, SameFrames
<1>3. delivered' \o queue' = delivered \o queue
  <2>1. queue \in Seq(Packets) /\ delivered \in Seq(Packets)
    BY DEF ReadInv, ReadTypeOK
  <2> DEFINE h == Head(queue)  t == Tail(queue)
  <2>2. h \in Packets /\ t \in Seq(Packets)
    BY <1>1, <2>1, HeadTailProperties
  <2>3. <<h>> \in Seq(Packets) /\ queue = <<h>> \o t
    BY <1>1, <2>1, <2>2
  <2> HIDE DEF h, t
  <2>4. Append(delivered, h) = delivered \o <<h>>
    BY <2>1, <2>2, AppendIsConcat
  <2>5. (delivered \o <<h>>) \o t = delivered \o (<<h>> \o t)
    BY <2>1, <2>2, <2>3, ConcatAssociative
  <2> QED BY <1>1, <2>3, <2>4, <2>5, Zenon DEF h, t
<1>4. Pending' = Pending
  BY <1>1 DEF Pending
<1> QED BY <1>1, <1>2, <1>3, <1>4, Zenon DEF SoundInv, LevelsSound

\* A sound packet is not refused.
LEMMA NoneRefused ==
  ASSUME ReadInv, SoundInv, reader = "process", Level # <<>>
  PROVE  /\ Head(Level) \in Packets /\ Sound[Head(Level)] /\ Head(Level).flaw = "none"
         /\ Head(Level) = levels[Len(levels)][1]
<1>1. /\ levels # <<>> /\ Len(levels) \in 1..Len(levels)
      /\ Level = levels[Len(levels)] /\ Level \in Seq(Packets) /\ Head(Level) \in Packets
  BY TopLevel DEF ReadInv
<1>2. 1 \in 1..Len(Level) /\ Head(Level) = Level[1]
  BY <1>1, EmptySeq
<1>3. Sound[Head(Level)]
  BY <1>1, <1>2, Zenon DEF SoundInv, LevelsSound
<1> QED BY <1>1, <1>2, <1>3, SoundParts

\* A bundle's packets take its place.
LEMMA OpenSound ==
  ASSUME ReadInv, LevelsOK', OpenBundle, AllSound' PROVE SoundInv'
<1> DEFINE p == Head(Level)
<1>1. /\ reader = "process" /\ Level # <<>> /\ p.what = "bundle"
      /\ levels' = Append(levels, p.parts)
      /\ UNCHANGED <<cipher, inSum, queue, reader, fetched, delivered, srvVars>>
  BY DEF OpenBundle, Processing, HasMore
<1>2. SoundInv /\ NextAt(fetched)' = NextAt(fetched)
      /\ WithPayload(AllLeaves(FetchedPackets))' = WithPayload(AllLeaves(FetchedPackets))
  BY <1>1, SameFrames
<1>3. Stacked(levels) /\ levels # <<>> /\ Level = levels[Len(levels)] /\ LevelsOK
  BY <1>1, TopLevel DEF ReadInv
<1>4. Sound[p] /\ p \in Packets
  BY <1>1, <1>2, NoneRefused
<1> HIDE DEF p
<1>5. PendingOf(Append(levels, p.parts)) = PendingOf(levels)
  BY <1>1, <1>3, Opened DEF p
<1>6. Pending' = Pending
  BY <1>1, <1>3, <1>5, PendingIs DEF LevelsOK, Stacked
<1>7. LevelsSound'
  <2>1. p.parts \in Seq(Packets) /\ \A j \in 1..Len(p.parts) : Sound[p.parts[j]]
    BY <1>4, PacketFacts, SoundParts
  <2>2. /\ Len(levels) \in Nat /\ Len(levels') = Len(levels) + 1 /\ levels'[Len(levels) + 1] = p.parts
        /\ \A i \in 1..Len(levels) : levels'[i] = levels[i]
    BY <1>1, <1>3, <2>1, AppendProperties, LenProperties DEF Stacked
  <2>3. \A i \in 1..(Len(levels) + 1) : i \in 1..Len(levels) \/ i = Len(levels) + 1
    BY <2>2
  <2> QED BY <1>2, <2>1, <2>2, <2>3, Zenon DEF SoundInv, LevelsSound
<1> QED BY <1>1, <1>2, <1>6, <1>7, Zenon DEF SoundInv

\* A packet goes from the levels to the queue.
LEMMA QueueSound ==
  ASSUME ReadInv, LevelsOK', QueuePacket, AllSound' PROVE SoundInv'
<1> DEFINE p == Head(Level)
<1>1. /\ reader = "process" /\ Level # <<>> /\ p.what # "bundle"
      /\ cipher' = IF p.what = "key" THEN [key |-> p.key, pos |-> 0] ELSE cipher
      /\ queue' = Append(queue, p) /\ levels' = Shorten(levels)
      /\ UNCHANGED <<reader, fetched, delivered, srvVars>>
  BY DEF QueuePacket, Processing, HasMore
<1>2. SoundInv /\ NextAt(fetched)' = NextAt(fetched)
      /\ WithPayload(AllLeaves(FetchedPackets))' = WithPayload(AllLeaves(FetchedPackets))
  BY <1>1, SameFrames
<1>3. Stacked(levels) /\ levels # <<>> /\ Level = levels[Len(levels)] /\ LevelsOK
  BY <1>1, TopLevel DEF ReadInv
<1>4. /\ PendingOf(levels) = <<p>> \o PendingOf(Shorten(levels))
      /\ p \in Packets /\ PendingOf(Shorten(levels)) \in Seq(Packets)
  BY <1>1, <1>3, Queued
<1> HIDE DEF p
<1>5. Pending = <<p>> \o Pending' /\ Pending' \in Seq(Packets)
  BY <1>1, <1>3, <1>4, PendingIs DEF LevelsOK, Stacked
<1>6. After(cipher, Keys(Pending))' = After(cipher, Keys(Pending))
  BY <1>1, <1>4, <1>5, AfterQueued
<1>7. delivered' \o queue' \o Pending' = delivered \o queue \o Pending
  <2>1. queue \in Seq(Packets) /\ delivered \in Seq(Packets)
    BY DEF ReadInv, ReadTypeOK
  <2>2. <<p>> \in Seq(Packets) /\ queue' = queue \o <<p>> /\ delivered \o queue \in Seq(Packets)
    BY <1>1, <1>4, <2>1, AppendIsConcat, ConcatProperties
  <2>3. delivered \o (queue \o <<p>>) = (delivered \o queue) \o <<p>>
    BY <2>1, <2>2, ConcatAssociative
  <2>4. ((delivered \o queue) \o <<p>>) \o Pending' = (delivered \o queue) \o (<<p>> \o Pending')
    BY <1>5, <2>2, ConcatAssociative
  <2> QED BY <1>1, <1>5, <2>2, <2>3, <2>4, Zenon
<1>8. LevelsSound'
  <2> DEFINE n == Len(levels)
  <2>1. /\ Len(levels') = n /\ n \in 1..n
        /\ \A i \in 1..n : levels'[i] = IF i = n THEN Tail(levels[i]) ELSE levels[i]
    BY <1>1, <1>3, ShortenFacts, TopLevel
  <2>2. \A j \in 1..Len(Tail(Level)) : Tail(Level)[j] = Level[j + 1] /\ j + 1 \in 1..Len(Level)
    <3>1. Level \in Seq(Packets) /\ Len(Level) \in Nat
      BY <1>1, <1>3, TopLevel, LenProperties
    <3> QED BY <1>1, <3>1, HeadTailProperties
  <2> HIDE DEF n
  <2>3. \A j \in 1..Len(Level) : Sound[Level[j]]
    BY <1>2, <1>3, <2>1, Zenon DEF SoundInv, LevelsSound, n
  <2>4. ASSUME NEW i \in 1..n PROVE \A j \in 1..Len(levels'[i]) : Sound[levels'[i][j]]
    <3>1. CASE i = n
      <4>1. levels'[i] = Tail(Level)
        BY <1>3, <2>1, <3>1, Zenon DEF n
      <4> QED BY <2>2, <2>3, <4>1, Zenon
    <3>2. CASE i # n
      <4>1. levels'[i] = levels[i]
        BY <2>1, <3>2, Zenon
      <4> QED BY <1>2, <4>1, Zenon DEF SoundInv, LevelsSound, n
    <3> QED BY <3>1, <3>2
  <2> QED BY <2>1, <2>4, Zenon DEF LevelsSound
<1> QED BY <1>1, <1>2, <1>6, <1>7, <1>8, Zenon DEF SoundInv

\* A level ends when nothing of it is left but a packet without a payload.
LEMMA EndSound ==
  ASSUME ReadInv, LevelsOK', EndBundle, AllSound' PROVE SoundInv'
<1>1. /\ reader = "process" /\ (HasMore => Head(Level).flaw = "long")
      /\ UNCHANGED <<cipher, queue, fetched, delivered, srvVars>>
  BY DEF EndBundle
<1>2. SoundInv /\ NextAt(fetched)' = NextAt(fetched)
      /\ WithPayload(AllLeaves(FetchedPackets))' = WithPayload(AllLeaves(FetchedPackets))
  BY <1>1, SameFrames
<1>3. /\ Stacked(levels) /\ levels # <<>> /\ Level = levels[Len(levels)] /\ LevelsOK
      /\ Level \in Seq(Packets) /\ Len(levels) \in 1..Len(levels)
  BY <1>1, TopLevel DEF ReadInv
<1>4. ~ (Level # <<>> /\ (Len(Level) > 1 \/ Head(Level).size > 0))
  <2>1. ~ HasMore
    <3>1. Level # <<>> => Head(Level).flaw = "none"
      BY <1>1, <1>2, NoneRefused
    <3> QED BY <1>1, <3>1, Zenon DEF HasMore
  <2> QED BY <2>1, Zenon DEF HasMore
<1> DEFINE x == AllLeaves(Level)
<1>5. x \in Seq(Packets) /\ Keys(x) = <<>> /\ WithPayload(x) = <<>>
  BY <1>3, <1>4, Dropped, MapsTyped
<1> HIDE DEF x
<1>6. Pending = x \o Pending' /\ Pending' \in Seq(Packets) /\ reader' \in {"read", "process"}
      /\ LevelsSound'
  <2>1. CASE Len(levels) = 1
    <3>1. levels' = <<>> /\ reader' = "read"
      BY <2>1 DEF EndBundle
    <3>2. Pending = x /\ Pending' = <<>>
      <4>1. PendingOf(levels) = x
        BY <1>3, <2>1, Ended DEF x
      <4>2. <<>> \in Seq(Seq(Packets))
        OBVIOUS
      <4> QED BY <1>3, <3>1, <4>1, <4>2, PendingIs, PendingNone DEF Stacked
    <3>3. x \o <<>> = x /\ <<>> \in Seq(Packets)
      BY <1>5, ConcatEmptySeq
    <3>4. LevelsSound'
      <4>1. 1..Len(<<>>) = {}
        OBVIOUS
      <4> QED BY <3>1, <4>1, Zenon DEF LevelsSound
    <3> QED BY <3>1, <3>2, <3>3, <3>4
  <2>2. CASE Len(levels) # 1
    <3> DEFINE o == Front(levels)  n == Len(levels) - 1
    <3>1. levels' = Shorten(o) /\ reader' = reader
      BY <2>2 DEF EndBundle
    <3>2. /\ Stacked(o) /\ o # <<>> /\ Len(o) = n /\ o[Len(o)] # <<>>
          /\ PendingOf(levels) = x \o PendingOf(Shorten(o))
          /\ PendingOf(Shorten(o)) \in Seq(Packets)
      BY <1>3, <2>2, Ended DEF x
    <3>3. \A i \in 1..n : o[i] = levels[i]
      <4>1. Len(levels) \in Nat /\ o = SubSeq(levels, 1, n)
        BY <1>3, LenProperties DEF Front
      <4> HIDE DEF o
      <4> QED BY <4>1
    <3> HIDE DEF o
    <3>4. /\ Len(levels') = n
          /\ \A i \in 1..n : levels'[i] = IF i = n THEN Tail(o[i]) ELSE o[i]
      BY <3>1, <3>2, ShortenFacts
    <3>5. Stacked(levels') /\ Pending' = PendingOf(Shorten(o)) /\ Pending = PendingOf(levels)
      <4>1. Stacked(levels')
        BY <3>1, <3>2, ShortenFacts
      <4> QED BY <1>3, <3>1, <4>1, PendingIs DEF Stacked
    <3>6. \A i \in 1..n : i \in 1..Len(levels)
      BY <1>3
    <3>7. \A i \in 1..n : o[i] \in Seq(Packets) /\ \A j \in 1..Len(o[i]) : Sound[o[i][j]]
      <4>1. \A i \in 1..Len(levels) : levels[i] \in Seq(Packets)
        BY <1>3, ElementOfSeq DEF Stacked
      <4> QED BY <1>2, <3>3, <3>6, <4>1, Zenon DEF SoundInv, LevelsSound
    <3> HIDE DEF n
    <3>8. ASSUME NEW i \in 1..n, NEW j \in 1..Len(levels'[i]) PROVE Sound[levels'[i][j]]
      <4>1. CASE i = n
        <5>1. levels'[i] = Tail(o[i]) /\ o[i] # <<>> /\ o[i] \in Seq(Packets)
          BY <3>2, <3>4, <3>7, <4>1
        <5>2. Tail(o[i])[j] = o[i][j + 1] /\ j + 1 \in 1..Len(o[i])
          BY <5>1, HeadTailProperties, LenProperties
        <5> QED BY <3>7, <5>1, <5>2, Zenon
      <4>2. CASE i # n
        BY <3>4, <3>7, <4>2, Zenon
      <4> QED BY <4>1, <4>2
    <3>9. LevelsSound'
      BY <3>4, <3>8, Zenon DEF LevelsSound
    <3> QED BY <1>1, <3>1, <3>2, <3>5, <3>9
  <2> QED BY <2>1, <2>2
<1>7. Keys(Pending) = Keys(Pending')
  <2>1. Keys(x \o Pending') = Keys(x) \o Keys(Pending') /\ Keys(Pending') \in Seq(Packets)
    BY <1>5, <1>6, MapsConcat, MapsTyped
  <2> QED BY <1>5, <1>6, <2>1, ConcatEmptySeq
<1>8. WithPayload(delivered \o queue \o Pending) = WithPayload(delivered \o queue \o Pending')
  BY <1>5, <1>6, PayloadMoves DEF ReadInv, ReadTypeOK
<1> QED BY <1>1, <1>2, <1>6, <1>7, <1>8, Zenon DEF SoundInv

\* While the server's frames are sound, no step of the reader fails or loses a packet.
LEMMA SoundStep ==
  ASSUME ReadInv, [Next]_vars, AllSound' PROVE SoundInv'
<1>0. ReadTypeOK /\ LevelsOK
  BY DEF ReadInv
<1>1. ReadTypeOK' /\ LevelsOK'
  BY <1>0, ReadTypeStep
<1>2. CASE Fetch
  BY <1>1, <1>2, FetchSound
<1>3. CASE Pop
  BY <1>3, PopSound
<1>4. CASE RefusePacket
  <2>1. /\ reader = "process" /\ Level # <<>> /\ Head(Level).flaw \in {"header", "short", "body"}
        /\ UNCHANGED <<fetched, srvVars>>
    BY <1>4 DEF RefusePacket, Processing, HasMore
  <2>2. SoundInv
    BY <2>1, SameFrames
  <2>3. Head(Level).flaw = "none"
    BY <2>1, <2>2, NoneRefused
  <2> QED BY <2>1, <2>3
<1>5. CASE OpenBundle
  BY <1>1, <1>5, OpenSound
<1>6. CASE QueuePacket
  BY <1>1, <1>6, QueueSound
<1>7. CASE EndBundle
  BY <1>1, <1>7, EndSound
<1>8. CASE ServerSend
  BY <1>8, ServerSound
<1>9. CASE UNCHANGED <<readVars, srvVars>>
  <2>1. UNCHANGED <<cipher, inSum, levels, queue, reader, fetched, delivered, srvVars>>
    BY <1>9 DEF readVars
  <2>2. /\ SoundInv /\ NextAt(fetched)' = NextAt(fetched)
        /\ WithPayload(AllLeaves(FetchedPackets))' = WithPayload(AllLeaves(FetchedPackets))
    BY <2>1, SameFrames
  <2>3. Pending' = Pending
    BY <2>1 DEF Pending
  <2> QED BY <2>1, <2>2, <2>3, Zenon DEF SoundInv, LevelsSound
<1> QED BY <1>2, <1>3, <1>4, <1>5, <1>6, <1>7, <1>8, <1>9, Zenon
        DEF Next, SendStep, SendHandshake, LoadChecksum, CountChecksum, LockWriter, WriteFrame, vars

\* A connection starts in a state of the reading side's invariant: nothing is
\* sent, read or pending, and both ciphers are the same.
LEMMA InitReadInv == Init => ReadInv
<1> SUFFICES ASSUME Init PROVE ReadInv
  OBVIOUS
<1>1. /\ cipher = Plain /\ inSum = 1 /\ levels = <<>> /\ queue = <<>> /\ reader = "read"
      /\ fetched = 0 /\ delivered = <<>> /\ srvCipher = Plain /\ sent = <<>>
  BY DEF Init
<1>2. <<>> \in Seq(Packets) /\ Len(<<>>) = 0 /\ <<>> \in Seq([packet : Frames, from : Ciphers])
      /\ <<>> \in Seq(Seq(Packets)) /\ <<>> \o <<>> = <<>> /\ 1..0 = {}
  OBVIOUS
<1>3. ReadTypeOK
  <2>1. 1 \in 0..MaxChecksum /\ 0 \in 0..0
    BY Constants
  <2> QED BY <1>1, <1>2, <2>1, CipherTypes DEF ReadTypeOK
<1>4. LevelsOK
  BY <1>1, PendingNone DEF LevelsOK
<1>5. SentInv
  BY <1>1, <1>2, Zenon DEF SentInv
<1>6. Pending = <<>>
  BY <1>1, <1>2, PendingIs, PendingNone, Zenon
<1>7. After(cipher, Keys(Pending)) = NextAt(fetched)
  <2>1. ~ (0 < 0)
    OBVIOUS
  <2> QED BY <1>1, <1>2, <1>6, <2>1, MapsEmpty, Zenon DEF After, NextAt
<1>8. FetchedPackets = <<>>
  BY <1>1 DEF FetchedPackets
<1>9. WithPayload(delivered \o queue \o Pending) = WithPayload(AllLeaves(FetchedPackets))
  BY <1>1, <1>2, <1>6, <1>8, MapsEmpty, Zenon
<1>10. LevelsSound
  BY <1>1, <1>2, Zenon DEF LevelsSound
<1>11. reader \notin {"failed", "panicked"}
  BY <1>1
<1> QED BY <1>3, <1>4, <1>5, <1>7, <1>9, <1>10, <1>11, Zenon DEF ReadInv, SoundInv

\* What is known of the reading side holds throughout, however many tasks send.
THEOREM ReadInvariance == Spec => []ReadInv
<1>1. Init => ReadInv
  BY InitReadInv
<1>2. ReadInv /\ [Next]_vars => ReadInv'
  <2> SUFFICES ASSUME ReadInv, [Next]_vars PROVE ReadInv'
    OBVIOUS
  <2>1. ReadTypeOK' /\ LevelsOK'
    BY ReadTypeStep DEF ReadInv
  <2>2. SentInv'
    BY SentStep
  <2>3. AllSound' => SoundInv'
    BY SoundStep
  <2> QED BY <2>1, <2>2, <2>3, Zenon DEF ReadInv
<1> QED BY <1>1, <1>2, PTL DEF Spec

\* Every variable keeps its type: in particular both checksums stay bytes, and
\* while a frame is processed there is a level to look into.
THEOREM TypeCorrect == Spec => []TypeOK
<1>1. Init => SendTypeOK
  BY InitInv DEF IInv
<1>2. SendTypeOK /\ [Next]_vars => SendTypeOK'
  BY TypeStep
<1>3. SendTypeOK /\ ReadInv => TypeOK
  <2> SUFFICES ASSUME SendTypeOK, ReadInv PROVE TypeOK
    OBVIOUS
  <2>1. levels \in Seq(Seq(Packets)) /\ (reader = "process" => levels # <<>>)
    BY DEF ReadInv, LevelsOK, Stacked
  <2> QED BY <2>1, Zenon DEF ReadInv, ReadTypeOK, TypeOK
<1> QED BY <1>1, <1>2, <1>3, ReadInvariance, PTL DEF Spec

\* As long as the server sends nothing wrong, whenever the reader is about to
\* fetch a frame its cipher is the one the server encrypts that frame with.
THEOREM KeyStaysInStep == Spec => []KeyInStep
<1>1. ReadInv => KeyInStep
  <2> SUFFICES ASSUME ReadInv, AllSound, reader = "read"
               PROVE  cipher = IF fetched < Len(sent) THEN sent[fetched + 1].from ELSE srvCipher
    BY DEF KeyInStep
  <2>1. levels = <<>> /\ SoundInv
    BY DEF ReadInv, LevelsOK
  <2>2. Pending = <<>>
    <3>1. <<>> \in Seq(Seq(Packets))
      OBVIOUS
    <3> QED BY <2>1, <3>1, PendingIs, PendingNone
  <2>3. After(cipher, Keys(Pending)) = cipher
    BY <2>2, MapsEmpty, Zenon DEF After
  <2> QED BY <2>1, <2>3, Zenon DEF SoundInv, NextAt
<1> QED BY <1>1, ReadInvariance, PTL

\* Then read() neither fails nor panics, and every packet with a payload that
\* the server has sent is returned, queued or still to be processed, in order.
THEOREM ReadsAll == Spec => []ReadsWhatWasSent
<1>1. ReadInv => ReadsWhatWasSent
  BY Zenon DEF ReadInv, SoundInv, ReadsWhatWasSent, FetchedPackets
<1> QED BY <1>1, ReadInvariance, PTL
=============================================================================
