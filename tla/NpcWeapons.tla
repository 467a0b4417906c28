------------------------------ MODULE NpcWeapons ------------------------------
(***************************************************************************)
(* What becomes of a weapon that an NPC control client adds and then asks  *)
(* for: the serializer, the v4 frame around it, the server that keeps it,  *)
(* and the way back through a frame, the packet queue and from_bytes.      *)
(*                                                                         *)
(* Strings are the bytes of their UTF-8.  Compressing and decompressing a  *)
(* frame gives its contents back, so a frame is its contents; how long it  *)
(* is on the wire, PackedSize says.  Calls write their frame as a whole    *)
(* under the writer's mutex: a call is a step.  One task asks at a time;   *)
(* who gets whose answer is a question for GClient.                        *)
(***************************************************************************)
EXTENDS Naturals, SequencesExt

CONSTANTS
  Names, Images, Scripts,  \* what the calls are given
  Bursts,                  \* packets the server sends unasked or before a reply
  PackedSize(_),           \* how many bytes contents are compressed to
  ServerIds,               \* the ids of FromServerPacketId
  NoWeapon,                \* no weapon
  MaxCalls,                \* bound: calls
  MaxUnasked               \* bound: frames the server sends unasked

LF == 10
CR == 13
Mark == 167     \* 0xa7, which stands for a line's end in a script
Bias == 32
Chunk == 128    \* 7 bits, which is what encode_bits keeps for a byte
GUINT8_MAX == 223
Bytes == 0..255

NcWeaponGet == 116
NcWeaponAdd == 117
NcWeaponGetReply == 192

\* from_utf8 takes it.  (Two bytes a character are enough here.)
IsUtf8(b) ==
  \A i \in 1..Len(b) :
    /\ b[i] \in 0..127 \cup 128..191 \cup 194..223
    /\ b[i] >= 194 => i < Len(b) /\ b[i + 1] \in 128..191
    /\ b[i] \in 128..191 => i > 1 /\ b[i - 1] >= 194

Weapons == [name : Seq(Bytes), image : Seq(Bytes), script : Seq(Bytes)]
Packets == [head : Bytes, data : Seq(Bytes)]

ASSUME ConstantsOK ==
  /\ \A t \in Names \cup Images \cup Scripts : t \in Seq(Bytes) /\ IsUtf8(t)
  /\ \A u \in Bursts : u \in Seq([head : Bytes, data : Seq(Bytes \ {LF})])
  /\ ServerIds \subseteq Bytes /\ NcWeaponGetReply \in ServerIds
  /\ NoWeapon \notin Weapons
  /\ MaxCalls \in Nat /\ MaxUnasked \in Nat

VARIABLES
  sent,      \* the calls that have been written
  toServer,  \* the frames they became
  handled,   \* how many of them the server has handled
  weapons,   \* what the server keeps, the last that was stored last
  toClient,  \* the server's frames, as packets
  unasked,   \* how many of them nobody asked for
  fetched,   \* how many the reader has fetched
  reader,    \* "reading", "failed" (the session is torn down) or "panicked"
  queue,     \* packet_queue
  read,      \* the packets read() has returned
  asked,     \* the call that waits for an answer
  answer     \* what the last one that got an answer was given

vars == <<sent, toServer, handled, weapons, toClient, unasked, fetched, reader, queue, read,
          asked, answer>>

-----------------------------------------------------------------------------
(* io: Graal-encoded integers and strings *)

\* encode_bits for one byte, which is all the weapon packets need.
EncodeByte(v) == <<(v % Chunk) + Bias>>

\* byte - 32 in a u8: below 32 it wraps, or panics if overflows are checked.
DecodeByte(b) == (b + 256 - Bias) % 256

\* Mutant: any length that fits into a byte is accepted.
WritesByteString(text) == Len(text) < 256

\* write_gu8 refuses more, and the serializing of the packet panics.
WritesGString(text) == Len(text) <= GUINT8_MAX
GString(text) == EncodeByte(Len(text)) \o text

\* Each byte is taken for a character of its own: those from 128 take two bytes.
AsChars(b) == FlattenSeq([i \in 1..Len(b) |->
                IF b[i] < 128 THEN <<b[i]>> ELSE <<192 + (b[i] \div 64), 128 + (b[i] % 64)>>])

HasGString(b) == b # <<>> /\ DecodeByte(b[1]) < Len(b)
GStringOf(b) == SubSeq(b, 2, DecodeByte(b[1]) + 1)
AfterGString(b) == SubSeq(b, DecodeByte(b[1]) + 2, Len(b))

-----------------------------------------------------------------------------
(* The serializer, and the two packets *)

Unix(script) == FlattenSeq([i \in 1..Len(script) |-> IF script[i] = CR THEN <<>> ELSE <<script[i]>>])
Swap(b, from, to) == [i \in 1..Len(b) |-> IF b[i] = from THEN to ELSE b[i]]

\* Mutant: line ends stay.
GScriptAsIs(script) == Unix(script)

GScript(script) == Swap(Unix(script), LF, Mark)

Weapon(name, image, script) == [name |-> name, image |-> image, script |-> script]
Data(call) ==
  LET w == call.weapon IN
  IF call.what = NcWeaponGet THEN w.name
  ELSE GString(w.name) \o GString(w.image) \o GScript(w.script)

\* Mutant: line ends are not restored.
ScriptAsIs(b) == b

ReadScript(b) == Swap(b, Mark, LF)

\* NcWeaponGetImpl::from_bytes, or NoWeapon for its error.
HasTwoStrings(b) == HasGString(b) /\ HasGString(AfterGString(b))
FromBytes(b) ==
  LET rest == AfterGString(b)
      script == ReadScript(AfterGString(rest))
  IN  IF HasTwoStrings(b) /\ IsUtf8(script)
        THEN Weapon(AsChars(GStringOf(b)), AsChars(GStringOf(rest)), script)
        ELSE NoWeapon

-----------------------------------------------------------------------------
(* Protocol v4 *)

Frame(call) == EncodeByte(call.what) \o Data(call) \o <<LF>>

\* The length field holds the size `as u16': who reads the frame of a size that
\* does not fit takes a part of it for the whole, and the rest for frames.
LengthField(contents) == PackedSize(contents) % 65536
Whole(contents)       == LengthField(contents) = PackedSize(contents)

\* Mutant: the byte after the id is taken for data whatever it is.
UntilLFLate(frame, i) == Min({j \in (i + 1)..Len(frame) : frame[j] = LF} \cup {Len(frame) + 1})

\* read_until from place i stops at a line feed, or at the end.
UntilLF(frame, i) == Min({j \in i..Len(frame) : frame[j] = LF} \cup {Len(frame) + 1})

\* A frame's packets: a byte, and the data up to a line feed.
Split(frame) ==
  LET n == Len(frame)
      split[i \in 1..(n + 2)] ==
        IF i > n THEN <<>>
        ELSE LET stop == UntilLF(frame, i + 1)
             IN  <<[head |-> frame[i], data |-> SubSeq(frame, i + 1, stop - 1)]>> \o split[stop + 1]
  IN  split[1]

Init ==
  /\ sent = <<>> /\ toServer = <<>> /\ handled = 0 /\ weapons = <<>>
  /\ toClient = <<>> /\ unasked = 0 /\ fetched = 0
  /\ reader = "reading" /\ queue = <<>> /\ read = <<>>
  /\ asked = <<>> /\ answer = <<>>

Add(w)    == [what |-> NcWeaponAdd, weapon |-> w]
Get(name) == [what |-> NcWeaponGet, weapon |-> Weapon(name, <<>>, <<>>)]

\* Once the reader has failed the session is over, and nothing is written.
Write(call) ==
  /\ reader # "failed" /\ Len(sent) < MaxCalls
  /\ sent' = Append(sent, call)
  /\ toServer' = Append(toServer, Frame(call))

\* A name or an image that write_gu8 refuses makes the caller's task panic
\* before anything is written.
AddWeapon ==
  /\ \E n \in Names, i \in Images, s \in Scripts :
       /\ WritesGString(n) /\ WritesGString(i)
       /\ Write(Add(Weapon(n, i, s)))
  /\ UNCHANGED <<handled, weapons, toClient, unasked, fetched, reader, queue, read, asked, answer>>

\* The weapon of this name that was added last, with Unix line ends in its script.
LastAdded(name) ==
  LET adds == {i \in 1..Len(sent) : sent[i].what = NcWeaponAdd /\ sent[i].weapon.name = name}
  IN  IF adds = {} THEN NoWeapon ELSE [sent[Max(adds)].weapon EXCEPT !.script = Unix(@)]

GetWeapon ==
  /\ asked = <<>>
  /\ \E n \in Names : Write(Get(n)) /\ asked' = <<LastAdded(n)>>
  /\ UNCHANGED <<handled, weapons, toClient, unasked, fetched, reader, queue, read, answer>>

Pack(packets) == FlattenSeq([i \in 1..Len(packets) |-> <<packets[i].head>> \o packets[i].data \o <<LF>>])

\* Where the parsing of a frame stops: at an id the client does not know, and,
\* in a build that checks overflows, at a byte that stands for none.
Stop(packets, checked) ==
  Min({i \in 1..Len(packets) : \/ DecodeByte(packets[i].head) \notin ServerIds
                               \/ checked /\ packets[i].head < Bias} \cup {Len(packets) + 1})

\* read_from_stream.  A frame without a packet is an error for read().
Fetch ==
  /\ reader = "reading" /\ queue = <<>> /\ fetched < Len(toClient)
  /\ LET packets == Split(Pack(toClient[fetched + 1])) IN
     \E checked \in BOOLEAN :
       LET stop == Stop(packets, checked) IN
       /\ queue' = SubSeq(packets, 1, stop - 1)
       /\ reader' = IF packets = <<>> THEN "failed"
                    ELSE IF stop > Len(packets) THEN reader
                    ELSE IF checked /\ packets[stop].head < Bias THEN "panicked"
                    ELSE "failed"
  /\ fetched' = fetched + 1
  /\ UNCHANGED <<sent, toServer, handled, weapons, toClient, unasked, read, asked, answer>>

\* read() takes a packet off the queue; the task that asked converts an answer.
Pop ==
  /\ reader = "reading" /\ queue # <<>>
  /\ LET packet == Head(queue) IN
       /\ read' = Append(read, packet)
       /\ IF asked # <<>> /\ DecodeByte(packet.head) = NcWeaponGetReply
            THEN asked' = <<>> /\ answer' = <<asked[1], FromBytes(packet.data)>>
            ELSE UNCHANGED <<asked, answer>>
  /\ queue' = Tail(queue)
  /\ UNCHANGED <<sent, toServer, handled, weapons, toClient, unasked, fetched, reader>>

-----------------------------------------------------------------------------
(* The server *)

\* The weapons it finds in a frame's packets, whose strings it can write itself.
Added(packets) ==
  LET rest(b)   == AfterGString(b)
      weapon(b) == Weapon(GStringOf(b), GStringOf(rest(b)), AfterGString(rest(b)))
      adds(p)   == /\ p.head = NcWeaponAdd + Bias /\ HasTwoStrings(p.data)
                   /\ WritesGString(weapon(p.data).name) /\ WritesGString(weapon(p.data).image)
  IN  FlattenSeq([i \in 1..Len(packets) |->
        IF adds(packets[i]) THEN <<weapon(packets[i].data)>> ELSE <<>>])

\* What it answers if the frame asks for a weapon that it has.
ServerString(text) == <<Len(text) + Bias>> \o text
Reply(packets, kept) ==
  LET found == {i \in 1..Len(kept) : kept[i].name = packets[1].data}
      w     == kept[Max(found)]
  IN  IF packets[1].head # NcWeaponGet + Bias \/ found = {} THEN <<>>
      ELSE <<[head |-> NcWeaponGetReply + Bias,
              data |-> ServerString(w.name) \o ServerString(w.image) \o w.script]>>

\* A server that has read a part of a frame makes nothing of what follows, and it
\* does not get past a reply that would be too long for a frame.
ServerHandle ==
  /\ handled < Len(toServer) /\ Whole(toServer[handled + 1])
  /\ LET packets == Split(toServer[handled + 1])
         reply == Reply(packets, weapons)
     IN  /\ weapons' = weapons \o Added(packets)
         /\ IF reply = <<>> THEN toClient' = toClient
            ELSE \E burst \in Bursts :
                   Whole(Pack(burst \o reply)) /\ toClient' = Append(toClient, burst \o reply)
  /\ handled' = handled + 1
  /\ UNCHANGED <<sent, toServer, unasked, fetched, reader, queue, read, asked, answer>>

ServerTalk ==
  /\ unasked < MaxUnasked
  /\ unasked' = unasked + 1
  /\ \E burst \in Bursts : Whole(Pack(burst)) /\ toClient' = Append(toClient, burst)
  /\ UNCHANGED <<sent, toServer, handled, weapons, fetched, reader, queue, read, asked, answer>>

-----------------------------------------------------------------------------
Next == AddWeapon \/ GetWeapon \/ Fetch \/ Pop \/ ServerHandle \/ ServerTalk

Spec == Init /\ [][Next]_vars

-----------------------------------------------------------------------------
(* Properties *)

\* Every variable keeps its type, what is on the wire are bytes, and no string is
\* written that is too long for its length to be.
TypeOK ==
  /\ sent \in Seq([what : {NcWeaponGet, NcWeaponAdd}, weapon : Weapons])
  /\ toServer \in Seq(Seq(Bytes)) /\ Len(toServer) = Len(sent)
  /\ \A i \in 1..Len(sent) : sent[i].what = NcWeaponAdd =>
       Len(sent[i].weapon.name) <= GUINT8_MAX /\ Len(sent[i].weapon.image) <= GUINT8_MAX
  /\ handled \in 0..Len(toServer) /\ weapons \in Seq(Weapons)
  /\ toClient \in Seq(Seq(Packets)) /\ unasked \in 0..MaxUnasked
  /\ fetched \in 0..Len(toClient) /\ reader \in {"reading", "failed", "panicked"}
  /\ queue \in Seq(Packets) /\ read \in Seq(Packets)
  /\ Len(asked) <= 1 /\ Len(answer) \in {0, 2}

\* Whatever is in a script, a call's frame is one packet for who splits it: a line
\* feed ends a packet, so none may be left in its data.  (Names and images are
\* written as they are.)  This goes for the frames up to the first whose size does
\* not fit its length field; behind that one nothing is read as it was written.
NoLF(text) == \A i \in 1..Len(text) : text[i] # LF
OnePacket ==
  \A i \in 1..Len(sent) :
    /\ \A j \in 1..i : Whole(toServer[j])
    /\ NoLF(sent[i].weapon.name) /\ NoLF(sent[i].weapon.image)
    =>
      /\ Len(Split(toServer[i])) = 1
      /\ Split(toServer[i])[1].head = sent[i].what + Bias

\* A weapon that is asked for is the one that was added last under its name, with
\* its script's lines, if the names and images are one line and shorter than 128
\* bytes: write_gu8 accepts up to 223, but encode_bits cuts to 7 bits.  Names and
\* images come back with a character for each byte, which is another text if they
\* are not ASCII.  A script with a byte 0xa7 of its own (in an accented letter,
\* say) is not read back at all, and there is no answer once a script was too long
\* for the frame's length.
Plain(text) == NoLF(text) /\ Len(text) < Chunk
HasMark(text) == \E i \in 1..Len(text) : text[i] = Mark
ReadBack ==
  answer # <<>> /\ (\A i \in 1..Len(sent) : Plain(sent[i].weapon.name) /\ Plain(sent[i].weapon.image)) =>
    /\ answer[1] # NoWeapon
    /\ answer[2] = IF HasMark(answer[1].script) THEN NoWeapon
                   ELSE [answer[1] EXCEPT !.name = AsChars(@), !.image = AsChars(@)]

\* While the server sends frames that hold packets, and packets that the client
\* knows, reading goes on and every packet is read once and in order; and
\* otherwise up to where it fails.
Known(frame) == frame # <<>> /\ \A i \in 1..Len(frame) :
                  frame[i].head >= Bias /\ frame[i].head - Bias \in ServerIds
ReadsWhatWasSent ==
  LET frames == SubSeq(toClient, 1, fetched)
      whole == FlattenSeq(frames)
  IN  /\ IsPrefix(read \o queue, whole)
      /\ (\A i \in 1..fetched : Known(frames[i])) => reader = "reading" /\ read \o queue = whole
=============================================================================
