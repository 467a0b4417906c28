------------------------------ MODULE ProtocolV5 ------------------------------
(***************************************************************************)
(* One v5 connection: the tasks that send, the login that switches         *)
(* encryption on, the read loop's read(), and the server at the other end. *)
(*                                                                         *)
(* The cipher xors each group of four bytes with the next state of a       *)
(* generator that both ends step from the same key.  Only its position     *)
(* matters: a state is the number of steps taken, a group's mask is the    *)
(* set of states its bytes were xored with, and a frame can be read when   *)
(* every mask is the one state its receiver computes.  Payloads are left   *)
(* out, but for their size and the packets they hold.                      *)
(***************************************************************************)
EXTENDS Naturals, Sequences, SequencesExt

CONSTANTS
  Senders,       \* tasks that call send_packet
  LoginTask,     \* the one that logs in
  Nobody,        \* no task
  Sizes,         \* sizes of compressed payloads, in bytes
  Types,         \* what the first byte of a server's frame may say
  Contents,      \* the packets of a server's frame, by id
  Known,         \* ids the client knows
  MaxFrames,     \* bound: frames the client sends
  MaxReplies     \* bound: frames the server sends

Compressions == {"none", "zlib", "bzip2"}

\* Besides the compression types there are other bytes, and no byte at all.
ASSUME ConstantsOK ==
  /\ LoginTask \in Senders /\ Nobody \notin Senders
  /\ Sizes \subseteq Nat \ {0}
  /\ Types \subseteq Compressions \cup {"other", "empty"}
  /\ \A c \in Contents : c \in Seq(UNION {Range(d) : d \in Contents})
  /\ MaxFrames \in Nat /\ MaxReplies \in Nat

VARIABLES
  key,       \* encryption_key is set
  outState,  \* encryption_out_state, in steps
  pc,        \* where each sender is
  job,       \* the frame it is building, and the state it started from
  writer,    \* who holds the mutex on the write half
  wire,      \* the frames written, in order
  inState,   \* encryption_in_state
  queue,     \* packet_queue
  reader,    \* "read", "fetched", "failed" (an error) or "panicked"
  fetched,   \* how many of the server's frames the reader has fetched
  early,     \* it decoded one of them before the key was set
  delivered, \* the packets read() has returned
  srvState,  \* the server's outgoing generator
  sent       \* the frames the server has sent, in order

sendVars == <<outState, pc, job, writer, wire>>
readVars == <<inState, queue, reader, fetched, early, delivered>>
srvVars  == <<srvState, sent>>
vars     == <<key, sendVars, readVars, srvVars>>

\* get_iterator_limit; process steps the generator once per group of four
\* bytes until the limit is used up.
IteratorLimit(type) == IF type = "none" THEN 12 ELSE 4
Steps(type, size) ==
  LET groups == (size + 3) \div 4
  IN  IF groups < IteratorLimit(type) THEN groups ELSE IteratorLimit(type)

NewFrame(size, from) ==
  [size |-> size, from |-> from, masks |-> <<>>, length |-> 0, typed |-> FALSE]

Init ==
  /\ key = FALSE /\ outState = 0 /\ writer = Nobody /\ wire = <<>>
  /\ pc = [s \in Senders |-> IF s = LoginTask THEN "login" ELSE "idle"]
  /\ job = [s \in Senders |-> NewFrame(0, 0)]
  /\ inState = 0 /\ queue = <<>> /\ reader = "read" /\ fetched = 0 /\ early = FALSE
  /\ delivered = <<>>
  /\ srvState = 0 /\ sent = <<>>

Go(s, l) == pc' = [pc EXCEPT ![s] = l]

-----------------------------------------------------------------------------
(* send_packet.  The key is looked at three times, and the generator's lock *)
(* is taken anew for every step and every look at its state.                *)

\* The caller has built and compressed a packet; process looks for the key.
StartSend(s) ==
  /\ pc[s] \in {"login", "idle"}
  /\ \E size \in Sizes : job' = [job EXCEPT ![s] = NewFrame(size, outState)]
  /\ Go(s, IF key THEN "step" ELSE "length")
  /\ UNCHANGED <<key, outState, writer, wire, readVars, srvVars>>

\* Mutant: the limit is one group short.
StepStateShort(s) ==
  /\ pc[s] = "step"
  /\ IF Len(job[s].masks) + 1 < Steps("zlib", job[s].size)
       THEN /\ outState' = outState + 1
            /\ job' = [job EXCEPT ![s].masks = Append(@, {})]
            /\ Go(s, "mask")
       ELSE UNCHANGED <<outState, job>> /\ Go(s, "length")
  /\ UNCHANGED <<key, writer, wire, readVars, srvVars>>

\* A group's first byte steps the generator, while the limit lasts.
StepState(s) ==
  /\ pc[s] = "step"
  /\ IF Len(job[s].masks) < Steps("zlib", job[s].size)
       THEN /\ outState' = outState + 1
            /\ job' = [job EXCEPT ![s].masks = Append(@, {})]
            /\ Go(s, "mask")
       ELSE UNCHANGED <<outState, job>> /\ Go(s, "length")
  /\ UNCHANGED <<key, writer, wire, readVars, srvVars>>

\* A byte of the group is xored with the state as it is now.
Mask(s) ==
  /\ pc[s] = "mask"
  /\ job' = [job EXCEPT ![s].masks[Len(job[s].masks)] = @ \cup {outState}]
  /\ Go(s, "mask") \/ Go(s, "step")
  /\ UNCHANGED <<key, outState, writer, wire, readVars, srvVars>>

\* `as u16'.
U16(n) == n % 65536

\* Mutant: the length field leaves the type byte out.
FrameLengthBare(s) ==
  /\ pc[s] = "length"
  /\ job' = [job EXCEPT ![s].length = U16(job[s].size)]
  /\ Go(s, "type")
  /\ UNCHANGED <<key, outState, writer, wire, readVars, srvVars>>

\* The length field counts the type byte if there is a key, and has 16 bits.
FrameLength(s) ==
  /\ pc[s] = "length"
  /\ job' = [job EXCEPT ![s].length = U16(job[s].size + IF key THEN 1 ELSE 0)]
  /\ Go(s, "type")
  /\ UNCHANGED <<key, outState, writer, wire, readVars, srvVars>>

TypeByte(s) ==
  /\ pc[s] = "type"
  /\ job' = [job EXCEPT ![s].typed = key]
  /\ Go(s, "lock")
  /\ UNCHANGED <<key, outState, writer, wire, readVars, srvVars>>

LockWriter(s) ==
  /\ pc[s] = "lock" /\ writer = Nobody
  /\ Len(wire) < MaxFrames
  /\ writer' = s
  /\ Go(s, "write")
  /\ UNCHANGED <<key, outState, job, wire, readVars, srvVars>>

\* login sets the key once its packet is written.
WriteFrame(s) ==
  /\ pc[s] = "write"
  /\ wire' = Append(wire, job[s])
  /\ writer' = Nobody
  /\ Go(s, IF s = LoginTask /\ ~key THEN "setKey" ELSE "idle")
  /\ UNCHANGED <<key, outState, job, readVars, srvVars>>

SetKey(s) ==
  /\ pc[s] = "setKey"
  /\ key' = TRUE
  /\ Go(s, "idle")
  /\ UNCHANGED <<outState, job, writer, wire, readVars, srvVars>>

-----------------------------------------------------------------------------
(* read(), called by the read loop alone *)

Fetch ==
  /\ reader = "read" /\ queue = <<>>
  /\ fetched < Len(sent)
  /\ fetched' = fetched + 1
  /\ reader' = "fetched"
  /\ UNCHANGED <<key, sendVars, inState, queue, early, delivered, srvVars>>

\* The packets before the first one with an unknown id are queued all the same.
Parsed(packets) ==
  LET bad == {i \in 1..Len(packets) : packets[i] \notin Known}
  IN  IF bad = {} THEN packets ELSE SubSeq(packets, 1, Min(bad) - 1)

\* Mutant: an incoming frame is masked to the limit of an outgoing one.
DecodeZlibLimit ==
  LET f == sent[fetched] IN
  /\ reader = "fetched" /\ f.type \in Compressions
  /\ inState' = IF key THEN inState + Steps("zlib", f.size) ELSE inState
  /\ early' = (early \/ ~key)
  /\ IF key /\ inState = f.from
       THEN /\ queue' = Parsed(f.packets)
            /\ reader' = IF f.packets # <<>> /\ queue' = f.packets THEN "read" ELSE "failed"
       ELSE queue' = queue /\ reader' = "failed"
  /\ UNCHANGED <<key, sendVars, fetched, delivered, srvVars>>

\* With the key a frame is decrypted from the client's own position, without
\* it the bytes are taken as they are.  What comes out wrong cannot be
\* decompressed, or was not compressed and parses as anything.  A frame with
\* no packets leaves the queue empty, which is an error as well.
Decode ==
  LET f == sent[fetched] IN
  /\ reader = "fetched" /\ f.type \in Compressions
  /\ inState' = IF key THEN inState + Steps(f.type, f.size) ELSE inState
  /\ early' = (early \/ ~key)
  /\ IF key /\ inState = f.from
       THEN /\ queue' = Parsed(f.packets)
            /\ reader' = IF f.packets # <<>> /\ queue' = f.packets THEN "read" ELSE "failed"
       ELSE \/ queue' = queue /\ reader' = "failed"
            \/ \E p \in Known : f.type = "none" /\ queue' = <<p>> /\ reader' = "read"
  /\ UNCHANGED <<key, sendVars, fetched, delivered, srvVars>>

\* The first byte is no compression type, or there is none: packet_data[0].
DecodeRefused ==
  LET f == sent[fetched] IN
  /\ reader = "fetched" /\ f.type \notin Compressions
  /\ reader' = IF f.type = "empty" THEN "panicked" ELSE "failed"
  /\ UNCHANGED <<key, sendVars, inState, queue, fetched, early, delivered, srvVars>>

Pop ==
  /\ reader = "read" /\ queue # <<>>
  /\ delivered' = Append(delivered, Head(queue))
  /\ queue' = Tail(queue)
  /\ UNCHANGED <<key, sendVars, inState, reader, fetched, early, srvVars>>

-----------------------------------------------------------------------------
\* The server learns the key from the login packet and encrypts from then on.
\* Its length fields have 16 bits as well, and count the type byte.
ServerSend ==
  /\ wire # <<>> /\ Len(sent) < MaxReplies
  /\ \E type \in Types, size \in Sizes, packets \in Contents :
       /\ size < 65535
       /\ sent' = Append(sent, [type |-> type, size |-> size, from |-> srvState,
                                packets |-> packets])
       /\ srvState' = IF type \in Compressions THEN srvState + Steps(type, size) ELSE srvState
  /\ UNCHANGED <<key, sendVars, readVars>>

-----------------------------------------------------------------------------
SendStep(s) ==
  \/ StartSend(s) \/ StepState(s) \/ Mask(s) \/ FrameLength(s) \/ TypeByte(s)
  \/ LockWriter(s) \/ WriteFrame(s) \/ SetKey(s)

Next ==
  \/ \E s \in Senders : SendStep(s)
  \/ Fetch \/ Decode \/ DecodeRefused \/ Pop
  \/ ServerSend

Spec == Init /\ [][Next]_vars

-----------------------------------------------------------------------------
(* Properties *)

Masks == Seq(SUBSET Nat)
Frame == [size : Sizes \cup {0}, from : Nat, masks : Masks, length : Nat, typed : BOOLEAN]
Reply == [type : Types, size : Sizes, from : Nat, packets : Contents]

\* Every variable keeps its type.
TypeOK ==
  /\ key \in BOOLEAN /\ early \in BOOLEAN
  /\ outState \in Nat /\ inState \in Nat /\ srvState \in Nat
  /\ pc \in [Senders -> {"login", "idle", "step", "mask", "length", "type", "lock",
                          "write", "setKey"}]
  /\ job \in [Senders -> Frame]
  /\ writer \in Senders \cup {Nobody}
  /\ wire \in Seq(Frame) /\ sent \in Seq(Reply)
  /\ reader \in {"read", "fetched", "failed", "panicked"}
  /\ fetched \in 0..Len(sent)
  /\ reader # "read" => fetched > 0

\* "Standard mutex is OK here as updates are fast": the frames are masked with
\* the generator's states in the order in which they are written, each group
\* with one state and each frame from where the one before it ended.  (Two
\* tasks that send at once step the generator in turns, and write in any order.)
KeystreamInOrder ==
  /\ \A i \in 1..Len(wire) : \A g \in 1..Len(wire[i].masks) :
       wire[i].masks[g] = {wire[i].from + g}
  /\ \A i \in 2..Len(wire) : wire[i].from = wire[i - 1].from + Len(wire[i - 1].masks)

\* The server, which reads frames in the order they were written, can read them
\* all up to the first that is too long for its length field, which cuts the
\* stream in a wrong place: the first is the login, plain and from the initial
\* state; the others are masked as far as the limit allows, and count and carry
\* a type byte.
TypeBytes(i)     == IF i = 1 THEN 0 ELSE 1
Fits(frame, i)   == frame.size + TypeBytes(i) < 65536
Framed(frame, i) ==
  /\ frame.typed = (i # 1)
  /\ frame.length = frame.size + TypeBytes(i)
  /\ Len(frame.masks) = (IF i = 1 THEN 0 ELSE Steps("zlib", frame.size))

ServerCanRead ==
  /\ KeystreamInOrder
  /\ wire # <<>> => wire[1].from = 0
  /\ \A i \in 1..Len(wire) : (\A j \in 1..i : Fits(wire[j], j)) => Framed(wire[i], i)

\* How far a sender has got with its frame: once it has left the generator, the
\* frame is masked from one state to the next as far as the limit allows, and
\* the generator is where the frame ends.
Building  == {"step", "mask", "length", "type", "lock", "write"}
JobInv(s) == pc[s] \in Building =>
  LET j == job[s]  n == Len(job[s].masks) IN
  /\ j.size \in Sizes
  /\ j.from + n = outState
  /\ \A g \in 1..n : IF pc[s] = "mask" /\ g = n THEN j.masks[g] \subseteq {j.from + g}
                                                ELSE j.masks[g] = {j.from + g}
  /\ IF pc[s] \in {"step", "mask"} THEN key /\ n <= Steps("zlib", j.size)
                                   ELSE n = IF key THEN Steps("zlib", j.size) ELSE 0
  /\ pc[s] = "mask" => n > 0
  /\ pc[s] \in {"type", "lock", "write"} => j.length = U16(j.size + IF key THEN 1 ELSE 0)
  /\ pc[s] \in {"lock", "write"} => j.typed = key

\* Where the next frame starts, and where the last one written ends.
NextStart(s) == IF pc[s] \in Building THEN job[s].from ELSE outState
LastEnd      == IF wire = <<>> THEN 0
                ELSE wire[Len(wire)].from + Len(wire[Len(wire)].masks)

\* The inductive invariant of a connection on which only the login task sends.
SerialInv ==
  /\ JobInv(LoginTask)
  /\ NextStart(LoginTask) = LastEnd
  /\ writer = LoginTask <=> pc[LoginTask] = "write"
  /\ pc[LoginTask] = "login" => ~key
  /\ ~key => pc[LoginTask] # "idle" /\ (pc[LoginTask] = "setKey" <=> wire # <<>>)
  /\ key  => pc[LoginTask] # "setKey" /\ wire # <<>>
IInv == TypeOK /\ SerialInv /\ ServerCanRead

\* Unless a frame came in before login had set the key, read() returns what the
\* server sent, in order, up to the first frame with an unknown id, nothing or
\* a wrong type in it, and reports an error for no other.
Understood(f) == f.type \in Compressions /\ f.packets # <<>> /\ Parsed(f.packets) = f.packets
Decoded       == 1..(IF reader = "fetched" THEN fetched - 1 ELSE fetched)
ReadsWhatWasSent == ~early =>
  /\ delivered \o queue =
       FlattenSeq([i \in Decoded |-> IF sent[i].type \in Compressions
                                       THEN Parsed(sent[i].packets) ELSE <<>>])
  /\ reader = "failed" => ~Understood(sent[fetched])
=============================================================================
