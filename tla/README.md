# Formal models of the Preagonal client

TLA+ models of `preagonal-client-rs`, TLC configurations that check them on small
instances, and TLAPS proofs of their invariants for every instance. Paths are those
of the repository (`src/net/client/gclient.rs` is the session, and so on).

## The system

The program keeps clients connected to game servers: remote control clients (RC, protocol
v5), game clients (v6) and NPC control clients (NC, v4), the last opened on demand by an RC
client. Discord commands call into the clients, and packets the server sends unasked are
reported to Discord by event handlers.

| Part | State | Operations | Interacts with |
|---|---|---|---|
| `GClient` (`client/gclient.rs`): one session | `is_disconnected`, `pending_requests`, `event_handlers`, `disconnect_handler`, `shutdown` (a `Notify`), `join_set` | `connect`, `send_packet`, `send_and_receive`, `disconnect`, `wait_for_tasks`, two registrations, the read loop, `handle_disconnect_internal` | the protocol below it (read, write, shutdown), callers and handlers above |
| v5 protocol (`protocol/proto_v5.rs`) | key, the two cipher states, packet queue, one mutex per half of the stream | `send_packet`, `read`, `set_encryption_key` | the server: both ends must step the cipher alike |
| v6 protocol (`protocol/proto_v6*.rs`) | two checksums, RC4 key, packet queue, header format | `send_packet`, `read`, `send_handshake` | the server |
| v4 protocol (`protocol/proto_v4.rs`) | packet queue | `send_packet`, `read` | the server |
| `RemoteControlClient` (`client/rc.rs`) | `client` (its session), `npc_control` (a cached NC client), `last_activity`, `auto_disconnect_task` | `connect`, `login`, `get_npc_control`, `with_npc_control`, `disconnect` | a GClient session, NC clients |
| `NpcControlClient`, `GameClient` (`client/nc.rs`, `client/game.rs`) | `client` | `connect`, `login`, weapon calls | a GClient session |
| `main.rs` | the clients | `create_rc_client`, `create_game_client`, their disconnect handlers | sessions end, handlers open the next |
| Codec, readers and writers (`io/`), serializer (`net/serialization`), packet types | none | pure conversions | protocols |
| Discord front end (`discord/`) | the clients; a task for each command and each `ready` | `interaction_create` with three commands, `ready`, the callbacks it registers | calls the clients; Discord calls it, and may call `ready` again |

What is hard here is concurrency: tokio tasks that share a session (callers, the read loop,
event callbacks), each step between two awaits interleaved with the others; a teardown that
any of them can start and that joins the others; timeouts that race with answers; a cache
that several callers fill and clear; a login that switches encryption on while the
reader is running; a handler that replaces the session while others use it. The complete list of
such places, with line and property, is under `hazards` in `PROJECT.json`.

What makes the parts correct:

* **Session**: torn down once, the handler called at most once and only after the end; every call
  returns if writes end; a failing call leaves no half-open session; requests get their own answer;
  the read loop of an ended session ends.
* **v5**: frames on the wire carry the keystream in order; the server can read each of
  them; `read` returns the packets that were sent.
* **v6**: outgoing frames are numbered without a gap behind the handshake; both ends of the
  incoming cipher stay in step through bundles and new keys; no packet with a payload is lost.
* **v4, serializer, codec**: a packet's data cannot end the packet; a weapon that is stored comes
  back as it was.
* **NC cache**: nobody works with a client that has not logged in; a client that failed is not
  served again; a cached client is not overwritten; an idle one is disconnected.
* **v6 header**: whatever format string is accepted, a header can be made; with a sensible one both
  ends cut the stream into the same frames.
* **Reconnecting**: one connection at a time; a reported success is one; a lost session is
  replaced.
* **Discord**: a command's answer tells whom it reached, and each command comes to an end; a packet
  is posted no more often than `ready` was called.

## The modules

| Module | Models | Abstracted |
|---|---|---|
| `Session` | what a session promises: its phases, each request, the disconnect handler | everything else |
| `GClient` | `client/gclient.rs` | the protocol (a write succeeds or fails, a read yields a packet or fails), payloads, timers (may fire whenever their task waits) |
| `ProtocolV5` | `protocol/proto_v5.rs` with `login`'s use of the key | payload bytes: the keystream is a position, a frame its size, masks and packets |
| `ProtocolV6` | `protocol/proto_v6.rs`; of `proto_v6_header.rs` only what can be wrong with a header | payload bytes, the RC4 keystream (key and position), header layout, zlib, RSA |
| `HeaderV6` | `protocol/proto_v6_header.rs` byte by byte, with the sending and cutting of frames in `proto_v6.rs` and the format in `config.rs` | encryption, bundles, what compression does to data |
| `NpcWeapons` | `protocol/proto_v4.rs`, the weapon packets, `serialize.rs` and `io/` as far as they use them | zlib, but for how long a frame is on the wire (`PackedSize`); who waits for which answer |
| `NpcControl` | the NC cache of `client/rc.rs`, `disconnect`, the auto-disconnect task, `client/nc.rs` | sessions: open until they are torn down |
| `Reconnect` | `main.rs`, with `connect` and `login` of `client/rc.rs` and `client/game.rs` | sessions: open, ending, over |
| `Discord` (extends `Reconnect`) | `discord/`, with the calls of `client/rc.rs` and `client/gclient.rs` that it makes | the other clients (a call succeeds or fails), the NC client (`NpcControl`), texts, the Discord API |
| `MC*` | values for TLC | |
| `*Proofs` | the theorems about the module of that name (`DiscordProofs` has those about `Reconnect` too) | |
| `DataInduction` | induction over numbers and sequences for the proofs, and what it shows of `FlattenSeq` | |

`GClient` implements `Session` (`KeepsPromise`, checked and proved). `NpcControl` and
`Reconnect` sit on top of sessions and use what `GClient` shows of them: a request ends with an
answer, a timeout or a dropped sender, and the last two end the session; the handler is called
once, after the end, and may be cut when the read loop calls it. `Discord` composes `Reconnect` with
its callers: a command may write to, or tear down, whichever session the client has at that moment.

Actions carry the name of the function or the step of it (`ReqInsert`, `DisconnectMark`,
`StepState`, `Store`, `HandlerClear`); `pc` says where each task is. A step is the code between
two points where another task may come in: an await, or taking and releasing a lock. Locks that are
held across an await (the write half, the write lock on `is_disconnected`) name their
owner; `pending_requests`, held while callbacks are spawned, is the condition `PendingLocked`.
Definitions whose comment begins with "Mutant:" are not part of a model: each is a
variant of the definition after it with a plausible mistake, and shows that the properties would
notice it (`mutants` in `PROJECT.json`).

### GClient

`Users` are the tasks that call in; `Reader` is the task of `read_loop_fut`; `Callbacks` are
slots for spawned event handlers. `chan` is the oneshot channel of a user's request and
`pending` the map of stored senders; a request is tagged (user, serial number) so that
`AnswerIsOwn` can tell whose answer a packet is, which the code, matching by id, cannot.
`Notify::notify_waiters` wakes whoever waits at that moment: `notified` becomes true only for a
read loop at its `select!`, and only callbacks polled at least once are woken. `Join` ends either
because all tasks have ended or because five seconds are over; dropping the `JoinSet` then
aborts those that have not, the read loop included when it is itself the one that joins.
`CancelReader` is that abort taking effect at an await. `ReaderPanic` is the end of a read loop whose
protocol panics on what it reads: the task is gone, and the session knows nothing of it. A write ends in
`SendDone` or, for any error, in `SendFail`; `protocol.write` has no timeout, so when it ends is the server's
business too (`WriteEnd`). `crossed` is a history variable that no step depends on: the ids that two users have asked for
at once, or that came unasked. `Ops` says which operations each user calls.

### ProtocolV5

A frame's `masks` has, for each group of four bytes, the set of cipher states its bytes
were masked with: one state if nobody stepped the generator in between. `process` takes
the lock for each byte, so `StepState` and `Mask` are steps of their own; `key` is read at
the three places the code reads it. The server is external: it encrypts from its own state,
sends any type byte, contents and size of the configured sets, and an empty frame. Length fields are cut to 16 bits (`U16`).

### ProtocolV6

Outgoing frames carry a checksum that counts frames and are not encrypted; a send is four steps
(`LoadChecksum`, `CountChecksum`, `LockWriter`, `WriteFrame`), since the counter is an atomic
that is loaded and stored before the writer is locked. `buffer` is the `BufWriter`: the handshake stays in it until
the first frame flushes it. On the way in, a cipher is `[key, pos]`. `levels` is the recursion of
`process_packet_bundle`: a sequence of packets for each bundle that is being read. `RefusePacket`
is every way in which a packet ends the reading (`Flaws`), `OpenBundle` and `EndBundle` enter
and leave a bundle, `QueuePacket` queues a packet and takes a new key into use. `SetEncKey` is queued like
any packet, though the comment at `proto_v6.rs:66` says it is not (finding 7).

### HeaderV6

A format is a sequence of letters, from which `Configure` takes the index of each letter and how
often it occurs (`Index`, `Count`); from then on a field is that run of bytes, wherever its other letters
are. `Header` puts the four fields in the order of the code, so that a later one overwrites an
earlier one when they overlap. `Bytes` and `Number` are the two loops over bytes, big-endian and cut
to the field; a shift by n bytes (`Shift`) divides n times by `Base`. The other end, given the same format, cuts the stream as `read_from_stream` does. Sends are
numbered in order since one task sends (several are the matter of `ProtocolV6`).

### NpcWeapons

Texts are the bytes of their UTF-8 and the constants are the real ones (7 bits, maximum 223, bias 32),
since what matters is where they do not fit together: `WritesGString` accepts a length up to
223, `EncodeByte` keeps 7 bits of it, `DecodeByte` wraps, `AsChars` makes a character of each
byte, `GScript` turns line ends into 0xa7 and `ReadScript` back. A frame is its
uncompressed contents, and `PackedSize`, a constant operator, says how many bytes they are compressed to: `LengthField` is that number cut to
16 bits, as in `proto_v4.rs:108`. A frame that is not `Whole` is read in part, and the stream behind it in wrong places: the model's server gets no
further. `Split` is the loop of `read_from_stream`, used for the server too, which
keeps what it can parse and answers `NcWeaponGet`. A byte below 32 where an id is expected
panics or wraps, depending on whether the build checks overflows: `Fetch` has both. A client task asks for
one weapon at a time.

### NpcControl and Reconnect

A caller of `nc_get_weapon` or `nc_add_weapon` looks the cache up, asks the RC server for the
address, connects, logs in, stores the client, uses it and clears the cache on error, each a
step; sessions end between any two. `failed` records the clients that a returned call has failed
with. In `Reconnect`, sessions are numbered in the order they are opened; `hooked` are those on
which a handler was registered; `target` is the session that main or the handler is working on,
which need not be the client's session at that moment.

### Discord

One client, `me`, is that of `Reconnect`, an RC or a game client; the others are among `Clients` by
position only. A command goes through the RC clients (`pos`), looks up the session of the moment (`aim`), and writes
to it later (`Write`), when it may be over or in another task's teardown (`Refused`). A query waits for its answer
(`Answered`). `TearDown` is a write that fails or a query whose answer does not come: the command's task ends the session, as ender "caller", and waits in
`TornDown` for the disconnect handler. `reached` is what the command has done, `outcome` what its user is told.
`RegisterMine` registers with the session of the moment, once for each running `ready`. `running` counts the callbacks
of each packet, whichever session it came on, and `posts` are the messages in the channel.

## What TLC checks

| Run | Instance | Shows |
|---|---|---|
| `gclient_safety` | two users asking for the same response id, one of them twice, the other with all operations, `wait_for_tasks` included; one callback slot, one event handler, an unasked packet with that id | `IInv`, `HandlerOnce`, `FailureEndsSession`, `OldReaderStopped`, `AnswerIsOwn`, `WaitEndsReader` |
| `gclient_fair` | two users asking for the same response id once each, one of them also disconnecting, fair tasks, a broken packet, a server that may stay silent | `EveryCallReturns`, `ReaderStops`, `HandlerCalled`, `DeadReaderNoticed`, `DroppedEndsSession`, and the refinement of `Session` |
| `gclient_handlercut` | one user | the disconnect handler is cut off (finding) |
| `v5_serial` | one sender, three frames of one group, of more than the cipher's limit, or at the limit of the length field; two server frames of every type and contents | `IInv`, `ServerCanRead`, `ReadsWhatWasSent` |
| `v5_concurrent` | two senders | the keystream gets out of order (finding) |
| `v6_serial` | one sender with five frames, three server frames: plain, without payload, keys, bundles in bundles, each flaw | `TypeOK`, `IInv`, `NumberedInOrder`, `KeyInStep`, `ReadsWhatWasSent` |
| `header_v6` | seven formats that are accepted, in one piece or not, three that are refused; three frames, empty to longer than a length field can say | `TypeOK`, `NeverPanics`, `ReadsFrames` |
| `npc_weapons` | three calls; names and images with a line feed, an accented letter, 127, 128 and 224 bytes; scripts with CR LF, with a 0xa7, and one too long for a frame; an unasked frame, empty, unknown or with a byte below 32 | `TypeOK`, `OnePacket`, `ReadBack`, `ReadsWhatWasSent` |
| `npc_safety` | two callers with two calls each, three clients, all session ends, `disconnect` | `IInv`, `UsesLoggedIn`, `FailedNeverServed`, `NeverReplaced` |
| `npc_idle` | one caller, fair | the idle client is never disconnected (finding) |
| `discord` | one command, two calls of `ready`, two RC clients and a game client, one of the three reconnecting, its sessions ended by their reader or by a caller, connecting may fail | `DInv` (with `IInv` of `Reconnect`), `OneConnection`, `SuccessIsLoggedIn`, `HandlerTries`, `AnswerTellsReach`, `ReportedPerReady`, `EarlyOnReplacement`, `CommandsEnd` |
| `reconnect_again` | main and the handler of one client, connecting works and the handler is not cut | the second loss is not repaired (finding) |

`AnswerIsOwn` excuses the ids in `crossed`: the code matches by id alone, so under such an id whatever comes first ends
a request. What it forbids is that a late answer, to a request that timed out, ends the next one.
`EveryCallReturns`, `DeadReaderNoticed` and `DroppedEndsSession` have the premise `WritesEnd`. A server that stops reading can block a
write; the writer then keeps the mutex of the write half, who tears the session down waits for that mutex inside `shutdown` with the write lock
on `is_disconnected` (`gclient.rs:190` to 200), and every other call waits for the flag. The timeout against deadlocks (`gclient.rs:213`)
comes after that.
`HandlerCalled` speaks of a teardown by a caller, and of a read loop that joins itself. A read loop that a call of `wait_for_tasks` has taken away can be
aborted by that call while it joins the others, and then nobody calls the handler.

**Bounds.** Two users suffice for the races here, which are between a caller, a second caller and the
read loop. In `gclient_safety` one user has two requests, so that an answer of the first could reach the second, and both ask for one id, so that
they meet or not. In `gclient_fair` each has one: the one whose sender is dropped, the one that waits and the one that tears down can be different tasks. One callback slot is enough
for a callback that is spawned, polled, notified, aborted or late. In `ProtocolV5` sizes 3 and
20 lie on both sides of the cipher's limit for zlib (16 bytes), and 65535 fits the length field of the login and, with a type byte, no other; three frames are the login
and two encrypted ones. In `ProtocolV6` checksums end at 3 instead of 255 (`MaxChecksum`), so that five frames go past the
wrap; headers have 2 bytes, whatever the format (only "shorter than a header" matters); three server frames let a
key in a nested bundle apply to the frame after it, and another replace it. In `NpcWeapons` three calls are an addition, one that
replaces it or spoils it, and the question; contents of more than 150 bytes count as compressed to 65537 (`SomePackedSize`), which a script of 30 bytes with the longest image reaches. Three NC clients allow two at once and a successor. In `HeaderV6` a byte has 6 values
instead of 256, so that data of 31 bytes overflows a length field of one byte and, with any header, one of two (36 values); data is compressed above 1 byte
instead of 55. `Reconnect` and `Discord` have
room for three sessions; the proofs show that there are never more than two. One command meets the other actors: main's handler, the
reader, `ready` (a command changes nothing that another reads but through the session, and the proofs are for any number of them); two RC clients put one in front of or behind the reconnecting one. `MaxCalls`,
`MaxInbound`, `MaxEvents`, `MaxHandlers`, `MaxFrames`, `MaxReplies`, `MaxReadies`, `MaxUnasked` and `MaxSessions`
appear only in guards.

**Deadlock** is checked for `GClient` and `NpcControl`, which can always go on. The frames of
`ProtocolV5`, `ProtocolV6` and `HeaderV6` and the calls of `NpcWeapons` are bounded and their readers stop at an error, and in
`Reconnect` and `Discord` the program may end: their configurations do not check it.

**Fairness.** Tokio polls every task that can run (WF on each task's steps), its locks are first come
first served (SF on taking the writer's lock). Timers fire, and the disconnect
handler ends when it is not aborted. That a write ends is not assumed: `WF` is on `OwnStep`, without `WriteEnd`, and a property that needs it says so
(`WritesEnd`). The task of a command in `Discord` is one of those tasks; its awaits end if
HTTP calls do and, as `EveryCallReturns` says of `GClient`'s calls, writes. Nothing is assumed of the server, of whether anyone calls, or of event
callbacks, which run for as long as they like; an aborted one ends (WF).

## What is proved

Every safety property that a passing run checks, and the refinement of `Session`, is a theorem for every value of the constants that
satisfies the assumptions of the module (`ConstantsOK`, `DiscordOK`, `HeaderOK`) and, where it is named below, one hypothesis
more. The inductive invariants were checked by TLC on the runs before they were proved.

* `GClientProofs`: `IInv` is inductive; from it `HandlerOnce`, `FailureEndsSession`
  and the refinement of `Session` step by step. That the handler is called
  once does not follow from the flag alone: the invariant adds who holds the lock on the
  flag (`FlagLock`), that only one task is past the flag (`OneTeardown`) and that the
  handler was not called while a task is on its way to it (`HandlerState`). `ShutFirst`
  and `WriterLock` give the order of shutting and closing that `Session` asks for.
  * `OldReaderStopped` and `WaitEndsReader`: until the read loop has ended or is told to, it is in the `JoinSet` or among the tasks that somebody who
    joins has taken (`StopInv`); the one teardown takes what is in the `JoinSet` before it calls the handler, and what is not there a call of
    `wait_for_tasks` has. No step puts the read loop back.
  * `AnswerIsOwn`, for any response ids: as long as an id is not in `crossed` a stored sender is that of the id's only asker, what is on its way under that id
    answers that user's last request (`AllExpected`), once (`AnsweredOnce`), and a full channel is one whose user waits. A request that gives up ends
    the session, so that there is no next request for its late answer to end.
* `ProtocolV5Proofs`, sending: for one sender (`Serial`) and any sizes
  `IInv` is inductive, and the server can read every frame up to the first that does not fit its length field. `JobInv` follows a
  frame through `process`; `NextStart = LastEnd` links it to the last frame written. Reading, for any number of senders: `ReadInv` links
  each frame's cipher state to that of the next (`SentInv`) and the client's to the frame it will read (`InStep`), as long as no
  frame came before the key; `ReadsWhatWasSent` follows.
* `ProtocolV6Proofs`, sending: for one sender (`Serial`) `IInv` is inductive and contains `NumberedInOrder`:
  `SendInv` says what number a send that is under way carries, and that the handshake is still in front of
  it. Nothing is assumed of the reader or the server. The proof is about any `MaxChecksum` above 0, so 255 is one case.
  Reading, for any senders, packets and depth of bundles: `ReadInv` says that, while nothing sent is wrong (`SoundInv`), the reader's cipher after the keys still
  pending in the open bundles is that of the next frame, and that what was delivered, is queued and is pending are
  the packets with a payload that were fetched, in order. `KeyInStep`, `ReadsWhatWasSent` and `TypeOK` follow. What a packet holds is recursive
  (`Leaves`, `Sound`); the recursion ends since a bundle is longer than each packet in it (`ConstantsOK`).
* `HeaderV6Proofs`: `NeverPanics` needs no invariant beyond that each letter occurs: the first of a
  letter's positions has the others behind it, so that index plus count stays inside the header. `FieldsSurvive` and `RoundTrip` show that in a format in one piece
  no field overwrites another, and that a number is read as it was written if it fits its bytes. In such a format the other end is in step (`InStep`: what is on the
  wire is what the frames it has not read are made of, up to one too long for its length field) or has read something in the place of one that does not fit
  (`Lost`); `ReadsFrames` follows. For any format, `TypeOK`. `HeaderOK` allows eight bytes to a field, beyond which the code's shift overflows.
* `NpcWeaponsProofs`: `WInv` says that what is on the wire is what the calls write (`SentInv`), that the server keeps
  and sends lines (`ServerInv`: neither a `GScript` nor a parsed packet holds a line feed), and that what the client has read and queued is what it has fetched, unless it stopped at a frame it does not know
  (`FetchInv`). `TypeOK`, `OnePacket` and `ReadsWhatWasSent` follow. They, and `ReadBack`, hold for any `PackedSize`: the server
  handles no frame from the first that is not `Whole` on.
  * `ReadBack` (hypothesis `AnswersWhenAsked`: no frame that the server sends unasked has a packet with the id of the answer to `NcWeaponGet`; otherwise the
    waiting task takes that for its answer): when names and images are plain, the server keeps last under each name what was added last (`KeepInv`), and a question has either not been handled, or was about a weapon that is not there, or has
    exactly one answer on its way (`AskInv`). Parsing what `GString` and `GScript` have written gives it back; a 0xa7 of the
    script's own is the middle or end of a character, which is broken when it comes back as a line feed, so that the reader refuses the text.
* `NpcControlProofs`: `IInv`, where `MadeByOne` (a client in the making belongs to one
  caller) and `Unmade` are what makes `FailedNeverServed` inductive: a caller stores a client
  that nobody else can have failed with. `NeverReplaced` holds of every `Store`.
* `DiscordProofs`: `IInv` of `Reconnect` says which session each step of main and of the handler works on;
  `OneConnection` and `SuccessIsLoggedIn` follow. Every step of `Discord` is one of `Reconnect` or leaves its variables alone
  (`ImplementsReconnect`), so what is proved there holds with Discord in front. `DInv` is inductive: `CommandInv` says where a
  command is, `ClientInv` that the first session is the client's until the handler connects, which gives
  `EarlyOnReplacement`. `ReportedPerReady` is a count: by `CountInv` the handlers of a session and the `ready` calls
  that are still on their way to the client are together no more than the calls made, and a packet has no more callbacks than its session had handlers.

**Induction over data.** The library's induction theorems take an operator as a parameter, which the installed
provers cannot instantiate. `DataInduction` states induction with sets instead (a set that has 0 and the successor of each of its members has all of `Nat`; the
same of sequences that grow at the end and of elements with a size), from the library's well-founded order on the naturals. The sets are
those of the numbers or sequences of which the lemma holds. `Recursion` shows that a function defined by recursion on a size exists and obeys its equation,
and the rest is what follows for `FlattenSeq`, which the models use to put frames, packets and bytes together. It has no assumptions.

**Only model-checked**: liveness (`EveryCallReturns`, `ReaderStops`, `HandlerCalled`, `DeadReaderNoticed`, `DroppedEndsSession`, `HandlerTries`, `CommandsEnd`),
which needs fairness and `ENABLED` and is beyond the prover, and what the findings refute, for which there is nothing to prove.

## Findings

1. The read loop that meets an error aborts itself, and with it the disconnect handler that
   should reconnect (`HandlerCompletes`, run `gclient_handlercut`).
2. Two v5 senders at once put the two ends of the cipher out of step (`KeystreamInOrder`).
3. The auto-disconnect task ends when it is first polled (`IdleIsDisconnected`).
4. A reconnected session is not reconnected when it is lost in turn (`Reconnects`).

Three comments say what the code does not do; there the properties of passing runs say what it does:

5. "RecvError is encountered when the sender is dropped, which should not happen" (`gclient.rs:339`): a second request for a response id that is
   awaited replaces, and so drops, the sender of the first (`ReqInsert`), and that ends the session (`DroppedEndsSession`, run `gclient_fair`). Two Discord commands that both have
   to ask for the NC server's address are enough.
6. "Block until all tasks have completed." (`gclient.rs:363`): `wait_for_tasks` returns after five seconds, and aborts the read loop of a session that is in order
   (`WaitEndsReader`, run `gclient_safety`). The clients forward the call (`rc.rs:375`, `nc.rs:171`, `game.rs:148`), but nothing in the repository makes it.
7. "they are not queued if they are bundles or encryption key packets" (`proto_v6.rs:66`): encryption key packets are queued (line 125), and `ReadsWhatWasSent` of `ProtocolV6`
   counts them among what is read (run `v6_serial`).

Seen while modelling, and visible in the models, but with no run of their own:

* A write that the server does not let end makes every call on the session wait (`WritesEnd`).
* The 16-bit length field of v4 and v5 frames is cut without a check (`proto_v4.rs:108`, `proto_v5.rs:230`).
* `connect` writes the v6 handshake but does not flush it; it leaves with the first packet.
* `write_gu8` accepts lengths that `encode_bits` cannot express (128 to 223), and a name, an image or a
  script with a line feed, a carriage return or a byte 0xa7 is not stored or read back as it was
  (`Plain`, `HasMark`).
* A header format with the letters of a field in two places is accepted, though its fields then overwrite
  each other (`InOnePiece`); "Buffer too short" (`proto_v6_header.rs:200`) cannot happen for any accepted format.
* A command that reached some of the clients before one failed tells its user only the error; one whose NC
  server address is shorter than two bytes panics and tells nothing.
* The session a client reconnects to has no event handlers, so that nothing is posted until Discord calls `ready`
  again; on a session that was not replaced that call makes every chat line be posted twice.
* Two v6 senders at once can use a checksum twice and then miss one out.

## Not modelled

Configuration (but for the header format), logging, compression and most packet data types are I/O or data; of
Discord's API only whether a call succeeds is modelled. Header formats with a letter more than eight times, whose
shift overflows, are left out. Of the codec and the serializer what the weapon packets use is modelled. An
event callback that a session's end leaves running, and NC connections that are dropped from the
cache without being closed, are in the models, but no property forbids them since the code does not.

## Plan

The core came first: `Session` and `GClient`, then what sits on them (`NpcControl`, `Reconnect`)
and below them (`ProtocolV5`, `ProtocolV6`, `NpcWeapons`); then the callers above (`Discord`), the header (`HeaderV6`)
and read loops that panic. The proofs followed the same order. What is left:

1. Two v5 or v6 senders: what the server can still read of their frames, as a property and a theorem.
2. The integers of two to five bytes against positional notation, sequences in the serializer with
   the login packets, and `weapon_script.rs` (`split_vec`).
