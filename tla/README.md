# Verification of the Arduino internal client

The library (`src/source`, `src/include`) connects one device to a *module
gateway* over TCP. An application calls `init_connection`, then `send_status`
and `get_command` in a loop, then `destroy_connection`. This directory holds a
TLA+ model of the library, TLC runs that check it on small instances, and
theorems about it that TLAPS proves for every value of the constants.

## 1. Inventory

| Component | State it keeps | Operations | Properties that make it correct |
|---|---|---|---|
| API calls, `internal_client.cpp` | the caller's handle `*context`; `statusMessageBuffer` during a call | `init_connection`, `send_status`, `get_command`, `destroy_connection` | every call returns, within a bounded wait; no exit leaks; the return code tells who owns the handle and what happened |
| `Context` | socket, address, `device_`, `commandData_`/`commandSize_` | `createConnection`, `reconnect`, `setDevice`, `sendMessage`, `readSizeFromSocket`, `readMessageFromSocket`, `saveCommand`, destructor | the stream is cut where the frames are; a saved command is one the gateway sent to this device |
| `Communication` | none; drives a Context | `sendConnectMessage`, `readConnectResponse`, `startReconnectSequence` | a reconnect succeeds only after a handshake; a status is sent again only on a new connection |
| `ProtoSerializer`, `EnumMappers` | none | serialize, create status/connect, check response, check command, map codes | a check passes only for a message of the right kind for the own device |
| `memory_management.cpp` | a `buffer {data, size}` | `allocate`, `deallocate` | pointer and size agree |
| nanopb decoder (vendored) | a stack of input streams; the struct it fills | `pb_decode` and what it calls | decoding never reads past a substream or writes past a field; it ends |
| nanopb encoder (vendored) | a stack of output streams | `pb_encode` and what it calls | what is counted is what is written, at every level |
| nanopb field iterator (vendored), generated descriptors | four indexes into packed words | `pb_field_iter_begin`, `_next`, `_find`, `_find_extension` | the indexes speak of one field; a search finds what is there and ends |
| example sketch, `create_library.py` | counters; files | the loop; zip | none of their own |

How they interact: the library runs in its caller's thread and calls nobody
back, so the only concurrency is with the *environment*. The Ethernet library
fills the receive buffer between any two socket calls; the peer or the network
may end the connection there too; the gateway answers when it likes. All
waiting is `while(available() == 0) delay(100)` with a count of the delays.

What is hard: a timeout may hit before, inside or after a frame and the late
bytes stay in the stream; a status is retried over a new connection without
knowing what became of the first copy; return codes travel through `size_t`,
`int` and `bool`; every error path must free the buffer; and what the gateway
sends need not be an answer to what was asked. `PROJECT.json` lists these as
hazards, each at its line with the properties that cover it.

## 2. Modules

| Module | What it is |
|---|---|
| `InternalProtocol` | messages, frames as bytes, and the pure checks of `ProtoSerializer` and `EnumMappers` |
| `InternalClient` | the state machine: Context, Communication and the API calls, composed with the network and the gateway |
| `MCInternalClient` | values for the runs |
| `InternalClient_proofs` | lemmas on the protocol's operators; type correctness |
| `InternalClient_safety` | memory, bounded waiting, addressee of a command, meaning of an OK, ownership of the handle, the stranded Context |
| `CommandBuffer`, `CommandBuffer_proofs` | the saved command on its way into the application's buffer, byte by byte |
| `ReadTimeout`, `ReadTimeout_proofs` | the loops of the two reads with the unsigned arithmetic of their timeouts |
| `PbDecode`, `PbDecode_proofs` | nanopb's `pb_decode` of a message from the gateway |
| `PbEncode`, `PbEncode_proofs` | nanopb's `pb_encode` of a message to the gateway, and the two passes of `serializeInternalClientMessageToBuffer` |
| `PbFieldIter`, `PbFieldIter_proofs`, `MCPbFieldIter` | nanopb's field iterator on packed descriptors; messages for its run |
| `StatusService` | abstract: what an application may rely on |
| `ClientService` | the refinement mapping from `InternalClient` to `StatusService` |
| `ClientService_proofs` | the order of statuses and commands, and the steps of the refinement |

`InternalClient` extends `InternalProtocol`, `ClientService` extends
`InternalClient`, and `MCInternalClient` extends that. The others look closer at
something a model above them takes as one step, or abstracts from:

| Taken as one step | Looked at in |
|---|---|
| what `saved` becomes in the application | `CommandBuffer` |
| `Decode` of `InternalProtocol` | `PbDecode` |
| which devices cannot be encoded (`Unterminated`), and what is sent then | `PbEncode` |
| `spent < Limit` of `InternalClient`, where time is counted in delays | `ReadTimeout` |
| finding a field, going to the next one, in `PbDecode` and `PbEncode` | `PbFieldIter` |

Each has constants of its own and is checked alone.

### InternalProtocol

A byte is a pair of the message it belongs to and its place in the frame. So
four (`HeaderLen`) bytes are a length exactly when they are one frame's header;
any other four bytes are read as *some* number (`SizesOf`, bounded by
`MaxSize`). `Decode` gives the message back only for a complete body, and
`Undecodable` otherwise. A device identification is one value; `Unterminated`
holds those with a string of exactly 128 bytes, which `setDevice` copies
without a NUL, so that nanopb refuses to encode them and `strcmp` never finds
them equal; `TooLong` those `setDevice` refuses. The functions keep the names
of the code. `re`, the status a command answers, is no field of the protocol:
only properties read it.

### InternalClient

| Code | Model |
|---|---|
| `*context`, `device_`, `commandData_`/`commandSize_` | `context`, `device`, `saved` |
| live `new`/`malloc` blocks | `heap` |
| where a call stands, what it returned | `call`, `phase`, `rc` |
| `statusMessageBuffer`, `timeout` | `message`, `timeout` |
| loop state of the two reads (`bytes`/`message`, size, `time_spent`) | `got`, `need`, `spent` |
| `socket_` | `link` (`none`, `up`, `lost` = dead but not noticed, `fin` = closed by the peer), `rx` |
| in transit | `wire` (bytes to the client), `tx` (messages to the gateway) |
| history, for properties only | `waited`, `statusNo`, `lastSaved`, `granted`, `taken`, `quiet` |

One client action is one socket operation and all the code up to the next:

| Action | Code |
|---|---|
| `InitConnection` | `init_connection` to the connect message: `createConnection`, `delete` on failure, `setDevice` |
| `SendConnect` | `sendConnectMessage`, called from `init_connection` and from the reconnect |
| `SendStatus`, `RejectStatus` | `send_status` to its first read; its null checks |
| `ReadByte`, `BadByte`, `Delay`, `TimedOut`, `SizeRead`, `SizeFails`, `MessageRead` | the loops of `readSizeFromSocket` and `readMessageFromSocket`, then `SizeResult`, `ConnectResult`, `StatusResult`: what each caller does with the result |
| `Reconnect`, `Resend` | steps 1 and 3 of `startReconnectSequence` |
| `DestroyConnection` | `destroy_connection` and `~Context` |
| `Deliver`, `GatewayAnswers`, `GatewayIgnores`, `GatewayCloses`, `LinkLost`, `LossSeen` | the environment |

`sendMessage` writes the header and then the body, and returns what the second
write returns. The connection may be gone before both, or end in between: then
the gateway gets no message, and the caller learns of it or does not. A failed
`socket_.read()` ends `readSizeFromSocket` with 0 (`SizeFails`), while
`readMessageFromSocket` appends the -1 to its `String` as if it were a byte
(`BadByte`). `Serialized` is what may be sent for a message: itself, the empty
buffer when `malloc` fails, or one byte (`GarbledMessage`) when nanopb refuses a
device string without a NUL or status data longer than its field.

The model follows the code where the code looks wrong: `ConnectResult` goes on
when the handshake failed, `connectResponseCode` is 1 for every failed check,
`sendMessage` returns `SizeT(NOT_OK)`.

Operators named `X_Something` with the comment "mutant" are faulty variants of
`X`; no specification uses them. Each is what a plausible slip in the code would
be, and each makes the property it belongs to fail, which shows that the
property depends on that code.

### CommandBuffer

| Code | Model |
|---|---|
| `commandData_`, `commandSize_` | `commandData`, `commandSize` |
| the application's `buffer` | `command`, a pointer and a size |
| live blocks of `new`, `malloc`, `realloc` | `heap` |
| history | `latest` (commands saved), `lost` (blocks lost to a failed `realloc`) |

A pointer is the block it points to, a block the sequence of its cells, a cell
the number of the command whose byte it holds (0: never written). So the model
knows which bytes `realloc` and `memcpy` move, and nothing of their values.
`SaveCommand` and `Destroy` are the Context's side. `GetCommand` is all of
`get_command`, its branches `AllocateBuffer`, `GrowBuffer` and `ReuseBuffer`
included; `malloc` and `realloc` may fail. `Allocate` and `Deallocate` are
what the application does between two calls.

### PbDecode

| Code | Model |
|---|---|
| recursion `pb_decode_inner` - `pb_dec_submessage`, one `pb_istream_t` each | `stack` of frames: message, position, `bytes_left`; `end` is history |
| tag and wire type of the loop | `tag` (0: the next is to be read), `wire_type` |
| returning `false` through the levels | `status = "failing"` until the outermost returns |
| the struct | `which`, `written` (when a field was last set), `size` (where a string has its NUL, how long `commandData` is) |

The input is not a sequence of bytes but is chosen while it is read: each
varint takes any number of bytes and has any value or is malformed, each tag
names any field. Every byte string drives the decoder through one of these
choices. One action is one turn of the loop (`DecodeTag`), the handling of one
field (`SkipField`, `DecodeSubmessage`, `DecodeVarint`, `DecodeBytes`), or the
end of a level (`Close`, `Return`). The model leaves out the field kinds that
`InternalProtocol.pb.h` does not use: callback, pointer, extension, repeated,
required and fixed-size fields.

Two things the code does are kept because they are easy to get wrong. A
substream takes its bytes from the parent's `bytes_left` when it is made, but
moves the parent's position only when it is closed, so between the two neither
counter alone tells where the parent ends. And both members of the oneof share
memory, which is cleared when the member changes, never by `pb_decode` itself.

### PbEncode

| Code | Model |
|---|---|
| recursion `pb_encode` - `pb_enc_submessage`, one `pb_ostream_t` and one iterator each | `stack`; `step` is where the innermost stands |
| `stream->callback == NULL` (a sizing stream) | `sizing` |
| `stream->state`, the pointer into the buffer | `state`, an index |
| the message | which member it is, and how long the encoding of each field is |
| the buffer of `serializeInternalClientMessageToBuffer` | `buffer` |

One action is one write, one skipped field, or the beginning or end of a level.
`Serialize` begins a call with any message that `createInternalConnect` and
`createInternalStatus` build, `Allocate` is the step between the two passes
(taken whatever the first one returned: the code ignores it), `Finish` the
return code. A sizing pass encodes each submessage once; the writing pass
encodes it twice, to know its length first (`SubmessageStarted`), and then
compares (`SubmessageWritten`). The guards of `pb_write` and of the comparison
are in the model although no message of the library makes them fail; that they
do not is `CountedIsWritten`.

### PbFieldIter

A descriptor is the list of 32-bit words that `PB_BIND` packs; fields take one,
two, four or eight of them. A field is static, behind a pointer or a callback:
that decides whether it is an array with a count, and whether `pData` is in the
struct or where its pointer points to (`Pointee`). `FieldInfo` packs them, with the assertions that
refuse to compile what does not fit (`FieldFits`), and `Unpack` is the way back
in `load_descriptor_values`. The assertions of the formats of four and eight words
cast the offset of a field's size (or `has_` flag) to a signed byte before they
test it, so they would let pass 256; the offset is at most 127 in `Fields`, since
the struct has the flag just in front of its field. Tags ascend, as the generator
writes them, and `PB_GEN_LARGEST_TAG` relies on it. Words are pairs of 16-bit halves, since TLC's
integers have 32 bits with the sign. `NextField`, `Find` and `FindExtension` are
the calls, `Search` one turn of the loop of the last two. As in the code, `Find`
returns at once for the current tag and for one above the largest, and begins
behind the end for a tag below the current one; a candidate by its low six bits
is loaded before it is compared.

### ReadTimeout

`readSizeFromSocket` and `readMessageFromSocket` differ in what they do with a
byte, not in how they wait. `timeout*1000` and `time_spent` are computed modulo
`UIntMod`, and `Arrive` may bring a byte at any time, also just before the test
of the timeout. `slept` is history: the delays of the call, not wrapped.

### StatusService and ClientService

`StatusService` has no sockets, frames, timeouts or retries: a call begins and
ends. An error leaves the saved command alone; an OK replaces it by a command
that answers a later status than any command before it (not always the one just
sent), or by an empty one; the Context is the application's after
`init_connection` unless the return code is `UNABLE_TO_CONNECT`. `ClientService`
maps `InternalClient` to it: `busy` is the call in progress, `command` the
status the saved command answers. All that happens between the first and last
action of a call is a stutter.

## 3. Runs

The first two runs and the five that expect a violation use `MCInternalClient`,
`PbFieldIter.cfg` uses `MCPbFieldIter`, the others the module of their name.

| Run | Question | Bounds |
|---|---|---|
| `Status.cfg` | What does the return code of `init_connection` tell, and one status with its reconnect sequence? `NoLeak`, `WaitBounded`, `ForThisDevice`, `HandleOwnership`, `HandshakeAgreement`; `CallReturns` under fairness. Responses that grant, that refuse, and whose type no code maps to; right and missing devices; too long and unterminated strings; failing `malloc`. The all-zero device is also one that the application uses, so a missing device is wrong for the other one and right for this | timeouts 0 and 1 tick, header 2, command 2, lengths up to 3; one status |
| `Order.cfg` | Two statuses over timeouts, resends, new connections and new Contexts: `StatusOncePerConnection`, `CommandsInOrder`, `PairedReplies`, `StaysStranded`, and the refinement `ImplementsService`. The wrong device of an answer is the one a failed `setDevice` leaves, so it is the right one for that Context | same, two statuses |
| `CommandBuffer.cfg` | What does the application's buffer hold after any calls? `SizesAgree`, `OneOwner`, `NewestFirst`, `GetsLatest` | four commands of length 0 to 4, own buffers of 1 and 3 bytes, two failed `realloc`s |
| `ReadTimeout.cfg` | How long does a read sleep before it gives up? `NeverLonger`, `GivesUpInTime`, `Returns` | an `unsigned` of 16 bits; timeouts of 0, 1, 2, 65, 66 and 1835 s |
| `PbDecode.cfg` | Does decoding stay inside its streams and fields, mix no two messages, and end? `TypeOK`, `StreamsAgree`, `WholeInput`, `NoLeftovers`, `DevicePresent`, `Returns` | inputs up to 10 bytes, varints of 1 or 2 bytes, tags to 6, strings of 2 bytes with the NUL, `commandData` of 2 |
| `PbEncode.cfg` | Is what is sent the encoding of the message, the length of the buffer and of each submessage included? `StreamsAgree`, `CountedIsWritten`, `OkIsEncoded`, `RefusedIsOneByte`, `Returns` | the real sizes (strings 128, data 1024); each length at its limits |
| `PbFieldIter.cfg` | Do walks and searches in any order keep the iterator right? `IndexesAgree`, `ValuesAreOfTheField`, `FoundIfThere`, `RefusedIfAbsent`, `SearchReturns` | the generated messages; all of up to three fields in four formats with five tags, an extension, an array behind a pointer and one of a callback among them |

The bounds. Two header bytes are enough for a timeout before, inside and after
a header; two body bytes likewise; length 3 spans the longest body and a frame
boundary. A timeout of 0 gives up at once and 1 waits once: only the order of
delay and give-up matters. Two statuses give one stale answer and one fresh
one. Sessions (destroy and init again) are not bounded. `TypeOK` and the other
state predicates cover every reachable state, the calls in progress included. The
connection may end at any moment, between the two writes of a message too.

Four commands of length 0 to 4 meet buffers that are empty, shorter, equal and
longer, and leave bytes of three older ones behind the newest. Ten bytes hold a
command with a device with two fields, or both members of the oneof one after
the other with a device in each (an empty submessage takes two bytes); tag 6
is unknown to every message; a string fills its field exactly at length 1. That
`OverflowAt` is 2 and not 5 or 10 only lets a varint fail earlier.

Of the response types that refuse, `Status.cfg` has one: they differ only in
their row of the mapping table, and the theorem `OkMeansGranted` covers all.

`PbEncode` has the sizes of the compiled header. A length is 0 (not encoded), 1,
127 (the last with a one-byte varint, and the longest string), 128 (the first
with two, and a string without NUL), 1024 (the longest data) and 1025 (one too
many). Integers are 0 or take five bytes.

Of the timeouts, 0, 1, 2 and 65 s fit into 16 bits as milliseconds; 66 s wraps
to 464 ms, and 1835 s to 65 528 ms, where the counter itself passes its bound by
wrapping before it reaches it. The boards the library is for have 32 bits;
`UIntMod` 65536 makes the same happen for small numbers, and the theorems hold
for every `UIntMod`.

In `PbFieldIter` the tags 1, 65, 1089 and 40001 have the same low six bits, and
need the formats of one, two, four and four words (the last with bits in both
halves of its tag); 129 is in no message, and 65537 does not fit `pb_size_t` and
would be 1 in it. Three fields are enough for one before, one at and one behind
the start of a search.

Nothing is disabled: deadlock is checked, because the application can always
make some call.

### Fairness

`FairSpec` adds `WF_vars(Steps)`: a call that has begun keeps executing. That is
all: a single thread runs straight through, every wait has a counter. Nothing is
assumed of the application, the network or the gateway. `PbDecode`, `PbEncode`
and `PbFieldIter` likewise: a call in progress runs on, and what it works on is
all there when it starts. In `ReadTimeout` a call runs on as well; bytes come or
do not come.

### Findings

Five runs expect a violation. Each states what a comment of the repository says
and shows the code doing something else.

| Run | What it shows |
|---|---|
| `ReconnectRefused.cfg` | `Communication.cpp:37` tests `== OK` where it means `!= OK`: the reconnect succeeds only if the handshake failed |
| `WrongDevice.cfg` | `Communication.cpp:24` assigns the comparison: every failed check of the connect response is 1, never `DEVICE_INCORRECT` or `NOT_OK` |
| `ConnectNotSent.cfg` | `Communication.cpp:13` compares a `size_t` with `<= 0`: a closed socket counts as sent (the resend on line 40 has the same test) |
| `EmptySaved.cfg` | `internal_client.cpp:83` looks for `NOT_OK` only: a reply that is no command for this device wipes the saved command and yields OK |
| `CutAtNul.cfg` | `ProtoSerializer.cpp:67` builds a `String` from a C string: a binary command ends at its first zero byte |

No comment says otherwise, so no run shows it, but users should know: after a
timeout inside a frame the rest of the frame stays in the stream and is read as
the next length.

`StaysStranded` is a passing property that users of the library should know
of: once a reconnect has failed to connect, every later `send_status` returns
`UNABLE_TO_CONNECT` without trying, until the Context is destroyed. So should
they know what `PairedReplies` does *not* say: when a late answer is in the
stream, the saved command may answer an earlier status, and every reply after
it is one behind.

## 4. Proofs

`tlapm` proves, from `ProtocolAssumption`, `ClientAssumption`, `BufferAssumption`,
`DecodeAssumption`, `EncodeAssumption`, `MessagesAssumption`, `TagsAssumption` and
`ReadAssumption` (types of the constants, identities distinct from `Absent`, the
header of `commandData` not longer than the field, fields that fit their format in
the order of their tags, no search for tag 0, which `pb_decode` refuses
(`pb_decode.c:1029`), a second a multiple of the delay, the delay below `UIntMod`)
and nothing else:

| Theorem | Statement | Inductive invariant |
|---|---|---|
| `TypeCorrect` | `Spec => []TypeOK` | itself |
| `MemorySafe` | `Spec => []NoLeak` | `HeapInv` |
| `WaitingIsBounded` | `Spec => []WaitBounded` | `WaitInv` |
| `CommandsAreForThisDevice` | `Spec => []ForThisDevice` | `DeviceInv` |
| `OkMeansGranted` | `Spec => []HandshakeAgreement` | `AnswerInv` with `WaitInv` |
| `OwnerIsTold` | `Spec => []HandleOwnership` | itself with `ContextInv` and `WaitInv` |
| `NobodyReconnects` | `Spec => StaysStranded` | `TypeOK` |
| `StatusesInOrder` | `Spec => []StatusOncePerConnection` | `TakenInv` with `OrderInv` and `WaitInv` |
| `CommandsNeverGoBack` | `Spec => CommandsInOrder` | `OrderInv` with `WaitInv` |
| `RepliesPair` | `Spec => PairedReplies` | the same |
| `Implementation` | `Spec => ImplementsService` | the same |
| `BufferSafe` | `Spec => []SizesAgree` | `OrderInv` |
| `TailIsOlder` | `Spec => []NewestFirst` | `OrderInv` |
| `LatestIsGot` | `Spec => GetsLatest` | `OrderInv` |
| `BlocksAreOwned` | `Spec => []OneOwner` | `OneOwner` with `OrderInv` |
| `CounterInRange` | `Spec => []TypeOK` | `TimeInv` |
| `SleepIsBounded` | `Spec => []NeverLonger` | `TimeInv` |
| `TimeoutIsWhole` | `Spec => GivesUpInTime` | `TimeInv` |
| `StaysInside` | `Spec => []StreamsAgree` | `StreamsOK` |
| `NothingIsLeft` | `Spec => []WholeInput` | `StreamsOK` |
| `OneMessage` | `Spec => []NoLeftovers` | `StreamsOK` and `StructOK` |
| `DeviceHasFlag` | `Spec => []DevicePresent` | `StreamsOK` and `StructOK` |
| `DecodeTypes` | `Spec => []TypeOK` | `StreamsOK`, `StructOK` and `RestOK` |
| `EncodeTypes` | `Spec => []TypeOK` | `EncodeInv` |
| `WritesStayInside` | `Spec => []StreamsAgree` | `EncodeInv` |
| `PassesAgree` | `Spec => []CountedIsWritten` | `EncodeInv` |
| `OkMeansEncoded` | `Spec => []OkIsEncoded` | `EncodeInv` |
| `RefusedLeavesOneByte` | `Spec => []RefusedIsOneByte` | `EncodeInv` |
| `IteratorTypes` | `Spec => []TypeOK` | `IterInv` |
| `IndexesStayTogether` | `Spec => []IndexesAgree` | `IterInv` |
| `UnpackedIsPacked` | `Spec => []ValuesAreOfTheField` | `IterInv` |
| `SearchFinds` | `Spec => FoundIfThere` | `IterInv` |
| `RefusalIsRight` | `Spec => RefusedIfAbsent` | `IterInv` |

Types are proved per group of variables, one lemma per action; lemmas on
`Return` and on going on to a phase (`GoesOnType`, `ReturnType`) serve all
actions inside a call.

*Memory.* `heap = Owned` alone is not inductive: `saveCommand` allocates, which
is balanced only if there is a Context to own the block, so `ContextInv` adds
that a call in progress has one and that without one nothing is saved.

*Waiting.* `WaitBounded` says nothing about what is still to come. `WaitInv`
gives each phase a budget, `WaitedBefore`: the sum of the timeouts of the reads
before it. Each transition from a read adds at most that read's `Limit`.

*Addressee.* `CommandChecked`: a reply that passes `checkAndParseCommand` carries
the own device. `DeviceInv` keeps that while the Context lives.

*Agreement.* `AnswerInv` says that every byte in `got`, `rx` and `wire` that
belongs to a connect response OK belongs to one the gateway sent on this
connection. Resetting the socket empties the streams, so no byte of an earlier
connection remains; `AcceptedIsGranted` then reads the response off the body.

*Ownership.* `HandleOwnership` is a statement about the end of a call, so each
way to return is a case: before `createConnection` has succeeded there is no
Context and the code is `UNABLE_TO_CONNECT`; after it, no code of the mapping
table and no code of the handshake is that one. `NobodyReconnects` rests on
`NotOkSurvives`: -1 goes through `size_t` and back for every width.

*Order.* `OrderInv` reads what is on its way as one row: the bytes of `got`, `rx`
and `wire`, and behind them the messages of `tx`. Along the row the statuses
that commands answer, and then those that wait, never decrease, and equal ones
are bytes of the same command in sequence. The whole row lies above `Settled`,
the last status that can no longer be answered: `lastSaved` in general, the
status before while nothing else can be in the stream, and the present one while
a status is about to be sent to a new connection. Reading moves a byte within
the row, an answer moves a message from its second part to its first, losing the
link cuts the row: one lemma each (`MoveKeepsRow`, `TransitAnswer`,
`TransitLoss`). `TransitSave` is where it pays: a complete command taken from the
head of the row leaves only later ones behind. `TakenInv` adds what the gateway
was sent on this connection, received or not: all of it is at most `statusNo`, and
nothing was sent while the reconnect sequence has not come to its resend.

*Refinement.* `ServiceStep` maps each action inside a call to a stutter or
to the end of the call; `StepOutcome` says what the ends can be. That the command
of an OK is a later one comes from `OrderInv` again.

*The buffer.* `NewestFirst` needs to know that no cell is newer than the command
being copied and that the command's own cells are all `latest`: `CellsInv`. With
`SizesAgree` this makes `OrderInv` inductive. One lemma (`DeliverKeeps`) serves
the three ways `get_command` reaches its `memcpy`.

*Timeouts.* `TimeInv`: the counter is what was slept, wrapped. A delay happens
only below the bound. Had the whole timeout been slept, the counter would be the
wrapped product, which is the bound, so it was not; and as a second is a multiple
of the delay, one delay more is at most the whole (`NextMultiple`). So a call
never sleeps too long, even where both wrap. Where they do not wrap, the counter
is the true time and it gives up exactly in time.

*Decoding.* Three lemmas say what reading, opening and closing do to the stack
of streams (`ReadKeeps`, `OpenKeeps`, `CloseKeeps`); every action is one of the
three or leaves the stack alone. `StreamsOK` adds to `StreamsAgree` that the
outermost stream is the input. For the struct, `Levels` says which message is
decoded at which depth, from the descriptors (`FieldFacts`): a device field is
written only at depth 3, and depth 3 is entered only after `has_device` was set.

*Encoding.* `CountedIsWritten` needs to know at each point how much is written,
not only that it fits. `LevelsInv` says so in terms of the message: each level has
written what the fields before its present one take (`Before`), and the tag and
length of that field as far as `step` has come; a stream with a buffer is as long
as the `Size` of its message; what a level has passed could be encoded (`Taken`).
So a writing pass meets only messages that a sizing pass came through, or, for the
outermost, one byte, and stops where that pass did (`FailedInv`). Three lemmas
(`TopMoves`, `LevelAdded`, `LevelEnds`) say what a step does to the stack of levels,
and each action is one of them. That the message has three levels is
`Descriptors`, from the compiled header; lengths are any naturals.

*Field iterator.* There are three parts. First, what is packed is what is unpacked
(`Unpacked`): for each format, the words of `FieldInfo` taken apart by the division
and remainder that stand for the masks and shifts of the code. Second, where a
field's words are: `FieldInfos` concatenates them, and `InfoPlace` says that the
words of a field stand behind those of all fields before it, `SubmsgPlace` and
`RequiredPlace` the same of the other two indexes. With that, `LoadedIt` and
`AdvancedIt` say what `load_descriptor_values` and `advance_iterator` do at a
field, in terms of the field and no longer of words. Third, the searches:
`FoundIfThere` says nothing before a search has ended, so `IterInv` adds which
fields it has looked at in vain (`Passed`). `PassedNext` is the step: going on,
round the end included, adds the field it comes to; back at the start, it has
passed all of them. A search for a tag smaller than the current one begins behind
the last field, as if it had passed those behind its start, which have larger tags
still; that they need not be looked at is where the order of the tags is used.

The invariants were model-checked before they were proved. Only model-checked:
`CallReturns`, `Returns` and `SearchReturns`, since liveness is outside the prover's
reach.

## 5. Assumptions and what is not modelled

* Error codes come from headers of a submodule that is not in the repository.
  Only `OK = 0`, `NOT_OK = -1` and that codes differ is used.
* Bytes cut across frames never decode to a message with this device's whole
  identity. (They may decode to something else; the checks treat that as they
  treat garbage.) No model shows this: `PbDecode` says how decoding goes and that
  it ends, not which message some bytes are, so `Decode` is tied to it in words
  only. What `ForThisDevice` says of a cut stream rests on it.
* A `write` on a live connection takes all bytes or, when the peer is gone or goes
  at that moment, all or none. A `socket_.read()` that fails has taken no byte.
* `EthernetClient::stop()` drops what was received and not yet read.
* The gateway sends only answers, at most one per message and in order. They may
  be wrong, late, empty, undecodable or missing.
* `init_connection` is called without a live Context (the code would lose it),
  and handles passed to the calls are valid or null.
* In `PbEncode` a status is not longer than its field and the padding behind it
  (`EncodeAssumption`), so no run shows what more would do:
  `createInternalStatus` copies without a check, and what a longer one overwrites
  has no state to model. `InternalProtocol.options` limits `statusData` to 700
  bytes, the compiled header to 1024; the models take the compiled code.
* `InternalClient` counts delays, which is right for timeouts that fit into an
  `unsigned` as milliseconds (`GivesUpInTime`); a longer one waits less.
* Appending to Arduino's `String` does not fail (`Context.cpp:100` ignores it if
  it does). `CallReturns` and `WaitBounded` bound the time of a read whose size is
  nonsense; what it holds in memory until it ends is as long as that size.
* The application hands over a zeroed buffer, or one of a positive size that it
  allocated; `new` does not fail.
* `pb_decode` gets a zeroed struct, as both of its callers give it.
* Not modelled: the coding of the field kinds that the messages do not use (pointers,
  callbacks, extensions, repeated, required and fixed-size fields; `PbFieldIter`
  finds them) and the entry points that the library does not call; the bits of a
  varint; the example sketch, which is one particular caller; packaging.

## 6. Plan

1. *(done)* `InternalProtocol`, `InternalClient`, their runs, type correctness and
   the first safety theorems.
2. *(done)* `CommandBuffer`: `saveCommand`, `get_command`, `allocate`/`deallocate`
   and the application's buffer, checked and proved.
3. *(done)* `PbDecode`: nested substreams, the oneof and the has_ flags, checked
   and proved.
4. *(done)* `StatusService`, and `InternalClient` as its refinement.
   A one-step specification of decoding that `PbDecode` implements is left, so
   that what `InternalProtocol` says of `Decode` rests on a checked model.
5. *(done)* `PbEncode`, `PbFieldIter`, and `ReadTimeout` with its proofs.
6. *(done)* Proofs of every invariant and action property that the runs check:
   ownership of the handle, the order of statuses and commands, the steps of the
   refinement, `PbDecode`'s types, `PbEncode`, `PbFieldIter`.
7. `PbVarint`: which values `pb_encode_varint_32` and the 32-bit decoder agree on,
   as arithmetic on seven bits at a time.
8. The specification of decoding of item 4, and a proof that `PbDecode` implements
   it.
