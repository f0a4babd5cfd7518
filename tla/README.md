# TLA+ verification of utilcpp

utilcpp is a small C++ library: the `nadam` messaging endpoint (`src/nadam`) and the
utilities under `src/util` (block stores with guards, length encoding, serialization,
digests, compile-time type information, a record loader).  This directory holds TLA+
modules translated from that code, the TLC configurations that check them, and proofs
checked by TLAPS.  `PROJECT.json` maps each definition to the source lines it stands for and
lists the runs, the hazards and the findings.

## Inventory

| component | state | operations | talks to | hard behaviour |
|---|---|---|---|---|
| nadam endpoint (`nadam/c/nadam.cpp`, `nadam.h`) | static `mbr`: name and hash maps, delegates with buffer and `recvStart` flag, common buffer, `hashLength`, thread id and `isThreadRunning` | `init`, `setDelegate`, `setDelegateWithRecvBuffer`, `initiate`, `send`, `sendUmi`, `stop`; thread `recvWorker` | the application's `send_t`, `recv_t`, delegates, error delegate | API thread against receive thread without locks, deferred cancellation and join, callbacks that call back |
| nadam protocol | two endpoints and the byte streams between them | handshake (one byte each way), frames hash / size / payload | the application's connection | both sides start at once, failures between the pieces of a frame, framing without resynchronization |
| `MessageInfo` (`nadam/types.*`) | name, size, variable or fixed, SHA1 hash over all three | constructor | SHA1 | distinctness of truncated hashes (assumed by nadam) |
| `LockingBlockGuard` (`util/blockstore.*`) | key, one byte `_lock` | `load`, `store` | a block store | lock-free readers-writer lock, weak exchanges, memory orders, limit of readers |
| `AtomicBlockGuard`, `SharedPtrBlockGuard`, `FakeBlockGuard` | key (the value itself for the fake ones) | constructor, `load`, `store`, destructor | `AtomicBlockStore::mem` | torn copies; a `shared_ptr` in memory that `realloc` moves, and that outlives its guard |
| `BlockStore`, `AtomicBlockStore` | `mem`, `_length`, `_capacity` | `allocBlock`, `load`, `store`, `setCapacity`, `freeBlock` (throws) | the heap | growth moves the blocks under the guards, capacity 0, failed `realloc` |
| `BlockStoreManager` | map from block size to store | `instance`, `deleteAllInstances`, iteration | the stores | references that outlive `deleteAllInstances` |
| `LengthEncoding` | none | `read`, `write`, `writeBack` | byte buffers | boundaries between 1, 2 and 8 bytes |
| serialization (`serdeifc.h`, `serdespec*.h`, `serdeimpl*`) | none | serialize / deserialize strings and lists, nested | byte buffers | bounds of the buffer at each nested element, truncated input |
| SHA1 (`digest/sha1.*`) | `state`, `count`, `buffer` | `start`, `put`, `finish`, `digest` | | chunk boundaries, carry of the bit count, padding |
| CRC32 (`digest/crc.h`) | the crc | `put`, `finish`, `peek` | | finish restarts, a result seeds the next object |
| type names and hashes, aspect ids (`typeinfo.h`, `aspectid.h`, `aspecttype.h`) | none | constant expressions | CRC32 | names cut out of compiler output |
| loader (`loader*.h`, `loader.cpp`) | map of entries | `get` | | constructor not written yet |
| `khash.h` | hash table of flags, keys, values; `size`, `n_occupied` | `kh_put`, `kh_get`, `kh_del`, `kh_clear`, `kh_resize` | nadam's maps | rehash within its own arrays, deleted buckets, probes that end at an empty bucket only |

Correctness, per component: nadam never has two receive threads, never reads freed memory,
calls a delegate with the buffer registered with it, and is silent after `stop`; the protocol
agrees on a hash length and delivers messages unaltered, in order, at most once, and answers
questions; the lock makes a guard an atomic register; guards keep a block each, whatever the
store does, and count shared objects right; a store owns its memory once; encodings read back
what was written and stay inside their buffers; the digests are those of the whole message
however it is cut; the hash table is a map.

## Modules

| module | models | abstract specification |
|---|---|---|
| `NadamSession` | one endpoint: the API calls statement by statement, the receive thread access by access, delegates that call back | |
| `NadamLink` | two endpoints and the connection: handshake, frames, `recvWorker`'s framing, failures | `MessageChannel` |
| `NadamReply` | the same when delegates answer: `send` on the receive thread and on the application's | |
| `LockingBlockGuard` | threads in `load` and `store`, each exchange and each copied word a step | `BlockRegister` |
| `LockingBlockGuardOrder` | the same with the C++ memory orders: which copy happens before which | |
| `BlockStore` | `BlockStore` and `AtomicBlockStore` (the same code) on a heap | |
| `BlockGuards` | `BlockStoreManager` and guards of the four classes over `BlockStore` | `GuardedBlocks` |
| `LengthEncoding` | `read`, `write`, `writeBack` on one buffer used from both ends | |
| `Serde` | strings, vectors of a trivial type, vectors of strings in one buffer | |
| `SHA1` | `start`, `put`, `finish` around an abstract compression function | `PaddedMessage` |
| `CRC32` | the crc at its real size, type hashes and aspect ids on top of it | |
| `MessageInfo` | the bytes hashed for a message | |
| `Khash` | the table of `khash.h`: probing, deletion, rehash in place | `KeyMap` |
| `NadamSessionProofs`, `NadamLinkProofs`, `NadamReplyProofs`, `LockingBlockGuardProofs`, `BlockGuardsProofs`, `EncodingsProofs`, `KhashProofs`, `DigestsProofs` | theorems about the module of that name; `BlockGuardsProofs` also about `BlockStore`; `EncodingsProofs` about `LengthEncoding` and `Serde`; `DigestsProofs` about `SHA1`, `CRC32` and `MessageInfo` | |

`MCEncodings` runs `LengthEncoding` and `Serde`, `MCDigests` runs `SHA1`, `CRC32` and
`MessageInfo`, each side by side: a behaviour is one of them, chosen at the start.  Every
other `MC*` module instantiates the module of its name.  Operators commented "Mutant" are
plausible bugs: `PROJECT.json` pairs each with the definition it would replace and the property
that must then fail.  They are used nowhere else.

How state and actions correspond to the code:

* **NadamSession.**  `pc` is where the API's caller is, `worker[t]` where each receive thread
  is; `members`, `hashLength`, `hashKeyMap`, `delegates`, `threadId`, `isThreadRunning` are the
  fields of `mbr`.  `init`, `initiate` and `stop` share `cancelRecvThread` as in the code: a
  cancel step, a join step, and the early return (`CancelOrSkip`).  An action of the thread is
  one access to shared state: `ReadBuffer` (nadam.cpp:370) and `CallDelegate` (377) are two
  actions because a `setDelegate` fits between them, and `StoreField` stores the three fields
  of an entry in any order.  A blocking `recv` is a state of its own, where a deferred
  cancellation takes effect (`ActOnCancel`).  `receiving` and `aborted` are history: what a
  caller may believe about reception, and which assertion failed, which ends the program: that
  on `kh_put` or `pthread_create` when there are no resources, that on `pthread_cancel` when the
  thread has ended (libcs differ in whether they report one that is not joined yet), that on
  `pthread_join` when a thread joins itself.  Three constants say what the application does: set
  delegates while it receives, initiate while it receives, call `stop` in a delegate.
* **NadamLink.**  `out` is what `send()` still has to hand to `mbr.send`, `recv` the receive
  `recvWorker` is in, `wire` the bytes between.  A size is one unit, everything else a byte.
  `reliable` is chosen for each connection; unreliable ones are closed, lose a tail, or let
  single pieces fail, as `Failures` says.
* **NadamReply.**  Adds the `send()` a delegate calls: `recvWorker` is in "reply" and reads
  nothing until its last piece is handed over.  `send()` has no lock of its own.  On reliable
  connections the applications hold one around it (`Locked`), on the others they do not and
  the pieces of two frames may mix.
* **LockingBlockGuard.**  `lock` is the byte.  `Peek`/`Join` and `Count`/`Leave` are the
  load and the weak exchange of the two loops, with spurious failure.  A store takes effect at
  `Claim`, a load at `Join`: that is the refinement mapping.  `LockingBlockGuardOrder` conjoins
  to each step what it publishes or acquires.
* **BlockStore.**  `heap` maps addresses to blocks; `realloc` may move them, leaves new blocks
  indeterminate and fails above half of the address space.  `undefined` records an access to,
  or a free of, memory that is not allocated, after which nothing more is said.  `Bytes` wraps as
  `size_t` does, which nothing checks: `realloc` then yields fewer blocks than `_capacity`
  says, and `wrapped` records it.  Calls that throw leave everything as it was and are no steps.
* **BlockGuards.**  `guards` maps the living ones to store and key; a guard whose destructor ran
  leaves its block behind, since `freeBlock` is not implemented.  A `shared_ptr` is the object
  it points to, `useCount` its control block; assignment counts, `realloc` does not.  The
  manager's iterator serves `setCapacity` of any managed store.
* **LengthEncoding, Serde.**  The buffer is a function of positions; each call is one action
  that yields the buffer afterwards and the pointer returned.  A length is read and written
  through the bytes of a `uint64_t` in memory, `Memory` and `Number`.  In `Serde` a failed call leaves
  its partial output, and deserialization also reports how far it looked.
* **SHA1.**  `state` is the sequence of bytes `transform` was given.  `finish` is a loop of
  steps; `finalcount` travels as two units instead of eight bytes.  `j + len` wraps at a word as
  in the code; `wrapped` records it, and the modelled run ends there, with memory behind the
  buffer overwritten.
* **CRC32.**  A word is the set of its one bits, so that `^`, `>>` and `~` are set operations.
  The table is computed from the polynomial instead of listed.
* **Khash.**  Flags, keys and values are one array, `bucket`.  `Turn` is one pass of the kick-out
  loop of `kh_resize`, which takes an entry, finds its new bucket and carries on what was there;
  `Turns` is the loop.  `kroundup32` is the least power of two that is enough.  The reallocs
  that shrink always succeed.

## Runs

`tlc -config X.cfg MCModule`; the expectation of each is in `PROJECT.json`.

| run | bounds | what it shows |
|---|---|---|
| `NadamSession_quiet` | 2 messages, 2 delegates (own buffer, common buffer), 2 thread ids, lengths to 4 | with an application that sets and initiates only while it does not receive: types, which assertions fail and why, a delegate gets its own buffer, `recvStart` precedes the overwrite, no old thread takes the handshake byte, a lookup sees the whole table, nothing after `stop` |
| `NadamSession_any` | 1 message, 1 delegate, 2 thread ids, lengths to 2 | whatever the application does, including `stop` in a delegate: one receiver, no freed memory, assertions fail for the reasons known only, and `cancelRecvThread` completes or aborts |
| `NadamSession_stopin` | as quiet, `StopInDelegate` | *violation*: a `stop` in the first delegate of a session can be lost |
| `NadamLink_closing` | 2 connections, 2 messages one way, capacity 2, builds with different tables and limits | agreement on the length, the channel is implemented, nothing is lost silently; over a reliable connection initiate returns and messages arrive |
| `NadamReply_both` | 1 connection, one question and answer each way, capacity 3 | with the lock frames stay whole and every question is answered, though both receive threads may be sending; without it and with lost pieces no payload exceeds the buffer |
| `LockingBlockGuard_small` | 3 threads, 2 words, 2 values, one call each, 2 readers at most | the byte counts the holders, loads and stores are atomic, calls return |
| `LockingBlockGuardOrder_race` | 2 threads, 1 word, 2 calls each | *violation*: taking the lock acquires nothing |
| `BlockGuards_grow` | 5 guards of 4 classes, 3 stores of 2 block sizes, 3 addresses, 3 blocks of one size or 1 of the other, 1 shared object; 2 stores alone, capacities 2, 8, 9, 11 requested of a `size_t` of 16 values | no access outside memory and memory owned once, in the stores alone until the bytes of a request wrap; use counts; each guard keeps its block |
| `BlockStore_release` | 2 stores, capacities 0 and 2 requested | *violation*: a key without memory |
| `Encodings_streams` | lengths: bytes of 3 bits, 18 bytes, 2 lengths from each end, both sides of each boundary; objects: bytes of 1 bit, prefix of 2, 11 bytes, 2 objects, every capacity and truncation | what is written reads back, failure exactly when short, nothing outside the bounds is touched |
| `Digests_streams` | SHA1: blocks of 4 units, count words of 64 values, messages to 9 bytes of any cut, then puts of 61, 62 or 63 equal bytes; CRC32: 3 bytes, two type names; infos: 4 names, bytes of 1 bit | blocks, count and padding are right for every cut, until `j + len` wraps; a crc is that of the whole stream; different infos are hashed from different bytes |
| `Khash_small` | 4 keys that collide, 2 values, tables of 4 and 8 buckets, memory that runs out | the counters agree with the flags, an empty bucket is left, the table is a map |

Why the bounds are enough.  Two thread ids let an id be reused and two threads meet, the bug
`AtMostOneReceiver` is about; a third only adds idle ids.  A frame has up to four units and the
buffer holds two, so a sender stops in the middle of every piece.  Two connections are needed
for what `hashLength` keeps from the first.  A reader limit of two is exceeded by three threads.
Sizes of bytes and words are scaled down so that every boundary (one/two/eight bytes, carry
between count words, the refusal of the heap, both bytes of a prefix) is crossed; the code's
constants enter only through their ratios.  The puts of 61 to 63 bytes wrap `j + len` or do not,
as 0 to 3 bytes are in the buffer.  Of the capacities requested of the stores alone one wraps
to no bytes, one to one block, one to three; 2 does not wrap.
In `closing`
directions of a connection share no state after the handshake, so messages one way are enough;
with replies they do, and both peers ask.  The answer in `NadamReply` fills the connection, the
least for which `QuestionIsAnswered` holds: with less, both receive threads stay in `send()`.
One shared object suffices where stores, loads and destructions of two guards and a variable
overlap on it; blocks of dead guards stay, so three blocks are soon exhausted and the heap's
refusal is met.  The table is rehashed at both of its sizes, in place and up and down.

## Fairness

* `NadamSession!LiveSpec`: the caller inside `cancelRecvThread` keeps running; a receive thread
  keeps running between its blocking calls, and delegates return; a thread that is blocked, or
  blocks again and again, with a cancellation pending acts on it (strong fairness: deferred
  cancellation is tested at each cancellation point).  The peer need not send anything.
* `NadamLink!LiveSpec`: `initiate`, `send` in progress and the receive thread keep running while
  the connection has room or data.  Nothing forces an application to call `send`.
* `NadamReply!ReplyLiveSpec`: the same, and a delegate that waits for a lock which is free again
  and again gets it (strong fairness of `ReplyBegins`).
* `LockingBlockGuard!LiveSpec`: threads run, and an exchange that finds its expected value again
  and again does not fail spuriously for ever.  `MaxOps` bounds the calls: with readers that
  keep arriving a writer may starve, and the code promises no more.
* `SHA1!LiveSpec`: `finish` is a loop of its caller.

## Proofs

Checked by TLAPS (`tlapm M.tla`) for every value of the constants that satisfies the named
assumptions of the module, and for every behaviour of its specification.  A theorem that needs
more says so in its statement (`ASSUME ... PROVE`), and then what it excludes is what breaks the
property: a finding, or a state seen while modelling.

`NadamSessionProofs`
: `Typing`.  `SingleReceiver` and `MemorySafety` rest on `SessionInv`: which control points of
  the caller go with which states of the threads.  The properties alone are not inductive: a
  join must know that the thread it joins is the one that runs, the point after it that none
  runs, and `isThreadRunning` (or the point inside `createRecvThread`) must cover every live
  thread.  `AssertionsExplained` (`AssertionsFailOnlyWhen`) assumes nothing of the application:
  with the same control points, a thread whose cancellation fails has ended by itself and is
  not joined, and `receiving` is off unless its own `stop` cancelled it.  `StopIsFinal` assumes
  that no delegate calls `stop` (`~StopInDelegate`); `BufferOfDelegate` in addition that
  delegates are not set while receiving: its invariant ties the buffer a thread has read to the
  entry it will call, and the half-stored entry to a caller in `setDelegate`.
  `FlagsPrecedeWrites` (`OverwriteIsFlagged`) needs the same two and the same invariant.
  `HandshakeIsAlone` and `WholeTableSeen` assume that the application initiates only while it
  does not receive and that no delegate stops.  `TableInv` says why that is enough: outside
  reception no thread is past its last look at `mbr`, while one is the table is that of
  `hashLength`, and a hash being looked up was received with that length.

`NadamLinkProofs`
: `Typing`, with the bounds on what is in flight and on what a receive has got.
  `PayloadsFit`: no payload asked for exceeds the buffer, whatever a broken connection makes
  the receiver take for a size.  `LengthsAgree`: the handshake byte determines both lengths, by
  an invariant (`Agreement`) on which byte is in flight from whom and what each peer has read of it.
  `NothingLostSilently` and `Refinement` (of `MessageChannel`) are about the stream of frames of
  one direction.  Its invariant places the receiver in that stream: what it has got of the
  present piece, the units in flight and those still in `send()` are consecutive in the frames
  of the messages sent, a window of which a failed connection cuts off the end.  Both assume
  `Failures = "closing"`.  When single pieces may fail ("transient") a
  frame can lose its middle and the next one is read in the wrong place: neither holds, and the
  code promises neither.

`NadamReplyProofs`
: its theorems rest on those of `NadamLinkProofs`, by two instances of it.  `Reader` shows only
  what the receive threads read; in it every step is one of `NadamLink` or puts a unit on the
  wire, which gives `PayloadsFitAnyFrames` for connections where pieces are mixed or lost.
  `Link` takes the buffers of the one `send()` in progress for those of the peer, and a delegate
  that answers for a receiver at a message boundary; with locks around `send()` every step is
  one of `NadamLink`, hence of `MessageChannel`: `FramesKeptWhole`.

`LockingBlockGuardProofs`
: `Typing`; `LockCounts`, by an invariant that equates the byte with the number of readers or
  the writer's bit (the cardinality lemmas account for one thread entering or leaving);
  `Refinement`, that the guard implements `BlockRegister`: an invariant on the words copied so
  far shows that a load copies a block nobody writes.

`BlockGuardsProofs`
: about the store alone, `Ownership` (`MemoryOwned`), assuming what two defects of the code
  break: no capacity of 0 is requested (`0 \notin Requests`, finding 2) and no object that holds
  memory is moved (`~MoveFull`).  `StoreInv` adds that every allocated address is some store's
  `mem`, with exactly `capacity` blocks, and that blocks past `length` are zero; growing without
  wrapping follows because `capacity` blocks fit half of the address space, which bounds their
  double.  Nothing is assumed of the capacities requested but that they are values of `size_t`:
  the invariant, like the property, is about the time before one of them wraps (`wrapped`), and
  that doubling never does is part of it.  `GuardsOwnMemory` is the same under the guards and the manager, and
  `GuardsAreBlocks` says that the guards implement `GuardedBlocks`: each has a zeroed block of
  its own that keeps the last store through it, though other guards make the store grow and
  move.  `GuardInv` says that the key of a guard is below the `length` of its store and that no
  two guards of a store share one.  `UseCounts`: an object lives while a variable or a living
  guard's block points to it and is counted once for each.  Its lemmas recount a set of pointers
  when one of them is redirected.  All assume `0 \notin Requests`; `GuardsAreBlocks` and `UseCounts`,
  which have no exception for the time after a wrap, also that the bytes of the capacities
  requested do not wrap (`RequestsFit`).

`DigestsProofs`
: about SHA1, `NothingSkipped` (`StandsForPut`): however a stream is cut, the count is its bits modulo
  two words, and the blocks given to `transform` and the filled part of the buffer are its
  bytes, until `j + len` of a put wraps; the puts of `finish` never do (`FinishFits`).
  `DigestsPadded`: `finish` pads as `PaddedMessage` says.  The invariant `DigestInv`
  relates `all`, the bytes put including those of `finish`, to the fields, and says while
  `finish` pads that the zeros so far are not yet enough, so that the loop stops at the first
  length that leaves room for the count.  The carry between the two words of the count and the
  slices of the buffer are lemmas on `%` and `SubSeq`.
  About CRC32, `CrcOfAllBytes` (`CrcOfTheWhole`): a step with the table is the division of the
  byte bit by bit (`AfterDivides`), because dividing is linear and what is added above bit 0 is
  only shifted (`DividedXor`); so crc and result are the remainders of what they stand for,
  for every polynomial and word size.  That the 256 numbers listed in crc.h are the table of the
  polynomial is not proved: the model computes them.
  About MessageInfo, `InfosHashedApart` (`HashTellsApart`): flag and size take a number of bytes
  that does not depend on the info, so they can be cut off the end, and the bytes of a size tell
  it from every other below the limit (`SizesApart`).

`EncodingsProofs`
: about LengthEncoding, its three properties for bytes of `4 * Quarter` values (64 in the code)
  and all lengths up to `lengthMax`, of which the run tries seven.  `EveryLengthReadBack`: the
  eight bytes of a `uint64_t` make it up again; a length chosen for one, two or eight bytes has
  no digit beyond them, and its last digit is below `Quarter`, so that the tag over it does not
  disturb it.  `Limit`, `Shifted` and `Number` are recursive functions on a finite set; that
  they are what they say follows from an induction over a set, which the library's
  well-foundedness of `<` gives.  `EncodingInv` says where each length begins in the two
  regions and in the one being read, which stays in place though the buffer between the regions
  fills up.  `NothingElseWritten` and `RewritingIsIdle` follow from the same invariant.
  About Serde, `ObjectsReadBack` (`ReadsBack`), `ShortOnly` (`FailsOnlyWhenShort`) and
  `BoundsKept` (`StaysInside`), for all objects whose lengths fit the prefix, bytes and prefixes
  of any size and any size of T.  The bytes of a prefix make its length up again (`PrefixRead`).
  A list of strings is serialized and deserialized by a recursive function, of which each step
  keeps what the steps before it wrote or read: after k strings either nothing fits any more, and
  what is still to come makes it no better, or the k strings are in the buffer one behind the
  other (`EachSerialized`), from where they are read (`StringsReadBack`).  `SerdeInv` says that
  every object written is in its place between its neighbours, and what has been read is the
  first of them; a call that fails part way has written only behind them (`ObjectKept`).

`KhashProofs`
: `CountersAgree` (`CountsAgree`) and `TableIsMap`, that the table implements `KeyMap`, for all
  keys, hash functions and sizes.  `KhashInv` says that the size is a power of two, that no key
  is in two buckets and that no bucket on an entry's probe before its own is empty; with the
  counters it leaves an empty bucket, because the bound that makes `kh_put` resize is below the
  size and what it asks for has room (`RoomAfterResize`).  A probe meets every bucket
  (`ProbeReaches`): two of its steps that meet the same bucket make the size divide
  `(k - j) * (k + j + 1)`, of whose factors one is odd, so that the other is a multiple of
  the size (`OddFactor`); hence a search ends at the key or at an empty bucket.  A rehash keeps
  the entries (`RehashedTable`) by an invariant of the kick-out loop: the entries put down are
  on their probe in the new table, those not yet moved are where they were, but for one that is
  carried, and no other turn is needed after `size` of them.

Every invariant and every action property that a passing run checks is a theorem
(`BareMemoryOwned` is `MemoryOwned` of an instance, which is `Ownership`).  Only
model-checked, and why:

* liveness (`CancelCompletes`, `HandshakeCompletes`, `SentIsDelivered`, `QuestionIsAnswered`,
  `CallsReturn`, `FinishEnds`): the prover has no `ENABLED`, which fairness is made of;
* the memory orders of `LockingBlockGuardOrder`, whose run is a violation.

## Findings

1. `LockingBlockGuard`: the exchanges that take the lock are release only (blockstore.cpp:162,
   177), so a writer that finds the byte 0 is not ordered after the accesses of earlier holders.
2. `BlockStore`, `AtomicBlockStore`: `setCapacity(0)` frees the memory and keeps `_capacity`
   (blockstore.cpp:326, 254); the next key has no memory.
3. nadam: `stop()` called by a delegate before `createRecvThread` has set `isThreadRunning` is
   lost, against "stops receiving" (nadam.h:76).

Seen while modelling, without a run of their own: with `SetWhileReceiving = TRUE`
`DelegateGetsItsBuffer` fails (the buffer is read before the payload is received, the delegate
after); with `MoveFull = TRUE` `NoUndefined` fails (the defaulted move constructors copy the
raw pointer).

Also seen, and part of what the properties and theorems state:

* nadam.cpp:427: after the error delegate the receive thread returns while `isThreadRunning`
  stays true, so the next `stop`, `init` or `initiate` cancels a thread that has ended.  On libcs
  that report that (ESRCH) the assertion aborts the program; on others the join cleans up.  With
  `StopInDelegate = TRUE` the assertion on `pthread_join` (429) fails when a delegate stops.
  Failing `pthread_create` (418) and `kh_put` (252, 270) abort as well.  An abort ends the
  program, which is why the session's runs do not check for deadlock.
* blockstore.cpp:259, 331: `_blockSize * n` is not checked.  Where it wraps `setCapacity`
  succeeds with a small block and a huge `_capacity`, and keys allocated later lie behind the
  block (or the `memset` of the tail already leaves it): without `wrapped`, `BareMemoryOwned`
  fails in the run.
* sha1.cpp:86: `j + len` is `uint32_t`.  A put of at least 2^32 - 63 bytes to a buffer that is
  not empty may wrap it; then no block is taken and `memcpy` (96) writes all of it behind the
  buffer.  Without `wrapped`, `StandsForPut` fails in the run.

## Not modelled

* Guards and stores under several threads, but for the lock of `LockingBlockGuard`: a store that
  grows moves its blocks while other threads copy them (blockstore.cpp:335), and the copy of two
  words in `AtomicBlockGuard` is atomic only on the machines blockstore.h:56 names.  Neither is
  promised by the code.
* The generated table of aspect ids (`_AspectIdLut`), and `aspecttype.h`, which is types only.
* The loader: its constructor is a FIXME.
* nadam's maps within `NadamSession`, which are sets there: `Khash` shows that the table is a map.
* The value of SHA1: in `NadamLink` hashes are constants, distinct in their first bytes as nadam.cpp:20-22 assumes.
* Two threads of one application in `send()`: besides the receive thread one other sends.
* Reallocs that shrink the arrays of `khash.h` (296-297) and return NULL, which is stored
  unchecked, and a `kh_init` that returns NULL (nadam.cpp:244-245), used unchecked: undefined from there on.
* `getMaxMessageSize() + 1` (nadam.cpp:204), which is 0 for a message of the largest `uint32_t`
  size: `NadamLink`'s sizes are below that.
* A call of `init` or `setDelegate` that returns -1 on its arguments changes nothing and is no step.

## Plan

In this order, the behaviour that matters most first:

1. done: `NadamSession` and its proofs; `NadamLink` on top of the same handshake; the guard,
   its refinement and its memory orders; the stores; encodings; SHA1.
2. done: delegates that reply; guards and manager over a growing store; CRC32, type hashes,
   `MessageInfo`; the hash table.
3. done: theorems about the session, the link, with and without replies, the stores and their
   guards, the digests, the encodings, and the hash table.
4. left to TLC: liveness, and the memory orders, for the reasons above.
