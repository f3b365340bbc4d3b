# extzstd: a TLA+ model of the Ruby binding for Zstandard

`extzstd` is a C extension (`ext/`) with a small Ruby layer (`lib/`) that gives
Ruby programs libzstd's streaming and one-call interfaces.  These modules model
what the binding itself decides: how bytes move between a caller, a libzstd
session and a Ruby IO object, what happens when that IO object raises, freezes
its argument or runs another thread, and who owns a libzstd context.  libzstd
is a submodule and not part of the repository; it appears as two contracts.

## The system

| Component | Source | State it keeps | Operations |
|---|---|---|---|
| `Zstd::Encoder` | `ext/extzstd_stream.c:22-318` | session, outport, chunk string `destbuf`, `reached_eof` | `initialize write << sync close eof? reset sizeof` |
| `Zstd::Decoder` | `ext/extzstd_stream.c:320-651` | session, inport, chunk string `readbuf`, `inbuf`, `reached_eof` | `initialize read close eof? reset sizeof` |
| `Encoder.open`, `Decoder.open` | `lib/extzstd.rb:90-136` | none | construct, run a block, `ensure` close |
| `Zstd::ContextLess` | `ext/extzstd.c:511-635` | a context for one call | `encode decode` of whole strings |
| Convenience methods | `lib/extzstd.rb:25-73,102-110,138-143` | none | `Zstd.encode`, `Zstd.decode`, refinements |
| `Zstd::Parameters` | `ext/extzstd.c:208-428` | one C struct | `initialize`, copies, an accessor pair per field |
| `Zstd::Dictionary` | `ext/extzstd.c:431-509` | none | `train_from_buffer add_entropy_tables getid` |
| Errors, constants | `ext/extzstd.c:15-206` | none | error code to exception |
| Context helpers | `ext/extzstd.h:118-260` | none | creation with a retry after the collector ran, typed getters |

How they interact.  A method of Encoder or Decoder runs under Ruby's global
lock from its start to its end, except at the points where it calls Ruby: the
outport's `<<`, the inport's `read`, `rb_thread_check_ints`, and the
conversions of arguments.  At those points the callee may run other threads,
call the same object again, or raise.  Exceptions leave the C code by
`longjmp`, so whatever a method had put into the object's struct stays there.
The wrappers of `ext/extzstd_nogvls.h`, which would release the lock around
libzstd, are called by nothing.

What is hard here, and what makes each component correct:

* **Encoder.**  All methods share one chunk string, refill it before each
  libzstd call, and hand it to a `<<` that may switch callers.  `sync` and
  `close` call libzstd once and ignore how much it says is left.  Nothing
  clears `reached_eof`.  Correct: the outport gets each compressed byte once
  and in order; after `sync` and `close` nothing is left in the session; `eof?`
  is only true of a finished frame; every method ends.
* **Decoder.**  Input position, chunk length and session move separately, and a
  read may be left by an exception between any two of them.  Correct: no input
  byte is skipped or read twice, no decoded byte is lost except with an
  exception, a short or empty result means the end, and "unexpected EOF" means
  the input was cut.
* **Encoder.open.**  `close unless eof?` runs after anything a block can do.
  Correct: it leaves whole frames, and adds none of its own after the block
  closed.
* **Lifecycle.**  A context is created before the arguments are converted and
  checked, each configuration helper frees it when libzstd refuses, and the
  collector frees what is in the object.  Correct: each context has one owner,
  is freed once, and stays with an object that was initialized as long as the
  program holds it.
* **ContextLess.**  A size comes from a caller, from libzstd's bound or from a
  frame header, where two of its values are not sizes.  It is computed in a
  `size_t`, taken by Ruby for a signed `long`, and given to libzstd as the room in
  the destination.  Correct: libzstd never gets more room than there is,
  `decode` never returns a part for the whole, and both suffice without
  `maxdest`.
* **An encoder and a decoder at the ends of a pipe.**  Correct: what was written
  before a `sync` is in the pipe when it returns, bytes come out once and
  in order, and the end is seen after all of them.
* **Parameters.**  Options are converted one by one into a struct of unsigned
  fields that libzstd is given as `int`s.  Correct: what libzstd accepts is what
  was asked for, and an `initialize` that stops midway leaves no mixture with
  what the object held before.
* **Dictionary.**  A capacity is a `size_t` to libzstd and a `long` to Ruby, a
  string is rewritten in place.
  Correct: libzstd gets no more room than there is, a failed call leaves the
  string's content.

`PROJECT.json` lists the hazards one by one, each with its line and the
properties that are about it.

## Modules

```
ZstdCStream   contract of a compression session
  Encoder           write, sync, close, eof, reset; outport; callers
    EncoderOpen     Encoder.open with a block
ZstdDCtx      contract of a decompression session
  Decoder           read, close, eof, reset; inport
    SharedDecoder   several threads that read from one decoder
ByteQueue     abstract: what an encoder, a pipe and a decoder promise
Pipeline      EXTENDS Encoder, instantiates Decoder; implements ByteQueue
Lifecycle     allocation, initialize, free of both classes
ContextLess   encode and decode of whole strings
Parameters    initialize, preset, setters, copies
Dictionary    training, finishing, ids
```

A module indented under another EXTENDS it.  `MC*.tla` give values to constants
for TLC, `*Proofs.tla` hold the theorems.

### ZstdCStream, ZstdDCtx

Functions from a session, an input size and an output size to the set of
results a libzstd call may have.  They count bytes and do not compress.
A source of the decoder is a frame by what its bytes give back (`IsFrame`).

`CompressResults` lets every block have any size between one byte and the worst
case, and leaves the rest of a block that did not fit in `pend`.
`FlushResults` and `EndResults` are single calls, which may leave bytes behind
when the buffer is too small; that they do not is a property, not an
assumption.  `DecompressResults` decodes until the input ends, the frame ends
or the room is full.  It gives the last input byte back while decoded data is
left (libzstd calls this the hostage byte) and fails after `MaxStall` calls
without progress.  A session that was reset inside a frame reads garbage.

### Encoder

| Model | Code |
|---|---|
| `context`, `destbuf`, `reached_eof` | fields of `struct encoder` |
| `Write`, `Resume` via `Compress` | a turn of the loop of `enc_write` up to its `<<` |
| `Sync`, `Close` | `enc_sync`, `enc_close` up to their `<<` |
| `Reset` | `enc_reset` |
| `Recycled` | `aux_str_buf_recycle` |
| `PortTakes`, `PortRaises` | what the outport does in `<<`: take the bytes `destbuf` has *now*, keep and freeze the string or copy it; or raise |
| `Return` | the code after the `<<`; only `enc_close` sets `reached_eof` there |

`call[c]` is what caller `c` is doing: a thread, or a call nested in the `<<` of
another.  Compressed bytes are numbered by libzstd's output, so a chunk is an
interval and "in order without a gap" is an equation between two counters.
`spoiled` and `late` are history: a chunk was refused or a started frame was
reset; source was written once a close had begun.

### EncoderOpen

`block` is the program counter of the method: `body`, `ensure` (after `eof?` was
false), `closing`, and `left` or `raised`.  The body takes any steps of
Encoder's caller `Body`, and other callers run at any point, also between
`eof?` and `close`.  `repeated` marks the two ways to more frames than
the block asked for that the code leaves open: a close that is repeated since its
outport raised, and a close of another caller.

### Decoder

| Model | Code |
|---|---|
| `context`, `readbuf`, `inbuf`, `reached_eof` | fields of `struct decoder`, the string as its length |
| `ReadSome`, `SomeDone` | `dec_read` with a size |
| `ReadAll`, `AllDone` | `dec_read` without one: the growing string |
| `LoopHead`, `Decompress` | the loop of `dec_read_decode` |
| `PortGives`, `PortEnds`, `PortRaises` | `dec_read_fetch` and what the inport does |
| `Interrupt` | an exception out of `rb_thread_check_ints` |
| `Close`, `Reset` | `dec_close`, `dec_reset`, also from inside a read |

`given`, `dropped`, `supplied` and `closed` are history.

### SharedDecoder

Ruby's lock lets one thread run.  `call` of Decoder is the read of the `active`
one, and the reads of the others are `parked` where the code gives the lock away:
in `rb_thread_check_ints`, and in the inport's `read` when `PortWaits`.  `Switch`
hands the lock over.  A thread that returns finds its own output buffer, a
local of `dec_read_decode`, and the *object's* input buffer, session and end.

What keeps two threads from fetching into the one chunk string is not in the
extension: `IO#read` locks the string it was given while it waits, so the other
thread's `aux_str_buf_recycle` raises (`FetchRefused`).  `StringIO` never gives
the lock away.  The mutant without that lock loses input.

`InputConserved` and `NoFalseEof` hold as they are, and `SharedOutputConserved` in
place of `OutputConserved`.  Two things hold under conditions only, and the
properties name them.  A thread whose chunk was used up by others calls libzstd
with nothing; with more threads than `MaxStall` that alone makes a read fail
(`NoFalseError`).  A thread parked in `rb_thread_check_ints` while another finds
the end goes on behind the frame.  `misled` marks an inport that returned an
empty string, which costs one such call as well, or that raised and left its
buffer longer than the last chunk, so that a later read fetches nothing.

### ByteQueue, Pipeline

`ByteQueue` knows bytes in the order of their writes: `put`, `ready` (could be
read), `synced` (a `sync` or `close` has returned for them), `got` and `lost`
(with an exception of a read).  A `Sync` step needs everything to be ready,
`SeeEnd` everything to be read.

`Pipeline` connects Encoder's port to Decoder's.  It EXTENDS Encoder with
one writer, and has Decoder as `D`, an instance whose `source` is the frame as
far as it is written: its length is known when the writer has closed, and
`yield` says where its blocks end, which `Blocks` chooses.  Before the first write
it is `NoFrame`.  `read(0)`, which returns at once and touches nothing, is
left out.  The refinement mapping (`Q`):

| ByteQueue | Pipeline |
|---|---|
| `put`, `synced` | history of `write`, `sync`, `close` |
| `ready` | what the bytes in the pipe decode to: `yield[port.taken]` |
| `got`, `lost` | Decoder's `given`, `dropped` |
| `ended` | `close` was called |
| `seen` | a read has returned `nil` |

`Implements` is `Q!Spec`: every step of the composition is a step of the queue or
leaves it alone.

The inport is an IO (`PipeGives`): `dec_read_fetch` calls `read(256 KiB, readbuf)`,
and an IO waits until it has all of that or has met the end.  `ShortRead` is for any
other inport, which may return a part.  The safety properties hold for both;
fairness is assumed of the IO's steps only.

So a `sync` puts bytes into the pipe, but does not get them to the reader:
less than a chunk of them is not read before more is written or the pipe is
closed.  `ArrivedIsRead` says how far a reader can be held back, and both of its
allowances are needed (the run fails with one byte less of either).
Once `n + ChunkSize - 1` compressed bytes are in the pipe, the inport has returned the
first `n`.  Of what these give back, up to a block may be missing: `dec_read_fetch`
asks the inport whenever the last chunk is used up, before the loop takes what the
session has decoded and has not returned.  No document promises otherwise, so
this is a hazard in `PROJECT.json` and no finding.

### Lifecycle

One object per `Encoder` or `Decoder`, contexts as addresses that are reused
after a free.  `initialize` is split where Ruby code can run or an error can
leave it: creation, the level's `to_int`, the configuration.  A method is `Use`: it
has passed `encoder_context`, which asks for a context and not for an `initialize`
that is done, and runs Ruby code (`to_s` of `write`'s source, `to_int` of `reset`'s
size, a port) before it goes on with the context.  Freeing is done
by the helper that meets an error, by the collector, or by nobody.  The context of
`ContextLess.encode` is included since the same conversion interrupts it.

### ContextLess

| Model | Code |
|---|---|
| `Encode`, `Decode` | `less_s_encode`, `less_s_decode`, a call from its start to its end |
| `InRange`, `Wrapped` | `NUM2SIZET(maxdest)`, which takes negative numbers |
| `Bound`, `ContentSizes` | `ZSTD_compressBound`, `ZSTD_getFrameContentSize` with its two special values |
| `Long`, `Expandable`, `Expanded` | `aux_string_expand_pointer`: `rb_str_modify_expand` takes the `size_t` for a `long`, refuses a negative one, and expands by it |
| `DictOf` | `aux_string_pointer_with_nil`, which runs after the destination was emptied |
| `RefusedBefore`, `RefusedExpanding`, `RefusedAfter`, `Answered` | where a call may end, in the order of the code, and what it leaves in the destination |
| `Failed` | `extzstd_check_error` |

A string is a text, or frames that stand for a text.  `first` is the size in
the first frame's header, which need not be that of all data.  `Word` and
`Field` are the widths of a `size_t` and of the header's size.  `outcome`
describes the last call, so that a property can relate its result to its
arguments; it is cleared when the program changes a string.  What happens to the context of a call is
part of Lifecycle.

### Parameters

| Model | Code |
|---|---|
| `fields` | the `ZSTD_parameters` of each object |
| `Initialize` | `params_init` up to its options, `*p = ZSTD_getParams(...)` included |
| `TakesOption`, `InitializeEnds` | `SETUP_PARAM`, option by option; a conversion that raises |
| `Keys`, `Left`, `Coming` | the options in the order of the code, those still to take, the next one |
| `Set`, `GetPreset`, `Copy` | a setter, `Parameters.preset`, `initialize_copy` |
| `Converted`, `InRange` | `NUM2UINT`: what it takes and the `unsigned int` it makes |
| `Passed`, `AsInt`, `Contrary` | the arguments of `ZSTD_CCtx_setParameter` in `enc_init` and `less_s_encode`: fields as `int`s, and `!noDictIDFlag` |

`given` is history: the integers the program gave, before any conversion.
`Asked` is what they ask of libzstd, for which a flag of `Negated` has the contrary
meaning.
`alone` says of an `initialize` that no other call wrote to its object.

### Dictionary

`Train`, `AddEntropyTables` and `GetId` are the three methods; a capacity is
converted before a pointer is taken, so each is one step.  `Added` is what
`aux_str_modify_expand` gives to `rb_str_modify_expand`, a `size_t` difference that
Ruby takes for a `long`; `Refused` is a capacity neither takes.  `outcome`
describes the last call as in ContextLess.

## Runs

| Run | Question | Bounds |
|---|---|---|
| `encoder_one` | one caller, an outport that freezes, copies, refuses, raises | `MaxMade` 16 |
| `encoder_open` | the block form and a second caller that interleave between chunks; every method ends | `MaxMade` 6 |
| `decoder_read` | all reads over whole, cut, empty and followed frames | frames of up to 3 bytes that decode to up to 5 |
| `decoder_shared` | two readers of one decoder lose no byte and do not fail; each read ends | frames of up to 2 bytes |
| `pipeline` | the composition implements the queue; what arrived is read, the end is seen | up to 4 source bytes |
| `lifecycle_owners` | two encoders, one decoder, two callers | 3 addresses |
| `contextless` | any sequence of calls and assignments on three strings, one frozen | `Word` 16, `Field` 64 |
| `parameters` | two objects, two callers, any order of calls | `Word` 16, two numbers and two flags |
| `dictionary` | two strings, one frozen | `Word` 64, ids of 16 values |
| `decoder_big_buffer` | finding | |
| `decoder_empty` | finding | |
| `lifecycle_use` | finding | 3 addresses |

*Bounds of the encoder.*  A block is 2 source bytes, a full one 3 bytes, the
header, checksum and block header 1 each, and `OutSize` 5, the least the contract
admits for these.  Writes of 1 byte (less than a block) and 9 (more than a chunk
string of `2 * OutSize` takes at worst) produce each case: nothing to compress,
blocks that are collected, several turns of the loop, and a rest in `pend`.
`MaxMade` stops new calls, not running ones; 16 is enough for a full chunk, a
rest, a close, and a second frame, and 6 for a frame and the call after it.
`encoder_open` has an `AtomicPort`, the assumption under which a
shared stream can be whole at all: an outport that lets another caller run *before* it
has taken the chunk sees the string refilled.

*Bounds of the decoder.*  `Growup` 1 and `GrowupLimit` 2 make a read of 5 bytes
pass through both ways of growing.  Chunks have 0 to 2 bytes, so a chunk ends
anywhere in a block and a frame in a chunk.  `BufferCapas` stay at `Growup` in
the passing run; larger ones are the finding below.

*Bounds of the shared decoder.*  A reader that comes back meets what a second
has done any number of times; a third adds no new pair of positions.  `MaxStall` 2
is the least for which two threads are fewer than a call too many.  The
sources are a whole frame of two blocks that decodes to more than a read takes, a cut one, and one
without data that is followed by another.

*Bounds of the pipeline.*  Writes of 1 and 3 bytes, up to 4 in all, are up to two
blocks: a write ends in a block, a `sync` closes a short one, and a chunk may hold a
block and the beginning of the next.  There is a checksum, the reader reads one byte
or to the end, and exceptions may end its reads.  The header is left out (0 bytes), so
two compressed bytes may be two blocks: `Amounts` {2} speaks of these, and the
reader must get the first of them when three bytes have arrived.

*Bounds of Parameters.*  An `unsigned int` of 16 values has an `int` of -8 to 7;
options are 1 (in the bounds), -1, 12 (above an `int`) and 16 (out of range), with and
without `nodictid`.  Objects and
callers are interchangeable, and no liveness is checked.

*Bounds of Dictionary.*  Capacities are 0, 2 and 4, -1, 40 (a negative `long`) and 64
(out of range), strings have up to 3 bytes, and `LeastSize` is 2.

*Bounds of the lifecycle.*  Two objects of one class are enough for one to be
collected while the other is initialized; three addresses let memory run out and
be reused.  Objects of a class, callers and addresses are interchangeable in
every definition, and no liveness is checked there, so symmetry is sound.

*Bounds of ContextLess.*  With a `size_t` of 16 values, texts of 0, 2, 9 and 17
bytes are one that is empty, one that fits, one whose length is a negative `long`,
and one whose length does not fit and wraps to 1.  `maxdest` is absent,
negative, too small for some texts, sufficient, and out of range.  Frames from
elsewhere are two in a row, a cut one, and the two that are too long; those of
`Encode` come with and without a size and with either dictionary.  Three strings are
a source, a destination and a dictionary, and any two of the last may be the same.

`CHECK_DEADLOCK FALSE` is set where clients may stop: the encoder with its
bound reached, and an `open` that has returned.

### Fairness

`CallsEnd` assumes strong fairness of each caller's answers (`SF`): an outport
answers each `<<`, and Ruby's global lock is handed to waiting threads in the order of
their arrival, so a caller that can go on again and again does.  Weak fairness
would not do, since another caller's chunk on its way disables it in between.
`ReadEnds` assumes weak fairness of a read in progress: the thread that runs
goes on, and the inport answers each `read`.  `SharedReadEnds` assumes that Ruby gives the lock to each
thread that waits for it again and again, and that the one that has it goes on (`SF`
for each reader).  `ArrivedIsRead` and `EndIsSeen` assume a reader that goes on
reading (`WF` of `Reader`), an inport that returns when an IO must, with a whole chunk
or at the end, and finitely many interrupts, `ArrivedIsRead`
a reader of single bytes in the end; the writer need not go on.  Nothing is assumed of other clients,
and nothing of an inport beyond answering: one that returns empty strings for
ever is met by libzstd's count of calls without progress.

### Findings

* `decoder_big_buffer`: `read(nil, buf)` with a string whose capacity is above
  256 KiB returns after the first 256 KiB.  The loop takes the room
  left in the string for the end of the data, but only the first part of that
  room was decoded into.
* `decoder_empty`: decoding a frame without data gives `nil`, where the
  comments promise a string.
* `lifecycle_use`: while `initialize` converts a level with `to_int`, its context is
  in the object, so a `write` or `reset` of another thread passes the check for a
  context.  Both convert an argument after the check.  If `initialize` then fails
  in its configuration, it frees the context, and they go on with none
  (`UsedIsLive`).  On an object whose `initialize` is done this cannot
  happen (`ReadyKeepsContext`).

Three more places where the code and what is written about it differ are too plain
for a run: `Parameters.new` takes the preset of level 0, where the comment above it
says 1 (`ext/extzstd.c:246`, `:270`); the same comment names an option `contentlog`
where the code has `chainlog` (`:253`, `:286`); the setters and `initialize` change a
frozen Parameters, which `initialize_copy` refuses to do (`:306`, `:329`).  And `getid`
takes an id for a possible error code (`:497`), which is harmless where a `size_t`
is wider than an id, as in the run; in one of 32 bits the highest ids raise.

## Proofs

Every invariant and action property that a passing run checks is also a theorem,
for all values of the constants that satisfy the assumptions the modules name:

| Assumption | What it says |
|---|---|
| `CStreamAssumption` | the chunk string can take a full block, the last one and the checksum, which libzstd promises of `ZSTD_CStreamOutSize` |
| `DCtxAssumption` | what a frame's bytes give back never shrinks (`IsFrame`) |
| `EncoderAssumption`, `DecoderAssumption`, `BodyAssumption` | sizes are numbers, the block's caller is a caller |
| `SharedAssumption` | there are finitely many readers |
| `PipelineAssumption` | one writer, no pledge, no `read(0)` |
| `LifecycleAssumption` | object names are apart, and `NULL` is none of them |
| `LessAssumption` | a `size_t` has at least four values, a header's field a multiple of these; texts have room for their bound |
| `ParametersAssumption` | each option has one place; presets and libzstd's bounds fit an `int`; a preset's flags are 0 or 1 |
| `DictionaryAssumption` | a `long` is half of a `size_t`, an error code is not 0 |

**EncoderProofs.**  `TypeCorrect` needs more than types: a session never holds
a full block of source, which follows from the cases of `CompressResults`.
`FlushDrainsCorrect` is arithmetic on that: what a write may leave in `pend`,
plus a block, plus the checksum, is at most `OutSize`, and the recycled string
has at least that capacity.  `StreamWholeCorrect` strengthens `StreamWhole` to
`StreamInv`: the chunk on its way is exactly the interval between what the
outport has and what libzstd has made.  That is not inductive when callers
interleave inside `<<`, hence its hypothesis `OneAtATime`: an atomic port, or
one caller.  `EofIsCompleteCorrect` needs no such hypothesis.  `EofInv` carries
"the session is drained and outside a frame" from the libzstd call of `close`
over its `<<` to the line that sets `reached_eof`.

**EncoderOpenProofs.**  `OpenIsEncoder` shows `OpenSpec => Spec`: each
step of the block form is a step of Encoder or leaves its variables alone.  All
theorems above hold for it without being proved again.
`LeavesFinishedStreamCorrect` combines them with `OpenInv`, which relates the
phase of the method to `reached_eof`, and says that a frame was counted.
`NoExtraFrameCorrect` rests on `FrameInv`: unless a close is repeated, a frame
that the block has closed is on its way into `reached_eof`, so that `ensure` finds
no frame there when it closes.

**DecoderProofs.**  The invariant, `Inv`, has types, `InputInv` (the
chunk string is as long as the input buffer says, until an inport raises; then
the buffer is used up, so a wrong length can only make a read fetch the next chunk
or not fetch, and never skips or repeats a byte),
`CallInv` (lengths of the read in progress), `SessionInv` (conservation of
input, and what is true at the end of a frame), and `NoFalseEof`.
The lemma about `DecompressResults` carries the hostage byte: a session at the
end of its frame with data left has given a byte back, so the input is not
empty and the inport is not asked.  `Inv` does not count the decoded bytes: each
step is shown to be `Balanced`, to hand on as many of them as leave the
session, and `OutputInv` is what follows for one reader.
`ReadAllReachesEofCorrect` has the hypothesis `SmallStrings`, that no given
string is larger than the first part; the finding shows that it is needed.

*Several readers.*  The split is for SharedDecoder: `Inv` holds with the read of any thread as the one
in progress, so a switch keeps it when `ParkedInv` and `PortInv` say where the others are
parked and that the input stays where it was while one of them is in its
inport.  `SharedOutputConserved` sums over the reads, as the cardinality of a set of
pieces.  `NoFalseError` needs `StallInv`: a thread that will call libzstd without input was
let through when there was some, so the calls without progress and the threads
that may still make one are together fewer than the readers.  That is why
the condition is `MaxStall` and no less.  `EofHasEverything` and `ShortOnlyAtEof`, which
`decoder_read` checks of one reader, are proved of several as well.

*One reader alone.*  `AloneInv` is for the pipeline, where nobody closes or resets the
decoder in the middle of a read and no chunk is empty: then every libzstd call has
input and room, no step fails, and what a caller sees of a step is one of
the cases of `Passes`.  `FrameGrows` lets the frame change under the reader: `Inv` stays
when the bytes that the inport has had stay as they were and the end moves only
while it is out of reach.

**PipelineProofs.**  The theorems about Encoder come with its variables, and the ones
about Decoder through `DP`, an instance of DecoderProofs whose source is `Frame`.
`WriterInv` adds to Encoder's invariants that nothing fails without a pledge, and that a
`sync` or `close` on its way has left nothing in the session.  `YieldInv` is the equation
between the two sides: the bytes that libzstd has made give back all that was
written, less what the write in progress and the unfinished block hold.  A step
of the writer keeps it, wherever `Blocks` puts the ends of its blocks, by lemmas
about `CompressResults`, `FlushResults` and `EndResults`, and is `Grown`, which is what
`FrameGrows` asks for.  `ImplementsCorrect` maps each step:

| Step | Step of ByteQueue |
|---|---|
| `WriterCalls` | `Put`, `End`; none for a `sync` |
| `WriterGoesOn` | `Arrive` when the port takes a chunk that ends a block, else none |
| `WriterReturns` | `Sync` for `sync` and `close`, since then the session and the chunk are empty |
| `Reads` (`Reader`, `ShortRead`), `Interrupted` | by `Passes`: `Get`, `Lose`, `SeeEnd` or none |

`Get` and `Lose` stay within `ready` since a session has returned no more than what it has
read gives back.  `SeeEnd` needs the decoder's end to be the writer's: it has
read the whole frame, which no pipe has before `close`.

**LifecycleProofs.**  `Inv` adds to `OwnedOnce` what each point of `initialize`
owns: at the level's conversion the context is the object's and no other caller
configures it, an object that is ready has one, and a collected object has none.
`ReadyKeepsContextCorrect` goes through the steps: `initialize` and the collector
leave an object alone that is ready and held, and by `OwnedOnce` its context stays
allocated.  Nothing is proved of methods in general, as the finding shows.

**ContextLessProofs.**  The properties hold for all widths in which a
`Field` is a multiple of a `Word`.  `FitsBuffer` compares the `size_t` that libzstd
is told with the `long` that the destination was expanded by; they are equal where
`rb_str_modify_expand` did not raise.  `Inv` adds `TextsFit` to them: no string
holds a text whose length is a negative `long`, since texts only get into a
string within a room that `rb_str_modify_expand` accepted.  `DefaultsSuffice`
rests on it, and on the last line of `LessAssumption`: such a text leaves room
for its bound, as no string has nearly half of the address space.

**ParametersProofs.**  `InitializeOverlays` speaks of a call in the middle of its
options and is nearly inductive: the preset overwrites every field, those whose
options were passed hold what was asked for.  `Inv` adds `FieldsInv`, that a struct
holds the integers it was given, converted, and a flag 0 or 1.
`AcceptedAsGiven` follows from it with the arithmetic of the two conversions: a negative
number becomes an `unsigned int` that is negative again as an `int`, and libzstd
takes none of these.

**DictionaryProofs.**  `Inv` is `FitsCapacity` with `StringsOK`: a string is no longer than its
capacity, so the difference that a string is expanded by is exact, and
one that a `long` cannot hold is refused.

Only model-checked: liveness, which needs fairness and `ENABLED` (`CallsEnd`,
`ReadEnds`, `SharedReadEnds`, `ArrivedIsRead`, `EndIsSeen`), and the findings, which
are runs that fail.

## Not modelled

* libzstd's compression, decompression and dictionary builder: not in the
  repository.
* The strings' memory: pointers held over calls into Ruby, the string that
  `LibVersion#to_s` keeps in a static variable.
* Inports that let other threads run without locking the string they read
  into: nothing holds of a decoder that two threads share then.
* In the pipeline: exceptions of the ports, several writers or readers, `reset`,
  and a second frame, which Encoder, Decoder and SharedDecoder have.
* What a `write` repeats when it is retried after `<<` raised: a TODO in
  the source leaves it open (`ext/extzstd_stream.c:205-206`).
* In `ContextLess`: a destination that is the source, and strings that a
  conversion changes during the call, since pointers are held over both; a call
  whose context could not be created; frames as a source of `encode` or as a
  dictionary.
* Messages of exceptions, `inspect`, `pretty_print`, constants, version
  methods, the build.
* `sizeof`, which reads only.

## Plan

Done: all modules above with their runs, and a theorem for every invariant and action
property that the passing runs check.

Left:

1. The steps of `ReadEnds` that need no fairness: a read that stays in the loop of
   `dec_read_decode` uses up its input, its room or libzstd's patience.
2. A queue for a `Pipeline` whose outport may raise: it loses bytes and the reader
   fails, but gets no wrong ones.
