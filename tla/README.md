# A verification project for the Xilinx VCU control software

The repository holds the software around the video codec unit of a Zynq UltraScale+: the
control library `vcu-ctrl-sw-xilinx-v2018-3` (decoder and encoder), its test applications,
the OMX IL component over it, and capture and display demonstrations. This directory holds
TLA+ models of the decoder and of the encoder, each with its application, and of the OMX decoder
component, the TLC configurations that check them, and proofs that TLAPS checks. Paths below are relative to `src/vcu-ctrl-sw-xilinx-v2018-3/` unless they say
otherwise.

## 1. Inventory

The decoder library is the part with the most concurrency. Three threads meet in it: the application, the slave thread of the feeder (parses and launches),
and the thread that receives the end of decoding commands.

| Component | State | Operations | Hard behaviours | What makes it correct |
|---|---|---|---|---|
| **AL_Fifo** `lib_common/Fifo.c` | ring of `zMaxElem + 1` slots, head, tail, two counting semaphores, a mutex | init, queue, dequeue, with or without waiting | any interleaving of producers and consumers; the order of wait, lock, store, post | no slot overwritten or read empty; FIFO order; a blocked queue returns |
| **Buffer pools** `lib_parsing/I_PictMngr.c` | slots with a reference count, an output flag and a link in the FIFO of free buffers; an event; the stack of motion vector identifiers | pop, push back, increment, decrement, output, put back, decommit | buffers come back early, late, or while the decoder is destroyed; lost wake-ups | each count equals the holders; nothing is lost, handed out twice or recycled while shown |
| **DPB** `lib_parsing/DPB.c`, `Avc_PictMngr.c` | node array under three linked lists, picture IDs, display FIFO with a status per picture, FIFO of removed pictures | insert, remove, display, flush, cleanup, sliding window, gaps, memory management operations, reference lists | removal releases late; pictures are output from many places before or after they are decoded; operations name pictures by numbers that wrap | output in POC order, no picture lost, buffers suffice; the lists agree, the marking is what the operations ask for |
| **Pipeline** `lib_decode/DefaultDecoder.c`, `SliceDataParsing.c`, `AvcDecoder.c` | semaphore `Sem`, counters of launched and ended commands, ring of reference lists, `eos` | begin, cancel, launch, end, display callbacks, internal flush, destroy | three threads, each step under another lock; a driver that refuses a command; destruction at any moment | no picture written while read; every buffer comes back; flush and destroy end |
| **Feeding** `lib_decode/BufferFeeder.c`, `DecoderFeeder.c`, `Patchworker.c` | input queue, circular metadata of each buffer, circular buffer, start code table, ring of stream offsets, event, `keepGoing`, `stopped` | push, flush, destroy, transfer, decode units, empty a full buffer | coalesced events, wrapping offsets, a full circular buffer, a picture open across turns | the stream a command reads is kept; no stall; end of stream signalled |
| **Hardware channel** `lib_decode/DecChannelMcu.c` | a queue of commands and a notification thread; a start code thread with an event list | decode a frame or a slice, search start codes | a refused `ioctl`; an event list tested under another lock | every launched command ends; a search that was put in the list is answered |
| **Parsing and concealment** `lib_parsing/*Parser.c`, `SliceHdrParsing.c`, `Concealment.c` | parameter sets, slice headers | parse | sequential | bounds of the syntax elements |
| **HEVC decoder** `lib_decode/HevcDecoder.c`, `lib_parsing/Hevc_PictMngr.c` | POC of the last anchor, reference picture set; shares pools, DPB, pipeline | compute the POC, reference picture set, marking, clear the DPB, end of a picture, lists of references | POCs known by their least significant bits, nodes kept across removals, a damaged slice | the references and the output the header asks for; lists name the right pictures |
| **RTOS layer** `lib_rtos/lib_rtos.c` | semaphores, events, threads | timed and untimed waits | the arithmetic of deadlines | a timed wait waits for its time |
| **BufferAPI and metadata** `lib_common/Buffer*.c` | reference count, metadata list, callback | ref, unref, add, get, remove metadata | the last reference dropped by two threads | the callback runs once |
| **Encoder** `lib_encode/Com_Encoder.c`, `SchedulerMcu.c` | ring of stream buffers sent, sources sent, pool of frame infos, semaphore of pending encodings, channel and its status thread | process, put stream buffer, end of a slice, end of stream, destroy | the callback refills the ring it is called from; a driver that refuses; destruction against the status thread | streams come back in order, buffers are held as long as the hardware needs them and returned once |
| **Encoder application** `src/vcu-ctrl-encoder/exe_encoder`, `src/vcu-ctrl-lib-app` | pools of source buffers and QP tables, the FIFO of the LookAhead, two encoders | main loop, sinks, callbacks | two encoders and two threads share buffers; pools sized from the settings | order kept, counts exact, the program ends |
| **OMX component** `src/vcu-omx-il-xilinx-v2018-3/base/` | state machine, two ports, three processor threads with queues, pause fence, decoder module | commands, transitions, allocate, free, empty and fill a buffer, flush | asynchronous commands, processors deleted with work in them, decoder errors | every buffer in one place and returned, every command answered |
| **Buffer pool of the applications** `src/vcu-ctrl-lib-app/lib_app/BufPool.cpp` | ring, count, semaphore of free slots, event, decommit flag | get, put back by the last reference, decommit | an event that resets itself, several threads | each buffer in one place, no lost wake-up, putting back never waits |
| **Decoder application** `src/vcu-ctrl-decoder/exe_decoder/main.cpp` | pool of input buffers, event `hExitMain`, flag `exit` | decoding loop, reader thread, callbacks, destructors | left at any moment by an error or a timeout; events kept between loops | every buffer back before its pool goes, loops complete, the program ends |
| **OMX clients** `src/vcu-omx-*` | command line | main loops | - | - |
| Bit streams, settings, tables, drivers, colour conversion, demos, vendored libdrm | - | pure functions, thin wrappers, data | - | not modelled |

Interactions. The application calls `AL_Decoder_PushBuffer`, which queues a buffer in an
`AL_Fifo` and sets an event; the slave thread copies it into the circular buffer, finds units
by start codes, takes a picture buffer and a motion vector buffer from the pools, locks the
references, inserts the picture in the DPB and gives the command to the channel. The channel's
thread runs `AL_Default_Decoder_EndDecoding`, which unlocks the references, stores the offset
up to which the stream may be freed, wakes the feeder, runs the callbacks, releases the
picture and posts `Sem`. The application returns a picture with `AL_Decoder_PutDisplayPicture`.
At the end of the stream the slave takes every count of `Sem`, flushes the DPB, displays what is
left and calls back with a null frame.

`PROJECT.json` lists under `hazards` each line where one of the hard behaviours bites, with
the properties that would catch it going wrong.

## 2. Modules

| Module | Models | Extends |
|---|---|---|
| `BoundedQueue` | what a bounded FIFO queue promises (abstract) | - |
| `Fifo`, `MCFifo` | `AL_Fifo`, one action per wait, lock, memory access and post of each call | - |
| `FifoProofs` | the theorems about `Fifo`, with the refinement of `BoundedQueue` | `Fifo`, TLAPS |
| `FrmBufPool` | picture buffer pool, an operator per function | - |
| `MvBufPool` | motion vector pool | - |
| `PictMngr` | DPB and display FIFO over the two pools | the two pools |
| `PictMngrProofs` | what the functions of the picture manager keep, as lemmas | `PictMngr`, TLAPS |
| `DecPipeline`, `MCDecPipeline` | the three threads over `PictMngr` | `PictMngr` |
| `DecPipelineProofs` | the theorems about the pipeline and the picture manager under it | `DecPipeline`, `PictMngrProofs` |
| `Feeder`, `MCFeeder` | the application's calls, the feeder's slave thread and the end of pictures, over the circular buffer | - |
| `FeederProofs` | the theorems about `Feeder` | `Feeder`, TLAPS |
| `RefMarking` | which pictures are references after each picture of a stream (abstract) | - |
| `DpbLists` | the DPB as an array of nodes under three doubly linked lists | - |
| `DpbMarking`, `MCDpbMarking` | marking, memory management operations, gaps, reference lists | `DpbLists`; implements `RefMarking` |
| `HevcBumping` | which HEVC pictures are references and which have been output (abstract) | - |
| `HevcDpb`, `MCDpb` | POCs, reference picture sets, output and lists of the HEVC decoder; either codec | `DpbMarking`; implements `HevcBumping` |
| `Encoder` | the context of an encoder and its channel, an operator per critical section | - |
| `EncoderApp`, `MCEncoder` | the encoder application: main thread, status threads, pools, LookAhead | `Encoder` |
| `EncoderSteps` | what each action of the encoder application does to threads and contexts, as definitions for the proofs | `EncoderApp` |
| `EncoderAppProofs` | the theorems about the encoder application | `EncoderSteps`, TLAPS |
| `BufPool`, `MCBufPool` | the pool of buffers of the applications, with the event of the RTOS layer and reference counts | - |
| `BufPoolProofs` | the theorems about the pool and whoever uses it | `BufPool`, TLAPS |
| `ScChannel` | the start code thread of the decoder's channel and its event list | - |
| `DecoderApp`, `MCDecoderApp` | the decoder application: main thread, reader, slave thread of the feeder, start code thread | `BufPool`, `ScChannel` |
| `DecoderAppProofs` | the theorems about the application | `DecoderApp`, `BufPoolProofs` |
| `OmxComponent`, `MCOmxComponent` | the OMX decoder component with its threads, module and client | - |
| `OmxProofs` | the theorems about the component | `OmxComponent`, TLAPS |

**Fifo.** `pc[t]` is the place of thread `t` in its call, `wait[t]` tells whether it may give
up. `GetSpace`, `LockTail`, `Store`, `AdvanceTail`, `PostCount` are the lines of
`AL_Fifo_Queue`; `GetCount`, `LockHead`, `Load`, `AdvanceHead`, `PostSpace` those of
`AL_Fifo_Dequeue`. A bounded wait may always fail (`QueueFails`, `DequeueFails`): this covers
`AL_NO_WAIT` and every timeout. `AL_Fifo_Deinit` is left out: it runs when nobody else does.

**FrmBufPool, MvBufPool, PictMngr.** The functions run under a mutex (of the pool, or of the
DPB, which calls the pools), so each is an operator from the structure before to the structure
after. The field `ok` becomes FALSE when an `assert` of the function fails. The three linked
lists of the DPB become one sequence `nodes` in decoding order, the POC list being computed by
`PocOrder`; `disp` is the display FIFO with the `status` of each picture; `dlt` the removed
pictures of which one is released per ended picture. A loop over a list is `Through`, a recursive function on the positions,
where the community modules would have a fold by a `RECURSIVE` operator: the proofs speak of its intermediate states.
The end of `FrmBufPool`, `MvBufPool`, `PictMngr` and `DecPipeline` states the inductive invariant, one part per structure.

**DecPipeline.** Thread D is the slave thread from `ParseSlice` to `Launch` and through the
flush (`WaitFrameSent` .. `TerminateMv`); thread E is `AL_Default_Decoder_EndDecoding`
(`EndCommand` .. `PostSemaphore`); thread U the application (`PutDecPict`, `DecommitPool`,
`DestroyFeeder` .. `Destroyed`). Steps end where a lock is released or a wait begins. Critical
sections of the two nested mutexes are one step; so is a sequence of calls that touches only
data of its own thread.

**Feeder.** The application A goes through `PushBuffer`, `Flush` or `Destroy` (metadata
attached), `Enqueue`, `Notify`, and what follows in each call. The slave S goes round
`WakeUp`, `Consume`, `Transfer`, the units (`RefillStartCodes`, `FindUnit`, `BeginPicture`,
`LaunchPicture` ..), `CheckFull` and what a full buffer entails, `CheckLast` and the flush. H
ends pictures. The memory is `circ`, the used part of the circular buffer, with its offset
`off`; `base` and `begin` count pieces since the start and exist for the properties only, as
does `dropped`.

**DpbLists, DpbMarking.** Here the DPB is seen from the other side: the node array with `head`,
`next` and `prev` of each list as the code has them, `free` and `waiting` for picture IDs, and no
buffers. Each operator of `DpbLists` is a function of `DPB.c`; `Walk` follows the links as the
loops of the code do. The actions of `DpbMarking` are those of the parsing thread:
`StartSlice` (the slice header up to its POC), `FillGap` once per missing frame number, then
`EndIdr`, `EndRef` or `EndNonRef`, which are `updatePictManager` with the marking and the cleanup
in it. Streams are conforming: `Conforming` takes from `OpLists` the lists of operations that
name existing pictures and leave room for the current one. `Careful` restricts operation 3
further, to pictures the code moves correctly (section 5); `HasPlace` is the semaphore
of `AL_InitFrameBuffers`. `RefMarking` keeps a set of records with a number, a POC and an index per
reference picture; the refinement mapping reads it off the nodes in use, by arrival.

**HevcDpb.** The same nodes and invariants, with the actions of the HEVC decoder: `dpb.codec`, chosen in `DpbInit` for the
life of the DPB, tells which of the two next-state relations applies. `StartIrap` and `StartPicture` are the first slice of a
picture: `calculatePOC`, the reference picture set (`RefPicSet`, `MarkRefPicSet`) and `ClearDPB`. `EndPicture` is `endFrame`:
`RemoveHeadFrame` if the DPB is full, the latency counts, the insertion and `HevcCleanup`. `BuildPictureList` reads the nodes
kept in `slice.rps` and is evaluated in `HevcListsExact` for a list longer than the set. `anchor` is the POC of the last anchor as
the encoder meant it, from which `calculatePOC` knows the least significant bits only, and `lost` the POCs a damaged slice
removed; both exist for the properties and to choose streams. In `HevcBumping` a picture that waits is a record with
its POC and its lateness, and output is the largest step that leaves few enough, recent enough pictures.

**Encoder, EncoderApp.** `Encoder` maps the context of an encoder to the context after a
critical section or a call to the driver; `EncoderApp` has a thread `main` and a status thread per
encoder, named after it. `ProcessFrame` of a sink is run by the main thread, or by the status thread
of the LookAhead, and is the same actions for both (`GetTable` .. `Drop`). `EndEncoding` is
`WaitSlice` .. `UnrefStream`. Buffers are named by the picture they carry, so a pool is a
count and an event; a QP table is named by its encoder too. What the firmware does is external
(`Encodable`, `SliceDone`): it fills streams in the order it was given them and works on a picture
when `numB` pictures behind it are there or the stream has ended. `Filled` is the ring after the streams of the start
have been put one after the other, written in closed form for the proofs; an `ASSUME` of `MCEncoder` compares it with
`PutStreamBuffer` repeated.

**BufPool, DecoderApp.** `pc[t]` is where thread `t` is in a call of the pool: `GetBuffer`, `LookAgain`, `WaitEvent`
(down to the condition variable: `asleep`, `woken`), `Take`, `PostSpace` are `AL_BufPool_GetBuffer`;
`Unref`, `GetSpace`, `Store` are the last `AL_Buffer_Unref` and the free callback. `refs[b]` is the set of
holders, so its size is the reference count. `DecoderApp` adds `Main` (`StartLoop` .. `DeinitPool`, the
destructors in their order), `Reader` (`ReaderGets` .. `DropBuffer`, one turn of `AsyncFileInput::run`) and of the
decoder what the application meets: `Slave` takes, waits for start codes, flushes (dropping what is queued), calls back,
fails. `ScChannel` is the thread of `ScNotificationThread` (`pcN`): an event is put in the list under the lock of the list
(`PutEvent`) and the thread woken up under the lock of the condition (`WakeN`), two steps of the slave at a search
(`SearchSC`, `WakeToSearch`) and of main at the destruction (`EndChannel`, `WakeToEnd`); `AL_WaitEvent` tests and goes to
sleep in one (`TestList`), because it holds the lock of the condition from one to the other. The
event `hExitMain` has one waiter and is the flag `exitMain`.

**OmxComponent.** `processorMain` goes through `main.pc`; `worker["in"]` and `worker["out"]` are
`processorEmpty` and `processorFill` with their queues, `pause` the promise of the fence, `mod` the
module with the buffers it holds. `Deleted` then `JoinFill`/`JoinEmpty` are the destructor of a
processor and the join in it. The client gives and frees buffers, sends a command when
the last is answered, and otherwise does what `OMXChecker` lets it do. The decoder behind the
module consumes, displays, signals the end of the stream, fails.

### Abstractions

* In the pipeline a picture is its kind: IDR or not, reference or not, POC, a missing frame number
  before it, and whether it is decoded rather than given up (`sync`); it is one command
  (`AL_AU_UNIT`). Long-term references and operations are in `DpbMarking` only: they choose other
  markings of the same nodes. A gap is one missing frame in the pipeline, up to `MaxGap` in
  `DpbMarking`. A setup error of the channel happens at the first slice only, where the code can fail.
* In the feeder the stream is pieces of equal size: the first slice of a picture, another
  slice, the rest of a slice. The start code table never fills up; the detection of start codes,
  for which the slave waits, is one step there, and `ScChannel` has it in full. In `DecoderApp` there is at most one search for
  each buffer taken, where the code makes as many as it takes to find a unit. Picture buffers do not appear. The application pushes
  no empty buffer (both callers in the repository turn an empty read into a flush) and nothing
  between a flush and its end of stream.
* In `DpbMarking` frames only, no fields; the POC of an IDR picture is 0. A slice that is
  not valid (not intra, with the POC of a reference picture) keeps the POC of the picture before, as
  the code does; no such slice follows a gap. Frame numbers of references in the DPB are not reused
  while they are there.
* In `HevcDpb` streams are conforming but for one damaged slice header between pictures. A reference picture set names any short-term
  pictures of the DPB or `lost` by POC, any references as long-term ones, by their least significant bits alone where these name one
  picture. All are used by the current picture (`Curr`; those of `Foll` are marked the same way and appear in no list).
  RASL pictures after a random access are skipped by the code and are not in the streams; concealment, the low reference
  mode and the end of decoding, which releases buffers only, are left out.
* In the encoder one layer and no skipped or repeated pictures; the two-pass log file and the
  command file are left out; the lookahead encoder gets one stream buffer (HEVC) where AVC gets two.
* In OMX the client waits for the answer to a command before the next one, and a port is flushed on its
  own. Marks, time stamps, parameters and `UseBuffer` (who owns the memory) are left out.
* The pool is modelled with `AL_BUF_MODE_BLOCK`: the calls that do not wait (`sink_encoder.h:111`, `main.cpp:817` and `:1050` of the
  applications) take every buffer of a new pool before another thread uses it.
* Memory allocations succeed, but in `OmxComponent`, where `AllocateBuffer` may fail.

## 3. Runs

| Run | Instance | What it shows |
|---|---|---|
| `fifo` | 1 producer, 2 consumers, 2 elements, ring of 2 | `FifoInv`, no overwrite or underrun, `Fifo` implements `BoundedQueue`; a blocked push returns, what is stored is taken |
| `pipeline_long` | 5 buffers, 4 motion vector buffers, 5 reference pictures, refusals | motion vector buffers suffice |
| `pipeline_damaged` | 3 buffers, 2 commands, low reference mode, 1 flush before the destruction; 3 pictures with gaps, repeated POCs, cancelled or not used as references | assertions hold, exclusive writes, every buffer accounted for and returned, locks match unlocks, no picture lost |
| `pipeline_live` | 3 buffers, 1 command, 3 pictures in any order of POC | output in POC order, destruction returns, pictures are shown, a wait for a buffer ends |
| `feeder` | 2 input buffers, queue of 2, circular buffer of 4 pieces, 2 commands, 2 pushes, 1 flush, both decoding units | what is read is kept, semaphore exact; input taken, destruction returns, flush ends, but for the named cases |
| `encoder` | 7 pictures; LookAhead of 2 and 3 with B pictures; without it 2 slices, or a B picture, and a refusal | counts exact, streams in order, pictures in order, the application ends |
| `omx` | 1 input and 2 output buffers, 4 commands, 1 fault, careful client | each buffer in one place, flush and stop return them, commands answered, an Invalid component returns its buffers |
| `omx_pause` (violation) | the same without faults, any client | an assertion fails after a pause |
| `dpb_marking` | 4 nodes, 3 picture IDs, 3 references; AVC: frame numbers modulo 5, 5 pictures with gaps, low reference mode; HEVC: 5 pictures, LSB modulo 8, reorder 1, latency 1, a damaged slice after 3 pictures | lists agree, counters and IDs exact, a node is free when needed, reference lists exact, `RefMarking` and `HevcBumping` implemented |
| `dpb_head` (violation) | AVC only, without gaps, any operation 3 | the head of the decoding order list is not first |
| `bufpool_decommit` (violation) | 1 buffer, 2 getters | decommitting wakes one of two waiting threads |
| `decoder_app` | 2 input buffers, a file of 2 reads and its end, 2 loops, with and without a timeout, 1 failure | each buffer in one place, putting one back never waits, the queue owns its buffers, a loop ends with its own end of stream, every buffer back in its pool, the application ends |

Why the bounds are enough. The ring of 2 wraps within the behaviours of four calls, and both
semaphores reach 0. Three pictures of any kind give every order of reference, non-reference and
IDR pictures in a DPB of at most one reference; removal, replacement and reuse of a node all occur,
and the rings of reference lists and of offsets (2 entries) wrap. Five pictures and more buffers than
motion vector buffers are what it takes for late releases to accumulate. Two pushes of two
pieces and the end of stream wrap a circular buffer of 4 and fill it, with pictures in the hardware and one begun; two inputs and
the end of stream fill the queue. In the
marking five pictures on four nodes and three IDs make nodes be reused and pictures wait for an ID,
frame numbers modulo 5 wrap, and two operations in one header are enough to move a picture past
another. Five HEVC pictures whose anchors advance by 2 or 3 from POC 7 wrap the three least significant bits at once, a DPB of 3 is filled by
references and by pictures that wait, and pictures before and after the anchor make output wait for the limit of
reordering or of latency. The first picture is not an IDR one: an IDR picture is the case of POC 0 in `StartIrap`, which
wraps a picture later. Seven pictures are more than the pools of each setting of the encoder hold (5 at most of the
permits, 5 or 7 buffers), so the pools run dry and the ring of streams wraps. Four commands take the OMX
component from Loaded through Idle and Executing to a flush, a stop or a disabled port. `MaxPics`,
`Loops`, `FileLen`, `MaxFlush`, `MaxPush`, `MaxPictures`, `MaxGap`, `NumPictures`, `MaxCommands` and `MaxFaults` bound what would
be unbounded; all other bounds are constants of the code made smaller. Symmetry is used for buffers
only, in safety runs only. A module's `TypeOK` is a conjunct of one of its checked invariants (`FifoInv`, `BuffersAccounted`,
`SemaphoreExact`, `ReferencesExact`, `EachBufferOnce`, `BookkeepingExact`, `QueueOwnsInputs`). Deadlock is checked everywhere except in `pipeline_long`, where the driver
refuses commands and the decoder does stop, and in `decoder_app`, where the application ends. A file of two reads
needs a third buffer to meet its end, so with two buffers the reader waits for the pool, and two loops let a stale event meet the next wait.

**Fairness.** Threads are scheduled, so each thread that can take a step takes one: weak
fairness of the steps of each thread. The hardware ends the commands it accepted. In the
pipeline the application returns what it was shown until it destroys the decoder; it need not push more, nor
destroy. `FairSpec` says so with `WF`; `ReadySpec` is the same with the `ENABLED` of each
thread written out (`DReady` and so on), which makes the larger run affordable. In the feeder only a call already
begun goes on; the signal of a returned picture (`Signal`) is not fair. In `Fifo` the consumers
poll again and again, as the feeder does, and there is one producer: the semaphore promises nothing about whom it
wakes, so of two producers one can wait for ever while the other goes on. `DestroyReturns` of the feeder exempts
a queue left full by a slave that has ended (`QueueStaysFull`): the code has 256 places and pushes with `AL_WAIT_FOREVER`. In the
pool a thread inside a call goes on, and nobody has to give a buffer back; in the decoder application its two threads, the
slave and thread N of the channel go on and a timeout that is set passes, while failures need not happen. In the encoder the main thread, the status threads and the firmware behind them go on. In OMX the three threads of the
component do, and a client that was asked to fill or empty a port; it need not give buffers nor
send commands, and the decoder need not consume or display.

## 4. What is proved

TLAPS checks every theorem for all values of the constants that meet the named assumption of the module. Each inductive
invariant was first checked by TLC on the instances of the runs. The assumptions fix what the code fixes: capacities and sizes of
at least one, distinct names for distinct things, the two or three threads that exist.

| Theorem | Of every | What it says |
|---|---|---|
| `FifoProofs`: `FifoSafe`, `NoOverwriteTheorem`, `PermitsTheorem` | number of threads, set of elements, capacity | the semaphores, the mutex and the ring of `AL_Fifo` agree; no element is overwritten or read twice |
| `FifoProofs`: `RefinementTheorem` | the same | `AL_Fifo` implements `BoundedQueue`, order and content |
| `BufPoolProofs`: `OnePlaceTheorem`, `PutBackTheorem` | number of threads and buffers | each buffer is in one place; giving one back never waits |
| `DecoderAppProofs`: `QueueOwnsInputsTheorem`, `LoopsWholeTheorem`, `InputsReturnedTheorem`, `AppPutBackTheorem` | number of buffers, reads per file, loops, faults | the four invariants of the run of the application |
| `OmxProofs`: `OmxInvariant`, `EachBufferOnceTheorem` | number of buffers, commands, faults, any client | each buffer header is in one place |
| `OmxProofs`: `FlushTheorem`, `AssertionsTheorem` | the same, with `Careful` | an answered Flush or Idle gave every buffer back; no assertion fails |
| `FeederProofs`: `SemaphoreTheorem`, `StreamKeptTheorem` | size of the queue, of the circular buffer and of the stack, stream | the shared semaphore is exact; no part of the stream is freed before its picture ended |
| `DecPipelineProofs`: `PipelineInvariant`, `AssertionsNeverFail`, `ReferencesCounted`, `WritesExclude`, `BuffersReturn` | number of buffers, motion vector buffers, nodes, commands, references and pictures, with or without low reference mode, under `Sized` | no assertion of the pools and the DPB fails; counts are exact; hardware and application never share a picture; every buffer comes back |
| `DecPipelineProofs`: `PicturesKept`, `PicturesOrdered` (action properties) | the same | no step of any thread loses a picture to be output, or outputs one before an earlier one |
| `DecPipelineProofs`: `MvBuffersSuffice` | the same, with at least `Least(NumRef) + StackSize` motion vector buffers | the slave never waits for a motion vector buffer |
| `EncoderAppProofs`: `EncoderInvariant`, `ReferencesAreExact`, `NoAssertionFails`, `PicturesEncodedInOrder` | number of pictures, permits, entries and streams, every setting under which the driver refuses nothing behind a LookAhead (`DriverAccepts`) | the three invariants of the run of the encoder application |

**The queue.** `FifoInv` is `TypeOK`, `PermitsConserved` (the two semaphores and the calls between a wait and a post
add up to the capacity), `StoredAccounted` (the distance from head to tail is what can be taken, plus what was stored but not
yet posted, plus what a consumer took a permit for but did not remove) and `MutexOwned`. That there is room when a producer
stores is not inductive: it follows from the permit it holds, through the sum of the permits and the agreement of the ring with
them; that there is one writer at a time follows from the mutex. `StepCounts` says how a step moves a thread between the
four sets of calls. For the refinement, the abstract queue is what the ring holds from head to tail. An element enters it when the tail moves (`AdvanceTailEnqueues`), leaves it when the head moves
(`AdvanceHeadDequeues`), and every other step is a stutter, for which `NoOverwriteNoUnderrun` is needed: `Store` may write the
slot at the tail because it is outside of the window.

**The pool.** `PoolInv` counts twice. Buffers: those in the ring, on the way to or from it, referenced, or not made yet are
all of them (`BuffersCounted`). Slots: the semaphore, the number in the ring, and what threads hold between the two add up to the
capacity (`SlotsCounted`). A thread about to put a buffer back has it in hand, so in the first sum, and so the ring and the threads
that are between ring and semaphore leave a permit: `PutBackNeverWaits`. For the sums to be sums of cardinalities the places must be disjoint (`RingApart`,
`HandsApart`, `HandsFull`). The invariant is proved for any step that is a `PoolAct`, so that users of the pool reuse it.

**The decoder application.** `AppActsOnPool` shows that each step of the application is a `PoolAct`, which brings `PoolInv` along.
`AppInv` adds where each thread can be (`ReaderPlace`, `ThreadPlaces`), the agreement of the queue of inputs with the references
the slave holds (`QueueReferences`), that what the decoder took of a loop was read in that loop (`EatenWasRead`), and
`CleanLoop`: as long as nothing failed or timed out, a loop is in one of three phases (`Streaming`, `Ending`, `Ended`), and what the
decoder took and what is queued add up to what was read. `LoopsWhole` is `CleanLoop` where main leaves the loop;
`InputsReturned` is `QueueReferences` with an empty queue, once reader and slave have ended.

**The OMX component.** `OmxInv` has the state machine of `processorMain` task by task (`Places4Task`), one command of the client at
a time (`OneCommand`), the place of each buffer (`OnePlaceEach`: occurrences in the queues, the workers, the module and
the client add up to one), when the module holds buffers and has a decoder (`ModuleHolds`, `DecoderWhen`), and when the fence is
closed (`FenceWhen`). `CarefulInv` is inductive on top of it for a client that gives no buffer in Pause and sends no flush and no
change of state while the buffer that ends the stream is out, which is what the clients of the repository do: then the queues are empty
when the answer is due (`QuietWhen`, `BeforeAhead`). Without that hypothesis the two properties do not hold: run `omx_pause`
and section 5. `OmxInvariant` and `EachBufferOnceTheorem` do not need it.

**The feeder.** `FeederInv` has six parts. `SemaphoreExact` says where each count of the semaphore of the command stack is. It
needs `NothingOnItsWay` (the slave took all `StackSize` counts when it waits for the hardware, so nothing is there, which
is why the full buffer may be emptied). `PicturesInOrder` is what `StreamKept` follows from: pictures in the hardware name
consecutive slots of the ring of `StackSize` offsets, fewer than `StackSize` of them, so the slots differ (`SlotsDiffer`) and each
finds the offset it stored; ends of pictures are in stream order, what was freed ends where the oldest of them begins, and a picture
begun starts behind them and before what is not decoded. `MetaEnough` (each buffer in the queue has circular metadata of its own) is
what makes the reads of `Transfer` defined, `UnitKnown` and `StepTypes` those of the unit in search.

**The decoding pipeline.** The proof has two halves. `PictMngrProofs` shows for every function of the picture manager that it keeps
`MngrInv(x, frm, mv, user, shown)`, where `frm` and `mv` count, for each buffer, the holders outside the DPB. Its parts:
`PoolInv` (the links from `head` are a sequence without repetition that ends at `tail`, and a slot is empty, free, or used, exactly
one of these), `MvInv`, `NodesWhole` (a node has its own ID and buffers), `CountsExact`, and `OutputWhole`, which follows a picture through
`out` in the DPB, its `status`, the display list, the flag of its slot, and the application: without it an increment or an output
could meet an assertion. The same lemmas give what happened to the pictures: `Thinned` for a function that outputs and removes
(what was to be output now is in the list, in order), `Grown` for an insertion. A loop over the POC list
is not handled by induction. A statement about the state before each element holds before the first one; if it failed somewhere there would
be a least place where it fails, and the step from the place before contradicts it (`FlushIs`, `CleanupIs`, `DisplayIs`, and
the reference lists, with `RunDone` and its like). That `PocOrder` is an ordering of all nodes (`PocOrderIs`) needs that as many
places as nodes are taken, by counting, as does `RefBuffers`.

`DecPipelineProofs` shows that `PipelineInv` is inductive. `MngrInv` holds with `FrmUsers` and `MvUsers`: commands on their way, the
picture D prepares, and the lists in the ring `refList` whose rank is `Locked`. So each step needs to know these counts after it,
which `StepKeeps` and the lemmas it cites give. `SemaphoreInv` says where each count of `Sem` is; from it the ranks that are locked are less than a turn of the ring
of `StackSize` entries apart (`RanksClose`), so a list that is locked is not overwritten while the command that unlocks it is on its
way: this is why a ring of that size is enough. `ReferencesInv` says that a command carries the list of its rank, `ExclusiveInv` that no picture in flight is written by another or
read before it is written; `PictureInv` that the picture D prepares is in no list, and that exactly the commands on their way are `notReady`;
`ShowingInv` that what a callback shows is the first of the list, and decoded; `RoomInv` that the cleanup leaves room for one more
picture, so that a node is free and a gap cannot evict a picture to be output; `RestInv` that nothing is on its way when the flush
empties the DPB, and nothing is left when the pool is destroyed.

`MvSuffice` needs an invariant of its own, `MvHeldInv`, on top of `PipelineInv`. Counting what is held now bounds nothing:
a picture removed from the DPB keeps its buffers until a command ends, and each command that ends releases one removed
picture (`AL_Dpb_EndDecoding`), so many may be waiting. The invariant looks ahead: `HeldAfter(k)` is what is held once the first `k` of the
commands on their way have ended, hence without the first `k` removed pictures and without what those commands lock. With `f` commands
on their way or being prepared, `HeldAfter(k)` has at most `Least(NumRef) + f - k` members for every `k < f` (`Suffices`). When
a command ends, what is held after `k` more is what was to be held after `k + 1` (`SufficesFrom`); a picture begun adds one buffer and one command
(`SufficesMore`), one cancelled gives both back (`SufficesLess`); that its buffer is then held by nothing else is the third part of the invariant. The case
`k = f` is the first part: nodes that exist and removed pictures are no more than the DPB keeps and the commands still to end
(`RestFits`). When the slave waits, every buffer would be held by the DPB, a removed picture or a command (`AllHeld`), and the
semaphore leaves at most `StackSize - 1` commands on their way (`FewOnTheirWay`), one buffer too few. The hypothesis is weaker than what
`AL_Default_Decoder_AllocMv` is asked for: the code adds one buffer for concealment, and one more for AVC (`DefaultDecoder.c:943`).

The assumption `Sized` has three parts. `BufsFit`, no more picture buffers than slots: the code asserts a free slot for each buffer
(`FRM_BUF_POOL_SIZE`, `lib_parsing/DPB.h:66`). `DpbSize >= NumRef + 2`: a level has at most 16 reference pictures and
`MAX_DPB_SIZE` (`lib_parsing/DPB.h:65`) is 18 more than that. `~DriverMayFail`: a command the driver
refuses is never ended (section 5), its picture stays `notReady` for ever and the semaphore is short of a count, so the exact counts do
not hold of it; `pipeline_long` checks that case.

**The encoder application.** `EncoderInv` (at the end of `EncoderApp`) is inductive. `ReferencesExact` counts holders, and a count stays right
only if a step that adds a holder adds one that was not there. So the invariant says who is where (`ThreadPlaces`: main runs the sink
of the second encoder once the LookAhead has reported its end, its status thread until then), how an encoder is stopped, closed
and released (`Lives`, `EndsOfStream`), and that the pictures are numbered through: what the encoder was given,
what is passed to it, the FIFO, what the lookahead reports and what it works on follow each other without a gap (`PicturesInOrder`,
also for several pictures in the FIFO). From that a picture is at no place twice. `SourcesHeld` is what an encoder has been sent and
not given back; `Permits` ties it to the semaphore and the pool ids, hence no assertion on a pool id or an entry of
`SourceSent`. `RingOfStreams` says which places of the ring the hardware has and that no stream is in it twice, hence that streams
come back in the order they were sent. `EncoderSteps` names what an action may do to threads and contexts
(`Steps`) and to the references (`Acts`), `EncoderAppProofs` shows that every action is one of these; each part is kept by a lemma of its own, and `CountsAreHolders` is carried through as sums over
named holders (`SourcesExact`, `TablesExact`, `StreamsExact`). `DriverAccepts` is needed: a refusal behind a LookAhead costs references (section 5).

**Only model-checked.** All liveness and deadlock freedom: liveness under fairness and `ENABLED` are out of the prover's reach.
The marking of the DPB, HEVC included (`ListsAgree`, `BookkeepingExact`, `ReadyForPicture`, `ListsExact`),
with the refinements of `RefMarking` and `HevcBumping`: these
operators walk along links and fold over lists of operations, defined by `RECURSIVE` operators, and what those compute in
general needs an induction the prover cannot be given. The pipeline with a driver that refuses a command, `MvSuffice` in that
case included.

## 5. Findings and observations

Three runs show an assertion or a comment of the code violated:

1. `lib_parsing/DPB.c:270` - a picture that operation 3 turns into a long-term one is moved in the decoding order
   list; when it is the head of the list and other pictures stay before its new place, `uHeadDecOrder` still names it
   and those pictures are met no more (`dpb_head`).
2. `src/vcu-omx-il-xilinx-v2018-3/base/omx_component/omx_component.cpp:1498` - a buffer given in Pause
   waits behind the fence; a transition to Idle stops the decoder and then opens the fence, and `assert(success)` fails
   (`omx_pause`). The client of the repository gives no buffer in Pause.
3. `src/vcu-ctrl-lib-app/lib_app/BufPool.cpp:293` - `BufPool.h:138` says that decommitting "deblocks all the blocking call";
   the event is set once and resets itself, so of two threads that wait one goes on (`bufpool_decommit`). The decoder
   application, which alone decommits, has one. The same event loses a wake-up when two buffers come back before the first of
   two getters has run; `ApplicationEnds` has one getter, as the application does.

Further behaviours met while modelling, each outside what the properties claim. Those of the pipeline and of the
feeder were traces of smaller instances of these models.

* `lib_decode/DecChannelMcu.c:515`: a command the driver refuses is only reported with `perror` (the comment at line 503
  says "TODO return error"); nothing posts the semaphore for it, and the next flush waits for ever.
* `lib_decode/DecoderFeeder.c:127`: a circular buffer still full after every picture ended is emptied together with
  the queue of inputs. An end of stream buffer in it is dropped too, and the end of the stream is never signalled.
  Pictures before the first synchronisation point free nothing, so they are enough to fill the buffer. `EndOfStreamUnlessDropped`
  exempts this.
* `lib_decode/DecoderFeeder.c:118`: in slice mode a full circular buffer makes the slave wait for a count that only
  the picture it is preparing gives back. The liveness properties of the feeder exempt this (`WaitsForItself`).
* `lib_decode/Patchworker.c:243`: dropped buffers keep their circular metadata, which governs their next push.
* The comment of `GetCopiedAreaSize` (`lib_decode/Patchworker.c:51`) says that a chunk is kept free for the end of stream, and
  the code keeps none; the end of stream buffer simply waits in the queue, which is harmless by itself.
* `lib_parsing/DPB.c:270-347`: operation 3 on a picture older than a long-term picture of smaller index leaves the
  long-term pictures out of order. Its search for the picture that has the index takes the last node with it, whatever its
  marking, so a picture that is only waiting for its output can hide the reference. `Careful` keeps both out of `dpb_marking`.
* `lib_parsing/DPB.c:778`: `AL_Dpb_GetNextFreeNode` loops until it finds a node, under the mutex; `ReadyForPicture`
  shows it ends for conforming streams.
* An invalid slice leaves the POC of the picture before it in `iCurFramePOC` and skips the missing frame numbers; a
  missing frame number right after a non-reference picture is not seen as one.
* `lib_parsing/DPB.c:1133`: the comment of `AL_Dpb_RemoveHead` speaks of the decoding order list, the code takes the head of the
  POC list. After a slice of HEVC that is not valid (`HevcDecoder.c:682`) a full DPB so loses its picture of the smallest POC even
  if it is a reference the stream goes on to use, and `ClearDPB` (`Hevc_PictMngr.c:204`) removes it while
  `RefPicSet` still names its node; `HevcBumping` has both (`LoseOldest`, the removal in `StartPicture`), and in its place in the lists
  stands the head of the POC list.
* `AL_Dpb_SetMarkingFlag` does not touch `uCountRef`, so with HEVC it drifts from the number of references; only the AVC
  cleanup reads it, and `BookkeepingExact` claims it for AVC.
* Encoder: a picture the driver refuses costs the permit and the pool entry it took (`Com_Encoder.c`, `AL_Common_Encoder_Process`).
  With LookAhead it costs more: the pictures in the FIFO keep their references, and `AL_Buffer_Destroy` asserts, or, thrown
  on the status thread, the exception ends the process. The configurations with a refusal have no LookAhead for this reason.
* Decoder application: `SafeMain` looks at the error of the decoder after the last loop only. When the slave thread has ended on an
  error, the next loop of `-loop` waits for an event nobody sets, while its reader asks the decommitted pool again and again;
  `NobodyAnswers` exempts this, and the dropped end of stream, when there is no `--timeout`.
* `lib_decode/DecChannelMcu.c:446`: a search of start codes that cannot be posted, or whose status the driver does not
  give (line 275), is told to nobody, and `RefillStartCodes` waits for `ScDetectionComplete` for ever (`DefaultDecoder.c:631`): the
  slave does not end, and the destruction of the decoder waits for it. `NobodyAnswers` exempts this.
* OMX: `TreatDisablePortCommand` and `TreatEnablePortCommand` return without an answer when the port is in error, although
  `OMX_Core.h:681-683` says the component "shall send the EventHandler() callback at the conclusion of the command". A flush of one
  port flushes both (`OMX_Core.h:713` says "a single port index will only flush that port"). A fence closed
  when the decoder fails in Pause is never opened (`FenceAbandoned`). A flush or a stop before the end of the stream is displayed
  loses the input buffer that carried it, and an end of stream with no output buffer given uses a null pointer
  (`crash = "null"`); the careful client avoids the first, and no property claims the absence of the second.

## 6. Not modelled

* The deadlines of `lib_rtos.c`: listed as a hazard without a property. Their arithmetic depends on two clocks.
* Slices as commands in the pipeline, concealment (of HEVC too), pre-allocation; the buffers of HEVC pictures, which take the same paths as those of AVC.
* The OMX encoder component and module; the log files of two-pass encoding.
* Parsing and writing of bit streams, settings and tables, picture format conversions: sequential code without shared state, and the
  largest part of the lines. Drivers and allocators: thin wrappers of `ioctl` and `mmap`. Demonstrations, pictures and vendored headers.

What a further step would take up, in this order: the links of `DpbLists` proved to be three orders of the same nodes, with the loops as
functions on positions as in `PictMngr`; the pipeline with a refused command; the OMX encoder module on `OmxComponent`.
