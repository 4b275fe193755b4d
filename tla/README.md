# OpenEB in TLA+

Models, checks and proofs of the concurrent core of OpenEB: the path that the data of an
event camera takes from a device or a recording, through the HAL's transfer thread and
events stream, to the decoder and to the `Camera` class of the SDK, and on to the
recordings and the slicers that hang on a camera's callbacks, and the reader through which a
camera plays a file. Paths are relative
to the repository's `src/`.

1. [The system](#1-the-system)
2. [The modules](#2-the-modules)
3. [The runs](#3-the-runs)
4. [Fairness](#4-fairness)
5. [What is proved](#5-what-is-proved)
6. [Where the code and its documentation disagree](#6-where-the-code-and-its-documentation-disagree)
7. [What is not modelled](#7-what-is-not-modelled)
8. [Plan](#8-plan)

To check a run: `tlc -config X.cfg M`; to check the proofs: `tlapm` on each of the eight
`*Proofs.tla`. `PROJECT.json` lists the runs with their properties, the mutation that each
property must detect, the source lines behind each definition, the hazards and the theorems.

## 1. The system

OpenEB has a hardware abstraction layer (`hal`), a plugin for the vendor's boards
(`hal_psee_plugins`) and the SDK modules `base`, `core`, `stream`, `ui` and `core_ml`
(`sdk/modules`). The data goes through these parts:

    device ---- USB or V4L2 transfers ---+
                                         +--> DataTransfer --> I_EventsStream --> I_EventsStreamDecoder
    RAW file -- FileRawDataProducer -----+        thread        queue, seek,       EVT2/2.1/3/4, ...
                                                                index, log              |
    slicers, writers, windows <-- CD/trigger callbacks <-- Camera (run thread) <--------+

| part | state | operations | what is hard | what makes it correct |
|---|---|---|---|---|
| `DataTransfer` (`hal/cpp/src/utils/data_transfer.cpp`) | `stop_`, `suspend_`, `running_`, the handle of the transfer thread | start, stop, suspend, resume; the thread's loop around `run_impl`; status callbacks | the owner's thread, a seeker's and the transfer thread share flags, some under a mutex and some atomic; a producer may end, fail, or refuse to stop, whereupon the thread is detached | at most one thread drives a producer; `stopped()` is right from the Stopped callbacks on; suspend keeps the thread out of `run_impl`; stop returns |
| `I_EventsStream` of a recording (`hal/cpp/src/facilities/i_events_stream.cpp`) with `FileRawDataProducer` | `available_buffers_`, `stop_`, `seeking_`; the producer's pool, slack buffer, file position and its own `seeking_` | start, stop, seek, poll_buffer, wait_next_buffer, get_latest_raw_data; the transfer callbacks; the file reads | four mutexes and three condition variables; a bounded pool that blocks the thread while it holds a mutex; buffers read before a seek that arrive after it; a Stopped status that is late | the consumer gets the file's data in order, none lost, none twice, from the bookmark on after a seek; -1 only at the end; no buffer is leaked; every call returns |
| index of a RAW file (same file) | bookmarks, `<raw>.tmp_index` on disk, status, abort flag, index thread | load, check, build, write, remove; abort by the destructor; lookups | the file outlives the process: crashes, aborted builds, recordings that grow | an index in use is that of the recording; a seek lands at or before its target; the range that is announced can be reached; indexing ends |
| `PseeLibUSBDataTransfer` (`hal_psee_plugins/src/boards/utils/psee_libusb_data_transfer.cpp`) | a ring of asynchronous transfers with completion tokens | start_impl queues, run_impl waits, forwards and queues again, stop_impl cancels and waits | callbacks run in whichever thread handles libusb's events; completion, timeout, error and cancellation race with the two threads that walk the ring | packets keep their order; an error leaves nothing to libusb; stop returns |
| EVT3 decoder (`hal/cpp/include/metavision/hal/decoders/evt3/`, `hal/cpp/src/facilities/i_events_stream_decoder.cpp`) | the time (low, high, loops), its base and shift, row and vector base, the words of an incomplete group, half a word | decode, get_last_timestamp, reset_last_timestamp, reset_timestamp_shift | buffers cut anywhere; a 24-bit time that goes round; seeks that put the decoder in the middle | what is decoded is what the sensor sent, with its time |
| `Camera` (`sdk/modules/stream/cpp/src/camera.cpp` and the live and offline variants) | `is_running_`, `run_thread_status_`, `camera_is_started_`, the run thread | start, stop, set_is_running, the run thread's loop, errors of the source | callers in several threads, a run thread that ends or fails by itself, one condition variable with `notify_one` | calls return; only a joinable thread is joined; a stopped camera neither runs nor streams |
| `I_EventsStream` of a live device (same file) | the same queue, `data_transfer_connection_error_` | stop drops the queue; the transfer error callback; log_raw_data | data that comes while stop() waits; a device that fails, gives up or cannot be stopped; a Stopped status of one session that arrives in the next | nothing is left to read after stop(); -1 only after stop() or an error that is not kept; no buffer is leaked |
| `V4l2DataTransfer` | driver queue of 4 buffers, pool of 32 | start/run/stop_impl | data dropped when the pool is empty | buffers conserved |
| file readers, `OfflineStreamingControl` (`event_file_reader.cpp`, `raw_event_file_reader.cpp`) | `seeking_`, mutex, condition; the rest of the last buffer | start, stop, read, seek, callbacks | a seek in the middle of a buffer or around a stop(); a run thread that locks the mutex again at once; exceptions | what is decoded is the file from the last seek on, none skipped, none twice; a seek is let in, and reads resume after it |
| writers and recording (`event_file_writer.cpp`, `raw_event_file_logger.cpp`, `threaded_process.cpp`, `callback_manager.h`, `Camera::start_recording`) | the registry of callbacks and the run thread's copies of them; each writer's buffer, tasks, thread and file | start and stop a recording; the callback of each buffer; flush and close in a writer's destructor | a writer is destroyed by whoever drops the last copy of its callback, the user's thread or the run thread; a thread that ends with tasks left; a flush that waits for one of them | a closed recording has every buffer delivered while it was on, once and in order; every recording gets closed |
| slicers (`camera_stream_slicer.cpp`, `synced_camera_streams_slicer.cpp`) with `ConcurrentQueue` and the reslicer | per-camera queues, slice queue, the slice under way | begin, iteration, destructor; callbacks of master and slaves | master and slaves wait for each other; the end of any of them; the destructor, which stops the same cameras as the master's thread | the slices are the master's events cut by the condition, with each slave's events up to the cut; nobody waits for ever |
| object pool, callback manager, buffers (`base`, `core`) | free list; registry | acquire/release; add/remove | shared by all threads | conservation |
| discovery, plugins, devices, facilities, registers, biases, ROI, ERC, headers, configuration, serialization | tables filled when a device is opened; hardware registers | lookups, conversions, register sequences | none of their own | values in range |
| image generation, UI, ML, Python | per-pixel state, windows | computations, rendering | out of scope | |

The parts interact by calls and callbacks. `I_EventsStream` registers a transfer and a
status callback with its `DataTransfer`; these run in the transfer thread and take the
stream's mutex. `stop()` of the stream calls `stop()` of the transfer, which calls the
producer's `stop_impl` from the caller's thread and joins. `seek()` suspends the transfer
thread, moves the file and resumes. `Camera`'s run thread starts the stream, waits for
buffers, decodes them, and calls the user's callbacks from there. The index thread has a
stream and a decoder of its own. A recording is a callback of the camera that owns its
writer: `stop_recording()` removes the callback, and the writer goes when the run thread has
dropped its copy too. A slicer is a set of callbacks on the cameras it owns; their run
threads meet in its queues and condition variables, and the application reads the slices.

## 2. The modules

| module | models | relates to |
|---|---|---|
| `DataTransfer` | `data_transfer.cpp`, one action per section between two accesses to shared state | base of the next two |
| `EventsStream` | `i_events_stream.cpp` for a recording, with `file_raw_data_producer.cpp`, and for a device | extends `DataTransfer`; implements `RecordingCursor` |
| `RecordingCursor` | abstract: a cursor in a file, moved by reads and seeks | instantiated by `EventsStream` and `RawReader` |
| `LibUsbTransfer` | `psee_libusb_data_transfer.cpp`; libusb is external | extends `DataTransfer` |
| `RawIndex` | the index of a RAW file | |
| `Camera` | `camera.cpp`, `camera_live.cpp` and the offline variants | |
| `Recording` | recordings of a camera: `camera.cpp`, `callback_manager.h`, `event_file_writer.cpp`, `raw_event_file_logger.cpp`, `threaded_process.cpp` | extends `Camera`: every step of a camera is one of its steps |
| `RawReader` | `event_file_reader.cpp` and `raw_event_file_reader.cpp` for a camera that plays a RAW file (`camera_offline_raw.cpp`, `offline_streaming_control.cpp`) | extends `Recording`; implements `RecordingCursor`, over a stream that is one |
| `SyncedSlicer` | both slicers, the reslicing algorithm and `ConcurrentQueue`; the cameras' start and stop as in `Camera` | implements `SliceStream` |
| `SliceStream` | abstract: the slices that the iterator promises, from the master's and the slaves' events alone | instantiated by `SyncedSlicer` |
| `Evt3Clock` | the time of the EVT3 decoder | base of `Evt3Decoder` |
| `Evt3Decoder` | the EVT3 decoder behind `I_EventsStreamDecoder::decode`; the sensor is external | |
| `DataTransferProofs`, `Evt3DecoderProofs`, `RawIndexProofs`, `SlicerProofs` | theorems about `DataTransfer`, `Evt3Clock` and `Evt3Decoder`, `RawIndex`, `SyncedSlicer` | each extends its module |
| `EventsStreamProofs`, `LibUsbProofs` | theorems about `EventsStream`, `LibUsbTransfer` | extend `DataTransferProofs`, whose lemmas they use |
| `CameraProofs`, `RecordingProofs` | theorems about the camera with its recordings and its reader | the first extends `RawReader`, the second the first |
| `MC...` | values for the constants | one per model with runs |

Conventions. A variable has the name of the member it stands for, or says in its
declaration which one it is. A thread's program counter says where it is between two
steps; a section under a mutex is one action, and where a mutex is held across a blocking
call its holder's program counter (or a variable) says so. An action named `X...` of a
function `x` is the part of it that its comment names. Definitions marked "Slip" are not
part of the specification: each is a bug that the code could plausibly have in place of
the definition that follows it, and the property listed with it in `PROJECT.json` finds it.

**DataTransfer.** `call` is where the owner is in start() or stop(), `susp` where the
seeker is, `pc[t]` where thread slot `t` is. `thread` is the handle
`run_transfers_thread_`: a slot whose thread was detached goes on without it. `producer`
is chosen at the start and does not change: "recording", whose `stop_impl` does not fail
and which can be sought, or "device", whose `stop_impl` and `run_impl` may fail.

**EventsStream.** The user does one of start, stop and seek at a time; the consumer loops
over wait_next_buffer or poll_buffer and get_latest_raw_data; the transfer thread reads. The file is
`NChunks` reads. A buffer in `queue` records its chunk and whether it is a clone on the
heap. `free` counts the pool. `cursor` and `got` are history, for `StreamIsCursor`, the
refinement (`INSTANCE RecordingCursor WITH ...`): the data that the consumer gets is a
behaviour of `RecordingCursor`, where a seek moves the cursor to a bookmark and a read
returns the data there and advances. With `producer = "device"` there is no seek: data
comes at any time while its `run_impl` runs (`DeviceSends`), `run_impl` may throw or give up
(`DeviceFails`), the error callback keeps the loss of a connection in `connError` and no
other error (`StreamError`), stop() empties the queue instead of copying it, and start_impl
and stop_impl may throw (`StartFails`, `StopDetach` of `DataTransfer`), so that detached threads
go on sending into the stream. `asked` and `broken` are history for what the end of a stream
means: whether data has been asked for since stop(), and whether the device has failed in a
way that the stream does not keep.

**LibUsbTransfer.** `inFlight` is libusb's queue; `Complete` is the callback, enabled only
while some thread is in wait_completion, as libusb calls back from event handling. Both
the owner (`ownAt`) and the transfer thread (`runAt`) can be in stop_impl. Submitting,
cancelling and waiting may fail (`SubmitFails`, `StopMayFail`, `RunWaitFails`): stop_impl then
goes on with the next transfer and throws at the end, which `errors` remembers for each side,
and stop() detaches the thread (`OwnerNext`). `NoneDetached` is a restriction of the environment:
the owner does not start again while a detached thread is still there.

**RawIndex.** A recording is the sequence of the times the decoder has after each event.
`disk` is the index file; `b` has the locals of the build. `Crash` ends the process at any
step; what is on disk is then a prefix of what was written. `Grow` lets the recording
grow between two openings. `BuildThrows` is an exception of the decoder or the streaming, which
is caught where the thread was created and leaves the status as it is. `Lookup` is what seek()
takes from the vector: nothing for a target behind the last period, one bookmark, or `Beyond`,
the memory behind the vector, if no bookmark from the target's on has a time.

**Camera.** `user[u]` and `run[t]` are program counters; `lock` owns `run_thread_mutex_`.
`set_is_running` is three steps (test, set, report), because nothing makes it one. The
rigid `setting` has the callers, whether start_impl/process_impl and stop_impl may fail, and
whether the camera plays a file.

**Recording.** The state of `Camera`, and next to it the registry (`cbs`, the run thread's copies
`vec`, `dirty`), and for each writer slot its buffer, tasks, thread and file. `CameraStep` is a
step of `Camera` that no callback in progress prevents; the run thread's process_impl with a
buffer is `GetCbs`, `AddRawData` for every callback, `Processed`. `drops` has the writers that the
user's thread and the run thread are destroying: their `CloseFlush`, `CloseFlushed` and
`CloseJoin` are what holds that thread up. `owed` is history: what was delivered while the
callback of a writer was registered.

**RawReader.** In a camera that plays a file, process_impl is one read(): `ReadEnter` takes the
reader's mutex when no seek is announced and starts the stream if it is stopped, `ReadBuffer`
takes the next `BufferSize` pieces of the file from the stream, `ReadDecode` decodes one and
calls the callbacks, `ReadNothing` is the end. `seeker` is where the user of the
`OfflineStreamingControl`, who may be any thread, is in seek(): announced, or done. The stream
behind the reader is the cursor that `EventsStream` implements, `Player` says that the reader
hands on that promise: what is decoded is again a behaviour of `RecordingCursor`, with the
first piece that is not decoded for its cursor.

**SyncedSlicer.** `pc` has the application and the master's run thread, which share the actions
of on_new_slice and of the end of the stream (the destructor's `camera_.stop()` reports STOPPED
in the application's thread); `feed[k]` is the run thread of slave `k`. The two condition
variables of a slave are the flags `slaveAsleep` and `masterAsleep`; `mtx` is the holder of
`Master::mtx_`, which the time callback does not take. `FindNextSlicingConditionMet` and
`CloseSlice` are the reslicing algorithm, `Emplace` and `PopFront` the queue. A `setting` has the
condition, the bound of the queue and the tapes of the cameras. `Given` is the refinement: the
slices given so far, and whether the iterator is at its end, are a behaviour of `SliceStream`.

**Evt3Clock, Evt3Decoder.** The recording (`tape`) is what a sensor sends, built item by
item before it is read: time words, rows, pixels, vectors, triggers, monitoring events. A
word carries, for the properties only, the sensor's time and the events it completes.
`Decode(size)` is one call of decode; `DecodeBuffer` is `decode_events_buffer`, whose loop is
`DecodeNext`, one event at a time, and `DecodeWords` is `decode_impl` once the base is known; `Seek` is a reader's `reset_last_timestamp` with the time of a bookmark.

## 3. The runs

| run | states | question |
|---|---|---|
| `transfer` | 3 700 | do flags, handle and threads stay consistent, and does stop() return, for both kinds of producer? |
| `stream` | 136 000 | is the data of a recording delivered as `RecordingCursor` says, and that of a device ended by stop(), with no buffer leaked, and does every call return? |
| `stream_seek_skips` | violation | may a seek lose the data at its bookmark? |
| `camera` | 49 000 | do start, stop and seek return, is a stopped camera off, and one that is not stopped running, are recordings complete and closed, and does a played file come in order, from the last seek on? |
| `camera_stop_early` | violation | the same with a second caller of stop() |
| `slicer` | 49 000 | are the slices those of `SliceStream`, and do iterations and destructors come to their end? |
| `raw_index` | 66 000 | is an index in use right, across crashes and growth, where does a seek land, and does indexing end? |
| `raw_index_crash` | violation | the same with a crash during the abort of a build |
| `usb` | 93 000 | are packets in order, is nothing left after an error, what keeps stop() from returning? |
| `usb_requeue` | violation | is nothing left to libusb when stop() returns? |
| `evt3` | 180 000 | is what is decoded what was sent, with its time, however the bytes are cut? |
| `evt3_reset` | violation | does get_last_timestamp return what the decoder was reset to? |

The bounds, and why they are enough:

- `transfer`: two thread slots. A producer whose stop_impl cannot fail never uses the
  second (`OneTransferThread`, proved for any number); one whose stop_impl can has a
  detached thread next to its successor. More detached threads only repeat what one does.
- `stream`: a file of 2 reads and a pool of 3 buffers: one in the consumer's hands, one in
  the producer's slack and one under way, so that the pool runs empty; a device that finds it
  empty loses its data. There is one thread slot: a device whose stop_impl failed can be
  started again once the detached thread is gone. (With a second slot, that is with a
  detached thread next to its successor, the device alone has 275 000 states and the
  invariants were checked to hold; `EventsStreamProofs` has them for any number.) The bookmarks are the
  last read, the end and a position beyond it. `SeekAnyTime = FALSE` leaves out the one
  schedule that `stream_seek_skips` is about (a seek while the thread is between its
  callbacks and `run_impl`): with it the refinement fails at once, without it all the rest
  of seek's interleavings are checked. `stream_seek_skips` has `SeekAnyTime = TRUE`.
- `camera`: one caller or two, one detached run thread next to another. With two callers
  only the safety properties that a stop from another thread does not break are stated.
  The caller who records has two writers, so that the last of one recording overlaps the
  first of the next, and three buffers, every second one of which (`MaxQueued` 1) goes to the
  writer's thread: a writer is closed with its buffer empty, and with data in it. The camera
  that plays has a file of 3 pieces in buffers of 2, a whole one and a part of one; it is sought
  to the middle of a buffer, and to a place beyond the file, where a seek fails.
- `slicer`: one setting for each slicing condition, and a live camera with slaves that fall
  silent. Their tapes have empty periods, events at the very end of a period, equal times in
  master and slave, a slave that is ahead until it must wait (`2 *` the condition, the bound of
  the code) and one that ends early; queues of one and two slices, and one without a bound;
  none, one and two slaves. The destructor may come at any point.
- `raw_index`: up to 3 events at times 0, 1, 2 or 5 or without a time, periods of 2: an empty
  period, a period with two events, equal times and an empty recording all occur. The
  timestamps sought (`Targets`) are 0 to 9, which reach beyond every recording.
  `CrashAnyTime = FALSE` leaves out the crash that `raw_index_crash` is about.
- `usb`: a ring of 2 and 3 packets: each transfer is queued again, and the ring goes round. There
  is one thread slot, as the owner does not start next to a detached thread; `LibUsbProofs` has any
  number.
- `evt3`: 2 low and 4 high values for the 4096 of each in the code, 3 pixels in a vector for
  32, 4 items. The time starts at 5 of 8 and goes in steps of 1 and of exactly half the range,
  so that one or two loops pass; `Evt3DecoderProofs` has every width and every recording. Buffers of
  3 and 10 bytes cut words and groups, a group into three buffers too, and hold several groups. The
  bookmarks used are those whose time ClockAt gets right; `evt3_reset` uses all.

Deadlock is checked in every run but the two of the decoder, which stops when the recording
has been read, and that of the slicer, where nothing is left to do once it is destroyed. The `usb_requeue`, `stream_seek_skips`, `camera_stop_early`, `raw_index_crash`
and `evt3_reset` runs end with the counterexample that section 6 describes.

## 4. Fairness

Weak fairness of a thread's steps says that the operating system runs it; a step that
waits for a mutex, a condition or a join is not enabled until it may go on.

- `DataTransfer`: every transfer thread, and the owner's steps inside stop(). A producer's
  `run_impl` is only assumed to return once `should_stop()` is true, which is what its
  documentation asks of it. No call is ever assumed to be made.
- `EventsStream`: the transfer thread and the user's steps inside a call. A device need
  neither send nor fail.
  `ConsumerReads`, that the consumer goes on reading, is a hypothesis of `ReadsToTheEnd`
  and of the properties that need it, not of the specification.
- `Camera`: the steps inside start() and stop(), and the run thread. `Recording` adds the calls
  on recordings that have begun, the callbacks of a buffer, and the threads of the writers with
  who waits for them. Nobody has to record, stop or destroy the camera, and the source need
  not deliver.
- `RawReader`: the run thread in read(), and a seek that finds the mutex free. And **strong**
  fairness of `ReadEnter`: seeks that follow each other without a pause, each of which announces
  itself before the reader that the last one woke has run, keep read() waiting, and stop() with
  it, which joins the run thread (TLC finds this under weak fairness). The assumption is about
  who seeks: between two seeks the run thread gets its turn. `SeekPasses`, the other
  direction, needs only weak fairness.
- `SyncedSlicer`: the threads of the cameras, and the application inside a call of the iterator
  or the destructor. An application that iterates goes on until it destroys the slicer, which it
  need not. `IterationEnds` is only about cameras that all stop: a slave that runs on in silence
  holds the master, as the code has it.
- `RawIndex`: the index thread, and the destructor's return. The exception that ends the thread
  (`BuildThrows`) may come in every step of the build and need not.
- `LibUsbTransfer`: the transfer thread; libusb completes, by its timeout, a transfer while
  events are handled; and the owner's steps inside a call, weakly. No failure has to happen: the
  failing steps (`UsbStopFails`, `RunWaitFails`, `RunStopFails`, `UsbError`) are outside fairness.
  In stop_impl the owner waits for a token that `run_impl` clears again when it queues the
  transfer once more, as long as `stop_` is not set, so it may look too late each time: that
  stop() returns is false under what the scheduler guarantees, and the property is
  `StopReturnsUnlessOvertaken`, which names this one way of not returning.
- `Evt3Decoder` and `RawIndex`'s lookups are sequential: only safety is stated.

## 5. What is proved

`DataTransferProofs`, from `ThreadAssumption` only (`NoThread` is not a thread), for any
number of thread slots and both kinds of producers:

| theorem | statement |
|---|---|
| `TypeCorrect` | `DTTypeOK`: the types, and that join and detach only meet a joinable thread |
| `OneThread` | `OneTransferThread`: a recording's producer is never driven by two threads |
| `StoppedIsObserved` | `StoppedObserved`: stopped() is true from the Stopped callbacks until start() has joined |
| `SuspendKeepsThreadOut` | `SuspendKeepsOut`: suspend() of a running thread keeps it out of run_impl |

The argument is one inductive invariant, `IInv`. None of the last three is inductive: that
there is one thread depends on where the owner is in start() (it has joined, so the handle
is empty, `CallThread`); that the handle is enough depends on no other slot being in use
(`OneSlot`); that `stopped()` is right depends on which flags each point of the thread's
loop implies (`PcFlags`); and that a suspend keeps the thread out depends on what it
found when it set `suspend_` (`Kept`): the thread clears `suspend_` by itself on its way in,
so the flag alone says nothing. `InitIInv`, `TypeStep` and one lemma for each other part
show that `IInv` is kept by every step; that the producer never changes (`SameProducer`) lets
the argument be made for the two kinds apart.

`EventsStreamProofs`, from `StreamAssumption` (a pool of at least one buffer, bookmarks that are
positive numbers), for any file, bookmarks, pool and number of transfer threads, detached ones
included:

| theorem | statement |
|---|---|
| `StreamTypeOK` | `TypeOK` of the stream, with that of its transfer |
| `StopLeavesNoData` | `StopEndsData`: once stop() has been called on a device's stream nothing is left to read |
| `NoBufferIsLost` | `PoolConserved`: every buffer of the pool is in exactly one place |
| `StreamImplementsCursor` | `StreamIsCursor`: the refinement of `RecordingCursor`, if `~SeekAnyTime` |
| `SeekReachesIt` | `SeekReachesBookmark`: a seek that succeeds leaves the data of its bookmark to be read next, if `~SeekAnyTime` |
| `TheEndIsTheEnd` | `EndMeansEnd`: -1 means that all of the recording was read, or that the device was stopped or failed, if `~SeekAnyTime` |

`StopEndsData` is not inductive: what makes it hold is that until the next start() `stop_` stays
set (`Silent`), so that the new-buffer callback drops what a thread still sends, and that a
device's stream never takes the steps of a seek or of a recording's `run_impl`, which queue data
whatever `stop_` says (`DeviceSteps`). `PoolConserved` needs the types of the counters and that a
thread that goes for a new slack buffer has none (`PoolInv`): a seek frees the slack buffer under
the same mutex that the thread holds until it has one. The lemmas on `Pooled` (`PooledAppend`,
`PooledTail`, `PooledCloned`) say what the queue's operations do to the number of pool buffers in
it, with the library's theorems on cardinalities.

The refinement rests on `InOrder`: what the consumer will read next, that is the queue, then the
chunk on its way to it, then the file from its position on, is consecutive from `cursor`.
While a seek has moved the file and not yet emptied the queue that is not so; `KeptOut` says
that the transfer thread is kept out of `run_impl` from the suspend to the resume, so that nothing
of the old position is queued once the queue has been emptied, and `UserCalls` that the user is in
one call only. `TheEndIsTheEnd` adds which ways a recording's stream has to set `stop_` (`EndsAtEnd`)
and a device's (`EndsBroken`). The hypothesis `~SeekAnyTime` leaves out the one schedule of section 6,
a seek while the thread is between its callbacks and `run_impl`; without it the statements are
false, as `stream_seek_skips` shows.

`CameraProofs`, from `CameraAssumption` (`None` is no user and no thread, settings are of their
type), `RecordingAssumption` and `ReaderAssumption` (a file of any length, buffers of at least one
piece, seeks to any place from the first piece on), for any number of callers and run threads:

| theorem | statement |
|---|---|
| `CameraTypeOK` | `TypeOK`: the types, and that join and detach only meet a joinable thread |
| `RunningAlwaysTold` | `RunningIsTold`: is_running() is false from the return of stop() to the next start() and once a played file has ended, and true as long as nobody stops, nothing fails and the source gives data |
| `StoppedIsOff` | `StoppedMeansOffAlone`: a camera stopped by its only caller leaves a source that is off |
| `ReaderImplementsCursor` | `PlayerIsCursor`: what is decoded of a file is a behaviour of `RecordingCursor` |

All four are about `ReadSpec`, the whole of camera, recordings and reader. The parts of the
invariant are `Locking` (the mutex is held in exactly the steps that are under it, and while it
is held there is a thread to join or detach, though start() and stop() look only once),
`StatusOfThread` (what STARTED, RUNNING and STOPPED say of the run thread that is owned),
`RunningIsTrue` (who may still set `is_running_`), `OnlineRuns` (why a run thread that does not fail
leaves its loop) and, for a single caller, `StartsFirst`: its
stop() comes after its start_impl. The reader's part, `ReaderInv`, says that the pieces not yet
decoded are the last that the stream gave, up to its position.

`RecordingProofs`, from the same assumptions; `RecordingAssumption` says that a recorded setting has
one caller, that its source stops without an error and is not a file that is played, and that the
bounds on buffers are numbers:

| theorem | statement |
|---|---|
| `ClosedIsComplete` | `RecordingIsComplete`: a closed recording has every buffer delivered while it was registered, once and in order |

The property says something only of a writer that is closed. The invariant (`Accounted`) says for
every writer at any time that `owed` is what its file has, then its tasks, then its buffer, and
then the buffer whose callback is still to be called. That nobody adds to a writer that is being
destroyed follows from who holds it (`Callers`, `Holders`): a writer whose callback is
registered, or copied by the run thread, is open. That its thread leaves nothing behind is
`Workers`: it is over only when there are no tasks, and no more can come.

`LibUsbProofs`, from `UsbAssumption` (at least one transfer):

| theorem | statement |
|---|---|
| `UsbTypeOK` | `TypeOK`: completion_ means what its comment says, and no transfer is with libusb twice |
| `ErrorQueueEmpty` | `ErrorLeavesNone`: a run that ends with an error leaves no transfer to libusb, unless cancelling has failed as well |
| `RingIsContinuous` | `DataContinuous`: packets are given on in the order they were sent |

The order of the packets follows from the order of the ring (`Ring`): walked from the transfer
that run_impl waits for, those that have completed with data come before those that libusb still
has, their packets increase and are newer than the last one given, and libusb has the others in
this order. After an error run_impl walks the ring again; `Emptied` says that those it has passed
are no longer with libusb, unless one of them could not be cancelled, although the owner in
stop_impl walks the same ring at the same time. `OneRunner` says that a detached thread is the only
one, `NoThreadLeft` that there is none when start_impl fills the ring.
`Submitting` is the order that start_impl makes, transfer by transfer.

`RawIndexProofs`, from `IndexAssumption` (a positive period), for recordings of any length with any
times:

| theorem | statement |
|---|---|
| `IndexTypeOK` | `TypeOK`: bookmarks lie in the recording |
| `IndexAlwaysRight` | `IndexIsRight`: an index in use is that of the recording, if `~CrashAnyTime` |
| `SeekAlwaysLandsBefore` | `SeekLandsBefore`: in a recording that has a timestamp, a seek that finds a bookmark stays in the vector and lands on an event at or before its target and the events from it on, with no period with events skipped before the target's, if `~CrashAnyTime` |
| `RangeAlwaysReachable` | `RangeIsReachable`: the range of a recording that has a timestamp goes from its first event to the first one of its last period, and every timestamp of it and of an event behind it can be sought, if `~CrashAnyTime` |

The index of a recording is defined by minima over its events; that these exist is proved from
the well-foundedness of the strict subsets of a finite set, where the library's induction over
numbers could not be used. `Building` says that the bookmarks made so far are right for the
events decoded so far, `DiskRight` that a file with the magic number is that of the recording, or
has a size that tells it from the recording, which has grown. An aborted build is the exception:
from its return to the removal of the file this has the magic number without having all
bookmarks, and `~CrashAnyTime` says that once the destructor has asked for the abort the process
does not crash, nor the removal fail. `raw_index_crash` refutes `IndexIsRight` without it.

`SlicerProofs`, from `SlicerAssumption` (conditions, bounds and tapes of their types, no more than
`MaxSlaves` slaves), for any number of slaves and any tapes:

| theorem | statement |
|---|---|
| `FlushFindsThemGone` | `FlushAfterStop`: what is left of a slave is taken without its mutex only when the slave is stopped and its thread gone |
| `SlicerTypeOK` | `TypeOK`: the types, the bound of the slice queue, and that of a slave's buffer |

Two threads, the application's in the destructor and the master's at the end of its recording,
stop the slaves one after the other, perhaps at the same time. `LoopInv` says how far each is
(every slave before `at[th]` is offline with its thread gone), `AppInv` and `MasterInv` what each
may rely on when it has come to the flush, `ThreadsEnd` that a thread that is not joinable has
ended. For the bound of a slave's buffer, `QueueBound` uses that the slave's thread waits before
it adds, so that what is there when it adds is less than two slices; the events that the master
takes are no more than there are (`Preceding`, a cardinality).

`Evt3DecoderProofs`, from `ClockAssumption` (the widths of the two parts of the time are positive,
that of the high one is even) and `DecoderAssumption` (numbers where numbers are meant, and a
sensor whose time goes by at most half its range from one time word to the next, beyond which a loop
and a jump back look the same), for any recording, any cut into buffers and any seeks:

| theorem | statement |
|---|---|
| `TimeHighTracks` | if at most half the range has passed since the last EVT_TIME_HIGH, the next one leaves the clock at exactly the sensor's count of high parts |
| `ResetIsOff` | after reset_last_timestamp(t) the time is t plus the period as often as t \div (Period - 1) exceeds t \div Period |
| `DecoderFollows` | `DecoderInv`, the inductive invariant |
| `DecoderTypeOK` | `TypeOK`: the types, and that the words kept of a group and those it lacks add up to the group |
| `AlarmsAreGapsHolds` | `AlarmsAreGaps`: the default validator is right about every violation it reports |
| `NeverAheadHolds` | `NeverAhead`: the decoder's time is not ahead of the sensor's, if readers seek to times that reset_last_timestamp gets right (`Exact`) |

The first two come down to `NearMultiples` (two multiples of n that are less than 2n apart are
equal or neighbours) and `Division`. None of the three properties is inductive. `DecoderInv` has two
parts. `Tape` says what a sensor sends: the time goes on, its high part only at an EVT_TIME_HIGH
(`TapeTimes`), groups are complete and their words can be told apart (`TapeGroups`), and a vector
begins where the one before has ended or at a base of its own (`TapeColumns`, over the column after
each word). `Fed` says what a decoder that has been given the words up to `pos` has: its clock is
that of the last word it has decoded (`Tracks`), or is one high part less before the first
(`Poised`); its column is that of the recording once a row is known; what it decodes next begins
an event (`Aligned`); and the words it keeps are those of the recording from there on (`Keeps`).
One lemma for each kind of event shows that decoding it keeps this (`DecodesEvent`), `DecodesBuffer`
that decode_events_buffer does, `DecodesWords` and `DecodesImpl` that decode_impl does.
`decode_events_buffer` loops over a buffer of any length. Its loop is a recursive function of the number
of iterations, and `BufferDecoded` shows that what every iteration keeps holds at its end: the
iterations after which it does not hold would have a least one, which `HasMin` finds as the
library's induction cannot be used. `Exact` is needed: `evt3_reset` shows a seek after which the time
is one loop ahead, and `ResetIsOff` says by how much. `AlarmsAreGaps` does not need it, as the
validator compares high parts and not loops.

Every safety property that the passing runs check is thus proved, except for these, which are
only model-checked:

- `SlicesAreCut`, the refinement of `SliceStream`: what is left of a tape is there a concatenation over
  a sequence, and what a slice takes a selection from one; both are recursive, and what they
  compute needs an induction over data.
- `DecodedAsSent` of `Evt3Decoder`, which equates the events of a call with a concatenation over
  the words it was given. What the events are made of, the time, the row and the column, is proved.
- All liveness: `StopReturns`, `StopReturnsUnlessOvertaken`, `StartReturns`, `CallsReturn`, `SeekPasses`, `ConsumerWoken`,
  `ReadsToTheEnd`, `IndexingEnds`, `RecordingsClose`, `IterationEnds`, `DestructorReturns`. It depends on
  fairness and on what is enabled, which is out of the prover's reach.

## 6. Where the code and its documentation disagree

- **A seek can skip data** (`stream_seek_skips`, `i_events_stream.cpp:711`). A suspend() that
  comes while the transfer thread is on its way into `run_impl` is undone by the thread's own
  `suspend_ = false`; the thread then reads at the bookmark while the seek goes on, and the
  seek drops what it has read. `i_events_stream.h:144` promises that the next data is that of
  the bookmark.
- **A stop() can come too early** (`camera_stop_early`, `camera.cpp:135`). A stop() from another
  thread between RUNNING and start_impl stops the source before it is started; it returns
  true and the source stays on. `camera.h:366` says that stop() stops the ongoing streaming.
- **An index of a part is taken for complete** (`raw_index_crash`, `i_events_stream.cpp:269`). An
  aborted build writes the magic number before it removes the file; a crash in between leaves
  an index that the next opening trusts.
- **A cancelled transfer is queued again** (`usb_requeue`, `psee_libusb_data_transfer.cpp:228`). If
  the transfer has completed just before it is cancelled, `run_impl` may queue it again after
  stop_impl has passed it: it is with libusb when stop() returns, and the next start fails.
  The comment at line 245 relies on the contrary.
- **The decoder is reset to the wrong loop** (`evt3_reset`, `evt3_decoder.h:339`). Loops are
  counted with 0xFFFFFF in place of 0x1000000 for divisor: a seek to one of the last k
  microseconds of the k-th loop of 16.8 s puts all that follows one loop late.
  `evt3_decoder.h:314` says that get_last_timestamp returns the timestamp.

Disagreements without a run of their own. A property of a passing run states what the code does in
place of what is written, and its comment says so:

- `is_running()` of a camera whose run thread has failed is false without a stop()
  (`camera.cpp:434`). `camera.h:360`: "If the source is online, it always returns true unless the
  stop function has been called". `RunningIsTold` says nothing of an online camera that failed.
- A seek does not reach "the closest bookmark (lower timestamp)" of `i_events_stream.h:147`. The
  bookmark of a period is the first event of the last period *before* it (`i_events_stream.cpp:243`):
  with events at 0, 2 and 5 and a period of 2, seek(3) reaches 0, though 2 has a bookmark. Nothing
  is lost, the reader decodes more. `SeekLandsBefore` says what is left: no period with events is
  skipped between.
- get_seek_range() does not end with "the timestamp of the last valid data in the file"
  (`i_events_stream.h:156`), but with the first event of the last period (`i_events_stream.cpp:774`),
  up to a period earlier. `RangeIsReachable` says which one it is.
- After an exception of the decoder the status of the index stays Building for ever
  (`i_events_stream.cpp:824`), where `i_events_stream.h:131` has Bad for an index that failed to be
  built. `IndexingEnds` leaves this way out (`Threw`).
- seek(0) on a recording without any timestamp steps over all bookmarks and reads past the end of
  the vector (`i_events_stream.cpp:694`): `Lookup` answers `Beyond`. `SeekLandsBefore` and
  `RangeIsReachable` are about recordings that have a timestamp.
- stop() of a USB transfer may be overtaken for ever: `run_impl` sees the completion that the owner
  waits for and queues the transfer again before the owner has looked, each time, as `stop_` is only
  set after stop_impl (`data_transfer.cpp:111`). The comment at
  `psee_libusb_data_transfer.cpp:245` excludes it. TLC finds it for "stop() returns".

Other behaviour that the modelling met; except for the first, no document contradicts it:

- A camera that plays a RAW file may start its reader again after stop() has stopped it: a run
  thread that has tested `is_running_` before the stop() calls read() after it, and read()
  starts a reader that it finds stopped (`raw_event_file_reader.cpp:117`). stop() then returns
  with the stream on. This too is against `camera.h:366`; `StoppedMeansOffAlone` leaves out the
  cameras that play, and without that condition TLC finds it for a single caller.
- Of two concurrent seeks of a reader the first that is done clears the announcement of the
  other, which then has to compete with the run thread for the mutex; and a seek_impl that throws,
  in a user's seek callback for instance, leaves `seeking_` set, so that every later read() waits
  for ever.
- get_duration() of a RAW reader plays the file in a second camera, until that can seek to the end,
  while it holds the mutex of the first: read() and seek() wait until it is done.
- A start() of a device's stream without a stop() before it, after the device has failed, may
  be closed again at once: start() clears the stream's `stop_` before it joins the old transfer
  thread, whose Stopped callback then sets it (`i_events_stream.cpp:572`).
- The loss of a connection is kept for the life of the stream: a later start() that works
  reads on, but once it is stopped wait_next_buffer() throws the old error again.
- The writer of a stopped recording stays open, with data in its buffer, as long as the run
  thread has its copy of the callback: until it looks for callbacks again, or the camera is
  destroyed. A new recording on the same path opens the file meanwhile.
- stop_recording() returns true for a path whose recording has been stopped before, as nothing
  is erased from `recording_cb_ids_`.
- A writer that its user closes while another thread feeds it may keep data in its buffer, and
  its destructor then waits for ever for a thread that is gone (`event_file_writer.cpp:47`).
- A slave that runs without producing events holds the master, and the iteration, for ever.
- The time callback of the master does not take `Master::mtx_`: while the destructor flushes the
  slicer the master's thread may be in the same slicer. The queue is closed by then.
- begin() of a slicer that was begun before registers the callbacks a second time.

## 7. What is not modelled

`PROJECT.json` lists every part with its status. In the modelled parts: in `EventsStream` the
RAW log and the destructor, and how a device comes to send or fail; in `LibUsbTransfer` a
start() next to a thread that a failed stop() has detached, the bounded pool and the destructor; in `Camera` serialization and the
pacing of the offline cameras; in `RawReader` the seek range, the duration and the other queries, the
reader's callbacks, seeks that throw and concurrent seeks, and the HDF5 and DAT readers, which have
no stream behind them; in `Recording` the HDF5 and EVT2 writers, metadata, and writers
that are used without a camera; in `SyncedSlicer` the external triggers, which travel with the
master's events, moves, and the queue's non-blocking calls; in `RawIndex` several processes on
one recording, and the event counts that nothing reads; in `Evt3Decoder` the null and grammar
validators, the buffering of the forwarders, time callbacks, reset_last_timestamp(-1), and
monitoring events without a payload (which a buffer's end can make the decoder drop words
for: a hazard in `PROJECT.json`).

Not modelled at all: the V4L2 producer, whose effect on the stream is that of any device and
whose own buffers belong to the driver; the other
decoders, which are EVT3's structure with fewer cases. Registers, sensors and boards, by far the
largest part of the repository in lines (tables of registers), have their effect in hardware;
discovery, headers, configuration and serialization are I/O and conversions; image generation,
UI, ML and bindings are computations without the behaviours studied here.

Memory is modelled as sequentially consistent: the flags are atomics or under mutexes in
the code, except where a module's comment says otherwise.

## 8. Plan

What is left, in this order:

1. **V4L2 transfers**: buffers are conserved between driver, pool and consumers, a STREAMOFF by
   the owner against a QBUF by the transfer thread.
2. **Decoder**: monitoring events without payload, the grammar validator, reset to -1.
3. **Readers**: seeks that throw, concurrent seeks, and the reader over `EventsStream` itself in place
   of the cursor that it implements.

Theorems to prove next: `DecodedAsSent`, over the same invariant, with the events of a part of the
recording stated so that those of two neighbouring parts add up; and `SlicesAreCut`, with a notion of
what is left of a tape that needs no concatenation. The argument by a least counterexample, which
serves for the loop of the decoder, serves for both.
