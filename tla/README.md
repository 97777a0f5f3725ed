# retarget: specifications, model checking and proofs

This directory holds TLA+ specifications of the `retarget_dev` repository: the
Vicon recording pipeline (`rosws/`), the patched bag exporter
(`vendor/ros2_unbag`, `processors/`, `scripts/unbag.sh`) and the Python package
that consumes its output (`src/retarget`). TLC checks them on small instances;
TLAPS proves the main results for every value of the constants.

Source references are relative to the repository; `exporter.py` is
`vendor/ros2_unbag/ros2_unbag/core/exporter.py`, and the DataStream SDK's files
(`CGClient.cpp`, `CoreClient.cpp`, ...) are under
`rosws/src/ros2-vicon-bridge/vicon_sdk/DataStream`.

## 1. The system

    Vicon server --packets, one route or several--> stream client threads
        --frame queue--> client --getters--> bridge node
                            \--> retiming client --getters--> retiming bridge
    bridge nodes --/tf, /vicon/markers--> ros2 bag
        --> unbag: reader -> resampler -> task queues -> workers -> JSON files
        --> retarget: loader -> tracks -> sync -> pose repair -> contacts -> supports

| component | state it keeps | operations | what is hard |
|---|---|---|---|
| Stream client (`ViconCGStreamClient.cpp`, `CGClient.cpp`) | per route: a socket, what is to be written, the objects decoded last; shared: last frame numbers, last static objects, frame queue | write changes, read a packet, hand over, request, wait, close and join | threads of several routes that bring the same frames; static objects that are only sent when they change; joining a thread at any point |
| Stream format (`ViconCGStream/*.h`, `StreamCommon/Buffer*.h`) | none | write and read scoped objects | objects elided, unknown, or of an older or newer version |
| Client (`CoreClient.cpp`) | latest frame, groups of data, filter, axis mapping | enable, filter, fetch, some hundred getters | groups that share request types; state that survives a reconnection; poses computed by the client; sample rates that do not divide |
| Retiming client (`RetimingClient.cpp`, `RetimingCore.cpp`) | two poses per subject, predicted poses, two threads | add data, predict, start, stop, wait, getters | uneven receipt, occlusion, half-read poses, stopping threads |
| Vicon bridge (`vicon_bridge.cpp`) | connection, last frame number, drop counters, map of segment publishers | grab loop, reconnect, per-segment creation threads, publish | threads that create publishers while the loop looks them up; frame numbers that go backwards |
| Retiming bridge (`vicon_bridge_retiming.cpp`) | drop counter, client | two timer callbacks | predictions read call by call while frames come in; an unsigned counter with unequal increments and decrements |
| Bag reader (`bag_reader.py`) | queue of flattened transforms | read next | an empty `TFMessage` looks like the end of the bag |
| Resampler (`exporter.py` 388-566) | per-topic buffers or latest messages, newest stamp | read, decide, evict, flush | bounded look-ahead, boundary comparisons, late messages |
| Exporter (`exporter.py` 168-302, 666-800) | task queues, worker processes, exception and progress queues, monitor thread | enqueue, close queues, export, poll, terminate, join, abort | processes, bounded queues, sentinels, failures at any point |
| Routines (`routines/default.py`) | files, per-process set of begun paths | append a record | a kill between truncate and write; colliding keys |
| Processors (`processors/*.py`) | per-process marker history and statistics file | filter, convert | state that lives in one worker |
| Loader (`io/unbagged.py`) | none | read poses and marker frames, group by segment | positional pairing of two files |
| Tracks, demo (`demo/`) | parallel arrays and views on them | slice, rebase, resample | index ranges |
| Sync and alignment (`demo/sync.py`, `alignment.py`) | graph of pairwise alignments | compose along a path, invert | composition order, overlap |
| Contacts, supports (`contacts/`, `core/support_resolve.py`) | boolean masks and scores per patch and support | threshold with hysteresis, clean, resolve, merge | run-length cleaning, ties, NaN |

Interactions: the exporter's producer, workers and monitor talk only through
`mp.Queue`s and process exit; the exporter and `retarget` only through JSON
files; the bridge and everything else only through bag topics. Inside the SDK the
threads of the routes call back into the `VCGClient` under `m_ClientMutex`, the
caller writes to the routes under their `m_Mutex`, and takes frames from the
queue; the retiming client's input thread is such a caller.

Properties that make each component correct are listed with its module below,
and for the parts not modelled in section 7.

## 2. Modules

| module | what it is |
|---|---|
| `ExportJob` | abstract contract of one call of `Exporter.run` |
| `ExportPipeline` | the processes, queues and threads behind it |
| `ExportPipelineInv` | its inductive invariant |
| `ExportPipelineProofs` | proofs: invariance, file ownership and order, completeness, refinement |
| `MCExportPipeline` | TLC instance |
| `NearestResampler` | the streaming nearest-neighbour resampler |
| `NearestResamplerInv`, `NearestResamplerProofs` | its inductive invariant, proofs |
| `SingleFileOutput` | one SINGLE_FILE output through several runs, failures and terminations |
| `SingleFileOutputProofs` | its proofs; the inductive invariant is in the module |
| `MCExportWriters` | TLC instance: the resampler, or the single file |
| `CGStreamTypes`, `CGStreamBuffer` | the stream's objects, their encoding and decoding |
| `CGStreamObjects` | decoded objects, and how a packet is completed from the one before |
| `FrameMeant` | the frame fetched and the one it was meant to be |
| `FrameExchange`, `FrameExchangeProofs` | what a connection makes of its packets, without their encoding; its proofs |
| `ClientGeometry`, `ClientFrame`, `ClientSubjects`, `ClientDevices`, `ClientCameras` | the client's getters |
| `ClientSegments` | the segments the client computes itself |
| `ClientAnswers`, `ClientAnswersProofs` | how the getters' answers about one frame fit together, and what of the frame that rests on; proofs |
| `DataStreamSession` | a session of one caller with the client and a server |
| `DataStreamProperties`, `MCDataStreamSession` | its properties, TLC instance |
| `CGStreamRoutes` | threads, routes and frame queue of the stream client |
| `CGStreamRoutesInv`, `CGStreamRoutesProofs`, `MCCGStreamRoutes` | its properties and inductive invariant, proofs, TLC instance |
| `RetimingCore`, `RetimingClient`, `RetimingGetters` | the retiming client: prediction, threads and calls, answers |
| `RetimingInv`, `RetimingProofs`, `MCRetimingClient` | its inductive invariant, proofs, TLC instance: an application |
| `ViconBridge`, `ViconBridgeRetiming` | the two nodes |
| `ViconBridgesProofs`, `MCViconBridges` | their proofs; TLC instance: each of the nodes, or an application of the retiming client |

### 2.1 ExportPipeline

One action per step that another process can observe.

| code | specification |
|---|---|
| the messages the producer will enqueue, after filtering and resampling | `plan`, chosen by `Init`; a task is a position in it |
| `_enqueue_export_task` (666-732) | `EnqueueTask`, or `OverwriteRaises` for the MULTI_FILE check |
| any other exception in the producer (336-338) | `ProducerFails` |
| `_signal_worker_termination` (568-584) | `SignalPool`, `SignalFallback(t)`, `SignalTopic`, one `put` each |
| `mp.Queue(maxsize)` | `queue[q]`, `Put` blocks while full, `Get` while empty |
| `_worker` (735-774) | `TakeTask`, `FallBack`, `TakeSentinel`, `Export`, `ExportRaises`, `WorkerExits` |
| the loop of `run` (236-254) | `PollEmpty`, `PollException`, `CheckAlive`: the two tests are separate steps |
| `terminate`, `join`, `raise` | `KillProducer`, `KillWorker`, `JoinKilled` |
| `_monitor` | `CountToken` |
| `abort_export` | `AbortExport`, from any thread, at any time, once |

Abstractions. Messages carry a topic and a file name only. A process that posts
to the exception queue is taken to be seen at once; the feeder thread may delay
that, but flushes before the process exits, so a delay is the same as posting
later. `terminate()` reaches each process at its own moment and may hit it
between any two of its steps; a kill inside an export handler is a kill before
the export (what it leaves on disk is the subject of `SingleFileOutput`).
The terminal also sends ^C to the child processes: that is `KillWorker` after
`KeyboardInterrupt`. A second ^C, and ^C after the loop, are left out.
The index map, directories and the summaries printed at the end change no state
that another component reads. `PipelineAssumption` states what `__init__`
validates, and that no two SINGLE_FILE topics share a path, which it does not
validate (see the hazards).

Properties.

- `FileOwner`: no file is worked on by two workers; a SINGLE_FILE topic is only
  processed by its dedicated worker, also after sequential workers have joined
  the pool.
- `FileOrder`: every file is a gapless prefix of its records in bag order.
- `NormalReturnIsComplete`: if `run` returns with no exception queued, all was
  exported: sentinels never overtake or outnumber tasks.
- `MonitorCountsAll`: the progress callback has seen every export.
- `NoWriteAfterRun` (action property): nothing is written once `run` has ended.
- `Termination` (liveness): `run` ends, with queues of any capacity.
- `ImplementsJob`: `ExportPipeline` implements `ExportJob!Spec` under
  `written`, `fault` = an exception is queued or was taken, `outcome` = how
  `run` ended.
- `FailureIsRaised` (violated): see section 6.

### 2.2 NearestResampler

A message is its stamp. `pc` follows the loops of the code: `read` one message,
`drain` the frames it makes decidable, `evict` stale messages, `flush` at the
end of the bag. `seen` and `handled` are history variables. `Skew` bounds how far
behind the newest stamp a message may be read: bags are in log order, stamps
come from message headers; `Skew = 0` is a bag in stamp order.

- `NoMasterLost`, for any `Skew`: each master message is decided exactly once,
  in reading order, although eviction also trims the master's buffer.
- `PicksNearest`, `DropsJustified`, for `Skew = 0`: decisions made from a
  bounded buffer with a bounded look-ahead are those the whole bag would give
  (for discards up to a message exactly eps away).
- `BoundedWindow`, for `Skew = 0`: buffers reach back at most two eps.
- `NoPrematureDrop` (violated): see section 6.

### 2.3 SingleFileOutput

One level below `ExportPipeline`'s `Export`: what an export call does to the
file, split where another process can stop it. The dedicated worker of the topic
is the only writer (`FileOwner` of `ExportPipeline`), so there is one `worker`.

| code | specification |
|---|---|
| `run` forks producer and workers (212-227) | `StartRun`: process memory (`started`, the producer's `tracked`) starts as a copy |
| `_enqueue_export_task` (720-732) | `Enqueue`, which registers the path in the producer's memory only |
| `open("w")`, `open("r+")` with seek and truncate, `open("a+")` with truncate at index 0 | `Open`, with `Fresh`, `Emptied` and `Reopened` |
| `write` and the close of the `with` block | `Close` |
| an exception in the call | `Fail`; the block closes the file, which may flush any part (`Leftovers`) |
| `terminate()` | `Abort`, with the same leftovers |
| `_finalize_json_single_files` (273-288) | `Finalized`, in `Return` |

A file is its whole records and how it ends; a record is a run and a number, so
that a file that mixed runs could be told. Contents and keys are left out.
`Reopened` also says what happens to a file that is not closed; the invariant
shows that a worker never reopens one. `Return` after a failure is the case of
`FailureIsRaised`.

- `WholeBetweenCalls`: between two calls the file is closed and holds this run's
  records, all and no others, whatever earlier runs left.
- `OneRun`: no history of runs, failures and terminations mixes two runs.
- `RecordsKept`: a stop inside a call keeps all records of completed calls.
- `ReturnedComplete`: without failed calls, all of the topic is in the file.
- `InterruptedLoadable`, `FinalizeSeesOutputs` (violated): see section 6.

### 2.4 DataStreamSession

One caller, one connection, calls that run to their end. The server is an
assumption: it has a scene for every frame number, knows some set of object
types, and sends what it was told to, leaving out types that have not changed.

| code | specification |
|---|---|
| `Read` and `Write` of the `ViconCGStream` classes | `Layout` of `CGStreamTypes`; `Write` and `Read` of `CGStreamBuffer` interpret it |
| `VScopedWriter`, `VScopedReader` | `Block`, and the reading that ends where the block does |
| `VViconCGStreamClient::ReadObjects`, `CopyObjects` | `ReadObjects`, `CopyObjects`, `Received` |
| `WriteObjects`, request types, filter, haptic devices | `WriteObjects`; `asked` is what is pending, `server` what was written |
| `VClient::Enable...`, `Disable...` | `Configure`, with `SetGroup` and the two segment groups |
| `AddToSubjectFilter`, `ClearSubjectFilter`, `SetCameraFilter` | actions of these names |
| `SetAxisMapping`, `SetApexDeviceFeedback`, multicast | actions of these names |
| `GetFrame`, `CalculateGlobalsFromLocals` | `GetFrame`, `Dispatch`; `Drop` for a packet that cannot be read |
| `Connect`, `Disconnect` | actions; `Connect` brings a new `VCGClient`, the client's own flags stay |
| getters | operators of the `Client*` modules, each with its result codes |

Data are small integers. A value takes one cell of a buffer whatever its width. A
rotation is an integer matrix; quaternions and helical axes are kept undivided
by their length, so that the conversions are exact and the branches of
`ClientUtils.cpp` are those of the code. A member that a class leaves
uninitialised is modelled as such.

`FrameExchange` is the abstract specification: a packet is a function from types
to objects, any of which may be left out or garbled as `MayCome` says, and a
frame is completed from what the connection decoded last. It has no calls,
buffers, filters, versions or bounds.

- `ImplementsExchange`: the session implements `FrameExchange` under the client's
  connection and cached frame. In particular what is encoded into a buffer by a
  server of any version is decoded as the same objects, unknown and newer ones
  among them, and a packet that cannot be read is the end of the connection.
- `FrameAsSent`: the frame is the one the server meant, type by type, in spite of
  elided types and objects of other versions. An older object garbles its own
  type only, until that type is sent again (`garbled`); static objects that the
  server has no more of stay if no static object came with the packet that
  ceased to mention them (`lapsed`).
- `FrameSound`: every frame the client answers from, sent or computed, lists each
  subject and segment once, gives names to what has names, attaches markers to
  segments that exist, tells one rigid picture (`Posed`) and holds whole force
  plate samples (`Sampled`); and the axes are a mapping that was accepted. It is
  what `EnumerationsAgree`, `NamesResolve`, `RotationsDescribed` and `PosesCompose`
  rest on (section 5).
- `EnumerationsAgree`, `NamesResolve`: counts, indices and names of all getters
  fit together on every frame, in every configuration, after reconnections.
- `LinksResolve`: children lead back to their parents, and the outputs enumerated
  of a device to its samples.
- `RotationsDescribed`: matrix, quaternion, helical and Euler answers are one
  rotation, also of half turns and in singular positions.
- `PosesCompose`: global poses are parents' poses followed by local ones, in
  any axes.
- `LightweightAsFull` (action property): what the client computes from
  lightweight segments is what full segments would have said, up to the first
  subject without a root; behind it nothing is computed, as in the code.
- `SamplesContinue` (action property): device samples of consecutive frames
  neither overlap nor leave a gap.

### 2.5 CGStreamRoutes

One level below `GetFrame` of `DataStreamSession`: how a frame gets into the
queue. A frame is its number and the version of its static objects.

| code | specification |
|---|---|
| `ClientThread` (one per route) | `pc[r]`: `ThreadConnects`, `ThreadRefused`, `WriteObjects`, `Read...` |
| `m_pCallback.lock()` (`ViconCGStreamClient.cpp` 1568-1602) | `CallBack`; `CalledBack`: the callbacks are there, and what they use |
| `OnStaticObjects`, `OnDynamicObjects` (`CGClient.cpp` 525-580) | `ReadStaticObjects`, `HandDynamicObjects`, `ReadDynamicObjects`; `IsNew`, `Trim` |
| `OnDisconnect` | in `ReadFails` and the failing `WriteObjects` |
| `Connect` with its timeout | `ConnectReturns`, `ConnectTimesOut` |
| `SetStreamMode`, `SetBufferSize`, `SetFilter` | actions of these names |
| `GetFrame`: request, wait a second, dispatch | `GetFrame`, `Dispatch`, `WaitTimesOut` |
| `~VCGClient`: its members in the reverse of their order (`CGClient.h` 103-119) | `Destroy` (condition, frames, static objects, mutex), `DestroyCallbacks`, then the routes |
| `VViconCGStreamClient::Disconnect` | `CloseRoute`, `Joined` |
| server and network (assumed) | `Capture`, `AnswerRequest`, `Break` |

A step is what runs under one hold of a mutex. `m_LastFrameIDs` and the queue are
shared; everything else of a route is its thread's. Frame numbers only grow: a
restarted server is not modelled here.

While the client is destroyed there is a time when the mutex, the frames and the
condition are gone but a thread can still lock the callbacks. A call back that
falls into it is undefined behaviour: `call` becomes `undefined`, the threads and
the server stop, and the properties say nothing of what follows. A thread
connects whatever became of its socket (`ViconCGStreamClient.cpp` 754), and a
socket that `Disconnect` closed before is opened again; `again` of a connection
remembers it.

- `AcceptedInOrder`, `NewestQueued`: comparing a frame with the last of the
  other routes only is enough for frames to come in order, each once, and for
  the queue to end with the newest.
- `OwnStatics`: a frame paired with static objects of its own route is paired
  with those it was captured with.
- `FilterWritten` (liveness): a changed filter, which is not a reason to write,
  is not pending for ever as long as frames are taken.
- `DisconnectEnds` (liveness): the threads can be joined from any of their steps,
  whatever they read, wait for or hand over, with one exception: a thread that
  had yet to connect when its socket was closed reads from a socket that nobody
  closes any more, and `join` may wait for ever. The property says that nothing
  but such a socket keeps a client that is let go of from ending.

### 2.6 RetimingClient

| code | specification |
|---|---|
| `VRetimingCore`: `AddData`, `Predict`, `UpdateFrameAtTime`, `GetSubject` (`RetimingCore.cpp`) | `RetimingCore`: `AddData`, `Predict`, `OutputPoses`, `GetSubject` |
| `InputThread` (`RetimingClient.cpp` 806-) | `InputTop`, `InputGet`, `InputStamp`, `InputRead` |
| `OutputThread` | `OutputFrame`, `OutputEnds` |
| `Connect`, `StartOutput`, `StopOutput`, `Disconnect` | `Connect`, `TellOutput`, `JoinOutput`, `JoinInput`, `RunIn`, `StartOutputThread` |
| `UpdateFrame`, `WaitForFrame` | the actions and their returns |
| getters | `RetimingGetters`: names from the poses received, coordinates from those predicted |

Subjects move and turn steadily, about one axis, so that a prediction has a right
answer; a position is a number and a rotation an angle. A predicted value is
kept undivided: `over` is t2 - t1. Assumed: the clock advances between two
frames that show something (otherwise the code divides by zero), the segments
of a subject do not change while streaming, samples are less than half a turn
apart (`SamplesClose`), and an application uses one thread and disconnects
before it connects anew.

The input thread reads a frame by many calls of the client below, and nothing
else takes frames from that client, except the run-in of `StartOutput`
(`RetimingClient.cpp` 145). So `InputRead` is one step, and the history variable
`mixed` remembers whether a run-in replaced the frame while it was being read;
what is read then is of two frames. The step reads all of it from the later
frame, under the number of the earlier one.

Where the connection is lost in the middle of a frame the code reads on: the
counts it has stay, and every getter that is called from then on fails and
leaves an empty name or a zero. `InputRead` adds what comes of that. Of one
subject it may be the root, the count of segments or the name of the next one
that was the last to be read (`CutPoses`); its remaining segments are all kept
under the empty name, as one segment of zeros, and the subjects behind it under
the empty name, too, with no segments, one pose of the same receipt after the
other (`Nameless`, `AddRead`). `data` has an entry for that name.

- `ClientInv`: the inductive invariant. Samples are kept in the order of their
  receipt, at most two of a subject; those without a name may have one receipt.
  Unless `mixed`, the segments of a pose are the first of the subject's, and the
  empty name for the others, and where there are any the root is the subject's;
  each that was read whole is as its frame has it, so that every prediction
  between or after two of them is on the motion. Nothing is claimed of what is
  without a name, but that it is zero.
- `AnswersAgree`: what the getters answer between two calls fits together,
  although names come from received and coordinates from predicted poses, and a
  lost connection leaves poses read in part and names that are empty: each
  subject counted is described, the root is among the segments that have a name
  if there are any, parents are, too; unless `mixed`, what was read whole is
  true.
- `FromOneFrame` (violated): a pose that was read is of the frame whose number it
  has. See section 6.
- `CallsReturn` (liveness): every call returns, except while the server is
  connected and silent: then the input thread does not look at `m_bInputStopped`
  and `Disconnect` waits for it.

### 2.7 The bridge nodes

| code | specification |
|---|---|
| `vicon_bridge.cpp` `GetFrame`, the frame differences | `TakeFrame`, `SkipFrame`, `CountFrame`, `EndFrame` |
| `process_specific_segment`, `process_all_segments`, `create_segment` | `ProcessSegment`, `StartCreator`, `PublishToSegment` |
| `create_segment_thread` | `Lock`, `InsertAndUnlock`, `CreatePub`, `CreatePubPose`, `SetReady`, `SetLate` |
| `publish_markers`, `init_vicon` | `publish_markers` of `ClientSubjects`, `BridgeConfiguration` of `DataStreamSession` |
| `vicon_bridge_retiming.cpp` timer callbacks | `TimerCallback`, `UpdateThenAsk`, `CountSubjects`, `ListSegments`, `PublishSegment`, `EndCallback` |

`is_ready` and the publishers of a segment are read and written with no lock in
common. That is a data race: the model takes either order of the last two writes
and lets a publisher that is used while it is written end the process. The
retiming node's callback is next to the client's input thread; its
`drop_count_` is `retiming_drop_count_`, since the module is composed with
`ViconBridge`. Creation threads are detached: nothing waits for them.

- `FramesCounted`: frame and drop counts stay in step with the frame numbers,
  through repeated, missed and restarted ones.
- `SegmentsReady` (liveness): a segment that was asked for gets both publishers,
  although the callback only tries the mutex and may start two threads for it.
- `PredictionsAgree`: what is published of a segment that the subject has lies
  on the motion. (A segment that it has not, as after a misspelled parameter,
  is answered with `Success` and zeros, and a pose at the origin is published:
  `vicon_bridge_retiming.cpp` 120, `RetimingClient.cpp` `GetSegment`.)
- `PublishedTogether`: all of one callback is for one time.
- `MissedCounted` (violated): between two callbacks `drop_count_` is the number of
  callbacks that published nothing, as the log line of both modes says. It is so
  where a single segment is published (theorem `Missed`); see section 6.

## 3. Runs

| run | instance | shows |
|---|---|---|
| `export` | 1 SINGLE_FILE and 1 MULTI_FILE topic, 2 names, pool of 2, capacity 3, bags of up to 2 messages | `IInv`, every safety property, the refinement and `Termination` |
| `export_lost_failure` | 2 SINGLE_FILE and 1 MULTI_FILE topic, 1 name, pool of 1, capacity 1, 1 message | `FailureIsRaised` is violated |
| `export_writers` | the resampler: master and 2 topics, eps 2, stamps 0..5, up to 3 messages per topic; or a single file: 3 formats, 3 runs, up to 3 records in each | all properties of both |
| `nearest_premature_drop` | master and 1 topic | `NoPrematureDrop` is violated |
| `single_file_interrupted` | JSON, 1 run | `InterruptedLoadable` is violated |
| `single_file_finalize` | JSON, 1 run | `FinalizeSeesOutputs` is violated |
| `data_stream` | scenes 3 to 5 with 2 subjects, devices, force plate, eye tracker, cameras; 2 frames, 3 other calls, 1 skewed packet | the refinement of `FrameExchange`, `FrameSound`, all properties of `ClientAnswers` and `DataStreamProperties` |
| `routes` | 2 routes, 2 frames, 1 packet under way on each, buffer sizes 1 and 2, 1 event | `TypeOK` and all properties of `CGStreamRoutesInv` |
| `bridges` | subject a with hip and foot, b with hip; 3 frames, clock to 3, 1 callback of the retiming node, frame numbers 0 to 3, 2 creation threads | `FramesCounted`, `SegmentsReady`, `PredictionsAgree`, `PublishedTogether`, `CallsReturn` |
| `bridges_missed` | the same with 2 callbacks | `MissedCounted` is violated |
| `retiming_client` | an application; subject a with hip and foot, b without segments; 2 frames, clock to 2; of a segment that is cut off only the name is read; the server does not fall silent | `ClientInv` and `AnswersAgree` |
| `retiming_run_in` | the same, clock to 3 | `FromOneFrame` is violated |

Bounds. Two messages let a SINGLE_FILE topic have a second record after one that
failed, and two MULTI_FILE messages collide on a name or be exported side by
side. The pool queue carries two tasks and the sentinels of three workers (two of
the pool, a sequential one that falls back to it) through three places: the
sequential worker can join the pool while tasks are still in it, so that any two
of the three take MULTI_FILE tasks side by side, and the producer is still kept
waiting by a full queue. Of two bags that differ only in which of two names is
which, one is enough (`MCSpec`). For the
resampler, eps 2 and stamps 0..5 put messages before, on and after each of the
three boundaries (match, look-ahead, eviction), and three messages per topic
allow a candidate that is evicted, one that is picked and one that is nearer but
late. What holds for bags out of order (any `Skew`) is left to the proofs. Three
runs of three records let a second run find any leftover of a first
and leave one to a third.

In `data_stream` the scenes differ in what they change between frames: static
objects, occlusion, the presence of a type, device frames that lie in two
frames. Three calls connect, configure, and connect anew after a packet that
could not be read, or after a `Disconnect`. Two routes
with one packet each on the way reach every relation of their last frames, and
one event among refused and broken routes and calls reaches each of them at
every point; larger instances of the safety properties are left to the proofs.
In `bridges` one of three drivers runs: the node `vicon_bridge`, the node
`vicon_bridge_retiming`, or an application that makes all calls of the retiming
client. Three frames are one more than the retimer keeps, so that an occluded
one is skipped and uneven receipt occurs; two creation threads are the two
writers of one segment. The frames the
application takes come at any time and show nothing: what a call or a thread
waits for does not depend on what a frame shows. In
`retiming_client` two frames and two instants of receipt let predictions succeed
while the input thread adds a frame and `StartOutput` takes one; with one frame
left a run-in can only put an empty frame in the place of the one that is read.
A loss there cuts a frame off at any of its subjects and segments; of the segment
that is under way, `Cuts` says how much was read (in `bridges`, its name or all its poses). The
constraint `AlwaysSends` leaves out a server that falls silent, which answers no
call otherwise; `bridges` has it, for `CallsReturn`. One callback of the retiming
node is every callback, next to a client in any state, for what `bridges` asks of
it: no property there looks from one to the next. `bridges_missed` has two, one of
which hides the other.

`CHECK_DEADLOCK FALSE` is set in the runs of the SDK and the nodes, whose systems
may stop: a session at its bounds, a client that was let go of, a bridge whose
process is down. The other runs check for deadlock.

The proofs of section 5 do not depend on any of these bounds. The inductive
invariants behind `export_writers` are proved and not checked again; those of
`export` and `retiming_client` are both.
Symmetry is used for the non-master topics, which nothing in the module
distinguishes.

## 4. Fairness

`export` assumes weak fairness of the producer's steps, of every
worker's steps, of the caller's loop, of the delivery of signals, and of the
monitor. The operating system schedules processes and delivers SIGTERM;
a blocked `put` or `get` is disabled, not unfair; handlers are assumed to
return. No fairness is assumed of exceptions, aborts or ^C: they need not
happen. Weak fairness is enough because no step is disabled by another process
for good and then enabled again for ever.

`routes` assumes weak fairness of each route's thread and of the returns of calls
(`WaitFrame` has its timeout, `join` returns when a thread is done), and none
of the server, the network or the caller's choice of calls: `FilterWritten`
therefore states its own premises, that frames are taken and that the thread
comes round again and again. `bridges` assumes weak fairness of the creation
threads and, where the application runs, of the clock, the input and output
threads and of calls that are not kept waiting. The mutex of the creation
threads is wanted by at most as many threads as there are entries to insert, so a
thread is not kept from it for ever. The other runs check no liveness property.

## 5. Proofs

`ExportPipelineProofs` (constants arbitrary subject to `PipelineAssumption`):

1. `Invariance`: `Spec => []IInv`. The safety properties are not inductive: why
   no task is left behind depends on where every task is. `IInv` says that a
   queue holds tasks of its own topics in bag order followed by sentinels only
   (`QueueShape`), a task is in one place (`OnePlace`), a worker that passed a
   sentinel left an empty queue (`Closed`), and what the producer enqueued is
   written, held or queued unless there is trouble (`Accounted`); each export is
   counted or has its token in the progress queue, with the end token behind
   all of them (`TokensAccounted`). There is one lemma per kind of step and
   conjunct.
2. `FileOwnership`, `FilesInOrder`, `CompleteReturn`, `ProgressComplete` follow
   from it: the last one because the monitor dies of the end token, and `run`
   returns after the monitor.
3. `QuietAfterRun`: `run` ends only when every process is dead (`MainWaits`).
4. `Refinement`: the initial state maps to one of `ExportJob`, `Export(w)` to
   `Write(held[w])`, the end of `run` to `Return`, `Raise` or `Interrupt`,
   posting to `PostFault`, all else to a stutter.

`NearestResamplerProofs` (any topics, eps, disorder, length of the bag):

1. `Invariance`: the disorder-free part `Ordered` of `IInv` is claimed for
   `Skew = 0`. Its core is `CandidatesKept`: every message that a pending frame
   could pick is still buffered. Eviction keeps it because a frame is pending
   only while its stamp plus eps exceeds the newest stamp (`PendingIsRecent`),
   so its candidates are younger than two eps (`WindowKept`).
   `DecisionsSettled` says later messages are at least eps away from every
   decided frame, which carries the properties over the rest of the bag.
2. `MasterKept`, `NearestPicked`, `DiscardJustified`, `WindowBounded`.

`SingleFileOutputProofs` (any formats, runs, records):

1. `Invariance`: `OutputInv` adds to the properties what holds inside a call
   (`CallShape`): the file holds the records of the completed calls and lacks
   its brace, and `started` agrees with what was written. Lemmas say what
   opening, closing and stopping leave in the file.
2. `WholeFiles`, `RunsNotMixed`, `CompletedKept`, `CompleteFile`.

`CGStreamRoutesProofs` (any routes, frames, packets under way, buffer sizes):

1. `TypeInvariant`.
2. `InOrder`, `Newest`: `FrameInv` follows the frames on their way. The packets
   of a route are in order between the frame it read last and the server's
   (`FramesFollow`), and nothing that was queued or taken is later than the
   last frame of its route (`QueueFollows`). A frame that is later than the last
   of every other route is then later than all that was queued.
3. `OwnStaticsKept`: `StaticInv` says that a packet either has static objects or
   is of the version before it (`Elided`), and that the server and the thread
   agree on the version at the two ends of the wire.

`RetimingProofs` (any subjects, segments, frames, clock, full turn and longest
prediction, subject to `RetimingConstants`, `ClientConstants`, `SamplesClose`),
about `ClientSpec`, an application that makes any calls:

1. Numbers. `Remainder` and its consequences say what `%` is; `LinePredicted`,
   that extrapolating a line from two of its points stays on it; `ShorterWay`
   and `RotationPredicted`, the same of a rotation whose two samples are less
   than half a turn apart.
2. Names. A getter counts the subjects or segments that are known and names them
   in the order of the server (`Within`). `WithinKept` says that the names are
   those known, once each. The k-th of them exists because the number of those
   up to a place grows by one at each (`RankStep`, `RankReached`, by the least
   place at which it is reached: `LeastOf`).
3. `ClientInvariant`: `ClientSpec => []ClientInv`. `PredictTrue` puts the numbers
   together: what is predicted from two true poses, the earlier one first, is
   true. The order of receipt (`DataTrue`) is what makes `t2 - t1` positive; under
   the empty name it may be zero, but no pose there has a segment. A lost
   connection leaves a pose with the names of the first of its segments
   (`FirstNamed`), the last of them read in part (`whole`), and truth is claimed of
   whole ones only.
4. `AnswersFit`: `AnswersAgree` follows from `ClientInv`.

`FrameExchangeProofs` (any objects, any packets that may come, any
number of reconnections): `FramesAsSent`, `ExchangeSpec => []FrameAsSent`.
`FrameAsSent` alone is not inductive: that a type that was left out is right in
the next frame needs that, while a connection lasts, what it decoded last is
the frame fetched last and what the server sent last is what that frame was
meant to be (`ExchangeInv`). `Completion` says what becomes of the objects of one
kind, `FetchedParts` what of a packet the frame is made of. The run `data_stream`
shows that the session implements `FrameExchange`, so the theorem covers packets
and histories the run does not reach.

`ClientAnswersProofs` is about one frame: theorems of the form `FrameSound => P`,
for every frame, with any numbers of subjects, segments, markers, devices, plates
and cameras, any names, poses and sample counts, and any axes. `FrameSound` is
not assumed of the session but checked: it is an invariant of `data_stream`, of
the frames that were sent and of those the client computed.

1. `EnumerationsFit`: `EnumerationsAgree`. Lists are counted and indexed alike;
   the sample getters need `Sampled`, since they try the device frames in turn
   and would go on behind the last.
2. `NamesFit`: `NamesResolve`. An enumerated name is found again by `FirstWith`,
   as an empty name would not be; names that the client makes up for cameras are
   those of one camera (`Nameable`).
3. `AxesTurn`: an axis mapping that `SetAxisMapping` accepts is a rotation,
   and both transformations of the client (there are two, for servers whose up
   axis is z or y) act as one rotation of the world: a vector is turned by it, a
   rotation conjugated by it. Integer matrices that are rotations are signed
   permutations (`ProperRotations`), from which the geometry follows by
   cases of the unit vectors.
4. `PosesFit`: `PosesCompose`, from `AxesTurn`, and from a segment being found
   by its identifier as the one that was named (`Identified`).
5. `RotationsCohere`: `RotationsDescribed`. The quaternion of a matrix is taken
   by the largest of its diagonal, the Euler angles by their singular cases; each
   branch of `ClientUtils.cpp` is a lemma.

`ViconBridgesProofs`: `Counted`, from `CountInv`, which says up to which frame the
counts go inside a callback. `Together`, from
`TimeInv` (a prediction that succeeds has the time asked for, and stays until
the callback is over); `Missed`, that `MissedCounted` holds where a single segment
is published, from `MissedInv`, which bounds the counter so that it does not wrap;
and `PublishedOnMotion`, from `NodeInv`: next to `ClientInv`, without a run-in since the node never starts the
output thread, it says that while the connection lasts all poses are whole
(`WholeInv`). Once it is lost the getters refuse, and the node does not connect
again. The theorems are about `BridgeSpec` and `NodeSpec`, the specifications of
one node each, whose actions `MCViconBridges` composes. They hold for any
subjects, segments, frame numbers and number of threads. Integers are unbounded
there, but for the retiming node's `drop_count_`, which wraps at `SizeT`: the width of
the other counters is not reached in a recording.

Assumed: only the named `ASSUME`s of the modules (evaluated by TLC in the runs).
Model-checked only:

- `Termination`, `FilterWritten`, `DisconnectEnds`, `SegmentsReady`,
  `CallsReturn`: liveness under fairness and `ENABLED` are outside what the
  prover handles.
- `ImplementsExchange`, and with it that `FrameAsSent` holds of the session:
  encoding and decoding recurse over the layouts of the objects, and the prover
  handles neither `RECURSIVE` operators nor induction over data.
- `FrameSound` of the session: it rests on what the scenes are, which is an
  assumption about servers, and on the recursive computation of global segments.
- `LinksResolve`: children and outputs are selected and flattened by `SelectSeq`
  and `FlattenSeq`, which are defined by recursion over the data.
- `LightweightAsFull`: the recursive computation; `SamplesContinue`: it compares
  the samples of two scenes.

## 6. Findings

- `run` can return normally although the last process failed (`exporter.py`
  239 and 253), against its docstring (179-180): run `export_lost_failure`.
- A frame can be dropped although a message exactly eps later is about to be
  read (`exporter.py` 531), against the docstring (514-516): run
  `nearest_premature_drop`.
- A worker terminated between the cut and the flushed write leaves JSON that does
  not load (`default.py` 184, 204), against `default.py` 170-172 and
  `PATCHES.md` 16: run `single_file_interrupted`. No completed record is lost
  (`RecordsKept`), so restoring the brace repairs the file.
- `_finalize_json_single_files` never sees a path: they are registered in the
  producer process (`exporter.py` 278, 723), against `PATCHES.md` 9: run
  `single_file_finalize`. `ReturnedComplete` shows that nothing depends on it
  unless a call failed.
- `StartOutput` takes its run-in frames from the client that the input thread
  reads (`RetimingClient.cpp` 145), whose frame is replaced between two of its
  calls: a pose is kept under the number of one frame with the places of another,
  although a lock is held "so that we add all subjects from one frame together"
  (`RetimingClient.cpp` 850): run `retiming_run_in`. `ClientInv` says that such a
  frame makes the coordinates wrong and nothing else: names, counts and the
  shape of what is kept stay right.
- Where all segments are published, `drop_count_` of the retiming node is raised
  once for a callback (`vicon_bridge_retiming.cpp` 173) and lowered for each pose
  (264). With two segments it goes below zero and wraps, or hides callbacks that
  published nothing, although it is logged as "Missed %zu callbacks" (163, called
  at 170): run `bridges_missed`.

## 7. Future work

What would come next, in order:

1. The Python side of the chain from bag to tracks: bag reader, resampler, record
   keys and loader composed. The pairing of poses and marker frames by position
   agrees with the exported frames; conditions under which it does not (reused
   messages, equal keys, empty transforms).
2. The `last` resampling strategy, on one bag with `nearest`: every frame of
   `last` that is within eps is also a frame of `nearest`, with picks at least
   as near.
3. Contact masks: hysteresis, gap filling and blip removal against a
   declarative definition; support resolvers and merge.
4. Composition of alignments along a path.
5. Two writers of one SINGLE_FILE path; a restarted server below several routes.
6. Device samples: `SamplesContinue` needs no recursion once it is stated of a
   server that numbers its device frames, apart from the scenes of the run.

## 8. Not modelled

- SDK: the C and C++ wrappers (delegation), video decoding, wireless
  configuration, timing and debug logs, the segment pose reader and the
  asynchronous reader (unused here), the reception of multicast, `PollFrames`,
  the length of the connection timeout; in the retiming client `PurgeOldData`,
  and a nonzero output latency or offset; `BuildMaps`, whose maps no getter reads;
  what follows a callback on a client half destroyed.
- The nodes: parameters, diagnostics, the contents of messages, the retries of
  the first connection. The sample clients print answers only.
- The exporter: validation of templates and chains, summaries, the `last`
  strategy; image, point cloud and video routines, the UI and the bag writer,
  which this pipeline does not use.
- The Python package `retarget` and the marker processors: real-valued numerics
  that neither tool reaches, and the algorithms named in section 7, which no
  run covers yet.

`PROJECT.json` lists every component with its status, and every hazard no
property covers with the reason.
