# Verification of the INO-A9 local bridge

TLA+ models of the bridge that connects INO-A9 cameras to Home Assistant, TLC
configurations that check them on small instances, and TLAPS proofs of the main
invariants of all but the composed runs for every value of the constants. Paths are relative to
`src/`; the bridge itself is `ino_a9_bridge/src/wificam_bridge/`.

## The system

| Component | State it keeps | Operations | What makes it correct |
|---|---|---|---|
| `CameraClient` (`camera.py`) | socket, receive buffer, deferred packets, sequence counter, deadlines, table of pending commands, three locks | `connect`, `start_audio`, `frames`, `close`, `send_control`, `send_command` | an answer goes to the call it answers; a waiting call is always woken; no entry and no lock is left behind; packets keep their order; the watchdogs fire when they must |
| `CameraSession` (`session.py`) | connected and stop flags, control lock, reader thread, last error | `start`, `close`, setters and getters, `reboot` | reconnects after every failure; controls go to an authenticated connection; `close` is final |
| `MJPEGReassembler` (`camera.py`) | fragments, sizes, metadata, index due, per frame number | `push` | returns exactly the frames that arrived; bounded memory per frame |
| `CameraState`, `CameraWorker`, HTTP media handlers (`bridge.py`) | latest frame, 128 chunks of sound, counters, connection state; a cursor per client | `publish`, `publish_audio`, `set_connected`, waits, the worker's poll, `_stream`, `_audio`, `_snapshot` | no repeated or reordered media, no lost wake-up, state follows the session |
| `ControlAPI`, `ControlStateStore` (`control_api.py`) | last value of each control in memory and in `control_state.json` | `GET` camera, `PUT` control, `POST` reboot | an acknowledged value is durable; only values the camera took are stored; requests end |
| `pprpc.py` with `_receive` (`camera.py`) | receive buffer | `iter_tcp_packets`, `parse_packet`, `pack_rpc` | however TCP cuts the stream, the same packets come out, each as soon as it is complete; what is written can be read |
| `commands.py`, `controls.py`, field readers of `camera.py` | none | payload encoders and readers, checks of a schedule | different settings differ on the wire; the checks of one value agree with each other |
| `crypto.py` | none | AES-CBC | – |
| `app_runtime.py` | runtime files, control token | `prepare_runtime`, `register_discovery` | token and state survive restarts; discovery reaches Home Assistant |
| Home Assistant integration (`custom_components/ino_a9/`) | coordinator data, per-entry runtime | polling, entities, schedule service, config flow | the token stays accepted; entities end up showing what the app retains; commands do what was asked |
| `cli.py`, `scripts/probe_media.py`, go2rtc | none of interest | diagnostics; external programs | – |

Interaction. Each camera has one `CameraWorker` thread, which creates a
`CameraSession`; the session's reader thread dials the camera, reads its packets
and calls back into `CameraState`. HTTP threads read media from `CameraState` or
call the session through `ControlAPI` and the worker. The app's start-up script
writes the files the bridge reads and publishes the token with which the Home
Assistant integration polls the bridge and sends it commands. Thus four kinds of
threads share one socket and its table of pending commands: the reader, the thread that
closes the session, and the HTTP threads (two locks, then the send lock).

Hard behaviour. Any thread may be preempted between reading a field and using
it; the camera may answer late, refuse, reset or fall silent; a reconnection
resets the sequence numbers while calls are open; `close` runs in two threads at
once; the store is written outside the control lock; writes fail and the process
dies between two statements; clients are slow or go away.
The app dies between two steps of its start, Home Assistant polls while commands
and restarts go on, and both hold copies of the same token and values.

## Modules

### `CameraLink` – one camera connection and the threads that share it

A label of a thread (`tpc`, `pc`) is the statement it executes next; every
access to a field that another thread writes is a step of its own. Two statements
are one step only when nothing shared lies between them.

| Variables | Code |
|---|---|
| `sock`, `conn`, `linkUp` | `CameraClient._socket`: `None` (0) or the n-th socket; whether that socket object still carries data |
| `nextSequence`, `pending`, `sendLock` | `_next_sequence`, `_pending_commands`, `_send_lock` |
| `event`, `error`, `response` | the fields of `_PendingCommand` |
| `connected`, `stop`, `controlLock` | `CameraSession._connected`, `_stop`, `_control_lock` |
| `failing`, `delivery` | the local variables of `_fail_pending` and `_resolve_pending` |
| `toCamera`, `toReader`, `applied` | the network and the camera (external) |

`CloseCheck … FailWake` are `CameraClient.close` for either thread, with
the AttributeError of a field that became `None` in between; `ReaderLoop …
Backoff` are `_reader_main` with `connect`, `start_audio` and `frames`;
`SessionClose`, `Join`, `ClearConnected` are `CameraSession.close`;
`Invoke … ControlTimeout` are a control or reboot call from `_send` down to
`sendall`; `CameraAccepts`, `CameraRejects`, `PeerReset` are the camera.

`toCamera` and `toReader` are sets: any order, which includes TCP's. The data a
call writes to a link that has gone may be lost silently, as TCP does. The packets
of the handshake are one step that succeeds or fails and the two watchdogs are one of
the faults of `LinkLost`: they are the subject of `PacketStream`. The `_sequence_lock` and `_pending_commands_lock` are never
held across a shared access other than their own, so the guarded block is one step.

### `ControlPort` – what the session promises

The abstract view of a control or reboot call: open, then refused, successful or
failed; carried out at most once; a refused one never; a successful one before it
returns. `CameraLink!Port` instantiates it and `KeepsPromise == Port!Spec` is
checked as a property and proved in `CameraLinkProofs`: every step of the link is a step
of the port or stutters.

### `ControlApi` – control API and store

HTTP threads (`Puts`, `Gets`) against a session that behaves like the port: a
control lock, and commands that may be carried out after their caller timed
out (`late`). A value is identified with the PUT that brings it, so two PUTs never
carry the same value: comparisons of values become comparisons of origins. The store
is modelled statement by statement: lock, memory, temporary file, rename, failure
of the file system at either of the last two, and `Crash` at any point followed by
`Restart` from the file. Files are durable when renamed: power loss is not
modelled (the code does not call `fsync`). A GET copies the values under the lock and
then reads the readable controls back one at a time, in any order (the code has a fixed
one). `Reject` stands for the four early returns with 400, 401, 404.

### `Reassembler`, `LossyCamera`

One action per way out of `push`. Fragments are kept as the packets that brought
them, dictionaries as functions with an empty default. Decryption and the
search for the JPEG markers are the constant `IsImage`. `FramesEndedBy` is the
reference definition: it looks back over all packets pushed (`log`, a history
variable) and says which frame the last one completes. A frame has at most
`FinalIndex` fragments, since a non-final index cannot be 0xFF.
`LossyCamera` composes the reassembler with a camera (external) that sends the fragments of
frame after frame in order and may leave some out.

### `MediaState` – from the session to the clients

`CameraState` methods are single steps because of the condition's lock; a client
that finds nothing new is `asleep` until it is notified or its wait times out. The
reader appears as the callbacks and flags the worker and the clients see
(`SessionUp`, `SessionFails`, `Publish`, `PublishAudio`). The worker reads the
connected flag and sets the state in two steps (`ReadConnected`, `SetConnected`), so a
frame may be published in between. `frame_id = -1` of a new client is 0 here: both
differ from every published number. A viewer asks for the stream, the preview or a snapshot
(`path`); the deadline of a snapshot passes in a step of its own (`DeadlinePasses`) before or
after a frame, asleep or on the way to the lock. `recent` is the grace period of
`status()`, which `GraceOver` ends; `Shown` is what `status()` reports. The text of
the last error, which is only displayed, is left out.

### `Pprpc`, `Payloads` – what is on the wire

Pure operators. `Pprpc` has the varints, headers and packets of `pprpc.py` and the packing of
requests, over sequences of bytes; a reader that raises returns the kind of
error. Encryption is symbolic: a ciphertext has the length that AES-CBC with padding
gives it, and opens only under the key it was made with, which is the triple that
`derive_rpc_key` hashes. A ten-byte varint is named by the negative number with
the same 64 bits. `Payloads` has the encoders of `commands.py`, the field
readers, and the four places that check a schedule (service, control API, `controls.py`,
intrusion switch). Recursion is written as recursive functions. `Selection` has the one
helper, `Only`: what a loop or comprehension that leaves elements out collects.

### `PacketChannel`, `Framing` – bytes to packets

`Framing` is one direction of the connection: `CameraSends` writes a packet, `Receive` is one
`recv` that returns any part of what is on its way, `TakePacket`, `Refuse` and `Return`
are the iterations and the two ends of `iter_tcp_packets`, `Lose` and `Reconnect` are
`close` and `connect`. `PacketChannel` is the promise: packets are handed over once each, in
order and complete, and none of an earlier connection. `KeepsPackets == Channel!Spec` is
checked as a property and proved. The camera (external) sends packets whose header tells
their length; their bodies may be at fault. `Wire` joins `Framing` and `Payloads` and states
the facts about payloads as invariants of the initial state; `MCWire` gives the numbers.

### `PacketStream` – the packets of one connection

The reader thread alone, with the packets and deadlines that `CameraLink` leaves
out. `stage` follows `connect` and `start_audio` through their four answers and the
wait for time requests, then alternates between the top of the loop of `frames`
(`"stream"`) and its `_receive` (`"receive"`).

| Variables | Code |
|---|---|
| `deferred`, `replies`, `latest` | `CameraClient._pending`, and the locals `replies` and `latest_av_sequence` |
| `timeLeft`, `heartbeatLeft`, `activityLeft`, `frameLeft` | the deadlines, as ticks that remain |
| `wire`, `closed`, `asked`, `owed`, `sent`, `acked`, `syncsSent` | the network and the camera (external) |
| `quiet`, `frozen`, `shut`, `handled`, `syncsAnswered` | history |

A read returns any non-empty prefix of what has arrived (`Take`). `Tick` passes time
only while `recv` blocks: the reader is assumed to handle a packet within the tick in which it
arrives, which is what its deadlines are about. That the camera sends no more than
`Window` media packets without acknowledgement is taken from the heartbeat's
purpose in `docs/bridge.md`. `HandleDeferred` restarts the activity watchdog too, as the
code does. Answers to controls, which the same loop delivers, are in `CameraLink`.

### `AppRuntime` – a start of the app

`apc` is the step of `prepare_runtime`, `register_discovery` or `main` that comes
next; each file is replaced by a rename and so is a step. `EnsureState` and
`StartBridge` drop the values of cameras that are not configured, as
`_ensure_control_state` and `ControlStateStore.__init__` do. `Crash`, `BridgeDies`,
`Configure` and `Reinstall` happen to the app (external). One value per camera
stands for its controls. `Store` is a single step here, `ControlApi` has its parts. A registration
that fails leaves the Supervisor with the message it had.

### `Integration` – Home Assistant and the app together

Extends `AppRuntime`. `ConfigFlow`, `Unload` and the part of `async_setup_entry`
after its first refresh (in `PollDone`) are the entry's life; `PollList`,
`PollDetail`, `PollDone`, `PollFails` are `_async_update_data`, whose requests meet the app at
different moments; `TurnOn`, `TurnOff`, `SetSchedule` send a command, `Take` and `Refuse`
end it. The value is the intrusion state, the one control whose command is built from
coordinator data. The service is registered exactly while `entry = "loaded"`, so
it has no variable. A refresh that a command requests is a poll like any other:
Home Assistant drops the request while a poll is in progress, so nothing may rest on it.
Home Assistant's own part – retrying a setup, polling again, one
entry per integration (`manifest.json`), no commands to unavailable entities – is
external and taken as documented there.

## Runs

Two workers, each below five minutes. Type invariants are proved wherever a module
has a proof of them, and so are not part of the runs. "Expected violation" runs refute one sentence
of the documentation.

| Run | Instance | Shows |
|---|---|---|
| `link_promise` | a control with another one of the same command, or with a reboot; one fault; without stalls | `OwnAnswer`, `ControlOnCheckedConnection`, `KeepsPromise` |
| `link_liveness` | one control, two faults, stalls allowed | `NoStrandedCall`, `NoLeakedEntry`, `NeverWithoutAnswer`, `CloseIsFinal`, `LostLinkFailsFast`, `SessionRecovers`, `CloseEndsReader`, `CallsReturn` |
| `link_status` | one control | expected violation of `FailuresHaveAStatus` |
| `packet_stream` | two connections, three media packets, two time requests, window 2, timeouts of 1, 1 and 4 ticks, a heartbeat every 2 | `MediaInOrder`, `TimeRequestsAnswered`, `StalledStreamEnds`, `NoFalseAlarm`, `WindowReopens` |
| `reassembler` | all sequences of five out of fifteen packets of two frames | `FrameIsInOrder`, `HeldIsBounded`, `ReturnsWhatArrived` |
| `frame_is_whole` | two frames of four fragments | expected violation of `FrameIsWhole` |
| `media` | a viewer (stream, preview or snapshot), a listener, backlog 2, two frames, three chunks, one failed connection | `SoundIsContinuous`, `PicturesGoForward`, `LatestIsShown`, `SoundArrives`, `SnapshotIsAnswered`, `StateFollowsSession` |
| `wire` | three packets out of four kinds, one of them refused, two connections, every cut; numbers and schedules on both sides of each boundary | `KeepsPackets`, `NothingHeldBack`, `RefusedForCause`, `PacketsReadBack`, `FieldsReadBack`, `SchedulesAgree`, `SettingsAreDistinct` |
| `api` | two PUTs, one GET, two controls, one crash, one failed write | `AckedIsDurable`, `OnlyAcceptedIsStored`, `ReadYourWrites`, `RequestsEnd` |
| `api_last_command` | two PUTs of one control | expected violation of `PersistedIsLastCommand` |
| `deployment` | two cameras, two commands, one each of deaths, changes of the options, fresh installations and reloads or restarts of Home Assistant | `StateSurvives`, `StreamsMatchBridge`, `EntryIsAccepted`, `ShowsCameras` |
| `default_schedule` | one camera, two commands | expected violation of `EnableNeedsSchedule` |

### Bounds

- `MaxFaults` (link): resets, watchdog expiries, failed dials and stuck writes. One
  fault already gives a reconnection, reset numbers and a stale call; two
  (`link_liveness`) a failure during recovery. Noticing an earlier fault is free. The
  four invariants of `link_liveness` are proved for any calls and faults.
- `TwoCallsAtMost` (`link_promise`, a state constraint): the second control and the reboot are
  not both used. The three properties are of safety, and any two of the three
  calls meet in every order. Three at once take too long.
- `MaxSequence`: heartbeats are only sent below it. Calls allocate numbers
  regardless. 5 or 6 lets none or one heartbeat separate calls and connections.
- `StallAcrossReconnect`: whether a call may be preempted, between its last
  connectivity check and its write, for as long as close, backoff, dial and
  handshake together take (more than a second). `TRUE` for what must hold without
  a timing assumption. `FALSE` for `link_promise`: with such a stall a call writes
  with an old sequence number into a new connection. The three properties of that run
  hold under this assumption only.
- `MaxCrashes`, `MaxWriteFaults` (API): one of each; the proofs hold for any.
- `MaxPushes` 5: the shortest whole stream with every path (a four-fragment frame
  and one more packet; a restart by a second index 1; two frames mixed).
- `Backlog`, `MaxFrames`, `MaxAudio`, `MaxDrops` (media): more chunks than the
  backlog, two frames, a failure and a recovery.
- `MaxPackets` 3, `MaxConnections` 2 (wire): two packets and the beginning of a third
  share a read; what an earlier connection left in the buffer would be seen. The packets have
  one- and two-byte lengths, so that a cut can fall inside a varint. `Numbers` are the
  smallest and largest of each varint length up to 2^28, the first number the parser
  refuses; `Minutes` and `DayLists` are the ends and the faults of schedules.

- `FrameTimeout` 4, `HeartbeatInterval` 2 (packet stream): the timeout is some
  heartbeats long, as 2 s is of 0.5 s; the handshake's waits of one tick can pass or
  not. `MaxMedia` exceeds `Window`, so the window closes and must be reopened;
  two connections let one inherit from the other.
- `MaxCrashes`, `MaxConfigs`, `MaxReinstalls`, `MaxReloads` (deployment): one each,
  at any moment. Two cameras let the options grow, shrink and be exchanged, two
  commands let the second meet what the first left. The values are on and
  off with the default schedule; `default_schedule` adds another schedule.

Deadlock checking is off for the reassembler, wire, media and packet stream runs only: the
stream of packets ends, a stopped bridge whose clients have gone has nothing to do,
and the last connection of `packet_stream` ends. In
the link and API models the end is the explicit `Quiescent` step.

### Fairness

- `FairSpec` of the link: the reader, a closer that has begun and calls that have
  begun keep running; no fault is ever due, no camera answer is due and nobody has
  to close the session. Waiting for a lock is a wait for finitely many calls, so
  weak fairness is enough. `ReaderProgress` includes `StopAtFrame`: a reader that
  streams after `close` sees either a frame or the two-second frame watchdog, and
  both end the stream. No control has to time out, so that a lost link must be
  what fails its controls; only `CallsReturn` assumes `TimersExpire`, the
  expiry of `pending.event.wait(control_timeout)`.
- `FairSpec` of the API: accepted requests run, the session answers or gives up
  (`CallsReturn` in the link), and the Supervisor restarts a dead bridge.
- `FairSpec` of the media: the worker runs, a client reads or goes away (`Write` or
  `ClientGone` ends each write), and time passes for the 15 s of `status()` (`GraceOver`)
  and the 5 s of a snapshot (`DeadlinePasses`): both are compared with the clock. No
  other wait has to time out, so the properties of the stream and the sound rest
  on the notifications.
- `FairSpec` of the deployment: the app's start goes on (s6 starts what has died), and
  polls are made and end: Home Assistant polls every ten seconds, retries a setup,
  and each request is answered or fails. A poll fails only for a reason the model
  has: the app is down, does not know the token, or no longer has a listed camera. Nobody
  has to configure, reload or remove anything, and no command has to arrive.
- `packet_stream` and `wire` need none: bounds in time are invariants over ticks, and what must
  not wait in the buffer is an invariant too (`NothingHeldBack`).

## Findings

1. `FailuresHaveAStatus` (`link_status`): a connection that is reset after the
   connectivity check makes `sendall` raise `OSError` (or `AttributeError` when
   the field has become `None`). `ControlAPI.handle` catches neither
   (`control_api.py:191-200`), while `ino_a9_bridge/DOCS.md:65` promises JSON errors with
   six statuses.
2. `PersistedIsLastCommand` (`api_last_command`): `state.set` runs after the
   control lock is released (`control_api.py:271`); of two PUTs the file may keep the
   earlier command, while `ino_a9_bridge/DOCS.md:36` calls it last-command state.
3. `FrameIsWhole` (`frame_is_whole`): the last fragment is accepted after a gap
   (`camera.py:204`), while `docs/bridge.md:149` promises a complete JPEG.
4. `EnableNeedsSchedule` (`default_schedule`): switching intrusion detection off
   while its state is unknown sends, and so stores, every day from 00:00 to 23:59
   (`entity.py:96`). Switching it on, which is refused with "Set an intrusion schedule before
   enabling intrusion detection" (`entity.py:94`) while no schedule is known, then enables that one.

Observed while modelling, without a run of their own:

- After a failed write `ControlStateStore` keeps the new value in memory
  (`control_api.py:133`), and GET labels it `persisted`.
- `docs/protocol.md:66` says the connection must answer two time requests before
  it starts video; `_answer_initial_time_syncs` goes on after two seconds without them
  (`TimeSyncsMissing`), and time requests that came with an earlier answer are answered
  but not counted, so that the wait then lasts its full two seconds.
- After the app has been installed afresh, the entry keeps the old token: the new
  discovery is aborted (`config_flow.py:67`) and every request is refused until the entry is removed. `EntryIsAccepted` says
  that this is the only way to a refused token.
- A control whose write is cut off by the socket timeout (`camera.py:492`) ends with 504, but
  the connection goes on with half a request on it.
- `main` calls `parser.error` when only one of `--control-token` and `--control-state` is
  given (`bridge.py:457`), where `parser` is not defined: the start ends with
  `NameError` instead of the message.
- The sequence counter of the bridge is unbounded while a header field has four varint bytes
  (`EveryPacketReadsBack`): with a heartbeat twice a second that takes over four years on
  one connection.
- The intrusion switch sends the schedule of the last poll and may undo a newer one
  (`switch.py:48`).

## Proofs

The constants are arbitrary sets of calls, requests, controls, packets and clients; the
bounds are arbitrary numbers, so the theorems do not depend on their values. The
assumptions are the named ones: disjoint kinds of calls, values outside the data for
"nobody", "nothing" and "missing", numeric bounds, and the record types of packets
and of control values. `NumbersAssumption` says that a number takes fewer than ten bytes as a
varint, that is, it is below 2^63: ten bytes stand for a negative number (sequence numbers, times
and indices that large are out of reach of any run of the bridge); `SchedulesAssumption` that minutes are minutes of a day (they come from
`datetime.time`) and that a list of days holds integers (`controls.py:21` refuses any other).

`CameraLinkProofs` – `TypeCorrect`, `NothingStranded`, `NothingLeaked`,
`AlwaysAnswered`, `CloseReleases`. `NoStrandedCall` is not inductive: it needs
to know who owns a call between two tables. `IInv` therefore adds that the locks
are held by the call that is inside (`LockInv`), that the table holds only the
call under way (`TableInv`), which calls a snapshot or a delivery carries
(`SnapshotInv`, `DeliveryInv`), that a socket that is gone implies a thread on its way
to the table or nothing registered (`SocketInv`, `CoverInv`), where the
reader may be for a given state of the socket (`ReaderInv`), and that an event is
never set before its error or response (`EventInv`, `WaitInv`). One lemma
per part shows that every action keeps it.

The second half of the module has `ImplementsPort` (the refinement of `ControlPort`),
`AnswersAreOwn` and `WrittenWhereChecked`, all under `NoStall`, that is
`StallAcrossReconnect = FALSE`; the
assumption is used in one place, that a dial finds no call between its last check and its
write (`DialFindsNobody`). `PromiseInv` keeps track of the connection of each
number: what is on the wire belongs to the current connection and carries its call's number
(`WireInv`), the numbers of one connection are distinct (`NumbersInv`), and while a control
waits nobody writes to a later connection, because it has the control lock
(`LockedOutInv`). So a control found in the table under an answer's number is the
one the answer is for (`MatchIsOwn`), although it may have been registered before the
reconnection. Each step of a call is then one of five its caller can see (`CallerSees`),
and what the camera carries out is the port's `Apply`.

`ControlApiProofs` – `TypeCorrect`, `Durable`, `NothingInvented`,
`WritesAreRead`. The argument gives each value the time at which it entered
memory: the lock serialises writers (`HolderInv`), memory is never older than the file
(`OrderInv`), what is about to be renamed is the whole memory and holds the writer's
value (`WriterInv`), and what is in memory was carried out (`CarriedInv`). Hence the file
only moves forward, across crashes and failed writes.

`SelectionProofs` – the inductions the other modules need, stated for sets: a set of
numbers that is not empty has a least one (`LeastNumber`), so a set that contains 0 and
the successors of its numbers, or each number whose predecessors it contains, is all of them
(`NumberInduction`, `LessInduction`), and the same for sequences. From these follows what
`Only` collects: that the recursion defines it, that it distributes over concatenation, and
what a change of the set changes.

`ReassemblerProofs` – `FramesInOrder`, `BoundedFrames`, from `HeldInv`: what is
held of an open frame is exactly its fragments 1, 2, … up to the one before the index due.
`ReturnsTheFrame` compares `push`, which keeps sizes, metadata and the index due, with
`FramesEndedBy`, which looks back over everything pushed and chooses nothing. Its invariant
(`Open`) is that, of the fragments of a frame that have arrived, the ones held are the only
tail that a last fragment could complete, and there is none when the frame is not open: a gap,
a restart or an overflow has spoiled all others for good.

`IntegrationProofs` – `TypeCorrect`, `ValuesSurvive`, `StreamsMatch`,
`TokenAccepted`, for the app and Home Assistant composed. What holds while the bridge
serves was established step by step during the start: both configurations are those of
the options this start read (`ConfigInv`); the file has each value stored for a camera
still in the options, which is why `EnsureState` may drop the others, and the bridge
serves the file (`StateInv`); and a token is generated only where no discovery message
and no entry of this installation has one yet (`TokenInv`). `PollInv`, that only an entry
in set-up or loaded is polled for, is needed for the types.

`WireProofs`, the stream – `ImplementsChannel` (the refinement), `HoldsNothingBack`,
`RefusesForCause`, for any packets that satisfy `PacketsAssumption` and any cuts. The
invariant says where things lie: packets one behind the other in the stream
(`Layout`), the buffer or the bytes being parsed right behind the packets taken (`Holds`),
no complete packet in the buffer while receiving (`Receiving`), and the packets parsed in this
read the next ones that were sent (`Parsing`). The heart is `HeaderOfPiece`: a
piece of a packet either is too short for its header, which then is reported as missing or
truncated, or gives the header of the whole packet, because a varint ends at its first byte
below 128 and nowhere else (`VarintIsUnique`). Thus the loop stops exactly at a cut, never inside a
whole packet and never for good. The values of varints are not interpreted.

`WireProofs`, the payloads – `PacketsAreReadBack`, `SchedulesAreAgreed`,
`SettingsAreToldApart`, for any numbers, days and minutes of the assumptions. Here the
values are interpreted: `encode_varint` is what its recursion says (`EncodeShape`), a varint in
front of anything is decoded to its number and no further (`DecodeEncoding`), or refused when it
has too many bytes, and so the header, the body and the payload are read back one after the
other. Two numbers with the same bytes are equal (`EncodingIsInjective`), and no varint is the
beginning of another (`VarintSplits`); with them a setting is taken apart field by field
(`SettingIsInjective`). Leaving out zeros is harmless because a field that is there never
has the bytes of the one that follows it.

`FieldsAreReadBack` needs one thing more: the readers of fields (`first_field`,
`read_response_value`) continue at an offset that the payload gives, and a function defined by
such a recursion is known to exist only if the recursion ends. It does, for every payload and not
only for the ones the bridge writes, because a field that is read ends behind its
beginning (`FieldEnds`), so the loops are what their recursion says (`LoopExists`, `FindIs`,
`ReadIs`). Then `Skips(e)` says that `read_response_value` finds the same behind the bytes `e`
as it would without them; it holds for a field of each wire type and, if for two pieces, for one
behind the other. An answer cut inside its last varint is refused as truncated (`AnswerCut`), and
since the values of each enumeration are distinct, the name shown is the only one with the value.

`PacketStreamProofs` – `TypeCorrect`, `StallIsBounded` and `AlarmsAreTrue`, for any timeouts, windows and
traffic. The history counts what the deadlines leave (`Counted`): the activity deadline and the
quiet ticks add up to the timeout; so do the frame deadline and the frozen ones until it
passes, and it can only be passed unnoticed while `_receive` blocks, that is until the next
heartbeat. Hence the bound of one timeout and one heartbeat. `MediaStaysInOrder` and
`RequestsAreAnswered` follow one read through each stage: what it takes off the wire is the
front of it, and what is handled, deferred and left are the packets of that
front in their order (`Packed`, with facts about `Numbers` and `SyncsIn` by induction).
`WindowIsReopened` rests on the first: while the camera waits, everything it sent has been
handled, so the next heartbeat acknowledges its last packet, and that heartbeat is due within
what is left of the interval (`Waiting`).

`MediaStateProofs` – `PicturesInOrder`, from: nothing a viewer was shown is newer than its
cursor, everything is older than a frame it has taken and not yet written, and the
cursor is at most `frame_id` (`Viewing`). Frames published and reconnections in between
only raise `frame_id`. `SoundInOrder`, from: the chunks kept are the latest, one after the
other and as many as the backlog allows (`Chunks`); what a listener has taken starts right
behind its cursor, or later if it has been overrun (`Ahead`); what it has written ends at its
cursor (`Heard`).

Only model-checked: liveness (fairness and ENABLED are outside the
prover) – `LostLinkFailsFast`, `SessionRecovers`, `CloseEndsReader`, `CallsReturn`,
`RequestsEnd`, `LatestIsShown`, `SoundArrives`, `SnapshotIsAnswered`, `StateFollowsSession`,
`ShowsCameras`. Every other property of the passing runs has a theorem.

## Not modelled

- The bytes of AES and of HTTP, and the contents of pictures and sound.
- A write cut off in the middle (`sendall` shares the reader's socket timeout): what
  becomes of it is decided by the camera's parser, which is not in the repository.
- Listing cameras over HTTP, the parsing of arguments and of the JSON configuration: input
  checks without state.
- A platform of the integration that fails to unload (`custom_components/ino_a9/__init__.py:111`):
  the state is in the model (`entry = "stuck"`), what follows is Home Assistant's.
- In Home Assistant: the calls of the LED switch, selects and reboot button, the camera entity
  and diagnostics, which turn one request or one value into another.
- Command line tools, and the external programs (go2rtc, ffmpeg, Supervisor).

## Plan

1. Done: `CameraLink`, `ControlPort`, `ControlApi`, `Reassembler`, `LossyCamera`,
   `MediaState` with snapshots and the grace period, `PacketStream`, `AppRuntime`,
   `Integration`, `Pprpc`, `Payloads`, `PacketChannel`, `Framing`, `Wire` with the runs above,
   and proofs of every safety property they check.
2. Composition of `PacketStream` with `LossyCamera` and `Reassembler`, and an
   abstract specification of a camera's picture stream that it implements; the durable
   store as an abstract specification that `ControlApi` and `AppRuntime` implement.
3. Proofs: the link's promise with stalls, under the weaker assumption that no two calls of
   one command get the same number on one connection.
