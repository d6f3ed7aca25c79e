# openmediatransport-rs: TLA+ models and proofs

This directory holds a formal model of the `openmediatransport` crate (`src/src/`): TLA+ modules,
the TLC configurations that check them on small instances, and TLAPS proofs of the main results for
every value of the constants. `PROJECT.json` is the index: components, runs, mutants, the map from
definitions to source lines, findings, hazards and theorems.

## 1. The system

The crate moves video (VMX1), audio (FPA1) and XML metadata between hosts over TCP.

| part | state | operations | talks to |
|---|---|---|---|
| `Sender` (`send.rs`) | peer map (stream, subscription flags, inbound bytes), aggregated subscription, two bounded outbound queues, audio enable flag and clock | `poll_accept`, `poll_peer_metadata`, `send_video`, `send_metadata`, `AudioIngress::send`, `enable_audio_output`, `close`; two writer threads | receivers, over TCP; writers share the peer map behind a mutex |
| `ReceiverSession` (`receive.rs`) | session state, stop flag, live preview/quality, outbound metadata, one I/O handle per socket, counters | connect, `set_preview`, `set_suggested_quality`, `set_tally`, `disconnect`; one supervisor thread per socket | the sender; reader and decode threads |
| video pipeline (`receive.rs`) | wire queue and its gauge, decoded queue, encoded-capture slot | reader dispatches, decoder decodes and publishes, application takes | bounded channel, mutex + condvar, atomics |
| `Channel` and frames (`transport/channel.rs`, `protocol/frame.rs`) | reassembly buffer | read, pop a frame, refuse, clear | a TCP stream |
| `TimestampClock` (`clock.rs`) | timeline position, interval, last timestamp | `resolve`, `reset` | wall clock; called under the sender's locks |
| discovery server (`discovery/server.rs`) | registry, peer map, stop and running flags, threads, events | start, stop, accept, serve a request, disconnect | clients over TCP; one thread per client |
| discovery client (`discovery/client.rs`) | list of sources | register, deregister, apply relayed messages | the server |
| discovery facade, DNS-SD (`discovery/mod.rs`, `mdns.rs`, `address.rs`) | registered and found sources; one mDNS daemon per process behind a `OnceLock` | new, register, deregister, refresh, drop | client or mDNS daemon; settings at creation |
| settings (`settings.rs`) | key-value map, `settings.xml` | load, reload, set, remove, save | file system; read by the discovery facade |
| video encoder (`send_video.rs`) | the codec, keyed by geometry, colour space and quality; a texture in flight | encode raw, encode texture, submit, finish | called by the sender; the `vmx` crate |
| audio codec (`codec/fpa1.rs`) | none | pack, unpack | sender and receiver |
| receiver audio and metadata (`receive.rs`) | two bounded channels, a counter | audio reader, dispatch, `try_recv_*` | readers and application |
| colour, logging, async wrappers, pool | local | - | - |

What is hard in it: state changed under a mutex and announced on sockets after the mutex is released
(discovery server); two atomics, or an atomic and a queue, updated one after the other (pipeline,
capture); handles installed while another thread shuts the session down (session); a setting read by
a reconnect while the application changes it; peers removed by writer threads between the two locks
of the owner (sender); TCP cutting frames anywhere; write time-outs inside a frame; pacing against a
clock that goes on during the computation; a daemon created twice because a `OnceLock` is read and
set in two steps (discovery facade); a file truncated before it is written (settings); a texture
whose header and whose picture come out of two different calls (GPU pipeline). `PROJECT.json` lists
these under `hazards`, each with its line and the properties that would catch it going wrong, or the
reason why none does.

## 2. Modules

| module | models | composed of |
|---|---|---|
| `Registry` | what the discovery server promises about its registry (abstract) | |
| `DiscoveryServer` | server handle, accept thread, peer threads, clients, sockets | implements `Registry` |
| `ReceivePipeline` | reader, wire queue, gauge, decoder, capture, decoded queue, application | |
| `ReceiverSession` | first connect, supervisors, reconnect, settings, disconnect | |
| `Sender` | owner, ingress threads, writer threads, peers' sockets | |
| `FrameChannel` | reassembly of a byte stream and the reader loops around it | |
| `TimestampClock` | `resolve` / `reset` against a running wall clock | |
| `Settings` | the settings map and its file, with crashes | |
| `Discovery` | the discovery facade, the DNS-SD daemon, connections to a server | extends `Settings`; the server is an instance of `Registry` |
| `Fpa1` | packing of audio channels (operators) | |
| `VideoEncoder` | the codec cache and the submitted texture | |
| `MediaPath` | a frame's way from the sender's call to the receiver's application | extends `VideoEncoder`, `Fpa1` |
| `MC*` | the instances TLC checks | |
| `*Proofs` | theorems and their proofs | |

**Grain.** A critical section is one step; what happens before and after it is another. An atomic
load or store that another thread can interleave with is a step of its own. A time-out may fire
whenever its step waits; durations are left out. So are payloads, except in `MediaPath`: a video frame is its number,
an audio frame its timestamp, a source its registry key, a control message the flags it changes.

* `DiscoveryServer`. `entries`, `peers` are `Shared`; `thread[c]` is the program counter of
  `peer_loop`; `sends[t]` are the socket writes and events a thread still has to make after it
  released the mutex. A connection is a TCP connection, never reused. `stale` is a history variable
  that marks snapshots written after their source had gone. `SendFails` is a write that does not
  reach a client that is still there: its handle cannot be cloned, the 5 s write time-out cuts the
  message, or writes of two threads on clones of one handle run into each other; the error is
  ignored. From then on the client is `deaf`, and what it lists is not followed. Which clients that
  can happen to is the constant `Slow`; every other write arrives whole.
* `ReceivePipeline`. One action per loop step of `video_reader_loop`, `dispatch_av_frame` and
  `video_decode_loop`; `CountQueued` and `CountDequeued` are the two halves of the `wire_depth`
  gauge, `CaptureLoad` and `CaptureFill` the two halves of `EncodedCapture::publish`. The wgpu
  decode loop has the same control.
* `ReceiverSession`. `sup[r]` follows `socket_supervisor` and the reader loop inside it; `link[r]`
  is the stream, `io[r]` the handle `disconnect` uses. `wants` is the configured `frame_types`: it
  decides which sockets are opened (`Roles`; NONE opens the video socket), what a stream asks for
  (`Subscription`) and whether preview and quality are written on a connect (`TellsSetting`: only
  with video). Preview and quality are the same protocol on two independent atomics, so there is one
  `setting`. A protocol error ends the audio reader on a live link (`AudioProtocolError`); the video
  reader goes on.
* `Sender`. `WritePeers` is `write_peers`, with every outcome a write may have. `depth = 0` is a
  sender without queues, which writes in the caller. A poll may read any number of the messages that
  are on their way; bytes that are not framed (a refused header, a negative length, more than
  `PEER_INBOUND_CAP`) lose what was read behind them. `add_peer` may fail for one of the accepted
  streams, and `poll_accept` then drops those behind it.
* `FrameChannel`. The buffer is an interval of the stream's offsets. A header read anywhere but at
  a frame's start is payload and may say anything.
* `Settings`. `file` is what `settings.xml` holds: the elements written so far and whether the closing
  tag is there. `SaveBegin` truncates, `SaveEnd` writes all of it, `SaveFail` and a crash stop at any
  element, or behind the closing tag, where only the last newline is missing and the file loads whole. A value is its text and whether white space surrounds it, which the parser trims.
* `Discovery`. An instance is used by one thread; a call is cut where another thread can come in
  between (`GetState`, `InstallState`, `Advertise`; each withdrawal; the two ends of `refresh`). The
  server is what `Registry` promises, which `DiscoveryServer` is proved to implement; requests reach
  it later, or not at all once it has gone. Nothing between an instance's creation and its drop reads
  the settings, so `Configure` is confined to times when no source is registered.
* `Fpa1`. A plane of samples is a value; the bitfield is a set of channels.
* `VideoEncoder`. Operators that are steps of `MediaPath`. The `vmx` crate may refuse any frame and
  is trusted to return the picture it was given, if it still has it.
* `MediaPath`. Payload and metadata are sequences of units, so that a metadata length that does not
  fit its field (`MetaWidth` for 2^16) splits the body where the receiver would. `drops` keeps, for
  each counter, the frames it counted. The wire queue and what follows it are `ReceivePipeline`'s;
  here `seen` is what the reader hands over. A write may time out with the peer kept
  (`WriteTimesOut`): the frame is lost (`late`), and if part of it was written the connection is
  `torn` and the frames written behind the cut are not followed (`torn`), since the receiver may
  read anything there. Peers other than this receiver, a sender without queues
  (`send_queue_depth` 0; here `QueueDepth` is positive) and the session's own state are in `Sender`
  and `ReceiverSession`.
* `TimestampClock`. `Tick` may happen between any two steps of `resolve`, so the value of
  `wall_ticks` is stale as soon as it is read.

## 3. Runs

| run | bounds | result |
|---|---|---|
| `DiscoveryServer` | 2 clients (writes to one of them may fail), 2 sources (one named by both clients, one by one), 2 requests, 1 start | passes |
| `DiscoveryServer_agree` | 2 clients, 1 source, 1 request, no failing writes | `ClientsAgree` is violated |
| `ReceivePipeline` | wire queue 2, decoded queue 1, 4 frames | passes |
| `ReceiverSession` | frame types video and audio, metadata alone, NONE; 2 values, 2 changes, 2 failures, with and without auto-reconnect | passes |
| `ReceiverSession_state` | 1 failure | `ConnectedMeansActive` is violated |
| `Sender` | 2 peers (one slow), 1 ingress, queues of 0 and 2, 2 video frames, 1 audio frame, 1 message per peer out of 3, one of them unframed | passes |
| `Sender_framing` | 1 peer | `StreamsFramed` is violated |
| `FrameChannel` | all streams of up to 3 frames (header 2, bodies 0 to 2, each form), reads of 1 to 3, limit one above the largest frame, every point of breakage | passes |
| `TimestampClock` | audio clock, 2 formats, intervals default 2, 0 and 3, 8 ticks | passes |
| `Discovery` | 2 instances, 2 names (one contained in the other, one used by both), 2 settings, 2 connections, four budgets of steps (below) | passes |
| `Discovery_orphan` | 2 instances, 2 calls | `NoOrphans` is violated |
| `MediaPath` | both sockets, 2 audio threads, queues of 2, audio channel 1, metadata channel 2, metadata lengths modulo 3, up to 3 audio channels, five workloads (below) | passes |

Why these bounds are enough for the cases that matter:

* discovery: two clients give a registration and a deregistration race, a departure during a
  snapshot, and a second registration of a taken source; a second start is not run, since the safety
  properties are proved for any number of starts and `StopTerminates` speaks of one of them;
* pipeline: four frames fill a queue of two while one is being decoded and one is dropped;
* session: two failures allow a reconnect to fail in turn, or both sockets to fail; the three
  configurations are a session with both sockets, one with a socket but no video, and one that
  subscribes to nothing;
* sender: two frames can be out of order, and one slow and one healthy peer show interference;
* channel: three frames of three bytes or more, with reads of up to three, cover a header or a body
  cut anywhere, two frames in one read, and a buffer at its limit;
* clock: eight ticks are several intervals late;
* discovery facade: every behaviour draws one of four budgets: three calls; two calls while the
  network and the server change twice; two calls and a crash; edits and saves of the settings with
  a crash. Three calls are a registration by each instance and one more; two saves allow a cut save
  after a good one;
* media path: every behaviour draws one workload: textures of two sizes with raw frames between them
  (four calls); textures while the quality or the connection changes once; every form of video frame
  with metadata below, at and above the width of its length; every kind of audio frame, legal and
  refused; audio of two threads with metadata while, twice, a connection breaks or a write times
  out. Queues of two are full after two calls.

What the passing runs say is next to each property in its module. The deep ones: settled discovery
clients agree with the registry except for the three cases the model names (`BroadcastsConverge`); the
threaded server implements the atomic registry (`RegistryImplemented`); every frame read is delivered
or counted exactly once (`FramesConserved`), in order (`ArrivalOrder`); the sender of a session with
video ends up with the live setting through every mix of reconnect and change (`SettingConverges`);
`disconnect` returns
although a handle may be installed too late (`DisconnectReturns`); a healthy subscriber misses no
accepted frame, and gets each once and in order, whatever the other peers do (`StreamsExact`);
reassembly is exact for every cut of
the stream (`GenuineUntilRefused`) and refuses no legal stream (`LegalNeverRefused`, with the exact
size at which that ends); up to the cut a timed-out write may leave in a stream, a picture never
travels under another frame's header, even when it is finished calls later or after its codec was
replaced (`PicturesMatch`); every frame a call accepted has exactly one fate (`OneFate`: no statistic
shows four of them, lost with a connection, in a write that timed out, behind its cut, at a full
audio queue of the sender, and the property says where each can happen); what `register` accepted is offered and what was withdrawn
is gone (`RegisteredIsOffered`, `NothingLeftBehind`); a load gives the last save if it got past the
closing tag, and nothing otherwise (`LoadsLastSave`).

**Findings.** The violation runs are disagreements between the code and what its documents say:

1. `DiscoveryServer_agree`: the snapshot for a new client is written after the lock is released and
   can follow the removal of a source, which the client then lists for good.
2. `ReceiverSession_state`: `state()` stays `Connected` when the last socket has gone and
   `auto_reconnect` is off.
3. `Sender_framing`: a time-out inside a frame leaves half a frame on a stream that is kept.
4. `Discovery_orphan`: two threads that use DNS-SD first at the same time create two daemons; what
   the one that lost the `OnceLock` advertises is never withdrawn.

Other disagreements, which the models contain and no run of their own shows:

* `wire_queue_depth` drifts up by one when the decoder's saturating decrement overtakes the reader's
  increment; `GaugeCoversQueue` bounds it from the safe side.
* A captured frame may still wait after `set_encoded_capture(false)` ("Turning it off drops whatever
  was waiting.", `receive.rs:652`); `CaptureAccounted` counts it.
* Metadata and `OMTInfo` go to peers that subscribed to nothing (`PROTOCOL.md:104`), and to the audio
  socket, where each is counted in `frames_dropped_audio` ("Audio frames dropped or rejected.",
  `types.rs:464`); `OneFate` states the exception.
* A session that asks for metadata without video has a video socket and takes `set_preview` and
  `set_suggested_quality`, but neither the first connect nor a reconnect tells the sender the value
  (`receive.rs:1037`), although their documentation says "Reconnects reuse this value"
  (`receive.rs:715`, `:723`). `SettingConverges` therefore speaks of sessions with video.
* A frame whose write times out is lost on a connection that stays, and `broadcast` has counted it as
  sent (`send.rs:748`, `:1034`); `OneFate` has it under `late`.
* Of two broadcasts about one source that several clients name, a client may get the older one last
  and keep a wrong list; `BroadcastsConverge` exempts such sources.
* `decode_audio_frame` drops per-frame metadata, although `DecodedAudioFrame` has a field for it.
* Per-frame metadata of 65536 bytes or more loses its front, which becomes the tail of the payload;
  `PicturesMatch` and `ContentIntact` show that picture and sound survive.
* Frames with alpha, which the sender sends, are refused by this crate's receiver.
* An instance that reconnects to the server before its old connection has been noticed to be gone may
  end up unregistered (`contested` in `Discovery`).

**Fairness.** Weak fairness of each thread, and of a call once begun; none of the application's
decision to make a call, nor of a peer's behaviour. The code justifies it: every read has a time-out
(200 ms in discovery, 20 ms in the receiver), every write one (5 s in discovery, 40 ms and 8 ms in
the sender), `accept` is polled, no lock is held across a wait other than a bounded write. In
`DiscoveryServer` clients also read what is sent to them; a write that fails is a step as well. In `ReceiverSession` failures are bounded,
so `Recovers` reads: once links stop failing. In `FrameChannel` the bytes sent before the end arrive.

`Discovery` and `MediaPath` check safety only and state no fairness.

**Deadlock** is checked in every passing run but `Discovery`, where the budget of a behaviour runs
out; elsewhere the states in which a system has really ended are explicit stuttering steps (`Joined`,
`Finished`).

## 4. Proofs

Eight modules hold theorems; tlapm checks them to the last leaf. Each one states, for every value of
the constants, what a run checks on a small instance. The inductive invariants were run through TLC
before they were proved.

* `DiscoveryServerProofs` assumes only that the special values are no clients, that bounds are
  naturals, that `Uses` gives each client a set of keys and that `Slow` is a set of clients. The inductive invariant `IInv` adds to
  the properties: who is in the peer map (exactly the connections whose thread has not yet cleaned
  up, and the one being accepted), what the accept thread holds while it serves a new peer, and that
  pending writes belong to threads that are in a sending state. `OwnersServed` is not inductive
  without it: a registration by a thread whose connection has already left the map has to be
  excluded. `ImplementsRegistry` shows that `Init` maps to `Registry!Init` and every step to a
  registry step or a stutter; it needs `UniqueKeys` (so that a key has one owner) and
  `StoppedIsClean` (so that the clears remove nothing).

  `BroadcastsReachEveryone` needs a second invariant, `NewsInv`. A source that one client names is
  written about by that client's thread and by the accept thread only (`NamedByUsers`). `Told(c, k)`
  follows the news of source `k` to connection `c`: every write that a peer thread still has to make
  says what the registry says, because that thread finishes one batch before it takes the mutex
  again; if there is no such write, what the client will list after it has read its socket
  (`EndsWith`) is what the registry says, or the snapshot still to be written will make it so. The
  accept thread is the exception the property names: its snapshot may be older than the registry,
  which is what `stale` records; a failed write takes its client out of the claim and nobody else.
* `ReceivePipelineProofs` assumes positive capacities. Conservation and order need the bounds of the
  queues and the relation between the decoder's state and the frame it holds; the gauge needs the
  updates in flight on both sides.
* `ReceiverSessionProofs` holds for any values, any number of changes and failures, and any configured
  frame types. `ThreadInv` says what a supervisor's position tells about its stream and its handle;
  `UserInv` that only the join stores `Stopped`. `SettingInv` is the argument for
  `SettingReachesSender`: the value the sender will end with is the youngest message in
  `outbound_meta`, else the youngest of the batch being flushed, else what `subscribe_socket` has
  loaded, else what the sender has; each of them, when it is the first of these that exists, is the
  live setting, except between the store and the push of one change. It is claimed for sessions with
  video only; without video a reconnect loses what was not flushed.
* `SenderProofs` assumes a finite set of ingress threads and natural bounds. The frames not yet
  written are the last ones offered, one in the writer's hand and the others in the queue, in order
  (`QueueInv`); an open connection is in the map and close leaves the map empty (`MapInv`); a frame is
  due to a peer from its subscription on (`DueInv`); no stream is ahead of the writer (`GotInv`).
  `WriteEffect` is what any mix of outcomes in `write_peers` comes down to. `ClosedIsQuiet` is an
  action property and follows from `MapInv`.
* `FrameChannelProofs` assumes sizes are naturals and that streams have no gaps. The invariant says
  that until a refusal the buffer starts where the frame after the delivered ones starts, and that
  nothing past the bytes sent has been read.
* `TimestampClockProofs` relates the locals of `resolve` to the timeline: `diff` is the distance to
  some earlier reading of the clock, which is why a step is never ahead after pacing and at most one
  interval behind after skipping.
* `DiscoveryProofs`. `FileInv`: what is on disk, parsed, is what the last save wrote, and a save under
  way has left nothing; it rests on the fact that parsing undoes `to_xml` up to trimming. `CallsInv`:
  what an instance still has to withdraw it no longer has registered, so a withdrawal never takes a
  source accepted since. `DaemonInv`: nothing is advertised before a daemon is installed, and what the
  installed one advertises is accounted for. `ServerInv`: each registration on its way is accounted
  for or followed by its removal, and each removal of a source registered again is followed by the
  registration, so that requests applied late and in order end where the instance is.
* `MediaPathProofs`, the largest, has two parts. `RoundTrip` says that unpacking what was packed, with
  any data behind it, returns the planes. Packing puts at place `k` the active channel with `k - 1`
  active channels before it; unpacking reads channel `i` at the number of active channels before it.
  The proof is that this rank is injective on the active channels and smaller than their number, so
  that both speak of the same plane; `MCMediaPath` checks that the packing is the code's loop.
  The invariant of the path then says: every queue, stream and channel holds only frames built from
  what a call was given (`TypeInv`), which with `RoundTrip` gives `ContentIntact` and
  `PicturesMatch`; a pending texture is the youngest submitted and the encoder has no other
  (`EncoderInv`); the places between two applications form lines in which no frame is ahead of one
  it may not overtake (`OrderInv`, `ThreadInv`), which gives `InCallOrder`; and each frame is in exactly
  one place (`FateInv`), which gives `OneFate`. The geometries, calls, metadata lengths, threads and
  capacities are arbitrary, except that the sender has queues (`QueueDepth` is positive).

Loops of the code that only collect or filter are written as what they compute, since the provers see
nothing of `SelectSeq`, folds or LAMBDA: `ApplyAll` (the messages of one read), `Only` (what
`deregister` and `to_xml` keep), `EncodePlanar` in `Fpa1`. The `MC` modules carry assumptions that TLC
evaluates, which say that each is the loop it stands for (`ApplyAllIsTheLoop`, `OnlyIsTheFilter`, and one on `EncodePlanar`).

`UniqueKeys`, `OwnersServed`, `StoppedIsClean`, `EventsBracketThread` and `LatestWins` are proved for
every instance and are no longer repeated in a run.

Only model-checked: all liveness (`StopTerminates`, `StopEndsThreads`, `DisconnectReturns`,
`Recovers`, `WritersEnd`, `AllDelivered`), which this prover does not reach, nor anything with
ENABLED or that needs induction over data; and `SourcesMerged`, which speaks of a sorted list
(`SortSeq`, a fold). `MCFrameChannel` enumerates streams with a recursive operator, so it is kept
apart from the module the proofs extend.

## 5. Not modelled

* The VMX codec (a separate crate), GPU context and colour conversion: pixel arithmetic.
* XML text and the PTZ, ancillary, web and redirect documents; URLs; sanitising and truncation of
  names: string processing.
* Logging, error texts, plain data types; async wrappers, which run the modelled calls on other
  threads; buffer pools, each owned by one thread, which change allocation only.
* Left out of modelled parts: durations, endpoint selection, statistics other than the drop
  counters, spawn and socket-option failures, concurrent use of cloned server handles, test helpers
  (`force_subscribe`, `force_preview`), the port range read from the settings; what a receiver or a
  discovery client makes of a stream behind a cut, other than `FrameChannel`'s account of it. Saturating 64-bit time
  arithmetic is exact in the model.
* In `Settings`: a key named `Settings`, which the parser cannot tell from the root element, and two
  processes saving at once.

## 6. Plan

1. *Done:* discovery server with its abstract registry; receive pipeline; receiver session; sender;
   frame channel; timestamp clock; settings; discovery facade; audio codec; video encoder and the
   media path from sender to receiver; every safety property of the passing runs but `SourcesMerged`
   proved for all instances.
2. *Next, proofs:* `SourcesMerged`, with the merge of the two back ends restated as the set it holds
   and its order; action properties that say what a step of one component never does to another
   (a source never changes its owner, a counter never falls, a handle is never installed after
   `disconnect` has returned); an abstract specification of the sender as a lossless channel per
   healthy subscriber, and of `FrameChannel` as a queue of frames, with the refinements.
3. The inbound buffer of a peer (`ingest_peer_bytes`), whose refusals `Sender` has, as a second user
   of reassembly at the grain of bytes.
