# TLA+ verification of meowcaller

meowcaller is a Go library that places and answers WhatsApp voice and video
calls on top of whatsmeow.  This directory holds TLA+ models of its stateful
parts, the TLC configurations that check them on small instances, and proofs of
their main safety properties for all instances.  Paths below are relative to
`src/`.

Run a configuration with `tlc -config X.cfg MC<module>.tla`, the proofs with
`tlapm <module>Proofs.tla`.  `PROJECT.json` lists the runs, the faulty variants
each property is known to reject, the source lines behind every definition, the
findings, the hazards and the theorems.

## 1. Inventory

| Part | Source | State | Operations |
|---|---|---|---|
| Call registry | `call.go`, `session.go` | map call-id → session + cancel function, phase of a session | Insert, SetMediaTask, Transition, Remove, AbortAll |
| Call engine | `engine.go`, `livecall.go` | map call-id → `engineCall` (call, key, relay, started, cancel, acceptPending, flags, send handles); `Call` (phase, callbacks) | placeCall, answer, reject, hangup; onOffer, onPreAccept, onAccept, onReject, onRelay, onCallAck, onCallRaw (mute_v2, video), onTerminate, finishCall |
| Media goroutine | `engine_media.go` | context, relay channel, pipelines, tickers, counters | maybeStartMedia, connectAndAllocate, runMedia |
| Video control | `engine.go`, `engine_media.go`, `signaling/video.go` | localVideo, remoteVideo, videoGate; `videoSender` (active, sendGated, keyframeRequired, ch) | StartVideo, AcceptVideo, StopVideo, SetVideoEnabled, onVideoStanza, send, enable, disable, requestKeyframe |
| Media pipeline | `session.go`, `srtp/e2e.go`, `srtp/warp.go` | keys, rollover counters, sequence counters | ProtectAudio, ProtectRTP, UnprotectAudio, RekeyRecv |
| RTC app data | `appdata.go` | last transaction seen; sequence, timestamp, transaction sent | receive, sendReaction, close |
| Audio playout | `audio_playout.go` | pending frame, prefill, started | Push, Flush, reset |
| Player | `player.go` | source, state, callback | Play, Pause, Resume, Stop, nextFrame |
| RTP, RTCP, H.264 | `rtp/` | stream counters, reception statistics, FU-A buffer | NextPacket, Observe, Report, Depacketize |
| Relay signalling | end of `engine.go` | none | findRelay, parseIndexedTokens, parseRelayData, getMediaRelayEndpoint |
| Relay transport | `relay/relay.go` | UDP, DTLS, SCTP, DataChannel | ConnectRelayMedia, Send, Recv, Close |
| STUN, stanzas, HBH SRTP, SFrame | `stun/`, `signaling/`, `srtp/` | none, or a counter | builders and parsers |
| MLow codec | `mlow/` | filter memories, range coder | Encode, Decode |
| Device audio, diagnostics, sources, sinks, examples | `audio/malgo`, `diag`, `source.go`, `sink.go`, `examples` | buffers and files | I/O |

**Interaction.**  whatsmeow's receive loop calls the engine's handlers one after
the other.  The application calls the methods of `Call` from any goroutine, and
from callbacks.  Both work on `e.calls` under `e.mu` and on the fields of `Call`
under `Call.mu`, but every operation leaves the lock between its steps.
`maybeStartMedia` starts one media goroutine per `engineCall`; it has tickers
that send, and a loop that receives.  It reaches back into `e.calls` when it
registers its send handles and when it clears them, and into `Call` when the
first audio frame is decoded.

**What is hard here.**  Check-then-act across two locks (phases, video flags and
sender); races of everything with the end of the call; an id that is offered
again while the first call is still being torn down; the accept that is deferred
to a later stanza; media that starts from three places; a context whose
cancellation does not reach a blocking read; wrapping counters; lost, repeated
and reordered packets.  The list, line by line, is `hazards` in `PROJECT.json`.

**What makes each part correct.**

* Registry and engine: a media task runs only as long as its call; the end of a
  call is reported once; media starts once.
* Accept: only an answered call is accepted.
* Video: the sender follows the flags, stays behind the gate until the peer
  answers, and starts every stretch of video with an IDR frame.
* Pipeline: both ends use the same rollover counter; keys are those of the
  device that answered.
* App data: every reaction is reported once.  Playout: samples come out in order
  with nothing repeated.  Player: OnFinish once per source that ran out.

## 2. Modules

| Module | Models |
|---|---|
| `MediaOwnership` | abstract: a task is owned, then doomed, then dead; nobody is killed while owned, everybody disowned is killed |
| `CallRegistry` | `call.go`, phases of `session.go`; implements `MediaOwnership`; proved |
| `CallEngine` | one call-id in the engine, with the media goroutine's life; implements `MediaOwnership`; proved |
| `VideoControl` | video flags against the video sender; proved |
| `RelayMedia` | the media goroutine of an outgoing call: dial, helpers, rekeying of its receivers against the handler of the accept, OnPeerAccept; proved |
| `Playback` | players, files and microphones against the send loops of several calls; proved |
| `MediaReceive` | one RTP stream from a sender through a lossy relay to the receive loop; composes `SrtpRoc` (with `RtpNumbers`), `RtpStream`, `RtcpReception`, `AudioPlayout`, `H264Packet`, `AppData`; proved |
| `MlowStream` | speech from encoder to decoder; composes `RangeCoder`, `MlowTables`, `MlowFrame`, `MlowPacket` |
| `MediaFormats` | every packet of the relay channel, written and read; composes `RtpPackets`, `StunPackets`, `CallPayloads`, `SrtpRoc` |
| `Signals` | a caller, the devices of the callee and the server between them, over the builders and parsers of `Stanzas` |
| `AudioFiles` | audio sources cut into frames, the WAV recorder |
| `Formats` | the four above, one of them in each behaviour |

`MC<module>` instantiates a module for TLC; `<module>Proofs` holds its theorems.
`MediaReceiveProofs` has two parts: counters, reports, reactions and access units,
and the playout.  `FormatsProofs` is about `MlowStream` and `AudioFiles`,
`SignalsProofs` about `Signals` with the builders and parsers of `Stanzas`.

### MediaOwnership

Both the registry and the engine hand a cancel function from a table to the
thread that takes the entry out.  What they promise is the same: a task that is
in the table is never cancelled, one that has left it is about to be cancelled
by exactly one thread or cancelled already, and (with the threads' fairness) it
is cancelled in the end.

### CallRegistry

`calls[id]` and `mediaTask[id]` are the entry of an id, `phase[id]` the phase of
its session.  Each operation is the critical section under `r.mu`; the cancel
functions it takes out are kept by the thread (`pending`) and run by `RunCancel`
steps, as the code does after the unlock.  `AbortAll` takes them all at once.
The phase table of `TransitionTo` is the code's.

### CallEngine

Follows one call-id, because handlers touch `e.calls[callID]` only.  `slot` is
that entry, `ec` the fields of the `engineCall` objects, `phase` those of the
`Call` handles, `th` the program counter and locals of the threads, `media` the
media goroutine of each `engineCall`.  An action is what happens between two
locks, or between a lock and a send; for example `answer` is `AnswerLookup`,
`AnswerMark`, `AnswerPhase`, `StartMedia`, `StartPhase`.  `FinishTake` ..
`FinishSet` are `finishCall`, shared by its six callers.  The media goroutine
goes from `connect` (the dial is a goroutine of its own, `DialDone`) through
`register` to `loop`/`recv`, `ready` once, and `cleanup`.

Kept: every test, early return, failed send and their order.  Abstracted: keys,
relay data (present or not), stanza contents, the payload of media packets (the
first decoded audio frame is told from all others).  `OnEnd`, accept stanzas,
armed answers, loop starts and packets after cancellation are counted.

### VideoControl

One `engineCall`, one media goroutine.  `flags` and `videoTx` belong to `e.mu`,
`vs` is the sender with its own lock.  Every operation is: change the flags and
capture the sender; act on the captured sender; send; on failure undo.  Frames
are IDR or not (`kind`), `gap` says that the peer lacks a frame since the last
IDR, `wire` what the last frame on the channel was, `orphan` being one the peer
cannot decode.  A channel that failed once keeps failing: the DataChannel's
Write fails only when its stream or association is closed.

Two history variables say what an operation may be held to.  `alone`: no other
operation overlapped the last one that changed flags or sender (nor did the sender
register during one that acts to its end on what it captured at the start, see
`MissesSender`).  `request`: the StartVideo or StopVideo that is under way or has
returned, until something answers it or asks for something else.

### RelayMedia

CallEngine takes the media goroutine as far as its loop; this module has what it
starts and what changes under it.  The dial is a goroutine that opens the layers
of `ConnectRelayMedia` one by one and rolls them back when one fails.
`runMedia` copies the peer under `e.mu`, makes its five receivers, registers
`rekeyPeer` and compares the peer again; `onAccept` changes the peer under the
same lock and calls `rekeyPeer` outside it, which rekeys one receiver after the
other.  The watchdog, the keepalive and the report ticker end
at their context or at a failed send.  The send loop looks at its context only
between two frames: it asks the player for one (`Pull`), whose source may take as
long as it likes to give it, or for ever, and then sends or leaves it (`Deliver`,
`Refuse`).  `OnPeerAccept` and `markPeerAccepted`
share `Call.mu` and call the application outside it.

### Playback

A player's lock is not held while its source is read or closed or `OnFinish`
runs, so those are steps of their own, and a second call with the same player
can be in the middle of one.  A microphone is a bounded channel that the device
fills and nobody closes.

### MediaReceive

A peer that runs this library's send side numbers, seals and sends; `net` loses,
repeats and overtakes; the loop of `runMedia` guesses the rollover counter, reads
and hands the payload to the playout buffer, the depacketizer or the reaction
receiver.  A ciphertext is the key and the counter it was made with: opened with
others it is noise, which the audio decoder takes for sound, as the code does.
The history variables (`seen`, `heard`, `frame`, `reported`) hold what is true of
the stream, independently of the code's counters.  An access unit is sent packet by
packet (`BeginUnit`, `SendVideo`), `rest` being the packets of it not sent yet.

### MlowStream

`RangeCoder` is the coder of `rangecoder.go` on words of a smaller size, carries,
raw bits and the end of the packet included.  `MlowTables` builds the tables of
`cc_tables.go` and `pitch_seed.go` from a seed.  `MlowFrame` codes a frame's
parameters on both sides (LSF stages, gains, pitch lags with their prediction,
pulses by splitting, signs).  `MlowPacket` is the TOC byte and redundancy.
`MlowStream` adds the memories of both ends and the losses between them.  What
the signal processing finds in the sound is a free choice out of a few parameter
sets; what it makes of them is left out.

### MediaFormats

Packets are sequences of octets with small fields; the lengths, flags, offsets,
extension words and the octets a tag covers are the code's.  HMAC and CRC are
`Digest`, an opaque value of the octets before it; a cipher is the payload
tagged with key, counter and sequence number.  A packet travels with what its
sender meant; `result` compares that with what the reader took.

### Signals

A handler is one step here (CallEngine and VideoControl interleave them), but
what is in the stanzas is kept: devices, keys inline or per device, tokens by id,
endpoints, latencies, settings, video states.  The server is external: it routes,
checks the order of an offer's children (`signaling/stanza.go:13`), gives both
ends the same settings and relay block, and keeps the order of stanzas.
meowcaller never sends mute_v2 as a caller, nor a transport, nor relay latency
unasked; the builders of the library that do are used by the caller's client.
A device sends the probes of a relaylatency back, and the caller's engine does not read
what it gets (`engine.go:628`).
`findChild` recurses to any depth; what is searched in these stanzas nests two deep,
and `FindChild` looks that far, parents first.

### AudioFiles

Samples and words of a file are numbers.  A source reads chunks of `ReadBuffer`
words, mixes down the channels, resamples with the position carried over, and
cuts frames; the recorder writes through a buffer and rewrites its header when it
is closed.  Positions are exact, where the code adds up a float64 step.

## 3. Runs

| Run | Instance | Question |
|---|---|---|
| `registry` | 2 threads, 1 incoming and 1 outgoing call, 3 tasks | ownership of media tasks, forward phases |
| `engine_race` | 2 application threads + receive loop, 1 `engineCall`, 1 answer | all races within the life of one call, and its liveness |
| `engine_reoffer` | same threads, 2 `engineCall`s, 2 handles, no answers, symmetry | the id is offered again during or after a teardown |
| `video_race` | 2 application threads + receive loop, all operations and stanzas, symmetry | keyframe discipline, closing of the channel, agreement of sender and flags, the gate, under every interleaving |
| `media_receive` | one stream of 8 packets, 4 sequence numbers, 4 rollover counters | counters around wraps, reports, playout, access units, reactions, close |
| `playback` | 2 calls, 1 player, 2 files of one frame, 1 microphone, 3 operations | OnFinish, pauses, sources that are released |
| `relay_media` | callee with a second device that answers, 4 accepts or registrations | keys of the device that answered, helpers, notification |
| `formats` | 2 frames of speech; 3 packets; 5 signals; 2 files and 3 recorded frames | what is written is read as meant |
| `engine_phase_advances`, `video_stop`, `player_silence`, `relay_leak` | the instance of the passing run, or smaller | statements of comments the code does not keep, see 6 |

**Bounds.**  Two application threads and the receive loop are enough for every
pair of operations to overlap and for a third actor to meet them half-way (the
media goroutine is a fourth).  Tasks in `registry` allow a registration, a
replacement and a late registration.  `MaxAnswers` bounds the Answer calls per
`engineCall`: one suffices for the races of the accept, two show the re-arming.
Handles and `engineCall`s are used once each, so two of them cover an id that
is used again.  `video_race` leaves out SetVideoEnabled(false), which differs
from StopVideo by its stanza, and the peer's request states, which change
nothing in the modelled state.

In `media_receive`, `SeqSpace` 4 lets 8 packets wrap the sequence number twice, and
`TsMod` 12 the timestamps of two samples each at the seventh packet.  `RocMod` 4 is
there for `roc - 1` from 0; no run sends enough to wrap the counter itself.  A packet
is overtaken by fewer than `Delay` = 2 later ones; what is overtaken by more counts as
lost (`DecryptsInStep` is proved for every `Delay` up to half of `SeqSpace`).  The packets
that get through are less than half of `SeqSpace` apart and the first one after a
key comes before the first wrap: outside of that no guess can be right, and
`GuessRoc` gives `roc - 1` for a roc of 0 (the model keeps that result).
Reaction noise never decodes: protobuf parsing of random octets is not modelled.
In `relay_media` one device answers (`Answering`): with two, two accepts in a row
can rekey in the opposite order, and `runMedia`'s own comparison can rekey to a
peer that has just changed, which `KeyedForAnsweringDevice` would show.

`formats` shrinks the codec's words, tables and subframes until carries, empty
subframes, splits and both ways of coding a first lag occur in two frames.
SRTCP indexes stay below `IndexTop` and frame counters do not wrap.  Plaintexts
of SFrame are not empty (an empty one would be read as plain Opus).  Varints of
the reaction messages take one octet.  A WAV's channels divide the 8192 octets of
a chunk: with 3 channels the code drops the octets of a cut group, and every later
sample is read from the wrong channel.  `MaxWire` is the number of stanzas on
their way when somebody starts something new: with 1 an operation meets a stanza
that crosses it.

**Deadlock.**  In the engine and video models a system that has used up its
handles, or whose call has ended, rightly stops; `CHECK_DEADLOCK FALSE` says so.

**Fairness.**  A goroutine that has begun an operation continues (weak fairness
on its steps): Go schedules runnable goroutines, and no operation holds a lock
across something that waits for another one of them.  The media goroutine's own
steps are weakly fair, its timer included; so are its helpers (`RelayMedia`) and
send loops (`Playback`), whose tickers keep ticking, and the dial, which pion ends
with a result or an error.  In `RelayMedia` the source of the send loop is not fair:
the second part of `HelpersEnd` assumes that frames which can be encoded keep coming
(strong fairness of `Deliver`, as a hypothesis of the property).  `CloseReturns` uses a strongly fair lock: `close`
competes with copies that take it again and again, and Go's mutex hands itself
over to a waiter that starves.  Nothing is assumed of the application, the peer,
the network or the relay: they may stop at any time.  `Formats` has safety only.

**Environment assumptions.**  whatsmeow runs node handlers one at a time.  No
offer comes in for an id `placeCall` drew (16 random bytes).  Callbacks are the
application's: what they call is an application thread's operation.
Nothing is assumed of the order of video operations and stanzas.

## 4. What the runs show

* `TaskNeverOutlivesCall`, `CurrentTaskIsLive`, `LostTaskIsCancelled`: a task
  whose registration was replaced, removed or aborted is cancelled, a registered
  one is not, whatever runs in between.
* `OnEndAtMostOnce`, `FinishedCallIsNotified`: of all threads that end a call
  exactly one notifies, and it does.
* `MediaStartsOnce`, `FinishedMediaIsCancelled`, `LiveMediaIsNotCancelled`,
  `AtMostOnePacketAfterCancel`: media starts once, dies with its call and only
  with its call.
* `AcceptNeedsAnswer`: no accept without an Answer of its own.
* `NoOrphanFrame`, `NoSendAfterClose`: every stretch of video starts with an IDR
  frame, and a closed channel has no sender, whatever overlaps.
* `SenderFollowsFlags`: operations that overlap can leave the sender doing what the
  flags do not say (6 has two such traces); the next one that none overlaps puts it
  right, with failing sends and whenever the sender registers.  Not covered is a
  sender that registers during SetVideoEnabled(true) or the announcement after a
  state 4: when their send fails they undo with the sender they captured before.
* `GatedUntilAcknowledged`: from a StartVideo that no other attempt to turn video on
  overlapped to the peer's answer no frame passes, whatever stops and rejects cross it.
* `DecryptsInStep`: sender and receiver agree on the rollover counter of every
  packet that gets through.  `ReportIsTrue`: the next report counts what was
  lost, repeats and late packets included.
* `PlaysInOrder`, `NeverAhead`: the playout gives the sink each sample once and in
  order, except that a late or repeated packet restarts it (which the code does);
  what was played never exceeds what was spoken, whatever the decoder returned.
* `AccessUnitWhole`: what an interrupted access unit left does not reach the next.
  An access unit with a lost fragment in its middle is still delivered, shorter.
* `ReactionsOnce`, `CloseReturns`: ten copies make one reaction, and the teardown
  gets the lock from a sender in the middle of them.
* `FinishedOnce`, `OneFrameAfterPause`, `SourcesAreReleased`: also when two calls
  pull from one player while the application replaces its source.
* `KeyedForAnsweringDevice`: whichever of accept and registration comes first.
  `HelpersEnd`: watchdog, keepalive and reports end also when `runMedia` returns
  without a cancellation; the send loop does where its source gives what it is asked
  for.  One that waits in ReadFrame of a stopped microphone stays behind, see 6.
  `AcceptNotifiedOnce`: however registration and accept cross.
* `FramesDecodeAsSent`: every packet that arrives decodes to the parameters it was
  made of, whatever was lost before it.  `SearchFollowsWire`: the predictor of the
  encoder's pitch search is that of the wire, except in the very first internal
  frame, where a zero state says lag 0 instead of none.
* `ReadAsMeant`: packet kinds are told apart and fields read back.
* `HandledAsMeant`, `EndsAgree`: what is in a stanza reaches the other end; after
  an accept both ends have the same key, codec, names and relay.
* `FramesFollowFile`: no sample lost or repeated at the borders of chunks, frames
  and buffers.

## 5. What is proved

TLAPS proves, for all values of the constants that satisfy the named `ASSUME`s of
the modules:

| Proof module | Theorems |
|---|---|
| `CallRegistryProofs` | `TypeOK`, `TaskNeverOutlivesCall`, `CurrentTaskIsLive`, `PhaseMovesForward`; the registry's steps implement the safety part of `MediaOwnership` |
| `CallEngineProofs` | `TypeOK`, the six safety invariants of `engine_race`; the engine's steps implement the safety part of `MediaOwnership` |
| `VideoControlProofs` | `TypeOK`, `NoOrphanFrame`, `NoSendAfterClose`, `SenderFollowsFlags`, `GatedUntilAcknowledged` |
| `PlaybackProofs` | `TypeOK`, `FinishedOnce`, `OneFrameAfterPause` |
| `RelayMediaProofs` | `TypeOK`, `NotifiedAtMostOnce`; under `OneDeviceAnswers`: `KeyedForAnsweringDevice` |
| `MediaReceiveProofs` | `DecryptsInStep`, `ReportIsTrue`, `ReactionsOnce`, `PlaysInOrder`, `NeverAhead`; under `UnitsFit`: `AccessUnitWhole` |
| `FormatsProofs` | `SearchFollowsWire`; `FramesFollowFile`; `RecordingIsWhole`: a closed recording is what was heard; `ChunksResampleAsOne`: two chunks resample as one piece |
| `SignalsProofs` | `HandledAsMeant`, `EndsAgree`; `CallIsOne`, the inductive invariant behind them |

**Assumptions on constants.**  Nil is not an object, the receive loop is not an
application thread.  `SeqSpace` is even and greater than 2, `MaxGap` is at least two
frames and less than half of `TsMod`, a fragment has room for an octet beside its
two header octets.  `FrameLen * SeqSpace + MaxGap <= TsMod`: a timestamp does not
come round again within one round of sequence numbers; the code has 960 * 65536,
less than 63 million, against 2^32.  `RecordingsAssumption`: what is said of a file
to play is what it holds (a WAV is good when its first data chunk stands behind a
format and all formats before it are PCM of 16 bits), samples are numbers, and
channels divide a read, see the bounds of `formats`.  `SignalsAssumption`: the
caller is not one of the devices it calls, and no device has the name of the user;
the devices are different.  `OffersAssumption`: what is said of a call to place is
what it brings (`Understood`): the codec that its settings stand for, the allocation
that its relay block parses to, a block whose children have none of their own.
TLC evaluates it on the blocks of `formats`, whose allocations are written down, so a
parser that took tokens in another order would be seen there.

**Hypotheses of single theorems.**  `OneDeviceAnswers`: all accepts come from one device, see the bounds of
`relay_media`.  `UnitsFit`: the depacketizer drops what is larger than its limit, so
nothing is promised for such units.

**The argument.**  Each proof shows `Init => IInv`, `IInv /\ [Next]_vars => IInv'`
action by action, and `IInv => Property`; TLC checked the larger invariants on
the instance of their run first.  None of the properties is inductive alone:

* *Registry.*  `PhaseMovesForward` needs that an incoming session has rung from the
  start (`IncomingRang`): a move of a session to the phase it is in is legal, so one
  that was Calling could go there again.
* *Engine.*  `OnEndAtMostOnce` needs `FinishOK`: a handle some thread is ending
  belongs to no entry of the table and to no other ending thread.
  `FinishedMediaIsCancelled` needs `EntriesOK` (the cancel function is in the entry
  exactly while the entry is in the table and media was started) and `LocalsOK`.
  `LiveMediaIsNotCancelled` needs `CancelsOK`.  `AtMostOnePacketAfterCancel` needs
  `LateOK`: after a late packet the loop is never in Recv again.
  `AcceptNeedsAnswer` needs the count of `AcceptsCovered`, which includes accepts
  armed and in flight.
* *Video.*  `NoOrphanFrame` needs `KeyframeDue`: whoever withheld a frame is due for
  an IDR or still behind the gate, and lifting the gate is a recovery.
  The other two need `FlagsInv`.  The sender is registered as long as the loop runs
  (`Registered`), and operations are what they can be where they are (`WhoActs`).
  `SenderFollowsFlags`: while an operation is on its own (`alone`), it is the only one
  under way (`OneOperation`), the flags are as it set them (`Intended`), the sender it
  captured is the one there is (`NoneMissed`), and the sender follows the flags unless
  the operation has still to change it (`FollowsUnlessPending`).
  `GatedUntilAcknowledged`: from a request on, flags and sender are closed and nobody
  under way opens them (`HeldSinceRequest`).
* *Playback.*  `FinishedOnce` needs `GoneForGood` and `OneFinisher`: a source is in
  one player only, so whoever takes it out of that player takes it for good.
  `OneFrameAfterPause` needs `FailedIsOver` too: a loop whose player went idle
  because another loop failed on the same file finds the file at its end.
* *Relay.*  `KeyedForAnsweringDevice` needs to know who is on the way with which
  keys: `ReceiversFollow` lets a receiver differ from the peer only where one of the
  two rekeyings has still to come by, `RekeysForPeer` says they carry the peer of
  the entry, and `BeforeRegister` covers the time before the loop registered.
  `NotifiedAtMostOnce` needs `OneNotifier`.
* *Counters.*  `DecryptsInStep` needs `StreamInv`: every packet in flight carries the
  remainders of its number (`NetCounts`), the sender's counter is that of its next
  packet, the receiver's that of the highest it took.  That a packet less than half
  a round away is then guessed right is the lemma `GuessIsRight`, about
  `GuessRoc` alone.
* *Reports.*  `StatsInv` ties base, cycles, maximum and the prior values to what
  `seen` says, through `ObserveFollows`.  *Reactions.*  `ReactionsInv`: the last one
  reported is the newest of those that were due.
* *Playout.*  `PlayInv`: what was collected lies between what was played and the
  pending frame, and the samples are no more than it took to speak them.
* *Access units.*  `UnitsInv`: the packets of a unit follow each other in number
  (`UnitsInOrder`), and in the middle of a unit that is whole so far the
  depacketizer holds exactly what came of it (`Reassembles`).

* *Pitch search.*  `SearchFollowsWire` needs to know what the last internal frame
  left in the encoder's state and that a packet has three of them (`SearchInv`).
  `StreamSpec` is the speech layer of `FormatsSpec` by itself, `FilesSpec` the files,
  `SignalsSpec` the signalling.
* *Recorder.*  `RecorderInv`: file and buffer together are what was heard, whatever
  `bufio.Writer` wrote through (`WrittenKeeps`).
* *Files.*  `FramesFollowFile` needs to know what a source has yet to give: `Future`
  is what its undecoded rest would come to if it were resampled in one piece from
  the position carried over, or the packets beyond the pre-skip.  `FilesInv`: the
  samples so far, with what waits and the future behind them, are what the file says
  (`Follows`), until the last frame takes all of it with silence; a source that is
  done has no future.  Decoding moves samples from the future to what waits and
  changes nothing else (`MoreWordsKeeps`, `MorePacketsKeeps`).  The first rests on
  `ChunksResampleAsOne`: `Positions` of the first chunk and of the second, which
  starts where they left the position, count those of both (`PositionsAdd`).  The
  loop of `ReadFrame` ends because every turn of it consumes something or finds the
  end (`FilledKeeps`).
* *Signalling.*  What a handler reads is what was meant only if every stanza on its
  way still says what its sender means, to whoever takes it.  `Says` is that, kind by
  kind, in terms of what the reader looks for; the lemmas `...Speaks` prove it of the
  builders and the server's routing, for the offer by its parts (`OfferParts`,
  `OfferReads`) and with the order the server insists on, `Takes...` of the handlers.
  `OneCall` ties this to the entries: each is that of the call (`KeepsCall`), a device
  that an offer rings has no entry yet and is rung once, and the caller knows the
  codec or its ack is the first stanza on its way.  Without the last part an accept
  could overtake the settings and `EndsAgree` would fail on the codec.  `CallInv` adds
  that the call is placed first, which makes it inductive.

The installed provers cannot instantiate an induction rule.  Where a proof needs
induction (sums over the prefill in `MediaReceiveProofs`; turns of a loop and the packets
before another in `FormatsProofs`), the set of counterexamples is shown to have a
least element, from well-foundedness of the naturals (`LeastElement`,
`NatSetInduction`).

**Only model-checked.**

* Liveness, which TLAPS does not reach: `FinishedCallIsNotified`,
  `LostTaskIsCancelled`, `SourcesAreReleased`, `HelpersEnd`, `CloseReturns`, the
  second half of `AcceptNotifiedOnce`, the fairness part of `MediaOwnership`.
* Two invariants of `formats`.  `ReadAsMeant`: `StunPackets` uses Bitwise, which a
  module with theorems cannot reach.  `FramesDecodeAsSent` would be an induction over
  the rows of symbols that the range coder folds.

## 6. Disagreements with comments and tests

Four are runs that must fail; `findings` in `PROJECT.json` quotes the lines.

* `PhaseOnlyAdvances`: an ended call can ring again.  `onPreAccept` finds it Calling
  (`engine.go:672`), Hangup ends it, `onPreAccept` sets Ringing.  `onAccept`
  (`engine.go:717`) and `maybeStartMedia` write Connecting in the same way, the media
  loop Active.
* `StopVideoStops`: video goes on after StopVideo.  The peer's state 1 lifts the gate in
  the flags, StopVideo clears them, disables the sender and returns, and the handler,
  which captured the sender before, enables it (`engine.go:956`).
* `StoppedPlayerSendsSilence`: stopping a player whose microphone is being read
  stops everything the call sends, and its send loop outlives the call.
* `StackIsTornDown`: a dial that ends after its timeout leaves its stack open.

Four more are stated in `CallEngine` and `VideoControl`; TLC refutes each on the
instance named, used with the configuration of the run in brackets.

* `AcceptSentOnce`: a second Answer leads to a second accept
  (`engine_phase_advances` with `MaxAnswers` = 2).
* `HangupStopsMedia`: the cancelled goroutine waits in Recv
  (`engine_phase_advances`).
* `TxLiveWhileMediaRuns`: an ended call's goroutine takes the send handles of its
  successor (`engine_reoffer` with one thread and `MaxAnswers` = 1).
* `GateLiftedOnceAcknowledged`: a sender can stay gated after the peer's answer
  (`video_race`): the answer is handled between the flags and the sender of
  StartVideo, which then closes the gate nobody opens.

Seen in the code and not stated as properties: a failed write leaves a recording
whose header says it is empty (`sink.go:93`); WAVs with 3, 5, 6 or 7 channels lose
their alignment at chunk borders (`source.go:149`); the MLow tables are built
without a lock (`mlow/cc_tables.go:416`); a relay token with a negative id panics
(`engine.go:1280`).

## 7. Not modelled

* Signal processing of the codec on floating-point samples: filters, searches,
  synthesis (`celp_enc.go`, `celpdec.go`, most of `analysis.go` and `encoder.go`).
  TLC has no reals; its results enter as free choices.
* Ciphers, key derivation, HMAC and CRC: opaque, see MediaFormats.  Hop-by-hop
  SRTP, compact RTCP and the Android allocate, which the engine does not use.
* The numbers in `tables.pb.go`: generated data.
* Everything that waits on devices and files themselves: the speaker's ring buffer,
  decoders of MP3 and Opus, H.264 file sources.
* Torn reads of `SenderStats`, whose three counters are read one after the other: a
  report may count a packet without its octets.
* What happens when a helper ends early: reports stop at the first failed send.
* Diagnostics, logging, examples, and the reflection that installs hooks.
