------------------------------ MODULE Formats -------------------------------
(***************************************************************************)
(* The languages of a call: the speech codec inside a payload, the packets *)
(* around it, the stanzas that set it up, and the files played into it.    *)
(* They share no state, so a behaviour follows one of them.                *)
(***************************************************************************)
EXTENDS MlowStream, MediaFormats, Signals, AudioFiles

VARIABLE layer          \* "speech", "packets", "signals" or "files"

formatsVars == <<layer, streamVars, wireVars, signalVars, audioVars>>

FormatsInit ==
  /\ layer \in {"speech", "packets", "signals", "files"}
  /\ StreamInit /\ WireInit /\ SignalsInit /\ AudioInit
  /\ layer # "speech" => dec.redundancy = 0

Speech == layer = "speech" /\ UNCHANGED <<layer, wireVars, signalVars, audioVars>>
Packets == layer = "packets" /\ UNCHANGED <<layer, streamVars, signalVars, audioVars>>
Signalling == layer = "signals" /\ UNCHANGED <<layer, streamVars, wireVars, audioVars>>
Files == layer = "files" /\ UNCHANGED <<layer, streamVars, wireVars, signalVars>>

FormatsNext ==
  \/ \E ip \in Unvoiced \cup Voiced : Speech /\ Analyze(ip)
  \/ Speech /\ SendFrame
  \/ Speech /\ SendContainer
  \/ Speech /\ SendRedundant
  \/ \E p \in Pauses : Speech /\ SendPause(p)
  \/ Speech /\ Lose
  \/ Speech /\ Receive
  \/ \E p \in Payloads : Packets /\ SendAudioPacket(p)
  \/ \E au \in AccessUnits, duration \in {0, 151} : Packets /\ SendAccessUnit(au, duration)
  \/ \E emoji \in Emojis : Packets /\ SendReaction(emoji)
  \/ \E plain \in Payloads : Packets /\ SendSframe(plain)
  \/ \E reports \in Reports : Packets /\ SendAudioReport(reports)
  \/ \E reports \in Reports : Packets /\ SendVideoReport(reports)
  \/ Packets /\ SendPing
  \/ Packets /\ SendAllocate
  \/ \E fmt \in {1, 4}, profile \in BOOLEAN, media \in {AudioSsrc, VideoSsrc} :
       Packets /\ PeerAsksKeyframe(fmt, profile, media)
  \/ \E units \in Aggregates, n \in 0..3 : Packets /\ PeerAggregates(units, n)
  \/ \E ids \in {<<2, 3>>, <<1, 0>>} : Packets /\ PeerReacts(ids)
  \/ \E end \in {<<1, 2>>, <<0, 0, 3>>, <<VarintBase, 0, 3>>, <<0, 0, 9>>} : Packets /\ PlainFrame(end)
  \/ \E sources \in {0, 2} : Packets /\ PeerSendsPlainRtp(sources)
  \/ Packets /\ RelayAsks
  \/ \E type \in {AllocateSuccess, AllocateError, WhatsappPong} : Packets /\ RelayAnswers(type)
  \/ Packets /\ Arrive
  \/ Signalling /\ Handle
  \/ \E o \in Offers : Signalling /\ PlaceCall(o)
  \/ Signalling /\ ServerRefuses
  \/ \E d \in Callees : Signalling /\ ServerSaysOver(d)
  \/ \E d \in Callees, o \in Offers : Signalling /\ CallerTransport(d, o)
  \/ \E latency \in Latencies : Signalling /\ CallerProbes(latency)
  \/ \E state \in {"0", "1"} : Signalling /\ CallerMutes(state)
  \/ \E d \in Callees : Signalling /\ Answer(d)
  \/ \E d \in Callees : Signalling /\ Reject(d)
  \/ \E d \in Callees : Signalling /\ TakenElsewhere(d)
  \/ \E e \in Ends : Signalling /\ Hangup(e)
  \/ \E e \in Ends : \E t \in {VideoStates.upgradeRequestV2, VideoStates.upgradeAccept, VideoStates.stopped} :
       Signalling /\ TransitionVideo(e, t)
  \/ \E e \in Ends, on \in BOOLEAN : Signalling /\ SetVideoEnabled(e, on)
  \/ \E e \in Ends, o \in {3} : Signalling /\ SetVideoOrientation(e, o)
  \/ \E f \in Recordings : Files /\ Open(f)
  \/ Files /\ OpenRecording
  \/ Files /\ ReadFrame
  \/ Files /\ ReadPcmFrame
  \/ Files /\ CloseSource
  \/ \E frame \in PeerFrames : Files /\ WriteFrame(frame)
  \/ Files /\ CloseRecorder

FormatsSpec == FormatsInit /\ [][FormatsNext]_formatsVars
=============================================================================
