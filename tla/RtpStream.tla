----------------------------- MODULE RtpStream ------------------------------
(***************************************************************************)
(* The send-side sequencers of rtp/rtp.go: RtpStream for audio and         *)
(* VideoRtpStream for video.                                               *)
(***************************************************************************)
EXTENDS RtpNumbers

NoWord == "none"
NoFrameNumber == -1

-----------------------------------------------------------------------------
(* Audio.  A payload is told by its class: dtx, priming or speech.         *)

NewRtpStream(ssrc, samples, piggyback) ==
  [ssrc |-> ssrc, seq |-> 1, timestamp |-> 0, samplesPerPacket |-> samples,
   speechStarted |-> FALSE, audioPacketIndex |-> 0, warpPiggyback |-> piggyback]

\* WarpPiggybackStartPacket: the first two packets carry no word.
PiggybackFor(index) == IF index < 2 THEN NoWord ELSE "piggyback"

\* resolveWarpExtension: a DTX frame takes no place in the piggyback count.
WarpExtension(s, dtx) ==
  IF dtx THEN "dtx"
  ELSE IF ~s.warpPiggyback THEN NoWord
  ELSE PiggybackFor(s.audioPacketIndex)

AudioHeader(s, class, marker) ==
  [marker |-> marker \/ (class = "speech" /\ ~s.speechStarted),
   kind |-> "audio", seq |-> s.seq, timestamp |-> s.timestamp, ssrc |-> s.ssrc,
   extension |-> WarpExtension(s, class = "dtx")]

\* The stream after NextPacket.
NextAudio(s, class) ==
  [s EXCEPT !.seq = (@ + 1) % SeqSpace,
            !.timestamp = (@ + s.samplesPerPacket) % TsMod,
            !.speechStarted = @ \/ class = "speech",
            !.audioPacketIndex = IF class # "dtx" /\ s.warpPiggyback THEN @ + 1 ELSE @]

-----------------------------------------------------------------------------
(* Video.  The packets of one access unit share a timestamp, the first one *)
(* carries the frame number, the last one the marker.                      *)

NewVideoRtpStream(ssrc, stride) ==
  [ssrc |-> ssrc, seq |-> 1, timestamp |-> 0, lastSentTimestamp |-> 0, sent |-> FALSE,
   tsStride |-> stride, transportSequence |-> 0, frameNumber |-> 1, firstPacket |-> TRUE]

SetTimestampStride(s, stride) == IF stride = 0 THEN s ELSE [s EXCEPT !.tsStride = stride]

VideoHeader(s, last, info) ==
  [marker |-> last, kind |-> "video", seq |-> s.seq, timestamp |-> s.timestamp,
   ssrc |-> s.ssrc,
   extension |-> [mediaFrameInfo |-> info,
                  frameNumber |-> IF s.firstPacket THEN s.frameNumber ELSE NoFrameNumber,
                  transportSequence |-> s.transportSequence]]

NextVideo(s, last) ==
  [s EXCEPT !.lastSentTimestamp = s.timestamp, !.sent = TRUE,
            !.seq = (@ + 1) % SeqSpace,
            !.transportSequence = (@ + 1) % SeqSpace,
            !.timestamp = IF last THEN (@ + s.tsStride) % TsMod ELSE @,
            !.frameNumber = IF last THEN (@ + 1) % SeqSpace ELSE @,
            !.firstPacket = last]
=============================================================================
