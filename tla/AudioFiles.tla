----------------------------- MODULE AudioFiles -----------------------------
(***************************************************************************)
(* Sound from files and to them: the sources that turn WAV, MP3, Opus and  *)
(* raw PCM into frames of FrameSamples (source.go, audio.go), and the      *)
(* recorder that writes WAV (sink.go).  A sample is a number, and so is a  *)
(* word of a file; averages and interpolations are kept as multiples of    *)
(* their divisor, which is the same for all of a file.                     *)
(***************************************************************************)
EXTENDS Integers, Sequences, SequencesExt, FiniteSetsExt

CONSTANTS
  FrameSamples, SampleRate,
  ReadBuffer,           \* words that a decoder reads at once, 8192 bytes
  WriteBuffer,          \* words that the recorder's bufio.Writer holds
  WordTop,              \* 32768: words are below it
  Recordings,           \* files to play, each with whether it can be played
  PeerFrames,           \* frames to record
  MaxOpens, MaxRecords  \* bounds: files opened, frames recorded

ASSUME AudioAssumption ==
  /\ {FrameSamples, SampleRate, ReadBuffer, WriteBuffer, WordTop} \subseteq Nat \ {0}
  /\ PeerFrames \subseteq Seq(Int)

VARIABLES
  source,               \* the frameSource or pcmS16Source, when there is one
  played,               \* what the file says, and the samples that came of it
  recorder,             \* the wavRecorder with its file
  opens                 \* files opened

audioVars == <<source, played, recorder, opens>>

AudioInit ==
  /\ source = <<>> /\ opens = 0
  /\ played = [good |-> TRUE, opened |-> TRUE, said |-> <<>>, samples |-> <<>>, over |-> FALSE]
  /\ recorder = [header |-> 0, disk |-> <<>>, buffered |-> <<>>, dataLen |-> 0, closed |-> FALSE,
                 heard |-> <<>>]

Silent(n) == [i \in 1..n |-> 0]

-----------------------------------------------------------------------------
(* Decoding.                                                               *)

\* The channels of a group together.
Mix(group) == FoldLeft(LAMBDA a, b : a + b, 0, group)

\* wavMono: whole groups of words, one of each channel.
WavMono(words, channels) ==
  [i \in 1..(Len(words) \div channels) |-> Mix(SubSeq(words, (i - 1) * channels + 1, i * channels))]

\* The sample at a position, in parts of SampleRate.
Between(samples, position) ==
  LET i == position \div SampleRate + 1  part == position % SampleRate IN
  samples[i] * (SampleRate - part) + samples[i + 1] * part

\* How many positions, a step apart, have a sample at either side.
Positions(samples, start, step) ==
  Cardinality({k \in 0..(Len(samples) * SampleRate) : (start + k * step) \div SampleRate + 1 < Len(samples)})

NewDownmixResampler(inRate, channels) == [inRate |-> inRate, channels |-> channels, pos |-> 0, last |-> <<>>]

\* Faulty variant: every chunk is resampled on its own.
Process_NoCarry(d, mono) ==
  LET n == Positions(mono, 0, d.inRate) IN
  IF d.inRate = SampleRate THEN [d |-> d, out |-> mono]
  ELSE [d |-> d, out |-> [k \in 1..n |-> Between(mono, (k - 1) * d.inRate)]]

\* downmixResampler.process: the last sample and the position go on to the next
\* chunk.
Process(d, mono) ==
  LET samples == d.last \o mono
      start == d.pos + Len(d.last) * SampleRate
      n == Positions(samples, start, d.inRate)
  IN IF mono = <<>> \/ d.inRate = SampleRate THEN [d |-> d, out |-> mono]
     ELSE [d |-> [d EXCEPT !.pos = @ + n * d.inRate - Len(mono) * SampleRate, !.last = <<Last(mono)>>],
           out |-> [k \in 1..n |-> Between(samples, start + (k - 1) * d.inRate)]]

\* more of WAVFile and MP3File: what is left of a group of channels is dropped,
\* and a short read is the last one.
MoreWords(s) ==
  LET n == Min({ReadBuffer, Len(s.left)})
      r == Process(s.res, WavMono(SubSeq(s.left, 1, n), s.res.channels))
      after == [s EXCEPT !.left = SubSeq(@, n + 1, Len(@)), !.res = r.d, !.pending = @ \o r.out]
  IN IF n < s.res.channels THEN [s EXCEPT !.left = SubSeq(@, n + 1, Len(@)), !.done = TRUE]
     ELSE [after EXCEPT !.done = n < ReadBuffer /\ Len(after.pending) < FrameSamples]

\* more of OpusFile: the next packet with samples beyond the pre-skip.
MorePackets(s) ==
  LET Until(i) == Len(FlattenSeq(SubSeq(s.left, 1, i)))
      sounding == {i \in DOMAIN s.left : Until(i) > s.skip}
      i == Min(sounding)
  IN IF sounding = {} THEN [s EXCEPT !.left = <<>>, !.done = TRUE]
     ELSE [s EXCEPT !.left = SubSeq(@, i + 1, Len(@)), !.skip = 0,
                    !.pending = @ \o SubSeq(s.left[i], Max({0, s.skip - Until(i - 1)}) + 1, Len(s.left[i]))]

More(s) == IF s.kind = "opus" THEN MorePackets(s) ELSE MoreWords(s)

\* A closed file gives no more, but io.LimitReader still knows its end.
Readable(s) == ~s.closed \/ (s.kind = "wav" /\ s.left = <<>>)

\* The loop of frameSource.ReadFrame.
Refilled(s) == IF Len(s.pending) < FrameSamples /\ ~s.done /\ Readable(s) THEN More(s) ELSE s

Filled(s) ==
  LET after[i \in 0..Len(s.left) + 1] == IF i = 0 THEN s ELSE Refilled(after[i - 1])
  IN after[Len(s.left) + 1]

\* A frame, with silence for what is missing.
FrameOf(samples) ==
  SubSeq(samples, 1, Min({FrameSamples, Len(samples)})) \o Silent(Max({0, FrameSamples - Len(samples)}))

-----------------------------------------------------------------------------
(* Files.                                                                  *)

NewSource(kind, left, inRate, channels, skip) ==
  [kind |-> kind, left |-> left, res |-> NewDownmixResampler(inRate, channels), skip |-> skip,
   pending |-> <<>>, done |-> FALSE, closed |-> FALSE]

Pcm16(fmt) == fmt.format \in {1, 65534} /\ fmt.bits = 16 /\ fmt.channels >= 1 /\ fmt.rate >= 1

\* newWavReader: the first data chunk, behind a format; others are skipped, and
\* a format that cannot be played is refused where it stands.
NewWavReader(chunks) ==
  LET data == {i \in DOMAIN chunks : chunks[i].id = "data"}
      d == Min(data)
      formats == {i \in 1..(d - 1) : chunks[i].id = "fmt"}
      fmt == chunks[Max(formats)]
  IN IF data = {} THEN <<>>
     ELSE IF formats = {} \/ \E i \in formats : ~Pcm16(chunks[i]) THEN <<>>
     ELSE <<NewSource("wav", SubSeq(chunks[d].words, 1, chunks[d].size), fmt.rate, fmt.channels, 0)>>

\* WAVFile, MP3File, OpusFile and PCMStream.
SourceOf(f) ==
  CASE f.kind = "wav" -> NewWavReader(f.chunks)
    [] f.kind = "mp3" -> <<NewSource("mp3", f.words, f.rate, 2, 0)>>
    [] f.kind = "opus" -> <<NewSource("opus", f.packets, SampleRate, 1, f.preSkip)>>
    [] f.kind = "pcm" -> <<NewSource("pcm", f.words, SampleRate, 1, 0)>>

\* What a file says, all at once.
Said(f) ==
  LET Resampled(mono, rate) ==
        IF rate = SampleRate THEN mono
        ELSE [k \in 1..Positions(mono, 0, rate) |-> Between(mono, (k - 1) * rate)]
  IN CASE f.kind = "wav" -> Resampled(WavMono(f.words, f.channels), f.rate)
       [] f.kind = "mp3" -> Resampled(WavMono(f.words, 2), f.rate)
       [] f.kind = "opus" -> LET all == FlattenSeq(f.packets) IN SubSeq(all, f.preSkip + 1, Len(all))
       [] f.kind = "pcm" -> f.words

\* The sound of a WAV file is chunk d, in the format of chunk c: PCM of 16 bits,
\* as every format before the sound.
Sounds(chunks, c, d) ==
  /\ chunks[d].id = "data" /\ \A i \in 1..d - 1 : chunks[i].id # "data"
  /\ c < d /\ chunks[c].id = "fmt" /\ \A i \in c + 1..d - 1 : chunks[i].id # "fmt"
  /\ \A i \in 1..d - 1 : chunks[i].id = "fmt" => Pcm16(chunks[i])

\* What is said of a file to play is what it holds; a group of channels never
\* straddles two reads.
Labelled(f) ==
  /\ f.kind \in {"wav", "mp3", "opus", "pcm"} /\ f.good \in BOOLEAN
  /\ f.kind = "wav" =>
       /\ DOMAIN f.chunks = 1..Len(f.chunks) /\ Len(f.chunks) \in Nat
       /\ f.good = \E c, d \in DOMAIN f.chunks : Sounds(f.chunks, c, d)
       /\ \A c, d \in DOMAIN f.chunks : Sounds(f.chunks, c, d) =>
            /\ f.words \in Seq(Int) /\ f.words = SubSeq(f.chunks[d].words, 1, f.chunks[d].size)
            /\ f.rate \in Nat \ {0} /\ f.rate = f.chunks[c].rate
            /\ f.channels \in Nat \ {0} /\ f.channels = f.chunks[c].channels /\ ReadBuffer % f.channels = 0
  /\ f.kind = "mp3" => f.good /\ f.words \in Seq(Int) /\ f.rate \in Nat \ {0} /\ ReadBuffer % 2 = 0
  /\ f.kind = "opus" => f.good /\ f.packets \in Seq(Seq(Int)) /\ f.preSkip \in Nat
  /\ f.kind = "pcm" => f.good /\ f.words \in Seq(Int)

ASSUME RecordingsAssumption == \A f \in Recordings : Labelled(f)

Open(f) ==
  /\ opens < MaxOpens /\ opens' = opens + 1
  /\ source' = SourceOf(f)
  /\ played' = [good |-> f.good, opened |-> SourceOf(f) # <<>>, said |-> Said(f), samples |-> <<>>, over |-> FALSE]
  /\ UNCHANGED recorder

\* ReadFrame of a decoder: what is left when the file ends makes a last frame,
\* and a closed file is an error.
ReadFrame ==
  /\ source # <<>> /\ source[1].kind # "pcm"
  /\ LET failed(s) == Len(s.pending) < FrameSamples /\ s.closed /\ ~s.done
         none(s) == failed(s) \/ s.pending = <<>>
         Cut(s) ==
           /\ source' = <<IF none(s) THEN s ELSE [s EXCEPT !.pending = SubSeq(@, FrameSamples + 1, Len(@))]>>
           /\ played' = IF none(s) THEN [played EXCEPT !.over = @ \/ ~failed(s)]
                        ELSE [played EXCEPT !.samples = @ \o FrameOf(s.pending)]
     IN Cut(Filled(source[1]))
  /\ UNCHANGED <<recorder, opens>>

\* pcmS16Source.ReadFrame.
ReadPcmFrame ==
  /\ source # <<>> /\ source[1].kind = "pcm" /\ ~source[1].closed
  /\ source' = <<[source[1] EXCEPT !.left = SubSeq(@, FrameSamples + 1, Len(@))]>>
  /\ played' = IF source[1].left = <<>> THEN [played EXCEPT !.over = TRUE]
               ELSE [played EXCEPT !.samples = @ \o FrameOf(source[1].left)]
  /\ UNCHANGED <<recorder, opens>>

\* A player may read on after it: nextFrame holds no lock.
CloseSource ==
  /\ source # <<>>
  /\ source' = <<[source[1] EXCEPT !.closed = TRUE]>>
  /\ UNCHANGED <<played, recorder, opens>>

-----------------------------------------------------------------------------
(* The recorder.                                                           *)

Clamped(v) == Max({-WordTop, Min({v, WordTop - 1})})

\* External: what a full bufio.Writer writes through; it begins with the header.
Written(r, words) ==
  LET all == r.buffered \o words
      over == Len(all) - WriteBuffer
      kept == CASE over <= 0 -> Len(all)
                [] r.buffered # <<>> /\ over \in 1..WriteBuffer -> over
                [] OTHER -> 0
  IN [r EXCEPT !.disk = @ \o SubSeq(all, 1, Len(all) - kept), !.buffered = SubSeq(all, Len(all) - kept + 1, Len(all))]

\* WriteFrame; a frame that comes after Close is let go.
WriteFrame(frame) ==
  LET words == [i \in DOMAIN frame |-> Clamped(frame[i])] IN
  /\ Len(recorder.heard) < MaxRecords * FrameSamples
  /\ recorder' = IF recorder.closed THEN recorder
                 ELSE [Written(recorder, words) EXCEPT !.dataLen = @ + Len(words), !.heard = @ \o words]
  /\ UNCHANGED <<source, played, opens>>

\* Close: the rest goes out before the sizes are written over the first header.
CloseRecorder ==
  /\ ~recorder.closed
  /\ recorder' = [recorder EXCEPT !.closed = TRUE, !.disk = @ \o recorder.buffered, !.buffered = <<>>,
                                  !.header = recorder.dataLen]
  /\ UNCHANGED <<source, played, opens>>

\* The recording, played while it is made or afterwards.
OpenRecording ==
  /\ recorder.closed \/ recorder.disk # <<>>
  /\ Open([kind |-> "wav", good |-> TRUE, rate |-> SampleRate, channels |-> 1,
           chunks |-> <<[id |-> "fmt", format |-> 1, channels |-> 1, rate |-> SampleRate, bits |-> 16],
                        [id |-> "data", size |-> recorder.header, words |-> recorder.disk]>>,
           words |-> IF recorder.closed THEN recorder.heard ELSE <<>>])

-----------------------------------------------------------------------------
\* Frames are the sound of the file, one after the other and whole, with silence
\* at the end only, whatever the chunks in which it is decoded, resampled and
\* recorded, and as far as they come when it is closed early (source.go
\* frameSource and downmixResampler, sink.go wavRecorder).
FramesFollowFile ==
  LET missing == (-Len(played.said)) % FrameSamples
      whole == played.said \o Silent(missing)
  IN /\ played.opened = played.good
     /\ played.good => IsPrefix(played.samples, whole)
     /\ played.good /\ played.over => played.samples = whole
=============================================================================
