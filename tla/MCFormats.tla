---------------------------- MODULE MCFormats -----------------------------
(* A small codec: 3 samples and at most 3 pulses a subframe, four pitch      *)
(* blocks.                                                                   *)
EXTENDS Formats

MCSeed(name, n) ==
  LET salt == FoldLeft(LAMBDA a, b : a + b, 0, Tail(name)) IN
  [i \in 1..n |-> (3 * i + 2 * salt) % 5]

MCBlocksegs ==
  <<[blocks |-> <<0>>,       seglens |-> <<4>>],
    [blocks |-> <<0, 1>>,    seglens |-> <<1, 3>>],
    [blocks |-> <<1>>,       seglens |-> <<4>>],
    [blocks |-> <<3, 2, 3>>, seglens |-> <<1, 2, 1>>],
    [blocks |-> <<2, 1>>,    seglens |-> <<2, 2>>],
    [blocks |-> <<3>>,       seglens |-> <<4>>]>>

MCBlocksegs2idx == <<4, 5, 6, 1, 3, 2>>

Lsf(stage1, grid, stage2, extra) ==
  [stage1 |-> stage1, grid |-> grid, stage2 |-> stage2, extra |-> extra]

Quiet == <<0, 0, 0, 0, 0, 0, 0, 0, 0, 0, 0, 0>>
Sharp == <<0, 0, -2, 1, 0, -1, 0, 0, 0, 0, 2, 0>>
Even  == <<1, 0, 1, 0, 0, 0, 0, -1, 0, -1, 0, 1>>

MCUnvoiced ==
  {[lsf |-> Lsf(0, 0, <<0, 0>>, 0), pulse |-> Quiet,
    gains |-> [main |-> 0, delta |-> 0, nrg |-> <<-1, -1, -1, -1>>]],
   [lsf |-> Lsf(0, 2, <<1, 2>>, 1), pulse |-> Even,
    gains |-> [main |-> 2, delta |-> 1, nrg |-> <<1, -1, 0, 2>>]]}

MCVoiced ==
  {[lsf |-> Lsf(1, 1, <<2, 0>>, 0), pulse |-> Sharp,
    pitch |-> [gain |-> <<0, 2, 1, 2>>, filt |-> <<1, 2, -1, 0>>, contour |-> 4,
               lags |-> <<7, 4, 4, 6>>]],
   [lsf |-> Lsf(1, 2, <<1, 1>>, 1), pulse |-> Even,
    pitch |-> [gain |-> <<1, 0, 0, 0>>, filt |-> <<2, -1, 1, 0>>, contour |-> 2,
               lags |-> <<1, 2, 2, 2>>]]}

MCGainFloor == -2

MCPauses == {[payload |-> <<>>, samples |-> 960], [payload |-> <<144, 0>>, samples |-> 960]}

-----------------------------------------------------------------------------
(* Packets: the source of slot 3 happens to be 0.                            *)

MCSsrc(slot) == IF slot = 3 THEN 0 ELSE 300 * slot + 40

\* Speech, comfort noise of one byte and of several, both priming frames.
MCPayloads ==
  {<<80, 3, 3>>, <<144>>, <<10, 5, 5>>, <<48, 1>>, <<18>> \o Zeros(17), <<144, 184, 20, 20, 196>>}

MCReports ==
  {<<>>, <<[ssrc |-> 77, fraction |-> 3, cumulative |-> 5, highest |-> 900, jitter |-> 2,
            lastSenderReport |-> 61, delay |-> 4]>>}

\* Parameter sets with an IDR among start codes of both lengths and a delimiter;
\* pictures without one that fit in a packet or do not; nothing to send.
MCAccessUnits ==
  {<<0, 0, 0, 1, 9, 240, 0, 0, 0, 1, 103, 66, 0, 0, 1, 101, 5, 0, 7, 0, 0, 1, 104, 3, 0>>,
   <<0, 0, 1, 65, 7>>, <<0, 0, 1, 65, 7, 8, 9, 10, 11, 12, 13, 14>>, <<0, 0, 1, 9, 16>>, <<65, 3>>}

MCAggregates == {<<<<103, 66>>, <<104>>>>, <<<<65, 1>>, <<1>>>>}

MCEmojis == {<<>>, <<9, 9>>}

-----------------------------------------------------------------------------
(* Stanzas: relay blocks with tokens in and out of order, by number and by   *)
(* place, beyond the limit, and endpoints of both lengths and all ranks.     *)

MCDevices == <<"b1", "b2">>

Te2(address, token, auth, fna) ==
  Node("te2", {<<"token_id", token>>, <<"auth_token_id", auth>>, <<"is_fna", fna>>}, <<>>, address)
NumberedToken(id, bytes) == Node("token", {<<"id", id>>}, <<>>, bytes)
PlainToken(bytes) == Node("token", NoAttrs, <<>>, bytes)
Key == Node("key", NoAttrs, <<>>, <<"k">>)
Host(n) == <<10, 0, 0, n, 3478, -1>>
RelayBlock(kids) == Parent("relay", {<<"call-id", "call">>}, kids)

Block1 ==
  [node |-> RelayBlock(<<Key, NumberedToken(1, <<"t1">>), NumberedToken(0, <<"t0">>),
                         Te2(Host(1), 0, 0, "1"), Te2(Host(2), 0, 0, "0"), Te2(Host(3), 1, 7, "0")>>),
   means |-> [address |-> Host(3), token |-> <<"t1">>, key |-> <<"k">>]]

Block2 ==
  [node |-> RelayBlock(<<PlainToken(<<"t0">>), PlainToken(<<"t1">>), Key, Te2(Host(1) \o Zeros(12), 0, 7, "0"),
                         Te2(Host(2), 0, 7, "1"), Te2(Host(4), 1, 0, "0")>>),
   means |-> [address |-> Host(4), token |-> <<"t1">>, key |-> <<"k">>]]

Block3 ==
  [node |-> RelayBlock(<<Key, NumberedToken(MaxRelayTokens, <<"t9">>), NumberedToken(1, <<"t1">>),
                         Te2(Host(1), 0, 0, "0")>>),
   means |-> NoAllocation]

Settings(content, codec) == [nodes |-> <<Node("voip_settings", NoAttrs, <<>>, content)>>, codec |-> codec]

MCOffers ==
  {[video |-> FALSE, count |-> 1, block |-> Block1, settings |-> [nodes |-> <<>>, codec |-> "mlow"], early |-> FALSE],
   [video |-> TRUE, count |-> 2, block |-> Block1, settings |-> Settings(<<[mlow |-> "false"]>>, "opus"), early |-> TRUE],
   [video |-> TRUE, count |-> 1, block |-> Block2, settings |-> Settings(<<Malformed>>, "mlow"), early |-> TRUE],
   [video |-> FALSE, count |-> 2, block |-> Block3, settings |-> Settings(<<[mlow |-> "0"]>>, "mlow"), early |-> TRUE]}

-----------------------------------------------------------------------------
(* Files: rates above, below and equal to the one of a call, with channels   *)
(* that divide the buffer of a decoder; WAV files that are refused.          *)

Fmt(channels, rate, bits) == [id |-> "fmt", format |-> 1, channels |-> channels, rate |-> rate, bits |-> bits]
DataChunk(words) == [id |-> "data", size |-> Len(words), words |-> words]
Other == [id |-> "LIST"]

Wav(channels, rate, words) ==
  [kind |-> "wav", good |-> TRUE, channels |-> channels, rate |-> rate, words |-> words,
   chunks |-> <<Other, Fmt(channels, rate, 16), Other, DataChunk(words)>>]

BadWav(chunks) == [kind |-> "wav", good |-> FALSE, channels |-> 1, rate |-> 2, words |-> <<>>, chunks |-> chunks]

Words(n) == [i \in 1..n |-> ((5 * i) % 7) - 3]

MCRecordings ==
  {Wav(1, 2, Words(n)) : n \in {0, 3, 4, 9}} \cup {Wav(2, rate, Words(n)) : rate \in {1, 3, 5}, n \in {13, 16}}
    \cup {[kind |-> "mp3", good |-> TRUE, rate |-> 3, words |-> Words(18)],
          [kind |-> "opus", good |-> TRUE, preSkip |-> 3, packets |-> <<<<1, 2>>, <<>>, <<3, 1, 2, 3, 1>>, <<2>>>>],
          [kind |-> "opus", good |-> TRUE, preSkip |-> 9, packets |-> <<<<1, 2>>>>],
          [kind |-> "pcm", good |-> TRUE, words |-> Words(6)],
          BadWav(<<Fmt(1, 2, 24), DataChunk(Words(4))>>), BadWav(<<DataChunk(Words(4)), Fmt(1, 2, 16)>>),
          BadWav(<<Fmt(0, 2, 16), DataChunk(Words(4))>>), BadWav(<<Fmt(1, 2, 16), Other>>)}

MCPeerFrames == {<<1, 2, 3, 4>>, <<9, -9, 0, 1>>}
=============================================================================
