----------------------------- MODULE StreamParams -----------------------------
(***************************************************************************)
(* The parameters of a stream: what the client asks for in /launch and     *)
(* ANNOUNCE (servers.cpp, rtsp_commands.hpp), what the pipelines and the   *)
(* PulseAudio sink are made with at a start (media.cpp, launcher.cpp,      *)
(* pulse-sink.sh), and what a resume, which keeps the running app and its  *)
(* pipelines, changes in them (main.cpp).                                  *)
(*                                                                         *)
(* One session with one stream.  The RTSP thread runs ANNOUNCE and the     *)
(* start of a stream one after the other, so no ANNOUNCE falls between the *)
(* steps of a start.                                                       *)
(***************************************************************************)
EXTENDS EncoderConfig, SequencesExt

CONSTANTS
  NoArg,        (* an attribute the SDP of an ANNOUNCE does not have        *)
  Surrounds,    (* channel counts of surroundAudioInfo                      *)
  Asked,        (* values of numChannels, or NoArg                          *)
  Configured    (* values of configuredBitrateKbps, or NoArg                *)

ASSUME ParamsAssumption ==
  /\ Surrounds \subseteq Nat /\ NoArg \notin Nat
  /\ Asked \subseteq Nat \cup {NoArg} /\ Configured \subseteq Nat \cup {NoArg}

MaximumKbps == 15500
FecPercentage == 20
VbvMs == 500

VARIABLES
  surround,     (* audio_channel_count of the session                       *)
  budget,       (* history: what the last ANNOUNCE configured               *)
  bitrate,      (* video.bitrate_kbps of the session                        *)
  channels,     (* audio.channels of the session                            *)
  live,         (* the running encoder, its rate and its VBV (0: none)      *)
  audioChannels,(* of the running audio pipeline                            *)
  audioKbps,    (* rate of its Opus encoder                                 *)
  layout,       (* channels of the sink; 0: there is none                   *)
  pending       (* an ANNOUNCE since the last PLAY                          *)

paramVars ==
  <<surround, budget, bitrate, channels, live, audioChannels, audioKbps, layout, pending>>
vars == <<configVars, paramVars>>

NotLive == [encoder |-> NoEncoder, rate |-> 0, vbv |-> 0]

ParamsTypeOK ==
  /\ surround \in Surrounds
  /\ budget \in Configured \cup {NoArg}
  /\ bitrate \in Nat
  /\ channels \in Layouts
  /\ live \in [encoder : Plugins \cup {NoEncoder}, rate : Nat, vbv : Nat]
  /\ audioChannels \in Layouts
  /\ audioKbps \in Nat
  /\ layout \in Layouts \cup {0}
  /\ pending \in BOOLEAN

Init ==
  /\ ConfigInit
  /\ surround \in Surrounds
  /\ budget = NoArg /\ bitrate = MaximumKbps
  /\ channels = 2 /\ audioChannels = 2
  /\ live = NotLive
  /\ audioKbps = 0
  /\ layout \in {0, 2}
  /\ pending = FALSE

-----------------------------------------------------------------------------
(***************************************************************************)
(* What ANNOUNCE makes of the client's numbers.                            *)
(***************************************************************************)
Lesser(a, b) == IF a < b THEN a ELSE b

Arg(value, default) == IF value = NoArg THEN default ELSE value

(* for_channels: a layout the server does not have becomes stereo.         *)
ForChannels(n) == IF n \in Layouts THEN n ELSE 2

(* Faulty variant: the FEC's share is not taken off.                       *)
VideoKbpsWithoutFec(configured, n) ==
  IF configured = NoArg THEN MaximumKbps
  ELSE LET forVideo == configured - Lesser(96 * n, configured \div 5)
       IN forVideo - Lesser(500, forVideo \div 10)

(* Of a configured rate the FEC, the audio and some slack are taken off.   *)
VideoKbps(configured, n) ==
  IF configured = NoArg THEN MaximumKbps
  ELSE LET withoutFec == (configured * (100 - FecPercentage)) \div 100
           forVideo == withoutFec - Lesser(96 * n, withoutFec \div 5)
       IN forVideo - Lesser(500, forVideo \div 10)

(* encoder_vbv_kbit: half a second of it, and never 0 for a rate.          *)
VbvKbit(kbps) == LET vbv == (kbps * VbvMs) \div 1000 IN IF vbv > 0 THEN vbv ELSE kbps

(* bitrate_for_channels                                                    *)
OpusKbps(cfg, n) == cfg.opus[n]

(* Only NVENC's element has the property vbv-buffer-size; the VA block     *)
(* sets its cpb-size to the same value, x264's sets neither.               *)
HasVbvProperty(encoder) == encoder = "nvcodec"
SetsVbvAtStart(encoder) == encoder \in {"nvcodec", "va"}

(***************************************************************************)
(* Where a channel of sound goes.  A sink of n channels has the first n of *)
(* these, and so has Moonlight's output.                                   *)
(***************************************************************************)
SpeakerOrder == <<"FL", "FR", "FC", "LFE", "BL", "BR", "SL", "SR">>

(* opusenc couples the natural pairs and appends the rest.                 *)
Coded(n) ==
  CASE n = 6 -> <<"FL", "FR", "BL", "BR", "FC", "LFE">>
    [] n = 8 -> <<"FL", "FR", "BL", "BR", "SL", "SR", "FC", "LFE">>
    [] OTHER -> <<"FL", "FR">>

(* Coded channel, from 0, of each speaker.                                 *)
Mapping(n) ==
  CASE n = 6 -> <<0, 1, 4, 5, 2, 3>>
    [] n = 8 -> <<0, 1, 6, 7, 2, 3, 4, 5>>
    [] OTHER -> <<0, 1>>

(* Faulty variant: the mapping is sent as it is.                           *)
SpeakerStringUnrotated(n) == Mapping(n)

(* speaker_string: for the client, digit 4 goes to the end.                *)
SpeakerString(n) ==
  IF n > 2 THEN Append(RemoveAt(Mapping(n), 4), Mapping(n)[4]) ELSE Mapping(n)

(* The client moves the last digit back to where it expects it.            *)
ClientMapping(n) ==
  LET s == SpeakerString(n)
  IN IF n > 2 THEN InsertAt(Front(s), 4, Last(s)) ELSE s

-----------------------------------------------------------------------------
(* /launch: a new session with its channel count.                          *)
Launch(n) ==
  /\ stage = "idle"
  /\ surround' = n
  /\ UNCHANGED <<configVars, budget, bitrate, channels, live, audioChannels, audioKbps,
                 layout, pending>>

(* ANNOUNCE, before the first PLAY and again before the PLAY of a resume.  *)
Announce(fmt, n, configured) ==
  LET count == Arg(n, surround)
  IN /\ AskFormat(fmt)
     /\ budget' = configured
     /\ bitrate' = VideoKbps(configured, count)
     /\ channels' = ForChannels(count)
     /\ pending' = TRUE
     /\ UNCHANGED <<surround, live, audioChannels, audioKbps, layout>>

(* ensure_audio_sink with pulse-sink.sh: the sink has the layout already   *)
(* or gets it; or the script does not run, or cannot load the module       *)
(* again after it unloaded it.  The caller does not look at the outcome.   *)
PlaySink ==
  /\ StartSink
  /\ layout' \in {channels, layout} \cup (IF layout = channels THEN {} ELSE {0})
  /\ audioChannels' = channels
  /\ UNCHANGED <<surround, budget, bitrate, channels, live, audioKbps, pending>>

(* The pipeline runs if it links and reaches PLAYING.                      *)
PlayVideo ==
  /\ StartVideo
  /\ live' \in {NotLive} \cup
       (IF Links(pipeline')
          THEN LET encoder == pipeline'.block.encoder
               IN {[encoder |-> encoder, rate |-> bitrate,
                    vbv |-> IF SetsVbvAtStart(encoder) THEN VbvKbit(bitrate) ELSE 0]}
          ELSE {})
  /\ UNCHANGED <<surround, budget, bitrate, channels, audioChannels, audioKbps, layout, pending>>

PlayAudio ==
  /\ StartAudio
  /\ audioKbps' = OpusKbps(Loaded(file'), channels)
  /\ pending' = FALSE
  /\ UNCHANGED <<surround, budget, bitrate, channels, live, audioChannels, layout>>

(* update_bitrate: the encoder is found by its name.  g_object_set goes    *)
(* through its properties in order: the rate, and the VBV where there is   *)
(* such a property.                                                        *)
RateChanges ==
  live.encoder # NoEncoder /\ pipeline.block.named /\ bitrate > 0 /\ live.rate # bitrate

(* Faulty variant: the VBV of the first start stays.                       *)
UpdateBitrateOnly == live' = IF RateChanges THEN [live EXCEPT !.rate = bitrate] ELSE live

UpdateBitrate ==
  live' = IF RateChanges
            THEN [live EXCEPT !.rate = bitrate,
                              !.vbv = IF HasVbvProperty(live.encoder) THEN VbvKbit(bitrate) ELSE @]
            ELSE live

(* PLAY of a session whose app runs: the encoder gets its rate, and the    *)
(* audio pipeline is built again if its layout changed.                    *)
Resume ==
  /\ stage = "playing"
  /\ UpdateBitrate
  /\ audioChannels' = channels
  /\ IF audioChannels # channels
       THEN RebuildAudio /\ audioKbps' = OpusKbps(Loaded(file'), channels)
       ELSE UNCHANGED <<configVars, audioKbps>>
  /\ pending' = FALSE
  /\ UNCHANGED <<surround, budget, bitrate, channels, layout>>

Stop ==
  /\ StopStream
  /\ budget' = NoArg /\ bitrate' = MaximumKbps
  /\ channels' = 2 /\ audioChannels' = 2
  /\ live' = NotLive /\ audioKbps' = 0
  /\ pending' = FALSE
  /\ UNCHANGED <<surround, layout>>

Host == (Boot \/ Edit) /\ UNCHANGED paramVars

Next ==
  \/ Host
  \/ \E n \in Surrounds : Launch(n)
  \/ \E fmt \in Codecs, n \in Asked, configured \in Configured :
       Announce(fmt, n, configured)
  \/ PlaySink \/ PlayVideo \/ PlayAudio \/ Resume \/ Stop

Spec == Init /\ [][Next]_vars
-----------------------------------------------------------------------------
(***************************************************************************)
(* Properties.                                                             *)
(***************************************************************************)

(* Safety.  After every PLAY, the first as well as that of a resume, an    *)
(* encoder that a resume can find runs at the rate of the last ANNOUNCE,   *)
(* and NVENC, which can be told its VBV, with the VBV of that rate and     *)
(* never with one of 0 ("unbounded"), if the ANNOUNCE gave it a rate at    *)
(* all.                                                                    *)
RateAsNegotiated ==
  live.encoder # NoEncoder /\ pipeline.block.named /\ bitrate > 0 =>
    /\ live.rate = bitrate
    /\ HasVbvProperty(live.encoder) => live.vbv = VbvKbit(bitrate) /\ live.vbv > 0

(* Safety.  The audio pipeline has the channels of the last ANNOUNCE, and  *)
(* the client, with the mapping DESCRIBE sent it for them, plays what was  *)
(* coded for a speaker on that speaker.                                    *)
SpeakersAsNegotiated ==
  /\ audioChannels = channels
  /\ \A i \in 1 .. channels :
       Coded(channels)[ClientMapping(channels)[i] + 1] = SpeakerOrder[i]

(* Safety.  What a client configured holds all it is sent from 2.5 Mbit/s  *)
(* on: the video with its FEC at the encoder's rate, and the audio with    *)
(* two parity packets for four at the rate its encoder was built with,     *)
(* unless the file gives Opus more than the stock rate.  The audio's share *)
(* is computed from the count that was asked for, not from the layout the  *)
(* stream gets.                                                            *)
WithinBudget ==
  /\ budget # NoArg /\ budget >= 2500
  /\ live.encoder # NoEncoder => pipeline.block.named
  /\ audioKbps <= StockOpus[audioChannels]
  => (5 * live.rate) \div 4 + (3 * audioKbps) \div 2 <= budget

(* Safety.  Types and the three above.                                     *)
StreamAsNegotiated ==
  /\ ParamsTypeOK
  /\ stage = "playing" /\ ~pending =>
       RateAsNegotiated /\ SpeakersAsNegotiated /\ WithinBudget

(***************************************************************************)
(* Statements of the repository that the code does not keep; no run checks *)
(* them, README says what breaks them.                                     *)
(***************************************************************************)

(* Safety.  "Failure is non-fatal: the stream still works, just remixed to *)
(* the sink's layout" (launcher.hpp): there is a sink to capture.          *)
AlwaysASink == stage = "playing" => layout # 0

(* Safety.  A resume updates rate and VBV ("(vbv={}kbit) for resume",      *)
(* media.cpp): also of the VA encoder, which got one at its start.         *)
VbvFollowsTheRate ==
  stage = "playing" /\ ~pending /\ SetsVbvAtStart(live.encoder) =>
    live.vbv = VbvKbit(live.rate)

(* Safety.  A client plays the format its session negotiated, also after a *)
(* resume.                                                                 *)
PlaysTheNegotiatedFormat ==
  stage = "playing" /\ fresh /\ ~pending => pipeline.codec \in {format, "none"}
=============================================================================
