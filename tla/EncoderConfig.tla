---------------------------- MODULE EncoderConfig ----------------------------
(***************************************************************************)
(* encoders.toml and what a stream start makes of it (encoder_config.cpp,  *)
(* build_video_pipeline and build_audio_pipeline of media.cpp).            *)
(*                                                                         *)
(* The file lives on the host and may be edited at any time.  The server   *)
(* reads it once at boot, to tell clients which codecs exist, and again    *)
(* three times in every stream start, plus once when a resume rebuilds the *)
(* audio pipeline.  It has a list of encoder blocks for every codec, in    *)
(* order of preference, the zero-copy capture head (or none), the name of  *)
(* the sound server's sink and the rates of Opus.  Of a block's text, the  *)
(* model keeps what decides whether it is taken, whether it links and what *)
(* a resume can change in it.  StreamParams extends the streams with the   *)
(* parameters their clients negotiate.                                     *)
(***************************************************************************)
EXTENDS Naturals, Sequences

CONSTANTS
  ZeroCopyEnv,  (* WOLF_USE_ZERO_COPY is set                                *)
  Edited,       (* what an edit may leave in the file                       *)
  MaxEdits      (* bound on edits of the file                               *)

Plugins == {"nvcodec", "va", "x264"}
Codecs == {"h264", "hevc", "av1"}
Sinks == {"steam-stream", "renamed"}
Layouts == {2, 6, 8}

(* A block: the plugins whose elements check_elements names; the plugin of *)
(* the element that encoder_pipeline runs (none, if its text or            *)
(* video_params is missing); whether that is named video_encoder; whether  *)
(* the block has video_params_zero_copy.                                   *)
NoEncoder == "none"
Blocks == [checked : SUBSET Plugins, encoder : Plugins \cup {NoEncoder},
           named : BOOLEAN, zeroCopy : BOOLEAN]
NoBlock == [checked |-> {}, encoder |-> NoEncoder, named |-> FALSE, zeroCopy |-> FALSE]

(* All a file can say; its Opus rates (in kbit/s) go by number of channels.*)
Contents ==
  [lists : [Codecs -> Seq(Blocks)], sink : Sinks, headZeroCopy : BOOLEAN, opus : [Layouts -> Nat]]

ASSUME ConfigAssumption ==
  ZeroCopyEnv \in BOOLEAN /\ MaxEdits \in Nat /\ Edited \subseteq Contents

(* nv_h264, va_h264, sw_h264 and the like.                                 *)
StockBlock(plugin) ==
  [checked |-> {plugin}, encoder |-> plugin, named |-> TRUE, zeroCopy |-> plugin = "nvcodec"]

Stock ==
  [h264 |-> <<StockBlock("nvcodec"), StockBlock("va"), StockBlock("x264")>>,
   hevc |-> <<StockBlock("nvcodec"), StockBlock("va")>>,
   av1 |-> <<StockBlock("nvcodec")>>]

StockOpus == [n \in Layouts |-> CASE n = 6 -> 256 [] n = 8 -> 450 [] OTHER -> 96]

Defaults ==
  [lists |-> Stock, sink |-> "steam-stream", headZeroCopy |-> TRUE, opus |-> StockOpus]

(* save() does not replace the file in one step.  A table's keys and the   *)
(* lists are written in alphabetical order, so the last block may have     *)
(* lost video_params_zero_copy, all it runs, or check_elements too.        *)
Parts == {"whole", "plain", "checks", "head"}
Rank == [av1 |-> 1, h264 |-> 2, hevc |-> 3]

LeftOf(block, part) ==
  CASE part = "whole" -> block
    [] part = "plain" -> [block EXCEPT !.zeroCopy = FALSE]
    [] part = "checks" -> [block EXCEPT !.encoder = NoEncoder, !.named = FALSE, !.zeroCopy = FALSE]
    [] part = "head" -> NoBlock

CutAt(codec, n, part) ==
  [c \in Codecs |->
     IF Rank[c] < Rank[codec] THEN Stock[c]
     ELSE IF Rank[c] > Rank[codec] THEN <<>>
     ELSE [i \in 1 .. n |-> IF i = n THEN LeftOf(Stock[c][i], part) ELSE Stock[c][i]]]

(* The seed, whole or cut off.                                             *)
Seeds ==
  {Defaults} \cup
  UNION {{[Defaults EXCEPT !.lists = CutAt(codec, n, part)] :
            n \in 0 .. Len(Stock[codec]), part \in Parts} : codec \in Codecs}

(* What a person, a tool or a cut-off write can leave behind.              *)
Configs == Edited \cup Seeds

(* A file that is not there, or does not parse or has no [video] table.    *)
Absent == [Defaults EXCEPT !.sink = "absent"]
Unparseable == [Defaults EXCEPT !.sink = "unparseable"]
Files == Configs \cup {Absent, Unparseable}

Pipelines ==
  [asked : Codecs, codec : Codecs \cup {"none"}, block : Blocks,
   headZeroCopy : BOOLEAN, paramsZeroCopy : BOOLEAN]
NoPipeline(fmt) ==
  [asked |-> fmt, codec |-> "none", block |-> NoBlock,
   headZeroCopy |-> FALSE, paramsZeroCopy |-> FALSE]

VARIABLES
  file,         (* encoders.toml                                            *)
  installed,    (* plugins whose elements can be instantiated on this box   *)
  advertised,   (* codecs the client may choose, once the server has booted *)
  format,       (* video.format of the session                              *)
  stage,        (* of the server and its one stream                         *)
  pipeline,     (* the video pipeline that was built, and for which format  *)
  sinkMade,     (* sink created at the start; the app plays into it         *)
  captured,     (* sink whose monitor the audio pipeline reads              *)
  edits,        (* edits so far                                             *)
  fresh, steady (* history: the file says what it said at boot; at the start  *)

configVars == <<file, installed, advertised, format, stage, pipeline, sinkMade,
          captured, edits, fresh, steady>>

Stages == {"off", "idle", "announced", "sink", "video", "playing"}

ConfigTypeOK ==
  /\ file \in Files
  /\ installed \subseteq Plugins
  /\ advertised \subseteq Codecs
  /\ format \in Codecs
  /\ stage \in Stages
  /\ pipeline \in Pipelines
  /\ sinkMade \in Sinks /\ captured \in Sinks
  /\ edits \in 0 .. MaxEdits
  /\ fresh \in BOOLEAN /\ steady \in BOOLEAN

ConfigInit ==
  /\ file \in {Absent, Defaults}
  /\ installed \in SUBSET Plugins
  /\ advertised = {}
  /\ format = "h264"
  /\ stage = "off"
  /\ pipeline = NoPipeline("h264")
  /\ sinkMade = "steam-stream" /\ captured = "steam-stream"
  /\ edits = 0
  /\ fresh = TRUE /\ steady = TRUE

(***************************************************************************)
(* load_or_seed: seed if absent, load, warn about issues, else defaults.   *)
(***************************************************************************)

(* What a load reads from a file.                                          *)
Loaded(f) == IF f \in {Absent, Unparseable} THEN Defaults ELSE f

(* is_available and first_available.                                       *)
Available(block) == block.checked \subseteq installed

HasAvailable(list) == \E i \in DOMAIN list : Available(list[i])

FirstAvailable(list) ==
  list[CHOOSE i \in DOMAIN list :
         Available(list[i]) /\ \A j \in 1 .. (i - 1) : ~Available(list[j])]

(* Faulty variant: a codec is offered because it is listed.                *)
AvailableEncodersListed(cfg) == {c \in Codecs : cfg.lists[c] # <<>>}

AvailableEncoders(cfg) == {c \in Codecs : HasAvailable(cfg.lists[c])}

(* select_encoder: the requested codec, else H264, else none.              *)
SelectedCodec(cfg, fmt) ==
  IF HasAvailable(cfg.lists[fmt]) THEN fmt
  ELSE IF HasAvailable(cfg.lists["h264"]) THEN "h264" ELSE "none"

(* build_video_pipeline: capture head and parameters "must switch          *)
(* together".                                                              *)
VideoPipeline(cfg, fmt) ==
  LET codec == SelectedCodec(cfg, fmt)
      block == FirstAvailable(cfg.lists[codec])
      zeroCopy == ZeroCopyEnv /\ cfg.headZeroCopy /\ block.zeroCopy
  IN IF codec = "none" THEN NoPipeline(fmt)
     ELSE [asked |-> fmt, codec |-> codec, block |-> block,
           headZeroCopy |-> zeroCopy, paramsZeroCopy |-> zeroCopy]

(* gst_parse_launch: the element of the encoder can be made.               *)
Links(p) == p.codec # "none" /\ p.block.encoder \in installed

(* A load leaves the seed behind in a file that was absent, or part of it  *)
(* if the disk is full, or none.                                           *)
Load == file' \in IF file = Absent THEN {Absent, Unparseable} \cup Seeds ELSE {file}

(* The file says what it said before this step.                            *)
SaysTheSame == Loaded(file') = Loaded(file)

-----------------------------------------------------------------------------
(* main: seed the file, see what is available, advertise it.               *)
Boot ==
  /\ stage = "off"
  /\ Load
  /\ advertised' = AvailableEncoders(Loaded(file'))
  /\ stage' = "idle"
  /\ fresh' = TRUE
  /\ UNCHANGED <<installed, format, pipeline, sinkMade, captured, edits, steady>>

(* The client asks for H264 or for a codec it was offered, before its      *)
(* first PLAY and again when it resumes.                                   *)
AskFormat(fmt) ==
  /\ stage \in {"idle", "announced", "playing"}
  /\ fmt \in advertised \cup {"h264"}
  /\ format' = fmt
  /\ stage' = IF stage = "idle" THEN "announced" ELSE stage
  /\ UNCHANGED <<file, installed, advertised, pipeline, sinkMade, captured,
                 edits, fresh, steady>>

(* MediaSession::start, by its three reads of the file.                    *)
StartSink ==
  /\ stage = "announced"
  /\ Load
  /\ sinkMade' = Loaded(file').sink
  /\ fresh' = (fresh /\ SaysTheSame) /\ steady' = TRUE
  /\ stage' = "sink"
  /\ UNCHANGED <<installed, advertised, format, pipeline, captured, edits>>

StartVideo ==
  /\ stage = "sink"
  /\ Load
  /\ pipeline' = VideoPipeline(Loaded(file'), format)
  /\ fresh' = (fresh /\ SaysTheSame) /\ steady' = (steady /\ SaysTheSame)
  /\ stage' = "video"
  /\ UNCHANGED <<installed, advertised, format, sinkMade, captured, edits>>

(* Faulty variant: the sink's name is a constant here.                     *)
StartAudioConstant ==
  /\ stage = "video"
  /\ Load
  /\ captured' = "steam-stream"
  /\ fresh' = (fresh /\ SaysTheSame) /\ steady' = (steady /\ SaysTheSame)
  /\ stage' = "playing"
  /\ UNCHANGED <<installed, advertised, format, pipeline, sinkMade, edits>>

StartAudio ==
  /\ stage = "video"
  /\ Load
  /\ captured' = Loaded(file').sink
  /\ fresh' = (fresh /\ SaysTheSame) /\ steady' = (steady /\ SaysTheSame)
  /\ stage' = "playing"
  /\ UNCHANGED <<installed, advertised, format, pipeline, sinkMade, edits>>

(* A resume with another speaker layout: rebuild_audio.                    *)
RebuildAudio ==
  /\ stage = "playing"
  /\ Load
  /\ captured' = Loaded(file').sink
  /\ fresh' = (fresh /\ SaysTheSame) /\ steady' = (steady /\ SaysTheSame)
  /\ UNCHANGED <<installed, advertised, format, stage, pipeline, sinkMade, edits>>

(* The stream ends, its pipelines are released and its session goes.       *)
StopStream ==
  /\ stage = "playing"
  /\ pipeline' = NoPipeline("h264")
  /\ format' = "h264"
  /\ sinkMade' = "steam-stream" /\ captured' = "steam-stream"
  /\ stage' = "idle"
  /\ UNCHANGED <<file, installed, advertised, edits, fresh, steady>>

(* The file changes on the host.                                           *)
Edit ==
  /\ edits < MaxEdits
  /\ file' \in Edited \cup {Defaults, Absent, Unparseable}
  /\ edits' = edits + 1
  /\ fresh' = FALSE /\ steady' = FALSE
  /\ UNCHANGED <<installed, advertised, format, stage, pipeline, sinkMade,
                 captured>>
-----------------------------------------------------------------------------
(***************************************************************************)
(* Properties.                                                             *)
(***************************************************************************)

(* Safety.  A stream has the codec its client asked for when it started,   *)
(* unless the file has come to say something else since the codecs were    *)
(* advertised, by an edit or by a seed that was cut off: the fallback to   *)
(* H264 in select_encoder, which no client is told of, is never taken      *)
(* otherwise.                                                              *)
FallbackOnlyAfterEdit ==
  stage \in {"video", "playing"} /\ fresh =>
    pipeline.codec \in {pipeline.asked, "none"}

(* Safety.  Whatever blocks the file has, the zero-copy head and the       *)
(* zero-copy parameters "must switch together" (media.cpp), and only for   *)
(* a block that has such parameters; and the pipeline links if its block   *)
(* names its own encoder in check_elements.  A block that does not, or     *)
(* has no encoder, may be taken and not link: validate() only warns.       *)
PipelineLinks ==
  /\ pipeline.headZeroCopy = pipeline.paramsZeroCopy
  /\ pipeline.headZeroCopy => pipeline.block.zeroCopy
  /\ pipeline.codec # "none" /\ pipeline.block.encoder \in pipeline.block.checked
       => Links(pipeline)

(* Safety.  Through all the reloads of one stream, the audio pipeline      *)
(* reads the sink that was made for it, unless the file has come to say    *)
(* something else since the start.                                         *)
CapturesUneditedSink ==
  stage = "playing" /\ steady => captured = sinkMade

(* Safety.  Types and the three above.                                     *)
PipelineInv ==
  ConfigTypeOK /\ PipelineLinks /\ FallbackOnlyAfterEdit /\ CapturesUneditedSink

(***************************************************************************)
(* Statements of the repository that the code does not keep; no run checks *)
(* them, README says what breaks them.                                     *)
(***************************************************************************)

(* Safety.  "the server always has a usable config" (encoder_config.hpp):  *)
(* what load_or_seed returns has no issue for validate() to report.        *)
UsableConfig ==
  LET list == Loaded(file).lists["h264"]
  IN list # <<>> /\ \A i \in DOMAIN list : list[i].encoder # NoEncoder /\ list[i].named

(* Safety.  The app's sink is the one "apps play into; the pipeline        *)
(* captures <sink_name>.monitor" (encoder_config.hpp), all through a       *)
(* stream.                                                                 *)
CapturesTheAppsSink == stage = "playing" => captured = sinkMade
=============================================================================
