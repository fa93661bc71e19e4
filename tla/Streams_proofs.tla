--------------------------- MODULE Streams_proofs ---------------------------
(***************************************************************************)
(* Theorems about the streams of a session: about StreamParams (what a     *)
(* stream is made with, for every content of the file, edits and           *)
(* attributes) and about RtpStreams (how its packets are numbered, for     *)
(* frames of every size and numbers of every width).                       *)
(***************************************************************************)
EXTENDS StreamParams, RtpStreams, TLAPS, WellFoundedInduction, SequenceTheorems, FiniteSetTheorems

-----------------------------------------------------------------------------
(***************************************************************************)
(* Least and greatest elements.                                            *)
(***************************************************************************)
LessThan == {p \in Nat \X Nat : p[1] < p[2]}

LEMMA LessThanWF == IsWellFoundedOn(LessThan, Nat)
BY ONLY NatLessThanWellFounded DEF OpToRel, LessThan

(* Every non-empty set of numbers has a least element.                     *)
LEMMA HasLeast ==
  ASSUME NEW S, S \subseteq Nat, S # {}
  PROVE  \E s \in S : \A x \in S : s <= x
<1>1. PICK s \in S : \A x \in S : ~ (<<x, s>> \in LessThan)
  BY LessThanWF, WFMin
<1>2. ASSUME NEW x \in S PROVE s <= x
  <2>1. <<x, s>> \in Nat \X Nat
    OBVIOUS
  <2>2. ~(x < s)
    BY <1>1, <2>1, <<x, s>>[1] = x, <<x, s>>[2] = s DEF LessThan
  <2>3. x \in Nat /\ s \in Nat
    OBVIOUS
  <2> QED BY ONLY <2>2, <2>3
<1> QED BY <1>2

-----------------------------------------------------------------------------
(***************************************************************************)
(* encoders.toml.                                                          *)
(***************************************************************************)

(* Every list of encoders in the seed, whole or cut off, is one of blocks. *)
LEMMA StockFacts ==
  /\ Stock \in [Codecs -> Seq(Blocks)] /\ StockOpus \in [Layouts -> Nat]
  /\ \A codec \in Codecs, part \in Parts :
       \A n \in 0 .. Len(Stock[codec]) : CutAt(codec, n, part) \in [Codecs -> Seq(Blocks)]
<1>1. \A p \in Plugins : StockBlock(p) \in Blocks
  BY DEF StockBlock, Blocks
<1>2. \A c \in Codecs : Stock[c] \in Seq(Blocks)
  <2>1. /\ StockBlock("nvcodec") \in Blocks /\ StockBlock("va") \in Blocks
        /\ StockBlock("x264") \in Blocks
    BY <1>1 DEF Plugins
  <2>2. /\ <<StockBlock("nvcodec"), StockBlock("va"), StockBlock("x264")>> \in Seq(Blocks)
        /\ <<StockBlock("nvcodec"), StockBlock("va")>> \in Seq(Blocks)
        /\ <<StockBlock("nvcodec")>> \in Seq(Blocks)
    BY <2>1
  <2>3. Stock["h264"] \in Seq(Blocks) /\ Stock["hevc"] \in Seq(Blocks) /\ Stock["av1"] \in Seq(Blocks)
    BY <2>2 DEF Stock
  <2> QED BY <2>3 DEF Codecs
<1>3. Stock \in [Codecs -> Seq(Blocks)]
  BY <1>2 DEF Stock, Codecs
<1>4. StockOpus \in [Layouts -> Nat]
  BY DEF StockOpus, Layouts
<1>5. ASSUME NEW codec \in Codecs, NEW part \in Parts,
             NEW n \in 0 .. Len(Stock[codec])
      PROVE  CutAt(codec, n, part) \in [Codecs -> Seq(Blocks)]
  <2>1. ASSUME NEW b \in Blocks PROVE LeftOf(b, part) \in Blocks
    BY DEF LeftOf, Parts, NoBlock, Blocks
  <2>2. ASSUME NEW c \in Codecs
        PROVE  CutAt(codec, n, part)[c] \in Seq(Blocks)
    <3>1. CASE Rank[c] < Rank[codec]
      BY <1>2, <3>1 DEF CutAt
    <3>2. CASE Rank[c] > Rank[codec]
      <4>1. ~(Rank[c] < Rank[codec])
        BY <3>2 DEF Rank, Codecs
      <4>2. <<>> \in Seq(Blocks)
        OBVIOUS
      <4> QED BY <3>2, <4>1, <4>2 DEF CutAt
    <3>3. CASE ~(Rank[c] < Rank[codec]) /\ ~(Rank[c] > Rank[codec])
      <4>1. c = codec
        BY <3>3 DEF Rank, Codecs
      <4> DEFINE list == [i \in 1 .. n |-> IF i = n THEN LeftOf(Stock[c][i], part) ELSE Stock[c][i]]
      <4>2. Stock[c] \in Seq(Blocks) /\ n \in Nat /\ n <= Len(Stock[c])
        BY <1>2, <4>1
      <4>3. \A i \in 1 .. n : list[i] \in Blocks
        BY <2>1, <4>2, ElementOfSeq
      <4>4. list \in Seq(Blocks)
        BY <4>2, <4>3, IsASeq
      <4>5. CutAt(codec, n, part)[c] = list
        BY <3>3 DEF CutAt
      <4> QED BY <4>4, <4>5
    <3> QED BY <3>1, <3>2, <3>3
  <2>3. CutAt(codec, n, part) = [c \in Codecs |-> CutAt(codec, n, part)[c]]
    BY DEF CutAt
  <2> QED BY <2>2, <2>3
<1> QED BY <1>3, <1>4, <1>5

LEMMA FileFacts ==
  Edited \subseteq Files /\ Defaults \in Files /\ Absent \in Files /\ Unparseable \in Files
<1>1. Defaults \in Seeds
  BY DEF Seeds
<1> QED BY <1>1 DEF Files, Configs

(* Whatever the file holds, a load yields contents.                        *)
LEMMA LoadFacts ==
  ASSUME file \in Files
  PROVE  /\ Loaded(file) \in Contents
         /\ Load => file' \in Files /\ Loaded(file') \in Contents
<1>1. Defaults \in Contents
  BY StockFacts DEF Defaults, Contents, Sinks
<1>2. Seeds \subseteq Contents
  <2>1. ASSUME NEW codec \in Codecs, NEW part \in Parts,
               NEW n \in 0 .. Len(Stock[codec])
        PROVE  [Defaults EXCEPT !.lists = CutAt(codec, n, part)] \in Contents
    <3>1. CutAt(codec, n, part) \in [Codecs -> Seq(Blocks)]
      BY StockFacts
    <3> HIDE DEF Defaults, CutAt
    <3> QED BY <1>1, <3>1 DEF Contents
  <2> QED BY <1>1, <2>1 DEF Seeds
<1>3. \A f \in Files : Loaded(f) \in Contents
  BY <1>1, <1>2, ConfigAssumption DEF Files, Configs, Loaded
<1>4. Load => file' \in Files
  BY DEF Load, Files, Configs
<1> QED BY <1>3, <1>4

(* What is taken from a list of encoders is one of its blocks, and all     *)
(* that it checks is installed.                                            *)
LEMMA FirstIsAvailable ==
  ASSUME NEW list \in Seq(Blocks), HasAvailable(list)
  PROVE  FirstAvailable(list) \in Blocks /\ Available(FirstAvailable(list))
<1> DEFINE Found == {i \in DOMAIN list : Available(list[i])}
           IsFirst(i) == Available(list[i]) /\ \A j \in 1 .. (i - 1) : ~Available(list[j])
<1>1. DOMAIN list = 1 .. Len(list) /\ Len(list) \in Nat
  OBVIOUS
<1>2. Found \subseteq Nat /\ Found # {}
  BY <1>1 DEF HasAvailable
<1>3. PICK i \in Found : \A x \in Found : i <= x
  <2> HIDE DEF Found
  <2> QED BY <1>2, HasLeast
<1>4. i \in DOMAIN list /\ IsFirst(i)
  BY <1>1, <1>3
<1> DEFINE k == CHOOSE j \in DOMAIN list : IsFirst(j)
<1>5. k \in DOMAIN list /\ IsFirst(k)
  <2> HIDE DEF IsFirst
  <2> QED BY <1>4
<1>6. FirstAvailable(list) = list[k]
  BY DEF FirstAvailable
<1> QED BY <1>5, <1>6, ElementOfSeq

(* What a pipeline is made of.                                             *)
LEMMA VideoPipelineFacts ==
  ASSUME NEW cfg \in Contents, NEW fmt \in Codecs, NEW p, p = VideoPipeline(cfg, fmt)
  PROVE  /\ p \in Pipelines
         /\ p.asked = fmt
         /\ fmt \in AvailableEncoders(cfg) \cup {"h264"} => p.codec \in {fmt, "none"}
         /\ p.headZeroCopy = p.paramsZeroCopy
         /\ p.headZeroCopy => p.block.zeroCopy
         /\ p.codec # "none" => p.block.checked \subseteq installed
<1> DEFINE codec == SelectedCodec(cfg, fmt)
           block == FirstAvailable(cfg.lists[codec])
           zeroCopy == ZeroCopyEnv /\ cfg.headZeroCopy /\ block.zeroCopy
<1>1. fmt \in AvailableEncoders(cfg) \cup {"h264"} => codec \in {fmt, "none"}
  BY DEF AvailableEncoders, SelectedCodec, Codecs
<1>2. CASE codec = "none"
  <2>1. p = NoPipeline(fmt)
    BY <1>2 DEF VideoPipeline
  <2>2. NoBlock \in Blocks
    BY DEF NoBlock, Blocks
  <2>3. p.asked = fmt /\ p.codec = "none" /\ p.headZeroCopy = FALSE /\ p.paramsZeroCopy = FALSE
    BY <2>1 DEF NoPipeline
  <2>4. p \in Pipelines
    BY <2>1, <2>2 DEF NoPipeline, Pipelines
  <2> QED BY <2>3, <2>4
<1>3. CASE codec # "none"
  <2>1. codec \in Codecs /\ HasAvailable(cfg.lists[codec])
    BY <1>3 DEF SelectedCodec, Codecs
  <2>2. cfg.lists[codec] \in Seq(Blocks)
    BY <2>1 DEF Contents
  <2>3. block \in Blocks /\ Available(block)
    BY <2>1, <2>2, FirstIsAvailable
  <2>4. p = [asked |-> fmt, codec |-> codec, block |-> block,
             headZeroCopy |-> zeroCopy, paramsZeroCopy |-> zeroCopy]
    BY <1>3 DEF VideoPipeline
  <2>5. zeroCopy \in BOOLEAN /\ (zeroCopy => block.zeroCopy)
    OBVIOUS
  <2> HIDE DEF codec, block, zeroCopy
  <2>6. p \in Pipelines
    BY <2>1, <2>3, <2>4, <2>5 DEF Pipelines
  <2> QED BY <1>1, <2>3, <2>4, <2>5, <2>6 DEF Available
<1> QED BY <1>2, <1>3

(***************************************************************************)
(* The inductive invariant of the file: what was advertised and asked for, *)
(* and what the start read, agrees with the file until it says something   *)
(* else.                                                                   *)
(***************************************************************************)
AskedFor ==
  /\ stage = "off" => format = "h264"
  /\ format \in advertised \cup {"h264"}

AdvertisedFromFile ==
  fresh /\ stage # "off" => advertised = AvailableEncoders(Loaded(file))

SinkFromFile ==
  steady =>
    /\ stage \in {"sink", "video", "playing"} => sinkMade = Loaded(file).sink
    /\ stage = "playing" => captured = Loaded(file).sink

FileInv == PipelineInv /\ AskedFor /\ AdvertisedFromFile /\ SinkFromFile

ConfigStep ==
  \/ Boot \/ Edit \/ StartSink \/ StartVideo \/ StartAudio \/ RebuildAudio \/ StopStream
  \/ \E fmt \in Codecs : AskFormat(fmt)
  \/ UNCHANGED configVars

(* Every step of a stream is one of the file, or leaves it alone.          *)
LEMMA StepsOfTheFile == [Next]_vars => ConfigStep
BY DEF vars, Next, Host, Launch, Announce, PlaySink, PlayVideo, PlayAudio, Resume, Stop, ConfigStep

LEMMA NoPipelineFacts ==
  ASSUME NEW fmt \in Codecs
  PROVE  NoPipeline(fmt) \in Pipelines
<1>1. NoBlock \in Blocks
  BY DEF NoBlock, Blocks
<1> QED BY <1>1 DEF NoPipeline, Pipelines

LEMMA FileInit == ConfigInit => FileInv
<1> SUFFICES ASSUME ConfigInit PROVE FileInv
  OBVIOUS
<1>0. "h264" \in Codecs
  BY DEF Codecs
<1>1. ConfigTypeOK
  BY <1>0, NoPipelineFacts, FileFacts, ConfigAssumption
     DEF ConfigInit, ConfigTypeOK, Stages, Sinks
<1>2. PipelineLinks
  <2>1. pipeline.codec = "none" /\ pipeline.headZeroCopy = FALSE /\ pipeline.paramsZeroCopy = FALSE
    BY DEF ConfigInit, NoPipeline
  <2> QED BY <2>1 DEF PipelineLinks
<1> QED BY <1>1, <1>2 DEF ConfigInit, FileInv, PipelineInv, FallbackOnlyAfterEdit,
           CapturesUneditedSink, AskedFor, AdvertisedFromFile, SinkFromFile

LEMMA FileStep ==
  ASSUME FileInv, ConfigStep
  PROVE  FileInv'
<1> USE DEF FileInv, PipelineInv, ConfigTypeOK, Stages
<1>0. installed' = installed
  BY DEF ConfigStep, Boot, Edit, StartSink, StartVideo, StartAudio, RebuildAudio, StopStream,
         AskFormat, configVars
<1>1. AvailableEncoders(Loaded(file))' = AvailableEncoders(Loaded(file'))
  BY <1>0 DEF AvailableEncoders, HasAvailable, Available, Loaded
<1>2. ASSUME pipeline' = pipeline
      PROVE  PipelineLinks'
  BY <1>0, <1>2 DEF PipelineLinks, Links
<1>3. Load => Loaded(file').sink \in Sinks
  BY LoadFacts DEF Contents
<1> USE DEF FallbackOnlyAfterEdit, CapturesUneditedSink, AskedFor, AdvertisedFromFile, SinkFromFile,
            SaysTheSame
<1>4. CASE Boot
  <2>1. AvailableEncoders(Loaded(file')) \subseteq Codecs
    BY DEF AvailableEncoders
  <2>2. ConfigTypeOK'
    BY <1>4, <2>1, LoadFacts DEF Boot
  <2> QED BY <1>1, <1>2, <1>4, <2>2 DEF Boot
<1>5. CASE Edit
  <2>1. edits' \in 0 .. MaxEdits
    BY <1>5, ConfigAssumption DEF Edit
  <2>2. ConfigTypeOK'
    BY <1>5, <2>1, FileFacts DEF Edit
  <2> QED BY <1>2, <1>5, <2>2 DEF Edit
<1>6. CASE StartSink
  <2>1. ConfigTypeOK'
    BY <1>3, <1>6, LoadFacts DEF StartSink
  <2> QED BY <1>1, <1>2, <1>6, <2>1 DEF StartSink
<1>7. CASE StartVideo
  <2> DEFINE p == VideoPipeline(Loaded(file'), format)
  <2>1. Loaded(file') \in Contents /\ file' \in Files
    BY <1>7, LoadFacts DEF StartVideo
  <2>2. /\ p \in Pipelines
        /\ p.asked = format
        /\ format \in AvailableEncoders(Loaded(file')) \cup {"h264"} => p.codec \in {format, "none"}
        /\ p.headZeroCopy = p.paramsZeroCopy
        /\ p.headZeroCopy => p.block.zeroCopy
        /\ p.codec # "none" => p.block.checked \subseteq installed
    BY <2>1, VideoPipelineFacts
  <2>3. pipeline' = p
    BY <1>7 DEF StartVideo
  <2> HIDE DEF p
  <2>4. ConfigTypeOK'
    BY <1>7, <2>1, <2>2, <2>3 DEF StartVideo
  <2>5. PipelineLinks'
    BY <1>0, <2>2, <2>3 DEF PipelineLinks, Links
  <2>6. FallbackOnlyAfterEdit'
    BY <1>7, <2>2, <2>3 DEF StartVideo
  <2> QED BY <1>1, <1>7, <2>4, <2>5, <2>6 DEF StartVideo
<1>8. CASE StartAudio
  <2>1. ConfigTypeOK'
    BY <1>3, <1>8, LoadFacts DEF StartAudio
  <2> QED BY <1>1, <1>2, <1>8, <2>1 DEF StartAudio
<1>9. CASE RebuildAudio
  <2>1. ConfigTypeOK'
    BY <1>3, <1>9, LoadFacts DEF RebuildAudio
  <2> QED BY <1>1, <1>2, <1>9, <2>1 DEF RebuildAudio
<1>10. CASE StopStream
  <2>1. "h264" \in Codecs /\ "steam-stream" \in Sinks
    BY DEF Codecs, Sinks
  <2>2. ConfigTypeOK'
    BY <1>10, <2>1, NoPipelineFacts DEF StopStream
  <2>3. PipelineLinks'
    <3>1. pipeline' = NoPipeline("h264")
      BY <1>10 DEF StopStream
    <3>2. /\ pipeline'.codec = "none"
          /\ pipeline'.headZeroCopy = FALSE /\ pipeline'.paramsZeroCopy = FALSE
      BY <3>1 DEF NoPipeline
    <3> QED BY <3>2 DEF PipelineLinks
  <2> QED BY <1>1, <1>10, <2>2, <2>3 DEF StopStream
<1>11. ASSUME NEW fmt \in Codecs, AskFormat(fmt)
       PROVE  FileInv'
  BY <1>1, <1>2, <1>11 DEF AskFormat
<1>12. CASE UNCHANGED configVars
  BY <1>1, <1>2, <1>12 DEF configVars
<1> HIDE DEF FileInv
<1> QED BY <1>4, <1>5, <1>6, <1>7, <1>8, <1>9, <1>10, <1>11, <1>12 DEF ConfigStep

LEMMA FileInductive == Spec => []FileInv
<1>1. Init => FileInv
  BY FileInit DEF Init
<1>2. FileInv /\ [Next]_vars => FileInv'
  BY StepsOfTheFile, FileStep
<1> QED BY <1>1, <1>2, PTL DEF Spec

(* Whatever the file holds and whenever it is edited, pipelines of blocks  *)
(* that check their own encoder link, the silent fallback needs a file     *)
(* that says something else than at boot, and audio is captured from the   *)
(* sink that was made.                                                     *)
THEOREM PipelineInvHolds == Spec => []PipelineInv
<1>1. FileInv => PipelineInv
  BY DEF FileInv
<1> QED BY <1>1, FileInductive, PTL

-----------------------------------------------------------------------------
(***************************************************************************)
(* The client's numbers.                                                   *)
(***************************************************************************)

(* What a stream may use of what was configured.                           *)
LEMMA RateIsNat ==
  ASSUME NEW configured \in Nat \cup {NoArg}, NEW n \in Nat
  PROVE  VideoKbps(configured, n) \in Nat
<1>1. CASE configured = NoArg
  BY <1>1 DEF VideoKbps, MaximumKbps
<1>2. CASE configured # NoArg
  <2> DEFINE w == (configured * 80) \div 100
             v == w - Lesser(96 * n, w \div 5)
  <2>1. VideoKbps(configured, n) = v - Lesser(500, v \div 10)
    BY <1>2 DEF VideoKbps, FecPercentage
  <2>2. configured \in Nat /\ w \in Nat /\ v \in Nat
    BY <1>2 DEF Lesser
  <2> QED BY <2>1, <2>2 DEF Lesser
<1> QED BY <1>1, <1>2

LEMMA RateFits ==
  ASSUME NEW configured \in Nat \cup {NoArg}, NEW n \in Nat
  PROVE  configured # NoArg /\ configured >= 2500 =>
           /\ VideoKbps(configured, n) > 0
           /\ (5 * VideoKbps(configured, n)) \div 4 + (3 * StockOpus[ForChannels(n)]) \div 2
             <= configured
<1>1. VideoKbps(configured, n) \in Nat
  BY RateIsNat
<1>2. CASE configured # NoArg
  <2> DEFINE w == (configured * 80) \div 100
             v == w - Lesser(96 * n, w \div 5)
  <2>1. VideoKbps(configured, n) = v - Lesser(500, v \div 10)
    BY <1>2 DEF VideoKbps, FecPercentage
  <2>2. configured \in Nat /\ w \in Nat /\ v \in Nat
    BY <1>2 DEF Lesser
  <2>4. StockOpus[ForChannels(n)] = IF n = 6 THEN 256 ELSE IF n = 8 THEN 450 ELSE 96
    BY DEF StockOpus, ForChannels, Layouts
  <2>5. CASE configured >= 2500
    BY <1>1, <2>1, <2>2, <2>4, <2>5 DEF Lesser
  <2> QED BY <1>2, <2>5
<1> QED BY <1>2

(* encoder_vbv_kbit is never 0 for a rate, and 0 for none.                 *)
LEMMA VbvFacts ==
  ASSUME NEW kbps \in Nat
  PROVE  /\ VbvKbit(kbps) \in Nat
         /\ kbps > 0 => VbvKbit(kbps) > 0
         /\ VbvKbit(0) = 0
BY DEF VbvKbit, VbvMs

(* A part of a sequence, with the facts about it that are used below.      *)
LEMMA PartOf ==
  ASSUME NEW S, NEW s \in Seq(S), NEW m \in Nat \ {0}, NEW n \in m - 1 .. Len(s)
  PROVE  /\ SubSeq(s, m, n) \in Seq(S)
         /\ Len(SubSeq(s, m, n)) = n - m + 1
         /\ \A i \in 1 .. n - m + 1 : SubSeq(s, m, n)[i] = s[m + i - 1]
<1>1. \A i \in m .. n : s[i] \in S
  OBVIOUS
<1>2. m \in Int /\ n \in Int
  OBVIOUS
<1> DEFINE part == SubSeq(s, m, n)
<1>3. /\ part \in Seq(S)
      /\ Len(part) = IF m <= n THEN n - m + 1 ELSE 0
      /\ \A i \in 1 .. n - m + 1 : part[i] = s[m + i - 1]
  BY <1>1, <1>2, SubSeqProperties
<1> HIDE DEF part
<1>4. Len(part) = n - m + 1
  BY <1>3
<1> QED BY <1>3, <1>4 DEF part

(* Taking the fourth of a sequence to its end, as speaker_string does, and *)
(* back, as the client does, changes nothing.                              *)
LEMMA MovedThereAndBack ==
  ASSUME NEW S, NEW s \in Seq(S), Len(s) >= 4,
         NEW r, r = Append(RemoveAt(s, 4), s[4])
  PROVE  InsertAt(Front(r), 4, Last(r)) = s
<1> DEFINE removed == RemoveAt(s, 4)
<1>1. /\ removed \in Seq(S) /\ Len(removed) = Len(s) - 1
      /\ \A i \in 1 .. Len(s) - 1 : removed[i] = IF i < 4 THEN s[i] ELSE s[i + 1]
  <2> DEFINE a == SubSeq(s, 1, 3)
             b == SubSeq(s, 5, Len(s))
  <2>1. a \in Seq(S) /\ Len(a) = 3 /\ \A i \in 1 .. 3 : a[i] = s[i]
    BY SubSeqProperties
  <2>2. b \in Seq(S) /\ Len(b) = Len(s) - 4 /\ \A i \in 1 .. Len(s) - 4 : b[i] = s[i + 4]
    <3>1. Len(s) \in 5 - 1 .. Len(s) /\ 5 \in Nat \ {0}
      OBVIOUS
    <3>2. /\ b \in Seq(S) /\ Len(b) = Len(s) - 5 + 1
          /\ \A i \in 1 .. Len(s) - 5 + 1 : b[i] = s[5 + i - 1]
      BY <3>1, PartOf, ZenonT(30)
    <3> HIDE DEF b
    <3> QED BY <3>2
  <2>3. removed = a \o b
    BY DEF RemoveAt
  <2> HIDE DEF a, b, removed
  <2>4. /\ removed \in Seq(S) /\ Len(removed) = 3 + (Len(s) - 4)
        /\ \A i \in 1 .. Len(s) - 1 : removed[i] = IF i <= 3 THEN a[i] ELSE b[i - 3]
    <3>1. /\ a \o b \in Seq(S) /\ Len(a \o b) = Len(a) + Len(b)
          /\ \A i \in 1 .. Len(a) + Len(b) :
               (a \o b)[i] = IF i <= Len(a) THEN a[i] ELSE b[i - Len(a)]
      BY <2>1, <2>2, ConcatProperties
    <3> QED BY <2>1, <2>2, <2>3, <3>1
  <2>5. ASSUME NEW i \in 1 .. Len(s) - 1
        PROVE  removed[i] = IF i < 4 THEN s[i] ELSE s[i + 1]
    <3>1. CASE i < 4
      BY <2>1, <2>4, <3>1
    <3>2. CASE ~(i < 4)
      BY <2>1, <2>2, <2>4, <3>2
    <3> QED BY <3>1, <3>2
  <2>6. removed \in Seq(S) /\ Len(removed) = Len(s) - 1
    BY <2>4
  <2> QED BY <2>5, <2>6
<1>2. s[4] \in S
  OBVIOUS
<1> HIDE DEF removed
<1>3. /\ r \in Seq(S) /\ Len(r) = Len(s) /\ r[Len(s)] = s[4]
      /\ \A i \in 1 .. Len(s) - 1 : r[i] = removed[i]
  BY <1>1, <1>2, AppendProperties DEF removed
<1>4. Front(r) = removed /\ Last(r) = s[4]
  <2>1. \A i \in 1 .. Len(s) - 1 : r[i] \in S
    BY <1>3, ElementOfSeq
  <2>2. /\ Front(r) \in Seq(S) /\ Len(Front(r)) = Len(s) - 1
        /\ \A i \in 1 .. Len(s) - 1 : Front(r)[i] = r[i]
    BY <1>3, <2>1, SubSeqProperties DEF Front
  <2>3. Front(r) = removed
    BY <1>1, <1>3, <2>2, SeqEqual
  <2> QED BY <1>3, <2>3 DEF Last
<1> DEFINE back == InsertAt(removed, 4, s[4])
<1>5. /\ back \in Seq(S) /\ Len(back) = Len(s)
      /\ \A i \in 1 .. Len(s) : back[i] = s[i]
  <2> DEFINE a == SubSeq(removed, 1, 3)
             b == SubSeq(removed, 4, Len(removed))
  <2>1. \A i \in 1 .. Len(s) - 1 : removed[i] \in S
    BY <1>1, ElementOfSeq
  <2>2. a \in Seq(S) /\ Len(a) = 3 /\ \A i \in 1 .. 3 : a[i] = removed[i]
    BY <1>1, <2>1, SubSeqProperties
  <2>3. b \in Seq(S) /\ Len(b) = Len(s) - 4 /\ \A i \in 1 .. Len(s) - 4 : b[i] = removed[i + 3]
    <3>1. /\ removed \in Seq(S) /\ Len(removed) \in 4 - 1 .. Len(removed)
          /\ 4 \in Nat \ {0}
      BY <1>1
    <3> HIDE DEF removed
    <3>2. /\ b \in Seq(S) /\ Len(b) = Len(removed) - 4 + 1
          /\ \A i \in 1 .. Len(removed) - 4 + 1 : b[i] = removed[4 + i - 1]
      BY <3>1, PartOf, ZenonT(30)
    <3>3. Len(removed) = Len(s) - 1
      BY <1>1 DEF removed
    <3> HIDE DEF b
    <3> QED BY <3>2, <3>3
  <2>4. back = a \o <<s[4]>> \o b
    BY DEF InsertAt
  <2>5. <<s[4]>> \in Seq(S) /\ Len(<<s[4]>>) = 1 /\ <<s[4]>>[1] = s[4]
    BY <1>2
  <2> DEFINE one == <<s[4]>>
             ab == a \o one
  <2> HIDE DEF a, b, back, one
  <2>6. ab \in Seq(S) /\ Len(ab) = 4 /\ \A i \in 1 .. 4 : ab[i] = IF i <= 3 THEN a[i] ELSE one[i - 3]
    <3>1. one \in Seq(S) /\ Len(one) = 1
      BY <2>5 DEF one
    <3>2. /\ a \o one \in Seq(S) /\ Len(a \o one) = Len(a) + Len(one)
          /\ \A i \in 1 .. Len(a) + Len(one) :
               (a \o one)[i] = IF i <= Len(a) THEN a[i] ELSE one[i - Len(a)]
      BY <2>2, <3>1, ConcatProperties
    <3> QED BY <2>2, <3>1, <3>2
  <2> HIDE DEF ab
  <2>7. /\ back \in Seq(S) /\ Len(back) = 4 + (Len(s) - 4)
        /\ \A i \in 1 .. Len(s) : back[i] = IF i <= 4 THEN ab[i] ELSE b[i - 4]
    BY <2>3, <2>4, <2>6, ConcatProperties DEF ab, one
  <2>8. ASSUME NEW i \in 1 .. Len(s)
        PROVE  back[i] = s[i]
    <3>1. CASE i <= 3
      BY <1>1, <2>2, <2>6, <2>7, <3>1
    <3>2. CASE i = 4
      BY <2>5, <2>6, <2>7, <3>2 DEF one
    <3>3. CASE i > 4
      BY <1>1, <2>3, <2>7, <3>3
    <3> QED BY <3>1, <3>2, <3>3
  <2> QED BY <2>7, <2>8
<1> HIDE DEF back
<1>6. back = s
  BY <1>5, SeqEqual
<1> QED BY <1>4, <1>6 DEF back

(* The client's mapping sends every coded channel to its own speaker.      *)
LEMMA SpeakersMatch ==
  ASSUME NEW n \in Layouts, NEW i \in 1 .. n
  PROVE  Coded(n)[ClientMapping(n)[i] + 1] = SpeakerOrder[i]
<1>1. ClientMapping(n) = Mapping(n)
  <2>1. CASE n = 2
    BY <2>1 DEF ClientMapping, SpeakerString
  <2>2. CASE n # 2
    <3>1. Mapping(n) \in Seq(Nat) /\ Len(Mapping(n)) >= 4
      BY <2>2 DEF Mapping, Layouts
    <3>2. n > 2
      BY <2>2 DEF Layouts
    <3> QED BY <3>1, <3>2, MovedThereAndBack DEF ClientMapping, SpeakerString
  <2> QED BY <2>1, <2>2
<1>2. Coded(n)[Mapping(n)[i] + 1] = SpeakerOrder[i]
  <2>1. CASE n = 2
    BY <2>1 DEF Coded, Mapping, SpeakerOrder
  <2>2. CASE n = 6
    BY <2>2 DEF Coded, Mapping, SpeakerOrder
  <2>3. CASE n = 8
    BY <2>3 DEF Coded, Mapping, SpeakerOrder
  <2> QED BY <2>1, <2>2, <2>3 DEF Layouts
<1> QED BY <1>1, <1>2

(***************************************************************************)
(* The inductive invariant of the parameters: NVENC's VBV is always that   *)
(* of its rate, the ANNOUNCE's rate fits what it configured beside the     *)
(* stock rate of Opus, and what a start has set up so far is what was      *)
(* negotiated, since no ANNOUNCE falls into it.                            *)
(***************************************************************************)
VbvOfTheRate == HasVbvProperty(live.encoder) => live.vbv = VbvKbit(live.rate)

RateFitsBudget ==
  budget # NoArg /\ budget >= 2500 =>
    /\ bitrate > 0
    /\ (5 * bitrate) \div 4 + (3 * StockOpus[channels]) \div 2 <= budget

IdleIsNotLive == live.encoder = NoEncoder => live.rate = 0

LayoutSetUp ==
  stage \in {"sink", "video"} \/ (stage = "playing" /\ ~pending) => audioChannels = channels

RateSetUp ==
  /\ stage = "video" \/ (stage = "playing" /\ ~pending)
  /\ live.encoder # NoEncoder /\ pipeline.block.named /\ bitrate > 0
  => live.rate = bitrate

ParamsInv ==
  /\ ParamsTypeOK /\ RateFitsBudget /\ VbvOfTheRate /\ IdleIsNotLive
  /\ LayoutSetUp /\ RateSetUp

(* The start and the end of a stream see to the encoder.                   *)
LEMMA NotLiveFacts ==
  ASSUME live' = NotLive
  PROVE  /\ live' \in [encoder : Plugins \cup {NoEncoder}, rate : Nat, vbv : Nat]
         /\ VbvOfTheRate' /\ IdleIsNotLive' /\ RateSetUp'
<1>1. live'.encoder = NoEncoder /\ live'.rate = 0 /\ live'.vbv = 0
  BY DEF NotLive
<1>2. live' \in [encoder : Plugins \cup {NoEncoder}, rate : Nat, vbv : Nat]
  BY DEF NotLive
<1> QED BY <1>1, <1>2 DEF VbvOfTheRate, IdleIsNotLive, RateSetUp, HasVbvProperty, NoEncoder

LEMMA ParamsInit == FileInv /\ Init => ParamsInv
<1> SUFFICES ASSUME FileInv, Init PROVE ParamsInv
  OBVIOUS
<1>1. /\ live \in [encoder : Plugins \cup {NoEncoder}, rate : Nat, vbv : Nat]
      /\ VbvOfTheRate /\ IdleIsNotLive
  BY DEF Init, NotLive, VbvOfTheRate, IdleIsNotLive, HasVbvProperty, NoEncoder
<1>2. ParamsTypeOK
  <2>1. /\ bitrate \in Nat /\ channels \in Layouts /\ audioChannels \in Layouts
        /\ layout \in Layouts \cup {0} /\ audioKbps \in Nat
    BY DEF Init, Layouts, MaximumKbps
  <2>2. surround \in Surrounds /\ budget = NoArg /\ pending = FALSE
    BY DEF Init
  <2> QED BY <1>1, <2>1, <2>2 DEF ParamsTypeOK
<1>3. stage = "off"
  BY DEF Init, ConfigInit
<1> QED BY <1>1, <1>2, <1>3 DEF Init, ParamsInv, RateFitsBudget, LayoutSetUp, RateSetUp

LEMMA ParamsStep ==
  ASSUME FileInv, ParamsInv, [Next]_vars
  PROVE  ParamsInv'
<1> USE DEF ParamsInv, ParamsTypeOK
<1>0. ASSUME UNCHANGED <<budget, bitrate, channels>>
      PROVE  RateFitsBudget'
  BY <1>0 DEF RateFitsBudget
<1>a. ASSUME UNCHANGED live
      PROVE  VbvOfTheRate' /\ IdleIsNotLive'
  BY <1>a DEF VbvOfTheRate, IdleIsNotLive
<1>b. ASSUME Load, NEW n \in Layouts
      PROVE  OpusKbps(Loaded(file'), n) \in Nat
  <2>1. Loaded(file') \in Contents
    BY <1>b, LoadFacts DEF FileInv, PipelineInv, ConfigTypeOK
  <2> QED BY <1>b, <2>1 DEF OpusKbps, Contents
<1>1. ASSUME Host
      PROVE  ParamsInv'
  <2>1. UNCHANGED <<paramVars, pipeline>> /\ (stage' = stage \/ stage' = "idle")
    BY <1>1 DEF Host, Boot, Edit
  <2> QED BY <1>0, <1>a, <2>1 DEF paramVars, LayoutSetUp, RateSetUp
<1>2. ASSUME NEW n \in Surrounds, Launch(n)
      PROVE  ParamsInv'
  BY <1>0, <1>a, <1>2 DEF Launch, configVars, LayoutSetUp, RateSetUp
<1>3. ASSUME NEW fmt \in Codecs, NEW n \in Asked, NEW configured \in Configured,
             Announce(fmt, n, configured)
      PROVE  ParamsInv'
  <2> DEFINE count == Arg(n, surround)
  <2>1. count \in Nat
    BY ParamsAssumption DEF Arg
  <2>2. configured \in Nat \cup {NoArg}
    BY ParamsAssumption
  <2>3. ForChannels(count) \in Layouts
    BY DEF ForChannels, Layouts
  <2>4. /\ budget' = configured /\ bitrate' = VideoKbps(configured, count)
        /\ channels' = ForChannels(count) /\ pending' = TRUE
        /\ UNCHANGED <<surround, live, audioChannels, audioKbps, layout>>
        /\ stage' \in {"announced", "playing"}
    BY <1>3 DEF Announce, AskFormat
  <2> HIDE DEF count
  <2>5. bitrate' \in Nat
    BY <2>1, <2>2, <2>4, RateIsNat
  <2>6. RateFitsBudget'
    <3>1. configured # NoArg /\ configured >= 2500 =>
            /\ bitrate' > 0
            /\ (5 * bitrate') \div 4 + (3 * StockOpus[channels']) \div 2 <= configured
      BY <2>1, <2>2, <2>4, RateFits
    <3> QED BY <2>4, <3>1 DEF RateFitsBudget
  <2>7. ParamsTypeOK'
    BY <2>3, <2>4, <2>5
  <2>8. LayoutSetUp' /\ RateSetUp'
    BY <2>4 DEF LayoutSetUp, RateSetUp
  <2> QED BY <1>a, <2>4, <2>6, <2>7, <2>8
<1>4. ASSUME PlaySink
      PROVE  ParamsInv'
  BY <1>0, <1>a, <1>4 DEF PlaySink, StartSink, LayoutSetUp, RateSetUp
<1>5. ASSUME PlayVideo
      PROVE  ParamsInv'
  <2> DEFINE encoder == pipeline'.block.encoder
             vbv == IF SetsVbvAtStart(encoder) THEN VbvKbit(bitrate) ELSE 0
  <2>1. /\ UNCHANGED <<surround, budget, bitrate, channels, audioChannels, audioKbps, layout, pending>>
        /\ stage = "sink" /\ stage' = "video"
    BY <1>5 DEF PlayVideo, StartVideo
  <2>2. /\ live' \in [encoder : Plugins \cup {NoEncoder}, rate : Nat, vbv : Nat]
        /\ VbvOfTheRate' /\ IdleIsNotLive' /\ RateSetUp'
    <3>1. CASE live' = NotLive
      BY <3>1, NotLiveFacts
    <3>2. CASE live' # NotLive
      <4>1. Links(pipeline') /\ live' = [encoder |-> encoder, rate |-> bitrate, vbv |-> vbv]
        BY <1>5, <3>2 DEF PlayVideo
      <4>2. encoder \in Plugins
        BY <4>1 DEF Links, FileInv, PipelineInv, ConfigTypeOK
      <4>3. vbv \in Nat /\ (HasVbvProperty(encoder) => vbv = VbvKbit(bitrate))
        BY VbvFacts DEF HasVbvProperty, SetsVbvAtStart
      <4>4. encoder # NoEncoder
        BY <4>2 DEF Plugins, NoEncoder
      <4> HIDE DEF encoder, vbv
      <4>5. live' \in [encoder : Plugins \cup {NoEncoder}, rate : Nat, vbv : Nat]
        BY <4>1, <4>2, <4>3
      <4>6. live'.encoder = encoder /\ live'.rate = bitrate /\ live'.vbv = vbv
        BY <4>1
      <4>7. bitrate' = bitrate
        BY <2>1
      <4> QED BY <4>3, <4>4, <4>5, <4>6, <4>7 DEF VbvOfTheRate, IdleIsNotLive, RateSetUp
    <3> QED BY <3>1, <3>2
  <2> QED BY <1>0, <2>1, <2>2 DEF LayoutSetUp
<1>6. ASSUME PlayAudio
      PROVE  ParamsInv'
  <2>1. /\ UNCHANGED <<surround, budget, bitrate, channels, live, audioChannels, layout>>
        /\ stage = "video" /\ stage' = "playing" /\ pending' = FALSE
        /\ pipeline' = pipeline
    BY <1>6 DEF PlayAudio, StartAudio
  <2>2. audioKbps' \in Nat
    BY <1>6, <1>b DEF PlayAudio, StartAudio
  <2>3. LayoutSetUp' /\ RateSetUp'
    BY <2>1 DEF LayoutSetUp, RateSetUp
  <2>4. ParamsTypeOK'
    BY <2>1, <2>2
  <2> QED BY <1>0, <1>a, <2>1, <2>3, <2>4
<1>7. ASSUME Resume
      PROVE  ParamsInv'
  <2>1. UNCHANGED <<stage, pipeline, surround, budget, bitrate, channels, layout>>
        /\ audioChannels' = channels /\ pending' = FALSE /\ UpdateBitrate
    BY <1>7 DEF Resume, RebuildAudio, configVars
  <2>2. audioKbps' \in Nat
    BY <1>7, <1>b DEF Resume, RebuildAudio
  <2>3. /\ live' \in [encoder : Plugins \cup {NoEncoder}, rate : Nat, vbv : Nat]
        /\ VbvOfTheRate' /\ IdleIsNotLive' /\ RateSetUp'
    <3>1. CASE ~RateChanges
      <4>1. live' = live
        BY <2>1, <3>1 DEF UpdateBitrate
      <4> QED BY <1>a, <2>1, <3>1, <4>1 DEF RateChanges, RateSetUp
    <3>2. CASE RateChanges
      <4>1. live' = [live EXCEPT !.rate = bitrate,
                       !.vbv = IF HasVbvProperty(live.encoder) THEN VbvKbit(bitrate) ELSE @]
        BY <2>1, <3>2 DEF UpdateBitrate
      <4>2. VbvKbit(bitrate) \in Nat
        BY VbvFacts
      <4>3. /\ live'.encoder = live.encoder /\ live'.rate = bitrate
            /\ live'.vbv = IF HasVbvProperty(live.encoder) THEN VbvKbit(bitrate) ELSE live.vbv
        BY <4>1
      <4>4. live' \in [encoder : Plugins \cup {NoEncoder}, rate : Nat, vbv : Nat]
        BY <4>1, <4>2
      <4>5. live.encoder # NoEncoder
        BY <3>2 DEF RateChanges
      <4> QED BY <2>1, <4>3, <4>4, <4>5 DEF VbvOfTheRate, IdleIsNotLive, RateSetUp
    <3> QED BY <3>1, <3>2
  <2>4. ParamsTypeOK'
    BY <2>1, <2>2, <2>3
  <2>5. LayoutSetUp'
    BY <2>1 DEF LayoutSetUp
  <2> QED BY <1>0, <2>1, <2>3, <2>4, <2>5
<1>8. ASSUME Stop
      PROVE  ParamsInv'
  <2>1. /\ UNCHANGED <<surround, layout>> /\ budget' = NoArg /\ audioKbps' = 0
        /\ bitrate' = 15500 /\ channels' = 2 /\ audioChannels' = 2
        /\ live' = NotLive /\ pending' = FALSE
    BY <1>8 DEF Stop, MaximumKbps
  <2>2. ParamsTypeOK'
    <3>1. 15500 \in Nat /\ 2 \in Layouts /\ 0 \in Nat
      BY DEF Layouts
    <3>2. surround' \in Surrounds /\ layout' \in Layouts \cup {0}
      BY <2>1
    <3>3. budget' \in Configured \cup {NoArg}
      BY <2>1
    <3>4. pending' \in BOOLEAN
      BY <1>8, Zenon DEF Stop
    <3>5. bitrate' \in Nat /\ channels' \in Layouts /\ audioChannels' \in Layouts /\ audioKbps' \in Nat
      BY <2>1, <3>1
    <3>6. live' \in [encoder : Plugins \cup {NoEncoder}, rate : Nat, vbv : Nat]
      BY <2>1, NotLiveFacts
    <3> QED BY <3>2, <3>3, <3>4, <3>5, <3>6
  <2>3. RateFitsBudget' /\ LayoutSetUp'
    BY <2>1 DEF RateFitsBudget, LayoutSetUp
  <2> QED BY <2>1, <2>2, <2>3, NotLiveFacts
<1>9. CASE UNCHANGED vars
  BY <1>0, <1>a, <1>9 DEF vars, paramVars, configVars, LayoutSetUp, RateSetUp
<1> HIDE DEF ParamsInv
<1> QED BY <1>1, <1>2, <1>3, <1>4, <1>5, <1>6, <1>7, <1>8, <1>9 DEF Next

(* After every PLAY, also of a resume, rate, VBV, channels and speakers    *)
(* are those of the last ANNOUNCE, and all of it fits what was configured. *)
THEOREM StreamAsNegotiatedHolds == Spec => []StreamAsNegotiated
<1>1. FileInv /\ Init => ParamsInv
  BY ParamsInit
<1>2. FileInv /\ ParamsInv /\ [Next]_vars => ParamsInv'
  BY ParamsStep
<1>3. ParamsInv => StreamAsNegotiated
  <2> SUFFICES ASSUME ParamsInv PROVE StreamAsNegotiated
    OBVIOUS
  <2>1. ASSUME stage = "playing", ~pending PROVE RateAsNegotiated
    BY <2>1, VbvFacts DEF ParamsInv, ParamsTypeOK, VbvOfTheRate, RateSetUp, RateAsNegotiated
  <2>2. ASSUME stage = "playing", ~pending PROVE SpeakersAsNegotiated
    BY <2>2, SpeakersMatch DEF ParamsInv, ParamsTypeOK, LayoutSetUp, SpeakersAsNegotiated
  <2>3. ASSUME stage = "playing", ~pending PROVE WithinBudget
    <3> SUFFICES ASSUME budget # NoArg, budget >= 2500,
                        live.encoder # NoEncoder => pipeline.block.named,
                        audioKbps <= StockOpus[audioChannels]
                 PROVE  (5 * live.rate) \div 4 + (3 * audioKbps) \div 2 <= budget
      BY DEF WithinBudget
    <3>1. /\ bitrate > 0 /\ bitrate \in Nat
          /\ (5 * bitrate) \div 4 + (3 * StockOpus[channels]) \div 2 <= budget
      BY DEF ParamsInv, ParamsTypeOK, RateFitsBudget
    <3>2. audioChannels = channels
      BY <2>3 DEF ParamsInv, LayoutSetUp
    <3>3. live.rate \in Nat /\ live.rate <= bitrate
      BY <2>3, <3>1 DEF ParamsInv, ParamsTypeOK, RateSetUp, IdleIsNotLive
    <3>4. budget \in Nat
      BY ParamsAssumption DEF ParamsInv, ParamsTypeOK
    <3>5. StockOpus[channels] \in Nat /\ audioKbps \in Nat
      BY StockFacts DEF ParamsInv, ParamsTypeOK
    <3>6. ASSUME NEW r \in Nat, NEW b \in Nat, NEW a \in Nat, NEW o \in Nat, NEW w \in Nat,
                 r <= b, a <= o, (5 * b) \div 4 + (3 * o) \div 2 <= w
          PROVE  (5 * r) \div 4 + (3 * a) \div 2 <= w
      BY ONLY <3>6
    <3> QED BY <3>1, <3>2, <3>3, <3>4, <3>5, <3>6
  <2> QED BY <2>1, <2>2, <2>3 DEF ParamsInv, StreamAsNegotiated
<1> QED BY FileInductive, <1>1, <1>2, <1>3, PTL DEF Spec

-----------------------------------------------------------------------------
(***************************************************************************)
(* RtpStreams.                                                             *)
(*                                                                         *)
(* Quotients and remainders by a number that is not a constant.            *)
(***************************************************************************)
LEMMA Split ==
  ASSUME NEW m \in Nat \ {0}, NEW a \in Nat
  PROVE  a \div m \in Nat /\ a % m \in 0 .. m - 1 /\ a = m * (a \div m) + (a % m)
OBVIOUS

(* Multiples are at least their factor apart.                              *)
LEMMA NextMultiple ==
  ASSUME NEW m \in Nat \ {0}, NEW d \in Int, NEW q \in Int, d > q
  PROVE  m * d >= m * q + m
<1> DEFINE k == d - q - 1
<1>1. k \in Nat /\ d = k + q + 1
  OBVIOUS
<1> HIDE DEF k
<1>2. m * d = m * k + m * q + m /\ m * k \in Nat
  BY <1>1
<1> QED BY <1>2

(* What is left over is the remainder.                                     *)
LEMMA Remainder ==
  ASSUME NEW m \in Nat \ {0}, NEW q \in Nat, NEW r \in 0 .. m - 1
  PROVE  (m * q + r) % m = r
<1> DEFINE a == m * q + r
           d == a \div m
<1>1. m * q \in Nat /\ a \in Nat
  OBVIOUS
<1>2. d \in Nat /\ a % m \in 0 .. m - 1 /\ a = m * d + (a % m)
  BY <1>1, Split
<1> HIDE DEF d
<1>3. ~(d > q)
  <2> SUFFICES ASSUME d > q PROVE FALSE
    OBVIOUS
  <2>1. m * d >= m * q + m
    BY <1>2, NextMultiple
  <2>2. m * d \in Nat
    BY <1>2
  <2> QED BY <1>1, <1>2, <2>1, <2>2
<1>4. ~(q > d)
  <2> SUFFICES ASSUME q > d PROVE FALSE
    OBVIOUS
  <2>1. m * q >= m * d + m
    BY <1>2, NextMultiple
  <2>2. m * d \in Nat
    BY <1>2
  <2> QED BY <1>1, <1>2, <2>1, <2>2
<1>5. d = q
  BY <1>2, <1>3, <1>4
<1> QED BY <1>1, <1>2, <1>5

(* A remainder is its own; adding the modulus changes nothing.             *)
LEMMA Small ==
  ASSUME NEW m \in Nat \ {0}, NEW r \in 0 .. m - 1
  PROVE  r % m = r /\ (r + m) % m = r
OBVIOUS

(***************************************************************************)
(* The inductive invariant of the audio stream.  The positions are counted *)
(* modulo Window, a multiple of the sequence numbers' modulus, which is a  *)
(* multiple of the four rows: a position, its sequence number and its row  *)
(* all wrap together.                                                      *)
(***************************************************************************)
Aligned == \E q \in Nat : pushed = AudioSeqMod * q + audioSeq

SameRow == pushed % 4 = audioSeq % 4

BlockSoFar ==
  \A i \in Slots : i < audioSeq % 4 => slots[i] = pushed - (audioSeq % 4) + i

AudioInv == BlocksInv /\ Aligned /\ SameRow /\ BlockSoFar

(* The moduli: whole rows, and whole runs of sequence numbers.             *)
LEMMA Moduli ==
  /\ AudioSeqMod \in Nat \ {0} /\ AudioSeqMod % 4 = 0
  /\ Window \in Nat /\ Window >= 8 /\ Window % 4 = 0
  /\ \E k \in Nat : Window = AudioSeqMod * k
<1>1. \E k \in Nat : Window = AudioSeqMod * k
  <2>1. /\ Window \div AudioSeqMod \in Nat
        /\ Window = AudioSeqMod * (Window \div AudioSeqMod) + (Window % AudioSeqMod)
    BY AudioAssumption, Split
  <2>2. Window % AudioSeqMod = 0 /\ Window \in Nat /\ AudioSeqMod \in Nat
    BY AudioAssumption
  <2> DEFINE k == Window \div AudioSeqMod
  <2> HIDE DEF k
  <2>3. k \in Nat /\ Window = AudioSeqMod * k + 0
    BY <2>1, <2>2 DEF k
  <2>4. Window = AudioSeqMod * k
    BY <2>2, <2>3
  <2> QED BY <2>3, <2>4
<1>2. PICK k \in Nat : Window = AudioSeqMod * k
  BY <1>1
<1>3. PICK m \in Nat : AudioSeqMod = 4 * m
  BY AudioAssumption
<1>4. Window = 4 * (m * k) /\ m * k \in Nat
  BY <1>2, <1>3
<1>5. Window % 4 = 0
  BY <1>4
<1> QED BY <1>1, <1>5, AudioAssumption

(* How the position and the number move: on, or back to 0 together.        *)
LEMMA Advance ==
  ASSUME AudioTypeOK, Aligned, SameRow
  PROVE  /\ (pushed + 1) % Window = IF pushed + 1 = Window THEN 0 ELSE pushed + 1
         /\ NextSeq = IF audioSeq + 1 = AudioSeqMod THEN 0 ELSE audioSeq + 1
         /\ pushed + 1 = Window => audioSeq + 1 = AudioSeqMod
         /\ TimeToFec <=> audioSeq % 4 = 3
<1> USE DEF Seqs
<1>1. audioSeq \in 0 .. AudioSeqMod - 1 /\ pushed \in 0 .. Window - 1
  BY DEF AudioTypeOK
<1>2. (pushed + 1) % Window = IF pushed + 1 = Window THEN 0 ELSE pushed + 1
  <2>1. CASE pushed + 1 = Window
    BY <1>1, <2>1, Moduli, Small
  <2>2. CASE pushed + 1 # Window
    <3>1. pushed + 1 \in 0 .. Window - 1 /\ Window \in Nat \ {0}
      BY <1>1, <2>2, Moduli
    <3> QED BY <2>2, <3>1, Small
  <2> QED BY <2>1, <2>2
<1>3. NextSeq = IF audioSeq + 1 = AudioSeqMod THEN 0 ELSE audioSeq + 1
  <2>1. CASE audioSeq + 1 = AudioSeqMod
    BY <1>1, <2>1, Moduli, Small DEF NextSeq
  <2>2. CASE audioSeq + 1 # AudioSeqMod
    <3>1. audioSeq + 1 \in 0 .. AudioSeqMod - 1 /\ AudioSeqMod \in Nat \ {0}
      BY <1>1, <2>2, Moduli
    <3> QED BY <2>2, <3>1, Small DEF NextSeq
  <2> QED BY <2>1, <2>2
<1>4. ASSUME pushed + 1 = Window
      PROVE  audioSeq + 1 = AudioSeqMod
  <2>1. PICK q \in Nat : pushed = AudioSeqMod * q + audioSeq
    BY DEF Aligned
  <2>2. PICK k \in Nat : Window = AudioSeqMod * k
    BY Moduli
  <2>3. AudioSeqMod * q \in Nat /\ AudioSeqMod * k \in Nat /\ AudioSeqMod \in Nat \ {0}
    BY Moduli
  <2>4. AudioSeqMod * q + audioSeq + 1 = AudioSeqMod * k
    BY <1>4, <2>1, <2>2
  <2>5. k > q
    <3> SUFFICES ASSUME ~(k > q) PROVE FALSE
      OBVIOUS
    <3>1. k = q \/ q > k
      OBVIOUS
    <3>2. q > k => AudioSeqMod * q >= AudioSeqMod * k + AudioSeqMod
      BY <2>3, NextMultiple
    <3> QED BY <1>1, <2>3, <2>4, <3>1, <3>2
  <2>6. AudioSeqMod * k >= AudioSeqMod * q + AudioSeqMod
    BY <2>3, <2>5, NextMultiple
  <2> QED BY <1>1, <2>3, <2>4, <2>6
<1>5. TimeToFec <=> audioSeq % 4 = 3
  BY <1>1, Moduli DEF TimeToFec, AUDIO_DATA_SHARDS
<1> QED BY <1>2, <1>3, <1>4, <1>5

LEMMA AudioInitInv == AudioInit => AudioInv
<1> SUFFICES ASSUME AudioInit PROVE AudioInv
  OBVIOUS
<1>1. AudioTypeOK
  <2>1. slots \in Rows
    BY Moduli DEF AudioInit, Rows, Empty
  <2>2. 0 \in Seqs /\ AudioSeqMod - 1 \in Seqs /\ {} \in SUBSET Seqs
    BY Moduli DEF Seqs
  <2>3. [seq |-> AudioSeqMod - 1, base |-> 0, fecSeqs |-> {}, rows |-> slots]
          \in [seq : Seqs, base : Seqs, fecSeqs : SUBSET Seqs, rows : Rows]
    BY <2>1, <2>2
  <2> QED BY <2>1, <2>2, <2>3, Moduli DEF AudioInit, AudioTypeOK
<1>2. Aligned
  <2>1. 0 = AudioSeqMod * 0 + 0
    BY Moduli
  <2> QED BY <2>1 DEF AudioInit, Aligned
<1>3. SameRow /\ BlockSoFar
  BY DEF AudioInit, SameRow, BlockSoFar, Slots, AUDIO_DATA_SHARDS
<1>4. audioList.fecSeqs = {} /\ audioList.seq = AudioSeqMod - 1 /\ slots[0] = Empty
  BY DEF AudioInit, Slots, AUDIO_DATA_SHARDS
<1>5. GaplessAudio
  <2>1. (0 + AudioSeqMod - 1) % AudioSeqMod = AudioSeqMod - 1
    BY Moduli, Small
  <2> QED BY <1>4, <2>1 DEF AudioInit, GaplessAudio
<1> QED BY <1>1, <1>2, <1>3, <1>4, <1>5
        DEF AudioInv, BlocksInv, FecCoversItsBlock, EveryBlockIsCovered

LEMMA AudioStep ==
  ASSUME AudioInv, PushAudio
  PROVE  AudioInv'
<1>1. /\ AudioTypeOK /\ Aligned /\ SameRow /\ BlockSoFar
      /\ audioSeq \in 0 .. AudioSeqMod - 1 /\ pushed \in 0 .. Window - 1
      /\ slots \in Rows
  BY DEF AudioInv, BlocksInv, AudioTypeOK, Seqs
<1> DEFINE r == audioSeq % 4
<1>2. r \in 0 .. 3 /\ r \in Slots /\ pushed % 4 = r /\ r <= audioSeq /\ r <= pushed
  BY <1>1 DEF SameRow, Slots, AUDIO_DATA_SHARDS
<1>3. /\ pushed' = IF pushed + 1 = Window THEN 0 ELSE pushed + 1
      /\ audioSeq' = IF audioSeq + 1 = AudioSeqMod THEN 0 ELSE audioSeq + 1
      /\ pushed + 1 = Window => audioSeq + 1 = AudioSeqMod
      /\ TimeToFec <=> r = 3
  BY <1>1, Advance DEF PushAudio
<1>4. /\ audioList' = IF TimeToFec THEN WithFec ELSE WithoutFec
      /\ slots' = [slots EXCEPT ![r] = pushed] /\ Stored = slots'
  BY DEF PushAudio, Stored, AUDIO_DATA_SHARDS
<1>5. /\ slots' \in Rows /\ slots'[r] = pushed
      /\ \A i \in Slots : i # r => slots'[i] = slots[i]
  <2>1. pushed \in 0 .. Window
    BY <1>1, Moduli
  <2> QED BY <1>1, <1>2, <1>4, <2>1 DEF Rows
<1>6. (pushed + 1) % 4 = (r + 1) % 4 /\ (audioSeq + 1) % 4 = (r + 1) % 4
  BY <1>1, <1>2
<1>7. pushed' % 4 = (r + 1) % 4 /\ audioSeq' % 4 = (r + 1) % 4
  BY <1>1, <1>3, <1>6, Moduli
<1> HIDE DEF r
<1>8. Aligned'
  <2>1. PICK q \in Nat : pushed = AudioSeqMod * q + audioSeq
    BY <1>1 DEF Aligned
  <2>2. CASE pushed + 1 = Window
    <3>1. pushed' = 0 /\ audioSeq' = 0
      BY <1>3, <2>2
    <3>2. 0 = AudioSeqMod * 0 + 0
      BY Moduli
    <3> QED BY <3>1, <3>2 DEF Aligned
  <2>3. CASE pushed + 1 # Window /\ audioSeq + 1 = AudioSeqMod
    <3>1. pushed' = pushed + 1 /\ audioSeq' = 0
      BY <1>3, <2>3
    <3>2. AudioSeqMod * (q + 1) = AudioSeqMod * q + AudioSeqMod /\ AudioSeqMod * q \in Nat
      BY Moduli
    <3>3. pushed' = AudioSeqMod * (q + 1) + audioSeq' /\ q + 1 \in Nat
      BY <1>1, <2>1, <2>3, <3>1, <3>2
    <3> QED BY <3>3 DEF Aligned
  <2>4. CASE pushed + 1 # Window /\ audioSeq + 1 # AudioSeqMod
    <3>1. pushed' = pushed + 1 /\ audioSeq' = audioSeq + 1 /\ AudioSeqMod * q \in Nat
      BY <1>3, <2>4, Moduli
    <3>2. pushed' = AudioSeqMod * q + audioSeq'
      BY <1>1, <2>1, <3>1
    <3> QED BY <3>2 DEF Aligned
  <2> QED BY <2>2, <2>3, <2>4
<1>9. SameRow' /\ BlockSoFar'
  <2>1. SameRow'
    BY <1>7 DEF SameRow
  <2>2. CASE r = 3
    BY <1>7, <2>1, <2>2 DEF BlockSoFar, Slots, AUDIO_DATA_SHARDS
  <2>3. CASE r # 3
    <3>1. audioSeq' % 4 = r + 1
      BY <1>2, <1>7, <2>3
    <3>2. pushed + 1 # Window
      BY <1>2, <1>6, <2>3, Moduli
    <3>3. pushed' = pushed + 1
      BY <1>3, <3>2
    <3>4. ASSUME NEW i \in Slots, i < r + 1
          PROVE  slots'[i] = pushed' - (r + 1) + i
      <4>1. i \in 0 .. 3
        BY DEF Slots, AUDIO_DATA_SHARDS
      <4>2. CASE i = r
        BY <1>1, <1>2, <1>5, <3>3, <4>2
      <4>3. CASE i # r
        <5>1. slots'[i] = slots[i] /\ i < r
          BY <1>2, <1>5, <3>4, <4>1, <4>3
        <5>2. slots[i] = pushed - r + i
          BY <1>1, <5>1 DEF BlockSoFar, r
        <5> QED BY <1>1, <1>2, <3>3, <4>1, <5>1, <5>2
      <4> QED BY <4>2, <4>3
    <3> QED BY <2>1, <3>1, <3>4 DEF BlockSoFar
  <2> QED BY <2>1, <2>2, <2>3
<1>10. audioList'.seq = audioSeq
  BY <1>4 DEF WithFec, WithoutFec
<1>11. GaplessAudio'
  <2>1. PICK q \in Nat : pushed = AudioSeqMod * q + audioSeq
    BY <1>1 DEF Aligned
  <2>2. CASE pushed + 1 = Window
    <3>1. pushed' + AudioSeqMod - 1 = AudioSeqMod - 1 /\ audioSeq = AudioSeqMod - 1
      BY <1>1, <1>3, <2>2, Moduli
    <3>2. (AudioSeqMod - 1) % AudioSeqMod = AudioSeqMod - 1
      BY Moduli, Small
    <3> QED BY <1>10, <3>1, <3>2 DEF GaplessAudio
  <2>3. CASE pushed + 1 # Window
    <3>1. AudioSeqMod * (q + 1) = AudioSeqMod * q + AudioSeqMod /\ AudioSeqMod * q \in Nat
      BY Moduli
    <3>2. pushed' + AudioSeqMod - 1 = AudioSeqMod * (q + 1) + audioSeq
      BY <1>1, <1>3, <2>1, <2>3, <3>1, Moduli
    <3>3. (AudioSeqMod * (q + 1) + audioSeq) % AudioSeqMod = audioSeq
      BY <1>1, Moduli, Remainder
    <3> QED BY <1>10, <3>2, <3>3 DEF GaplessAudio
  <2> QED BY <2>2, <2>3
<1>12. EveryBlockIsCovered'
  <2> SUFFICES ASSUME pushed' % 4 = 0 PROVE audioList'.fecSeqs # {}
    BY DEF EveryBlockIsCovered, AUDIO_DATA_SHARDS
  <2>1. TimeToFec
    BY <1>2, <1>3, <1>7
  <2>2. (audioSeq + 0) % AudioSeqMod \in WithFec.fecSeqs
    BY DEF WithFec, AUDIO_FEC_SHARDS
  <2> QED BY <1>4, <2>1, <2>2
<1>13. FecCoversItsBlock'
  <2> SUFFICES ASSUME audioList'.fecSeqs # {}, NEW i \in Slots
               PROVE  /\ audioList'.rows[i] # Empty
                      /\ audioList'.rows[i] = (pushed' + Window - 4 + i) % Window
                      /\ audioList'.rows[i] % AudioSeqMod = (audioList'.base + i) % AudioSeqMod
    BY DEF FecCoversItsBlock, AUDIO_DATA_SHARDS, Empty
  <2>1. TimeToFec
    BY <1>4 DEF WithoutFec
  <2>2. r = 3 /\ i \in 0 .. 3 /\ audioSeq >= 3 /\ pushed >= 3
    BY <1>2, <1>3, <2>1 DEF Slots, AUDIO_DATA_SHARDS
  <2>3. /\ audioList'.rows = slots'
        /\ audioList'.base = (audioSeq + AudioSeqMod - 3) % AudioSeqMod
    BY <1>4, <2>1 DEF WithFec, AUDIO_DATA_SHARDS
  <2>4. slots'[i] = pushed - 3 + i
    <3>1. CASE i = 3
      BY <1>1, <1>5, <2>2, <3>1
    <3>2. CASE i # 3
      <4>1. slots'[i] = slots[i] /\ i < r
        BY <1>5, <2>2, <3>2
      <4>2. slots[i] = pushed - r + i
        BY <1>1, <4>1 DEF BlockSoFar, r
      <4> QED BY <2>2, <4>1, <4>2
    <3> QED BY <3>1, <3>2
  <2>5. slots'[i] \in 0 .. Window - 1 /\ Window \in Nat \ {0}
    BY <1>1, <2>2, <2>4, Moduli
  <2>6. slots'[i] # Empty
    BY <2>5 DEF Empty
  <2>7. slots'[i] = (pushed' + Window - 4 + i) % Window
    <3>1. pushed' + Window - 4 + i = IF pushed + 1 = Window THEN slots'[i] ELSE slots'[i] + Window
      BY <1>1, <1>3, <2>2, <2>4, <2>5
    <3>2. slots'[i] % Window = slots'[i] /\ (slots'[i] + Window) % Window = slots'[i]
      BY <2>5, Small
    <3> QED BY <3>1, <3>2
  <2>8. slots'[i] % AudioSeqMod = audioSeq - 3 + i
    <3>1. PICK q \in Nat : pushed = AudioSeqMod * q + audioSeq
      BY <1>1 DEF Aligned
    <3>2. audioSeq - 3 + i \in 0 .. AudioSeqMod - 1 /\ AudioSeqMod * q \in Nat
      BY <1>1, <2>2, Moduli
    <3>3. slots'[i] = AudioSeqMod * q + (audioSeq - 3 + i)
      BY <1>1, <2>2, <2>4, <3>1, <3>2
    <3>4. (AudioSeqMod * q + (audioSeq - 3 + i)) % AudioSeqMod = audioSeq - 3 + i
      BY <3>2, Moduli, Remainder
    <3> QED BY <3>3, <3>4
  <2>9. (audioList'.base + i) % AudioSeqMod = audioSeq - 3 + i
    <3>1. audioSeq - 3 \in 0 .. AudioSeqMod - 1 /\ AudioSeqMod \in Nat \ {0}
      BY <1>1, <2>2, Moduli
    <3>2. ((audioSeq - 3) + AudioSeqMod) % AudioSeqMod = audioSeq - 3
      BY <3>1, Small
    <3>3. audioList'.base = audioSeq - 3
      BY <1>1, <2>3, <3>1, <3>2
    <3>4. audioSeq - 3 + i \in 0 .. AudioSeqMod - 1
      BY <1>1, <2>2, Moduli
    <3> QED BY <3>1, <3>3, <3>4, Small
  <2> QED BY <2>3, <2>6, <2>7, <2>8, <2>9
<1>14. AudioTypeOK'
  <2>1. audioSeq' \in Seqs /\ pushed' \in 0 .. Window - 1
    BY <1>1, <1>3, Moduli DEF Seqs
  <2>2. WithFec \in [seq : Seqs, base : Seqs, fecSeqs : SUBSET Seqs, rows : Rows]
    <3>1. \A a \in Nat : a % AudioSeqMod \in Seqs
      BY Moduli, Split DEF Seqs
    <3>2. (audioSeq + AudioSeqMod - 3) % AudioSeqMod \in Seqs
      <4>1. audioSeq + AudioSeqMod - 3 \in Nat
        BY <1>1, Moduli
      <4> QED BY <3>1, <4>1
    <3>3. {(audioSeq + i) % AudioSeqMod : i \in 0 .. AUDIO_FEC_SHARDS - 1} \in SUBSET Seqs
      <4>1. \A i \in 0 .. AUDIO_FEC_SHARDS - 1 : audioSeq + i \in Nat
        BY <1>1 DEF AUDIO_FEC_SHARDS
      <4> QED BY <3>1, <4>1
    <3>4. audioSeq \in Seqs /\ Stored \in Rows
      BY <1>1, <1>4, <1>5 DEF Seqs
    <3> QED BY <3>2, <3>3, <3>4 DEF WithFec, AUDIO_DATA_SHARDS
  <2>3. WithoutFec \in [seq : Seqs, base : Seqs, fecSeqs : SUBSET Seqs, rows : Rows]
    <3>1. audioSeq \in Seqs /\ 0 \in Seqs /\ {} \in SUBSET Seqs
      BY <1>1, Moduli DEF Seqs
    <3> QED BY <1>1, <3>1 DEF WithoutFec
  <2> QED BY <1>4, <1>5, <2>1, <2>2, <2>3 DEF AudioTypeOK
<1> QED BY <1>8, <1>9, <1>11, <1>12, <1>13, <1>14 DEF AudioInv, BlocksInv

(* Of the audio stream: every block is followed by FEC packets of exactly  *)
(* its four packets, however often numbers wrap, and no number is skipped. *)
THEOREM BlocksInvHolds == RtpSpec => []BlocksInv
<1>1. RtpInit => AudioInv
  BY AudioInitInv DEF RtpInit
<1>2. AudioInv /\ [RtpNext]_rtpVars => AudioInv'
  <2> SUFFICES ASSUME AudioInv, [RtpNext]_rtpVars PROVE AudioInv'
    OBVIOUS
  <2>1. CASE PushAudio
    BY <2>1, AudioStep
  <2>2. CASE UNCHANGED audioVars
    <3>1. UNCHANGED <<audioSeq, slots, audioList, pushed>>
      BY <2>2 DEF audioVars
    <3>2. (AudioTypeOK <=> AudioTypeOK') /\ (FecCoversItsBlock <=> FecCoversItsBlock')
      BY <3>1 DEF AudioTypeOK, FecCoversItsBlock, Empty
    <3>3. (EveryBlockIsCovered <=> EveryBlockIsCovered') /\ (GaplessAudio <=> GaplessAudio')
      BY <3>1 DEF EveryBlockIsCovered, GaplessAudio, Empty
    <3>4. (Aligned <=> Aligned') /\ (SameRow <=> SameRow') /\ (BlockSoFar <=> BlockSoFar')
      BY <3>1 DEF Aligned, SameRow, BlockSoFar
    <3> QED BY <3>2, <3>3, <3>4 DEF AudioInv, BlocksInv
  <2> QED BY <2>1, <2>2 DEF RtpNext, rtpVars
<1>3. AudioInv => BlocksInv
  BY DEF AudioInv
<1> QED BY <1>1, <1>2, <1>3, PTL DEF RtpSpec

(***************************************************************************)
(* The packets of a frame.  A run of packets is numbered from base on if   *)
(* its sequence numbers follow each other, and holds lo .. hi - 1 of the   *)
(* stream if its data packets are, in this order, among these.             *)
(***************************************************************************)
IsData(p) == p.piece # NoPiece

(* A packet of the frame that is pushed now: its data is where its stream  *)
(* index says.                                                             *)
Placed == {p \in Packet : IsData(p) => p.piece = p.index - cur + 1}

Numbered(R, base) == \A k \in 1 .. Len(R) : R[k].seq = (base + k - 1) % VideoSeqMod

Holds(R, lo, hi) ==
  /\ \A k \in 1 .. Len(R) : IsData(R[k]) => R[k].index \in lo .. hi - 1
  /\ \A j, k \in 1 .. Len(R) : j < k /\ IsData(R[j]) /\ IsData(R[k]) => R[j].index < R[k].index

(* A run that begins with a data packet and has room for all of its data.  *)
Run(R, base, lo, hi) ==
  /\ R \in Seq(Placed)
  /\ Len(R) >= hi - lo /\ Len(R) >= 1
  /\ Numbered(R, base) /\ Holds(R, lo, hi)
  /\ IsData(R[1])

(* Two runs that follow each other are one.                                *)
LEMMA RunsJoin ==
  ASSUME NEW A, NEW B, NEW base \in Nat, NEW lo \in Nat, NEW mid \in Nat, NEW hi \in Nat,
         lo <= mid, mid <= hi,
         Run(A, base, lo, mid), Run(B, base + Len(A), mid, hi)
  PROVE  Run(A \o B, base, lo, hi) /\ Len(A \o B) = Len(A) + Len(B)
<1> DEFINE C == A \o B
<1>1. A \in Seq(Placed) /\ B \in Seq(Placed) /\ Len(A) \in Nat /\ Len(B) \in Nat
  BY DEF Run
<1>2. /\ C \in Seq(Placed) /\ Len(C) = Len(A) + Len(B)
      /\ \A i \in 1 .. Len(A) + Len(B) : C[i] = IF i <= Len(A) THEN A[i] ELSE B[i - Len(A)]
  BY <1>1, ConcatProperties
<1> HIDE DEF C
<1>3. ASSUME NEW k \in 1 .. Len(C)
      PROVE  \/ k \in 1 .. Len(A) /\ C[k] = A[k]
             \/ k - Len(A) \in 1 .. Len(B) /\ C[k] = B[k - Len(A)]
  BY <1>1, <1>2
<1>4. Numbered(C, base)
  <2> SUFFICES ASSUME NEW k \in 1 .. Len(C) PROVE C[k].seq = (base + k - 1) % VideoSeqMod
    BY DEF Numbered
  <2>1. CASE k \in 1 .. Len(A) /\ C[k] = A[k]
    BY <2>1 DEF Run, Numbered
  <2>2. CASE k - Len(A) \in 1 .. Len(B) /\ C[k] = B[k - Len(A)]
    <3> DEFINE i == k - Len(A)
    <3>1. C[k].seq = (base + Len(A) + i - 1) % VideoSeqMod
      BY <2>2 DEF Run, Numbered
    <3>2. base + Len(A) + i - 1 = base + k - 1
      BY <1>1, <1>2
    <3> QED BY <3>1, <3>2
  <2> QED BY <1>3, <2>1, <2>2
<1>5. ASSUME NEW k \in 1 .. Len(A), IsData(A[k])
      PROVE  A[k].index \in lo .. mid - 1
  BY <1>5 DEF Run, Holds
<1>6. ASSUME NEW k \in 1 .. Len(B), IsData(B[k])
      PROVE  B[k].index \in mid .. hi - 1
  BY <1>6 DEF Run, Holds
<1>7. ASSUME NEW k \in 1 .. Len(C), IsData(C[k])
      PROVE  C[k].index \in lo .. hi - 1
  <2>1. CASE k \in 1 .. Len(A) /\ C[k] = A[k]
    BY <1>5, <1>7, <2>1
  <2>2. CASE k - Len(A) \in 1 .. Len(B) /\ C[k] = B[k - Len(A)]
    BY <1>6, <1>7, <2>2
  <2> QED BY <1>3, <2>1, <2>2
<1>8. ASSUME NEW j \in 1 .. Len(C), NEW k \in 1 .. Len(C), j < k, IsData(C[j]), IsData(C[k])
      PROVE  C[j].index < C[k].index
  <2>1. CASE k \in 1 .. Len(A) /\ C[k] = A[k]
    <3>1. j \in 1 .. Len(A) /\ C[j] = A[j]
      BY <1>1, <1>2, <1>8, <2>1
    <3> QED BY <1>8, <2>1, <3>1 DEF Run, Holds
  <2>2. CASE k - Len(A) \in 1 .. Len(B) /\ C[k] = B[k - Len(A)]
    <3>1. C[k].index \in mid .. hi - 1
      BY <1>6, <1>8, <2>2
    <3>2. CASE j \in 1 .. Len(A) /\ C[j] = A[j]
      <4>1. C[j].index \in lo .. mid - 1
        BY <1>5, <1>8, <3>2
      <4> QED BY <3>1, <4>1
    <3>3. CASE j - Len(A) \in 1 .. Len(B) /\ C[j] = B[j - Len(A)]
      <4> DEFINE a == j - Len(A)
                 c == k - Len(A)
      <4>1. a \in 1 .. Len(B) /\ c \in 1 .. Len(B) /\ a < c
        BY <1>1, <1>8, <2>2, <3>3
      <4>2. C[j] = B[a] /\ C[k] = B[c]
        BY <2>2, <3>3
      <4> HIDE DEF a, c
      <4> QED BY <1>8, <4>1, <4>2 DEF Run, Holds
    <3> QED BY <1>3, <3>2, <3>3
  <2> QED BY <1>3, <2>1, <2>2
<1>9. Holds(C, lo, hi)
  BY <1>7, <1>8 DEF Holds
<1>10. IsData(C[1]) /\ Len(C) >= hi - lo /\ Len(C) >= 1
  <2>1. Len(A) >= 1 /\ Len(A) >= mid - lo /\ Len(B) >= hi - mid /\ IsData(A[1])
    BY DEF Run
  <2>2. C[1] = A[1]
    BY <1>1, <1>2, <2>1
  <2> QED BY <1>1, <1>2, <2>1, <2>2
<1> QED BY <1>2, <1>4, <1>9, <1>10 DEF C, Run

(***************************************************************************)
(* FEC blocks.                                                             *)
(***************************************************************************)

(* Products grow with a factor.                                            *)
LEMMA Products ==
  ASSUME NEW f \in Nat, NEW d \in Nat, NEW e \in Nat, d <= e
  PROVE  d * f \in Nat /\ e * f \in Nat /\ d * f <= e * f
<1> DEFINE k == e - d
<1>1. k \in Nat /\ e = d + k
  OBVIOUS
<1> HIDE DEF k
<1>2. e * f = d * f + k * f /\ d * f \in Nat /\ k * f \in Nat
  BY <1>1
<1> QED BY <1>2

(* The parity of a block, and what a block that is not too large fits in.  *)
SplitOK(d) ==
  /\ DetermineSplit(d).parity \in Nat
  /\ DetermineSplit(d).pct \in 0 .. 255
  /\ ~TooLarge(d) => d + DetermineSplit(d).parity <= 255

LEMMA SplitFacts ==
  ASSUME NEW d \in 1 .. 1023
  PROVE  SplitOK(d)
<1> DEFINE f == d * FecPercent
           parity == (f + 99) \div 100
<1>1. f \in Nat /\ FecPercent \in 0 .. 255 /\ MinRequired \in 0 .. 2
  <2>1. FecPercent \in 0 .. 255 /\ MinRequired \in 0 .. 2 /\ FecPercent \in Nat /\ d \in Nat
    BY PayloaderAssumption
  <2> QED BY <2>1, Products
<1> HIDE DEF f
<1>2. parity \in Nat
  BY <1>1
<1>3. (100 * MinRequired) \div d \in 0 .. 200
  <2>1. 100 * MinRequired \in 0 .. 200
    BY <1>1
  <2>2. \A x \in 0 .. 200 : x \div d \in 0 .. 200
    <3> SUFFICES ASSUME NEW x \in 0 .. 200 PROVE x \div d \in 0 .. 200
      OBVIOUS
    <3>1. /\ x \div d \in Nat /\ x % d \in 0 .. d - 1
          /\ x = d * (x \div d) + (x % d)
      BY Split
    <3> DEFINE q == x \div d
    <3> HIDE DEF q
    <3>2. q \in Nat /\ d * q \in Nat /\ d * q <= x
      BY <3>1 DEF q
    <3>3. 1 * q <= d * q
      BY <3>2, Products
    <3> QED BY <3>2, <3>3 DEF q
  <2> QED BY <2>1, <2>2
<1> HIDE DEF parity
<1>4. DetermineSplit(d) = IF parity < MinRequired
                            THEN [parity |-> MinRequired, pct |-> (100 * MinRequired) \div d]
                            ELSE [parity |-> parity, pct |-> FecPercent]
  BY DEF DetermineSplit, parity, f
<1>5. DetermineSplit(d).parity \in Nat /\ DetermineSplit(d).pct \in 0 .. 255
  <2>1. CASE parity < MinRequired
    BY <1>1, <1>3, <1>4, <2>1
  <2>2. CASE ~(parity < MinRequired)
    BY <1>1, <1>2, <1>4, <2>2
  <2> QED BY <2>1, <2>2
<1> QED BY <1>5 DEF SplitOK, TooLarge, DATA_SHARDS_MAX

(* A block larger than one too large for FEC is too large, too.            *)
LEMMA LargerIsTooLarge ==
  ASSUME NEW d \in 1 .. 1023, NEW e \in 1 .. 1023, d <= e, TooLarge(d)
  PROVE  TooLarge(e)
<1>1. FecPercent \in Nat /\ MinRequired \in Nat
  BY PayloaderAssumption
<1> DEFINE f == d * FecPercent
           g == e * FecPercent
<1>2. f \in Nat /\ g \in Nat /\ f <= g
  BY <1>1, Products
<1>3. DetermineSplit(d).parity = IF (f + 99) \div 100 < MinRequired THEN MinRequired
                                 ELSE (f + 99) \div 100
  BY DEF DetermineSplit
<1>4. DetermineSplit(e).parity = IF (g + 99) \div 100 < MinRequired THEN MinRequired
                                 ELSE (g + 99) \div 100
  BY DEF DetermineSplit
<1> HIDE DEF f, g
<1>5. DetermineSplit(d).parity <= DetermineSplit(e).parity
      /\ DetermineSplit(d).parity \in Nat /\ DetermineSplit(e).parity \in Nat
  BY <1>1, <1>2, <1>3, <1>4
<1> QED BY <1>5 DEF TooLarge, DATA_SHARDS_MAX

(* A function on an interval is a sequence.                                *)
LEMMA FunctionIsSeq ==
  ASSUME NEW S, NEW n \in Nat, NEW g \in [1 .. n -> S]
  PROVE  g \in Seq(S) /\ Len(g) = n
OBVIOUS

(* Some packets of a frame before FEC: all data, in the stream's order.    *)
FramePart(Q, n, first) ==
  /\ Q \in Seq(Placed) /\ Len(Q) = n
  /\ \A k \in 1 .. n :
       Q[k].seq = (first + k - 1) % VideoSeqMod /\ Q[k].index = first + k - 1 /\ IsData(Q[k])

LEMMA HeaderFacts ==
  ASSUME NEW n \in 1 .. 1023, cur \in Nat, frame \in Nat
  PROVE  FramePart(RtpPackets(n), n, cur)
<1> DEFINE P == RtpPackets(n)
<1>1. ASSUME NEW k \in 1 .. n
      PROVE  P[k] = RtpHeader(k - 1, n)
  BY DEF RtpPackets
<1>2. ASSUME NEW k \in 1 .. n
      PROVE  /\ RtpHeader(k - 1, n) \in Placed
             /\ RtpHeader(k - 1, n).seq = (cur + k - 1) % VideoSeqMod
             /\ RtpHeader(k - 1, n).index = cur + k - 1
             /\ IsData(RtpHeader(k - 1, n))
  <2>1. /\ RtpHeader(k - 1, n).seq = (cur + (k - 1)) % VideoSeqMod
        /\ RtpHeader(k - 1, n).index = cur + (k - 1) /\ RtpHeader(k - 1, n).piece = k - 1 + 1
    BY DEF RtpHeader
  <2>2. cur + (k - 1) = cur + k - 1 /\ k - 1 + 1 = k /\ cur + k - 1 \in Nat
    OBVIOUS
  <2>3. (cur + (k - 1)) % VideoSeqMod \in 0 .. VideoSeqMod - 1
    BY <2>2, PayloaderAssumption, Split
  <2>4. RtpHeader(k - 1, n) \in Packet
    <3>1. /\ cur + (k - 1) \in Nat /\ k - 1 + 1 \in 0 .. 1023 /\ k - 1 \in 0 .. 1022
          /\ 0 \in 0 .. LastBlock /\ 0 \in 0 .. 255 /\ n \in 1 .. 1023
      BY DEF LastBlock
    <3> QED BY <2>3, <3>1 DEF RtpHeader, Packet
  <2>5. RtpHeader(k - 1, n).piece = RtpHeader(k - 1, n).index - cur + 1
    BY <2>1, <2>2
  <2>6. RtpHeader(k - 1, n) \in Placed
    BY <2>4, <2>5 DEF Placed
  <2> QED BY <2>1, <2>2, <2>6 DEF IsData, NoPiece
<1>3. P \in [1 .. n -> Placed]
  BY <1>2 DEF RtpPackets
<1>4. P \in Seq(Placed) /\ Len(P) = n
  BY <1>3, FunctionIsSeq
<1> HIDE DEF P
<1>5. FramePart(P, n, cur)
  BY <1>1, <1>2, <1>4 DEF FramePart
<1> QED BY <1>5 DEF P

(* Sequence numbers are those that the packets' type has.                  *)
LEMMA SeqInRange ==
  ASSUME NEW a \in Nat
  PROVE  a % VideoSeqMod \in 0 .. VideoSeqMod - 1
<1>1. VideoSeqMod \in Nat \ {0}
  BY PayloaderAssumption
<1> QED BY <1>1, Split

(* Data or parity, a packet of a FEC block.                                *)
DataPacketLike(q, p, seq) ==
  q \in Placed /\ q.seq = seq /\ q.index = p.index /\ (IsData(q) <=> IsData(p))

ParityPacketLike(q, seq) == q \in Placed /\ q.seq = seq /\ ~IsData(q)

HeaderFields(k, d, pct, b, last, base) ==
  /\ k \in 0 .. 1022 /\ d \in 1 .. 1023 /\ pct \in 0 .. 255
  /\ b \in 0 .. LastBlock /\ last \in 0 .. LastBlock /\ base \in Nat /\ frame \in Nat

LEMMA FecHeaderFacts ==
  ASSUME NEW p \in Placed, NEW k, NEW d, NEW pct, NEW b, NEW last, NEW base,
         HeaderFields(k, d, pct, b, last, base)
  PROVE  DataPacketLike(FecHeader(p, k, d, pct, b, last, base), p, (base + k) % VideoSeqMod)
<1> DEFINE q == FecHeader(p, k, d, pct, b, last, base)
<1>1. p.index \in Nat /\ p.piece \in 0 .. 1023
  BY DEF Placed, Packet
<1>2. base + k \in Nat
  BY DEF HeaderFields
<1>3. (base + k) % VideoSeqMod \in 0 .. VideoSeqMod - 1
  BY <1>2, SeqInRange, ZenonT(30)
<1>4. q \in Packet
  BY <1>1, <1>3 DEF FecHeader, Packet, HeaderFields
<1>5. q.seq = (base + k) % VideoSeqMod /\ q.index = p.index /\ q.piece = p.piece
  BY DEF FecHeader
<1> HIDE DEF q
<1>6. q \in Placed
  BY <1>4, <1>5 DEF Placed, IsData
<1>7. DataPacketLike(q, p, (base + k) % VideoSeqMod)
  BY <1>5, <1>6 DEF DataPacketLike, IsData
<1> QED BY <1>7 DEF q

LEMMA ParityFacts ==
  ASSUME NEW k, NEW d, NEW pct, NEW b, NEW last, NEW base,
         HeaderFields(k, d, pct, b, last, base)
  PROVE  ParityPacketLike(ParityPacket(k, d, pct, b, last, base), (base + k) % VideoSeqMod)
<1> DEFINE q == ParityPacket(k, d, pct, b, last, base)
<1>1. base + k \in Nat /\ 0 \in Nat /\ NoPiece \in 0 .. 1023
  BY DEF NoPiece, HeaderFields
<1>2. (base + k) % VideoSeqMod \in 0 .. VideoSeqMod - 1
  <2>1. base + k \in Nat
    BY <1>1
  <2> QED BY <2>1, SeqInRange, ZenonT(30)
<1>3. q \in Packet
  BY <1>1, <1>2 DEF ParityPacket, Packet, HeaderFields
<1>4. q.seq = (base + k) % VideoSeqMod /\ ~IsData(q)
  BY DEF ParityPacket, IsData
<1> HIDE DEF q
<1>5. ParityPacketLike(q, (base + k) % VideoSeqMod)
  BY <1>3, <1>4 DEF ParityPacketLike, Placed
<1> QED BY <1>5 DEF q

(* Packets before FEC are a run.                                           *)
LEMMA PartIsRun ==
  ASSUME NEW Q, NEW d \in 1 .. 1023, NEW first \in Nat, FramePart(Q, d, first)
  PROVE  Run(Q, first, first, first + d)
<1>1. Q \in Seq(Placed) /\ Len(Q) = d
  BY DEF FramePart
<1>2. ASSUME NEW k \in 1 .. d
      PROVE  /\ Q[k].seq = (first + k - 1) % VideoSeqMod
             /\ Q[k].index = first + k - 1 /\ IsData(Q[k])
  BY DEF FramePart
<1>3. Numbered(Q, first)
  BY <1>1, <1>2 DEF Numbered
<1>4. IsData(Q[1])
  <2>1. 1 \in 1 .. d
    OBVIOUS
  <2> QED BY <1>2, <2>1
<1>5. Holds(Q, first, first + d)
  <2>1. ASSUME NEW k \in 1 .. d
        PROVE  Q[k].index \in first .. first + d - 1
    <3>1. Q[k].index = first + k - 1
      BY <1>2
    <3>2. first + k - 1 \in first .. first + d - 1
      OBVIOUS
    <3> QED BY <3>1, <3>2
  <2>2. ASSUME NEW j \in 1 .. d, NEW k \in 1 .. d, j < k
        PROVE  Q[j].index < Q[k].index
    <3>1. Q[j].index = first + j - 1 /\ Q[k].index = first + k - 1
      BY <1>2
    <3> QED BY <2>2, <3>1
  <2> QED BY <1>1, <2>1, <2>2 DEF Holds
<1>6. Len(Q) >= first + d - first /\ Len(Q) >= 1
  BY <1>1
<1> QED BY <1>1, <1>3, <1>4, <1>5, <1>6 DEF Run

(* A FEC block is a run; one that is too large for FEC is left as it is,   *)
(* and is one only if it is numbered from its base already.                *)
InPlace(d, base, first) == TooLarge(d) => base = first

BlockRun(R, d, base, first) == Run(R, base, first, first + d) /\ (TooLarge(d) => Len(R) = d)

LEMMA BlockIsRun ==
  ASSUME NEW Q, NEW d \in 1 .. 1023, NEW first \in Nat, NEW base \in Nat,
         NEW b \in 0 .. LastBlock, NEW last \in 0 .. LastBlock, frame \in Nat,
         FramePart(Q, d, first), InPlace(d, base, first)
  PROVE  BlockRun(FecPackets(Q, b, last, base), d, base, first)
<1> USE DEF BlockRun
<1> DEFINE R == FecPackets(Q, b, last, base)
           parity == DetermineSplit(d).parity
           pct == DetermineSplit(d).pct
           m == d + parity
<1>0. Q \in Seq(Placed) /\ Len(Q) = d
  BY DEF FramePart
<1>1. parity \in Nat /\ pct \in 0 .. 255 /\ (~TooLarge(d) => d + parity <= 255)
  <2>1. SplitOK(d)
    BY SplitFacts, ZenonT(30)
  <2> QED BY <2>1 DEF SplitOK
<1>2. CASE TooLarge(d)
  <2>1. R = Q /\ base = first
    BY <1>0, <1>2 DEF FecPackets, InPlace
  <2> HIDE DEF R
  <2>2. Run(Q, first, first, first + d)
    BY PartIsRun, ZenonT(30)
  <2> QED BY <1>0, <2>1, <2>2 DEF R
<1>3. CASE ~TooLarge(d)
  <2>1. R = [k \in 1 .. m |-> IF k <= d THEN FecHeader(Q[k], k - 1, d, pct, b, last, base)
                              ELSE ParityPacket(k - 1, d, pct, b, last, base)]
    BY <1>0, <1>3 DEF FecPackets
  <2>2. m \in Nat /\ d <= m /\ m <= 255
    <3> HIDE DEF parity
    <3> QED BY <1>1, <1>3
  <2> HIDE DEF R, pct, m
  <2>3. ASSUME NEW k \in 1 .. m
        PROVE  /\ R[k] \in Placed /\ R[k].seq = (base + k - 1) % VideoSeqMod
               /\ IsData(R[k]) <=> k <= d
               /\ k <= d => R[k].index = first + k - 1
    <3>1. k - 1 \in 0 .. 1022 /\ base + (k - 1) = base + k - 1
      BY <2>2
    <3>2. CASE k <= d
      <4>1. k \in 1 .. Len(Q)
        BY <1>0, <3>2
      <4>2. Q[k] \in Placed
        BY <1>0, <4>1, ElementOfSeq
      <4>3. IsData(Q[k]) /\ Q[k].index = first + k - 1
        BY <3>2, <2>2 DEF FramePart
      <4>4. R[k] = FecHeader(Q[k], k - 1, d, pct, b, last, base)
        BY <2>1, <3>2
      <4>5. /\ R[k] \in Placed /\ R[k].seq = (base + (k - 1)) % VideoSeqMod
            /\ R[k].index = Q[k].index /\ (IsData(R[k]) <=> IsData(Q[k]))
        <5> DEFINE i == k - 1
                   p == Q[k]
                   q == FecHeader(p, i, d, pct, b, last, base)
        <5>1. p \in Placed /\ HeaderFields(i, d, pct, b, last, base)
          BY <1>1, <3>1, <4>2 DEF HeaderFields
        <5> HIDE DEF i, p
        <5>2. DataPacketLike(q, p, (base + i) % VideoSeqMod)
          BY <5>1, FecHeaderFacts, ZenonT(30)
        <5> QED BY <4>4, <5>2 DEF i, p, DataPacketLike
      <4> QED BY <3>1, <3>2, <4>3, <4>5
    <3>3. CASE ~(k <= d)
      <4>1. R[k] = ParityPacket(k - 1, d, pct, b, last, base)
        BY <2>1, <3>3
      <4>2. R[k] \in Placed /\ R[k].seq = (base + (k - 1)) % VideoSeqMod /\ ~IsData(R[k])
        <5> DEFINE i == k - 1
                   q == ParityPacket(i, d, pct, b, last, base)
        <5>1. HeaderFields(i, d, pct, b, last, base)
          BY <1>1, <3>1 DEF HeaderFields
        <5> HIDE DEF i
        <5>2. ParityPacketLike(q, (base + i) % VideoSeqMod)
          BY <5>1, ParityFacts, ZenonT(30)
        <5> QED BY <4>1, <5>2 DEF i, ParityPacketLike
      <4> QED BY <3>1, <3>3, <4>2
    <3> QED BY <3>2, <3>3
  <2>4. R \in Seq(Placed) /\ Len(R) = m
    <3>1. R \in [1 .. m -> Placed]
      BY <2>1, <2>3
    <3> QED BY <2>2, <3>1, FunctionIsSeq
  <2>5. Numbered(R, base)
    BY <2>3, <2>4 DEF Numbered
  <2>6. ASSUME NEW k \in 1 .. m, IsData(R[k])
        PROVE  k \in 1 .. d /\ R[k].index = first + k - 1
    BY <2>2, <2>3, <2>6
  <2>7. ASSUME NEW k \in 1 .. d PROVE first + k - 1 \in first .. first + d - 1
    OBVIOUS
  <2>8. Holds(R, first, first + d)
    <3>1. ASSUME NEW k \in 1 .. m, IsData(R[k])
          PROVE  R[k].index \in first .. first + d - 1
      BY <2>6, <2>7, <3>1
    <3>2. ASSUME NEW j \in 1 .. m, NEW k \in 1 .. m, j < k, IsData(R[j]), IsData(R[k])
          PROVE  R[j].index < R[k].index
      <4>1. R[j].index = first + j - 1 /\ R[k].index = first + k - 1
        BY <2>6, <3>2
      <4> QED BY <3>2, <4>1
    <3> QED BY <2>4, <3>1, <3>2 DEF Holds
  <2>9. IsData(R[1])
    <3>1. 1 \in 1 .. m /\ 1 <= d
      BY <2>2
    <3> QED BY <2>3, <3>1
  <2>10. Len(R) >= first + d - first /\ Len(R) >= 1
    BY <2>2, <2>4
  <2>11. Run(R, base, first, first + d)
    BY <2>4, <2>5, <2>8, <2>9, <2>10 DEF Run
  <2> QED BY <1>3, <2>11 DEF R
<1> QED BY <1>2, <1>3

(* Of a part of a frame's packets, a part.                                 *)
LEMMA SmallerPart ==
  ASSUME NEW P, NEW n \in Nat, NEW first \in Nat, FramePart(P, n, first),
         NEW m \in Nat, NEW e \in m .. n
  PROVE  FramePart(SubSeq(P, m + 1, e), e - m, first + m)
<1> DEFINE Q == SubSeq(P, m + 1, e)
           l == m + 1
<1>0. P \in Seq(Placed) /\ Len(P) = n
  BY DEF FramePart
<1>1. l \in Nat \ {0} /\ e \in l - 1 .. Len(P)
  BY <1>0
<1>2. /\ SubSeq(P, l, e) \in Seq(Placed) /\ Len(SubSeq(P, l, e)) = e - l + 1
      /\ \A i \in 1 .. e - l + 1 : SubSeq(P, l, e)[i] = P[l + i - 1]
  <2> HIDE DEF l
  <2> QED BY <1>0, <1>1, PartOf
<1> HIDE DEF Q
<1>3. Q \in Seq(Placed) /\ Len(Q) = e - m /\ \A i \in 1 .. e - m : Q[i] = P[m + i]
  <2>1. e - l + 1 = e - m /\ \A i \in 1 .. e - m : l + i - 1 = m + i
    BY <1>1
  <2> QED BY <1>2, <2>1 DEF Q
<1>4. ASSUME NEW i \in 1 .. e - m
      PROVE  /\ Q[i].seq = (first + m + i - 1) % VideoSeqMod
             /\ Q[i].index = first + m + i - 1 /\ IsData(Q[i])
  <2>1. m + i \in 1 .. n /\ first + (m + i) - 1 = first + m + i - 1
    OBVIOUS
  <2>2. /\ P[m + i].seq = (first + (m + i) - 1) % VideoSeqMod
        /\ P[m + i].index = first + (m + i) - 1 /\ IsData(P[m + i])
    BY <2>1 DEF FramePart
  <2> QED BY <1>3, <2>1, <2>2
<1>5. FramePart(Q, e - m, first + m)
  BY <1>3, <1>4 DEF FramePart
<1> QED BY <1>5 DEF Q

(* The three blocks of a large frame.                                      *)
Size(n) == (n + NrBlocks - 1) \div NrBlocks

ThreeParts(P, n, first) ==
  /\ FramePart(BlockOf(P, 0), Size(n), first)
  /\ FramePart(BlockOf(P, 1), Size(n), first + Size(n))
  /\ FramePart(BlockOf(P, 2), n - 2 * Size(n), first + 2 * Size(n))
  /\ Size(n) \in 1 .. 1023 /\ 2 * Size(n) < n
  /\ n - 2 * Size(n) \in 1 .. 1023 /\ n - 2 * Size(n) <= Size(n)

LEMMA BlocksOfFrame ==
  ASSUME NEW n \in 91 .. 1023, NEW P, NEW first \in Nat, FramePart(P, n, first)
  PROVE  ThreeParts(P, n, first)
<1> DEFINE size == Size(n)
           twice == 2 * size
<1>1. size \in 1 .. 1023 /\ 2 * size < n /\ n <= 3 * size
  BY DEF Size, NrBlocks
<1>2. Len(P) = n
  BY DEF FramePart
<1>3. ASSUME NEW b \in 0 .. 2
      PROVE  BlockOf(P, b) = SubSeq(P, b * size + 1, IF (b + 1) * size < n THEN (b + 1) * size ELSE n)
  BY <1>2 DEF BlockOf, Size
<1> HIDE DEF size
<1>4. /\ 0 * size = 0 /\ 1 * size = size /\ (0 + 1) * size = size
      /\ (1 + 1) * size = twice /\ 2 * size = twice /\ (2 + 1) * size = 3 * size
  BY <1>1
<1>5. size < n /\ twice < n /\ ~(3 * size < n)
  BY <1>1
<1>6. /\ 0 \in Nat /\ size \in 0 .. n /\ size \in Nat /\ twice \in size .. n
      /\ twice \in Nat /\ n \in twice .. n /\ n \in Nat
  BY <1>1
<1>7. size - 0 = size /\ twice - size = size /\ first + 0 = first
  BY <1>1
<1> HIDE DEF twice
<1>8. FramePart(BlockOf(P, 0), size - 0, first + 0)
  <2>1. BlockOf(P, 0) = SubSeq(P, 0 + 1, size)
    BY <1>3, <1>4, <1>5
  <2>2. FramePart(SubSeq(P, 0 + 1, size), size - 0, first + 0)
    BY <1>6, SmallerPart, ZenonT(30)
  <2> QED BY <2>1, <2>2, ZenonT(30)
<1>9. FramePart(BlockOf(P, 1), twice - size, first + size)
  <2>1. BlockOf(P, 1) = SubSeq(P, size + 1, twice)
    BY <1>3, <1>4, <1>5
  <2>2. FramePart(SubSeq(P, size + 1, twice), twice - size, first + size)
    BY <1>6, SmallerPart, ZenonT(30)
  <2> QED BY <2>1, <2>2, ZenonT(30)
<1>10. FramePart(BlockOf(P, 2), n - twice, first + twice)
  <2>1. BlockOf(P, 2) = SubSeq(P, twice + 1, n)
    BY <1>3, <1>4, <1>5
  <2>2. FramePart(SubSeq(P, twice + 1, n), n - twice, first + twice)
    BY <1>6, SmallerPart, ZenonT(30)
  <2> QED BY <2>1, <2>2, ZenonT(30)
<1>11. n - 2 * size \in 1 .. 1023 /\ n - 2 * size <= size
  BY <1>1
<1> QED BY <1>1, <1>7, <1>8, <1>9, <1>10, <1>11 DEF size, twice, ThreeParts

(* The third block is not larger than the first two: if it is too large    *)
(* for FEC, so are they, and all of the frame is left as it is.            *)
LEMMA ThreeBlocks ==
  ASSUME NEW n \in 91 .. 1023, NEW P, cur \in Nat, frame \in Nat, FramePart(P, n, cur)
  PROVE  Run(MultiBlocks(P), cur, cur, cur + n)
<1>0. ThreeParts(P, n, cur)
  BY BlocksOfFrame, ZenonT(30)
<1> DEFINE size == Size(n)
           B0 == BlockOf(P, 0)
           B1 == BlockOf(P, 1)
           B2 == BlockOf(P, 2)
           rest == n - 2 * size
           R0 == FecPackets(B0, 0, LastBlock, cur)
           base1 == cur + Len(R0)
           R1 == FecPackets(B1, 1, LastBlock, base1)
           base2 == cur + Len(R0) + Len(R1)
           R2 == FecPackets(B2, 2, LastBlock, base2)
           mid1 == cur + size
           mid2 == cur + 2 * size
<1>1. /\ FramePart(B0, size, cur) /\ FramePart(B1, size, mid1) /\ FramePart(B2, rest, mid2)
      /\ size \in 1 .. 1023 /\ 2 * size < n /\ rest \in 1 .. 1023 /\ rest <= size
  BY <1>0, ZenonT(60) DEF ThreeParts
<1>2. MultiBlocks(P) = R0 \o R1 \o R2
  BY DEF MultiBlocks
<1>3. /\ 0 \in 0 .. LastBlock /\ 1 \in 0 .. LastBlock /\ 2 \in 0 .. LastBlock
      /\ LastBlock \in 0 .. LastBlock
  BY DEF LastBlock
<1> HIDE DEF B0, B1, B2, size
<1>4. /\ mid1 \in Nat /\ mid2 \in Nat /\ cur <= mid1 /\ mid1 <= mid2 /\ mid2 <= cur + n
      /\ mid2 = mid1 + size /\ cur + n = mid2 + rest /\ cur + n \in Nat
  BY <1>1
<1> HIDE DEF rest
<1>5. Run(R0, cur, cur, mid1) /\ (TooLarge(size) => Len(R0) = size)
  <2>1. InPlace(size, cur, cur)
    BY DEF InPlace
  <2>2. BlockRun(R0, size, cur, cur)
    BY <1>1, <1>3, <2>1, BlockIsRun, ZenonT(30)
  <2> QED BY <2>2 DEF BlockRun
<1> HIDE DEF R0
<1>6. Len(R0) \in Nat /\ base1 \in Nat
  BY <1>5 DEF Run
<1>7. Run(R1, base1, mid1, mid2) /\ (TooLarge(size) => Len(R1) = size)
  <2>1. InPlace(size, base1, mid1)
    BY <1>5 DEF InPlace
  <2> HIDE DEF base1, mid1, mid2
  <2>2. BlockRun(R1, size, base1, mid1)
    BY <1>1, <1>3, <1>4, <1>6, <2>1, BlockIsRun, ZenonT(30)
  <2> QED BY <1>4, <2>2 DEF BlockRun
<1> HIDE DEF R1
<1>8. Len(R1) \in Nat /\ base2 \in Nat
  BY <1>6, <1>7 DEF Run
<1>9. Run(R2, base2, mid2, cur + n)
  <2>0. rest \in 1 .. 1023 /\ size \in 1 .. 1023 /\ rest <= size
    BY <1>1
  <2>1. TooLarge(rest) => TooLarge(size)
    BY <2>0, LargerIsTooLarge, ZenonT(60)
  <2>2. InPlace(rest, base2, mid2)
    BY <1>1, <1>5, <1>7, <2>1 DEF InPlace
  <2> HIDE DEF base2, mid2
  <2>3. BlockRun(R2, rest, base2, mid2)
    BY <1>1, <1>3, <1>4, <1>8, <2>2, BlockIsRun, ZenonT(30)
  <2> QED BY <1>4, <2>3 DEF BlockRun
<1> HIDE DEF R2
<1>10. Run(R0 \o R1, cur, cur, mid2) /\ Len(R0 \o R1) = Len(R0) + Len(R1)
  <2> HIDE DEF mid1, mid2
  <2> QED BY <1>4, <1>5, <1>7, RunsJoin
<1>11. Run(R0 \o R1 \o R2, cur, cur, cur + n)
  <2> DEFINE A == R0 \o R1
  <2>1. base2 = cur + Len(A)
    BY <1>6, <1>8, <1>10
  <2> HIDE DEF A, base2, mid2
  <2>2. Run(A, cur, cur, mid2) /\ Run(R2, cur + Len(A), mid2, cur + n)
    BY <1>9, <1>10, <2>1 DEF A
  <2>3. Run(A \o R2, cur, cur, cur + n)
    BY <1>4, <2>2, RunsJoin
  <2> QED BY <2>3 DEF A
<1> QED BY <1>2, <1>11

LEMMA FrameIsRun ==
  ASSUME NEW n \in 1 .. 1023, cur \in Nat, frame \in Nat
  PROVE  Run(SplitIntoRtp(n), cur, cur, cur + n)
<1> DEFINE P == RtpPackets(n)
<1>1. FramePart(P, n, cur)
  BY HeaderFacts, ZenonT(30)
<1> HIDE DEF P
<1>2. CASE FecPercent # 0 /\ n > MultiBlockAbove
  <2>1. n \in 91 .. 1023
    BY <1>2 DEF MultiBlockAbove
  <2>2. Run(MultiBlocks(P), cur, cur, cur + n)
    BY <1>1, <2>1, ThreeBlocks, ZenonT(30)
  <2> QED BY <1>2, <2>2 DEF SplitIntoRtp, P
<1>3. CASE FecPercent # 0 /\ ~(n > MultiBlockAbove)
  <2>1. 0 \in 0 .. LastBlock
    BY DEF LastBlock
  <2>2. InPlace(n, cur, cur)
    BY DEF InPlace
  <2>3. BlockRun(FecPackets(P, 0, 0, cur), n, cur, cur)
    BY <1>1, <2>1, <2>2, BlockIsRun, ZenonT(30)
  <2> QED BY <1>3, <2>3 DEF SplitIntoRtp, P, BlockRun
<1>4. CASE FecPercent = 0
  <2>1. Run(P, cur, cur, cur + n)
    BY <1>1, PartIsRun, ZenonT(30)
  <2> QED BY <1>4, <2>1 DEF SplitIntoRtp, P
<1> QED BY <1>2, <1>3, <1>4

(* Every non-empty set of numbers below a bound has a greatest element.    *)
LEMMA HighestIsIn ==
  ASSUME NEW c \in Nat, NEW S, S # {}, \A x \in S : x \in Nat /\ x < c
  PROVE  Highest(S) \in S
<1> DEFINE Below == {c - x : x \in S}
<1>1. Below \subseteq Nat /\ Below # {}
  OBVIOUS
<1>2. PICK b \in Below : \A x \in Below : b <= x
  <2> HIDE DEF Below
  <2> QED BY <1>1, HasLeast
<1>3. PICK s \in S : b = c - s
  BY <1>2
<1>4. ASSUME NEW y \in S PROVE y <= s
  <2>1. c - y \in Below
    OBVIOUS
  <2>2. b <= c - y
    BY <1>2, <2>1
  <2> QED BY <1>3, <2>2
<1> QED BY <1>4 DEF Highest

(* What a run is, as a sequence.                                           *)
LEMMA RunShape ==
  ASSUME NEW R, NEW n \in 1 .. 1023, NEW base \in Nat, Run(R, base, base, base + n)
  PROVE  R \in Seq(Packet) /\ Len(R) \in Nat /\ Len(R) >= n /\ DOMAIN R = 1 .. Len(R)
<1>1. R \in Seq(Packet) /\ Len(R) >= base + n - base
  <2>1. R \in Seq(Placed) /\ Len(R) >= base + n - base
    BY DEF Run
  <2>2. Placed \subseteq Packet
    BY DEF Placed
  <2> HIDE DEF Placed
  <2> QED BY <2>1, <2>2, SeqMonotonic
<1>2. Len(R) \in Nat /\ DOMAIN R = 1 .. Len(R)
  BY <1>1, LenProperties
<1>3. base + n - base = n
  OBVIOUS
<1> QED BY <1>1, <1>2, <1>3

(***************************************************************************)
(* The inductive invariant of the video stream.  cur is where the next     *)
(* packet goes, both as a sequence number and as a stream index: what has  *)
(* been pushed lies below it.                                              *)
(***************************************************************************)
NextIsAhead ==
  /\ cur = sent + Len(pkts)
  /\ \A k \in 1 .. Len(pkts) : IsData(pkts[k]) => pkts[k].index < cur

BeginsWithData == pkts # <<>> => IsData(pkts[1])

NumbersInv == NumberingInv /\ NextIsAhead /\ BeginsWithData

LEMMA VideoInitInv == VideoInit => NumbersInv
<1> SUFFICES ASSUME VideoInit PROVE NumbersInv
  OBVIOUS
<1>1. pkts = <<>> /\ pkts \in Seq(Packet) /\ Len(pkts) = 0 /\ DOMAIN pkts = {}
  BY DEF VideoInit
<1>2. VideoTypeOK
  BY <1>1, PayloaderAssumption DEF VideoInit, VideoTypeOK
<1>3. GaplessSequence /\ StreamIndexGrows
  BY <1>1 DEF GaplessSequence, StreamIndexGrows
<1>4. NextIsAhead /\ BeginsWithData
  BY <1>1 DEF VideoInit, NextIsAhead, BeginsWithData
<1> QED BY <1>2, <1>3, <1>4 DEF NumbersInv, NumberingInv

LEMMA VideoStep ==
  ASSUME FecPercent # 0, NumbersInv, PushVideo
  PROVE  NumbersInv'
<1>1. PICK n \in FrameSizes : PushFrame(n)
  BY DEF PushVideo
<1>2. n \in 1 .. 1023
  BY PayloaderAssumption
<1>3. /\ cur \in Nat /\ sent \in Nat /\ frame \in 0 .. MaxFrames /\ frame \in Nat
      /\ pkts \in Seq(Packet) /\ Len(pkts) \in Nat /\ DOMAIN pkts = 1 .. Len(pkts)
  BY PayloaderAssumption DEF NumbersInv, NumberingInv, VideoTypeOK
<1>4. /\ frame < MaxFrames /\ frame' = frame + 1
      /\ pkts' = SplitIntoRtp(n) /\ cur' = cur + Len(pkts') /\ sent' = sent + Len(pkts)
      /\ lastIndex' = IF pkts = <<>> THEN -1 ELSE Highest(DataIndexes)
  BY <1>1 DEF PushFrame
<1>5. Run(pkts', cur, cur, cur + n)
  <2>1. Run(SplitIntoRtp(n), cur, cur, cur + n)
    BY <1>2, <1>3, FrameIsRun, ZenonT(30)
  <2> QED BY <1>4, <2>1
<1>6. /\ pkts' \in Seq(Packet) /\ Len(pkts') \in Nat /\ Len(pkts') >= n
      /\ DOMAIN pkts' = 1 .. Len(pkts')
  <2> DEFINE R == pkts'
  <2>1. Run(R, cur, cur, cur + n)
    BY <1>5
  <2> HIDE DEF R
  <2>2. R \in Seq(Packet) /\ Len(R) \in Nat /\ Len(R) >= n /\ DOMAIN R = 1 .. Len(R)
    BY <1>2, <1>3, <2>1, RunShape, ZenonT(30)
  <2> QED BY <2>2 DEF R
<1>7. sent' = cur
  BY <1>4 DEF NumbersInv, NextIsAhead
<1>8. lastIndex' \in Nat \cup {-1} /\ lastIndex' < cur
  <2>1. CASE pkts = <<>>
    BY <1>3, <1>4, <2>1
  <2>2. CASE pkts # <<>>
    <3>1. ASSUME NEW x \in DataIndexes
          PROVE  x \in Nat /\ x < cur
      <4>1. PICK k \in DOMAIN pkts : pkts[k].piece # NoPiece /\ x = pkts[k].index
        BY DEF DataIndexes
      <4>2. pkts[k] \in Packet
        BY <1>3, <4>1, ElementOfSeq
      <4>3. pkts[k].index \in Nat
        BY <4>2 DEF Packet
      <4>4. pkts[k].index < cur
        BY <1>3, <4>1 DEF NumbersInv, NextIsAhead, IsData
      <4> QED BY <4>1, <4>3, <4>4
    <3>2. DataIndexes # {}
      <4>1. 1 \in DOMAIN pkts
        BY <1>3, <2>2
      <4>2. pkts[1].piece # NoPiece
        BY <2>2 DEF NumbersInv, BeginsWithData, IsData
      <4> QED BY <4>1, <4>2 DEF DataIndexes
    <3>3. Highest(DataIndexes) \in DataIndexes
      BY <1>3, <3>1, <3>2, HighestIsIn
    <3> QED BY <1>4, <2>2, <3>1, <3>3
  <2> QED BY <2>1, <2>2
<1>9. VideoTypeOK'
  <2>1. cur' \in Nat /\ sent' \in Nat /\ frame' \in 0 .. MaxFrames
    BY <1>3, <1>4, <1>6, PayloaderAssumption
  <2> QED BY <1>6, <1>8, <2>1 DEF VideoTypeOK
<1>10. GaplessSequence'
  <2>1. Numbered(pkts', cur)
    BY <1>5 DEF Run
  <2>2. \A k \in DOMAIN pkts' : pkts'[k].seq = (sent' + k - 1) % VideoSeqMod
    BY <1>6, <1>7, <2>1 DEF Numbered
  <2> QED BY <2>2 DEF GaplessSequence
<1>11. ASSUME NEW k \in 1 .. Len(pkts'), IsData(pkts'[k])
       PROVE  pkts'[k].index \in cur .. cur + n - 1
  <2> DEFINE R == pkts'
  <2>1. Holds(R, cur, cur + n) /\ Len(R) \in Nat /\ k \in 1 .. Len(R) /\ IsData(R[k])
    BY <1>5, <1>6, <1>11 DEF Run
  <2> HIDE DEF R
  <2>2. R[k].index \in cur .. cur + n - 1
    BY <1>2, <1>3, <2>1 DEF Holds
  <2> QED BY <2>2 DEF R
<1>12. ASSUME NEW k \in 1 .. Len(pkts'), IsData(pkts'[k])
       PROVE  pkts'[k].index > lastIndex' /\ pkts'[k].index < cur'
  <2>1. pkts'[k].index \in cur .. cur + n - 1
    BY <1>11, <1>12
  <2> QED BY <1>2, <1>3, <1>4, <1>6, <1>8, <2>1
<1>13. StreamIndexGrows'
  <2> SUFFICES ASSUME NEW j \in DOMAIN pkts', NEW k \in DOMAIN pkts',
                      pkts'[j].piece # NoPiece, pkts'[k].piece # NoPiece
               PROVE  /\ pkts'[j].index > lastIndex'
                      /\ j < k => pkts'[j].index < pkts'[k].index
    BY DEF StreamIndexGrows
  <2>1. j \in 1 .. Len(pkts') /\ k \in 1 .. Len(pkts') /\ IsData(pkts'[j]) /\ IsData(pkts'[k])
    BY <1>6 DEF IsData
  <2>2. pkts'[j].index > lastIndex'
    BY <1>12, <2>1
  <2>3. j < k => pkts'[j].index < pkts'[k].index
    BY <1>5, <2>1 DEF Run, Holds
  <2> QED BY <2>2, <2>3
<1>14. NextIsAhead'
  BY <1>4, <1>7, <1>12 DEF NextIsAhead
<1>15. BeginsWithData'
  BY <1>5 DEF Run, BeginsWithData
<1> QED BY <1>9, <1>10, <1>13, <1>14, <1>15 DEF NumbersInv, NumberingInv

(* Of the video stream, with any share of FEC: for frames of every size    *)
(* and sequence numbers of every width, numbers have neither gaps nor      *)
(* repeats, and the stream index of the data grows from frame to frame.    *)
(* Every ANNOUNCE has 20 per cent; with none cur_seq_number would not move *)
(* on.                                                                     *)
THEOREM NumberingInvHolds ==
  ASSUME FecPercent # 0
  PROVE  RtpSpec => []NumberingInv
<1>1. RtpInit => NumbersInv
  BY VideoInitInv DEF RtpInit
<1>2. NumbersInv /\ [RtpNext]_rtpVars => NumbersInv'
  <2> SUFFICES ASSUME NumbersInv, [RtpNext]_rtpVars PROVE NumbersInv'
    OBVIOUS
  <2>1. CASE PushVideo
    BY <2>1, VideoStep
  <2>2. CASE UNCHANGED videoVars
    <3>1. UNCHANGED <<cur, frame, pkts, sent, lastIndex>>
      BY <2>2 DEF videoVars
    <3>2. VideoTypeOK' /\ GaplessSequence' /\ StreamIndexGrows'
      BY <3>1 DEF NumbersInv, NumberingInv, VideoTypeOK, GaplessSequence, StreamIndexGrows
    <3>3. NextIsAhead' /\ BeginsWithData'
      BY <3>1 DEF NumbersInv, NextIsAhead, BeginsWithData
    <3> QED BY <3>2, <3>3 DEF NumbersInv, NumberingInv
  <2> QED BY <2>1, <2>2 DEF RtpNext, rtpVars
<1>3. NumbersInv => NumberingInv
  BY DEF NumbersInv
<1> QED BY <1>1, <1>2, <1>3, PTL DEF RtpSpec

(***************************************************************************)
(* What the headers of a frame tell.                                       *)
(***************************************************************************)
Told(d, pct) == (d * pct + 99) \div 100

SplitTold(d) ==
  /\ DetermineSplit(d).pct # 0
  /\ Told(d, DetermineSplit(d).pct) = DetermineSplit(d).parity

(* The percentage that tells a raised number of parity packets.            *)
LEMMA TwoAreTold ==
  ASSUME NEW d \in 1 .. 100
  PROVE  (200 \div d) # 0 /\ Told(d, 200 \div d) = 2
<1> DEFINE q == 200 \div d
           x == d * q
<1>1. q \in Nat /\ 200 % d \in 0 .. d - 1 /\ 200 = d * q + (200 % d)
  BY Split
<1> HIDE DEF q
<1>2. x \in Nat /\ x <= 200 /\ x >= 101
  BY <1>1
<1>3. q # 0
  <2> SUFFICES ASSUME q = 0 PROVE FALSE
    OBVIOUS
  <2>1. x = 0
    OBVIOUS
  <2> QED BY <1>2, <2>1
<1>4. Told(d, q) = (x + 99) \div 100
  BY DEF Told
<1> HIDE DEF x
<1>5. (x + 99) \div 100 = 2
  BY <1>2
<1> QED BY <1>3, <1>4, <1>5 DEF q

(* What the percentage tells is what the block has.                        *)
LEMMA SplitIsTold ==
  ASSUME NEW d \in 1 .. 1023, FecPercent # 0
  PROVE  SplitTold(d)
<1> DEFINE f == d * FecPercent
           parity == (f + 99) \div 100
<1>1. FecPercent \in 1 .. 255 /\ MinRequired \in 0 .. 2
  BY PayloaderAssumption
<1>2. f \in Nat /\ f >= d
  <2>1. 1 * d <= FecPercent * d /\ FecPercent * d \in Nat
    BY <1>1, Products
  <2>2. f = FecPercent * d
    BY <1>1
  <2> QED BY <2>1, <2>2
<1>3. DetermineSplit(d) = IF parity < MinRequired
                            THEN [parity |-> MinRequired, pct |-> (100 * MinRequired) \div d]
                            ELSE [parity |-> parity, pct |-> FecPercent]
  BY DEF DetermineSplit
<1>4. Told(d, FecPercent) = parity
  BY DEF Told
<1> HIDE DEF f
<1>5. parity \in Nat /\ parity >= 1 /\ (parity < 2 => f <= 100)
  BY <1>2
<1> HIDE DEF parity
<1>6. CASE parity < MinRequired
  <2>1. MinRequired = 2 /\ 100 * MinRequired = 200 /\ d \in 1 .. 100
    BY <1>1, <1>2, <1>5, <1>6
  <2>2. DetermineSplit(d).parity = 2 /\ DetermineSplit(d).pct = 200 \div d
    BY <1>3, <1>6, <2>1
  <2>3. (200 \div d) # 0 /\ Told(d, 200 \div d) = 2
    BY <2>1, TwoAreTold
  <2> QED BY <2>2, <2>3 DEF SplitTold
<1>7. CASE ~(parity < MinRequired)
  <2>1. DetermineSplit(d).parity = parity /\ DetermineSplit(d).pct = FecPercent
    BY <1>3, <1>7
  <2> QED BY <1>4, <2>1 DEF SplitTold
<1> QED BY <1>6, <1>7

(* The m packets of S after lo are block b, as their headers tell.         *)
Fields(p, i, d, pct, b, last) ==
  /\ p.block = b /\ p.last = last /\ p.data = d /\ p.pct = pct /\ p.shard = i
  /\ IsData(p) <=> i < d

BlockAt(S, lo, m, d, pct, b, last) ==
  /\ d \in 1 .. 1023 /\ m = d + Told(d, pct) /\ m >= 1
  /\ \A i \in 1 .. m : Fields(S[lo + i], i - 1, d, pct, b, last)

ABlock(S, lo, m, b, last) ==
  \E d \in 1 .. 1023, pct \in 0 .. 255 : BlockAt(S, lo, m, d, pct, b, last)

(* Placed in a longer run, it is a block still.                            *)
LEMMA BlockBefore ==
  ASSUME NEW T, NEW A \in Seq(T), NEW B \in Seq(T), NEW lo \in Nat, NEW m \in Nat, NEW b, NEW last,
         lo + m <= Len(A), ABlock(A, lo, m, b, last)
  PROVE  ABlock(A \o B, lo, m, b, last)
<1> DEFINE C == A \o B
<1>1. PICK d \in 1 .. 1023, pct \in 0 .. 255 : BlockAt(A, lo, m, d, pct, b, last)
  BY ZenonT(30) DEF ABlock
<1>2. /\ Len(A) \in Nat /\ Len(B) \in Nat
      /\ \A i \in 1 .. Len(A) + Len(B) : C[i] = IF i <= Len(A) THEN A[i] ELSE B[i - Len(A)]
  BY ConcatProperties, LenProperties
<1> HIDE DEF C
<1>3. ASSUME NEW i \in 1 .. m PROVE C[lo + i] = A[lo + i]
  BY <1>2
<1>4. BlockAt(C, lo, m, d, pct, b, last)
  BY <1>1, <1>3 DEF BlockAt
<1> QED BY <1>4, ZenonT(30) DEF ABlock, C

LEMMA BlockAfter ==
  ASSUME NEW T, NEW A \in Seq(T), NEW B \in Seq(T), NEW lo \in Nat, NEW m \in Nat, NEW b, NEW last,
         lo + m <= Len(B), ABlock(B, lo, m, b, last)
  PROVE  ABlock(A \o B, Len(A) + lo, m, b, last)
<1> DEFINE C == A \o B
           at == Len(A) + lo
<1>1. PICK d \in 1 .. 1023, pct \in 0 .. 255 : BlockAt(B, lo, m, d, pct, b, last)
  BY ZenonT(30) DEF ABlock
<1>2. /\ Len(A) \in Nat /\ Len(B) \in Nat
      /\ \A i \in 1 .. Len(A) + Len(B) : C[i] = IF i <= Len(A) THEN A[i] ELSE B[i - Len(A)]
  BY ConcatProperties, LenProperties
<1> HIDE DEF C
<1>3. ASSUME NEW i \in 1 .. m PROVE C[at + i] = B[lo + i]
  <2>1. at + i \in 1 .. Len(A) + Len(B) /\ ~(at + i <= Len(A)) /\ at + i - Len(A) = lo + i
    BY <1>2
  <2> DEFINE k == at + i
  <2>2. k \in 1 .. Len(A) + Len(B) /\ ~(k <= Len(A)) /\ k - Len(A) = lo + i
    BY <2>1
  <2> HIDE DEF k
  <2>3. C[k] = B[k - Len(A)]
    BY <1>2, <2>2
  <2> QED BY <2>2, <2>3 DEF k
<1> HIDE DEF at
<1>4. BlockAt(C, at, m, d, pct, b, last)
  BY <1>1, <1>3 DEF BlockAt
<1> QED BY <1>4, ZenonT(30) DEF ABlock, C, at

(* The packets of a frame before FEC tell of one block without parity.     *)
LEMMA PlainBlock ==
  ASSUME NEW n \in 1 .. 1023
  PROVE  ABlock(RtpPackets(n), 0, n, 0, 0)
<1> DEFINE P == RtpPackets(n)
<1>1. Told(n, 0) = 0
  BY DEF Told
<1>2. ASSUME NEW i \in 1 .. n PROVE Fields(P[0 + i], i - 1, n, 0, 0, 0)
  <2>1. P[0 + i] = RtpHeader(i - 1, n)
    BY DEF RtpPackets
  <2>2. i - 1 + 1 # 0 /\ i - 1 < n
    OBVIOUS
  <2> QED BY <2>1, <2>2 DEF RtpHeader, Fields, IsData, NoPiece
<1> HIDE DEF P
<1>3. BlockAt(P, 0, n, n, 0, 0, 0)
  BY <1>1, <1>2 DEF BlockAt
<1>4. ABlock(P, 0, n, 0, 0)
  <2>1. 0 \in 0 .. 255
    OBVIOUS
  <2> QED BY <1>3, <2>1, Zenon DEF ABlock
<1> QED BY <1>4 DEF P

(* A FEC block tells of itself.                                            *)
FecBlock(R, b, last) ==
  /\ R \in Seq(Placed) /\ Len(R) \in Nat
  /\ ABlock(R, 0, Len(R), b, last)
  /\ \A i \in 1 .. Len(R) : R[i].pct # 0

LEMMA FecBlockTells ==
  ASSUME NEW Q, NEW d \in 1 .. 1023, NEW first \in Nat, NEW base \in Nat,
         NEW b \in 0 .. LastBlock, NEW last \in 0 .. LastBlock, frame \in Nat,
         FecPercent # 0, FramePart(Q, d, first), ~TooLarge(d)
  PROVE  FecBlock(FecPackets(Q, b, last, base), b, last)
<1>0. FecPackets(Q, b, last, base) \in Seq(Placed)
  <2>1. InPlace(d, base, first)
    BY DEF InPlace
  <2>2. BlockRun(FecPackets(Q, b, last, base), d, base, first)
    BY <2>1, BlockIsRun, ZenonT(30)
  <2> QED BY <2>2 DEF BlockRun, Run
<1> DEFINE R == FecPackets(Q, b, last, base)
           parity == DetermineSplit(d).parity
           pct == DetermineSplit(d).pct
           m == d + parity
<1>1. SplitOK(d) /\ SplitTold(d)
  <2>1. SplitOK(d)
    BY SplitFacts, ZenonT(30)
  <2>2. SplitTold(d)
    BY SplitIsTold, ZenonT(30)
  <2> QED BY <2>1, <2>2
<1>2. parity \in Nat /\ pct \in 0 .. 255 /\ pct # 0 /\ Told(d, pct) = parity
  BY <1>1 DEF SplitOK, SplitTold
<1>3. R = [k \in 1 .. m |-> IF k <= d THEN FecHeader(Q[k], k - 1, d, pct, b, last, base)
                            ELSE ParityPacket(k - 1, d, pct, b, last, base)]
  BY DEF FecPackets, FramePart
<1> HIDE DEF parity, pct, R
<1>4. m \in Nat /\ m >= 1
  BY <1>2
<1>5. Len(R) = m
  BY <1>3, <1>4
<1>6. ASSUME NEW i \in 1 .. m
      PROVE  Fields(R[0 + i], i - 1, d, pct, b, last) /\ R[i].pct # 0
  <2>1. 0 + i = i /\ (i - 1 < d <=> i <= d)
    BY <1>4
  <2>2. CASE i <= d
    <3>1. R[i] = FecHeader(Q[i], i - 1, d, pct, b, last, base)
      BY <1>3, <2>2
    <3>2. IsData(Q[i])
      BY <1>4, <2>2 DEF FramePart
    <3> QED BY <1>2, <2>1, <2>2, <3>1, <3>2 DEF FecHeader, Fields, IsData
  <2>3. CASE ~(i <= d)
    <3>1. R[i] = ParityPacket(i - 1, d, pct, b, last, base)
      BY <1>3, <2>3
    <3> QED BY <1>2, <2>1, <2>3, <3>1 DEF ParityPacket, Fields, IsData
  <2> QED BY <2>2, <2>3
<1> HIDE DEF m
<1>7. BlockAt(R, 0, m, d, pct, b, last)
  BY <1>2, <1>4, <1>6 DEF BlockAt, m
<1>8. R \in Seq(Placed)
  BY <1>0 DEF R
<1> QED BY <1>2, <1>4, <1>5, <1>6, <1>7, <1>8, ZenonT(30) DEF FecBlock, ABlock, R

(* The shapes of a frame: one block, three, or a mixture.                  *)
ThreeShape(S) ==
  \E l0, l1 \in Nat :
    /\ l0 + l1 <= Len(S)
    /\ ABlock(S, 0, l0, 0, LastBlock)
    /\ ABlock(S, l0, l1, 1, LastBlock)
    /\ ABlock(S, l0 + l1, Len(S) - l0 - l1, 2, LastBlock)

Mixed(S) ==
  /\ \E k \in DOMAIN S : S[k].pct = 0
  /\ \E k \in DOMAIN S : S[k].pct # 0

Shape(S) == ABlock(S, 0, Len(S), 0, 0) \/ ThreeShape(S) \/ Mixed(S)

LEMMA ThreeFecBlocks ==
  ASSUME NEW A, NEW B, NEW C,
         FecBlock(A, 0, LastBlock), FecBlock(B, 1, LastBlock), FecBlock(C, 2, LastBlock)
  PROVE  ThreeShape(A \o B \o C)
<1> DEFINE a == Len(A)
           b == Len(B)
           c == Len(C)
           AB == A \o B
           S == AB \o C
<1>1. /\ A \in Seq(Placed) /\ B \in Seq(Placed) /\ C \in Seq(Placed)
      /\ a \in Nat /\ b \in Nat /\ c \in Nat
      /\ ABlock(A, 0, a, 0, LastBlock) /\ ABlock(B, 0, b, 1, LastBlock)
      /\ ABlock(C, 0, c, 2, LastBlock)
  BY DEF FecBlock
<1>2. AB \in Seq(Placed) /\ Len(AB) = a + b
  BY <1>1, ConcatProperties
<1>3. S \in Seq(Placed) /\ Len(S) = a + b + c
  <2> HIDE DEF AB
  <2>1. AB \o C \in Seq(Placed) /\ Len(AB \o C) = Len(AB) + Len(C)
    BY <1>1, <1>2, ConcatProperties, ZenonT(30)
  <2> QED BY <1>2, <2>1
<1>4. ABlock(AB, 0, a, 0, LastBlock)
  <2>1. 0 + a <= a /\ 0 \in Nat
    BY <1>1
  <2> QED BY <1>1, <2>1, BlockBefore
<1>5. ABlock(AB, a, b, 1, LastBlock)
  <2>1. 0 + b <= b /\ a + 0 = a /\ 0 \in Nat
    BY <1>1
  <2>2. ABlock(AB, a + 0, b, 1, LastBlock)
    BY <1>1, <2>1, BlockAfter
  <2> QED BY <2>1, <2>2
<1> HIDE DEF AB
<1>6. ABlock(S, 0, a, 0, LastBlock)
  <2>1. 0 + a <= Len(AB) /\ 0 \in Nat
    BY <1>1, <1>2
  <2> QED BY <1>1, <1>2, <1>4, <2>1, BlockBefore
<1>7. ABlock(S, a, b, 1, LastBlock)
  <2>1. a + b <= Len(AB)
    BY <1>2
  <2> QED BY <1>1, <1>2, <1>5, <2>1, BlockBefore
<1>8. ABlock(S, a + b, c, 2, LastBlock)
  <2>1. 0 + c <= c /\ Len(AB) + 0 = a + b /\ 0 \in Nat
    BY <1>1, <1>2
  <2>2. ABlock(S, Len(AB) + 0, c, 2, LastBlock)
    BY <1>1, <1>2, <2>1, BlockAfter
  <2> QED BY <2>1, <2>2
<1> HIDE DEF S, a, b, c
<1>9. a + b <= Len(S) /\ Len(S) - a - b = c
  BY <1>1, <1>3
<1>10. ThreeShape(S)
  BY <1>1, <1>6, <1>7, <1>8, <1>9 DEF ThreeShape
<1> QED BY <1>10 DEF S, AB

LEMMA MixedBlocks ==
  ASSUME NEW T, NEW A \in Seq(T), NEW B \in Seq(T), NEW C \in Seq(T),
         Len(A) >= 1, Len(C) >= 1, A[1].pct = 0, C[1].pct # 0
  PROVE  Mixed(A \o B \o C)
<1> DEFINE AB == A \o B
           S == AB \o C
<1>1. Len(A) \in Nat /\ Len(B) \in Nat /\ Len(C) \in Nat
  BY LenProperties
<1>2. AB \in Seq(T) /\ Len(AB) = Len(A) + Len(B) /\ AB[1] = A[1]
  <2>1. /\ AB \in Seq(T) /\ Len(AB) = Len(A) + Len(B)
        /\ \A i \in 1 .. Len(A) + Len(B) : AB[i] = IF i <= Len(A) THEN A[i] ELSE B[i - Len(A)]
    BY ConcatProperties
  <2> HIDE DEF AB
  <2> QED BY <1>1, <2>1
<1> HIDE DEF AB
<1>3. /\ DOMAIN S = 1 .. Len(AB) + Len(C)
      /\ \A i \in 1 .. Len(AB) + Len(C) : S[i] = IF i <= Len(AB) THEN AB[i] ELSE C[i - Len(AB)]
  <2>1. AB \in Seq(T)
    BY <1>2
  <2>2. /\ S \in Seq(T) /\ Len(S) = Len(AB) + Len(C)
        /\ \A i \in 1 .. Len(AB) + Len(C) : S[i] = IF i <= Len(AB) THEN AB[i] ELSE C[i - Len(AB)]
    BY <2>1, ConcatProperties
  <2> HIDE DEF S
  <2> QED BY <2>2, LenProperties
<1> HIDE DEF S
<1>4. 1 \in DOMAIN S /\ S[1] = A[1]
  BY <1>1, <1>2, <1>3
<1>5. Len(AB) + 1 \in DOMAIN S /\ S[Len(AB) + 1] = C[1]
  <2>1. Len(AB) + 1 \in 1 .. Len(AB) + Len(C) /\ ~(Len(AB) + 1 <= Len(AB))
        /\ Len(AB) + 1 - Len(AB) = 1
    BY <1>1, <1>2
  <2> QED BY <1>3, <2>1
<1>6. Mixed(S)
  BY <1>4, <1>5 DEF Mixed
<1> QED BY <1>6 DEF S, AB

(* The blocks of a frame, one after the other, are the frame.              *)
LEMMA BlocksAreAll ==
  ASSUME NEW n \in 91 .. 1023, NEW P \in Seq(Placed), Len(P) = n
  PROVE  BlockOf(P, 0) \o BlockOf(P, 1) \o BlockOf(P, 2) = P
<1> DEFINE size == Size(n)
           twice == 2 * size
<1>1. size \in 1 .. 1023 /\ 2 * size < n /\ n <= 3 * size
  BY DEF Size, NrBlocks
<1>2. ASSUME NEW b \in 0 .. 2
      PROVE  BlockOf(P, b) = SubSeq(P, b * size + 1, IF (b + 1) * size < n THEN (b + 1) * size ELSE n)
  BY DEF BlockOf, Size
<1> HIDE DEF size
<1>3. /\ 0 * size = 0 /\ 1 * size = size /\ (0 + 1) * size = size
      /\ (1 + 1) * size = twice /\ 2 * size = twice /\ (2 + 1) * size = 3 * size
      /\ size < n /\ twice < n /\ ~(3 * size < n)
  BY <1>1
<1>4. /\ size \in 0 .. n /\ twice \in size .. n /\ n \in twice .. n
      /\ 1 \in 1 .. n + 1 /\ size \in 1 - 1 .. n /\ twice \in 1 - 1 .. n
  BY <1>1
<1> HIDE DEF twice
<1>5. BlockOf(P, 0) = SubSeq(P, 1, size)
  <2>1. BlockOf(P, 0) = SubSeq(P, 0 + 1, size)
    BY <1>2, <1>3
  <2> QED BY <2>1
<1>6. BlockOf(P, 1) = SubSeq(P, size + 1, twice)
  BY <1>2, <1>3
<1>7. BlockOf(P, 2) = SubSeq(P, twice + 1, n)
  BY <1>2, <1>3
<1>8. SubSeq(P, 1, size) \o SubSeq(P, size + 1, twice) = SubSeq(P, 1, twice)
  BY <1>4, ConcatAdjacentSubSeq
<1>9. SubSeq(P, 1, twice) \o SubSeq(P, twice + 1, n) = SubSeq(P, 1, n)
  BY <1>4, ConcatAdjacentSubSeq
<1>10. SubSeq(P, 1, n) = P
  BY SubSeqFull
<1> QED BY <1>5, <1>6, <1>7, <1>8, <1>9, <1>10, ZenonT(30)

LEMMA FirstOfAll ==
  ASSUME NEW n \in 91 .. 1023, NEW P \in Seq(Placed), Len(P) = n
  PROVE  BlockOf(P, 0)[1] = P[1]
<1> DEFINE size == Size(n)
           B == SubSeq(P, 1, size)
<1>1. size \in 1 .. 1023 /\ size < n
  BY DEF Size, NrBlocks
<1>2. BlockOf(P, 0) = SubSeq(P, 0 * size + 1, IF (0 + 1) * size < n THEN (0 + 1) * size ELSE n)
  BY DEF BlockOf, Size
<1> HIDE DEF size
<1>3. 0 * size + 1 = 1 /\ (0 + 1) * size = size /\ 1 \in Nat \ {0} /\ size \in 1 - 1 .. Len(P)
  BY <1>1
<1>4. \A i \in 1 .. size - 1 + 1 : B[i] = P[1 + i - 1]
  BY <1>3, PartOf
<1>5. BlockOf(P, 0) = B
  BY <1>1, <1>2, <1>3
<1> HIDE DEF B
<1>6. 1 \in 1 .. size /\ \A i \in 1 .. size : i \in 1 .. size - 1 + 1 /\ 1 + i - 1 = i
  BY <1>1
<1>7. \A i \in 1 .. size : B[i] = P[i]
  BY <1>4, <1>6
<1> QED BY <1>5, <1>6, <1>7

(* A frame of three blocks tells of three blocks; of one without parity,   *)
(* if all of them are too large for FEC; and is a mixture if only the      *)
(* first two are.                                                          *)
LEMMA LargeShape ==
  ASSUME NEW n \in 91 .. 1023, FecPercent # 0, cur \in Nat, frame \in Nat
  PROVE  Shape(MultiBlocks(RtpPackets(n)))
<1>0. n \in 1 .. 1023
  OBVIOUS
<1>1. FramePart(RtpPackets(n), n, cur)
  BY <1>0, HeaderFacts, ZenonT(30)
<1>2. ThreeParts(RtpPackets(n), n, cur)
  BY <1>1, BlocksOfFrame, ZenonT(30)
<1>3. ABlock(RtpPackets(n), 0, n, 0, 0) /\ RtpPackets(n) \in Seq(Placed) /\ Len(RtpPackets(n)) = n
  <2>1. ABlock(RtpPackets(n), 0, n, 0, 0)
    BY <1>0, PlainBlock, ZenonT(30)
  <2> QED BY <1>1, <2>1, Zenon DEF FramePart
<1>4. RtpPackets(n)[1].pct = 0
  BY DEF RtpPackets, RtpHeader
<1> DEFINE P == RtpPackets(n)
           size == Size(n)
           B0 == BlockOf(P, 0)
           B1 == BlockOf(P, 1)
           B2 == BlockOf(P, 2)
           rest == n - 2 * size
           R0 == FecPackets(B0, 0, LastBlock, cur)
           base1 == cur + Len(R0)
           R1 == FecPackets(B1, 1, LastBlock, base1)
           base2 == cur + Len(R0) + Len(R1)
           R2 == FecPackets(B2, 2, LastBlock, base2)
           mid1 == cur + size
           mid2 == cur + 2 * size
<1>5. MultiBlocks(P) = R0 \o R1 \o R2
  BY DEF MultiBlocks
<1> HIDE DEF P
<1>6. /\ FramePart(B0, size, cur) /\ FramePart(B1, size, mid1) /\ FramePart(B2, rest, mid2)
      /\ size \in 1 .. 1023 /\ 2 * size < n /\ rest \in 1 .. 1023 /\ rest <= size
  BY <1>2, ZenonT(60) DEF ThreeParts, P
<1>7. B0 \o B1 \o B2 = P
  BY <1>3, BlocksAreAll, ZenonT(30) DEF P
<1>8. B0[1] = P[1]
  <2>1. P \in Seq(Placed) /\ Len(P) = n
    BY <1>3 DEF P
  <2> HIDE DEF B0
  <2>2. BlockOf(P, 0)[1] = P[1]
    BY <2>1, FirstOfAll, ZenonT(30)
  <2> QED BY <2>2 DEF B0
<1> HIDE DEF B0, B1, B2, size, rest, mid1, mid2
<1>9. /\ B0 \in Seq(Placed) /\ B1 \in Seq(Placed) /\ B2 \in Seq(Placed)
      /\ Len(B0) = size /\ Len(B1) = size /\ Len(B2) = rest
  BY <1>6 DEF FramePart
<1>10. TooLarge(size) => R0 = B0 /\ R1 = B1
  BY <1>9 DEF FecPackets
<1>11. TooLarge(rest) => R2 = B2
  BY <1>9 DEF FecPackets
<1>12. TooLarge(rest) => TooLarge(size)
  <2>1. rest \in 1 .. 1023 /\ size \in 1 .. 1023 /\ rest <= size
    BY <1>6
  <2> QED BY <2>1, LargerIsTooLarge, ZenonT(60)
<1>13. /\ 0 \in 0 .. LastBlock /\ 1 \in 0 .. LastBlock /\ 2 \in 0 .. LastBlock
       /\ LastBlock \in 0 .. LastBlock
  BY DEF LastBlock
<1>14. mid1 \in Nat /\ mid2 \in Nat
  BY <1>6 DEF mid1, mid2
<1>15. Len(R0) \in Nat /\ Len(R1) \in Nat
  <2>1. CASE TooLarge(size)
    BY <1>9, <1>10, <2>1, LenProperties
  <2>2. CASE ~TooLarge(size)
    <3>1. FecBlock(R0, 0, LastBlock)
      BY <1>6, <1>13, <2>2, FecBlockTells, ZenonT(30)
    <3>2. base1 \in Nat
      BY <3>1 DEF FecBlock
    <3> HIDE DEF base1
    <3>3. FecBlock(R1, 1, LastBlock)
      BY <1>6, <1>13, <1>14, <2>2, <3>2, FecBlockTells, ZenonT(30)
    <3> QED BY <3>1, <3>3 DEF FecBlock
  <2> QED BY <2>1, <2>2
<1>16. base1 \in Nat /\ base2 \in Nat
  BY <1>15
<1> HIDE DEF base1, base2
<1>17. CASE TooLarge(rest)
  <2>1. R0 \o R1 \o R2 = P
    BY <1>7, <1>10, <1>11, <1>12, <1>17
  <2> QED BY <1>3, <1>5, <2>1, ZenonT(30) DEF Shape, P
<1>18. CASE ~TooLarge(rest)
  <2>1. FecBlock(R2, 2, LastBlock)
    BY <1>6, <1>13, <1>14, <1>16, <1>18, FecBlockTells, ZenonT(30)
  <2>2. CASE TooLarge(size)
    <3>1. R2 \in Seq(Placed) /\ Len(R2) >= 1 /\ R2[1].pct # 0
      <4>1. R2 \in Seq(Placed) /\ Len(R2) \in Nat /\ Len(R2) >= 1
        BY <2>1 DEF FecBlock, ABlock, BlockAt
      <4>2. 1 \in 1 .. Len(R2)
        BY <4>1
      <4> QED BY <2>1, <4>1, <4>2 DEF FecBlock
    <3>2. R0 = B0 /\ R1 = B1 /\ Len(B0) >= 1 /\ B0[1].pct = 0
      BY <1>4, <1>6, <1>8, <1>9, <1>10, <2>2 DEF P
    <3> HIDE DEF R0, R1, R2
    <3>3. Mixed(R0 \o R1 \o R2)
      BY <1>9, <3>1, <3>2, MixedBlocks
    <3> QED BY <1>5, <3>3 DEF Shape, P
  <2>3. CASE ~TooLarge(size)
    <3>1. FecBlock(R0, 0, LastBlock)
      BY <1>6, <1>13, <2>3, FecBlockTells, ZenonT(30)
    <3>2. FecBlock(R1, 1, LastBlock)
      BY <1>6, <1>13, <1>14, <1>16, <2>3, FecBlockTells, ZenonT(30)
    <3> HIDE DEF R0, R1, R2
    <3>3. ThreeShape(R0 \o R1 \o R2)
      BY <2>1, <3>1, <3>2, ThreeFecBlocks, ZenonT(30)
    <3> QED BY <1>5, <3>3 DEF Shape, P
  <2> QED BY <2>2, <2>3
<1> QED BY <1>17, <1>18

LEMMA FrameShape ==
  ASSUME NEW n \in 1 .. 1023, cur \in Nat, frame \in Nat
  PROVE  Shape(SplitIntoRtp(n))
<1> DEFINE P == RtpPackets(n)
           R == FecPackets(P, 0, 0, cur)
<1>1. FramePart(P, n, cur)
  BY HeaderFacts, ZenonT(30)
<1>2. Len(P) = n
  BY <1>1 DEF FramePart
<1>3. ABlock(P, 0, Len(P), 0, 0)
  <2>1. ABlock(P, 0, n, 0, 0)
    BY PlainBlock, ZenonT(30)
  <2> QED BY <1>2, <2>1
<1>4. Shape(P)
  BY <1>3, Zenon DEF Shape
<1> HIDE DEF P
<1>5. CASE FecPercent = 0
  BY <1>4, <1>5 DEF SplitIntoRtp, P
<1>6. CASE FecPercent # 0 /\ n > MultiBlockAbove
  <2>1. n \in 91 .. 1023
    BY <1>6 DEF MultiBlockAbove
  <2>2. Shape(MultiBlocks(P))
    BY <1>6, <2>1, LargeShape, ZenonT(30) DEF P
  <2> QED BY <1>6, <2>2 DEF SplitIntoRtp, P
<1>7. CASE FecPercent # 0 /\ ~(n > MultiBlockAbove)
  <2>1. SplitIntoRtp(n) = R
    BY <1>7 DEF SplitIntoRtp, P
  <2>2. CASE TooLarge(n)
    <3>1. R = P
      BY <1>2, <2>2 DEF FecPackets
    <3> QED BY <1>4, <2>1, <3>1
  <2>3. CASE ~TooLarge(n)
    <3>1. 0 \in 0 .. LastBlock
      BY DEF LastBlock
    <3>2. FecBlock(R, 0, 0)
      BY <1>1, <1>7, <2>3, <3>1, FecBlockTells, ZenonT(30)
    <3> QED BY <2>1, <3>2 DEF FecBlock, Shape
  <2> QED BY <2>2, <2>3
<1> QED BY <1>5, <1>6, <1>7

(***************************************************************************)
(* A frame of one of these shapes can be put together.                     *)
(***************************************************************************)
LEMMA ModShift ==
  ASSUME NEW m \in Nat \ {0}, NEW a \in Nat, NEW x \in Nat
  PROVE  ((a % m) + x) % m = (a + x) % m
<1> DEFINE q == a \div m
           r == a % m
           y == r + x
           q2 == y \div m
           r2 == y % m
<1>1. q \in Nat /\ r \in 0 .. m - 1 /\ a = m * q + r
  BY Split
<1>2. y \in Nat
  <2> HIDE DEF q, r
  <2> QED BY <1>1
<1> HIDE DEF q, r
<1>3. q2 \in Nat /\ r2 \in 0 .. m - 1 /\ y = m * q2 + r2
  <2> HIDE DEF y
  <2> QED BY <1>2, Split
<1> HIDE DEF q2, r2
<1>4. m * (q + q2) = m * q + m * q2 /\ q + q2 \in Nat
  BY <1>1, <1>3
<1>5. a + x = m * (q + q2) + r2
  <2>1. m * q \in Nat /\ m * q2 \in Nat
    BY <1>1, <1>3
  <2> QED BY <1>1, <1>3, <1>4, <2>1
<1>6. (m * (q + q2) + r2) % m = r2
  BY <1>3, <1>4, Remainder
<1> QED BY <1>5, <1>6 DEF r, r2

PiecesGrow(S) ==
  \A j, k \in DOMAIN S : j < k /\ IsData(S[j]) /\ IsData(S[k]) => S[j].piece < S[k].piece

WellFormed(S) ==
  /\ S \in Seq(Packet) /\ Len(S) >= 1
  /\ PiecesGrow(S) /\ Shape(S)
  /\ \E base \in Nat : Numbered(S, base)

LEMMA FrameWellFormed ==
  ASSUME NEW n \in 1 .. 1023, cur \in Nat, frame \in Nat
  PROVE  WellFormed(SplitIntoRtp(n))
<1> DEFINE S == SplitIntoRtp(n)
<1>1. Run(S, cur, cur, cur + n)
  BY FrameIsRun, ZenonT(30)
<1>2. Shape(S)
  BY FrameShape, ZenonT(30)
<1> HIDE DEF S
<1>3. S \in Seq(Placed) /\ Len(S) >= 1 /\ Numbered(S, cur)
  BY <1>1 DEF Run
<1>4. S \in Seq(Packet)
  <2>1. Placed \subseteq Packet
    BY DEF Placed
  <2> HIDE DEF Placed
  <2> QED BY <1>3, <2>1, SeqMonotonic
<1>5. DOMAIN S = 1 .. Len(S)
  BY <1>4, LenProperties
<1>6. PiecesGrow(S)
  <2> SUFFICES ASSUME NEW j \in 1 .. Len(S), NEW k \in 1 .. Len(S),
                      j < k, IsData(S[j]), IsData(S[k])
               PROVE  S[j].piece < S[k].piece
    BY <1>5 DEF PiecesGrow
  <2>1. S[j].index < S[k].index
    BY <1>1 DEF Run, Holds
  <2>2. S[j] \in Placed /\ S[k] \in Placed
    BY <1>3, ElementOfSeq
  <2>3. S[j].piece = S[j].index - cur + 1 /\ S[k].piece = S[k].index - cur + 1
    BY <2>2 DEF Placed
  <2>4. S[j].index \in Nat /\ S[k].index \in Nat
    <3>1. S[j] \in Packet /\ S[k] \in Packet
      BY <2>2 DEF Placed
    <3> QED BY <3>1 DEF Packet
  <2> QED BY <2>1, <2>3, <2>4
<1>7. WellFormed(S)
  BY <1>2, <1>3, <1>4, <1>6 DEF WellFormed
<1> QED BY <1>7 DEF S

(* The packets that tell of block b are all of it.                         *)
LEMMA BlockFound ==
  ASSUME pkts \in Seq(Packet), NEW lo \in Nat, NEW m \in Nat, lo + m <= Len(pkts), NEW b, NEW last,
         ABlock(pkts, lo, m, b, last),
         \A k \in 1 .. Len(pkts) : k <= lo \/ k > lo + m => pkts[k].block # b,
         NEW base \in Nat, Numbered(pkts, base)
  PROVE  BlockDecodable(b)
<1> DEFINE first == lo + 1
           p == pkts[first]
<1>1. PICK d \in 1 .. 1023, pct \in 0 .. 255 : BlockAt(pkts, lo, m, d, pct, b, last)
  BY ZenonT(30) DEF ABlock
<1>2. m >= 1 /\ m = d + Told(d, pct) /\ Len(pkts) \in Nat /\ DOMAIN pkts = 1 .. Len(pkts)
  BY <1>1, LenProperties DEF BlockAt
<1>3. ASSUME NEW k \in lo + 1 .. lo + m
      PROVE  Fields(pkts[k], k - first, d, pct, b, last)
  <2> DEFINE i == k - lo
  <2>1. i \in 1 .. m /\ lo + i = k /\ i - 1 = k - first
    OBVIOUS
  <2> HIDE DEF i
  <2>2. Fields(pkts[lo + i], i - 1, d, pct, b, last)
    BY <1>1, <2>1 DEF BlockAt
  <2> QED BY <2>1, <2>2
<1>4. InBlock(b) = lo + 1 .. lo + m
  <2>1. ASSUME NEW k \in lo + 1 .. lo + m PROVE k \in InBlock(b)
    <3>1. k \in DOMAIN pkts
      BY <1>2
    <3> QED BY <1>3, <3>1 DEF InBlock, Fields
  <2>2. ASSUME NEW k \in InBlock(b) PROVE k \in lo + 1 .. lo + m
    <3>1. k \in 1 .. Len(pkts) /\ pkts[k].block = b
      BY <1>2 DEF InBlock
    <3>2. ~(k <= lo \/ k > lo + m)
      BY <3>1
    <3> QED BY <3>1, <3>2
  <2> QED BY <2>1, <2>2, ZenonT(30)
<1>5. first \in lo + 1 .. lo + m /\ first - first = 0
  BY <1>2
<1>6. Fields(p, 0, d, pct, b, last)
  BY <1>3, <1>5
<1>7. Cardinality(InBlock(b)) = p.data + ParityTold(p)
  <2>1. Cardinality(lo + 1 .. lo + m) = m
    <3>1. lo + 1 \in Int /\ lo + m \in Int /\ ~(lo + 1 > lo + m) /\ lo + m - (lo + 1) + 1 = m
      BY <1>2
    <3> QED BY <3>1, FS_Interval
  <2>2. p.data = d /\ p.pct = pct
    BY <1>6 DEF Fields
  <2>3. ParityTold(p) = Told(d, pct)
    BY <2>2 DEF ParityTold, Told
  <2> QED BY <1>2, <1>4, <2>1, <2>2, <2>3
<1>8. ASSUME NEW k \in lo + 1 .. lo + m
      PROVE  pkts[k].seq = (p.seq + (k - first)) % VideoSeqMod
  <2>1. k \in 1 .. Len(pkts) /\ first \in 1 .. Len(pkts)
    BY <1>5
  <2>2. pkts[k].seq = (base + k - 1) % VideoSeqMod /\ p.seq = (base + first - 1) % VideoSeqMod
    BY <2>1 DEF Numbered
  <2> DEFINE a == base + first - 1
             x == k - first
  <2>3. a \in Nat /\ x \in Nat /\ base + k - 1 = a + x /\ VideoSeqMod \in Nat \ {0}
    BY PayloaderAssumption
  <2> HIDE DEF a, x, first
  <2>4. ((a % VideoSeqMod) + x) % VideoSeqMod = (a + x) % VideoSeqMod
    BY <2>3, ModShift, ZenonT(30)
  <2>5. p.seq = a % VideoSeqMod
    BY <2>2 DEF a
  <2>6. pkts[k].seq = (p.seq + x) % VideoSeqMod
    BY <2>2, <2>3, <2>4, <2>5, ZenonT(30)
  <2> QED BY <2>6 DEF x
<1> HIDE DEF first
<1>9. ASSUME NEW k \in InBlock(b)
      PROVE  /\ pkts[k].data = p.data /\ pkts[k].pct = p.pct /\ pkts[k].last = p.last
             /\ pkts[k].shard = k - first
             /\ pkts[k].seq = (p.seq + (k - first)) % VideoSeqMod
             /\ pkts[k].piece # NoPiece <=> pkts[k].shard < p.data
  <2>1. k \in lo + 1 .. lo + m
    BY <1>4
  <2>2. Fields(pkts[k], k - first, d, pct, b, last)
    BY <1>3, <2>1
  <2>3. pkts[k].seq = (p.seq + (k - first)) % VideoSeqMod
    BY <1>8, <2>1
  <2> QED BY <1>6, <2>2, <2>3 DEF Fields, IsData
<1>10. p.shard = 0 /\ first \in InBlock(b)
  BY <1>4, <1>5, <1>6 DEF Fields
<1> QED BY <1>7, <1>9, <1>10 DEF BlockDecodable

(* In a block, every packet says so.                                       *)
LEMMA InABlock ==
  ASSUME NEW S, NEW lo \in Nat, NEW m \in Nat, NEW b, NEW last, ABlock(S, lo, m, b, last),
         NEW k \in lo + 1 .. lo + m
  PROVE  S[k].block = b /\ S[k].last = last
<1>1. PICK d \in 1 .. 1023, pct \in 0 .. 255 : BlockAt(S, lo, m, d, pct, b, last)
  BY ZenonT(30) DEF ABlock
<1> DEFINE i == k - lo
<1>2. i \in 1 .. m /\ lo + i = k
  OBVIOUS
<1> HIDE DEF i
<1>3. Fields(S[lo + i], i - 1, d, pct, b, last)
  BY <1>1, <1>2 DEF BlockAt
<1> QED BY <1>2, <1>3 DEF Fields

LEMMA OneBlockDecodes ==
  ASSUME pkts \in Seq(Packet), Len(pkts) >= 1, PiecesGrow(pkts), NEW base \in Nat,
         Numbered(pkts, base), ABlock(pkts, 0, Len(pkts), 0, 0)
  PROVE  FrameDecodable
<1>1. Len(pkts) \in Nat /\ DOMAIN pkts = 1 .. Len(pkts) /\ 0 \in Nat
  BY LenProperties
<1>2. ASSUME NEW k \in 1 .. Len(pkts) PROVE pkts[k].block = 0 /\ pkts[k].last = 0
  <2>1. k \in 0 + 1 .. 0 + Len(pkts)
    BY <1>1
  <2> QED BY <1>1, <2>1, InABlock
<1>3. BlockDecodable(0)
  <2>1. /\ 0 + Len(pkts) <= Len(pkts)
        /\ \A k \in 1 .. Len(pkts) : k <= 0 \/ k > 0 + Len(pkts) => pkts[k].block # 0
    BY <1>1
  <2> QED BY <1>1, <2>1, BlockFound
<1>4. pkts[1].last = 0 /\ 0 .. 0 = {0}
  BY <1>1, <1>2
<1>5. ASSUME NEW j \in DOMAIN pkts, NEW k \in DOMAIN pkts, j < k,
             pkts[j].piece # NoPiece, pkts[k].piece # NoPiece
      PROVE  pkts[j].piece < pkts[k].piece /\ pkts[j].block <= pkts[k].block
  BY <1>1, <1>2, <1>5 DEF PiecesGrow, IsData
<1>6. \A k \in DOMAIN pkts : pkts[k].block <= 0
  BY <1>1, <1>2
<1> QED BY <1>3, <1>4, <1>5, <1>6 DEF FrameDecodable

LEMMA ThreeBlocksDecode ==
  ASSUME pkts \in Seq(Packet), Len(pkts) >= 1, PiecesGrow(pkts), NEW base \in Nat,
         Numbered(pkts, base), ThreeShape(pkts)
  PROVE  FrameDecodable
<1>1. Len(pkts) \in Nat /\ DOMAIN pkts = 1 .. Len(pkts)
  BY LenProperties
<1>2. PICK l0 \in Nat, l1 \in Nat :
        /\ l0 + l1 <= Len(pkts)
        /\ ABlock(pkts, 0, l0, 0, LastBlock)
        /\ ABlock(pkts, l0, l1, 1, LastBlock)
        /\ ABlock(pkts, l0 + l1, Len(pkts) - l0 - l1, 2, LastBlock)
  BY DEF ThreeShape
<1> DEFINE at == l0 + l1
           l2 == Len(pkts) - l0 - l1
<1>3. at \in Nat /\ l2 \in Nat /\ at + l2 = Len(pkts) /\ l0 <= at /\ at <= Len(pkts)
  BY <1>1, <1>2
<1>4. ABlock(pkts, at, l2, 2, LastBlock)
  BY <1>2
<1>5. l0 >= 1
  BY <1>2 DEF ABlock, BlockAt
<1>6. at = l0 + l1
  OBVIOUS
<1> HIDE DEF at, l2
<1>7. ASSUME NEW k \in 1 .. Len(pkts)
      PROVE  /\ k <= l0 => pkts[k].block = 0 /\ pkts[k].last = LastBlock
             /\ k > l0 /\ k <= at => pkts[k].block = 1
             /\ k > at => pkts[k].block = 2
  <2>1. ASSUME k <= l0 PROVE pkts[k].block = 0 /\ pkts[k].last = LastBlock
    <3>1. k \in 0 + 1 .. 0 + l0 /\ 0 \in Nat
      BY <2>1
    <3> QED BY <1>2, <3>1, InABlock
  <2>2. ASSUME k > l0, k <= at PROVE pkts[k].block = 1
    <3>1. k \in l0 + 1 .. l0 + l1
      BY <1>6, <2>2
    <3> QED BY <1>2, <3>1, InABlock
  <2>3. ASSUME k > at PROVE pkts[k].block = 2
    <3>1. k \in at + 1 .. at + l2
      BY <1>1, <1>3, <2>3
    <3> QED BY <1>3, <1>4, <3>1, InABlock
  <2> QED BY <2>1, <2>2, <2>3
<1>8. BlockDecodable(0)
  <2>1. 0 + l0 <= Len(pkts) /\ 0 \in Nat
    BY <1>3
  <2>2. \A k \in 1 .. Len(pkts) : k <= 0 \/ k > 0 + l0 => pkts[k].block # 0
    BY <1>3, <1>7
  <2> QED BY <1>2, <2>1, <2>2, BlockFound
<1>9. BlockDecodable(1)
  <2>1. \A k \in 1 .. Len(pkts) : k <= l0 \/ k > l0 + l1 => pkts[k].block # 1
    BY <1>3, <1>6, <1>7
  <2> QED BY <1>2, <2>1, BlockFound
<1>10. BlockDecodable(2)
  <2>1. at + l2 <= Len(pkts)
    BY <1>1, <1>3
  <2>2. \A k \in 1 .. Len(pkts) : k <= at \/ k > at + l2 => pkts[k].block # 2
    BY <1>3, <1>7
  <2> QED BY <1>3, <1>4, <2>1, <2>2, BlockFound
<1>11. pkts[1].last = 2
  <2>1. 1 \in 1 .. Len(pkts)
    BY <1>1
  <2> QED BY <1>5, <1>7, <2>1 DEF LastBlock
<1>12. \A b \in 0 .. 2 : BlockDecodable(b)
  <2>1. 0 .. 2 = {0, 1, 2}
    OBVIOUS
  <2> QED BY <1>8, <1>9, <1>10, <2>1
<1>13. ASSUME NEW k \in 1 .. Len(pkts) PROVE pkts[k].block <= 2
  BY <1>3, <1>7
<1>14. ASSUME NEW j \in 1 .. Len(pkts), NEW k \in 1 .. Len(pkts), j < k,
              pkts[j].piece # NoPiece, pkts[k].piece # NoPiece
       PROVE  pkts[j].piece < pkts[k].piece /\ pkts[j].block <= pkts[k].block
  <2>1. pkts[j].piece < pkts[k].piece
    BY <1>1, <1>14 DEF PiecesGrow, IsData
  <2>2. pkts[j].block <= pkts[k].block
    BY <1>3, <1>7, <1>14
  <2> QED BY <2>1, <2>2
<1> QED BY <1>1, <1>11, <1>12, <1>13, <1>14 DEF FrameDecodable

LEMMA WellFormedDecodes ==
  ASSUME WellFormed(pkts)
  PROVE  FrameDecodable \/ PartlySkipped
<1>1. /\ pkts \in Seq(Packet) /\ Len(pkts) >= 1 /\ PiecesGrow(pkts) /\ Shape(pkts)
      /\ \E base \in Nat : Numbered(pkts, base)
  BY DEF WellFormed
<1>2. PICK base \in Nat : Numbered(pkts, base)
  BY <1>1
<1>3. CASE ABlock(pkts, 0, Len(pkts), 0, 0)
  BY <1>1, <1>2, <1>3, OneBlockDecodes, ZenonT(30)
<1>4. CASE ThreeShape(pkts)
  BY <1>1, <1>2, <1>4, ThreeBlocksDecode, ZenonT(30)
<1>5. CASE Mixed(pkts)
  BY <1>5 DEF Mixed, PartlySkipped
<1> QED BY <1>1, <1>3, <1>4, <1>5 DEF Shape

(***************************************************************************)
(* The inductive invariant of what a client is sent for the latest frame.  *)
(***************************************************************************)
FramesInv ==
  /\ cur \in Nat /\ frame \in 0 .. MaxFrames
  /\ pkts # <<>> => WellFormed(pkts)

LEMMA FramesStep ==
  ASSUME FramesInv, PushVideo
  PROVE  FramesInv'
<1>1. PICK n \in FrameSizes : PushFrame(n)
  BY DEF PushVideo
<1>2. n \in 1 .. 1023 /\ cur \in Nat /\ frame \in 0 .. MaxFrames /\ frame \in Nat /\ MaxFrames \in Nat
  BY PayloaderAssumption DEF FramesInv
<1>3. /\ frame < MaxFrames /\ frame' = frame + 1 /\ pkts' = SplitIntoRtp(n)
      /\ cur' = IF FecPercent = 0 THEN cur ELSE cur + Len(pkts')
  BY <1>1 DEF PushFrame
<1>4. WellFormed(pkts')
  <2>1. WellFormed(SplitIntoRtp(n))
    BY <1>2, FrameWellFormed, ZenonT(30)
  <2> QED BY <1>3, <2>1
<1>5. Len(pkts') \in Nat
  BY <1>4, LenProperties DEF WellFormed
<1> QED BY <1>2, <1>3, <1>4, <1>5 DEF FramesInv

(* For frames of every size and any share of FEC: from its headers alone   *)
(* every frame can be put together, unless only some of its three blocks   *)
(* are too large for FEC.                                                  *)
THEOREM Decodable == RtpSpec => []DecodableUnlessPartlySkipped
<1>1. RtpInit => FramesInv
  BY PayloaderAssumption DEF RtpInit, VideoInit, FramesInv
<1>2. FramesInv /\ [RtpNext]_rtpVars => FramesInv'
  <2> SUFFICES ASSUME FramesInv, [RtpNext]_rtpVars PROVE FramesInv'
    OBVIOUS
  <2>1. CASE PushVideo
    BY <2>1, FramesStep
  <2>2. CASE UNCHANGED videoVars
    <3>1. UNCHANGED <<cur, frame, pkts>>
      BY <2>2 DEF videoVars
    <3> QED BY <3>1 DEF FramesInv
  <2> QED BY <2>1, <2>2 DEF RtpNext, rtpVars
<1>3. FramesInv => DecodableUnlessPartlySkipped
  BY WellFormedDecodes DEF FramesInv, DecodableUnlessPartlySkipped
<1> QED BY <1>1, <1>2, <1>3, PTL DEF RtpSpec
=============================================================================
