--------------------------- MODULE VideoPayloader ---------------------------
(***************************************************************************)
(* The video payloader (gst-plugin/video.hpp): how an encoded frame is cut *)
(* into RTP packets, split into FEC blocks and numbered.                   *)
(*                                                                         *)
(* A frame is worth the number of packets its data takes.  A packet is the *)
(* fields of its headers that a client reads (the packed words fecInfo and *)
(* multiFecBlocks as the fields packed into them) and the piece of the     *)
(* frame it carries.  Reed-Solomon itself is not modelled: d of the shards *)
(* of a block of d data shards are taken to restore it.                    *)
(***************************************************************************)
EXTENDS Integers, Sequences, FiniteSets

CONSTANTS
  FrameSizes,   (* data packets of the frames the encoder may produce       *)
  MaxFrames,    (* bound on the frames of a stream                          *)
  FecPercent,   (* fec_percentage, 20 in every ANNOUNCE                     *)
  MinRequired,  (* min_required_fec_packets, 2 in every client              *)
  VideoSeqMod   (* 2^16: RTP sequence numbers are 16 bits wide              *)

(* Frames of 1024 packets would not fit the 10-bit fields of fecInfo.      *)
ASSUME PayloaderAssumption ==
  /\ FrameSizes \subseteq 1 .. 1023
  /\ MaxFrames \in Nat
  /\ FecPercent \in 0 .. 255
  /\ MinRequired \in 0 .. 2
  /\ VideoSeqMod \in Nat \ {0}

DATA_SHARDS_MAX == 255
MultiBlockAbove == 90
NrBlocks == 3
LastBlock == 2      \* the two bits of last_block_index
NoPiece == 0        \* what a parity packet carries

VARIABLES
  cur,          (* cur_seq_number                                           *)
  frame,        (* frame_num                                                *)
  pkts,         (* the buffer list pushed for the latest frame              *)
  sent,         (* history: packets pushed for all frames before it         *)
  lastIndex     (* history: stream index of the last data packet before it  *)

videoVars == <<cur, frame, pkts, sent, lastIndex>>

Packet == [seq : 0 .. VideoSeqMod - 1, index : Nat, frame : Nat, piece : 0 .. 1023,
           block : 0 .. LastBlock, last : 0 .. LastBlock,
           shard : 0 .. 1022, data : 1 .. 1023, pct : 0 .. 255]

VideoTypeOK ==
  /\ cur \in Nat /\ sent \in Nat /\ lastIndex \in Nat \cup {-1}
  /\ frame \in 0 .. MaxFrames
  /\ pkts \in Seq(Packet)

VideoInit ==
  /\ cur = 0
  /\ frame = 0
  /\ pkts = <<>>
  /\ sent = 0
  /\ lastIndex = -1

-----------------------------------------------------------------------------
(***************************************************************************)
(* One frame.                                                              *)
(***************************************************************************)

(* create_rtp_header: one block without parity, until FEC says otherwise.  *)
RtpHeader(i, n) ==
  [seq |-> (cur + i) % VideoSeqMod, index |-> cur + i, frame |-> frame,
   piece |-> i + 1, block |-> 0, last |-> 0, shard |-> i, data |-> n, pct |-> 0]

RtpPackets(n) == [k \in 1 .. n |-> RtpHeader(k - 1, n)]

(* Faulty variant: the raised parity count is not told to the client.      *)
SplitSilently(d) ==
  LET parity == (d * FecPercent + 99) \div 100 IN
    [parity |-> IF parity < MinRequired THEN MinRequired ELSE parity, pct |-> FecPercent]

(* The percentage is raised to meet the minimum of parity packets.         *)
DetermineSplit(d) ==
  LET parity == (d * FecPercent + 99) \div 100 IN
    IF parity < MinRequired
      THEN [parity |-> MinRequired, pct |-> (100 * MinRequired) \div d]
      ELSE [parity |-> parity, pct |-> FecPercent]

TooLarge(d) == d + DetermineSplit(d).parity > DATA_SHARDS_MAX

(* update_fec_info: the stream index and the piece stay what they are.  A  *)
(* parity packet has neither.                                              *)
FecHeader(p, k, d, pct, b, last, base) ==
  [seq |-> (base + k) % VideoSeqMod, index |-> p.index, frame |-> frame, piece |-> p.piece,
   block |-> b, last |-> last, shard |-> k, data |-> d, pct |-> pct]

ParityPacket(k, d, pct, b, last, base) ==
  [seq |-> (base + k) % VideoSeqMod, index |-> 0, frame |-> frame, piece |-> NoPiece,
   block |-> b, last |-> last, shard |-> k, data |-> d, pct |-> pct]

(* generate_fec_packets: a block too large for the code is left as it is.  *)
FecPackets(P, b, last, base) ==
  LET d == Len(P)
      split == DetermineSplit(d)
  IN IF TooLarge(d)
       THEN P
       ELSE [k \in 1 .. d + split.parity |->
               IF k <= d
                 THEN FecHeader(P[k], k - 1, d, split.pct, b, last, base)
                 ELSE ParityPacket(k - 1, d, split.pct, b, last, base)]

BlockOf(P, b) ==
  LET size == (Len(P) + NrBlocks - 1) \div NrBlocks
      end == (b + 1) * size
  IN SubSeq(P, b * size + 1, IF end < Len(P) THEN end ELSE Len(P))

(* Faulty variant: sequence numbers restart in each block.                 *)
MultiBlocksSameBase(P) ==
  LET Fec(b) == FecPackets(BlockOf(P, b), b, LastBlock, cur)
  IN Fec(0) \o Fec(1) \o Fec(2)

(* generate_fec_multi_blocks: cur_seq_number moves on with each block.     *)
MultiBlocks(P) ==
  LET first  == FecPackets(BlockOf(P, 0), 0, LastBlock, cur)
      second == FecPackets(BlockOf(P, 1), 1, LastBlock, cur + Len(first))
      third  == FecPackets(BlockOf(P, 2), 2, LastBlock, cur + Len(first) + Len(second))
  IN first \o second \o third

SplitIntoRtp(n) ==
  IF FecPercent = 0 THEN RtpPackets(n)
  ELSE IF n > MultiBlockAbove THEN MultiBlocks(RtpPackets(n))
  ELSE FecPackets(RtpPackets(n), 0, 0, cur)

DataIndexes == {pkts[k].index : k \in {j \in DOMAIN pkts : pkts[j].piece # NoPiece}}
Highest(S) == CHOOSE x \in S : \A y \in S : y <= x

PushFrame(n) ==
  /\ frame < MaxFrames
  /\ pkts' = SplitIntoRtp(n)
  /\ cur' = IF FecPercent = 0 THEN cur ELSE cur + Len(pkts')
  /\ frame' = frame + 1
  /\ sent' = sent + Len(pkts)
  /\ lastIndex' = IF pkts = <<>> THEN -1 ELSE Highest(DataIndexes)

PushVideo == \E n \in FrameSizes : PushFrame(n)
-----------------------------------------------------------------------------
(***************************************************************************)
(* What a client makes of the headers alone.  It learns the number of      *)
(* blocks from any packet, the number of a block's parity packets from its *)
(* percentage, and puts a packet in its place by sequence number and shard.*)
(***************************************************************************)
InBlock(b) == {k \in DOMAIN pkts : pkts[k].block = b}

ParityTold(p) == (p.data * p.pct + 99) \div 100

(* The packets of block b agree on its size, are all there, once each, and *)
(* have consecutive sequence numbers in shard order.                       *)
BlockDecodable(b) ==
  \E first \in InBlock(b) :
    LET p == pkts[first] IN
    /\ p.shard = 0
    /\ Cardinality(InBlock(b)) = p.data + ParityTold(p)
    /\ \A k \in InBlock(b) :
         /\ pkts[k].data = p.data /\ pkts[k].pct = p.pct /\ pkts[k].last = p.last
         /\ pkts[k].shard = k - first
         /\ pkts[k].seq = (p.seq + (k - first)) % VideoSeqMod
         /\ pkts[k].piece # NoPiece <=> pkts[k].shard < p.data

(* And the blocks, one after the other, hold the whole frame in order.     *)
FrameDecodable ==
  LET last == pkts[1].last
      Data == {k \in DOMAIN pkts : pkts[k].piece # NoPiece}
  IN /\ \A b \in 0 .. last : BlockDecodable(b)
     /\ \A k \in DOMAIN pkts : pkts[k].block <= last
     /\ \A j, k \in Data : j < k =>
          /\ pkts[j].piece < pkts[k].piece
          /\ pkts[j].block <= pkts[k].block

(* A frame of which some blocks are too large for FEC and some are not.    *)
PartlySkipped ==
  /\ \E k \in DOMAIN pkts : pkts[k].pct = 0
  /\ \E k \in DOMAIN pkts : pkts[k].pct # 0

(***************************************************************************)
(* Properties.                                                             *)
(***************************************************************************)

(* Safety.  From its headers alone every frame can be put together and     *)
(* repaired by a client, whether it is one FEC block, three, or too large  *)
(* for FEC; the exception is a frame of which only some blocks are.        *)
DecodableUnlessPartlySkipped == pkts # <<>> => FrameDecodable \/ PartlySkipped

(* Safety.  Over all frames and their parity packets, sequence numbers     *)
(* have neither gaps, in which a client would see losses, nor repeats.     *)
GaplessSequence ==
  \A k \in DOMAIN pkts : pkts[k].seq = (sent + k - 1) % VideoSeqMod

(* Safety.  The stream index of data packets grows through the stream; a   *)
(* client drops what does not lie ahead of the last index it has seen.     *)
StreamIndexGrows ==
  \A j, k \in DOMAIN pkts : pkts[j].piece # NoPiece /\ pkts[k].piece # NoPiece =>
    /\ pkts[j].index > lastIndex
    /\ j < k => pkts[j].index < pkts[k].index

(* Safety.  Types and the two above.                                       *)
NumberingInv == VideoTypeOK /\ GaplessSequence /\ StreamIndexGrows

(***************************************************************************)
(* A statement of the repository that the code does not keep; no run       *)
(* checks it, README says what breaks it.                                  *)
(***************************************************************************)

(* Safety.  generate_fec_packets "modifies rtp_packets in place with FEC   *)
(* info" (video.hpp): every frame is described as what it was split into.  *)
EveryFrameDecodable == pkts # <<>> => FrameDecodable
=============================================================================
