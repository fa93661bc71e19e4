--------------------------- MODULE AudioPayloader ---------------------------
(***************************************************************************)
(* The audio payloader (gst-plugin/audio.hpp): the numbering of the        *)
(* packets, and the FEC packets after every fourth of them.  What a packet *)
(* is encrypted under, and how a resume changes it, is in AudioResume;     *)
(* RtpStreams runs this payloader and the video payloader.                 *)
(*                                                                         *)
(* A packet is worth its position in the stream, modulo Window, which is   *)
(* wide enough to tell a packet from those of the block before.            *)
(***************************************************************************)
EXTENDS Naturals

CONSTANTS
  Window,       (* positions told apart                                     *)
  AudioSeqMod   (* 2^16: an RTP sequence number is 16 bits wide             *)

ASSUME AudioAssumption ==
  /\ AudioSeqMod \in Nat \ {0} /\ AudioSeqMod % 4 = 0
  /\ Window \in Nat /\ Window >= 8 /\ Window % AudioSeqMod = 0

AUDIO_DATA_SHARDS == 4
AUDIO_FEC_SHARDS == 2
Slots == 0 .. AUDIO_DATA_SHARDS - 1
Empty == Window     \* a slot of packets_buffer that was never filled

VARIABLES
  audioSeq,     (* cur_seq_number, 16 bits wide                             *)
  slots,        (* packets_buffer: the packet each data row holds           *)
  audioList,    (* the buffer list pushed last: the data packet's number    *)
                (* and the FEC packets, if any, with the rows they cover    *)
  pushed        (* history: packets pushed, modulo Window                   *)

audioVars == <<audioSeq, slots, audioList, pushed>>

Seqs == 0 .. AudioSeqMod - 1
Rows == [Slots -> 0 .. Window]

AudioTypeOK ==
  /\ audioSeq \in Seqs
  /\ slots \in Rows
  /\ audioList \in [seq : Seqs, base : Seqs, fecSeqs : SUBSET Seqs, rows : Rows]
  /\ pushed \in 0 .. Window - 1

(* The packet before the first bears the last of the numbers.              *)
AudioInit ==
  /\ audioSeq = 0
  /\ slots = [i \in Slots |-> Empty]
  /\ audioList = [seq |-> AudioSeqMod - 1, base |-> 0, fecSeqs |-> {}, rows |-> slots]
  /\ pushed = 0

Stored == [slots EXCEPT ![audioSeq % AUDIO_DATA_SHARDS] = pushed]

(* Faulty variant: FEC one packet early.                                   *)
TimeToFecEarly == (audioSeq + 2) % AUDIO_DATA_SHARDS = 0

TimeToFec == (audioSeq + 1) % AUDIO_DATA_SHARDS = 0

(* create_rtp_fec_header; the base is that of the four packets stored.     *)
WithFec ==
  [seq |-> audioSeq,
   base |-> (audioSeq + AudioSeqMod - (AUDIO_DATA_SHARDS - 1)) % AudioSeqMod,
   fecSeqs |-> {(audioSeq + i) % AudioSeqMod : i \in 0 .. AUDIO_FEC_SHARDS - 1},
   rows |-> Stored]

WithoutFec == [seq |-> audioSeq, base |-> 0, fecSeqs |-> {}, rows |-> slots]

NextSeq == (audioSeq + 1) % AudioSeqMod

(* split_into_rtp.                                                         *)
PushAudio ==
  /\ audioList' = IF TimeToFec THEN WithFec ELSE WithoutFec
  /\ slots' = Stored
  /\ audioSeq' = NextSeq
  /\ pushed' = (pushed + 1) % Window
-----------------------------------------------------------------------------
(***************************************************************************)
(* Properties.                                                             *)
(***************************************************************************)

(* Safety.  The FEC packets cover exactly the four packets that their base *)
(* sequence number announces, in the order of their rows, also when        *)
(* sequence numbers have wrapped: a client that has any four of the six    *)
(* restores the others as what they were.                                  *)
FecCoversItsBlock ==
  audioList.fecSeqs # {} =>
    \A i \in Slots :
      /\ audioList.rows[i] # Empty
      /\ audioList.rows[i] = (pushed + Window - AUDIO_DATA_SHARDS + i) % Window
      /\ audioList.rows[i] % AudioSeqMod = (audioList.base + i) % AudioSeqMod

(* Safety.  Of any four packets in a row the last of one block is followed *)
(* by its FEC packets: none is left out of every block.                    *)
EveryBlockIsCovered == pushed % AUDIO_DATA_SHARDS = 0 /\ slots[0] # Empty => audioList.fecSeqs # {}

(* Safety.  Data packets are numbered without gaps, although FEC packets   *)
(* carry sequence numbers of their own from the same space.                *)
GaplessAudio == audioList.seq = (pushed + AudioSeqMod - 1) % AudioSeqMod

(* Safety.  Types and the three above.                                     *)
BlocksInv == AudioTypeOK /\ FecCoversItsBlock /\ EveryBlockIsCovered /\ GaplessAudio
=============================================================================
