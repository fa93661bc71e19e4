---------------------------- MODULE MCStreamParams ----------------------------
(***************************************************************************)
(* Files a person may have left: another sink and a higher rate for its    *)
(* surround sound; no zero-copy head and neither H264 nor HEVC; a VA block *)
(* with zero-copy parameters whose encoder has another name, before an     *)
(* NVENC block that checks nothing.                                        *)
(***************************************************************************)
EXTENDS StreamParams

OddBlocks ==
  <<[StockBlock("va") EXCEPT !.named = FALSE, !.zeroCopy = TRUE],
    [StockBlock("nvcodec") EXCEPT !.checked = {}]>>

MCEdited ==
  {[Defaults EXCEPT !.sink = "renamed", !.opus[8] = 1000],
   [Defaults EXCEPT !.headZeroCopy = FALSE, !.lists.h264 = <<>>, !.lists.hevc = <<>>],
   [Defaults EXCEPT !.lists.h264 = OddBlocks]}
=============================================================================
