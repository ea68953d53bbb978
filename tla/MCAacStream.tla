----------------------------- MODULE MCAacStream -----------------------------
(***************************************************************************)
(* An instance of AacStream for TLC: packets with room for four bytes of a *)
(* frame, headers of two bytes, or of three with CRC, and files that are   *)
(* sound (with bytes before the first frame and between two, and a frame   *)
(* that just fits), sound with CRC, and wrong: cut off behind an empty     *)
(* frame, with a reserved sample rate.  Where the CRC file's lengths are   *)
(* looked for is once, by accident, the right one, and then less than the  *)
(* header.                                                                 *)
(***************************************************************************)
EXTENDS AacStream, TLC

MCSound == [size |-> 11, sync |-> {1, 5}, len |-> 1 :> 3 @@ 5 :> 6,
            later |-> 1 :> 0 @@ 5 :> 9, absent |-> 1 :> TRUE @@ 5 :> TRUE, rate |-> 1]
MCCrc == [size |-> 9, sync |-> {0, 4}, len |-> 0 :> 4 @@ 4 :> 5,
          later |-> 0 :> 4 @@ 4 :> 1, absent |-> 0 :> FALSE @@ 4 :> FALSE, rate |-> 1]
MCWrong == [size |-> 6, sync |-> {0, 2}, len |-> 0 :> 2 @@ 2 :> 5,
            later |-> 0 :> 0 @@ 2 :> 0, absent |-> 0 :> TRUE @@ 2 :> TRUE, rate |-> 0]
MCMedia == <<MCSound, MCCrc, MCWrong>>
MCDraws == {[seq |-> 11, time |-> 5]}
=============================================================================
