---------------------------- MODULE MCH264Stream ----------------------------
(***************************************************************************)
(* An instance of H264Stream for TLC: an MTU that leaves five bytes for a  *)
(* NAL unit and three for a fragment, and two files, of different frame    *)
(* rates, with an empty unit, units that just fit and just do not, and a   *)
(* unit of three fragments; and a file with a frame of two slices.         *)
(***************************************************************************)
EXTENDS H264Stream

(* A slice is a frame by itself unless it says otherwise.                  *)
Unit(n, s) == [size |-> n, slice |-> s, last |-> s]
MCMedia ==
  <<[nals |-> <<Unit(5, FALSE), Unit(6, TRUE), Unit(0, FALSE)>>, tick |-> 3],
    [nals |-> <<Unit(10, TRUE)>>, tick |-> 2]>>
MCSliced ==
  <<[nals |-> <<[Unit(6, TRUE) EXCEPT !.last = FALSE], Unit(5, TRUE)>>,
     tick |-> 3]>>
MCDraws == {[seq |-> 11, time |-> 5]}
=============================================================================
