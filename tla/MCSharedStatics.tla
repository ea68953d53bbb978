--------------------------- MODULE MCSharedStatics ---------------------------
(***************************************************************************)
(* An instance of SharedStatics for TLC: two session threads that nobody   *)
(* can tell apart, and a walk of each length up to three calls.            *)
(***************************************************************************)
EXTENDS SharedStatics, TLC

CONSTANTS s1, s2

MCWalks == {"URI", "CSeq", "ports"}
MCSession == {s1, s2}
MCSymmetry == Permutations(MCSession)
=============================================================================
