----------------------------- MODULE MCH264Lines -----------------------------
(***************************************************************************)
(* An instance of H264Lines, and with it of AnnexB, for TLC.  All files of *)
(* zeros and ones of six lengths up to twelve bytes: every way a start     *)
(* code can fall on the words of the search.  Files with parameter sets in *)
(* every order, with long and short start codes, sets twice or missing.    *)
(* The timing is taken to be one byte each behind the third byte of a set. *)
(***************************************************************************)
EXTENDS H264Lines

MCSpsRbsp == {<<7, 0, f, u, s>> : f \in {0, 1, 3}, u \in {0, 1, 3}, s \in {1, 3, 7}}
             \cup {<<7, 0, 0, 0, 0, 1>>, <<7, 0, 1, 2, 4, 0, 0, 3>>, <<7, 255>>, <<7, 0, 0, 3>>}
MCPpsRbsp == {<<8, 1>>, <<8, 0, 0, 1>>, <<8, 200, 0, 0, 0, 3>>}
MCRbsp == MCSpsRbsp \cup MCPpsRbsp

Short == <<0, 0, 1>>
Four == <<0, 0, 0, 1>>

MCBits == UNION {[1..n -> {0, 1}] : n \in {0, 3, 4, 7, 8, 12}}
MCCoded ==
  {Four \o Escape(s) \o Short \o Escape(q) : s \in MCSpsRbsp, q \in MCPpsRbsp}
    \cup {Short \o Escape(q) \o Four \o Escape(s) : s \in MCSpsRbsp, q \in MCPpsRbsp}
    \cup {Short \o <<7, 9>> \o Short \o <<103, 5, 1>> \o Four \o <<8, 1>> \o Short \o <<8, 2>>,
          Four \o <<9>> \o Short \o Short \o <<8, 3>> \o Short \o <<8, 4, 0>> \o Short \o <<7>>,
          Four \o <<7, 1, 2>>, Short \o <<8, 1>> \o Short \o <<5>>}
MCFiles == MCBits \cup MCCoded
=============================================================================
