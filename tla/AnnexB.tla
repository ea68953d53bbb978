-------------------------------- MODULE AnnexB --------------------------------
(***************************************************************************)
(* The NAL units of an .264 file: ff_avc_find_startcode (AVC.c), which     *)
(* looks for 0 0 1 a byte at a time up to an aligned address, then in      *)
(* words of four, then a byte at a time to the end, and its two callers:   *)
(* the loop of H264_Entrance (H264_transport.c), which sends every unit,   *)
(* and find_sps_pps (H264_sdpline.c), which keeps the first sequence and   *)
(* the first picture parameter set.  One step is one iteration of a loop.  *)
(*                                                                         *)
(* Pointers are offsets into media_buf, which calloc() aligns.             *)
(***************************************************************************)
EXTENDS Integers, Sequences

CONSTANTS
  Files,  \* the files, sequences of bytes
  None    \* no unit found

Byte == 0..255
Sps == 7            \* the types of the two parameter sets
Pps == 8

ASSUME AnnexBAssumption ==
  Files \subseteq Seq(Byte) /\ None \notin [from: Nat, to: Nat]

VARIABLES
  \* the file and media_size; who asks
  file, end, user,
  \* ff_avc_find_startcode: the loop it is in ("found": it returns), its
  \* pointer p, what it returns
  pc, p, out,
  \* its callers: nal, whether the first call has been made, the last unit
  \* that was cut out, the two sets
  nal, begun, unit, sps, pps

vars == <<file, end, user, pc, p, out, nal, begun, unit, sps, pps>>
finder == <<pc, p, out>>
caller == <<nal, begun, unit, sps, pps>>
input == <<file, end, user>>

Init ==
  /\ \E s \in Files : end = Len(s) /\ file = [i \in 0..(Len(s) - 1) |-> s[i + 1]]
  /\ user \in {"stream", "sdp"}
  /\ pc = "align" /\ p = 0 /\ out = 0
  /\ nal = 0 /\ begun = FALSE /\ unit = [from |-> 0, to |-> 0]
  /\ sps = None /\ pps = None

----------------------------------------------------------------------------
(* ff_avc_find_startcode(nal, end).                                        *)

(* 0 0 1 with a byte behind it.                                            *)
Code(i) == file[i] = 0 /\ file[i + 1] = 0 /\ file[i + 2] = 1
StartCode(i) == i >= 0 /\ i + 3 < end /\ Code(i)

Aligned == nal + (4 - (nal % 4))

(* Before the bound of the byte loops a mutant of it: off by one.          *)
RoomForCode(i) == i + 3 <= end
RoomBehind(i) == i + 3 < end

(* The places in a word where a start code is looked for; a mutant first.  *)
InWordOnly == 0..2
InWord == 0..3

Look(loop) == pc = loop /\ UNCHANGED <<input, caller>>

Found(i) ==
  /\ pc' = "found" /\ p' = i
  /\ out' = IF nal < i /\ i < end /\ file[i - 1] = 0 THEN i - 1 ELSE i

GoOn(loop, i) == pc' = loop /\ p' = i /\ out' = out

FindAligned ==
  /\ Look("align") /\ p < Aligned /\ RoomBehind(p)
  /\ IF Code(p) THEN Found(p) ELSE GoOn("align", p + 1)

StartWords ==
  /\ Look("align") /\ ~(p < Aligned /\ RoomBehind(p))
  /\ GoOn("words", p)

(* Four bytes of which one is zero; 0 0 1 may begin at each of them.       *)
HasZero == \E k \in 0..3 : file[p + k] = 0
Hits == {k \in InWord : HasZero /\ Code(p + k)}

FindInWord ==
  /\ Look("words") /\ p + 6 < end
  /\ \/ Hits = {} /\ GoOn("words", p + 4)
     \/ \E k \in Hits : (\A j \in Hits : k <= j) /\ Found(p + k)

StartTail == Look("words") /\ p + 6 >= end /\ GoOn("tail", p)

FindInTail ==
  /\ Look("tail") /\ RoomBehind(p)
  /\ IF Code(p) THEN Found(p) ELSE GoOn("tail", p + 1)

(* end was lowered by 6 for the words, raised by 3 for the tail and by 3   *)
(* to be returned.  Before EndGiven a mutant of it: raised once too often. *)
EndRaised == end + 3
EndGiven == end

NotFound == Look("tail") /\ ~RoomBehind(p) /\ Found(EndGiven)

----------------------------------------------------------------------------
(* The callers.                                                            *)

FirstFound ==
  /\ pc = "found" /\ ~begun
  /\ pc' = "loop" /\ nal' = out /\ begun' = TRUE
  /\ UNCHANGED <<input, p, out, unit, sps, pps>>

BothFound == user = "sdp" /\ sps # None /\ pps # None

EndLoop ==
  /\ pc = "loop" /\ (BothFound \/ nal >= end)
  /\ pc' = "done"
  /\ UNCHANGED <<input, p, out, caller>>

EnterLoop ==
  /\ pc = "loop" /\ ~BothFound /\ nal < end
  /\ pc' = "skip"
  /\ UNCHANGED <<input, p, out, caller>>

(* while (!*(nal++)): past the zeros and the one, with no look at end.     *)
(* Before it a mutant: the pointer stays at a zero.                        *)
Held(i) == i
Onward(i) == i + 1

SkipZero ==
  /\ pc = "skip" /\ file[nal] = 0
  /\ nal' = Onward(nal)
  /\ UNCHANGED <<input, finder, begun, unit, sps, pps>>

SkipOne ==
  /\ pc = "skip" /\ file[nal] # 0
  /\ nal' = nal + 1 /\ p' = nal' /\ pc' = "align"
  /\ UNCHANGED <<input, out, begun, unit, sps, pps>>

(* Sent, or looked at: the first of a kind is kept.  Before KeepFirst a    *)
(* mutant of it: the last of a kind.                                       *)
Cut == [from |-> nal, to |-> out]
Kind == file[nal] % 32
KeepLast(set, kind) == IF user = "sdp" /\ Kind = kind THEN Cut ELSE set
KeepFirst(set, kind) ==
  IF user = "sdp" /\ Kind = kind /\ set = None THEN Cut ELSE set

TakeUnit ==
  /\ pc = "found" /\ begun
  /\ unit' = Cut /\ sps' = KeepFirst(sps, Sps) /\ pps' = KeepFirst(pps, Pps)
  /\ nal' = out /\ pc' = "loop"
  /\ UNCHANGED <<input, p, out, begun>>

----------------------------------------------------------------------------
Find == FindAligned \/ StartWords \/ FindInWord \/ StartTail \/ FindInTail \/ NotFound
Loop == FirstFound \/ EndLoop \/ EnterLoop \/ SkipZero \/ SkipOne \/ TakeUnit
Next == Find \/ Loop

Spec == Init /\ [][Next]_vars

----------------------------------------------------------------------------
Unit == [from: 0..end, to: 0..end]

TypeOK ==
  /\ end \in Nat /\ file \in [0..(end - 1) -> Byte] /\ user \in {"stream", "sdp"}
  /\ pc \in {"align", "words", "tail", "found", "loop", "skip", "done"}
  /\ p \in 0..end /\ out \in 0..end /\ nal \in 0..end /\ begun \in BOOLEAN
  /\ unit \in Unit /\ sps \in {None} \cup Unit /\ pps \in {None} \cup Unit

(* No start code begins in a stretch of the file.                          *)
NoCode(from, to) == \A i \in from..(to - 1) : ~StartCode(i)

(* i is the first start code at or behind a position.                      *)
FirstCode(i, from) == i >= from /\ StartCode(i) /\ NoCode(from, i)

(* Where a search has to stop: at the first start code, one zero earlier   *)
(* if it is a long one, or at the end of the file.                         *)
StopsAt(from, to) ==
  \/ to = end /\ NoCode(from, end)
  \/ \E i \in from..end :
       FirstCode(i, from) /\ to = IF i > from /\ file[i - 1] = 0 THEN i - 1 ELSE i

(* ff_avc_find_startcode returns the first start code, from whatever       *)
(* address it starts and however the words fall, and none it should not.   *)
FindsFirst == pc = "found" => StopsAt(nal, out)

(* The callers skip zeros with no look at the end of the file: there is    *)
(* always a byte that is not zero, and another behind it, which they read  *)
(* as the type.                                                            *)
SkipStaysInside ==
  pc = "skip" => \E i \in nal..(end - 2) : file[i] = 1 /\ \A j \in nal..(i - 1) : file[j] = 0

(* The units come in the order of the file, none left out: each begins     *)
(* behind the first start code after the one before, and the stream of a   *)
(* file stops when no start code is left.                                  *)
UnitsInOrder ==
  [][ /\ unit' # unit => \E i \in 0..end : /\ FirstCode(i, unit.to)
                                          /\ unit'.from = i + 3
                                          /\ StopsAt(i + 3, unit'.to)
      /\ pc' = "done" /\ pc # "done" /\ user = "stream" => NoCode(unit.to, end) ]_vars

(* The parameter sets are the first units of their type, and one is        *)
(* missing only if the file has none.                                      *)
FirstOfKind(set, kind) ==
  LET OfKind(i) == StartCode(i) /\ file[i + 3] % 32 = kind
  IN  IF set = None THEN \A i \in 0..end : ~OfKind(i)
      ELSE /\ OfKind(set.from - 3) /\ StopsAt(set.from, set.to)
           /\ \A i \in 0..(set.from - 4) : ~OfKind(i)

SetsAreFirst ==
  pc = "done" /\ user = "sdp" => FirstOfKind(sps, Sps) /\ FirstOfKind(pps, Pps)
=============================================================================
