----------------------------- MODULE AnnexBProofs -----------------------------
(***************************************************************************)
(* Proofs about AnnexB, for every file: the search for a start code finds  *)
(* the first, the callers stay inside the file, and cut it into its units. *)
(*                                                                         *)
(* The inductive invariant says, for each place of the two loops, how far  *)
(* the file is known: from nal to p there is no start code (the finder);   *)
(* the start code that is being skipped, or has been, is the first behind  *)
(* the last unit; and what is known of the kinds seen so far.  StepsLeft   *)
(* counts the iterations that are left at the most: the search ends.       *)
(***************************************************************************)
EXTENDS AnnexB, TLAPS

Searching == pc \in {"align", "words", "tail"}

Finding ==
  /\ Searching => nal <= p /\ NoCode(nal, p)
  /\ pc = "found" => nal <= out /\ StopsAt(nal, out)

(* The code in front of nal is the first behind the last unit.             *)
InUnit == \E i \in 0..end : FirstCode(i, unit.to) /\ nal = i + 3

Skipping ==
  \E i \in 0..end :
    FirstCode(i, unit.to) /\ nal <= i + 2 /\ \A j \in nal..(i + 1) : file[j] = 0

Calling ==
  /\ ~begun => /\ nal = 0 /\ unit.to = 0 /\ sps = None /\ pps = None
               /\ Searching \/ pc = "found"
  /\ begun /\ (Searching \/ pc = "found") => InUnit
  /\ pc = "skip" => Skipping
  /\ pc \in {"loop", "done"} => StopsAt(unit.to, nal)
  /\ pc = "done" => BothFound \/ nal >= end

OfKind(i, kind) == StartCode(i) /\ file[i + 3] % 32 = kind

Kept(set, kind) ==
  IF set = None THEN user = "sdp" => \A i \in 0..(unit.to - 1) : ~OfKind(i, kind)
  ELSE /\ OfKind(set.from - 3, kind) /\ StopsAt(set.from, set.to)
       /\ \A i \in 0..(set.from - 4) : ~OfKind(i, kind)

SetsKept == Kept(sps, Sps) /\ Kept(pps, Pps)

Inv == TypeOK /\ Finding /\ Calling /\ SetsKept

----------------------------------------------------------------------------
(* Facts about the file.                                                   *)

File == end \in Nat /\ file \in [0..(end - 1) -> Byte]

LEMMA NoneIsNoUnit ==
  ASSUME NEW u \in Unit, TypeOK PROVE u # None
<1>1. u \in [from: Nat, to: Nat]
  BY DEF Unit, TypeOK
<1> QED
  BY <1>1, AnnexBAssumption DEF AnnexBAssumption

(* Where a search has stopped, another that starts there stops again.      *)
LEMMA StopsAgain ==
  ASSUME File, NEW f \in 0..end, NEW t \in 0..end, StopsAt(f, t)
  PROVE  f <= t /\ StopsAt(t, t)
BY DEF File, StopsAt, FirstCode, NoCode, StartCode, Code

(* Start codes do not overlap.                                             *)
LEMMA CodesApart ==
  ASSUME File, NEW i \in Int, StartCode(i)
  PROVE  ~StartCode(i + 1) /\ ~StartCode(i + 2)
BY DEF File, StartCode, Code

(* No code in two stretches that meet.                                     *)
LEMMA Stretch ==
  ASSUME NEW a \in Int, NEW b \in Int, NEW c \in Int, NoCode(a, b), NoCode(b, c)
  PROVE  NoCode(a, c)
BY DEF NoCode

(* A search that returns the first code, less one zero, stops rightly.     *)
LEMMA FoundIsStop ==
  ASSUME TypeOK, NEW i \in nal..end, NoCode(nal, i), StartCode(i), Found(i)
  PROVE  out' \in 0..end /\ nal <= out' /\ StopsAt(nal, out')
BY DEF TypeOK, Found, StopsAt, FirstCode, StartCode, Code

LEMMA EndIsStop ==
  ASSUME TypeOK, NoCode(nal, end), Found(end)
  PROVE  out' = end /\ StopsAt(nal, out')
BY DEF TypeOK, Found, StopsAt

----------------------------------------------------------------------------
(* The inductive invariant.                                                *)

LEMMA InitInv == Init => Inv
<1> SUFFICES ASSUME Init PROVE Inv
  OBVIOUS
<1>1. PICK s \in Files : end = Len(s) /\ file = [i \in 0..(Len(s) - 1) |-> s[i + 1]]
  BY DEF Init
<1>2. s \in Seq(Byte)
  BY AnnexBAssumption DEF AnnexBAssumption
<1>3. Len(s) \in Nat /\ \A i \in 0..(Len(s) - 1) : s[i + 1] \in Byte
  <2>1. Len(s) \in Nat /\ DOMAIN s = 1..Len(s) /\ \A k \in 1..Len(s) : s[k] \in Byte
    BY <1>2
  <2> QED
    BY <2>1
<1>4. end \in Nat /\ file \in [0..(end - 1) -> Byte]
  BY <1>1, <1>3
<1>5. /\ user \in {"stream", "sdp"} /\ pc = "align" /\ p = 0 /\ out = 0 /\ nal = 0
      /\ begun = FALSE /\ unit = [from |-> 0, to |-> 0] /\ sps = None /\ pps = None
  BY DEF Init
<1>6. TypeOK
  <2>1. [from |-> 0, to |-> 0] \in Unit
    BY <1>4 DEF Unit
  <2>2. p \in 0..end /\ out \in 0..end /\ nal \in 0..end
    BY <1>4, <1>5
  <2> QED
    BY <1>4, <1>5, <2>1, <2>2 DEF TypeOK
<1> QED
  BY <1>5, <1>6 DEF Inv, TypeOK, Finding, Searching, Calling, SetsKept, Kept, NoCode, Unit

(* The steps of the finder change nothing of its caller.                   *)
LEMMA FindKeeps ==
  ASSUME Inv, Find
  PROVE  /\ UNCHANGED <<input, caller>>
         /\ Searching /\ SetsKept'
         /\ pc' = "found" \/ pc' \in {"align", "words", "tail"}
<1>1. UNCHANGED <<input, caller>> /\ Searching
  BY DEF Find, FindAligned, StartWords, FindInWord, StartTail, FindInTail, NotFound, Look,
         Searching
<1>2. pc' = "found" \/ pc' \in {"align", "words", "tail"}
  BY DEF Find, FindAligned, StartWords, FindInWord, StartTail, FindInTail, NotFound,
         GoOn, Found
<1>3. SetsKept'
  BY <1>1 DEF Inv, SetsKept, Kept, OfKind, StopsAt, FirstCode, NoCode, StartCode, Code,
              input, caller
<1> QED
  BY <1>1, <1>2, <1>3

(* What the finder does to its own place.                                  *)
LEMMA FindFinds ==
  ASSUME Inv, Find
  PROVE  p' \in 0..end /\ out' \in 0..end /\ Finding'
<1> USE DEF Inv
<1>0. UNCHANGED <<input, caller>> /\ Searching
  BY FindKeeps
<1>1. nal <= p /\ NoCode(nal, p) /\ TypeOK
  BY <1>0 DEF Finding
<1>2. end' = end /\ file' = file /\ nal' = nal
  BY <1>0 DEF input, caller
<1>3. ASSUME NEW i \in 0..end, nal <= i, NoCode(nal, i), UNCHANGED out,
             p' = i, pc' # "found"
      PROVE  p' \in 0..end /\ out' \in 0..end /\ Finding'
  BY <1>1, <1>2, <1>3 DEF TypeOK, Finding, Searching, NoCode, StartCode, Code
<1>4. ASSUME out' \in 0..end, nal <= out', StopsAt(nal, out'), p' \in 0..end, pc' = "found"
      PROVE  p' \in 0..end /\ out' \in 0..end /\ Finding'
  BY <1>2, <1>4 DEF Finding, Searching, StopsAt, FirstCode, NoCode, StartCode, Code
<1>5. CASE FindAligned
  <2>1. p + 3 < end
    BY <1>5 DEF FindAligned, RoomBehind
  <2>2. CASE Code(p)
    <3>1. Found(p) /\ StartCode(p)
      BY <1>1, <1>5, <2>1, <2>2 DEF FindAligned, StartCode, TypeOK
    <3> QED
      BY <1>1, <1>4, <3>1, FoundIsStop DEF Found, TypeOK
  <2>3. CASE ~Code(p)
    <3>1. GoOn("align", p + 1)
      BY <1>5, <2>3 DEF FindAligned
    <3>2. NoCode(nal, p + 1)
      BY <1>1, <2>3 DEF NoCode, StartCode, TypeOK
    <3> QED
      BY <1>1, <1>3, <2>1, <3>1, <3>2 DEF GoOn, TypeOK
  <2> QED
    BY <2>2, <2>3
<1>6. CASE StartWords
  BY <1>1, <1>3, <1>6 DEF StartWords, GoOn, TypeOK
<1>7. CASE FindInWord
  <2>1. p + 6 < end
    BY <1>7 DEF FindInWord
  <2>2. ASSUME NEW j \in 0..3, Code(p + j) PROVE HasZero
    BY <1>1, <2>2 DEF HasZero, Code, TypeOK
  <2>3. ASSUME NEW j \in 0..3, j \notin Hits PROVE ~StartCode(p + j)
    BY <1>1, <2>2, <2>3 DEF Hits, InWord, StartCode
  <2>4. ASSUME NEW j \in 0..4, \A h \in Hits : j <= h PROVE NoCode(nal, p + j)
    <3>1. ASSUME NEW i \in nal..(p + j - 1), i < p PROVE ~StartCode(i)
      BY <1>1, <3>1 DEF NoCode, TypeOK
    <3>2. ASSUME NEW i \in nal..(p + j - 1), i >= p PROVE ~StartCode(i)
      <4>1. i - p \in 0..3 /\ i - p < j /\ i = p + (i - p)
        BY <1>1, <3>2 DEF TypeOK
      <4>2. i - p \notin Hits
        BY <2>4, <4>1 DEF Hits, InWord
      <4> QED
        BY <2>3, <4>1, <4>2
    <3> QED
      BY <1>1, <3>1, <3>2 DEF NoCode, TypeOK
  <2>5. CASE Hits = {} /\ GoOn("words", p + 4)
    <3>1. NoCode(nal, p + 4)
      BY <2>4, <2>5
    <3> QED
      BY <1>1, <1>3, <2>1, <2>5, <3>1 DEF GoOn, TypeOK
  <2>6. CASE \E k \in Hits : (\A j \in Hits : k <= j) /\ Found(p + k)
    <3>1. PICK k \in Hits : (\A j \in Hits : k <= j) /\ Found(p + k)
      BY <2>6
    <3>2. k \in 0..3 /\ Code(p + k)
      BY DEF Hits, InWord
    <3>3. NoCode(nal, p + k)
      BY <2>4, <3>1, <3>2
    <3>4. p + k \in nal..end /\ StartCode(p + k)
      BY <1>1, <2>1, <3>2 DEF StartCode, TypeOK
    <3>5. out' \in 0..end /\ nal <= out' /\ StopsAt(nal, out')
      BY <1>1, <3>1, <3>3, <3>4, FoundIsStop
    <3> QED
      BY <1>1, <1>4, <3>1, <3>4, <3>5 DEF Found, TypeOK
  <2> QED
    BY <1>7, <2>5, <2>6 DEF FindInWord
<1>8. CASE StartTail
  BY <1>1, <1>3, <1>8 DEF StartTail, GoOn, TypeOK
<1>9. CASE FindInTail
  <2>1. p + 3 < end
    BY <1>9 DEF FindInTail, RoomBehind
  <2>2. CASE Code(p)
    <3>1. Found(p) /\ StartCode(p)
      BY <1>1, <1>9, <2>1, <2>2 DEF FindInTail, StartCode, TypeOK
    <3> QED
      BY <1>1, <1>4, <3>1, FoundIsStop DEF Found, TypeOK
  <2>3. CASE ~Code(p)
    <3>1. GoOn("tail", p + 1)
      BY <1>9, <2>3 DEF FindInTail
    <3>2. NoCode(nal, p + 1)
      BY <1>1, <2>3 DEF NoCode, StartCode, TypeOK
    <3> QED
      BY <1>1, <1>3, <2>1, <3>1, <3>2 DEF GoOn, TypeOK
  <2> QED
    BY <2>2, <2>3
<1>10. CASE NotFound
  <2>1. NoCode(p, end) /\ Found(end)
    BY <1>1, <1>10 DEF NotFound, EndGiven, RoomBehind, NoCode, StartCode, TypeOK
  <2>2. NoCode(nal, end)
    BY <1>1, <2>1, Stretch DEF TypeOK
  <2> QED
    BY <1>1, <1>4, <2>1, <2>2, EndIsStop DEF Found, TypeOK
<1> QED
  BY <1>5, <1>6, <1>7, <1>8, <1>9, <1>10 DEF Find

LEMMA FindInv ==
  ASSUME Inv, Find PROVE Inv'
<1>1. UNCHANGED <<input, caller>> /\ Searching /\ SetsKept'
  BY FindKeeps
<1>2. pc' = "found" \/ pc' \in {"align", "words", "tail"}
  BY FindKeeps
<1>3. TypeOK'
  BY <1>1, <1>2, FindFinds DEF Inv, TypeOK, Unit, input, caller
<1>4. Calling'
  BY <1>1, <1>2 DEF Inv, Calling, Searching, InUnit, FirstCode, NoCode, StartCode, Code,
                    input, caller
<1> QED
  BY <1>1, <1>3, <1>4, FindFinds DEF Inv

----------------------------------------------------------------------------
(* The steps of the callers.                                               *)

LEMMA SameFile ==
  ASSUME Loop PROVE UNCHANGED input /\ out' = out
BY DEF Loop, FirstFound, EndLoop, EnterLoop, SkipZero, SkipOne, TakeUnit, input, caller, finder

(* What is known of the parts of the file does not change.                 *)
LEMMA SameCodes ==
  ASSUME UNCHANGED input, TypeOK
  PROVE  /\ File /\ end' = end /\ file' = file /\ user' = user
         /\ \A i : StartCode(i)' <=> StartCode(i)
BY DEF input, File, TypeOK, StartCode, Code

(* The first code behind the last unit lies where nal goes on from.        *)
LEMMA LoopStop ==
  ASSUME Inv, pc = "loop", nal < end
  PROVE  Skipping
<1>1. StopsAt(unit.to, nal) /\ TypeOK
  BY DEF Inv, Calling
<1>2. PICK i \in unit.to..end :
        FirstCode(i, unit.to)
        /\ nal = IF i > unit.to /\ file[i - 1] = 0 THEN i - 1 ELSE i
  BY <1>1 DEF StopsAt, TypeOK, Unit
<1>3. \A j \in nal..(i + 1) : file[j] = 0
  BY <1>1, <1>2 DEF FirstCode, StartCode, Code, TypeOK, Unit
<1>4. i \in 0..end /\ nal <= i + 2
  BY <1>1, <1>2 DEF TypeOK, Unit
<1> QED
  BY <1>2, <1>3, <1>4 DEF Skipping

LEMMA FirstFoundInv ==
  ASSUME Inv, FirstFound PROVE Inv'
<1>1. /\ TypeOK /\ StopsAt(0, out) /\ unit.to = 0 /\ UNCHANGED <<input, p, out, unit, sps, pps>>
      /\ pc' = "loop" /\ nal' = out /\ begun' = TRUE
  BY DEF Inv, Finding, Calling, FirstFound
<1>2. TypeOK'
  BY <1>1 DEF TypeOK, Unit, input
<1>3. Finding' /\ SetsKept'
  BY <1>1 DEF Inv, Finding, Searching, SetsKept, Kept, OfKind, StopsAt, FirstCode, NoCode,
              StartCode, Code, input
<1>4. Calling'
  BY <1>1 DEF Calling, Searching, StopsAt, FirstCode, NoCode, StartCode, Code, input
<1> QED
  BY <1>2, <1>3, <1>4 DEF Inv

LEMMA LoopPlaceInv ==
  ASSUME Inv, EndLoop \/ EnterLoop PROVE Inv'
<1>1. /\ TypeOK /\ UNCHANGED <<input, p, out, caller>> /\ pc = "loop"
      /\ pc' = "done" \/ pc' = "skip"
  BY DEF Inv, EndLoop, EnterLoop
<1>2. TypeOK'
  BY <1>1 DEF TypeOK, Unit, input, caller
<1>3. Finding' /\ SetsKept'
  BY <1>1 DEF Inv, Finding, Searching, SetsKept, Kept, OfKind, StopsAt, FirstCode, NoCode,
              StartCode, Code, input, caller
<1>4. pc' = "done" => BothFound \/ nal >= end
  BY DEF EndLoop, EnterLoop
<1>5. pc' = "skip" => Skipping
  BY <1>1, LoopStop DEF EndLoop, EnterLoop
<1>6. Calling'
  BY <1>1, <1>4, <1>5 DEF Inv, Calling, Searching, BothFound, Skipping, StopsAt, FirstCode,
              NoCode, StartCode, Code, input, caller
<1> QED
  BY <1>2, <1>3, <1>6 DEF Inv

LEMMA SkipZeroInv ==
  ASSUME Inv, SkipZero PROVE Inv'
<1>1. /\ TypeOK /\ UNCHANGED <<input, finder, begun, unit, sps, pps>> /\ pc = "skip"
      /\ file[nal] = 0 /\ nal' = nal + 1 /\ Skipping
  BY DEF Inv, Calling, SkipZero, Onward
<1>2. PICK i \in 0..end : FirstCode(i, unit.to) /\ nal <= i + 2
                          /\ \A j \in nal..(i + 1) : file[j] = 0
  BY <1>1 DEF Skipping
<1>3. i + 3 < end /\ file[i + 2] = 1 /\ nal # i + 2
  BY <1>1, <1>2 DEF FirstCode, StartCode, Code, TypeOK
<1>4. TypeOK'
  BY <1>1, <1>2, <1>3 DEF TypeOK, Unit, input, finder
<1>5. Finding' /\ SetsKept'
  BY <1>1 DEF Inv, Finding, Searching, SetsKept, Kept, OfKind, StopsAt, FirstCode, NoCode,
              StartCode, Code, input, finder
<1>6. Skipping'
  <2>1. nal + 1 <= i + 2 /\ \A j \in (nal + 1)..(i + 1) : file[j] = 0
    BY <1>1, <1>2, <1>3 DEF TypeOK
  <2> QED
    BY <1>1, <1>2, <2>1 DEF Skipping, FirstCode, NoCode, StartCode, Code, input
<1>7. Calling'
  BY <1>1, <1>6 DEF Inv, Calling, Searching, input, finder
<1> QED
  BY <1>4, <1>5, <1>7 DEF Inv

LEMMA SkipOneInv ==
  ASSUME Inv, SkipOne PROVE Inv'
<1>1. /\ TypeOK /\ UNCHANGED <<input, out, begun, unit, sps, pps>> /\ pc = "skip"
      /\ file[nal] # 0 /\ nal' = nal + 1 /\ p' = nal + 1 /\ pc' = "align" /\ Skipping
  BY DEF Inv, Calling, SkipOne
<1>2. PICK i \in 0..end : FirstCode(i, unit.to) /\ nal <= i + 2
                          /\ \A j \in nal..(i + 1) : file[j] = 0
  BY <1>1 DEF Skipping
<1>3. i + 3 < end /\ nal = i + 2
  BY <1>1, <1>2 DEF FirstCode, StartCode, TypeOK
<1>4. TypeOK'
  BY <1>1, <1>3 DEF TypeOK, Unit, input
<1>5. Finding' /\ SetsKept'
  BY <1>1, <1>3 DEF Inv, Finding, Searching, SetsKept, Kept, OfKind, StopsAt, FirstCode,
              NoCode, StartCode, Code, TypeOK, input
<1>6. InUnit'
  BY <1>1, <1>2, <1>3 DEF InUnit, FirstCode, NoCode, StartCode, Code, input
<1>7. begun
  BY <1>1 DEF Inv, Calling, Searching
<1>8. Calling'
  BY <1>1, <1>6, <1>7 DEF Calling, input
<1> QED
  BY <1>4, <1>5, <1>8 DEF Inv

(* Between two stops there is one start code, the one that was skipped.    *)
LEMMA OneCodeBetween ==
  ASSUME File, NEW a \in 0..end, NEW b \in 0..end, NEW i \in 0..end,
         FirstCode(i, a), StopsAt(i + 3, b)
  PROVE  /\ i + 3 <= b
         /\ \A j \in a..(b - 1) : StartCode(j) => j = i
<1>1. i + 3 < end /\ ~StartCode(i + 1) /\ ~StartCode(i + 2) /\ NoCode(a, i)
  BY CodesApart DEF FirstCode, StartCode, File
<1>2. i + 3 <= b /\ NoCode(i + 3, b)
  BY <1>1 DEF StopsAt, FirstCode, NoCode, File
<1>3. ASSUME NEW j \in a..(b - 1), StartCode(j) PROVE j = i
  <2>1. ~(j < i)
    BY <1>1, <1>3 DEF NoCode, File
  <2>2. ~(j >= i + 3)
    BY <1>2, <1>3 DEF NoCode, File
  <2>3. j = i \/ j = i + 1 \/ j = i + 2
    BY <2>1, <2>2 DEF File
  <2> QED
    BY <1>1, <1>3, <2>3
<1> QED
  BY <1>2, <1>3

(* The set of a kind, after the unit from nal to out has been looked at.   *)
LEMMA KeptFirst ==
  ASSUME Inv, NEW set \in {None} \cup Unit, NEW kind, Kept(set, kind),
         NEW i \in 0..end, FirstCode(i, unit.to), nal = i + 3,
         nal <= out, StopsAt(nal, out)
  PROVE  LET new == KeepFirst(set, kind)
         IN  IF new = None THEN user = "sdp" => \A j \in 0..(out - 1) : ~OfKind(j, kind)
             ELSE /\ OfKind(new.from - 3, kind) /\ StopsAt(new.from, new.to)
                  /\ \A j \in 0..(new.from - 4) : ~OfKind(j, kind)
<1>1. TypeOK /\ File /\ unit.to \in 0..end /\ nal \in 0..end /\ out \in 0..end
  BY DEF Inv, TypeOK, File, Unit
<1>2. \A j \in unit.to..(out - 1) : StartCode(j) => j = i
  BY <1>1, OneCodeBetween
<1>3. CASE set # None
  BY <1>3 DEF KeepFirst, Kept
<1>4. CASE set = None /\ user = "sdp" /\ Kind = kind
  <2>1. KeepFirst(set, kind) = [from |-> nal, to |-> out]
    BY <1>4 DEF KeepFirst, Cut
  <2>2. [from |-> nal, to |-> out] \in Unit
    BY <1>1 DEF Unit
  <2>3. KeepFirst(set, kind) # None
    BY <1>1, <2>1, <2>2, NoneIsNoUnit
  <2>4. nal - 3 = i /\ OfKind(i, kind)
    BY <1>1, <1>4 DEF OfKind, Kind, FirstCode
  <2>5. ASSUME NEW j \in 0..(nal - 4) PROVE ~OfKind(j, kind)
    <3>1. CASE j < unit.to
      BY <1>1, <1>4, <3>1 DEF Kept
    <3>2. CASE j >= unit.to
      BY <1>1, <3>2 DEF FirstCode, NoCode, OfKind
    <3> QED
      BY <1>1, <3>1, <3>2
  <2> QED
    BY <2>1, <2>3, <2>4, <2>5
<1>5. CASE set = None /\ user = "sdp" /\ Kind # kind
  <2>1. KeepFirst(set, kind) = None
    BY <1>5 DEF KeepFirst
  <2>2. ASSUME NEW j \in 0..(out - 1) PROVE ~OfKind(j, kind)
    <3>1. CASE j < unit.to
      BY <1>1, <1>5, <3>1 DEF Kept
    <3>2. CASE j >= unit.to /\ StartCode(j)
      <4>1. j = i
        BY <1>1, <1>2, <3>2
      <4> QED
        BY <1>1, <1>5, <4>1 DEF OfKind, Kind
    <3> QED
      BY <1>1, <3>1, <3>2 DEF OfKind
  <2> QED
    BY <2>1, <2>2
<1>6. CASE set = None /\ user # "sdp"
  BY <1>6 DEF KeepFirst
<1> QED
  BY <1>3, <1>4, <1>5, <1>6

LEMMA TakeUnitInv ==
  ASSUME Inv, TakeUnit PROVE Inv'
<1>1. /\ TypeOK /\ pc = "found" /\ begun /\ InUnit /\ nal <= out /\ StopsAt(nal, out)
      /\ unit' = [from |-> nal, to |-> out] /\ sps' = KeepFirst(sps, Sps)
      /\ pps' = KeepFirst(pps, Pps) /\ nal' = out /\ pc' = "loop"
      /\ UNCHANGED <<input, p, out, begun>>
  BY DEF Inv, Finding, Calling, TakeUnit, Cut
<1>2. PICK i \in 0..end : FirstCode(i, unit.to) /\ nal = i + 3
  BY <1>1 DEF InUnit
<1>3. unit'.to = out
  BY <1>1
<1>4. TypeOK'
  BY <1>1 DEF TypeOK, Unit, KeepFirst, Cut, input
<1>5. \A a, b : StopsAt(a, b)' <=> StopsAt(a, b)
  BY <1>1 DEF StopsAt, FirstCode, NoCode, StartCode, Code, input
<1>6. \A j, kind : OfKind(j, kind)' <=> OfKind(j, kind)
  BY <1>1 DEF OfKind, StartCode, Code, input
<1>7. sps \in {None} \cup Unit /\ pps \in {None} \cup Unit /\ Kept(sps, Sps) /\ Kept(pps, Pps)
  BY <1>1 DEF Inv, SetsKept, TypeOK
<1>8. Kept(sps, Sps)'
  BY <1>1, <1>2, <1>3, <1>5, <1>6, <1>7, KeptFirst DEF Kept, input
<1>9. Kept(pps, Pps)'
  BY <1>1, <1>2, <1>3, <1>5, <1>6, <1>7, KeptFirst DEF Kept, input
<1>10. StopsAt(out, out)
  BY <1>1, StopsAgain DEF TypeOK, File
<1>11. Calling' /\ Finding'
  BY <1>1, <1>3, <1>5, <1>10 DEF Calling, Finding, Searching
<1> QED
  BY <1>4, <1>8, <1>9, <1>11 DEF Inv, SetsKept

LEMMA Inductive == Inv /\ [Next]_vars => Inv'
<1> SUFFICES ASSUME Inv, [Next]_vars PROVE Inv'
  OBVIOUS
<1>1. CASE Find
  BY <1>1, FindInv
<1>2. CASE Loop
  BY <1>2, FirstFoundInv, LoopPlaceInv, SkipZeroInv, SkipOneInv, TakeUnitInv DEF Loop
<1>3. CASE UNCHANGED vars
  BY <1>3 DEF vars, Inv, TypeOK, Finding, Searching, Calling, InUnit, Skipping, SetsKept,
              Kept, OfKind, StopsAt, FirstCode, NoCode, StartCode, Code, BothFound, Unit
<1> QED
  BY <1>1, <1>2, <1>3 DEF Next

LEMMA Invariance == Spec => []Inv
BY InitInv, Inductive, PTL DEF Spec

----------------------------------------------------------------------------
(* Pointers stay inside the file, for every file (AVC.c:5-44,              *)
(* H264_transport.c:116-128, H264_sdpline.c:42-67).                        *)
THEOREM TypeCorrect == Spec => []TypeOK
BY Invariance, PTL DEF Inv

(* ff_avc_find_startcode returns the first start code at or behind its     *)
(* argument, one zero earlier for a long one, for every file and every     *)
(* address (AVC.c:5-44).                                                   *)
THEOREM FindsTheFirst == Spec => []FindsFirst
<1>1. Inv => FindsFirst
  BY DEF Inv, Finding, FindsFirst
<1> QED
  BY <1>1, Invariance, PTL

(* The loop that skips a start code, which does not look at the end of the *)
(* file, ends before it with a byte to spare (H264_transport.c:121,        *)
(* H264_sdpline.c:48).                                                     *)
THEOREM SkipIsSafe == Spec => []SkipStaysInside
<1>1. ASSUME Inv, pc = "skip"
      PROVE  \E i \in nal..(end - 2) : file[i] = 1 /\ \A j \in nal..(i - 1) : file[j] = 0
  <2>1. PICK i \in 0..end : FirstCode(i, unit.to) /\ nal <= i + 2
                            /\ \A j \in nal..(i + 1) : file[j] = 0
    BY <1>1 DEF Inv, Calling, Skipping
  <2>2. i + 3 < end /\ file[i + 2] = 1 /\ end \in Nat /\ nal \in Nat
    BY <1>1, <2>1 DEF Inv, FirstCode, StartCode, Code, TypeOK
  <2>3. i + 2 \in nal..(end - 2) /\ \A j \in nal..((i + 2) - 1) : file[j] = 0
    BY <2>1, <2>2
  <2> QED
    BY <2>2, <2>3
<1>2. Inv => SkipStaysInside
  BY <1>1 DEF SkipStaysInside
<1> QED
  BY <1>2, Invariance, PTL

(* The parameter sets DESCRIBE works with are the first of the file, and   *)
(* missing only if it has none (H264_sdpline.c:35-68).                     *)
THEOREM SetsAreTheFirst == Spec => []SetsAreFirst
<1>1. ASSUME Inv, pc = "done", user = "sdp", NEW set \in {None} \cup Unit, NEW kind,
             Kept(set, kind), set = None => nal >= end
      PROVE  FirstOfKind(set, kind)
  <2>1. TypeOK /\ StopsAt(unit.to, nal)
    BY <1>1 DEF Inv, Calling
  <2>2. CASE set = None
    <3>1. NoCode(unit.to, end)
      BY <1>1, <2>1, <2>2 DEF StopsAt, FirstCode, StartCode, TypeOK, Unit
    <3>2. ASSUME NEW i \in 0..end PROVE ~OfKind(i, kind)
      BY <1>1, <2>1, <2>2, <3>1 DEF Kept, OfKind, NoCode, StartCode, TypeOK, Unit
    <3> QED
      BY <2>2, <3>2 DEF FirstOfKind, OfKind
  <2>3. CASE set # None
    BY <1>1, <2>3 DEF Kept, OfKind, FirstOfKind
  <2> QED
    BY <2>2, <2>3
<1>2. Inv => SetsAreFirst
  BY <1>1 DEF Inv, Calling, BothFound, SetsKept, SetsAreFirst, TypeOK
<1> QED
  BY <1>2, Invariance, PTL

(* The callers cut the file into its units: in order, none left out, each  *)
(* from behind its start code to the next (H264_transport.c:116-129).      *)
THEOREM UnitsAreInOrder == Spec => UnitsInOrder
<1> DEFINE Step ==
      /\ unit' # unit => \E i \in 0..end : /\ FirstCode(i, unit.to)
                                          /\ unit'.from = i + 3
                                          /\ StopsAt(i + 3, unit'.to)
      /\ pc' = "done" /\ pc # "done" /\ user = "stream" => NoCode(unit.to, end)
<1>1. Inv /\ [Next]_vars => Step
  <2> SUFFICES ASSUME Inv, [Next]_vars PROVE Step
    OBVIOUS
  <2>1. CASE TakeUnit
    <3>1. PICK i \in 0..end : FirstCode(i, unit.to) /\ nal = i + 3
      BY <2>1 DEF Inv, Calling, TakeUnit, InUnit
    <3>2. unit' = [from |-> nal, to |-> out] /\ StopsAt(nal, out) /\ pc' # "done"
      BY <2>1 DEF Inv, Finding, TakeUnit, Cut
    <3> QED
      BY <3>1, <3>2
  <2>2. CASE EndLoop
    <3>1. unit' = unit
      BY <2>2 DEF EndLoop, caller
    <3>2. StopsAt(unit.to, nal) /\ TypeOK
      BY <2>2 DEF Inv, Calling, EndLoop
    <3>3. user = "stream" => nal >= end
      BY <2>2 DEF EndLoop, BothFound
    <3>4. user = "stream" => NoCode(unit.to, end)
      BY <3>2, <3>3 DEF StopsAt, FirstCode, StartCode, TypeOK, Unit
    <3> QED
      BY <3>1, <3>4
  <2>3. CASE Find
    BY <2>3, FindKeeps DEF caller
  <2>4. CASE FirstFound \/ EnterLoop \/ SkipZero \/ SkipOne
    <3>1. unit' = unit /\ pc' # "done"
      BY <2>4 DEF FirstFound, EnterLoop, SkipZero, SkipOne, caller, finder
    <3> QED
      BY <3>1
  <2>5. CASE UNCHANGED vars
    BY <2>5 DEF vars
  <2> QED
    BY <2>1, <2>2, <2>3, <2>4, <2>5 DEF Next, Loop
<1>2. Inv /\ [Next]_vars => [Step]_vars
  BY <1>1
<1> QED
  BY <1>2, Invariance, PTL DEF Spec, UnitsInOrder

----------------------------------------------------------------------------
(* The search ends.  Each step brings it nearer to the end of the file or  *)
(* to the next place: a byte is looked at in at most three steps, and the  *)
(* start code in front of a unit pays for the eight between two searches.  *)

(* What the last search has left in p and out.                             *)
Stopped ==
  \/ p = end /\ out = end
  \/ StartCode(p) /\ (out = p \/ (p > 0 /\ out = p - 1 /\ file[out] = 0))

Turning ==
  /\ pc \in {"found", "loop", "skip"} => Stopped
  /\ pc = "loop" => nal = out
  /\ pc = "skip" => StartCode(p) /\ nal \in out..(p + 2)

Ahead ==
  CASE pc = "align" -> 8 [] pc = "words" -> 7 [] pc = "tail" -> 6 [] pc = "found" -> 5
    [] pc = "loop" -> 4 [] pc = "skip" -> (p + 2) - nal [] pc = "done" -> 0

StepsLeft == 3 * (end - p) + Ahead

LEMMA StepsLeftNat ==
  ASSUME Inv, Turning PROVE StepsLeft \in 0..(3 * end + 8)
<1>1. TypeOK
  BY DEF Inv
<1>2. Ahead \in 0..8
  <2>1. CASE pc = "skip"
    <3>1. out \in {p, p - 1} /\ nal \in out..(p + 2)
      BY <1>1, <2>1 DEF Turning, Stopped, StartCode, TypeOK
    <3>2. Ahead = (p + 2) - nal
      BY <2>1 DEF Ahead
    <3> QED
      BY <1>1, <3>1, <3>2 DEF TypeOK
  <2>2. CASE pc # "skip"
    BY <1>1, <2>2 DEF Ahead, TypeOK
  <2> QED
    BY <2>1, <2>2
<1> QED
  BY <1>1, <1>2 DEF StepsLeft, TypeOK

LEMMA FoundStops ==
  ASSUME Inv, UNCHANGED <<input, caller>>, NEW i \in p..end, i = end \/ StartCode(i), Found(i),
         pc \in {"align", "words", "tail"}
  PROVE  Turning' /\ StepsLeft' < StepsLeft
<1>1. /\ TypeOK /\ end' = end /\ file' = file /\ p' = i /\ pc' = "found"
      /\ out' = IF nal < i /\ i < end /\ file[i - 1] = 0 THEN i - 1 ELSE i
  BY DEF Inv, Found, input
<1>2. Stopped'
  <2>1. StartCode(i)' <=> StartCode(i)
    BY <1>1 DEF StartCode, Code
  <2>2. out' = i \/ (i > 0 /\ i < end /\ out' = i - 1 /\ file[i - 1] = 0)
    BY <1>1 DEF TypeOK
  <2>3. CASE i = end
    BY <1>1, <2>2, <2>3 DEF Stopped, TypeOK
  <2>4. CASE StartCode(i)
    BY <1>1, <2>1, <2>2, <2>4 DEF Stopped, TypeOK
  <2> QED
    BY <2>3, <2>4
<1>3. StepsLeft' = 3 * (end - i) + 5
  BY <1>1 DEF StepsLeft, Ahead
<1>4. StepsLeft \in {3 * (end - p) + 8, 3 * (end - p) + 7, 3 * (end - p) + 6}
  BY DEF StepsLeft, Ahead
<1> QED
  BY <1>1, <1>2, <1>3, <1>4 DEF Turning, TypeOK

LEMMA FindTurns ==
  ASSUME Inv, Find PROVE Turning' /\ StepsLeft' < StepsLeft
<1>1. UNCHANGED <<input, caller>> /\ TypeOK /\ end' = end
  BY FindKeeps DEF Inv, input
<1>2. CASE FindAligned
  <2>1. pc = "align" /\ p + 3 < end
    BY <1>2 DEF FindAligned, Look, RoomBehind
  <2>2. CASE Code(p)
    BY <1>1, <1>2, <2>1, <2>2, FoundStops DEF FindAligned, StartCode, TypeOK
  <2>3. CASE ~Code(p)
    BY <1>1, <1>2, <2>1, <2>3 DEF FindAligned, GoOn, Turning, StepsLeft, Ahead, TypeOK
  <2> QED
    BY <2>2, <2>3
<1>3. CASE StartWords
  BY <1>1, <1>3 DEF StartWords, Look, GoOn, Turning, StepsLeft, Ahead, TypeOK
<1>4. CASE FindInWord
  <2>1. pc = "words" /\ p + 6 < end
    BY <1>4 DEF FindInWord, Look
  <2>2. CASE GoOn("words", p + 4)
    BY <1>1, <2>1, <2>2 DEF GoOn, Turning, StepsLeft, Ahead, TypeOK
  <2>3. ASSUME NEW k \in Hits, Found(p + k) PROVE Turning' /\ StepsLeft' < StepsLeft
    <3>1. k \in 0..3 /\ Code(p + k)
      BY <2>3 DEF Hits, InWord
    <3>2. p + k \in p..end /\ StartCode(p + k)
      BY <1>1, <2>1, <3>1 DEF StartCode, TypeOK
    <3> QED
      BY <1>1, <2>1, <2>3, <3>2, FoundStops
  <2> QED
    BY <1>4, <2>2, <2>3 DEF FindInWord
<1>5. CASE StartTail
  BY <1>1, <1>5 DEF StartTail, Look, GoOn, Turning, StepsLeft, Ahead, TypeOK
<1>6. CASE FindInTail
  <2>1. pc = "tail" /\ p + 3 < end
    BY <1>6 DEF FindInTail, Look, RoomBehind
  <2>2. CASE Code(p)
    BY <1>1, <1>6, <2>1, <2>2, FoundStops DEF FindInTail, StartCode, TypeOK
  <2>3. CASE ~Code(p)
    BY <1>1, <1>6, <2>1, <2>3 DEF FindInTail, GoOn, Turning, StepsLeft, Ahead, TypeOK
  <2> QED
    BY <2>2, <2>3
<1>7. CASE NotFound
  <2>1. pc = "tail" /\ Found(end) /\ end \in p..end
    BY <1>1, <1>7 DEF NotFound, Look, EndGiven, TypeOK
  <2> QED
    BY <1>1, <2>1, FoundStops
<1> QED
  BY <1>2, <1>3, <1>4, <1>5, <1>6, <1>7 DEF Find

LEMMA LoopTurns ==
  ASSUME Inv, Turning, Loop PROVE Turning' /\ StepsLeft' < StepsLeft
<1>1. /\ TypeOK /\ end' = end /\ file' = file /\ out' = out
      /\ StartCode(p)' <=> (p' + 3 < end /\ p' >= 0 /\ file[p'] = 0 /\ file[p' + 1] = 0
                            /\ file[p' + 2] = 1)
  BY SameFile DEF Inv, input, StartCode, Code
<1>2. CASE FirstFound \/ TakeUnit
  <2>1. pc = "found" /\ pc' = "loop" /\ p' = p /\ nal' = out
    BY <1>2 DEF FirstFound, TakeUnit
  <2> QED
    BY <1>1, <2>1 DEF Turning, Stopped, StartCode, Code, StepsLeft, Ahead, TypeOK
<1>3. CASE EndLoop
  <2>1. pc = "loop" /\ pc' = "done" /\ p' = p
    BY <1>3 DEF EndLoop
  <2> QED
    BY <1>1, <2>1 DEF Turning, StepsLeft, Ahead, TypeOK
<1>4. CASE EnterLoop
  <2>1. pc = "loop" /\ pc' = "skip" /\ p' = p /\ nal' = nal /\ nal < end
    BY <1>4 DEF EnterLoop, caller
  <2>2. StartCode(p) /\ Stopped /\ nal = out
    BY <1>1, <2>1 DEF Turning, Stopped, TypeOK
  <2> QED
    BY <1>1, <2>1, <2>2 DEF Turning, Stopped, StartCode, Code, StepsLeft, Ahead, TypeOK
<1>5. CASE SkipZero
  <2>1. pc = "skip" /\ pc' = "skip" /\ p' = p /\ file[nal] = 0 /\ nal' = nal + 1
    BY <1>5 DEF SkipZero, finder, Onward
  <2>2. StartCode(p) /\ Stopped /\ nal \in out..(p + 2) /\ file[p + 2] = 1
    BY <2>1 DEF Turning, StartCode, Code
  <2>3. nal # p + 2
    BY <2>1, <2>2
  <2>4. Stopped' /\ StartCode(p)'
    BY <1>1, <2>1, <2>2 DEF Stopped, StartCode, Code
  <2>5. out \in Int /\ nal + 1 \in out..(p + 2)
    BY <1>1, <2>2, <2>3 DEF TypeOK
  <2>6. Turning'
    BY <1>1, <2>1, <2>4, <2>5 DEF Turning
  <2>7. StepsLeft = 3 * (end - p) + ((p + 2) - nal)
    BY <2>1 DEF StepsLeft, Ahead
  <2>8. StepsLeft' = 3 * (end - p) + ((p + 2) - (nal + 1))
    BY <1>1, <2>1 DEF StepsLeft, Ahead
  <2> QED
    BY <1>1, <2>6, <2>7, <2>8 DEF TypeOK
<1>6. CASE SkipOne
  <2>1. pc = "skip" /\ pc' = "align" /\ p' = nal + 1 /\ file[nal] # 0
    BY <1>6 DEF SkipOne
  <2>2. StartCode(p) /\ Stopped /\ nal \in out..(p + 2)
    BY <2>1 DEF Turning
  <2>3. nal = p + 2
    BY <1>1, <2>1, <2>2 DEF Stopped, StartCode, Code, TypeOK
  <2>4. StepsLeft = 3 * (end - p) + ((p + 2) - nal)
    BY <2>1 DEF StepsLeft, Ahead
  <2>5. StepsLeft' = 3 * (end - (nal + 1)) + 8
    BY <1>1, <2>1 DEF StepsLeft, Ahead
  <2> QED
    BY <1>1, <2>1, <2>3, <2>4, <2>5 DEF Turning, TypeOK
<1> QED
  BY <1>2, <1>3, <1>4, <1>5, <1>6 DEF Loop

LEMMA TurningInvariant == Spec => [](Inv /\ Turning)
<1>1. Init => Turning
  BY DEF Init, Turning
<1>2. Inv /\ Turning /\ [Next]_vars => Turning'
  <2>1. ASSUME Turning, UNCHANGED vars PROVE Turning'
    BY <2>1 DEF vars, Turning, Stopped, StartCode, Code
  <2> QED
    BY <2>1, FindTurns, LoopTurns DEF Next
<1> QED
  BY <1>1, <1>2, Invariance, PTL DEF Spec

(* The search and the loop around it end: every iteration brings them      *)
(* nearer, and a file of end bytes takes them 3 * end + 8 at the most      *)
(* (AVC.c:5-44, H264_sdpline.c:47-67, H264_transport.c:116-129).           *)
SearchGoesOn == [][StepsLeft' < StepsLeft]_vars

(* Neither the three loops of ff_avc_find_startcode nor the callers' loops *)
(* run for ever on a file, whatever its bytes (AVC.c:5-44).                *)
THEOREM SearchEnds == Spec => [](StepsLeft \in 0..(3 * end + 8)) /\ SearchGoesOn
<1>1. Inv /\ Turning /\ [Next]_vars => [StepsLeft' < StepsLeft]_vars
  BY FindTurns, LoopTurns DEF Next
<1>2. Inv /\ Turning => StepsLeft \in 0..(3 * end + 8)
  BY StepsLeftNat
<1> QED
  BY <1>1, <1>2, TurningInvariant, PTL DEF Spec, SearchGoesOn
=============================================================================
