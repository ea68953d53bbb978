------------------------------ MODULE H264Lines ------------------------------
(***************************************************************************)
(* What DESCRIBE says of a .264 file, and what PLAY then does with it:     *)
(* set_H264_Lines (H264_sdpline.c) behind the search of AnnexB for the two *)
(* parameter sets.  remove_Emulation_Bytes is a loop over an array that it *)
(* overwrites as it reads; get_framerate looks at fixed places of what is  *)
(* left; base64_encode (Base64.c) writes both sets into the SDP.  Then the *)
(* first slice of the stream divides by the frame rate (H264_transport.c). *)
(*                                                                         *)
(* A missing set leaves its pointer uninitialised, and the texts of the    *)
(* sets are longer than the arrays they are written to: what follows is    *)
(* "wild".  A division by zero ends the process ("fault").                 *)
(***************************************************************************)
EXTENDS AnnexB, FiniteSets

CONSTANTS
  FlagAt,   \* 14, where timing_info_present is taken to be
  Width,    \* 4, bytes of num_units_in_tick and of time_scale
  Garbage,  \* values an uninitialised unsigned may have
  Rates,    \* frame rates before this DESCRIBE: 0, or that of an earlier file
  Rbsp      \* parameter sets as the encoder had them, without emulation bytes

ASSUME LinesAssumption ==
  /\ FlagAt \in Nat /\ Width \in Nat \ {0}
  /\ Garbage \subseteq Nat /\ Rates \subseteq Nat /\ Rbsp \subseteq Seq(Byte)

VARIABLES
  stage,      \* the place in set_H264_Lines
  arr, i, j,  \* remove_Emulation_Bytes: the array, the indices read and written
  bytes,      \* what it has left of the two sets
  rate,       \* framerate
  line        \* profile-level-id and the two encoded sets

linesVars == <<stage, arr, i, j, bytes, rate, line>>

Blank == [sps |-> <<>>, pps |-> <<>>]

LinesInit ==
  /\ Init
  /\ stage = "scan" /\ arr = <<>> /\ i = 0 /\ j = 0 /\ bytes = Blank
  /\ rate \in Rates /\ line = <<>>

----------------------------------------------------------------------------
(* remove_Emulation_Bytes, first of the picture, then of the sequence set. *)

Content(set) == [k \in 0..(set.to - set.from - 1) |-> file[set.from + k]]
Size(f) == Cardinality(DOMAIN f)
Sequence(f, n) == [k \in 1..n |-> f[k - 1]]

Unscanned == UNCHANGED <<vars, rate, line>>

BeginRemove(here, next, set) ==
  /\ stage = here /\ pc = "done" /\ user = "sdp" /\ set # None
  /\ stage' = next /\ arr' = Content(set) /\ i' = 0 /\ j' = 0
  /\ bytes' = bytes /\ Unscanned

(* The pointer and the size are whatever was on the stack.                 *)
Missing(here, set) ==
  /\ stage = here /\ pc = "done" /\ user = "sdp" /\ set = None
  /\ stage' = "wild" /\ UNCHANGED <<arr, i, j, bytes>> /\ Unscanned

(* 0 0 3, of which the 3 is left out.                                      *)
Emulation == i + 2 < Size(arr) /\ arr[i] = 0 /\ arr[i + 1] = 0 /\ arr[i + 2] = 3

(* nal_temp, the copy the bytes are taken from, is still the unit itself.  *)
RemoveStep(here, set) ==
  /\ stage = here /\ i < Size(arr)
  /\ \/ /\ Emulation
        /\ arr' = [arr EXCEPT ![j] = Content(set)[i], ![j + 1] = Content(set)[i + 1]]
        /\ i' = i + 3 /\ j' = j + 2
     \/ /\ ~Emulation
        /\ arr' = [arr EXCEPT ![j] = Content(set)[i]]
        /\ i' = i + 1 /\ j' = j + 1
  /\ UNCHANGED <<stage, bytes>> /\ Unscanned

EndRemove(here, next, kind) ==
  /\ stage = here /\ i >= Size(arr)
  /\ stage' = next /\ bytes' = [bytes EXCEPT ![kind] = Sequence(arr, j)]
  /\ UNCHANGED <<arr, i, j>> /\ Unscanned

RemovePps ==
  \/ BeginRemove("scan", "pps", pps) \/ Missing("scan", pps)
  \/ RemoveStep("pps", pps) \/ EndRemove("pps", "next", "pps")

RemoveSps ==
  \/ BeginRemove("next", "sps", sps) \/ Missing("next", sps)
  \/ RemoveStep("sps", sps) \/ EndRemove("sps", "rate", "sps")

----------------------------------------------------------------------------
(* get_framerate.                                                          *)

(* A number of Width bytes from offset at on, the highest byte first.      *)
Reading(s, at) ==
  LET upto[k \in 0..Width] == IF k = 0 THEN 0 ELSE 256 * upto[k - 1] + s[at + k]
  IN  upto

Number(s, at) == Reading(s, at)[Width]

Long(s) == Len(s) > FlagAt + 2 * Width
Flag(s) == s[FlagAt + 1] % 2 = 1
Units(s) == Number(s, FlagAt + 1)
Scale(s) == Number(s, FlagAt + 1 + Width)

(* Before HalfOf a mutant of it: two fields, not one frame.                *)
WholeOf(scale, units) == scale \div units
HalfOf(scale, units) == (scale \div units) \div 2

Rated(scale, units) ==
  IF units = 0 THEN stage' = "fault" /\ rate' = rate
  ELSE stage' = "text" /\ rate' = HalfOf(scale, units)

GetFramerate ==
  /\ stage = "rate"
  /\ \/ ~Long(bytes.sps) /\ stage' = "text" /\ rate' = rate
     \/ Long(bytes.sps) /\ Flag(bytes.sps) /\ Rated(Scale(bytes.sps), Units(bytes.sps))
     \/ /\ Long(bytes.sps) /\ ~Flag(bytes.sps)
        /\ \E scale, units \in Garbage : Rated(scale, units)
  /\ UNCHANGED <<vars, arr, i, j, bytes, line>>

----------------------------------------------------------------------------
(* base64_encode: a text is a sequence of values of six bits and Pads.     *)

Pad == 64

At(s, k) == IF k <= Len(s) THEN s[k] ELSE 0

(* The m-th character of the text of s, of the group with first byte g.    *)
(* Before LowBits a mutant of it: the two bits are shifted one too far.    *)
LostBits(b) == (b % 4) * 8
LowBits(b) == (b % 4) * 16

Encoded(s, m) ==
  LET g == 3 * ((m - 1) \div 4) + 1
  IN  CASE m % 4 = 1 -> s[g] \div 4
        [] m % 4 = 2 -> LowBits(s[g]) + At(s, g + 1) \div 16
        [] m % 4 = 3 -> IF g + 1 > Len(s) THEN Pad
                        ELSE (s[g + 1] % 16) * 4 + At(s, g + 2) \div 64
        [] m % 4 = 0 -> IF g + 2 > Len(s) THEN Pad ELSE s[g + 2] % 64

base64_encode(s) == [m \in 1..(4 * ((Len(s) + 2) \div 3)) |-> Encoded(s, m)]

(* base64_decode, which only checks use: three bytes for four characters,  *)
(* up to the first Pad.                                                    *)
DecodedLength(t) ==
  LET groups == Len(t) \div 4
      pads == IF groups = 0 \/ t[Len(t)] # Pad THEN 0
              ELSE IF t[Len(t) - 1] = Pad THEN 2 ELSE 1
  IN  3 * groups - pads

Decoded(t, k) ==
  LET c == 4 * ((k - 1) \div 3) + 1
  IN  CASE k % 3 = 1 -> ((t[c] * 4) % 256) + ((t[c + 1] \div 16) % 4)
        [] k % 3 = 2 -> ((t[c + 1] * 16) % 256) + ((t[c + 2] \div 4) % 16)
        [] k % 3 = 0 -> ((t[c + 2] * 64) % 256) + t[c + 3]

base64_decode(t) == [k \in 1..DecodedLength(t) |-> Decoded(t, k)]

ProfileLevelId(s) == IF Len(s) < 4 THEN <<0, 0, 0>> ELSE SubSeq(s, 2, 4)

(* Each text is written to an array of as many characters as the set has   *)
(* bytes.                                                                  *)
Overruns(s) == Len(base64_encode(s)) + 1 > Len(s)

(* The array of the sequence set lies gap characters behind the beginning  *)
(* of the other, which is filled last: what of its text comes that far is  *)
(* read, up to its NUL, for the text of the sequence set.                  *)
ReadBehind(text, other, gap) ==
  IF gap > Len(other) THEN text ELSE SubSeq(other, gap + 1, Len(other))

(* How far apart the arrays are, and what is behind them, is the           *)
(* compiler's choice: a text that overruns its array may do no harm, spoil *)
(* the other text, or spoil the frame of the function.                     *)
SetLine ==
  /\ stage = "text"
  /\ \/ /\ stage' = "line"
        /\ \E gap \in Len(bytes.pps)..(Len(base64_encode(bytes.pps)) + 1) :
             line' = [profile |-> ProfileLevelId(bytes.sps),
                      sps |-> ReadBehind(base64_encode(bytes.sps),
                                         base64_encode(bytes.pps), gap),
                      pps |-> base64_encode(bytes.pps)]
     \/ /\ Overruns(bytes.sps) \/ Overruns(bytes.pps)
        /\ stage' = "wild" /\ line' = line
  /\ UNCHANGED <<vars, arr, i, j, bytes, rate>>

(* PLAY, and the first slice: 90000/framerate.                             *)
FirstSlice ==
  /\ stage = "line"
  /\ stage' = IF rate = 0 THEN "fault" ELSE "streams"
  /\ UNCHANGED <<vars, arr, i, j, bytes, rate, line>>

----------------------------------------------------------------------------
SetLines == RemovePps \/ RemoveSps \/ GetFramerate \/ SetLine \/ FirstSlice

LinesNext == (Next /\ UNCHANGED linesVars) \/ SetLines

LinesSpec == LinesInit /\ [][LinesNext]_<<vars, linesVars>>
LinesFairSpec == LinesSpec /\ WF_<<vars, linesVars>>(LinesNext)

----------------------------------------------------------------------------
(* What an encoder does to a set: a 3 behind two zeros if a byte up to 3   *)
(* follows.                                                                *)
Zeros(e) == Len(e) >= 2 /\ e[Len(e)] = 0 /\ e[Len(e) - 1] = 0
Written(e, b) == IF Zeros(e) /\ b <= 3 THEN e \o <<3, b>> ELSE Append(e, b)

Escaping(r) ==
  LET upto[k \in 0..Len(r)] == IF k = 0 THEN <<>> ELSE Written(upto[k - 1], r[k])
  IN  upto

Escape(r) == Escaping(r)[Len(r)]

(* The file's set, as the encoder had it, is r.                            *)
Is(set, r) == set # None /\ Sequence(Content(set), set.to - set.from) = Escape(r)

(* The sets that are encoded in the SDP are the encoder's, whatever the    *)
(* removal has overwritten on its way.  If the function outlives its texts *)
(* the player gets the picture set and the profile as they were, and of    *)
(* the sequence set either all or, in its place, the end of the text of    *)
(* the picture set that its own array had no room for.                     *)
LineDecodes ==
  \A r \in Rbsp :
    /\ Is(sps, r) =>
         /\ stage = "text" => bytes.sps = r
         /\ stage \in {"line", "streams"} =>
              /\ line.profile = ProfileLevelId(r)
              /\ \/ base64_decode(line.sps) = r
                 \/ \E k \in Len(bytes.pps)..Len(line.pps) :
                      line.sps = SubSeq(line.pps, k + 1, Len(line.pps))
    /\ Is(pps, r) =>
         /\ stage = "text" => bytes.pps = r
         /\ stage \in {"line", "streams"} => base64_decode(line.pps) = r

(* A set that carries its timing at the place it is looked for.            *)
Timed(r) == Long(r) /\ Flag(r) /\ Units(r) > 0

(* The rate of the stream is that of the file's own set, rounded down, if  *)
(* the set carries its timing there: no uninitialised number and no rate   *)
(* of an earlier DESCRIBE gets in.  Of such files only one of less than a  *)
(* frame a second ends the process.                                        *)
RateAsCoded ==
  \A r \in Rbsp :
    Is(sps, r) /\ Timed(r) =>
      /\ stage = "fault" => Scale(r) < 2 * Units(r)
      /\ stage = "streams" => Scale(r) >= 2 * Units(r)
      /\ stage \in {"text", "line", "streams"} =>
           rate * 2 * Units(r) <= Scale(r) /\ Scale(r) < (rate + 1) * 2 * Units(r)

(* DESCRIBE comes to its end for every file, and PLAY to its first slice.  *)
DescribeEnds ==
  <>(pc = "done" /\ (user = "sdp" => stage \in {"streams", "wild", "fault"}))
=============================================================================
