-------------------------- MODULE H264StreamProofs --------------------------
(***************************************************************************)
(* Theorems about H264Stream, for every MTU that leaves room for the       *)
(* headers, every list of files and every number of PLAYs.                 *)
(***************************************************************************)
EXTENDS H264Stream, TLAPS

(* Where a thread is in its file, and what it has of the NAL unit there.   *)
InNal == {"tick", "sleep", "load", "fragment", "head", "send", "clear"}
Packing == {"head", "send", "clear"}
Live == Working \cup Waiting

AtNal(t) ==
  th[t].pc \in InNal => th[t].at >= 1 /\ th[t].at <= Len(Nals(t))

(* The pointer and the size that H264_LoadNAL counts down stay those of    *)
(* the rest of the NAL unit, and a fragment leaves something for the next. *)
Rest(t) ==
  th[t].pc \in InNal => th[t].off + th[t].left = Nals(t)[th[t].at].size
Whole(t) == th[t].pc \in {"tick", "sleep", "load"} => th[t].off = 0
Cut(t) == th[t].pc = "fragment" => th[t].off > 0 /\ th[t].left > 0

(* A packet is a NAL unit that fits, a full fragment or the last one.      *)
Piece(t) ==
  th[t].pc \in Packing =>
    /\ th[t].piece <= th[t].left
    /\ th[t].off = 0 => th[t].piece = th[t].left /\ th[t].piece <= MTU - Header
    /\ th[t].off > 0 => th[t].piece <= Room /\ th[t].piece > 0

ThreadInv(t) == AtNal(t) /\ Rest(t) /\ Whole(t) /\ Cut(t) /\ Piece(t)

(* A thread that is not the latest is cancelled, and so is the latest      *)
(* while it is replaced or released.                                       *)
Silenced(t) ==
  /\ th[t].pc # "none" => t <= tid
  /\ th[t].pc \in Live /\ (t # tid \/ session \in {"create", "gone"}) =>
       th[t].cancelled
FreedGone == freed <=> session = "gone"

TypeInv == TypeOK /\ \A t \in Thread : ThreadInv(t)
Inv == TypeInv /\ FreedGone /\ \A t \in Thread : Silenced(t)

(* A step of thread t leaves the other threads alone.                      *)
Moves(t) == \E s \in State : th' = [th EXCEPT ![t] = s]

LEMMA Constants ==
  /\ MTU \in Nat /\ MTU > Header + FuHeader
  /\ Room \in Nat /\ Room > 0 /\ Room < MTU
  /\ SeqMod \in Nat /\ SeqMod > 0
  /\ TimeMod \in Nat /\ TimeMod > 0
<1>1. MTU \in Nat /\ MTU > 14
  BY StreamAssumption DEF StreamAssumption, Header, FuHeader
<1>2. SeqMod \in Nat /\ SeqMod > 0
  BY StreamAssumption DEF StreamAssumption, SeqMod
<1> QED
  BY <1>1, <1>2, StreamAssumption DEF StreamAssumption, Header, FuHeader, Room

LEMMA FileType ==
  ASSUME NEW f \in File
  PROVE  /\ Media[f].nals \in Seq(Nal) /\ Media[f].tick \in Nat
         /\ Len(Media[f].nals) \in Nat
         /\ \A i \in 1..Len(Media[f].nals) :
              /\ Media[f].nals[i].size \in Nat
              /\ Media[f].nals[i].slice \in BOOLEAN
<1>1. Media \in Seq([nals: Seq(Nal), tick: Nat]) /\ f \in DOMAIN Media
  BY StreamAssumption DEF StreamAssumption, File
<1>2. Media[f] \in [nals: Seq(Nal), tick: Nat]
  <2>1. ASSUME NEW S, NEW q \in Seq(S), NEW i \in DOMAIN q
        PROVE  q[i] \in S
    BY <2>1
  <2> QED
    BY <1>1, <2>1
<1>3. Media[f].nals \in Seq(Nal) /\ Media[f].tick \in Nat
  BY <1>2
<1>4. \A i \in 1..Len(Media[f].nals) : Media[f].nals[i] \in Nal
  BY <1>3
<1> QED
  BY <1>3, <1>4 DEF Nal

(* A time advanced by a tick, and the sequence numbers, stay in range.     *)
LEMMA Ranges ==
  ASSUME TypeOK
  PROVE  /\ (stamp + Media[media].tick) % TimeMod \in 0..(TimeMod - 1)
         /\ NextSeq(header.seq) \in 0..(SeqMod - 1)
         /\ Swapped(info.seq) \in 0..(SeqMod - 1)
<1>1. Media[media].tick \in Nat /\ stamp \in Nat /\ header.seq \in Nat
      /\ info.seq \in 0..(SeqMod - 1)
  BY FileType, StreamAssumption DEF StreamAssumption, TypeOK, RtpHeader, SeqMod
<1>2. (stamp + Media[media].tick) % TimeMod \in 0..(TimeMod - 1)
  BY <1>1, Constants
<1>3. NextSeq(header.seq) \in 0..(SeqMod - 1)
  BY <1>1, Constants DEF NextSeq
<1>4. Swapped(info.seq) \in 0..(SeqMod - 1)
  <2> DEFINE n == info.seq
             lo == n % ByteMod
             hi == n \div ByteMod
  <2>1. ByteMod \in Nat /\ ByteMod > 0 /\ n \in Nat /\ n < ByteMod * ByteMod
    BY <1>1, StreamAssumption DEF StreamAssumption, SeqMod
  <2>2. lo \in 0..(ByteMod - 1) /\ hi \in Nat
    BY <2>1
  <2>3. hi < ByteMod
    BY <2>1
  <2>4. lo * ByteMod <= (ByteMod - 1) * ByteMod
    BY <2>1, <2>2
  <2>5. lo * ByteMod + hi \in 0..(ByteMod * ByteMod - 1)
    BY <2>1, <2>2, <2>3, <2>4
  <2> QED
    BY <2>5 DEF Swapped, SeqMod
<1> QED
  BY <1>2, <1>3, <1>4

(* What a thread is written to keeps its type.                             *)
LEMMA ThreadType ==
  ASSUME TypeInv, NEW t \in Thread
  PROVE  /\ th[t] \in State /\ Len(Nals(t)) \in Nat
         /\ \A i \in 1..Len(Nals(t)) :
              Nals(t)[i].size \in Nat /\ Nals(t)[i].slice \in BOOLEAN
         /\ th[t].pc \in InNal => th[t].at \in 1..Len(Nals(t))
<1>1. th[t] \in State /\ ThreadInv(t)
  BY DEF TypeInv, TypeOK
<1>2. th[t].file \in File /\ th[t].at \in Nat
  BY <1>1 DEF State
<1> QED
  BY <1>1, <1>2, FileType DEF Nals, ThreadInv, AtNal

LEMMA InitialTypes == 1 \in File /\ Idle \in State /\ Empty \in Load
<1>1. 1 \in File
  <2>1. Media \in Seq([nals: Seq(Nal), tick: Nat]) /\ Media # <<>>
    BY StreamAssumption DEF StreamAssumption
  <2>2. Len(Media) \in Nat /\ Len(Media) >= 1 /\ DOMAIN Media = 1..Len(Media)
    BY <2>1
  <2> QED
    BY <2>2 DEF File
<1>2. 0 \in 0..(TimeMod - 1)
  BY Constants
<1> QED
  BY <1>1, <1>2 DEF Idle, State, Place, Empty, Load

LEMMA InitTypeOK == Init => TypeOK
<1> SUFFICES ASSUME Init PROVE TypeOK
  OBVIOUS
<1>1. 1 \in File /\ Idle \in State /\ Empty \in Load
  BY InitialTypes
<1>2. 0 \in 0..(SeqMod - 1) /\ 0 \in 0..(TimeMod - 1)
  BY Constants
<1>4. header \in RtpHeader /\ info \in [seq: 0..(SeqMod - 1), time: 0..(TimeMod - 1)]
  BY <1>2 DEF Init, RtpHeader
<1>5. th \in [Thread -> State]
  BY <1>1 DEF Init
<1>6. tid \in 0..MaxPlays
  BY StreamAssumption DEF Init, StreamAssumption
<1> QED
  BY <1>1, <1>2, <1>4, <1>5, <1>6 DEF Init, TypeOK

(* The steps of the session keep the types.                                *)
LEMMA SessionTypes ==
  ASSUME TypeInv, SessionStep
  PROVE  TypeOK'
<1> USE DEF TypeInv, TypeOK, rtp
<1>1. CASE ReadFile \/ FileRead
  BY <1>1 DEF ReadFile, FileRead
<1>2. CASE GetRtpInfo
  <2>1. info' \in [seq: 0..(SeqMod - 1), time: 0..(TimeMod - 1)]
        /\ stamp' \in 0..(TimeMod - 1)
    BY <1>2, StreamAssumption DEF GetRtpInfo, StreamAssumption
  <2> QED
    BY <1>2, <2>1, StreamAssumption DEF GetRtpInfo, StreamAssumption
<1>3. OldThread \in [Thread -> State]
  <2>1. ASSUME NEW s \in State PROVE [s EXCEPT !.cancelled = TRUE] \in State
    BY DEF State
  <2> QED
    BY <2>1 DEF OldThread
<1>4. CASE CancelOld \/ Release
  BY <1>3, <1>4 DEF CancelOld, Release
<1>5. CASE CreateThread
  <2>1. tid < MaxPlays /\ tid + 1 \in Thread /\ tid + 1 \in 0..MaxPlays
    BY <1>5, StreamAssumption DEF CreateThread, Thread, StreamAssumption
  <2>2. ASSUME NEW s \in State PROVE [s EXCEPT !.pc = "start"] \in State
    BY DEF State, Place, Working
  <2>3. th' \in [Thread -> State]
    BY <1>5, <2>1, <2>2 DEF CreateThread
  <2> QED
    BY <1>5, <2>1, <2>3 DEF CreateThread
<1> QED
  BY <1>1, <1>2, <1>4, <1>5 DEF SessionStep

(* What NextNal makes of the state of a thread.                            *)
LEMMA NalOpened ==
  ASSUME NEW z \in State, NEW p \in Place, NEW l \in Nat,
         NEW u \in 0..(TimeMod - 1)
  PROVE  [z EXCEPT !.pc = p, !.at = z.at + 1, !.off = 0, !.left = l,
                   !.sum = u] \in State
<1>1. z.at + 1 \in Nat
  BY DEF State
<1> QED
  BY <1>1 DEF State

(* The steps of a thread keep the types: what it may write of the shared   *)
(* structures, of its own state, and the packet.                           *)
LEMMA ThreadTypes ==
  ASSUME TypeInv, NEW t \in Thread, ThreadStep(t)
  PROVE  TypeOK' /\ Moves(t)
<1> DEFINE s == th[t]
<1>1. s \in State /\ th \in [Thread -> State] /\ Room \in Nat
      /\ header \in RtpHeader /\ load \in Load
      /\ stamp \in 0..(TimeMod - 1) /\ media \in File /\ draws \in Nat
      /\ TypeOK
  BY ThreadType, Constants DEF TypeInv, TypeOK
<1>2. /\ s.pc \in Place /\ s.cancelled \in BOOLEAN /\ s.file \in File
      /\ s.at \in Nat /\ s.off \in Nat /\ s.left \in Nat /\ s.piece \in Nat
      /\ s.mark \in BOOLEAN /\ s.sum \in 0..(TimeMod - 1)
  BY <1>1 DEF State
<1>3. ASSUME NEW r \in State, th' = [th EXCEPT ![t] = r],
             header' \in RtpHeader, load' \in Load,
             stamp' \in 0..(TimeMod - 1), pkt' \in {None} \cup Packet,
             overlap' \in BOOLEAN, UNCHANGED sessionVars
      PROVE  TypeOK' /\ Moves(t)
  BY <1>1, <1>3 DEF TypeOK, Moves, sessionVars
<1>4. pkt \in {None} \cup Packet /\ overlap \in BOOLEAN
  BY <1>1 DEF TypeOK
<1>5. CASE StartThread(t)
  <2>1. header' \in RtpHeader
    BY <1>1, <1>5, Ranges, Constants DEF StartThread, RtpHeader
  <2>2. [s EXCEPT !.pc = "next", !.file = media] \in State
    BY <1>1 DEF State, Place, Working
  <2> QED
    BY <1>1, <1>3, <1>4, <1>5, <2>1, <2>2 DEF StartThread, Uses
<1>6. CASE NextNal(t)
  <2> DEFINE nal == Nals(t)[s.at + 1]
             r == [s EXCEPT !.pc = IF NeedsTick(nal) THEN "tick" ELSE "load",
                            !.at = s.at + 1, !.off = 0, !.left = nal.size,
                            !.sum = (stamp + Media[media].tick) % TimeMod]
  <2>1. s.at + 1 \in 1..Len(Nals(t))
    BY <1>2, <1>6, ThreadType DEF NextNal
  <2>2. nal.size \in Nat
    BY <2>1, ThreadType
  <2>3. (IF NeedsTick(nal) THEN "tick" ELSE "load") \in Place
    BY DEF Place, Working
  <2>4. (stamp + Media[media].tick) % TimeMod \in 0..(TimeMod - 1)
    BY <1>1, Ranges
  <2>5. r \in State
    BY <1>1, <1>2, <2>2, <2>3, <2>4, NalOpened
  <2>6. th' = [th EXCEPT ![t] = r]
    BY <1>6 DEF NextNal
  <2> HIDE DEF r
  <2> QED
    BY <1>1, <1>3, <1>4, <1>6, <2>5, <2>6 DEF NextNal, Uses, rtp
<1>7. CASE SetTimestamp(t)
  <2>1. [s EXCEPT !.pc = "sleep"] \in State
    BY <1>1 DEF State, Place, Waiting
  <2> QED
    BY <1>1, <1>2, <1>3, <1>4, <1>7, <2>1 DEF SetTimestamp, Uses
<1>8. CASE EndOfFile(t) \/ Die(t) \/ RunWild(t)
  <2>1. \A place \in {"done", "dead", "wild"} :
          [Idle EXCEPT !.pc = place] \in State
    BY InitialTypes DEF State, Place
  <2>2. \E place \in {"done", "dead", "wild"} :
          th' = [th EXCEPT ![t] = [Idle EXCEPT !.pc = place]]
    BY <1>8 DEF EndOfFile, Die, RunWild, Ended
  <2>3. UNCHANGED <<sessionVars, rtp, pkt>> /\ overlap' \in BOOLEAN
    BY <1>4, <1>8 DEF EndOfFile, Die, RunWild, Uses
  <2> QED
    BY <1>1, <1>3, <1>4, <2>1, <2>2, <2>3 DEF rtp
<1>9. CASE Wake(t)
  <2>1. [s EXCEPT !.pc = "load"] \in State
    BY <1>1 DEF State, Place, Working
  <2> QED
    BY <1>1, <1>3, <1>4, <1>9, <2>1 DEF Wake, rtp
<1>10. CASE LoadSingle(t)
  <2>1. s.at \in Nat /\ Nals(t)[s.at].slice \in BOOLEAN
    BY <1>2, <1>10, ThreadType DEF LoadSingle, Uses, InNal
  <2>2. load' \in Load
    BY <1>2, <1>10 DEF LoadSingle, Load
  <2>3. [s EXCEPT !.pc = "head", !.piece = s.left,
                  !.mark = Nals(t)[s.at].slice] \in State
    BY <1>1, <1>2, <2>1 DEF State, Place, Working
  <2> QED
    BY <1>1, <1>3, <1>4, <1>10, <2>2, <2>3 DEF LoadSingle, Uses
<1>11. CASE LoadFirst(t)
  <2>1. s.left - 1 \in Nat
    BY <1>2, <1>11, Constants DEF LoadFirst, Header, FuHeader
  <2>2. load' \in Load
    BY <1>2, <1>11 DEF LoadFirst, Load
  <2>3. [s EXCEPT !.pc = "fragment", !.off = 1, !.left = s.left - 1] \in State
    BY <1>1, <1>2, <2>1 DEF State, Place, Working
  <2> QED
    BY <1>1, <1>3, <1>4, <1>11, <2>2, <2>3 DEF LoadFirst, Uses
<1>12. CASE Fragment(t)
  <2>1. load' \in Load
    BY <1>1, <1>2, <1>12 DEF Fragment, Load
  <2>2. [s EXCEPT !.pc = "head", !.piece = Room, !.mark = FALSE] \in State
    BY <1>1, <1>2 DEF State, Place, Working
  <2> QED
    BY <1>1, <1>3, <1>4, <1>12, <2>1, <2>2 DEF Fragment, Uses
<1>13. CASE LastFragment(t)
  <2>1. Nals(t)[s.at].slice \in BOOLEAN
    BY <1>2, <1>13, ThreadType DEF LastFragment, Uses, InNal
  <2>2. load' \in Load
    BY <1>1, <1>2, <1>13 DEF LastFragment, Load
  <2>3. [s EXCEPT !.pc = "head", !.piece = s.left,
                  !.mark = Nals(t)[s.at].slice] \in State
    BY <1>1, <1>2, <2>1 DEF State, Place, Working
  <2> QED
    BY <1>1, <1>3, <1>4, <1>13, <2>2, <2>3 DEF LastFragment, Uses
<1>14. CASE SetHeader(t)
  <2>1. header' \in RtpHeader
    BY <1>1, <1>2, <1>14, Ranges DEF SetHeader, RtpHeader
  <2>2. [s EXCEPT !.pc = "send"] \in State
    BY <1>1 DEF State, Place, Waiting
  <2> QED
    BY <1>1, <1>3, <1>4, <1>14, <2>1, <2>2 DEF SetHeader, Uses
<1>15. CASE SendTo(t)
  <2>1. Length(t) \in Nat
    BY <1>2 DEF Length, Header, FuHeader
  <2>2. pkt' \in Packet
    BY <1>1, <1>2, <1>15, <2>1 DEF SendTo, Packet
  <2>3. [s EXCEPT !.pc = "clear"] \in State
    BY <1>1 DEF State, Place, Working
  <2> QED
    BY <1>1, <1>3, <1>4, <1>15, <2>2, <2>3 DEF SendTo, rtp
<1>16. CASE ClearBuffer(t)
  <2>1. load' \in Load
    <3>1. Cleared \in Load
      BY <1>1 DEF Cleared, Load
    <3>2. [Cleared EXCEPT !.s = FALSE] \in Load
      BY <3>1 DEF Load
    <3> QED
      BY <1>16, <3>1, <3>2 DEF ClearBuffer
  <2>2. \E r \in State : th' = [th EXCEPT ![t] = r]
    <3>1. CASE s.piece < s.left
      <4> DEFINE r == [s EXCEPT !.pc = "fragment", !.off = s.off + s.piece,
                                !.left = s.left - s.piece]
      <4>1. s.off + s.piece \in Nat /\ s.left - s.piece \in Nat
        BY <1>2, <3>1
      <4>2. r \in State
        BY <1>1, <1>2, <4>1 DEF State, Place, Working
      <4>3. th' = [th EXCEPT ![t] = r]
        BY <1>16, <3>1 DEF ClearBuffer, Advanced
      <4> QED
        BY <4>2, <4>3
    <3>2. CASE ~(s.piece < s.left)
      <4>1. [s EXCEPT !.pc = "next"] \in State
        BY <1>1 DEF State, Place, Working
      <4> QED
        BY <1>16, <3>2, <4>1 DEF ClearBuffer
    <3> QED
      BY <3>1, <3>2
  <2> QED
    BY <1>1, <1>3, <1>4, <1>16, <2>1, <2>2 DEF ClearBuffer, Uses
<1> QED
  BY <1>5, <1>6, <1>7, <1>8, <1>9, <1>10, <1>11, <1>12, <1>13, <1>14, <1>15,
     <1>16 DEF ThreadStep

----------------------------------------------------------------------------
(* The invariant.                                                          *)

(* What ThreadInv says depends on the place, the file and the counters.    *)
LEMMA SameThread ==
  ASSUME NEW u \in Thread, ThreadInv(u),
         \/ th'[u].pc \notin InNal
         \/ /\ th'[u].pc = th[u].pc /\ th'[u].file = th[u].file
            /\ th'[u].at = th[u].at /\ th'[u].off = th[u].off
            /\ th'[u].left = th[u].left /\ th'[u].piece = th[u].piece
  PROVE  ThreadInv(u)'
<1>1. CASE th'[u].pc \notin InNal
  BY <1>1 DEF ThreadInv, AtNal, Rest, Whole, Cut, Piece, InNal, Packing
<1>2. CASE th'[u].pc = th[u].pc /\ th'[u].file = th[u].file
           /\ th'[u].at = th[u].at /\ th'[u].off = th[u].off
           /\ th'[u].left = th[u].left /\ th'[u].piece = th[u].piece
  BY <1>2 DEF ThreadInv, AtNal, Rest, Whole, Cut, Piece, Nals, Room
<1> QED
  BY <1>1, <1>2

LEMMA SessionThreads ==
  ASSUME TypeInv, SessionStep
  PROVE  \A u \in Thread : ThreadInv(u)'
<1> SUFFICES ASSUME NEW u \in Thread PROVE ThreadInv(u)'
  OBVIOUS
<1>1. ThreadInv(u) /\ th \in [Thread -> State] /\ th[u] \in State
  BY DEF TypeInv, TypeOK
<1>2. CASE UNCHANGED th
  BY <1>1, <1>2, SameThread
<1>3. CASE th' = OldThread
  BY <1>1, <1>3, SameThread DEF OldThread, State
<1>4. CASE CreateThread
  BY <1>1, <1>4, SameThread DEF CreateThread, State, InNal
<1> QED
  BY <1>2, <1>3, <1>4
     DEF SessionStep, ReadFile, FileRead, GetRtpInfo, CancelOld, Release

LEMMA OtherThreads ==
  ASSUME TypeInv, NEW t \in Thread, Moves(t)
  PROVE  \A u \in Thread \ {t} : th'[u] = th[u] /\ ThreadInv(u)'
<1> SUFFICES ASSUME NEW u \in Thread, u # t
             PROVE  th'[u] = th[u] /\ ThreadInv(u)'
  OBVIOUS
<1>1. ThreadInv(u) /\ th \in [Thread -> State]
  BY DEF TypeInv, TypeOK
<1>2. th'[u] = th[u]
  BY <1>1 DEF Moves
<1> QED
  BY <1>1, <1>2, SameThread

LEMMA OwnThread ==
  ASSUME TypeInv, NEW t \in Thread, ThreadStep(t)
  PROVE  ThreadInv(t)'
<1>1. /\ ThreadInv(t) /\ th \in [Thread -> State] /\ th[t] \in State
      /\ th[t].at \in Nat /\ th[t].off \in Nat /\ th[t].left \in Nat
      /\ th[t].piece \in Nat
  BY DEF TypeInv, TypeOK, State
<1>2. MTU \in Nat /\ MTU > 14 /\ Room = MTU - 14 /\ Header = 12 /\ FuHeader = 2
  BY Constants DEF Room, Header, FuHeader
<1>3. CASE StartThread(t) \/ EndOfFile(t) \/ Die(t) \/ RunWild(t)
  <2>1. th'[t].pc \in {"next", "done", "dead", "wild"}
    BY <1>1, <1>3
       DEF StartThread, EndOfFile, Die, RunWild, Ended, Idle, State
  <2> QED
    BY <1>1, <2>1, SameThread DEF InNal
<1>4. CASE NextNal(t)
  <2>1. th[t].at < Len(Nals(t)) /\ Len(Nals(t)) \in Nat
    BY <1>4, ThreadType DEF NextNal
  <2>2. /\ th'[t].pc \in {"tick", "load"} /\ th'[t].file = th[t].file
        /\ th'[t].at = th[t].at + 1 /\ th'[t].off = 0
        /\ th'[t].left = Nals(t)[th[t].at + 1].size
    BY <1>1, <1>4 DEF NextNal, State
  <2>3. Nals(t)[th[t].at + 1].size \in Nat
    BY <1>1, <2>1, ThreadType
  <2> QED
    BY <1>1, <2>1, <2>2, <2>3
       DEF ThreadInv, AtNal, Rest, Whole, Cut, Piece, Packing, Nals
<1>5. CASE SetTimestamp(t) \/ Wake(t)
  <2>1. /\ th[t].pc \in {"tick", "sleep"} /\ th'[t].pc \in {"sleep", "load"}
        /\ th'[t].file = th[t].file /\ th'[t].at = th[t].at
        /\ th'[t].off = th[t].off /\ th'[t].left = th[t].left
    BY <1>1, <1>5 DEF SetTimestamp, Wake, Uses, State
  <2> QED
    BY <1>1, <2>1
       DEF ThreadInv, AtNal, Rest, Whole, Cut, Piece, InNal, Packing, Nals
<1>6. CASE LoadSingle(t)
  <2>1. /\ th[t].pc = "load" /\ th'[t].pc = "head" /\ th'[t].file = th[t].file
        /\ th'[t].at = th[t].at /\ th'[t].off = th[t].off
        /\ th'[t].left = th[t].left /\ th'[t].piece = th[t].left
        /\ th[t].left <= MTU - Header
    BY <1>1, <1>6 DEF LoadSingle, Uses, State
  <2> QED
    BY <1>1, <2>1
       DEF ThreadInv, AtNal, Rest, Whole, Cut, Piece, InNal, Packing, Nals
<1>7. CASE LoadFirst(t)
  <2>1. /\ th[t].pc = "load" /\ th'[t].pc = "fragment"
        /\ th'[t].file = th[t].file /\ th'[t].at = th[t].at
        /\ th'[t].off = 1 /\ th'[t].left = th[t].left - 1
        /\ th[t].left > MTU - Header
    BY <1>1, <1>7 DEF LoadFirst, Uses, State
  <2> QED
    BY <1>1, <1>2, <2>1
       DEF ThreadInv, AtNal, Rest, Whole, Cut, Piece, InNal, Packing, Nals
<1>8. CASE Fragment(t) \/ LastFragment(t)
  <2>1. /\ th[t].pc = "fragment" /\ th'[t].pc = "head"
        /\ th'[t].file = th[t].file /\ th'[t].at = th[t].at
        /\ th'[t].off = th[t].off /\ th'[t].left = th[t].left
        /\ \/ th'[t].piece = Room /\ ~FitsPacket(th[t].left)
           \/ th'[t].piece = th[t].left /\ FitsPacket(th[t].left)
    BY <1>1, <1>8 DEF Fragment, LastFragment, Uses, State
  <2>2. th'[t].piece > 0 /\ th'[t].piece <= th[t].left /\ th'[t].piece <= Room
    BY <1>1, <1>2, <2>1 DEF FitsPacket, ThreadInv, Cut
  <2> QED
    BY <1>1, <1>2, <2>1, <2>2
       DEF ThreadInv, AtNal, Rest, Whole, Cut, Piece, InNal, Packing, Nals
<1>9. CASE SetHeader(t) \/ SendTo(t)
  <2>1. /\ th[t].pc \in {"head", "send"} /\ th'[t].pc \in {"send", "clear"}
        /\ th'[t].file = th[t].file
        /\ th'[t].at = th[t].at /\ th'[t].off = th[t].off
        /\ th'[t].left = th[t].left /\ th'[t].piece = th[t].piece
    BY <1>1, <1>9 DEF SetHeader, SendTo, Uses, State
  <2> QED
    BY <1>1, <2>1
       DEF ThreadInv, AtNal, Rest, Whole, Cut, Piece, InNal, Packing, Nals, Room
<1>10. CASE ClearBuffer(t) /\ ~(th[t].piece < th[t].left)
  <2>1. th'[t].pc = "next"
    BY <1>1, <1>10 DEF ClearBuffer, State
  <2> QED
    BY <1>1, <2>1, SameThread DEF InNal
<1>11. CASE ClearBuffer(t) /\ th[t].piece < th[t].left
  <2>1. /\ th[t].pc = "clear" /\ th'[t].pc = "fragment"
        /\ th'[t].file = th[t].file /\ th'[t].at = th[t].at
        /\ th'[t].off = th[t].off + th[t].piece
        /\ th'[t].left = th[t].left - th[t].piece
    BY <1>1, <1>11 DEF ClearBuffer, Uses, Advanced, State
  <2>2. th[t].off > 0
    BY <1>1, <1>11, <2>1 DEF ThreadInv, Piece, Packing
  <2> QED
    BY <1>1, <1>11, <2>1, <2>2
       DEF ThreadInv, AtNal, Rest, Whole, Cut, Piece, InNal, Packing, Nals
<1> QED
  BY <1>3, <1>4, <1>5, <1>6, <1>7, <1>8, <1>9, <1>10, <1>11 DEF ThreadStep

LEMMA InitTypeInv == Init => TypeInv
<1> SUFFICES ASSUME Init PROVE TypeInv
  OBVIOUS
<1>1. \A t \in Thread : th[t].pc = "none"
  BY DEF Init, Idle
<1> QED
  BY <1>1, InitTypeOK
     DEF TypeInv, ThreadInv, AtNal, Rest, Whole, Cut, Piece, InNal, Packing

LEMMA StepTypeInv == TypeInv /\ [Next]_vars => TypeInv'
<1> SUFFICES ASSUME TypeInv, [Next]_vars PROVE TypeInv'
  OBVIOUS
<1>1. CASE SessionStep
  BY <1>1, SessionTypes, SessionThreads DEF TypeInv
<1>2. ASSUME NEW t \in Thread, ThreadStep(t) PROVE TypeInv'
  BY <1>2, ThreadTypes, OtherThreads, OwnThread DEF TypeInv
<1>3. CASE UNCHANGED vars
  <2>1. TypeOK'
    BY <1>3 DEF TypeInv, TypeOK, vars, sessionVars, rtp
  <2>2. ASSUME NEW u \in Thread PROVE ThreadInv(u)'
    BY <1>3, SameThread DEF TypeInv, vars
  <2> QED
    BY <2>1, <2>2 DEF TypeInv
<1> QED
  BY <1>1, <1>2, <1>3 DEF Next

LEMMA TypeInvHolds == Spec => []TypeInv
BY InitTypeInv, StepTypeInv, PTL DEF Spec

(* TypeOK: the session, the RTP structure and the threads keep their       *)
(* types, the RTP header its 16 and 32 bits.                               *)
THEOREM TypeCorrect == Spec => []TypeOK
<1>1. TypeInv => TypeOK
  BY DEF TypeInv
<1> QED
  BY <1>1, TypeInvHolds, PTL

(* PacketFits: whatever the sizes of the NAL units, the packets of a       *)
(* stream fit the MTU and RTP_buf.                                         *)
THEOREM PacketsFit == Spec => []PacketFits
<1>1. Init => PacketFits
  BY DEF Init, PacketFits
<1>2. TypeInv /\ PacketFits /\ [Next]_vars => PacketFits'
  <2> SUFFICES ASSUME TypeInv, PacketFits, [Next]_vars PROVE PacketFits'
    OBVIOUS
  <2>1. ASSUME NEW t \in Thread, SendTo(t) PROVE PacketFits'
    <3>1. /\ ThreadInv(t) /\ th[t].pc = "send"
          /\ th[t].off \in Nat /\ th[t].piece \in Nat
      BY <2>1 DEF TypeInv, TypeOK, State, SendTo
    <3>2. Length(t) <= MTU
      BY <3>1, Constants
         DEF ThreadInv, Piece, Packing, Length, Room, Header, FuHeader
    <3> QED
      BY <2>1, <3>2 DEF SendTo, PacketFits
  <2>2. CASE UNCHANGED pkt
    BY <2>2 DEF PacketFits
  <2> QED
    BY <2>1, <2>2
       DEF Next, SessionStep, ThreadStep, ReadFile, FileRead, GetRtpInfo,
           CancelOld, CreateThread, Release, StartThread, NextNal, SetTimestamp,
           EndOfFile, Wake, LoadSingle, LoadFirst, Fragment, LastFragment,
           SetHeader, ClearBuffer, Die, RunWild, Uses, vars
<1> QED
  BY <1>1, <1>2, TypeInvHolds, PTL DEF Spec

----------------------------------------------------------------------------
(* Only the latest thread streams.                                         *)

LEMMA SessionSilences ==
  ASSUME Inv, SessionStep
  PROVE  FreedGone' /\ \A u \in Thread : Silenced(u)'
<1>1. /\ th \in [Thread -> State] /\ tid \in Nat
      /\ \A u \in Thread : Silenced(u) /\ u \in Nat
      /\ "start" \in Live /\ "none" \notin Live
  BY StreamAssumption
     DEF Inv, TypeInv, TypeOK, StreamAssumption, Thread, Live, Working, Waiting
<1>2. FreedGone'
  BY DEF Inv, FreedGone, SessionStep, ReadFile, FileRead, GetRtpInfo,
         CancelOld, CreateThread, Release
<1> SUFFICES ASSUME NEW u \in Thread PROVE Silenced(u)'
  BY <1>2
<1>3. CASE ReadFile \/ FileRead \/ GetRtpInfo
  BY <1>1, <1>3 DEF Silenced, ReadFile, FileRead, GetRtpInfo
<1>4. CASE CancelOld \/ Release
  <2>1. th' = OldThread /\ tid' = tid
    BY <1>4 DEF CancelOld, Release
  <2>2. th'[u].pc = th[u].pc
    BY <1>1, <2>1 DEF OldThread, State
  <2>3. th[u].cancelled \/ (u = tid /\ tid # 0) => th'[u].cancelled
    BY <1>1, <2>1 DEF OldThread, State
  <2>4. u # 0
    BY StreamAssumption DEF Thread, StreamAssumption
  <2> QED
    BY <1>1, <2>1, <2>2, <2>3, <2>4 DEF Silenced
<1>5. CASE CreateThread
  <2>1. session = "create" /\ session' = "idle" /\ tid' = tid + 1
    BY <1>5 DEF CreateThread
  <2>2. CASE u = tid + 1
    BY <1>1, <2>1, <2>2 DEF Silenced
  <2>3. CASE u # tid + 1
    <3>1. th'[u] = th[u]
      BY <1>1, <1>5, <2>3 DEF CreateThread
    <3> QED
      BY <1>1, <2>1, <2>3, <3>1 DEF Silenced
  <2> QED
    BY <2>2, <2>3
<1> QED
  BY <1>3, <1>4, <1>5 DEF SessionStep

LEMMA ThreadSilent ==
  ASSUME Inv, NEW t \in Thread, ThreadStep(t)
  PROVE  FreedGone' /\ \A u \in Thread : Silenced(u)'
<1>1. th \in [Thread -> State] /\ \A u \in Thread : Silenced(u)
  BY DEF Inv, TypeInv, TypeOK
<1>2. UNCHANGED sessionVars
  BY DEF ThreadStep, StartThread, NextNal, SetTimestamp, EndOfFile, Wake,
         LoadSingle, LoadFirst, Fragment, LastFragment, SetHeader, SendTo,
         ClearBuffer, Die,
         RunWild, Uses
<1>3. th[t].pc \in Live
  BY DEF ThreadStep, StartThread, NextNal, SetTimestamp, EndOfFile, Wake,
         LoadSingle, LoadFirst, Fragment, LastFragment, SetHeader, SendTo,
         ClearBuffer, Die,
         RunWild, Uses, Live, Working, Waiting
<1>4. th'[t].pc \notin Live \/ th'[t].cancelled = th[t].cancelled
  <2>1. CASE StartThread(t) \/ NextNal(t) \/ SetTimestamp(t) \/ Wake(t)
    BY <1>1, <2>1 DEF StartThread, NextNal, SetTimestamp, Wake, State
  <2>2. CASE LoadSingle(t) \/ LoadFirst(t) \/ Fragment(t) \/ LastFragment(t)
    BY <1>1, <2>2 DEF LoadSingle, LoadFirst, Fragment, LastFragment, State
  <2>3. CASE SetHeader(t) \/ SendTo(t) \/ ClearBuffer(t)
    BY <1>1, <2>3 DEF SetHeader, SendTo, ClearBuffer, Advanced, State
  <2>4. CASE EndOfFile(t) \/ Die(t) \/ RunWild(t)
    BY <1>1, <2>4 DEF EndOfFile, Die, RunWild, Ended, Idle, State, Live,
                      Working, Waiting
  <2> QED
    BY <2>1, <2>2, <2>3, <2>4 DEF ThreadStep
<1>5. FreedGone'
  BY <1>2 DEF Inv, FreedGone, sessionVars
<1>6. ASSUME NEW u \in Thread PROVE Silenced(u)'
  <2>1. CASE u = t
    <3>1. "none" \notin Live
      BY DEF Live, Working, Waiting
    <3> QED
      BY <1>1, <1>2, <1>3, <1>4, <2>1, <3>1 DEF Silenced, sessionVars
  <2>2. CASE u # t
    <3>1. th'[u] = th[u]
      BY <2>2, ThreadTypes, OtherThreads DEF Inv
    <3> QED
      BY <1>1, <1>2, <3>1 DEF Silenced, sessionVars
  <2> QED
    BY <2>1, <2>2
<1> QED
  BY <1>5, <1>6

LEMMA StepInv == Inv /\ [Next]_vars => Inv'
<1> SUFFICES ASSUME Inv, [Next]_vars PROVE Inv'
  OBVIOUS
<1>1. TypeInv'
  BY StepTypeInv DEF Inv
<1>2. FreedGone' /\ \A u \in Thread : Silenced(u)'
  <2>1. CASE UNCHANGED vars
    BY <2>1 DEF Inv, FreedGone, Silenced, vars, sessionVars
  <2> QED
    BY <2>1, SessionSilences, ThreadSilent DEF Next
<1> QED
  BY <1>1, <1>2 DEF Inv

LEMMA InvHolds == Spec => []Inv
<1>1. Init => Inv
  <2> SUFFICES ASSUME Init PROVE Inv
    OBVIOUS
  <2>1. \A t \in Thread : th[t].pc = "none"
    BY DEF Init, Idle
  <2> QED
    BY <2>1, InitTypeInv
       DEF Init, Inv, FreedGone, Silenced, Live, Working, Waiting
<1> QED
  BY <1>1, StepInv, PTL DEF Spec

(* OnlyLatestStreams: pthread_cancel in handle_PLAY and in                 *)
(* media_class_realease is enough for the old thread to send nothing more, *)
(* though nobody waits for it.                                             *)
THEOREM LatestStreams == Spec => OnlyLatestStreams
<1>1. Inv /\ [Next]_vars => (pkt' # pkt => pkt'.by = tid' /\ ~freed')
  <2> SUFFICES ASSUME Inv, [Next]_vars, pkt' # pkt
               PROVE  pkt'.by = tid' /\ ~freed'
    OBVIOUS
  <2>1. PICK t \in Thread : SendTo(t)
    BY DEF Next, SessionStep, ThreadStep, ReadFile, FileRead, GetRtpInfo,
           CancelOld, CreateThread, Release, StartThread, NextNal,
           SetTimestamp, EndOfFile, Wake, LoadSingle, LoadFirst, Fragment,
           LastFragment, SetHeader, ClearBuffer, Die, RunWild, Uses, vars
  <2>2. th[t].pc \in Live /\ ~th[t].cancelled
    BY <2>1 DEF SendTo, Live, Waiting
  <2>3. t = tid /\ session # "gone"
    BY <2>2 DEF Inv, Silenced
  <2> QED
    BY <2>1, <2>3 DEF SendTo, sessionVars, Inv, FreedGone
<1>2. Inv /\ [Next]_vars =>
        [pkt' # pkt => pkt'.by = tid' /\ ~freed']_vars
  BY <1>1
<1> QED
  BY <1>2, InvHolds, PTL DEF Spec, OnlyLatestStreams

----------------------------------------------------------------------------
(* A stream comes to its end: every step of a thread takes it on to a      *)
(* later NAL unit of its file, to less of the same unit, or to a later     *)
(* place with the same rest of it, and nothing takes it back.              *)

Over == {"done", "dead", "wild"}

(* The places between two changes of what is left, in their order.         *)
Turn == [tick |-> 7, sleep |-> 6, load |-> 5, fragment |-> 4, head |-> 3,
         send |-> 2, clear |-> 1, next |-> 0]

Nearer(a, b) ==
  \/ b.pc \in Over
  \/ a.pc = "start" /\ b.pc = "next"
  \/ /\ a.pc \in DOMAIN Turn /\ b.pc \in DOMAIN Turn /\ b.file = a.file
     /\ \/ a.at < b.at /\ b.at <= Len(Media[b.file].nals)
        \/ b.at = a.at /\ b.left < a.left
        \/ b.at = a.at /\ b.left = a.left /\ Turn[b.pc] < Turn[a.pc]

(* A step is one of another, pthread_cancel, pthread_create, or nearer.    *)
GoesOn(t) ==
  \/ th'[t] = th[t]
  \/ th'[t] = [th[t] EXCEPT !.cancelled = TRUE]
  \/ th[t].pc = "none" /\ th'[t].pc = "start"
  \/ th[t].pc \notin Over /\ Nearer(th[t], th'[t])

(* From each place, the steps a cancelled thread may still take.           *)
UntilDead == [start |-> 7, clear |-> 7, next |-> 6, load |-> 4, fragment |-> 3,
              tick |-> 2, head |-> 2, sleep |-> 1, send |-> 1]

DiesSoon(t) ==
  th[t].pc \in Live /\ th[t].cancelled /\ th'[t] # th[t] =>
    \/ th'[t].pc \in Over
    \/ UntilDead[th'[t].pc] < UntilDead[th[t].pc]

StreamsGoOn == [][\A t \in Thread : GoesOn(t) /\ DiesSoon(t)]_vars

LEMMA SessionGoesOn ==
  ASSUME Inv, SessionStep, NEW t \in Thread
  PROVE  GoesOn(t) /\ DiesSoon(t)
<1>1. th \in [Thread -> State] /\ th[t] \in State /\ Silenced(t) /\ tid \in Nat /\ t \in Nat
  BY StreamAssumption DEF Inv, TypeInv, TypeOK, Thread, StreamAssumption
<1>2. CASE UNCHANGED th
  BY <1>2 DEF GoesOn, DiesSoon
<1>3. CASE CancelOld \/ Release
  <2>1. th' = OldThread
    BY <1>3 DEF CancelOld, Release
  <2>2. th'[t] = th[t] \/ th'[t] = [th[t] EXCEPT !.cancelled = TRUE]
    BY <1>1, <2>1 DEF OldThread
  <2>3. th[t].cancelled => [th[t] EXCEPT !.cancelled = TRUE] = th[t]
    BY <1>1 DEF State
  <2> QED
    BY <2>2, <2>3 DEF GoesOn, DiesSoon
<1>4. CASE CreateThread
  <2>1. CASE t = tid + 1
    <3>1. th[t].pc = "none" /\ th'[t].pc = "start"
      BY <1>1, <1>4, <2>1 DEF CreateThread, Silenced, State
    <3> QED
      BY <3>1 DEF GoesOn, DiesSoon, Live, Working, Waiting
  <2>2. CASE t # tid + 1
    <3>1. th'[t] = th[t]
      BY <1>1, <1>4, <2>2 DEF CreateThread
    <3> QED
      BY <3>1 DEF GoesOn, DiesSoon
  <2> QED
    BY <2>1, <2>2
<1> QED
  BY <1>2, <1>3, <1>4 DEF SessionStep, ReadFile, FileRead, GetRtpInfo

LEMMA ThreadGoesOn ==
  ASSUME Inv, NEW t \in Thread, ThreadStep(t)
  PROVE  GoesOn(t) /\ DiesSoon(t)
<1>1. /\ ThreadInv(t) /\ th \in [Thread -> State] /\ th[t] \in State
      /\ th[t].at \in Nat /\ th[t].off \in Nat /\ th[t].left \in Nat
      /\ th[t].piece \in Nat
  BY DEF Inv, TypeInv, TypeOK, State
<1>2. MTU \in Nat /\ MTU > 14 /\ Header = 12 /\ FuHeader = 2
  BY Constants DEF Header, FuHeader
<1>3. CASE EndOfFile(t) \/ Die(t) \/ RunWild(t)
  <2>1. th'[t].pc \in Over
    BY <1>1, <1>3 DEF EndOfFile, Die, RunWild, Ended, Idle, State, Over
  <2>2. th[t].pc \notin Over
    BY <1>3 DEF EndOfFile, Die, RunWild, Uses, Working, Waiting, Over
  <2> QED
    BY <2>1, <2>2 DEF GoesOn, DiesSoon, Nearer
<1>4. CASE StartThread(t)
  <2>1. th[t].pc = "start" /\ th'[t].pc = "next"
    BY <1>1, <1>4 DEF StartThread, Uses, State
  <2> QED
    BY <2>1 DEF GoesOn, DiesSoon, Nearer, Over, UntilDead
<1>5. CASE NextNal(t)
  <2>1. th[t].at < Len(Nals(t)) /\ Len(Nals(t)) \in Nat
    BY <1>5, ThreadType DEF Inv, NextNal
  <2>2. /\ th[t].pc = "next" /\ th'[t].pc \in {"tick", "load"} /\ th'[t].file = th[t].file
        /\ th'[t].at = th[t].at + 1
    BY <1>1, <1>5 DEF NextNal, Uses, State
  <2>3. th[t].at < th'[t].at /\ th'[t].at <= Len(Media[th'[t].file].nals)
    BY <1>1, <2>1, <2>2 DEF Nals
  <2> QED
    BY <2>2, <2>3 DEF GoesOn, DiesSoon, Nearer, Over, Turn, UntilDead
<1>6. CASE SetTimestamp(t) \/ Wake(t) \/ SetHeader(t) \/ SendTo(t)
  <2>1. /\ th'[t].file = th[t].file /\ th'[t].at = th[t].at /\ th'[t].left = th[t].left
        /\ \/ th[t].pc = "tick" /\ th'[t].pc = "sleep"
           \/ th[t].pc = "sleep" /\ th'[t].pc = "load" /\ ~th[t].cancelled
           \/ th[t].pc = "head" /\ th'[t].pc = "send"
           \/ th[t].pc = "send" /\ th'[t].pc = "clear" /\ ~th[t].cancelled
    BY <1>1, <1>6 DEF SetTimestamp, Wake, SetHeader, SendTo, Uses, State
  <2> QED
    BY <2>1 DEF GoesOn, DiesSoon, Nearer, Over, Turn, UntilDead
<1>7. CASE LoadFirst(t)
  <2>1. /\ th[t].pc = "load" /\ th'[t].pc = "fragment" /\ th'[t].file = th[t].file
        /\ th'[t].at = th[t].at /\ th'[t].left = th[t].left - 1
    BY <1>1, <1>7 DEF LoadFirst, Uses, State
  <2>2. th'[t].left < th[t].left
    BY <1>1, <2>1
  <2> QED
    BY <2>1, <2>2 DEF GoesOn, DiesSoon, Nearer, Over, Turn, UntilDead
<1>8. CASE LoadSingle(t) \/ Fragment(t) \/ LastFragment(t)
  <2>1. /\ th[t].pc \in {"load", "fragment"} /\ th'[t].pc = "head"
        /\ th'[t].file = th[t].file /\ th'[t].at = th[t].at /\ th'[t].left = th[t].left
    BY <1>1, <1>8 DEF LoadSingle, Fragment, LastFragment, Uses, State
  <2> QED
    BY <2>1 DEF GoesOn, DiesSoon, Nearer, Over, Turn, UntilDead
<1>9. CASE ClearBuffer(t)
  <2>1. th[t].pc = "clear"
    BY <1>9 DEF ClearBuffer, Uses
  <2>2. CASE th[t].piece < th[t].left
    <3>1. /\ th'[t].pc = "fragment" /\ th'[t].file = th[t].file /\ th'[t].at = th[t].at
          /\ th'[t].left = th[t].left - th[t].piece
      BY <1>1, <1>9, <2>2 DEF ClearBuffer, Advanced, State
    <3>2. th[t].piece > 0
      BY <1>1, <2>1, <2>2 DEF ThreadInv, Piece, Packing
    <3>3. th'[t].left < th[t].left
      BY <1>1, <3>1, <3>2
    <3> QED
      BY <2>1, <3>1, <3>3 DEF GoesOn, DiesSoon, Nearer, Over, Turn, UntilDead
  <2>3. CASE ~(th[t].piece < th[t].left)
    <3>1. /\ th'[t].pc = "next" /\ th'[t].file = th[t].file /\ th'[t].at = th[t].at
          /\ th'[t].left = th[t].left
      BY <1>1, <1>9, <2>3 DEF ClearBuffer, State
    <3> QED
      BY <2>1, <3>1 DEF GoesOn, DiesSoon, Nearer, Over, Turn, UntilDead
  <2> QED
    BY <2>2, <2>3
<1> QED
  BY <1>3, <1>4, <1>5, <1>6, <1>7, <1>8, <1>9 DEF ThreadStep

(* Every stream comes to an end, whatever the sizes of the NAL units and   *)
(* the steps of the others: each step of a thread brings it nearer, a      *)
(* fragment is never empty, and a cancelled thread takes seven more steps  *)
(* at the most (H264_transport.c:9-129).                                   *)
THEOREM StreamsComeToEnd == Spec => StreamsGoOn
<1>1. Inv /\ [Next]_vars => [\A t \in Thread : GoesOn(t) /\ DiesSoon(t)]_vars
  <2> SUFFICES ASSUME Inv, Next, NEW u \in Thread PROVE GoesOn(u) /\ DiesSoon(u)
    OBVIOUS
  <2>1. CASE SessionStep
    BY <2>1, SessionGoesOn
  <2>2. ASSUME NEW t \in Thread, ThreadStep(t) PROVE GoesOn(u) /\ DiesSoon(u)
    <3>1. CASE u = t
      BY <2>2, <3>1, ThreadGoesOn
    <3>2. CASE u # t
      <4>1. th'[u] = th[u]
        BY <2>2, <3>2, ThreadTypes, OtherThreads DEF Inv
      <4> QED
        BY <4>1 DEF GoesOn, DiesSoon
    <3> QED
      BY <3>1, <3>2
  <2> QED
    BY <2>1, <2>2 DEF Next
<1> QED
  BY <1>1, InvHolds, PTL DEF Spec, StreamsGoOn
=============================================================================
