-------------------------- MODULE AacStreamProofs --------------------------
(***************************************************************************)
(* Theorems about AacStream, for every list of files, sound or not, every  *)
(* MTU and any number of PLAYs and DESCRIBEs.                              *)
(***************************************************************************)
EXTENDS AacStream, Integers, TLAPS

Live == Working \cup Waiting

(* A PLAY that has begun has room for its thread.                          *)
RoomToPlay == session \in {"cancel", "create"} => tid < MaxPlays

(* A thread that is not the latest is cancelled, and so is the latest      *)
(* while it is replaced or released.                                       *)
Silenced(t) ==
  /\ th[t].pc # "none" => t <= tid
  /\ th[t].pc \in Live /\ (t # tid \/ session \in {"create", "gone"}) =>
       th[t].cancelled
NotAhead == pkt # None => pkt.by <= tid

TypeInv == TypeOK /\ RoomToPlay
Inv == TypeInv /\ NotAhead /\ \A t \in Thread : Silenced(t)

(* A step of thread t leaves the other threads alone.                      *)
Moves(t) == \E s \in State : th' = [th EXCEPT ![t] = s]

----------------------------------------------------------------------------
LEMMA Constants ==
  /\ Header = 12 /\ AuHeader = 4 /\ MTU \in Nat /\ MTU >= 16
  /\ SeqMod \in Nat /\ SeqMod > 0 /\ TimeMod \in Nat /\ TimeMod > 0
  /\ FrameSize \in Nat /\ LenMod \in Nat /\ LenMod > 0 /\ MaxPlays \in Nat
  /\ 1 \in File /\ 0 \notin File
<1>1. SeqMod \in Nat /\ SeqMod > 0
  BY AacAssumption DEF AacAssumption, SeqMod
<1> QED
  BY <1>1, AacAssumption DEF AacAssumption, Header, AuHeader

LEMMA FileType ==
  ASSUME NEW i \in File
  PROVE  /\ Media[i].size \in Nat /\ Media[i].rate \in Nat
         /\ HeaderSize(Media[i]) \in {ShortHeader, LongHeader}
         /\ HeaderSize(Media[i]) \in Nat /\ HeaderSize(Media[i]) > 0
         /\ HeaderSize(Media[i]) <= LenMod
         /\ \A p \in Media[i].sync :
              /\ p \in Nat /\ p < Media[i].size
              /\ Media[i].len[p] \in 0..(LenMod - 1) /\ Media[i].len[p] \in Nat
              /\ Media[i].later[p] \in 0..(LenMod - 1)
              /\ Media[i].absent[p] \in BOOLEAN
<1>1. IsMedia(Media[i]) /\ LenMod \in Nat
  BY AacAssumption DEF AacAssumption
<1>2. /\ Media[i].size \in Nat /\ Media[i].rate \in Nat
      /\ \A p \in Media[i].sync :
           /\ p \in Nat /\ p < Media[i].size
           /\ Media[i].len[p] \in 0..(LenMod - 1)
           /\ Media[i].later[p] \in 0..(LenMod - 1)
           /\ Media[i].absent[p] \in BOOLEAN
  BY <1>1 DEF IsMedia
<1>3. HeaderSize(Media[i]) \in {ShortHeader, LongHeader}
  BY DEF HeaderSize
<1> QED
  BY <1>1, <1>2, <1>3, AacAssumption DEF AacAssumption

(* Without CRC the headers are short.                                      *)
LEMMA ShortWithoutCrc ==
  ASSUME NEW f, ~HasCrc(f)
  PROVE  HeaderSize(f) = ShortHeader
BY DEF HasCrc, HeaderSize

(* The length of a frame has 16 bits, and without CRC is that of the       *)
(* header less the header, if the header is counted in it.                 *)
LEMMA FrameLenIs ==
  ASSUME NEW i \in File, NEW p \in Media[i].sync
  PROVE  /\ FrameLen(Media[i], p) \in 0..(LenMod - 1)
         /\ ~HasCrc(Media[i]) /\ ShortHeader <= Media[i].len[p] =>
              FrameLen(Media[i], p) = Media[i].len[p] - ShortHeader
<1>1. LenMod \in Nat /\ LenMod > 0
  BY Constants
<1>2. PICK n \in 0..(LenMod - 1) :
        /\ n = LenRead(Media[i], p)
        /\ HeaderSize(Media[i]) = ShortHeader => n = Media[i].len[p]
  BY FileType DEF LenRead
<1>3. PICK a \in Nat : a = HeaderSize(Media[i]) /\ a <= LenMod
  BY FileType
<1>4. n + LenMod - a \in Nat
  BY <1>1, <1>2, <1>3
<1>5. (n + LenMod - a) % LenMod \in 0..(LenMod - 1)
  BY <1>1, <1>4
<1>6. a <= n => (n + LenMod - a) % LenMod = n - a
  BY <1>1, <1>2, <1>3
<1> QED
  BY <1>2, <1>3, <1>5, <1>6, ShortWithoutCrc DEF FrameLen

(* The two counters and the swapped number stay in range.                  *)
LEMMA Ranges ==
  ASSUME TypeOK
  PROVE  /\ NextTime(stamp) \in Time /\ NextSeq(header.seq) \in Short
         /\ (base + 1) % SeqMod \in Short /\ Swapped(base) \in Short
<1>1. stamp \in Nat /\ header.seq \in Nat /\ base \in Short
  BY Constants DEF TypeOK, RtpHeader, Short, Time
<1>2. NextTime(stamp) \in Time
  BY <1>1, Constants DEF NextTime, Time
<1>3. NextSeq(header.seq) \in Short /\ (base + 1) % SeqMod \in Short
  BY <1>1, Constants DEF NextSeq, Short
<1>4. Swapped(base) \in Short
  <2> DEFINE lo == base % ByteMod
             hi == base \div ByteMod
  <2>1. ByteMod \in Nat /\ ByteMod > 0 /\ base \in Nat /\ base < ByteMod * ByteMod
    BY <1>1, AacAssumption DEF AacAssumption, Short, SeqMod
  <2>2. lo \in 0..(ByteMod - 1) /\ hi \in Nat
    BY <2>1
  <2>3. hi < ByteMod
    BY <2>1
  <2>4. lo * ByteMod <= (ByteMod - 1) * ByteMod
    BY <2>1, <2>2
  <2>5. lo * ByteMod + hi \in 0..(ByteMod * ByteMod - 1)
    BY <2>1, <2>2, <2>3, <2>4
  <2> QED
    BY <2>5 DEF Swapped, Short, SeqMod
<1> QED
  BY <1>2, <1>3, <1>4

LEMMA InitTypeInv == Init => TypeInv
<1> SUFFICES ASSUME Init PROVE TypeInv
  OBVIOUS
<1>1. 0 \in Short /\ 0 \in Time /\ 0 \in 0..(LenMod - 1) /\ 0 \in 0..(MTU - Header)
  BY Constants DEF Short, Time
<1>2. Idle \in State /\ Empty \in Body
  BY <1>1, Constants DEF Idle, State, Place, Empty, Body
<1>3. th \in [Thread -> State]
  BY <1>2 DEF Init
<1>4. header \in RtpHeader
  BY <1>1 DEF Init, RtpHeader
<1>5. 0 \in 0..MaxReads /\ 0 \in 0..MaxPlays
  BY AacAssumption DEF AacAssumption
<1>6. base \in Short /\ stamp \in Time /\ load \in 0..(MTU - Header)
  BY <1>1 DEF Init
<1> QED
  BY <1>2, <1>3, <1>4, <1>5, <1>6 DEF Init, TypeInv, TypeOK, RoomToPlay

(* The steps of the session.                                               *)
LEMMA SessionTypes ==
  ASSUME TypeInv, SessionStep
  PROVE  TypeInv'
<1> USE DEF TypeInv, TypeOK, RoomToPlay, rtp
<1>1. CASE ReadFile
  BY <1>1, AacAssumption DEF ReadFile, Describing, AacAssumption
<1>2. CASE FileRead \/ SetAacLines
  BY <1>2 DEF FileRead, SetAacLines, Describing
<1>3. CASE GetRtpInfo
  <2>1. base' \in Short /\ stamp' \in Time
    BY <1>3, AacAssumption DEF GetRtpInfo, AacAssumption, Short, Time
  <2> QED
    BY <1>3, <2>1, Constants DEF GetRtpInfo, Playing
<1>4. OldThread \in [Thread -> State]
  <2>1. ASSUME NEW s \in State PROVE [s EXCEPT !.cancelled = TRUE] \in State
    BY DEF State
  <2> QED
    BY <2>1 DEF OldThread
<1>5. CASE CancelOld
  BY <1>4, <1>5 DEF CancelOld, Playing
<1>6. CASE Release
  BY <1>4, <1>6 DEF Release
<1>7. CASE CreateThread
  <2>1. tid + 1 \in Thread /\ tid + 1 \in 0..MaxPlays
    BY <1>7, Constants DEF CreateThread, Playing, Thread
  <2>2. ASSUME NEW s \in State PROVE [s EXCEPT !.pc = "start"] \in State
    BY DEF State, Place, Working
  <2>3. th' \in [Thread -> State]
    BY <1>7, <2>1, <2>2 DEF CreateThread
  <2> QED
    BY <1>7, <2>1, <2>3 DEF CreateThread, Playing
<1> QED
  BY <1>1, <1>2, <1>3, <1>5, <1>6, <1>7 DEF SessionStep

(* What a thread writes of its own state.                                  *)
LEMMA Stays ==
  ASSUME NEW s \in State
  PROVE  /\ \A place \in Place : [s EXCEPT !.pc = place] \in State
         /\ s.pc \in Place /\ s.cancelled \in BOOLEAN /\ s.file \in File
         /\ s.at \in Nat /\ s.len \in 0..(LenMod - 1) /\ s.base \in Short
         /\ s.sum \in Time /\ s.out \in 0..(MTU - Header)
BY DEF State

(* The steps of a thread.  load stays inside RTP_buf: a step that would    *)
(* take it further is no step but the end in "wild".                       *)
LEMMA ThreadTypes ==
  ASSUME TypeInv, NEW t \in Thread, ThreadStep(t)
  PROVE  TypeInv' /\ Moves(t)
<1> DEFINE s == th[t]
<1>1. /\ s \in State /\ th \in [Thread -> State] /\ header \in RtpHeader
      /\ load \in 0..(MTU - Header) /\ body \in Body /\ base \in Short
      /\ stamp \in Time /\ pkt \in {None} \cup Packet /\ overlap \in BOOLEAN
      /\ media \in File /\ draws \in Nat /\ TypeOK
  BY DEF TypeInv, TypeOK
<1>2. ASSUME NEW r \in State, th' = [th EXCEPT ![t] = r],
             header' \in RtpHeader, load' \in 0..(MTU - Header), body' \in Body,
             base' \in Short, stamp' \in Time, pkt' \in {None} \cup Packet,
             overlap' \in BOOLEAN, UNCHANGED sessionVars
      PROVE  TypeInv' /\ Moves(t)
  BY <1>1, <1>2 DEF TypeInv, TypeOK, RoomToPlay, Moves, sessionVars
<1>3. Place = {"none", "done", "dead", "wild", "fault", "start", "next", "copy",
               "count", "head", "clear", "send", "sleep"}
  BY DEF Place, Working, Waiting
<1>4. /\ s.file \in File /\ s.at \in Nat /\ s.len \in 0..(LenMod - 1)
      /\ s.base \in Short /\ s.sum \in Time /\ s.out \in 0..(MTU - Header)
      /\ \A place \in Place : [s EXCEPT !.pc = place] \in State
  BY <1>1, Stays
<1>5. CASE StartThread(t)
  <2>1. PICK p \in Media[media].sync :
          th' = [th EXCEPT ![t].pc = "next", ![t].file = media, ![t].at = p]
    BY <1>5 DEF StartThread
  <2>2. [s EXCEPT !.pc = "next", !.file = media, !.at = p] \in State
    BY <1>1, <1>3, FileType DEF State
  <2>3. 0 \in Time /\ 0 \in 0..(MTU - Header)
    BY Constants DEF Time
  <2>4. header' \in RtpHeader
    BY <1>1, <1>5, <2>3, Ranges DEF StartThread, RtpHeader
  <2> QED
    BY <1>1, <1>2, <1>5, <2>1, <2>2, <2>3, <2>4 DEF StartThread, Uses
<1>6. CASE EndOfFile(t) \/ Wake(t) \/ Die(t) \/ RunWild(t)
  <2>1. PICK place \in Place : th' = [th EXCEPT ![t].pc = place]
    BY <1>3, <1>6 DEF EndOfFile, Wake, Die, RunWild, Ended, To
  <2>2. UNCHANGED <<sessionVars, rtp, pkt>> /\ overlap' \in BOOLEAN
    BY <1>1, <1>6 DEF EndOfFile, Wake, Die, RunWild, Uses
  <2> QED
    BY <1>1, <1>2, <1>4, <2>1, <2>2 DEF rtp
<1>7. CASE NextFrame(t)
  <2>1. PICK p \in Own(t).sync :
          /\ th' = [th EXCEPT ![t].pc = "copy", ![t].at = ToHeader(p, HeaderSize(Own(t))),
                              ![t].len = FrameLen(Own(t), p)]
          /\ body' = [body EXCEPT !.au = FrameLen(Own(t), p)]
          /\ load + AuHeader + Header <= MTU
    BY <1>7 DEF NextFrame
  <2>2. ToHeader(p, HeaderSize(Own(t))) \in Nat /\ FrameLen(Own(t), p) \in 0..(LenMod - 1)
    BY <1>4, FileType, FrameLenIs DEF Own, ToHeader
  <2>3. [s EXCEPT !.pc = "copy", !.at = ToHeader(p, HeaderSize(Own(t))),
                  !.len = FrameLen(Own(t), p)] \in State
    BY <1>1, <1>3, <2>2 DEF State
  <2>4. body' \in Body
    BY <1>1, <2>1, <2>2 DEF Body
  <2>5. load' \in 0..(MTU - Header)
    BY <1>1, <1>7, <2>1, Constants DEF NextFrame
  <2> QED
    BY <1>1, <1>2, <1>7, <2>1, <2>3, <2>4, <2>5 DEF NextFrame, Uses
<1>8. CASE CopyFrame(t)
  <2>1. s.at + s.len \in Nat /\ load \in Nat /\ s.len \in Nat
    BY <1>1, <1>4, Constants
  <2>2. [s EXCEPT !.pc = "count", !.at = s.at + s.len,
                  !.base = (base + 1) % SeqMod, !.sum = NextTime(stamp)] \in State
    BY <1>1, <1>3, <2>1, Ranges DEF State
  <2>3. body' \in Body
    BY <1>1, <1>4, <1>8, <2>1 DEF CopyFrame, Body
  <2>4. load' \in 0..(MTU - Header)
    BY <1>8, <2>1, Constants DEF CopyFrame, InPacket
  <2> QED
    BY <1>1, <1>2, <1>8, <2>2, <2>3, <2>4 DEF CopyFrame, Uses
<1>9. CASE Count(t)
  BY <1>1, <1>2, <1>3, <1>4, <1>9 DEF Count, Uses, To
<1>10. CASE SetHeader(t)
  <2>1. header' \in RtpHeader
    BY <1>1, <1>10, Ranges DEF SetHeader, RtpHeader
  <2>2. [s EXCEPT !.pc = "send", !.out = load] \in State
    BY <1>1, <1>3 DEF State
  <2> QED
    BY <1>1, <1>2, <1>10, <2>1, <2>2 DEF SetHeader, Uses
<1>11. CASE SendTo(t)
  <2>1. s.out + Header \in Nat
    BY <1>4, Constants
  <2>2. pkt' \in Packet
    BY <1>1, <1>4, <1>11, <2>1 DEF SendTo, Packet
  <2> QED
    BY <1>1, <1>2, <1>3, <1>4, <1>11, <2>2 DEF SendTo, To, rtp
<1>12. CASE Clear(t)
  <2>1. load' \in 0..(MTU - Header) /\ body' \in Body
    BY <1>12, Constants DEF Clear, Rewound, Empty, Body
  <2>2. PICK place \in Place : th' = [th EXCEPT ![t].pc = place]
    BY <1>3, <1>12 DEF Clear, To
  <2> QED
    BY <1>1, <1>2, <1>4, <1>12, <2>1, <2>2 DEF Clear, Uses
<1> QED
  BY <1>5, <1>6, <1>7, <1>8, <1>9, <1>10, <1>11, <1>12 DEF ThreadStep

LEMMA TypeInvHolds == Spec => []TypeInv
<1>1. TypeInv /\ [Next]_vars => TypeInv'
  <2>1. ASSUME TypeInv, UNCHANGED vars PROVE TypeInv'
    BY <2>1 DEF TypeInv, TypeOK, RoomToPlay, vars, sessionVars, rtp
  <2> QED
    BY <2>1, SessionTypes, ThreadTypes DEF Next
<1> QED
  BY <1>1, InitTypeInv, PTL DEF Spec

(* TypeOK: every value keeps its type, and load stays inside RTP_buf.      *)
THEOREM TypeCorrect == Spec => []TypeOK
<1>1. TypeInv => TypeOK
  BY DEF TypeInv
<1> QED
  BY <1>1, TypeInvHolds, PTL

----------------------------------------------------------------------------
(* Who is cancelled.                                                       *)
LEMMA OtherThreads ==
  ASSUME TypeInv, NEW t \in Thread, ThreadStep(t), NEW u \in Thread, u # t
  PROVE  th'[u] = th[u]
BY ThreadTypes DEF Moves, TypeInv, TypeOK

LEMMA SessionSilences ==
  ASSUME Inv, SessionStep
  PROVE  NotAhead' /\ \A t \in Thread : Silenced(t)'
<1>1. /\ th \in [Thread -> State] /\ tid \in 0..MaxPlays /\ MaxPlays \in Nat
      /\ \A t \in Thread : Silenced(t) /\ t \in Nat /\ th[t].cancelled \in BOOLEAN
      /\ pkt # None => pkt.by \in Nat
  BY Constants DEF Inv, TypeInv, TypeOK, Thread, State, Packet
<1>2. CASE ReadFile \/ FileRead \/ SetAacLines \/ GetRtpInfo
  <2>1. UNCHANGED <<tid, th, pkt>> /\ session' \notin {"create", "gone"}
    BY <1>2 DEF ReadFile, FileRead, SetAacLines, GetRtpInfo, Describing, Playing
  <2> QED
    BY <1>1, <2>1 DEF Inv, NotAhead, Silenced
<1>3. CASE CancelOld \/ Release
  <2>1. /\ UNCHANGED <<tid, pkt>> /\ th' = OldThread
    BY <1>3 DEF CancelOld, Release, Playing
  <2>2. ASSUME NEW t \in Thread
        PROVE  /\ th'[t].pc = th[t].pc
               /\ th'[t].cancelled <=> th[t].cancelled \/ t = tid
    BY <1>1, <2>1 DEF OldThread, State, Thread
  <2> QED
    BY <1>1, <2>1, <2>2 DEF Inv, NotAhead, Silenced
<1>4. CASE CreateThread
  <2>1. /\ session = "create" /\ session' = "idle" /\ tid' = tid + 1
        /\ th' = [th EXCEPT ![tid + 1].pc = "start"] /\ pkt' = pkt
    BY <1>4 DEF CreateThread, Playing
  <2>2. ASSUME NEW t \in Thread PROVE Silenced(t)'
    <3>1. CASE t = tid + 1
      <4>1. th'[t].pc = "start"
        BY <1>1, <2>1, <3>1
      <4> QED
        BY <1>1, <2>1, <3>1 DEF Silenced
    <3>2. CASE t # tid + 1
      <4>1. th'[t] = th[t]
        BY <1>1, <2>1, <3>2
      <4> QED
        BY <1>1, <2>1, <3>2, <4>1 DEF Silenced
    <3> QED
      BY <3>1, <3>2
  <2>3. NotAhead'
    BY <1>1, <2>1 DEF Inv, NotAhead
  <2> QED
    BY <2>2, <2>3
<1> QED
  BY <1>2, <1>3, <1>4 DEF SessionStep

LEMMA ThreadSilent ==
  ASSUME Inv, NEW t \in Thread, ThreadStep(t)
  PROVE  NotAhead' /\ \A u \in Thread : Silenced(u)'
<1>1. /\ th \in [Thread -> State] /\ \A u \in Thread : Silenced(u)
      /\ th[t] \in State /\ th' \in [Thread -> State] /\ TypeInv
  BY ThreadTypes DEF Inv, TypeInv, TypeOK
<1>2. UNCHANGED sessionVars /\ th[t].pc \in Live
  BY DEF ThreadStep, StartThread, EndOfFile, NextFrame, CopyFrame, Count,
         SetHeader, SendTo, Clear, Wake, Die, RunWild, Uses, Live, Working, Waiting
<1>3. th'[t].cancelled = th[t].cancelled
  <2>1. CASE StartThread(t) \/ NextFrame(t) \/ CopyFrame(t)
    <3>1. CASE StartThread(t)
      BY <1>1, <3>1 DEF StartThread, State
    <3>2. CASE NextFrame(t)
      BY <1>1, <3>2 DEF NextFrame, State
    <3>3. CASE CopyFrame(t)
      BY <1>1, <3>3 DEF CopyFrame, State
    <3> QED
      BY <2>1, <3>1, <3>2, <3>3
  <2>2. CASE Count(t) \/ SetHeader(t) \/ SendTo(t)
    BY <1>1, <2>2 DEF Count, SetHeader, SendTo, To, State
  <2>3. CASE EndOfFile(t) \/ Clear(t) \/ Wake(t) \/ Die(t) \/ RunWild(t)
    <3>1. PICK place : th' = [th EXCEPT ![t].pc = place]
      BY <2>3 DEF EndOfFile, Ended, Clear, Wake, Die, RunWild, To
    <3> QED
      BY <1>1, <3>1 DEF State
  <2> QED
    BY <2>1, <2>2, <2>3 DEF ThreadStep
<1>4. ASSUME NEW u \in Thread PROVE Silenced(u)'
  <2>1. CASE u = t
    <3>1. "none" \notin Live
      BY DEF Live, Working, Waiting
    <3> QED
      BY <1>1, <1>2, <1>3, <2>1, <3>1 DEF Silenced, sessionVars
  <2>2. CASE u # t
    <3>1. th'[u] = th[u]
      BY <1>1, <2>2, OtherThreads
    <3> QED
      BY <1>1, <1>2, <3>1 DEF Silenced, sessionVars
  <2> QED
    BY <2>1, <2>2
<1>5. NotAhead'
  <2>1. CASE SendTo(t)
    <3>1. t <= tid
      BY <1>1, <2>1 DEF Silenced, SendTo
    <3> QED
      BY <1>2, <2>1, <3>1 DEF SendTo, NotAhead, sessionVars
  <2>2. CASE ~SendTo(t)
    <3>1. pkt' = pkt
      BY <2>2 DEF ThreadStep, StartThread, EndOfFile, NextFrame, CopyFrame, Count,
                  SetHeader, Clear, Wake, Die, RunWild, Uses
    <3> QED
      BY <1>2, <3>1 DEF Inv, NotAhead, sessionVars
  <2> QED
    BY <2>1, <2>2
<1> QED
  BY <1>4, <1>5

LEMMA InvStep ==
  ASSUME Inv, [Next]_vars
  PROVE  Inv'
<1>1. CASE UNCHANGED vars
  BY <1>1 DEF Inv, TypeInv, TypeOK, RoomToPlay, NotAhead, Silenced, vars,
              sessionVars, rtp
<1>2. CASE Next
  BY <1>2, SessionTypes, ThreadTypes, SessionSilences, ThreadSilent DEF Next, Inv
<1> QED
  BY <1>1, <1>2

(* While nobody has used what the latest thread uses, the others can do    *)
(* nothing but die.                                                        *)
LEMMA OthersDie ==
  ASSUME Inv, NEW t \in Thread, ThreadStep(t), t # tid, ~overlap'
  PROVE  Die(t)
<1>1. Silenced(t)
  BY DEF Inv
<1> QED
  BY <1>1 DEF ThreadStep, StartThread, EndOfFile, NextFrame, CopyFrame, Count,
              SetHeader, SendTo, Clear, Wake, RunWild, Uses, Silenced, Live,
              Working, Waiting

----------------------------------------------------------------------------
(* What a thread that nobody disturbs has in the buffer, and where it is   *)
(* in its file, against the last packet.                                   *)
Sent(t) == pkt # None /\ pkt.by = t
Behind(t) == IF Sent(t) THEN End(pkt) ELSE 0
FrameAt(t, from, size) ==
  /\ from >= HeaderSize(Own(t))
  /\ IsFirst(from - HeaderSize(Own(t)), SyncsFrom(Own(t), Behind(t)))
  /\ size = FrameLen(Own(t), from - HeaderSize(Own(t)))

Follows(t) ==
  /\ Sent(t) => th[t].pc # "start"
  /\ Sent(t) /\ th[t].pc \in Live => pkt.file = th[t].file
Between(t) ==
  /\ th[t].pc \in {"next", "sleep"} => load = 0
  /\ th[t].pc \in {"clear", "sleep"} => Sent(t) /\ th[t].at = End(pkt)
  /\ th[t].pc = "next" =>
       IF Sent(t) THEN th[t].at = End(pkt) ELSE IsFirst(th[t].at, Own(t).sync)
Opened(t) ==
  th[t].pc = "copy" =>
    load = AuHeader /\ body.au = th[t].len /\ FrameAt(t, th[t].at, th[t].len)
Filled(t) ==
  /\ th[t].pc \in {"count", "head", "send"} =>
       /\ body.off = AuHeader /\ body.au = body.size
       /\ FrameAt(t, body.from, body.size)
       /\ th[t].at = body.from + body.size
  /\ th[t].pc \in {"count", "head"} => load = AuHeader + body.size
  /\ th[t].pc = "send" => th[t].out = AuHeader + body.size
Content(t) == Follows(t) /\ Between(t) /\ Opened(t) /\ Filled(t)

LEMMA SameContent ==
  ASSUME NEW t \in Thread, Content(t), UNCHANGED <<pkt, load, body>>,
         th'[t] = th[t]
  PROVE  Content(t)'
BY DEF Content, Follows, Between, Opened, Filled, FrameAt, Behind, Sent, Own

(* The state of one thread, with its types.                                *)
LEMMA Self ==
  ASSUME TypeInv, NEW t \in Thread
  PROVE  /\ th \in [Thread -> State] /\ th[t] \in State
         /\ th[t].file \in File /\ th[t].at \in Nat /\ th[t].len \in Nat
         /\ th[t].out \in Nat /\ load \in Nat /\ body \in Body
         /\ pkt # None => pkt \in Packet /\ End(pkt) \in Nat
         /\ HeaderSize(Own(t)) \in Nat /\ Own(t).size \in Nat
         /\ \A p \in Own(t).sync : p \in Nat /\ FrameLen(Own(t), p) \in Nat
<1>1. /\ th \in [Thread -> State] /\ th[t] \in State /\ th[t].file \in File
      /\ th[t].at \in Nat /\ th[t].len \in Nat /\ th[t].out \in Nat
      /\ load \in Nat /\ body \in Body
  BY Constants DEF TypeInv, TypeOK, State
<1>2. pkt # None => pkt \in Packet /\ End(pkt) \in Nat
  BY DEF TypeInv, TypeOK, Packet, Body, End
<1>3. \A p \in Own(t).sync : FrameLen(Own(t), p) \in Nat
  BY <1>1, FrameLenIs, Constants DEF Own
<1> QED
  BY <1>1, <1>2, <1>3, FileType DEF Own

(* The next frame is at the first sync word behind the last.               *)
LEMMA FrameContent ==
  ASSUME TypeInv, NEW t \in Thread, Content(t), NextFrame(t)
  PROVE  Content(t)'
<1>1. PICK p \in Own(t).sync :
        /\ IsFirst(p, SyncsFrom(Own(t), th[t].at))
        /\ th' = [th EXCEPT ![t].pc = "copy", ![t].at = ToHeader(p, HeaderSize(Own(t))),
                            ![t].len = FrameLen(Own(t), p)]
        /\ body' = [body EXCEPT !.au = FrameLen(Own(t), p)]
  BY DEF NextFrame
<1>2. /\ th[t].pc = "next" /\ pkt' = pkt /\ load = 0 /\ load' = load + AuHeader
  BY DEF NextFrame, Uses, Content, Between
<1>3. /\ th'[t].pc = "copy" /\ th'[t].file = th[t].file
      /\ th'[t].at = p + HeaderSize(Own(t)) /\ th'[t].len = FrameLen(Own(t), p)
  BY <1>1, Self DEF State, ToHeader
<1>4. body'.au = th'[t].len /\ load' = AuHeader
  BY <1>1, <1>2, <1>3, Self, Constants DEF Body
<1>5. Own(t)' = Own(t) /\ Sent(t)' = Sent(t) /\ Behind(t)' = Behind(t)
  BY <1>2, <1>3 DEF Own, Sent, Behind
<1>6. IsFirst(p, SyncsFrom(Own(t), Behind(t)))
  <2>1. CASE Sent(t)
    BY <1>1, <1>2, <2>1 DEF Content, Between, Behind
  <2>2. CASE ~Sent(t)
    <3>1. IsFirst(th[t].at, Own(t).sync) /\ Behind(t) = 0
      BY <1>2, <2>2 DEF Content, Between, Behind
    <3>2. SyncsFrom(Own(t), 0) = Own(t).sync
      BY Self DEF SyncsFrom
    <3>3. p = th[t].at
      BY <1>1, <3>1, Self DEF IsFirst, SyncsFrom
    <3> QED
      BY <3>1, <3>2, <3>3
  <2> QED
    BY <2>1, <2>2
<1>7. FrameAt(t, th'[t].at, th'[t].len)
  <2>1. th'[t].at - HeaderSize(Own(t)) = p /\ th'[t].at >= HeaderSize(Own(t))
    BY <1>3, Self
  <2> QED
    BY <1>3, <1>6, <2>1 DEF FrameAt
<1>8. Opened(t)'
  BY <1>4, <1>5, <1>7 DEF Opened, FrameAt
<1>9. Follows(t)'
  BY <1>2, <1>3 DEF Content, Follows, Sent, Live, Working
<1> QED
  BY <1>3, <1>8, <1>9 DEF Content, Between, Filled

LEMMA CopyContent ==
  ASSUME TypeInv, NEW t \in Thread, Content(t), CopyFrame(t)
  PROVE  Content(t)'
<1>1. /\ th[t].pc = "copy" /\ pkt' = pkt /\ load' = load + th[t].len
      /\ body' = [body EXCEPT !.from = th[t].at, !.size = th[t].len, !.off = load]
  BY DEF CopyFrame, Uses
<1>2. /\ th'[t].pc = "count" /\ th'[t].file = th[t].file
      /\ th'[t].at = th[t].at + th[t].len
  BY Self DEF CopyFrame, State
<1>3. load = AuHeader /\ body.au = th[t].len /\ FrameAt(t, th[t].at, th[t].len)
  BY <1>1 DEF Content, Opened
<1>4. /\ body'.off = AuHeader /\ body'.au = body'.size /\ body'.from = th[t].at
      /\ body'.size = th[t].len /\ load' = AuHeader + body'.size
  BY <1>1, <1>3, Self DEF Body
<1>5. FrameAt(t, body.from, body.size)'
  BY <1>1, <1>2, <1>3, <1>4 DEF FrameAt, Own, Behind, Sent
<1>6. Follows(t)'
  BY <1>1, <1>2 DEF Content, Follows, Sent, Live, Working
<1> QED
  BY <1>2, <1>4, <1>5, <1>6 DEF Content, Between, Opened, Filled

(* On the way to sendto() nothing of it changes.                           *)
LEMMA HeldContent ==
  ASSUME TypeInv, NEW t \in Thread, Content(t), Count(t) \/ SetHeader(t)
  PROVE  Content(t)'
<1>1. /\ th[t].pc \in {"count", "head"} /\ UNCHANGED <<pkt, load, body>>
      /\ th'[t].pc \in {"head", "send"} /\ th'[t].file = th[t].file
      /\ th'[t].at = th[t].at /\ (th'[t].pc = "send" => th'[t].out = load)
  <2>1. CASE Count(t)
    BY <2>1, Self DEF Count, Uses, To, State
  <2>2. CASE SetHeader(t)
    BY <2>2, Self DEF SetHeader, Uses, State
  <2> QED
    BY <2>1, <2>2
<1>2. FrameAt(t, body.from, body.size)'
  BY <1>1 DEF Content, Filled, FrameAt, Own, Behind, Sent
<1>3. Filled(t)'
  BY <1>1, <1>2 DEF Content, Filled
<1>4. Follows(t)'
  BY <1>1 DEF Content, Follows, Sent, Live, Working, Waiting
<1> QED
  BY <1>1, <1>3, <1>4 DEF Content, Between, Opened

(* The packet that goes out is the frame in the buffer.                    *)
LEMMA Sends ==
  ASSUME TypeInv, NEW t \in Thread, Content(t), SendTo(t)
  PROVE  /\ pkt'.by = t /\ pkt'.file = th[t].file /\ pkt'.body = body
         /\ pkt'.header = header /\ pkt' # None
         /\ pkt'.len = Header + AuHeader + body.size /\ pkt'.len <= MTU
         /\ body.off = AuHeader /\ body.au = body.size
         /\ FrameAt(t, body.from, body.size) /\ End(pkt') = th[t].at
<1>1. th[t].pc = "send" /\ th[t].out \in 0..(MTU - Header)
  BY Self DEF SendTo, State
<1>2. pkt' = [by |-> t, file |-> th[t].file, len |-> th[t].out + Header,
              body |-> body, header |-> header]
  BY DEF SendTo
<1>3. /\ body.off = AuHeader /\ body.au = body.size
      /\ FrameAt(t, body.from, body.size) /\ th[t].at = body.from + body.size
      /\ th[t].out = AuHeader + body.size
  BY <1>1 DEF Content, Filled
<1>4. body.size \in Nat
  BY Self DEF Body
<1>5. pkt'.len = Header + AuHeader + body.size /\ pkt'.len <= MTU
  BY <1>1, <1>2, <1>3, <1>4, Constants
<1>6. pkt' # None
  <2>1. th[t].file \in File /\ body \in Body /\ header \in RtpHeader
    BY DEF TypeInv, TypeOK, State
  <2>2. th[t].out + Header \in Nat
    BY <1>1, Constants
  <2>3. pkt' \in Packet
    BY <1>2, <2>1, <2>2 DEF Packet
  <2> QED
    BY <2>3, AacNoneAssumption
<1> QED
  BY <1>2, <1>3, <1>5, <1>6 DEF End

LEMMA SendContent ==
  ASSUME TypeInv, NEW t \in Thread, Content(t), SendTo(t)
  PROVE  Content(t)'
<1>1. /\ th'[t].pc = "clear" /\ th'[t].file = th[t].file /\ th'[t].at = th[t].at
  BY Self DEF SendTo, To, State
<1>2. Sent(t)' /\ pkt'.file = th'[t].file /\ End(pkt') = th'[t].at
  BY <1>1, Sends DEF Sent
<1>3. Between(t)'
  BY <1>1, <1>2 DEF Between, End
<1> QED
  BY <1>1, <1>2, <1>3 DEF Content, Follows, Opened, Filled

LEMMA PauseContent ==
  ASSUME TypeInv, NEW t \in Thread, Content(t), Clear(t) \/ Wake(t)
  PROVE  Content(t)'
<1>1. /\ th[t].pc \in {"clear", "sleep"} /\ pkt' = pkt
      /\ th'[t].file = th[t].file /\ th'[t].at = th[t].at
      /\ \/ th'[t].pc = "fault"
         \/ th'[t].pc \in {"sleep", "next"} /\ load' = 0
  <2>1. CASE Clear(t)
    BY <2>1, Self DEF Clear, Uses, To, State, Rewound
  <2>2. CASE Wake(t)
    BY <2>2, Self DEF Wake, To, State, Content, Between, rtp
  <2> QED
    BY <2>1, <2>2
<1>2. Sent(t) /\ th[t].at = End(pkt) /\ pkt.file = th[t].file
  BY <1>1 DEF Content, Between, Follows, Live, Working, Waiting
<1>3. Between(t)'
  BY <1>1, <1>2 DEF Between, Sent, End
<1> QED
  BY <1>1, <1>2, <1>3 DEF Content, Follows, Opened, Filled

LEMMA EdgeContent ==
  ASSUME TypeInv, NEW t \in Thread, Content(t),
         StartThread(t) \/ EndOfFile(t) \/ Die(t) \/ RunWild(t)
  PROVE  Content(t)'
<1>1. CASE StartThread(t)
  <2>1. PICK p \in Media[media].sync :
          /\ IsFirst(p, Media[media].sync)
          /\ th' = [th EXCEPT ![t].pc = "next", ![t].file = media, ![t].at = p]
    BY <1>1 DEF StartThread
  <2>2. th'[t].pc = "next" /\ th'[t].file = media /\ th'[t].at = p
    BY <2>1, Self DEF State
  <2>3. load' = 0 /\ pkt' = pkt /\ ~Sent(t)
    BY <1>1 DEF StartThread, Uses, Content, Follows
  <2>4. Between(t)'
    BY <2>1, <2>2, <2>3 DEF Between, Sent, Own
  <2> QED
    BY <2>2, <2>3, <2>4 DEF Content, Follows, Opened, Filled, Sent
<1>2. CASE EndOfFile(t) \/ Die(t) \/ RunWild(t)
  <2>1. th'[t].pc \in {"done", "dead", "wild"}
    BY <1>2, Self DEF EndOfFile, Die, RunWild, Ended, To, State
  <2> QED
    BY <2>1 DEF Content, Follows, Between, Opened, Filled, Live, Working, Waiting
<1> QED
  BY <1>1, <1>2

LEMMA OwnContent ==
  ASSUME TypeInv, NEW t \in Thread, Content(t), ThreadStep(t)
  PROVE  Content(t)'
BY FrameContent, CopyContent, HeldContent, SendContent, PauseContent, EdgeContent
   DEF ThreadStep

----------------------------------------------------------------------------
(* The steps of the session: a new thread starts with nothing.             *)
LEMMA SessionFrame ==
  ASSUME Inv, SessionStep, NEW u \in Thread, u = tid'
  PROVE  /\ UNCHANGED <<pkt, header, load, body, overlap>>
         /\ \/ /\ u = tid /\ th'[u].pc = th[u].pc
               /\ th'[u].file = th[u].file /\ th'[u].at = th[u].at
               /\ th'[u].len = th[u].len /\ th'[u].sum = th[u].sum
               /\ th'[u].out = th[u].out
            \/ th'[u].pc = "start" /\ ~Sent(u) /\ u # tid
<1>1. /\ th \in [Thread -> State] /\ th[u] \in State /\ tid \in Nat
      /\ pkt # None => pkt.by \in Nat /\ pkt.by <= tid
  BY Constants DEF Inv, TypeInv, TypeOK, NotAhead, Packet, Thread
<1>2. UNCHANGED <<pkt, header, load, body, overlap>>
  BY DEF SessionStep, ReadFile, FileRead, SetAacLines, GetRtpInfo, CancelOld,
         CreateThread, Release, Describing, Playing, rtp
<1>3. CASE ReadFile \/ FileRead \/ SetAacLines \/ GetRtpInfo
  BY <1>2, <1>3 DEF ReadFile, FileRead, SetAacLines, GetRtpInfo, Describing, Playing
<1>4. CASE CancelOld \/ Release
  BY <1>1, <1>2, <1>4 DEF CancelOld, Release, OldThread, State, Playing
<1>5. CASE CreateThread
  BY <1>1, <1>2, <1>5 DEF CreateThread, Playing, State, Sent
<1> QED
  BY <1>3, <1>4, <1>5 DEF SessionStep

LEMMA SessionContent ==
  ASSUME Inv, SessionStep, NEW u \in Thread, u = tid', u = tid => Content(u)
  PROVE  Content(u)'
<1>1. UNCHANGED <<pkt, load, body>>
  BY SessionFrame
<1>2. CASE th'[u].pc = "start" /\ ~Sent(u)
  BY <1>1, <1>2 DEF Content, Follows, Between, Opened, Filled, Sent
<1>3. CASE u = tid /\ th'[u].pc = th[u].pc
  <2>1. /\ th'[u].file = th[u].file /\ th'[u].at = th[u].at
        /\ th'[u].len = th[u].len /\ th'[u].out = th[u].out
    BY <1>3, SessionFrame
  <2> QED
    BY <1>1, <1>3, <2>1
       DEF Content, Follows, Between, Opened, Filled, FrameAt, Behind, Sent, Own
<1> QED
  BY <1>2, <1>3, SessionFrame

(* Numbers and times.  Between the two accesses with which a thread adds   *)
(* to the Timestamp, and between that and its packet, a PLAY may draw      *)
(* another one; how many were drawn tells.                                 *)
Stamped(t) ==
  /\ Sent(t) /\ draws = pkt.header.draw =>
       /\ th[t].pc \in {"clear", "sleep", "next", "copy"} =>
            stamp = pkt.header.time
       /\ th[t].pc = "count" => th[t].sum = NextTime(pkt.header.time)
       /\ th[t].pc = "head" => stamp = NextTime(pkt.header.time)
  /\ th[t].pc = "send" =>
       /\ draws = header.draw => stamp = header.time
       /\ Sent(t) /\ header.draw = pkt.header.draw =>
            header.time = NextTime(pkt.header.time)
Numbered(t) ==
  Sent(t) =>
    /\ th[t].pc = "send" => header.seq = NextSeq(pkt.header.seq)
    /\ th[t].pc \in Live \ {"send"} => header.seq = pkt.header.seq
Heads(t) == Stamped(t) /\ Numbered(t)
Drawn == header.draw <= draws /\ (pkt # None => pkt.header.draw <= draws)

(* Only SendTo hands out a packet; only two steps write the header.        *)
LEMMA PacketFrame ==
  ASSUME NEW t \in Thread, ThreadStep(t), ~SendTo(t)
  PROVE  pkt' = pkt
<1>1. CASE \E place : Uses(t, place)
  BY <1>1 DEF Uses
<1>2. CASE Wake(t) \/ Die(t) \/ RunWild(t)
  BY <1>2 DEF Wake, Die, RunWild
<1> QED
  BY <1>1, <1>2 DEF ThreadStep, StartThread, EndOfFile, NextFrame, CopyFrame,
                    Count, SetHeader, Clear

LEMMA HeaderFrame ==
  ASSUME NEW t \in Thread, ThreadStep(t)
  PROVE  header' = header \/ StartThread(t) \/ SetHeader(t)
<1>1. CASE EndOfFile(t) \/ Wake(t) \/ Die(t) \/ RunWild(t) \/ SendTo(t)
  BY <1>1 DEF EndOfFile, Wake, Die, RunWild, SendTo, rtp
<1>2. CASE NextFrame(t) \/ CopyFrame(t) \/ Count(t) \/ Clear(t)
  BY <1>2 DEF NextFrame, CopyFrame, Count, Clear
<1> QED
  BY <1>1, <1>2 DEF ThreadStep

LEMMA DrawTypes ==
  ASSUME TypeInv
  PROVE  /\ draws \in Nat /\ header \in RtpHeader /\ header.draw \in Nat
         /\ pkt # None => pkt.header.draw \in Nat
BY DEF TypeInv, TypeOK, RtpHeader, Packet

LEMMA DrawnStep ==
  ASSUME TypeInv, Drawn, [Next]_vars
  PROVE  Drawn'
<1>1. CASE SessionStep
  <2>1. UNCHANGED <<header, pkt>> /\ draws' \in {draws, draws + 1}
    BY <1>1 DEF SessionStep, ReadFile, FileRead, SetAacLines, GetRtpInfo,
                CancelOld, CreateThread, Release, Describing, Playing, rtp
  <2> QED
    BY <2>1, DrawTypes DEF Drawn
<1>2. ASSUME NEW t \in Thread, ThreadStep(t)
      PROVE  Drawn'
  <2>1. draws' = draws
    BY <1>2 DEF ThreadStep, StartThread, EndOfFile, NextFrame, CopyFrame, Count,
                SetHeader, SendTo, Clear, Wake, Die, RunWild, Uses, sessionVars
  <2>2. header' = header \/ header'.draw = draws
    <3>1. StartThread(t) =>
            header' = [seq |-> Swapped(base), time |-> 0, draw |-> draws]
      BY DEF StartThread
    <3>2. SetHeader(t) =>
            header' = [seq |-> NextSeq(header.seq), time |-> stamp, draw |-> draws]
      BY DEF SetHeader
    <3> QED
      BY <1>2, <3>1, <3>2, HeaderFrame
  <2>3. pkt' = pkt \/ pkt'.header = header
    BY <1>2, PacketFrame DEF SendTo
  <2> QED
    BY <2>1, <2>2, <2>3, DrawTypes DEF Drawn
<1>3. CASE UNCHANGED vars
  BY <1>3 DEF Drawn, vars, sessionVars, rtp
<1> QED
  BY <1>1, <1>2, <1>3 DEF Next

LEMMA SameHeads ==
  ASSUME NEW t \in Thread, Heads(t), UNCHANGED <<pkt, header, stamp, draws>>,
         th'[t].pc = th[t].pc, th'[t].sum = th[t].sum
  PROVE  Heads(t)'
BY DEF Heads, Stamped, Numbered, Sent

LEMMA SessionHeads ==
  ASSUME Inv, Drawn, SessionStep, NEW u \in Thread, u = tid', u = tid => Heads(u)
  PROVE  Heads(u)'
<1>1. UNCHANGED <<pkt, header>> /\ TypeInv
  BY SessionFrame DEF Inv
<1>2. CASE th'[u].pc = "start" /\ ~Sent(u)
  BY <1>1, <1>2 DEF Heads, Stamped, Numbered, Sent
<1>3. CASE u = tid /\ th'[u].pc = th[u].pc /\ th'[u].sum = th[u].sum
  <2>1. CASE UNCHANGED <<stamp, draws>>
    BY <1>1, <1>3, <2>1, SameHeads
  <2>2. CASE draws' = draws + 1
    <3>1. draws' # header.draw /\ (pkt # None => draws' # pkt.header.draw)
      BY <1>1, <2>2, DrawTypes DEF Drawn
    <3> QED
      BY <1>1, <1>3, <3>1 DEF Heads, Stamped, Numbered, Sent
  <2>3. UNCHANGED <<stamp, draws>> \/ draws' = draws + 1
    BY DEF SessionStep, ReadFile, FileRead, SetAacLines, GetRtpInfo,
           CancelOld, CreateThread, Release, Describing, Playing, rtp
  <2> QED
    BY <2>1, <2>2, <2>3
<1> QED
  BY <1>2, <1>3, SessionFrame

(* The steps of the thread itself.                                         *)
LEMMA OwnHeads ==
  ASSUME TypeInv, NEW t \in Thread, Content(t), Heads(t), ThreadStep(t)
  PROVE  Heads(t)'
<1>1. draws' = draws
  BY DEF ThreadStep, StartThread, EndOfFile, NextFrame, CopyFrame, Count,
         SetHeader, SendTo, Clear, Wake, Die, RunWild, Uses, sessionVars
<1>2. CASE StartThread(t)
  <2>1. ~Sent(t) /\ pkt' = pkt
    BY <1>2 DEF StartThread, Uses, Content, Follows
  <2>2. th'[t].pc = "next"
    BY <1>2, Self DEF StartThread, State
  <2> QED
    BY <2>1, <2>2 DEF Heads, Stamped, Numbered, Sent
<1>3. CASE NextFrame(t) \/ Clear(t) \/ Wake(t)
  <2>1. /\ th[t].pc \in {"clear", "sleep", "next"} /\ UNCHANGED <<pkt, header, stamp>>
        /\ th'[t].pc \in {"fault", "sleep", "next", "copy"}
    <3>1. CASE NextFrame(t)
      BY <3>1, Self DEF NextFrame, Uses, State
    <3>2. CASE Clear(t)
      BY <3>2, Self DEF Clear, Uses, To, State
    <3>3. CASE Wake(t)
      BY <3>3, Self DEF Wake, rtp, To, State
    <3> QED
      BY <1>3, <3>1, <3>2, <3>3
  <2> QED
    BY <1>1, <2>1 DEF Heads, Stamped, Numbered, Sent, Live, Working, Waiting
<1>4. CASE CopyFrame(t)
  <2>1. /\ th[t].pc = "copy" /\ UNCHANGED <<pkt, header, stamp>>
        /\ th'[t].pc = "count" /\ th'[t].sum = NextTime(stamp)
    BY <1>4, Self DEF CopyFrame, Uses, State
  <2> QED
    BY <1>1, <2>1 DEF Heads, Stamped, Numbered, Sent, Live, Working, Waiting
<1>5. CASE Count(t)
  <2>1. /\ th[t].pc = "count" /\ UNCHANGED <<pkt, header>>
        /\ th'[t].pc = "head" /\ stamp' = th[t].sum
    BY <1>5, Self DEF Count, Uses, To, State
  <2> QED
    BY <1>1, <2>1 DEF Heads, Stamped, Numbered, Sent, Live, Working, Waiting
<1>6. CASE SetHeader(t)
  <2>1. /\ th[t].pc = "head" /\ UNCHANGED <<pkt, stamp>> /\ th'[t].pc = "send"
        /\ header' = [seq |-> NextSeq(header.seq), time |-> stamp, draw |-> draws]
    BY <1>6, Self DEF SetHeader, Uses, State
  <2>2. header'.seq = NextSeq(header.seq) /\ header'.time = stamp /\ header'.draw = draws
    BY <2>1
  <2>3. Sent(t) => header.seq = pkt.header.seq
    BY <2>1 DEF Heads, Numbered, Live, Working
  <2>4. Sent(t) /\ draws = pkt.header.draw => stamp = NextTime(pkt.header.time)
    BY <2>1 DEF Heads, Stamped
  <2> QED
    BY <1>1, <2>1, <2>2, <2>3, <2>4 DEF Heads, Stamped, Numbered, Sent
<1>7. CASE SendTo(t)
  <2>1. th[t].pc = "send" /\ UNCHANGED <<header, stamp>> /\ th'[t].pc = "clear"
    BY <1>7, Self DEF SendTo, rtp, To, State
  <2>2. pkt'.header = header
    BY <1>7, Sends
  <2> QED
    BY <1>1, <2>1, <2>2 DEF Heads, Stamped, Numbered
<1>8. CASE EndOfFile(t) \/ Die(t) \/ RunWild(t)
  <2>1. th'[t].pc \in {"done", "dead", "wild"}
    BY <1>8, Self DEF EndOfFile, Die, RunWild, Ended, To, State
  <2> QED
    BY <2>1 DEF Heads, Stamped, Numbered, Live, Working, Waiting
<1> QED
  BY <1>2, <1>3, <1>4, <1>5, <1>6, <1>7, <1>8 DEF ThreadStep

----------------------------------------------------------------------------
(* A packet is a frame by the length get_frame_len reads, right or wrong.  *)
PacketAsRead ==
  pkt # None /\ ~overlap =>
    /\ pkt.body.from >= HeaderSize(Media[pkt.file])
    /\ SyncOf(pkt) \in Media[pkt.file].sync
    /\ pkt.body.size = FrameLen(Media[pkt.file], SyncOf(pkt))
    /\ pkt.body.au = pkt.body.size /\ pkt.body.off = AuHeader
    /\ pkt.len = Header + AuHeader + pkt.body.size /\ pkt.len <= MTU

(* All of it, for the latest thread as long as no other disturbs it.       *)
ContentInv ==
  /\ Inv /\ Drawn /\ PacketAsRead
  /\ ~overlap => \A t \in Thread : t = tid => Content(t) /\ Heads(t)

LEMMA ThreadContent ==
  ASSUME ContentInv, NEW t \in Thread, ThreadStep(t), ~overlap',
         NEW u \in Thread, u = tid'
  PROVE  Content(u)' /\ Heads(u)'
<1>1. Inv /\ TypeInv /\ tid' = tid /\ draws' = draws /\ ~overlap
  <2>1. UNCHANGED sessionVars
    BY DEF ThreadStep, StartThread, EndOfFile, NextFrame, CopyFrame, Count,
           SetHeader, SendTo, Clear, Wake, Die, RunWild, Uses
  <2>2. ~overlap
    BY DEF ThreadStep, StartThread, EndOfFile, NextFrame, CopyFrame, Count,
           SetHeader, SendTo, Clear, Wake, Die, RunWild, Uses
  <2> QED
    BY <2>1, <2>2 DEF ContentInv, Inv, sessionVars
<1>2. Content(u) /\ Heads(u)
  BY <1>1 DEF ContentInv
<1>3. CASE t = u
  BY <1>1, <1>2, <1>3, OwnContent, OwnHeads
<1>4. CASE t # u
  <2>1. Die(t)
    BY <1>1, <1>4, OthersDie
  <2>2. UNCHANGED <<pkt, header, stamp, load, body>>
    BY <2>1 DEF Die, rtp
  <2>3. th'[u] = th[u]
    BY <1>1, <1>4, OtherThreads
  <2> QED
    BY <1>1, <1>2, <2>2, <2>3, SameContent, SameHeads
<1> QED
  BY <1>3, <1>4

(* A packet goes out by the latest thread, or something is disturbed.      *)
LEMMA Outgoing ==
  ASSUME ContentInv, [Next]_vars, pkt' # pkt, ~overlap'
  PROVE  \E t \in Thread :
           /\ SendTo(t) /\ t = tid /\ tid' = tid /\ ~overlap
           /\ Content(t) /\ Heads(t)
<1>1. ~SessionStep /\ ~UNCHANGED vars
  BY DEF SessionStep, ReadFile, FileRead, SetAacLines, GetRtpInfo, CancelOld,
         CreateThread, Release, Describing, Playing, vars
<1>2. PICK t \in Thread : ThreadStep(t)
  BY <1>1 DEF Next
<1>3. SendTo(t)
  BY <1>2, PacketFrame
<1>4. UNCHANGED <<tid, overlap>>
  BY <1>3 DEF SendTo, sessionVars
<1>5. t = tid
  <2>1. CASE t # tid
    <3>1. Die(t)
      BY <1>2, <2>1, OthersDie DEF ContentInv
    <3> QED
      BY <3>1 DEF Die
  <2> QED
    BY <2>1
<1> QED
  BY <1>3, <1>4, <1>5 DEF ContentInv

LEMMA OverlapStays ==
  ASSUME [Next]_vars, overlap
  PROVE  overlap'
<1>1. CASE SessionStep
  BY <1>1 DEF SessionStep, ReadFile, FileRead, SetAacLines, GetRtpInfo,
              CancelOld, CreateThread, Release, Describing, Playing
<1>2. ASSUME NEW t \in Thread, ThreadStep(t)
      PROVE  overlap'
  BY <1>2 DEF ThreadStep, StartThread, EndOfFile, NextFrame, CopyFrame, Count,
              SetHeader, SendTo, Clear, Wake, Die, RunWild, Uses
<1> QED
  BY <1>1, <1>2 DEF Next, vars

LEMMA FrameSent ==
  ASSUME ContentInv, [Next]_vars
  PROVE  PacketAsRead'
<1> SUFFICES ASSUME pkt' # None, ~overlap' PROVE PacketAsRead'
  BY DEF PacketAsRead
<1>1. CASE pkt' = pkt
  BY <1>1, OverlapStays DEF ContentInv, PacketAsRead, SyncOf
<1>2. CASE pkt' # pkt
  <2>1. PICK t \in Thread : SendTo(t) /\ Content(t)
    BY <1>2, Outgoing
  <2>2. TypeInv
    BY DEF ContentInv, Inv
  <2>3. /\ pkt'.file = th[t].file /\ pkt'.body = body
        /\ pkt'.len = Header + AuHeader + body.size /\ pkt'.len <= MTU
        /\ body.off = AuHeader /\ body.au = body.size
        /\ FrameAt(t, body.from, body.size)
    BY <2>1, <2>2, Sends
  <2>4. /\ body.from >= HeaderSize(Media[pkt'.file]) /\ SyncOf(pkt') \in Media[pkt'.file].sync
        /\ body.size = FrameLen(Media[pkt'.file], SyncOf(pkt'))
    BY <2>3 DEF FrameAt, IsFirst, SyncsFrom, SyncOf, Own
  <2> QED
    BY <2>3, <2>4 DEF PacketAsRead
<1> QED
  BY <1>1, <1>2

LEMMA ContentHolds == Spec => []ContentInv
<1>1. Init => ContentInv
  <2> SUFFICES ASSUME Init PROVE ContentInv
    OBVIOUS
  <2>1. TypeInv
    BY InitTypeInv
  <2>2. \A t \in Thread : Silenced(t) /\ t # tid
    BY Constants DEF Init, Thread, Silenced, Idle, Live, Working, Waiting
  <2>3. Drawn /\ NotAhead /\ PacketAsRead
    BY DEF Init, Drawn, NotAhead, PacketAsRead
  <2> QED
    BY <2>1, <2>2, <2>3 DEF ContentInv, Inv
<1>2. ContentInv /\ [Next]_vars => ContentInv'
  <2> SUFFICES ASSUME ContentInv, [Next]_vars PROVE ContentInv'
    OBVIOUS
  <2>1. Inv' /\ Drawn' /\ PacketAsRead' /\ Inv /\ TypeInv
    BY InvStep, DrawnStep, FrameSent DEF ContentInv, Inv
  <2>2. ASSUME ~overlap', NEW u \in Thread, u = tid'
        PROVE  Content(u)' /\ Heads(u)'
    <3>1. ~overlap
      BY <2>2, OverlapStays
    <3>2. CASE UNCHANGED vars
      <4>1. Content(u) /\ Heads(u)
        BY <2>2, <3>1, <3>2 DEF ContentInv, vars, sessionVars
      <4> QED
        BY <3>2, <4>1, SameContent, SameHeads DEF vars, sessionVars, rtp
    <3>3. CASE SessionStep
      <4>1. u = tid => Content(u) /\ Heads(u)
        BY <2>2, <3>1 DEF ContentInv
      <4> QED
        BY <2>1, <2>2, <3>3, <4>1, SessionContent, SessionHeads DEF ContentInv
    <3>4. ASSUME NEW t \in Thread, ThreadStep(t)
          PROVE  Content(u)' /\ Heads(u)'
      BY <2>2, <3>4, ThreadContent
    <3> QED
      BY <3>2, <3>3, <3>4 DEF Next
  <2> QED
    BY <2>1, <2>2 DEF ContentInv
<1> QED
  BY <1>1, <1>2, PTL DEF Spec

(* What a packet of a file that can be read carries, and where its frame   *)
(* ends: by the length in its header.                                      *)
LEMMA ReadFrame ==
  ASSUME ContentInv, pkt # None, ~overlap
  PROVE  /\ Readable(Media[pkt.file]) =>
              ShortHeader + pkt.body.size = Media[pkt.file].len[SyncOf(pkt)]
         /\ FrameEnd(pkt) = End(pkt)
<1>1. /\ pkt \in Packet /\ SyncOf(pkt) \in Media[pkt.file].sync
      /\ pkt.body.size = FrameLen(Media[pkt.file], SyncOf(pkt))
  BY DEF ContentInv, PacketAsRead, Inv, TypeInv, TypeOK
<1>2. /\ pkt.file \in File /\ pkt.body.from \in Nat /\ pkt.body.size \in Nat
      /\ ShortHeader \in Nat
  BY <1>1, AacAssumption DEF Packet, Body, AacAssumption
<1>3. CASE Readable(Media[pkt.file])
  <2>1. /\ ~HasCrc(Media[pkt.file])
        /\ ShortHeader <= Media[pkt.file].len[SyncOf(pkt)]
        /\ Media[pkt.file].len[SyncOf(pkt)] \in Nat
    BY <1>1, <1>2, <1>3, FileType DEF Readable
  <2>2. pkt.body.size = Media[pkt.file].len[SyncOf(pkt)] - ShortHeader
    BY <1>1, <1>2, <2>1, FrameLenIs
  <2>3. SyncOf(pkt) = pkt.body.from - ShortHeader
    BY <2>1, ShortWithoutCrc DEF SyncOf
  <2>4. ShortHeader + pkt.body.size = Media[pkt.file].len[SyncOf(pkt)]
    BY <1>2, <2>1, <2>2
  <2>5. FrameEnd(pkt) = pkt.body.from - ShortHeader + Media[pkt.file].len[SyncOf(pkt)]
    BY <1>3, <2>3 DEF FrameEnd
  <2>6. FrameEnd(pkt) = pkt.body.from + pkt.body.size
    BY <1>2, <2>1, <2>2, <2>5
  <2> QED
    BY <2>4, <2>6 DEF End
<1> QED
  BY <1>3 DEF FrameEnd

(* PacketIsFrame: AU header, payload and length of the packet say the same *)
(* for every file, and so does, where there is no CRC, the header in the   *)
(* file.                                                                   *)
THEOREM PacketsAreFrames == Spec => []PacketIsFrame
<1>1. ContentInv => PacketIsFrame
  BY ReadFrame DEF ContentInv, PacketAsRead, PacketIsFrame
<1> QED
  BY <1>1, ContentHolds, PTL

(* NumbersAdvance: numbers are consecutive and the time of a packet is a   *)
(* frame after that of the one before, though the session draws both anew  *)
(* while the thread adds them up.                                          *)
THEOREM NumbersDoAdvance == Spec => NumbersAdvance
<1> DEFINE A ==
      pkt' # pkt /\ pkt # None /\ ~overlap' /\ pkt'.by = pkt.by =>
        /\ pkt'.header.seq = (pkt.header.seq + 1) % SeqMod
        /\ pkt'.header.draw = pkt.header.draw =>
             pkt'.header.time = (pkt.header.time + FrameSize) % TimeMod
<1>1. ContentInv /\ [Next]_vars => A
  <2> SUFFICES ASSUME ContentInv, [Next]_vars, pkt' # pkt, pkt # None, ~overlap',
                      pkt'.by = pkt.by
               PROVE  A
    OBVIOUS
  <2>1. PICK t \in Thread : SendTo(t) /\ Content(t) /\ Heads(t)
    BY Outgoing
  <2>2. pkt'.by = t /\ pkt'.header = header
    BY <2>1, Sends DEF ContentInv, Inv
  <2>3. Sent(t) /\ th[t].pc = "send"
    BY <2>1, <2>2 DEF Sent, SendTo
  <2>4. header.seq = (pkt.header.seq + 1) % SeqMod
    BY <2>1, <2>3 DEF Heads, Numbered, NextSeq
  <2>5. header.draw = pkt.header.draw =>
          header.time = (pkt.header.time + FrameSize) % TimeMod
    BY <2>1, <2>3 DEF Heads, Stamped, NextTime
  <2> QED
    BY <2>2, <2>4, <2>5
<1>2. ContentInv /\ [Next]_vars => [A]_vars
  BY <1>1
<1> QED
  BY <1>2, ContentHolds, PTL DEF Spec, NumbersAdvance

(* What ends in "done" has come to the end of the file.                    *)
LEMMA OnlyEnd ==
  ASSUME Inv, [Next]_vars, NEW t \in Thread, th[t].pc = "next", th'[t].pc = "done"
  PROVE  EndOfFile(t)
<1>1. th \in [Thread -> State] /\ th[t] \in State /\ TypeInv
  BY DEF Inv, TypeInv, TypeOK
<1>2. ~SessionStep
  <2>1. CASE ReadFile \/ FileRead \/ SetAacLines \/ GetRtpInfo
    BY <2>1 DEF ReadFile, FileRead, SetAacLines, GetRtpInfo, Describing, Playing
  <2>2. CASE CancelOld \/ Release
    BY <1>1, <2>2 DEF CancelOld, Release, OldThread, State, Playing
  <2>3. CASE CreateThread
    BY <1>1, <2>3 DEF CreateThread, State
  <2> QED
    BY <2>1, <2>2, <2>3 DEF SessionStep
<1>3. PICK u \in Thread : ThreadStep(u)
  BY <1>2 DEF Next, vars
<1>4. u = t
  BY <1>1, <1>3, OtherThreads
<1>5. CASE NextFrame(t)
  BY <1>1, <1>5 DEF NextFrame, State
<1>6. CASE RunWild(t)
  BY <1>1, <1>6 DEF RunWild, To, State
<1> QED
  BY <1>3, <1>4, <1>5, <1>6
     DEF ThreadStep, StartThread, CopyFrame, Count, SetHeader, SendTo, Clear,
         Wake, Die, Uses, Waiting

(* FramesInOrder: the next frame is at the first sync word behind this     *)
(* one, and a stream that ends has sent the last.                          *)
THEOREM FramesDoInOrder == Spec => FramesInOrder
<1> DEFINE A ==
      ~overlap' =>
        /\ pkt' # pkt =>
             IsFirst(SyncOf(pkt'), SyncsFrom(Media[pkt'.file],
               IF pkt = None \/ pkt'.by # pkt.by THEN 0 ELSE FrameEnd(pkt)))
        /\ \A t \in Thread :
             th[t].pc = "next" /\ th'[t].pc = "done" /\ sized = th[t].file =>
               pkt # None /\ pkt.by = t /\ FrameEnd(pkt) >= Media[sized].size
<1>1. ContentInv /\ [Next]_vars => A
  <2> SUFFICES ASSUME ContentInv, [Next]_vars, ~overlap' PROVE A
    OBVIOUS
  <2>1. Inv /\ TypeInv
    BY DEF ContentInv, Inv
  <2>2. ASSUME pkt' # pkt
        PROVE  IsFirst(SyncOf(pkt'), SyncsFrom(Media[pkt'.file],
                 IF pkt = None \/ pkt'.by # pkt.by THEN 0 ELSE FrameEnd(pkt)))
    <3>1. PICK t \in Thread : SendTo(t) /\ Content(t)
      BY <2>2, Outgoing
    <3>2. /\ pkt'.by = t /\ pkt'.file = th[t].file /\ pkt'.body = body
          /\ FrameAt(t, body.from, body.size)
      BY <2>1, <3>1, Sends
    <3>3. Sent(t) => FrameEnd(pkt) = End(pkt)
      BY <2>1, <2>2, OverlapStays, ReadFrame DEF Sent
    <3> QED
      BY <3>2, <3>3 DEF FrameAt, Behind, Sent, Own, SyncOf
  <2>3. ASSUME NEW t \in Thread, th[t].pc = "next", th'[t].pc = "done",
               sized = th[t].file
        PROVE  pkt # None /\ pkt.by = t /\ FrameEnd(pkt) >= Media[sized].size
    <3>1. EndOfFile(t)
      BY <2>1, <2>3, OnlyEnd
    <3>2. t = tid /\ ~overlap /\ th[t].at >= Own(t).size
      BY <2>3, <3>1 DEF EndOfFile, Uses, Own
    <3>3. Content(t)
      BY <3>2 DEF ContentInv
    <3>4. CASE ~Sent(t)
      <4>1. th[t].at \in Own(t).sync
        BY <2>3, <3>3, <3>4 DEF Content, Between, IsFirst
      <4> QED
        BY <2>1, <3>2, <4>1, Self, FileType DEF Own
    <3>5. CASE Sent(t)
      BY <2>3, <3>2, <3>3, <3>5, ReadFrame DEF Content, Between, Sent, Own
    <3> QED
      BY <3>4, <3>5
  <2> QED
    BY <2>2, <2>3
<1>2. ContentInv /\ [Next]_vars => [A]_vars
  BY <1>1
<1> QED
  BY <1>2, ContentHolds, PTL DEF Spec, FramesInOrder

----------------------------------------------------------------------------
(* Going astray.  Nothing but a DESCRIBE takes the size and the media from *)
(* under a thread.                                                         *)
SizeKnown == session # "reading" => sized = media
SwitchSeen == session = "reading" /\ tid > 0 => switched
FileKept ==
  ~switched =>
    \A t \in Thread : th[t].pc \in Live \ {"start"} => th[t].file = media
CauseInv == SizeKnown /\ SwitchSeen /\ FileKept

LEMMA CauseStep ==
  ASSUME Inv, CauseInv, [Next]_vars
  PROVE  /\ CauseInv' /\ (switched => switched') /\ (freed => freed')
         /\ media' # media => switched' \/ tid = 0
<1>1. /\ th \in [Thread -> State] /\ tid \in Nat /\ TypeInv
      /\ \A t \in Thread : Silenced(t) /\ t \in Nat /\ t > 0 /\ th[t] \in State
  BY Constants DEF Inv, TypeInv, TypeOK, Thread
<1>0. "none" \notin Live
  BY DEF Live, Working, Waiting
<1> USE DEF CauseInv, SizeKnown, SwitchSeen
<1>2. CASE ReadFile \/ SetAacLines \/ GetRtpInfo
  <2>1. UNCHANGED <<media, th, tid, freed>>
    BY <1>2 DEF ReadFile, SetAacLines, GetRtpInfo, Describing, Playing
  <2>2. (switched => switched') /\ (ReadFile /\ tid > 0 => switched')
    BY <1>2 DEF ReadFile, SetAacLines, GetRtpInfo, Playing
  <2>3. FileKept'
    BY <2>1, <2>2 DEF FileKept
  <2>4. CASE ReadFile
    BY <2>1, <2>2, <2>3, <2>4 DEF ReadFile, Describing
  <2>5. CASE SetAacLines \/ GetRtpInfo
    BY <2>1, <2>2, <2>3, <2>5 DEF SetAacLines, GetRtpInfo, Describing, Playing
  <2> QED
    BY <1>2, <2>4, <2>5
<1>3. CASE FileRead
  <2>1. /\ session = "reading" /\ media' = sized /\ session' # "reading"
        /\ UNCHANGED <<sized, th, tid, switched, freed>>
    BY <1>3 DEF FileRead, Describing
  <2>2. switched \/ \A t \in Thread : th[t].pc = "none"
    BY <1>1, <2>1 DEF Silenced
  <2> QED
    BY <1>0, <1>1, <2>1, <2>2 DEF FileKept
<1>4. CASE CancelOld \/ Release
  <2>1. /\ th' = OldThread /\ session \in {"cancel", "idle"}
        /\ session' \in {"create", "gone"}
        /\ UNCHANGED <<sized, media, tid, switched>> /\ (freed => freed')
    BY <1>4 DEF CancelOld, Release, Playing
  <2>2. \A t \in Thread : th'[t].pc = th[t].pc /\ th'[t].file = th[t].file
    BY <1>1, <2>1 DEF OldThread, State
  <2> QED
    BY <2>1, <2>2 DEF FileKept
<1>5. CASE CreateThread
  <2>1. /\ th' = [th EXCEPT ![tid + 1].pc = "start"] /\ session = "create"
        /\ session' = "idle" /\ UNCHANGED <<sized, media, switched, freed>>
    BY <1>5 DEF CreateThread, Playing
  <2>2. \A t \in Thread : th'[t].pc = "start" \/ th'[t] = th[t]
    BY <1>1, <2>1 DEF State
  <2> QED
    BY <2>1, <2>2 DEF FileKept
<1>6. ASSUME NEW t \in Thread, ThreadStep(t)
      PROVE  CauseInv' /\ UNCHANGED <<switched, freed, media>>
  <2>1. UNCHANGED sessionVars
    BY <1>6 DEF ThreadStep, StartThread, EndOfFile, NextFrame, CopyFrame, Count,
                SetHeader, SendTo, Clear, Wake, Die, RunWild, Uses
  <2>2. th'[t].pc \in Live \ {"start"} =>
          \/ th'[t].file = media
          \/ th[t].pc \in Live \ {"start"} /\ th'[t].file = th[t].file
    <3>1. CASE StartThread(t)
      BY <1>1, <3>1 DEF StartThread, State
    <3>2. CASE NextFrame(t)
      BY <1>1, <3>2 DEF NextFrame, Uses, State, Live, Working
    <3>3. CASE CopyFrame(t)
      BY <1>1, <3>3 DEF CopyFrame, Uses, State, Live, Working
    <3>4. CASE SetHeader(t)
      BY <1>1, <3>4 DEF SetHeader, Uses, State, Live, Working
    <3>5. CASE Count(t) \/ SendTo(t) \/ Clear(t) \/ Wake(t)
      <4>1. th[t].pc \in Live \ {"start"}
        BY <3>5 DEF Count, SendTo, Clear, Wake, Uses, Live, Working, Waiting
      <4>2. PICK place : th' = [th EXCEPT ![t].pc = place]
        BY <3>5 DEF Count, SendTo, Clear, Wake, To
      <4> QED
        BY <1>1, <4>1, <4>2 DEF State
    <3>6. CASE EndOfFile(t) \/ Die(t) \/ RunWild(t)
      <4>1. th'[t].pc \in {"done", "dead", "wild"}
        BY <1>1, <3>6 DEF EndOfFile, Ended, Die, RunWild, To, State
      <4> QED
        BY <4>1 DEF Live, Working, Waiting
    <3> QED
      BY <1>6, <3>1, <3>2, <3>3, <3>4, <3>5, <3>6 DEF ThreadStep
  <2>3. \A u \in Thread : u # t => th'[u] = th[u]
    BY <1>1, <1>6, OtherThreads
  <2>4. FileKept'
    <3> SUFFICES ASSUME ~switched, NEW u \in Thread, th'[u].pc \in Live \ {"start"}
                 PROVE  th'[u].file = media
      BY <2>1 DEF FileKept, sessionVars
    <3> QED
      BY <2>2, <2>3 DEF FileKept
  <2> QED
    BY <2>1, <2>4 DEF sessionVars
<1>7. CASE UNCHANGED vars
  BY <1>7 DEF vars, sessionVars, FileKept
<1> QED
  BY <1>2, <1>3, <1>4, <1>5, <1>6, <1>7 DEF Next, SessionStep

(* Of a sound file the rest is frames, from the first and from each frame  *)
(* on, and a frame is all there and fits.                                  *)
LEMMA SoundFrame ==
  ASSUME TypeInv, NEW t \in Thread, Streamable(Own(t)), NEW p \in Own(t).sync
  PROVE  /\ p + HeaderSize(Own(t)) <= Own(t).size
         /\ p + HeaderSize(Own(t)) + FrameLen(Own(t), p) = p + Own(t).len[p]
         /\ p + Own(t).len[p] <= Own(t).size
         /\ Header + AuHeader + FrameLen(Own(t), p) <= MTU
         /\ p + Own(t).len[p] = Own(t).size \/ SyncsFrom(Own(t), p + Own(t).len[p]) # {}
<1>1. ~HasCrc(Own(t)) /\ SizeAt(Own(t), p) = ShortHeader /\ HeaderSize(Own(t)) = ShortHeader
  BY ShortWithoutCrc DEF Streamable, HasCrc, SizeAt
<1>2. /\ ShortHeader <= Own(t).len[p] /\ p + Own(t).len[p] <= Own(t).size
      /\ Header + AuHeader + (Own(t).len[p] - ShortHeader) <= MTU
      /\ p + Own(t).len[p] = Own(t).size \/ SyncsFrom(Own(t), p + Own(t).len[p]) # {}
  BY <1>1 DEF Streamable, Sound
<1>3. FrameLen(Own(t), p) = Own(t).len[p] - ShortHeader
  BY <1>1, <1>2, Self, FrameLenIs DEF Own
<1>4. /\ p \in Nat /\ Own(t).len[p] \in Nat /\ ShortHeader \in Nat /\ Own(t).size \in Nat
  BY Self, FileType, AacAssumption DEF Own, AacAssumption
<1> QED
  BY <1>1, <1>2, <1>3, <1>4

(* The thread that nobody disturbs stays in a sound file.                  *)
LEMMA StaysInside ==
  ASSUME ContentInv, CauseInv, NEW t \in Thread, t = tid, ~overlap, ~freed, ~switched,
         Streamable(Media[th[t].file]), Streamable(Media[media])
  PROVE  ~RunWild(t)
<1> SUFFICES ASSUME th[t].pc \in Working, Strays(t)
             PROVE  FALSE
  BY DEF RunWild
<1>1. Content(t) /\ TypeInv /\ Streamable(Own(t)) /\ PacketAsRead
  BY DEF ContentInv, Inv, Own
<1>2. session # "reading" /\ sized = media
  <2>1. tid \in Nat /\ tid > 0
    BY Constants DEF Thread
  <2> QED
    BY <2>1 DEF CauseInv, SwitchSeen, SizeKnown
<1>3. CASE th[t].pc = "start"
  BY <1>2, <1>3 DEF Strays, Streamable, Sound
<1>4. CASE th[t].pc = "copy"
  <2>1. load = AuHeader /\ FrameAt(t, th[t].at, th[t].len)
    BY <1>1, <1>4 DEF Content, Opened
  <2>2. PICK p \in Own(t).sync :
          th[t].at = p + HeaderSize(Own(t)) /\ th[t].len = FrameLen(Own(t), p)
    <3>1. th[t].at - HeaderSize(Own(t)) \in Own(t).sync
      BY <2>1 DEF FrameAt, IsFirst, SyncsFrom
    <3> QED
      BY <1>1, <2>1, <3>1, Self DEF FrameAt
  <2>3. InFile(t) /\ InPacket(t)
    BY <1>1, <2>1, <2>2, SoundFrame, Self, Constants DEF InFile, InPacket
  <2> QED
    BY <1>4, <2>3 DEF Strays
<1>5. CASE th[t].pc = "next"
  <2>1. load = 0 /\ th[t].file = media /\ Media[sized].size = Own(t).size
    BY <1>1, <1>2, <1>5
       DEF Content, Between, CauseInv, FileKept, Live, Working, Own
  <2>2. th[t].at >= Own(t).size \/ SyncsFrom(Own(t), th[t].at) # {}
    <3>1. CASE Sent(t)
      <4>1. /\ th[t].at = End(pkt) /\ pkt.file = th[t].file
            /\ SyncOf(pkt) \in Own(t).sync
            /\ pkt.body.size = FrameLen(Own(t), SyncOf(pkt))
        BY <1>1, <1>5, <3>1
           DEF Content, Between, Follows, PacketAsRead, Live, Working, Own, Sent
      <4>2. End(pkt) = SyncOf(pkt) + HeaderSize(Own(t)) + pkt.body.size
        <5>1. pkt.body.from \in Nat /\ pkt.body.size \in Nat /\ HeaderSize(Own(t)) \in Nat
          BY <1>1, <3>1, Self DEF Packet, Body, Sent
        <5> QED
          BY <4>1, <5>1 DEF End, SyncOf, Own
      <4> QED
        BY <1>1, <4>1, <4>2, SoundFrame, Self
    <3>2. CASE ~Sent(t)
      <4>1. th[t].at \in Own(t).sync
        BY <1>5, <1>1, <3>2 DEF Content, Between, IsFirst
      <4>2. th[t].at \in SyncsFrom(Own(t), th[t].at)
        BY <1>1, <4>1, Self DEF SyncsFrom
      <4> QED
        BY <4>2
    <3> QED
      BY <3>1, <3>2
  <2>3. \A p \in Own(t).sync : ~(p + HeaderSize(Own(t)) > Own(t).size + 1)
    BY <1>1, SoundFrame, Self
  <2>4. ~(load + AuHeader + Header > MTU)
    BY <2>1, Constants
  <2> QED
    BY <1>5, <2>1, <2>2, <2>3, <2>4, <1>1, Self DEF Strays
<1> QED
  BY <1>3, <1>4, <1>5 DEF Strays

(* How a thread gets to "wild" and to "fault".                             *)
LEMMA Astray ==
  ASSUME Inv, [Next]_vars, NEW t \in Thread
  PROVE  /\ th'[t].pc = "wild" =>
              RunWild(t) \/ (th[t].pc = "wild" /\ th'[t].file = th[t].file)
         /\ th'[t].pc = "fault" => Clear(t) \/ UNCHANGED vars
<1>1. th \in [Thread -> State] /\ th[t] \in State /\ TypeInv
  BY DEF Inv, TypeInv, TypeOK
<1>2. CASE SessionStep
  <2>1. th'[t].pc = "start" \/ (th'[t].pc = th[t].pc /\ th'[t].file = th[t].file)
    <3>1. CASE ReadFile \/ FileRead \/ SetAacLines \/ GetRtpInfo
      BY <3>1 DEF ReadFile, FileRead, SetAacLines, GetRtpInfo, Describing, Playing
    <3>2. CASE CancelOld \/ Release
      BY <1>1, <3>2 DEF CancelOld, Release, OldThread, State, Playing
    <3>3. CASE CreateThread
      BY <1>1, <3>3 DEF CreateThread, State
    <3> QED
      BY <1>2, <3>1, <3>2, <3>3 DEF SessionStep
  <2> QED
    BY <1>2, <2>1 DEF SessionStep, Alive
<1>3. ASSUME NEW u \in Thread, ThreadStep(u), u # t
      PROVE  th'[t] = th[t] /\ th[t].pc # "fault"
  BY <1>1, <1>3, OtherThreads DEF ThreadStep, Alive
<1>4. CASE ThreadStep(t)
  <2>1. CASE RunWild(t)
    BY <1>1, <2>1 DEF RunWild, To, State
  <2>2. CASE EndOfFile(t) \/ Wake(t) \/ Die(t) \/ Count(t) \/ SendTo(t)
    <3>1. PICK place \in {"done", "next", "dead", "head", "clear"} :
            th' = [th EXCEPT ![t].pc = place]
      BY <2>2 DEF EndOfFile, Ended, Wake, Die, Count, SendTo, To
    <3> QED
      BY <1>1, <3>1 DEF State
  <2>3. CASE StartThread(t)
    BY <1>1, <2>3 DEF StartThread, State
  <2>4. CASE NextFrame(t)
    BY <1>1, <2>4 DEF NextFrame, State
  <2>5. CASE CopyFrame(t)
    BY <1>1, <2>5 DEF CopyFrame, State
  <2>6. CASE SetHeader(t)
    BY <1>1, <2>6 DEF SetHeader, State
  <2>7. CASE Clear(t)
    BY <1>1, <2>7 DEF Clear, To, State
  <2> QED
    BY <1>4, <2>1, <2>2, <2>3, <2>4, <2>5, <2>6, <2>7 DEF ThreadStep
<1>5. CASE UNCHANGED vars
  BY <1>5 DEF vars
<1> QED
  BY <1>2, <1>3, <1>4, <1>5 DEF Next

LEMMA TroubleStep ==
  ASSUME ContentInv, CauseInv, TroubleHasCause, [Next]_vars
  PROVE  TroubleHasCause'
<1>1. /\ Inv /\ TypeInv /\ (switched => switched') /\ (freed => freed')
      /\ media' # media => switched' \/ tid = 0
  BY CauseStep DEF ContentInv, Inv
<1>2. ASSUME NEW t \in Thread, th'[t].pc = "wild",
             ~overlap', ~freed', ~switched', Streamable(Media[th'[t].file])
      PROVE  ~Streamable(Media[media'])
  <2>1. ~overlap /\ ~freed /\ ~switched
    BY <1>1, <1>2, OverlapStays
  <2>2. CASE th[t].pc = "wild" /\ th'[t].file = th[t].file
    <3>1. ~Streamable(Media[media])
      BY <1>2, <2>1, <2>2 DEF TroubleHasCause
    <3>2. tid # 0
      BY <1>1, <2>2, Constants DEF Inv, Silenced, Thread, TypeInv, TypeOK
    <3> QED
      BY <1>1, <1>2, <3>1, <3>2
  <2>3. CASE RunWild(t)
    <3>1. UNCHANGED <<media, tid>> /\ t = tid /\ th'[t].file = th[t].file
      <4>1. th[t] \in State /\ th \in [Thread -> State]
        BY <1>1 DEF TypeInv, TypeOK
      <4> QED
        BY <1>2, <2>3, <4>1 DEF RunWild, sessionVars, To, State
    <3> QED
      BY <1>2, <2>1, <2>3, <3>1, StaysInside
  <2> QED
    BY <1>1, <1>2, <2>2, <2>3, Astray
<1>3. ASSUME NEW t \in Thread, th'[t].pc = "fault", ~switched', rated' = media'
      PROVE  Media[media'].rate = 0
  <2>1. CASE Clear(t)
    <3>1. UNCHANGED <<media, rated>> /\ media # 0
      BY <1>1, <2>1, Constants DEF Clear, Uses, sessionVars, TypeInv, TypeOK
    <3>2. CASE Rate = 0
      BY <1>3, <3>1, <3>2 DEF Rate
    <3>3. CASE Rate # 0
      <4>1. th' = [th EXCEPT ![t].pc = "sleep"]
        BY <2>1, <3>3 DEF Clear, To
      <4>2. th'[t].pc = "sleep"
        BY <1>1, <4>1 DEF TypeInv, TypeOK, State
      <4> QED
        BY <1>3, <4>2
    <3> QED
      BY <3>2, <3>3
  <2>2. CASE UNCHANGED vars
    BY <1>3, <2>2 DEF TroubleHasCause, vars, sessionVars
  <2> QED
    BY <1>1, <1>3, <2>1, <2>2, Astray
<1> QED
  BY <1>2, <1>3 DEF TroubleHasCause

(* TroubleHasCause: the stream of a sound file stays inside its buffers    *)
(* unless it is overtaken, released, or has the file changed under it.     *)
THEOREM OnlyDisturbedStray == Spec => []TroubleHasCause
<1>1. Init => CauseInv /\ TroubleHasCause
  <2> SUFFICES ASSUME Init PROVE CauseInv /\ TroubleHasCause
    OBVIOUS
  <2>1. \A t \in Thread : th[t].pc = "none"
    BY DEF Init, Idle
  <2> QED
    BY <2>1 DEF Init, CauseInv, SizeKnown, SwitchSeen, FileKept, TroubleHasCause,
                Live, Working, Waiting
<1>2. ContentInv /\ CauseInv /\ TroubleHasCause /\ [Next]_vars =>
        CauseInv' /\ TroubleHasCause'
  BY CauseStep, TroubleStep DEF ContentInv
<1> QED
  BY <1>1, <1>2, ContentHolds, PTL DEF Spec

----------------------------------------------------------------------------
(* A stream comes to its end: every step of a thread takes its pointer on, *)
(* and not past the end of its file, or takes it to a later place of the   *)
(* same frame; nothing takes it back.                                      *)

Over == {"done", "dead", "wild", "fault"}

(* The places of a frame, in their order.                                  *)
Turn == [copy |-> 6, count |-> 5, head |-> 4, send |-> 3, clear |-> 2, sleep |-> 1,
         next |-> 0]

Nearer(a, b) ==
  \/ b.pc \in Over
  \/ a.pc = "start" /\ b.pc = "next"
  \/ /\ a.pc \in DOMAIN Turn /\ b.pc \in DOMAIN Turn /\ b.file = a.file
     /\ \/ a.at < b.at /\ b.at <= Media[b.file].size + 1
        \/ b.at = a.at /\ Turn[b.pc] < Turn[a.pc]

(* A step is one of another, pthread_cancel, pthread_create, or nearer.    *)
GoesOn(t) ==
  \/ th'[t] = th[t]
  \/ th'[t] = [th[t] EXCEPT !.cancelled = TRUE]
  \/ th[t].pc = "none" /\ th'[t].pc = "start"
  \/ th[t].pc \notin Over /\ Nearer(th[t], th'[t])

(* From each place, the steps a cancelled thread may still take.           *)
UntilDead == [start |-> 6, next |-> 5, copy |-> 4, count |-> 3, head |-> 2, clear |-> 2,
              sleep |-> 1, send |-> 1]

DiesSoon(t) ==
  th[t].pc \in Live /\ th[t].cancelled /\ th'[t] # th[t] =>
    \/ th'[t].pc \in Over
    \/ UntilDead[th'[t].pc] < UntilDead[th[t].pc]

StreamsGoOn == [][\A t \in Thread : GoesOn(t) /\ DiesSoon(t)]_vars

LEMMA SessionGoesOn ==
  ASSUME Inv, SessionStep, NEW t \in Thread
  PROVE  GoesOn(t) /\ DiesSoon(t)
<1>1. th \in [Thread -> State] /\ th[t] \in State /\ Silenced(t) /\ tid \in Nat /\ t \in Nat
  BY Constants DEF Inv, TypeInv, TypeOK, Thread
<1>2. CASE UNCHANGED th
  BY <1>2 DEF GoesOn, DiesSoon
<1>3. CASE CancelOld \/ Release
  <2>1. th' = OldThread
    BY <1>3 DEF CancelOld, Release
  <2>2. th'[t] = th[t] \/ th'[t] = [th[t] EXCEPT !.cancelled = TRUE]
    BY <1>1, <2>1 DEF OldThread
  <2>3. th[t].cancelled => [th[t] EXCEPT !.cancelled = TRUE] = th[t]
    BY <1>1 DEF State
  <2> QED
    BY <2>2, <2>3 DEF GoesOn, DiesSoon
<1>4. CASE CreateThread
  <2>1. th' = [th EXCEPT ![tid + 1].pc = "start"]
    BY <1>4 DEF CreateThread
  <2>2. CASE t = tid + 1
    <3>1. th[t].pc = "none" /\ th'[t].pc = "start"
      BY <1>1, <2>1, <2>2 DEF Silenced, State
    <3> QED
      BY <3>1 DEF GoesOn, DiesSoon, Live, Working, Waiting
  <2>3. CASE t # tid + 1
    <3>1. th'[t] = th[t]
      BY <1>1, <2>1, <2>3
    <3> QED
      BY <3>1 DEF GoesOn, DiesSoon
  <2> QED
    BY <2>2, <2>3
<1> QED
  BY <1>2, <1>3, <1>4 DEF SessionStep, ReadFile, FileRead, SetAacLines, GetRtpInfo,
                          Describing, Playing

LEMMA ThreadGoesOn ==
  ASSUME Inv, NEW t \in Thread, ThreadStep(t)
  PROVE  GoesOn(t) /\ DiesSoon(t)
<1>1. /\ th \in [Thread -> State] /\ th[t] \in State /\ th[t].file \in File
      /\ th[t].at \in Nat /\ th[t].len \in Nat /\ Own(t).size \in Nat /\ HeaderSize(Own(t)) \in Nat
      /\ \A p \in Own(t).sync : p \in Nat
      /\ HeaderSize(Own(t)) > 0
  BY Self, FileType DEF Inv, Own
<1>2. CASE EndOfFile(t) \/ Die(t) \/ RunWild(t)
  <2>1. th'[t].pc \in Over
    BY <1>1, <1>2 DEF EndOfFile, Die, RunWild, Ended, To, State, Over
  <2>2. th[t].pc \notin Over
    BY <1>2 DEF EndOfFile, Die, RunWild, Uses, Working, Waiting, Over
  <2> QED
    BY <2>1, <2>2 DEF GoesOn, DiesSoon, Nearer
<1>3. CASE StartThread(t)
  <2>1. th[t].pc = "start" /\ th'[t].pc = "next"
    BY <1>1, <1>3 DEF StartThread, Uses, State
  <2> QED
    BY <2>1 DEF GoesOn, DiesSoon, Nearer, Over, UntilDead
<1>4. CASE NextFrame(t)
  <2>1. PICK p \in Own(t).sync :
          /\ th[t].at <= p /\ p + HeaderSize(Own(t)) <= Own(t).size + 1
          /\ th' = [th EXCEPT ![t].pc = "copy", ![t].at = p + HeaderSize(Own(t)),
                              ![t].len = FrameLen(Own(t), p)]
    BY <1>1, <1>4 DEF NextFrame, IsFirst, SyncsFrom, ToHeader
  <2>2. /\ th[t].pc = "next" /\ th'[t].pc = "copy" /\ th'[t].file = th[t].file
        /\ th'[t].at = p + HeaderSize(Own(t))
    BY <1>1, <1>4, <2>1 DEF NextFrame, Uses, State
  <2>3. th[t].at < th'[t].at /\ th'[t].at <= Media[th'[t].file].size + 1
    BY <1>1, <2>1, <2>2 DEF Own
  <2> QED
    BY <2>2, <2>3 DEF GoesOn, DiesSoon, Nearer, Over, Turn, UntilDead
<1>5. CASE CopyFrame(t)
  <2>1. /\ th[t].pc = "copy" /\ th'[t].pc = "count" /\ th'[t].file = th[t].file
        /\ th'[t].at = th[t].at + th[t].len
        /\ th[t].len = 0 \/ th[t].at + th[t].len <= Own(t).size
    BY <1>1, <1>5 DEF CopyFrame, InFile, Uses, State
  <2>2. \/ th'[t].at = th[t].at
        \/ th[t].at < th'[t].at /\ th'[t].at <= Media[th'[t].file].size + 1
    BY <1>1, <2>1 DEF Own
  <2> QED
    BY <2>1, <2>2 DEF GoesOn, DiesSoon, Nearer, Over, Turn, UntilDead
<1>6. CASE Count(t) \/ SetHeader(t) \/ SendTo(t) \/ Wake(t)
  <2>1. /\ th'[t].file = th[t].file /\ th'[t].at = th[t].at
        /\ \/ th[t].pc = "count" /\ th'[t].pc = "head"
           \/ th[t].pc = "head" /\ th'[t].pc = "send"
           \/ th[t].pc = "send" /\ th'[t].pc = "clear" /\ ~th[t].cancelled
           \/ th[t].pc = "sleep" /\ th'[t].pc = "next" /\ ~th[t].cancelled
    BY <1>1, <1>6 DEF Count, SetHeader, SendTo, Wake, To, Uses, State
  <2> QED
    BY <2>1 DEF GoesOn, DiesSoon, Nearer, Over, Turn, UntilDead
<1>7. CASE Clear(t)
  <2>1. /\ th[t].pc = "clear" /\ th'[t].file = th[t].file /\ th'[t].at = th[t].at
        /\ th'[t].pc \in {"sleep", "fault"}
    BY <1>1, <1>7 DEF Clear, To, Uses, State
  <2> QED
    BY <2>1 DEF GoesOn, DiesSoon, Nearer, Over, Turn, UntilDead
<1> QED
  BY <1>2, <1>3, <1>4, <1>5, <1>6, <1>7 DEF ThreadStep

(* Every stream comes to an end, whatever the file says of its frames and  *)
(* whatever the others do: each step of a thread brings it nearer, an      *)
(* empty frame too, and a cancelled thread takes six more steps at the     *)
(* most (AAC_transport.c:21-98).                                           *)
THEOREM StreamsComeToEnd == Spec => StreamsGoOn
<1>1. Inv /\ [Next]_vars => [\A t \in Thread : GoesOn(t) /\ DiesSoon(t)]_vars
  <2> SUFFICES ASSUME Inv, Next, NEW u \in Thread PROVE GoesOn(u) /\ DiesSoon(u)
    OBVIOUS
  <2>1. CASE SessionStep
    BY <2>1, SessionGoesOn
  <2>2. ASSUME NEW t \in Thread, ThreadStep(t) PROVE GoesOn(u) /\ DiesSoon(u)
    <3>1. CASE u = t
      BY <2>2, <3>1, ThreadGoesOn
    <3>2. CASE u # t
      <4>1. th'[u] = th[u]
        BY <2>2, <3>2, OtherThreads DEF Inv
      <4> QED
        BY <4>1 DEF GoesOn, DiesSoon
    <3> QED
      BY <3>1, <3>2
  <2> QED
    BY <2>1, <2>2 DEF Next
<1>2. Spec => []Inv
  BY ContentHolds, PTL DEF ContentInv
<1> QED
  BY <1>1, <1>2, PTL DEF Spec, StreamsGoOn
=============================================================================
