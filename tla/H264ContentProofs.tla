------------------------- MODULE H264ContentProofs --------------------------
(***************************************************************************)
(* Theorems about what the packets of H264Stream hold: the NAL units of    *)
(* the file, in order and whole, for every MTU and every list of files.    *)
(*                                                                         *)
(* They hold as long as no cancelled thread has used the packet buffer     *)
(* under the next one, so the invariant speaks of the latest thread only.  *)
(***************************************************************************)
EXTENDS H264StreamProofs

(* A NAL unit is cut only if more is left of it than a first fragment.     *)
Long(t) ==
  th[t].pc \in {"fragment"} \cup Packing /\ th[t].off = 1 => th[t].left > Room

Sent(t) == pkt # None /\ pkt.by = t

(* What the thread has put in the buffer, before and after the fragment.   *)
Opened(t) ==
  th[t].pc = "fragment" =>
    /\ load.kind = "fu" /\ ~load.e /\ load.nal = th[t].at
    /\ load.s <=> th[t].off = 1
Filled(t) ==
  th[t].pc \in Packing =>
    /\ load.nal = th[t].at /\ load.from = th[t].off
    /\ th[t].off = 0 => load.kind = "single"
    /\ th[t].off > 0 => /\ load.kind = "fu" /\ (load.s <=> th[t].off = 1)
                        /\ load.e <=> th[t].piece = th[t].left
    /\ th[t].mark <=> /\ th[t].piece = th[t].left
                      /\ Nals(t)[th[t].at].slice
Headed(t) == th[t].pc = "send" => (header.m <=> th[t].mark)
(* What is in the buffer has been sent, and is not yet cleared.            *)
Handed(t) ==
  th[t].pc = "clear" =>
    /\ Sent(t) /\ pkt.load = load /\ Bytes(pkt) = th[t].piece
    /\ Ends(pkt) <=> th[t].piece = th[t].left

(* How the last packet of the thread and its place in the file go together.*)
FirstOf(t) == th[t].off <= 1
Follows(t) ==
  /\ Sent(t) => th[t].pc # "start"
  /\ th[t].pc = "start" => th[t].at = 0
  /\ th[t].pc = "next" =>
       IF Sent(t) THEN Ends(pkt) /\ pkt.load.nal = th[t].at ELSE th[t].at = 0
  /\ th[t].pc \in InNal \ {"clear"} /\ FirstOf(t) =>
       IF Sent(t) THEN Ends(pkt) /\ th[t].at = pkt.load.nal + 1
       ELSE th[t].at = 1
  /\ th[t].pc \in InNal \ {"clear"} /\ ~FirstOf(t) =>
       /\ Sent(t) /\ ~Ends(pkt) /\ pkt.load.nal = th[t].at
       /\ pkt.load.from + Bytes(pkt) = th[t].off

Content(t) == Opened(t) /\ Filled(t) /\ Headed(t) /\ Handed(t) /\ Follows(t)
NotAhead == pkt # None => pkt.by <= tid
Fresh == \A t \in Thread : th[t].pc = "none" => th[t].at = 0

ContentInv ==
  /\ Inv /\ \A t \in Thread : Long(t)
  /\ NotAhead /\ Fresh /\ PacketWellFormed
  /\ ~overlap => \A t \in Thread : t = tid => Content(t)


----------------------------------------------------------------------------
(* What each step of a thread does to its own state.                       *)
LEMMA Own ==
  ASSUME TypeInv, NEW t \in Thread
  PROVE  /\ th \in [Thread -> State] /\ th[t] \in State /\ ThreadInv(t)
         /\ th[t].at \in Nat /\ th[t].off \in Nat /\ th[t].left \in Nat
         /\ th[t].piece \in Nat /\ th[t].mark \in BOOLEAN
         /\ MTU \in Nat /\ MTU > 14 /\ Room = MTU - 14
         /\ Header = 12 /\ FuHeader = 2
BY Constants DEF TypeInv, TypeOK, State, Room, Header, FuHeader

Same(t) ==
  /\ th'[t].file = th[t].file /\ th'[t].at = th[t].at
  /\ th'[t].off = th[t].off
LEMMA EffectOfNal ==
  ASSUME TypeInv, NEW t \in Thread
  PROVE  /\ StartThread(t) => /\ th[t].pc = "start" /\ th'[t].pc = "next"
                              /\ th'[t].at = th[t].at /\ UNCHANGED <<pkt, load>>
         /\ NextNal(t) => /\ th[t].pc = "next" /\ th'[t].pc \in {"tick", "load"}
                          /\ th'[t].at = th[t].at + 1 /\ th'[t].off = 0
                          /\ UNCHANGED <<pkt, header, load>>
         /\ SetTimestamp(t) \/ Wake(t) =>
              /\ th[t].pc \in {"tick", "sleep"} /\ th'[t].pc \in {"sleep", "load"}
              /\ Same(t) /\ UNCHANGED <<pkt, header, load>>
         /\ EndOfFile(t) \/ Die(t) \/ RunWild(t) =>
              /\ th'[t].pc \in {"done", "dead", "wild"}
              /\ UNCHANGED <<pkt, header, load>>
<1>1. th \in [Thread -> State] /\ th[t] \in State
  BY Own
<1>2. StartThread(t) => /\ th[t].pc = "start" /\ th'[t].pc = "next"
                       /\ th'[t].at = th[t].at /\ UNCHANGED <<pkt, load>>
  BY <1>1 DEF StartThread, Uses, State
<1>3. NextNal(t) => /\ th[t].pc = "next" /\ th'[t].pc \in {"tick", "load"}
                   /\ th'[t].at = th[t].at + 1 /\ th'[t].off = 0
                   /\ UNCHANGED <<pkt, header, load>>
  BY <1>1 DEF NextNal, Uses, State, rtp
<1>4. SetTimestamp(t) \/ Wake(t) =>
        /\ th[t].pc \in {"tick", "sleep"} /\ th'[t].pc \in {"sleep", "load"}
        /\ Same(t) /\ UNCHANGED <<pkt, header, load>>
  BY <1>1 DEF SetTimestamp, Wake, Uses, State, rtp, Same
<1>5. EndOfFile(t) \/ Die(t) \/ RunWild(t) =>
        /\ th'[t].pc \in {"done", "dead", "wild"}
        /\ UNCHANGED <<pkt, header, load>>
  BY <1>1 DEF EndOfFile, Die, RunWild, Ended, Idle, Uses, State, rtp
<1> QED
  BY <1>2, <1>3, <1>4, <1>5

LEMMA EffectOfPacket ==
  ASSUME TypeInv, NEW t \in Thread
  PROVE  /\ LoadSingle(t) =>
              /\ th[t].pc = "load" /\ th'[t].pc = "head" /\ Same(t)
              /\ th'[t].left = th[t].left /\ th'[t].piece = th[t].left
              /\ th'[t].mark = Nals(t)[th[t].at].slice
              /\ load'.nal = th[t].at /\ load'.kind = "single" /\ load'.from = 0
              /\ UNCHANGED pkt
         /\ LoadFirst(t) =>
              /\ th[t].pc = "load" /\ th'[t].pc = "fragment"
              /\ th'[t].file = th[t].file /\ th'[t].at = th[t].at
              /\ th'[t].off = 1 /\ th'[t].left = th[t].left - 1
              /\ th[t].left > MTU - Header
              /\ load'.nal = th[t].at /\ load'.kind = "fu" /\ load'.s /\ ~load'.e
              /\ UNCHANGED pkt
         /\ Fragment(t) =>
              /\ th[t].pc = "fragment" /\ th'[t].pc = "head" /\ Same(t)
              /\ th'[t].left = th[t].left /\ th'[t].piece = Room
              /\ th'[t].mark = FALSE /\ ~FitsPacket(th[t].left)
              /\ load' = [load EXCEPT !.from = th[t].off] /\ UNCHANGED pkt
         /\ LastFragment(t) =>
              /\ th[t].pc = "fragment" /\ th'[t].pc = "head" /\ Same(t)
              /\ th'[t].left = th[t].left /\ th'[t].piece = th[t].left
              /\ th'[t].mark = Nals(t)[th[t].at].slice
              /\ FitsPacket(th[t].left)
              /\ load' = [load EXCEPT !.from = th[t].off, !.e = TRUE]
              /\ UNCHANGED pkt
         /\ SetHeader(t) =>
              /\ th[t].pc = "head" /\ th'[t].pc = "send" /\ Same(t)
              /\ th'[t].left = th[t].left /\ th'[t].piece = th[t].piece
              /\ th'[t].mark = th[t].mark /\ header'.m = th[t].mark
              /\ UNCHANGED <<pkt, load>>
<1>1. th \in [Thread -> State] /\ th[t] \in State
  BY Own
<1>2. LoadSingle(t) =>
        /\ th[t].pc = "load" /\ th'[t].pc = "head" /\ Same(t)
        /\ th'[t].left = th[t].left /\ th'[t].piece = th[t].left
        /\ th'[t].mark = Nals(t)[th[t].at].slice
        /\ load'.nal = th[t].at /\ load'.kind = "single" /\ load'.from = 0
        /\ UNCHANGED pkt
  BY <1>1 DEF LoadSingle, Uses, State, Same
<1>3. LoadFirst(t) =>
        /\ th[t].pc = "load" /\ th'[t].pc = "fragment"
        /\ th'[t].file = th[t].file /\ th'[t].at = th[t].at
        /\ th'[t].off = 1 /\ th'[t].left = th[t].left - 1
        /\ th[t].left > MTU - Header
        /\ load'.nal = th[t].at /\ load'.kind = "fu" /\ load'.s /\ ~load'.e
        /\ UNCHANGED pkt
  BY <1>1 DEF LoadFirst, Uses, State
<1>4. Fragment(t) =>
        /\ th[t].pc = "fragment" /\ th'[t].pc = "head" /\ Same(t)
        /\ th'[t].left = th[t].left /\ th'[t].piece = Room
        /\ th'[t].mark = FALSE /\ ~FitsPacket(th[t].left)
        /\ load' = [load EXCEPT !.from = th[t].off] /\ UNCHANGED pkt
  BY <1>1 DEF Fragment, Uses, State, Same
<1>5. LastFragment(t) =>
        /\ th[t].pc = "fragment" /\ th'[t].pc = "head" /\ Same(t)
        /\ th'[t].left = th[t].left /\ th'[t].piece = th[t].left
        /\ th'[t].mark = Nals(t)[th[t].at].slice
        /\ FitsPacket(th[t].left)
        /\ load' = [load EXCEPT !.from = th[t].off, !.e = TRUE]
        /\ UNCHANGED pkt
  BY <1>1 DEF LastFragment, Uses, State, Same
<1>6. SetHeader(t) =>
        /\ th[t].pc = "head" /\ th'[t].pc = "send" /\ Same(t)
        /\ th'[t].left = th[t].left /\ th'[t].piece = th[t].piece
        /\ th'[t].mark = th[t].mark /\ header'.m = th[t].mark
        /\ UNCHANGED <<pkt, load>>
  BY <1>1 DEF SetHeader, Uses, State, Same
<1> QED
  BY <1>2, <1>3, <1>4, <1>5, <1>6

LEMMA EffectOfSend ==
  ASSUME TypeInv, NEW t \in Thread, SendTo(t)
  PROVE  /\ th[t].pc = "send" /\ th'[t].pc = "clear" /\ Same(t)
         /\ th'[t].left = th[t].left /\ th'[t].piece = th[t].piece
         /\ th'[t].mark = th[t].mark
         /\ pkt'.by = t /\ pkt'.file = th[t].file /\ pkt'.len = Length(t)
         /\ pkt'.load = load /\ pkt'.header = header /\ pkt' # None
         /\ UNCHANGED <<load, header>>
<1>1. th \in [Thread -> State] /\ th[t] \in State
  BY Own
<1>2. pkt' \in Packet
  <2>1. /\ th[t].file \in File /\ th[t].piece \in Nat /\ th[t].off \in Nat
        /\ load \in Load /\ header \in RtpHeader
    BY <1>1 DEF TypeInv, TypeOK, State
  <2>2. Length(t) \in Nat
    BY <2>1 DEF Length, Header, FuHeader
  <2> QED
    BY <2>1, <2>2 DEF SendTo, Packet
<1>3. pkt' # None
  BY <1>2, NoneAssumption DEF NoneAssumption
<1> QED
  BY <1>1, <1>3 DEF SendTo, State, Same, rtp

LEMMA EffectOfClear ==
  ASSUME TypeInv, NEW t \in Thread, ClearBuffer(t)
  PROVE  /\ th[t].pc = "clear" /\ th'[t].file = th[t].file
         /\ th'[t].at = th[t].at /\ UNCHANGED <<pkt, header>>
         /\ th[t].piece < th[t].left =>
              /\ th'[t].pc = "fragment" /\ th'[t].off = th[t].off + th[t].piece
              /\ th'[t].left = th[t].left - th[t].piece
              /\ load' = [Cleared EXCEPT !.s = FALSE]
         /\ ~(th[t].piece < th[t].left) => th'[t].pc = "next"
<1>1. th \in [Thread -> State] /\ th[t] \in State
  BY Own
<1> QED
  BY <1>1 DEF ClearBuffer, Uses, Advanced, State

----------------------------------------------------------------------------
LEMMA LongKept ==
  ASSUME TypeInv, \A u \in Thread : Long(u), [Next]_vars
  PROVE  \A u \in Thread : Long(u)'
<1> SUFFICES ASSUME NEW u \in Thread PROVE Long(u)'
  OBVIOUS
<1>1. /\ Long(u) /\ th \in [Thread -> State] /\ th[u] \in State
      /\ th[u].off \in Nat /\ th[u].left \in Nat /\ th[u].piece \in Nat
      /\ ThreadInv(u) /\ MTU \in Nat /\ MTU > 14 /\ Room = MTU - 14
      /\ Header = 12
  BY Own
<1>2. Room' = Room
  BY DEF Room
<1>3. CASE th'[u].pc \notin {"fragment"} \cup Packing
  BY <1>3 DEF Long
<1>4. CASE /\ th'[u].off = th[u].off /\ th'[u].left = th[u].left
           /\ th'[u].pc = th[u].pc
  BY <1>1, <1>2, <1>4 DEF Long
<1>5. ASSUME SessionStep \/ UNCHANGED vars PROVE Long(u)'
  <2>1. \/ th' = th \/ th' = OldThread \/ CreateThread
    BY <1>5 DEF SessionStep, ReadFile, FileRead, GetRtpInfo, CancelOld,
                Release, vars
  <2>2. \/ th'[u].pc = "start"
        \/ /\ th'[u].off = th[u].off /\ th'[u].left = th[u].left
           /\ th'[u].pc = th[u].pc
    BY <1>1, <2>1 DEF OldThread, CreateThread, State
  <2> QED
    BY <1>3, <1>4, <2>2 DEF Packing
<1>6. ASSUME NEW t \in Thread, t # u, ThreadStep(t) PROVE Long(u)'
  <2>1. th'[u] = th[u]
    BY <1>6, ThreadTypes, OtherThreads
  <2> QED
    BY <1>4, <2>1
<1>7. ASSUME ThreadStep(u) PROVE Long(u)'
  <2>1. CASE StartThread(u) \/ NextNal(u) \/ SetTimestamp(u) \/ Wake(u)
             \/ EndOfFile(u) \/ Die(u) \/ RunWild(u)
    BY <1>3, <2>1, EffectOfNal DEF Packing
  <2>2. CASE LoadSingle(u)
    <3>1. th[u].pc = "load" /\ th'[u].off = th[u].off
      BY <2>2, EffectOfPacket DEF Same
    <3>2. th'[u].off = 0
      BY <1>1, <3>1 DEF ThreadInv, Whole
    <3> QED
      BY <3>2 DEF Long
  <2>3. CASE LoadFirst(u)
    <3>1. th'[u].left = th[u].left - 1 /\ th[u].left > MTU - 12
      BY <1>1, <2>3, EffectOfPacket
    <3>2. th'[u].left > Room
      BY <1>1, <3>1
    <3> QED
      BY <1>2, <3>2 DEF Long
  <2>4. CASE Fragment(u) \/ LastFragment(u) \/ SetHeader(u) \/ SendTo(u)
    BY <1>1, <1>2, <2>4, EffectOfPacket, EffectOfSend DEF Long, Same, Packing
  <2>5. CASE ClearBuffer(u)
    <3>1. CASE th[u].piece < th[u].left
      <4>1. th[u].off > 0 /\ th[u].piece > 0
        BY <1>1, <2>5, <3>1, EffectOfClear DEF ThreadInv, Piece, Packing
      <4>2. th'[u].off # 1
        BY <1>1, <2>5, <3>1, <4>1, EffectOfClear
      <4> QED
        BY <4>2 DEF Long
    <3> QED
      BY <1>3, <2>5, <3>1, EffectOfClear DEF Packing
  <2> QED
    BY <1>7, <2>1, <2>2, <2>3, <2>4, <2>5 DEF ThreadStep
<1> QED
  BY <1>5, <1>6, <1>7 DEF Next

(* The latest thread's own steps.                                          *)
LEMMA OwnContent ==
  ASSUME Inv, NEW t \in Thread, Long(t), Content(t), ThreadStep(t)
  PROVE  Content(t)'
<1>1. /\ TypeInv /\ ThreadInv(t) /\ ThreadInv(t)'
      /\ th[t].at \in Nat /\ th[t].off \in Nat /\ th[t].left \in Nat
      /\ th[t].piece \in Nat /\ MTU \in Nat /\ MTU > 14 /\ Room = MTU - 14
      /\ Header = 12 /\ FuHeader = 2
  BY Own, OwnThread DEF Inv
<1>2. load \in Load /\ th[t].mark \in BOOLEAN
  BY <1>1, Own DEF TypeInv, TypeOK
<1> USE DEF Content
<1>3. CASE StartThread(t)
  <2>1. /\ th[t].pc = "start" /\ th'[t].pc = "next" /\ th'[t].at = th[t].at
        /\ pkt' = pkt
    BY <1>1, <1>3, EffectOfNal
  <2>2. th[t].at = 0 /\ ~Sent(t)
    BY <2>1 DEF Follows
  <2> QED
    BY <2>1, <2>2
       DEF Opened, Filled, Headed, Handed, Follows, Packing, InNal, Sent
<1>4. CASE NextNal(t)
  <2>1. /\ th[t].pc = "next" /\ th'[t].pc \in {"tick", "load"}
        /\ th'[t].at = th[t].at + 1 /\ th'[t].off = 0 /\ pkt' = pkt
    BY <1>1, <1>4, EffectOfNal
  <2> QED
    BY <1>1, <2>1
       DEF Opened, Filled, Headed, Handed, Follows, FirstOf, Packing, InNal, Sent,
           Ends, Bytes
<1>5. CASE SetTimestamp(t) \/ Wake(t)
  <2>1. /\ th[t].pc \in {"tick", "sleep"} /\ th'[t].pc \in {"sleep", "load"}
        /\ th'[t].at = th[t].at /\ th'[t].off = th[t].off /\ pkt' = pkt
    BY <1>1, <1>5, EffectOfNal DEF Same
  <2> QED
    BY <1>1, <2>1
       DEF Opened, Filled, Headed, Handed, Follows, FirstOf, Packing, InNal, Sent,
           Ends, Bytes
<1>6. CASE EndOfFile(t) \/ Die(t) \/ RunWild(t)
  BY <1>1, <1>6, EffectOfNal
     DEF Opened, Filled, Headed, Handed, Follows, Packing, InNal
<1>7. CASE LoadSingle(t)
  <2>1. /\ th[t].pc = "load" /\ th'[t].pc = "head"
        /\ th'[t].file = th[t].file /\ th'[t].at = th[t].at
        /\ th'[t].off = th[t].off
        /\ th'[t].left = th[t].left /\ th'[t].piece = th[t].left
        /\ th'[t].mark = Nals(t)[th[t].at].slice
        /\ load'.nal = th[t].at /\ load'.kind = "single" /\ load'.from = 0
        /\ pkt' = pkt
    BY <1>1, <1>7, EffectOfPacket DEF Same
  <2>2. th[t].off = 0
    BY <1>1, <2>1 DEF ThreadInv, Whole
  <2>3. Opened(t)' /\ Headed(t)' /\ Handed(t)'
    BY <2>1 DEF Opened, Headed, Handed
  <2>4. Filled(t)'
    BY <2>1, <2>2 DEF Filled, Nals
  <2>5. Follows(t)'
    BY <1>1, <2>1, <2>2 DEF Follows, FirstOf, InNal, Sent, Ends, Bytes
  <2> QED
    BY <2>3, <2>4, <2>5
<1>8. CASE LoadFirst(t)
  <2>1. /\ th[t].pc = "load" /\ th'[t].pc = "fragment"
        /\ th'[t].at = th[t].at /\ th'[t].off = 1
        /\ load'.nal = th[t].at /\ load'.kind = "fu" /\ load'.s /\ ~load'.e
        /\ pkt' = pkt
    BY <1>1, <1>8, EffectOfPacket
  <2>2. th[t].off = 0
    BY <1>1, <2>1 DEF ThreadInv, Whole
  <2>3. Opened(t)' /\ Headed(t)' /\ Handed(t)' /\ Filled(t)'
    BY <2>1 DEF Opened, Headed, Handed, Filled, Packing
  <2>4. Follows(t)'
    BY <1>1, <2>1, <2>2 DEF Follows, FirstOf, InNal, Sent, Ends, Bytes
  <2> QED
    BY <2>3, <2>4
<1>9. CASE Fragment(t) \/ LastFragment(t)
  <2>1. /\ th[t].pc = "fragment" /\ th'[t].pc = "head"
        /\ th'[t].file = th[t].file /\ th'[t].at = th[t].at
        /\ th'[t].off = th[t].off /\ th'[t].left = th[t].left
        /\ pkt' = pkt
        /\ \/ /\ th'[t].piece = Room /\ th'[t].mark = FALSE
              /\ ~FitsPacket(th[t].left)
              /\ load' = [load EXCEPT !.from = th[t].off]
           \/ /\ th'[t].piece = th[t].left
              /\ th'[t].mark = Nals(t)[th[t].at].slice
              /\ load' = [load EXCEPT !.from = th[t].off, !.e = TRUE]
    BY <1>1, <1>9, EffectOfPacket DEF Same
  <2>2. th[t].off > 0
    BY <1>1, <2>1 DEF ThreadInv, Cut
  <2>3. /\ load'.kind = "fu" /\ load'.nal = th[t].at /\ load'.from = th[t].off
        /\ load'.s <=> th[t].off = 1
        /\ load'.e <=> th'[t].piece = th[t].left
    <3>1. /\ load.kind = "fu" /\ ~load.e /\ load.nal = th[t].at
          /\ load.s <=> th[t].off = 1
      BY <2>1 DEF Opened
    <3>2. CASE load' = [load EXCEPT !.from = th[t].off]
               /\ th'[t].piece = Room /\ ~FitsPacket(th[t].left)
      <4>1. th'[t].piece # th[t].left
        BY <1>1, <3>2 DEF FitsPacket
      <4> QED
        BY <1>2, <3>1, <3>2, <4>1 DEF Load
    <3>3. CASE load' = [load EXCEPT !.from = th[t].off, !.e = TRUE]
               /\ th'[t].piece = th[t].left
      BY <1>2, <3>1, <3>3 DEF Load
    <3> QED
      BY <2>1, <3>2, <3>3
  <2>4. th'[t].mark <=> th'[t].piece = th[t].left /\ Nals(t)[th[t].at].slice
    BY <1>1, <2>1 DEF FitsPacket
  <2>5. Opened(t)' /\ Headed(t)' /\ Handed(t)'
    BY <2>1 DEF Opened, Headed, Handed
  <2>6. Filled(t)'
    BY <1>1, <2>1, <2>2, <2>3, <2>4 DEF Filled, Nals
  <2>7. Follows(t)'
    BY <1>1, <2>1 DEF Follows, FirstOf, InNal, Sent, Ends, Bytes
  <2> QED
    BY <2>5, <2>6, <2>7
<1>10. CASE SetHeader(t)
  <2>1. /\ th[t].pc = "head" /\ th'[t].pc = "send"
        /\ th'[t].file = th[t].file /\ th'[t].at = th[t].at
        /\ th'[t].off = th[t].off
        /\ th'[t].left = th[t].left /\ th'[t].piece = th[t].piece
        /\ th'[t].mark = th[t].mark /\ header'.m = th[t].mark
        /\ pkt' = pkt /\ load' = load
    BY <1>1, <1>10, EffectOfPacket DEF Same
  <2>2. Opened(t)' /\ Headed(t)' /\ Handed(t)'
    BY <1>2, <2>1 DEF Opened, Headed, Handed
  <2>3. Filled(t)'
    BY <1>1, <2>1 DEF Filled, Nals, Packing
  <2>4. Follows(t)'
    BY <1>1, <2>1 DEF Follows, FirstOf, InNal, Sent, Ends, Bytes
  <2> QED
    BY <2>2, <2>3, <2>4
<1>11. CASE SendTo(t)
  <2>1. /\ th[t].pc = "send" /\ th'[t].pc = "clear"
        /\ th'[t].file = th[t].file /\ th'[t].at = th[t].at
        /\ th'[t].off = th[t].off
        /\ th'[t].left = th[t].left /\ th'[t].piece = th[t].piece
        /\ th'[t].mark = th[t].mark
        /\ pkt'.by = t /\ pkt'.len = Length(t) /\ pkt'.load = load /\ pkt' # None
        /\ load' = load
    BY <1>1, <1>11, EffectOfSend DEF Same
  <2>2. /\ Filled(t) /\ th[t].pc \in Packing
        /\ th[t].off = 0 => load.kind = "single" /\ th[t].piece = th[t].left
        /\ th[t].off > 0 => load.kind = "fu" /\ (load.e <=> th[t].piece = th[t].left)
    BY <1>1, <2>1 DEF Filled, Packing, ThreadInv, Piece
  <2>3. Bytes(pkt') = th[t].piece
    BY <1>1, <2>1, <2>2 DEF Bytes, Length
  <2>4. Ends(pkt') <=> th[t].piece = th[t].left
    BY <1>1, <2>1, <2>2 DEF Ends
  <2>5. Opened(t)' /\ Headed(t)' /\ Filled(t)'
    BY <2>1, <2>2 DEF Opened, Headed, Filled, Packing, Nals
  <2>6. Handed(t)'
    BY <2>1, <2>3, <2>4 DEF Handed, Sent
  <2>7. Follows(t)'
    BY <2>1 DEF Follows, InNal
  <2> QED
    BY <2>5, <2>6, <2>7
<1>12. CASE ClearBuffer(t)
  <2>1. /\ th[t].pc = "clear" /\ th'[t].file = th[t].file
        /\ th'[t].at = th[t].at /\ pkt' = pkt
    BY <1>1, <1>12, EffectOfClear
  <2>2. Filled(t) /\ th[t].pc \in Packing
    BY <2>1 DEF Packing
  <2>3. /\ Sent(t) /\ pkt.load = load /\ Bytes(pkt) = th[t].piece
        /\ Ends(pkt) <=> th[t].piece = th[t].left
    BY <2>1 DEF Handed
  <2>4. Sent(t)' /\ (Ends(pkt)' <=> Ends(pkt)) /\ Bytes(pkt)' = Bytes(pkt)
    BY <2>1, <2>3 DEF Sent, Ends, Bytes
  <2>5. CASE th[t].piece < th[t].left
    <3>1. /\ th'[t].pc = "fragment" /\ th'[t].off = th[t].off + th[t].piece
          /\ th'[t].left = th[t].left - th[t].piece
          /\ load' = [Cleared EXCEPT !.s = FALSE]
      BY <1>1, <1>12, <2>5, EffectOfClear
    <3>2. th[t].off > 0 /\ th[t].piece > 0
      BY <1>1, <2>2, <2>5 DEF ThreadInv, Piece
    <3>3. load.kind = "fu" /\ ~load.e /\ load.nal = th[t].at
          /\ load.from = th[t].off
      BY <1>1, <2>2, <2>5, <3>2 DEF Filled
    <3>4. load'.kind = "fu" /\ ~load'.e /\ ~load'.s /\ load'.nal = th[t].at
      BY <1>2, <3>1, <3>3 DEF Cleared, Load
    <3>5. Opened(t)' /\ Filled(t)' /\ Headed(t)' /\ Handed(t)'
      BY <1>1, <2>1, <3>1, <3>2, <3>4 DEF Opened, Filled, Headed, Handed, Packing
    <3>6. ~Ends(pkt)
      BY <1>1, <2>3, <2>5
    <3>7. Follows(t)'
      BY <1>1, <2>1, <2>3, <2>4, <3>1, <3>2, <3>3, <3>6 DEF Follows, FirstOf
    <3> QED
      BY <3>5, <3>7
  <2>6. CASE ~(th[t].piece < th[t].left)
    <3>1. th'[t].pc = "next"
      BY <1>1, <1>12, <2>6, EffectOfClear
    <3>2. th[t].piece = th[t].left
      BY <1>1, <2>2, <2>6 DEF ThreadInv, Piece
    <3>3. Ends(pkt) /\ pkt.load.nal = th[t].at
      BY <1>1, <2>2, <2>3, <3>2 DEF Filled
    <3> QED
      BY <2>1, <2>4, <3>1, <3>3
         DEF Opened, Filled, Headed, Handed, Follows, Packing, InNal
  <2> QED
    BY <2>5, <2>6
<1> QED
  BY <1>3, <1>4, <1>5, <1>6, <1>7, <1>8, <1>9, <1>10, <1>11, <1>12 DEF ThreadStep

----------------------------------------------------------------------------
(* What the latest thread sends.                                           *)
LEMMA Sends ==
  ASSUME Inv, NEW t \in Thread, Long(t), Content(t), SendTo(t)
  PROVE  /\ NalOf(pkt') = Nals(t)[th[t].at] /\ pkt'.load.nal = th[t].at
         /\ pkt'.load.from = th[t].off /\ Bytes(pkt') = th[t].piece
         /\ Ends(pkt') <=> th[t].piece = th[t].left
         /\ Starts(pkt') <=> th[t].off <= 1
         /\ th[t].off > 0 <=> pkt'.load.kind = "fu"
         /\ pkt'.load.kind = "fu" =>
              Bytes(pkt') > 0 /\ ~(pkt'.load.s /\ pkt'.load.e)
         /\ th[t].off > 1 => ~pkt'.load.s
         /\ pkt'.header.m <=> Ends(pkt') /\ NalOf(pkt').slice
         /\ pkt'.load.from + Bytes(pkt') = NalOf(pkt').size
              <=> th[t].piece = th[t].left
         /\ pkt'.by = t
<1>1. /\ TypeInv /\ ThreadInv(t)
      /\ th[t].at \in Nat /\ th[t].off \in Nat /\ th[t].left \in Nat
      /\ th[t].piece \in Nat /\ MTU \in Nat /\ MTU > 14 /\ Room = MTU - 14
      /\ Header = 12 /\ FuHeader = 2 /\ th[t].pc = "send"
  BY Own DEF Inv, SendTo
<1>2. /\ pkt'.by = t /\ pkt'.file = th[t].file /\ pkt'.len = Length(t)
      /\ pkt'.load = load /\ pkt'.header = header
  BY <1>1, EffectOfSend
<1>3. /\ load.nal = th[t].at /\ load.from = th[t].off
      /\ th[t].off = 0 => load.kind = "single"
      /\ th[t].off > 0 => /\ load.kind = "fu" /\ (load.s <=> th[t].off = 1)
                          /\ load.e <=> th[t].piece = th[t].left
      /\ th[t].mark <=> /\ th[t].piece = th[t].left
                        /\ Nals(t)[th[t].at].slice
      /\ header.m <=> th[t].mark
  BY <1>1 DEF Content, Filled, Headed, Packing
<1>4. /\ th[t].off = 0 => th[t].piece = th[t].left
      /\ th[t].off > 0 => th[t].piece > 0 /\ th[t].piece <= Room
      /\ th[t].off = 1 => th[t].left > Room
      /\ th[t].off + th[t].left = Nals(t)[th[t].at].size
  BY <1>1 DEF ThreadInv, Piece, Rest, Packing, InNal, Long
<1>5. NalOf(pkt') = Nals(t)[th[t].at]
  BY <1>2, <1>3 DEF NalOf, Nals
<1>6. Bytes(pkt') = th[t].piece
  BY <1>1, <1>2, <1>3 DEF Bytes, Length
<1>7. Ends(pkt') <=> th[t].piece = th[t].left
  BY <1>1, <1>2, <1>3, <1>4 DEF Ends
<1>8. Starts(pkt') <=> th[t].off <= 1
  BY <1>1, <1>2, <1>3 DEF Starts
<1>9. /\ th[t].off > 0 <=> pkt'.load.kind = "fu"
      /\ pkt'.load.kind = "fu" =>
           Bytes(pkt') > 0 /\ ~(pkt'.load.s /\ pkt'.load.e)
      /\ th[t].off > 1 => ~pkt'.load.s
  BY <1>1, <1>2, <1>3, <1>4, <1>6
<1>10. pkt'.header.m <=> Ends(pkt') /\ NalOf(pkt').slice
  BY <1>2, <1>3, <1>5, <1>7
<1>11. pkt'.load.from + Bytes(pkt') = NalOf(pkt').size
         <=> th[t].piece = th[t].left
  BY <1>1, <1>2, <1>3, <1>4, <1>5, <1>6
<1> QED
  BY <1>2, <1>3, <1>5, <1>6, <1>7, <1>8, <1>9, <1>10, <1>11

(* A thread that is not the latest sends nothing, and touches the buffer   *)
(* only where overlap tells it.                                            *)
LEMMA OtherQuiet ==
  ASSUME Inv, NEW t \in Thread, t # tid, ThreadStep(t), ~overlap'
  PROVE  UNCHANGED <<pkt, load, header>> /\ ~overlap
<1>1. ~(SendTo(t) \/ Wake(t))
  BY DEF Inv, Silenced, SendTo, Wake, Live, Waiting
<1>2. \A place : ~Uses(t, place)
  BY DEF Uses
<1> QED
  BY <1>1, <1>2
     DEF ThreadStep, StartThread, NextNal, SetTimestamp, EndOfFile, LoadSingle,
         LoadFirst, Fragment, LastFragment, SetHeader, ClearBuffer, Die, RunWild, rtp

(* The steps that leave the latest thread and the buffer alone.            *)
LEMMA SameContent ==
  ASSUME NEW t \in Thread, Content(t), UNCHANGED <<pkt, load>>,
         th'[t].pc = th[t].pc, th'[t].file = th[t].file,
         th'[t].at = th[t].at, th'[t].off = th[t].off,
         th'[t].left = th[t].left, th'[t].piece = th[t].piece,
         th'[t].mark = th[t].mark, header' = header
  PROVE  Content(t)'
BY DEF Content, Opened, Filled, Headed, Handed, Follows, FirstOf, Sent, Nals,
       Ends, Bytes

LEMMA SessionContent ==
  ASSUME ContentInv, SessionStep, ~overlap', NEW u \in Thread, u = tid'
  PROVE  Content(u)'
<1>1. /\ Inv /\ th \in [Thread -> State] /\ ~overlap
      /\ tid \in Nat
      /\ u = tid => Content(u)
  BY DEF ContentInv, Inv, TypeInv, TypeOK, SessionStep, ReadFile, FileRead,
         GetRtpInfo, CancelOld, CreateThread, Release
<1>2. CASE CreateThread
  <2>1. u = tid + 1 /\ pkt' = pkt
    BY <1>2 DEF CreateThread
  <2>2. th[u].pc = "none"
    <3>1. ~(u <= tid)
      BY <1>1, <2>1
    <3> QED
      BY <1>1, <3>1 DEF Inv, Silenced
  <2>3. th[u].at = 0
    BY <2>2 DEF ContentInv, Fresh
  <2>4. th'[u].pc = "start" /\ th'[u].at = 0
    BY <1>1, <1>2, <2>1, <2>3 DEF CreateThread, State
  <2>5. ~Sent(u)
    BY <1>1, <2>1 DEF ContentInv, NotAhead, Sent
  <2> QED
    BY <2>1, <2>4, <2>5
       DEF Content, Opened, Filled, Headed, Handed, Follows, Packing, InNal, Sent
<1>3. CASE ~CreateThread
  <2>1. u = tid /\ UNCHANGED <<pkt, load, header>> /\ (th' = th \/ th' = OldThread)
    BY <1>3 DEF SessionStep, ReadFile, FileRead, GetRtpInfo, CancelOld,
                Release, rtp
  <2>2. /\ th'[u].pc = th[u].pc /\ th'[u].file = th[u].file
        /\ th'[u].at = th[u].at /\ th'[u].off = th[u].off
        /\ th'[u].left = th[u].left /\ th'[u].piece = th[u].piece
        /\ th'[u].mark = th[u].mark
    BY <1>1, <2>1 DEF OldThread, State
  <2> QED
    BY <1>1, <2>1, <2>2, SameContent
<1> QED
  BY <1>2, <1>3

LEMMA ThreadContent ==
  ASSUME ContentInv, NEW t \in Thread, ThreadStep(t), ~overlap',
         NEW u \in Thread, u = tid'
  PROVE  Content(u)'
<1>1. Inv /\ TypeInv /\ tid' = tid
  BY DEF ContentInv, Inv, ThreadStep, StartThread, NextNal, SetTimestamp,
         EndOfFile, Wake, LoadSingle, LoadFirst, Fragment, LastFragment,
         SetHeader, SendTo, ClearBuffer, Die, RunWild, Uses, sessionVars
<1>2. ~overlap
  BY DEF ThreadStep, StartThread, NextNal, SetTimestamp, EndOfFile, Wake,
         LoadSingle, LoadFirst, Fragment, LastFragment, SetHeader, SendTo,
         ClearBuffer, Die,
         RunWild, Uses
<1>3. Content(u) /\ Long(u)
  BY <1>1, <1>2 DEF ContentInv
<1>4. CASE t = u
  BY <1>1, <1>3, <1>4, OwnContent
<1>5. CASE t # u
  <2>1. UNCHANGED <<pkt, load, header>>
    BY <1>1, <1>5, OtherQuiet
  <2>2. th'[u] = th[u]
    BY <1>1, <1>5, ThreadTypes, OtherThreads
  <2> QED
    BY <1>3, <2>1, <2>2, SameContent
<1> QED
  BY <1>4, <1>5

----------------------------------------------------------------------------
(* Only SendTo hands out a packet.                                         *)
LEMMA PacketFrame ==
  ASSUME [Next]_vars
  PROVE  \/ \E t \in Thread : SendTo(t)
         \/ /\ pkt' = pkt /\ tid' \in {tid, tid + 1}
            /\ overlap => overlap'
<1>1. CASE SessionStep
  BY <1>1 DEF SessionStep, ReadFile, FileRead, GetRtpInfo, CancelOld,
              CreateThread, Release
<1>2. ASSUME NEW t \in Thread, ThreadStep(t), ~SendTo(t)
      PROVE  pkt' = pkt /\ tid' = tid /\ (overlap => overlap')
  <2>1. CASE \E place : Uses(t, place)
    BY <2>1 DEF Uses, sessionVars
  <2>2. CASE Wake(t) \/ Die(t) \/ RunWild(t)
    BY <2>2 DEF Wake, Die, RunWild, sessionVars
  <2>3. \/ \E place : Uses(t, place)
        \/ Wake(t) \/ Die(t) \/ RunWild(t)
    BY <1>2 DEF ThreadStep, StartThread, NextNal, SetTimestamp, EndOfFile,
                LoadSingle, LoadFirst, Fragment, LastFragment, SetHeader,
                ClearBuffer
  <2> QED
    BY <2>1, <2>2, <2>3
<1>3. CASE UNCHANGED vars
  BY <1>3 DEF vars, sessionVars
<1> QED
  BY <1>1, <1>2, <1>3 DEF Next

LEMMA ContentHolds == Spec => []ContentInv
<1>1. Init => ContentInv
  <2> SUFFICES ASSUME Init PROVE ContentInv
    OBVIOUS
  <2>1. Inv
    <3>1. \A t \in Thread : th[t].pc = "none"
      BY DEF Init, Idle
    <3> QED
      BY <3>1, InitTypeInv
         DEF Init, Inv, FreedGone, Silenced, Live, Working, Waiting
  <2>2. \A t \in Thread : th[t] = Idle /\ t # tid
    BY StreamAssumption DEF Init, Thread, StreamAssumption
  <2> QED
    BY <2>1, <2>2
       DEF Init, ContentInv, Long, NotAhead, Fresh, PacketWellFormed, Idle,
           Packing
<1>2. ContentInv /\ [Next]_vars => ContentInv'
  <2> SUFFICES ASSUME ContentInv, [Next]_vars PROVE ContentInv'
    OBVIOUS
  <2>1. /\ Inv /\ TypeInv /\ th \in [Thread -> State] /\ tid \in Nat
        /\ \A t \in Thread : Long(t)
    BY StreamAssumption
       DEF ContentInv, Inv, TypeInv, TypeOK, StreamAssumption
  <2>2. Inv'
    BY <2>1, StepInv
  <2>3. \A t \in Thread : Long(t)'
    BY <2>1, LongKept
  <2>4. NotAhead'
    <3>1. ASSUME NEW t \in Thread, SendTo(t) PROVE NotAhead'
      <4>1. t <= tid /\ pkt'.by = t /\ tid' = tid
        BY <2>1, <3>1 DEF Inv, Silenced, SendTo, sessionVars
      <4> QED
        BY <4>1 DEF NotAhead
    <3>2. CASE UNCHANGED pkt /\ tid' \in {tid, tid + 1}
      <4>1. pkt # None => pkt.by \in Nat
        BY <2>1, StreamAssumption
           DEF TypeInv, TypeOK, Packet, Thread, StreamAssumption
      <4> QED
        BY <2>1, <3>2, <4>1 DEF NotAhead, ContentInv
    <3> QED
      BY <3>1, <3>2, PacketFrame
  <2>5. Fresh'
    <3> SUFFICES ASSUME NEW u \in Thread, th'[u].pc = "none"
                 PROVE  th'[u].at = 0
      BY DEF Fresh
    <3>1. CASE th'[u].pc = th[u].pc /\ th'[u].at = th[u].at
      BY <3>1 DEF ContentInv, Fresh
    <3>2. ASSUME SessionStep \/ UNCHANGED vars
          PROVE  th'[u].pc = th[u].pc /\ th'[u].at = th[u].at
      <4>1. th' = th \/ th' = OldThread \/ CreateThread
        BY <3>2 DEF SessionStep, ReadFile, FileRead, GetRtpInfo, CancelOld,
                    Release, vars
      <4> QED
        BY <2>1, <4>1 DEF OldThread, CreateThread, State
    <3>3. ASSUME NEW t \in Thread, ThreadStep(t)
          PROVE  th'[u].pc = th[u].pc /\ th'[u].at = th[u].at
      <4>1. th'[t].pc # "none"
        <5>1. CASE SendTo(t) \/ ClearBuffer(t)
          BY <2>1, <5>1, EffectOfSend, EffectOfClear
        <5>2. CASE ~SendTo(t) /\ ~ClearBuffer(t)
          BY <2>1, <3>3, <5>2, EffectOfNal, EffectOfPacket DEF ThreadStep
        <5> QED
          BY <5>1, <5>2
      <4>2. th'[u] = th[u]
        BY <2>1, <3>3, <4>1, ThreadTypes, OtherThreads
      <4> QED
        BY <4>2
    <3> QED
      BY <3>1, <3>2, <3>3 DEF Next
  <2>6. ~overlap' => \A u \in Thread : u = tid' => Content(u)'
    <3> SUFFICES ASSUME ~overlap', NEW u \in Thread, u = tid'
                 PROVE  Content(u)'
      OBVIOUS
    <3>1. CASE UNCHANGED vars
      BY <3>1, SameContent DEF ContentInv, vars, sessionVars, rtp
    <3> QED
      BY <3>1, SessionContent, ThreadContent DEF Next
  <2>7. PacketWellFormed'
    <3>1. ASSUME NEW t \in Thread, SendTo(t), ~overlap'
          PROVE  PacketWellFormed'
      <4>1. t = tid /\ ~overlap
        BY <2>1, <3>1 DEF Inv, Silenced, SendTo, Live, Waiting
      <4>2. Content(t) /\ Long(t)
        BY <4>1 DEF ContentInv
      <4> QED
        BY <2>1, <3>1, <4>2, Sends DEF PacketWellFormed
    <3>2. CASE UNCHANGED pkt /\ (overlap => overlap')
      BY <3>2 DEF ContentInv, PacketWellFormed, Ends, Bytes, NalOf
    <3>3. CASE overlap'
      BY <3>3 DEF PacketWellFormed
    <3> QED
      BY <3>1, <3>2, <3>3, PacketFrame
  <2> QED
    BY <2>2, <2>3, <2>4, <2>5, <2>6, <2>7 DEF ContentInv
<1> QED
  BY <1>1, <1>2, PTL DEF Spec

(* PacketWellFormed: a packet that ends a NAL unit ends it with its last   *)
(* byte, S and E are never on one fragment, the marker is where a slice    *)
(* ends, for every MTU and every size of NAL unit.                         *)
THEOREM PacketsWellFormed == Spec => []PacketWellFormed
<1>1. ContentInv => PacketWellFormed
  BY DEF ContentInv
<1> QED
  BY <1>1, ContentHolds, PTL

(* NalsWhole: the fragments of a NAL unit follow each other without a gap  *)
(* and the NAL units in the order of the file.                             *)
THEOREM NalsAreWhole == Spec => NalsWhole
<1> DEFINE A ==
      pkt' # pkt /\ ~overlap' =>
        IF pkt = None \/ pkt'.by # pkt.by THEN Starts(pkt') /\ pkt'.load.nal = 1
        ELSE IF Ends(pkt) THEN Starts(pkt') /\ pkt'.load.nal = pkt.load.nal + 1
        ELSE /\ pkt'.load.kind = "fu" /\ ~pkt'.load.s
             /\ pkt'.load.nal = pkt.load.nal
             /\ pkt'.load.from = pkt.load.from + Bytes(pkt)
<1>1. ContentInv /\ [Next]_vars => A
  <2> SUFFICES ASSUME ContentInv, [Next]_vars, pkt' # pkt, ~overlap' PROVE A
    OBVIOUS
  <2>1. PICK t \in Thread : SendTo(t)
    BY PacketFrame
  <2>2. Inv /\ t = tid /\ ~overlap
    BY <2>1 DEF ContentInv, Inv, Silenced, SendTo, Live, Waiting
  <2>3. Content(t) /\ Long(t)
    BY <2>2 DEF ContentInv
  <2>4. /\ pkt'.load.nal = th[t].at /\ pkt'.load.from = th[t].off /\ pkt'.by = t
        /\ Starts(pkt') <=> th[t].off <= 1
        /\ th[t].off > 0 <=> pkt'.load.kind = "fu"
        /\ th[t].off > 1 => ~pkt'.load.s
    BY <2>1, <2>2, <2>3, Sends
  <2>5. /\ FirstOf(t) => IF Sent(t) THEN Ends(pkt) /\ th[t].at = pkt.load.nal + 1
                         ELSE th[t].at = 1
        /\ ~FirstOf(t) => /\ Sent(t) /\ ~Ends(pkt) /\ pkt.load.nal = th[t].at
                          /\ pkt.load.from + Bytes(pkt) = th[t].off
    BY <2>1, <2>3 DEF Content, Follows, SendTo, InNal
  <2>6. th[t].off \in Nat /\ (Sent(t) <=> pkt # None /\ pkt.by = t)
    BY <2>2, Own DEF Inv, Sent
  <2> QED
    BY <2>4, <2>5, <2>6 DEF FirstOf
<1>2. ContentInv /\ [Next]_vars => [A]_vars
  BY <1>1
<1> QED
  BY <1>2, ContentHolds, PTL DEF Spec, NalsWhole

----------------------------------------------------------------------------
(* The numbers and the times.  As long as no PLAY has drawn new ones, the  *)
(* Timestamp is that of the last packet, and one tick more from the start  *)
(* of a slice to its first packet; the sum is made before it is stored.    *)

Ticks(n) == \E f \in File : n = (pkt.header.time + Media[f].tick) % TimeMod
Slice(t) == Nals(t)[th[t].at].slice
Timed(t, n) == IF FirstOf(t) /\ Slice(t) THEN Ticks(n) ELSE n = pkt.header.time

Stamped(t) ==
  /\ th[t].pc \in {"tick", "sleep"} => Slice(t)
  /\ Sent(t) /\ draws = pkt.header.draw =>
       /\ th[t].pc \in {"clear", "next", "tick"} => stamp = pkt.header.time
       /\ th[t].pc = "tick" => Ticks(th[t].sum)
       /\ th[t].pc \in {"sleep", "load", "fragment", "head"} => Timed(t, stamp)
  /\ th[t].pc = "send" =>
       /\ draws = header.draw => stamp = header.time
       /\ Sent(t) /\ header.draw = pkt.header.draw => Timed(t, header.time)
Numbered(t) ==
  Sent(t) =>
    /\ th[t].pc = "send" => header.seq = NextSeq(pkt.header.seq)
    /\ th[t].pc \in Live \ {"send"} => header.seq = pkt.header.seq
Drawn == header.draw <= draws /\ (pkt # None => pkt.header.draw <= draws)

HeadInv ==
  /\ Drawn
  /\ ~overlap => \A t \in Thread : t = tid => Stamped(t) /\ Numbered(t)

LEMMA DrawType ==
  ASSUME TypeInv
  PROVE  draws \in Nat /\ header.draw \in Nat /\ (pkt # None => pkt.header.draw \in Nat)
BY DEF TypeInv, TypeOK, RtpHeader, Packet

(* Who changes the number of draws, the header and the packet.             *)
LEMMA DrawnStep ==
  ASSUME Inv, Drawn, [Next]_vars
  PROVE  Drawn'
<1>1. TypeInv /\ draws \in Nat /\ header.draw \in Nat
      /\ (pkt # None => pkt.header.draw \in Nat)
  BY DrawType DEF Inv
<1>2. CASE SessionStep
  <2>1. UNCHANGED <<header, pkt>> /\ draws' \in {draws, draws + 1}
    BY <1>2 DEF SessionStep, ReadFile, FileRead, GetRtpInfo, CancelOld, CreateThread,
       Release, rtp
  <2> QED
    BY <1>1, <2>1 DEF Drawn
<1>3. ASSUME NEW t \in Thread, ThreadStep(t)
      PROVE  Drawn'
  <2>1. draws' = draws
    BY <1>3 DEF ThreadStep, StartThread, NextNal, SetTimestamp, EndOfFile, Wake, LoadSingle,
       LoadFirst, Fragment, LastFragment, SetHeader, SendTo, ClearBuffer, Die, RunWild, Uses, sessionVars
  <2>2. header' = header \/ header'.draw = draws
    BY <1>3 DEF ThreadStep, StartThread, NextNal, SetTimestamp, EndOfFile, Wake, LoadSingle,
       LoadFirst, Fragment, LastFragment, SetHeader, SendTo, ClearBuffer, Die, RunWild, rtp
  <2>3. pkt' = pkt \/ pkt'.header = header
    BY <1>3 DEF ThreadStep, StartThread, NextNal, SetTimestamp, EndOfFile, Wake, LoadSingle,
       LoadFirst, Fragment, LastFragment, SetHeader, SendTo, ClearBuffer, Die, RunWild, Uses
  <2> QED
    BY <1>1, <2>1, <2>2, <2>3 DEF Drawn
<1>4. CASE UNCHANGED vars
  BY <1>4 DEF Drawn, vars, sessionVars, rtp
<1> QED
  BY <1>2, <1>3, <1>4 DEF Next

(* Steps that leave the latest thread and the structures alone.            *)
LEMMA SameHeads ==
  ASSUME NEW t \in Thread, Stamped(t), Numbered(t),
         UNCHANGED <<pkt, header, stamp, draws>>,
         th'[t].pc = th[t].pc, th'[t].file = th[t].file, th'[t].at = th[t].at,
         th'[t].off = th[t].off, th'[t].sum = th[t].sum
  PROVE  Stamped(t)' /\ Numbered(t)'
<1>1. (Slice(t)' <=> Slice(t)) /\ (FirstOf(t)' <=> FirstOf(t)) /\ (Sent(t)' <=> Sent(t))
  BY DEF Slice, Nals, FirstOf, Sent
<1>2. \A n : (Ticks(n)' <=> Ticks(n))
  BY DEF Ticks
<1>3. \A n : Timed(t, n)' <=> Timed(t, n)
  BY <1>1, <1>2 DEF Timed
<1>4. Stamped(t)'
  BY <1>1, <1>2, <1>3 DEF Stamped
<1>5. Numbered(t)'
  BY <1>1 DEF Numbered
<1> QED
  BY <1>4, <1>5

LEMMA SessionHeads ==
  ASSUME ContentInv, HeadInv, SessionStep, ~overlap', NEW u \in Thread, u = tid'
  PROVE  Stamped(u)' /\ Numbered(u)'
<1>1. /\ TypeInv /\ th \in [Thread -> State] /\ ~overlap /\ tid \in Nat
      /\ u = tid => Stamped(u) /\ Numbered(u)
      /\ UNCHANGED <<pkt, header>>
  BY DEF ContentInv, HeadInv, Inv, TypeInv, TypeOK, SessionStep, ReadFile, FileRead,
         GetRtpInfo, CancelOld, CreateThread, Release, rtp
<1>2. CASE CreateThread
  <2>1. u = tid + 1 /\ th'[u].pc = "start"
    BY <1>1, <1>2 DEF CreateThread, State
  <2>2. ~Sent(u) /\ pkt' = pkt
    BY <1>1, <2>1 DEF ContentInv, NotAhead, Sent
  <2> QED
    BY <2>1, <2>2 DEF Stamped, Numbered, Sent
<1>3. CASE GetRtpInfo
  <2>1. th' = th /\ draws' = draws + 1 /\ u = tid
    BY <1>3 DEF GetRtpInfo
  <2>2. draws' # header.draw /\ (pkt # None => draws' # pkt.header.draw)
    BY <1>1, <2>1, DrawType DEF HeadInv, Drawn
  <2>3. (Slice(u)' <=> Slice(u)) /\ (FirstOf(u)' <=> FirstOf(u)) /\ (Sent(u)' <=> Sent(u))
    BY <1>1, <2>1 DEF Slice, Nals, FirstOf, Sent
  <2>4. Timed(u, header.time)' <=> Timed(u, header.time)
    BY <1>1, <2>3 DEF Timed, Ticks
  <2>5. Stamped(u)'
    BY <1>1, <2>1, <2>2, <2>3, <2>4 DEF Stamped, Sent
  <2>6. Numbered(u)'
    BY <1>1, <2>1, <2>3 DEF Numbered
  <2> QED
    BY <2>5, <2>6
<1>4. CASE ~CreateThread /\ ~GetRtpInfo
  <2>1. u = tid /\ UNCHANGED <<stamp, draws>> /\ (th' = th \/ th' = OldThread)
    BY <1>4 DEF SessionStep, ReadFile, FileRead, CancelOld, Release, rtp
  <2>2. /\ th'[u].pc = th[u].pc /\ th'[u].file = th[u].file /\ th'[u].at = th[u].at
        /\ th'[u].off = th[u].off /\ th'[u].sum = th[u].sum
    BY <1>1, <2>1 DEF OldThread, State
  <2> QED
    BY <1>1, <2>1, <2>2, SameHeads
<1> QED
  BY <1>2, <1>3, <1>4

(* The latest thread's own steps: the unit and its time, ...               *)
LEMMA NalHeads ==
  ASSUME Inv, NEW t \in Thread, Stamped(t), Numbered(t), Follows(t),
         StartThread(t) \/ NextNal(t) \/ SetTimestamp(t) \/ Wake(t)
           \/ EndOfFile(t) \/ Die(t) \/ RunWild(t)
  PROVE  Stamped(t)' /\ Numbered(t)'
<1>1. /\ TypeInv /\ th \in [Thread -> State] /\ th[t] \in State /\ ThreadInv(t)
      /\ th[t].off \in Nat /\ media \in File
  BY Own DEF Inv, TypeInv, TypeOK
<1>2. pkt' = pkt /\ draws' = draws
  BY DEF StartThread, NextNal, SetTimestamp, Wake, EndOfFile, Die, RunWild, Uses, sessionVars
<1>3. (Sent(t)' <=> Sent(t)) /\ \A n : (Ticks(n)' <=> Ticks(n))
  BY <1>2 DEF Sent, Ticks
<1>4. CASE StartThread(t)
  <2>1. ~Sent(t) /\ th'[t].pc = "next"
    BY <1>1, <1>4, EffectOfNal DEF Follows
  <2> QED
    BY <1>3, <2>1 DEF Stamped, Numbered
<1>5. CASE EndOfFile(t) \/ Die(t) \/ RunWild(t)
  <2>1. th'[t].pc \in {"done", "dead", "wild"}
    BY <1>1, <1>5, EffectOfNal
  <2> QED
    BY <2>1 DEF Stamped, Numbered, Live, Working, Waiting
<1>6. CASE NextNal(t)
  <2>1. /\ th[t].pc = "next" /\ UNCHANGED <<stamp, header>>
        /\ th'[t].file = th[t].file /\ th'[t].at = th[t].at + 1 /\ th'[t].off = 0
        /\ th'[t].pc = IF Slice(t)' THEN "tick" ELSE "load"
        /\ th'[t].sum = (stamp + Media[media].tick) % TimeMod
    BY <1>1, <1>6 DEF NextNal, Uses, rtp, NeedsTick, Slice, Nals, State
  <2>2. FirstOf(t)'
    BY <2>1 DEF FirstOf
  <2>3. Sent(t) /\ draws = pkt.header.draw =>
          stamp = pkt.header.time /\ Ticks(th'[t].sum)
    BY <1>1, <2>1 DEF Stamped, Ticks
  <2>4. Stamped(t)'
    BY <1>2, <1>3, <2>1, <2>2, <2>3 DEF Stamped, Timed
  <2>5. Numbered(t)'
    BY <1>2, <1>3, <2>1 DEF Numbered, Live, Working, Waiting
  <2> QED
    BY <2>4, <2>5
<1>7. CASE SetTimestamp(t) \/ Wake(t)
  <2>1. /\ th'[t].file = th[t].file /\ th'[t].at = th[t].at /\ th'[t].off = th[t].off
        /\ th[t].off = 0 /\ header' = header
        /\ \/ th[t].pc = "tick" /\ th'[t].pc = "sleep" /\ stamp' = th[t].sum
           \/ th[t].pc = "sleep" /\ th'[t].pc = "load" /\ stamp' = stamp
    BY <1>1, <1>7 DEF SetTimestamp, Wake, Uses, rtp, State, ThreadInv, Whole
  <2>2. (Slice(t)' <=> Slice(t)) /\ FirstOf(t)' /\ FirstOf(t)
    BY <2>1 DEF Slice, Nals, FirstOf
  <2>3. Slice(t) /\ Slice(t)'
    BY <2>1, <2>2 DEF Stamped
  <2>4. \A n : (Timed(t, n) <=> Ticks(n)) /\ (Timed(t, n)' <=> Ticks(n))
    BY <1>3, <2>2, <2>3 DEF Timed
  <2>5. Sent(t) /\ draws = pkt.header.draw => Ticks(stamp')
    BY <2>1, <2>4 DEF Stamped
  <2>6. Stamped(t)'
    BY <1>2, <1>3, <2>1, <2>3, <2>4, <2>5 DEF Stamped
  <2>7. Numbered(t)'
    BY <1>2, <1>3, <2>1 DEF Numbered, Live, Working, Waiting
  <2> QED
    BY <2>6, <2>7
<1> QED
  BY <1>4, <1>5, <1>6, <1>7

(* ... the packet and its header, and what is sent.                        *)
LEMMA PacketHeads ==
  ASSUME Inv, NEW t \in Thread, Stamped(t), Numbered(t),
         LoadSingle(t) \/ LoadFirst(t) \/ Fragment(t) \/ LastFragment(t) \/ SetHeader(t)
  PROVE  Stamped(t)' /\ Numbered(t)'
<1>1. /\ TypeInv /\ th \in [Thread -> State] /\ th[t] \in State /\ ThreadInv(t)
      /\ th[t].off \in Nat
  BY Own DEF Inv
<1>2. pkt' = pkt /\ draws' = draws /\ stamp' = stamp
  BY DEF LoadSingle, LoadFirst, Fragment, LastFragment, SetHeader, Uses, sessionVars
<1>3. /\ th'[t].file = th[t].file /\ th'[t].at = th[t].at
      /\ th[t].pc \in {"load", "fragment", "head"}
      /\ th'[t].pc = IF SetHeader(t) THEN "send" ELSE IF LoadFirst(t) THEN "fragment"
                     ELSE "head"
      /\ th'[t].off = th[t].off \/ (th[t].off = 0 /\ th'[t].off = 1)
  <2>1. CASE LoadSingle(t)
    BY <1>1, <2>1, EffectOfPacket DEF Same
  <2>2. CASE LoadFirst(t)
    BY <1>1, <2>2, EffectOfPacket DEF ThreadInv, Whole
  <2>3. CASE Fragment(t) \/ LastFragment(t)
    BY <1>1, <2>3, EffectOfPacket DEF Same
  <2>4. CASE SetHeader(t)
    BY <1>1, <2>4, EffectOfPacket DEF Same
  <2> QED
    BY <2>1, <2>2, <2>3, <2>4
<1>4. (Slice(t)' <=> Slice(t)) /\ (FirstOf(t)' <=> FirstOf(t)) /\ (Sent(t)' <=> Sent(t))
  BY <1>1, <1>2, <1>3 DEF Slice, Nals, FirstOf, Sent
<1>5. \A n : Timed(t, n)' <=> Timed(t, n)
  BY <1>2, <1>4 DEF Timed, Ticks
<1>6. CASE SetHeader(t)
  <2>1. /\ th[t].pc = "head" /\ th'[t].pc = "send"
        /\ header'.seq = NextSeq(header.seq) /\ header'.time = stamp /\ header'.draw = draws
    BY <1>1, <1>6, EffectOfPacket DEF SetHeader
  <2>2. Stamped(t)'
    BY <1>2, <1>4, <1>5, <2>1 DEF Stamped
  <2>3. Numbered(t)'
    BY <1>2, <1>4, <2>1 DEF Numbered, Live, Working, Waiting
  <2> QED
    BY <2>2, <2>3
<1>7. CASE ~SetHeader(t)
  <2>1. header' = header /\ th'[t].pc \in {"fragment", "head"}
    BY <1>3, <1>7 DEF LoadSingle, LoadFirst, Fragment, LastFragment
  <2>2. Stamped(t)'
    BY <1>2, <1>3, <1>4, <1>5, <2>1 DEF Stamped
  <2>3. Numbered(t)'
    BY <1>2, <1>3, <1>4, <2>1 DEF Numbered, Live, Working, Waiting
  <2> QED
    BY <2>2, <2>3
<1> QED
  BY <1>6, <1>7

LEMMA SendHeads ==
  ASSUME Inv, NEW t \in Thread, Stamped(t), Numbered(t), SendTo(t)
  PROVE  Stamped(t)' /\ Numbered(t)'
<1>1. /\ th[t].pc = "send" /\ th'[t].pc = "clear"
      /\ pkt'.by = t /\ pkt'.header = header /\ pkt' # None
      /\ UNCHANGED <<draws, stamp, header>>
  BY EffectOfSend DEF Inv, SendTo, sessionVars, rtp
<1>2. draws = header.draw => stamp = header.time
  BY <1>1 DEF Stamped
<1>3. Stamped(t)'
  BY <1>1, <1>2 DEF Stamped
<1>4. Numbered(t)'
  BY <1>1 DEF Numbered
<1> QED
  BY <1>3, <1>4

LEMMA ClearHeads ==
  ASSUME Inv, NEW t \in Thread, Stamped(t), Numbered(t), ClearBuffer(t)
  PROVE  Stamped(t)' /\ Numbered(t)'
<1>1. /\ TypeInv /\ ThreadInv(t) /\ th[t].off \in Nat /\ th[t].piece \in Nat
      /\ th[t].left \in Nat
  BY Own DEF Inv
<1>2. /\ th[t].pc = "clear" /\ UNCHANGED <<pkt, draws, stamp, header>>
      /\ \/ /\ th[t].piece < th[t].left /\ th'[t].pc = "fragment"
            /\ th'[t].off = th[t].off + th[t].piece
         \/ th'[t].pc = "next"
  BY <1>1, EffectOfClear DEF ClearBuffer, Uses, sessionVars
<1>3. th'[t].pc = "fragment" => ~FirstOf(t)'
  <2>1. th'[t].pc = "fragment" =>
          /\ th[t].piece < th[t].left /\ th'[t].off = th[t].off + th[t].piece
    BY <1>2
  <2>2. th[t].piece < th[t].left => th[t].off > 0 /\ th[t].piece > 0
    BY <1>1, <1>2 DEF ThreadInv, Piece, Packing
  <2>3. th'[t].pc = "fragment" => ~(th'[t].off <= 1)
    BY <1>1, <2>1, <2>2
  <2> QED
    BY <2>3 DEF FirstOf
<1>4. Sent(t)' <=> Sent(t)
  BY <1>2 DEF Sent
<1>5. Stamped(t)'
  BY <1>2, <1>3, <1>4 DEF Stamped, Timed
<1>6. Numbered(t)'
  BY <1>2, <1>4 DEF Numbered, Live, Working, Waiting
<1> QED
  BY <1>5, <1>6

LEMMA ThreadHeads ==
  ASSUME ContentInv, HeadInv, NEW t \in Thread, ThreadStep(t), ~overlap',
         NEW u \in Thread, u = tid'
  PROVE  Stamped(u)' /\ Numbered(u)'
<1>1. Inv /\ TypeInv /\ tid' = tid /\ draws' = draws /\ ~overlap
  <2>1. UNCHANGED sessionVars
    BY DEF ThreadStep, StartThread, NextNal, SetTimestamp, EndOfFile, Wake,
         LoadSingle, LoadFirst, Fragment, LastFragment, SetHeader, SendTo,
         ClearBuffer, Die,
         RunWild, Uses
  <2>2. ~overlap
    BY DEF ThreadStep, StartThread, NextNal, SetTimestamp, EndOfFile, Wake,
         LoadSingle, LoadFirst, Fragment, LastFragment, SetHeader, SendTo,
         ClearBuffer, Die,
         RunWild, Uses
  <2> QED
    BY <2>1, <2>2 DEF ContentInv, Inv, sessionVars
<1>2. Stamped(u) /\ Numbered(u) /\ Follows(u)
  BY <1>1 DEF ContentInv, HeadInv, Content
<1>3. CASE t = u
  BY <1>1, <1>2, <1>3, NalHeads, PacketHeads, SendHeads, ClearHeads DEF ThreadStep
<1>4. CASE t # u
  <2>1. UNCHANGED <<pkt, header>>
    BY <1>1, <1>4, OtherQuiet
  <2>2. ~SetTimestamp(t)
    BY <1>1, <1>4 DEF SetTimestamp, Uses
  <2>3. stamp' = stamp
    BY <2>2 DEF ThreadStep, StartThread, NextNal, EndOfFile, Wake, LoadSingle, LoadFirst,
       Fragment, LastFragment, SetHeader, SendTo, ClearBuffer, Die, RunWild, rtp
  <2>4. th'[u] = th[u]
    BY <1>1, <1>4, ThreadTypes, OtherThreads
  <2> QED
    BY <1>1, <1>2, <2>1, <2>3, <2>4, SameHeads
<1> QED
  BY <1>3, <1>4

LEMMA HeadInvHolds == Spec => [](ContentInv /\ HeadInv)
<1>1. Init => HeadInv
  <2> SUFFICES ASSUME Init PROVE HeadInv
    OBVIOUS
  <2>1. Drawn
    BY DEF Init, Drawn
  <2>2. \A t \in Thread : t # tid
    BY StreamAssumption DEF Init, Thread, StreamAssumption
  <2> QED
    BY <2>1, <2>2 DEF HeadInv
<1>2. ContentInv /\ HeadInv /\ [Next]_vars => HeadInv'
  <2> SUFFICES ASSUME ContentInv, HeadInv, [Next]_vars PROVE HeadInv'
    OBVIOUS
  <2>1. Drawn'
    BY DrawnStep DEF ContentInv, HeadInv
  <2>2. ASSUME ~overlap', NEW u \in Thread, u = tid'
        PROVE  Stamped(u)' /\ Numbered(u)'
    <3>1. CASE UNCHANGED vars
      BY <2>2, <3>1, SameHeads DEF HeadInv, vars, sessionVars, rtp
    <3> QED
      BY <2>2, <3>1, SessionHeads, ThreadHeads DEF Next
  <2> QED
    BY <2>1, <2>2 DEF HeadInv
<1> QED
  BY <1>1, <1>2, ContentHolds, PTL DEF Spec

(* HeadersAdvance: sequence numbers follow one another, and between two    *)
(* PLAYs the time advances by one tick for each slice and nothing else,    *)
(* though the Timestamp is read and stored in two steps.                   *)
THEOREM HeadersDoAdvance == Spec => HeadersAdvance
<1> DEFINE A ==
      pkt' # pkt /\ pkt # None /\ ~overlap' /\ pkt'.by = pkt.by =>
        /\ pkt'.header.seq = (pkt.header.seq + 1) % SeqMod
        /\ pkt'.header.draw = pkt.header.draw =>
             IF Starts(pkt') /\ NalOf(pkt').slice
             THEN \E f \in File : pkt'.header.time =
                    (pkt.header.time + Media[f].tick) % TimeMod
             ELSE pkt'.header.time = pkt.header.time
<1>1. ContentInv /\ HeadInv /\ [Next]_vars => A
  <2> SUFFICES ASSUME ContentInv, HeadInv, [Next]_vars, pkt' # pkt, pkt # None,
                      ~overlap', pkt'.by = pkt.by
               PROVE  A
    OBVIOUS
  <2>1. PICK t \in Thread : SendTo(t)
    BY PacketFrame
  <2>2. Inv /\ t = tid /\ ~overlap
    BY <2>1 DEF ContentInv, Inv, Silenced, SendTo, Live, Waiting
  <2>3. Content(t) /\ Long(t) /\ Stamped(t) /\ Numbered(t)
    BY <2>2 DEF ContentInv, HeadInv
  <2>4. /\ NalOf(pkt') = Nals(t)[th[t].at] /\ pkt'.by = t
        /\ Starts(pkt') <=> th[t].off <= 1
    BY <2>1, <2>2, <2>3, Sends
  <2>5. Sent(t) /\ th[t].pc = "send" /\ pkt'.header = header
    BY <2>1, <2>4 DEF Sent, SendTo
  <2>6. header.seq = (pkt.header.seq + 1) % SeqMod
    BY <2>3, <2>5 DEF Numbered, NextSeq
  <2>7. header.draw = pkt.header.draw => Timed(t, header.time)
    BY <2>3, <2>5 DEF Stamped
  <2> QED
    BY <2>4, <2>5, <2>6, <2>7 DEF Timed, Ticks, FirstOf, Slice
<1>2. ContentInv /\ HeadInv /\ [Next]_vars => [A]_vars
  BY <1>1
<1> QED
  BY <1>2, HeadInvHolds, PTL DEF Spec, HeadersAdvance
=============================================================================
