------------------------------ MODULE AacStream ------------------------------
(***************************************************************************)
(* The audio stream of one client: the threads AAC_Entrance that PLAY      *)
(* starts, one after the other, on the same RTP_class_t                    *)
(* (AAC_transport.c, RTP_header.c, RTP_SendDate.c), and what the session   *)
(* does to it in readFile_internal, set_AAC_Lines, handle_PLAY and         *)
(* media_class_realease.                                                   *)
(*                                                                         *)
(* A thread keeps the media_buf it starts with, and reads media_size and   *)
(* sample_rate, which belong to the file of the latest DESCRIBE, in every  *)
(* round.  It builds a packet by advancing the pointer load, which it      *)
(* shares with the thread PLAY has cancelled before it.  Reads and writes  *)
(* outside the buffers, or of freed memory, end a thread in the place      *)
(* "wild"; a division by zero ends the process in "fault".                 *)
(***************************************************************************)
EXTENDS Naturals, FiniteSets, Sequences

CONSTANTS
  MTU,       \* the size of RTP_buf
  Media,     \* the files: their size, the positions of sync words, and for each
             \* the length its header gives (bytes 3 to 5), what the same bits
             \* say two bytes later, and protection_absent; the sample rate
  ShortHeader, LongHeader,  \* 7 and, with a CRC, 9: sizes of an ADTS header
  FrameSize, \* framesize, the ticks of a frame
  TimeMod,   \* 2^32
  ByteMod,   \* 2^8, the values of one byte of the sequence number
  LenMod,    \* 2^16, the range of frame_len
  Draws,     \* what our_random32() may give: [seq, time]
  MaxPlays,  \* bound: PLAY requests
  MaxReads,  \* bound: DESCRIBE requests behind the first
  None       \* no packet yet

Header == 12                   \* sizeof(RTP_header)
AuHeader == 4                  \* AU_HEADER_SIZE
SeqMod == ByteMod * ByteMod
Thread == 1..MaxPlays
File == DOMAIN Media

(* A sync word is two bytes of the file; a length has 13 bits.             *)
IsMedia(f) ==
  /\ f.size \in Nat /\ f.sync \subseteq 0..(f.size - 2)
  /\ f.len \in [f.sync -> 0..(LenMod - 1)] /\ f.later \in [f.sync -> 0..(LenMod - 1)]
  /\ f.absent \in [f.sync -> BOOLEAN] /\ f.rate \in Nat

ASSUME AacAssumption ==
  /\ MTU \in Nat /\ MTU >= Header + AuHeader
  /\ Len(Media) \in Nat \ {0} /\ File = 1..Len(Media)
  /\ \A i \in File : IsMedia(Media[i])
  /\ FrameSize \in Nat /\ TimeMod \in Nat \ {0} /\ ByteMod \in Nat \ {0}
  /\ ShortHeader \in Nat \ {0} /\ LongHeader \in Nat /\ ShortHeader < LongHeader
  /\ LenMod \in Nat /\ LongHeader <= LenMod
  /\ Draws \subseteq [seq: 0..(SeqMod - 1), time: 0..(TimeMod - 1)]
  /\ MaxPlays \in Nat /\ MaxReads \in Nat

VARIABLES
  \* the session: its place in the handlers; the files media_size, media_buf
  \* and sample_rate are of (0: it is not set yet); how many DESCRIBEs there
  \* were; RTP_tid; how often RTP-Info was drawn; whether the media_class_t is
  \* freed
  session, sized, media, rated, reads, tid, draws, freed,
  \* RTP_class_t: sequence_Basenumber and Timestamp; the header in RTP_buf, in
  \* host byte order; load as an offset behind it; what is there
  base, stamp, header, load, body,
  \* the threads: place, whether cancelled, the file, media_load, frame_len,
  \* the two counters being added up, the length given to rtp_SendData
  th,
  \* the last packet handed to sendto(); whether a cancelled thread has used
  \* what the next one was using already; whether a DESCRIBE followed a PLAY
  pkt, overlap, switched

sessionVars == <<session, sized, media, rated, reads, tid, draws, freed, switched>>
rtp == <<base, stamp, header, load, body>>
vars == <<sessionVars, rtp, th, pkt, overlap>>

Idle == [pc |-> "none", cancelled |-> FALSE, file |-> 1, at |-> 0, len |-> 0,
         base |-> 0, sum |-> 0, out |-> 0]
Empty == [au |-> 0, from |-> 0, size |-> 0, off |-> 0]

(* A file has been described, at least as far as media_buf.                *)
Init ==
  /\ session = "idle" /\ reads = 0
  /\ media \in File /\ sized = media /\ rated \in {0, media}
  /\ tid = 0 /\ draws = 0 /\ freed = FALSE /\ switched = FALSE
  /\ base = 0 /\ stamp = 0 /\ header = [seq |-> 0, time |-> 0, draw |-> 0]
  /\ load = 0 /\ body = Empty
  /\ th = [t \in Thread |-> Idle]
  /\ pkt = None /\ overlap = FALSE

(* The process is there: no thread has divided by zero.                    *)
Alive == \A t \in Thread : th[t].pc # "fault"

----------------------------------------------------------------------------
(* The session.  DESCRIBE stores media_size, then media_buf, then the      *)
(* sample rate; not the last if the video of the container cannot be read. *)
Describing(from, to) ==
  /\ session = from /\ session' = to
  /\ UNCHANGED <<tid, draws, freed, rtp, th, pkt, overlap>>

ReadFile ==
  /\ Describing("idle", "reading")
  /\ reads < MaxReads /\ reads' = reads + 1
  /\ sized' \in File /\ switched' = (switched \/ tid > 0)
  /\ UNCHANGED <<media, rated>>

FileRead ==
  /\ Describing("reading", "sdp") \/ Describing("reading", "idle")
  /\ media' = sized
  /\ UNCHANGED <<sized, rated, reads, switched>>

SetAacLines ==
  /\ Describing("sdp", "idle")
  /\ rated' = media
  /\ UNCHANGED <<sized, media, reads, switched>>

(* handle_PLAY: RTP-Info with a new sequence number and time, then         *)
(* pthread_cancel of the old thread, then the new thread.                  *)
Playing(from, to) ==
  /\ session = from /\ session' = to
  /\ UNCHANGED <<sized, media, rated, reads, freed, switched>>
  /\ UNCHANGED <<header, load, body, pkt, overlap>>

GetRtpInfo ==
  /\ Playing("idle", "cancel") /\ tid < MaxPlays
  /\ \E d \in Draws : base' = d.seq /\ stamp' = d.time
  /\ draws' = draws + 1
  /\ UNCHANGED <<tid, th>>

(* A mutant of OldThread: the old thread is not cancelled.                 *)
KeepThread == th
OldThread == IF tid = 0 THEN th ELSE [th EXCEPT ![tid].cancelled = TRUE]

CancelOld ==
  /\ Playing("cancel", "create") /\ th' = OldThread
  /\ UNCHANGED <<tid, draws, base, stamp>>

CreateThread ==
  /\ Playing("create", "idle")
  /\ tid' = tid + 1 /\ th' = [th EXCEPT ![tid + 1].pc = "start"]
  /\ UNCHANGED <<draws, base, stamp>>

(* media_class_realease: cancelled, and freed without waiting for the end. *)
Release ==
  /\ session = "idle" /\ session' = "gone"
  /\ th' = OldThread /\ freed' = TRUE
  /\ UNCHANGED <<sized, media, rated, reads, tid, draws, switched, rtp, pkt, overlap>>

----------------------------------------------------------------------------
(* A streaming thread.                                                     *)

Working == {"start", "next", "copy", "count", "head", "clear"}
Waiting == {"send", "sleep"}

(* A step that uses the shared structures.                                 *)
Uses(t, place) ==
  /\ th[t].pc = place /\ ~freed
  /\ overlap' = (overlap \/ tid # t)
  /\ UNCHANGED <<sessionVars, pkt>>

To(t, place) == [th EXCEPT ![t].pc = place]

(* find_syncword from a position on: the positions it may stop at.         *)
Own(t) == Media[th[t].file]
SyncsFrom(f, at) == {p \in f.sync : p >= at}
IsFirst(p, ps) == p \in ps /\ \A q \in ps : p <= q

(* init_rtp_header stores the sequence number without htons().             *)
Swapped(n) == (n % ByteMod) * ByteMod + n \div ByteMod

StartThread(t) ==
  /\ Uses(t, "start")
  /\ header' = [seq |-> Swapped(base), time |-> 0, draw |-> draws]
  /\ load' = 0
  /\ \E p \in Media[media].sync :
       /\ IsFirst(p, Media[media].sync)
       /\ th' = [th EXCEPT ![t].pc = "next", ![t].file = media, ![t].at = p]
  /\ UNCHANGED <<base, stamp, body>>

(* A mutant of Ended: the loop has no end.                                 *)
NeverEnded(t) == th
Ended(t) == To(t, "done")

EndOfFile(t) ==
  /\ Uses(t, "next") /\ th[t].at >= Media[sized].size
  /\ th' = Ended(t)
  /\ UNCHANGED rtp

(* adts_header_size: as the first header of the file has it.               *)
HeaderSize(f) ==
  IF \E p \in f.sync : IsFirst(p, f.sync) /\ ~f.absent[p] THEN LongHeader ELSE ShortHeader

(* The next frame: its length without the header, in 16 bits, and the AU   *)
(* header.  get_frame_len reads all of the header but its last byte, and   *)
(* takes the length of a header with CRC from two bytes behind where it    *)
(* is.  Before ToHeader and FrameLen a mutant of each.                     *)
ToByteAfter(p, adts) == p + 1
ToHeader(p, adts) == p + adts
LenRead(f, p) == IF HeaderSize(f) = ShortHeader THEN f.len[p] ELSE f.later[p]
WholeLen(f, p) == LenRead(f, p)
FrameLen(f, p) == (LenRead(f, p) + LenMod - HeaderSize(f)) % LenMod

NextFrame(t) ==
  /\ Uses(t, "next") /\ th[t].at < Media[sized].size
  /\ \E p \in Own(t).sync :
       /\ IsFirst(p, SyncsFrom(Own(t), th[t].at))
       /\ p + HeaderSize(Own(t)) <= Own(t).size + 1
       /\ load + AuHeader + Header <= MTU
       /\ th' = [th EXCEPT ![t].pc = "copy", ![t].at = ToHeader(p, HeaderSize(Own(t))),
                           ![t].len = FrameLen(Own(t), p)]
       /\ body' = [body EXCEPT !.au = FrameLen(Own(t), p)]
  /\ load' = load + AuHeader
  /\ UNCHANGED <<base, stamp, header>>

(* The frame itself; sequence_Basenumber and Timestamp are read, to be     *)
(* added up in 16 and 32 bits.  Before NextTime a mutant: it has no width. *)
WideTime(n) == n + FrameSize
NextTime(n) == (n + FrameSize) % TimeMod
InFile(t) == th[t].len = 0 \/ th[t].at + th[t].len <= Own(t).size
InPacket(t) == load + th[t].len + Header <= MTU

CopyFrame(t) ==
  /\ Uses(t, "copy") /\ InFile(t) /\ InPacket(t)
  /\ body' = [body EXCEPT !.from = th[t].at, !.size = th[t].len, !.off = load]
  /\ load' = load + th[t].len
  /\ th' = [th EXCEPT ![t].pc = "count", ![t].at = th[t].at + th[t].len,
                      ![t].base = (base + 1) % SeqMod,
                      ![t].sum = NextTime(stamp)]
  /\ UNCHANGED <<base, stamp, header>>

Count(t) ==
  /\ Uses(t, "count")
  /\ base' = th[t].base /\ stamp' = th[t].sum
  /\ th' = To(t, "head")
  /\ UNCHANGED <<header, load, body>>

(* rtp_SendData: the length comes from load; the header, then sendto(),    *)
(* then load is set back and the buffer cleared.  Before NextSeq and       *)
(* Rewound a mutant of each.                                               *)
SameSeq(n) == n
NextSeq(n) == (n + 1) % SeqMod

SetHeader(t) ==
  /\ Uses(t, "head")
  /\ header' = [seq |-> NextSeq(header.seq), time |-> stamp, draw |-> draws]
  /\ th' = [th EXCEPT ![t].pc = "send", ![t].out = load]
  /\ UNCHANGED <<base, stamp, load, body>>

SendTo(t) ==
  /\ th[t].pc = "send" /\ ~th[t].cancelled
  /\ pkt' = [by |-> t, file |-> th[t].file, len |-> th[t].out + Header,
             body |-> body, header |-> header]
  /\ th' = To(t, "clear")
  /\ UNCHANGED <<sessionVars, rtp, overlap>>

NotRewound == load
Rewound == 0

(* Then it sleeps for a frame, at the sample rate of the latest DESCRIBE.  *)
Rate == IF rated = 0 THEN 0 ELSE Media[rated].rate

Clear(t) ==
  /\ Uses(t, "clear")
  /\ load' = Rewound /\ body' = Empty
  /\ th' = To(t, IF Rate = 0 THEN "fault" ELSE "sleep")
  /\ UNCHANGED <<base, stamp, header>>

Wake(t) ==
  /\ th[t].pc = "sleep" /\ ~th[t].cancelled
  /\ th' = To(t, "next")
  /\ UNCHANGED <<sessionVars, rtp, pkt, overlap>>

(* A cancelled thread ends at usleep() and sendto().                       *)
Die(t) ==
  /\ th[t].pc \in Waiting /\ th[t].cancelled
  /\ th' = To(t, "dead")
  /\ UNCHANGED <<sessionVars, rtp, pkt, overlap>>

(* Freed memory; a file that is only half read; no sync word or not all of *)
(* a header before the end of the file; a frame that is not all there, or  *)
(* does not fit the packet.                                                *)
Strays(t) ==
  \/ freed
  \/ th[t].pc = "start" /\ (session = "reading" \/ Media[media].sync = {})
  \/ /\ th[t].pc = "next" /\ th[t].at < Media[sized].size
     /\ \/ SyncsFrom(Own(t), th[t].at) = {}
        \/ \E p \in Own(t).sync : /\ IsFirst(p, SyncsFrom(Own(t), th[t].at))
                                 /\ p + HeaderSize(Own(t)) > Own(t).size + 1
        \/ load + AuHeader + Header > MTU
  \/ th[t].pc = "copy" /\ ~(InFile(t) /\ InPacket(t))

RunWild(t) ==
  /\ th[t].pc \in Working /\ Strays(t)
  /\ th' = To(t, "wild")
  /\ overlap' = (overlap \/ tid # t)
  /\ UNCHANGED <<sessionVars, rtp, pkt>>

----------------------------------------------------------------------------
ThreadStep(t) ==
  /\ Alive
  /\ \/ StartThread(t) \/ EndOfFile(t) \/ NextFrame(t) \/ CopyFrame(t) \/ Count(t)
     \/ SetHeader(t) \/ SendTo(t) \/ Clear(t) \/ Wake(t) \/ Die(t) \/ RunWild(t)

SessionStep ==
  /\ Alive
  /\ \/ ReadFile \/ FileRead \/ SetAacLines
     \/ GetRtpInfo \/ CancelOld \/ CreateThread \/ Release

Next == SessionStep \/ \E t \in Thread : ThreadStep(t)

Spec == Init /\ [][Next]_vars

(* Every streaming thread is scheduled, and usleep() and sendto() return.  *)
FairSpec == Spec /\ \A t \in Thread : WF_vars(ThreadStep(t))

----------------------------------------------------------------------------
Place == {"none", "done", "dead", "wild", "fault"} \cup Working \cup Waiting
Short == 0..(SeqMod - 1)
Time == 0..(TimeMod - 1)
Body == [au: Nat, from: Nat, size: Nat, off: Nat]
RtpHeader == [seq: Short, time: Time, draw: Nat]
State == [pc: Place, cancelled: BOOLEAN, file: File, at: Nat, len: 0..(LenMod - 1),
          base: Short, sum: Time, out: 0..(MTU - Header)]
Packet == [by: Thread, file: File, len: Nat, body: Body, header: RtpHeader]

ASSUME AacNoneAssumption == None \notin Packet

(* Types.  load stays inside RTP_buf, whatever threads advance it and      *)
(* whatever lengths the file gives, up to the step that ends in "wild".    *)
TypeOK ==
  /\ session \in {"idle", "reading", "sdp", "cancel", "create", "gone"}
  /\ sized \in File /\ media \in File /\ rated \in {0} \cup File
  /\ reads \in 0..MaxReads /\ tid \in 0..MaxPlays /\ draws \in Nat
  /\ freed \in BOOLEAN /\ switched \in BOOLEAN /\ overlap \in BOOLEAN
  /\ base \in Short /\ stamp \in Time /\ header \in RtpHeader
  /\ load \in 0..(MTU - Header) /\ body \in Body
  /\ th \in [Thread -> State]
  /\ pkt \in {None} \cup Packet

(* The sync word of the frame a packet carries, and where the copy ends.   *)
SyncOf(p) == p.body.from - HeaderSize(Media[p.file])
End(p) == p.body.from + p.body.size

(* The headers of the file have no CRC, and give lengths that cover them.  *)
HasCrc(f) == \E p \in f.sync : ~f.absent[p]
Readable(f) == ~HasCrc(f) /\ \A p \in f.sync : ShortHeader <= f.len[p]

(* A packet is one frame: its AU header, the size of the payload and the   *)
(* length of the packet say the same, and so does, where there is no CRC,  *)
(* the ADTS header before the frame in the file.                           *)
PacketIsFrame ==
  pkt # None /\ ~overlap =>
    /\ pkt.body.from >= HeaderSize(Media[pkt.file])
    /\ SyncOf(pkt) \in Media[pkt.file].sync
    /\ pkt.body.au = pkt.body.size /\ pkt.body.off = AuHeader
    /\ pkt.len = Header + AuHeader + pkt.body.size /\ pkt.len <= MTU
    /\ Readable(Media[pkt.file]) =>
         ShortHeader + pkt.body.size = Media[pkt.file].len[SyncOf(pkt)]

(* Where a frame ends: as its header says, or where the copy ended if that *)
(* cannot be told.                                                         *)
FrameEnd(p) ==
  IF Readable(Media[p.file]) THEN SyncOf(p) + Media[p.file].len[SyncOf(p)] ELSE End(p)

(* The frames go out in the order of the file, none twice and none left    *)
(* out: the next one is at the first sync word behind this one.  A stream  *)
(* that comes to its end has sent the last, unless the length it compares  *)
(* with is by then that of another file.                                   *)
FramesInOrder ==
  [][ (~overlap' =>
        /\ pkt' # pkt =>
             IsFirst(SyncOf(pkt'), SyncsFrom(Media[pkt'.file],
               IF pkt = None \/ pkt'.by # pkt.by THEN 0 ELSE FrameEnd(pkt)))
        /\ \A t \in Thread :
             th[t].pc = "next" /\ th'[t].pc = "done" /\ sized = th[t].file =>
               pkt # None /\ pkt.by = t /\ FrameEnd(pkt) >= Media[sized].size) ]_vars

(* Sequence numbers are consecutive, modulo 2^16, and between two PLAYs    *)
(* the time of a packet is one frame after that of the packet before,      *)
(* though the session draws both anew while the old thread adds them up.   *)
NumbersAdvance ==
  [][ (pkt' # pkt /\ pkt # None /\ ~overlap' /\ pkt'.by = pkt.by =>
        /\ pkt'.header.seq = (pkt.header.seq + 1) % SeqMod
        /\ pkt'.header.draw = pkt.header.draw =>
             pkt'.header.time = (pkt.header.time + FrameSize) % TimeMod) ]_vars

(* A file is sound if behind every sync word there is a whole frame that   *)
(* fits a packet, followed by the end of the file or by another sync word: *)
(* by what its headers say, whoever reads them.                            *)
SizeAt(f, p) == IF f.absent[p] THEN ShortHeader ELSE LongHeader
Sound(f) ==
  /\ f.sync # {}
  /\ \A p \in f.sync :
       /\ SizeAt(f, p) <= f.len[p] /\ p + f.len[p] <= f.size
       /\ Header + AuHeader + (f.len[p] - SizeAt(f, p)) <= MTU
       /\ p + f.len[p] = f.size \/ SyncsFrom(f, p + f.len[p]) # {}

(* The stream of a sound file without CRC stays inside its buffers and     *)
(* ends well, unless it has been overtaken by the next PLAY, the client    *)
(* has been released, a DESCRIBE has changed the size or the rate under    *)
(* it, or the DESCRIBE before it stopped before it set the rate.  That a   *)
(* sound file with CRC strays is the fault of get_frame_len.               *)
Streamable(f) == Sound(f) /\ ~HasCrc(f)
TroubleHasCause ==
  \A t \in Thread :
    /\ th[t].pc = "wild" =>
         \/ overlap \/ freed \/ switched
         \/ ~Streamable(Media[th[t].file]) \/ ~Streamable(Media[media])
    /\ th[t].pc = "fault" => switched \/ rated # media \/ Media[media].rate = 0

(* A stream comes to its end: the whole file sent, cancelled, or astray.   *)
StreamEnds ==
  \A t \in Thread :
    th[t].pc = "start" ~> th[t].pc \in {"done", "dead", "wild"} \/ ~Alive
=============================================================================
