----------------------------- MODULE H264Stream -----------------------------
(***************************************************************************)
(* The video stream of one client: the threads H264_Entrance that PLAY     *)
(* starts, one after the other, on the same RTP_class_t (H264_transport.c, *)
(* RTP_header.c, RTP_SendDate.c), and what the session does to it in       *)
(* readFile_internal, handle_PLAY and media_class_realease.                *)
(*                                                                         *)
(* A thread shares the Timestamp, the RTP header and the packet buffer     *)
(* with the thread PLAY has cancelled before it: cancellation is deferred, *)
(* so that a cancelled thread runs on to its next usleep() or sendto().    *)
(* The Timestamp and the frame rate it shares with the session too.        *)
(* Undefined behaviour (a read of freed memory, the length of one file     *)
(* with the bytes of another) ends a thread in the place "wild"; what is   *)
(* said of the streams is said as long as it has not happened.             *)
(***************************************************************************)
EXTENDS Naturals, Sequences

CONSTANTS
  MTU,       \* the size of RTP_buf
  Media,     \* the files that are described one after the other: their NAL
             \* units, by size, whether a slice, and whether the last of its
             \* frame, which the code never asks; and 90000 / framerate
  TimeMod,   \* 2^32
  ByteMod,   \* 2^8, the values of one byte of the sequence number
  Draws,     \* what our_random32() may give: [seq, time]
  MaxPlays,  \* bound: PLAY requests
  None       \* no packet yet

Header == 12                   \* sizeof(RTP_header)
FuHeader == 2                  \* FU indicator and FU header
SeqMod == ByteMod * ByteMod
Thread == 1..MaxPlays
File == DOMAIN Media
Nal == [size: Nat, slice: BOOLEAN, last: BOOLEAN]

ASSUME StreamAssumption ==
  /\ MTU \in Nat /\ MTU > Header + FuHeader
  /\ Media \in Seq([nals: Seq(Nal), tick: Nat]) /\ Media # <<>>
  /\ TimeMod \in Nat \ {0} /\ ByteMod \in Nat \ {0}
  /\ Draws \subseteq [seq: 0..(SeqMod - 1), time: 0..(TimeMod - 1)]
  /\ MaxPlays \in Nat

VARIABLES
  \* the session: its place in the handlers, media_buf and media_size, RTP_tid,
  \* the RTP-Info it gave, how often that was, and media_class_t freed
  session, media, tid, info, draws, freed,
  \* RTP_class_t: Timestamp; the header in RTP_buf, in host byte order; what
  \* is in RTP_buf behind the header
  stamp, header, load,
  \* the threads: place, whether cancelled, the file, the NAL, the bytes of it
  \* behind the pointer and ahead of it, those in the packet, mark, and the
  \* Timestamp being added up
  th,
  \* the last packet handed to sendto(), and whether a cancelled thread has
  \* used what the next one was using already
  pkt, overlap

sessionVars == <<session, media, tid, info, draws, freed>>
rtp == <<stamp, header, load>>
vars == <<sessionVars, rtp, th, pkt, overlap>>

Idle == [pc |-> "none", cancelled |-> FALSE, file |-> 1, at |-> 0, off |-> 0,
         left |-> 0, piece |-> 0, mark |-> FALSE, sum |-> 0]
Empty == [nal |-> 0, kind |-> "none", s |-> FALSE, e |-> FALSE, from |-> 0]

Init ==
  /\ session = "idle" /\ media = 1 /\ tid = 0 /\ draws = 0 /\ freed = FALSE
  /\ info = [seq |-> 0, time |-> 0]
  /\ stamp = 0 /\ header = [m |-> FALSE, seq |-> 0, time |-> 0, draw |-> 0]
  /\ load = Empty
  /\ th = [t \in Thread |-> Idle]
  /\ pkt = None /\ overlap = FALSE

----------------------------------------------------------------------------
(* The session.  DESCRIBE reads another file: media_size, then media_buf.   *)

ReadFile ==
  /\ session = "idle" /\ session' = "reading"
  /\ UNCHANGED <<media, tid, info, draws, freed, rtp, th, pkt, overlap>>

FileRead ==
  /\ session = "reading" /\ session' = "idle"
  /\ media' \in File
  /\ UNCHANGED <<tid, info, draws, freed, rtp, th, pkt, overlap>>

(* handle_PLAY: RTP-Info with a new sequence number and time, then         *)
(* pthread_cancel of the old thread, then the new thread.                  *)

GetRtpInfo ==
  /\ session = "idle" /\ tid < MaxPlays
  /\ \E d \in Draws : info' = d /\ stamp' = d.time
  /\ draws' = draws + 1
  /\ session' = "cancel"
  /\ UNCHANGED <<media, tid, freed, header, load, th, pkt, overlap>>

(* A mutant of OldThread: the old thread is not cancelled.                 *)
KeepThread == th
OldThread == IF tid = 0 THEN th ELSE [th EXCEPT ![tid].cancelled = TRUE]

CancelOld ==
  /\ session = "cancel" /\ session' = "create"
  /\ th' = OldThread
  /\ UNCHANGED <<media, tid, info, draws, freed, rtp, pkt, overlap>>

CreateThread ==
  /\ session = "create" /\ session' = "idle"
  /\ tid' = tid + 1
  /\ th' = [th EXCEPT ![tid + 1].pc = "start"]
  /\ UNCHANGED <<media, info, draws, freed, rtp, pkt, overlap>>

(* media_class_realease: cancelled, and freed without waiting for the end. *)
Release ==
  /\ session = "idle" /\ session' = "gone"
  /\ th' = OldThread
  /\ freed' = TRUE
  /\ UNCHANGED <<media, tid, info, draws, rtp, pkt, overlap>>

----------------------------------------------------------------------------
(* A streaming thread.                                                     *)

(* The places where it uses the shared structures, and where a pending     *)
(* cancellation takes effect.                                              *)
Working == {"start", "next", "tick", "load", "fragment", "head", "clear"}
Waiting == {"sleep", "send"}

(* A step that uses the shared structures.                                 *)
Uses(t, place) ==
  /\ th[t].pc = place /\ ~freed
  /\ overlap' = (overlap \/ tid # t)
  /\ UNCHANGED <<sessionVars, pkt>>

Nals(t) == Media[th[t].file].nals

(* init_rtp_header stores the sequence number without htons(); so it does  *)
(* the time, which is set again before any packet is sent.                 *)
Swapped(n) == (n % ByteMod) * ByteMod + n \div ByteMod

StartThread(t) ==
  /\ Uses(t, "start")
  /\ header' = [m |-> FALSE, seq |-> Swapped(info.seq), time |-> 0,
                draw |-> draws]
  /\ th' = [th EXCEPT ![t].pc = "next", ![t].file = media]
  /\ UNCHANGED <<stamp, load>>

(* The next NAL.  A slice, type 1 to 5, advances the Timestamp, by a rate  *)
(* and from a value that are read before the sum is written, and sleeps.   *)
(* Before NeedsTick a mutant of it.                                        *)
TickAlways(nal) == TRUE
NeedsTick(nal) == nal.slice

NextNal(t) ==
  /\ Uses(t, "next") /\ th[t].at < Len(Nals(t))
  /\ LET nal == Nals(t)[th[t].at + 1]
     IN  th' = [th EXCEPT ![t].pc = IF NeedsTick(nal) THEN "tick" ELSE "load",
                          ![t].at = th[t].at + 1, ![t].off = 0,
                          ![t].left = nal.size,
                          ![t].sum = (stamp + Media[media].tick) % TimeMod]
  /\ UNCHANGED rtp

SetTimestamp(t) ==
  /\ Uses(t, "tick")
  /\ stamp' = th[t].sum
  /\ th' = [th EXCEPT ![t].pc = "sleep"]
  /\ UNCHANGED <<header, load>>

(* A thread ends, and its locals with it.  Before it a mutant.             *)
NeverEnded(t, place) == th
Ended(t, place) == [th EXCEPT ![t] = [Idle EXCEPT !.pc = place]]

EndOfFile(t) ==
  /\ Uses(t, "next") /\ th[t].at = Len(Nals(t))
  /\ th' = Ended(t, "done")
  /\ UNCHANGED rtp

Wake(t) ==
  /\ th[t].pc = "sleep" /\ ~th[t].cancelled
  /\ th' = [th EXCEPT ![t].pc = "load"]
  /\ UNCHANGED <<sessionVars, rtp, pkt, overlap>>

(* A NAL that fits a packet goes alone.                                    *)
LoadSingle(t) ==
  /\ Uses(t, "load") /\ th[t].left <= MTU - Header
  /\ load' = [nal |-> th[t].at, kind |-> "single", s |-> FALSE, e |-> FALSE,
              from |-> 0]
  /\ th' = [th EXCEPT ![t].pc = "head", ![t].piece = th[t].left,
                      ![t].mark = Nals(t)[th[t].at].slice]
  /\ UNCHANGED <<stamp, header>>

(* A longer one is cut: FU indicator and header with S, and the first byte *)
(* of the NAL, which they stand for, skipped.                              *)
LoadFirst(t) ==
  /\ Uses(t, "load") /\ th[t].left > MTU - Header
  /\ load' = [nal |-> th[t].at, kind |-> "fu", s |-> TRUE, e |-> FALSE,
              from |-> 0]
  /\ th' = [th EXCEPT ![t].pc = "fragment", ![t].off = 1,
                      ![t].left = th[t].left - 1]
  /\ UNCHANGED <<stamp, header>>

(* A mutant of FitsPacket: the room for the FU header forgotten.           *)
FitsBuffer(n) == n + Header <= MTU
FitsPacket(n) == n + FuHeader + Header <= MTU
Room == MTU - FuHeader - Header

Fragment(t) ==
  /\ Uses(t, "fragment") /\ ~FitsPacket(th[t].left)
  /\ load' = [load EXCEPT !.from = th[t].off]
  /\ th' = [th EXCEPT ![t].pc = "head", ![t].piece = Room, ![t].mark = FALSE]
  /\ UNCHANGED <<stamp, header>>

LastFragment(t) ==
  /\ Uses(t, "fragment") /\ FitsPacket(th[t].left)
  /\ load' = [load EXCEPT !.from = th[t].off, !.e = TRUE]
  /\ th' = [th EXCEPT ![t].pc = "head", ![t].piece = th[t].left,
                      ![t].mark = Nals(t)[th[t].at].slice]
  /\ UNCHANGED <<stamp, header>>

(* rtp_SendData: the header, then sendto(), then, from where a cancelled   *)
(* thread no longer stops, the buffer cleared behind its first two bytes,  *)
(* which keeps the FU header.  Before NextSeq, Cleared and Advanced a      *)
(* mutant of each.                                                         *)
NextSeqUnbounded(n) == n + 1
NextSeq(n) == (n + 1) % SeqMod

SetHeader(t) ==
  /\ Uses(t, "head")
  /\ header' = [m |-> th[t].mark, seq |-> NextSeq(header.seq), time |-> stamp,
                draw |-> draws]
  /\ th' = [th EXCEPT ![t].pc = "send"]
  /\ UNCHANGED <<stamp, load>>

(* The length given to rtp_SendData: a whole NAL, or a piece of one.       *)
Length(t) ==
  th[t].piece + Header + (IF th[t].off = 0 THEN 0 ELSE FuHeader)

SendTo(t) ==
  /\ th[t].pc = "send" /\ ~th[t].cancelled
  /\ pkt' = [by |-> t, file |-> th[t].file, len |-> Length(t),
             load |-> load, header |-> header]
  /\ th' = [th EXCEPT ![t].pc = "clear"]
  /\ UNCHANGED <<sessionVars, rtp, overlap>>

ClearedAll == [load EXCEPT !.kind = "none", !.from = 0]
Cleared == [load EXCEPT !.from = 0]

(* After a fragment that was not the last, S is cleared, and the loop goes *)
(* on with the rest of the NAL.                                            *)
NotAdvanced(t) == [th EXCEPT ![t].pc = "fragment"]
Advanced(t) ==
  [th EXCEPT ![t].pc = "fragment", ![t].off = th[t].off + th[t].piece,
             ![t].left = th[t].left - th[t].piece]

ClearBuffer(t) ==
  /\ Uses(t, "clear")
  /\ IF th[t].piece < th[t].left
     THEN th' = Advanced(t) /\ load' = [Cleared EXCEPT !.s = FALSE]
     ELSE th' = [th EXCEPT ![t].pc = "next"] /\ load' = Cleared
  /\ UNCHANGED <<stamp, header>>

(* A cancelled thread ends at usleep() and sendto().  One that is still on *)
(* its way there when the session frees the structures runs in freed       *)
(* memory; one that starts while the session reads another file may see    *)
(* the length of the one and the bytes of the other.                       *)
Die(t) ==
  /\ th[t].pc \in Waiting /\ th[t].cancelled
  /\ th' = Ended(t, "dead")
  /\ UNCHANGED <<sessionVars, rtp, pkt, overlap>>

RunWild(t) ==
  /\ \/ th[t].pc \in Working /\ freed
     \/ th[t].pc = "start" /\ session = "reading"
  /\ th' = Ended(t, "wild")
  /\ UNCHANGED <<sessionVars, rtp, pkt, overlap>>

----------------------------------------------------------------------------
ThreadStep(t) ==
  \/ StartThread(t) \/ NextNal(t) \/ SetTimestamp(t) \/ EndOfFile(t) \/ Wake(t)
  \/ LoadSingle(t) \/ LoadFirst(t) \/ Fragment(t) \/ LastFragment(t)
  \/ SetHeader(t) \/ SendTo(t) \/ ClearBuffer(t) \/ Die(t) \/ RunWild(t)

SessionStep ==
  ReadFile \/ FileRead \/ GetRtpInfo \/ CancelOld \/ CreateThread \/ Release

Next == SessionStep \/ \E t \in Thread : ThreadStep(t)

Spec == Init /\ [][Next]_vars

(* Every streaming thread is scheduled, and usleep() and sendto() return.  *)
FairSpec == Spec /\ \A t \in Thread : WF_vars(ThreadStep(t))

----------------------------------------------------------------------------
Place == {"none", "done", "dead", "wild"} \cup Working \cup Waiting
Load == [nal: Nat, kind: {"none", "single", "fu"}, s: BOOLEAN, e: BOOLEAN,
         from: Nat]
RtpHeader == [m: BOOLEAN, seq: 0..(SeqMod - 1), time: 0..(TimeMod - 1),
              draw: Nat]
State == [pc: Place, cancelled: BOOLEAN, file: File, at: Nat, off: Nat,
          left: Nat, piece: Nat, mark: BOOLEAN, sum: 0..(TimeMod - 1)]
Packet == [by: Thread, file: File, len: Nat, load: Load, header: RtpHeader]

ASSUME NoneAssumption == None \notin Packet

(* The session, RTP_class_t and the threads keep their types; the header   *)
(* fields stay within 16 and 32 bits.                                      *)
TypeOK ==
  /\ session \in {"idle", "reading", "cancel", "create", "gone"}
  /\ media \in File
  /\ tid \in 0..MaxPlays /\ (session \in {"cancel", "create"} => tid < MaxPlays)
  /\ info \in [seq: 0..(SeqMod - 1), time: 0..(TimeMod - 1)]
  /\ draws \in Nat /\ freed \in BOOLEAN
  /\ stamp \in 0..(TimeMod - 1) /\ header \in RtpHeader /\ load \in Load
  /\ th \in [Thread -> State]
  /\ pkt \in {None} \cup Packet
  /\ overlap \in BOOLEAN

NalOf(p) == Media[p.file].nals[p.load.nal]
Starts(p) == \/ p.load.kind = "single" /\ p.load.from = 0
             \/ p.load.kind = "fu" /\ p.load.s /\ p.load.from = 1
Bytes(p) == p.len - Header - (IF p.load.kind = "fu" THEN FuHeader ELSE 0)
Ends(p) == p.load.kind = "single" \/ p.load.e

(* No packet is longer than the MTU, which is the buffer it is put in.     *)
PacketFits == pkt # None => pkt.len <= MTU

(* A packet that ends a NAL unit ends it with its last byte; no fragment   *)
(* is empty or has both S and E; the marker is where a slice ends and      *)
(* nowhere else, so that no frame ends without one.                        *)
PacketWellFormed ==
  pkt # None /\ ~overlap =>
    /\ Ends(pkt) <=> pkt.load.from + Bytes(pkt) = NalOf(pkt).size
    /\ pkt.load.kind = "fu" => Bytes(pkt) > 0 /\ ~(pkt.load.s /\ pkt.load.e)
    /\ pkt.header.m <=> Ends(pkt) /\ NalOf(pkt).slice

(* RTP_SendDate.c:15 says of the marker that it marks the end of a frame;  *)
(* of a frame of several slices every slice has it.                        *)
MarkerEndsFrame ==
  pkt # None /\ ~overlap /\ pkt.header.m => Ends(pkt) /\ NalOf(pkt).last

(* The packets of a stream are the NAL units of the file in order, each    *)
(* whole: a receiver that joins the fragments gets back every byte once.   *)
NalsWhole ==
  [][pkt' # pkt /\ ~overlap' =>
       IF pkt = None \/ pkt'.by # pkt.by THEN Starts(pkt') /\ pkt'.load.nal = 1
       ELSE IF Ends(pkt) THEN Starts(pkt') /\ pkt'.load.nal = pkt.load.nal + 1
       ELSE /\ pkt'.load.kind = "fu" /\ ~pkt'.load.s
            /\ pkt'.load.nal = pkt.load.nal
            /\ pkt'.load.from = pkt.load.from + Bytes(pkt)]_vars

(* Sequence numbers of a stream are consecutive, modulo 2^16.  Between two *)
(* PLAYs its timestamps advance by one tick, of a file the session reads,  *)
(* for each slice and for nothing else.                                    *)
HeadersAdvance ==
  [][pkt' # pkt /\ pkt # None /\ ~overlap' /\ pkt'.by = pkt.by =>
       /\ pkt'.header.seq = (pkt.header.seq + 1) % SeqMod
       /\ pkt'.header.draw = pkt.header.draw =>
            IF Starts(pkt') /\ NalOf(pkt').slice
            THEN \E f \in File : pkt'.header.time =
                   (pkt.header.time + Media[f].tick) % TimeMod
            ELSE pkt'.header.time = pkt.header.time]_vars

(* What is sent is sent by the thread of the latest PLAY, and nothing is   *)
(* sent once the media_class is freed and its socket closed, though the    *)
(* threads are cancelled and never waited for.                             *)
OnlyLatestStreams ==
  [][pkt' # pkt => pkt'.by = tid' /\ ~freed']_vars

(* A stream comes to its end: the whole file sent, or cancelled.           *)
StreamEnds ==
  \A t \in Thread :
    th[t].pc = "start" ~> th[t].pc \in {"done", "dead", "wild"}

(* RTSP_Session.c:175: PLAY records the timestamp and the first sequence   *)
(* number of the RTP headers, which its RTP-Info announces.                *)
FirstSequenceAsAnnounced ==
  [][pkt' # pkt /\ (pkt = None \/ pkt'.by # pkt.by) =>
       pkt'.header.seq = info.seq]_vars
=============================================================================
