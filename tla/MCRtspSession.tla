--------------------------- MODULE MCRtspSession ---------------------------
(***************************************************************************)
(* Instances of RtspSession for TLC: a video, an audio and a container     *)
(* file, a file of another kind, and the requests of each run.             *)
(***************************************************************************)
EXTENDS RtspSession

CONSTANTS Video, Audio, Both, Other

MCFiles == {Video, Audio, Both, Other}
MCKind == [f \in MCFiles |->
  CASE f = Video -> "H264" [] f = Audio -> "AAC" [] f = Both -> "MP4"
    [] f = Other -> "other"]

(* A URI that is cut has no file name, or one with no suffix that counts.  *)
MCBeginnings == [u \in MCFiles \cup {Bare} |->
  IF u = Bare THEN {Bare} ELSE {Bare, Other}]

Plain(m, u) == [method |-> m, uri |-> u, version |-> TRUE, cseq |-> TRUE,
                avp |-> TRUE, ports |-> TRUE, session |-> TRUE]

(* Requests that lack what they need, and some that do not; what else can  *)
(* be missing, a cut takes away.                                           *)
OddAsks ==
  {Plain("OPTIONS", Video), Plain("OPTIONS", None), Plain("OTHER", Video),
   Plain("DESCRIBE", Other), Plain("SETUP", Video),
   [Plain("OPTIONS", Video) EXCEPT !.version = FALSE],
   [Plain("DESCRIBE", Other) EXCEPT !.cseq = FALSE]}

(* The requests of clients that follow the protocol.                       *)
GoodAsks ==
  {Plain("DESCRIBE", Video), Plain("DESCRIBE", Audio), Plain("DESCRIBE", Both),
   Plain("SETUP", Video), Plain("PLAY", Video), Plain("TEARDOWN", Video)}

FewAsks ==
  {Plain("OPTIONS", Bare), Plain("OPTIONS", None), Plain("DESCRIBE", Video),
   Plain("SETUP", Video), [Plain("PLAY", Video) EXCEPT !.version = FALSE],
   [Plain("PLAY", Video) EXCEPT !.session = FALSE]}
=============================================================================
