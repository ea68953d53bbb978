---------------------------- MODULE RtspSession ----------------------------
(***************************************************************************)
(* The RTSP session of one client: the thread RTSP_Session_Process        *)
(* (RTSP_Session.c), the parser that fills the Client structure from the   *)
(* packets recv() returns, the handlers of the five methods and the        *)
(* release of the client (RTSP_Session_tools.c, Server_Client.c).          *)
(*                                                                         *)
(* The connection is a byte stream.  A request is a sequence of pieces,    *)
(* one for each text the server looks for; recv() returns any number of    *)
(* those that have arrived and may end in the middle of one, so that a     *)
(* request may come cut at any byte and two may come in one packet.        *)
(***************************************************************************)
EXTENDS Naturals, Sequences

CONSTANTS
  Files,        \* the file names a URI can end with
  Kind,         \* Kind[f]: the media kind the suffix of f stands for
  None,         \* NULL, the empty string, -1
  Bare,         \* a URI without a file name, rtsp://host:port
  Beginnings,   \* Beginnings[u]: the URIs that u is read as when cut off
  Broken,       \* what media_buf holds when fread() failed
  Asks,         \* the requests the client may send
  MaxRequests,  \* bound: requests sent on the connection
  MaxInbox,     \* bound: pieces waiting in the socket buffer
  RecvSizes,    \* how many pieces one recv() may return, if not all there are
  Endings       \* how it may end in the last of them, see Ending

Track == {"H264", "AAC"}
Supported == {"OPTIONS", "DESCRIBE", "SETUP", "PLAY", "TEARDOWN"}
Method == Supported \cup {"notSupported", "BAD"}

(* The texts the server looks for, in the order they come: "rest" is the   *)
(* User-Agent and what is left of the headers, "tail" the second half of a *)
(* text that has been cut.                                                 *)
Text == {"method", "uri", "version", "cseq", "avp", "ports", "rest", "tail"}

(* What recv() leaves of the text it ends in: all of it, nothing that      *)
(* strstr() finds, or a value that is too short.                           *)
Ending == {"whole", "lost", "cut"}

(* What a request says, as far as the server looks.  "avp" and "ports":    *)
(* its Transport header names RTP/AVP, client_port; "session": it quotes   *)
(* the Session id of the latest SETUP; "version": its line ends RTSP/1.0.  *)
Ask == [method: Supported \cup {"OTHER"}, uri: Files \cup {Bare, None},
        version: BOOLEAN, cseq: BOOLEAN,
        avp: BOOLEAN, ports: BOOLEAN, session: BOOLEAN]
Request == [num: Nat \ {0}, ask: Ask]
Piece == [text: Text, req: Request, part: {"whole", "cut"}]

(* A reply: the handler it is from, the URI it took, the request whose     *)
(* CSeq header was read, and what it quotes of that number.                *)
Reply == [code: {200, 400, 404, 405, 461}, by: Method, uri: Files \cup {Bare},
          req: Request, quotes: {"whole", "cut", "nothing"}, fresh: BOOLEAN]

ASSUME SessionAssumption ==
  /\ Kind \in [Files -> {"H264", "AAC", "MP4", "other"}]
  /\ {None, Bare, Broken} \cap Files = {}
  /\ None # Bare /\ None # Broken
  /\ None \notin Piece /\ None \notin Method /\ None \notin Reply
  /\ Beginnings \in [Files \cup {Bare} -> SUBSET (Files \cup {Bare})]
  /\ Asks \subseteq Ask
  /\ MaxRequests \in Nat /\ MaxInbox \in Nat
  /\ RecvSizes \subseteq Nat /\ Endings \subseteq Ending

VARIABLES
  \* the connection: requests sent, bytes not yet received, the peer's end
  nreq, inbox, peer,
  \* RTSP_class_t: the request being put together (cseq is the CSeq
  \* header it was read from), and income_packet while a handler has it
  method, uri, version, cseq, income,
  \* Client: state, loading_media, which media_class are not NULL, and
  \* OurSessionId (the number of the SETUP that drew it)
  state, loading, alloc, sid,
  \* media_class_t of each track: the file media_buf holds, init_done,
  \* the request that gave RTP_client_port, RTP_fd and the open UDP sockets
  buf, init, dest, fd, sockets,
  \* RTP_tid of each track, and the streaming threads nobody cancelled
  tid, live,
  \* where the thread is: "recv", "dispatch", "released" (client freed, the
  \* thread not yet stopped), "hung", "exited", or "crashed" (the process)
  pc,
  \* the last reply, and what has been promised by the replies so far
  reply, granted, described,
  \* nothing sent is unread and nothing received is unanswered; whether
  \* that was so when the last request was sent; and the requests that a
  \* recv() tore where the parser cannot put them together again
  quiet, fresh, torn

conn == <<nreq, inbox, peer>>
parse == <<method, uri, version, cseq, income>>
client == <<state, loading, alloc, sid>>
media == <<buf, init, dest, fd, sockets>>
streams == <<tid, live>>
promises == <<granted, described>>
ghost == <<quiet, fresh, torn>>
vars == <<conn, parse, client, media, streams, pc, reply, promises, ghost>>

(* The tracks of a media kind: MP4 stands for one of each.                 *)
TracksOf(kind) == IF kind = "MP4" THEN Track ELSE {kind}

Init ==
  /\ nreq = 0 /\ inbox = <<>> /\ peer = "open"
  /\ method = None /\ uri = None /\ version = FALSE /\ cseq = None
  /\ income = <<>>
  \* calloc() leaves loading_media at 0, which is H264
  /\ state = "Birth" /\ loading = "H264" /\ alloc = {} /\ sid = 0
  /\ buf = [m \in Track |-> None] /\ init = {}
  /\ dest = [m \in Track |-> 0] /\ fd = [m \in Track |-> 0] /\ sockets = {}
  /\ tid = [m \in Track |-> 0] /\ live = {}
  /\ pc = "recv" /\ reply = None
  /\ granted = [m \in Track |-> 0] /\ described = None
  /\ quiet = TRUE /\ fresh = TRUE /\ torn = {}

----------------------------------------------------------------------------
(* The client's end of the connection.                                     *)

PiecesOf(r) ==
  LET texts == IF r.ask.method = "SETUP"
               THEN <<"method", "uri", "version", "cseq", "avp", "ports", "rest">>
               ELSE <<"method", "uri", "version", "cseq", "rest">>
  IN  [i \in DOMAIN texts |-> [text |-> texts[i], req |-> r, part |-> "whole"]]

Send(a) ==
  /\ peer = "open" /\ nreq < MaxRequests
  /\ nreq' = nreq + 1
  /\ inbox' = inbox \o PiecesOf([num |-> nreq + 1, ask |-> a])
  /\ Len(inbox') <= MaxInbox
  /\ fresh' = quiet /\ quiet' = FALSE
  /\ UNCHANGED <<peer, parse, client, media, streams, pc, reply, promises, torn>>

Close ==
  /\ peer = "open" /\ peer' = "closed"
  /\ UNCHANGED <<nreq, inbox, parse, client, media, streams, pc, reply,
                 promises, ghost>>

----------------------------------------------------------------------------
(* parse_RTSP_packet.  What a packet holds is what strstr() finds in it:   *)
(* of several requests in one packet, the method first in the order of the *)
(* tests, and the first URI and CSeq.                                      *)

Asking(p, m) == \E i \in DOMAIN p : p[i].text = "method" /\ p[i].req.ask.method = m

MethodIn(p) ==
  IF Asking(p, "OPTIONS") THEN "OPTIONS"
  ELSE IF Asking(p, "DESCRIBE") THEN "DESCRIBE"
  ELSE IF Asking(p, "SETUP") THEN "SETUP"
  ELSE IF Asking(p, "PLAY") THEN "PLAY"
  ELSE IF Asking(p, "TEARDOWN") THEN "TEARDOWN"
  ELSE "notSupported"

Least(is) == {i \in is : \A j \in is : i <= j}
Uris(p) == {i \in DOMAIN p : p[i].text = "uri" /\ p[i].req.ask.uri # None}
CSeqs(p) == {i \in DOMAIN p : p[i].text = "cseq" /\ p[i].req.ask.cseq}
Ports(p) == {i \in DOMAIN p : p[i].text = "ports" /\ p[i].req.ask.ports}
Agents(p) == {i \in DOMAIN p : p[i].text = "rest"}

VersionIn(p) == \E i \in DOMAIN p : p[i].text = "version" /\ p[i].req.ask.version
AvpIn(p) == \E i \in DOMAIN p : p[i].text = "avp" /\ p[i].req.ask.avp

(* What strtok() takes for the URI: up to the next space or the end of the *)
(* packet.                                                                 *)
UriOf(piece) ==
  IF piece.part = "whole" THEN {piece.req.ask.uri}
  ELSE Beginnings[piece.req.ask.uri]

(* A mutant of UriAfter: the test for an empty field dropped.              *)
UriOfPacket(p) ==
  IF Uris(p) = {} THEN {None} ELSE UNION {UriOf(p[i]) : i \in Least(Uris(p))}

(* The values a field has after a packet: kept if it is set already.       *)
UriAfter(p) ==
  IF uri # None \/ Uris(p) = {} THEN {uri}
  ELSE UNION {UriOf(p[i]) : i \in Least(Uris(p))}
CSeqAfter(p) ==
  IF cseq # None \/ CSeqs(p) = {} THEN {cseq}
  ELSE {p[i] : i \in Least(CSeqs(p))}

(* A mutant of AuthenticationOK, then authenticationOK.                    *)
CSeqIsEnough(u, c) == c # None
AuthenticationOK(u, c) == u # None /\ c # None

(* What is behind the cut of a text says nothing, wherever it is cut again. *)
MayEnd(piece, end) ==
  \/ end = "whole"
  \/ end = "lost" /\ piece.text # "tail"
  \/ end = "cut" /\ piece.text \in {"uri", "cseq", "ports", "rest"}

Packet(k, end) ==
  IF end = "lost" THEN SubSeq(inbox, 1, k - 1)
  ELSE Append(SubSeq(inbox, 1, k - 1), [inbox[k] EXCEPT
         !.part = IF end = "cut" THEN "cut" ELSE @])
Left(k, end) ==
  (IF end = "whole" THEN <<>> ELSE <<[inbox[k] EXCEPT !.text = "tail"]>>)
  \o SubSeq(inbox, k + 1, Len(inbox))

(* The request that a packet tears by ending where it does: inside the     *)
(* method, the URI or the CSeq header, or, as long as the session has seen *)
(* no RTSP/1.0 (seen), before the end of the request line.                 *)
TornBy(k, end, seen) ==
  IF end # "whole"
  THEN {inbox[k].req.num : t \in {inbox[k].text} \cap
          ({"method", "uri", "cseq"} \cup (IF seen THEN {} ELSE {"version"}))}
  ELSE {inbox[i].req.num : i \in {j \in DOMAIN inbox :
          j = k + 1 /\ inbox[j].text \in {"uri", "version"} /\ ~seen}}

Sizes == {k \in 1..Len(inbox) : k \in RecvSizes \/ k = Len(inbox)}

(* One recv() of k pieces, its parse, and authenticationOK: without a URI  *)
(* and a CSeq the thread goes back to recv() and keeps what it has.  A     *)
(* packet without RTSP/1.0 before any with it is BAD, its CSeq not read.   *)
Receive(k, end) ==
  LET p == Packet(k, end)
  IN  /\ pc = "recv" /\ MayEnd(inbox[k], end)
      /\ inbox' = Left(k, end)
      /\ version' = (version \/ VersionIn(p))
      /\ uri' \in UriAfter(p)
      /\ IF version'
         THEN /\ method' = IF method = None THEN MethodIn(p) ELSE method
              /\ cseq' \in CSeqAfter(p)
         ELSE method' = "BAD" /\ cseq' = cseq
      /\ pc' = IF AuthenticationOK(uri', cseq') THEN "dispatch" ELSE "recv"
      /\ income' = IF pc' = "dispatch" THEN p ELSE <<>>
      /\ torn' = torn \cup TornBy(k, end, version')
      /\ UNCHANGED <<nreq, peer, client, media, streams, reply, promises,
                     quiet, fresh>>

----------------------------------------------------------------------------
(* The handlers.  Each ends with tcpSend and, but for TEARDOWN, with       *)
(* wash_client, which clears the request and not the version.              *)

Handling(m) == pc = "dispatch" /\ method = m /\ peer # "reset"

(* send() to a peer that has closed makes it answer with a reset.  Only    *)
(* handle_BAD leaves out the CSeq.                                         *)
Answer(code) ==
  /\ reply' = [code |-> code, by |-> method, uri |-> uri, req |-> cseq.req,
               quotes |-> IF code = 400 THEN "nothing" ELSE cseq.part,
               fresh |-> fresh]
  /\ quiet' = (inbox = <<>>)
  /\ peer' \in IF peer = "closed" THEN {"closed", "reset"} ELSE {peer}
  /\ UNCHANGED <<nreq, inbox, fresh, torn>>

(* Two mutants of Wash.                                                    *)
WashKeepsMethod ==
  /\ pc' = "recv"
  /\ uri' = None /\ cseq' = None /\ income' = <<>>
  /\ UNCHANGED <<version, method>>

WashKeepsCSeq ==
  /\ pc' = "recv"
  /\ method' = None /\ uri' = None /\ income' = <<>>
  /\ UNCHANGED <<version, cseq>>

Wash ==
  /\ pc' = "recv"
  /\ method' = None /\ uri' = None /\ cseq' = None /\ income' = <<>>
  /\ UNCHANGED version

Crash ==
  /\ pc' = "crashed"
  /\ UNCHANGED <<conn, parse, client, media, streams, reply, promises, ghost>>

(* send() on a reset connection raises SIGPIPE, which nothing handles.     *)
BrokenPipe == pc = "dispatch" /\ peer = "reset" /\ Crash

(* handle_OPTIONS, handle_BAD and handle_notSupported only answer.         *)
Reject ==
  /\ \/ Handling("OPTIONS") /\ Answer(200)
     \/ Handling("BAD") /\ Answer(400)
     \/ Handling("notSupported") /\ Answer(405)
  /\ Wash
  /\ UNCHANGED <<client, media, streams, promises>>

----------------------------------------------------------------------------
(* handle_DESCRIBE and readFile.                                           *)

(* A mutant of ReadAll, then the test readFile makes.                      *)
ReadAny(kind, outcome) == \E m \in TracksOf(kind) : outcome[m] = "ok"
ReadAll(kind, outcome) == \A m \in TracksOf(kind) : outcome[m] = "ok"

(* The reads readFile makes: MP4 reads the audio first and the video only  *)
(* if that succeeds.                                                       *)
Attempted(kind, outcome) ==
  IF kind = "MP4" /\ outcome["AAC"] # "ok" THEN {"AAC"} ELSE TracksOf(kind)

(* media_buf after a read: fopen() failing leaves the old bytes, fread()   *)
(* failing leaves a buffer that holds no file.                             *)
BufAfter(m, outcome) ==
  CASE outcome[m] = "ok"     -> uri
    [] outcome[m] = "noOpen" -> buf[m]
    [] outcome[m] = "noRead" -> Broken

DescribeMedia(kind) ==
  \E outcome \in [TracksOf(kind) -> {"ok", "noOpen", "noRead"}] :
    LET ok == ReadAll(kind, outcome)
    IN  /\ loading' = kind
        /\ alloc' = alloc \cup TracksOf(kind)
        /\ buf' = [m \in Track |-> IF m \in Attempted(kind, outcome)
                                   THEN BufAfter(m, outcome) ELSE buf[m]]
        /\ described' = IF ok THEN uri ELSE None
        /\ Answer(IF ok THEN 200 ELSE 404)

DescribeOther ==
  /\ described' = None
  /\ Answer(404)
  /\ UNCHANGED <<loading, alloc, buf>>

(* strcpy() gets NULL from strtok(): of a packet that ends behind          *)
(* User-Agent:, or of a URI without a file name.                           *)
NoAgent == \E i \in Least(Agents(income)) : income[i].part = "cut"

Describe ==
  /\ Handling("DESCRIBE") /\ uri # Bare /\ ~NoAgent
  /\ state' = "Init"
  /\ IF Kind[uri] = "other" THEN DescribeOther ELSE DescribeMedia(Kind[uri])
  /\ Wash
  /\ UNCHANGED <<sid, init, dest, fd, sockets, streams, granted>>

DescribeNothing == Handling("DESCRIBE") /\ (uri = Bare \/ NoAgent) /\ Crash

----------------------------------------------------------------------------
(* handle_SETUP, get_udpport, get_udpport_internal and udpInit.            *)

(* A mutant of SetupState, then handle_SETUP's test of the state.          *)
AnyState == TRUE
SetupState == state = "Init"

(* A mutant of Unset, the tracks get_udpport would open a socket for, and  *)
(* the one it does.                                                        *)
AllTracks == TracksOf(loading)
Unset == TracksOf(loading) \ init
NextTrack == IF "H264" \in Unset THEN "H264" ELSE "AAC"

(* A mutant of check_parameters, then itself, on the tracks with init_done.*)
CheckSome(done) == TracksOf(loading) \cap done # {}
CheckParameters(done) == TracksOf(loading) \subseteq done

RefuseSetup ==
  /\ Handling("SETUP")
  /\ \/ ~SetupState /\ Answer(400)
     \/ SetupState /\ ~AvpIn(income) /\ Answer(461)
  /\ Wash
  /\ UNCHANGED <<client, media, streams, promises>>

(* Past the Transport test a SETUP draws a session id, whatever follows.   *)
DrawSession ==
  /\ Handling("SETUP") /\ SetupState /\ AvpIn(income)
  /\ sid' = cseq.req.num

(* atoi() gets NULL of a packet that ends before the second port.          *)
NoPort == \E i \in Least(Ports(income)) : income[i].part = "cut"

(* No client_port, or every track of the medium has its socket already.    *)
SetupNotFound ==
  /\ DrawSession /\ ~NoPort
  /\ \/ Ports(income) = {}
     \/ TracksOf(loading) \subseteq alloc /\ Unset = {}
  /\ Answer(404) /\ Wash
  /\ UNCHANGED <<state, loading, alloc, media, streams, promises>>

(* get_udpport reads init_done through a media_class that is NULL.         *)
SetupNoMedia ==
  /\ Handling("SETUP") /\ SetupState /\ AvpIn(income)
  /\ Ports(income) # {} /\ ~(TracksOf(loading) \subseteq alloc)
  /\ Crash

SetupNoPort == Handling("SETUP") /\ SetupState /\ AvpIn(income) /\ NoPort /\ Crash

(* The track gets a socket: socket() may fail, which leaves no descriptor, *)
(* and setsockopt() or bind(), which leave one that is not closed.         *)
OpenTransport(m, n, outcome) ==
  /\ dest' = [dest EXCEPT ![m] = n]
  /\ fd' = [fd EXCEPT ![m] = IF outcome = "noSocket" THEN 0 ELSE n]
  /\ sockets' = IF outcome = "noSocket" THEN sockets
                ELSE sockets \cup {<<m, n>>}
  /\ init' = IF outcome = "ok" THEN init \cup {m} ELSE init
  /\ UNCHANGED buf

SetupTrack ==
  /\ DrawSession /\ ~NoPort
  /\ TracksOf(loading) \subseteq alloc /\ Unset # {}
  /\ \E i \in Least(Ports(income)), outcome \in {"ok", "noSocket", "noBind"} :
       LET m == NextTrack
           n == income[i].req.num
           ok == outcome = "ok"
       IN  /\ OpenTransport(m, n, outcome)
           /\ granted' = IF ok THEN [granted EXCEPT ![m] = n] ELSE granted
           /\ state' = IF ok /\ CheckParameters(init')
                       THEN "Ready" ELSE state
           /\ Answer(IF ok THEN 200 ELSE 404)
  /\ Wash
  /\ UNCHANGED <<loading, alloc, streams, described>>

Setup == RefuseSetup \/ SetupNotFound \/ SetupNoMedia \/ SetupNoPort \/ SetupTrack

----------------------------------------------------------------------------
(* handle_PLAY: one streaming thread for each track, in the place of the   *)
(* one the track has, if any.                                              *)

RefusePlay ==
  /\ Handling("PLAY") /\ state # "Ready"
  /\ Answer(400) /\ Wash
  /\ UNCHANGED <<client, media, streams, promises>>

(* A mutant of StartStreams: no pthread_cancel.                            *)
StartMoreStreams(n) ==
  LET T == TracksOf(loading)
  IN  /\ live' = live \cup (T \X {n})
      /\ tid' = [m \in Track |-> IF m \in T THEN n ELSE tid[m]]

StartStreams(n) ==
  LET T == TracksOf(loading)
  IN  /\ live' = (live \ {<<m, tid[m]>> : m \in T}) \cup (T \X {n})
      /\ tid' = [m \in Track |-> IF m \in T THEN n ELSE tid[m]]

PlayStreams ==
  /\ Handling("PLAY") /\ state = "Ready"
  /\ StartStreams(cseq.req.num)
  /\ state' = "Playing"
  /\ Answer(200) /\ Wash
  /\ UNCHANGED <<loading, alloc, sid, media, promises>>

(* pthread_create() failing ends the process.                              *)
PlayFails == Handling("PLAY") /\ state = "Ready" /\ Crash

Play == RefusePlay \/ PlayStreams \/ PlayFails

----------------------------------------------------------------------------
(* client_realease: the media the client is loading is freed, its threads  *)
(* cancelled, its sockets closed.  A track that is not there is read       *)
(* through NULL.  The mutex it then locks is not initialised and may block *)
(* for ever.                                                               *)

Release ==
  LET T == TracksOf(loading)
  IN  /\ \/ /\ T \subseteq alloc
            /\ alloc' = alloc \ T
            /\ live' = live \ {<<m, tid[m]>> : m \in T}
            /\ sockets' = sockets \ {<<m, fd[m]>> : m \in T}
            /\ pc' \in {"released", "hung"}
         \/ /\ ~(T \subseteq alloc)
            /\ pc' = "crashed"
            /\ UNCHANGED <<alloc, live, sockets>>
      /\ UNCHANGED <<parse, state, loading, sid, buf, init, dest, fd, tid,
                     promises>>

Teardown == Handling("TEARDOWN") /\ Answer(200) /\ Release

(* recv() returns 0 once the peer has closed and all is read.              *)
Disconnect ==
  /\ pc = "recv" /\ inbox = <<>> /\ peer # "open"
  /\ Release
  /\ UNCHANGED <<conn, reply, ghost>>

(* The thread cancelled itself and runs on, in freed memory, to the next   *)
(* recv(), where it stops.                                                 *)
Stop ==
  /\ pc = "released" /\ pc' \in {"exited", "crashed"}
  /\ UNCHANGED <<conn, parse, client, media, streams, reply, promises, ghost>>

----------------------------------------------------------------------------
Handle ==
  \/ Reject \/ Describe \/ DescribeNothing \/ Setup \/ Play \/ Teardown
  \/ BrokenPipe

Session ==
  \/ \E k \in Sizes, end \in Endings : Receive(k, end)
  \/ Handle \/ Disconnect \/ Stop

Next == (\E a \in Asks : Send(a)) \/ Close \/ Session

Spec == Init /\ [][Next]_vars

(* The thread is scheduled, and recv() returns when there is something.    *)
FairSpec == Spec /\ WF_vars(Session)

----------------------------------------------------------------------------
ConnType ==
  /\ nreq \in Nat /\ inbox \in Seq(Piece) /\ peer \in {"open", "closed", "reset"}
  /\ reply \in {None} \cup Reply
  /\ quiet \in BOOLEAN /\ fresh \in BOOLEAN /\ torn \subseteq Nat

ParseType ==
  /\ method \in Method \cup {None} /\ uri \in Files \cup {Bare, None}
  /\ version \in BOOLEAN /\ cseq \in Piece \cup {None} /\ income \in Seq(Piece)
  /\ pc \in {"recv", "dispatch", "released", "hung", "exited", "crashed"}

ClientType ==
  /\ state \in {"Birth", "Init", "Ready", "Playing"}
  /\ loading \in {"H264", "AAC", "MP4"} /\ alloc \subseteq Track /\ sid \in Nat
  /\ buf \in [Track -> Files \cup {None, Broken}] /\ init \subseteq Track
  /\ dest \in [Track -> Nat] /\ fd \in [Track -> Nat]
  /\ sockets \subseteq Track \X Nat
  /\ tid \in [Track -> Nat] /\ live \subseteq Track \X Nat
  /\ granted \in [Track -> Nat] /\ described \in Files \cup {None}

(* The connection, the request being put together and the client keep      *)
(* their types.                                                            *)
TypeOK == ConnType /\ ParseType /\ ClientType

Serving == pc \in {"recv", "dispatch"}
HandlerOf(m) == IF m \in Supported THEN m ELSE "notSupported"

(* A request that is alone on the connection (sent when nothing was        *)
(* outstanding, nothing behind it) is answered by the handler of its own   *)
(* method, with its own URI and CSeq, wherever recv() cuts it, unless it   *)
(* is torn; and a torn one, whose method, URI or number the parser has     *)
(* only in part, may be refused (405, 400) and its URI be too short, but   *)
(* is never taken for another method.  Nothing of an earlier request is    *)
(* left in the structure parse_RTSP_packet fills.                          *)
ReplyAnswersItsRequest ==
  reply # None /\ reply.fresh =>
    LET ask == reply.req.ask
    IN  \/ /\ reply.by = HandlerOf(ask.method) /\ reply.uri = ask.uri
           /\ reply.quotes = IF reply.code = 400 THEN "nothing" ELSE "whole"
        \/ /\ reply.req.num \in torn
           /\ reply.by \in {HandlerOf(ask.method), "notSupported", "BAD"}
           /\ reply.uri \in {ask.uri} \cup Beginnings[ask.uri]

(* The requests whose CSeq header is read are answered in the order they   *)
(* were sent: none twice, none after a later one, wherever recv() cuts     *)
(* them and even where several share a packet.  (Of a number that was cut  *)
(* the reply quotes the first digits; a 400 quotes none.)                  *)
RepliesInOrder ==
  [][reply' # reply /\ reply # None => reply.req.num < reply'.req.num]_vars

(* In Ready every track of the loaded medium has a media_class with an     *)
(* open socket, in Playing also a streaming thread: what handle_PLAY       *)
(* dereferences without a test.                                            *)
ReadyHasTransport ==
  state \in {"Ready", "Playing"} /\ Serving =>
    \A m \in TracksOf(loading) :
      /\ m \in alloc /\ m \in init
      /\ fd[m] # 0 /\ <<m, fd[m]>> \in sockets
      /\ state = "Playing" => <<m, tid[m]>> \in live

(* A track streams to the port the SETUP answered with 200 asked for, also *)
(* after SETUPs that failed half way and after another DESCRIBE.           *)
TransportAsGranted ==
  \A m \in Track :
    /\ m \in init <=> granted[m] # 0
    /\ m \in init => dest[m] = granted[m] /\ fd[m] = granted[m]

(* A track has at most one streaming thread, the one RTP_tid names, and    *)
(* that thread has its media_class; a released client has none for the     *)
(* medium it was loading.                                                  *)
OneStreamPerTrack ==
  /\ \A s \in live : s[2] = tid[s[1]] /\ tid[s[1]] # 0 /\ s[1] \in init
  /\ Serving => \A s \in live : s[1] \in alloc
  /\ pc \in {"released", "hung", "exited"} =>
       \A s \in live : s[1] \notin TracksOf(loading)

(* After a DESCRIBE answered with 200 each track of the medium holds the   *)
(* file that was described, until the next DESCRIBE.                       *)
DescribedIsLoaded ==
  described # None /\ Serving =>
    /\ loading = Kind[described]
    /\ \A m \in TracksOf(loading) : m \in alloc /\ buf[m] = described

(* init_done is never reset: once the tracks of the medium are set up, a   *)
(* session that went back to Init by a DESCRIBE of the same medium gets no *)
(* second stream; every SETUP is refused.                                  *)
ReDescribedIsStuck ==
  [][state = "Init" /\ TracksOf(loading) \subseteq init => state' = "Init"]_vars

(* The session id does not change under a client that may PLAY.            *)
SessionIdFrozen ==
  [][(state = "Ready" \/ state = "Playing") => sid' = sid]_vars

(* A well-formed request sent when nothing was outstanding is answered,    *)
(* wherever it is cut, unless it is torn, or the session or the process    *)
(* ends first.                                                             *)
Waiting(n) ==
  /\ fresh /\ inbox # <<>> /\ inbox[1].text = "method" /\ inbox[1].req.num = n
  /\ inbox[1].req.ask.cseq /\ inbox[1].req.ask.uri # None
  /\ inbox[1].req.ask.version \/ version
FreshRequestIsAnswered ==
  \A n \in 1..MaxRequests :
    Waiting(n) ~> \/ reply # None /\ reply.req.num = n
                  \/ n \in torn \/ ~Serving

(* The session implements SessionLifecycle: its phase is the state while   *)
(* the thread serves, a port counts once init_done is set, a stream until  *)
(* it is cancelled or the process ends.                                    *)
Phase == IF Serving THEN state ELSE "Over"
Medium == IF state = "Birth" THEN {} ELSE TracksOf(loading)
Port == [m \in Track |-> IF m \in init THEN dest[m] ELSE 0]
Stream == [m \in Track |-> IF pc = "crashed" THEN {}
                           ELSE {s[2] : s \in {t \in live : t[1] = m}}]

Lifecycle == INSTANCE SessionLifecycle WITH
  phase <- Phase, medium <- Medium, port <- Port, stream <- Stream, id <- sid

(* Each step of the session, whatever the packets, files and sockets do,   *)
(* is one step of that life or none: a track gets one port for ever, PLAY  *)
(* starts one new stream for every track of the medium at a time and       *)
(* replaces what ran, the session id is drawn in Init only, nothing of the *)
(* medium streams after the end.                                           *)
LifecycleSpec == Lifecycle!Spec

(* What the comments of the code say, and the runs refute.                 *)

(* RTSP_Session.c:185: PLAY checks that the session id is the session's.   *)
SessionIdChecked ==
  reply # None /\ reply.by = "PLAY" /\ reply.code = 200 /\ reply.fresh =>
    reply.req.ask.session

(* Server_Client.c:174: a client that leaves is released; it does not take *)
(* the server with it.                                                     *)
DisconnectEndsOnlySession == [][Disconnect => pc' # "crashed"]_vars
=============================================================================
