------------------------- MODULE RtspSessionProofs -------------------------
(***************************************************************************)
(* Theorems about RtspSession, for every set of files and of requests and  *)
(* every bound.                                                            *)
(***************************************************************************)
EXTENDS RtspSession, SequenceTheorems, TLAPS

(* A request that is dispatched has its three fields.                      *)
Dispatched == pc = "dispatch" => method # None /\ uri # None /\ cseq # None

TypeInv == TypeOK /\ Dispatched

Receiving == \E k \in Sizes, end \in Endings : Receive(k, end)

(* What a step does to the connection and the reply.                       *)
Codes == {200, 400, 404, 405, 461}
Answered ==
  /\ pc = "dispatch"
  /\ \E code \in Codes : Answer(code)
  /\ Wash \/ (UNCHANGED parse /\ ~Serving')
ConnStep ==
  \/ \E a \in Asks : Send(a)
  \/ Close
  \/ Receiving
  \/ Answered
  \/ UNCHANGED <<conn, parse, reply, ghost>> /\ (Serving' => Serving)

(* What a step does to the request and the place of the thread.            *)
ParseStep ==
  \/ Receiving
  \/ pc = "dispatch" /\ Wash
  \/ UNCHANGED parse /\ pc' \in {"released", "hung", "exited", "crashed"}
  \/ UNCHANGED parse /\ pc' = pc

(* What a step does to the client, its media and its streams.              *)
Untouched == UNCHANGED <<client, media, streams, promises>>
Gone == pc \in {"released", "hung", "exited"}
ClientStep ==
  \/ Describe \/ SetupNotFound \/ SetupTrack \/ PlayStreams
  \/ Serving /\ Release
  \/ Untouched /\ Serving' /\ Serving
  \/ Untouched /\ Gone' /\ Gone
  \/ Untouched /\ pc' = "crashed"
  \/ Untouched /\ pc' = pc

(* A handler that answers and washes the request.                          *)
LEMMA Washed ==
  ASSUME NEW m, Handling(m), Wash, NEW code \in Codes, Answer(code)
  PROVE  ConnStep /\ ParseStep /\ Serving /\ Serving'
<1>1. pc = "dispatch" /\ pc' = "recv"
  BY DEF Handling, Wash
<1>2. \E c \in Codes : Answer(c)
  OBVIOUS
<1>3. Answered
  BY <1>1, <1>2 DEF Answered
<1> QED
  BY <1>1, <1>3 DEF ConnStep, ParseStep, Serving

(* A step that answers nothing and changes nothing of the client.          *)
LEMMA Crashed ==
  ASSUME Crash
  PROVE  ConnStep /\ ParseStep /\ ClientStep
BY DEF Crash, ConnStep, ParseStep, ClientStep, Untouched, Serving, ghost

(* Every step of the session is of one of these kinds.                     *)
LEMMA Steps ==
  ASSUME [Next]_vars
  PROVE  ConnStep /\ ParseStep /\ ClientStep
<1>1. CASE UNCHANGED vars
  BY <1>1 DEF vars, ConnStep, ParseStep, ClientStep, Untouched, Serving
<1>2. CASE \E a \in Asks : Send(a)
  BY <1>2 DEF Send, ConnStep, ParseStep, ClientStep, Untouched, Serving
<1>3. CASE Close
  BY <1>3 DEF Close, ConnStep, ParseStep, ClientStep, Untouched, Serving
<1>4. CASE Receiving
  BY <1>4 DEF Receiving, Receive, ConnStep, ParseStep, ClientStep, Untouched, Serving
<1>5. CASE Reject
  BY <1>5, Washed DEF Reject, Codes, ClientStep, Untouched
<1>6. CASE Describe
  <2>1. \E code \in Codes : Answer(code)
    BY <1>6 DEF Describe, DescribeMedia, DescribeOther, Codes
  <2> QED
    BY <1>6, <2>1, Washed DEF Describe, ClientStep
<1>7. CASE DescribeNothing \/ SetupNoMedia \/ SetupNoPort \/ PlayFails \/ BrokenPipe
  BY <1>7, Crashed DEF DescribeNothing, SetupNoMedia, SetupNoPort, PlayFails, BrokenPipe
<1>8. CASE RefuseSetup
  BY <1>8, Washed DEF RefuseSetup, Codes, ClientStep, Untouched
<1>9. CASE SetupNotFound
  BY <1>9, Washed DEF SetupNotFound, DrawSession, Codes, ClientStep
<1>10. CASE SetupTrack
  <2>1. \E code \in Codes : Answer(code)
    BY <1>10 DEF SetupTrack, Codes
  <2> QED
    BY <1>10, <2>1, Washed DEF SetupTrack, DrawSession, ClientStep
<1>11. CASE RefusePlay
  BY <1>11, Washed DEF RefusePlay, Codes, ClientStep, Untouched
<1>12. CASE PlayStreams
  BY <1>12, Washed DEF PlayStreams, Codes, ClientStep
<1>13. CASE Teardown
  <2>1. /\ pc = "dispatch" /\ Answer(200) /\ Release /\ UNCHANGED parse
        /\ pc' \in {"released", "hung", "crashed"}
    BY <1>13 DEF Teardown, Release, Handling
  <2>2. Answered /\ Serving
    BY <2>1 DEF Answered, Codes, Serving
  <2> QED
    BY <2>1, <2>2 DEF ConnStep, ParseStep, ClientStep
<1>14. CASE Disconnect
  BY <1>14 DEF Disconnect, Release, ConnStep, ParseStep, ClientStep, Serving
<1>15. CASE Stop
  BY <1>15 DEF Stop, ConnStep, ParseStep, ClientStep, Untouched, Serving, Gone
<1> QED
  BY <1>1, <1>2, <1>3, <1>4, <1>5, <1>6, <1>7, <1>8, <1>9, <1>10, <1>11,
     <1>12, <1>13, <1>14, <1>15 DEF Next, Session, Receiving, Handle, Setup, Play

----------------------------------------------------------------------------
(* Types.                                                                  *)

LEMMA PieceFields ==
  ASSUME NEW x \in Piece
  PROVE  /\ x.text \in Text /\ x.part \in {"whole", "cut"}
         /\ x.req \in Request /\ x.req.num \in Nat \ {0} /\ x.req.ask \in Ask
BY DEF Piece, Request

LEMMA PiecesIn ==
  ASSUME NEW s \in Seq(Piece)
  PROVE  \A i \in DOMAIN s : i \in Nat \ {0} /\ i <= Len(s) /\ s[i] \in Piece
OBVIOUS

(* The pieces of a request: its method first, its CSeq fourth.             *)
LEMMA PiecesOfType ==
  ASSUME NEW r \in Request
  PROVE  /\ PiecesOf(r) \in Seq(Piece) /\ Len(PiecesOf(r)) \in {5, 7}
         /\ \A i \in DOMAIN PiecesOf(r) :
              /\ PiecesOf(r)[i].req = r /\ PiecesOf(r)[i].part = "whole"
              /\ PiecesOf(r)[i].text # "tail"
              /\ PiecesOf(r)[i].text = "method" <=> i = 1
              /\ PiecesOf(r)[i].text = "uri" <=> i = 2
              /\ PiecesOf(r)[i].text = "version" <=> i = 3
              /\ PiecesOf(r)[i].text = "cseq" <=> i = 4
<1>1. ASSUME NEW texts \in Seq(Text),
             NEW s, s = [i \in DOMAIN texts |->
                           [text |-> texts[i], req |-> r, part |-> "whole"]]
      PROVE  /\ s \in Seq(Piece) /\ Len(s) = Len(texts)
             /\ \A i \in DOMAIN s : /\ i \in DOMAIN texts /\ s[i].text = texts[i]
                                    /\ s[i].req = r /\ s[i].part = "whole"
  <2>1. DOMAIN texts = 1..Len(texts) /\ Len(texts) \in Nat
    OBVIOUS
  <2>2. \A i \in DOMAIN texts : s[i] \in Piece
    <3> SUFFICES ASSUME NEW i \in DOMAIN texts PROVE s[i] \in Piece
      OBVIOUS
    <3>1. texts[i] \in Text
      OBVIOUS
    <3> QED
      BY <1>1, <3>1 DEF Piece
  <2>3. s \in [1..Len(texts) -> Piece]
    BY <1>1, <2>1, <2>2
  <2>4. s \in Seq(Piece) /\ Len(s) = Len(texts) /\ DOMAIN s = DOMAIN texts
    BY <2>1, <2>3
  <2> QED
    BY <1>1, <2>4
<1>2. CASE r.ask.method = "SETUP"
  <2> DEFINE texts == <<"method", "uri", "version", "cseq", "avp", "ports", "rest">>
  <2>1. texts \in Seq(Text) /\ Len(texts) = 7
    BY DEF Text
  <2>2. PiecesOf(r) = [i \in DOMAIN texts |->
                         [text |-> texts[i], req |-> r, part |-> "whole"]]
    BY <1>2 DEF PiecesOf
  <2>3. \A i \in DOMAIN texts :
          /\ texts[i] # "tail" /\ (texts[i] = "method" <=> i = 1)
          /\ (texts[i] = "uri" <=> i = 2) /\ (texts[i] = "version" <=> i = 3)
          /\ (texts[i] = "cseq" <=> i = 4)
    OBVIOUS
  <2> HIDE DEF texts
  <2>4. PICK s : s = PiecesOf(r)
    OBVIOUS
  <2>5. /\ s \in Seq(Piece) /\ Len(s) = Len(texts)
        /\ \A i \in DOMAIN s : /\ i \in DOMAIN texts /\ s[i].text = texts[i]
                               /\ s[i].req = r /\ s[i].part = "whole"
    BY <1>1, <2>1, <2>2, <2>4
  <2> QED
    BY <2>1, <2>3, <2>4, <2>5
<1>3. CASE r.ask.method # "SETUP"
  <2> DEFINE texts == <<"method", "uri", "version", "cseq", "rest">>
  <2>1. texts \in Seq(Text) /\ Len(texts) = 5
    BY DEF Text
  <2>2. PiecesOf(r) = [i \in DOMAIN texts |->
                         [text |-> texts[i], req |-> r, part |-> "whole"]]
    BY <1>3 DEF PiecesOf
  <2>3. \A i \in DOMAIN texts :
          /\ texts[i] # "tail" /\ (texts[i] = "method" <=> i = 1)
          /\ (texts[i] = "uri" <=> i = 2) /\ (texts[i] = "version" <=> i = 3)
          /\ (texts[i] = "cseq" <=> i = 4)
    OBVIOUS
  <2> HIDE DEF texts
  <2>4. PICK s : s = PiecesOf(r)
    OBVIOUS
  <2>5. /\ s \in Seq(Piece) /\ Len(s) = Len(texts)
        /\ \A i \in DOMAIN s : /\ i \in DOMAIN texts /\ s[i].text = texts[i]
                               /\ s[i].req = r /\ s[i].part = "whole"
    BY <1>1, <2>1, <2>2, <2>4
  <2> QED
    BY <2>1, <2>3, <2>4, <2>5
<1> QED
  BY <1>2, <1>3

(* How far a recv() takes the buffer on, and what is in the packet and     *)
(* what is left, piece by piece.                                           *)
Taking(k, end) == IF end = "whole" THEN k ELSE k - 1

LEMMA SizeType ==
  ASSUME inbox \in Seq(Piece), NEW k \in Sizes
  PROVE  k \in Nat \ {0} /\ k <= Len(inbox) /\ k \in DOMAIN inbox /\ inbox[k] \in Piece
BY DEF Sizes

LEMMA ReceivedPacket ==
  ASSUME inbox \in Seq(Piece), NEW k \in Sizes, NEW end \in Endings,
         NEW p, p = Packet(k, end)
  PROVE  /\ p \in Seq(Piece) /\ Len(p) = IF end = "lost" THEN k - 1 ELSE k
         /\ \A i \in DOMAIN p :
              /\ i \in DOMAIN inbox /\ i <= k
              /\ p[i].text = inbox[i].text /\ p[i].req = inbox[i].req
              /\ (i < k \/ end = "whole") => p[i] = inbox[i]
<1>1. k \in Nat \ {0} /\ k <= Len(inbox) /\ k \in DOMAIN inbox /\ inbox[k] \in Piece
  BY SizeType
<1>2. /\ SubSeq(inbox, 1, k - 1) \in Seq(Piece) /\ Len(SubSeq(inbox, 1, k - 1)) = k - 1
      /\ \A i \in 1..(k - 1) : SubSeq(inbox, 1, k - 1)[i] = inbox[i]
  BY <1>1
<1> DEFINE last == [inbox[k] EXCEPT !.part = IF end = "cut" THEN "cut" ELSE @]
<1>3. /\ last \in Piece /\ last.text = inbox[k].text /\ last.req = inbox[k].req
      /\ end = "whole" => last = inbox[k]
  BY <1>1 DEF Piece
<1>4. p = IF end = "lost" THEN SubSeq(inbox, 1, k - 1)
          ELSE Append(SubSeq(inbox, 1, k - 1), last)
  BY DEF Packet
<1> HIDE DEF last
<1>5. CASE end = "lost"
  BY <1>1, <1>2, <1>4, <1>5
<1>6. CASE end # "lost"
  <2>1. /\ p \in Seq(Piece) /\ Len(p) = k
        /\ \A i \in 1..(k - 1) : p[i] = inbox[i]
        /\ p[k] = last
    BY <1>1, <1>2, <1>3, <1>4, <1>6
  <2> QED
    BY <1>1, <1>3, <1>6, <2>1
<1> QED
  BY <1>5, <1>6

LEMMA ReceivedLeft ==
  ASSUME inbox \in Seq(Piece), NEW k \in Sizes, NEW end \in Endings,
         NEW left, left = Left(k, end), NEW t, t = Taking(k, end)
  PROVE  /\ t \in Nat /\ t <= k /\ t = IF end = "whole" THEN k ELSE k - 1
         /\ left \in Seq(Piece) /\ Len(left) = Len(inbox) - t
         /\ \A i \in DOMAIN left :
              /\ i \in Nat \ {0} /\ i + t \in DOMAIN inbox
              /\ left[i].req = inbox[i + t].req /\ left[i].part = inbox[i + t].part
              /\ \/ left[i] = inbox[i + t] /\ i + t > k
                 \/ i = 1 /\ end # "whole" /\ left[i].text = "tail"
<1>1. k \in Nat \ {0} /\ k <= Len(inbox) /\ k \in DOMAIN inbox /\ inbox[k] \in Piece
  BY SizeType
<1>2. PICK others : others = SubSeq(inbox, k + 1, Len(inbox))
  OBVIOUS
<1>3. /\ others \in Seq(Piece) /\ Len(others) = Len(inbox) - k
      /\ \A i \in 1..(Len(inbox) - k) : others[i] = inbox[i + k]
  BY <1>1, <1>2
<1>4. PICK tail : tail = [inbox[k] EXCEPT !.text = "tail"]
  OBVIOUS
<1>5. /\ tail \in Piece /\ tail.text = "tail" /\ tail.req = inbox[k].req
      /\ tail.part = inbox[k].part
  BY <1>1, <1>4 DEF Piece, Text
<1>6. left = (IF end = "whole" THEN <<>> ELSE <<tail>>) \o others
  BY <1>2, <1>4 DEF Left
<1>7. t \in Nat /\ t <= k /\ t = IF end = "whole" THEN k ELSE k - 1
  BY <1>1 DEF Taking
<1>8. CASE end = "whole"
  <2>1. left = others /\ t = k
    BY <1>3, <1>6, <1>7, <1>8
  <2>2. \A i \in DOMAIN left :
          /\ i \in Nat \ {0} /\ i + t \in DOMAIN inbox
          /\ left[i] = inbox[i + t] /\ i + t > k
    BY <1>1, <1>3, <2>1
  <2> QED
    BY <1>3, <1>7, <2>1, <2>2
<1>9. CASE end # "whole"
  <2>1. left = <<tail>> \o others /\ t = k - 1
    BY <1>6, <1>7, <1>9
  <2>2. /\ left \in Seq(Piece) /\ Len(left) = 1 + Len(others) /\ left[1] = tail
        /\ \A i \in 2..(1 + Len(others)) : left[i] = others[i - 1]
    BY <1>3, <1>5, <2>1
  <2>3. Len(left) = Len(inbox) - t /\ 1 + t = k /\ Len(left) \in Nat
    BY <1>1, <1>3, <2>1, <2>2
  <2>4. ASSUME NEW i \in DOMAIN left
        PROVE  /\ i \in Nat \ {0} /\ i + t \in DOMAIN inbox
               /\ left[i].req = inbox[i + t].req /\ left[i].part = inbox[i + t].part
               /\ \/ left[i] = inbox[i + t] /\ i + t > k
                  \/ i = 1 /\ end # "whole" /\ left[i].text = "tail"
    <3>1. i \in 1..Len(left) /\ i + t \in DOMAIN inbox
      BY <1>1, <1>7, <2>2, <2>3
    <3>2. CASE i = 1
      BY <1>5, <1>9, <2>2, <2>3, <3>1, <3>2
    <3>3. CASE i # 1
      <4>1. /\ i \in 2..(1 + Len(others)) /\ i - 1 \in 1..(Len(inbox) - k)
            /\ (i - 1) + k = i + t /\ i + t > k
        BY <1>1, <1>3, <2>1, <2>2, <3>1, <3>3
      <4>2. left[i] = inbox[i + t]
        BY <1>3, <2>2, <4>1
      <4> QED
        BY <3>1, <4>1, <4>2
    <3> QED
      BY <3>2, <3>3
  <2> QED
    BY <1>7, <2>2, <2>3, <2>4
<1> QED
  BY <1>8, <1>9

LEMMA ParsedMethod ==
  ASSUME NEW p
  PROVE  MethodIn(p) \in Method
BY DEF MethodIn, Method, Supported

LEMMA ParsedUri ==
  ASSUME NEW p \in Seq(Piece), uri \in Files \cup {Bare, None}, NEW u \in UriAfter(p)
  PROVE  u \in Files \cup {Bare, None}
<1>1. ASSUME NEW i \in Least(Uris(p)) PROVE UriOf(p[i]) \subseteq Files \cup {Bare}
  <2>1. i \in DOMAIN p /\ p[i] \in Piece /\ p[i].req.ask.uri # None
    BY DEF Least, Uris
  <2>2. p[i].req.ask.uri \in Files \cup {Bare}
    BY <2>1 DEF Piece, Request, Ask
  <2> QED
    BY <2>2, SessionAssumption DEF UriOf
<1> QED
  BY <1>1 DEF UriAfter

LEMMA ParsedCSeq ==
  ASSUME NEW p \in Seq(Piece), cseq \in Piece \cup {None}, NEW c \in CSeqAfter(p)
  PROVE  c \in Piece \cup {None}
<1>1. \A i \in Least(CSeqs(p)) : i \in DOMAIN p
  BY DEF Least, CSeqs
<1> QED
  BY <1>1 DEF CSeqAfter

LEMMA AnswerType ==
  ASSUME TypeInv, pc = "dispatch", NEW code \in Codes, Answer(code)
  PROVE  /\ reply' \in Reply /\ reply' # None
         /\ reply' = [code |-> code, by |-> method, uri |-> uri, req |-> cseq.req,
                      quotes |-> IF code = 400 THEN "nothing" ELSE cseq.part,
                      fresh |-> fresh]
<1>1. /\ method \in Method /\ uri \in Files \cup {Bare}
      /\ cseq.req \in Request /\ cseq.part \in {"whole", "cut"}
  BY DEF TypeInv, TypeOK, Dispatched, ParseType, Piece
<1>2. reply' \in Reply
  BY <1>1 DEF Answer, Codes, TypeInv, TypeOK, ConnType, Reply
<1> QED
  BY <1>2, SessionAssumption DEF Answer

LEMMA ConnTypeStep ==
  ASSUME TypeInv, ConnStep
  PROVE  ConnType'
<1> USE DEF TypeInv, TypeOK
<1> USE SessionAssumption
<1>1. ASSUME NEW a \in Asks, Send(a)
      PROVE  ConnType'
  <2>1. [num |-> nreq + 1, ask |-> a] \in Request
    BY DEF ConnType, Request
  <2>2. inbox' \in Seq(Piece)
    BY <1>1, <2>1, PiecesOfType DEF Send, ConnType
  <2>3. /\ nreq' = nreq + 1 /\ peer' = peer /\ reply' = reply
        /\ fresh' = quiet /\ quiet' = FALSE /\ torn' = torn
    BY <1>1 DEF Send
  <2>4. nreq' \in Nat
    BY <2>3 DEF ConnType
  <2>5. /\ peer' \in {"open", "closed", "reset"}
        /\ reply' \in {None} \cup Reply
    BY <2>3 DEF ConnType
  <2>6. quiet' \in BOOLEAN /\ fresh' \in BOOLEAN /\ torn' \subseteq Nat
    BY <2>3 DEF ConnType
  <2> QED
    BY <2>2, <2>4, <2>5, <2>6 DEF ConnType
<1>2. CASE Close
  BY <1>2 DEF Close, ConnType, ghost
<1>3. ASSUME NEW k \in Sizes, NEW end \in Endings, Receive(k, end)
      PROVE  ConnType'
  <2>1. inbox \in Seq(Piece) /\ torn \subseteq Nat
    BY DEF ConnType
  <2>2. \A i \in DOMAIN inbox : inbox[i].req.num \in Nat
    BY <2>1, PiecesIn, PieceFields
  <2>3. inbox' \in Seq(Piece) /\ k \in DOMAIN inbox
    BY <1>3, <2>1, SizeType, ReceivedPacket, ReceivedLeft DEF Receive
  <2>4. TornBy(k, end, version') \subseteq Nat
    BY <2>2, <2>3 DEF TornBy
  <2> QED
    BY <1>3, <2>1, <2>3, <2>4 DEF Receive, ConnType
<1>4. ASSUME NEW code \in Codes, pc = "dispatch", Answer(code)
      PROVE  ConnType'
  BY <1>4, AnswerType DEF Answer, ConnType
<1>5. CASE UNCHANGED <<conn, reply, ghost>>
  BY <1>5 DEF ConnType, conn, ghost
<1> QED
  BY <1>1, <1>2, <1>3, <1>4, <1>5 DEF ConnStep, Receiving, Answered

LEMMA ParseTypeStep ==
  ASSUME TypeInv, ParseStep
  PROVE  ParseType' /\ Dispatched'
<1> USE DEF TypeInv, TypeOK
<1>1. ASSUME NEW k \in Sizes, NEW end \in Endings, Receive(k, end)
      PROVE  ParseType' /\ Dispatched'
  <2> DEFINE p == Packet(k, end)
  <2>1. p \in Seq(Piece)
    BY SizeType, ReceivedPacket, ReceivedLeft DEF ConnType
  <2> HIDE DEF p
  <2>2. uri' \in Files \cup {Bare, None}
    BY <1>1, <2>1, ParsedUri DEF Receive, ParseType, p
  <2>3. version' \in BOOLEAN
    BY <1>1 DEF Receive, ParseType, VersionIn
  <2>4. cseq' \in Piece \cup {None}
    BY <1>1, <2>1, ParsedCSeq DEF Receive, ParseType, p
  <2>5. method' \in Method
    BY <1>1, ParsedMethod DEF Receive, ParseType, Method
  <2>6. pc' = IF uri' # None /\ cseq' # None THEN "dispatch" ELSE "recv"
    BY <1>1 DEF Receive, AuthenticationOK
  <2>7. income' \in Seq(Piece)
    BY <1>1, <2>1 DEF Receive, p
  <2>8. method' # None
    BY <2>5, SessionAssumption
  <2> QED
    BY <2>2, <2>3, <2>4, <2>5, <2>6, <2>7, <2>8 DEF ParseType, Dispatched
<1>2. CASE pc = "dispatch" /\ Wash
  BY <1>2 DEF Wash, ParseType, Dispatched
<1>3. CASE UNCHANGED parse /\ pc' \in {"released", "hung", "exited", "crashed"}
  BY <1>3 DEF ParseType, Dispatched, parse
<1>4. CASE UNCHANGED parse /\ pc' = pc
  BY <1>4 DEF ParseType, Dispatched, parse
<1> QED
  BY <1>1, <1>2, <1>3, <1>4 DEF ParseStep, Receiving

LEMMA TracksType ==
  ASSUME NEW kind \in {"H264", "AAC", "MP4"}
  PROVE  TracksOf(kind) \subseteq Track /\ TracksOf(kind) # {}
BY DEF TracksOf, Track

(* What readFile leaves in loading_media, media_class and media_buf.       *)
LEMMA DescribeType ==
  ASSUME TypeInv, Describe
  PROVE  /\ loading' \in {"H264", "AAC", "MP4"} /\ alloc' \subseteq Track
         /\ buf' \in [Track -> Files \cup {None, Broken}]
         /\ described' \in Files \cup {None} /\ state' = "Init"
<1> USE DEF TypeInv, TypeOK, ClientType
<1>1. uri \in Files
  BY DEF Describe, Handling, Dispatched, ParseType
<1>2. CASE Kind[uri] = "other"
  BY <1>2 DEF Describe, DescribeOther
<1>3. CASE Kind[uri] # "other"
  <2>1. Kind[uri] \in {"H264", "AAC", "MP4"}
    BY <1>1, <1>3, SessionAssumption
  <2>2. PICK outcome \in [TracksOf(Kind[uri]) -> {"ok", "noOpen", "noRead"}] :
          /\ loading' = Kind[uri]
          /\ alloc' = alloc \cup TracksOf(Kind[uri])
          /\ buf' = [m \in Track |-> IF m \in Attempted(Kind[uri], outcome)
                                     THEN BufAfter(m, outcome) ELSE buf[m]]
          /\ described' = IF ReadAll(Kind[uri], outcome) THEN uri ELSE None
    BY <1>3 DEF Describe, DescribeMedia
  <2>3. \A m \in Attempted(Kind[uri], outcome) : m \in TracksOf(Kind[uri])
    BY DEF Attempted, TracksOf, Track
  <2>4. ASSUME NEW m \in Attempted(Kind[uri], outcome)
        PROVE  BufAfter(m, outcome) \in Files \cup {None, Broken}
    <3>1. m \in Track /\ outcome[m] \in {"ok", "noOpen", "noRead"}
      BY <2>1, <2>3, TracksType
    <3> QED
      BY <1>1, <3>1 DEF BufAfter
  <2> QED
    BY <1>1, <2>1, <2>2, <2>4, TracksType DEF Describe
<1> QED
  BY <1>2, <1>3

LEMMA ClientTypeStep ==
  ASSUME TypeInv, ClientStep
  PROVE  ClientType'
<1> USE DEF TypeInv, TypeOK
<1>1. CASE Describe
  BY <1>1, DescribeType DEF Describe, ClientType, streams
<1>2. CASE SetupNotFound
  <2>1. cseq.req.num \in Nat
    BY <1>2 DEF SetupNotFound, DrawSession, Handling, Dispatched, ParseType, Piece, Request
  <2> QED
    BY <1>2, <2>1 DEF SetupNotFound, DrawSession, ClientType, media,
                      streams, promises
<1>3. CASE SetupTrack
  <2>1. cseq.req.num \in Nat /\ income \in Seq(Piece)
    BY <1>3 DEF SetupTrack, DrawSession, Handling, Dispatched, ParseType, Piece, Request
  <2>2. PICK i \in Least(Ports(income)), outcome \in {"ok", "noSocket", "noBind"} :
          /\ OpenTransport(NextTrack, income[i].req.num, outcome)
          /\ granted' = IF outcome = "ok"
                        THEN [granted EXCEPT ![NextTrack] = income[i].req.num]
                        ELSE granted
          /\ state' \in {"Ready", state}
    BY <1>3 DEF SetupTrack
  <2>3. income[i].req.num \in Nat
    <3>1. i \in DOMAIN income
      BY DEF Least, Ports
    <3>2. income[i] \in Piece
      BY <2>1, <3>1
    <3> QED
      BY <3>2 DEF Piece, Request
  <2>4. NextTrack \in Track
    BY DEF NextTrack, Track
  <2>5. /\ init' \subseteq Track /\ dest' \in [Track -> Nat]
        /\ fd' \in [Track -> Nat] /\ sockets' \subseteq Track \X Nat
        /\ buf' \in [Track -> Files \cup {None, Broken}]
    BY <2>2, <2>3, <2>4 DEF OpenTransport, ClientType
  <2>6. granted' \in [Track -> Nat] /\ state' \in {"Birth", "Init", "Ready", "Playing"}
    BY <2>2, <2>3, <2>4 DEF ClientType
  <2> QED
    BY <1>3, <2>1, <2>5, <2>6 DEF SetupTrack, DrawSession, ClientType,
                                  streams
<1>4. CASE PlayStreams
  <2>1. cseq.req.num \in Nat
    BY <1>4 DEF PlayStreams, Handling, Dispatched, ParseType, Piece, Request
  <2>2. TracksOf(loading) \subseteq Track
    BY TracksType DEF ClientType
  <2>3. live' \subseteq Track \X Nat /\ tid' \in [Track -> Nat]
    BY <1>4, <2>1, <2>2 DEF PlayStreams, StartStreams, ClientType
  <2> QED
    BY <1>4, <2>3 DEF PlayStreams, ClientType, media, promises
<1>5. CASE Release
  BY <1>5 DEF Release, ClientType, promises
<1>6. CASE Untouched
  BY <1>6 DEF Untouched, ClientType, client, media, streams, promises
<1> QED
  BY <1>1, <1>2, <1>3, <1>4, <1>5, <1>6 DEF ClientStep

LEMMA TypeInvInit == Init => TypeInv
<1> SUFFICES ASSUME Init PROVE TypeInv
  OBVIOUS
<1>1. ConnType
  BY DEF Init, ConnType
<1>2. ParseType
  <2>1. <<>> \in Seq(Piece)
    OBVIOUS
  <2>2. version \in BOOLEAN
    BY DEF Init
  <2> QED
    BY <2>1, <2>2 DEF Init, ParseType
<1>4. Dispatched
  BY DEF Init, Dispatched
<1>3. ClientType
  BY DEF Init, ClientType, Track
<1> QED
  BY <1>1, <1>2, <1>3, <1>4 DEF TypeInv, TypeOK

LEMMA TypeInvStep == TypeInv /\ [Next]_vars => TypeInv'
<1> SUFFICES ASSUME TypeInv, [Next]_vars PROVE TypeInv'
  OBVIOUS
<1> QED
  BY Steps, ConnTypeStep, ParseTypeStep, ClientTypeStep DEF TypeInv, TypeOK

LEMMA TypeInvAlways == Spec => []TypeInv
BY TypeInvInit, TypeInvStep, PTL DEF Spec

(* The session keeps its types, whatever the client sends and however it   *)
(* is cut up.                                                              *)
THEOREM TypeCorrect == Spec => []TypeOK
<1>1. TypeInv => TypeOK
  BY DEF TypeInv
<1> QED
  BY <1>1, TypeInvAlways, PTL

----------------------------------------------------------------------------
(* Transport and streams.  The inductive invariant: what the tracks with   *)
(* init_done have, that Ready and Playing are reached only with every      *)
(* track set up and started, and that RTP_tid names every running stream.  *)

Backed == Serving => \A m \in init : m \in alloc /\ <<m, fd[m]>> \in sockets
ReadySetUp ==
  Serving /\ state \in {"Ready", "Playing"} => TracksOf(loading) \subseteq init
PlayingStreams ==
  Serving /\ state = "Playing" => \A m \in TracksOf(loading) : <<m, tid[m]>> \in live
StreamsNamed ==
  \A s \in live : s[2] = tid[s[1]] /\ tid[s[1]] # 0 /\ s[1] \in init
GoneSilent == Gone => \A s \in live : s[1] \notin TracksOf(loading)

SessionInv ==
  /\ TransportAsGranted /\ Backed /\ ReadySetUp
  /\ PlayingStreams /\ StreamsNamed /\ GoneSilent

LEMMA SessionInvInit == Init => SessionInv
BY DEF Init, SessionInv, TransportAsGranted, Backed, ReadySetUp,
       PlayingStreams, StreamsNamed, GoneSilent, Gone, Track

(* A step that touches nothing of the client keeps the invariant.          *)
LEMMA UntouchedStep ==
  ASSUME SessionInv, Untouched, Serving' => Serving, Gone' => Gone
  PROVE  SessionInv'
BY DEF SessionInv, TransportAsGranted, Backed, ReadySetUp, PlayingStreams,
       StreamsNamed, GoneSilent, Untouched, client, media, streams, promises

LEMMA DescribeStep ==
  ASSUME TypeInv, SessionInv, Describe
  PROVE  SessionInv'
<1>1. /\ UNCHANGED <<init, dest, fd, sockets, tid, live, granted>>
      /\ pc = "dispatch" /\ pc' = "recv" /\ state' = "Init"
  BY DEF Describe, Handling, Wash, streams
<1>2. alloc \subseteq alloc'
  BY DEF Describe, DescribeMedia, DescribeOther
<1> QED
  BY <1>1, <1>2 DEF SessionInv, TransportAsGranted, Backed, ReadySetUp,
     PlayingStreams, StreamsNamed, GoneSilent, Serving, Gone

LEMMA SetupStep ==
  ASSUME TypeInv, SessionInv, SetupTrack
  PROVE  SessionInv'
<1> USE DEF TypeInv, TypeOK
<1>1. /\ pc = "dispatch" /\ pc' = "recv" /\ state = "Init"
      /\ UNCHANGED <<loading, alloc, tid, live>>
      /\ TracksOf(loading) \subseteq alloc /\ Unset # {}
      /\ income \in Seq(Piece)
  BY DEF SetupTrack, DrawSession, SetupState, Handling, Wash, streams, ParseType
<1>2. PICK i \in Least(Ports(income)), outcome \in {"ok", "noSocket", "noBind"} :
        /\ OpenTransport(NextTrack, income[i].req.num, outcome)
        /\ granted' = IF outcome = "ok"
                      THEN [granted EXCEPT ![NextTrack] = income[i].req.num]
                      ELSE granted
        /\ state' = IF outcome = "ok" /\ CheckParameters(init')
                    THEN "Ready" ELSE state
  BY DEF SetupTrack
<1> DEFINE m == NextTrack
           n == income[i].req.num
<1>3. n \in Nat /\ n # 0
  <2>1. i \in DOMAIN income
    BY DEF Least, Ports
  <2>2. income[i] \in Piece
    BY <1>1, <2>1
  <2> QED
    BY <2>2 DEF Piece, Request
<1>4. m \in Track /\ m \in TracksOf(loading) /\ m \notin init
  BY <1>1, TracksType DEF NextTrack, Unset, TracksOf, Track, ClientType
<1>5. /\ dest' = [dest EXCEPT ![m] = n]
      /\ init' = IF outcome = "ok" THEN init \cup {m} ELSE init
      /\ fd' = [fd EXCEPT ![m] = IF outcome = "noSocket" THEN 0 ELSE n]
      /\ sockets \subseteq sockets'
      /\ outcome = "ok" => <<m, n>> \in sockets'
  BY <1>2 DEF OpenTransport
<1> HIDE DEF m, n
<1>6. TransportAsGranted'
  BY <1>2, <1>3, <1>4, <1>5 DEF SessionInv, TransportAsGranted, ClientType, m, n
<1>7. Backed'
  BY <1>1, <1>4, <1>5 DEF SessionInv, Backed, Serving, ClientType
<1>8. ReadySetUp'
  BY <1>1, <1>2 DEF ReadySetUp, CheckParameters
<1>9. PlayingStreams'
  BY <1>1, <1>2 DEF PlayingStreams
<1>10. StreamsNamed' /\ GoneSilent'
  BY <1>1, <1>5 DEF SessionInv, StreamsNamed, GoneSilent, Gone
<1> QED
  BY <1>6, <1>7, <1>8, <1>9, <1>10 DEF SessionInv

LEMMA SetupNotFoundStep ==
  ASSUME SessionInv, SetupNotFound
  PROVE  SessionInv'
BY DEF SetupNotFound, DrawSession, Handling, Wash, SessionInv,
       TransportAsGranted, Backed, ReadySetUp, PlayingStreams, StreamsNamed,
       GoneSilent, Serving, Gone, media, streams, promises

LEMMA PlayStep ==
  ASSUME TypeInv, SessionInv, PlayStreams
  PROVE  SessionInv'
<1> USE DEF TypeInv, TypeOK
<1>1. /\ pc = "dispatch" /\ pc' = "recv" /\ state = "Ready" /\ state' = "Playing"
      /\ UNCHANGED <<loading, alloc, buf, init, dest, fd, sockets, granted>>
  BY DEF PlayStreams, Handling, Wash, media, promises
<1>2. cseq.req.num \in Nat /\ cseq.req.num # 0
  BY <1>1 DEF Dispatched, ParseType, Piece, Request
<1> DEFINE T == TracksOf(loading)
           n == cseq.req.num
<1>3. /\ live' = (live \ {<<m, tid[m]>> : m \in T}) \cup (T \X {n})
      /\ tid' = [m \in Track |-> IF m \in T THEN n ELSE tid[m]]
  BY DEF PlayStreams, StartStreams
<1>4. T \subseteq init /\ T \subseteq Track
  BY <1>1, TracksType DEF SessionInv, ReadySetUp, Serving, ClientType
<1>5. live \subseteq Track \X Nat
  BY DEF ClientType
<1> HIDE DEF T, n
<1>6. PlayingStreams'
  <2>1. \A m \in T : tid'[m] = n /\ <<m, n>> \in live'
    BY <1>3, <1>4
  <2> QED
    BY <1>1, <2>1 DEF PlayingStreams, T
<1>7. StreamsNamed'
  <2> SUFFICES ASSUME NEW s \in live'
               PROVE  s[2] = tid'[s[1]] /\ tid'[s[1]] # 0 /\ s[1] \in init
    BY <1>1 DEF StreamsNamed
  <2>1. CASE s \in T \X {n}
    BY <2>1, <1>2, <1>3, <1>4 DEF n
  <2>2. CASE s \in live /\ s \notin {<<m, tid[m]>> : m \in T}
    <3>1. s = <<s[1], s[2]>> /\ s[1] \in Track
      BY <1>5, <2>2
    <3>2. s[2] = tid[s[1]] /\ tid[s[1]] # 0 /\ s[1] \in init
      BY <2>2 DEF SessionInv, StreamsNamed
    <3>3. s[1] \notin T
      BY <2>2, <3>1, <3>2
    <3> QED
      BY <1>3, <3>1, <3>2, <3>3
  <2> QED
    BY <1>3, <2>1, <2>2
<1>8. TransportAsGranted' /\ Backed'
  BY <1>1 DEF SessionInv, TransportAsGranted, Backed, Serving
<1>9. ReadySetUp' /\ GoneSilent'
  BY <1>1, <1>4 DEF ReadySetUp, GoneSilent, Gone, T
<1> QED
  BY <1>6, <1>7, <1>8, <1>9 DEF SessionInv

LEMMA ReleaseStep ==
  ASSUME TypeInv, SessionInv, Release
  PROVE  SessionInv'
<1> USE DEF TypeInv, TypeOK
<1> DEFINE T == TracksOf(loading)
<1>1. /\ UNCHANGED <<state, loading, init, dest, fd, tid, granted>>
      /\ ~Serving' /\ live' \subseteq live
      /\ Gone' => live' = live \ {<<m, tid[m]>> : m \in T}
  BY DEF Release, promises, Serving, Gone
<1>2. live \subseteq Track \X Nat
  BY DEF ClientType
<1> HIDE DEF T
<1>3. GoneSilent'
  <2> SUFFICES ASSUME Gone', NEW s \in live' PROVE s[1] \notin T
    BY <1>1 DEF GoneSilent, T
  <2>1. s = <<s[1], s[2]>> /\ s[2] = tid[s[1]]
    BY <1>1, <1>2 DEF SessionInv, StreamsNamed
  <2> QED
    BY <1>1, <2>1
<1>4. StreamsNamed' /\ TransportAsGranted'
  BY <1>1 DEF SessionInv, StreamsNamed, TransportAsGranted
<1>5. Backed' /\ ReadySetUp' /\ PlayingStreams'
  BY <1>1 DEF Backed, ReadySetUp, PlayingStreams
<1> QED
  BY <1>3, <1>4, <1>5 DEF SessionInv

LEMMA SessionInvStep == TypeInv /\ SessionInv /\ [Next]_vars => SessionInv'
<1> SUFFICES ASSUME TypeInv, SessionInv, [Next]_vars PROVE SessionInv'
  OBVIOUS
<1>1. ASSUME Untouched, \/ Serving' /\ Serving
                        \/ Gone' /\ Gone
                        \/ pc' = "crashed"
                        \/ pc' = pc
      PROVE  SessionInv'
  BY <1>1, UntouchedStep DEF Serving, Gone
<1> QED
  BY <1>1, Steps, DescribeStep, SetupStep, SetupNotFoundStep, PlayStep,
     ReleaseStep DEF ClientStep

LEMMA SessionInvAlways == Spec => [](TypeInv /\ SessionInv)
<1>1. Init => TypeInv /\ SessionInv
  BY TypeInvInit, SessionInvInit
<1>2. TypeInv /\ SessionInv /\ [Next]_vars => (TypeInv /\ SessionInv)'
  BY TypeInvStep, SessionInvStep
<1> QED
  BY <1>1, <1>2, PTL DEF Spec

(* Whatever requests come, a session in Ready or Playing has for each      *)
(* track all that handle_PLAY and the streaming threads use.               *)
THEOREM ReadyIsComplete == Spec => []ReadyHasTransport
<1>1. TypeInv /\ SessionInv => ReadyHasTransport
  <2> SUFFICES ASSUME TypeInv, SessionInv, state \in {"Ready", "Playing"},
                      Serving, NEW m \in TracksOf(loading)
               PROVE  /\ m \in alloc /\ m \in init
                      /\ fd[m] # 0 /\ <<m, fd[m]>> \in sockets
                      /\ state = "Playing" => <<m, tid[m]>> \in live
    BY DEF ReadyHasTransport
  <2>1. m \in Track
    BY TracksType DEF TypeInv, TypeOK, ClientType
  <2>2. m \in init
    BY DEF SessionInv, ReadySetUp
  <2> QED
    BY <2>1, <2>2 DEF SessionInv, TransportAsGranted, Backed, PlayingStreams
<1> QED
  BY <1>1, SessionInvAlways, PTL

(* A track streams to the port that was granted.                           *)
THEOREM GrantKept == Spec => []TransportAsGranted
<1>1. TypeInv /\ SessionInv => TransportAsGranted
  BY DEF SessionInv
<1> QED
  BY <1>1, SessionInvAlways, PTL

(* One stream for each track, and none of the released medium.             *)
THEOREM OneStream == Spec => []OneStreamPerTrack
<1>1. TypeInv /\ SessionInv => OneStreamPerTrack
  BY DEF SessionInv, StreamsNamed, Backed, GoneSilent, Gone, OneStreamPerTrack
<1> QED
  BY <1>1, SessionInvAlways, PTL

----------------------------------------------------------------------------
(* The described file.                                                     *)

LEMMA DescribedStep ==
  ASSUME TypeInv, DescribedIsLoaded, [Next]_vars
  PROVE  DescribedIsLoaded'
<1> USE DEF TypeInv, TypeOK
<1>1. CASE Describe
  <2>1. uri \in Files /\ uri # None
    BY <1>1 DEF Describe, Handling, Dispatched, ParseType
  <2>2. CASE Kind[uri] = "other"
    BY <1>1, <2>2 DEF Describe, DescribeOther, DescribedIsLoaded
  <2>3. CASE Kind[uri] # "other"
    <3> DEFINE kind == Kind[uri]
    <3>1. PICK outcome \in [TracksOf(kind) -> {"ok", "noOpen", "noRead"}] :
            /\ loading' = kind
            /\ alloc' = alloc \cup TracksOf(kind)
            /\ buf' = [m \in Track |-> IF m \in Attempted(kind, outcome)
                                       THEN BufAfter(m, outcome) ELSE buf[m]]
            /\ described' = IF ReadAll(kind, outcome) THEN uri ELSE None
      BY <1>1, <2>3 DEF Describe, DescribeMedia
    <3>2. kind \in {"H264", "AAC", "MP4"}
      BY <2>1, <2>3, SessionAssumption
    <3>3. ASSUME ReadAll(kind, outcome), NEW m \in TracksOf(kind)
          PROVE  m \in alloc' /\ buf'[m] = uri
      <4>1. outcome[m] = "ok" /\ m \in Track
        BY <3>2, <3>3, TracksType DEF ReadAll
      <4>2. m \in Attempted(kind, outcome)
        BY <3>3 DEF Attempted, ReadAll, TracksOf, Track
      <4> QED
        BY <3>1, <4>1, <4>2 DEF BufAfter
    <3> QED
      BY <3>1, <3>3 DEF DescribedIsLoaded
  <2> QED
    BY <2>2, <2>3
<1>2. CASE SetupNotFound
  BY <1>2 DEF SetupNotFound, DrawSession, Handling, DescribedIsLoaded, Serving,
              media, promises
<1>3. CASE SetupTrack
  BY <1>3 DEF SetupTrack, DrawSession, Handling, OpenTransport,
              DescribedIsLoaded, Serving
<1>4. CASE PlayStreams
  BY <1>4 DEF PlayStreams, Handling, DescribedIsLoaded, Serving, media, promises
<1>5. CASE Release
  BY <1>5 DEF Release, DescribedIsLoaded, Serving
<1>6. CASE Untouched /\ (Serving' => Serving)
  BY <1>6 DEF Untouched, client, media, promises, DescribedIsLoaded
<1>7. Gone' \/ pc' = "crashed" => ~Serving'
  BY DEF Gone, Serving
<1>8. pc' = pc => (Serving' => Serving)
  BY DEF Serving
<1> QED
  BY <1>1, <1>2, <1>3, <1>4, <1>5, <1>6, <1>7, <1>8, Steps DEF ClientStep

(* After a DESCRIBE answered with 200 the tracks hold the described file.  *)
THEOREM DescribedLoaded == Spec => []DescribedIsLoaded
<1>1. Init => DescribedIsLoaded
  BY DEF Init, DescribedIsLoaded
<1>2. TypeInv /\ DescribedIsLoaded /\ [Next]_vars => DescribedIsLoaded'
  BY DescribedStep
<1> QED
  BY <1>1, <1>2, TypeInvAlways, PTL DEF Spec

----------------------------------------------------------------------------
(* What a step may not do.                                                 *)

(* A session whose tracks are set up leaves Init by no request.            *)
THEOREM Stuck == Spec => ReDescribedIsStuck
<1>1. [Next]_vars =>
        [state = "Init" /\ TracksOf(loading) \subseteq init => state' = "Init"]_vars
  <2> SUFFICES ASSUME [Next]_vars, state = "Init", TracksOf(loading) \subseteq init
               PROVE  state' = "Init"
    OBVIOUS
  <2>1. ~SetupTrack /\ ~PlayStreams
    BY DEF SetupTrack, Unset, PlayStreams
  <2>2. Describe => state' = "Init"
    BY DEF Describe
  <2>3. SetupNotFound \/ Release \/ Untouched => state' = state
    BY DEF SetupNotFound, Release, Untouched, client
  <2> QED
    BY <2>1, <2>2, <2>3, Steps DEF ClientStep
<1> QED
  BY <1>1, PTL DEF Spec, ReDescribedIsStuck

(* OurSessionId is fixed from Ready on.                                    *)
THEOREM SessionIdStays == Spec => SessionIdFrozen
<1>1. [Next]_vars => [(state = "Ready" \/ state = "Playing") => sid' = sid]_vars
  <2> SUFFICES ASSUME [Next]_vars, state = "Ready" \/ state = "Playing"
               PROVE  sid' = sid
    OBVIOUS
  <2>1. ~SetupTrack /\ ~SetupNotFound
    BY DEF SetupTrack, SetupNotFound, DrawSession, SetupState
  <2>2. Describe \/ PlayStreams \/ Release \/ Untouched => sid' = sid
    BY DEF Describe, PlayStreams, Release, Untouched, client
  <2> QED
    BY <2>1, <2>2, Steps DEF ClientStep
<1> QED
  BY <1>1, PTL DEF Spec, SessionIdFrozen

----------------------------------------------------------------------------
(* The order of the replies.  The CSeq headers in the socket buffer are of *)
(* ever later requests, later than the CSeq that is held and than the      *)
(* request last answered.                                                  *)

After(n, s) == \A i \in CSeqs(s) : n < s[i].req.num

InOrder ==
  /\ \A i \in CSeqs(inbox) : inbox[i].req.num <= nreq
  /\ \A i, j \in CSeqs(inbox) : i < j => inbox[i].req.num < inbox[j].req.num
  /\ cseq # None => cseq.req.num <= nreq /\ After(cseq.req.num, inbox)
  /\ reply # None => reply.req.num <= nreq /\ After(reply.req.num, inbox)
  /\ reply # None /\ cseq # None /\ Serving => reply.req.num < cseq.req.num

(* The CSeq headers of the buffer after a request is sent.                 *)
LEMMA SentCSeqs ==
  ASSUME TypeInv, NEW a \in Asks, Send(a), NEW i \in CSeqs(inbox')
  PROVE  \/ i \in CSeqs(inbox) /\ inbox'[i] = inbox[i]
         \/ i = Len(inbox) + 4 /\ inbox'[i].req.num = nreq + 1
<1> DEFINE r == [num |-> nreq + 1, ask |-> a]
<1>1. r \in Request /\ r.num = nreq + 1
  BY SessionAssumption DEF TypeInv, TypeOK, ConnType, Request
<1>2. inbox \in Seq(Piece) /\ PiecesOf(r) \in Seq(Piece)
  BY <1>1, PiecesOfType DEF TypeInv, TypeOK, ConnType
<1>3. inbox' = inbox \o PiecesOf(r)
  BY DEF Send
<1>4. i \in DOMAIN inbox' /\ inbox'[i].text = "cseq" /\ inbox'[i].req.ask.cseq
  BY DEF CSeqs
<1> HIDE DEF r
<1>5. CASE i <= Len(inbox)
  <2>1. i \in DOMAIN inbox /\ inbox'[i] = inbox[i]
    BY <1>2, <1>3, <1>4, <1>5
  <2> QED
    BY <1>4, <2>1 DEF CSeqs
<1>6. CASE ~(i <= Len(inbox))
  <2>1. /\ i - Len(inbox) \in DOMAIN PiecesOf(r)
        /\ inbox'[i] = PiecesOf(r)[i - Len(inbox)]
    BY <1>2, <1>3, <1>4, <1>6
  <2>2. inbox'[i].req = r /\ i - Len(inbox) = 4
    BY <1>1, <1>4, <2>1, PiecesOfType
  <2>3. i \in Nat /\ Len(inbox) \in Nat
    BY <1>2, <1>3, <1>4
  <2> QED
    BY <1>1, <2>2, <2>3
<1> QED
  BY <1>5, <1>6

(* The CSeq headers of the buffer after a recv(), and of the packet.       *)
LEMMA ReceivedCSeqs ==
  ASSUME TypeInv, NEW k \in Sizes, NEW end \in Endings, Receive(k, end),
         NEW p, p = Packet(k, end), NEW t, t = Taking(k, end)
  PROVE  /\ \A i \in CSeqs(inbox') :
              /\ i + t \in CSeqs(inbox) /\ i + t > k /\ inbox'[i] = inbox[i + t]
         /\ \A i \in CSeqs(p) :
              i \in CSeqs(inbox) /\ i <= k /\ p[i].req = inbox[i].req
<1>1. PICK left : left = Left(k, end)
  OBVIOUS
<1>2. inbox \in Seq(Piece) /\ inbox' = left
  BY <1>1 DEF TypeInv, TypeOK, ConnType, Receive
<1>3. \A i \in DOMAIN p :
        /\ i \in DOMAIN inbox /\ i <= k
        /\ p[i].text = inbox[i].text /\ p[i].req = inbox[i].req
        /\ (i < k \/ end = "whole") => p[i] = inbox[i]
  BY <1>2, ReceivedPacket
<1>4. \A i \in DOMAIN left :
        /\ i \in Nat \ {0} /\ i + t \in DOMAIN inbox
        /\ left[i].req = inbox[i + t].req /\ left[i].part = inbox[i + t].part
        /\ \/ left[i] = inbox[i + t] /\ i + t > k
           \/ i = 1 /\ end # "whole" /\ left[i].text = "tail"
  BY <1>1, <1>2, ReceivedLeft
<1> QED
  BY <1>2, <1>3, <1>4 DEF CSeqs

LEMMA NumType ==
  ASSUME TypeInv
  PROVE  /\ nreq \in Nat
         /\ \A i \in CSeqs(inbox) : i \in Nat /\ inbox[i].req.num \in Nat
         /\ cseq # None => cseq.req.num \in Nat
         /\ reply # None => reply.req.num \in Nat
<1>1. \A i \in DOMAIN inbox : i \in Nat /\ inbox[i] \in Piece
  BY DEF TypeInv, TypeOK, ConnType
<1> QED
  BY <1>1 DEF CSeqs, TypeInv, TypeOK, ConnType, ParseType, Piece, Request, Reply

LEMMA InOrderStep ==
  ASSUME TypeInv, InOrder, [Next]_vars
  PROVE  InOrder'
<1> USE DEF After
<1>1. ASSUME NEW a \in Asks, Send(a)
      PROVE  InOrder'
  <2>1. /\ UNCHANGED <<cseq, pc, reply>> /\ nreq' = nreq + 1
    BY <1>1 DEF Send, parse
  <2>2. \A i \in CSeqs(inbox') :
          \/ i \in CSeqs(inbox) /\ inbox'[i] = inbox[i]
          \/ i = Len(inbox) + 4 /\ inbox'[i].req.num = nreq + 1
    BY <1>1, SentCSeqs
  <2>3. \A i \in CSeqs(inbox) : i <= Len(inbox) /\ Len(inbox) \in Nat
    BY DEF CSeqs, TypeInv, TypeOK, ConnType
  <2>4. \A i \in CSeqs(inbox') : inbox'[i].req.num <= nreq'
    BY <2>1, <2>2, NumType DEF InOrder
  <2>5. \A i, j \in CSeqs(inbox') : i < j => inbox'[i].req.num < inbox'[j].req.num
    BY <2>2, <2>3, NumType DEF InOrder
  <2>6. cseq' # None => cseq'.req.num <= nreq' /\ After(cseq'.req.num, inbox')
    BY <2>1, <2>2, NumType DEF InOrder
  <2>7. reply' # None => reply'.req.num <= nreq' /\ After(reply'.req.num, inbox')
    BY <2>1, <2>2, NumType DEF InOrder
  <2> QED
    BY <2>1, <2>4, <2>5, <2>6, <2>7 DEF InOrder, Serving
<1>2. ASSUME NEW k \in Sizes, NEW end \in Endings, Receive(k, end)
      PROVE  InOrder'
  <2>p. PICK p, t : p = Packet(k, end) /\ t = Taking(k, end)
    OBVIOUS
  <2>1. /\ UNCHANGED <<nreq, reply>> /\ pc = "recv" /\ pc' \in {"recv", "dispatch"}
        /\ cseq' = cseq \/ cseq' \in CSeqAfter(p)
    BY <1>2, <2>p DEF Receive
  <2>2. \A i \in CSeqs(inbox') :
          i + t \in CSeqs(inbox) /\ i + t > k /\ inbox'[i] = inbox[i + t]
    BY <1>2, <2>p, ReceivedCSeqs
  <2>3. \/ cseq' = cseq
        \/ \E i \in CSeqs(inbox) : i <= k /\ cseq'.req = inbox[i].req
    <3>1. \A i \in CSeqs(p) : i \in CSeqs(inbox) /\ i <= k /\ p[i].req = inbox[i].req
      BY <1>2, <2>p, ReceivedCSeqs
    <3>2. \A i \in Least(CSeqs(p)) : i \in CSeqs(p)
      BY DEF Least
    <3> QED
      BY <2>1, <3>1, <3>2 DEF CSeqAfter
  <2>4. k \in Nat /\ t \in Nat
    BY <2>p, SizeType, ReceivedPacket, ReceivedLeft DEF TypeInv, TypeOK, ConnType
  <2>5. \A i \in CSeqs(inbox') : i \in Nat
    <3>1. inbox' \in Seq(Piece)
      BY <1>2, SizeType, ReceivedPacket, ReceivedLeft DEF Receive, TypeInv, TypeOK, ConnType
    <3> QED
      BY <3>1 DEF CSeqs
  <2>6. \A i, j \in CSeqs(inbox') : i < j => inbox'[i].req.num < inbox'[j].req.num
    BY <2>2, <2>4, <2>5, NumType DEF InOrder
  <2>7. cseq' # None => cseq'.req.num <= nreq' /\ After(cseq'.req.num, inbox')
    <3>1. CASE cseq' = cseq
      BY <2>1, <2>2, <3>1 DEF InOrder
    <3>2. ASSUME NEW i \in CSeqs(inbox), i <= k, cseq'.req = inbox[i].req
          PROVE  cseq'.req.num <= nreq' /\ After(cseq'.req.num, inbox')
      <4>1. \A j \in CSeqs(inbox') : i < j + t
        BY <2>2, <2>4, <2>5, <3>2, NumType
      <4> QED
        BY <2>1, <2>2, <3>2, <4>1 DEF InOrder
    <3> QED
      BY <2>3, <3>1, <3>2
  <2>8. reply' # None /\ cseq' # None => reply'.req.num < cseq'.req.num
    BY <2>1, <2>3 DEF InOrder, Serving
  <2> QED
    BY <2>1, <2>2, <2>6, <2>7, <2>8 DEF InOrder
<1>3. CASE Answered
  <2>1. PICK code \in Codes : Answer(code)
    BY <1>3 DEF Answered
  <2>2. /\ UNCHANGED <<nreq, inbox>> /\ cseq # None /\ reply'.req = cseq.req
    BY <1>3, <2>1 DEF Answered, Answer, TypeInv, Dispatched
  <2>3. cseq' = None \/ (cseq' = cseq /\ ~Serving')
    BY <1>3 DEF Answered, Wash, parse
  <2> QED
    BY <2>2, <2>3 DEF InOrder
<1>4. CASE Close
  BY <1>4 DEF Close, InOrder, parse, Serving
<1>5. CASE UNCHANGED <<conn, parse, reply, ghost>> /\ (Serving' => Serving)
  BY <1>5 DEF InOrder, conn, parse
<1> QED
  BY <1>1, <1>2, <1>3, <1>4, <1>5, Steps DEF ConnStep, Receiving

(* Replies come in the order of the requests whose CSeq was read, each at  *)
(* most once, wherever packets end and whatever shares one.                *)
THEOREM AnswersInOrder == Spec => RepliesInOrder
<1>1. Init => InOrder
  BY DEF Init, InOrder, CSeqs
<1>2. TypeInv /\ InOrder /\ [Next]_vars => InOrder'
  BY InOrderStep
<1>3. TypeInv /\ InOrder /\ [Next]_vars =>
        [reply' # reply /\ reply # None => reply.req.num < reply'.req.num]_vars
  <2> SUFFICES ASSUME TypeInv, InOrder, [Next]_vars, reply' # reply, reply # None
               PROVE  reply.req.num < reply'.req.num
    OBVIOUS
  <2>1. Answered
    BY Steps DEF ConnStep, Send, Close, Receiving, Receive
  <2>2. cseq # None /\ reply'.req = cseq.req /\ Serving
    BY <2>1 DEF Answered, Answer, TypeInv, Dispatched, Serving
  <2> QED
    BY <2>2 DEF InOrder
<1> QED
  BY <1>1, <1>2, <1>3, TypeInvAlways, PTL DEF Spec, RepliesInOrder

----------------------------------------------------------------------------
(* What a reply answers.  A request sent when nothing was outstanding is   *)
(* in the buffer whole, or its method is taken in and the fields are its   *)
(* own, or it is answered, with a rest to come that has no URI.            *)

Has(text) == \E i \in DOMAIN inbox : inbox[i].text = text
Unread(r) ==
  /\ method = None /\ uri = None /\ cseq = None /\ r.num \notin torn
  /\ inbox = PiecesOf(r)
Own(r) ==
  /\ \A i \in DOMAIN inbox : inbox[i].req = r /\ inbox[i].part = "whole"
  /\ cseq = None \/ cseq.req = r
  /\ method \in {HandlerOf(r.ask.method), "notSupported", "BAD"}
  /\ uri \in {None, r.ask.uri} \cup Beginnings[r.ask.uri]
(* What an untorn request has said, once RTSP/1.0 has been seen; until     *)
(* then there is none behind the packet that had the method.               *)
Whole(r) ==
  /\ IF version THEN method = HandlerOf(r.ask.method)
     ELSE cseq = None /\ ~Has("version")
  /\ uri \in {None, r.ask.uri}
  /\ cseq # None => cseq.part = "whole"
Taken(r) ==
  /\ Own(r) /\ (r.num \notin torn => Whole(r))
  /\ ~Has("method") /\ (uri # None => ~Has("uri"))
  /\ \A i, j \in DOMAIN inbox : inbox[i].text = "uri" /\ inbox[j].text = "uri" => i = j
Rest == ~Has("method") /\ ~Has("uri") /\ uri = None

FreshInv ==
  Serving =>
    /\ quiet => method = None /\ uri = None /\ cseq = None /\ inbox = <<>>
    /\ fresh /\ ~quiet => Rest \/ \E r \in Request : Unread(r) \/ Taken(r)

(* What is torn, and what is in the buffer, has been sent.                 *)
Sent ==
  /\ \A i \in DOMAIN inbox : inbox[i].req.num \in 1..nreq
  /\ torn \subseteq 1..nreq

LEMMA SentStep ==
  ASSUME TypeInv, Sent, [Next]_vars
  PROVE  Sent'
<1> USE DEF TypeInv, TypeOK, ConnType
<1>1. ASSUME NEW a \in Asks, Send(a)
      PROVE  Sent'
  <2>1. PICK r \in Request : r = [num |-> nreq + 1, ask |-> a]
    <3>1. [num |-> nreq + 1, ask |-> a] \in Request
      BY SessionAssumption DEF Request
    <3> QED
      BY <3>1
  <2>2. /\ inbox' = inbox \o PiecesOf(r) /\ nreq' = nreq + 1 /\ torn' = torn
        /\ PiecesOf(r) \in Seq(Piece) /\ r.num = nreq + 1
        /\ \A i \in DOMAIN PiecesOf(r) : PiecesOf(r)[i].req = r
    BY <1>1, <2>1, PiecesOfType DEF Send
  <2>3. \A i \in DOMAIN inbox' : inbox'[i].req.num \in 1..nreq'
    <3> SUFFICES ASSUME NEW i \in DOMAIN inbox'
                 PROVE  inbox'[i].req.num \in 1..nreq'
      OBVIOUS
    <3>1. CASE i <= Len(inbox)
      <4>1. i \in DOMAIN inbox /\ inbox'[i] = inbox[i]
        BY <2>2, <3>1
      <4> QED
        BY <2>2, <4>1 DEF Sent
    <3>2. CASE ~(i <= Len(inbox))
      <4>1. /\ i - Len(inbox) \in DOMAIN PiecesOf(r)
            /\ inbox'[i] = PiecesOf(r)[i - Len(inbox)]
        BY <2>2, <3>2
      <4> QED
        BY <2>2, <4>1
    <3> QED
      BY <3>1, <3>2
  <2> QED
    BY <2>2, <2>3 DEF Sent
<1>2. ASSUME NEW k \in Sizes, NEW end \in Endings, Receive(k, end)
      PROVE  Sent'
  <2>1. /\ inbox' = Left(k, end) /\ torn' = torn \cup TornBy(k, end, version')
        /\ nreq' = nreq /\ k \in DOMAIN inbox
    BY <1>2, SizeType, ReceivedPacket, ReceivedLeft DEF Receive
  <2>2. \A i \in DOMAIN inbox' : \E j \in DOMAIN inbox : inbox'[i].req = inbox[j].req
    <3>1. PICK left : left = Left(k, end)
      OBVIOUS
    <3>2. PICK t : t = Taking(k, end)
      OBVIOUS
    <3>3. \A i \in DOMAIN left :
            /\ i \in Nat \ {0} /\ i + t \in DOMAIN inbox
            /\ left[i].req = inbox[i + t].req /\ left[i].part = inbox[i + t].part
            /\ \/ left[i] = inbox[i + t] /\ i + t > k
               \/ i = 1 /\ end # "whole" /\ left[i].text = "tail"
      BY <3>1, <3>2, ReceivedLeft
    <3> QED
      BY <2>1, <3>1, <3>3
  <2>3. TornBy(k, end, version') \subseteq 1..nreq
    BY <2>1 DEF TornBy, Sent
  <2> QED
    BY <2>1, <2>2, <2>3 DEF Sent
<1>3. CASE Answered \/ Close
  BY <1>3 DEF Answered, Answer, Close, Sent, ghost
<1>4. CASE UNCHANGED <<conn, parse, reply, ghost>>
  BY <1>4 DEF conn, ghost, Sent
<1> QED
  BY <1>1, <1>2, <1>3, <1>4, Steps DEF ConnStep, Receiving

(* A value that is cut off is that of the last piece, and a URI or a CSeq  *)
(* is torn by it.                                                          *)
LEMMA CutTears ==
  ASSUME TypeInv, NEW k \in Sizes, NEW end \in Endings, Receive(k, end),
         \A i \in DOMAIN inbox : inbox[i].part = "whole",
         NEW p, p = Packet(k, end), NEW i \in DOMAIN p, p[i].part # "whole",
         p[i].text \in {"uri", "cseq"}
  PROVE  p[i].req.num \in torn'
<1>1. /\ i \in DOMAIN inbox /\ i <= k /\ k \in DOMAIN inbox
      /\ p[i].text = inbox[i].text /\ p[i].req = inbox[i].req
      /\ (i < k \/ end = "whole") => p[i] = inbox[i]
  BY SizeType, ReceivedPacket, ReceivedLeft DEF TypeInv, TypeOK, ConnType
<1>2. i = k /\ end # "whole"
  <2>1. i \in Nat /\ k \in Nat
    BY <1>1, PiecesIn DEF TypeInv, TypeOK, ConnType
  <2> QED
    BY <1>1, <2>1
<1>3. inbox[k].req.num \in TornBy(k, end, version')
  BY <1>1, <1>2 DEF TornBy
<1> QED
  BY <1>1, <1>2, <1>3 DEF Receive

(* What the fields take from a packet that holds pieces of one request.    *)
LEMMA FieldsTaken ==
  ASSUME TypeInv, NEW k \in Sizes, NEW end \in Endings, Receive(k, end),
         NEW r \in Request,
         \A i \in DOMAIN inbox : inbox[i].req = r /\ inbox[i].part = "whole"
  PROVE  /\ uri' # uri => uri = None /\ uri' \in {r.ask.uri} \cup Beginnings[r.ask.uri]
         /\ uri' # uri /\ r.num \notin torn' => uri' = r.ask.uri
         /\ uri' # uri => \E i \in DOMAIN inbox : i <= k /\ inbox[i].text = "uri"
         /\ cseq' # cseq => version' /\ cseq'.req = r
         /\ cseq' # cseq /\ r.num \notin torn' => cseq'.part = "whole"
<1>p. PICK p : p = Packet(k, end)
  OBVIOUS
<1>1. \A i \in DOMAIN p : /\ i \in DOMAIN inbox /\ i <= k
                          /\ p[i].text = inbox[i].text /\ p[i].req = r
  <2>1. inbox \in Seq(Piece)
    BY DEF TypeInv, TypeOK, ConnType
  <2>2. \A i \in DOMAIN p :
          /\ i \in DOMAIN inbox /\ i <= k
          /\ p[i].text = inbox[i].text /\ p[i].req = inbox[i].req
          /\ (i < k \/ end = "whole") => p[i] = inbox[i]
    BY <1>p, <2>1, ReceivedPacket
  <2> QED
    BY <2>2
<1>2. \A i \in DOMAIN p : p[i].text \in {"uri", "cseq"} /\ p[i].part # "whole" => r.num \in torn'
  BY <1>1, <1>p, CutTears
<1>3. /\ uri' \in UriAfter(p)
      /\ cseq' = cseq \/ (version' /\ cseq' \in CSeqAfter(p))
  BY <1>p DEF Receive
<1>4. \A i \in DOMAIN p : p[i].part \in {"whole", "cut"}
  <2>1. p \in Seq(Piece)
    BY <1>p, SizeType, ReceivedPacket, ReceivedLeft DEF TypeInv, TypeOK, ConnType
  <2> QED
    BY <2>1, PiecesIn, PieceFields
<1>5. ASSUME uri' # uri
      PROVE  uri = None /\ \E i \in DOMAIN p : p[i].text = "uri" /\ uri' \in UriOf(p[i])
  BY <1>3, <1>5 DEF UriAfter, Least, Uris
<1>6. ASSUME cseq' # cseq
      PROVE  version' /\ \E i \in DOMAIN p : p[i].text = "cseq" /\ cseq' = p[i]
  BY <1>3, <1>6 DEF CSeqAfter, Least, CSeqs
<1>7. ASSUME uri' # uri
      PROVE  /\ uri = None /\ uri' \in {r.ask.uri} \cup Beginnings[r.ask.uri]
             /\ r.num \notin torn' => uri' = r.ask.uri
             /\ \E i \in DOMAIN inbox : i <= k /\ inbox[i].text = "uri"
  <2>1. PICK i \in DOMAIN p : p[i].text = "uri" /\ uri' \in UriOf(p[i])
    BY <1>5, <1>7
  <2>2. /\ p[i].req = r /\ i \in DOMAIN inbox /\ i <= k /\ inbox[i].text = "uri"
        /\ p[i].part # "whole" => r.num \in torn'
    BY <1>1, <1>2, <2>1
  <2> QED
    BY <1>5, <1>7, <2>1, <2>2 DEF UriOf
<1> QED
  BY <1>1, <1>2, <1>6, <1>7

(* The packet with the method: the request lies in the buffer from the     *)
(* first piece on.                                                         *)
LEMMA TakenFirst ==
  ASSUME TypeInv, NEW k \in Sizes, NEW end \in Endings, Receive(k, end),
         NEW r \in Request, Unread(r)
  PROVE  Taken(r)'
<1>p. PICK p, left, t :
        p = Packet(k, end) /\ left = Left(k, end) /\ t = Taking(k, end)
  OBVIOUS
<1>1. /\ inbox = PiecesOf(r) /\ inbox \in Seq(Piece) /\ Len(inbox) \in {5, 7}
      /\ \A i \in DOMAIN inbox :
           /\ inbox[i].req = r /\ inbox[i].part = "whole"
           /\ inbox[i].text = "method" <=> i = 1
           /\ inbox[i].text = "uri" <=> i = 2
           /\ inbox[i].text = "version" <=> i = 3
  BY PiecesOfType DEF Unread
<1>2. /\ k \in Nat \ {0} /\ k <= Len(inbox) /\ k \in DOMAIN inbox /\ t \in Nat /\ t <= k
      /\ p \in Seq(Piece) /\ Len(p) = IF end = "lost" THEN k - 1 ELSE k
      /\ \A i \in DOMAIN p : /\ i \in DOMAIN inbox /\ i <= k
                             /\ p[i].text = inbox[i].text /\ p[i].req = r
      /\ \A i \in DOMAIN inbox' :
           /\ i \in Nat /\ i + t \in DOMAIN inbox
           /\ inbox'[i].req = r /\ inbox'[i].part = "whole"
           /\ \/ inbox'[i] = inbox[i + t] /\ i + t > k
              \/ i = 1 /\ inbox'[i].text = "tail"
  <2>1. inbox' = left
    BY <1>p DEF Receive
  <2>2. k \in Nat \ {0} /\ k <= Len(inbox) /\ k \in DOMAIN inbox /\ t \in Nat /\ t <= k
    BY <1>1, <1>p, SizeType, ReceivedLeft
  <2>3. /\ p \in Seq(Piece) /\ Len(p) = IF end = "lost" THEN k - 1 ELSE k
        /\ \A i \in DOMAIN p :
             /\ i \in DOMAIN inbox /\ i <= k
             /\ p[i].text = inbox[i].text /\ p[i].req = inbox[i].req
             /\ (i < k \/ end = "whole") => p[i] = inbox[i]
    BY <1>1, <1>p, ReceivedPacket
  <2>4. \A i \in DOMAIN left :
          /\ i \in Nat \ {0} /\ i + t \in DOMAIN inbox
          /\ left[i].req = inbox[i + t].req /\ left[i].part = inbox[i + t].part
          /\ \/ left[i] = inbox[i + t] /\ i + t > k
             \/ i = 1 /\ end # "whole" /\ left[i].text = "tail"
    BY <1>1, <1>p, ReceivedLeft
  <2> QED
    BY <1>1, <2>1, <2>2, <2>3, <2>4
<1>3. /\ uri = None /\ cseq = None /\ method = None
      /\ version' = (version \/ VersionIn(p))
      /\ IF version' THEN method' = MethodIn(p) ELSE method' = "BAD" /\ cseq' = None
      /\ MayEnd(inbox[k], end)
      /\ TornBy(k, end, version') \subseteq torn'
  BY <1>p DEF Receive, Unread
<1>4. /\ uri' # uri => uri' \in {r.ask.uri} \cup Beginnings[r.ask.uri]
      /\ uri' # uri /\ r.num \notin torn' => uri' = r.ask.uri
      /\ uri' # uri => \E i \in DOMAIN inbox : i <= k /\ inbox[i].text = "uri"
      /\ cseq' # cseq => version' /\ cseq'.req = r
      /\ cseq' # cseq /\ r.num \notin torn' => cseq'.part = "whole"
  BY <1>1, FieldsTaken
<1>6. p = <<>> \/ (1 \in DOMAIN p /\ p[1].text = "method" /\ p[1].req = r)
  BY <1>1, <1>2
<1>7. MethodIn(p) = IF p = <<>> THEN "notSupported" ELSE HandlerOf(r.ask.method)
  <2>1. \A m : Asking(p, m) <=> p # <<>> /\ r.ask.method = m
    BY <1>1, <1>2, <1>6 DEF Asking
  <2> QED
    BY <2>1 DEF MethodIn, HandlerOf, Supported
<1>8. p = <<>> => r.num \in torn'
  <2>1. p = <<>> => end = "lost" /\ k = 1
    BY <1>2
  <2> QED
    BY <1>1, <1>2, <1>3, <2>1 DEF TornBy
<1>9. ASSUME ~version', r.num \notin torn'
      PROVE  ~Has("version")'
  <2>1. ASSUME k \in {1, 2} PROVE r.num \in TornBy(k, end, version')
    <3>1. CASE end = "whole"
      <4>1. k + 1 \in DOMAIN inbox /\ inbox[k + 1].text \in {"uri", "version"}
        BY <1>1, <2>1
      <4> QED
        BY <1>1, <1>9, <3>1, <4>1 DEF TornBy
    <3>2. CASE end # "whole"
      BY <1>1, <1>2, <2>1, <3>2 DEF TornBy
    <3> QED
      BY <3>1, <3>2
  <2>2. k > 2
    BY <1>2, <1>3, <1>9, <2>1
  <2> QED
    BY <1>1, <1>2, <2>2 DEF Has
<1>10. ~Has("method")' /\ (uri' # None => ~Has("uri")')
  <2>1. ASSUME NEW m \in DOMAIN inbox', inbox'[m].text # "tail"
        PROVE  m + t \in DOMAIN inbox /\ m + t > k /\ inbox'[m].text = inbox[m + t].text
    BY <1>2, <2>1
  <2>2. k >= 1
    BY <1>2
  <2>3. \A m \in DOMAIN inbox' : inbox'[m].text # "method"
    BY <1>1, <1>2, <2>1, <2>2
  <2>4. ASSUME uri' # None, NEW m \in DOMAIN inbox', inbox'[m].text = "uri" PROVE FALSE
    <3>1. k >= 2
      BY <1>1, <1>2, <1>3, <1>4, <2>4
    <3>2. m + t = 2 /\ m + t > k
      BY <1>1, <2>1, <2>4
    <3> QED
      BY <1>2, <3>1, <3>2
  <2> QED
    BY <2>3, <2>4 DEF Has
<1>11. \A i, j \in DOMAIN inbox' : inbox'[i].text = "uri" /\ inbox'[j].text = "uri" => i = j
  BY <1>1, <1>2
<1>12. Own(r)'
  BY <1>2, <1>3, <1>4, <1>7 DEF Own
<1>13. r.num \notin torn' => Whole(r)'
  BY <1>3, <1>4, <1>7, <1>8, <1>9 DEF Whole
<1> QED
  BY <1>10, <1>11, <1>12, <1>13 DEF Taken

(* What comes behind the method adds the URI and the CSeq, if anything.    *)
LEMMA TakenOn ==
  ASSUME TypeInv, NEW k \in Sizes, NEW end \in Endings, Receive(k, end),
         NEW r \in Request, Taken(r)
  PROVE  Taken(r)'
<1>p. PICK p, left, t :
        p = Packet(k, end) /\ left = Left(k, end) /\ t = Taking(k, end)
  OBVIOUS
<1>1. /\ inbox \in Seq(Piece)
      /\ \A i \in DOMAIN inbox : inbox[i].req = r /\ inbox[i].part = "whole"
  BY DEF TypeInv, TypeOK, ConnType, Taken, Own
<1>2. /\ k \in Nat /\ t \in Nat
      /\ \A i \in DOMAIN p : i \in DOMAIN inbox /\ p[i].text = inbox[i].text
      /\ \A i \in DOMAIN inbox' :
           /\ i \in Nat /\ i + t \in DOMAIN inbox
           /\ inbox'[i].req = r /\ inbox'[i].part = "whole"
           /\ \/ inbox'[i] = inbox[i + t] /\ i + t > k
              \/ i = 1 /\ inbox'[i].text = "tail"
  <2>1. inbox' = left
    BY <1>p DEF Receive
  <2>2. k \in Nat /\ t \in Nat
    BY <1>1, <1>p, SizeType, ReceivedLeft
  <2>3. \A i \in DOMAIN p :
          /\ i \in DOMAIN inbox /\ i <= k
          /\ p[i].text = inbox[i].text /\ p[i].req = inbox[i].req
          /\ (i < k \/ end = "whole") => p[i] = inbox[i]
    BY <1>1, <1>p, ReceivedPacket
  <2>4. \A i \in DOMAIN left :
          /\ i \in Nat \ {0} /\ i + t \in DOMAIN inbox
          /\ left[i].req = inbox[i + t].req /\ left[i].part = inbox[i + t].part
          /\ \/ left[i] = inbox[i + t] /\ i + t > k
             \/ i = 1 /\ end # "whole" /\ left[i].text = "tail"
    BY <1>1, <1>p, ReceivedLeft
  <2> QED
    BY <1>1, <2>1, <2>2, <2>3, <2>4
<1>4. /\ version' = (version \/ VersionIn(p))
      /\ IF version' THEN method' = IF method = None THEN MethodIn(p) ELSE method
         ELSE method' = "BAD" /\ cseq' = cseq
      /\ torn \subseteq torn'
  BY <1>p DEF Receive
<1>5. /\ uri' # uri => uri = None /\ uri' \in {r.ask.uri} \cup Beginnings[r.ask.uri]
      /\ uri' # uri /\ r.num \notin torn' => uri' = r.ask.uri
      /\ uri' # uri => \E i \in DOMAIN inbox : i <= k /\ inbox[i].text = "uri"
      /\ cseq' # cseq => version' /\ cseq'.req = r
      /\ cseq' # cseq /\ r.num \notin torn' => cseq'.part = "whole"
  BY <1>1, FieldsTaken
<1>6. method # None
  BY SessionAssumption DEF Taken, Own, HandlerOf, Method, Supported
<1>7. \A text \in {"method", "uri", "version"} : Has(text)' => Has(text)
  BY <1>2 DEF Has
<1>8. uri' # None => ~Has("uri")'
  <2>1. CASE uri' = uri
    BY <1>7, <2>1 DEF Taken
  <2>2. CASE uri' # uri
    <3>1. PICK i \in DOMAIN inbox : i <= k /\ inbox[i].text = "uri"
      BY <1>5, <2>2
    <3>2. \A j \in DOMAIN inbox : inbox[j].text = "uri" => j = i
      BY <3>1 DEF Taken
    <3>3. ASSUME NEW m \in DOMAIN inbox', inbox'[m].text = "uri" PROVE FALSE
      <4>1. m + t \in DOMAIN inbox /\ m + t > k /\ inbox[m + t].text = "uri"
        BY <1>2, <3>3
      <4>2. m + t = i
        BY <3>2, <4>1
      <4>3. i \in Nat /\ k \in Nat
        BY <1>1, <1>2
      <4> QED
        BY <3>1, <4>1, <4>2, <4>3
    <3> QED
      BY <3>3 DEF Has
  <2> QED
    BY <2>1, <2>2
<1>9. \A i, j \in DOMAIN inbox' : inbox'[i].text = "uri" /\ inbox'[j].text = "uri" => i = j
  <2> SUFFICES ASSUME NEW i \in DOMAIN inbox', NEW j \in DOMAIN inbox',
                      inbox'[i].text = "uri", inbox'[j].text = "uri"
               PROVE  i = j
    OBVIOUS
  <2>1. i + t = j + t
    BY <1>2 DEF Taken
  <2> QED
    BY <1>2, <2>1
<1>10. Own(r)'
  BY <1>2, <1>4, <1>5, <1>6 DEF Taken, Own
<1>11. ASSUME r.num \notin torn' PROVE Whole(r)'
  <2>1. Whole(r)
    BY <1>4, <1>11 DEF Taken
  <2>2. CASE ~version
    <3>1. ~VersionIn(p)
      BY <1>2, <2>1, <2>2 DEF Whole, Has, VersionIn
    <3>2. version' = FALSE
      BY <1>4, <2>2, <3>1
    <3> QED
      BY <1>4, <1>5, <1>7, <1>11, <2>1, <2>2, <3>2 DEF Whole
  <2>3. CASE version
    BY <1>4, <1>5, <1>6, <1>11, <2>1, <2>3 DEF Whole
  <2> QED
    BY <2>2, <2>3
<1> QED
  BY <1>7, <1>8, <1>9, <1>10, <1>11 DEF Taken

LEMMA RestStays ==
  ASSUME TypeInv, NEW k \in Sizes, NEW end \in Endings, Receive(k, end), Rest
  PROVE  Rest'
<1>1. PICK p, left, t :
        p = Packet(k, end) /\ left = Left(k, end) /\ t = Taking(k, end)
  OBVIOUS
<1>2. inbox' = left /\ inbox \in Seq(Piece) /\ uri' \in UriAfter(p)
  BY <1>1 DEF Receive, TypeInv, TypeOK, ConnType
<1>3. \A i \in DOMAIN left :
        /\ i \in Nat \ {0} /\ i + t \in DOMAIN inbox
        /\ left[i].req = inbox[i + t].req /\ left[i].part = inbox[i + t].part
        /\ \/ left[i] = inbox[i + t] /\ i + t > k
           \/ i = 1 /\ end # "whole" /\ left[i].text = "tail"
  BY <1>1, <1>2, ReceivedLeft
<1>4. ~Has("method")' /\ ~Has("uri")'
  BY <1>2, <1>3 DEF Has, Rest
<1>5. Uris(p) = {}
  <2>1. \A i \in DOMAIN p : i \in DOMAIN inbox /\ p[i].text = inbox[i].text
    BY <1>1, <1>2, ReceivedPacket
  <2> QED
    BY <2>1 DEF Uris, Has, Rest
<1> QED
  BY <1>2, <1>4, <1>5 DEF UriAfter, Rest

LEMMA FreshInvStep ==
  ASSUME TypeInv, Sent, FreshInv, [Next]_vars
  PROVE  FreshInv'
<1> SUFFICES ASSUME Serving'
             PROVE  FreshInv'
  BY DEF FreshInv
<1>1. ASSUME NEW a \in Asks, Send(a)
      PROVE  FreshInv'
  <2>1. PICK r \in Request : r = [num |-> nreq + 1, ask |-> a]
    <3>1. [num |-> nreq + 1, ask |-> a] \in Request
      BY SessionAssumption DEF TypeInv, TypeOK, ConnType, Request
    <3> QED
      BY <3>1
  <2>2. /\ UNCHANGED <<method, uri, cseq, pc, torn>> /\ fresh' = quiet /\ ~quiet'
        /\ inbox' = inbox \o PiecesOf(r)
    BY <1>1, <2>1 DEF Send, parse
  <2>3. PiecesOf(r) \in Seq(Piece)
    BY <2>1, PiecesOfType
  <2>4. r.num \notin torn
    BY <2>1 DEF Sent, TypeInv, TypeOK, ConnType
  <2>5. quiet => Unread(r)'
    BY <2>2, <2>3, <2>4 DEF FreshInv, Unread, Serving
  <2> QED
    BY <2>2, <2>5 DEF FreshInv
<1>2. ASSUME NEW k \in Sizes, NEW end \in Endings, Receive(k, end)
      PROVE  FreshInv'
  <2>1. Serving /\ UNCHANGED <<quiet, fresh>> /\ inbox # <<>>
    <3>1. k \in 1..Len(inbox)
      BY DEF Sizes
    <3> QED
      BY <1>2, <3>1 DEF Receive, Serving
  <2>2. Rest => Rest'
    BY <1>2, RestStays
  <2>3. \A r \in Request : Unread(r) \/ Taken(r) => Taken(r)'
    BY <1>2, TakenFirst, TakenOn
  <2> QED
    BY <2>1, <2>2, <2>3 DEF FreshInv
<1>3. CASE Answered
  <2>1. PICK code \in Codes : Answer(code)
    BY <1>3 DEF Answered
  <2>2. /\ Wash /\ Serving /\ uri # None /\ inbox' = inbox
        /\ quiet' = (inbox = <<>>) /\ fresh' = fresh
    BY <1>3, <2>1 DEF Answered, Answer, Serving, TypeInv, Dispatched
  <2>3. fresh => ~Has("method") /\ ~Has("uri")
    BY <2>2 DEF FreshInv, Rest, Unread, Taken, Has
  <2> QED
    BY <2>2, <2>3 DEF FreshInv, Wash, Rest, Has
<1>4. CASE Close
  BY <1>4 DEF Close, FreshInv, parse, ghost, Serving, Rest, Unread, Taken, Own, Whole, Has
<1>5. CASE UNCHANGED <<conn, parse, reply, ghost>> /\ (Serving' => Serving)
  BY <1>5 DEF FreshInv, conn, parse, ghost, Rest, Unread, Taken, Own, Whole, Has
<1> QED
  BY <1>1, <1>2, <1>3, <1>4, <1>5, Steps DEF ConnStep, Receiving

(* A request that is alone on the connection is answered as itself         *)
(* wherever it is cut, or, if that tore it, at most refused.               *)
THEOREM AnswersItsRequest == Spec => []ReplyAnswersItsRequest
<1>1. Init => Sent /\ FreshInv /\ ReplyAnswersItsRequest
  BY DEF Init, Sent, FreshInv, ReplyAnswersItsRequest
<1>2. TypeInv /\ Sent /\ FreshInv /\ [Next]_vars => Sent' /\ FreshInv'
  BY SentStep, FreshInvStep
<1>3. TypeInv /\ Sent /\ FreshInv /\ ReplyAnswersItsRequest /\ [Next]_vars =>
        ReplyAnswersItsRequest'
  <2> SUFFICES ASSUME TypeInv, FreshInv, ReplyAnswersItsRequest, [Next]_vars
               PROVE  ReplyAnswersItsRequest'
    OBVIOUS
  <2>1. CASE reply' = reply
    <3>1. torn \subseteq torn'
      BY Steps DEF ConnStep, Send, Close, Receiving, Receive, Answered, Answer, ghost
    <3> QED
      BY <2>1, <3>1 DEF ReplyAnswersItsRequest
  <2>2. CASE Answered
    <3>1. PICK code \in Codes : Answer(code)
      BY <2>2 DEF Answered
    <3>2. /\ Serving /\ uri # None /\ cseq # None /\ torn' = torn
          /\ reply' = [code |-> code, by |-> method, uri |-> uri, req |-> cseq.req,
                       quotes |-> IF code = 400 THEN "nothing" ELSE cseq.part,
                       fresh |-> fresh]
      BY <2>2, <3>1 DEF Answered, Answer, Serving, TypeInv, Dispatched
    <3>3. ASSUME fresh
          PROVE  LET ask == cseq.req.ask
                 IN  /\ method \in {HandlerOf(ask.method), "notSupported", "BAD"}
                     /\ uri \in {ask.uri} \cup Beginnings[ask.uri]
                     /\ cseq.req.num \notin torn =>
                          /\ method = HandlerOf(ask.method) /\ uri = ask.uri
                          /\ cseq.part = "whole"
      <4>1. PICK r \in Request : Taken(r)
        BY <3>2, <3>3 DEF FreshInv, Rest, Unread
      <4> QED
        BY <3>2, <4>1 DEF Taken, Own, Whole
    <3> QED
      BY <3>2, <3>3 DEF ReplyAnswersItsRequest
  <2> QED
    BY <2>1, <2>2, Steps DEF ConnStep, Send, Close, Receiving, Receive
<1> QED
  BY <1>1, <1>2, <1>3, TypeInvAlways, PTL DEF Spec

----------------------------------------------------------------------------
(* From sending to answer.  A request with all a reply needs is coming: up *)
(* to its CSeq header the buffer holds nothing but its pieces, and the URI *)
(* and the version are read or among them; l counts what is before the     *)
(* CSeq, a text that has been cut for less than a whole one.  Or it is     *)
(* complete.                                                               *)
Heading(n, j) ==
  /\ j \in DOMAIN inbox /\ inbox[j].text = "cseq" /\ inbox[j].req.ask.cseq
  /\ \A i \in 1..j : inbox[i].req.num = n
  /\ \A i \in 1..(j - 1) : inbox[i].text # "cseq"
  /\ uri # None \/ \E i \in 1..(j - 1) : inbox[i].text = "uri" /\ inbox[i].req.ask.uri # None
  /\ version \/ \E i \in 1..(j - 1) : inbox[i].text = "version" /\ inbox[i].req.ask.version
Coming(n, l) ==
  /\ pc = "recv" /\ cseq = None /\ n \notin torn
  /\ \E j \in Nat : /\ Heading(n, j)
                    /\ l = IF inbox[1].text = "tail" THEN 2 * j - 1 ELSE 2 * j
Complete(n) == pc = "dispatch" /\ cseq.req.num = n

(* A request that waits in an empty session is coming: none of the fields  *)
(* is left over from an earlier one (wash_client).                         *)
WaitingIsComing ==
  \A n \in 1..MaxRequests : Waiting(n) /\ Serving => \E l \in Nat : Coming(n, l)

(* Each step of the session thread takes such a request on: nearer to its  *)
(* CSeq, to complete, and from there to its answer, if it does not tear    *)
(* the request or end the session; what the client does or sends meanwhile *)
(* undoes nothing of it (RTSP_Session.c:25-54, RTSP_Session_tools.c:15-108).*)
RequestGoesOn ==
  [][ \A n \in 1..MaxRequests :
        /\ \A l \in Nat : Coming(n, l) =>
             IF Session
             THEN n \in torn' \/ Complete(n)' \/ \E m \in 0..(l - 1) : Coming(n, m)'
             ELSE Coming(n, l)'
        /\ Complete(n) =>
             IF Session THEN (reply' # None /\ reply'.req.num = n) \/ ~Serving'
             ELSE Complete(n)' ]_vars

(* A handler answers, or ends the session.                                 *)
LEMMA Replied ==
  ASSUME Handle
  PROVE  \/ ~Serving'
         \/ \E code \in Codes : Answer(code)
<1>1. CASE Reject
  BY <1>1 DEF Reject, Codes
<1>2. CASE Describe
  BY <1>2 DEF Describe, DescribeMedia, DescribeOther, Codes
<1>3. CASE DescribeNothing \/ SetupNoMedia \/ SetupNoPort \/ PlayFails \/ BrokenPipe
  BY <1>3 DEF DescribeNothing, SetupNoMedia, SetupNoPort, PlayFails, BrokenPipe, Crash, Serving
<1>4. CASE RefuseSetup \/ SetupNotFound
  BY <1>4 DEF RefuseSetup, SetupNotFound, Codes
<1>5. CASE SetupTrack
  BY <1>5 DEF SetupTrack, Codes
<1>6. CASE RefusePlay \/ PlayStreams
  BY <1>6 DEF RefusePlay, PlayStreams, Codes
<1>7. CASE Teardown
  BY <1>7 DEF Teardown, Codes
<1> QED
  BY <1>1, <1>2, <1>3, <1>4, <1>5, <1>6, <1>7 DEF Handle, Setup, Play

(* What a packet gives that holds the URI, the version and the CSeq.       *)
LEMMA UriTaken ==
  ASSUME NEW p \in Seq(Piece), uri = None, NEW i \in DOMAIN p,
         p[i].text = "uri", p[i].req.ask.uri # None, NEW u \in UriAfter(p)
  PROVE  u # None
<1>1. i \in Uris(p)
  BY DEF Uris
<1>2. PICK j \in Least(Uris(p)) : u \in UriOf(p[j])
  BY <1>1 DEF UriAfter
<1>3. p[j] \in Piece /\ p[j].req.ask.uri \in Files \cup {Bare}
  <2>1. j \in DOMAIN p /\ p[j].req.ask.uri # None
    BY <1>2 DEF Least, Uris
  <2>2. p[j] \in Piece /\ p[j].req.ask \in Ask
    BY <2>1, PiecesIn, PieceFields
  <2> QED
    BY <2>1, <2>2 DEF Ask
<1> QED
  BY <1>2, <1>3, SessionAssumption DEF UriOf

LEMMA CSeqTaken ==
  ASSUME NEW p \in Seq(Piece), cseq = None, NEW j \in DOMAIN p,
         p[j].text = "cseq", p[j].req.ask.cseq,
         \A i \in 1..(j - 1) : p[i].text # "cseq"
  PROVE  CSeqAfter(p) = {p[j]}
<1>1. j \in CSeqs(p) /\ \A i \in CSeqs(p) : i \in Nat /\ j <= i
  BY DEF CSeqs
<1>2. Least(CSeqs(p)) = {j}
  BY <1>1 DEF Least
<1> QED
  BY <1>1, <1>2 DEF CSeqAfter

(* A recv() that ends before the CSeq leaves the request coming, or tears  *)
(* it.                                                                     *)
LEMMA RequestComes ==
  ASSUME TypeInv, NEW n, NEW j \in Nat, Heading(n, j), cseq = None,
         NEW k \in Sizes, NEW end \in Endings, Receive(k, end), k < j,
         NEW t, t = Taking(k, end)
  PROVE  \/ n \in torn'
         \/ /\ pc' = "recv" /\ cseq' = None
            /\ Heading(n, j - t)'
            /\ \/ t > 0
               \/ inbox'[1].text = "tail" /\ inbox[1].text # "tail"
<1>p. PICK p, left : p = Packet(k, end) /\ left = Left(k, end)
  OBVIOUS
<1>1. /\ inbox \in Seq(Piece) /\ j \in DOMAIN inbox
      /\ inbox[j].text = "cseq" /\ inbox[j].req.ask.cseq
      /\ \A i \in 1..j : i \in DOMAIN inbox /\ inbox[i].req.num = n
      /\ \A i \in 1..(j - 1) : inbox[i].text # "cseq"
  BY DEF TypeInv, TypeOK, ConnType, Heading
<1>2. /\ k \in Nat \ {0} /\ t \in Nat /\ t <= k
      /\ t = IF end = "whole" THEN k ELSE k - 1
      /\ p \in Seq(Piece) /\ Len(p) = IF end = "lost" THEN k - 1 ELSE k
      /\ \A i \in DOMAIN p : /\ i \in DOMAIN inbox /\ i <= k
                             /\ p[i].text = inbox[i].text /\ p[i].req = inbox[i].req
  BY <1>1, <1>p, SizeType, ReceivedPacket, ReceivedLeft
<1>3. /\ inbox' \in Seq(Piece) /\ Len(inbox') = Len(inbox) - t
      /\ \A i \in DOMAIN inbox' :
           /\ i + t \in DOMAIN inbox
           /\ inbox'[i].req = inbox[i + t].req
           /\ i + t > k => inbox'[i] = inbox[i + t]
           /\ \/ inbox'[i] = inbox[i + t] /\ i + t > k
              \/ i = 1 /\ end # "whole" /\ inbox'[i].text = "tail"
  <2>1. inbox' = left
    BY <1>p DEF Receive
  <2>2. /\ left \in Seq(Piece) /\ Len(left) = Len(inbox) - t
        /\ \A i \in DOMAIN left :
             /\ i \in Nat \ {0} /\ i + t \in DOMAIN inbox
             /\ left[i].req = inbox[i + t].req /\ left[i].part = inbox[i + t].part
             /\ \/ left[i] = inbox[i + t] /\ i + t > k
                \/ i = 1 /\ end # "whole" /\ left[i].text = "tail"
    BY <1>1, <1>p, ReceivedLeft
  <2> QED
    BY <1>2, <2>1, <2>2
<1>4. /\ MayEnd(inbox[k], end) /\ uri' \in UriAfter(p)
      /\ version' = (version \/ VersionIn(p))
      /\ cseq' = cseq \/ cseq' \in CSeqAfter(p)
      /\ pc' = IF uri' # None /\ cseq' # None THEN "dispatch" ELSE "recv"
      /\ TornBy(k, end, version') \subseteq torn'
  BY <1>p DEF Receive, AuthenticationOK
<1>5. cseq' = None /\ pc' = "recv"
  <2>1. \A i \in DOMAIN p : i \in 1..(j - 1)
    BY <1>2, PiecesIn
  <2>2. CSeqs(p) = {}
    BY <1>1, <1>2, <2>1 DEF CSeqs
  <2> QED
    BY <1>4, <2>2 DEF CSeqAfter
<1>6. end # "whole" /\ inbox[k].text = "uri" => n \in torn'
  BY <1>1, <1>2, <1>4 DEF TornBy
<1>7. end # "whole" /\ inbox[k].text = "version" /\ ~version' => n \in torn'
  BY <1>1, <1>2, <1>4 DEF TornBy
<1>8. /\ j - t \in Nat \ {0} /\ j - t \in DOMAIN inbox' /\ inbox'[j - t] = inbox[j]
      /\ \A i \in 1..(j - t) : i \in DOMAIN inbox' /\ inbox'[i].req = inbox[i + t].req /\ i + t \in 1..j
      /\ \A i \in 1..(j - t - 1) : i + t \in 1..(j - 1)
      /\ \A i \in (k + 1)..(j - 1) : i - t \in 1..(j - t - 1) /\ inbox'[i - t] = inbox[i]
  <2>1. j - t \in Nat \ {0} /\ Len(inbox) \in Nat /\ j <= Len(inbox)
    BY <1>1, <1>2
  <2>2. \A i \in 1..(j - t) : i \in DOMAIN inbox'
    <3>1. DOMAIN inbox' = 1..Len(inbox') /\ Len(inbox') = Len(inbox) - t
      BY <1>3
    <3>2. j - t <= Len(inbox) - t
      BY <1>2, <2>1
    <3> QED
      BY <1>2, <2>1, <3>1, <3>2
  <2>3. \A i \in 1..(j - t) : i \in DOMAIN inbox' /\ inbox'[i].req = inbox[i + t].req /\ i + t \in 1..j
    <3>1. \A i \in 1..(j - t) : i + t \in 1..j
      BY <1>2, <2>1
    <3>2. \A i \in 1..(j - t) : inbox'[i].req = inbox[i + t].req
      BY <1>3, <2>2
    <3> QED
      BY <2>2, <3>1, <3>2
  <2>4. \A i \in 1..(j - t - 1) : i + t \in 1..(j - 1)
    BY <1>2, <2>1
  <2>5. (j - t) + t = j /\ j - t \in 1..(j - t)
    BY <1>2, <2>1
  <2>6. inbox'[j - t] = inbox[j]
    BY <1>3, <2>2, <2>5
  <2>7. ASSUME NEW i \in (k + 1)..(j - 1)
        PROVE  i - t \in 1..(j - t - 1) /\ inbox'[i - t] = inbox[i]
    <3>1. i - t \in 1..(j - t - 1) /\ i - t \in 1..(j - t) /\ (i - t) + t = i /\ i > k
      BY <1>2, <2>1
    <3> QED
      BY <1>3, <2>2, <3>1
  <2> QED
    BY <2>1, <2>2, <2>3, <2>4, <2>5, <2>6, <2>7
<1>9. \A i \in 1..(j - t - 1) : inbox'[i].text # "cseq"
  <2> SUFFICES ASSUME NEW i \in 1..(j - t - 1) PROVE inbox'[i].text # "cseq"
    OBVIOUS
  <2>1. i \in DOMAIN inbox' /\ inbox[i + t].text # "cseq"
    BY <1>1, <1>8
  <2> QED
    BY <1>3, <2>1
<1>10. \A i \in 1..k : i < k \/ end # "lost" =>
         i \in DOMAIN p /\ p[i].text = inbox[i].text /\ p[i].req = inbox[i].req
  BY <1>2
<1>11. \/ n \in torn' \/ uri' # None
       \/ \E i \in 1..(j - t - 1) : inbox'[i].text = "uri" /\ inbox'[i].req.ask.uri # None
  <2>1. CASE uri # None
    BY <1>4, <2>1 DEF UriAfter
  <2>2. CASE uri = None
    <3>1. PICK i \in 1..(j - 1) : inbox[i].text = "uri" /\ inbox[i].req.ask.uri # None
      BY <2>2 DEF Heading
    <3>2. CASE i > k
      <4>1. i \in (k + 1)..(j - 1)
        BY <1>2, <3>2
      <4> QED
        BY <1>8, <3>1, <4>1
    <3>3. CASE i = k /\ end = "lost"
      BY <1>6, <3>1, <3>3
    <3>4. CASE i <= k /\ ~(i = k /\ end = "lost")
      <4>1. i \in DOMAIN p /\ p[i].text = "uri" /\ p[i].req.ask.uri # None
        BY <1>2, <1>10, <3>1, <3>4
      <4> QED
        BY <1>2, <1>4, <2>2, <4>1, UriTaken
    <3> QED
      BY <1>2, <3>2, <3>3, <3>4
  <2> QED
    BY <2>1, <2>2
<1>12. \/ n \in torn' \/ version'
       \/ \E i \in 1..(j - t - 1) : inbox'[i].text = "version" /\ inbox'[i].req.ask.version
  <2>1. CASE version
    BY <1>4, <2>1
  <2>2. CASE ~version
    <3>1. PICK i \in 1..(j - 1) : inbox[i].text = "version" /\ inbox[i].req.ask.version
      BY <2>2 DEF Heading
    <3>2. CASE i > k
      <4>1. i \in (k + 1)..(j - 1)
        BY <1>2, <3>2
      <4> QED
        BY <1>8, <3>1, <4>1
    <3>3. CASE i = k /\ end = "lost"
      BY <1>7, <3>1, <3>3
    <3>4. CASE i <= k /\ ~(i = k /\ end = "lost")
      <4>1. i \in DOMAIN p /\ p[i].text = "version" /\ p[i].req.ask.version
        BY <1>2, <1>10, <3>1, <3>4
      <4> QED
        BY <1>4, <4>1 DEF VersionIn
    <3> QED
      BY <1>2, <3>2, <3>3, <3>4
  <2> QED
    BY <2>1, <2>2
<1>13. t > 0 \/ (inbox'[1].text = "tail" /\ inbox[1].text # "tail")
  <2>1. CASE t = 0
    <3>1. k = 1 /\ end # "whole"
      BY <1>2, <2>1
    <3>2. inbox[1].text # "tail"
      BY <1>4, <3>1 DEF MayEnd
    <3>3. inbox'[1].text = "tail"
      <4>1. 1 \in DOMAIN inbox'
        BY <1>8
      <4>2. \/ inbox'[1] = inbox[1 + t] /\ 1 + t > k
            \/ inbox'[1].text = "tail"
        BY <1>3, <4>1
      <4> QED
        BY <2>1, <3>1, <4>2
    <3> QED
      BY <3>2, <3>3
  <2> QED
    BY <1>2, <2>1
<1>14. ASSUME n \notin torn'
       PROVE  Heading(n, j - t)'
  <2>1. /\ j - t \in DOMAIN inbox' /\ inbox'[j - t].text = "cseq"
        /\ inbox'[j - t].req.ask.cseq
    BY <1>1, <1>8
  <2>2. \A i \in 1..(j - t) : inbox'[i].req.num = n
    BY <1>1, <1>8
  <2> QED
    BY <1>9, <1>11, <1>12, <1>14, <2>1, <2>2 DEF Heading
<1> QED
  BY <1>5, <1>13, <1>14

(* A recv() that takes the CSeq completes the request, or tears it.        *)
LEMMA RequestCompletes ==
  ASSUME TypeInv, NEW n, NEW j \in Nat, Heading(n, j), cseq = None,
         NEW k \in Sizes, NEW end \in Endings, Receive(k, end), ~(k < j)
  PROVE  n \in torn' \/ Complete(n)'
<1>p. PICK p : p = Packet(k, end)
  OBVIOUS
<1>1. /\ inbox \in Seq(Piece) /\ j \in DOMAIN inbox
      /\ inbox[j].text = "cseq" /\ inbox[j].req.ask.cseq
      /\ \A i \in 1..j : i \in DOMAIN inbox /\ inbox[i].req.num = n
      /\ \A i \in 1..(j - 1) : inbox[i].text # "cseq"
  BY DEF TypeInv, TypeOK, ConnType, Heading
<1>2. /\ k \in Nat \ {0} /\ k >= j /\ j \in Nat \ {0}
      /\ p \in Seq(Piece) /\ Len(p) = IF end = "lost" THEN k - 1 ELSE k
      /\ \A i \in DOMAIN p : p[i].text = inbox[i].text /\ p[i].req = inbox[i].req
  BY <1>1, <1>p, SizeType, ReceivedPacket, ReceivedLeft
<1>3. /\ uri' \in UriAfter(p) /\ version' = (version \/ VersionIn(p))
      /\ version' => cseq' \in CSeqAfter(p)
      /\ pc' = IF uri' # None /\ cseq' # None THEN "dispatch" ELSE "recv"
      /\ TornBy(k, end, version') \subseteq torn'
  BY <1>p DEF Receive, AuthenticationOK
<1>4. CASE k = j /\ end # "whole"
  <2>1. inbox[k].req.num \in TornBy(k, end, version')
    BY <1>1, <1>4 DEF TornBy
  <2> QED
    BY <1>1, <1>2, <1>3, <1>4, <2>1
<1>5. CASE ~(k = j /\ end # "whole")
  <2>1. \A i \in 1..j : i \in DOMAIN p /\ p[i].text = inbox[i].text /\ p[i].req = inbox[i].req
    BY <1>2, <1>5
  <2>2. uri' # None
    <3>1. CASE uri # None
      BY <1>3, <3>1 DEF UriAfter
    <3>2. CASE uri = None
      <4>1. PICK i \in 1..(j - 1) : inbox[i].text = "uri" /\ inbox[i].req.ask.uri # None
        BY <3>2 DEF Heading
      <4>2. i \in 1..j
        BY <1>2
      <4> QED
        BY <1>2, <1>3, <2>1, <3>2, <4>1, <4>2, UriTaken
    <3> QED
      BY <3>1, <3>2
  <2>3. version'
    <3>1. CASE ~version
      <4>1. PICK i \in 1..(j - 1) : inbox[i].text = "version" /\ inbox[i].req.ask.version
        BY <3>1 DEF Heading
      <4>2. i \in 1..j
        BY <1>2
      <4> QED
        BY <1>3, <2>1, <4>1, <4>2 DEF VersionIn
    <3> QED
      BY <1>3, <3>1
  <2>4. cseq' = p[j]
    <3>1. \A i \in 1..(j - 1) : i \in 1..j
      BY <1>2
    <3>2. j \in 1..j
      BY <1>2
    <3>3. \A i \in 1..(j - 1) : p[i].text # "cseq"
      BY <1>1, <2>1, <3>1
    <3>4. CSeqAfter(p) = {p[j]}
      BY <1>1, <1>2, <2>1, <3>2, <3>3, CSeqTaken
    <3> QED
      BY <1>3, <2>3, <3>4
  <2>5. j \in DOMAIN p /\ p[j] \in Piece /\ p[j].req.num = n
    BY <1>1, <1>2, <2>1
  <2>6. cseq' # None
    BY <2>4, <2>5, SessionAssumption
  <2> QED
    BY <1>3, <2>2, <2>4, <2>5, <2>6 DEF Complete
<1> QED
  BY <1>4, <1>5

(* A step that is not the session's leaves the request and the head of the *)
(* buffer alone.                                                           *)
LEMMA OthersLeave ==
  ASSUME TypeInv, [Next]_vars, ~Session
  PROVE  /\ UNCHANGED <<method, uri, version, cseq, pc, torn>>
         /\ Len(inbox') >= Len(inbox)
         /\ \A i \in 1..Len(inbox) : inbox'[i] = inbox[i]
<1>1. inbox \in Seq(Piece)
  BY DEF TypeInv, TypeOK, ConnType
<1>2. ASSUME NEW a \in Asks, Send(a)
      PROVE  /\ UNCHANGED <<method, uri, version, cseq, pc, torn>>
             /\ Len(inbox') >= Len(inbox)
             /\ \A i \in 1..Len(inbox) : inbox'[i] = inbox[i]
  <2>1. PICK r \in Request : inbox' = inbox \o PiecesOf(r)
    <3>1. [num |-> nreq + 1, ask |-> a] \in Request
      BY SessionAssumption DEF TypeInv, TypeOK, ConnType, Request
    <3> QED
      BY <1>2, <3>1 DEF Send
  <2>2. PiecesOf(r) \in Seq(Piece)
    BY PiecesOfType
  <2>3. UNCHANGED <<method, uri, version, cseq, pc, torn>>
    BY <1>2 DEF Send, parse
  <2> QED
    BY <1>1, <2>1, <2>2, <2>3
<1>3. CASE Close \/ UNCHANGED vars
  BY <1>1, <1>3 DEF Close, vars, conn, parse, ghost
<1> QED
  BY <1>2, <1>3 DEF Next

(* A well-formed request that came to an empty buffer is taken in, and     *)
(* answered, in at most nine steps of the session thread, wherever recv()  *)
(* cuts it and whatever is sent behind it, if no cut tears it: all of      *)
(* FreshRequestIsAnswered but that the thread is scheduled.                *)
THEOREM RequestsGoOn == Spec => []WaitingIsComing /\ RequestGoesOn
<1> DEFINE goes ==
      \A n \in 1..MaxRequests :
        /\ \A l \in Nat : Coming(n, l) =>
             IF Session
             THEN n \in torn' \/ Complete(n)' \/ \E m \in 0..(l - 1) : Coming(n, m)'
             ELSE Coming(n, l)'
        /\ Complete(n) =>
             IF Session THEN (reply' # None /\ reply'.req.num = n) \/ ~Serving'
             ELSE Complete(n)'
<1>1. Init => Sent /\ FreshInv
  BY DEF Init, Sent, FreshInv
<1>2. TypeInv /\ Sent /\ FreshInv /\ [Next]_vars => Sent' /\ FreshInv'
  BY SentStep, FreshInvStep
<1>3. TypeInv /\ FreshInv => WaitingIsComing
  <2> SUFFICES ASSUME TypeInv, FreshInv, NEW n \in 1..MaxRequests, Waiting(n), Serving
               PROVE  \E l \in Nat : Coming(n, l)
    BY DEF WaitingIsComing
  <2>1. inbox # <<>> /\ inbox \in Seq(Piece) /\ 1 \in DOMAIN inbox
    BY DEF Waiting, TypeInv, TypeOK, ConnType
  <2>2. PICK r \in Request : Unread(r)
    BY <2>1 DEF FreshInv, Waiting, Rest, Taken, Has
  <2>3. /\ Len(inbox) \in {5, 7}
        /\ \A i \in DOMAIN inbox :
             /\ inbox[i].req = r /\ inbox[i].text # "tail"
             /\ inbox[i].text = "uri" <=> i = 2
             /\ inbox[i].text = "version" <=> i = 3
             /\ inbox[i].text = "cseq" <=> i = 4
    BY <2>2, PiecesOfType DEF Unread
  <2>4. 1..4 \subseteq DOMAIN inbox
    BY <2>1, <2>3
  <2>5. /\ r.num = n /\ r.ask.cseq /\ r.ask.uri # None /\ (r.ask.version \/ version)
    BY <2>1, <2>3 DEF Waiting
  <2>6. pc = "recv" /\ cseq = None /\ n \notin torn
    BY <2>2, <2>5 DEF Unread, Serving, TypeInv, Dispatched
  <2>7. Heading(n, 4)
    <3>1. inbox[2].text = "uri" /\ inbox[2].req = r /\ inbox[3].text = "version" /\ inbox[3].req = r
      BY <2>3, <2>4
    <3>2. \A i \in 1..3 : inbox[i].text # "cseq"
      BY <2>3, <2>4
    <3>3. 4 \in DOMAIN inbox /\ inbox[4].text = "cseq" /\ inbox[4].req = r
      BY <2>3, <2>4
    <3>4. \A i \in 1..4 : inbox[i].req = r
      BY <2>3, <2>4
    <3> QED
      BY <2>5, <3>1, <3>2, <3>3, <3>4 DEF Heading
  <2>8. inbox[1].text # "tail"
    BY <2>1, <2>3
  <2>9. Coming(n, 8)
    BY <2>6, <2>7, <2>8 DEF Coming
  <2> QED
    BY <2>9
<1>4. TypeInv /\ [Next]_vars => goes
  <2> SUFFICES ASSUME TypeInv, [Next]_vars, NEW n \in 1..MaxRequests
               PROVE
        /\ \A l \in Nat : Coming(n, l) =>
             IF Session
             THEN n \in torn' \/ Complete(n)' \/ \E m \in 0..(l - 1) : Coming(n, m)'
             ELSE Coming(n, l)'
        /\ Complete(n) =>
             IF Session THEN (reply' # None /\ reply'.req.num = n) \/ ~Serving'
             ELSE Complete(n)'
    OBVIOUS
  <2>1. inbox \in Seq(Piece)
    BY DEF TypeInv, TypeOK, ConnType
  <2>2. ASSUME ~Session, NEW l \in Nat, Coming(n, l)
        PROVE  Coming(n, l)'
    <3>1. /\ UNCHANGED <<uri, version, cseq, pc, torn>>
          /\ Len(inbox') >= Len(inbox) /\ inbox' \in Seq(Piece)
          /\ \A i \in 1..Len(inbox) : inbox'[i] = inbox[i]
      BY <2>2, OthersLeave, TypeInvStep DEF TypeInv, TypeOK, ConnType
    <3>2. PICK j \in Nat : /\ Heading(n, j)
                           /\ l = IF inbox[1].text = "tail" THEN 2 * j - 1 ELSE 2 * j
      BY <2>2 DEF Coming
    <3>3. /\ j \in DOMAIN inbox /\ j \in 1..Len(inbox) /\ j \in DOMAIN inbox'
          /\ \A i \in 1..j : inbox'[i] = inbox[i]
      BY <2>1, <3>1, <3>2 DEF Heading
    <3>4. /\ inbox'[1] = inbox[1] /\ inbox'[j] = inbox[j]
          /\ \A i \in 1..(j - 1) : inbox'[i] = inbox[i]
      BY <3>3
    <3>5. Heading(n, j)'
      BY <3>1, <3>2, <3>3, <3>4 DEF Heading
    <3> QED
      BY <2>2, <3>1, <3>2, <3>4, <3>5 DEF Coming
  <2>3. ASSUME ~Session, Complete(n)
        PROVE  Complete(n)'
    BY <2>3, OthersLeave DEF Complete
  <2>4. ASSUME Session, NEW l \in Nat, Coming(n, l)
        PROVE  n \in torn' \/ Complete(n)' \/ \E m \in 0..(l - 1) : Coming(n, m)'
    <3>1. pc = "recv" /\ cseq = None
      BY <2>4 DEF Coming
    <3>2. PICK j \in Nat : /\ Heading(n, j)
                           /\ l = IF inbox[1].text = "tail" THEN 2 * j - 1 ELSE 2 * j
      BY <2>4 DEF Coming
    <3>3. inbox # <<>> /\ j > 0
      BY <2>1, <3>2 DEF Heading
    <3>4. Receiving
      BY <2>4, <3>1, <3>3 DEF Session, Receiving, Handle, Reject, Describe,
         DescribeNothing, Setup, RefuseSetup, SetupNotFound, DrawSession,
         SetupNoMedia, SetupNoPort, SetupTrack, Play, RefusePlay, PlayStreams,
         PlayFails, Teardown, BrokenPipe, Handling, Disconnect, Stop
    <3>5. PICK k \in Sizes, end \in Endings : Receive(k, end)
      BY <3>4 DEF Receiving
    <3>6. CASE ~(k < j)
      BY <3>1, <3>2, <3>5, <3>6, RequestCompletes
    <3>7. CASE k < j
      <4>1. ASSUME n \notin torn'
            PROVE  \E m \in 0..(l - 1) : Coming(n, m)'
        <5>1. PICK t \in Nat :
                /\ t <= k /\ pc' = "recv" /\ cseq' = None /\ Heading(n, j - t)'
                /\ t > 0 \/ (inbox'[1].text = "tail" /\ inbox[1].text # "tail")
          <6>1. PICK t : t = Taking(k, end) /\ t \in Nat /\ t <= k
            BY <2>1, SizeType, ReceivedPacket, ReceivedLeft
          <6> QED
            BY <3>1, <3>2, <3>5, <3>7, <4>1, <6>1, RequestComes
        <5>2. PICK m : m = IF inbox'[1].text = "tail" THEN 2 * (j - t) - 1 ELSE 2 * (j - t)
          OBVIOUS
        <5>3. k \in Nat
          BY DEF Sizes
        <5>4. j - t \in Nat \ {0} /\ j - t <= j /\ (t > 0 => j - t <= j - 1)
          BY <3>7, <5>1, <5>3
        <5>5. m \in 0..(l - 1)
          BY <3>2, <5>1, <5>2, <5>4
        <5>6. Coming(n, m)'
          BY <4>1, <5>1, <5>2, <5>4 DEF Coming
        <5> QED
          BY <5>5, <5>6
      <4> QED
        BY <4>1
    <3> QED
      BY <3>6, <3>7
  <2>5. ASSUME Session, Complete(n)
        PROVE  (reply' # None /\ reply'.req.num = n) \/ ~Serving'
    <3>1. pc = "dispatch" /\ cseq.req.num = n
      BY <2>5 DEF Complete
    <3>2. Handle
      BY <2>5, <3>1 DEF Session, Receive, Disconnect, Stop
    <3>3. ASSUME NEW code \in Codes, Answer(code)
          PROVE  reply' # None /\ reply'.req.num = n
      BY <3>1, <3>3, AnswerType
    <3> QED
      BY <3>2, <3>3, Replied
  <2> QED
    BY <2>2, <2>3, <2>4, <2>5
<1> QED
  BY <1>1, <1>2, <1>3, <1>4, TypeInvAlways, PTL DEF Spec, RequestGoesOn

----------------------------------------------------------------------------
(* The session implements SessionLifecycle.                                *)

(* Every running stream was started by a request answered already: what    *)
(* PLAY starts is new.                                                     *)
Older == \A s \in live : reply # None /\ s[2] <= reply.req.num

LEMMA OlderStep ==
  ASSUME TypeInv, InOrder, Older, [Next]_vars
  PROVE  Older'
<1>1. ASSUME Answered
      PROVE  /\ cseq # None /\ cseq.req.num \in Nat /\ reply'.req = cseq.req
             /\ reply # None => reply.req.num < cseq.req.num /\ reply.req.num \in Nat
  BY <1>1, NumType DEF Answered, Answer, TypeInv, Dispatched, InOrder, Serving
<1>2. Answered \/ reply' = reply
  BY Steps DEF ConnStep, Send, Close, Receiving, Receive
<1>3. live \subseteq Track \X Nat
  BY DEF TypeInv, TypeOK, ClientType
<1>4. CASE live' \subseteq live
  <2>1. CASE Answered
    <3>1. reply' # None
      BY <2>1, AnswerType DEF Answered
    <3> QED
      BY <1>1, <1>3, <1>4, <2>1, <3>1 DEF Older
  <2> QED
    BY <1>2, <1>4, <2>1 DEF Older
<1>5. CASE PlayStreams
  <2>1. Answer(200) /\ live' \subseteq live \cup (Track \X {cseq.req.num})
    <3>1. TracksOf(loading) \subseteq Track
      BY TracksType DEF TypeInv, TypeOK, ClientType
    <3> QED
      BY <1>5, <3>1 DEF PlayStreams, StartStreams
  <2>2. Answered
    BY <1>5 DEF PlayStreams, Handling, Answered, Codes
  <2>4. reply' # None
    BY <2>2, AnswerType DEF Answered
  <2>5. ASSUME NEW s \in live' PROVE s[2] <= reply'.req.num
    <3>1. s \in live \/ s[2] = cseq.req.num
      BY <2>1
    <3> QED
      BY <1>1, <1>3, <2>2, <3>1 DEF Older
  <2> QED
    BY <2>4, <2>5 DEF Older
<1>6. Describe \/ SetupNotFound \/ SetupTrack \/ Release \/ Untouched => live' \subseteq live
  BY DEF Describe, SetupNotFound, SetupTrack, Release, Untouched, streams
<1> QED
  BY <1>4, <1>5, <1>6, Steps DEF ClientStep

LEMMA Invariants == Spec => [](TypeInv /\ SessionInv /\ InOrder /\ Older)
<1>1. Init => InOrder /\ Older
  BY DEF Init, InOrder, Older, CSeqs
<1>2. TypeInv /\ InOrder /\ [Next]_vars => InOrder'
  BY InOrderStep
<1>3. TypeInv /\ InOrder /\ Older /\ [Next]_vars => Older'
  BY OlderStep
<1> QED
  BY <1>1, <1>2, <1>3, SessionInvAlways, PTL DEF Spec

----------------------------------------------------------------------------
(* The state functions the promise is about, in a step that changes little *)
(* of what they are made from.                                             *)

LEMMA SamePort ==
  ASSUME init' = init, dest' = dest
  PROVE  Port' = Port
BY DEF Port

LEMMA SameStream ==
  ASSUME live' = live, pc # "crashed", pc' # "crashed"
  PROVE  Stream' = Stream
BY DEF Stream

LEMMA StreamType ==
  ASSUME TypeInv
  PROVE  Stream \in [Track -> SUBSET Nat]
<1>1. \A s \in live : s[2] \in Nat
  BY DEF TypeInv, TypeOK, ClientType
<1> QED
  BY <1>1 DEF Stream

LEMMA MediumType ==
  ASSUME TypeInv
  PROVE  /\ Medium \subseteq Track
         /\ state # "Birth" => Medium = TracksOf(loading) /\ Medium # {}
BY TracksType DEF Medium, TypeInv, TypeOK, ClientType

LEMMA LifeDescribe ==
  ASSUME TypeInv, TypeInv', Describe
  PROVE  Lifecycle!Describe
<1>1. /\ pc = "dispatch" /\ pc' = "recv" /\ state' = "Init"
      /\ UNCHANGED <<init, dest, live, sid>>
  BY DEF Describe, Handling, Wash, streams
<1>2. Phase # "Over" /\ Phase' = "Init"
  BY <1>1 DEF Phase, Serving, TypeInv, TypeOK, ClientType
<1>3. Medium' \in (SUBSET Track) \ {{}}
  <2>1. Medium' \subseteq Track /\ Medium' # {}
    BY <1>1, TracksType DEF Medium, TypeInv, TypeOK, ClientType
  <2> QED
    BY <2>1
<1> QED
  BY <1>1, <1>2, <1>3, SamePort, SameStream DEF Lifecycle!Describe

LEMMA LifeDraw ==
  ASSUME TypeInv, TypeInv', pc = "dispatch", pc' = "recv",
         state = "Init", UNCHANGED <<state, loading, live>>, Port' = Port
  PROVE  Lifecycle!Draw
<1>1. Phase = "Init" /\ Phase' = "Init" /\ Medium' = Medium
  BY DEF Phase, Serving, Medium
<1>2. sid' \in Nat
  BY DEF TypeInv, TypeOK, ClientType
<1> QED
  BY <1>1, <1>2, SameStream DEF Lifecycle!Draw

LEMMA LifePrepare ==
  ASSUME TypeInv, TypeInv', SessionInv, SessionInv', SetupTrack
  PROVE  Lifecycle!Prepare \/ Lifecycle!Draw
<1> USE DEF TypeInv, TypeOK
<1>1. /\ pc = "dispatch" /\ pc' = "recv" /\ state = "Init"
      /\ UNCHANGED <<loading, live>> /\ Unset # {}
  BY DEF SetupTrack, DrawSession, SetupState, Handling, Wash, streams
<1>2. PICK i \in Least(Ports(income)), outcome \in {"ok", "noSocket", "noBind"} :
        /\ OpenTransport(NextTrack, income[i].req.num, outcome)
        /\ state' = IF outcome = "ok" /\ CheckParameters(init')
                    THEN "Ready" ELSE state
  BY DEF SetupTrack
<1> DEFINE m == NextTrack
           n == income[i].req.num
<1>3. m \in Track /\ m \in TracksOf(loading) /\ m \notin init
  BY <1>1, TracksType DEF NextTrack, Unset, TracksOf, Track, ClientType
<1>4. /\ dest' = [dest EXCEPT ![m] = n]
      /\ init' = IF outcome = "ok" THEN init \cup {m} ELSE init
  BY <1>2 DEF OpenTransport
<1>5. dest \in [Track -> Nat] /\ dest' \in [Track -> Nat] /\ sid' \in Nat
  BY DEF ClientType
<1> HIDE DEF m, n
<1>6. CASE outcome # "ok"
  <2>1. Port' = Port
    BY <1>3, <1>4, <1>5, <1>6 DEF Port
  <2> QED
    BY <1>1, <1>2, <1>6, <2>1, LifeDraw
<1>7. CASE outcome = "ok"
  <2>1. Medium = TracksOf(loading) /\ Medium' = Medium
    BY <1>1, <1>2 DEF Medium
  <2>2. Port[m] = 0 /\ Port'[m] = n /\ Port' = [Port EXCEPT ![m] = n]
    BY <1>3, <1>4, <1>5, <1>7 DEF Port
  <2>3. n \in Nat \ {0}
    BY <1>3, <1>4, <1>5, <1>7 DEF SessionInv, TransportAsGranted
  <2>4. \A t \in Track : Port'[t] # 0 <=> t \in init'
    BY DEF Port, SessionInv, TransportAsGranted
  <2>5. Phase' = IF \A t \in Medium : Port'[t] # 0 THEN "Ready" ELSE "Init"
    <3>1. Medium \subseteq Track
      BY MediumType
    <3>2. CheckParameters(init') <=> \A t \in Medium : Port'[t] # 0
      BY <2>1, <2>4, <3>1 DEF CheckParameters
    <3> QED
      BY <1>1, <1>2, <1>7, <3>2 DEF Phase, Serving
  <2>6. Phase = "Init"
    BY <1>1 DEF Phase, Serving
  <2>7. Stream' = Stream
    BY <1>1, SameStream
  <2> QED
    BY <1>3, <1>5, <2>1, <2>2, <2>3, <2>5, <2>6, <2>7 DEF Lifecycle!Prepare
<1> QED
  BY <1>6, <1>7

LEMMA LifePlay ==
  ASSUME TypeInv, TypeInv', SessionInv, InOrder, Older, PlayStreams
  PROVE  Lifecycle!Play
<1>1. /\ pc = "dispatch" /\ pc' = "recv" /\ state = "Ready" /\ state' = "Playing"
      /\ UNCHANGED <<loading, init, dest, sid>>
  BY DEF PlayStreams, Handling, Wash, media
<1>2. cseq # None /\ cseq.req.num \in Nat
  BY <1>1, NumType DEF TypeInv, Dispatched
<1> DEFINE T == TracksOf(loading)
           n == cseq.req.num
<1>3. /\ live' = (live \ {<<m, tid[m]>> : m \in T}) \cup (T \X {n})
      /\ live \subseteq Track \X Nat /\ T \subseteq Track
  BY MediumType, <1>1 DEF PlayStreams, StartStreams, TypeInv, TypeOK, ClientType, Medium
<1>4. \A s \in live : s = <<s[1], tid[s[1]]>> /\ s[2] < n
  <2>1. \A s \in live : s = <<s[1], s[2]>> /\ s[2] = tid[s[1]]
    BY <1>3 DEF SessionInv, StreamsNamed
  <2>2. reply # None => reply.req.num \in Nat /\ reply.req.num < n
    BY <1>1, <1>2, NumType DEF InOrder, Serving
  <2> QED
    BY <1>2, <1>3, <2>1, <2>2 DEF Older
<1> HIDE DEF n, T
<1>5. ASSUME NEW m \in T
      PROVE  Stream'[m] = {n} /\ n \notin Stream[m]
  <2>1. m \in Track
    BY <1>3
  <2>2. {t \in live' : t[1] = m} = {<<m, n>>}
    BY <1>3, <1>4
  <2>3. Stream'[m] = {n}
    <3>1. Stream'[m] = {s[2] : s \in {t \in live' : t[1] = m}}
      BY <1>1, <2>1 DEF Stream
    <3>2. {s[2] : s \in {<<m, n>>}} = {n}
      OBVIOUS
    <3> QED
      BY <2>2, <3>1, <3>2
  <2>4. n \notin Stream[m]
    BY <1>1, <1>2, <1>3, <1>4, <2>1 DEF Stream, n
  <2> QED
    BY <2>3, <2>4
<1>6. ASSUME NEW m \in Track \ T
      PROVE  Stream'[m] = Stream[m]
  <2>1. {t \in live' : t[1] = m} = {t \in live : t[1] = m}
    BY <1>3
  <2> QED
    BY <1>1, <2>1 DEF Stream
<1>7. Medium = T /\ Medium' = Medium /\ Phase = "Ready" /\ Phase' = "Playing"
  BY <1>1 DEF Medium, Phase, Serving, T
<1>8. Stream' \in [Track -> SUBSET Nat]
  BY StreamType, <1>1 DEF Stream, TypeInv, TypeOK, ClientType
<1> QED
  BY <1>1, <1>5, <1>6, <1>7, <1>8, SamePort DEF Lifecycle!Play

(* The end of the session, with its process or without.                    *)
LEMMA LifeEnd ==
  ASSUME TypeInv, TypeInv', ~Serving', UNCHANGED <<state, loading, init, dest, sid>>,
         live' \subseteq live, pc' # "crashed" => pc # "crashed",
         pc' # "crashed" => \A s \in live' : s[1] \notin TracksOf(loading)
  PROVE  Lifecycle!End
<1>1. Phase' = "Over" /\ Medium' = Medium
  BY DEF Phase, Medium
<1>2. \A m \in Track : Stream'[m] \subseteq Stream[m]
  BY DEF Stream
<1>3. \A m \in Medium : Stream'[m] = {}
  <2>1. Medium \subseteq Track /\ \A m \in Medium : m \in TracksOf(loading)
    BY MediumType DEF Medium
  <2> QED
    BY <2>1 DEF Stream
<1>4. Stream' \in [Track -> SUBSET Nat]
  BY DEF Stream, TypeInv, TypeOK, ClientType
<1> QED
  BY <1>1, <1>2, <1>3, <1>4, SamePort DEF Lifecycle!End

LEMMA LifeRelease ==
  ASSUME TypeInv, TypeInv', SessionInv', Serving, Release
  PROVE  Lifecycle!End
<1>1. /\ UNCHANGED <<state, loading, init, dest, sid>>
      /\ live' \subseteq live /\ pc' \in {"released", "hung", "crashed"}
  BY DEF Release
<1>2. pc' # "crashed" => \A s \in live' : s[1] \notin TracksOf(loading)
  BY <1>1 DEF SessionInv, GoneSilent, Gone
<1> QED
  BY <1>1, <1>2, LifeEnd DEF Serving

(* A step that touches nothing of the client stutters, or ends the process.*)
LEMMA LifeStutter ==
  ASSUME TypeInv, TypeInv', Untouched,
         \/ Serving' /\ Serving
         \/ Gone' /\ Gone
         \/ pc' = "crashed"
         \/ pc' = pc
  PROVE  Lifecycle!Next \/ UNCHANGED Lifecycle!vars
<1>1. UNCHANGED <<state, loading, init, dest, sid, live>>
  BY DEF Untouched, client, media, streams
<1>2. CASE pc' = "crashed"
  <2>1. Lifecycle!End
    BY <1>1, <1>2, LifeEnd DEF Serving
  <2> QED
    BY <2>1 DEF Lifecycle!Next
<1>3. CASE pc' # "crashed"
  <2>1. Phase' = Phase /\ Medium' = Medium
    BY <1>1, <1>3 DEF Phase, Medium, Serving, Gone
  <2>2. Stream' = Stream
    BY <1>1, <1>3, SameStream DEF Serving, Gone
  <2> QED
    BY <1>1, <2>1, <2>2, SamePort DEF Lifecycle!vars
<1> QED
  BY <1>2, <1>3

LEMMA LifeStep ==
  ASSUME TypeInv, SessionInv, InOrder, Older, [Next]_vars, TypeInv', SessionInv'
  PROVE  Lifecycle!Next \/ UNCHANGED Lifecycle!vars
<1> DEFINE Still ==
      /\ Untouched
      /\ \/ Serving' /\ Serving
         \/ Gone' /\ Gone
         \/ pc' = "crashed"
         \/ pc' = pc
<1>1. CASE SetupNotFound
  <2>1. /\ pc = "dispatch" /\ pc' = "recv" /\ state = "Init"
        /\ UNCHANGED <<state, loading, live, init, dest>>
    BY <1>1 DEF SetupNotFound, DrawSession, SetupState, Handling, Wash, media, streams
  <2> QED
    BY <2>1, LifeDraw, SamePort DEF Lifecycle!Next
<1>2. CASE Still
  BY <1>2, LifeStutter
<1>3. CASE Describe \/ SetupTrack \/ PlayStreams \/ (Serving /\ Release)
  BY <1>3, LifeDescribe, LifePrepare, LifePlay, LifeRelease DEF Lifecycle!Next
<1>4. \/ Describe \/ SetupNotFound \/ SetupTrack \/ PlayStreams
      \/ (Serving /\ Release) \/ Still
  BY Steps DEF ClientStep
<1> HIDE DEF Still
<1> QED
  BY <1>1, <1>2, <1>3, <1>4

(* Every step of a session, whatever the packets, files and sockets do, is *)
(* a step of the life it promises, or none.                                *)
THEOREM ImplementsLifecycle == Spec => LifecycleSpec
<1>1. Init => Lifecycle!Init
  BY DEF Init, Lifecycle!Init, Phase, Medium, Port, Stream, Serving
<1>2. /\ TypeInv /\ SessionInv /\ InOrder /\ Older /\ [Next]_vars
      /\ TypeInv' /\ SessionInv'
      => [Lifecycle!Next]_(Lifecycle!vars)
  BY LifeStep
<1> QED
  BY <1>1, <1>2, Invariants, PTL DEF Spec, LifecycleSpec, Lifecycle!Spec
=============================================================================
