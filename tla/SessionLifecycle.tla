-------------------------- MODULE SessionLifecycle --------------------------
(***************************************************************************)
(* What an RTSP session promises, without a word of how: a medium is       *)
(* described, its tracks get a transport one by one, then they stream, and *)
(* in the end they do not.  RtspSession implements it, from bytes that     *)
(* come in pieces, files that cannot be read and sockets that cannot be    *)
(* made.                                                                   *)
(***************************************************************************)
EXTENDS Naturals

CONSTANT Track   \* the tracks a medium can have

VARIABLES
  phase,    \* "Birth", "Init", "Ready", "Playing", "Over"
  medium,   \* the tracks of the medium described last
  port,     \* port[m]: where track m is sent, 0 before that is known
  stream,   \* stream[m]: the streams of track m that are running
  id        \* the session id

vars == <<phase, medium, port, stream, id>>

Init ==
  /\ phase = "Birth" /\ medium = {} /\ id = 0
  /\ port = [m \in Track |-> 0] /\ stream = [m \in Track |-> {}]

(* A medium is chosen.  What streams goes on streaming.                    *)
Describe ==
  /\ phase # "Over" /\ phase' = "Init"
  /\ medium' \in (SUBSET Track) \ {{}}
  /\ UNCHANGED <<port, stream, id>>

(* A session id is drawn and nothing else comes of it.                     *)
Draw ==
  /\ phase = "Init" /\ id' \in Nat
  /\ UNCHANGED <<phase, medium, port, stream>>

(* A track of the medium gets the port it will have for ever; the session  *)
(* is ready once it is the last.                                           *)
Prepare ==
  /\ phase = "Init" /\ id' \in Nat
  /\ \E m \in medium :
       /\ port[m] = 0 /\ port'[m] \in Nat \ {0}
       /\ port' = [port EXCEPT ![m] = port'[m]]
  /\ phase' = IF \A m \in medium : port'[m] # 0 THEN "Ready" ELSE "Init"
  /\ UNCHANGED <<medium, stream>>

(* Every track of the medium gets one new stream, in the place of the one  *)
(* it has, and no other track is touched.                                  *)
Play ==
  /\ phase = "Ready" /\ phase' = "Playing"
  /\ stream' \in [Track -> SUBSET Nat]
  /\ \A m \in medium :
       /\ \E s \in stream'[m] : stream'[m] = {s}
       /\ stream'[m] \cap stream[m] = {}
  /\ \A m \in Track \ medium : stream'[m] = stream[m]
  /\ UNCHANGED <<medium, port, id>>

(* The session ends, and its medium streams no more.                       *)
End ==
  /\ phase' = "Over"
  /\ stream' \in [Track -> SUBSET Nat]
  /\ \A m \in medium : stream'[m] = {}
  /\ \A m \in Track : stream'[m] \subseteq stream[m]
  /\ UNCHANGED <<medium, port, id>>

Next == Describe \/ Draw \/ Prepare \/ Play \/ End

Spec == Init /\ [][Next]_vars
=============================================================================
