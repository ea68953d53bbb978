---------------------------- MODULE SharedStatics ----------------------------
(***************************************************************************)
(* The static variables that the session threads share without a lock: the *)
(* place strtok() goes on from, and the last port find_port() gave.  Every *)
(* thread takes packets apart by walks of strtok() calls, the first with a *)
(* text of its own and the others with NULL, and calls find_port() for the *)
(* tracks it sets up.  A step is one access to a static variable.          *)
(*                                                                         *)
(* Two threads in a walk, or in find_port(), at a time have met; what is   *)
(* promised is promised to those that have not.                            *)
(***************************************************************************)
EXTENDS Naturals, Sequences

CONSTANTS
  Session,    \* the session threads
  First,      \* 5998, what port starts from
  PortMod,    \* 2^16, the range of RTP_server_port
  Walks,      \* the walks that are looked at
  MaxWalks,   \* bound: walks of one thread
  None        \* nothing taken, no place

(* A well-formed request has the tokens its walks look for; what others do *)
(* to a walk is the question here.  Used: the calls whose result is read   *)
(* without a test.                                                         *)
Walk == {"URI", "CSeq", "name", "file", "ports", "id"}
Calls == [URI |-> 1, CSeq |-> 2, name |-> 2, file |-> 3, ports |-> 3, id |-> 5]
Used == [URI |-> {}, CSeq |-> {}, name |-> {2}, file |-> {3},
         ports |-> {2, 3}, id |-> {}]

ASSUME StaticsAssumption ==
  /\ First \in Nat /\ First % 2 = 0
  /\ PortMod \in Nat \ {0} /\ PortMod % 2 = 0
  /\ Walks \subseteq Walk /\ MaxWalks \in Nat

(* A place: the at-th token of the text of the num-th walk of thread by.   *)
Text == [by: Session, num: Nat]
Place == [text: Text, at: Nat]

ASSUME NonePlace == None \notin Place \cup [place: Place, null: BOOLEAN]

VARIABLES
  save,    \* the static variable of strtok()
  port,    \* the static variable of find_port()
  \* the threads: the walk each is in ("none"), its number, the call it is
  \* at; what that call has found; in find_port(): the next access ("no") and
  \* the value read
  walk, num, call, taken, seek, reg,
  cut,     \* the texts a thread other than their own has cut up
  right,   \* right[s]: so far the walk has found its own tokens in order
  met,     \* met[s]: another thread was in a walk during the walk of s
  clean,   \* clean[s]: no other was in find_port() during the call of s
  given,   \* what find_port() gave and what was announced, in order
  crashed  \* a token that is NULL was read

walks == <<walk, num, call, taken, cut, right, met>>
ports == <<seek, reg, clean, given>>
vars == <<save, port, walks, ports, crashed>>

Init ==
  /\ save = None /\ port = First
  /\ walk = [s \in Session |-> "none"] /\ num = [s \in Session |-> 0]
  /\ call = [s \in Session |-> 0] /\ taken = [s \in Session |-> None]
  /\ seek = [s \in Session |-> "no"] /\ reg = [s \in Session |-> 0]
  /\ cut = {} /\ right = [s \in Session |-> TRUE]
  /\ met = [s \in Session |-> FALSE] /\ clean = [s \in Session |-> TRUE]
  /\ given = <<>> /\ crashed = FALSE

----------------------------------------------------------------------------
(* strtok().                                                               *)

Own(s) == [by |-> s, num |-> num[s]]
Walking == {s \in Session : walk[s] # "none"}

(* A mutant of Fresh, the place of the first call: strtok(NULL, ...).      *)
LeftOver(s) ==
  [text |-> IF save = None THEN [by |-> s, num |-> num[s] + 1] ELSE save.text,
   at   |-> 1]
Fresh(s) == [text |-> [by |-> s, num |-> num[s] + 1], at |-> 1]

(* The first call has the text it is given.                                *)
Begin(s, w) ==
  /\ walk[s] = "none" /\ seek[s] = "no" /\ num[s] < MaxWalks
  /\ walk' = [walk EXCEPT ![s] = w]
  /\ num' = [num EXCEPT ![s] = @ + 1]
  /\ call' = [call EXCEPT ![s] = 1]
  /\ taken' = [taken EXCEPT ![s] = [place |-> Fresh(s), null |-> FALSE]]
  /\ right' = [right EXCEPT ![s] = TRUE]
  /\ met' = [t \in Session |->
       CASE t = s         -> Walking # {}
         [] t \in Walking -> TRUE
         [] OTHER         -> met[t]]
  /\ UNCHANGED <<save, port, cut, ports>>

(* The others read where the last call of anyone has left off.  In the     *)
(* text of another, or in one that another has cut up, nothing may be left.*)
Load(s) ==
  /\ walk[s] # "none" /\ taken[s] = None
  /\ \E null \in BOOLEAN :
       /\ null => save.text # Own(s) \/ save.text \in cut
       /\ taken' = [taken EXCEPT ![s] = [place |-> save, null |-> null]]
  /\ UNCHANGED <<save, port, walk, num, call, cut, right, met, ports>>

Follow(place) == [place EXCEPT !.at = @ + 1]

(* The token is ended by a zero byte and the place behind it is kept.      *)
Store(s) ==
  LET p == taken[s].place
      null == taken[s].null
  IN  /\ walk[s] # "none" /\ taken[s] # None
      /\ save' = IF null THEN p ELSE Follow(p)
      /\ cut' = IF null \/ p.text = Own(s) THEN cut ELSE cut \cup {p.text}
      /\ right' = [right EXCEPT ![s] = @ /\ ~null /\ p.text \notin cut
                     /\ p = [text |-> Own(s), at |-> call[s]]]
      /\ taken' = [taken EXCEPT ![s] = None]
      /\ crashed' = (null /\ call[s] \in Used[walk[s]])
      /\ IF call[s] < Calls[walk[s]]
         THEN call' = [call EXCEPT ![s] = @ + 1] /\ UNCHANGED <<walk, seek>>
         ELSE /\ walk' = [walk EXCEPT ![s] = "none"]
              /\ call' = [call EXCEPT ![s] = 0]
              /\ \/ UNCHANGED seek
                 \/ walk[s] = "ports" /\ seek' = [seek EXCEPT ![s] = "read"]
      /\ UNCHANGED <<port, num, met, reg, clean, given>>

----------------------------------------------------------------------------
(* find_port(): port += 2; return port.                                    *)

Inside == {s \in Session : seek[s] \in {"write", "return"}}

PortRead(s) ==
  /\ seek[s] = "read"
  /\ seek' = [seek EXCEPT ![s] = "write"]
  /\ reg' = [reg EXCEPT ![s] = port]
  /\ clean' = [t \in Session |->
       CASE t = s        -> Inside = {}
         [] t \in Inside -> FALSE
         [] OTHER        -> clean[t]]
  /\ UNCHANGED <<save, port, walks, given>>

(* A mutant of NextPort, and what it mutates: a port for RTP and one for   *)
(* RTCP.                                                                   *)
OneOn(n) == n + 1
NextPort(n) == n + 2

PortWrite(s) ==
  /\ seek[s] = "write"
  /\ seek' = [seek EXCEPT ![s] = "return"]
  /\ port' = NextPort(reg[s])
  /\ UNCHANGED <<save, walks, reg, clean, given>>

(* A mutant of Announced: the field is an int.                             *)
Whole(n) == n
Announced(n) == n % PortMod

PortReturn(s) ==
  /\ seek[s] = "return"
  /\ seek' = [seek EXCEPT ![s] = "no"]
  /\ reg' = [reg EXCEPT ![s] = 0]
  /\ given' = Append(given,
       [num |-> port, port |-> Announced(port), clean |-> clean[s]])
  /\ UNCHANGED <<save, port, walks, clean>>

----------------------------------------------------------------------------
Step(s) ==
  \/ (\E w \in Walks : Begin(s, w)) \/ Load(s)
  \/ PortRead(s) \/ PortWrite(s) \/ PortReturn(s)

Next ==
  /\ ~crashed
  /\ \E s \in Session : Store(s) \/ (Step(s) /\ UNCHANGED crashed)

Spec == Init /\ [][Next]_vars

----------------------------------------------------------------------------
Taken == [place: Place, null: BOOLEAN]
Given == [num: Nat, port: 0..(PortMod - 1), clean: BOOLEAN]

(* Types.  What is announced is a port number, however many were given.    *)
TypeOK ==
  /\ save \in Place \cup {None} /\ port \in Nat
  /\ walk \in [Session -> Walks \cup {"none"}] /\ num \in [Session -> Nat]
  /\ call \in [Session -> Nat] /\ taken \in [Session -> Taken \cup {None}]
  /\ seek \in [Session -> {"no", "read", "write", "return"}]
  /\ reg \in [Session -> Nat]
  /\ cut \subseteq Text /\ right \in [Session -> BOOLEAN]
  /\ met \in [Session -> BOOLEAN] /\ clean \in [Session -> BOOLEAN]
  /\ given \in Seq(Given) /\ crashed \in BOOLEAN

(* A walk that no other thread's walk has met finds its own tokens, in     *)
(* order and whole, whatever the walks before it have left behind in the   *)
(* static variable and in one another's texts; and only a walk that has    *)
(* been met can end the server.                                            *)
WalkIsOwn ==
  /\ \A s \in Session : ~met[s] => right[s]
  /\ crashed => \E s \in Session : met[s]

(* The pairs of ports announced for RTP and RTCP are the same or have none *)
(* in common, also when calls of find_port() met and when the counter has  *)
(* left the range of a port; and of the calls that met no other no two     *)
(* give the same port, whatever calls in between have met, until then.     *)
PortPairsApart ==
  /\ \A i, j \in DOMAIN given : given[i].port # given[j].port + 1
  /\ \A i, j \in DOMAIN given :
       /\ i # j /\ given[i].clean /\ given[j].clean
       /\ given[i].num < PortMod /\ given[j].num < PortMod
       => given[i].port # given[j].port
=============================================================================
