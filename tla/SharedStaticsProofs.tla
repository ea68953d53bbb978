------------------------- MODULE SharedStaticsProofs -------------------------
(***************************************************************************)
(* Theorems about SharedStatics, for any number of threads and walks and   *)
(* every range of ports.                                                   *)
(***************************************************************************)
EXTENDS SharedStatics, Integers, TLAPS

(* What an even number leaves behind, divided by an even number, is even.  *)
LEMMA EvenRemainder ==
  ASSUME NEW n \in Nat, n % 2 = 0
  PROVE  Announced(n) \in 0..(PortMod - 1) /\ Announced(n) % 2 = 0
<1>1. PICK h \in Nat : PortMod = 2 * h
  <2>1. PortMod = 2 * (PortMod \div 2)
    BY StaticsAssumption
  <2> QED
    BY <2>1, StaticsAssumption
<1>2. PICK k \in Nat : n = 2 * k
  <2>1. n = 2 * (n \div 2)
    OBVIOUS
  <2> QED
    BY <2>1
<1> DEFINE q == n \div PortMod
           r == n % PortMod
<1>3. q \in Int /\ r \in 0..(PortMod - 1) /\ n = PortMod * q + r
  BY StaticsAssumption
<1> HIDE DEF q, r
<1>4. PortMod * q = 2 * (h * q)
  BY <1>1, <1>3
<1>5. h * q \in Int
  BY <1>3
<1>6. r = 2 * (k - h * q)
  BY <1>2, <1>3, <1>4, <1>5
<1>7. \A x \in Int : (2 * x) % 2 = 0
  OBVIOUS
<1>8. k - h * q \in Int
  BY <1>5
<1> QED
  BY <1>3, <1>6, <1>7, <1>8 DEF Announced, r

----------------------------------------------------------------------------
(* Types.                                                                  *)

(* A thread between two calls of its walk finds a place in the variable.   *)
Placed == \A s \in Session : walk[s] # "none" /\ taken[s] = None => save # None
TypeInv == TypeOK /\ Placed

LEMMA FreshType ==
  ASSUME TypeInv, NEW s \in Session
  PROVE  [place |-> Fresh(s), null |-> FALSE] \in Taken
BY DEF Fresh, Taken, Place, Text, TypeInv, TypeOK

LEMMA BeginType ==
  ASSUME TypeInv, NEW s \in Session, NEW w \in Walks, Begin(s, w), UNCHANGED crashed
  PROVE  TypeInv'
<1> USE DEF TypeInv
<1>1. taken' \in [Session -> Taken \cup {None}]
  BY FreshType DEF Begin, TypeOK
<1>2. met' \in [Session -> BOOLEAN]
  BY DEF Begin, TypeOK
<1>3. /\ walk' \in [Session -> Walks \cup {"none"}] /\ num' \in [Session -> Nat]
      /\ call' \in [Session -> Nat] /\ right' \in [Session -> BOOLEAN]
  BY DEF Begin, TypeOK
<1>5. UNCHANGED <<save, port, cut, seek, reg, clean, given, crashed>>
  BY DEF Begin, ports
<1>6. TypeOK'
  BY <1>1, <1>2, <1>3, <1>5 DEF TypeOK
<1>4. Placed'
  <2>1. taken'[s] # None
    BY FreshType, NonePlace DEF Begin, TypeOK, Taken
  <2> QED
    BY <2>1 DEF Begin, TypeOK, Placed
<1> QED
  BY <1>4, <1>6

LEMMA LoadType ==
  ASSUME TypeInv, NEW s \in Session, Load(s), UNCHANGED crashed
  PROVE  TypeInv'
<1> USE DEF TypeInv
<1>1. save \in Place
  BY DEF Load, TypeOK, Placed
<1>2. PICK null \in BOOLEAN :
        taken' = [taken EXCEPT ![s] = [place |-> save, null |-> null]]
  BY DEF Load
<1>3. [place |-> save, null |-> null] \in Taken
  BY <1>1 DEF Taken
<1>4. TypeOK'
  BY <1>2, <1>3 DEF Load, TypeOK, ports
<1>5. Placed'
  BY <1>1, NonePlace DEF Load, TypeOK, Placed
<1> QED
  BY <1>4, <1>5

LEMMA StoreType ==
  ASSUME TypeInv, NEW s \in Session, Store(s)
  PROVE  TypeInv'
<1> USE DEF TypeInv
<1> DEFINE p == taken[s].place
           null == taken[s].null
<1>1. p \in Place /\ Follow(p) \in Place /\ p.text \in Text
  BY DEF Store, TypeOK, Taken, Place, Follow
<1>2. /\ save' = IF null THEN p ELSE Follow(p)
      /\ cut' = IF null \/ p.text = Own(s) THEN cut ELSE cut \cup {p.text}
      /\ right' = [right EXCEPT ![s] = @ /\ ~null /\ p.text \notin cut
                     /\ p = [text |-> Own(s), at |-> call[s]]]
      /\ taken' = [taken EXCEPT ![s] = None]
      /\ crashed' = (null /\ call[s] \in Used[walk[s]])
      /\ UNCHANGED <<port, num, met, reg, clean, given>>
  BY DEF Store
<1>3. /\ call' \in [Session -> Nat] /\ walk' \in [Session -> Walks \cup {"none"}]
      /\ seek' \in [Session -> {"no", "read", "write", "return"}]
  <2>1. \/ call' = [call EXCEPT ![s] = @ + 1] /\ UNCHANGED <<walk, seek>>
        \/ /\ walk' = [walk EXCEPT ![s] = "none"]
           /\ call' = [call EXCEPT ![s] = 0]
           /\ seek' = seek \/ seek' = [seek EXCEPT ![s] = "read"]
    BY DEF Store
  <2>2. call' \in [Session -> Nat]
    <3>1. call \in [Session -> Nat]
      BY DEF TypeOK
    <3> QED
      BY <2>1, <3>1
  <2>3. walk' \in [Session -> Walks \cup {"none"}]
    <3>1. walk \in [Session -> Walks \cup {"none"}]
      BY DEF TypeOK
    <3> QED
      BY <2>1, <3>1
  <2>4. seek' \in [Session -> {"no", "read", "write", "return"}]
    <3>1. seek \in [Session -> {"no", "read", "write", "return"}]
      BY DEF TypeOK
    <3> QED
      BY <2>1, <3>1
  <2> QED
    BY <2>2, <2>3, <2>4
<1> HIDE DEF p, null
<1>4. save' \in Place
  BY <1>1, <1>2
<1>5. cut' \subseteq Text /\ crashed' \in BOOLEAN
  BY <1>1, <1>2 DEF TypeOK
<1>6. right' \in [Session -> BOOLEAN]
  BY <1>2 DEF TypeOK
<1>7. TypeOK'
  BY <1>2, <1>3, <1>4, <1>5, <1>6 DEF TypeOK
<1>8. Placed'
  BY <1>4, NonePlace DEF Placed
<1> QED
  BY <1>7, <1>8

LEMMA PortType ==
  ASSUME TypeInv, NEW s \in Session, PortRead(s) \/ PortWrite(s) \/ PortReturn(s),
         UNCHANGED crashed
  PROVE  TypeInv'
<1> USE DEF TypeInv
<1>1. CASE PortRead(s)
  BY <1>1 DEF PortRead, TypeOK, Placed, walks
<1>2. CASE PortWrite(s)
  BY <1>2 DEF PortWrite, NextPort, TypeOK, Placed, walks
<1>3. CASE PortReturn(s)
  <2> DEFINE g == [num |-> port, port |-> Announced(port), clean |-> clean[s]]
  <2>1. Announced(port) \in 0..(PortMod - 1)
    BY StaticsAssumption DEF Announced, TypeOK
  <2>2. g \in Given
    BY <2>1 DEF Given, TypeOK
  <2>3. given' = Append(given, g)
    BY <1>3 DEF PortReturn
  <2> HIDE DEF g
  <2>4. given' \in Seq(Given)
    BY <2>2, <2>3 DEF TypeOK
  <2> QED
    BY <1>3, <2>4 DEF PortReturn, TypeOK, Placed, walks
<1> QED
  BY <1>1, <1>2, <1>3

(* Every step is of one of these kinds.                                    *)
LEMMA Steps ==
  ASSUME [Next]_vars
  PROVE  \/ /\ ~crashed
            /\ \/ \E s \in Session, w \in Walks : Begin(s, w) /\ UNCHANGED crashed
               \/ \E s \in Session : Load(s) /\ UNCHANGED crashed
               \/ \E s \in Session : Store(s)
               \/ \E s \in Session :
                    /\ PortRead(s) \/ PortWrite(s) \/ PortReturn(s)
                    /\ UNCHANGED crashed
         \/ UNCHANGED vars
<1>1. CASE Next
  <2>1. PICK s \in Session : Store(s) \/ (Step(s) /\ UNCHANGED crashed)
    BY <1>1 DEF Next
  <2> QED
    BY <1>1, <2>1 DEF Next, Step
<1>2. CASE UNCHANGED vars
  BY <1>2
<1> QED
  BY <1>1, <1>2

LEMMA TypeInvInit == Init => TypeInv
<1> SUFFICES ASSUME Init PROVE TypeInv
  OBVIOUS
<1>1. <<>> \in Seq(Given) /\ cut \subseteq Text
  BY DEF Init
<1>3. crashed \in BOOLEAN
  BY DEF Init
<1>2. /\ right \in [Session -> BOOLEAN] /\ met \in [Session -> BOOLEAN]
      /\ clean \in [Session -> BOOLEAN]
  BY DEF Init
<1> QED
  BY <1>1, <1>2, <1>3, StaticsAssumption DEF Init, TypeInv, TypeOK, Placed

LEMMA TypeInvStep == TypeInv /\ [Next]_vars => TypeInv'
<1> SUFFICES ASSUME TypeInv, [Next]_vars PROVE TypeInv'
  OBVIOUS
<1>1. CASE UNCHANGED vars
  BY <1>1 DEF vars, walks, ports, TypeInv, TypeOK, Placed
<1> QED
  BY <1>1, Steps, BeginType, LoadType, StoreType, PortType

(* The threads keep their types; what is announced is a port number.       *)
THEOREM TypeCorrect == Spec => []TypeOK
<1>1. TypeInv => TypeOK
  BY DEF TypeInv
<1> QED
  BY <1>1, TypeInvInit, TypeInvStep, PTL DEF Spec

----------------------------------------------------------------------------
(* The walks.  The inductive invariant: a thread that has met no other is  *)
(* alone, its text is whole, and what it holds or what the variable holds  *)
(* is the place of its own next token; no text of a walk to come is known  *)
(* to anyone.                                                              *)

OwnPlace(s) == [text |-> Own(s), at |-> call[s]]
Alone(s) ==
  /\ \A t \in Session : t # s => walk[t] = "none"
  /\ Own(s) \notin cut
  /\ IF taken[s] = None THEN save = OwnPlace(s)
     ELSE taken[s] = [place |-> OwnPlace(s), null |-> FALSE]
Past(text, n) == text.num <= n[text.by]

WalkInv ==
  /\ \A s \in Session : ~met[s] => right[s]
  /\ \A s \in Session : walk[s] # "none" /\ ~met[s] => Alone(s)
  /\ \A text \in cut : Past(text, num)
  /\ save # None => Past(save.text, num)
  /\ \A s \in Session : taken[s] # None => Past(taken[s].place.text, num)
  /\ crashed => \E s \in Session : met[s]

LEMMA BeginWalk ==
  ASSUME TypeInv, WalkInv, NEW s \in Session, NEW w \in Walks, Begin(s, w),
         ~crashed, UNCHANGED crashed
  PROVE  WalkInv'
<1> USE DEF TypeInv, TypeOK
<1>1. /\ num' = [num EXCEPT ![s] = @ + 1] /\ walk' = [walk EXCEPT ![s] = w]
      /\ call' = [call EXCEPT ![s] = 1] /\ right' = [right EXCEPT ![s] = TRUE]
      /\ taken' = [taken EXCEPT ![s] = [place |-> Fresh(s), null |-> FALSE]]
      /\ save' = save /\ cut' = cut /\ walk[s] = "none"
      /\ met' = [t \in Session |->
           CASE t = s         -> Walking # {}
             [] t \in Walking -> TRUE
             [] OTHER         -> met[t]]
  BY DEF Begin
<1>2. \A text \in Text : Past(text, num) => Past(text, num')
  BY <1>1 DEF Past, Text
<1>3. Fresh(s) = [text |-> [by |-> s, num |-> num[s] + 1], at |-> 1]
  BY DEF Fresh
<1>4. Own(s)' = [by |-> s, num |-> num[s] + 1] /\ Own(s)' \in Text
  BY <1>1 DEF Own, Text
<1>5. Own(s)' \notin cut
  BY <1>4 DEF WalkInv, Past, Text
<1>6. [place |-> Fresh(s), null |-> FALSE] # None
  BY FreshType, NonePlace DEF Taken
<1>7. ASSUME NEW t \in Session, walk'[t] # "none", ~met'[t]
      PROVE  Alone(t)'
  <2>1. t = s
    BY <1>1, <1>7 DEF Walking
  <2>2. \A u \in Session : u # s => walk'[u] = "none"
    BY <1>1, <1>7, <2>1 DEF Walking
  <2>3. taken'[s] = [place |-> OwnPlace(s)', null |-> FALSE]
    BY <1>1, <1>3, <1>4 DEF OwnPlace
  <2> QED
    BY <1>1, <1>5, <1>6, <2>1, <2>2, <2>3 DEF Alone
<1>8. \A t \in Session : ~met'[t] => right'[t]
  BY <1>1 DEF WalkInv
<1>9. \A text \in cut' : Past(text, num')
  BY <1>1, <1>2 DEF WalkInv
<1>10. save' # None => Past(save'.text, num')
  BY <1>1, <1>2 DEF WalkInv, Place
<1>11. ASSUME NEW t \in Session, taken'[t] # None
       PROVE  Past(taken'[t].place.text, num')
  <2>1. CASE t = s
    BY <1>1, <1>3, <2>1 DEF Past
  <2>2. CASE t # s
    <3>1. taken'[t] = taken[t] /\ taken[t].place.text \in Text
      BY <1>1, <1>11, <2>2 DEF Taken, Place
    <3> QED
      BY <1>2, <1>11, <3>1 DEF WalkInv
  <2> QED
    BY <2>1, <2>2
<1> QED
  BY <1>7, <1>8, <1>9, <1>10, <1>11 DEF WalkInv

LEMMA LoadWalk ==
  ASSUME TypeInv, WalkInv, NEW s \in Session, Load(s), ~crashed, UNCHANGED crashed
  PROVE  WalkInv'
<1> USE DEF TypeInv, TypeOK
<1>1. PICK null \in BOOLEAN :
        /\ null => save.text # Own(s) \/ save.text \in cut
        /\ taken' = [taken EXCEPT ![s] = [place |-> save, null |-> null]]
  BY DEF Load
<1>2. /\ walk[s] # "none" /\ taken[s] = None
      /\ UNCHANGED <<save, walk, num, call, cut, right, met>>
  BY DEF Load
<1>3. save \in Place /\ [place |-> save, null |-> null] # None
  BY <1>2, NonePlace DEF Placed, Taken
<1>4. ASSUME NEW t \in Session, walk[t] # "none", ~met[t]
      PROVE  Alone(t)'
  <2>1. Alone(t)
    BY <1>4 DEF WalkInv
  <2>2. t = s
    BY <1>2, <1>4, <2>1 DEF Alone
  <2>3. save = OwnPlace(s) /\ Own(s) \notin cut
    BY <1>2, <2>1, <2>2 DEF Alone
  <2>4. save.text = Own(s)
    BY <2>3 DEF OwnPlace
  <2>5. ~null
    BY <1>1, <2>3, <2>4
  <2>6. OwnPlace(s)' = OwnPlace(s) /\ Own(s)' = Own(s)
    BY <1>2 DEF OwnPlace, Own
  <2>7. taken'[s] = [place |-> OwnPlace(s), null |-> FALSE]
    BY <1>1, <2>3, <2>5
  <2>8. taken'[s] # None
    BY <1>1, <1>3
  <2> QED
    BY <1>2, <2>1, <2>2, <2>3, <2>6, <2>7, <2>8 DEF Alone
<1>5. ASSUME NEW t \in Session, taken'[t] # None
      PROVE  Past(taken'[t].place.text, num')
  <2>1. Past(save.text, num)
    BY <1>3, NonePlace DEF WalkInv
  <2> QED
    BY <1>1, <1>2, <1>5, <2>1 DEF WalkInv
<1> QED
  BY <1>2, <1>4, <1>5 DEF WalkInv

LEMMA StoreWalk ==
  ASSUME TypeInv, WalkInv, NEW s \in Session, Store(s), ~crashed
  PROVE  WalkInv'
<1> USE DEF TypeInv, TypeOK
<1> DEFINE p == taken[s].place
           null == taken[s].null
<1>1. /\ walk[s] # "none" /\ taken[s] # None
      /\ save' = IF null THEN p ELSE Follow(p)
      /\ cut' = IF null \/ p.text = Own(s) THEN cut ELSE cut \cup {p.text}
      /\ right' = [right EXCEPT ![s] = @ /\ ~null /\ p.text \notin cut
                     /\ p = [text |-> Own(s), at |-> call[s]]]
      /\ taken' = [taken EXCEPT ![s] = None]
      /\ crashed' = (null /\ call[s] \in Used[walk[s]])
      /\ num' = num /\ met' = met
  BY DEF Store
<1>2. /\ \A t \in Session : t # s => walk'[t] = walk[t] /\ call'[t] = call[t]
      /\ walk'[s] # "none" => walk' = walk /\ call'[s] = call[s] + 1
  <2>1. CASE call[s] < Calls[walk[s]]
    BY <2>1 DEF Store
  <2>2. CASE ~(call[s] < Calls[walk[s]])
    BY <2>2 DEF Store
  <2> QED
    BY <2>1, <2>2
<1>3. p \in Place /\ p.text \in Text
  BY <1>1 DEF Taken, Place
<1>4. Past(p.text, num)
  BY <1>1 DEF WalkInv
<1>5. ASSUME ~met[s]
      PROVE  Alone(s) /\ p = OwnPlace(s) /\ ~null /\ p.text = Own(s)
  <2>1. Alone(s)
    BY <1>1, <1>5 DEF WalkInv
  <2>2. taken[s] = [place |-> OwnPlace(s), null |-> FALSE]
    BY <1>1, <2>1 DEF Alone
  <2> QED
    BY <2>1, <2>2 DEF OwnPlace
<1> HIDE DEF p, null
<1>6. Follow(p) = [text |-> p.text, at |-> p.at + 1]
  BY <1>3 DEF Follow, Place
<1>7. save'.text = p.text
  BY <1>1, <1>6
<1>8. ASSUME NEW t \in Session, ~met'[t]
      PROVE  right'[t]
  <2>1. CASE t = s
    <3>1. right[s] /\ Own(s) \notin cut
      BY <1>1, <1>5, <1>8, <2>1 DEF WalkInv, Alone
    <3> QED
      BY <1>1, <1>5, <1>8, <2>1, <3>1 DEF OwnPlace
  <2>2. CASE t # s
    BY <1>1, <1>8, <2>2 DEF WalkInv
  <2> QED
    BY <2>1, <2>2
<1>9. ASSUME NEW t \in Session, walk'[t] # "none", ~met'[t]
      PROVE  Alone(t)'
  <2>1. walk[t] # "none" /\ ~met[t]
    BY <1>1, <1>2, <1>9
  <2>2. t = s
    BY <1>1, <2>1 DEF WalkInv, Alone
  <2>3. Alone(s) /\ p = OwnPlace(s) /\ ~null /\ p.text = Own(s)
    BY <1>5, <2>1, <2>2
  <2>4. cut' = cut /\ taken'[s] = None /\ save' = Follow(p)
    BY <1>1, <2>3
  <2>5. Own(s)' = Own(s) /\ OwnPlace(s)' = [text |-> Own(s), at |-> call[s] + 1]
    BY <1>1, <1>2, <1>9, <2>2 DEF Own, OwnPlace
  <2>6. save' = OwnPlace(s)'
    BY <1>6, <2>3, <2>4, <2>5 DEF OwnPlace
  <2> QED
    BY <1>2, <2>2, <2>3, <2>4, <2>5, <2>6 DEF Alone
<1>10. \A text \in cut' : Past(text, num')
  BY <1>1, <1>4 DEF WalkInv
<1>11. save' # None => Past(save'.text, num')
  BY <1>1, <1>4, <1>7
<1>12. \A t \in Session : taken'[t] # None => Past(taken'[t].place.text, num')
  BY <1>1 DEF WalkInv
<1>13. crashed' => met'[s]
  BY <1>1, <1>5
<1> QED
  BY <1>8, <1>9, <1>10, <1>11, <1>12, <1>13 DEF WalkInv

LEMMA WalkInvInit == Init => WalkInv
BY DEF Init, WalkInv

LEMMA WalkInvStep == TypeInv /\ WalkInv /\ [Next]_vars => WalkInv'
<1> SUFFICES ASSUME TypeInv, WalkInv, [Next]_vars PROVE WalkInv'
  OBVIOUS
<1>1. CASE UNCHANGED <<save, walks, crashed>>
  BY <1>1 DEF walks, WalkInv, Alone, OwnPlace, Own
<1>2. UNCHANGED vars => UNCHANGED <<save, walks, crashed>>
  BY DEF vars
<1>3. \A s \in Session : PortRead(s) \/ PortWrite(s) \/ PortReturn(s) =>
        UNCHANGED <<save, walks>>
  BY DEF PortRead, PortWrite, PortReturn
<1> QED
  BY <1>1, <1>2, <1>3, Steps, BeginWalk, LoadWalk, StoreWalk

(* A walk that no other has met finds its own tokens, whatever the walks   *)
(* before it have left behind.                                             *)
THEOREM WalksAreOwn == Spec => []WalkIsOwn
<1>1. WalkInv => WalkIsOwn
  BY DEF WalkInv, WalkIsOwn
<1> QED
  BY <1>1, TypeInvInit, TypeInvStep, WalkInvInit, WalkInvStep, PTL DEF Spec

----------------------------------------------------------------------------
(* The ports.  The inductive invariant: a call that has met no other is    *)
(* alone in find_port() and has raised the variable above every port given *)
(* to a call that had met none; whoever is about to write, however late,   *)
(* read the variable when it was not below any of these.                   *)

(* A thread in a walk is not in find_port().                               *)
Outside == \A s \in Session : walk[s] # "none" => seek[s] = "no"

LEMMA OutsideStep == TypeInv /\ Outside /\ [Next]_vars => Outside'
<1> SUFFICES ASSUME TypeInv, Outside, [Next]_vars PROVE Outside'
  OBVIOUS
<1> USE DEF TypeInv, TypeOK
<1>1. ASSUME NEW s \in Session, NEW w \in Walks, Begin(s, w)
      PROVE  Outside'
  BY <1>1 DEF Begin, ports, Outside
<1>2. ASSUME NEW s \in Session, Load(s)
      PROVE  Outside'
  BY <1>2 DEF Load, ports, Outside
<1>3. ASSUME NEW s \in Session, Store(s)
      PROVE  Outside'
  <2>1. CASE UNCHANGED <<walk, seek>>
    BY <2>1 DEF Outside
  <2>2. CASE ~UNCHANGED <<walk, seek>>
    <3>1. /\ walk' = [walk EXCEPT ![s] = "none"]
          /\ seek' = seek \/ seek' = [seek EXCEPT ![s] = "read"]
      BY <1>3, <2>2 DEF Store
    <3> QED
      BY <3>1 DEF Outside
  <2> QED
    BY <2>1, <2>2
<1>4. ASSUME NEW s \in Session, PortRead(s) \/ PortWrite(s) \/ PortReturn(s)
      PROVE  Outside'
  BY <1>4 DEF PortRead, PortWrite, PortReturn, walks, Outside
<1>5. UNCHANGED vars => Outside'
  BY DEF vars, walks, ports, Outside
<1> QED
  BY <1>1, <1>2, <1>3, <1>4, <1>5, Steps

(* What was given, piece by piece.                                         *)
LEMMA GivenType ==
  ASSUME TypeInv
  PROVE  /\ given \in Seq(Given) /\ Len(given) \in Nat
         /\ \A i \in DOMAIN given :
              /\ i \in Nat /\ 1 <= i /\ i <= Len(given)
              /\ given[i].num \in Nat /\ given[i].port \in Nat
<1>1. given \in Seq(Given)
  BY DEF TypeInv, TypeOK
<1>2. Len(given) \in Nat /\ DOMAIN given = 1..Len(given)
  BY <1>1
<1>3. \A i \in DOMAIN given : given[i] \in Given
  BY <1>1
<1>4. \A g \in Given : g.num \in Nat /\ g.port \in Nat
  BY StaticsAssumption DEF Given
<1> QED
  BY <1>1, <1>2, <1>3, <1>4

Even(n) == n % 2 = 0
Below(n) == \A i \in DOMAIN given : given[i].clean => given[i].num <= n

PortInv ==
  /\ Even(port) /\ Below(port)
  /\ \A s \in Session : Even(reg[s])
  /\ \A i \in DOMAIN given :
       given[i].port = Announced(given[i].num) /\ Even(given[i].port)
  /\ \A s \in Session : seek[s] = "write" => Below(reg[s])
  /\ \A s \in Session : seek[s] = "return" /\ clean[s] =>
       port = reg[s] + 2 /\ Below(reg[s])
  /\ \A s, t \in Inside : clean[s] => s = t
  /\ \A i, j \in DOMAIN given :
       i < j /\ given[i].clean /\ given[j].clean => given[i].num < given[j].num

LEMMA ReadPort ==
  ASSUME TypeInv, PortInv, NEW s \in Session, PortRead(s)
  PROVE  PortInv'
<1> USE DEF TypeInv, TypeOK
<1>1. /\ seek[s] = "read" /\ seek' = [seek EXCEPT ![s] = "write"]
      /\ reg' = [reg EXCEPT ![s] = port] /\ port' = port /\ given' = given
      /\ clean' = [t \in Session |->
           CASE t = s        -> Inside = {}
             [] t \in Inside -> FALSE
             [] OTHER        -> clean[t]]
  BY DEF PortRead
<1>2. \A n : Below(n)' <=> Below(n')
  BY <1>1 DEF Below
<1>3. \A t \in Session : t # s => seek'[t] = seek[t] /\ reg'[t] = reg[t]
  BY <1>1
<1>4. reg'[s] = port /\ seek'[s] = "write"
  BY <1>1
<1>5. Inside' = Inside \cup {s} /\ s \notin Inside
  BY <1>1 DEF Inside
<1>6. \A t, u \in Inside' : clean'[t] => t = u
  BY <1>1, <1>5 DEF Inside
<1>7. ASSUME NEW t \in Session
      PROVE  Even(reg'[t])
  BY <1>3, <1>4 DEF PortInv
<1>8. ASSUME NEW t \in Session, seek'[t] = "write"
      PROVE  Below(reg[t])'
  BY <1>1, <1>3, <1>4, <1>8 DEF PortInv, Below
<1>9. ASSUME NEW t \in Session, seek'[t] = "return", clean'[t]
      PROVE  port' = reg'[t] + 2 /\ Below(reg[t])'
  <2>1. t # s
    BY <1>4, <1>9
  <2>2. t \in Inside
    BY <1>3, <1>9, <2>1 DEF Inside
  <2> QED
    BY <1>1, <1>9, <2>1, <2>2
<1> QED
  BY <1>1, <1>6, <1>7, <1>8, <1>9 DEF PortInv, Below

LEMMA WritePort ==
  ASSUME TypeInv, PortInv, NEW s \in Session, PortWrite(s)
  PROVE  PortInv'
<1> USE DEF TypeInv, TypeOK
<1>1. /\ seek[s] = "write" /\ seek' = [seek EXCEPT ![s] = "return"]
      /\ port' = reg[s] + 2 /\ reg' = reg /\ given' = given /\ clean' = clean
  BY DEF PortWrite, NextPort
<1>2. Inside' = Inside /\ s \in Inside
  BY <1>1 DEF Inside
<1>3. Even(port') /\ reg[s] \in Nat
  BY <1>1 DEF PortInv, Even
<1>4. Below(port)'
  <2>1. \A i \in DOMAIN given : given[i].clean => given[i].num <= reg[s]
    BY <1>1 DEF PortInv, Below
  <2>2. \A i \in DOMAIN given : given[i].clean => given[i].num <= reg[s] + 2
    BY <1>3, <2>1, GivenType
  <2> QED
    BY <1>1, <2>2 DEF Below
<1>5. ASSUME NEW t \in Session, seek'[t] = "return", clean'[t]
      PROVE  port' = reg'[t] + 2 /\ Below(reg[t])'
  <2>1. t \in Inside
    BY <1>2, <1>5 DEF Inside
  <2>2. t = s
    BY <1>1, <1>2, <1>5, <2>1 DEF PortInv
  <2> QED
    BY <1>1, <2>2 DEF PortInv, Below
<1>6. ASSUME NEW t \in Session, seek'[t] = "write"
      PROVE  Below(reg[t])'
  BY <1>1, <1>6 DEF PortInv, Below
<1> QED
  BY <1>1, <1>2, <1>3, <1>4, <1>5, <1>6 DEF PortInv

LEMMA ReturnPort ==
  ASSUME TypeInv, PortInv, NEW s \in Session, PortReturn(s)
  PROVE  PortInv'
<1> USE DEF TypeInv, TypeOK
<1> DEFINE g == [num |-> port, port |-> Announced(port), clean |-> clean[s]]
<1>1. /\ seek[s] = "return" /\ seek' = [seek EXCEPT ![s] = "no"]
      /\ reg' = [reg EXCEPT ![s] = 0] /\ given' = Append(given, g)
      /\ port' = port /\ clean' = clean
  BY DEF PortReturn
<1>2. g.num = port /\ g.port = Announced(port) /\ g.clean = clean[s]
  OBVIOUS
<1> HIDE DEF g
<1>3. /\ \A i \in DOMAIN given' :
           \/ i \in DOMAIN given /\ given'[i] = given[i]
           \/ i = Len(given) + 1 /\ given'[i] = g
      /\ \A i \in DOMAIN given : i \in Nat /\ i <= Len(given) /\ given[i].num \in Nat
      /\ Len(given) \in Nat
  <2>1. /\ DOMAIN given' = 1..(Len(given) + 1) /\ DOMAIN given = 1..Len(given)
        /\ \A i \in 1..Len(given) : given'[i] = given[i]
        /\ given'[Len(given) + 1] = g
    BY <1>1, GivenType
  <2>2. \A i \in DOMAIN given' : i \in DOMAIN given \/ i = Len(given) + 1
    <3>1. \A n \in Nat : \A i \in 1..(n + 1) : i \in 1..n \/ i = n + 1
      OBVIOUS
    <3>2. Len(given) \in Nat
      BY GivenType
    <3> HIDE DEF TypeInv, TypeOK
    <3> QED
      BY <2>1, <3>1, <3>2
  <2> QED
    BY <2>1, <2>2, GivenType
<1>4. s \in Inside /\ Inside' = Inside \ {s}
  BY <1>1 DEF Inside
<1>5. g.clean => port = reg[s] + 2 /\ Below(reg[s]) /\ \A t \in Inside : t = s
  BY <1>1, <1>2, <1>4 DEF PortInv
<1>6. Even(port)' /\ Below(port)'
  BY <1>1, <1>2, <1>3 DEF PortInv, Below
<1>7. \A t \in Session : Even(reg'[t])
  BY <1>1 DEF PortInv, Even
<1>8. ASSUME NEW i \in DOMAIN given'
      PROVE  given'[i].port = Announced(given'[i].num) /\ Even(given'[i].port)
  <2>1. Even(Announced(port))
    BY EvenRemainder DEF PortInv, Even
  <2> QED
    BY <1>2, <1>3, <1>8, <2>1 DEF PortInv
<1>9. ASSUME NEW t \in Session, seek'[t] \in {"write", "return"}
      PROVE  /\ t # s /\ seek'[t] = seek[t] /\ reg'[t] = reg[t] /\ ~g.clean
             /\ Below(reg[t]) => Below(reg[t])'
  <2>1. t # s /\ seek'[t] = seek[t] /\ reg'[t] = reg[t]
    BY <1>1, <1>9
  <2>2. t \in Inside
    BY <1>9, <2>1 DEF Inside
  <2>3. ~g.clean
    BY <1>5, <2>1, <2>2
  <2> QED
    BY <1>3, <2>1, <2>3 DEF Below
<1>10. \A t \in Session : seek'[t] = "write" => Below(reg[t])'
  BY <1>9 DEF PortInv
<1>11. \A t \in Session : seek'[t] = "return" /\ clean'[t] =>
         port' = reg'[t] + 2 /\ Below(reg[t])'
  BY <1>1, <1>9 DEF PortInv
<1>12. \A t, u \in Inside' : clean'[t] => t = u
  BY <1>1, <1>4 DEF PortInv
<1>13. ASSUME NEW i \in DOMAIN given', NEW j \in DOMAIN given', i < j,
              given'[i].clean, given'[j].clean
       PROVE  given'[i].num < given'[j].num
  <2>1. CASE j \in DOMAIN given /\ given'[j] = given[j]
    <3>1. i \in DOMAIN given /\ given'[i] = given[i]
      BY <1>3, <1>13, <2>1
    <3> QED
      BY <1>13, <2>1, <3>1 DEF PortInv
  <2>2. CASE j = Len(given) + 1 /\ given'[j] = g
    <3>1. i \in DOMAIN given /\ given'[i] = given[i]
      BY <1>3, <1>13, <2>2
    <3>2. given[i].num <= reg[s] /\ port = reg[s] + 2 /\ reg[s] \in Nat
      BY <1>5, <1>13, <2>2, <3>1 DEF Below
    <3> QED
      BY <1>2, <1>3, <2>2, <3>1, <3>2
  <2> QED
    BY <1>3, <2>1, <2>2
<1> QED
  BY <1>6, <1>7, <1>8, <1>10, <1>11, <1>12, <1>13 DEF PortInv

LEMMA PortInvInit == Init => PortInv
BY StaticsAssumption DEF Init, PortInv, Even, Below, Inside

LEMMA OutsideInit == Init => Outside
BY DEF Init, Outside

LEMMA PortInvStep == TypeInv /\ Outside /\ PortInv /\ [Next]_vars => PortInv'
<1> SUFFICES ASSUME TypeInv, Outside, PortInv, [Next]_vars PROVE PortInv'
  OBVIOUS
(* The walks at most bring a thread to the door of find_port().            *)
<1>1. ASSUME UNCHANGED <<port, reg, clean, given>>,
             \/ seek' = seek
             \/ \E s \in Session : seek[s] \notin {"write", "return"}
                                  /\ seek' = [seek EXCEPT ![s] = "read"]
      PROVE  PortInv'
  <2>1. \A s \in Session : seek'[s] = seek[s] \/ seek'[s] = "read"
    BY <1>1 DEF TypeInv, TypeOK
  <2>2. Inside' \subseteq Inside
    BY <2>1 DEF Inside
  <2> QED
    BY <1>1, <2>1, <2>2 DEF PortInv, Below
<1>2. \A s \in Session, w \in Walks :
        Begin(s, w) => UNCHANGED <<port, reg, clean, given, seek>>
  BY DEF Begin, ports
<1>3. \A s \in Session : Load(s) => UNCHANGED <<port, reg, clean, given, seek>>
  BY DEF Load, ports
<1>4. ASSUME NEW s \in Session, Store(s)
      PROVE  PortInv'
  <2>1. /\ UNCHANGED <<port, reg, clean, given>> /\ walk[s] # "none"
        /\ seek' = seek \/ seek' = [seek EXCEPT ![s] = "read"]
    BY <1>4 DEF Store
  <2>2. seek[s] \notin {"write", "return"}
    BY <2>1 DEF Outside
  <2> QED
    BY <1>1, <2>1, <2>2
<1>5. UNCHANGED vars => UNCHANGED <<port, reg, clean, given, seek>>
  BY DEF vars, ports
<1> QED
  BY <1>1, <1>2, <1>3, <1>4, <1>5, Steps, ReadPort, WritePort, ReturnPort

(* Announced pairs of ports are the same or apart, and calls that met no   *)
(* other never share one while the variable is in the range of a port.     *)
THEOREM PortsApart == Spec => []PortPairsApart
<1>1. TypeInv /\ PortInv => PortPairsApart
  <2> SUFFICES ASSUME TypeInv, PortInv PROVE PortPairsApart
    OBVIOUS
  <2>1. \A i \in DOMAIN given : /\ given[i].num \in Nat /\ given[i].port \in Nat
                                /\ i \in Nat
    BY GivenType
  <2>2. ASSUME NEW i \in DOMAIN given, NEW j \in DOMAIN given
        PROVE  given[i].port # given[j].port + 1
    BY <2>1 DEF PortInv, Even
  <2>3. ASSUME NEW i \in DOMAIN given, NEW j \in DOMAIN given, i # j,
               given[i].clean, given[j].clean,
               given[i].num < PortMod, given[j].num < PortMod
        PROVE  given[i].port # given[j].port
    <3>1. given[i].port = given[i].num /\ given[j].port = given[j].num
      BY <2>1, <2>3, StaticsAssumption DEF PortInv, Announced
    <3>2. given[i].num # given[j].num
      BY <2>1, <2>3 DEF PortInv
    <3> QED
      BY <3>1, <3>2
  <2> QED
    BY <2>2, <2>3 DEF PortPairsApart
<1> QED
  BY <1>1, TypeInvInit, TypeInvStep, OutsideInit, OutsideStep, PortInvInit,
     PortInvStep, PTL DEF Spec
=============================================================================
