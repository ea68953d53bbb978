------------------------ MODULE ClientRegistryProofs ------------------------
(***************************************************************************)
(* Theorems about ClientRegistry, for every finite set of connections and  *)
(* every way they share their addresses.                                   *)
(***************************************************************************)
EXTENDS ClientRegistry, FiniteSetTheorems, TLAPS

(* The steps, one by one.                                                  *)
LEMMA Steps ==
  ASSUME [Next]_vars
  PROVE  \/ \E c \in Conn : Accept(c)
         \/ WalkOn \/ Found \/ Known \/ NewClient \/ CountUp
         \/ AddRead \/ AddHead \/ AddLink \/ MainWild
         \/ \E c \in Conn :
              \/ Leave(c) \/ ReadEntry(c) \/ UnlinkNext(c) \/ UnlinkPrev(c)
              \/ OwnWild(c) \/ Free(c)
              \/ Test(c) \/ Read(c) \/ CountDown(c) \/ Store(c)
         \/ UNCHANGED vars
BY DEF Next, Main, Release

(* What a connection goes through; those on main's hands are accepted, and *)
(* of the others only one that is freed is in freed.                       *)
FreedAt == {"counted", "hung", "down", "take", "written", "store", "gone"}
Held ==
  /\ main.pc \notin {"accept", "wild"} =>
       main.conn \in Conn /\ place[main.conn] = "accepted"
  /\ \A c \in freed : place[c] \in FreedAt

(* The order has the clients not yet taken out, each once.                 *)
ListedAt == LinkedAt \cup {"wild"}
Ordered ==
  /\ \A i \in DOMAIN order : place[order[i]] \in ListedAt
  /\ \A c \in Conn : place[c] \in ListedAt => \E i \in DOMAIN order : order[i] = c
  /\ \A i, j \in DOMAIN order : order[i] = order[j] => i = j

TypeInv == TypeOK /\ Held /\ Ordered

----------------------------------------------------------------------------
(* Taking one client out of the order.                                     *)
LEMMA OrderType ==
  ASSUME TypeOK
  PROVE  /\ order \in Seq(Conn) /\ Len(order) \in Nat
         /\ DOMAIN order = 1..Len(order)
         /\ \A i \in DOMAIN order : i \in Int /\ order[i] \in Conn
<1>1. order \in Seq(Conn)
  BY DEF TypeOK
<1> QED
  BY <1>1

LEMMA WithoutIs ==
  ASSUME TypeInv, NEW k \in DOMAIN order
  PROVE  /\ Without(order, order[k]) \in Seq(Conn)
         /\ Len(Without(order, order[k])) = Len(order) - 1
         /\ \A i \in 1..(Len(order) - 1) :
              Without(order, order[k])[i] = order[IF i < k THEN i ELSE i + 1]
<1> USE DEF TypeInv
<1> DEFINE w == [i \in 1..(Len(order) - 1) |-> order[IF i < k THEN i ELSE i + 1]]
<1>1. k = CHOOSE i \in DOMAIN order : order[i] = order[k]
  BY DEF Ordered
<1>2. Without(order, order[k]) = w
  BY <1>1, Zenon DEF Without
<1>3. Len(order) \in Nat /\ k \in 1..Len(order)
  BY OrderType
<1>4. Len(order) - 1 \in Nat
  BY <1>3
<1>5. \A i \in 1..(Len(order) - 1) :
        (IF i < k THEN i ELSE i + 1) \in 1..Len(order)
  BY <1>3
<1>6. \A i \in 1..(Len(order) - 1) : w[i] \in Conn
  BY <1>5, OrderType
<1>7. w \in Seq(Conn) /\ Len(w) = Len(order) - 1
  BY <1>4, <1>6
<1> QED
  BY <1>2, <1>7

LEMMA OwnIndex ==
  ASSUME TypeInv, NEW c \in Conn, place[c] \in ListedAt
  PROVE  \E k \in DOMAIN order : order[k] = c
BY DEF TypeInv, Ordered

----------------------------------------------------------------------------
(* Types.                                                                  *)

MainType ==
  main \in [pc: {"accept", "walk", "found", "count", "add", "head", "link", "wild"},
            conn: Node, pos: Node, pre: Node, num: Num]
OwnType == own \in [Conn -> [p: Node, n: Node, num: Num]]

LEMMA NumType ==
  ASSUME NEW n \in Int
  PROVE  n % NumMod \in Num /\ Incremented(n) \in Num
<1>1. Cardinality(Conn) \in Nat
  BY FS_CardinalityType, RegistryAssumption
<1>2. NumMod \in Nat /\ NumMod > 0
  BY <1>1, RegistryAssumption
<1>3. \A m \in Int : m % NumMod \in 0..(NumMod - 1)
  BY <1>2
<1> QED
  BY <1>3 DEF Num, Incremented

LEMMA ZeroIsNum == 0 \in Num
<1>1. Cardinality(Conn) \in Nat
  BY FS_CardinalityType, RegistryAssumption
<1> QED
  BY <1>1, RegistryAssumption DEF Num

LEMMA MainTypeStep ==
  ASSUME TypeInv, [Next]_vars
  PROVE  MainType'
<1> USE DEF TypeInv, TypeOK, MainType
<1>1. \A c \in Conn :
        (\/ Leave(c) \/ ReadEntry(c) \/ UnlinkNext(c) \/ UnlinkPrev(c)
         \/ OwnWild(c) \/ Free(c)
         \/ Test(c) \/ Read(c) \/ CountDown(c) \/ Store(c)) => main' = main
  BY DEF Leave, ReadEntry, UnlinkNext, UnlinkPrev, OwnWild, Free, Test, Read,
         CountDown, Store, OwnList, OwnCount
<1>2. 0 \in Num /\ List \in Node /\ \A c \in Conn : c \in Node
  BY ZeroIsNum DEF Node
<1>3. ASSUME NEW c \in Conn, Accept(c)
      PROVE  MainType'
  BY <1>2, <1>3 DEF Accept
<1>4. CASE WalkOn \/ Found \/ Known
  BY <1>2, <1>4 DEF WalkOn, Found, Known, Onward
<1>5. CASE NewClient \/ CountUp
  BY <1>2, <1>5 DEF NewClient, CountUp
<1>6. CASE AddRead
  <2>1. prev[List] \in Node
    BY <1>2
  <2>2. main' = [main EXCEPT !.pc = "head", !.pre = prev[List]]
    BY <1>6 DEF AddRead
  <2> QED
    BY <2>1, <2>2
<1>8. CASE AddHead \/ AddLink \/ MainWild
  BY <1>2, <1>8 DEF AddHead, AddLink, MainWild
<1>7. UNCHANGED vars => main' = main
  BY DEF vars
<1>9. main' = main => MainType'
  OBVIOUS
<1> HIDE DEF TypeInv, TypeOK, MainType
<1> QED
  BY <1>1, <1>3, <1>4, <1>5, <1>6, <1>7, <1>8, <1>9, Steps

LEMMA OwnTypeStep ==
  ASSUME TypeInv, [Next]_vars
  PROVE  OwnType'
<1> USE DEF TypeInv, TypeOK, OwnType
<1>1. own' = own \/ \E c \in Conn :
        \/ Leave(c) \/ ReadEntry(c) \/ UnlinkPrev(c)
        \/ Read(c) \/ CountDown(c) \/ Store(c)
  BY Steps DEF Accept, WalkOn, Found, Known, NewClient, CountUp, AddRead, AddHead, AddLink,
       MainWild, UnlinkNext, OwnWild, Free, Test, vars, MainList, MainCount
<1>2. 0 \in Num /\ List \in Node /\ \A c \in Conn : c \in Node
  BY ZeroIsNum DEF Node
<1>3. \A c \in Conn : next[c] \in Node /\ prev[c] \in Node
  BY <1>2
<1>4. num \in Num /\ own \in [Conn -> [p: Node, n: Node, num: Num]]
  OBVIOUS
<1> HIDE DEF TypeInv, TypeOK
<1>5. ASSUME NEW c \in Conn, NEW q \in Node, NEW d \in Node, NEW n \in Num
      PROVE  /\ [own EXCEPT ![c].n = d] \in [Conn -> [p: Node, n: Node, num: Num]]
             /\ [own EXCEPT ![c].p = q] \in [Conn -> [p: Node, n: Node, num: Num]]
             /\ [own EXCEPT ![c].num = n] \in [Conn -> [p: Node, n: Node, num: Num]]
  BY <1>4
<1>6. ASSUME NEW c \in Conn
      PROVE  [own EXCEPT ![c].p = List, ![c].n = List]
               \in [Conn -> [p: Node, n: Node, num: Num]]
  <2> DEFINE once == [own EXCEPT ![c].p = List]
  <2>1. once \in [Conn -> [p: Node, n: Node, num: Num]]
    BY <1>2, <1>5
  <2>2. [own EXCEPT ![c].p = List, ![c].n = List] = [once EXCEPT ![c].n = List]
    OBVIOUS
  <2> HIDE DEF once
  <2>3. [once EXCEPT ![c].n = List] \in [Conn -> [p: Node, n: Node, num: Num]]
    BY <1>2, <2>1
  <2> QED
    BY <2>2, <2>3
<1> QED
  <2> USE DEF OwnType
  <2>1. ASSUME NEW c \in Conn, Leave(c) \/ ReadEntry(c)
        PROVE  OwnType'
    <3>1. own' = [own EXCEPT ![c].n = next[c]] \/ own' = [own EXCEPT ![c].p = prev[c]]
      BY <2>1 DEF Leave, ReadEntry
    <3>2. [own EXCEPT ![c].n = next[c]] \in [Conn -> [p: Node, n: Node, num: Num]]
      BY <1>3, <1>4, <1>5
    <3>3. [own EXCEPT ![c].p = prev[c]] \in [Conn -> [p: Node, n: Node, num: Num]]
      BY <1>3, <1>4, <1>5
    <3> QED
      BY <3>1, <3>2, <3>3
  <2>2. ASSUME NEW c \in Conn, Read(c) \/ CountDown(c) \/ Store(c)
        PROVE  OwnType'
    <3>1. own' = [own EXCEPT ![c].num = num] \/ own' = [own EXCEPT ![c].num = 0]
      BY <2>2 DEF Read, CountDown, Store
    <3>2. [own EXCEPT ![c].num = num] \in [Conn -> [p: Node, n: Node, num: Num]]
      BY <1>2, <1>4, <1>5
    <3>3. [own EXCEPT ![c].num = 0] \in [Conn -> [p: Node, n: Node, num: Num]]
      BY <1>2, <1>5
    <3> QED
      BY <3>1, <3>2, <3>3
  <2>3. ASSUME NEW c \in Conn, UnlinkPrev(c)
        PROVE  OwnType'
    BY <1>6, <2>3 DEF UnlinkPrev
  <2> QED
    BY <1>1, <1>4, <2>1, <2>2, <2>3

LEMMA LinkTypeStep ==
  ASSUME TypeInv, [Next]_vars
  PROVE  next' \in [Node -> Node] /\ prev' \in [Node -> Node]
<1> USE DEF TypeInv, TypeOK
<1>1. UNCHANGED <<next, prev>> \/ AddHead \/ AddLink
        \/ \E c \in Conn : UnlinkNext(c) \/ UnlinkPrev(c)
  <2>1. (\E c \in Conn : Accept(c)) \/ WalkOn \/ Found \/ Known \/ NewClient \/ CountUp
          \/ AddRead \/ MainWild => UNCHANGED <<next, prev>>
    BY DEF Accept, WalkOn, Found, Known, NewClient, CountUp, AddRead, MainWild, list, MainCount
  <2>2. (\E c \in Conn : Leave(c) \/ ReadEntry(c) \/ OwnWild(c) \/ Free(c) \/ Test(c)
                           \/ Read(c) \/ CountDown(c) \/ Store(c)) => UNCHANGED <<next, prev>>
    BY DEF Leave, ReadEntry, OwnWild, Free, Test, Read, CountDown, Store, list, OwnCount
  <2> QED
    BY <2>1, <2>2, Steps DEF vars, list
<1>2. List \in Node /\ \A c \in Conn : c \in Node
  BY DEF Node
<1>7. /\ next \in [Node -> Node] /\ prev \in [Node -> Node]
      /\ main.conn \in Node /\ main.pre \in Node
  OBVIOUS
<1>3. AddHead => next' \in [Node -> Node] /\ prev' \in [Node -> Node]
  <2> HIDE DEF TypeInv, TypeOK
  <2> QED
    BY <1>2, <1>7 DEF AddHead
<1>4. AddLink => next' \in [Node -> Node] /\ prev' \in [Node -> Node]
  BY <1>2 DEF AddLink
<1>5. \A c \in Conn : UnlinkNext(c) => next' \in [Node -> Node] /\ prev' \in [Node -> Node]
  BY <1>2 DEF UnlinkNext
<1>6. \A c \in Conn : UnlinkPrev(c) => next' \in [Node -> Node] /\ prev' \in [Node -> Node]
  BY <1>2 DEF UnlinkPrev, Unlinked
<1> QED
  BY <1>1, <1>3, <1>4, <1>5, <1>6

(* A step of a session thread takes its own connection on, and no other.   *)
OwnStep(c) ==
  \/ Leave(c) \/ ReadEntry(c) \/ UnlinkNext(c) \/ UnlinkPrev(c) \/ OwnWild(c)
  \/ Free(c) \/ Test(c) \/ Read(c) \/ CountDown(c) \/ Store(c)
MainStep ==
  \/ \E c \in Conn : Accept(c)
  \/ WalkOn \/ Found \/ Known \/ NewClient \/ CountUp
  \/ AddRead \/ AddHead \/ AddLink \/ MainWild

LEMMA OwnMoves ==
  ASSUME TypeInv, NEW c \in Conn, OwnStep(c)
  PROVE  \E q \in Places :
           /\ place' = [place EXCEPT ![c] = q] /\ main' = main
           /\ place[c] \in CountedAt \cup FreedAt /\ q \in CountedAt \cup FreedAt
           /\ freed' = freed \/ (freed' = freed \cup {c} /\ q \in FreedAt)
           /\ c \in freed => q \in FreedAt
           /\ IF UnlinkPrev(c)
              THEN place[c] = "prev" /\ q = "unlinked" /\ order' = Without(order, c)
              ELSE (place[c] \in ListedAt <=> q \in ListedAt) /\ order' = order
<1> USE DEF TypeInv, TypeOK, Held, Places, CountedAt, LinkedAt, ListedAt, FreedAt, To
<1>1. CASE Leave(c) \/ ReadEntry(c)
  BY <1>1 DEF Leave, ReadEntry, OwnList, list, UnlinkPrev
<1>2. CASE UnlinkNext(c)
  BY <1>2 DEF UnlinkNext, OwnList, UnlinkPrev
<1>3. CASE UnlinkPrev(c)
  BY <1>3 DEF UnlinkPrev, OwnList
<1>4. CASE OwnWild(c)
  BY <1>4 DEF OwnWild, OwnList, list, UnlinkPrev
<1>5. CASE Free(c)
  <2>1. place[c] = "unlinked" /\ UNCHANGED <<main, order>> /\ freed' = freed \cup {c}
    BY <1>5 DEF Free
  <2>2. PICK q \in {"counted", "hung"} : place' = [place EXCEPT ![c] = q]
    BY <1>5 DEF Free
  <2> QED
    BY <2>1, <2>2 DEF UnlinkPrev
<1>6. CASE Test(c)
  <2>1. UNCHANGED <<main, order, freed>>
    BY <1>6 DEF Test, OwnCount, list
  <2>2. PICK q \in {"down", "store"} :
          place' = [place EXCEPT ![c] = q] /\ place[c] = "counted"
    BY <1>6 DEF Test
  <2> QED
    BY <2>1, <2>2 DEF UnlinkPrev
<1>7. CASE Read(c)
  <2>1. UNCHANGED <<main, order, freed>>
    BY <1>7 DEF Read, OwnCount, list
  <2>2. PICK q \in {"take", "store"} :
          place' = [place EXCEPT ![c] = q] /\ place[c] \in {"down", "written"}
    BY <1>7 DEF Read
  <2> QED
    BY <2>1, <2>2 DEF UnlinkPrev
<1>8. CASE CountDown(c) \/ Store(c)
  BY <1>8 DEF CountDown, Store, OwnCount, list, UnlinkPrev
<1> QED
  BY <1>1, <1>2, <1>3, <1>4, <1>5, <1>6, <1>7, <1>8 DEF OwnStep

LEMMA OwnKeeps ==
  ASSUME TypeInv, NEW c \in Conn, OwnStep(c)
  PROVE  /\ place' \in [Conn -> Places] /\ freed' \subseteq Conn
         /\ order' \in Seq(Conn) /\ Held' /\ Ordered'
<1>1. PICK q \in Places :
           /\ place' = [place EXCEPT ![c] = q] /\ main' = main
           /\ place[c] \in CountedAt \cup FreedAt /\ q \in CountedAt \cup FreedAt
           /\ freed' = freed \/ (freed' = freed \cup {c} /\ q \in FreedAt)
           /\ c \in freed => q \in FreedAt
           /\ IF UnlinkPrev(c)
              THEN place[c] = "prev" /\ q = "unlinked" /\ order' = Without(order, c)
              ELSE (place[c] \in ListedAt <=> q \in ListedAt) /\ order' = order
  BY OwnMoves
<1>2. /\ place \in [Conn -> Places] /\ freed \subseteq Conn /\ order \in Seq(Conn)
      /\ main.conn \in Node
  BY DEF TypeInv, TypeOK
<1>3. place' \in [Conn -> Places] /\ freed' \subseteq Conn
  BY <1>1, <1>2
<1>4. place[c] # "accepted"
  BY <1>1 DEF CountedAt, LinkedAt, FreedAt
<1>5. Held'
  BY <1>1, <1>2, <1>4 DEF TypeInv, Held
<1>6. CASE UnlinkPrev(c)
  <2>1. place[c] \in ListedAt /\ "unlinked" \notin ListedAt
    BY <1>1, <1>6 DEF LinkedAt, ListedAt
  <2>2. PICK k \in DOMAIN order : order[k] = c
    BY <2>1, OwnIndex
  <2>3. /\ order' \in Seq(Conn) /\ Len(order') = Len(order) - 1
        /\ \A i \in 1..(Len(order) - 1) : order'[i] = order[IF i < k THEN i ELSE i + 1]
    BY <1>1, <1>6, <2>2, WithoutIs
  <2>4. /\ Len(order) \in Nat /\ DOMAIN order = 1..Len(order) /\ k \in 1..Len(order)
        /\ DOMAIN order' = 1..(Len(order) - 1)
    BY <2>3, OrderType DEF TypeInv
  <2>5. \A i \in DOMAIN order' : (IF i < k THEN i ELSE i + 1) \in DOMAIN order \ {k}
    BY <2>4
  <2>6. \A i \in DOMAIN order \ {k} :
          \E j \in DOMAIN order' : i = IF j < k THEN j ELSE j + 1
    <3> SUFFICES ASSUME NEW i \in DOMAIN order \ {k}
                 PROVE  \E j \in DOMAIN order' : i = IF j < k THEN j ELSE j + 1
      OBVIOUS
    <3>1. CASE i < k
      BY <2>4, <3>1
    <3>2. CASE i > k
      <4>1. i - 1 \in DOMAIN order' /\ ~(i - 1 < k) /\ i = (i - 1) + 1
        BY <2>4, <3>2
      <4> QED
        BY <4>1
    <3> QED
      BY <2>4, <3>1, <3>2
  <2>7. \A d \in Conn : d # c => place'[d] = place[d]
    BY <1>1, <1>2
  <2>8. \A i \in DOMAIN order \ {k} : order[i] # c /\ order[i] \in Conn
    BY <2>2, OrderType DEF TypeInv, Ordered
  <2>9. \A i \in DOMAIN order' :
          order'[i] \in Conn \ {c} /\ place'[order'[i]] \in ListedAt
    BY <2>3, <2>4, <2>5, <2>7, <2>8 DEF TypeInv, Ordered
  <2>10. ASSUME NEW d \in Conn, place'[d] \in ListedAt
         PROVE  \E i \in DOMAIN order' : order'[i] = d
    <3>1. d # c
      BY <1>1, <1>2, <1>6, <2>1, <2>10
    <3>2. PICK i \in DOMAIN order : order[i] = d
      BY <2>7, <2>10, <3>1 DEF TypeInv, Ordered
    <3>3. PICK j \in DOMAIN order' : i = IF j < k THEN j ELSE j + 1
      BY <2>2, <2>6, <3>1, <3>2
    <3> QED
      BY <2>3, <2>4, <3>2, <3>3
  <2>11. ASSUME NEW i \in DOMAIN order', NEW j \in DOMAIN order', order'[i] = order'[j]
         PROVE  i = j
    <3>1. (IF i < k THEN i ELSE i + 1) = (IF j < k THEN j ELSE j + 1)
      BY <2>3, <2>4, <2>5, <2>11 DEF TypeInv, Ordered
    <3> QED
      BY <2>4, <3>1
  <2> QED
    BY <1>3, <1>5, <2>3, <2>9, <2>10, <2>11 DEF Ordered
<1>7. CASE ~UnlinkPrev(c)
  <2>1. \A d \in Conn : place'[d] \in ListedAt <=> place[d] \in ListedAt
    BY <1>1, <1>2, <1>7
  <2>2. \A i \in DOMAIN order : order[i] \in Conn
    BY OrderType DEF TypeInv
  <2> QED
    BY <1>1, <1>2, <1>3, <1>5, <1>7, <2>1, <2>2 DEF TypeInv, Ordered
<1> QED
  BY <1>6, <1>7

LEMMA MainKeeps ==
  ASSUME TypeInv, MainStep
  PROVE  /\ place' \in [Conn -> Places] /\ freed' \subseteq Conn
         /\ order' \in Seq(Conn) /\ Held' /\ Ordered'
<1> USE DEF TypeInv, TypeOK
<1>1. freed' = freed
  BY DEF MainStep, Accept, WalkOn, Found, Known, NewClient, CountUp, AddRead, AddHead,
     AddLink, MainWild, list, MainCount
<1>2. \A i \in DOMAIN order : order[i] \in Conn
  BY OrderType
<1>3. ASSUME order' = order, place' \in [Conn -> Places],
             \A d \in Conn : place'[d] \in ListedAt <=> place[d] \in ListedAt
      PROVE  Ordered'
  BY <1>2, <1>3 DEF Ordered
<1>4. ASSUME NEW c \in Conn, Accept(c)
      PROVE  place' \in [Conn -> Places] /\ order' = order /\ Held' /\ Ordered'
  <2>1. /\ place' = [place EXCEPT ![c] = "accepted"] /\ order' = order
        /\ place[c] = "none" /\ main'.conn = c
    BY <1>4 DEF Accept, list
  <2>2. Held'
    BY <1>1, <2>1 DEF Held, FreedAt
  <2>3. place' \in [Conn -> Places]
    BY <2>1 DEF Places
  <2> QED
    BY <1>3, <2>1, <2>2, <2>3 DEF LinkedAt, ListedAt
<1>5. CASE Known
  <2>1. /\ place' = [place EXCEPT ![main.conn] = "dropped"] /\ order' = order
        /\ main.conn \in Conn /\ place[main.conn] = "accepted" /\ main'.pc = "accept"
    BY <1>5 DEF Known, list, Held
  <2>2. Held'
    BY <1>1, <2>1 DEF Held, FreedAt
  <2>3. place' \in [Conn -> Places]
    BY <2>1 DEF Places
  <2> QED
    BY <1>1, <1>3, <2>1, <2>2, <2>3 DEF LinkedAt, ListedAt
<1>6. CASE AddLink
  <2>1. /\ main.conn \in Conn /\ place[main.conn] = "accepted" /\ main'.pc = "accept"
        /\ order' = Append(order, main.conn)
    BY <1>6 DEF AddLink, Held
  <2>2. PICK p \in {"serving", "unserved"} : place' = [place EXCEPT ![main.conn] = p]
    BY <1>6 DEF AddLink
  <2>3. p \in ListedAt /\ p \in Places /\ "accepted" \notin ListedAt
    BY DEF LinkedAt, ListedAt, Places, CountedAt
  <2>4. Held'
    BY <1>1, <2>1, <2>2 DEF Held, FreedAt
  <2>5. place' \in [Conn -> Places]
    BY <2>2, <2>3
  <2>6. order' \in Seq(Conn)
    BY <2>1
  <2>7. /\ Len(order) \in Nat /\ DOMAIN order = 1..Len(order)
        /\ DOMAIN order' = 1..(Len(order) + 1)
        /\ \A i \in DOMAIN order : order'[i] = order[i]
        /\ order'[Len(order) + 1] = main.conn
    BY <2>1, OrderType
  <2>8. \A i \in DOMAIN order' : i \in DOMAIN order \/ i = Len(order) + 1
    <3>1. \A n \in Nat : \A i \in 1..(n + 1) : i \in 1..n \/ i = n + 1
      OBVIOUS
    <3> QED
      BY <2>7, <3>1
  <2>9. \A i \in DOMAIN order : order[i] # main.conn
    BY <2>1, <2>3 DEF Ordered
  <2>10. \A i \in DOMAIN order' : place'[order'[i]] \in ListedAt
    BY <1>2, <2>1, <2>2, <2>3, <2>7, <2>8, <2>9 DEF Ordered
  <2>11. ASSUME NEW d \in Conn, place'[d] \in ListedAt
         PROVE  \E i \in DOMAIN order' : order'[i] = d
    <3>1. CASE d = main.conn
      <4>1. Len(order) + 1 \in DOMAIN order'
        BY <2>7
      <4> QED
        BY <2>7, <3>1, <4>1
    <3>2. CASE d # main.conn
      <4>1. PICK i \in DOMAIN order : order[i] = d
        BY <2>2, <2>11, <3>2 DEF Ordered
      <4>2. i \in DOMAIN order'
        BY <2>7
      <4> QED
        BY <2>7, <4>1, <4>2
    <3> QED
      BY <3>1, <3>2
  <2>12. ASSUME NEW i \in DOMAIN order', NEW j \in DOMAIN order', order'[i] = order'[j]
         PROVE  i = j
    BY <2>7, <2>8, <2>9, <2>12 DEF Ordered
  <2> QED
    BY <1>1, <2>4, <2>5, <2>6, <2>10, <2>11, <2>12 DEF Ordered
<1>7. CASE WalkOn \/ Found \/ NewClient \/ CountUp \/ AddRead \/ AddHead \/ MainWild
  <2>1. place' = place /\ order' = order
    BY <1>7 DEF WalkOn, Found, NewClient, CountUp, AddRead, AddHead, MainWild, list, MainCount
  <2>2. main'.conn = main.conn /\ (main.pc \notin {"accept", "wild"} \/ main'.pc = "wild")
    BY <1>7 DEF WalkOn, Found, NewClient, CountUp, AddRead, AddHead, MainWild
  <2>3. Held'
    BY <1>1, <2>1, <2>2 DEF Held
  <2> QED
    BY <1>1, <1>3, <2>1, <2>3
<1> QED
  BY <1>1, <1>4, <1>5, <1>6, <1>7 DEF MainStep

LEMMA NumTypeStep ==
  ASSUME TypeInv, [Next]_vars
  PROVE  num' \in Num /\ raced' \in BOOLEAN /\ numRaced' \in BOOLEAN
<1> USE DEF TypeInv, TypeOK
<1>1. num' = num \/ CountUp \/ \E c \in Conn : CountDown(c) \/ Store(c)
  BY Steps DEF Accept, WalkOn, Found, Known, NewClient, AddRead, AddHead, AddLink, MainWild,
     Leave, ReadEntry, UnlinkNext, UnlinkPrev, OwnWild, Free, Test, Read, vars,
     MainList, OwnList, list
<1>2. CountUp => num' \in Num
  <2>1. main.num \in Int
    BY DEF Num
  <2> QED
    BY <2>1, NumType DEF CountUp
<1>3. \A c \in Conn : own[c].num \in Num /\ own[c].num - 1 \in Int
  BY DEF Num
<1>4. \A c \in Conn : CountDown(c) \/ Store(c) => num' \in Num
  BY <1>3, NumType DEF CountDown, Store
<1>5. raced' \in BOOLEAN /\ numRaced' \in BOOLEAN
  BY Steps DEF Accept, WalkOn, Found, Known, NewClient, CountUp, AddRead, AddHead, AddLink,
     MainWild, Leave, ReadEntry, UnlinkNext, UnlinkPrev, OwnWild, Free, Test, Read,
     CountDown, Store, vars, MainList, OwnList, MainCount, OwnCount
<1> QED
  BY <1>1, <1>2, <1>4, <1>5

LEMMA ClientTypeStep ==
  ASSUME TypeInv, [Next]_vars
  PROVE  port' \in [Conn -> Node] /\ born' \in [Conn -> Nat]
<1> USE DEF TypeInv, TypeOK
<1>1. UNCHANGED <<port, born>> \/ Known \/ CountUp
  BY Steps DEF Accept, WalkOn, Found, NewClient, AddRead, AddHead, AddLink, MainWild,
     Leave, ReadEntry, UnlinkNext, UnlinkPrev, OwnWild, Free, Test, Read, CountDown, Store,
     vars, list, MainList, OwnList, OwnCount
<1>2. CASE Known
  <2>1. main.conn \in Node /\ born' = born
    BY <1>2 DEF Known, MainList
  <2> QED
    BY <1>2, <2>1 DEF Known
<1>3. CASE CountUp
  <2>1. Cardinality({c \in Conn : born[c] > 0}) + 1 \in Nat
    <3>1. IsFiniteSet({c \in Conn : born[c] > 0})
      BY FS_Subset, RegistryAssumption
    <3>2. Cardinality({c \in Conn : born[c] > 0}) \in Nat
      BY <3>1, FS_CardinalityType
    <3> QED
      BY <3>2
  <2>2. PICK n \in Nat : n = Cardinality({c \in Conn : born[c] > 0}) + 1
    BY <2>1
  <2>3. born' = [born EXCEPT ![main.conn] = n] /\ port' = [port EXCEPT ![main.conn] = main.conn]
    BY <1>3, <2>2 DEF CountUp
  <2> QED
    BY <2>3
<1> QED
  BY <1>1, <1>2, <1>3

LEMMA Actors == [Next]_vars => MainStep \/ (\E c \in Conn : OwnStep(c)) \/ UNCHANGED vars
BY Steps DEF MainStep, OwnStep

LEMMA TypeInvStep == TypeInv /\ [Next]_vars => TypeInv'
<1> SUFFICES ASSUME TypeInv, [Next]_vars PROVE TypeInv'
  OBVIOUS
<1>1. CASE UNCHANGED vars
  BY <1>1 DEF vars, list, TypeInv, TypeOK, Held, Ordered
<1>2. CASE MainStep \/ \E c \in Conn : OwnStep(c)
  <2>1. /\ place' \in [Conn -> Places] /\ freed' \subseteq Conn
        /\ order' \in Seq(Conn) /\ Held' /\ Ordered'
    BY <1>2, MainKeeps, OwnKeeps
  <2> QED
    BY <2>1, MainTypeStep, OwnTypeStep, LinkTypeStep, NumTypeStep, ClientTypeStep
    DEF TypeInv, TypeOK, MainType, OwnType
<1> QED
  BY <1>1, <1>2, Actors

LEMMA TypeInvInit == Init => TypeInv
<1> SUFFICES ASSUME Init PROVE TypeInv
  OBVIOUS
<1>1. /\ 0 \in Num /\ List \in Node /\ "none" \in Places /\ "none" \notin ListedAt
      /\ <<>> \in Seq(Conn)
  BY ZeroIsNum DEF Node, Places, LinkedAt, ListedAt
<1>2. main \in [pc: {"accept", "walk", "found", "count", "add", "head", "link", "wild"},
                conn: Node, pos: Node, pre: Node, num: Num]
  BY <1>1 DEF Init
<1>3. own \in [Conn -> [p: Node, n: Node, num: Num]]
  BY <1>1 DEF Init
<1>4. TypeOK
  BY <1>1, <1>2, <1>3 DEF Init, TypeOK
<1>5. Held /\ Ordered
  BY <1>1 DEF Init, Held, Ordered
<1> QED
  BY <1>4, <1>5 DEF TypeInv

(* The registry keeps its types; client_num stays an unsigned.             *)
THEOREM TypeCorrect == Spec => []TypeOK
<1>1. TypeInv => TypeOK
  BY DEF TypeInv
<1> QED
  BY <1>1, TypeInvInit, TypeInvStep, PTL DEF Spec

----------------------------------------------------------------------------
(* The counter.  The inductive invariant: until two changes race there is  *)
(* at most one under way, what it has read is what is there, and the       *)
(* number is right but for the change that is half done.                   *)

Down == \E c \in Conn : place[c] \in {"down", "take"}
CountInv ==
  ~numRaced /\ main.pc # "wild" =>
    /\ MainCounts => InCount = {} /\ main.num = num
    /\ \A c, d \in InCount : c = d
    /\ num = Cardinality(Counted) + IF Down THEN 1 ELSE 0
    /\ \A c \in Conn : place[c] \in {"take", "store"} => own[c].num = num

LEMMA InRange ==
  ASSUME NEW n \in Nat, n < NumMod
  PROVE  n % NumMod = n
BY RegistryAssumption

LEMMA CountedIs ==
  ASSUME TypeInv
  PROVE  /\ Counted \subseteq Conn /\ IsFiniteSet(Counted)
         /\ Cardinality(Counted) \in Nat /\ Cardinality(Counted) < NumMod
         /\ NumMod \in Nat
<1>1. Counted \subseteq Conn
  BY DEF Counted
<1>2. IsFiniteSet(Conn) /\ NumMod \in Nat /\ NumMod > Cardinality(Conn)
  BY RegistryAssumption
<1>3. IsFiniteSet(Counted) /\ Cardinality(Counted) <= Cardinality(Conn)
  BY <1>1, <1>2, FS_Subset
<1>4. Cardinality(Counted) \in Nat /\ Cardinality(Conn) \in Nat
  BY <1>2, <1>3, FS_CardinalityType
<1> QED
  BY <1>1, <1>2, <1>3, <1>4

(* Steps that leave the counter alone count nobody and discount nobody.    *)
LEMMA OtherCount ==
  ASSUME TypeInv, CountInv,
         num' = num, numRaced' = numRaced, MainCounts' = MainCounts,
         main'.num = main.num, main'.pc # "wild" => main.pc # "wild",
         InCount' = InCount, main'.pc # "wild" => Counted' = Counted,
         \A c \in InCount : place'[c] = place[c] /\ own'[c].num = own[c].num
  PROVE  CountInv'
<1>1. \A c \in Conn : c \in InCount' <=> c \in InCount
  OBVIOUS
<1>2. \A c \in Conn : place'[c] \in {"down", "take", "written", "store"}
                        <=> place[c] \in {"down", "take", "written", "store"}
  BY <1>1 DEF InCount
<1>3. \A c \in Conn : place[c] \in {"down", "take", "written", "store"} =>
        place'[c] = place[c] /\ own'[c].num = own[c].num
  BY DEF InCount
<1>4. Down' <=> Down
  BY <1>2, <1>3 DEF Down
<1>5. \A c \in Conn : place'[c] \in {"take", "store"} =>
        place[c] \in {"take", "store"} /\ own'[c].num = own[c].num
  BY <1>2, <1>3
<1> QED
  BY <1>4, <1>5 DEF CountInv

LEMMA MainOther ==
  ASSUME TypeInv, CountInv,
         \/ \E c \in Conn : Accept(c)
         \/ WalkOn \/ Found \/ Known \/ AddRead \/ AddHead \/ AddLink \/ MainWild
  PROVE  CountInv'
<1> USE DEF TypeInv, TypeOK, Held, MainCounts
<1>1. num' = num /\ numRaced' = numRaced /\ own' = own
  BY DEF Accept, WalkOn, Found, Known, AddRead, AddHead, AddLink, MainWild, MainList
<1>2. /\ main'.num = main.num /\ MainCounts' = MainCounts
      /\ main'.pc # "wild" => main.pc # "wild"
  BY DEF Accept, WalkOn, Found, Known, AddRead, AddHead, AddLink, MainWild
<1> DEFINE aside ==
      /\ \A d \in Conn : place'[d] # place[d] =>
           place[d] \in {"none", "accepted"}
           /\ place'[d] \in {"accepted", "dropped", "serving", "unserved"}
      /\ main'.pc # "wild" => Counted' = Counted
<1>3. aside
  <2> USE DEF Counted, CountedAt, LinkedAt
  <2>1. ASSUME NEW c \in Conn, Accept(c)
        PROVE  aside
    BY <2>1 DEF Accept
  <2>2. CASE Known
    BY <2>2 DEF Known
  <2>3. CASE AddLink
    <3>1. PICK p \in {"serving", "unserved"} : place' = [place EXCEPT ![main.conn] = p]
      BY <2>3 DEF AddLink
    <3>2. /\ main.pc = "link" /\ main'.pc = "accept" /\ main.conn \in Conn
          /\ place[main.conn] = "accepted"
      BY <2>3 DEF AddLink
    <3>3. \A d \in Conn : d # main.conn => place'[d] = place[d]
      BY <3>1
    <3>4. place'[main.conn] = p
      BY <3>1, <3>2
    <3>5. Counted = {d \in Conn : place[d] \in CountedAt} \cup {main.conn}
      BY <3>2
    <3>6. Counted' = {d \in Conn : place'[d] \in CountedAt}
      BY <3>2
    <3> QED
      BY <3>2, <3>3, <3>4, <3>5, <3>6
  <2>4. CASE WalkOn \/ Found \/ AddRead \/ AddHead \/ MainWild
    <3>1. place' = place /\ main'.conn = main.conn
      BY <2>4 DEF WalkOn, Found, AddRead, AddHead, MainWild
    <3>2. \/ main'.pc = "wild"
          \/ main.pc \in {"add", "head", "link"} <=> main'.pc \in {"add", "head", "link"}
      BY <2>4 DEF WalkOn, Found, AddRead, AddHead, MainWild
    <3> QED
      BY <3>1, <3>2
  <2> QED
    BY <2>1, <2>2, <2>3, <2>4
<1>4. InCount' = InCount
  BY <1>3 DEF InCount
<1>5. \A c \in InCount : place'[c] = place[c] /\ own'[c].num = own[c].num
  BY <1>1, <1>3 DEF InCount
<1> QED
  BY <1>1, <1>2, <1>3, <1>4, <1>5, OtherCount

LEMMA OwnOther ==
  ASSUME TypeInv, CountInv, NEW c \in Conn,
         Leave(c) \/ ReadEntry(c) \/ UnlinkNext(c) \/ UnlinkPrev(c) \/ OwnWild(c) \/ Free(c)
  PROVE  CountInv'
<1> USE DEF TypeInv, TypeOK, Held
<1>1. num' = num /\ numRaced' = numRaced /\ main' = main
  BY DEF Leave, ReadEntry, UnlinkNext, UnlinkPrev, OwnWild, Free, OwnList
<1>2. /\ place[c] \in {"serving", "entry", "next", "prev", "unlinked"}
      /\ \E q \in {"entry", "next", "prev", "unlinked", "wild", "counted", "hung"} :
           place' = [place EXCEPT ![c] = q]
  BY DEF Leave, ReadEntry, UnlinkNext, UnlinkPrev, OwnWild, Free, To
<1>3. \A d \in Conn : d # c => own'[d] = own[d]
  BY DEF Leave, ReadEntry, UnlinkNext, UnlinkPrev, OwnWild, Free
<1>4. Counted' = Counted
  BY <1>1, <1>2 DEF Counted, CountedAt, LinkedAt
<1>5. InCount' = InCount /\ MainCounts' = MainCounts
  BY <1>1, <1>2 DEF InCount, MainCounts
<1>6. \A d \in InCount : place'[d] = place[d] /\ own'[d].num = own[d].num
  BY <1>2, <1>3 DEF InCount
<1> QED
  BY <1>1, <1>4, <1>5, <1>6, OtherCount

LEMMA MainChanges ==
  ASSUME TypeInv, CountInv, NewClient \/ CountUp
  PROVE  CountInv'
<1> USE DEF TypeInv, TypeOK, Held
<1> SUFFICES ASSUME ~numRaced' PROVE CountInv'
  BY DEF CountInv
<1>1. /\ place' = place /\ own' = own /\ main.pc \in {"walk", "count"}
      /\ ~numRaced /\ InCount = {}
  BY DEF NewClient, CountUp, MainCount
<1>2. InCount' = {} /\ ~Down' /\ ~Down
  BY <1>1 DEF InCount, Down
<1>3. \A d \in Conn : place'[d] \notin {"take", "store"}
  BY <1>1 DEF InCount
<1>4. num = Cardinality(Counted)
  <2>1. Cardinality(Counted) \in Nat
    BY CountedIs
  <2> QED
    BY <1>1, <1>2, <2>1 DEF CountInv
<1>5. CASE NewClient
  <2>1. num' = num /\ main'.num = num
    BY <1>5 DEF NewClient
  <2>2. Counted' = Counted
    BY <1>1, <1>5 DEF NewClient, Counted
  <2> QED
    BY <1>1, <1>2, <1>3, <1>4, <2>1, <2>2, CountedIs DEF CountInv
<1>6. CASE CountUp
  <2>1. main.pc = "count" /\ main'.pc = "add" /\ num' = Incremented(num)
    BY <1>1, <1>6 DEF CountUp, CountInv, MainCounts
  <2>2. main'.conn = main.conn /\ main.conn \in Conn /\ place[main.conn] = "accepted"
    BY <1>6, <2>1 DEF CountUp
  <2>3. Counted' = Counted \cup {main.conn} /\ main.conn \notin Counted
    BY <1>1, <2>1, <2>2 DEF Counted, CountedAt, LinkedAt
  <2>4. Cardinality(Counted') = Cardinality(Counted) + 1
    BY <2>3, CountedIs, FS_AddElement
  <2>5. Cardinality(Counted') < NumMod
    <3>1. TypeInv'
      BY <1>6, TypeInvStep DEF Next, Main
    <3>2. Counted' \subseteq Conn
      BY DEF Counted
    <3>3. Cardinality(Counted') <= Cardinality(Conn)
      BY <3>2, FS_Subset, RegistryAssumption
    <3>4. Cardinality(Conn) \in Nat
      BY FS_CardinalityType, RegistryAssumption
    <3> QED
      BY <2>4, <3>3, <3>4, CountedIs, RegistryAssumption
  <2>6. num' = num + 1
    BY <1>4, <2>1, <2>4, <2>5, CountedIs, InRange DEF Incremented
  <2>7. ~MainCounts'
    BY <2>1 DEF MainCounts
  <2> QED
    BY <1>2, <1>3, <1>4, <2>4, <2>6, <2>7, CountedIs DEF CountInv
<1> QED
  BY <1>5, <1>6

LEMMA OwnChanges ==
  ASSUME TypeInv, CountInv, NEW c \in Conn, Test(c) \/ Read(c) \/ CountDown(c) \/ Store(c)
  PROVE  CountInv'
<1> USE DEF TypeInv, TypeOK, Held
<1> SUFFICES ASSUME ~numRaced', main.pc # "wild" PROVE CountInv'
  BY DEF CountInv, Test, Read, CountDown, Store, OwnCount
<1>1. /\ main' = main /\ ~numRaced /\ ~MainCounts /\ ~MainCounts'
      /\ \A d \in InCount : d = c
  BY DEF Test, Read, CountDown, Store, OwnCount, MainCounts
<1>2. \A d \in Conn : d # c => place'[d] = place[d] /\ own'[d] = own[d]
  BY DEF Test, Read, CountDown, Store, To
<1>3. \A d \in Conn : d # c => place[d] \notin {"down", "take", "written", "store"}
  BY <1>1 DEF InCount
<1>4. \A d, e \in InCount' : d = e
  BY <1>2, <1>3 DEF InCount
<1>5. /\ Cardinality(Counted) \in Nat /\ Cardinality(Counted) < NumMod /\ NumMod \in Nat
      /\ IsFiniteSet(Counted)
  BY CountedIs
<1>6. main.conn = c => main.pc \notin {"add", "head", "link"}
  BY DEF Test, Read, CountDown, Store
<1>7. /\ num = Cardinality(Counted) + IF Down THEN 1 ELSE 0
      /\ place[c] \in {"take", "store"} => own[c].num = num
  BY <1>1 DEF CountInv
<1>8. /\ Down <=> place[c] \in {"down", "take"}
      /\ Down' <=> place'[c] \in {"down", "take"}
  BY <1>2, <1>3 DEF Down
<1>9. SUFFICES /\ num' = Cardinality(Counted') + IF Down' THEN 1 ELSE 0
               /\ place'[c] \in {"take", "store"} => own'[c].num = num'
  BY <1>1, <1>2, <1>3, <1>4 DEF CountInv
<1>10. CASE Test(c)
  <2>1. place[c] = "counted" /\ c \in Counted /\ num' = num
    BY <1>10 DEF Test, Counted, CountedAt
  <2>2. Cardinality(Counted \ {c}) = Cardinality(Counted) - 1
    BY <1>5, <2>1, FS_RemoveElement
  <2>3. Cardinality(Counted \ {c}) \in Nat
    BY <1>5, FS_RemoveElement, FS_CardinalityType
  <2>4. num = Cardinality(Counted) /\ num # 0
    BY <1>5, <1>7, <1>8, <2>1, <2>2, <2>3
  <2>5. place'[c] = "down"
    BY <1>10, <2>4 DEF Test, To
  <2>6. Counted' = Counted \ {c}
    BY <1>1, <1>2, <1>6, <2>1, <2>5 DEF Counted, CountedAt, LinkedAt
  <2> QED
    BY <1>5, <1>8, <2>1, <2>2, <2>4, <2>5, <2>6
<1>11. CASE Read(c) \/ CountDown(c) \/ Store(c)
  <2>1. place[c] \notin CountedAt /\ place'[c] \notin CountedAt
    BY <1>11 DEF Read, CountDown, Store, To, CountedAt, LinkedAt
  <2>2. Counted' = Counted
    BY <1>1, <1>2, <1>6, <2>1 DEF Counted
  <2>3. CASE Read(c)
    <3>1. /\ num' = num /\ own'[c].num = num
          /\ \/ place[c] = "down" /\ place'[c] = "take"
             \/ place[c] = "written" /\ place'[c] = "store"
      BY <2>3 DEF Read, To
    <3> QED
      BY <1>7, <1>8, <2>2, <3>1
  <2>4. CASE CountDown(c)
    <3>1. place[c] = "take" /\ place'[c] = "written" /\ num' = (num - 1) % NumMod
      BY <1>7, <2>4 DEF CountDown, To
    <3>2. num - 1 = Cardinality(Counted)
      BY <1>5, <1>7, <1>8, <3>1
    <3>3. num' = Cardinality(Counted)
      BY <1>5, <3>1, <3>2, InRange
    <3> QED
      BY <1>5, <1>8, <2>2, <3>1, <3>3
  <2>5. CASE Store(c)
    <3>1. place[c] = "store" /\ place'[c] = "gone" /\ num' = num
      BY <1>7, <2>5 DEF Store, To
    <3> QED
      BY <1>7, <1>8, <2>2, <3>1
  <2> QED
    BY <1>11, <2>3, <2>4, <2>5
<1> QED
  BY <1>10, <1>11

LEMMA CountInvInit == Init => CountInv
<1> SUFFICES ASSUME Init PROVE CountInv
  OBVIOUS
<1>1. Counted = {} /\ InCount = {} /\ ~Down /\ ~MainCounts
  BY DEF Init, Counted, CountedAt, LinkedAt, InCount, Down, MainCounts
<1>2. \A c \in Conn : place[c] = "none"
  BY DEF Init
<1> QED
  BY <1>1, <1>2, FS_EmptySet DEF Init, CountInv

LEMMA CountInvStep == TypeInv /\ CountInv /\ [Next]_vars => CountInv'
<1> SUFFICES ASSUME TypeInv, CountInv, [Next]_vars PROVE CountInv'
  OBVIOUS
<1>1. CASE UNCHANGED vars
  BY <1>1 DEF vars, list, CountInv, MainCounts, InCount, Counted, Down
<1> QED
  BY <1>1, Steps, MainOther, OwnOther, MainChanges, OwnChanges

(* client_num is the number of clients until two changes of it race.       *)
THEOREM CountIsExact == Spec => []CountExact
<1>1. TypeInv /\ CountInv => CountExact
  <2> SUFFICES ASSUME TypeInv, CountInv, ~numRaced, InCount = {}, main.pc # "wild"
               PROVE  num = Cardinality(Counted)
    BY DEF CountExact
  <2>1. ~Down
    BY DEF Down, InCount
  <2> QED
    BY <2>1, CountedIs DEF CountInv
<1> QED
  BY <1>1, TypeInvInit, TypeInvStep, CountInvInit, CountInvStep, PTL DEF Spec

----------------------------------------------------------------------------
(* The list.  The inductive invariant: until two operations on the list    *)
(* race there is at most one under way; the links are those of the order   *)
(* but for the one it is about to set, and what it has read is still true. *)

Alone ==
  ~raced =>
    /\ MainInList => InList = {}
    /\ \A c, d \in InList : c = d
    /\ main.pc # "wild" /\ \A c \in Conn : place[c] # "wild"

NextLinks == \A i \in 0..Len(order) : next[Nth(i)] = Nth(i + 1)
PrevLinks ==
  \A i \in 0..Len(order) :
    \/ prev[Nth(i + 1)] = Nth(i)
    \/ main.pc = "link" /\ i = Len(order)
    \/ i \in DOMAIN order /\ place[order[i]] = "prev"
MainHas ==
  /\ main.pc \in {"head", "link"} => main.pre = Nth(Len(order))
  /\ main.pc = "link" => /\ prev[List] = main.conn /\ prev[main.conn] = main.pre
                         /\ next[main.conn] = List
OwnHas ==
  \A i \in DOMAIN order :
    /\ place[order[i]] \in {"entry", "next", "prev"} => own[order[i]].n = Nth(i + 1)
    /\ place[order[i]] \in {"next", "prev"} => own[order[i]].p = Nth(i - 1)
    /\ place[order[i]] = "prev" => prev[Nth(i + 1)] = Nth(i - 1)
Links == ~raced => NextLinks /\ PrevLinks /\ MainHas /\ OwnHas

Unknown(i) == IP[order[i]] # IP[main.conn]
Addresses ==
  ~raced =>
    /\ main.pc = "walk" =>
         \E i \in 1..(Len(order) + 1) :
           main.pos = Nth(i) /\ \A j \in 1..(i - 1) : Unknown(j)
    /\ main.pc = "found" =>
         \E i \in DOMAIN order : main.pos = order[i] /\ ~Unknown(i)
    /\ main.pc \in {"count", "add", "head", "link"} => \A i \in DOMAIN order : Unknown(i)
    /\ \A i, j \in DOMAIN order : i # j => IP[order[i]] # IP[order[j]]

ListInv == TypeInv /\ Alone /\ Links /\ Addresses

LEMMA NthIs ==
  ASSUME TypeInv
  PROVE  /\ Len(order) \in Nat /\ DOMAIN order = 1..Len(order)
         /\ Nth(0) = List /\ Nth(Len(order) + 1) = List
         /\ \A i \in DOMAIN order : Nth(i) = order[i] /\ order[i] \in Conn
         /\ \A i \in Int : Nth(i) \in Node /\ Nth(i) \notin freed
<1>1. /\ Len(order) \in Nat /\ DOMAIN order = 1..Len(order)
      /\ \A i \in DOMAIN order : order[i] \in Conn
  BY OrderType DEF TypeInv
<1>2. \A i \in DOMAIN order : order[i] \notin freed
  BY DEF TypeInv, Held, Ordered, ListedAt, LinkedAt, FreedAt
<1>3. List \notin freed /\ List \in Node
  BY RegistryAssumption DEF TypeInv, TypeOK, Node
<1> QED
  BY <1>1, <1>2, <1>3 DEF Nth, Node

LEMMA NthApart ==
  ASSUME TypeInv
  PROVE  /\ \A i, j \in 1..(Len(order) + 1) : Nth(i) = Nth(j) => i = j
         /\ \A i, j \in 0..Len(order) : Nth(i) = Nth(j) => i = j
<1>1. /\ Len(order) \in Nat /\ DOMAIN order = 1..Len(order)
      /\ \A i \in DOMAIN order : order[i] # List
  BY NthIs, RegistryAssumption
<1>2. \A i, j \in 1..Len(order) : order[i] = order[j] => i = j
  BY <1>1 DEF TypeInv, Ordered
<1> QED
  BY <1>1, <1>2 DEF Nth

LEMMA Quiet ==
  ASSUME ~raced'
  PROVE  /\ MainList => ~raced /\ InList = {}
         /\ \A c \in Conn : OwnList(c) => /\ ~raced /\ ~MainInList
                                          /\ \A d \in InList : d = c
BY DEF MainList, OwnList

(* Steps on the counter.                                                   *)
CountStep ==
  \/ NewClient \/ CountUp
  \/ \E c \in Conn : Free(c) \/ Test(c) \/ Read(c) \/ CountDown(c) \/ Store(c)

LEMMA AloneStep ==
  ASSUME ListInv, [Next]_vars
  PROVE  Alone'
<1> USE DEF ListInv, TypeInv, TypeOK
<1> SUFFICES ASSUME ~raced' PROVE Alone'
  BY DEF Alone
<1>1. CASE MainStep /\ MainList
  <2>1. ~raced /\ InList = {} /\ \A c \in Conn : place[c] # "wild"
    BY <1>1, Quiet DEF Alone
  <2>2. \A c \in Conn : place'[c] # place[c] =>
          place'[c] \in {"accepted", "dropped", "serving", "unserved"}
    BY <1>1 DEF MainStep, Accept, WalkOn, Found, Known, NewClient, CountUp, AddRead, AddHead,
       AddLink, MainWild, Held, MainCount
  <2>3. InList' = {} /\ \A c \in Conn : place'[c] # "wild"
    BY <2>1, <2>2 DEF InList
  <2>4. ~MainWild
    <3>1. main.pc = "walk" => main.pos \notin freed
      BY <2>1, NthIs DEF Addresses
    <3>3. main.pc = "found" => main.pos \notin freed
      BY <2>1, NthIs DEF Addresses
    <3>2. main.pc = "link" => main.pre \notin freed
      BY <2>1, NthIs DEF Links, MainHas
    <3> QED
      BY <3>1, <3>2, <3>3 DEF MainWild
  <2>5. main'.pc # "wild"
    BY <1>1, <2>1, <2>4 DEF MainStep, Accept, WalkOn, Found, Known, NewClient, CountUp, AddRead,
       AddHead, AddLink, Alone
  <2> QED
    BY <2>3, <2>5 DEF Alone
<1>2. ASSUME NEW c \in Conn, OwnStep(c), OwnList(c)
      PROVE  Alone'
  <2>1. ~raced /\ ~MainInList /\ main' = main /\ \A d \in InList : d = c
    BY <1>2, Quiet DEF OwnList
  <2>2. \A d \in Conn : d # c => place'[d] = place[d]
    BY <1>2, OwnMoves
  <2>3. ~MainInList' /\ \A d, e \in InList' : d = e
    BY <2>1, <2>2 DEF MainInList, InList
  <2>4. ~OwnWild(c)
    <3> SUFFICES ASSUME place[c] \in {"next", "prev"}
                 PROVE  own[c].n \notin freed /\ (place[c] = "prev" => own[c].p \notin freed)
      BY DEF OwnWild
    <3>1. PICK k \in DOMAIN order : order[k] = c
      BY OwnIndex DEF ListedAt, LinkedAt
    <3>2. k \in Int /\ k + 1 \in Int /\ k - 1 \in Int
      BY NthIs
    <3> QED
      BY <2>1, <3>1, <3>2, NthIs DEF Links, OwnHas
  <2>5. place'[c] # "wild"
    BY <1>2, <2>1, <2>4 DEF OwnStep, Leave, ReadEntry, UnlinkNext, UnlinkPrev, Free, Test,
       Read, CountDown, Store, To
  <2> QED
    BY <2>1, <2>2, <2>3, <2>5 DEF Alone
<1>3. CASE CountStep
  <2>1. raced' = raced
    BY <1>3 DEF CountStep, NewClient, CountUp, Free, Test, Read, CountDown, Store,
       MainCount, OwnCount
  <2>2. main.pc # "wild" => main'.pc # "wild"
    BY <1>3 DEF CountStep, NewClient, CountUp, Free, Test, Read, CountDown, Store, OwnCount
  <2>3. MainInList' => MainInList
    BY <1>3 DEF CountStep, NewClient, CountUp, Free, Test, Read, CountDown, Store, OwnCount,
       MainInList
  <2>4. \A c \in Conn : place'[c] # place[c] =>
          place'[c] \in {"counted", "hung", "down", "take", "written", "store", "gone"}
    BY <1>3 DEF CountStep, NewClient, CountUp, Free, Test, Read, CountDown, Store, To,
       MainCount
  <2>5. InList' \subseteq InList
    BY <2>4 DEF InList
  <2> QED
    BY <2>1, <2>2, <2>3, <2>4, <2>5 DEF Alone
<1>4. CASE UNCHANGED vars
  BY <1>4 DEF vars, list, Alone, MainInList, InList
<1>5. \/ MainStep /\ MainList
      \/ CountStep
      \/ UNCHANGED vars
      \/ \E c \in Conn : OwnStep(c) /\ OwnList(c)
  BY Steps DEF MainStep, OwnStep, CountStep, Accept, WalkOn, Found, Known, AddRead, AddHead,
     AddLink, MainWild, Leave, ReadEntry, UnlinkNext, UnlinkPrev, OwnWild
<1> QED
  BY <1>1, <1>2, <1>3, <1>4, <1>5

(* Steps that touch no link leave the links right.                         *)
LEMMA LinksKept ==
  ASSUME ListInv, ~raced', ~raced, UNCHANGED <<order, next, prev>>,
         main.pc = "link" <=> main'.pc = "link",
         main'.pc \in {"head", "link"} =>
           main.pc \in {"head", "link"} /\ main'.pre = main.pre /\ main'.conn = main.conn,
         \A c \in Conn : place'[c] \in {"entry", "next", "prev"} =>
           place'[c] = place[c] /\ own'[c].n = own[c].n /\ own'[c].p = own[c].p,
         \A c \in Conn : place[c] = "prev" => place'[c] = "prev"
  PROVE  Links'
<1>1. \A i : Nth(i)' = Nth(i)
  BY DEF Nth
<1>2. NextLinks /\ PrevLinks /\ MainHas /\ OwnHas
  BY DEF ListInv, Links
<1>3. \A i \in DOMAIN order : order[i] \in Conn
  BY NthIs DEF ListInv
<1>4. NextLinks'
  BY <1>1, <1>2 DEF NextLinks
<1>5. PrevLinks'
  BY <1>1, <1>2, <1>3 DEF PrevLinks
<1>6. MainHas'
  BY <1>1, <1>2 DEF MainHas
<1>7. OwnHas'
  BY <1>1, <1>2, <1>3 DEF OwnHas
<1> QED
  BY <1>4, <1>5, <1>6, <1>7 DEF Links

LEMMA MainLinks ==
  ASSUME ListInv, ~raced', (\E c \in Conn : Accept(c)) \/ WalkOn \/ Found \/ Known
  PROVE  Links'
<1> USE DEF ListInv, TypeInv, TypeOK
<1>1. ~raced /\ InList = {} /\ own' = own /\ UNCHANGED <<order, next, prev>>
  BY Quiet DEF Accept, WalkOn, Found, Known, MainList, list
<1>2. /\ main.pc \notin {"head", "link"} /\ main'.pc \notin {"head", "link"}
      /\ \A c \in Conn : place'[c] # place[c] =>
           place[c] # "prev" /\ place'[c] \in {"accepted", "dropped"}
  BY DEF Accept, WalkOn, Found, Known, Held
<1> QED
  BY <1>1, <1>2, LinksKept

LEMMA CountLinks ==
  ASSUME ListInv, ~raced', CountStep
  PROVE  Links'
<1> USE DEF ListInv, TypeInv, TypeOK
<1>1. ~raced /\ UNCHANGED <<order, next, prev>>
  BY DEF CountStep, NewClient, CountUp, Free, Test, Read, CountDown, Store, MainCount,
     OwnCount, list
<1>2. /\ main.pc = "link" <=> main'.pc = "link"
      /\ main'.pc \in {"head", "link"} =>
           main.pc \in {"head", "link"} /\ main'.pre = main.pre /\ main'.conn = main.conn
  BY DEF CountStep, NewClient, CountUp, Free, Test, Read, CountDown, Store, OwnCount
<1> DEFINE kept ==
      \A c \in Conn :
        /\ place'[c] # place[c] =>
             /\ place[c] # "prev"
             /\ place'[c] \in {"counted", "hung", "down", "take", "written", "store", "gone"}
        /\ own'[c].n = own[c].n /\ own'[c].p = own[c].p
<1>3. kept
  <2>1. CASE NewClient \/ CountUp
    <3>1. place' = place /\ own' = own
      BY <2>1 DEF NewClient, CountUp, MainCount
    <3> QED
      BY <3>1
  <2>2. ASSUME NEW d \in Conn, Free(d) \/ Test(d)
        PROVE  kept
    BY <2>2 DEF Free, Test, To
  <2>3. ASSUME NEW d \in Conn, Read(d) \/ CountDown(d) \/ Store(d)
        PROVE  kept
    <3>1. PICK q \in {"take", "store", "written", "gone"} :
            place' = [place EXCEPT ![d] = q] /\ place[d] # "prev"
      BY <2>3 DEF Read, CountDown, Store, To
    <3>2. PICK n : own' = [own EXCEPT ![d].num = n]
      BY <2>3 DEF Read, CountDown, Store
    <3> QED
      BY <3>1, <3>2
  <2> QED
    BY <2>1, <2>2, <2>3 DEF CountStep
<1> QED
  BY <1>1, <1>2, <1>3, LinksKept

LEMMA AddLinks ==
  ASSUME ListInv, ~raced', AddRead \/ AddHead \/ AddLink
  PROVE  Links'
<1> USE DEF ListInv, TypeInv, TypeOK
<1>1. /\ ~raced /\ InList = {} /\ own' = own
      /\ main.conn \in Conn /\ place[main.conn] = "accepted"
      /\ main'.pc = "accept" \/ main'.conn = main.conn
  BY Quiet DEF AddRead, AddHead, AddLink, MainList, Held
<1>2. NextLinks /\ PrevLinks /\ MainHas /\ OwnHas
  BY <1>1 DEF Links
<1>3. \A c \in Conn : place[c] \notin {"entry", "next", "prev"}
  BY <1>1 DEF InList
<1>4. /\ Len(order) \in Nat /\ DOMAIN order = 1..Len(order)
      /\ Nth(0) = List /\ Nth(Len(order) + 1) = List /\ List \in Node
      /\ \A i \in DOMAIN order : Nth(i) = order[i] /\ order[i] \in Conn
      /\ \A i \in Int : Nth(i) \in Node
  BY NthIs DEF Node
<1>5. /\ main.conn # List /\ main.conn \in Node
      /\ \A i \in DOMAIN order : order[i] # main.conn
  BY <1>1, RegistryAssumption DEF Ordered, ListedAt, LinkedAt, Node
<1>6. \A i \in 0..(Len(order) + 1) : Nth(i) # main.conn
  BY <1>4, <1>5 DEF Nth
<1>10. PICK n \in Nat : n = Len(order) /\ DOMAIN order = 1..n
  BY <1>4
<1>11. /\ next \in [Node -> Node] /\ prev \in [Node -> Node]
       /\ \A i, j \in 0..Len(order) : Nth(i) = Nth(j) => i = j
  BY NthApart
<1> HIDE DEF ListInv, TypeInv, TypeOK
<1>7. CASE AddRead
  <2>1. /\ main.pc = "add" /\ main'.pc = "head" /\ main'.pre = prev[List]
        /\ UNCHANGED <<order, next, prev, place>>
    BY <1>7 DEF AddRead, list, ListInv, TypeInv, TypeOK
  <2>2. \A i : Nth(i)' = Nth(i)
    BY <2>1 DEF Nth
  <2>3. prev[List] = Nth(Len(order))
    BY <1>2, <1>3, <1>4, <2>1 DEF PrevLinks
  <2>4. NextLinks' /\ MainHas'
    BY <1>2, <2>1, <2>2, <2>3 DEF NextLinks, MainHas
  <2>5. PrevLinks'
    BY <1>2, <2>1, <2>2 DEF PrevLinks
  <2>6. OwnHas'
    BY <1>3, <1>4, <2>1 DEF OwnHas
  <2> QED
    BY <2>4, <2>5, <2>6 DEF Links
<1>8. CASE AddHead
  <2>1. /\ main.pc = "head" /\ main'.pc = "link" /\ main'.pre = main.pre
        /\ prev' = [prev EXCEPT ![List] = main.conn, ![main.conn] = main.pre]
        /\ next' = [next EXCEPT ![main.conn] = List] /\ UNCHANGED <<order, place>>
    BY <1>8 DEF AddHead, ListInv, TypeInv, TypeOK
  <2>2. \A i : Nth(i)' = Nth(i)
    BY <2>1 DEF Nth
  <2>3. NextLinks'
    BY <1>2, <1>4, <1>6, <2>1, <2>2 DEF NextLinks
  <2>4. ASSUME NEW i \in 0..n
        PROVE  prev'[Nth(i + 1)] = Nth(i) \/ i = Len(order)
    <3>1. CASE i # Len(order)
      <4>1. i + 1 \in DOMAIN order
        BY <1>10, <2>4, <3>1
      <4>2. Nth(i + 1) # List /\ Nth(i + 1) # main.conn /\ Nth(i + 1) \in Node
        BY <1>4, <1>5, <4>1, RegistryAssumption
      <4>3. prev[Nth(i + 1)] = Nth(i)
        BY <1>2, <1>3, <1>4, <1>10, <2>1, <2>4, <3>1, <4>1 DEF PrevLinks
      <4> QED
        BY <1>11, <2>1, <4>2, <4>3
    <3> QED
      BY <3>1
  <2>5. PrevLinks'
    BY <1>10, <2>1, <2>2, <2>4 DEF PrevLinks
  <2>6. MainHas'
    <3>1. prev'[List] = main.conn /\ prev'[main.conn] = main.pre /\ next'[main.conn] = List
      BY <1>4, <1>5, <1>11, <2>1
    <3> QED
      BY <1>1, <1>2, <2>1, <2>2, <3>1 DEF MainHas
  <2>7. OwnHas'
    BY <1>3, <1>4, <2>1 DEF OwnHas
  <2> QED
    BY <2>3, <2>5, <2>6, <2>7 DEF Links
<1>9. CASE AddLink
  <2>1. /\ main.pc = "link" /\ main'.pc = "accept" /\ prev' = prev
        /\ next' = [next EXCEPT ![main.pre] = main.conn]
        /\ order' = Append(order, main.conn)
    BY <1>9 DEF AddLink, ListInv, TypeInv, TypeOK
  <2>2. /\ Len(order') = Len(order) + 1 /\ DOMAIN order' = 1..(Len(order) + 1)
        /\ \A i \in DOMAIN order : order'[i] = order[i]
        /\ order'[Len(order) + 1] = main.conn
    BY <1>4, <2>1
  <2>3. /\ \A i \in 0..n : Nth(i)' = Nth(i)
        /\ Nth(n + 1)' = main.conn /\ Nth(n + 2)' = List
    <3>1. DOMAIN order' = 1..(n + 1) /\ order'[n + 1] = main.conn
      BY <1>10, <2>2
    <3>2. ASSUME NEW i \in 0..n PROVE Nth(i)' = Nth(i)
      <4>1. i \in DOMAIN order <=> i \in DOMAIN order'
        BY <1>10, <3>1
      <4> QED
        BY <2>2, <4>1 DEF Nth
    <3>3. n + 1 \in DOMAIN order' /\ n + 2 \notin DOMAIN order'
      BY <3>1
    <3> QED
      BY <3>1, <3>2, <3>3 DEF Nth
  <2>4. main.pre = Nth(n) /\ next[main.conn] = List /\ main.pre \in Node
        /\ prev[List] = main.conn /\ prev[main.conn] = main.pre
    BY <1>2, <1>4, <1>10, <2>1 DEF MainHas
  <2>5. ASSUME NEW i \in 0..(n + 1)
        PROVE  next'[Nth(i)'] = Nth(i + 1)' /\ prev'[Nth(i + 1)'] = Nth(i)'
    <3>1. CASE i < n
      <4>1. i \in 0..n /\ i + 1 \in 0..n /\ n \in 0..n
        BY <3>1
      <4>2. Nth(i) # Nth(n)
        BY <1>10, <1>11, <3>1, <4>1
      <4>3. next[Nth(i)] = Nth(i + 1)
        BY <1>2, <1>10, <4>1 DEF NextLinks
      <4>4. prev[Nth(i + 1)] = Nth(i)
        <5>1. i \in DOMAIN order => order[i] \in Conn
          BY <1>4
        <5> QED
          BY <1>2, <1>3, <1>10, <3>1, <4>1, <5>1 DEF PrevLinks
      <4>5. Nth(i)' = Nth(i) /\ Nth(i + 1)' = Nth(i + 1) /\ Nth(i) \in Node
        BY <1>4, <2>3, <4>1
      <4>6. next'[Nth(i)] = next[Nth(i)]
        BY <1>11, <2>1, <2>4, <4>2, <4>5
      <4> QED
        BY <2>1, <4>3, <4>4, <4>5, <4>6
    <3>2. CASE i = n
      <4>1. n \in 0..n
        OBVIOUS
      <4>2. next'[main.pre] = main.conn
        BY <1>11, <2>1, <2>4
      <4> QED
        BY <2>1, <2>3, <2>4, <3>2, <4>1, <4>2
    <3>3. CASE i = n + 1
      <4>1. n \in 0..(n + 1) /\ i + 1 = n + 2
        BY <3>3
      <4>2. main.conn # main.pre
        BY <1>6, <1>10, <2>4, <4>1
      <4>3. next'[main.conn] = List
        BY <1>5, <1>11, <2>1, <2>4, <4>2
      <4> QED
        BY <2>1, <2>3, <2>4, <3>3, <4>1, <4>3
    <3> QED
      BY <3>1, <3>2, <3>3
  <2>6. NextLinks' /\ PrevLinks'
    BY <1>10, <2>2, <2>5 DEF NextLinks, PrevLinks
  <2>7. MainHas'
    BY <2>1 DEF MainHas
  <2>8. OwnHas'
    <3>1. \A c \in Conn : place'[c] \notin {"entry", "next", "prev"}
      BY <1>3, <1>9 DEF AddLink, ListInv, TypeInv, TypeOK
    <3>2. \A i \in DOMAIN order' : order'[i] \in Conn
      <4>1. order' \in Seq(Conn)
        BY <1>1, <2>1 DEF ListInv, TypeInv, TypeOK
      <4> QED
        BY <4>1
    <3> QED
      BY <3>1, <3>2 DEF OwnHas
  <2> QED
    BY <2>6, <2>7, <2>8 DEF Links
<1> QED
  BY <1>7, <1>8, <1>9

(* What a session thread may rely on while it takes its client out.        *)
LEMMA OwnAt ==
  ASSUME ListInv, ~raced', NEW c \in Conn, OwnStep(c), OwnList(c), place[c] \in LinkedAt
  PROVE  /\ ~raced /\ NextLinks /\ PrevLinks /\ OwnHas /\ main' = main
         /\ main.pc \notin {"walk", "head", "link"}
         /\ \A d \in Conn : d # c =>
              place'[d] = place[d] /\ place[d] \notin {"entry", "next", "prev"}
         /\ \E n \in Nat : \E k \in 1..n :
              n = Len(order) /\ DOMAIN order = 1..n /\ order[k] = c
<1>1. ~raced /\ ~MainInList /\ main' = main /\ \A d \in InList : d = c
  BY Quiet DEF OwnList
<1>2. \A d \in Conn : d # c => place'[d] = place[d]
  BY OwnMoves DEF ListInv, TypeInv, TypeOK
<1>3. PICK k \in DOMAIN order : order[k] = c
  BY OwnIndex DEF ListInv, ListedAt
<1>4. Len(order) \in Nat /\ DOMAIN order = 1..Len(order)
  BY NthIs DEF ListInv
<1> QED
  BY <1>1, <1>2, <1>3, <1>4 DEF ListInv, Links, MainInList, InList

LEMMA ReadLinks ==
  ASSUME ListInv, ~raced', NEW c \in Conn, Leave(c) \/ ReadEntry(c)
  PROVE  Links'
<1>1. /\ OwnStep(c) /\ OwnList(c) /\ place[c] \in {"serving", "entry"}
      /\ UNCHANGED <<order, next, prev>>
  BY DEF OwnStep, Leave, ReadEntry, list
<1>2. /\ ~raced /\ NextLinks /\ PrevLinks /\ OwnHas /\ main' = main
      /\ main.pc \notin {"walk", "head", "link"}
      /\ \A d \in Conn : d # c =>
           place'[d] = place[d] /\ place[d] \notin {"entry", "next", "prev"}
  BY <1>1, OwnAt DEF LinkedAt
<1>3. PICK n \in Nat : \E k \in 1..n :
        n = Len(order) /\ DOMAIN order = 1..n /\ order[k] = c
  BY <1>1, OwnAt DEF LinkedAt
<1>4. PICK k \in 1..n : n = Len(order) /\ DOMAIN order = 1..n /\ order[k] = c
  BY <1>3
<1>5. \A i : Nth(i)' = Nth(i)
  BY <1>1 DEF Nth
<1>6. \A i \in 1..n : i # k => order[i] # c /\ order[i] \in Conn
  BY <1>4, NthIs DEF ListInv, TypeInv, Ordered
<1>7. k \in 0..n /\ k - 1 \in 0..n /\ (k - 1) + 1 = k /\ Nth(k) = c
  BY <1>4 DEF Nth
<1>8. next[c] = Nth(k + 1) /\ place[c] # "prev" /\ place'[c] # "prev"
  <2>1. place'[c] \in {"entry", "next"}
    BY DEF Leave, ReadEntry, To, ListInv, TypeInv, TypeOK
  <2> QED
    BY <1>1, <1>2, <1>4, <1>7, <2>1 DEF NextLinks
<1>9. prev[c] = Nth(k - 1)
  <2>1. k - 1 \in DOMAIN order => place[order[k - 1]] # "prev"
    <3>1. k - 1 # k
      BY <1>7
    <3> QED
      BY <1>2, <1>4, <1>6, <3>1
  <2> QED
    BY <1>2, <1>4, <1>7, <2>1 DEF PrevLinks
<1>10. \A d \in Conn : d # c => own'[d] = own[d]
  BY DEF Leave, ReadEntry, ListInv, TypeInv, TypeOK
<1>11. /\ place'[c] \in {"entry", "next"} => own'[c].n = Nth(k + 1)
       /\ place'[c] = "next" => own'[c].p = Nth(k - 1)
  <2>1. CASE Leave(c)
    <3>1. place'[c] = "entry" /\ own'[c].n = next[c]
      BY <2>1 DEF Leave, To, ListInv, TypeInv, TypeOK
    <3> QED
      BY <1>8, <3>1
  <2>2. CASE ReadEntry(c)
    <3>1. place[c] = "entry" /\ own'[c].n = own[c].n /\ own'[c].p = prev[c]
      BY <2>2 DEF ReadEntry, ListInv, TypeInv, TypeOK
    <3>2. own[c].n = Nth(k + 1)
      BY <1>2, <1>4, <3>1 DEF OwnHas
    <3> QED
      BY <1>9, <3>1, <3>2
  <2> QED
    BY <2>1, <2>2
<1>12. OwnHas'
  <2>1. ASSUME NEW i \in 1..n
        PROVE  /\ place'[order[i]] \in {"entry", "next", "prev"} => own'[order[i]].n = Nth(i + 1)
               /\ place'[order[i]] \in {"next", "prev"} => own'[order[i]].p = Nth(i - 1)
               /\ place'[order[i]] # "prev"
    <3>1. CASE i = k
      BY <1>4, <1>8, <1>11, <3>1
    <3>2. CASE i # k
      BY <1>2, <1>6, <3>2
    <3> QED
      BY <3>1, <3>2
  <2> QED
    BY <1>1, <1>4, <1>5, <2>1 DEF OwnHas
<1>13. NextLinks'
  BY <1>1, <1>2, <1>5 DEF NextLinks
<1>14. \A i \in 1..n : place[order[i]] # "prev"
  BY <1>2, <1>4, <1>6, <1>8
<1>15. PrevLinks'
  BY <1>1, <1>2, <1>4, <1>5, <1>14 DEF PrevLinks
<1>16. MainHas'
  BY <1>2 DEF MainHas
<1> QED
  BY <1>12, <1>13, <1>15, <1>16 DEF Links

LEMMA UnlinkNextLinks ==
  ASSUME ListInv, ~raced', NEW c \in Conn, UnlinkNext(c)
  PROVE  Links'
<1>1. /\ OwnStep(c) /\ OwnList(c) /\ place[c] = "next" /\ place'[c] = "prev"
      /\ UNCHANGED <<order, next, own>>
      /\ prev' = [prev EXCEPT ![own[c].n] = own[c].p]
  BY DEF OwnStep, UnlinkNext, To, ListInv, TypeInv, TypeOK
<1>2. /\ ~raced /\ NextLinks /\ PrevLinks /\ OwnHas /\ main' = main
      /\ main.pc \notin {"walk", "head", "link"}
      /\ \A d \in Conn : d # c =>
           place'[d] = place[d] /\ place[d] \notin {"entry", "next", "prev"}
  BY <1>1, OwnAt DEF LinkedAt
<1>3. PICK n \in Nat : \E k \in 1..n :
        n = Len(order) /\ DOMAIN order = 1..n /\ order[k] = c
  BY <1>1, OwnAt DEF LinkedAt
<1>4. PICK k \in 1..n : n = Len(order) /\ DOMAIN order = 1..n /\ order[k] = c
  BY <1>3
<1>5. \A i : Nth(i)' = Nth(i)
  BY <1>1 DEF Nth
<1>6. \A i \in 1..n : i # k => order[i] # c /\ order[i] \in Conn
  BY <1>4, NthIs DEF ListInv, TypeInv, Ordered
<1>7. own[c].n = Nth(k + 1) /\ own[c].p = Nth(k - 1)
  BY <1>1, <1>2, <1>4 DEF OwnHas
<1>8. k + 1 \in Int /\ Nth(k + 1) \in Node /\ prev \in [Node -> Node]
  BY NthIs DEF ListInv, TypeInv, TypeOK
<1>9. prev'[Nth(k + 1)] = Nth(k - 1)
  BY <1>1, <1>7, <1>8
<1>10. ASSUME NEW i \in 0..n, i # k
       PROVE  prev'[Nth(i + 1)] = Nth(i)
  <2>1. prev[Nth(i + 1)] = Nth(i)
    <3>1. i \in DOMAIN order => place[order[i]] # "prev"
      BY <1>2, <1>4, <1>6, <1>10
    <3> QED
      BY <1>2, <1>4, <3>1 DEF PrevLinks
  <2>2. Nth(i + 1) # Nth(k + 1)
    <3>1. i + 1 \in 1..(n + 1) /\ k + 1 \in 1..(n + 1) /\ i + 1 # k + 1
      BY <1>10
    <3> QED
      BY <1>4, <3>1, NthApart DEF ListInv
  <2>3. i + 1 \in Int /\ Nth(i + 1) \in Node
    BY NthIs DEF ListInv
  <2> QED
    BY <1>1, <1>7, <1>8, <2>1, <2>2, <2>3
<1>11. NextLinks'
  BY <1>1, <1>2, <1>5 DEF NextLinks
<1>12. PrevLinks'
  BY <1>1, <1>4, <1>5, <1>10 DEF PrevLinks
<1>13. MainHas'
  BY <1>2 DEF MainHas
<1>14. OwnHas'
  <2>1. ASSUME NEW i \in 1..n
        PROVE  /\ place'[order[i]] \in {"entry", "next", "prev"} => own[order[i]].n = Nth(i + 1)
               /\ place'[order[i]] \in {"next", "prev"} => own[order[i]].p = Nth(i - 1)
               /\ place'[order[i]] = "prev" => prev'[Nth(i + 1)] = Nth(i - 1)
    <3>1. CASE i = k
      BY <1>4, <1>7, <1>9, <3>1
    <3>2. CASE i # k
      BY <1>2, <1>6, <3>2
    <3> QED
      BY <3>1, <3>2
  <2> QED
    BY <1>1, <1>4, <1>5, <2>1 DEF OwnHas
<1> QED
  BY <1>11, <1>12, <1>13, <1>14 DEF Links

(* Without the k-th client, the later ones are one place further up.       *)
LEMMA NthWithout ==
  ASSUME TypeInv, NEW k \in DOMAIN order, order' = Without(order, order[k])
  PROVE  /\ Len(order') = Len(order) - 1 /\ DOMAIN order' = 1..(Len(order) - 1)
         /\ \A i \in 0..Len(order) : Nth(i)' = Nth(IF i < k THEN i ELSE i + 1)
<1>1. PICK n \in Nat : n = Len(order) /\ DOMAIN order = 1..n
  BY NthIs
<1>2. /\ order' \in Seq(Conn) /\ Len(order') = n - 1
      /\ \A i \in 1..(n - 1) : order'[i] = order[IF i < k THEN i ELSE i + 1]
  BY <1>1, WithoutIs
<1>3. DOMAIN order' = 1..(n - 1) /\ k \in 1..n
  BY <1>1, <1>2
<1>4. ASSUME NEW i \in 0..n
      PROVE  Nth(i)' = Nth(IF i < k THEN i ELSE i + 1)
  <2>1. CASE i \in 1..(n - 1)
    <3>1. (IF i < k THEN i ELSE i + 1) \in DOMAIN order
      BY <1>1, <1>3, <2>1
    <3> QED
      BY <1>2, <1>3, <2>1, <3>1 DEF Nth
  <2>2. CASE i \notin 1..(n - 1)
    <3>1. (IF i < k THEN i ELSE i + 1) \notin DOMAIN order
      BY <1>1, <1>3, <2>2
    <3> QED
      BY <1>3, <2>2, <3>1 DEF Nth
  <2> QED
    BY <2>1, <2>2
<1> QED
  BY <1>1, <1>2, <1>3, <1>4

LEMMA UnlinkPrevLinks ==
  ASSUME ListInv, ~raced', NEW c \in Conn, UnlinkPrev(c)
  PROVE  Links'
<1>1. /\ OwnStep(c) /\ OwnList(c) /\ place[c] = "prev" /\ place'[c] = "unlinked"
      /\ order' = Without(order, c) /\ prev' = prev
      /\ next' = [next EXCEPT ![own[c].p] = own[c].n]
      /\ \A d \in Conn : d # c => own'[d] = own[d]
  BY DEF OwnStep, UnlinkPrev, Unlinked, To, ListInv, TypeInv, TypeOK
<1>2. /\ ~raced /\ NextLinks /\ PrevLinks /\ OwnHas /\ main' = main
      /\ main.pc \notin {"walk", "head", "link"}
      /\ \A d \in Conn : d # c =>
           place'[d] = place[d] /\ place[d] \notin {"entry", "next", "prev"}
  BY <1>1, OwnAt DEF LinkedAt
<1>3. PICK n \in Nat : \E k \in 1..n :
        n = Len(order) /\ DOMAIN order = 1..n /\ order[k] = c
  BY <1>1, OwnAt DEF LinkedAt
<1>4. PICK k \in 1..n : n = Len(order) /\ DOMAIN order = 1..n /\ order[k] = c
  BY <1>3
<1>5. /\ Len(order') = n - 1 /\ DOMAIN order' = 1..(n - 1)
      /\ \A i \in 0..n : Nth(i)' = Nth(IF i < k THEN i ELSE i + 1)
  BY <1>1, <1>4, NthWithout DEF ListInv
<1>6. \A i \in 1..n : i # k => order[i] # c /\ order[i] \in Conn
  BY <1>4, NthIs DEF ListInv, TypeInv, Ordered
<1>7. /\ own[c].n = Nth(k + 1) /\ own[c].p = Nth(k - 1)
      /\ prev[Nth(k + 1)] = Nth(k - 1)
  BY <1>1, <1>2, <1>4 DEF OwnHas
<1>8. /\ \A i \in 0..n : next[Nth(i)] = Nth(i + 1)
      /\ \A i \in 0..n : i # k => prev[Nth(i + 1)] = Nth(i)
  <2>1. \A i \in 1..n : i # k => place[order[i]] # "prev"
    BY <1>2, <1>6
  <2> QED
    BY <1>2, <1>4, <2>1 DEF NextLinks, PrevLinks
<1>9. /\ next \in [Node -> Node] /\ k - 1 \in 0..n
      /\ \A i \in 0..n : Nth(i) \in Node
      /\ \A i, j \in 0..n : Nth(i) = Nth(j) => i = j
  BY <1>4, NthIs, NthApart DEF ListInv, TypeInv, TypeOK
<1>10. \A i \in 0..n :
         next'[Nth(i)] = IF i = k - 1 THEN Nth(k + 1) ELSE Nth(i + 1)
  BY <1>1, <1>7, <1>8, <1>9
<1>11. ASSUME NEW i \in 0..(n - 1)
       PROVE  next'[Nth(i)'] = Nth(i + 1)' /\ prev'[Nth(i + 1)'] = Nth(i)'
  <2>1. i \in 0..n /\ i + 1 \in 0..n
    BY <1>11
  <2>2. CASE i < k - 1
    <3>1. Nth(i)' = Nth(i) /\ Nth(i + 1)' = Nth(i + 1) /\ i # k /\ i # k - 1
      BY <1>5, <2>1, <2>2
    <3> QED
      BY <1>1, <1>8, <1>10, <2>1, <3>1
  <2>3. CASE i = k - 1
    <3>1. Nth(i)' = Nth(i) /\ Nth(i + 1)' = Nth((i + 1) + 1) /\ (i + 1) + 1 = k + 1
      BY <1>5, <2>1, <2>3
    <3> QED
      BY <1>1, <1>7, <1>10, <2>1, <2>3, <3>1
  <2>4. CASE i > k - 1
    <3>1. Nth(i)' = Nth(i + 1) /\ Nth(i + 1)' = Nth((i + 1) + 1)
      BY <1>5, <2>1, <2>4
    <3>2. i + 1 # k /\ i + 1 # k - 1
      BY <2>4
    <3> QED
      BY <1>1, <1>8, <1>10, <2>1, <3>1, <3>2
  <2> QED
    BY <2>2, <2>3, <2>4
<1>12. NextLinks' /\ PrevLinks'
  BY <1>5, <1>11 DEF NextLinks, PrevLinks
<1>13. MainHas'
  BY <1>2 DEF MainHas
<1>14. OwnHas'
  <2>1. \A d \in Conn : place'[d] \notin {"entry", "next", "prev"}
    BY <1>1, <1>2
  <2>2. \A i \in DOMAIN order' : order'[i] \in Conn
    <3>1. order' \in Seq(Conn)
      BY <1>1, OwnKeeps DEF ListInv
    <3> QED
      BY <3>1
  <2> QED
    BY <2>1, <2>2 DEF OwnHas
<1> QED
  BY <1>12, <1>13, <1>14 DEF Links

LEMMA LinksStep ==
  ASSUME ListInv, [Next]_vars
  PROVE  Links'
<1> SUFFICES ASSUME ~raced' PROVE Links'
  BY DEF Links
<1>1. main'.pc # "wild" /\ \A c \in Conn : place'[c] # "wild"
  BY AloneStep DEF Alone
<1>2. ~MainWild /\ \A c \in Conn : ~OwnWild(c)
  BY <1>1 DEF MainWild, OwnWild, To, ListInv, TypeInv, TypeOK
<1>3. CASE UNCHANGED vars
  BY <1>3 DEF vars, list, ListInv, Links, NextLinks, PrevLinks, MainHas, OwnHas, Nth
<1>4. \/ (\E c \in Conn : Accept(c)) \/ WalkOn \/ Found \/ Known
      \/ CountStep
      \/ AddRead \/ AddHead \/ AddLink
      \/ \E c \in Conn : Leave(c) \/ ReadEntry(c)
      \/ \E c \in Conn : UnlinkNext(c)
      \/ \E c \in Conn : UnlinkPrev(c)
      \/ UNCHANGED vars
  BY <1>2, Steps DEF CountStep
<1> QED
  BY <1>3, <1>4, MainLinks, CountLinks, AddLinks, ReadLinks, UnlinkNextLinks,
     UnlinkPrevLinks

(* The lookup has passed clients of other addresses only, and nobody comes *)
(* in between the lookup and the addition.                                 *)
Passed == \E i \in 1..(Len(order) + 1) :
            main.pos = Nth(i) /\ \A j \in 1..(i - 1) : Unknown(j)
AtKnown == \E i \in DOMAIN order : main.pos = order[i] /\ ~Unknown(i)
AllUnknown == \A i \in DOMAIN order : Unknown(i)
Distinct == \A i, j \in DOMAIN order : i # j => IP[order[i]] # IP[order[j]]

LEMMA AddressesAre ==
  Addresses <=>
    (~raced => /\ main.pc = "walk" => Passed
               /\ main.pc = "found" => AtKnown
               /\ main.pc \in {"count", "add", "head", "link"} => AllUnknown
               /\ Distinct)
BY DEF Addresses, Passed, AtKnown, AllUnknown, Distinct

LEMMA FoundAddresses ==
  ASSUME ListInv, ~raced', Found
  PROVE  AtKnown' /\ main'.pc = "found"
<1>1. ~raced /\ order' = order
  BY Quiet DEF Found, list
<1>2. /\ main.pc = "walk" /\ main'.pc = "found" /\ main'.pos = main.pos
      /\ main'.conn = main.conn /\ main.pos # List /\ IP[main.pos] = IP[main.conn]
  BY DEF Found, Matches, ListInv, TypeInv, TypeOK
<1>3. PICK i \in 1..(Len(order) + 1) : main.pos = Nth(i)
  BY <1>1, <1>2 DEF ListInv, Addresses
<1>4. /\ Len(order) \in Nat /\ DOMAIN order = 1..Len(order) /\ Nth(Len(order) + 1) = List
      /\ \A j \in DOMAIN order : Nth(j) = order[j]
  BY NthIs DEF ListInv
<1>5. i \in DOMAIN order /\ Nth(i) = order[i]
  BY <1>2, <1>3, <1>4
<1> QED
  BY <1>1, <1>2, <1>3, <1>5 DEF AtKnown, Unknown

LEMMA WalkAddresses ==
  ASSUME ListInv, ~raced', (\E c \in Conn : Accept(c)) \/ WalkOn \/ NewClient
  PROVE  /\ main'.pc = "walk" => Passed'
         /\ main'.pc \in {"count", "add", "head", "link"} => AllUnknown'
<1>1. ~raced /\ order' = order
  <2>1. (\A c \in Conn : Accept(c) => MainList) /\ (WalkOn => MainList)
    BY DEF Accept, WalkOn
  <2>2. order' = order
    BY DEF Accept, WalkOn, NewClient, list, MainCount
  <2>3. NewClient => ~raced
    BY DEF NewClient, MainCount
  <2> QED
    BY <2>1, <2>2, <2>3, Quiet
<1>2. NextLinks /\ (main.pc = "walk" => Passed)
  BY <1>1, AddressesAre DEF ListInv, Links
<1>3. PICK n \in Nat :
        n = Len(order) /\ DOMAIN order = 1..n /\ Nth(0) = List /\ Nth(n + 1) = List
  BY NthIs DEF ListInv
<1>4. \A i : Nth(i)' = Nth(i)
  BY <1>1 DEF Nth
<1>5. \A i \in DOMAIN order : Nth(i) = order[i] /\ order[i] # List
  BY NthIs, RegistryAssumption DEF ListInv
<1>6. ASSUME NEW c \in Conn, Accept(c)
      PROVE  main'.pc = "walk" /\ Passed'
  <2>1. main'.pc = "walk" /\ main'.pos = next[List]
    BY <1>6 DEF Accept, ListInv, TypeInv, TypeOK
  <2>2. next[List] = Nth(1)
    <3>1. 0 \in 0..n /\ 0 + 1 = 1
      OBVIOUS
    <3> QED
      BY <1>2, <1>3, <3>1 DEF NextLinks
  <2>3. 1 \in 1..(n + 1) /\ 1..(1 - 1) = {}
    OBVIOUS
  <2> QED
    BY <1>1, <1>3, <1>4, <2>1, <2>2, <2>3 DEF Passed
<1>7. CASE WalkOn
  <2>1. /\ main.pc = "walk" /\ main'.pc = "walk" /\ main'.conn = main.conn
        /\ main.pos # List /\ IP[main.pos] # IP[main.conn] /\ main'.pos = next[main.pos]
    BY <1>7 DEF WalkOn, Matches, Onward, ListInv, TypeInv, TypeOK
  <2>2. PICK i \in 1..(n + 1) : main.pos = Nth(i) /\ \A j \in 1..(i - 1) : Unknown(j)
    BY <1>2, <1>3, <2>1 DEF Passed
  <2>3. i \in 1..n
    BY <1>3, <2>1, <2>2
  <2>4. Unknown(i) /\ next[Nth(i)] = Nth(i + 1)
    <3>1. i \in 0..n
      BY <2>3
    <3> QED
      BY <1>2, <1>3, <1>5, <2>1, <2>2, <2>3, <3>1 DEF Unknown, NextLinks
  <2>5. i + 1 \in 1..(n + 1) /\ \A j \in 1..((i + 1) - 1) : Unknown(j)
    BY <2>2, <2>3, <2>4
  <2>6. \A j : Unknown(j)' <=> Unknown(j)
    BY <1>1, <2>1 DEF Unknown
  <2> QED
    BY <1>1, <1>3, <1>4, <2>1, <2>2, <2>4, <2>5, <2>6 DEF Passed
<1>8. CASE NewClient
  <2>1. /\ main.pc = "walk" /\ main.pos = List
        /\ main'.pc = "count" /\ main'.conn = main.conn
    BY <1>8 DEF NewClient, ListInv, TypeInv, TypeOK
  <2>2. PICK i \in 1..(n + 1) : main.pos = Nth(i) /\ \A j \in 1..(i - 1) : Unknown(j)
    BY <1>2, <1>3, <2>1 DEF Passed
  <2>3. i = n + 1
    BY <1>3, <1>5, <2>1, <2>2
  <2>4. AllUnknown
    BY <1>3, <2>2, <2>3 DEF AllUnknown
  <2> QED
    BY <1>1, <2>1, <2>4 DEF AllUnknown, Unknown
<1> QED
  BY <1>6, <1>7, <1>8

LEMMA AddAddresses ==
  ASSUME ListInv, ~raced', AddLink
  PROVE  Distinct'
<1>1. /\ ~raced /\ main.pc = "link" /\ main.conn \in Conn
      /\ order' = Append(order, main.conn)
  BY Quiet DEF AddLink, ListInv, TypeInv, TypeOK, Held
<1>2. AllUnknown /\ Distinct
  BY <1>1, AddressesAre DEF ListInv
<1>3. PICK n \in Nat : n = Len(order) /\ DOMAIN order = 1..n /\ order \in Seq(Conn)
  BY NthIs, OrderType DEF ListInv, TypeInv
<1>4. /\ DOMAIN order' = 1..(n + 1) /\ order'[n + 1] = main.conn
      /\ \A i \in 1..n : order'[i] = order[i]
  BY <1>1, <1>3
<1>5. \A i \in 1..n : IP[order'[i]] # IP[order'[n + 1]]
  BY <1>2, <1>3, <1>4 DEF AllUnknown, Unknown
<1>6. \A i, j \in 1..n : i # j => IP[order'[i]] # IP[order'[j]]
  BY <1>2, <1>3, <1>4 DEF Distinct
<1>7. \A i \in 1..(n + 1) : i \in 1..n \/ i = n + 1
  OBVIOUS
<1> QED
  BY <1>4, <1>5, <1>6, <1>7 DEF Distinct

LEMMA DelAddresses ==
  ASSUME ListInv, ~raced', NEW c \in Conn, UnlinkPrev(c)
  PROVE  /\ Distinct' /\ main'.pc \notin {"walk", "found"}
         /\ main'.pc \in {"count", "add", "head", "link"} => AllUnknown'
<1>1. /\ ~raced /\ main' = main /\ main.pc \notin {"walk", "found"} /\ place[c] = "prev"
      /\ order' = Without(order, c)
  BY Quiet DEF UnlinkPrev, OwnList, MainInList
<1>2. (main.pc \in {"count", "add", "head", "link"} => AllUnknown) /\ Distinct
  BY <1>1, AddressesAre DEF ListInv
<1>3. PICK k \in DOMAIN order : order[k] = c
  BY <1>1, OwnIndex DEF ListInv, ListedAt, LinkedAt
<1>4. PICK n \in Nat : n = Len(order) /\ DOMAIN order = 1..n
  BY NthIs DEF ListInv
<1>5. /\ order' \in Seq(Conn) /\ Len(order') = n - 1
      /\ \A i \in 1..(n - 1) : order'[i] = order[IF i < k THEN i ELSE i + 1]
  BY <1>1, <1>3, <1>4, WithoutIs DEF ListInv
<1>6. DOMAIN order' = 1..(n - 1)
  BY <1>4, <1>5
<1>7. /\ \A i \in 1..(n - 1) : (IF i < k THEN i ELSE i + 1) \in 1..n
      /\ \A i, j \in 1..(n - 1) :
           i # j => (IF i < k THEN i ELSE i + 1) # (IF j < k THEN j ELSE j + 1)
  BY <1>3, <1>4
<1>8. Distinct'
  <2> SUFFICES ASSUME NEW i \in 1..(n - 1), NEW j \in 1..(n - 1), i # j
               PROVE  IP[order'[i]] # IP[order'[j]]
    BY <1>6 DEF Distinct
  <2> DEFINE at(m) == IF m < k THEN m ELSE m + 1
  <2>1. at(i) \in DOMAIN order /\ at(j) \in DOMAIN order /\ at(i) # at(j)
    BY <1>3, <1>4
  <2>2. IP[order[at(i)]] # IP[order[at(j)]]
    <3> HIDE DEF at
    <3> QED
      BY <2>1, <1>2 DEF Distinct
  <2>3. order'[i] = order[at(i)] /\ order'[j] = order[at(j)]
    BY <1>5
  <2> QED
    BY <2>2, <2>3
<1>9. AllUnknown => AllUnknown'
  <2> SUFFICES ASSUME AllUnknown, NEW i \in 1..(n - 1)
               PROVE  IP[order'[i]] # IP[main.conn]
    BY <1>1, <1>6 DEF AllUnknown, Unknown
  <2> QED
    BY <1>4, <1>5, <1>7 DEF AllUnknown, Unknown
<1> QED
  BY <1>1, <1>2, <1>8, <1>9

LEMMA AddressesStep ==
  ASSUME ListInv, [Next]_vars
  PROVE  Addresses'
<1> DEFINE addresses ==
      /\ main.pc = "walk" => Passed
      /\ main.pc = "found" => AtKnown
      /\ main.pc \in {"count", "add", "head", "link"} => AllUnknown
      /\ Distinct
<1> SUFFICES ASSUME ~raced' PROVE addresses'
  BY DEF Addresses, Passed, AtKnown, AllUnknown, Distinct
<1>1. ~raced
  BY Steps, Quiet DEF Accept, WalkOn, Found, Known, NewClient, CountUp, AddRead, AddHead, AddLink,
     MainWild, Leave, ReadEntry, UnlinkNext, UnlinkPrev, OwnWild, Free, Test, Read,
     CountDown, Store, vars, MainCount, OwnCount
<1>2. addresses
  BY <1>1, AddressesAre DEF ListInv
<1>3. order' = order => Distinct'
  BY <1>2 DEF Distinct
<1>4. CASE (\E c \in Conn : Accept(c)) \/ WalkOn \/ NewClient
  <2>1. order' = order
    BY <1>4 DEF Accept, WalkOn, NewClient, list, MainCount
  <2>2. main'.pc # "found"
    BY <1>4 DEF Accept, WalkOn, NewClient, ListInv, TypeInv, TypeOK
  <2> QED
    BY <1>3, <1>4, <2>1, <2>2, WalkAddresses
<1>11. CASE Found
  <2>1. order' = order
    BY <1>11 DEF Found, list
  <2> QED
    BY <1>3, <1>11, <2>1, FoundAddresses
<1>5. CASE Known \/ CountUp \/ AddRead \/ AddHead \/ MainWild
  <2>1. order' = order /\ main'.pc \notin {"walk", "found"}
    BY <1>5 DEF Known, CountUp, AddRead, AddHead, MainWild, list, MainCount,
       ListInv, TypeInv, TypeOK
  <2>2. main'.pc \in {"count", "add", "head", "link"} =>
          main.pc \in {"count", "add", "head", "link"} /\ main'.conn = main.conn
    BY <1>5 DEF Known, CountUp, AddRead, AddHead, MainWild, ListInv, TypeInv, TypeOK
  <2> QED
    BY <1>2, <1>3, <2>1, <2>2 DEF AllUnknown, Unknown
<1>6. CASE AddLink
  <2>1. main'.pc = "accept"
    BY <1>6 DEF AddLink, ListInv, TypeInv, TypeOK
  <2> QED
    BY <1>6, <2>1, AddAddresses
<1>7. CASE main' = main /\ order' = order
  BY <1>2, <1>7 DEF Passed, AtKnown, AllUnknown, Distinct, Unknown, Nth
<1>8. ASSUME NEW c \in Conn, UnlinkPrev(c)
      PROVE  addresses'
  BY <1>8, DelAddresses
<1>9. ASSUME NEW c \in Conn, OwnStep(c), ~UnlinkPrev(c)
      PROVE  main' = main /\ order' = order
  BY <1>9, OwnMoves DEF ListInv
<1> HIDE DEF addresses
<1>10. CASE UNCHANGED vars
  BY <1>7, <1>10 DEF vars, list
<1> QED
  BY <1>4, <1>5, <1>6, <1>7, <1>8, <1>9, <1>10, <1>11, Actors DEF MainStep

LEMMA ListInvInit == Init => ListInv
<1> SUFFICES ASSUME Init PROVE ListInv
  OBVIOUS
<1>1. order = <<>> /\ Len(order) = 0 /\ DOMAIN order = {}
  BY DEF Init
<1>2. \A i : Nth(i) = List
  BY <1>1 DEF Nth
<1>3. List \in Node
  BY DEF Node
<1>4. next[List] = List /\ prev[List] = List /\ main.pc = "accept"
  BY <1>3 DEF Init
<1>5. Alone
  BY DEF Init, Alone, MainInList, InList
<1>6. Links
  BY <1>1, <1>2, <1>4 DEF Links, NextLinks, PrevLinks, MainHas, OwnHas
<1>7. Addresses
  BY <1>1, <1>4 DEF Addresses
<1> QED
  BY <1>5, <1>6, <1>7, TypeInvInit DEF ListInv

LEMMA ListInvStep == ListInv /\ [Next]_vars => ListInv'
BY AloneStep, LinksStep, AddressesStep, TypeInvStep DEF ListInv

(* As long as nothing races, the list is exactly the clients added and not *)
(* released, in both directions and in order.                              *)
THEOREM ListIsExact == Spec => []ListExact
<1>1. ListInv => ListExact
  <2> SUFFICES ASSUME ListInv, ~raced, InList = {}, main.pc \notin {"head", "link"}
               PROVE  /\ \A i \in 0..Len(order) :
                           next[Nth(i)] = Nth(i + 1) /\ prev[Nth(i + 1)] = Nth(i)
                      /\ {order[i] : i \in DOMAIN order} =
                           {c \in Conn : place[c] \in LinkedAt}
    BY DEF ListExact
  <2>1. \A i \in DOMAIN order : order[i] \in Conn
    BY NthIs DEF ListInv
  <2>2. \A i \in 0..Len(order) : next[Nth(i)] = Nth(i + 1) /\ prev[Nth(i + 1)] = Nth(i)
    BY <2>1 DEF ListInv, Links, NextLinks, PrevLinks, InList
  <2>3. \A c \in Conn : place[c] # "wild"
    BY DEF ListInv, Alone
  <2>4. \A i \in DOMAIN order : place[order[i]] \in LinkedAt
    BY <2>1, <2>3 DEF ListInv, TypeInv, Ordered, ListedAt
  <2>5. \A c \in Conn : place[c] \in LinkedAt => \E i \in DOMAIN order : order[i] = c
    BY OwnIndex DEF ListInv, ListedAt
  <2> QED
    BY <2>1, <2>2, <2>4, <2>5
<1> QED
  BY <1>1, ListInvInit, ListInvStep, PTL DEF Spec

(* Without a race nobody reaches a freed client.                           *)
THEOREM NoUseAfterFree == Spec => []UseAfterFreeNeedsRace
<1>1. ListInv => UseAfterFreeNeedsRace
  BY DEF ListInv, Alone, UseAfterFreeNeedsRace
<1> QED
  BY <1>1, ListInvInit, ListInvStep, PTL DEF Spec

(* Without a race one address has one client.                              *)
THEOREM OneServed == Spec => []OneServedPerIp
<1>1. ListInv => OneServedPerIp
  <2> SUFFICES ASSUME ListInv, ~raced, NEW c \in Conn, NEW d \in Conn, c # d,
                      place[c] \in LinkedAt, place[d] \in LinkedAt
               PROVE  IP[c] # IP[d]
    BY DEF OneServedPerIp
  <2>1. PICK i \in DOMAIN order : order[i] = c
    BY OwnIndex DEF ListInv, ListedAt
  <2>2. PICK j \in DOMAIN order : order[j] = d
    BY OwnIndex DEF ListInv, ListedAt
  <2> QED
    BY <2>1, <2>2 DEF ListInv, Addresses
<1> QED
  BY <1>1, ListInvInit, ListInvStep, PTL DEF Spec

(* A connection is dropped only while its address is in the list.          *)
THEOREM DroppedOnlyKnown == Spec => DroppedOnlyIfKnown
<1> DEFINE drops ==
      \A c \in Conn : place[c] # "dropped" /\ place'[c] = "dropped" =>
        raced' \/ \E i \in 1..Len(order) : IP[order[i]] = IP[c]
<1>1. ListInv /\ [Next]_vars => drops
  <2> SUFFICES ASSUME ListInv, [Next]_vars, ~raced',
                      NEW c \in Conn, place[c] # "dropped", place'[c] = "dropped"
               PROVE  \E i \in 1..Len(order) : IP[order[i]] = IP[c]
    OBVIOUS
  <2>1. \A d \in Conn : ~OwnStep(d)
    <3> SUFFICES ASSUME NEW d \in Conn, OwnStep(d) PROVE FALSE
      OBVIOUS
    <3>1. PICK q \in Places :
            place' = [place EXCEPT ![d] = q] /\ q \in CountedAt \cup FreedAt
      BY OwnMoves DEF ListInv
    <3>2. q # "dropped"
      BY <3>1 DEF CountedAt, LinkedAt, FreedAt
    <3> QED
      BY <3>1, <3>2
  <2>2. Known
    BY <2>1, Actors DEF MainStep, Accept, WalkOn, Found, NewClient, CountUp, AddRead, AddHead,
       AddLink, MainWild, MainCount, vars, ListInv, TypeInv, TypeOK
  <2>3. ~raced /\ main.pc = "found" /\ c = main.conn
    BY <2>2, Quiet DEF Known, ListInv, TypeInv, TypeOK
  <2>4. PICK i \in DOMAIN order : main.pos = order[i] /\ ~Unknown(i)
    BY <2>3 DEF ListInv, Addresses
  <2>5. DOMAIN order = 1..Len(order)
    BY NthIs DEF ListInv
  <2> QED
    BY <2>3, <2>4, <2>5 DEF Unknown
<1> QED
  BY <1>1, ListInvInit, ListInvStep, PTL DEF Spec, DroppedOnlyIfKnown

----------------------------------------------------------------------------
(* The lookup ends, whatever races.  Every link there is, in the list, in  *)
(* a client taken out of it or on somebody's hands, leads to a client that *)
(* has been made, forward to a younger one and back to an older one.       *)

Older(c, d) == d \in Conn => born[c] < born[d]
Younger(c, d) == d \in Conn => born[d] < born[c]

LeadsOn ==
  /\ \A c \in Conn : Older(c, next[c]) /\ Younger(c, prev[c])
  /\ \A c \in Conn : /\ place[c] \in {"entry", "next", "prev"} => Older(c, own[c].n)
                     /\ place[c] \in {"next", "prev"} => Younger(c, own[c].p)
  /\ main.pc \in {"head", "link"} => Younger(main.conn, main.pre)

(* A client that a link or a pointer leads to is not about to be made, nor *)
(* the one that is not linked yet.                                         *)
Linked(d) ==
  d \in Conn => born[d] > 0 /\ (main.pc \in {"add", "head"} => d # main.conn)

LinkedOnly ==
  /\ \A d \in Node : Linked(next[d]) /\ Linked(prev[d])
  /\ \A c \in Conn : Linked(own[c].n) /\ Linked(own[c].p)
  /\ Linked(main.pre)

Made == {c \in Conn : born[c] > 0}

Births ==
  /\ \A c \in Conn : born[c] = 0 => next[c] = List
  /\ \A c \in Conn : born[c] <= Cardinality(Made)
  /\ \A c \in Conn : place[c] = "none" => born[c] = 0
  /\ main.pc \in {"walk", "found", "count"} => born[main.conn] = 0
  /\ main.pc \in {"add", "head", "link"} =>
       /\ born[main.conn] > 0
       /\ \A c \in Conn : c # main.conn => born[c] < born[main.conn]

LeadInv == TypeInv /\ LeadsOn /\ LinkedOnly /\ Births

LEMMA Shapes ==
  ASSUME TypeInv
  PROVE  /\ place \in [Conn -> Places] /\ born \in [Conn -> Nat]
         /\ own \in [Conn -> [p: Node, n: Node, num: Num]]
         /\ next \in [Node -> Node] /\ prev \in [Node -> Node]
         /\ main \in [pc: {"accept", "walk", "found", "count", "add", "head", "link", "wild"},
                      conn: Node, pos: Node, pre: Node, num: Num]
         /\ List \in Node /\ List \notin Conn /\ Conn \subseteq Node
         /\ \A d \in Node : d \in Conn \/ d = List
         /\ main.pc \notin {"accept", "wild"} => main.conn \in Conn
BY RegistryAssumption DEF TypeInv, TypeOK, Held, Node

LEMMA LeadOwn ==
  ASSUME LeadInv, NEW c \in Conn, OwnStep(c)
  PROVE  LeadsOn' /\ LinkedOnly' /\ Births'
<1> USE DEF LeadInv
<1>1. main' = main /\ born' = born
  BY DEF OwnStep, Leave, ReadEntry, UnlinkNext, UnlinkPrev, OwnWild, Free, Test, Read,
         CountDown, Store, OwnList, OwnCount
<1>2. PICK q \in Places : place' = [place EXCEPT ![c] = q] /\ q \in CountedAt \cup FreedAt
  BY OwnMoves
<1>3. \A d \in Conn : place'[d] = "none" => place[d] = "none"
  BY <1>2, Shapes DEF CountedAt, LinkedAt, FreedAt
<1>4. /\ born \in [Conn -> Nat] /\ next \in [Node -> Node] /\ prev \in [Node -> Node]
      /\ own \in [Conn -> [p: Node, n: Node, num: Num]] /\ place \in [Conn -> Places]
      /\ List \in Node /\ List \notin Conn /\ Conn \subseteq Node
      /\ \A d \in Node : d \in Conn \/ d = List
  BY Shapes
<1>5. \A d : Linked(d)' <=> Linked(d)
  BY <1>1 DEF Linked
<1>6. Cardinality(Made)' = Cardinality(Made)
  BY <1>1 DEF Made
<1>7. \A d, e : (Older(d, e)' <=> Older(d, e)) /\ (Younger(d, e)' <=> Younger(d, e))
  BY <1>1 DEF Older, Younger
<1>8. LeadsOn /\ LinkedOnly /\ Births
  OBVIOUS
<1> HIDE DEF LeadInv, Linked, Older, Younger
<1>9. ASSUME next' = next PROVE Births'
  BY <1>1, <1>3, <1>6, <1>8, <1>9 DEF Births
<1>10. CASE Leave(c)
  <2>1. /\ place' = [place EXCEPT ![c] = "entry"] /\ own' = [own EXCEPT ![c].n = next[c]]
        /\ next' = next /\ prev' = prev
    BY <1>10 DEF Leave, To, list
  <2>2. /\ own'[c].n = next[c] /\ own'[c].p = own[c].p
        /\ \A d \in Conn : d # c => own'[d] = own[d] /\ place'[d] = place[d]
        /\ place'[c] = "entry" /\ next[c] \in Node
    BY <1>4, <2>1
  <2>3. LeadsOn'
    BY <1>1, <1>7, <1>8, <2>1, <2>2 DEF LeadsOn
  <2>4. LinkedOnly'
    BY <1>1, <1>4, <1>5, <1>8, <2>1, <2>2 DEF LinkedOnly
  <2> QED
    BY <1>9, <2>1, <2>3, <2>4
<1>11. CASE ReadEntry(c)
  <2>1. /\ place' = [place EXCEPT ![c] = "next"] /\ own' = [own EXCEPT ![c].p = prev[c]]
        /\ next' = next /\ prev' = prev /\ place[c] = "entry"
    BY <1>11 DEF ReadEntry, To, list
  <2>2. /\ own'[c].p = prev[c] /\ own'[c].n = own[c].n
        /\ \A d \in Conn : d # c => own'[d] = own[d] /\ place'[d] = place[d]
        /\ place'[c] = "next" /\ prev[c] \in Node
    BY <1>4, <2>1
  <2>3. LeadsOn'
    BY <1>1, <1>7, <1>8, <2>1, <2>2 DEF LeadsOn
  <2>4. LinkedOnly'
    BY <1>1, <1>4, <1>5, <1>8, <2>1, <2>2 DEF LinkedOnly
  <2> QED
    BY <1>9, <2>1, <2>3, <2>4
<1>12. CASE UnlinkNext(c)
  <2>1. /\ place' = [place EXCEPT ![c] = "prev"] /\ own' = own /\ next' = next
        /\ prev' = [prev EXCEPT ![own[c].n] = own[c].p] /\ place[c] = "next"
    BY <1>12 DEF UnlinkNext, To, OwnList
  <2>2. PICK p \in Node, n \in Node : p = own[c].p /\ n = own[c].n
    BY <1>4
  <2>3. Older(c, n) /\ Younger(c, p) /\ Linked(p)
    BY <1>8, <2>1, <2>2 DEF LeadsOn, LinkedOnly
  <2>4. n \in Conn => Younger(n, p)
    BY <1>4, <2>3 DEF Older, Younger
  <2>5. \A d \in Node : prev'[d] = IF d = n THEN p ELSE prev[d]
    BY <1>4, <2>1, <2>2
  <2>6. \A d \in Conn : place'[d] = IF d = c THEN "prev" ELSE place[d]
    BY <1>4, <2>1
  <2>7. LeadsOn'
    BY <1>1, <1>4, <1>7, <1>8, <2>1, <2>4, <2>5, <2>6 DEF LeadsOn
  <2>8. LinkedOnly'
    BY <1>1, <1>5, <1>8, <2>1, <2>3, <2>5 DEF LinkedOnly
  <2> QED
    BY <1>9, <2>1, <2>7, <2>8
<1>13. CASE UnlinkPrev(c)
  <2>1. /\ place' = [place EXCEPT ![c] = "unlinked"] /\ prev' = prev /\ place[c] = "prev"
        /\ next' = [next EXCEPT ![own[c].p] = own[c].n]
        /\ own' = [own EXCEPT ![c].p = List, ![c].n = List]
    BY <1>13 DEF UnlinkPrev, Unlinked, To
  <2>2. PICK p \in Node, n \in Node : p = own[c].p /\ n = own[c].n
    BY <1>4
  <2>3. Older(c, n) /\ Younger(c, p) /\ Linked(n) /\ Linked(p)
    BY <1>8, <2>1, <2>2 DEF LeadsOn, LinkedOnly
  <2>4. p \in Conn => Older(p, n) /\ born[p] # 0
    BY <1>4, <2>3 DEF Older, Younger, Linked
  <2>5. \A d \in Node : next'[d] = IF d = p THEN n ELSE next[d]
    BY <1>4, <2>1, <2>2
  <2>6. \A d \in Conn : d # c => place'[d] = place[d] /\ own'[d] = own[d]
    BY <1>4, <2>1
  <2>7. place'[c] = "unlinked" /\ own'[c].p = List /\ own'[c].n = List
    BY <1>4, <2>1
  <2>8. LeadsOn'
    BY <1>1, <1>4, <1>7, <1>8, <2>1, <2>4, <2>5, <2>6, <2>7 DEF LeadsOn
  <2>9. Linked(List)
    BY <1>4 DEF Linked
  <2>10. LinkedOnly'
    BY <1>1, <1>5, <1>8, <2>1, <2>3, <2>5, <2>6, <2>7, <2>9 DEF LinkedOnly
  <2>11. Births'
    BY <1>1, <1>3, <1>4, <1>6, <1>8, <2>4, <2>5 DEF Births
  <2> QED
    BY <2>8, <2>10, <2>11
<1>14. CASE OwnWild(c) \/ Free(c) \/ Test(c) \/ Read(c) \/ CountDown(c) \/ Store(c)
  <2>1. next' = next /\ prev' = prev
    BY <1>14 DEF OwnWild, Free, Test, Read, CountDown, Store, list, OwnCount
  <2>2. q \notin {"entry", "next", "prev"}
    <3>1. \E r \in {"wild", "counted", "hung", "store", "down", "take", "written", "gone"} :
            place' = [place EXCEPT ![c] = r]
      BY <1>14 DEF OwnWild, Free, Test, Read, CountDown, Store, To
    <3> QED
      BY <1>2, <1>4, <3>1
  <2>3. \A d \in Conn : own'[d].n = own[d].n /\ own'[d].p = own[d].p
    <3>1. own' = own \/ \E n : own' = [own EXCEPT ![c].num = n]
      BY <1>14 DEF OwnWild, Free, Test, Read, CountDown, Store
    <3> QED
      BY <1>4, <3>1
  <2>4. \A d \in Conn : place'[d] = IF d = c THEN q ELSE place[d]
    BY <1>2, <1>4
  <2>5. LeadsOn'
    BY <1>1, <1>7, <1>8, <2>1, <2>2, <2>3, <2>4 DEF LeadsOn
  <2>6. LinkedOnly'
    BY <1>1, <1>5, <1>8, <2>1, <2>3 DEF LinkedOnly
  <2> QED
    BY <1>9, <2>1, <2>5, <2>6
<1> QED
  BY <1>10, <1>11, <1>12, <1>13, <1>14 DEF OwnStep

(* main() on its way to client_init, or back to accept().                  *)
LEMMA LeadWalk ==
  ASSUME LeadInv,
         (\E c \in Conn : Accept(c)) \/ WalkOn \/ Found \/ Known \/ NewClient \/ MainWild
  PROVE  LeadsOn' /\ LinkedOnly' /\ Births'
<1> USE DEF LeadInv
<1>1. /\ born \in [Conn -> Nat] /\ List \in Node /\ List \notin Conn /\ Conn \subseteq Node
      /\ place \in [Conn -> Places]
      /\ main \in [pc: {"accept", "walk", "found", "count", "add", "head", "link", "wild"},
                   conn: Node, pos: Node, pre: Node, num: Num]
  BY Shapes
<1>2. next' = next /\ prev' = prev /\ own' = own /\ born' = born
  BY DEF Accept, WalkOn, Found, Known, NewClient, MainWild, MainList, MainCount, list
<1>3. main'.pre = main.pre /\ main'.pc \notin {"add", "head", "link"}
  BY <1>1 DEF Accept, WalkOn, Found, Known, NewClient, MainWild
<1>4. \A d : Linked(d) => Linked(d)'
  BY <1>2, <1>3 DEF Linked
<1>5. Cardinality(Made)' = Cardinality(Made)
  BY <1>2 DEF Made
<1>6. \A d, e : (Older(d, e)' <=> Older(d, e)) /\ (Younger(d, e)' <=> Younger(d, e))
  BY <1>2 DEF Older, Younger
<1>7. LeadsOn /\ LinkedOnly /\ Births
  OBVIOUS
<1>8. \A c \in Conn : place'[c] # place[c] =>
        place[c] \in {"none", "accepted"} /\ place'[c] \in {"accepted", "dropped"}
  <2>1. ASSUME NEW c \in Conn, Accept(c)
        PROVE  \A d \in Conn : place'[d] # place[d] =>
                 place[d] \in {"none", "accepted"} /\ place'[d] \in {"accepted", "dropped"}
    BY <1>1, <2>1 DEF Accept
  <2>2. CASE Known
    <3>1. /\ place' = [place EXCEPT ![main.conn] = "dropped"]
          /\ main.conn \in Conn /\ place[main.conn] = "accepted"
      BY <2>2 DEF Known, TypeInv, Held
    <3> QED
      BY <1>1, <3>1
  <2>3. CASE WalkOn \/ Found \/ NewClient \/ MainWild
    BY <2>3 DEF WalkOn, Found, NewClient, MainWild, MainCount
  <2> QED
    BY <2>1, <2>2, <2>3
<1>9. main'.pc \in {"walk", "found", "count"} => born[main'.conn] = 0
  <2>1. ASSUME NEW c \in Conn, Accept(c) PROVE born[main'.conn] = 0
    <3>1. main'.conn = c /\ place[c] = "none"
      BY <1>1, <2>1 DEF Accept
    <3> QED
      BY <1>7, <3>1 DEF Births
  <2>2. CASE WalkOn \/ Found \/ NewClient
    <3>1. main.pc = "walk" /\ main'.conn = main.conn
      BY <1>1, <2>2 DEF WalkOn, Found, NewClient
    <3> QED
      BY <1>7, <3>1 DEF Births
  <2>3. CASE Known \/ MainWild
    BY <1>1, <2>3 DEF Known, MainWild
  <2> QED
    BY <2>1, <2>2, <2>3
<1> HIDE DEF LeadInv, Linked, Older, Younger
<1>10. LeadsOn'
  BY <1>2, <1>3, <1>6, <1>7, <1>8 DEF LeadsOn
<1>11. LinkedOnly'
  BY <1>2, <1>3, <1>4, <1>7 DEF LinkedOnly
<1>12. Births'
  BY <1>2, <1>3, <1>5, <1>7, <1>8, <1>9 DEF Births
<1> QED
  BY <1>10, <1>11, <1>12

(* client_init: the youngest.                                              *)
LEMMA LeadCountUp ==
  ASSUME LeadInv, CountUp
  PROVE  LeadsOn' /\ LinkedOnly' /\ Births'
<1> USE DEF LeadInv
<1>1. /\ born \in [Conn -> Nat] /\ List \in Node /\ List \notin Conn /\ Conn \subseteq Node
      /\ place \in [Conn -> Places]
      /\ own \in [Conn -> [p: Node, n: Node, num: Num]]
      /\ next \in [Node -> Node] /\ prev \in [Node -> Node]
      /\ main \in [pc: {"accept", "walk", "found", "count", "add", "head", "link", "wild"},
                   conn: Node, pos: Node, pre: Node, num: Num]
      /\ main.pc \notin {"accept", "wild"} => main.conn \in Conn
  BY Shapes
<1>a. PICK x \in Conn : x = main.conn
  BY <1>1 DEF CountUp
<1>b. PICK k : k = Cardinality(Made) + 1
  OBVIOUS
<1>2. x \in Conn /\ x = main.conn /\ k = Cardinality(Made) + 1
  BY <1>a, <1>b
<1>3. /\ next' = next /\ prev' = prev /\ own' = own /\ place' = place
      /\ born' = [born EXCEPT ![x] = k] /\ main.pc = "count" /\ main'.pc = "add"
      /\ main'.conn = x /\ main'.pre = main.pre
  BY <1>1, <1>2 DEF CountUp, MainCount, Made
<1>4. LeadsOn /\ LinkedOnly /\ Births
  OBVIOUS
<1>5. born[x] = 0 /\ next[x] = List
  BY <1>2, <1>3, <1>4 DEF Births
<1>6. IsFiniteSet(Made) /\ Cardinality(Made) \in Nat /\ x \notin Made
  <2>1. Made \subseteq Conn /\ IsFiniteSet(Conn)
    BY RegistryAssumption DEF Made
  <2>2. IsFiniteSet(Made)
    BY <2>1, FS_Subset
  <2>3. Cardinality(Made) \in Nat
    BY <2>2, FS_CardinalityType
  <2> QED
    BY <1>5, <2>2, <2>3 DEF Made
<1>7. k \in Nat /\ k > 0 /\ \A c \in Conn : born[c] < k
  <2>1. \A c \in Conn : born[c] <= Cardinality(Made) /\ born[c] \in Nat
    BY <1>1, <1>4 DEF Births
  <2> QED
    BY <1>2, <1>6, <2>1
<1>8. \A c \in Conn : born'[c] = IF c = x THEN k ELSE born[c]
  BY <1>1, <1>3
<1>9. Cardinality(Made)' = k
  <2>1. Made' = Made \cup {x}
    BY <1>7, <1>8 DEF Made
  <2>2. Cardinality(Made \cup {x}) = Cardinality(Made) + 1
    BY <1>6, FS_AddElement
  <2> QED
    BY <1>2, <2>1, <2>2
<1>10. \A d : Linked(d) => d # x /\ Linked(d)'
  BY <1>1, <1>3, <1>5, <1>8 DEF Linked
<1>11. \A c, d : c \in Conn /\ c # x /\ Linked(d) =>
         (Older(c, d) => Older(c, d)') /\ (Younger(c, d) => Younger(c, d)')
  BY <1>8, <1>10 DEF Older, Younger
<1>12. \A d : Linked(d) => Younger(x, d)'
  BY <1>7, <1>8, <1>10 DEF Younger
<1>13. Older(x, List)'
  BY <1>1 DEF Older
<1>14. place[x] \notin {"entry", "next", "prev", "none"}
  BY <1>2, <1>3 DEF TypeInv, Held
<1> HIDE DEF LeadInv, Linked, Older, Younger
<1>15. LinkedOnly'
  BY <1>3, <1>4, <1>10 DEF LinkedOnly
<1>16. LeadsOn'
  <2>1. \A c \in Conn : Linked(next[c]) /\ Linked(prev[c]) /\ Linked(own[c].n)
                         /\ Linked(own[c].p)
    BY <1>1, <1>4 DEF LinkedOnly
  <2>2. ASSUME NEW c \in Conn
        PROVE  Older(c, next[c])' /\ Younger(c, prev[c])'
    <3>1. CASE c = x
      <4>1. Older(c, List)' /\ (next[c])' = List
        BY <1>3, <1>5, <1>13, <3>1
      <4>2. Younger(c, prev[c])'
        BY <1>3, <1>12, <2>1, <3>1 DEF Younger
      <4> QED
        BY <4>1, <4>2 DEF Older
    <3>2. CASE c # x
      BY <1>3, <1>4, <1>11, <2>1, <3>2 DEF LeadsOn, Older, Younger
    <3> QED
      BY <3>1, <3>2
  <2>3. ASSUME NEW c \in Conn
        PROVE  /\ place'[c] \in {"entry", "next", "prev"} => Older(c, own[c].n)'
               /\ place'[c] \in {"next", "prev"} => Younger(c, own[c].p)'
    BY <1>3, <1>4, <1>11, <1>14, <2>1 DEF LeadsOn, Older, Younger
  <2> QED
    BY <1>3, <2>2, <2>3 DEF LeadsOn
<1>17. Births'
  <2>1. \A c \in Conn : born'[c] = 0 => c # x /\ born[c] = 0
    BY <1>7, <1>8
  <2>2. \A c \in Conn : born'[c] <= k
    BY <1>1, <1>7, <1>8
  <2>3. \A c \in Conn : place'[c] = "none" => born'[c] = 0
    BY <1>3, <1>4, <1>8, <1>14 DEF Births
  <2>4. born'[x] > 0 /\ \A c \in Conn : c # x => born'[c] < born'[x]
    BY <1>7, <1>8
  <2> QED
    BY <1>3, <1>4, <1>9, <2>1, <2>2, <2>3, <2>4 DEF Births
<1> QED
  BY <1>15, <1>16, <1>17

(* list_add_tail: its links lead from and to the youngest.                 *)
LEMMA LeadAdd ==
  ASSUME LeadInv, AddRead \/ AddHead \/ AddLink
  PROVE  LeadsOn' /\ LinkedOnly' /\ Births'
<1> USE DEF LeadInv
<1>1. /\ born \in [Conn -> Nat] /\ List \in Node /\ List \notin Conn /\ Conn \subseteq Node
      /\ place \in [Conn -> Places]
      /\ next \in [Node -> Node] /\ prev \in [Node -> Node]
      /\ main \in [pc: {"accept", "walk", "found", "count", "add", "head", "link", "wild"},
                   conn: Node, pos: Node, pre: Node, num: Num]
      /\ main.pc \notin {"accept", "wild"} => main.conn \in Conn
      /\ \A d \in Node : d \in Conn \/ d = List
  BY Shapes
<1>2. PICK x \in Conn, pre \in Node : x = main.conn /\ pre = main.pre
  BY <1>1 DEF AddRead, AddHead, AddLink
<1>3. own' = own /\ born' = born
  BY DEF AddRead, AddHead, AddLink, MainList
<1>4. LeadsOn /\ LinkedOnly /\ Births
  OBVIOUS
<1>5. /\ main.pc \in {"add", "head", "link"} /\ born[x] > 0
      /\ \A c \in Conn : c # x => born[c] < born[x]
  <2>1. main.pc \in {"add", "head", "link"}
    BY DEF AddRead, AddHead, AddLink
  <2> QED
    BY <1>2, <1>4, <2>1 DEF Births
<1>6. Cardinality(Made)' = Cardinality(Made)
  BY <1>3 DEF Made
<1>7. \A d, e : (Older(d, e)' <=> Older(d, e)) /\ (Younger(d, e)' <=> Younger(d, e))
  BY <1>3 DEF Older, Younger
<1>8. /\ main'.pc = "head" => main.pc = "add" /\ main'.conn = x
      /\ main'.pc \in {"head", "link", "accept"}
      /\ main'.pc = "link" => main'.conn = x
  BY <1>1, <1>2 DEF AddRead, AddHead, AddLink
<1>9. \A d : Linked(d) => Linked(d)'
  BY <1>2, <1>3, <1>8 DEF Linked
<1>10. Linked(List)' /\ \A c : Older(c, List)
  BY <1>1 DEF Linked, Older
<1> HIDE DEF LeadInv, Linked, Older, Younger
<1>11. CASE AddRead
  <2>1. /\ next' = next /\ prev' = prev /\ place' = place /\ main.pc = "add"
        /\ main'.pc = "head" /\ main'.pre = prev[List] /\ main'.conn = x
    BY <1>1, <1>2, <1>11 DEF AddRead, list
  <2>2. Linked(prev[List])
    BY <1>1, <1>4 DEF LinkedOnly
  <2>3. Younger(x, prev[List])
    BY <1>2, <1>5, <2>1, <2>2 DEF Linked, Younger
  <2>4. LeadsOn'
    BY <1>3, <1>4, <1>7, <2>1, <2>3 DEF LeadsOn, Younger
  <2>5. LinkedOnly'
    BY <1>3, <1>4, <1>9, <2>1, <2>2 DEF LinkedOnly
  <2>6. Births'
    BY <1>2, <1>3, <1>4, <1>5, <1>6, <2>1 DEF Births
  <2> QED
    BY <2>4, <2>5, <2>6
<1>12. CASE AddHead
  <2>1. /\ place' = place /\ main.pc = "head" /\ main'.pc = "link" /\ main'.pre = pre
        /\ main'.conn = x /\ next' = [next EXCEPT ![x] = List]
        /\ prev' = [prev EXCEPT ![List] = x, ![x] = pre]
    BY <1>1, <1>2, <1>12 DEF AddHead
  <2>2. Younger(x, pre) /\ Linked(pre)
    BY <1>2, <1>4, <2>1 DEF LeadsOn, LinkedOnly
  <2>3. /\ \A d \in Node : next'[d] = IF d = x THEN List ELSE next[d]
        /\ \A d \in Node : prev'[d] = IF d = x THEN pre ELSE IF d = List THEN x ELSE prev[d]
    BY <1>1, <2>1
  <2>4. Linked(x)'
    BY <1>3, <1>5, <2>1 DEF Linked
  <2>5. LeadsOn'
    BY <1>1, <1>3, <1>4, <1>7, <1>10, <2>1, <2>2, <2>3 DEF LeadsOn
  <2>6. LinkedOnly'
    <3>1. \A d \in Node : Linked(next[d])' /\ Linked(prev[d])'
      <4>1. ASSUME NEW d \in Node PROVE Linked(next[d])'
        <5>1. PICK e : e = next'[d] /\ (e = List \/ e = next[d])
          BY <2>3
        <5>2. Linked(e)'
          BY <1>4, <1>9, <1>10, <5>1 DEF LinkedOnly
        <5> QED
          BY <5>1, <5>2 DEF Linked
      <4>2. ASSUME NEW d \in Node PROVE Linked(prev[d])'
        <5>1. PICK e : e = prev'[d] /\ (e = pre \/ e = x \/ e = prev[d])
          BY <2>3
        <5>2. Linked(e)'
          BY <1>4, <1>9, <2>2, <2>4, <5>1 DEF LinkedOnly
        <5> QED
          BY <5>1, <5>2 DEF Linked
      <4> QED
        BY <4>1, <4>2
    <3>2. \A c \in Conn : Linked(own[c].n)' /\ Linked(own[c].p)'
      BY <1>3, <1>4, <1>9 DEF LinkedOnly, Linked
    <3>3. Linked(main.pre)'
      BY <1>9, <2>1, <2>2 DEF Linked
    <3> QED
      BY <3>1, <3>2, <3>3 DEF LinkedOnly
  <2>7. Births'
    BY <1>1, <1>2, <1>3, <1>4, <1>5, <1>6, <2>1, <2>3 DEF Births
  <2> QED
    BY <2>5, <2>6, <2>7
<1>13. CASE AddLink
  <2>1. /\ main.pc = "link" /\ main'.pc = "accept" /\ main'.pre = List
        /\ prev' = prev /\ next' = [next EXCEPT ![pre] = x]
    BY <1>1, <1>2, <1>13 DEF AddLink
  <2>2. PICK q \in {"serving", "unserved"} : place' = [place EXCEPT ![x] = q]
    BY <1>2, <1>13 DEF AddLink
  <2>3. Younger(x, pre) /\ Linked(pre)
    BY <1>2, <1>4, <2>1 DEF LeadsOn, LinkedOnly
  <2>4. /\ \A d \in Node : next'[d] = IF d = pre THEN x ELSE next[d]
        /\ \A c \in Conn : place'[c] = IF c = x THEN q ELSE place[c]
    BY <1>1, <2>1, <2>2
  <2>5. pre \in Conn => Older(pre, x) /\ born[pre] # 0
    BY <1>1, <2>3 DEF Younger, Older, Linked
  <2>6. Linked(x)'
    BY <1>3, <1>5, <2>1 DEF Linked
  <2>7. LeadsOn'
    BY <1>1, <1>3, <1>4, <1>7, <2>1, <2>4, <2>5 DEF LeadsOn
  <2>8. LinkedOnly'
    BY <1>3, <1>4, <1>9, <1>10, <2>1, <2>4, <2>6 DEF LinkedOnly
  <2>9. Births'
    BY <1>1, <1>3, <1>4, <1>6, <2>1, <2>4, <2>5 DEF Births
  <2> QED
    BY <2>7, <2>8, <2>9
<1> QED
  BY <1>11, <1>12, <1>13

LEMMA LeadInvInit == Init => LeadInv
<1> SUFFICES ASSUME Init PROVE LeadInv
  OBVIOUS
<1>1. List \notin Conn /\ List \in Node /\ Conn \subseteq Node
  BY RegistryAssumption DEF Node
<1>2. Made = {}
  BY DEF Init, Made
<1>3. Cardinality(Made) = 0
  BY <1>2, FS_EmptySet
<1>4. LeadsOn /\ LinkedOnly
  BY <1>1 DEF Init, LeadsOn, LinkedOnly, Older, Younger, Linked
<1>5. Births
  BY <1>1, <1>3 DEF Init, Births
<1> QED
  BY <1>4, <1>5, TypeInvInit DEF LeadInv

LEMMA LeadInvStep == LeadInv /\ [Next]_vars => LeadInv'
<1> SUFFICES ASSUME LeadInv, [Next]_vars PROVE LeadInv'
  OBVIOUS
<1>1. TypeInv'
  BY TypeInvStep DEF LeadInv
<1>2. CASE UNCHANGED vars
  BY <1>1, <1>2 DEF vars, list, LeadInv, LeadsOn, LinkedOnly, Births, Made, Older, Younger,
                    Linked
<1>3. CASE MainStep \/ \E c \in Conn : OwnStep(c)
  <2>1. LeadsOn' /\ LinkedOnly' /\ Births'
    BY <1>3, LeadOwn, LeadWalk, LeadCountUp, LeadAdd DEF MainStep
  <2> QED
    BY <1>1, <2>1 DEF LeadInv
<1> QED
  BY <1>2, <1>3, Actors

(* Each step of client_locate's walk takes it to a client made after the   *)
(* one before, or to the head; and while it walks nobody is made.  So it   *)
(* makes at most one step for each client there is, whoever leaves under   *)
(* it (Server_Client.c:216-219, list.h:47-57).                             *)
WalkGoesOn ==
  [][ main.pc = "walk" =>
        /\ born' = born
        /\ \/ main' = main
           \/ main'.pc # "walk"
           \/ main'.pos = List
           \/ main.pos \in Conn /\ born[main.pos] < born[main'.pos] ]_vars

(* The walk ends with or without a race: what LookupEnds rests on besides  *)
(* the fairness of main().                                                 *)
THEOREM LookupGoesOn == Spec => WalkGoesOn
<1> DEFINE goes ==
      main.pc = "walk" =>
        /\ born' = born
        /\ \/ main' = main
           \/ main'.pc # "walk"
           \/ main'.pos = List
           \/ main.pos \in Conn /\ born[main.pos] < born[main'.pos]
<1>1. LeadInv /\ [Next]_vars => goes
  <2> SUFFICES ASSUME LeadInv, [Next]_vars, main.pc = "walk"
               PROVE  /\ born' = born
                      /\ \/ main' = main
                         \/ main'.pc # "walk"
                         \/ main'.pos = List
                         \/ main.pos \in Conn /\ born[main.pos] < born[main'.pos]
    OBVIOUS
  <2>1. ASSUME NEW c \in Conn, OwnStep(c)
        PROVE  born' = born /\ main' = main
    BY <2>1 DEF OwnStep, Leave, ReadEntry, UnlinkNext, UnlinkPrev, OwnWild, Free, Test, Read,
                CountDown, Store, OwnList, OwnCount
  <2>2. CASE UNCHANGED vars
    BY <2>2 DEF vars
  <2>3. CASE MainStep
    <3>1. WalkOn \/ Found \/ NewClient \/ MainWild
      BY <2>3 DEF MainStep, Accept, Known, CountUp, AddRead, AddHead, AddLink
    <3>2. born' = born
      BY <3>1 DEF WalkOn, Found, NewClient, MainWild, MainList
    <3>3. CASE WalkOn
      <4>1. main.pos # List /\ main'.pos = next[main.pos]
        BY <3>3, Shapes DEF WalkOn, Onward, LeadInv
      <4>2. main.pos \in Conn /\ next[main.pos] \in Node
        BY <4>1, Shapes DEF LeadInv
      <4>3. next[main.pos] \in Conn => born[main.pos] < born[next[main.pos]]
        BY <4>2 DEF LeadInv, LeadsOn, Older
      <4> QED
        BY <3>2, <4>1, <4>2, <4>3, Shapes DEF LeadInv
    <3>4. CASE Found \/ NewClient \/ MainWild
      BY <3>2, <3>4, Shapes DEF Found, NewClient, MainWild, LeadInv
    <3> QED
      BY <3>1, <3>3, <3>4
  <2> QED
    BY <2>1, <2>2, <2>3, Actors
<1> QED
  BY <1>1, LeadInvInit, LeadInvStep, PTL DEF Spec, WalkGoesOn
=============================================================================
