--------------------------- MODULE ClientRegistry ---------------------------
(***************************************************************************)
(* The clients the server knows: the list client_list, linked through the  *)
(* Client structures, and the counter client_num.  main() looks a new      *)
(* connection up by its IP address and adds it (main.c, client_locate,     *)
(* client_init, list_add_tail); each session thread takes its own client   *)
(* out and frees it (client_realease, list_del).  There is no lock: the    *)
(* mutex around the counter is a local variable, never initialised.        *)
(*                                                                         *)
(* A step is one access to the list or to the counter.  Two operations on  *)
(* the list are a race once the steps of one are between those of another: *)
(* until then the list is exact, and after it a link may lead to a client  *)
(* that has been taken out, or freed.  What holds even then is that links  *)
(* lead from older clients to younger ones, so that a walk ends.           *)
(***************************************************************************)
EXTENDS Integers, Sequences, FiniteSets

CONSTANTS
  Conn,     \* the TCP connections, each with the Client made for it
  IP,       \* the address of each
  List,     \* client_list, the head of the list
  NumMod    \* 2^32, the range of client_num

ASSUME RegistryAssumption ==
  /\ List \notin Conn /\ IsFiniteSet(Conn)
  /\ NumMod \in Nat /\ NumMod > Cardinality(Conn)

Node == Conn \cup {List}

VARIABLES
  \* main(): place, the connection it is at, pos in the walk, the prev that
  \* list_add_tail read, client_num as read
  main,
  \* the connections: where the session thread of each is, the prev and next
  \* that list_del read, client_num as read
  place, own,
  \* struct list_head of each client and of the head; the freed clients;
  \* RTSP_port of each, as the connection it is the port of, which the
  \* code only writes; creation_time as a number, 0 before client_init
  next, prev, freed, port, born,
  num,        \* server->client_num
  \* what is in the list in the order it came; races on the list, on the counter
  order, raced, numRaced

list == <<next, prev, freed, order, port>>
vars == <<main, place, own, list, born, num, raced, numRaced>>

Init ==
  /\ main = [pc |-> "accept", conn |-> List, pos |-> List, pre |-> List, num |-> 0]
  /\ place = [c \in Conn |-> "none"]
  /\ own = [c \in Conn |-> [p |-> List, n |-> List, num |-> 0]]
  /\ next = [d \in Node |-> List] /\ prev = [d \in Node |-> List]
  /\ freed = {} /\ num = 0
  /\ port = [c \in Conn |-> List] /\ born = [c \in Conn |-> 0]
  /\ order = <<>> /\ raced = FALSE /\ numRaced = FALSE

----------------------------------------------------------------------------
(* Who is between the first and the last access of an operation on the     *)
(* list, on the counter; each step notes whether another one is.           *)
MainInList == main.pc \in {"walk", "found", "head", "link"}
InList == {c \in Conn : place[c] \in {"entry", "next", "prev"}}
MainCounts == main.pc = "count"
InCount == {c \in Conn : place[c] \in {"down", "take", "written", "store"}}

MainList ==
  raced' = (raced \/ InList # {}) /\ UNCHANGED <<own, born, num, numRaced>>
OwnList(c) ==
  /\ raced' = (raced \/ MainInList \/ InList \ {c} # {})
  /\ UNCHANGED <<main, born, num, numRaced>>
MainCount ==
  /\ numRaced' = (numRaced \/ InCount # {})
  /\ UNCHANGED <<place, own, next, prev, freed, order, raced>>
OwnCount(c) ==
  /\ numRaced' = (numRaced \/ MainCounts \/ InCount \ {c} # {})
  /\ UNCHANGED <<main, list, born, raced>>

----------------------------------------------------------------------------
(* main().                                                                 *)

(* accept(), and client_locate() starts at the first client.               *)
Accept(c) ==
  /\ main.pc = "accept" /\ place[c] = "none"
  /\ main' = [main EXCEPT !.pc = "walk", !.conn = c, !.pos = next[List]]
  /\ place' = [place EXCEPT ![c] = "accepted"]
  /\ UNCHANGED list /\ MainList

(* Mutants of Matches and Onward, and what they mutate.                    *)
NeverMatches(d) == FALSE
AlwaysMatches(d) == TRUE
Matches(d) == IP[d] = IP[main.conn]
Stays(d) == d
Onward(d) == next[d]

WalkOn ==
  /\ main.pc = "walk" /\ main.pos \notin freed \cup {List}
  /\ ~Matches(main.pos)
  /\ main' = [main EXCEPT !.pos = Onward(main.pos)]
  /\ UNCHANGED <<place, list>> /\ MainList

(* A client of that address: the walk ends at it, ...                      *)
Found ==
  /\ main.pc = "walk" /\ main.pos \notin freed \cup {List}
  /\ Matches(main.pos)
  /\ main' = [main EXCEPT !.pc = "found"]
  /\ UNCHANGED <<place, list>> /\ MainList

(* ... its IP, the same, and its port are written, if it is still there;   *)
(* and main() goes back to accept() and does nothing with the connection,  *)
(* neither serve nor close it.                                             *)
Known ==
  /\ main.pc = "found" /\ main.pos \notin freed
  /\ port' = [port EXCEPT ![main.pos] = main.conn]
  /\ main' = [main EXCEPT !.pc = "accept", !.conn = List, !.pos = List]
  /\ place' = [place EXCEPT ![main.conn] = "dropped"]
  /\ UNCHANGED <<next, prev, freed, order>> /\ MainList

(* Back at the head: client_init() counts the new client, in two steps,    *)
(* and fills it in.                                                        *)
NewClient ==
  /\ main.pc = "walk" /\ main.pos = List
  /\ main' = [main EXCEPT !.pc = "count", !.num = num]
  /\ UNCHANGED <<num, port, born>> /\ MainCount

(* Mutants of Incremented.                                                 *)
NotIncremented(n) == n
Unwrapped(n) == n + 1
Incremented(n) == (n + 1) % NumMod

CountUp ==
  /\ main.pc = "count"
  /\ num' = Incremented(main.num)
  /\ main' = [main EXCEPT !.pc = "add", !.num = 0]
  /\ port' = [port EXCEPT ![main.conn] = main.conn]
  /\ born' = [born EXCEPT ![main.conn] = Cardinality({c \in Conn : born[c] > 0}) + 1]
  /\ MainCount

(* list_add_tail(): head->prev is read, ...                                *)
AddRead ==
  /\ main.pc = "add"
  /\ main' = [main EXCEPT !.pc = "head", !.pre = prev[List]]
  /\ UNCHANGED <<place, list>> /\ MainList

(* ... head->prev and both links of the new client are set; ...            *)
AddHead ==
  /\ main.pc = "head"
  /\ prev' = [prev EXCEPT ![List] = main.conn, ![main.conn] = main.pre]
  /\ next' = [next EXCEPT ![main.conn] = List]
  /\ main' = [main EXCEPT !.pc = "link"]
  /\ UNCHANGED <<place, freed, order, port>> /\ MainList

(* ... then the link from the client before it, and the thread is created. *)
(* Should that fail the client stays in the list.                          *)
AddLink ==
  /\ main.pc = "link" /\ main.pre \notin freed
  /\ next' = [next EXCEPT ![main.pre] = main.conn]
  /\ order' = Append(order, main.conn)
  /\ main' = [main EXCEPT !.pc = "accept", !.conn = List, !.pos = List, !.pre = List]
  /\ \E p \in {"serving", "unserved"} : place' = [place EXCEPT ![main.conn] = p]
  /\ UNCHANGED <<prev, freed, port>> /\ MainList

(* A freed client is read, or written to: from here on anything goes.      *)
MainWild ==
  /\ \/ main.pc \in {"walk", "found"} /\ main.pos \in freed
     \/ main.pc = "link" /\ main.pre \in freed
  /\ main' = [main EXCEPT !.pc = "wild"]
  /\ UNCHANGED <<place, list>> /\ MainList

----------------------------------------------------------------------------
(* client_realease(), in the thread of the session of c.                   *)

To(c, p) == place' = [place EXCEPT ![c] = p]

(* list_del(): the client's own links are read, entry->next first as the   *)
(* compiler evaluates the arguments, ...                                   *)
Leave(c) ==
  /\ place[c] = "serving" /\ To(c, "entry")
  /\ own' = [own EXCEPT ![c].n = next[c]]
  /\ UNCHANGED list /\ OwnList(c)

ReadEntry(c) ==
  /\ place[c] = "entry" /\ To(c, "next")
  /\ own' = [own EXCEPT ![c].p = prev[c]]
  /\ UNCHANGED list /\ OwnList(c)

Without(seq, c) ==
  LET k == CHOOSE i \in DOMAIN seq : seq[i] = c
  IN  [i \in 1..(Len(seq) - 1) |-> seq[IF i < k THEN i ELSE i + 1]]

(* A mutant of Unlinked.                                                   *)
LeftLinked(c) == next
Unlinked(c) == [next EXCEPT ![own[c].p] = own[c].n]

(* ... and each neighbour gets the other.                                  *)
UnlinkNext(c) ==
  /\ place[c] = "next" /\ own[c].n \notin freed /\ To(c, "prev")
  /\ prev' = [prev EXCEPT ![own[c].n] = own[c].p]
  /\ UNCHANGED <<own, next, freed, order, port>> /\ OwnList(c)

UnlinkPrev(c) ==
  /\ place[c] = "prev" /\ own[c].p \notin freed /\ To(c, "unlinked")
  /\ next' = Unlinked(c)
  /\ own' = [own EXCEPT ![c].p = List, ![c].n = List]
  /\ order' = Without(order, c)
  /\ UNCHANGED <<prev, freed, port>> /\ OwnList(c)

OwnWild(c) ==
  /\ \/ place[c] = "next" /\ own[c].n \in freed
     \/ place[c] = "prev" /\ own[c].p \in freed
  /\ To(c, "wild") /\ UNCHANGED <<own, list>> /\ OwnList(c)

(* The socket is closed and the memory freed; then a mutex that nothing    *)
(* has initialised is locked, which may never come back.                   *)
Free(c) ==
  /\ place[c] = "unlinked" /\ freed' = freed \cup {c}
  /\ To(c, "counted") \/ To(c, "hung")
  /\ UNCHANGED <<main, own, next, prev, order, port, born, num, raced, numRaced>>

(* client_num = client_num ? --client_num : 0, as it is compiled: tested;  *)
(* read, written less one; read, and written once more.                    *)
Test(c) ==
  /\ place[c] = "counted" /\ To(c, IF num = 0 THEN "store" ELSE "down")
  /\ UNCHANGED <<own, num>> /\ OwnCount(c)

Read(c) ==
  /\ \/ place[c] = "down" /\ To(c, "take")
     \/ place[c] = "written" /\ To(c, "store")
  /\ own' = [own EXCEPT ![c].num = num]
  /\ UNCHANGED num /\ OwnCount(c)

CountDown(c) ==
  /\ place[c] = "take" /\ To(c, "written")
  /\ num' = (own[c].num - 1) % NumMod
  /\ own' = [own EXCEPT ![c].num = 0]
  /\ OwnCount(c)

Store(c) ==
  /\ place[c] = "store" /\ To(c, "gone")
  /\ num' = own[c].num
  /\ own' = [own EXCEPT ![c].num = 0]
  /\ OwnCount(c)

----------------------------------------------------------------------------
Main ==
  \/ \E c \in Conn : Accept(c)
  \/ WalkOn \/ Found \/ Known \/ NewClient \/ CountUp
  \/ AddRead \/ AddHead \/ AddLink \/ MainWild
Release(c) ==
  \/ ReadEntry(c) \/ UnlinkNext(c) \/ UnlinkPrev(c) \/ OwnWild(c) \/ Free(c)
  \/ Test(c) \/ Read(c) \/ CountDown(c) \/ Store(c)
Next == Main \/ \E c \in Conn : Leave(c) \/ Release(c)

Spec == Init /\ [][Next]_vars
(* main() and a session thread that has begun to release run on; nothing   *)
(* makes a client leave.                                                   *)
FairSpec == Spec /\ WF_vars(Main) /\ \A c \in Conn : WF_vars(Release(c))

----------------------------------------------------------------------------
(* The places in which a client is linked, in which it is counted.         *)
LinkedAt == {"serving", "unserved", "entry", "next", "prev"}
CountedAt == LinkedAt \cup {"unlinked", "counted", "hung", "wild"}
Places ==
  CountedAt \cup {"none", "accepted", "dropped", "down", "take", "written", "store", "gone"}
Num == 0..(NumMod - 1)

(* Types.  client_num stays in an unsigned: it wraps around, as the code's *)
(* test for zero and its decrement are separate accesses.                  *)
TypeOK ==
  /\ main \in [pc: {"accept", "walk", "found", "count", "add", "head", "link", "wild"},
               conn: Node, pos: Node, pre: Node, num: Num]
  /\ place \in [Conn -> Places]
  /\ own \in [Conn -> [p: Node, n: Node, num: Num]]
  /\ next \in [Node -> Node] /\ prev \in [Node -> Node]
  /\ freed \subseteq Conn /\ num \in Num
  /\ port \in [Conn -> Node] /\ born \in [Conn -> Nat]
  /\ order \in Seq(Conn) /\ raced \in BOOLEAN /\ numRaced \in BOOLEAN

(* client_list, when nobody is changing it and no two operations on it     *)
(* have raced, holds in both directions exactly the clients added and not  *)
(* released, in the order they came: list_add_tail and list_del undo       *)
(* nothing of one another, whoever leaves first.                           *)
Nth(i) == IF i \in DOMAIN order THEN order[i] ELSE List
ListExact ==
  ~raced /\ InList = {} /\ main.pc \notin {"head", "link"} =>
    /\ \A i \in 0..Len(order) : next[Nth(i)] = Nth(i + 1) /\ prev[Nth(i + 1)] = Nth(i)
    /\ {order[i] : i \in DOMAIN order} = {c \in Conn : place[c] \in LinkedAt}

(* As long as nothing has raced, no two clients of one address are served: *)
(* main() decides in client_locate that there is none and adds one much    *)
(* later, while other clients come out of the list.                        *)
OneServedPerIp ==
  ~raced => \A c, d \in Conn :
    c # d /\ place[c] \in LinkedAt /\ place[d] \in LinkedAt => IP[c] # IP[d]

(* main() lets a connection drop only if a client of its address is in the *)
(* list then: not for one that has been released.                          *)
DroppedOnlyIfKnown ==
  [][ (\A c \in Conn : place[c] # "dropped" /\ place'[c] = "dropped" =>
         raced' \/ \E i \in 1..Len(order) : IP[order[i]] = IP[c]) ]_vars

(* The walk of client_locate, list_add_tail and list_del reach a freed     *)
(* client only once two operations on the list have overlapped: of         *)
(* themselves, in any sequence, they leave no link to it.                  *)
UseAfterFreeNeedsRace ==
  main.pc = "wild" \/ (\E c \in Conn : place[c] = "wild") => raced

(* client_num is, while nobody is changing it and no two changes have      *)
(* raced, the number of clients added less those whose release has come    *)
(* as far as the counter: one whose lock hangs is counted for ever.        *)
Counted ==
  {c \in Conn : place[c] \in CountedAt}
    \cup {c \in Conn : main.conn = c /\ main.pc \in {"add", "head", "link"}}
CountExact ==
  ~numRaced /\ ~MainCounts /\ InCount = {} /\ main.pc # "wild" =>
    num = Cardinality(Counted)

(* client_locate finishes its walk, however the clients leave meanwhile,   *)
(* one by one or several at once: at a client of the address, at the head, *)
(* or at one that has been freed under it.  It never goes round in what    *)
(* two releases have left of the list.                                     *)
LookupEnds == main.pc = "walk" ~> main.pc # "walk"

----------------------------------------------------------------------------
(* What the comment above client_locate says: a connection from a known    *)
(* address is handed on.                                                   *)
NoneDropped == \A c \in Conn : place[c] # "dropped"
=============================================================================
