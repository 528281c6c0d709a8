--------------------------- MODULE NutServer_proofs ---------------------------
(***************************************************************************)
(* Proofs about NutServer, for any number of clients, slots, names and     *)
(* values: the table and the clients stay well typed, lost updates never   *)
(* take client_count above max_clients, it is exact until two updates      *)
(* overlap, a LIST VAR is one moment's view of the table, and the table's  *)
(* lock is never left behind.                                              *)
(*                                                                         *)
(* Every action of a client moves that client alone (Moves), so that each  *)
(* part of the invariant is shown per client from where it comes and where *)
(* it goes.                                                                *)
(***************************************************************************)
EXTENDS NutServer, SequenceTheorems, FiniteSetTheorems, WellFoundedInduction, TLAPS

Row == [used : BOOLEAN, name : Names \cup {NoOne}, value : Values \cup {NoOne}]
ClientPc == {"none", "backlog", "accepted", "recv", "list", "listing", "close", "closing"}
AcceptPc == {"accept", "check", "load", "store", "spawn", "unload", "unstore"}
ClientRec == [pc : ClientPc, fill : 0 .. RxRoom - 1, user : Users \cup {Unset},
              pass : Passwords \cup {Unset}, logged_in : BOOLEAN, tmp : Int,
              sent : Seq(Row), i : 0 .. MaxVars + 1]

(* The types, those of the copies of count included. *)
TableOK == table \in [Slots -> Row]
PublishOK == publish \in {NoOne} \cup [name : Names, value : Values \cup {NoOne}]
AcceptOK == accept \in [pc : AcceptPc, fd : Clients \cup {NoOne}, tmp : Int]
ClientOK == client \in [Clients -> ClientRec]
RestOK == lock \in Clients \cup {NoOne} /\ count \in Int
Typed == TableOK /\ PublishOK /\ AcceptOK /\ ClientOK /\ RestOK

(* The socket the accept task holds is nobody else's. *)
AcceptInv ==
  /\ accept.pc # "accept" => accept.fd \in Clients
  /\ accept.pc \in {"check", "load", "store", "spawn"} => client[accept.fd].pc = "accepted"

(* Only an increment could break the limit, and it starts below it: what   *)
(* lost updates bring back is an older count less one.                     *)
LimitInv ==
  /\ count <= MaxClients
  /\ \A c \in Clients : client[c].pc = "closing" => client[c].tmp <= MaxClients
  /\ accept.pc = "load" => count < MaxClients
  /\ accept.pc = "store" => accept.tmp < MaxClients
  /\ accept.pc = "unstore" => accept.tmp <= MaxClients

(* Without a race there is one update at a time, from a fresh copy. *)
RaceInv ==
  ~raced =>
    /\ \A x, y \in Updating : x = y
    /\ \A c \in Clients : client[c].pc = "closing" => client[c].tmp = count
    /\ accept.pc \in {"store", "unstore"} => accept.tmp = count
CountInv == ~raced => count = Cardinality(Served)

(* A name has one slot. *)
NamesInv ==
  \A j, k \in Slots : table[j].used /\ table[k].used /\ table[j].name = table[k].name => j = k

(* The client that lists is the one that has the lock, and each line it    *)
(* sent is a slot's.                                                       *)
LockInv == \A c \in Clients : client[c].pc = "listing" <=> lock = c
Listed(t, r) ==
  /\ r.i \in 1 .. MaxVars + 1
  /\ Len(r.sent) = Lines(t, r.i - 1)
  /\ \A k \in 1 .. r.i - 1 : t[k].used => r.sent[Lines(t, k)] = t[k]
  /\ \A j \in 1 .. Len(r.sent) : \E k \in 1 .. r.i - 1 : t[k].used /\ Lines(t, k) = j
ListInv == \A c \in Clients : client[c].pc = "listing" => Listed(table, client[c])

IInv ==
  Typed /\ AcceptInv /\ LimitInv /\ RaceInv /\ CountInv /\ NamesInv /\ LockInv /\ ListInv

-----------------------------------------------------------------------------
LEMMA InitInv == Init => IInv
<1> SUFFICES ASSUME Init PROVE IInv
  OBVIOUS
<1>0. MaxClients \in Nat \ {0} /\ MaxVars \in Nat \ {0} /\ RxRoom \in Nat \ {0}
  BY NutAssumption
<1>1. PICK v \in Values :
        table = [k \in Slots |-> IF k <= Len(Seeds) THEN Entry(Seeds[k], v) ELSE Free]
  BY DEF Init
<1>s. Seeds \in Seq(Names) /\ Len(Seeds) \in Nat /\ DOMAIN Seeds = 1 .. Len(Seeds)
      /\ IsInjective(Seeds)
  BY NutAssumption, LenProperties
<1>2. TableOK
  <2>1. ASSUME NEW k \in Slots, k <= Len(Seeds) PROVE Entry(Seeds[k], v) \in Row
    <3>1. Seeds[k] \in Names
      BY <1>0, <1>s, <2>1, ElementOfSeq DEF Slots
    <3> QED
      BY <3>1 DEF Entry, Row
  <2>2. Free \in Row
    BY DEF Free, Row
  <2> QED
    BY <1>1, <2>1, <2>2 DEF TableOK
<1>3. NamesInv
  <2> SUFFICES ASSUME NEW j \in Slots, NEW k \in Slots, table[j].used, table[k].used,
                      table[j].name = table[k].name
               PROVE  j = k
    BY DEF NamesInv
  <2>1. j <= Len(Seeds) /\ k <= Len(Seeds)
    BY <1>1 DEF Free
  <2>2. Seeds[j] = Seeds[k]
    BY <1>1, <2>1 DEF Entry
  <2> QED
    BY <1>0, <1>s, <2>1, <2>2 DEF IsInjective, Slots
<1>4. Gone \in ClientRec
  <2>1. 0 \in 0 .. RxRoom - 1 /\ 0 \in 0 .. MaxVars + 1 /\ <<>> \in Seq(Row)
    BY <1>0
  <2> QED
    BY <2>1 DEF Gone, ClientRec, ClientPc
<1>5. ClientOK /\ \A c \in Clients : client[c].pc = "none"
  BY <1>4 DEF Init, ClientOK, Gone
<1>6. AcceptOK /\ PublishOK /\ RestOK /\ accept.pc = "accept"
  BY DEF Init, AcceptOK, AcceptPc, Accepting, PublishOK, RestOK
<1>7. AcceptInv /\ LimitInv /\ LockInv /\ ListInv
  <2>1. NoOne \notin Clients
    BY NutAssumption
  <2> QED
    BY <1>0, <1>5, <1>6, <2>1 DEF Init, AcceptInv, LimitInv, LockInv, ListInv
<1>8. Updating = {} /\ Served = {}
  BY <1>5, <1>6 DEF Updating, Served
<1>9. RaceInv /\ CountInv
  BY <1>5, <1>6, <1>8, FS_EmptySet DEF Init, RaceInv, CountInv
<1> QED
  BY <1>2, <1>3, <1>5, <1>6, <1>7, <1>9 DEF IInv, Typed

-----------------------------------------------------------------------------
(* What each action does to its client. *)

Moves(c) ==
  /\ client' \in [Clients -> ClientRec]
  /\ \A d \in Clients : d # c => client'[d] = client[d]
Aside == UNCHANGED <<table, lock, count, accept, publish, raced>>

(* A client record that changes is still one, and the others stay. *)
LEMMA MovesTo ==
  ASSUME ClientOK, NEW c \in Clients, NEW r \in ClientRec, client' = [client EXCEPT ![c] = r]
  PROVE  Moves(c) /\ client'[c] = r
  BY DEF ClientOK, Moves

LEMMA Fill == 0 \in 0 .. RxRoom - 1 /\ 0 \in 0 .. MaxVars + 1 /\ 1 \in 1 .. MaxVars + 1
  BY NutAssumption

(* What is received fits, and a full buffer is emptied. *)
LEMMA Filled ==
  ASSUME NEW R \in Nat \ {0}, NEW b \in 0 .. R - 1, NEW n \in 1 .. R, b + n <= R
  PROVE  (IF b + n = R THEN 0 ELSE b + n) \in 0 .. R - 1
  OBVIOUS

LEMMA GoneTyped == Gone \in ClientRec
<1>1. <<>> \in Seq(Row)
  OBVIOUS
<1> QED
  BY <1>1, Fill DEF Gone, ClientRec, ClientPc

(* The commands that take and give back the lock in one step, or never     *)
(* take it.                                                                *)
Talk(c) ==
  \/ Ends(c) \/ Reply(c) \/ Login(c) \/ GetVar(c) \/ ListBegin(c)
  \/ \E n \in 1 .. RxRoom : RecvPartial(c, n)
  \/ \E u \in Users : Username(c, u)
  \/ \E p \in Passwords : Password(c, p)
LEMMA TalkMoves ==
  ASSUME ClientOK, NEW c \in Clients, Talk(c)
  PROVE  /\ Moves(c) /\ Aside
         /\ client[c].pc = "recv" /\ client'[c].pc \in {"recv", "list", "close"}
<1>0. client[c] \in ClientRec
  BY DEF ClientOK
<1> DEFINE To(r) == client' = [client EXCEPT ![c] = r]
<1>1. ASSUME NEW r \in ClientRec, r.pc \in {"recv", "list", "close"}, To(r), Aside,
             client[c].pc = "recv"
      PROVE  /\ Moves(c) /\ Aside
             /\ client[c].pc = "recv" /\ client'[c].pc \in {"recv", "list", "close"}
  BY <1>1, MovesTo
<1> HIDE DEF To
<1>2. \A r \in ClientRec : [r EXCEPT !.fill = 0] \in ClientRec
                             /\ [r EXCEPT !.fill = 0].pc = r.pc
  BY Fill DEF ClientRec
<1>3. CASE Ends(c)
  <2> DEFINE r == [client[c] EXCEPT !.pc = "close", !.logged_in = FALSE]
  <2>1. r \in ClientRec /\ r.pc = "close"
    BY <1>0 DEF ClientRec, ClientPc
  <2>2. To(r) /\ Aside /\ client[c].pc = "recv"
    BY <1>3 DEF Ends, To, Aside, ClientOK
  <2> HIDE DEF r
  <2> QED
    BY <1>1, <2>1, <2>2
<1>4. CASE Reply(c) \/ GetVar(c)
  <2> DEFINE r == [client[c] EXCEPT !.pc = "close"]
             q == [client[c] EXCEPT !.fill = 0]
  <2>1. r \in ClientRec /\ r.pc = "close"
    BY <1>0 DEF ClientRec, ClientPc
  <2>2. (To(r) \/ To(q)) /\ Aside /\ client[c].pc = "recv"
    BY <1>4 DEF Reply, GetVar, To, Aside, ClientOK, Line, Replied
  <2>3. q \in ClientRec /\ q.pc = client[c].pc
    BY <1>0, <1>2
  <2> HIDE DEF r, q
  <2> QED
    BY <1>1, <2>1, <2>2, <2>3
(* The fields of a line that is answered. *)
<1>5. ASSUME NEW f \in ClientRec, f.pc \in {"recv", "list"}, client' = Replied(c, f), Aside,
             Line(c)
      PROVE  /\ Moves(c) /\ Aside
             /\ client[c].pc = "recv" /\ client'[c].pc \in {"recv", "list", "close"}
  <2> DEFINE r == [f EXCEPT !.fill = 0]
  <2>1. r \in ClientRec /\ r.pc = f.pc
    BY <1>2
  <2>2. To(r)
    BY <1>5 DEF To, Replied
  <2> HIDE DEF r
  <2> QED
    BY <1>1, <1>5, <2>1, <2>2 DEF Line
<1>6. CASE Login(c)
  <2> DEFINE f == [client[c] EXCEPT !.logged_in = TRUE]
  <2>1. f \in ClientRec /\ f.pc = client[c].pc
    BY <1>0 DEF ClientRec
  <2>2. client' = Replied(c, f) /\ Aside /\ Line(c)
    BY <1>6 DEF Login, Aside
  <2> HIDE DEF f
  <2> QED
    BY <1>5, <2>1, <2>2 DEF Line
<1>7. CASE ListBegin(c)
  <2> DEFINE f == [client[c] EXCEPT !.pc = "list"]
  <2>1. f \in ClientRec /\ f.pc = "list"
    BY <1>0 DEF ClientRec, ClientPc
  <2>2. Aside /\ Line(c)
    BY <1>7 DEF ListBegin, Aside
  <2>3. CASE client' = Replied(c, f)
    <3> HIDE DEF f
    <3> QED
      BY <1>5, <2>1, <2>2, <2>3
  <2>4. CASE client' = [client EXCEPT ![c].pc = "close"]
    <3> DEFINE r == [client[c] EXCEPT !.pc = "close"]
    <3>1. r \in ClientRec /\ r.pc = "close"
      BY <1>0 DEF ClientRec, ClientPc
    <3>2. To(r) /\ client[c].pc = "recv"
      BY <2>2, <2>4 DEF To, ClientOK, Line
    <3> HIDE DEF r
    <3> QED
      BY <1>1, <2>2, <3>1, <3>2
  <2> QED
    BY <1>7, <2>3, <2>4 DEF ListBegin
<1>8. ASSUME NEW u \in Users, Username(c, u)
      PROVE  /\ Moves(c) /\ Aside
             /\ client[c].pc = "recv" /\ client'[c].pc \in {"recv", "list", "close"}
  <2> DEFINE f == [client[c] EXCEPT !.user = u]
  <2>1. f \in ClientRec /\ f.pc = client[c].pc
    BY <1>0 DEF ClientRec
  <2>2. client' = Replied(c, f) /\ Aside /\ Line(c)
    BY <1>8 DEF Username, Aside
  <2> HIDE DEF f
  <2> QED
    BY <1>5, <2>1, <2>2 DEF Line
<1>9. ASSUME NEW p \in Passwords, Password(c, p)
      PROVE  /\ Moves(c) /\ Aside
             /\ client[c].pc = "recv" /\ client'[c].pc \in {"recv", "list", "close"}
  <2> DEFINE f == [client[c] EXCEPT !.pass = p]
  <2>1. f \in ClientRec /\ f.pc = client[c].pc
    BY <1>0 DEF ClientRec
  <2>2. client' = Replied(c, f) /\ Aside /\ Line(c)
    BY <1>9 DEF Password, Aside
  <2> HIDE DEF f
  <2> QED
    BY <1>5, <2>1, <2>2 DEF Line
(* A line that fills the buffer is dropped, so a byte is always free. *)
<1>10. ASSUME NEW n \in 1 .. RxRoom, RecvPartial(c, n)
       PROVE  /\ Moves(c) /\ Aside
              /\ client[c].pc = "recv" /\ client'[c].pc \in {"recv", "list", "close"}
  <2> DEFINE fill == IF client[c].fill + n = RxRoom THEN 0 ELSE client[c].fill + n
             f == [client[c] EXCEPT !.fill = fill]
  <2>1. client[c].fill \in 0 .. RxRoom - 1 /\ client[c].fill + n <= RxRoom
    BY <1>0, <1>10 DEF ClientRec, RecvPartial
  <2>2. fill \in 0 .. RxRoom - 1
    <3> HIDE DEF f
    <3>1. RxRoom \in Nat \ {0}
      BY NutAssumption
    <3> QED
      BY <2>1, <3>1, Filled
  <2>3. client' = [client EXCEPT ![c].fill = fill] /\ Aside /\ client[c].pc = "recv"
    BY <1>10 DEF RecvPartial, Aside
  <2> HIDE DEF fill
  <2>4. f \in ClientRec /\ f.pc = client[c].pc
    BY <1>0, <2>2 DEF ClientRec
  <2>5. To(f)
    BY <2>3 DEF To, ClientOK
  <2> HIDE DEF f
  <2> QED
    BY <1>1, <2>3, <2>4, <2>5
<1> QED
  BY <1>3, <1>4, <1>6, <1>7, <1>8, <1>9, <1>10 DEF Talk
(* The other client steps. *)
LEMMA ConnectMoves ==
  ASSUME ClientOK, NEW c \in Clients, Connect(c)
  PROVE  Moves(c) /\ Aside /\ client[c].pc = "none" /\ client'[c].pc = "backlog"
<1> DEFINE r == [client[c] EXCEPT !.pc = "backlog"]
<1>1. r \in ClientRec /\ r.pc = "backlog"
  BY DEF ClientOK, ClientRec, ClientPc
<1>2. client' = [client EXCEPT ![c] = r] /\ Aside /\ client[c].pc = "none"
  BY DEF Connect, Aside, ClientOK
<1> HIDE DEF r
<1> QED
  BY <1>1, <1>2, MovesTo

LEMMA ListLockMoves ==
  ASSUME ClientOK, NEW c \in Clients, ListLock(c)
  PROVE  /\ Moves(c) /\ UNCHANGED <<table, count, accept, publish, raced>>
         /\ lock = NoOne /\ lock' = c
         /\ client[c].pc = "list" /\ client'[c].pc = "listing"
         /\ client'[c].sent = <<>> /\ client'[c].i = 1
<1> DEFINE r == [client[c] EXCEPT !.pc = "listing", !.sent = <<>>, !.i = 1]
<1>1. <<>> \in Seq(Row) /\ 1 \in 0 .. MaxVars + 1
  BY NutAssumption
<1>2. r \in ClientRec /\ r.pc = "listing" /\ r.sent = <<>> /\ r.i = 1
  BY <1>1 DEF ClientOK, ClientRec, ClientPc
<1>3. client' = [client EXCEPT ![c] = r]
  BY DEF ListLock, ClientOK
<1> HIDE DEF r
<1> QED
  BY <1>2, <1>3, MovesTo DEF ListLock

LEMMA ListLineMoves ==
  ASSUME ClientOK, TableOK, NEW c \in Clients, ListLine(c), client[c].i \in 1 .. MaxVars + 1
  PROVE  /\ Moves(c) /\ Aside
         /\ client[c].pc = "listing" /\ client'[c].pc = "listing"
         /\ client[c].i \in Slots /\ client'[c].i = client[c].i + 1
         /\ client'[c].sent = IF table[client[c].i].used
                                THEN Append(client[c].sent, table[client[c].i])
                                ELSE client[c].sent
<1> DEFINE i == client[c].i
           sent == IF table[i].used THEN Append(client[c].sent, table[i]) ELSE client[c].sent
           r == [client[c] EXCEPT !.i = i + 1, !.sent = sent]
<1>0. client[c] \in ClientRec /\ client[c].sent \in Seq(Row) /\ client[c].pc = "listing"
  BY DEF ClientOK, ClientRec, ListLine
<1>1. i \in Slots /\ i + 1 \in 0 .. MaxVars + 1
  BY NutAssumption DEF ListLine, Slots
<1>2. sent \in Seq(Row)
  <2>1. table[i] \in Row
    BY <1>1 DEF TableOK
  <2> QED
    BY <1>0, <2>1, AppendProperties
<1>3. client' = [client EXCEPT ![c].i = i + 1, ![c].sent = sent]
  BY DEF ListLine, ClientOK
<1> HIDE DEF sent, i
<1>4. r \in ClientRec /\ r.pc = client[c].pc /\ r.i = i + 1 /\ r.sent = sent
  BY <1>0, <1>1, <1>2 DEF ClientRec
<1>5. client' = [client EXCEPT ![c] = r]
  BY <1>3 DEF ClientOK
<1> HIDE DEF r
<1>6. Moves(c) /\ client'[c] = r
  BY <1>4, <1>5, MovesTo
<1> QED
  BY <1>0, <1>1, <1>4, <1>6 DEF i, sent, ListLine, Aside

LEMMA ListOverMoves ==
  ASSUME ClientOK, NEW c \in Clients, ListEnd(c) \/ ListFails(c)
  PROVE  /\ Moves(c) /\ UNCHANGED <<table, count, accept, publish, raced>> /\ lock' = NoOne
         /\ client[c].pc = "listing" /\ client'[c].pc \in {"recv", "close"}
<1> DEFINE r(pc) == [client[c] EXCEPT !.pc = pc, !.sent = <<>>, !.i = 0]
<1>1. <<>> \in Seq(Row)
  OBVIOUS
<1>2. \A pc \in {"recv", "close"} : r(pc) \in ClientRec /\ r(pc).pc = pc
  <2>1. client[c] \in ClientRec
    BY DEF ClientOK
  <2>2. \A x \in ClientRec, pc \in ClientPc :
          LET y == [x EXCEPT !.pc = pc, !.sent = <<>>, !.i = 0]
          IN  y \in ClientRec /\ y.pc = pc
    BY <1>1, Fill DEF ClientRec
  <2>3. {"recv", "close"} \subseteq ClientPc
    BY DEF ClientPc
  <2> QED
    BY <2>1, <2>2, <2>3
<1>3. PICK pc \in {"recv", "close"} : client' = [client EXCEPT ![c] = r(pc)]
  <2>1. client' = [client EXCEPT ![c] = r("recv")] \/ client' = [client EXCEPT ![c] = r("close")]
    BY DEF ListEnd, ListFails, ClientOK
  <2> QED
    BY <2>1
<1> HIDE DEF r
<1> QED
  BY <1>2, <1>3, MovesTo DEF ListEnd, ListFails

LEMMA CloseLoadMoves ==
  ASSUME ClientOK, NEW c \in Clients, CloseLoad(c), count \in Int
  PROVE  /\ Moves(c) /\ UNCHANGED <<table, lock, count, accept, publish>>
         /\ client[c].pc = "close" /\ client'[c].pc = "closing" /\ client'[c].tmp = count
         /\ raced' = (raced \/ Updating # {})
<1> DEFINE r == [Gone EXCEPT !.pc = "closing", !.tmp = count]
<1>1. r \in ClientRec /\ r.pc = "closing" /\ r.tmp = count
  BY GoneTyped DEF ClientRec, ClientPc
<1>2. client' = [client EXCEPT ![c] = r]
  BY DEF CloseLoad
<1> HIDE DEF r
<1> QED
  BY <1>1, <1>2, MovesTo DEF CloseLoad

LEMMA CloseStoreMoves ==
  ASSUME ClientOK, NEW c \in Clients, CloseStore(c)
  PROVE  /\ Moves(c) /\ UNCHANGED <<table, lock, accept, publish, raced>>
         /\ client[c].pc = "closing" /\ client'[c].pc = "none"
         /\ count' = client[c].tmp - 1
<1>1. Gone \in ClientRec /\ Gone.pc = "none"
  BY GoneTyped DEF Gone
<1> QED
  BY <1>1, MovesTo DEF CloseStore

(* The steps of the accept task; fd is the socket it holds. *)
LEMMA AcceptNextMoves ==
  ASSUME ClientOK, NEW c \in Clients, AcceptNext(c)
  PROVE  /\ Moves(c) /\ UNCHANGED <<table, lock, count, publish, raced>>
         /\ client[c].pc = "backlog" /\ client'[c].pc = "accepted"
         /\ accept.pc = "accept" /\ accept' = [pc |-> "check", fd |-> c, tmp |-> 0]
<1> DEFINE r == [client[c] EXCEPT !.pc = "accepted"]
<1>1. r \in ClientRec /\ r.pc = "accepted"
  BY DEF ClientOK, ClientRec, ClientPc
<1>2. client' = [client EXCEPT ![c] = r]
  BY DEF AcceptNext, ClientOK
<1> HIDE DEF r
<1> QED
  BY <1>1, <1>2, MovesTo DEF AcceptNext

LEMMA AcceptDropMoves ==
  ASSUME ClientOK, accept.fd \in Clients, client' = [client EXCEPT ![accept.fd] = Gone]
  PROVE  Moves(accept.fd) /\ client'[accept.fd].pc = "none"
<1>1. Gone \in ClientRec /\ Gone.pc = "none"
  BY GoneTyped DEF Gone
<1> QED
  BY <1>1, MovesTo

LEMMA AcceptServeMoves ==
  ASSUME ClientOK, accept.fd \in Clients, client' = [client EXCEPT ![accept.fd].pc = "recv"]
  PROVE  Moves(accept.fd) /\ client'[accept.fd].pc = "recv"
<1> DEFINE r == [client[accept.fd] EXCEPT !.pc = "recv"]
<1>0. client[accept.fd] \in ClientRec
  BY DEF ClientOK
<1>1. r \in ClientRec /\ r.pc = "recv"
  BY <1>0 DEF ClientRec, ClientPc
<1>2. client' = [client EXCEPT ![accept.fd] = r]
  BY DEF ClientOK
<1> HIDE DEF r
<1> QED
  BY <1>1, <1>2, MovesTo

(* All of it, and what is left: the accept task on its own, the publishers *)
(* and a step that changes nothing.                                        *)
AcceptAlone ==
  \/ AcceptLoad \/ AcceptStore \/ AcceptUnstore
  \/ AcceptCheck /\ UNCHANGED client
Drops(pc) ==
  /\ client' = [client EXCEPT ![accept.fd] = Gone]
  /\ UNCHANGED <<table, lock, count, publish, raced>>
  /\ \/ pc = "check" /\ accept' = Accepting
     \/ pc = "spawn" /\ accept' = [accept EXCEPT !.pc = "unload"]
Serves ==
  /\ client' = [client EXCEPT ![accept.fd].pc = "recv"]
  /\ accept' = Accepting
  /\ UNCHANGED <<table, lock, count, publish, raced>>
LEMMA Steps ==
  ASSUME [Next]_vars
  PROVE  \/ UNCHANGED vars
         \/ \E n \in Names, v \in Values \cup {NoOne} : Publish(n, v)
         \/ SetVar
         \/ AcceptAlone
         \/ accept.pc \in {"check", "spawn"} /\ Drops(accept.pc)
         \/ accept.pc = "spawn" /\ Serves
         \/ \E c \in Clients :
              \/ Talk(c) \/ Connect(c) \/ AcceptNext(c)
              \/ ListLock(c) \/ ListLine(c) \/ ListEnd(c) \/ ListFails(c)
              \/ CloseLoad(c) \/ CloseStore(c)
<1>1. CASE AcceptCheck
  BY <1>1 DEF AcceptCheck, AcceptAlone, Drops
<1>2. CASE AcceptSpawn
  BY <1>2 DEF AcceptSpawn, Drops, Serves
<1>3. CASE \E c \in Clients :
             \/ Connect(c) \/ Ends(c) \/ ListStep(c) \/ CloseStep(c)
             \/ \E n \in 1 .. RxRoom : RecvPartial(c, n)
             \/ Reply(c) \/ Login(c) \/ GetVar(c) \/ ListBegin(c)
             \/ \E u \in Users : Username(c, u)
             \/ \E p \in Passwords : Password(c, p)
  BY <1>3, Zenon DEF Talk, ListStep, CloseStep
<1> QED
  BY <1>1, <1>2, <1>3 DEF Next, AcceptTask, AcceptAlone
-----------------------------------------------------------------------------
(* The table. *)

LEMMA FirstIn ==
  ASSUME NEW S \in SUBSET Slots, S # {}
  PROVE  First(S) \in S
<1> DEFINE R == OpToRel(<, Nat)
<1>1. S \subseteq Nat
  BY NutAssumption DEF Slots
<1>2. \A x, y \in Nat : x < y => <<x, y>> \in R
  BY DEF OpToRel
<1>3. IsWellFoundedOn(R, Nat)
  BY NatLessThanWellFounded
<1> HIDE DEF R
<1>4. \E k \in S : \A j \in S : ~(<<j, k>> \in R)
  BY <1>1, <1>3, WFMin
<1>5. \E k \in S : \A j \in S : k <= j
  <2>1. PICK k \in S : \A j \in S : ~(<<j, k>> \in R)
    BY <1>4
  <2>2. \A j \in S : ~(j < k)
    BY <1>1, <1>2, <2>1
  <2>3. \A j \in S : k <= j
    BY <1>1, <2>2
  <2> QED
    BY <2>3
<1> QED
  BY <1>5 DEF First

LEMMA SetVarTable == TableOK /\ NamesInv /\ PublishOK /\ SetVar => TableOK' /\ NamesInv'
<1> SUFFICES ASSUME TableOK, NamesInv, PublishOK, SetVar PROVE TableOK' /\ NamesInv'
  OBVIOUS
<1>0. publish.name \in Names /\ publish.value \in Values \cup {NoOne}
  BY DEF PublishOK, SetVar
<1> DEFINE n == publish.name
           v == publish.value
<1>1. table \in [Slots -> Row]
  BY DEF TableOK
(* A slot that keeps its name and its use, or is no longer in use. *)
<1>2. ASSUME NEW k \in Slots, NEW r \in Row, table' = [table EXCEPT ![k] = r],
             r.used => table[k].used /\ r.name = table[k].name
      PROVE  TableOK' /\ NamesInv'
  BY <1>1, <1>2 DEF TableOK, NamesInv
<1>3. ASSUME table' = table PROVE TableOK' /\ NamesInv'
  BY <1>3 DEF TableOK, NamesInv
<1>4. CASE v = NoOne /\ Used(n) # {}
  <2> DEFINE k == First(Used(n))
             r == [table[k] EXCEPT !.used = FALSE]
  <2>1. k \in Slots /\ table[k] \in Row
    BY <1>1, <1>4, FirstIn DEF Used
  <2>2. table' = [table EXCEPT ![k].used = FALSE]
    BY <1>4 DEF SetVar, Cleared
  <2> HIDE DEF k
  <2>3. r \in Row /\ ~r.used /\ table' = [table EXCEPT ![k] = r]
    BY <1>1, <2>1, <2>2 DEF Row
  <2> HIDE DEF r
  <2> QED
    BY <1>2, <2>1, <2>3
<1>5. CASE v # NoOne /\ Used(n) # {}
  <2> DEFINE k == First(Used(n))
             r == [table[k] EXCEPT !.value = v]
  <2>1. k \in Slots /\ table[k] \in Row
    BY <1>1, <1>5, FirstIn DEF Used
  <2>2. table' = [table EXCEPT ![k].value = v]
    BY <1>5 DEF SetVar, Stored
  <2> HIDE DEF k
  <2>3. /\ r \in Row /\ r.used = table[k].used /\ r.name = table[k].name
        /\ table' = [table EXCEPT ![k] = r]
    BY <1>0, <1>1, <2>1, <2>2 DEF Row
  <2> HIDE DEF r
  <2> QED
    BY <1>2, <2>1, <2>3
(* A name that had no slot gets the first free one. *)
<1>6. CASE v # NoOne /\ Used(n) = {} /\ FreeSlots # {}
  <2> DEFINE k == First(FreeSlots)
             r == Entry(n, v)
  <2>1. k \in Slots
    BY <1>6, FirstIn DEF FreeSlots
  <2>2. table' = [table EXCEPT ![k] = r]
    BY <1>6 DEF SetVar, Stored
  <2>3. r \in Row /\ r.name = n
    BY <1>0 DEF Entry, Row
  <2> HIDE DEF k, r
  <2>4. \A j \in Slots : table[j].used => table[j].name # n
    BY <1>6 DEF Used
  <2>5. TableOK'
    BY <1>1, <2>1, <2>2, <2>3 DEF TableOK
  <2>6. NamesInv'
    BY <1>1, <2>1, <2>2, <2>3, <2>4 DEF NamesInv
  <2> QED
    BY <2>5, <2>6
<1>7. CASE Used(n) = {} /\ (v = NoOne \/ FreeSlots = {})
  BY <1>3, <1>7 DEF SetVar, Stored, Cleared
<1> QED
  BY <1>4, <1>5, <1>6, <1>7

(* Nobody else writes it. *)
LEMMA TableStep == TableOK /\ NamesInv /\ PublishOK /\ [Next]_vars => TableOK' /\ NamesInv'
<1> SUFFICES ASSUME TableOK, NamesInv, PublishOK, [Next]_vars PROVE TableOK' /\ NamesInv'
  OBVIOUS
<1>1. CASE SetVar
  BY <1>1, SetVarTable
<1>2. CASE table' = table
  BY <1>2 DEF TableOK, NamesInv
<1>3. SetVar \/ table' = table
  BY DEF Next, vars, Publish, AcceptTask, AcceptNext, AcceptCheck, AcceptLoad, AcceptStore,
         AcceptSpawn, AcceptUnstore, Connect, Ends, ListStep, ListLock, ListLine, ListEnd,
         ListFails, CloseStep, CloseLoad, CloseStore, RecvPartial, Reply, Login, GetVar,
         ListBegin, Username, Password
<1> QED
  BY <1>1, <1>2, <1>3

-----------------------------------------------------------------------------
(* The types. *)

LEMMA AcceptTyped == AcceptOK /\ RestOK /\ AcceptInv /\ [Next]_vars => AcceptOK'
<1> SUFFICES ASSUME AcceptOK, RestOK, AcceptInv, [Next]_vars PROVE AcceptOK'
  OBVIOUS
<1>1. accept \in [pc : AcceptPc, fd : Clients \cup {NoOne}, tmp : Int] /\ count \in Int
  BY DEF AcceptOK, RestOK
<1>2. Accepting \in [pc : AcceptPc, fd : Clients \cup {NoOne}, tmp : Int]
  BY DEF Accepting, AcceptPc
<1>3. CASE accept' = accept \/ accept' = Accepting
  BY <1>1, <1>2, <1>3 DEF AcceptOK
<1>4. CASE \E pc \in AcceptPc : accept' = [accept EXCEPT !.pc = pc]
                                  \/ accept' = [accept EXCEPT !.pc = pc, !.tmp = count]
  BY <1>1, <1>4 DEF AcceptOK
<1>5. CASE \E c \in Clients : accept' = [pc |-> "check", fd |-> c, tmp |-> 0]
  BY <1>5 DEF AcceptOK, AcceptPc
<1>6. CASE AcceptLoad
  BY <1>4, <1>6 DEF AcceptLoad, AcceptPc
<1>7. CASE AcceptCheck \/ AcceptStore \/ AcceptSpawn \/ AcceptUnstore
  BY <1>3, <1>4, <1>7 DEF AcceptCheck, AcceptStore, AcceptSpawn, AcceptUnstore, AcceptPc
<1>8. CASE \E c \in Clients : AcceptNext(c)
  BY <1>5, <1>8 DEF AcceptNext
<1>9. AcceptTask \/ accept' = accept
  BY DEF Next, vars, Publish, SetVar, Connect, Ends, ListStep, ListLock, ListLine, ListEnd,
         ListFails, CloseStep, CloseLoad, CloseStore, RecvPartial, Reply, Login, GetVar,
         ListBegin, Username, Password
<1> QED
  BY <1>3, <1>6, <1>7, <1>8, <1>9 DEF AcceptTask

LEMMA ClientTyped ==
  Typed /\ AcceptInv /\ ListInv /\ [Next]_vars => ClientOK'
<1> SUFFICES ASSUME Typed, AcceptInv, ListInv, [Next]_vars PROVE ClientOK'
  OBVIOUS
<1>0. ClientOK /\ TableOK /\ count \in Int
  BY DEF Typed, RestOK
<1>1. \A c \in Clients : Moves(c) => ClientOK'
  BY DEF Moves, ClientOK
<1>2. CASE \E c \in Clients :
             \/ Talk(c) \/ Connect(c) \/ AcceptNext(c)
             \/ ListLock(c) \/ ListEnd(c) \/ ListFails(c)
             \/ CloseLoad(c) \/ CloseStore(c)
  BY <1>0, <1>1, <1>2, TalkMoves, ConnectMoves, AcceptNextMoves, ListLockMoves,
     ListOverMoves, CloseLoadMoves, CloseStoreMoves
<1>3. ASSUME NEW c \in Clients, ListLine(c) PROVE ClientOK'
  <2>1. client[c].i \in 1 .. MaxVars + 1
    BY <1>3 DEF ListInv, Listed, ListLine
  <2> QED
    BY <1>0, <1>1, <1>3, <2>1, ListLineMoves
<1>4. CASE accept.pc \in {"check", "spawn"} /\ Drops(accept.pc)
  BY <1>0, <1>1, <1>4, AcceptDropMoves DEF AcceptInv, Drops
<1>5. CASE accept.pc = "spawn" /\ Serves
  BY <1>0, <1>1, <1>5, AcceptServeMoves DEF AcceptInv, Serves
<1>6. CASE client' = client
  BY <1>0, <1>6 DEF ClientOK
<1>7. CASE \E n \in Names, v \in Values \cup {NoOne} : Publish(n, v)
  BY <1>6, <1>7 DEF Publish
<1>8. CASE SetVar \/ AcceptAlone \/ UNCHANGED vars
  BY <1>6, <1>8 DEF SetVar, AcceptAlone, AcceptLoad, AcceptStore, AcceptUnstore, vars
<1> QED
  BY <1>2, <1>3, <1>4, <1>5, <1>7, <1>8, Steps

LEMMA RestTyped == Typed /\ [Next]_vars => RestOK' /\ PublishOK'
<1> SUFFICES ASSUME Typed, [Next]_vars PROVE RestOK' /\ PublishOK'
  OBVIOUS
<1>1. lock \in Clients \cup {NoOne} /\ count \in Int /\ accept.tmp \in Int
      /\ \A c \in Clients : client[c].tmp \in Int
  BY DEF Typed, RestOK, AcceptOK, ClientOK, ClientRec
<1>2. count' \in Int
  <2>1. \/ count' = count \/ count' = accept.tmp + 1 \/ count' = accept.tmp - 1
        \/ \E c \in Clients : count' = client[c].tmp - 1
    BY DEF Next, vars, Publish, SetVar, AcceptTask, AcceptNext, AcceptCheck, AcceptLoad,
           AcceptStore, AcceptSpawn, AcceptUnstore, Connect, Ends, ListStep, ListLock,
           ListLine, ListEnd, ListFails, CloseStep, CloseLoad, CloseStore, RecvPartial,
           Reply, Login, GetVar, ListBegin, Username, Password
  <2> QED
    BY <1>1, <2>1
<1>3. lock' \in Clients \cup {NoOne}
  <2>1. lock' = lock \/ lock' = NoOne \/ \E c \in Clients : lock' = c
    BY DEF Next, vars, Publish, SetVar, AcceptTask, AcceptNext, AcceptCheck, AcceptLoad,
           AcceptStore, AcceptSpawn, AcceptUnstore, Connect, Ends, ListStep, ListLock,
           ListLine, ListEnd, ListFails, CloseStep, CloseLoad, CloseStore, RecvPartial,
           Reply, Login, GetVar, ListBegin, Username, Password
  <2> QED
    BY <1>1, <2>1
<1>4. PublishOK'
  <2>1. \/ publish' = publish \/ publish' = NoOne
        \/ \E n \in Names, v \in Values \cup {NoOne} : publish' = [name |-> n, value |-> v]
    BY DEF Next, vars, Publish, SetVar, AcceptTask, AcceptNext, AcceptCheck, AcceptLoad,
           AcceptStore, AcceptSpawn, AcceptUnstore, Connect, Ends, ListStep, ListLock,
           ListLine, ListEnd, ListFails, CloseStep, CloseLoad, CloseStore, RecvPartial,
           Reply, Login, GetVar, ListBegin, Username, Password
  <2> QED
    BY <2>1 DEF Typed, PublishOK
<1> QED
  BY <1>2, <1>3, <1>4 DEF RestOK

LEMMA TypesStep ==
  Typed /\ AcceptInv /\ NamesInv /\ ListInv /\ [Next]_vars => Typed' /\ NamesInv'
  BY TableStep, AcceptTyped, ClientTyped, RestTyped DEF Typed
-----------------------------------------------------------------------------
(* The counter. *)

(* Where a step may take a client that is not the accept task's. *)
LEMMA AcceptStep == Typed /\ AcceptInv /\ ListInv /\ [Next]_vars => AcceptInv'
<1> SUFFICES ASSUME Typed, AcceptInv, ListInv, [Next]_vars PROVE AcceptInv'
  OBVIOUS
<1>0. /\ ClientOK /\ TableOK /\ count \in Int
      /\ accept \in [pc : AcceptPc, fd : Clients \cup {NoOne}, tmp : Int]
  BY DEF Typed, RestOK, AcceptOK
<1>1. /\ accept.pc # "accept" => accept.fd \in Clients
      /\ accept.pc \in {"check", "load", "store", "spawn"} =>
           client[accept.fd].pc = "accepted"
  BY DEF AcceptInv
(* A client that was not accepted moves. *)
<1>2. ASSUME NEW c \in Clients, Moves(c), client[c].pc # "accepted", accept' = accept
      PROVE  AcceptInv'
  BY <1>1, <1>2 DEF AcceptInv, Moves
<1>3. ASSUME NEW c \in Clients,
             Talk(c) \/ Connect(c) \/ ListLock(c) \/ ListEnd(c) \/ ListFails(c)
               \/ CloseLoad(c) \/ CloseStore(c)
      PROVE  AcceptInv'
  <2>1. Moves(c) /\ client[c].pc # "accepted" /\ accept' = accept
    BY <1>0, <1>3, TalkMoves, ConnectMoves, ListLockMoves, ListOverMoves, CloseLoadMoves,
       CloseStoreMoves DEF Aside
  <2> QED
    BY <1>2, <2>1
<1>4. ASSUME NEW c \in Clients, ListLine(c) PROVE AcceptInv'
  <2>1. client[c].i \in 1 .. MaxVars + 1
    BY <1>4 DEF ListInv, Listed, ListLine
  <2> QED
    BY <1>0, <1>2, <1>4, <2>1, ListLineMoves DEF Aside
<1>5. ASSUME NEW c \in Clients, AcceptNext(c) PROVE AcceptInv'
  BY <1>0, <1>5, AcceptNextMoves DEF AcceptInv
<1>6. CASE accept' = Accepting
  BY <1>6 DEF AcceptInv, Accepting
<1>7. CASE accept.pc \in {"check", "spawn"} /\ Drops(accept.pc)
  BY <1>0, <1>1, <1>6, <1>7 DEF Drops, AcceptInv
<1>8. CASE accept.pc = "spawn" /\ Serves
  BY <1>6, <1>8 DEF Serves
<1>9. CASE AcceptAlone
  BY <1>0, <1>1, <1>6, <1>9
     DEF AcceptAlone, AcceptLoad, AcceptStore, AcceptUnstore, AcceptCheck, AcceptInv, Accepting
<1>10. CASE UNCHANGED <<accept, client>>
  BY <1>1, <1>10 DEF AcceptInv
<1>11. CASE \E n \in Names, v \in Values \cup {NoOne} : Publish(n, v)
  BY <1>10, <1>11 DEF Publish
<1>12. CASE SetVar \/ UNCHANGED vars
  BY <1>10, <1>12 DEF SetVar, vars
<1> QED
  BY <1>3, <1>4, <1>5, <1>7, <1>8, <1>9, <1>11, <1>12, Steps

(* The same by what changes of the counter: nothing, or an update's load   *)
(* or store, or who is served.                                             *)
Serving == {"recv", "list", "listing", "close", "closing"}
Calm ==
  /\ UNCHANGED <<count, raced>>
  /\ \A c \in Clients :
       /\ client'[c].pc \in Serving <=> client[c].pc \in Serving
       /\ client'[c].pc = "closing" <=> client[c].pc = "closing"
       /\ client[c].pc = "closing" => client'[c].tmp = client[c].tmp

LEMMA CalmSteps ==
  ASSUME Typed, AcceptInv, ListInv, [Next]_vars
  PROVE  \/ Calm /\ accept' = accept
         \/ Calm /\ accept.pc = "accept" /\ accept'.pc = "check"
         \/ Calm /\ accept.pc = "check" /\ accept' = Accepting
         \/ Calm /\ accept.pc = "check" /\ count < MaxClients /\ accept'.pc = "load"
         \/ Calm /\ accept.pc = "spawn" /\ accept'.pc = "unload"
         \/ accept.pc = "spawn" /\ Serves
         \/ AcceptLoad \/ AcceptStore \/ AcceptUnstore
         \/ \E c \in Clients : CloseLoad(c) \/ CloseStore(c)
<1>0. /\ ClientOK /\ TableOK /\ count \in Int
      /\ accept \in [pc : AcceptPc, fd : Clients \cup {NoOne}, tmp : Int]
  BY DEF Typed, RestOK, AcceptOK
<1>1. ASSUME NEW c \in Clients, Moves(c), UNCHANGED <<count, raced>>,
             client[c].pc \in Serving <=> client'[c].pc \in Serving,
             client[c].pc # "closing", client'[c].pc # "closing"
      PROVE  Calm
  BY <1>1 DEF Calm, Moves
<1>2. ASSUME NEW c \in Clients,
             Talk(c) \/ Connect(c) \/ ListLock(c) \/ ListEnd(c) \/ ListFails(c)
      PROVE  Calm /\ accept' = accept
  <2>1. Moves(c) /\ UNCHANGED <<count, raced, accept>>
        /\ (client[c].pc \in Serving <=> client'[c].pc \in Serving)
        /\ client[c].pc # "closing" /\ client'[c].pc # "closing"
    BY <1>0, <1>2, TalkMoves, ConnectMoves, ListLockMoves, ListOverMoves DEF Aside, Serving
  <2> QED
    BY <1>1, <2>1
<1>3. ASSUME NEW c \in Clients, ListLine(c) PROVE Calm /\ accept' = accept
  <2>1. client[c].i \in 1 .. MaxVars + 1
    BY <1>3 DEF ListInv, Listed, ListLine
  <2> QED
    BY <1>0, <1>1, <1>3, <2>1, ListLineMoves DEF Aside
<1>4. ASSUME NEW c \in Clients, AcceptNext(c)
      PROVE  Calm /\ accept.pc = "accept" /\ accept'.pc = "check"
  <2>1. /\ Moves(c) /\ UNCHANGED <<count, raced>>
        /\ client[c].pc = "backlog" /\ client'[c].pc = "accepted"
        /\ accept.pc = "accept" /\ accept'.pc = "check"
    BY <1>0, <1>4, AcceptNextMoves
  <2> QED
    BY <1>1, <2>1 DEF Serving
<1>5. CASE accept.pc \in {"check", "spawn"} /\ Drops(accept.pc)
  <2>1. accept.fd \in Clients /\ client[accept.fd].pc = "accepted"
    BY <1>5 DEF AcceptInv
  <2>2. Moves(accept.fd) /\ client'[accept.fd].pc = "none"
    BY <1>0, <1>5, <2>1, AcceptDropMoves DEF Drops
  <2>3. Calm
    BY <1>1, <1>5, <2>1, <2>2 DEF Drops, Serving
  <2> QED
    BY <1>0, <1>5, <2>3 DEF Drops
<1>6. ASSUME UNCHANGED <<client, count, raced>> PROVE Calm
  BY <1>6 DEF Calm
<1>7. CASE AcceptCheck /\ UNCHANGED client
  <2>1. \/ accept' = Accepting /\ accept.pc = "check"
        \/ accept'.pc = "load" /\ count < MaxClients /\ accept.pc = "check"
    BY <1>0, <1>7, NutAssumption DEF AcceptCheck
  <2> QED
    BY <1>6, <1>7, <2>1 DEF AcceptCheck
<1>8. CASE \E n \in Names, v \in Values \cup {NoOne} : Publish(n, v)
  BY <1>6, <1>8 DEF Publish
<1>9. CASE SetVar \/ UNCHANGED vars
  BY <1>6, <1>9 DEF SetVar, vars
<1> QED
  BY <1>2, <1>3, <1>4, <1>5, <1>7, <1>8, <1>9, Steps DEF AcceptAlone
(* A count above the limit would take an increment from the limit. *)
LEMMA LimitStep == Typed /\ AcceptInv /\ ListInv /\ LimitInv /\ [Next]_vars => LimitInv'
<1> SUFFICES ASSUME Typed, AcceptInv, ListInv, LimitInv, [Next]_vars PROVE LimitInv'
  OBVIOUS
<1>0. /\ ClientOK /\ count \in Int /\ MaxClients \in Nat \ {0}
      /\ accept \in [pc : AcceptPc, fd : Clients \cup {NoOne}, tmp : Int]
  BY NutAssumption DEF Typed, RestOK, AcceptOK
<1>1. /\ count <= MaxClients
      /\ \A c \in Clients : client[c].pc = "closing" => client[c].tmp <= MaxClients
      /\ accept.pc = "load" => count < MaxClients
      /\ accept.pc = "store" => accept.tmp < MaxClients
      /\ accept.pc = "unstore" => accept.tmp <= MaxClients
  BY DEF LimitInv
<1>2. ASSUME Calm
      PROVE  count' = count
             /\ \A c \in Clients : client'[c].pc = "closing" => client'[c].tmp <= MaxClients
  BY <1>1, <1>2 DEF Calm
<1>3. CASE Calm /\ accept' = accept
  BY <1>1, <1>2, <1>3 DEF LimitInv
<1>4. CASE Calm /\ accept'.pc \in {"check", "unload", "accept"}
  BY <1>1, <1>2, <1>4 DEF LimitInv
<1>5. CASE Calm /\ count < MaxClients /\ accept'.pc = "load"
  BY <1>1, <1>2, <1>5 DEF LimitInv
<1>6. CASE accept.pc = "spawn" /\ Serves
  <2>1. accept'.pc = "accept" /\ count' = count
    BY <1>6 DEF Serves, Accepting
  <2>2. Moves(accept.fd) /\ client'[accept.fd].pc = "recv"
    BY <1>0, <1>6, AcceptServeMoves DEF Serves, AcceptInv
  <2>3. \A c \in Clients : client'[c].pc = "closing" => client'[c] = client[c]
    BY <2>2 DEF Moves
  <2> QED
    BY <1>1, <2>1, <2>3 DEF LimitInv
<1>7. CASE AcceptLoad
  <2>1. UNCHANGED <<client, count>> /\ accept'.tmp = count
        /\ (accept'.pc = "store" => accept.pc = "load")
        /\ accept'.pc \in {"store", "unstore"}
    BY <1>0, <1>7 DEF AcceptLoad
  <2> QED
    BY <1>0, <1>1, <2>1 DEF LimitInv
<1>8. CASE AcceptStore
  <2>1. client' = client /\ count' = accept.tmp + 1 /\ accept'.pc = "spawn"
        /\ accept.tmp < MaxClients
    BY <1>0, <1>1, <1>8 DEF AcceptStore
  <2> QED
    BY <1>0, <1>1, <2>1 DEF LimitInv
<1>9. CASE AcceptUnstore
  <2>1. client' = client /\ count' = accept.tmp - 1 /\ accept'.pc = "accept"
        /\ accept.tmp <= MaxClients
    BY <1>0, <1>1, <1>9 DEF AcceptUnstore, Accepting
  <2> QED
    BY <1>0, <1>1, <2>1 DEF LimitInv
<1>10. ASSUME NEW c \in Clients, CloseLoad(c) PROVE LimitInv'
  <2>1. /\ Moves(c) /\ UNCHANGED <<count, accept>> /\ client'[c].tmp = count
    BY <1>0, <1>10, CloseLoadMoves
  <2>2. \A d \in Clients : client'[d].pc = "closing" => client'[d].tmp <= MaxClients
    BY <1>1, <2>1 DEF Moves
  <2> QED
    BY <1>1, <2>1, <2>2 DEF LimitInv
<1>11. ASSUME NEW c \in Clients, CloseStore(c) PROVE LimitInv'
  <2>1. /\ Moves(c) /\ accept' = accept /\ count' = client[c].tmp - 1
        /\ client[c].pc = "closing" /\ client'[c].pc = "none"
    BY <1>0, <1>11, CloseStoreMoves
  <2>2. client[c].tmp \in Int /\ client[c].tmp <= MaxClients
    BY <1>0, <1>1, <2>1 DEF ClientOK, ClientRec
  <2>3. \A d \in Clients : client'[d].pc = "closing" => client'[d].tmp <= MaxClients
    BY <1>1, <2>1 DEF Moves
  <2>4. count' < MaxClients /\ count' <= MaxClients
    BY <1>0, <2>1, <2>2
  <2> QED
    BY <1>1, <2>1, <2>3, <2>4 DEF LimitInv
<1> QED
  BY <1>3, <1>4, <1>5, <1>6, <1>7, <1>8, <1>9, <1>10, <1>11, CalmSteps DEF Accepting

(* One update at a time, until raced says otherwise. *)
LEMMA RaceStep == Typed /\ AcceptInv /\ ListInv /\ RaceInv /\ [Next]_vars => RaceInv'
<1> SUFFICES ASSUME Typed, AcceptInv, ListInv, RaceInv, [Next]_vars, ~raced' PROVE RaceInv'
  BY DEF RaceInv
<1>0. /\ ClientOK /\ count \in Int /\ NoOne \notin Clients
      /\ accept \in [pc : AcceptPc, fd : Clients \cup {NoOne}, tmp : Int]
  BY NutAssumption DEF Typed, RestOK, AcceptOK
<1> DEFINE Closers == {c \in Clients : client[c].pc = "closing"}
           Adder == IF accept.pc \in {"store", "unstore"} THEN {NoOne} ELSE {}
<1>1. Updating = Closers \cup Adder
  BY DEF Updating
<1>2. Updating' = Closers' \cup Adder'
  BY DEF Updating
<1>3. ASSUME ~raced
      PROVE  /\ \A x, y \in Closers \cup Adder : x = y
             /\ \A c \in Clients : client[c].pc = "closing" => client[c].tmp = count
             /\ accept.pc \in {"store", "unstore"} => accept.tmp = count
  BY <1>1, <1>3 DEF RaceInv
<1> SUFFICES /\ \A x, y \in Closers' \cup Adder' : x = y
             /\ \A c \in Clients : client'[c].pc = "closing" => client'[c].tmp = count'
             /\ accept'.pc \in {"store", "unstore"} => accept'.tmp = count'
  BY <1>2 DEF RaceInv
<1>4. ASSUME Calm, accept' = accept \/ accept'.pc \notin {"store", "unstore"}
      PROVE  /\ \A x, y \in Closers' \cup Adder' : x = y
             /\ \A c \in Clients : client'[c].pc = "closing" => client'[c].tmp = count'
             /\ accept'.pc \in {"store", "unstore"} => accept'.tmp = count'
  <2>1. Closers' = Closers /\ Adder' \subseteq Adder /\ ~raced /\ count' = count
    BY <1>4 DEF Calm
  <2> QED
    BY <1>3, <1>4, <2>1 DEF Calm
<1>5. CASE accept.pc = "spawn" /\ Serves
  <2>1. accept'.pc = "accept" /\ count' = count /\ ~raced
    BY <1>5 DEF Serves, Accepting
  <2>2. Moves(accept.fd) /\ client'[accept.fd].pc = "recv" /\ accept.fd \in Clients
    BY <1>0, <1>5, AcceptServeMoves DEF Serves, AcceptInv
  <2>3. \A c \in Clients : client'[c].pc = "closing" => client'[c] = client[c]
    BY <2>2 DEF Moves
  <2>4. Closers' \subseteq Closers /\ Adder' = {}
    BY <2>1, <2>3
  <2> QED
    BY <1>3, <2>1, <2>3, <2>4
<1>6. CASE AcceptLoad
  <2>1. /\ ~raced /\ Updating = {} /\ UNCHANGED <<client, count>> /\ accept'.tmp = count
        /\ Adder' \subseteq {NoOne}
    BY <1>0, <1>6 DEF AcceptLoad
  <2>2. Closers = {} /\ Closers' = Closers
    BY <1>1, <2>1
  <2> QED
    BY <2>1, <2>2
(* The one update under way is stored. *)
<1>7. CASE AcceptStore \/ AcceptUnstore
  <2>1. ~raced /\ client' = client /\ accept.pc \in {"store", "unstore"}
        /\ accept'.pc \in {"spawn", "accept"}
    BY <1>0, <1>7 DEF AcceptStore, AcceptUnstore, Accepting
  <2>2. Closers = {} /\ Closers' = Closers /\ Adder' = {}
    BY <1>0, <1>3, <2>1
  <2> QED
    BY <2>1, <2>2
<1>8. ASSUME NEW c \in Clients, CloseLoad(c)
      PROVE  /\ \A x, y \in Closers' \cup Adder' : x = y
             /\ \A d \in Clients : client'[d].pc = "closing" => client'[d].tmp = count'
             /\ accept'.pc \in {"store", "unstore"} => accept'.tmp = count'
  <2>1. /\ Moves(c) /\ UNCHANGED <<count, accept>> /\ client'[c].tmp = count
        /\ ~raced /\ Updating = {}
    BY <1>0, <1>8, CloseLoadMoves
  <2>2. Closers' \subseteq {c} /\ Adder' = {} /\ accept'.pc \notin {"store", "unstore"}
    BY <1>1, <2>1 DEF Moves
  <2> QED
    BY <2>1, <2>2
<1>9. ASSUME NEW c \in Clients, CloseStore(c)
      PROVE  /\ \A x, y \in Closers' \cup Adder' : x = y
             /\ \A d \in Clients : client'[d].pc = "closing" => client'[d].tmp = count'
             /\ accept'.pc \in {"store", "unstore"} => accept'.tmp = count'
  <2>1. /\ Moves(c) /\ accept' = accept /\ ~raced
        /\ client[c].pc = "closing" /\ client'[c].pc = "none"
    BY <1>0, <1>9, CloseStoreMoves
  <2>2. c \in Closers /\ Closers \cup Adder = {c}
    BY <1>3, <2>1
  <2>3. Adder = {}
    BY <1>0, <2>2
  <2>4. Closers' = {} /\ Adder' = {} /\ accept'.pc \notin {"store", "unstore"}
    BY <2>1, <2>2, <2>3 DEF Moves
  <2> QED
    BY <2>4
<1> QED
  BY <1>4, <1>5, <1>6, <1>7, <1>8, <1>9, CalmSteps DEF Accepting
LEMMA CountStep ==
  Typed /\ AcceptInv /\ ListInv /\ RaceInv /\ CountInv /\ [Next]_vars => CountInv'
<1> SUFFICES ASSUME Typed, AcceptInv, ListInv, RaceInv, CountInv, [Next]_vars, ~raced'
             PROVE  count' = Cardinality(Served')
  BY DEF CountInv
<1>0. /\ ClientOK /\ count \in Int /\ NoOne \notin Clients /\ IsFiniteSet(Clients)
      /\ accept \in [pc : AcceptPc, fd : Clients \cup {NoOne}, tmp : Int]
  BY NutAssumption DEF Typed, RestOK, AcceptOK
<1> DEFINE Live == {c \in Clients : client[c].pc \in Serving}
           Token == IF accept.pc \in {"spawn", "unload", "unstore"} THEN {NoOne} ELSE {}
<1>1. Served = Live \cup Token /\ Served' = Live' \cup Token'
  BY DEF Served, Serving
<1>2. IsFiniteSet(Live) /\ NoOne \notin Live /\ Cardinality(Live) \in Nat
  BY <1>0, FS_Subset, FS_CardinalityType
<1>3. ASSUME ~raced
      PROVE  /\ count = Cardinality(Live \cup Token)
             /\ \A c \in Clients : client[c].pc = "closing" => client[c].tmp = count
             /\ accept.pc \in {"store", "unstore"} => accept.tmp = count
  BY <1>1, <1>3 DEF CountInv, RaceInv
<1>4. ASSUME NEW S, IsFiniteSet(S), NEW x, x \notin S
      PROVE  Cardinality(S \cup {x}) = Cardinality(S) + 1 /\ Cardinality(S) \in Nat
  BY <1>4, FS_AddElement, FS_CardinalityType
<1>5. ASSUME Live' = Live, Token' = Token, UNCHANGED <<count, raced>>
      PROVE  count' = Cardinality(Served')
  BY <1>1, <1>3, <1>5
<1>6. ASSUME Calm PROVE Live' = Live /\ UNCHANGED <<count, raced>>
  BY <1>6 DEF Calm
<1>7. ASSUME Calm, accept' = accept PROVE count' = Cardinality(Served')
  BY <1>5, <1>6, <1>7
<1>8. ASSUME Calm, accept.pc \in {"accept", "check"}, accept'.pc \in {"accept", "check", "load"}
      PROVE  count' = Cardinality(Served')
  BY <1>5, <1>6, <1>8
<1>9. ASSUME Calm, accept.pc = "spawn", accept'.pc = "unload"
      PROVE  count' = Cardinality(Served')
  BY <1>5, <1>6, <1>9
(* The slot the accept task holds becomes the client's. *)
<1>10. CASE accept.pc = "spawn" /\ Serves
  <2> DEFINE f == accept.fd
  <2>1. f \in Clients /\ client[f].pc = "accepted"
    BY <1>10 DEF AcceptInv
  <2>2. Moves(f) /\ client'[f].pc = "recv" /\ accept'.pc = "accept" /\ count' = count /\ ~raced
    BY <1>0, <1>10, <2>1, AcceptServeMoves DEF Serves, Accepting
  <2> HIDE DEF f
  <2>3. f \notin Live /\ Live' = Live \cup {f} /\ Token = {NoOne} /\ Token' = {}
    BY <1>10, <2>1, <2>2 DEF Moves, Serving
  <2>4. Cardinality(Live \cup {f}) = Cardinality(Live) + 1
        /\ Cardinality(Live \cup {NoOne}) = Cardinality(Live) + 1
    BY <1>2, <1>4, <2>3
  <2> QED
    BY <1>1, <1>3, <2>2, <2>3, <2>4
<1>11. CASE AcceptLoad
  <2>1. /\ UNCHANGED <<client, count>> /\ ~raced
        /\ \/ accept.pc = "load" /\ accept'.pc = "store"
           \/ accept.pc = "unload" /\ accept'.pc = "unstore"
    BY <1>0, <1>11 DEF AcceptLoad
  <2>2. Live' = Live /\ Token' = Token
    BY <2>1
  <2> QED
    BY <1>1, <1>3, <2>1, <2>2
<1>12. CASE AcceptStore
  <2>1. /\ client' = client /\ ~raced /\ accept.pc = "store" /\ accept'.pc = "spawn"
        /\ count' = accept.tmp + 1
    BY <1>0, <1>12 DEF AcceptStore
  <2>2. Live' = Live /\ Token = {} /\ Token' = {NoOne}
    BY <2>1
  <2>3. Cardinality(Live \cup {NoOne}) = Cardinality(Live) + 1
    BY <1>2, <1>4
  <2>4. count = Cardinality(Live) /\ accept.tmp = count
    BY <1>3, <2>1, <2>2
  <2> QED
    BY <1>1, <2>1, <2>2, <2>3, <2>4
<1>13. CASE AcceptUnstore
  <2>1. /\ client' = client /\ ~raced /\ accept.pc = "unstore" /\ accept'.pc = "accept"
        /\ count' = accept.tmp - 1
    BY <1>0, <1>13 DEF AcceptUnstore, Accepting
  <2>2. Live' = Live /\ Token = {NoOne} /\ Token' = {}
    BY <2>1
  <2>3. Cardinality(Live \cup {NoOne}) = Cardinality(Live) + 1
    BY <1>2, <1>4
  <2>4. count = Cardinality(Live) + 1 /\ accept.tmp = count
    BY <1>3, <2>1, <2>2, <2>3
  <2>5. count' = Cardinality(Live)
    BY <1>2, <2>1, <2>4
  <2> QED
    BY <1>1, <2>2, <2>5
<1>14. ASSUME NEW c \in Clients, CloseLoad(c) PROVE count' = Cardinality(Served')
  <2>1. /\ Moves(c) /\ UNCHANGED <<count, accept>> /\ ~raced
        /\ client[c].pc = "close" /\ client'[c].pc = "closing"
    BY <1>0, <1>14, CloseLoadMoves
  <2>2. Live' = Live /\ Token' = Token
    BY <2>1 DEF Moves, Serving
  <2> QED
    BY <1>1, <1>3, <2>1, <2>2
<1>15. ASSUME NEW c \in Clients, CloseStore(c) PROVE count' = Cardinality(Served')
  <2>1. /\ Moves(c) /\ accept' = accept /\ ~raced /\ count' = client[c].tmp - 1
        /\ client[c].pc = "closing" /\ client'[c].pc = "none"
    BY <1>0, <1>15, CloseStoreMoves
  <2>2. c \in Live /\ Live' = Live \ {c} /\ Token' = Token
    BY <2>1 DEF Moves, Serving
  <2> DEFINE T == (Live \ {c}) \cup Token
  <2>3. Live \cup Token = T \cup {c} /\ c \notin T
    BY <1>0, <2>2
  <2>4. IsFiniteSet(T)
    <3>1. IsFiniteSet(Live \ {c})
      BY <1>2, FS_Subset
    <3>2. IsFiniteSet((Live \ {c}) \cup {NoOne})
      BY <3>1, FS_AddElement
    <3> QED
      BY <3>1, <3>2
  <2>5. count = Cardinality(T \cup {c}) /\ client[c].tmp = count
    BY <1>3, <2>1, <2>3
  <2>6. Served' = T
    BY <1>1, <2>2
  <2> HIDE DEF T
  <2>7. Cardinality(T \cup {c}) = Cardinality(T) + 1 /\ Cardinality(T) \in Nat
    BY <1>4, <2>3, <2>4
  <2> QED
    BY <2>1, <2>5, <2>6, <2>7
<1> HIDE DEF Live, Token
<1>16. Accepting.pc = "accept"
  BY DEF Accepting
<1>17. CASE Calm /\ accept.pc = "check" /\ accept' = Accepting
  BY <1>8, <1>16, <1>17
<1> QED
  BY <1>7, <1>8, <1>9, <1>10, <1>11, <1>12, <1>13, <1>14, <1>15, <1>17, CalmSteps

-----------------------------------------------------------------------------
(* The listing. *)

LEMMA LinesStep ==
  ASSUME NEW k \in Slots
  PROVE  /\ Lines(table, k) = IF table[k].used THEN Lines(table, k - 1) + 1 ELSE Lines(table, k - 1)
         /\ Lines(table, k - 1) \in Nat
<1> DEFINE S(n) == {j \in 1 .. n : table[j].used}
<1>0. k \in Nat \ {0}
  BY NutAssumption DEF Slots
<1>1. IsFiniteSet(S(k - 1))
  <2>1. IsFiniteSet(1 .. k - 1)
    BY <1>0, FS_Interval
  <2> QED
    BY <2>1, FS_Subset
<1>2. S(k) = IF table[k].used THEN S(k - 1) \cup {k} ELSE S(k - 1)
  BY <1>0
<1>3. k \notin S(k - 1)
  BY <1>0
<1>4. Lines(table, k) = Cardinality(S(k)) /\ Lines(table, k - 1) = Cardinality(S(k - 1))
  BY DEF Lines
<1> HIDE DEF S
<1>5. Cardinality(S(k - 1) \cup {k}) = Cardinality(S(k - 1)) + 1
      /\ Cardinality(S(k - 1)) \in Nat
  BY <1>1, <1>3, FS_AddElement, FS_CardinalityType
<1> QED
  BY <1>2, <1>4, <1>5

LEMMA LinesNone == Lines(table, 0) = 0
<1>1. {j \in 1 .. 0 : table[j].used} = {}
  OBVIOUS
<1> QED
  BY <1>1, FS_EmptySet DEF Lines
(* A slot in use has a line among those of the slots up to n. *)
LEMMA LinesRange ==
  ASSUME NEW n \in Nat, NEW k \in 1 .. n, table[k].used
  PROVE  Lines(table, k) \in 1 .. Lines(table, n)
<1> DEFINE S(m) == {j \in 1 .. m : table[j].used}
<1>1. IsFiniteSet(S(n)) /\ S(k) \subseteq S(n) /\ k \in S(k)
  <2>1. IsFiniteSet(1 .. n)
    BY FS_Interval
  <2> QED
    BY <2>1, FS_Subset
<1>2. Lines(table, n) = Cardinality(S(n)) /\ Lines(table, k) = Cardinality(S(k))
  BY DEF Lines
<1> HIDE DEF S
<1>3. IsFiniteSet(S(k)) /\ Cardinality(S(k)) <= Cardinality(S(n))
  BY <1>1, FS_Subset
<1>4. Cardinality(S(k)) \in Nat /\ Cardinality(S(n)) \in Nat /\ Cardinality(S(k)) # 0
  BY <1>1, <1>3, FS_CardinalityType, FS_EmptySet
<1> QED
  BY <1>2, <1>3, <1>4

LEMMA ListedNext ==
  ASSUME TableOK, NEW r \in ClientRec, NEW q \in ClientRec, Listed(table, r), r.i \in Slots,
         q.i = r.i + 1,
         q.sent = IF table[r.i].used THEN Append(r.sent, table[r.i]) ELSE r.sent
  PROVE  Listed(table, q)
<1> DEFINE i == r.i
           old == r.sent
           new == q.sent
<1>0. i \in Nat \ {0} /\ i \in 1 .. MaxVars /\ MaxVars \in Nat /\ q.i - 1 = i
  BY NutAssumption DEF Slots
<1>1. /\ Len(old) = Lines(table, i - 1)
      /\ \A k \in 1 .. i - 1 : table[k].used => old[Lines(table, k)] = table[k]
      /\ \A j \in 1 .. Len(old) : \E k \in 1 .. i - 1 : table[k].used /\ Lines(table, k) = j
  BY DEF Listed
<1>2. Lines(table, i) = (IF table[i].used THEN Lines(table, i - 1) + 1 ELSE Lines(table, i - 1))
      /\ Lines(table, i - 1) \in Nat
  BY LinesStep
<1>3. \A k \in 1 .. i - 1 : table[k].used => Lines(table, k) \in 1 .. Lines(table, i - 1)
  <2>1. i - 1 \in Nat
    BY <1>0
  <2> QED
    BY <2>1, LinesRange
<1>4. old \in Seq(Row) /\ table[i] \in Row
  BY DEF ClientRec, TableOK
<1>5. new = IF table[i].used THEN Append(old, table[i]) ELSE old
  OBVIOUS
<1>6. /\ Len(new) = Lines(table, i)
      /\ \A m \in 1 .. Len(old) : new[m] = old[m]
      /\ table[i].used => new[Lines(table, i)] = table[i]
  <2>1. /\ Len(Append(old, table[i])) = Len(old) + 1
        /\ Append(old, table[i])[Len(old) + 1] = table[i]
        /\ \A m \in 1 .. Len(old) : Append(old, table[i])[m] = old[m]
    BY <1>4, AppendProperties
  <2> HIDE DEF i, old, new
  <2> QED
    BY <1>1, <1>2, <1>5, <2>1
<1>7. q.i \in 1 .. MaxVars + 1
  BY <1>0
<1> SUFFICES /\ \A k \in 1 .. i : table[k].used => new[Lines(table, k)] = table[k]
             /\ \A j \in 1 .. Len(new) : \E k \in 1 .. i : table[k].used /\ Lines(table, k) = j
  BY <1>0, <1>6, <1>7 DEF Listed
<1> HIDE DEF i, old, new
<1>8. ASSUME NEW k \in 1 .. i, table[k].used PROVE new[Lines(table, k)] = table[k]
  <2>1. CASE k = i
    BY <1>6, <1>8, <2>1
  <2>2. CASE k # i
    <3>1. k \in 1 .. i - 1
      BY <1>0, <2>2
    <3> QED
      BY <1>1, <1>3, <1>6, <1>8, <3>1
  <2> QED
    BY <2>1, <2>2
<1>9. ASSUME NEW j \in 1 .. Len(new) PROVE \E k \in 1 .. i : table[k].used /\ Lines(table, k) = j
  <2>1. CASE j \in 1 .. Len(old)
    <3>1. PICK k \in 1 .. i - 1 : table[k].used /\ Lines(table, k) = j
      BY <1>1, <2>1
    <3> QED
      BY <1>0, <3>1
  <2>2. CASE j \notin 1 .. Len(old)
    <3>1. table[i].used /\ j = Lines(table, i)
      BY <1>1, <1>2, <1>6, <2>2
    <3> QED
      BY <1>0, <3>1
  <2> QED
    BY <2>1, <2>2
<1> QED
  BY <1>8, <1>9

LEMMA LockStep == Typed /\ AcceptInv /\ ListInv /\ LockInv /\ [Next]_vars => LockInv'
<1> SUFFICES ASSUME Typed, AcceptInv, ListInv, LockInv, [Next]_vars PROVE LockInv'
  OBVIOUS
<1>0. ClientOK /\ TableOK /\ count \in Int /\ NoOne \notin Clients
  BY NutAssumption DEF Typed, RestOK
<1>1. \A c \in Clients : client[c].pc = "listing" <=> lock = c
  BY DEF LockInv
<1>2. ASSUME NEW c \in Clients, Moves(c), lock' = lock,
             client'[c].pc = "listing" <=> client[c].pc = "listing"
      PROVE  LockInv'
  BY <1>1, <1>2 DEF LockInv, Moves
<1>3. ASSUME NEW c \in Clients,
             Talk(c) \/ Connect(c) \/ AcceptNext(c) \/ CloseLoad(c) \/ CloseStore(c)
      PROVE  LockInv'
  <2>1. Moves(c) /\ lock' = lock /\ client[c].pc # "listing" /\ client'[c].pc # "listing"
    BY <1>0, <1>3, TalkMoves, ConnectMoves, AcceptNextMoves, CloseLoadMoves, CloseStoreMoves
       DEF Aside
  <2> QED
    BY <1>2, <2>1
<1>4. ASSUME NEW c \in Clients, ListLock(c) PROVE LockInv'
  BY <1>0, <1>1, <1>4, ListLockMoves DEF LockInv, Moves
<1>5. ASSUME NEW c \in Clients, ListLine(c) PROVE LockInv'
  <2>1. client[c].i \in 1 .. MaxVars + 1
    BY <1>5 DEF ListInv, Listed, ListLine
  <2> QED
    BY <1>0, <1>2, <1>5, <2>1, ListLineMoves DEF Aside
(* Whoever gives the lock back was the only one who listed. *)
<1>6. ASSUME NEW c \in Clients, ListEnd(c) \/ ListFails(c) PROVE LockInv'
  <2>1. Moves(c) /\ lock' = NoOne /\ client[c].pc = "listing" /\ client'[c].pc # "listing"
    BY <1>0, <1>6, ListOverMoves
  <2>2. \A d \in Clients : client'[d].pc # "listing"
    BY <1>1, <2>1 DEF Moves
  <2> QED
    BY <1>0, <2>1, <2>2 DEF LockInv
<1>7. CASE accept.pc \in {"check", "spawn"} /\ Drops(accept.pc)
  BY <1>0, <1>2, <1>7, AcceptDropMoves DEF AcceptInv, Drops
<1>8. CASE accept.pc = "spawn" /\ Serves
  BY <1>0, <1>2, <1>8, AcceptServeMoves DEF AcceptInv, Serves
<1>9. CASE UNCHANGED <<client, lock>>
  BY <1>1, <1>9 DEF LockInv
<1>10. CASE \E n \in Names, v \in Values \cup {NoOne} : Publish(n, v)
  BY <1>9, <1>10 DEF Publish
<1>11. CASE SetVar \/ AcceptAlone \/ UNCHANGED vars
  BY <1>9, <1>11 DEF SetVar, AcceptAlone, AcceptCheck, AcceptLoad, AcceptStore,
                     AcceptUnstore, vars
<1> QED
  BY <1>3, <1>4, <1>5, <1>6, <1>7, <1>8, <1>10, <1>11, Steps

LEMMA ListInvStep == Typed /\ AcceptInv /\ LockInv /\ ListInv /\ [Next]_vars => ListInv'
<1> SUFFICES ASSUME Typed, AcceptInv, LockInv, ListInv, [Next]_vars PROVE ListInv'
  OBVIOUS
<1>0. ClientOK /\ TableOK /\ count \in Int /\ NoOne \notin Clients
  BY NutAssumption DEF Typed, RestOK
<1>1. \A c \in Clients : client[c].pc = "listing" => lock = c /\ Listed(table, client[c])
  BY DEF LockInv, ListInv
<1>2. ASSUME NEW c \in Clients, Moves(c), table' = table,
             client'[c].pc = "listing" => Listed(table, client'[c])
      PROVE  ListInv'
  BY <1>1, <1>2 DEF ListInv, Moves
<1>4. ASSUME NEW c \in Clients,
             Talk(c) \/ Connect(c) \/ AcceptNext(c) \/ ListEnd(c) \/ ListFails(c)
               \/ CloseLoad(c) \/ CloseStore(c)
      PROVE  ListInv'
  <2>1. Moves(c) /\ table' = table /\ client'[c].pc # "listing"
    BY <1>0, <1>4, TalkMoves, ConnectMoves, AcceptNextMoves, ListOverMoves, CloseLoadMoves,
       CloseStoreMoves DEF Aside
  <2> QED
    BY <1>2, <2>1
<1>5. ASSUME NEW c \in Clients, ListLock(c) PROVE ListInv'
  <2>1. Moves(c) /\ table' = table /\ client'[c].sent = <<>> /\ client'[c].i = 1
    BY <1>0, <1>5, ListLockMoves
  <2>2. Listed(table, client'[c])
    BY <2>1, LinesNone, NutAssumption DEF Listed
  <2> QED
    BY <1>2, <2>1, <2>2
<1>6. ASSUME NEW c \in Clients, ListLine(c) PROVE ListInv'
  <2>1. client[c].pc = "listing" /\ Listed(table, client[c]) /\ client[c].i \in 1 .. MaxVars + 1
    BY <1>1, <1>6 DEF Listed, ListLine
  <2>2. /\ Moves(c) /\ table' = table /\ client[c].i \in Slots
        /\ client'[c].i = client[c].i + 1
        /\ client'[c].sent = IF table[client[c].i].used
                               THEN Append(client[c].sent, table[client[c].i])
                               ELSE client[c].sent
    BY <1>0, <1>6, <2>1, ListLineMoves DEF Aside
  <2>3. client[c] \in ClientRec /\ client'[c] \in ClientRec
    BY <1>0, <2>2 DEF ClientOK, Moves
  <2>4. Listed(table, client'[c])
    BY <1>0, <2>1, <2>2, <2>3, ListedNext
  <2> QED
    BY <1>2, <2>2, <2>4
<1>7. CASE accept.pc \in {"check", "spawn"} /\ Drops(accept.pc)
  BY <1>0, <1>2, <1>7, AcceptDropMoves DEF AcceptInv, Drops
<1>8. CASE accept.pc = "spawn" /\ Serves
  BY <1>0, <1>2, <1>8, AcceptServeMoves DEF AcceptInv, Serves
(* The table is written only while nobody lists. *)
<1>9. CASE SetVar
  <2>1. \A c \in Clients : client'[c].pc # "listing"
    BY <1>0, <1>1, <1>9 DEF SetVar
  <2> QED
    BY <2>1 DEF ListInv
<1>10. CASE UNCHANGED <<client, table>>
  BY <1>1, <1>10 DEF ListInv
<1>11. CASE \E n \in Names, v \in Values \cup {NoOne} : Publish(n, v)
  BY <1>10, <1>11 DEF Publish
<1>12. CASE AcceptAlone \/ UNCHANGED vars
  BY <1>10, <1>12 DEF AcceptAlone, AcceptCheck, AcceptLoad, AcceptStore, AcceptUnstore, vars
<1> QED
  BY <1>4, <1>5, <1>6, <1>7, <1>8, <1>9, <1>11, <1>12, Steps

-----------------------------------------------------------------------------
LEMMA NextInv == IInv /\ [Next]_vars => IInv'
  BY TypesStep, AcceptStep, LimitStep, RaceStep, CountStep, LockStep, ListInvStep DEF IInv

LEMMA Invariant == Spec => []IInv
  BY InitInv, NextInv, PTL DEF Spec

(* Types of the table, the accept task and the clients; client_task's      *)
(* buffer always has room for the next recv; and client_count, which two   *)
(* tasks may update at once and lose each other's update, is never above   *)
(* max_clients.                                                            *)
THEOREM ServerTyped == Spec => []TypeOK
<1>1. IInv => TypeOK
  <2> SUFFICES ASSUME IInv PROVE TypeOK
    OBVIOUS
  <2>1. \A c \in Clients : client[c] \in ClientRec
    BY DEF IInv, Typed, ClientOK
  <2>2. \A c \in Clients :
          /\ client[c].pc \in ClientPc /\ client[c].fill \in 0 .. RxRoom - 1
          /\ client[c].user \in Users \cup {Unset} /\ client[c].pass \in Passwords \cup {Unset}
          /\ client[c].i \in 0 .. MaxVars + 1
    BY <2>1 DEF ClientRec
  <2>3. accept.pc \in AcceptPc /\ accept.fd \in Clients \cup {NoOne}
    BY DEF IInv, Typed, AcceptOK
  <2> QED
    BY <2>2, <2>3 DEF IInv, Typed, TableOK, Row, PublishOK, RestOK, LimitInv, TypeOK,
                      ClientPc, AcceptPc
<1> QED
  BY <1>1, Invariant, PTL

(* cmd_list_var holds s.lock from its first line to its last while         *)
(* publishers set and clear variables: what a client has been sent is what *)
(* the table holds, slot by slot, and no name twice.                       *)
THEOREM ListingsAreSnapshots == Spec => []ListingIsSnapshot
<1>1. IInv => ListingIsSnapshot
  <2> SUFFICES ASSUME IInv, NEW c \in Clients, client[c].pc = "listing"
               PROVE  /\ Len(client[c].sent) = Lines(table, client[c].i - 1)
                      /\ \A k \in 1 .. client[c].i - 1 :
                           table[k].used => client[c].sent[Lines(table, k)] = table[k]
                      /\ \A j, k \in DOMAIN client[c].sent :
                           client[c].sent[j].name = client[c].sent[k].name => j = k
    BY DEF ListingIsSnapshot
  <2> DEFINE sent == client[c].sent
             i == client[c].i
  <2>1. /\ i \in 1 .. MaxVars + 1 /\ Len(sent) = Lines(table, i - 1)
        /\ \A k \in 1 .. i - 1 : table[k].used => sent[Lines(table, k)] = table[k]
        /\ \A j \in 1 .. Len(sent) : \E k \in 1 .. i - 1 : table[k].used /\ Lines(table, k) = j
    BY DEF IInv, ListInv, Listed
  <2>2. sent \in Seq(Row) /\ DOMAIN sent = 1 .. Len(sent)
    BY LenProperties DEF IInv, Typed, ClientOK, ClientRec
  <2> HIDE DEF sent, i
  <2>3. ASSUME NEW j \in 1 .. Len(sent), NEW k \in 1 .. Len(sent), sent[j].name = sent[k].name
        PROVE  j = k
    <3>1. PICK a \in 1 .. i - 1 : table[a].used /\ Lines(table, a) = j
      BY <2>1
    <3>2. PICK b \in 1 .. i - 1 : table[b].used /\ Lines(table, b) = k
      BY <2>1
    <3>3. table[a].name = table[b].name
      BY <2>1, <2>3, <3>1, <3>2
    <3>4. a \in Slots /\ b \in Slots
      BY <2>1, NutAssumption DEF Slots
    <3>5. a = b
      BY <3>1, <3>2, <3>3, <3>4 DEF IInv, NamesInv
    <3> QED
      BY <3>1, <3>2, <3>5
  <2> QED
    BY <2>1, <2>2, <2>3 DEF sent, i
<1> QED
  BY <1>1, Invariant, PTL

(* s.client_count is changed by the accept task and by every client task   *)
(* without a lock.  Until two of those updates overlap it is exactly the   *)
(* number of clients served, whichever way a connection ended, a task that *)
(* could not be made included, and at most max_clients.                    *)
THEOREM CountIsExact == Spec => []CountExact
<1>1. IInv => CountExact
  BY DEF IInv, CountInv, LimitInv, CountExact
<1> QED
  BY <1>1, Invariant, PTL

(* s.lock is never left behind: whoever holds it from one send to the next *)
(* is in the middle of its listing, so a client that fails, hangs up or is *)
(* gone has given it back, on whichever path it left cmd_list_var.         *)
LockInUse == \A c \in Clients : lock = c => client[c].pc = "listing"

(* cmd_list_var gives s.lock back on every path, for any number of clients *)
(* and slots: no client that is not sending its listing has it.            *)
THEOREM LockIsNeverLeaked == Spec => []LockInUse
<1>1. IInv => LockInUse
  BY DEF IInv, LockInv, LockInUse
<1> QED
  BY <1>1, Invariant, PTL
===============================================================================
