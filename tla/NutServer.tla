----------------------------- MODULE NutServer ------------------------------
(***************************************************************************)
(* The NUT server: nut_server.c.                                           *)
(*                                                                         *)
(* A table of variables behind s.lock, written by the tasks that publish   *)
(* readings and read by one task per client; an accept task that admits    *)
(* clients up to max_clients.  s.client_count is changed by the accept     *)
(* task and by every client task without a lock, so that each ++ and -- is *)
(* a load and a store.                                                     *)
(*                                                                         *)
(* A command is its effect.  Those that only send a reply are one action;  *)
(* every send may fail, which ends the connection.  Of the receive buffer  *)
(* the model keeps how many bytes of an unfinished line it holds.          *)
(***************************************************************************)
EXTENDS Integers, Sequences, FiniteSets, SequencesExt

CONSTANTS
  Clients,      \* the connections (their sockets)
  MaxClients,   \* max_clients
  MaxVars,      \* NUT_MAX_VARS
  Seeds,        \* the names nut_server_start seeds, in order
  Names,        \* the names the publishers use
  Values,
  RxRoom,       \* CLIENT_RX_BUF - 1: the most bytes the buffer holds
  Drift,        \* bound: no client connects once lost updates have taken
                \* count this far below zero
  Users,        \* what may be given as USERNAME,
  Passwords,    \* and as PASSWORD
  NoOne,        \* a value that is none of these
  Accepted      \* the pairs of them that auth_cb accepts

Unset == "unset"
ASSUME NutAssumption ==
  /\ MaxClients \in Nat \ {0} /\ MaxVars \in Nat \ {0} /\ RxRoom \in Nat \ {0}
  /\ Drift \in Nat \ {0} /\ IsFiniteSet(Clients) /\ NoOne \notin Clients
  /\ Seeds \in Seq(Names) /\ Len(Seeds) <= MaxVars /\ IsInjective(Seeds)
  /\ Values # {} /\ Unset \notin Users \cup Passwords
  /\ Accepted \subseteq (Users \X Passwords)

VARIABLES
  table,     \* s.vars
  lock,      \* who holds s.lock over several steps: a client, or NoOne
  count,     \* s.client_count
  accept,    \* accept_task: where, with which socket, and its copy of count
  client,    \* each client_task: where, its buffer, its client_ctx_t, its
             \* copy of count, and the lines of LIST VAR it has sent
  publish,   \* the write a publisher is about to do, or NoOne
  raced      \* history: two updates of client_count overlapped

vars == <<table, lock, count, accept, client, publish, raced>>

Slots == 1 .. MaxVars
Free == [used |-> FALSE, name |-> NoOne, value |-> NoOne]
Entry(n, v) == [used |-> TRUE, name |-> n, value |-> v]
Gone == [pc |-> "none", fill |-> 0, user |-> Unset, pass |-> Unset,
         logged_in |-> FALSE, tmp |-> 0, sent |-> <<>>, i |-> 0]
Accepting == [pc |-> "accept", fd |-> NoOne, tmp |-> 0]

(* Types; and there is always room for the next recv, because a request    *)
(* for no bytes would look like the end of the connection.  Lost updates   *)
(* never take count above max_clients.                                     *)
TypeOK ==
  /\ table \in [Slots -> [used : BOOLEAN, name : Names \cup {NoOne},
                          value : Values \cup {NoOne}]]
  /\ lock \in Clients \cup {NoOne}
  /\ count \in Int /\ count <= MaxClients
  /\ accept.pc \in {"accept", "check", "load", "store", "spawn", "unload", "unstore"}
  /\ accept.fd \in Clients \cup {NoOne}
  /\ \A c \in Clients :
       /\ client[c].pc \in {"none", "backlog", "accepted", "recv", "list", "listing",
                            "close", "closing"}
       /\ client[c].fill \in 0 .. RxRoom - 1
       /\ client[c].user \in Users \cup {Unset} /\ client[c].pass \in Passwords \cup {Unset}
       /\ client[c].i \in 0 .. MaxVars + 1
  /\ publish \in {NoOne} \cup [name : Names, value : Values \cup {NoOne}]

(* nut_server_start *)
Init ==
  /\ \E v \in Values :
       table = [k \in Slots |-> IF k <= Len(Seeds) THEN Entry(Seeds[k], v) ELSE Free]
  /\ lock = NoOne /\ count = 0
  /\ accept = Accepting
  /\ client = [c \in Clients |-> Gone]
  /\ publish = NoOne /\ raced = FALSE

-----------------------------------------------------------------------------
(* The table.  var_find_locked, and the first free slot. *)
Used(n) == {k \in Slots : table[k].used /\ table[k].name = n}
FreeSlots == {k \in Slots : ~table[k].used}
First(S) == CHOOSE k \in S : \A j \in S : k <= j

Stored(n, v) ==
  IF Used(n) # {} THEN [table EXCEPT ![First(Used(n))].value = v]
  ELSE IF FreeSlots # {} THEN [table EXCEPT ![First(FreeSlots)] = Entry(n, v)]
  ELSE table
Cleared(n) ==
  IF Used(n) # {} THEN [table EXCEPT ![First(Used(n))].used = FALSE] ELSE table

(* A publisher calls nut_server_set_var (nut_server_set_status and the     *)
(* others end there), or nut_server_clear_var for a name that is not       *)
(* seeded, and waits for the lock.                                         *)
Publish(n, v) ==
  /\ publish = NoOne
  /\ v = NoOne => n \notin Range(Seeds)
  /\ publish' = [name |-> n, value |-> v]
  /\ UNCHANGED <<table, lock, count, accept, client, raced>>

(* Faulty: the table is written without the lock. *)
SetVarUnlocked ==
  /\ publish # NoOne
  /\ table' = IF publish.value = NoOne THEN Cleared(publish.name)
              ELSE Stored(publish.name, publish.value)
  /\ publish' = NoOne
  /\ UNCHANGED <<lock, count, accept, client, raced>>
SetVar ==
  /\ publish # NoOne /\ lock = NoOne
  /\ table' = IF publish.value = NoOne THEN Cleared(publish.name)
              ELSE Stored(publish.name, publish.value)
  /\ publish' = NoOne
  /\ UNCHANGED <<lock, count, accept, client, raced>>

-----------------------------------------------------------------------------
(* A client connects: listen's backlog. *)
Connect(c) ==
  /\ client[c].pc = "none" /\ count > -Drift
  /\ client' = [client EXCEPT ![c].pc = "backlog"]
  /\ UNCHANGED <<table, lock, count, accept, publish, raced>>

(* accept_task: one more socket, turned away when count is at its limit.   *)
AcceptNext(c) ==
  /\ accept.pc = "accept" /\ client[c].pc = "backlog"
  /\ client' = [client EXCEPT ![c].pc = "accepted"]
  /\ accept' = [pc |-> "check", fd |-> c, tmp |-> 0]
  /\ UNCHANGED <<table, lock, count, publish, raced>>
AcceptCheck ==
  /\ accept.pc = "check"
  /\ IF count >= MaxClients
       THEN accept' = Accepting /\ client' = [client EXCEPT ![accept.fd] = Gone]
       ELSE accept' = [accept EXCEPT !.pc = "load"] /\ UNCHANGED client
  /\ UNCHANGED <<table, lock, count, publish, raced>>

(* s.client_count++ *)
Updating == {c \in Clients : client[c].pc = "closing"} \cup
            (IF accept.pc \in {"store", "unstore"} THEN {NoOne} ELSE {})
AcceptLoad ==
  /\ accept.pc \in {"load", "unload"}
  /\ accept' = [accept EXCEPT !.pc = IF accept.pc = "load" THEN "store" ELSE "unstore",
                              !.tmp = count]
  /\ raced' = (raced \/ Updating # {})
  /\ UNCHANGED <<table, lock, count, client, publish>>
AcceptStore ==
  /\ accept.pc = "store"
  /\ count' = accept.tmp + 1
  /\ accept' = [accept EXCEPT !.pc = "spawn"]
  /\ UNCHANGED <<table, lock, client, publish, raced>>

(* Faulty: when no task can be made, the slot stays counted. *)
AcceptSpawnLeaks ==
  /\ accept.pc = "spawn"
  /\ \/ client' = [client EXCEPT ![accept.fd].pc = "recv"]
     \/ client' = [client EXCEPT ![accept.fd] = Gone]
  /\ accept' = Accepting
  /\ UNCHANGED <<table, lock, count, publish, raced>>

(* xTaskCreate; without a task the socket is closed and count goes back. *)
AcceptSpawn ==
  /\ accept.pc = "spawn"
  /\ \/ client' = [client EXCEPT ![accept.fd].pc = "recv"] /\ accept' = Accepting
     \/ client' = [client EXCEPT ![accept.fd] = Gone]
        /\ accept' = [accept EXCEPT !.pc = "unload"]
  /\ UNCHANGED <<table, lock, count, publish, raced>>
AcceptUnstore ==
  /\ accept.pc = "unstore"
  /\ count' = accept.tmp - 1
  /\ accept' = Accepting
  /\ UNCHANGED <<table, lock, client, publish, raced>>

-----------------------------------------------------------------------------
(* Faulty: a line that fills the buffer is kept. *)
RecvPartialKeeps(c, n) ==
  LET fill == client[c].fill + n
  IN  /\ client[c].pc = "recv" /\ fill <= RxRoom
      /\ client' = [client EXCEPT ![c].fill = fill]
      /\ UNCHANGED <<table, lock, count, accept, publish, raced>>
(* client_task: recv of n bytes with no newline in them: the partial line  *)
(* is kept, and a line that fills the buffer is dropped.                   *)
RecvPartial(c, n) ==
  LET fill == client[c].fill + n
  IN  /\ client[c].pc = "recv" /\ fill <= RxRoom
      /\ client' = [client EXCEPT ![c].fill = IF fill = RxRoom THEN 0 ELSE fill]
      /\ UNCHANGED <<table, lock, count, accept, publish, raced>>

(* A whole line arrives (handle_line).  Bytes of the next one that come    *)
(* with it are as good as bytes that come after it.                        *)
Line(c) == client[c].pc = "recv" /\ client[c].fill < RxRoom
Replied(c, fields) == [client EXCEPT ![c] = [fields EXCEPT !.fill = 0]]

(* LIST UPS, GET, VER, HELP, an error: a reply that may not get through.   *)
Reply(c) ==
  /\ Line(c)
  /\ \/ client' = Replied(c, client[c])
     \/ client' = [client EXCEPT ![c].pc = "close"]
  /\ UNCHANGED <<table, lock, count, accept, publish, raced>>

Username(c, u) ==
  /\ Line(c) /\ client[c].user = Unset
  /\ client' = Replied(c, [client[c] EXCEPT !.user = u])
  /\ UNCHANGED <<table, lock, count, accept, publish, raced>>
Password(c, p) ==
  /\ Line(c) /\ client[c].pass = Unset
  /\ client' = Replied(c, [client[c] EXCEPT !.pass = p])
  /\ UNCHANGED <<table, lock, count, accept, publish, raced>>

(* LOGIN, PRIMARY, MASTER: auth_cb decides. *)
Login(c) ==
  /\ Line(c) /\ <<client[c].user, client[c].pass>> \in Accepted
  /\ client' = Replied(c, [client[c] EXCEPT !.logged_in = TRUE])
  /\ UNCHANGED <<table, lock, count, accept, publish, raced>>

(* LOGOUT, a receive time-out, a dead connection. *)
Ends(c) ==
  /\ client[c].pc = "recv"
  /\ client' = [client EXCEPT ![c].pc = "close", ![c].logged_in = FALSE]
  /\ UNCHANGED <<table, lock, count, accept, publish, raced>>

(* GET VAR takes the lock, copies, and gives it back before it sends. *)
GetVar(c) ==
  /\ Line(c) /\ lock = NoOne
  /\ \/ client' = Replied(c, client[c])
     \/ client' = [client EXCEPT ![c].pc = "close"]
  /\ UNCHANGED <<table, lock, count, accept, publish, raced>>

(* LIST VAR holds the lock from the first line to the last, each of them   *)
(* a send that waits for the client; BEGIN and END are sent without it.    *)
ListBegin(c) ==
  /\ Line(c)
  /\ \/ client' = Replied(c, [client[c] EXCEPT !.pc = "list"])
     \/ client' = [client EXCEPT ![c].pc = "close"]
  /\ UNCHANGED <<table, lock, count, accept, publish, raced>>
ListLock(c) ==
  /\ client[c].pc = "list" /\ lock = NoOne
  /\ lock' = c
  /\ client' = [client EXCEPT ![c].pc = "listing", ![c].sent = <<>>, ![c].i = 1]
  /\ UNCHANGED <<table, count, accept, publish, raced>>
ListLine(c) ==
  LET i == client[c].i
  IN  /\ client[c].pc = "listing" /\ i <= MaxVars
      /\ client' = [client EXCEPT ![c].i = i + 1,
                                  ![c].sent = IF table[i].used THEN Append(@, table[i]) ELSE @]
      /\ UNCHANGED <<table, lock, count, accept, publish, raced>>
ListEnd(c) ==
  /\ client[c].pc = "listing" /\ client[c].i > MaxVars
  /\ lock' = NoOne
  /\ \E pc \in {"recv", "close"} :       \* END is sent, or is not
       client' = [client EXCEPT ![c].pc = pc, ![c].sent = <<>>, ![c].i = 0]
  /\ UNCHANGED <<table, count, accept, publish, raced>>

(* Faulty: a send that fails returns with the lock held. *)
ListFailsLocked(c) ==
  /\ client[c].pc = "listing" /\ client[c].i <= MaxVars /\ table[client[c].i].used
  /\ client' = [client EXCEPT ![c].pc = "close", ![c].sent = <<>>, ![c].i = 0]
  /\ UNCHANGED <<table, lock, count, accept, publish, raced>>
ListFails(c) ==
  /\ client[c].pc = "listing" /\ client[c].i <= MaxVars /\ table[client[c].i].used
  /\ lock' = NoOne
  /\ client' = [client EXCEPT ![c].pc = "close", ![c].sent = <<>>, ![c].i = 0]
  /\ UNCHANGED <<table, count, accept, publish, raced>>

(* close(fd); s.client_count-- *)
CloseLoad(c) ==
  /\ client[c].pc = "close"
  /\ client' = [client EXCEPT ![c] = [Gone EXCEPT !.pc = "closing", !.tmp = count]]
  /\ raced' = (raced \/ Updating # {})
  /\ UNCHANGED <<table, lock, count, accept, publish>>
CloseStore(c) ==
  /\ client[c].pc = "closing"
  /\ count' = client[c].tmp - 1
  /\ client' = [client EXCEPT ![c] = Gone]
  /\ UNCHANGED <<table, lock, accept, publish, raced>>

-----------------------------------------------------------------------------
AcceptTask == AcceptCheck \/ AcceptLoad \/ AcceptStore \/ AcceptSpawn \/ AcceptUnstore
                \/ \E c \in Clients : AcceptNext(c)
ListStep(c) == ListLock(c) \/ ListLine(c) \/ ListEnd(c) \/ ListFails(c)
CloseStep(c) == CloseLoad(c) \/ CloseStore(c)

Next ==
  \/ \E n \in Names, v \in Values \cup {NoOne} : Publish(n, v)
  \/ SetVar
  \/ AcceptTask
  \/ \E c \in Clients :
       \/ Connect(c) \/ Ends(c) \/ ListStep(c) \/ CloseStep(c)
       \/ \E n \in 1 .. RxRoom : RecvPartial(c, n)
       \/ Reply(c) \/ Login(c) \/ GetVar(c) \/ ListBegin(c)
       \/ \E u \in Users : Username(c, u)
       \/ \E p \in Passwords : Password(c, p)

Spec == Init /\ [][Next]_vars

(* Tasks run on, but for sends, which have no timeout.  The lock goes to   *)
(* the waiting task of the highest priority, the NimBLE host's, so that a  *)
(* publisher is not overtaken for ever.                                    *)
Fairness ==
  /\ SF_vars(SetVar)
  /\ WF_vars(AcceptTask)
  /\ \A c \in Clients : WF_vars(CloseStep(c))
FairSpec == Spec /\ Fairness

-----------------------------------------------------------------------------
(* A LIST VAR is one moment's view: whatever the publishers do, the lines  *)
(* a client has been sent are what the table holds, a line for each slot   *)
(* in use, in their order, and each name once.                             *)
Lines(t, k) == Cardinality({j \in 1 .. k : t[j].used})
ListingIsSnapshot ==
  \A c \in Clients : client[c].pc = "listing" =>
    /\ Len(client[c].sent) = Lines(table, client[c].i - 1)
    /\ \A k \in 1 .. client[c].i - 1 :
         table[k].used => client[c].sent[Lines(table, k)] = table[k]
    /\ \A j, k \in DOMAIN client[c].sent :
         client[c].sent[j].name = client[c].sent[k].name => j = k

(* As long as no two updates of client_count overlapped, it is exact: it   *)
(* counts the clients that are served, whichever way they ended, and no    *)
(* more than max_clients are.                                              *)
Served == {c \in Clients : client[c].pc \in {"recv", "list", "listing", "close", "closing"}}
            \cup (IF accept.pc \in {"spawn", "unload", "unstore"} THEN {NoOne} ELSE {})
CountExact == ~raced => count = Cardinality(Served) /\ count <= MaxClients

(* A publisher that waits for the table gets it, although LIST VAR sends   *)
(* to a client with the lock held: only a send that never ends, to a       *)
(* client that has stopped reading, could keep it out.                     *)
PublisherGetsIn ==
  (\A c \in Clients : []<>(client[c].pc # "listing")) =>
    (publish # NoOne ~> publish = NoOne)
=============================================================================
