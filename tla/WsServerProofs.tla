--------------------------- MODULE WsServerProofs ---------------------------
(***************************************************************************)
(* Proofs about WsServer, for any set of clients and any bounds: its       *)
(* types, and by one inductive invariant that nobody is left over by Close *)
(* or left unserved, and that every event reaches every client.            *)
(***************************************************************************)
EXTENDS WsServer, TLAPS

-----------------------------------------------------------------------------
(* The invariant.                                                          *)

\* The goroutine of a client that is, or was, among s.clients.
Served == {"added", "subscribing", "reading", "reply", "replying"}

TypeOK ==
  /\ limits \in Limits
  /\ clients \subseteq Clients /\ toClose \subseteq Clients /\ todo \subseteq Clients
  /\ closed \in BOOLEAN /\ stopped \in BOOLEAN
  /\ closer \in {"none", "command", "listener", "over"}
  /\ main \in {"searching", "ending", "closing", "exited"}
  /\ current \in Clients \cup {NoClient}
  /\ seq \in Nat
  /\ conn \in [Clients -> {"none", "open", "shut"}]
  /\ stalled \in [Clients -> BOOLEAN]
  /\ inbox \in [Clients -> Seq(Commands)] /\ sent \in [Clients -> Nat]
  /\ handler \in [Clients -> Served \cup {"none", "accepted", "ended"}]
  /\ writer \in [Clients -> {"free", "handler", "broadcast"}]
  /\ got \in [Clients -> Seq(Nat)] /\ joined \in [Clients -> Nat]

\* A connection exists as long as its goroutine; who is not among s.clients,
\* though its goroutine goes on, has been closed.
ConnInv ==
  \A c \in Clients :
    /\ conn[c] = "none" <=> handler[c] = "none"
    /\ handler[c] = "ended" => conn[c] = "shut"
    /\ c \in clients => handler[c] \in Served
    /\ handler[c] \in Served /\ c \notin clients => conn[c] = "shut"

\* Once the server is closed nobody is added, and Close knows all that are
\* left.
CloseInv ==
  /\ closed = (closer # "none")
  /\ closed => clients \subseteq toClose
  /\ closer = "over" => toClose = {}
  /\ \A c \in toClose : handler[c] # "none"

\* The clients of a broadcast were added before it.
BroadcastInv ==
  /\ current \notin todo
  /\ \A c \in Clients : (c \in todo \/ c = current) => handler[c] \notin {"none", "accepted"}
  /\ \A c \in Clients : handler[c] \in {"none", "accepted"} => got[c] = <<>>

\* A client has got every event since it was added, up to the one that the
\* broadcast under way has not come to send to it.
Owed(c) == IF c \in todo \/ c = current THEN 1 ELSE 0
From(j, n) == [i \in 1 .. n |-> j + i]

DeliveryInv ==
  \A c \in clients :
    /\ joined[c] + Owed(c) <= seq
    /\ got[c] = From(joined[c], seq - joined[c] - Owed(c))

IInv == TypeOK /\ ConnInv /\ CloseInv /\ BroadcastInv /\ DeliveryInv

-----------------------------------------------------------------------------
(* Types.                                                                  *)

LEMMA InitTypeOK == Init => TypeOK
<1> SUFFICES ASSUME Init PROVE TypeOK
  OBVIOUS
<1>1. inbox \in [Clients -> Seq(Commands)] /\ got \in [Clients -> Seq(Nat)]
  BY DEF Init
<1>2. closed \in BOOLEAN /\ stopped \in BOOLEAN /\ stalled \in [Clients -> BOOLEAN]
  BY DEF Init
<1> QED
  BY <1>1, <1>2 DEF Init, TypeOK

LEMMA PeerType ==
  ASSUME TypeOK, NEW c \in Clients, Connects(c) \/ Sends(c) \/ Stalls(c) \/ HangsUp(c), limits' = limits
  PROVE  TypeOK'
<1>1. CASE Connects(c)
  BY <1>1 DEF Connects, Handler, TypeOK, serverVars, hubVars, peerVars
<1>2. CASE Sends(c)
  <2>1. inbox' \in [Clients -> Seq(Commands)] /\ sent' \in [Clients -> Nat]
    BY <1>2 DEF Sends, TypeOK
  <2> QED
    BY <1>2, <2>1 DEF Sends, TypeOK, serverVars, hubVars
<1>3. CASE Stalls(c)
  BY <1>3 DEF Stalls, TypeOK, serverVars, hubVars
<1>4. CASE HangsUp(c)
  BY <1>4 DEF HangsUp, Shut, TypeOK, serverVars, hubVars, peerVars
<1> QED
  BY <1>1, <1>2, <1>3, <1>4

LEMMA ClientType ==
  ASSUME TypeOK, NEW c \in Clients, ClientRuns(c), limits' = limits
  PROVE  TypeOK'
<1> USE DEF TypeOK, Served
<1>1. CASE AddClient(c)
  <2>1. clients' \subseteq Clients /\ joined' \in [Clients -> Nat]
    BY <1>1 DEF AddClient
  <2>2. conn' = conn \/ conn' = [conn EXCEPT ![c] = "shut"]
    BY <1>1 DEF AddClient, Shut
  <2>3. handler' = [handler EXCEPT ![c] = "ended"] \/ handler' = [handler EXCEPT ![c] = "added"]
    BY <1>1 DEF AddClient, Handler
  <2> QED
    BY <1>1, <2>1, <2>2, <2>3 DEF AddClient, hubVars, peerVars
<1>2. CASE HandlerLocks(c)
  BY <1>2 DEF HandlerLocks, Lock, Handler, serverVars, hubVars, peerVars
<1>3. CASE Subscribes(c)
  BY <1>3 DEF Subscribes, Unlock, Handler, CloseClient, Shut, hubVars, peerVars
<1>4. CASE Replies(c)
  BY <1>4 DEF Replies, Unlock, Handler, Shut, serverVars, hubVars, peerVars
<1>5. CASE Reads(c)
  <2>1. inbox' \in [Clients -> Seq(Commands)]
    BY <1>5 DEF Reads
  <2>2. /\ clients' \subseteq Clients /\ conn' \in [Clients -> {"none", "open", "shut"}]
        /\ handler' \in [Clients -> Served \cup {"none", "accepted", "ended"}] /\ stopped' \in BOOLEAN
    BY <1>5 DEF Reads, CloseClient, Shut, Handler
  <2> QED
    BY <1>5, <2>1, <2>2 DEF Reads, hubVars
<1>6. CASE ReadFails(c)
  BY <1>6 DEF ReadFails, CloseClient, Shut, Handler, hubVars, peerVars
<1> QED
  BY <1>1, <1>2, <1>3, <1>4, <1>5, <1>6 DEF ClientRuns

LEMMA ServerType ==
  ASSUME TypeOK, Emits \/ SearchRuns \/ CommandEnds \/ ListenerFails \/ CloseNext, limits' = limits
  PROVE  TypeOK'
<1> USE DEF TypeOK
<1>1. CASE Emits
  BY <1>1 DEF Emits, serverVars, peerVars
<1>2. CASE Picks
  BY <1>2 DEF Picks, serverVars, peerVars
<1>3. ASSUME NEW c \in Clients, BroadcastLocks(c) PROVE TypeOK'
  BY <1>3 DEF BroadcastLocks, Lock, serverVars, hubVars, peerVars
<1>4. ASSUME NEW c \in Clients, BroadcastWrites(c) PROVE TypeOK'
  <2>1. got' \in [Clients -> Seq(Nat)]
    <3>1. Append(got[c], seq) \in Seq(Nat)
      OBVIOUS
    <3>2. got' = got \/ got' = [got EXCEPT ![c] = Append(got[c], seq)]
      BY <1>4 DEF BroadcastWrites, Records
    <3> QED
      BY <3>1, <3>2
  <2> QED
    BY <1>4, <2>1 DEF BroadcastWrites, Unlock, CloseClient, Shut, peerVars
<1>5. CASE CommandEnds
  BY <1>5 DEF CommandEnds, Closes, peerVars
<1>6. CASE ListenerFails
  BY <1>6 DEF ListenerFails, Closes, peerVars
<1>7. CASE CloseNext
  BY <1>7 DEF CloseNext, CloseClient, Shut, peerVars
<1> QED
  BY <1>1, <1>2, <1>3, <1>4, <1>5, <1>6, <1>7 DEF SearchRuns

LEMMA NextTypeOK == TypeOK /\ [Next]_vars => TypeOK'
<1> SUFFICES ASSUME TypeOK, [Next]_vars PROVE TypeOK'
  OBVIOUS
<1>1. CASE UNCHANGED vars
  BY <1>1 DEF vars, serverVars, hubVars, peerVars, TypeOK
<1>2. CASE Next
  BY <1>2, PeerType, ClientType, ServerType DEF Next
<1> QED
  BY <1>1, <1>2

\* The variables of WsServer keep their types.
THEOREM TypeCorrect == Spec => []TypeOK
<1> QED
  BY InitTypeOK, NextTypeOK, PTL DEF Spec

-----------------------------------------------------------------------------
(* Connections, and Close.                                                 *)

LEMMA InitConn == Init => ConnInv /\ CloseInv /\ BroadcastInv /\ DeliveryInv
<1> SUFFICES ASSUME Init PROVE ConnInv /\ CloseInv /\ BroadcastInv /\ DeliveryInv
  OBVIOUS
<1>1. ConnInv
  BY DEF Init, ConnInv, Served
<1>2. CloseInv
  BY DEF Init, CloseInv
<1>3. BroadcastInv
  BY ClientsAssumption DEF Init, BroadcastInv
<1>4. DeliveryInv
  BY DEF Init, DeliveryInv
<1> QED
  BY <1>1, <1>2, <1>3, <1>4

LEMMA ConnStep ==
  ASSUME TypeOK, ConnInv, CloseInv, BroadcastInv, [Next]_vars
  PROVE  ConnInv'
<1> USE DEF ConnInv, Served, TypeOK
<1>1. ASSUME NEW c \in Clients, Connects(c) PROVE ConnInv'
  BY <1>1 DEF Connects, Handler, serverVars
<1>2. ASSUME NEW c \in Clients, Sends(c) \/ Stalls(c) PROVE ConnInv'
  BY <1>2 DEF Sends, Stalls, serverVars
<1>3. ASSUME NEW c \in Clients, HangsUp(c) PROVE ConnInv'
  BY <1>3 DEF HangsUp, Shut, serverVars
<1>4. ASSUME NEW c \in Clients, AddClient(c) PROVE ConnInv'
  <2>1. CASE closed
    BY <1>4, <2>1 DEF AddClient, Shut, Handler
  <2>2. CASE ~closed
    BY <1>4, <2>2 DEF AddClient, Handler
  <2> QED
    BY <2>1, <2>2
<1>5. ASSUME NEW c \in Clients, HandlerLocks(c) PROVE ConnInv'
  BY <1>5 DEF HandlerLocks, Handler, serverVars
<1>6. ASSUME NEW c \in Clients, Subscribes(c) PROVE ConnInv'
  BY <1>6 DEF Subscribes, Handler, CloseClient, Shut
<1>7. ASSUME NEW c \in Clients, Replies(c) PROVE ConnInv'
  BY <1>7 DEF Replies, Handler, Shut, WriteFails, serverVars
<1>8. ASSUME NEW c \in Clients, Reads(c) PROVE ConnInv'
  BY <1>8 DEF Reads, Handler, CloseClient, Shut
<1>9. ASSUME NEW c \in Clients, ReadFails(c) PROVE ConnInv'
  BY <1>9 DEF ReadFails, Handler, CloseClient, Shut
<1>10. CASE Emits \/ Picks \/ CommandEnds \/ ListenerFails \/ UNCHANGED vars
  BY <1>10 DEF Emits, Picks, CommandEnds, ListenerFails, Closes, vars, serverVars
<1>11. ASSUME NEW c \in Clients, BroadcastLocks(c) PROVE ConnInv'
  BY <1>11 DEF BroadcastLocks, serverVars
<1>12. ASSUME NEW c \in Clients, BroadcastWrites(c) PROVE ConnInv'
  <2>1. handler[c] \notin {"none", "accepted"}
    BY <1>12 DEF BroadcastWrites, BroadcastInv
  <2> QED
    BY <1>12, <2>1 DEF BroadcastWrites, CloseClient, Shut
<1>13. CASE CloseNext
  <2>1. CASE UNCHANGED <<clients, conn, handler>>
    BY <2>1
  <2>2. CASE \E c \in toClose : CloseClient(c) /\ UNCHANGED handler
    BY <2>2 DEF CloseClient, Shut, CloseInv
  <2> QED
    BY <1>13, <2>1, <2>2 DEF CloseNext
<1> QED
  BY <1>1, <1>2, <1>3, <1>4, <1>5, <1>6, <1>7, <1>8, <1>9, <1>10, <1>11, <1>12, <1>13
     DEF Next, ClientRuns, SearchRuns

LEMMA CloseStep ==
  ASSUME TypeOK, ConnInv, CloseInv, [Next]_vars
  PROVE  CloseInv'
<1> USE DEF TypeOK
<1>1. ASSUME UNCHANGED <<closed, toClose, closer>>, clients' \subseteq clients,
             \A c \in Clients : handler[c] # "none" => handler'[c] # "none"
      PROVE  CloseInv'
  BY <1>1 DEF CloseInv
<1>2. ASSUME NEW c \in Clients, Connects(c) PROVE CloseInv'
  BY <1>1, <1>2 DEF Connects, Handler, serverVars
<1>3. ASSUME NEW c \in Clients, Sends(c) \/ Stalls(c) \/ HangsUp(c) PROVE CloseInv'
  BY <1>1, <1>3 DEF Sends, Stalls, HangsUp, serverVars
<1>4. ASSUME NEW c \in Clients, AddClient(c) PROVE CloseInv'
  <2>1. \A e \in Clients : handler[e] # "none" => handler'[e] # "none"
    BY <1>4 DEF AddClient, Handler
  <2>2. CASE closed
    BY <1>1, <1>4, <2>1, <2>2 DEF AddClient
  <2>3. CASE ~closed
    BY <1>4, <2>1, <2>3 DEF AddClient, CloseInv
  <2> QED
    BY <2>2, <2>3
<1>5. ASSUME NEW c \in Clients, ClientRuns(c), ~AddClient(c) PROVE CloseInv'
  <2>1. clients' \subseteq clients /\ UNCHANGED <<closed, toClose, closer>>
    BY <1>5 DEF ClientRuns, HandlerLocks, Subscribes, Replies, Reads, ReadFails, CloseClient, serverVars
  <2>2. handler' = handler \/ \E where \in Served \cup {"ended"} : Handler(c, where)
    BY <1>5 DEF ClientRuns, HandlerLocks, Subscribes, Replies, Reads, ReadFails, Served
  <2> QED
    BY <1>1, <2>1, <2>2 DEF Handler, Served
<1>6. CASE Emits \/ Picks \/ UNCHANGED vars
  BY <1>1, <1>6 DEF Emits, Picks, vars, serverVars
<1>7. ASSUME NEW c \in Clients, BroadcastLocks(c) \/ BroadcastWrites(c) PROVE CloseInv'
  BY <1>1, <1>7 DEF BroadcastLocks, BroadcastWrites, CloseClient, serverVars
<1>8. ASSUME Closes("command") \/ Closes("listener") PROVE CloseInv'
  BY <1>8 DEF Closes, CloseInv, ConnInv, Served
<1>9. CASE CloseNext
  BY <1>9 DEF CloseNext, CloseClient, CloseInv
<1> QED
  BY <1>2, <1>3, <1>4, <1>5, <1>6, <1>7, <1>8, <1>9 DEF Next, SearchRuns, CommandEnds, ListenerFails

-----------------------------------------------------------------------------
(* Delivery.                                                               *)

LEMMA FromType == ASSUME NEW j \in Nat, NEW n \in Nat PROVE From(j, n) \in Seq(Nat) /\ Len(From(j, n)) = n
<1>1. \A i \in 1 .. n : j + i \in Nat
  OBVIOUS
<1> QED
  BY <1>1 DEF From

\* One more event.
LEMMA FromAppend ==
  ASSUME NEW j \in Nat, NEW n \in Nat
  PROVE  Append(From(j, n), j + n + 1) = From(j, n + 1)
<1> DEFINE a == Append(From(j, n), j + n + 1)
           b == From(j, n + 1)
<1>1. /\ From(j, n) \in Seq(Nat) /\ Len(From(j, n)) = n
      /\ b \in Seq(Nat) /\ Len(b) = n + 1
  BY FromType
<1>2. a \in Seq(Nat) /\ Len(a) = n + 1
  BY <1>1
<1>3. ASSUME NEW i \in 1 .. n + 1 PROVE a[i] = b[i]
  <2>1. CASE i = n + 1
    BY <1>1, <2>1 DEF From
  <2>2. CASE i \in 1 .. n
    <3>1. a[i] = From(j, n)[i]
      BY <1>1, <2>2
    <3>2. From(j, n)[i] = j + i /\ b[i] = j + i
      BY <2>2 DEF From
    <3> QED
      BY <3>1, <3>2
  <2>3. i = n + 1 \/ i \in 1 .. n
    OBVIOUS
  <2> QED
    BY <2>1, <2>2, <2>3
<1> HIDE DEF a, b
<1>4. a = b
  BY <1>1, <1>2, <1>3
<1> QED
  BY <1>4 DEF a, b

LEMMA OneOwed ==
  ASSUME NEW j \in Nat, NEW s \in Nat, j + 1 <= s
  PROVE  s - j - 1 \in Nat /\ j + (s - j - 1) + 1 = s /\ (s - j - 1) + 1 = s - j - 0
  OBVIOUS

LEMMA FromEmpty == ASSUME NEW j \in Nat PROVE From(j, 0) = <<>>
  BY FromType

\* Most steps: nobody joins the clients or a broadcast, nothing is written.
LEMMA DeliveryStays ==
  ASSUME TypeOK, DeliveryInv, UNCHANGED <<seq, todo, current, got>>, clients' \subseteq clients,
         UNCHANGED joined
  PROVE  DeliveryInv'
<1> SUFFICES ASSUME NEW c \in clients' PROVE
      /\ joined'[c] + Owed(c)' <= seq'
      /\ got'[c] = From(joined'[c], seq' - joined'[c] - Owed(c)')
  BY DEF DeliveryInv
<1>1. c \in clients /\ Owed(c)' = Owed(c)
  BY DEF Owed
<1> QED
  BY <1>1 DEF DeliveryInv

LEMMA BroadcastStays ==
  ASSUME TypeOK, BroadcastInv, UNCHANGED <<todo, current, got>>,
         \A c \in Clients : handler'[c] \in {"none", "accepted"} => handler[c] \in {"none", "accepted"}
  PROVE  BroadcastInv'
  BY DEF BroadcastInv

LEMMA DeliveryStep ==
  ASSUME IInv, [Next]_vars
  PROVE  BroadcastInv' /\ DeliveryInv'
<1> USE DEF IInv
<1>1. ASSUME NEW c \in Clients, Connects(c) PROVE BroadcastInv' /\ DeliveryInv'
  <2>1. handler[c] = "none"
    BY <1>1 DEF Connects, ConnInv
  <2>2. \A e \in Clients : handler'[e] \in {"none", "accepted"} => handler[e] \in {"none", "accepted"}
    BY <1>1, <2>1 DEF Connects, Handler, TypeOK
  <2> QED
    BY <1>1, <2>2, DeliveryStays, BroadcastStays DEF Connects, serverVars, hubVars
<1>2. ASSUME NEW c \in Clients, Sends(c) \/ Stalls(c) \/ HangsUp(c) PROVE BroadcastInv' /\ DeliveryInv'
  <2>1. UNCHANGED <<handler, todo, current, got, seq, joined, clients>>
    BY <1>2 DEF Sends, Stalls, HangsUp, serverVars, hubVars
  <2> QED
    BY <2>1, DeliveryStays, BroadcastStays
<1>3. ASSUME NEW c \in Clients, AddClient(c) PROVE BroadcastInv' /\ DeliveryInv'
  <2>1. UNCHANGED <<seq, todo, current, got>> /\ handler[c] = "accepted"
    BY <1>3 DEF AddClient, hubVars
  <2>2. BroadcastInv'
    <3>1. \A e \in Clients : handler'[e] \in {"none", "accepted"} => handler[e] \in {"none", "accepted"}
      BY <1>3 DEF AddClient, Handler, TypeOK
    <3> QED
      BY <2>1, <3>1, BroadcastStays
  <2>3. CASE closed
    <3>1. UNCHANGED <<clients, joined>>
      BY <1>3, <2>3 DEF AddClient
    <3> QED
      BY <2>1, <2>2, <3>1, DeliveryStays
  <2>4. CASE ~closed
    <3>1. clients' = clients \cup {c} /\ joined' = [joined EXCEPT ![c] = seq]
      BY <1>3, <2>4 DEF AddClient
    <3>2. Owed(c)' = 0 /\ got[c] = <<>> /\ joined'[c] = seq /\ seq \in Nat
      BY <2>1, <3>1 DEF Owed, BroadcastInv, TypeOK
    <3>3. got'[c] = From(joined'[c], seq' - joined'[c] - Owed(c)') /\ joined'[c] + Owed(c)' <= seq'
      <4>1. seq' - joined'[c] - Owed(c)' = 0 /\ joined'[c] + Owed(c)' <= seq'
        BY <2>1, <3>2
      <4> QED
        BY <2>1, <3>2, <4>1, FromEmpty
    <3>4. ASSUME NEW e \in clients, e # c
          PROVE  got'[e] = From(joined'[e], seq' - joined'[e] - Owed(e)') /\ joined'[e] + Owed(e)' <= seq'
      <4>1. joined'[e] = joined[e] /\ Owed(e)' = Owed(e) /\ got'[e] = got[e] /\ seq' = seq
        BY <2>1, <3>1, <3>4 DEF Owed, TypeOK
      <4> QED
        BY <4>1 DEF DeliveryInv
    <3> QED
      BY <2>2, <3>1, <3>3, <3>4 DEF DeliveryInv
  <2> QED
    BY <2>2, <2>3, <2>4
<1>4. ASSUME NEW c \in Clients, ClientRuns(c), ~AddClient(c) PROVE BroadcastInv' /\ DeliveryInv'
  <2>1. clients' \subseteq clients /\ UNCHANGED <<seq, todo, current, got, joined>>
    BY <1>4 DEF ClientRuns, HandlerLocks, Subscribes, Replies, Reads, ReadFails, CloseClient, serverVars, hubVars
  <2>2. handler' = handler \/ \E where \in Served \cup {"ended"} : Handler(c, where)
    BY <1>4 DEF ClientRuns, HandlerLocks, Subscribes, Replies, Reads, ReadFails, Served
  <2>3. \A e \in Clients : handler'[e] \in {"none", "accepted"} => handler[e] \in {"none", "accepted"}
    BY <2>2 DEF Handler, Served, TypeOK
  <2> QED
    BY <2>1, <2>3, DeliveryStays, BroadcastStays
<1>5. CASE Emits
  <2>1. /\ todo = {} /\ current = NoClient /\ seq' = seq + 1 /\ todo' = clients
        /\ UNCHANGED <<clients, current, handler, got, joined>>
    BY <1>5 DEF Emits, Idle, serverVars
  <2>2. BroadcastInv'
    BY <2>1, ClientsAssumption DEF BroadcastInv, ConnInv, Served, TypeOK
  <2>3. ASSUME NEW c \in clients
        PROVE  got'[c] = From(joined'[c], seq' - joined'[c] - Owed(c)') /\ joined'[c] + Owed(c)' <= seq'
    <3>1. Owed(c) = 0 /\ Owed(c)' = 1
      BY <2>1, ClientsAssumption DEF Owed, TypeOK
    <3>2. got[c] = From(joined[c], seq - joined[c] - 0) /\ joined[c] + 0 <= seq
      BY <3>1 DEF DeliveryInv
    <3>3. joined[c] \in Nat /\ seq \in Nat
      BY DEF TypeOK
    <3>4. seq' - joined'[c] - Owed(c)' = seq - joined[c] - 0 /\ joined'[c] + Owed(c)' <= seq'
      BY <2>1, <3>1, <3>2, <3>3
    <3> QED
      BY <2>1, <3>2, <3>4
  <2> QED
    BY <2>1, <2>2, <2>3 DEF DeliveryInv
<1>6. CASE Picks
  <2>1. PICK c \in todo : current' = c /\ todo' = todo \ {c}
    BY <1>6 DEF Picks
  <2>2. UNCHANGED <<clients, seq, handler, got, joined>> /\ current = NoClient
    BY <1>6 DEF Picks, serverVars
  <2>3. \A e \in Clients : Owed(e)' = Owed(e)
    BY <2>1, <2>2, ClientsAssumption DEF Owed
  <2>4. BroadcastInv'
    BY <2>1, <2>2 DEF BroadcastInv, TypeOK
  <2>5. DeliveryInv'
    BY <2>2, <2>3 DEF DeliveryInv, TypeOK
  <2> QED
    BY <2>4, <2>5
<1>7. ASSUME NEW c \in Clients, BroadcastLocks(c) PROVE BroadcastInv' /\ DeliveryInv'
  BY <1>7, DeliveryStays, BroadcastStays DEF BroadcastLocks, serverVars, hubVars
<1>8. ASSUME NEW c \in Clients, BroadcastWrites(c) PROVE BroadcastInv' /\ DeliveryInv'
  <2>1. /\ current = c /\ current' = NoClient /\ UNCHANGED <<todo, seq, handler, joined>>
        /\ clients' \subseteq clients
    BY <1>8 DEF BroadcastWrites, CloseClient
  <2>2. \/ got' = [got EXCEPT ![c] = Append(@, seq)]
        \/ got' = got /\ c \notin clients'
    BY <1>8 DEF BroadcastWrites, Records, CloseClient
  <2>3. BroadcastInv'
    <3>1. \A e \in Clients : handler'[e] \in {"none", "accepted"} => got'[e] = got[e]
      BY <2>1, <2>2 DEF BroadcastInv, TypeOK
    <3> QED
      BY <2>1, <3>1, ClientsAssumption DEF BroadcastInv, TypeOK
  <2>4. ASSUME NEW e \in clients'
        PROVE  got'[e] = From(joined'[e], seq' - joined'[e] - Owed(e)') /\ joined'[e] + Owed(e)' <= seq'
    <3> USE DEF TypeOK
    <3>1. e \in clients /\ e \in Clients /\ joined[e] \in Nat /\ seq \in Nat
      BY <2>1
    <3>2. CASE e # c
      <4>1. Owed(e)' = Owed(e)
        BY <2>1, <3>1, <3>2, ClientsAssumption DEF Owed
      <4>2. got'[e] = got[e]
        BY <2>2, <3>1, <3>2
      <4> QED
        BY <2>1, <3>1, <4>1, <4>2 DEF DeliveryInv
    <3>3. CASE e = c
      <4>1. Owed(e) = 1 /\ Owed(e)' = 0
        BY <2>1, <3>1, <3>3, ClientsAssumption DEF Owed, BroadcastInv
      <4> DEFINE n == seq - joined[e] - 1
      <4> HIDE DEF n
      <4>2. got[e] = From(joined[e], n) /\ joined[e] + 1 <= seq
        BY <3>1, <4>1 DEF DeliveryInv, n
      <4>3. n \in Nat /\ joined[e] + n + 1 = seq /\ n + 1 = seq - joined[e] - 0
        BY <3>1, <4>2, OneOwed DEF n
      <4>4. got'[e] = Append(got[e], seq)
        BY <2>2, <3>1, <3>3
      <4>5. got'[e] = From(joined[e], n + 1)
        BY <3>1, <4>2, <4>3, <4>4, FromAppend
      <4> QED
        BY <2>1, <3>1, <4>1, <4>2, <4>3, <4>5
    <3> QED
      BY <3>2, <3>3
  <2> QED
    BY <2>3, <2>4 DEF DeliveryInv
<1>9. CASE CommandEnds \/ ListenerFails
  <2>1. UNCHANGED <<clients, seq, todo, current, handler, got, joined>>
    BY <1>9 DEF CommandEnds, ListenerFails, Closes
  <2> QED
    BY <2>1, DeliveryStays, BroadcastStays
<1>10. CASE CloseNext
  <2>1. clients' \subseteq clients /\ UNCHANGED <<seq, todo, current, handler, got, joined>>
    BY <1>10 DEF CloseNext, CloseClient
  <2> QED
    BY <2>1, DeliveryStays, BroadcastStays
<1>11. CASE UNCHANGED vars
  <2>1. UNCHANGED <<clients, seq, todo, current, handler, got, joined>>
    BY <1>11 DEF vars, serverVars, hubVars
  <2> QED
    BY <2>1, DeliveryStays, BroadcastStays
<1> QED
  BY <1>1, <1>2, <1>3, <1>4, <1>5, <1>6, <1>7, <1>8, <1>9, <1>10, <1>11 DEF Next, SearchRuns

-----------------------------------------------------------------------------
(* The theorems.                                                           *)

THEOREM Inductive == Spec => []IInv
<1>1. Init => IInv
  BY InitTypeOK, InitConn DEF IInv
<1>2. IInv /\ [Next]_vars => IInv'
  BY NextTypeOK, ConnStep, CloseStep, DeliveryStep DEF IInv
<1> QED
  BY <1>1, <1>2, PTL DEF Spec

\* When Close is over no client is left, and no connection but one whose
\* handler has yet to ask and will be refused.
THEOREM NobodyLeft == Spec => []NobodyLeftAfterClose
<1>1. IInv => NobodyLeftAfterClose
  BY DEF IInv, TypeOK, ConnInv, CloseInv, Served, NobodyLeftAfterClose
<1> QED
  BY <1>1, Inductive, PTL

\* No connection outlives the goroutine that serves it.
THEOREM AllServed == Spec => []OpenIsServed
<1>1. IInv => OpenIsServed
  BY DEF IInv, ConnInv, Served, OpenIsServed
<1> QED
  BY <1>1, Inductive, PTL

\* Between two broadcasts every client has got every event since it was
\* added, however many others failed, stalled, came or left in between.
THEOREM AllDelivered == Spec => []EveryEventDelivered
<1>1. IInv => EveryEventDelivered
  <2> SUFFICES ASSUME IInv, Idle, NEW c \in clients
               PROVE  got[c] = [i \in 1 .. seq - joined[c] |-> joined[c] + i]
    BY DEF EveryEventDelivered
  <2>1. Owed(c) = 0 /\ joined[c] \in Nat /\ seq \in Nat
    BY ClientsAssumption DEF IInv, TypeOK, Idle, Owed
  <2>2. got[c] = From(joined[c], seq - joined[c] - 0)
    BY <2>1 DEF IInv, DeliveryInv
  <2>3. seq - joined[c] - 0 = seq - joined[c]
    BY <2>1
  <2> QED
    BY <2>2, <2>3 DEF From
<1> QED
  BY <1>1, Inductive, PTL
=============================================================================
