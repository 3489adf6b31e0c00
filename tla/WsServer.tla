------------------------------ MODULE WsServer ------------------------------
(***************************************************************************)
(* The worker's WebSocket control (worker/ws_server.go) and the ends of    *)
(* runCommand and the emitter (worker/worker.go) that use it.  The         *)
(* goroutine of the search broadcasts every event; each client has the     *)
(* goroutine of its HTTP handler and then of its read loop; the server is  *)
(* closed by runCommand or by a listener that failed.                      *)
(*                                                                         *)
(* An event is named by its number; the last one is the result or error    *)
(* runCommand ends with.  A write that fails or times out closes its       *)
(* connection, as the websocket library does.                              *)
(***************************************************************************)
EXTENDS Integers, Sequences, SequencesExt

CONSTANTS
  Clients,     (* the connections that may come, each one once              *)
  NoClient,    (* not a client                                              *)
  Limits       (* bounds of the model, one of which a behaviour keeps to:   *)
               (*   clients   those that come                               *)
               (*   unruly    those that send, stall and hang up            *)
               (*   events    how many there are before the last one        *)
               (*   commands  how many one client sends                     *)

ASSUME ClientsAssumption == NoClient \notin Clients
ASSUME LimitsAssumption ==
  \A l \in Limits : /\ l.unruly \subseteq l.clients /\ l.clients \subseteq Clients
                    /\ l.events \in Nat /\ l.commands \in Nat

VARIABLES
  limits,    (* the bounds of this behaviour                                *)
  clients,   (* s.clients                                                   *)
  closed,    (* s.closed                                                    *)
  toClose,   (* clients Close has yet to close                              *)
  closer,    (* who runs Close: "none", "command", "listener"; then "over"  *)
  main,      (* runCommand: "searching", "ending", "closing", "exited"      *)
  stopped,   (* whether onStop was called: the search's context is cancelled*)
  seq,       (* number of the last event broadcast                          *)
  todo,      (* clients of the snapshot Broadcast has yet to send to        *)
  current,   (* the client Broadcast is sending to                          *)
  conn,      (* connection of a client: "none", "open", "shut"              *)
  stalled,   (* whether the peer has stopped reading                        *)
  inbox,     (* commands the peer sent and the server has not read          *)
  sent,      (* history: how many commands the peer sent                    *)
  handler,   (* goroutine of a client: accept, then readLoop                *)
  writer,    (* who holds writeMu: "free", "handler", "broadcast"           *)
  got,       (* history: the broadcast events written to a client           *)
  joined     (* history: seq when the client was added                      *)

serverVars == <<clients, closed, toClose, closer>>
hubVars    == <<main, seq, todo, current>>
peerVars   == <<stalled, inbox, sent>>
vars == <<limits, serverVars, hubVars, peerVars, stopped, conn, handler, writer, got, joined>>

Commands == {"ping", "stop", "unknown", "undecodable"}

Init ==
  /\ limits \in Limits
  /\ clients = {} /\ closed = FALSE /\ toClose = {} /\ closer = "none"
  /\ main = "searching" /\ stopped = FALSE
  /\ seq = 0 /\ todo = {} /\ current = NoClient
  /\ conn = [c \in Clients |-> "none"] /\ stalled = [c \in Clients |-> FALSE]
  /\ inbox = [c \in Clients |-> <<>>] /\ sent = [c \in Clients |-> 0]
  /\ handler = [c \in Clients |-> "none"] /\ writer = [c \in Clients |-> "free"]
  /\ got = [c \in Clients |-> <<>>] /\ joined = [c \in Clients |-> 0]

Handler(c, where) == handler' = [handler EXCEPT ![c] = where]
Shut(c) == conn' = [conn EXCEPT ![c] = "shut"]

\* wsClient.close: once removed a client is not added again.
CloseClient(c) == clients' = clients \ {c} /\ Shut(c)

-----------------------------------------------------------------------------
(* The peers.                                                              *)

Connects(c) ==
  /\ c \in limits.clients /\ conn[c] = "none" /\ ~closed
  /\ conn' = [conn EXCEPT ![c] = "open"] /\ Handler(c, "accepted")
  /\ UNCHANGED <<serverVars, hubVars, peerVars, stopped, writer, got, joined>>

Sends(c) ==
  /\ c \in limits.unruly /\ conn[c] = "open" /\ sent[c] < limits.commands
  /\ \E m \in Commands : inbox' = [inbox EXCEPT ![c] = Append(@, m)]
  /\ sent' = [sent EXCEPT ![c] = @ + 1]
  /\ UNCHANGED <<serverVars, hubVars, stalled, stopped, conn, handler, writer, got, joined>>

Stalls(c) ==
  /\ c \in limits.unruly /\ conn[c] = "open" /\ ~stalled[c]
  /\ stalled' = [stalled EXCEPT ![c] = TRUE]
  /\ UNCHANGED <<serverVars, hubVars, inbox, sent, stopped, conn, handler, writer, got, joined>>

HangsUp(c) ==
  /\ c \in limits.unruly /\ conn[c] = "open"
  /\ Shut(c)
  /\ UNCHANGED <<serverVars, hubVars, peerVars, stopped, handler, writer, got, joined>>

-----------------------------------------------------------------------------
(* sendEvent: writeMu, the write with its timeout, and the unlock.         *)

Lock(c, who) == writer[c] = "free" /\ writer' = [writer EXCEPT ![c] = who]

\* Mutant: a failed write keeps the lock.
Unlock_Success(c) == writer' = [writer EXCEPT ![c] = IF conn[c] = "open" THEN "free" ELSE @]

Unlock(c) == writer' = [writer EXCEPT ![c] = "free"]

WriteSucceeds(c) == conn[c] = "open" /\ ~stalled[c]
Records(c) == got' = [got EXCEPT ![c] = Append(@, seq)]

\* Mutant: no wsWriteTimeout.
WriteFails_NoTimeout(c) == conn[c] = "shut"

\* The connection is gone or wsWriteTimeout has passed, which runs from before
\* the lock: a write that waited for a slow one may fail at once.
WriteFails(c) == conn[c] \in {"open", "shut"}

-----------------------------------------------------------------------------
(* The goroutine of a client.                                              *)

\* Mutant: a client is added to a closed server.
AddClient_Closed(c) ==
  /\ handler[c] = "accepted"
  /\ clients' = clients \cup {c} /\ joined' = [joined EXCEPT ![c] = seq]
  /\ Handler(c, "added") /\ UNCHANGED conn
  /\ UNCHANGED <<closed, toClose, closer, hubVars, peerVars, stopped, writer, got>>

\* addClient; a closed server refuses.
AddClient(c) ==
  /\ handler[c] = "accepted"
  /\ IF closed THEN Shut(c) /\ Handler(c, "ended") /\ UNCHANGED <<clients, joined>>
     ELSE /\ clients' = clients \cup {c} /\ joined' = [joined EXCEPT ![c] = seq]
          /\ Handler(c, "added") /\ UNCHANGED conn
  /\ UNCHANGED <<closed, toClose, closer, hubVars, peerVars, stopped, writer, got>>

\* The subscribed event, and the replies of handleCommand, take the lock.
HandlerLocks(c) ==
  /\ handler[c] \in {"added", "reply"}
  /\ Lock(c, "handler")
  /\ Handler(c, IF handler[c] = "added" THEN "subscribing" ELSE "replying")
  /\ UNCHANGED <<serverVars, hubVars, peerVars, stopped, conn, got, joined>>

\* Mutant: accept returns without closing the client.
Subscribes_NoClose(c) ==
  /\ handler[c] = "subscribing" /\ Unlock(c)
  /\ UNCHANGED <<clients, conn>>
  /\ \/ WriteSucceeds(c) /\ Handler(c, "reading")
     \/ WriteFails(c) /\ Handler(c, "ended")
  /\ UNCHANGED <<closed, toClose, closer, hubVars, peerVars, stopped, got, joined>>

\* accept after addClient: the subscribed event, then the read loop.
Subscribes(c) ==
  /\ handler[c] = "subscribing" /\ Unlock(c)
  /\ \/ WriteSucceeds(c) /\ Handler(c, "reading") /\ UNCHANGED <<clients, conn>>
     \/ WriteFails(c) /\ CloseClient(c) /\ Handler(c, "ended")
  /\ UNCHANGED <<closed, toClose, closer, hubVars, peerVars, stopped, got, joined>>

\* readLoop goes on after a failed reply; the next read finds the
\* connection shut.
Replies(c) ==
  /\ handler[c] = "replying" /\ Unlock(c) /\ Handler(c, "reading")
  /\ \/ WriteSucceeds(c) /\ UNCHANGED conn
     \/ WriteFails(c) /\ Shut(c)
  /\ UNCHANGED <<serverVars, hubVars, peerVars, stopped, got, joined>>

\* A frame is read and handled.
Reads(c) ==
  /\ handler[c] = "reading" /\ conn[c] = "open" /\ inbox[c] # <<>>
  /\ inbox' = [inbox EXCEPT ![c] = Tail(@)]
  /\ LET m == Head(inbox[c]) IN
     \/ /\ m = "undecodable"
        /\ CloseClient(c) /\ Handler(c, "ended") /\ UNCHANGED stopped
     \/ m = "stop" /\ stopped' = TRUE /\ UNCHANGED <<clients, conn, handler>>
     \/ m \in {"ping", "unknown"} /\ Handler(c, "reply") /\ UNCHANGED <<clients, conn, stopped>>
  /\ UNCHANGED <<closed, toClose, closer, hubVars, stalled, sent, writer, got, joined>>

ReadFails(c) ==
  /\ handler[c] = "reading" /\ conn[c] = "shut"
  /\ CloseClient(c) /\ Handler(c, "ended")
  /\ UNCHANGED <<closed, toClose, closer, hubVars, peerVars, stopped, writer, got, joined>>

ClientRuns(c) ==
  AddClient(c) \/ HandlerLocks(c) \/ Subscribes(c) \/ Replies(c) \/ Reads(c) \/ ReadFails(c)

-----------------------------------------------------------------------------
(* The goroutine of the search: Broadcast, then the end of runCommand.     *)

Idle == todo = {} /\ current = NoClient

\* snapshotClients.  The last event is broadcast when the search returned.
Emits ==
  /\ Idle /\ main = "searching"
  /\ seq' = seq + 1 /\ todo' = clients
  /\ main' \in {"searching", "ending"}
  /\ main' = "searching" => seq < limits.events
  /\ UNCHANGED <<serverVars, peerVars, current, stopped, conn, handler, writer, got, joined>>

\* The map has no order.
Picks ==
  /\ current = NoClient
  /\ \E c \in todo : current' = c /\ todo' = todo \ {c}
  /\ UNCHANGED <<serverVars, main, seq, peerVars, stopped, conn, handler, writer, got, joined>>

BroadcastLocks(c) ==
  /\ current = c /\ Lock(c, "broadcast")
  /\ UNCHANGED <<serverVars, hubVars, peerVars, stopped, conn, handler, got, joined>>

\* Mutant: a failing client ends the broadcast.
BroadcastWrites_StopsAtFailure(c) ==
  /\ current = c /\ writer[c] = "broadcast" /\ Unlock(c)
  /\ current' = NoClient
  /\ \/ WriteSucceeds(c) /\ Records(c) /\ UNCHANGED <<clients, conn, todo>>
     \/ WriteFails(c) /\ UNCHANGED got /\ CloseClient(c) /\ todo' = {}
  /\ UNCHANGED <<closed, toClose, closer, main, seq, peerVars, stopped, handler, joined>>

\* A client that cannot be written to is closed and the next one served.
BroadcastWrites(c) ==
  /\ current = c /\ writer[c] = "broadcast" /\ Unlock(c)
  /\ current' = NoClient
  /\ \/ WriteSucceeds(c) /\ Records(c) /\ UNCHANGED <<clients, conn>>
     \/ WriteFails(c) /\ UNCHANGED got /\ CloseClient(c)
  /\ UNCHANGED <<closed, toClose, closer, main, seq, todo, peerVars, stopped, handler, joined>>

SearchRuns == Picks \/ \E c \in Clients : BroadcastLocks(c) \/ BroadcastWrites(c)

\* Close under mu: whoever comes first marks the server closed.
Closes(who) ==
  /\ closed' = TRUE
  /\ IF closed THEN UNCHANGED <<toClose, closer>> ELSE toClose' = clients /\ closer' = who
  /\ UNCHANGED <<clients, seq, todo, current, peerVars, stopped, conn, handler, writer, got, joined>>

\* The deferred ws.Close of runCommand.
CommandEnds ==
  /\ main = "ending" /\ Idle
  /\ Closes("command")
  /\ main' = IF closed THEN "exited" ELSE "closing"

\* Serve returns with an error.
ListenerFails == closer = "none" /\ Closes("listener") /\ UNCHANGED main

CloseNext ==
  /\ closer \in {"command", "listener"}
  /\ \/ \E c \in toClose : toClose' = toClose \ {c} /\ CloseClient(c) /\ UNCHANGED <<closer, main>>
     \/ /\ toClose = {} /\ closer' = "over"
        /\ main' = IF closer = "command" THEN "exited" ELSE main
        /\ UNCHANGED <<toClose, clients, conn>>
  /\ UNCHANGED <<closed, seq, todo, current, peerVars, stopped, handler, writer, got, joined>>

\* runCommand returns and the process is gone.
Next ==
  /\ main # "exited" /\ UNCHANGED limits
  /\ \/ \E c \in Clients : Connects(c) \/ Sends(c) \/ Stalls(c) \/ HangsUp(c) \/ ClientRuns(c)
     \/ Emits \/ SearchRuns \/ CommandEnds \/ ListenerFails \/ CloseNext

Spec == Init /\ [][Next]_vars

Running(A) == main # "exited" /\ A /\ UNCHANGED limits

\* Every goroutine of the worker is scheduled.  A peer may do nothing, and
\* the search need not come to its next event.
FairSpec ==
  /\ Spec /\ WF_vars(Running(SearchRuns)) /\ WF_vars(Running(CommandEnds)) /\ WF_vars(Running(CloseNext))
  /\ \A c \in Clients : WF_vars(Running(ClientRuns(c)))

-----------------------------------------------------------------------------
(* Properties.                                                             *)

\* Between two broadcasts every client has got each event since it was added,
\* the last one included, in order: a slow, failing or leaving client never
\* costs another one an event.
EveryEventDelivered ==
  Idle => \A c \in clients : got[c] = [i \in 1 .. seq - joined[c] |-> joined[c] + i]

\* When Close is over no client is left, not even one whose handler was
\* between the upgrade and addClient, or still sending its subscribed event.
NobodyLeftAfterClose ==
  closer = "over" =>
    /\ clients = {}
    /\ \A c \in Clients : conn[c] = "open" => handler[c] = "accepted"

\* A connection is never left open without its read loop or its place among
\* the clients: it would hear nothing and could not stop the worker.
OpenIsServed ==
  \A c \in Clients : handler[c] = "ended" => conn[c] = "shut" /\ c \notin clients

\* A stalled or leaving client does not hold up the search for ever.
BroadcastEnds == (current # NoClient \/ todo # {}) ~> Idle

\* A stop command reaches the search unless its connection goes down first,
\* whatever the client sent before it and whether or not it reads replies.
StopHeeded ==
  \A c \in Clients :
    (conn[c] = "open" /\ "stop" \in ToSet(inbox[c]))
      ~> (stopped \/ conn[c] = "shut" \/ main = "exited")
=============================================================================
