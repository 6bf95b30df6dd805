------------------------------- MODULE Relay -------------------------------
(***************************************************************************)
(* What the relay's /ws/{session_id} endpoint (server/main.py) does for    *)
(* the clients of RelayClient, with the body of its receive loop taken as  *)
(* one step.  A session of the app has two members, so the loop over the   *)
(* peers makes at most one send and the single step loses no interleaving. *)
(***************************************************************************)
EXTENDS RelayClient

VARIABLE joined  \* the sockets held in the server's dict sessions

relayVars == <<clientVars, joined>>

RelayInit == ClientInit /\ joined = {}

\* Variant with a bug: the sender is not skipped.
PeersAndSelf(c) == {x \in joined : x[2] = c[2]}

\* Variant with a bug: every session is one room.
PeersAnywhere(c) == joined \ {c}

\* The other sockets registered for the session of client c.
PeersOf(c) == {x \in joined : x[2] = c[2] /\ x # c}

\* A frame sent to this client still reaches it.
Reachable(c) == readyState[c] \in {"CONNECTING", "OPEN", "CLOSING"}

\* ws.accept() has completed the handshake; the socket enters the session.
RelayJoin(c) ==
  /\ readyState[c] \in {"CONNECTING", "OPEN", "CLOSING"}
  /\ c \notin joined
  /\ joined' = joined \cup {c}
  /\ UNCHANGED clientVars

(***************************************************************************)
(* One turn of the receive loop: the text goes to every other member.  A   *)
(* send to a broken socket is lost, and when it raises the peer is         *)
(* discarded.                                                              *)
(***************************************************************************)
RelayForward(c) ==
  /\ c \in joined
  /\ up[c] # <<>>
  /\ up' = [up EXCEPT ![c] = Tail(@)]
  /\ down' = [x \in Client |-> IF x \in PeersOf(c) /\ Reachable(x)
                               THEN Append(down[x], Head(up[c]))
                               ELSE down[x]]
  /\ \E dead \in SUBSET {x \in PeersOf(c) : ~Reachable(x)} :
       joined' = joined \ dead
  /\ UNCHANGED <<readyState, pendingMessages>>

\* The loop sees WebSocketDisconnect once the socket's last frame is read.
RelayLeave(c) ==
  /\ c \in joined
  /\ readyState[c] \in {"CLOSING", "CLOSED", "LOST"}
  /\ up[c] = <<>>
  /\ joined' = joined \ {c}
  /\ readyState' = [readyState EXCEPT ![c] = IF @ = "CLOSING" THEN "CLOSED" ELSE @]
  /\ down' = [down EXCEPT ![c] = <<>>]
  /\ UNCHANGED <<pendingMessages, up>>
=============================================================================
