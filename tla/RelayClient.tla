---------------------------- MODULE RelayClient ----------------------------
(***************************************************************************)
(* The WebSocket client of a chat, mobile/CloseApp/src/network/ws.ts.      *)
(*                                                                         *)
(* A client is the pair of the device that created it and the session it   *)
(* connects to: Chat.tsx creates one RelayClient per run of its effect and *)
(* a session is opened at most once on a device.  The client owns the      *)
(* socket's readyState and the queue pendingMessages; the two directions   *)
(* of the socket are the queues up (to the relay) and down (from it).      *)
(***************************************************************************)
EXTENDS Naturals, Sequences, FiniteSets

CONSTANTS
  Device,   \* the phones
  Session,  \* the session ids that link requests carry
  MaxLost   \* bound: how many sockets the network may break

ASSUME MaxLostAssumption == MaxLost \in Nat

VARIABLES
  readyState,       \* of the socket of each client
  pendingMessages,  \* what send() queued because the socket was not open
  up,               \* frames on their way to the relay
  down              \* frames on their way to the client

clientVars == <<readyState, pendingMessages, up, down>>

Client == Device \X Session

(***************************************************************************)
(* NONE: not created yet.  LOST: the network broke the socket; like        *)
(* CLOSED, but not by this client's wish.  The code tells neither apart:   *)
(* its onclose and onerror handlers are empty and it never reconnects.     *)
(***************************************************************************)
ReadyState == {"NONE", "CONNECTING", "OPEN", "CLOSING", "CLOSED", "LOST"}

ClientInit ==
  /\ readyState = [c \in Client |-> "NONE"]
  /\ pendingMessages = [c \in Client |-> <<>>]
  /\ up = [c \in Client |-> <<>>]
  /\ down = [c \in Client |-> <<>>]

(***************************************************************************)
(* The state of the sockets after client.close(): an open socket starts    *)
(* the closing handshake, during which frames still arrive; a socket that  *)
(* was still connecting is given up; any other is left alone.              *)
(***************************************************************************)
AfterClose(rs, c) ==
  [rs EXCEPT ![c] = CASE @ = "OPEN" -> "CLOSING"
                      [] @ = "CONNECTING" -> "CLOSED"
                      [] OTHER -> @]

\* onopen: the queue is flushed, in order, before anything else is sent.
ClientOpened(c) ==
  /\ readyState[c] = "CONNECTING"
  /\ readyState' = [readyState EXCEPT ![c] = "OPEN"]
  /\ up' = [up EXCEPT ![c] = @ \o pendingMessages[c]]
  /\ pendingMessages' = [pendingMessages EXCEPT ![c] = <<>>]
  /\ UNCHANGED down

\* send(): straight onto an open socket, otherwise onto the queue.
ClientSend(c, m) ==
  /\ \/ /\ readyState[c] = "OPEN"
        /\ up' = [up EXCEPT ![c] = Append(@, m)]
        /\ UNCHANGED pendingMessages
     \/ /\ readyState[c] # "OPEN"
        /\ pendingMessages' = [pendingMessages EXCEPT ![c] = Append(@, m)]
        /\ UNCHANGED up
  /\ UNCHANGED <<readyState, down>>

\* onmessage: the frame at the head of the queue is handed to the screen.
ClientReceive(c) ==
  /\ readyState[c] \in {"OPEN", "CLOSING"}
  /\ down[c] # <<>>
  /\ down' = [down EXCEPT ![c] = Tail(@)]
  /\ UNCHANGED <<readyState, pendingMessages, up>>

(***************************************************************************)
(* The network breaks the socket; whatever was under way is lost.  So are  *)
(* the unread frames of a socket that is closing when a send to it raises: *)
(* to the library it is disconnected then, and receive_text() raises too.  *)
(***************************************************************************)
ClientLost(c) ==
  /\ readyState[c] \in {"CONNECTING", "OPEN", "CLOSING"}
  /\ Cardinality({x \in Client : readyState[x] = "LOST"}) < MaxLost
  /\ readyState' = [readyState EXCEPT ![c] = "LOST"]
  /\ up' = [up EXCEPT ![c] = <<>>]
  /\ down' = [down EXCEPT ![c] = <<>>]
  /\ UNCHANGED pendingMessages
=============================================================================
