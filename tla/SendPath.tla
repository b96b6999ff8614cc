------------------------------ MODULE SendPath ------------------------------
(***************************************************************************)
(* The way of a message from a call of ChannelProtocol.tla that sends it,  *)
(* with its node's channel manager locked, to the message loop of the      *)
(* other node: the event loops of both (src/src/p2p/event.rs), the writer, *)
(* the socket and the reader between them, and the queues that they fill   *)
(* (src/src/server_bundle.rs).  Every queue but two has a bound, and a     *)
(* call keeps its lock until the last of them has taken the message.       *)
(*                                                                         *)
(* ChannelProtocol.tla lets a send return when it likes.  Here it returns  *)
(* when the writer has found room on the socket, for which the peer has to *)
(* read, for which the peer's event loop has to run.  What a call does is  *)
(* what it does there, and net is still all messages on their way.         *)
(*                                                                         *)
(* Abstractions.  The connections are up and stay up: what their ends do   *)
(* to a send is in EventHandler.tla, and to a channel in                   *)
(* ChannelProtocol.tla.  A socket holds a number of messages, not of bytes.*)
(***************************************************************************)
EXTENDS ChannelProtocol, Sequences

CONSTANTS Events,  \* the capacity of the queue of an event loop
          Window   \* the messages that a socket takes before the peer reads

ASSUME SendPathAssumption ==
  /\ Events \in Nat \ {0} /\ Window \in Nat \ {0}
  /\ ~Lossy /\ Mortal = {}

VARIABLES
  events,    \* the queue of a node's event loop
  outgoing,  \* the queue of the writer of the connection to a peer
  socket,    \* what is written to a peer and not read yet
  inbox      \* the queue of a node's message loop

path == <<events, outgoing, socket, inbox>>

SendPathInit ==
  /\ Init
  /\ events = [n \in Node |-> <<>>]
  /\ outgoing = [n \in Node |-> [peer \in Node |-> <<>>]]
  /\ socket = [n \in Node |-> [peer \in Node |-> <<>>]]
  /\ inbox = [n \in Node |-> <<>>]

Event(kind, m) == [kind |-> kind, message |-> m]

\* The call that has n's lock has handed its message to the event loop, and waits.
Requested(n) ==
  \/ \E i \in DOMAIN events[n] : events[n][i].kind = "SendMessageReq"
  \/ \E peer \in Node : outgoing[n][peer] # <<>>

\* The call waits for a place in the queue of its own event loop.
send_message(n) ==
  /\ lock[n] # None /\ lock[n].at \in {"open", "ack"}
  /\ ~Requested(n) /\ Len(events[n]) < Events
  /\ events' = [events EXCEPT ![n] = Append(@, Event("SendMessageReq", lock[n].message))]
  /\ UNCHANGED <<vars, outgoing, socket, inbox>>

\* Mutant: the event loop hands a message to the manager itself, and waits for its lock.
handle_event_locks(n) ==
  /\ events[n] # <<>>
  /\ events' = [events EXCEPT ![n] = Tail(@)]
  /\ LET m == Head(events[n]).message
     IN  \/ /\ Head(events[n]).kind = "SendMessageReq"
            /\ outgoing' = [outgoing EXCEPT ![n][m.to] = Append(@, m)]
            /\ UNCHANGED inbox
         \/ /\ Head(events[n]).kind = "NewIncomingMessage"
            /\ lock[n] = None
            /\ inbox' = [inbox EXCEPT ![n] = Append(@, m)]
            /\ UNCHANGED outgoing
  /\ UNCHANGED <<vars, socket>>

\* The event loop puts a message into a queue that has no bound, whatever it is.
handle_event(n) ==
  /\ events[n] # <<>>
  /\ events' = [events EXCEPT ![n] = Tail(@)]
  /\ LET m == Head(events[n]).message
     IN  \/ /\ Head(events[n]).kind = "SendMessageReq"
            /\ outgoing' = [outgoing EXCEPT ![n][m.to] = Append(@, m)]
            /\ UNCHANGED inbox
         \/ /\ Head(events[n]).kind = "NewIncomingMessage"
            /\ inbox' = [inbox EXCEPT ![n] = Append(@, m)]
            /\ UNCHANGED outgoing
  /\ UNCHANGED <<vars, socket>>

\* The writer finds room on the socket and notifies the call, which returns.
write(n, peer) ==
  /\ outgoing[n][peer] # <<>> /\ Len(socket[n][peer]) < Window
  /\ outgoing' = [outgoing EXCEPT ![n][peer] = Tail(@)]
  /\ socket' = [socket EXCEPT ![n][peer] = Append(@, Head(outgoing[n][peer]))]
  /\ open_channel_sent(n) \/ ack_sent(n)
  /\ UNCHANGED <<events, inbox>>

\* The reader of n takes a message off the socket, and waits for a place in the queue.
read(n, peer) ==
  /\ socket[peer][n] # <<>> /\ Len(events[n]) < Events
  /\ socket' = [socket EXCEPT ![peer][n] = Tail(@)]
  /\ events' = [events EXCEPT ![n] = Append(@, Event("NewIncomingMessage", Head(socket[peer][n])))]
  /\ UNCHANGED <<vars, outgoing, inbox>>

\* The message loop takes the next message, and the lock.
receive(n) ==
  /\ inbox[n] # <<>>
  /\ inbox' = [inbox EXCEPT ![n] = Tail(@)]
  /\ recv_new_channel(n, Head(inbox[n])) \/ recv_new_channel_ack(n, Head(inbox[n]))
  /\ UNCHANGED <<events, outgoing, socket>>

\* Calls, tasks and users, which do not use the path.
Elsewhere ==
  /\ \/ \E k \in Call, n, peer \in Node, v \in Value : open_channel(k, n, peer, v)
     \/ \E n \in Node : ack_stored(n) \/ close_stored(n)
     \/ \E n \in Node, id \in ChannelId : force_close_channel(n, id)
     \/ \E w \in waiters : funding_seen(w)
     \/ \E id \in ChannelId : sign(id) \/ broadcast(id)
  /\ UNCHANGED path

SendPathNext ==
  \/ \E n \in Node : \/ send_message(n) \/ handle_event(n) \/ receive(n)
                     \/ \E peer \in Node : write(n, peer) \/ read(n, peer)
  \/ Elsewhere

allVars == <<vars, path>>

\* The tasks run, and the queue of a manager's lock is fair.  No user has to call, sign
\* or broadcast, and no send has to return.
SendPathFairness ==
  /\ \A n \in Node :
       /\ WF_allVars(send_message(n))
       /\ WF_allVars(handle_event(n))
       /\ SF_allVars(receive(n))
       /\ WF_allVars((ack_stored(n) \/ close_stored(n)) /\ UNCHANGED path)
       /\ \A peer \in Node : WF_allVars(write(n, peer)) /\ WF_allVars(read(n, peer))
  /\ WF_allVars((\E w \in waiters : funding_seen(w)) /\ UNCHANGED path)

SendPathSpec == SendPathInit /\ [][SendPathNext]_allVars /\ SendPathFairness

-----------------------------------------------------------------------------
(* Properties *)

\* A call that has the lock of its manager returns and lets go of it, although it waits
\* for room on the peer's sockets and in its queues, and calls and message loops of the
\* peer, who send to this node, hold the peer's lock meanwhile: nothing between two
\* calls waits for a lock.
LockIsReleased == \A n \in Node : lock[n] # None ~> lock[n] = None

\* When messages are not lost, a channel that was opened gets its ack and is ready.
PendingIsAcked ==
  \A n \in Node, id \in ChannelId : StateOf(n, id) = "Pending" ~> StateOf(n, id) # "Pending"

\* Both sides notice a funding transaction that is on chain, and keep to it.
FundingIsSeen ==
  \A id \in ChannelId :
    id \in chain ~> [](/\ fund_tx[id] # None
                       /\ StateOf(fund_tx[id].by, id) \in {"Live", "Closed"}
                       /\ StateOf(fund_tx[id].peer, id) = "Funded")
=============================================================================
