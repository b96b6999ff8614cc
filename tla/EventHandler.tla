---------------------------- MODULE EventHandler ----------------------------
(***************************************************************************)
(* The p2p event loop of one node (src/src/p2p/event.rs).                  *)
(*                                                                         *)
(* The loop owns a table from peer ids to a connection state.  Everything  *)
(* else runs in tasks that only talk to it through one queue of events:    *)
(*   - HTTP handlers and the message loop ask to connect or to send, and   *)
(*     wait on a oneshot (a "notifier") for the outcome;                   *)
(*   - a task per dial attempt reports the new connection or the failure;  *)
(*   - the listener reports connections that peers opened;                 *)
(*   - a reader task per connection reports messages, then the end;        *)
(*   - a writer task per connection drains that connection's queue.        *)
(*                                                                         *)
(* Abstractions.  A request is a number, given in the order in which the   *)
(* requests enter the queue; payloads and addresses are left out.  The     *)
(* event channel has a capacity in the code, but every request and every   *)
(* dial sends through a fresh clone of the sender, which always has a slot *)
(* of its own, and the loop never sends: the capacity only delays the      *)
(* return of send(), so the queue is unbounded here.                       *)
(***************************************************************************)
EXTENDS Naturals, Sequences, SequencesExt

CONSTANTS Peer,         \* peer ids this node deals with
          Dialer,       \* the peers that open connections to this node
          Garbler,      \* the peers that may send a line that is not a message
          Connect,      \* the POST /peers requests, each with its notifier
          MaxMessage,   \* bound: send requests ever made
          MaxIncoming,  \* bound: messages ever read from the sockets
          MaxSocket,    \* bound: connections ever established
          None          \* no peer, no socket

Message == 1 .. MaxMessage
Incoming == 1 .. MaxIncoming
Socket == 1 .. MaxSocket

ASSUME ConstantsAssumption ==
  /\ Dialer \subseteq Peer /\ Garbler \subseteq Peer
  /\ MaxMessage \in Nat /\ MaxIncoming \in Nat /\ MaxSocket \in Nat
  /\ None \notin Peer /\ None \notin Socket

VARIABLES
  queue,       \* the mpsc channel of events
  state,       \* the peers table: is there an entry, and which variant
  notify_on_connect, pending_messages,   \* fields of a Connecting entry
  outgoing,    \* the socket whose writer a Connected entry feeds
  dialing,     \* dial tasks in flight, by peer
  owner,       \* the peer at the other end of a socket, None while unused
  open,        \* does the transport of a socket still work
  reader,      \* the reader task of a socket
  writer,      \* the writer task of a socket
  out,         \* the unbounded queue that a writer task drains
  wire,        \* messages written to a socket while it worked, in order
  result,      \* what the notifier of a send request has delivered
  reply,       \* what the notifier of a connect request has delivered
  inbox,       \* the stream of incoming messages handed to the node
  arrived      \* number of messages read from the sockets so far

table == <<state, notify_on_connect, pending_messages, outgoing>>
sockets == <<owner, open, reader, writer, out, wire>>
answers == <<result, reply>>
stream == <<inbox, arrived>>
vars == <<queue, table, dialing, sockets, answers, stream>>

Outcome == {"ok", "err", "dropped"}

Event ==
  [type : {"OutgoingConnectionReq"}, peer : Peer, notify : Connect]
    \cup [type : {"SendMessageReq"}, peer : Peer, message : Message]
    \cup [type : {"NewIncomingMessage"}, peer : Peer, message : Incoming]
    \cup [type : {"ConnectionEstablished"}, peer : Peer, socket : Socket]
    \cup [type : {"ConnectionFailed", "Disconnected"}, peer : Peer]

TypeOK ==
  /\ queue \in Seq(Event)
  /\ state \in [Peer -> {"absent", "connecting", "connected"}]
  /\ notify_on_connect \in [Peer -> Seq(Connect)]
  /\ pending_messages \in [Peer -> Seq(Message)]
  /\ outgoing \in [Peer -> Socket \cup {None}]
  /\ dialing \in [Peer -> Nat]
  /\ owner \in [Socket -> Peer \cup {None}]
  /\ open \in [Socket -> BOOLEAN]
  /\ reader \in [Socket -> {"none", "reading", "ended"}]
  /\ writer \in [Socket -> {"none", "sending", "ended"}]
  /\ out \in [Socket -> Seq(Message)]
  /\ wire \in [Socket -> Seq(Message)]
  /\ result \in [Message -> {"idle", "waiting"} \cup Outcome]
  /\ reply \in [Connect -> {"idle", "waiting"} \cup Outcome]
  /\ inbox \in Seq([peer : Peer, message : Incoming])
  /\ arrived \in 0 .. MaxIncoming

Init ==
  /\ queue = <<>>
  /\ state = [p \in Peer |-> "absent"]
  /\ notify_on_connect = [p \in Peer |-> <<>>]
  /\ pending_messages = [p \in Peer |-> <<>>]
  /\ outgoing = [p \in Peer |-> None]
  /\ dialing = [p \in Peer |-> 0]
  /\ owner = [s \in Socket |-> None]
  /\ open = [s \in Socket |-> FALSE]
  /\ reader = [s \in Socket |-> "none"]
  /\ writer = [s \in Socket |-> "none"]
  /\ out = [s \in Socket |-> <<>>]
  /\ wire = [s \in Socket |-> <<>>]
  /\ result = [m \in Message |-> "idle"]
  /\ reply = [r \in Connect |-> "idle"]
  /\ inbox = <<>>
  /\ arrived = 0

-----------------------------------------------------------------------------
(* Helpers *)

\* A oneshot delivers once: the requests in s learn v unless already answered.
Answer(f, s, v) ==
  [r \in DOMAIN f |-> IF r \in s /\ f[r] = "waiting" THEN v ELSE f[r]]

\* The least number of the range that satisfies the test: requests and sockets
\* are numbered in the order in which they come into being.
Fresh(S, Used(_), n) == n \in S /\ ~Used(n) /\ \A k \in S : k < n => Used(k)

Enqueue(e) == queue' = Append(queue, e)

-----------------------------------------------------------------------------
(* The callers: HTTP handlers and the message loop *)

\* POST /peers: enqueue the request, wait on the notifier.
RequestConnect(r, p) ==
  /\ reply[r] = "idle"
  /\ reply' = [reply EXCEPT ![r] = "waiting"]
  /\ Enqueue([type |-> "OutgoingConnectionReq", peer |-> p, notify |-> r])
  /\ UNCHANGED <<table, dialing, sockets, result, stream>>

\* Event::send_message: enqueue the message, wait on the notifier.
send_message(m, p) ==
  /\ Fresh(Message, LAMBDA k : result[k] # "idle", m)
  /\ result' = [result EXCEPT ![m] = "waiting"]
  /\ Enqueue([type |-> "SendMessageReq", peer |-> p, message |-> m])
  /\ UNCHANGED <<table, dialing, sockets, reply, stream>>

-----------------------------------------------------------------------------
(* The event loop: handle_event, one action per event *)

\* Mutant: every request dials, whether or not the peer has an entry.
maybe_connect_always(p) ==
  /\ state' = [state EXCEPT ![p] = IF @ = "absent" THEN "connecting" ELSE @]
  /\ dialing' = [dialing EXCEPT ![p] = @ + 1]

\* A vacant entry becomes Connecting and a dial task starts; an entry that is
\* there is used as it is.
maybe_connect(p) ==
  IF state[p] = "absent"
  THEN /\ state' = [state EXCEPT ![p] = "connecting"]
       /\ dialing' = [dialing EXCEPT ![p] = @ + 1]
  ELSE UNCHANGED <<state, dialing>>

\* Take the entry of p out of the table; whoever waits on it learns v.
RemoveEntry(p, v) ==
  /\ state' = [state EXCEPT ![p] = "absent"]
  /\ notify_on_connect' = [notify_on_connect EXCEPT ![p] = <<>>]
  /\ pending_messages' = [pending_messages EXCEPT ![p] = <<>>]
  /\ outgoing' = [outgoing EXCEPT ![p] = None]
  /\ reply' = Answer(reply, ToSet(notify_on_connect[p]), v)
  /\ result' = Answer(result, ToSet(pending_messages[p]), v)

Take(type) ==
  /\ queue # <<>>
  /\ Head(queue).type = type
  /\ queue' = Tail(queue)

\* When the peer is connected already the notifier goes out of scope unused.
HandleOutgoingConnectionReq ==
  /\ Take("OutgoingConnectionReq")
  /\ LET p == Head(queue).peer
         r == Head(queue).notify
     IN  /\ maybe_connect(p)
         /\ \/ /\ state[p] = "connected"
               /\ reply' = Answer(reply, {r}, "dropped")
               /\ UNCHANGED notify_on_connect
            \/ /\ state[p] # "connected"
               /\ notify_on_connect' = [notify_on_connect EXCEPT ![p] = Append(@, r)]
               /\ UNCHANGED reply
  /\ UNCHANGED <<pending_messages, outgoing, sockets, result, stream>>

HandleSendMessageReq ==
  /\ Take("SendMessageReq")
  /\ LET p == Head(queue).peer
         m == Head(queue).message
     IN  /\ maybe_connect(p)
         /\ \/ /\ state[p] = "connected"
               /\ out' = [out EXCEPT ![outgoing[p]] = Append(@, m)]
               /\ UNCHANGED pending_messages
            \/ /\ state[p] # "connected"
               /\ pending_messages' = [pending_messages EXCEPT ![p] = Append(@, m)]
               /\ UNCHANGED out
  /\ UNCHANGED <<notify_on_connect, outgoing, owner, open, reader, writer, wire,
                 answers, stream>>

HandleNewIncomingMessage ==
  /\ Take("NewIncomingMessage")
  /\ inbox' = Append(inbox, [peer |-> Head(queue).peer, message |-> Head(queue).message])
  /\ UNCHANGED <<table, dialing, sockets, answers, arrived>>

\* The event names the peer only: the entry goes, whichever connection it is for.
HandleDisconnected ==
  /\ Take("Disconnected")
  /\ RemoveEntry(Head(queue).peer, "dropped")
  /\ UNCHANGED <<dialing, sockets, stream>>

\* Mutant: the pending messages are popped from the back instead of drained.
HandleConnectionEstablished_pop ==
  /\ Take("ConnectionEstablished")
  /\ LET p == Head(queue).peer
         s == Head(queue).socket
     IN  /\ reply' = Answer(reply, ToSet(notify_on_connect[p]), "ok")
         /\ notify_on_connect' = [notify_on_connect EXCEPT ![p] = <<>>]
         /\ out' = [out EXCEPT ![s] = Reverse(pending_messages[p])]
         /\ pending_messages' = [pending_messages EXCEPT ![p] = <<>>]
         /\ state' = [state EXCEPT ![p] = "connected"]
         /\ outgoing' = [outgoing EXCEPT ![p] = s]
         /\ writer' = [writer EXCEPT ![s] = "sending"]
         /\ reader' = [reader EXCEPT ![s] = "reading"]
  /\ UNCHANGED <<dialing, owner, open, wire, result, stream>>

\* spawn_outgoing_messages and spawn_incoming_messages: start both tasks, hand
\* the new writer what was pending, and replace the entry.
HandleConnectionEstablished ==
  /\ Take("ConnectionEstablished")
  /\ LET p == Head(queue).peer
         s == Head(queue).socket
     IN  /\ reply' = Answer(reply, ToSet(notify_on_connect[p]), "ok")
         /\ notify_on_connect' = [notify_on_connect EXCEPT ![p] = <<>>]
         /\ out' = [out EXCEPT ![s] = pending_messages[p]]
         /\ pending_messages' = [pending_messages EXCEPT ![p] = <<>>]
         /\ state' = [state EXCEPT ![p] = "connected"]
         /\ outgoing' = [outgoing EXCEPT ![p] = s]
         /\ writer' = [writer EXCEPT ![s] = "sending"]
         /\ reader' = [reader EXCEPT ![s] = "reading"]
  /\ UNCHANGED <<dialing, owner, open, wire, result, stream>>

\* Mutant: the waiters are told, but the entry stays in the table.
HandleConnectionFailed_get ==
  /\ Take("ConnectionFailed")
  /\ LET p == Head(queue).peer
     IN  /\ reply' = Answer(reply, ToSet(notify_on_connect[p]), "err")
         /\ result' = Answer(result, ToSet(pending_messages[p]), "err")
         /\ notify_on_connect' = [notify_on_connect EXCEPT ![p] = <<>>]
         /\ pending_messages' = [pending_messages EXCEPT ![p] = <<>>]
  /\ UNCHANGED <<state, outgoing, dialing, sockets, stream>>

HandleConnectionFailed ==
  /\ Take("ConnectionFailed")
  /\ RemoveEntry(Head(queue).peer, "err")
  /\ UNCHANGED <<dialing, sockets, stream>>

handle_event ==
  \/ HandleOutgoingConnectionReq
  \/ HandleSendMessageReq
  \/ HandleNewIncomingMessage
  \/ HandleDisconnected
  \/ HandleConnectionEstablished
  \/ HandleConnectionFailed

-----------------------------------------------------------------------------
(* The tasks, the listener and the network *)

\* A connection to p exists; its halves travel in the event.
Establish(p) ==
  \E s \in Socket :
    /\ Fresh(Socket, LAMBDA k : owner[k] # None, s)
    /\ owner' = [owner EXCEPT ![s] = p]
    /\ open' = [open EXCEPT ![s] = TRUE]
    /\ Enqueue([type |-> "ConnectionEstablished", peer |-> p, socket |-> s])
    /\ UNCHANGED <<table, reader, writer, out, wire, answers, stream>>

DialSucceeds(p) ==
  /\ dialing[p] > 0
  /\ dialing' = [dialing EXCEPT ![p] = @ - 1]
  /\ Establish(p)

\* Mutant: the failure of one dial is reported more than once.
DialFails_again(p) ==
  /\ dialing' = [dialing EXCEPT ![p] = @ - 1]
  /\ Enqueue([type |-> "ConnectionFailed", peer |-> p])
  /\ UNCHANGED <<table, sockets, answers, stream>>

DialFails(p) ==
  /\ dialing[p] > 0
  /\ dialing' = [dialing EXCEPT ![p] = @ - 1]
  /\ Enqueue([type |-> "ConnectionFailed", peer |-> p])
  /\ UNCHANGED <<table, sockets, answers, stream>>

\* The listener finished the handshake of a connection that p opened.
Accept(p) ==
  /\ p \in Dialer
  /\ Establish(p)
  /\ UNCHANGED dialing

\* The transport fails, or the other end closes it.
Break(s) ==
  /\ open[s]
  /\ open' = [open EXCEPT ![s] = FALSE]
  /\ UNCHANGED <<queue, table, dialing, owner, reader, writer, out, wire, answers, stream>>

ReadMessage(s) ==
  /\ reader[s] = "reading"
  /\ arrived < MaxIncoming
  /\ arrived' = arrived + 1
  /\ Enqueue([type |-> "NewIncomingMessage", peer |-> owner[s], message |-> arrived + 1])
  /\ UNCHANGED <<table, dialing, sockets, answers, inbox>>

\* Mutant: the reader stops without telling the loop.
ReadEnds_silent(s) ==
  /\ reader[s] = "reading"
  /\ ~open[s] \/ owner[s] \in Garbler
  /\ reader' = [reader EXCEPT ![s] = "ended"]
  /\ UNCHANGED <<queue, table, dialing, owner, open, writer, out, wire, answers, stream>>

\* The stream of messages ends with the transport, or at the first bad line.
ReadEnds(s) ==
  /\ reader[s] = "reading"
  /\ ~open[s] \/ owner[s] \in Garbler
  /\ reader' = [reader EXCEPT ![s] = "ended"]
  /\ Enqueue([type |-> "Disconnected", peer |-> owner[s]])
  /\ UNCHANGED <<table, dialing, owner, open, writer, out, wire, answers, stream>>

\* Mutant: the writer returns on the first error.
WriteMessage_return(s) ==
  /\ writer[s] = "sending"
  /\ out[s] # <<>>
  /\ out' = [out EXCEPT ![s] = Tail(@)]
  /\ IF open[s]
     THEN /\ wire' = [wire EXCEPT ![s] = Append(@, Head(out[s]))]
          /\ result' = Answer(result, {Head(out[s])}, "ok")
          /\ UNCHANGED writer
     ELSE /\ result' = Answer(result, {Head(out[s])}, "err")
          /\ writer' = [writer EXCEPT ![s] = "ended"]
          /\ UNCHANGED wire
  /\ UNCHANGED <<queue, table, dialing, owner, open, reader, reply, stream>>

\* Mutant: a message that failed is reported, then kept for the next connection.
WriteMessage_retry(s) ==
  /\ writer[s] = "sending"
  /\ out[s] # <<>>
  /\ out' = [out EXCEPT ![s] = Tail(@)]
  /\ IF open[s]
     THEN /\ wire' = [wire EXCEPT ![s] = Append(@, Head(out[s]))]
          /\ result' = Answer(result, {Head(out[s])}, "ok")
          /\ UNCHANGED pending_messages
     ELSE /\ result' = Answer(result, {Head(out[s])}, "err")
          /\ pending_messages' = [pending_messages EXCEPT ![owner[s]] = Append(@, Head(out[s]))]
          /\ UNCHANGED wire
  /\ UNCHANGED <<queue, state, notify_on_connect, outgoing, dialing, owner, open,
                 reader, writer, reply, stream>>

\* A broken socket reports an error, or still takes bytes that go nowhere.
WriteMessage(s) ==
  /\ writer[s] = "sending"
  /\ out[s] # <<>>
  /\ out' = [out EXCEPT ![s] = Tail(@)]
  /\ \/ /\ open[s]
        /\ wire' = [wire EXCEPT ![s] = Append(@, Head(out[s]))]
        /\ result' = Answer(result, {Head(out[s])}, "ok")
     \/ /\ ~open[s]
        /\ \E v \in {"ok", "err"} : result' = Answer(result, {Head(out[s])}, v)
        /\ UNCHANGED wire
  /\ UNCHANGED <<queue, table, dialing, owner, open, reader, writer, reply, stream>>

\* Mutant: the writer stops with its sender, whatever is left to write.
WriterEnds_early(s) ==
  /\ writer[s] = "sending"
  /\ outgoing[owner[s]] # s
  /\ writer' = [writer EXCEPT ![s] = "ended"]
  /\ UNCHANGED <<queue, table, dialing, owner, open, reader, out, wire, answers, stream>>

\* The queue is empty and the last sender, the one in the table, is gone.
WriterEnds(s) ==
  /\ writer[s] = "sending"
  /\ out[s] = <<>>
  /\ outgoing[owner[s]] # s
  /\ writer' = [writer EXCEPT ![s] = "ended"]
  /\ UNCHANGED <<queue, table, dialing, owner, open, reader, out, wire, answers, stream>>

Next ==
  \/ \E r \in Connect, p \in Peer : RequestConnect(r, p)
  \/ \E m \in Message, p \in Peer : send_message(m, p)
  \/ handle_event
  \/ \E p \in Peer : DialSucceeds(p) \/ DialFails(p) \/ Accept(p)
  \/ \E s \in Socket : \/ Break(s) \/ ReadMessage(s) \/ ReadEnds(s)
                       \/ WriteMessage(s) \/ WriterEnds(s)

Spec == Init /\ [][Next]_vars

\* The scheduler runs the loop and every task that can run; a dial ends (the
\* kernel times it out), a broken transport is noticed by its reader, and a peer
\* keeps taking bytes from its sockets.  Nobody has to call, dial in or break.
Fairness ==
  /\ WF_vars(handle_event)
  /\ \A p \in Peer : WF_vars(DialSucceeds(p) \/ DialFails(p))
  /\ \A s \in Socket : WF_vars(ReadEnds(s) /\ ~open[s]) /\ WF_vars(WriteMessage(s))

FairSpec == Spec /\ Fairness

-----------------------------------------------------------------------------
(* Properties *)

Queued(type, p) == \E i \in DOMAIN queue : queue[i].type = type /\ queue[i].peer = p

\* outgoing_queue.unbounded_send(..).unwrap() in the SendMessageReq arm: the
\* writer of the socket in a Connected entry is alive, so the loop cannot panic.
SendNeverPanics ==
  \A p \in Peer : state[p] = "connected" => writer[outgoing[p]] = "sending"

\* A Connected entry whose reader is gone is on its way out: the event that
\* removes it is in the queue, however often the entry was replaced meanwhile.
NoZombieEntry ==
  \A p \in Peer :
    state[p] = "connected" /\ reader[outgoing[p]] = "ended" => Queued("Disconnected", p)

\* A Connecting entry always has an attempt behind it whose outcome is still to
\* come: what waits in the entry cannot be stranded by events of older dials.
ConnectingHasAttempt ==
  \A p \in Peer :
    state[p] = "connecting" =>
      dialing[p] > 0 \/ Queued("ConnectionEstablished", p) \/ Queued("ConnectionFailed", p)

\* A message is with an event in the queue, a Connecting entry, or a writer that runs.
SendHeld(m) ==
  \/ \E e \in ToSet(queue) : e.type = "SendMessageReq" /\ e.message = m
  \/ \E p \in Peer : state[p] = "connecting" /\ m \in ToSet(pending_messages[p])
  \/ \E s \in Socket : writer[s] = "sending" /\ m \in ToSet(out[s])

ConnectHeld(r) ==
  \/ \E e \in ToSet(queue) : e.type = "OutgoingConnectionReq" /\ e.notify = r
  \/ \E p \in Peer : state[p] = "connecting" /\ r \in ToSet(notify_on_connect[p])

\* Whoever waits on a notifier is held by something that answers it: no arm of the
\* loop and no task loses a request.
NoRequestForgotten ==
  /\ \A m \in Message : result[m] = "waiting" => SendHeld(m)
  /\ \A r \in Connect : reply[r] = "waiting" => ConnectHeld(r)

\* receiver.await.expect("sender can't be dropped") in Event::send_message: the
\* notifier of a send request is used, never dropped.
SenderNeverDropped == \A m \in Message : result[m] # "dropped"

\* Whatever replaces what, each connection carries its messages in the order in
\* which they were requested.
InOrderOnSocket ==
  \A s \in Socket : \A i, j \in DOMAIN wire[s] : i < j => wire[s][i] < wire[s][j]

\* The messages for a peer are written in the order in which they were requested,
\* across disconnections and reconnections.
WrittenInOrder ==
  \A s, t \in Socket : \A i \in DOMAIN wire[s], j \in DOMAIN wire[t] :
    /\ owner[s] = owner[t]
    /\ s < t \/ (s = t /\ i < j)
    => wire[s][i] < wire[t][j]

\* A message is written at most once, over whichever connections, and never after
\* its sender was told that sending failed: the loop keeps the promise of Delivery.
Places(m) ==
  UNION {{<<s, i>> : i \in {j \in DOMAIN wire[s] : wire[s][j] = m}} : s \in Socket}

Abstract == INSTANCE Delivery WITH
  copies <- [m \in Message |-> Places(m)]

ImplementsDelivery == Abstract!Spec

\* No event removes or replaces the entry of a connection that still works.
LiveConnectionKept ==
  [][\A p \in Peer : state[p] = "connected" /\ open[outgoing[p]]
                       => outgoing'[p] = outgoing[p]]_vars

\* Whoever waits on a notifier is woken: no send or connect request hangs.
EveryRequestAnswered ==
  /\ \A m \in Message : result[m] = "waiting" ~> result[m] \in Outcome
  /\ \A r \in Connect : reply[r] = "waiting" ~> reply[r] \in Outcome

\* A broken connection does not stay the one that messages are sent on.
BrokenIsForgotten ==
  \A p \in Peer, s \in Socket :
    outgoing[p] = s /\ ~open[s] ~> outgoing[p] # s
=============================================================================
