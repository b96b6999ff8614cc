------------------------- MODULE EventHandlerProofs -------------------------
(***************************************************************************)
(* Proofs about the event loop, for every set of peers and every bound,    *)
(* whoever dials, breaks and garbles.                                      *)
(*                                                                         *)
(*   Typed      the type invariant, and who owns which socket              *)
(*   EntryInv   what the table's entries promise                           *)
(*   OrderInv   where a message is, and before which others                *)
(*                                                                         *)
(* OrderInv gives the order on every socket and the promise of             *)
(* Delivery.tla.  Requests are numbered in the order in which they enter   *)
(* the queue; those in the queue are in order, and behind all that were    *)
(* taken out of it (QueueInv).  A message that was taken waits in one      *)
(* entry or with one writer (HeldInv) or has been written and answered     *)
(* (WireInv); the queue of a writer is in order and behind what the writer *)
(* has written.  An entry's messages go to a writer that has just started  *)
(* (SocketInv).                                                            *)
(*                                                                         *)
(* What holds only when peers never dial in is in EventHandlerDialProofs.  *)
(***************************************************************************)
EXTENDS EventHandler, TLAPS

(* Lemmas about the queue and the notifiers *)

\* Answering requests keeps the type of the table of answers.
LEMMA AnswerType ==
  ASSUME NEW R, NEW V, NEW f \in [R -> V], NEW s, NEW v \in V
  PROVE  Answer(f, s, v) \in [R -> V]
BY DEF Answer

\* Appending to one of a family of sequences keeps the type of the family.
LEMMA AppendType ==
  ASSUME NEW S, NEW T, NEW f \in [S -> Seq(T)], NEW x, NEW y \in T
  PROVE  [f EXCEPT ![x] = Append(@, y)] \in [S -> Seq(T)]
<1>1. ASSUME NEW z \in S PROVE Append(f[z], y) \in Seq(T)
  <2> f[z] \in Seq(T)
    OBVIOUS
  <2> QED
    OBVIOUS
<1> QED
  BY <1>1

\* Adding an event to a queue adds it to the set of queued events.
LEMMA AppendKeeps ==
  ASSUME NEW q \in Seq(Event), NEW e \in Event
  PROVE  /\ Append(q, e) \in Seq(Event)
         /\ ToSet(Append(q, e)) = ToSet(q) \cup {e}
<1>1. /\ Append(q, e) \in Seq(Event)
      /\ DOMAIN Append(q, e) = DOMAIN q \cup {Len(q) + 1}
      /\ \A i \in DOMAIN q : Append(q, e)[i] = q[i]
      /\ Append(q, e)[Len(q) + 1] = e
  OBVIOUS
<1> QED
  BY <1>1, Zenon DEF ToSet

\* A queue holds its first event and those that are left when it is taken.
LEMMA TailKeeps ==
  ASSUME NEW q \in Seq(Event), q # <<>>
  PROVE  /\ Tail(q) \in Seq(Event)
         /\ Head(q) \in Event
         /\ ToSet(q) = {Head(q)} \cup ToSet(Tail(q))
<1>1. /\ Tail(q) \in Seq(Event)
      /\ Head(q) \in Event
      /\ 1 \in DOMAIN q /\ Head(q) = q[1]
      /\ \A i \in DOMAIN Tail(q) : i + 1 \in DOMAIN q /\ Tail(q)[i] = q[i + 1]
      /\ \A i \in DOMAIN q : i = 1 \/ (i - 1 \in DOMAIN Tail(q) /\ Tail(q)[i - 1] = q[i])
  OBVIOUS
<1>2. ASSUME NEW e \in ToSet(q) PROVE e = Head(q) \/ e \in ToSet(Tail(q))
  <2>1. PICK i \in DOMAIN q : e = q[i]
    BY DEF ToSet
  <2>2. CASE i = 1
    BY <1>1, <2>1, <2>2
  <2>3. CASE i # 1
    BY <1>1, <2>1, <2>3 DEF ToSet
  <2> QED
    BY <2>2, <2>3
<1>3. ASSUME NEW e \in ToSet(Tail(q)) PROVE e \in ToSet(q)
  <2>1. PICK i \in DOMAIN Tail(q) : e = Tail(q)[i]
    BY DEF ToSet
  <2> QED
    BY <1>1, <2>1, Zenon DEF ToSet
<1>4. Head(q) \in ToSet(q)
  BY <1>1, Zenon DEF ToSet
<1> QED
  BY <1>1, <1>2, <1>3, <1>4

\* The fields of an event, by its type.
LEMMA EventFields ==
  ASSUME NEW e \in Event
  PROVE  /\ e.peer \in Peer
         /\ e.type = "OutgoingConnectionReq" => e.notify \in Connect
         /\ e.type = "SendMessageReq" => e.message \in Message
         /\ e.type = "NewIncomingMessage" => e.message \in Incoming
         /\ e.type = "ConnectionEstablished" => e.socket \in Socket
BY DEF Event

\* Each event that is put on the queue has the type of an event.
LEMMA EventTypes ==
  ASSUME NEW p \in Peer
  PROVE  /\ \A r \in Connect : [type |-> "OutgoingConnectionReq", peer |-> p, notify |-> r] \in Event
         /\ \A m \in Message : [type |-> "SendMessageReq", peer |-> p, message |-> m] \in Event
         /\ \A m \in Incoming : [type |-> "NewIncomingMessage", peer |-> p, message |-> m] \in Event
         /\ \A s \in Socket : [type |-> "ConnectionEstablished", peer |-> p, socket |-> s] \in Event
         /\ [type |-> "ConnectionFailed", peer |-> p] \in Event
         /\ [type |-> "Disconnected", peer |-> p] \in Event
BY DEF Event

-----------------------------------------------------------------------------
(* Types *)

\* A socket named by an event or held by a reader belongs to a peer.
SocketsOwned ==
  /\ \A e \in ToSet(queue) : e.type = "ConnectionEstablished" => owner[e.socket] = e.peer
  /\ \A s \in Socket : reader[s] # "none" => owner[s] \in Peer

Typed == TypeOK /\ SocketsOwned

\* Initially the table is empty and no task runs.
LEMMA InitTyped == Init => Typed
BY ConstantsAssumption DEF Init, Typed, TypeOK, SocketsOwned, Event, Outcome, ToSet

\* Taking an entry out of the table keeps the types.
LEMMA RemoveEntryType ==
  ASSUME TypeOK, NEW p \in Peer, NEW v \in Outcome, RemoveEntry(p, v)
  PROVE  /\ state' \in [Peer -> {"absent", "connecting", "connected"}]
         /\ notify_on_connect' \in [Peer -> Seq(Connect)]
         /\ pending_messages' \in [Peer -> Seq(Message)]
         /\ outgoing' \in [Peer -> Socket \cup {None}]
         /\ result' \in [Message -> {"idle", "waiting"} \cup Outcome]
         /\ reply' \in [Connect -> {"idle", "waiting"} \cup Outcome]
<1>1. state' \in [Peer -> {"absent", "connecting", "connected"}]
  BY DEF TypeOK, RemoveEntry
<1>2. notify_on_connect' \in [Peer -> Seq(Connect)] /\ pending_messages' \in [Peer -> Seq(Message)]
  BY DEF TypeOK, RemoveEntry
<1>3. outgoing' \in [Peer -> Socket \cup {None}]
  BY DEF TypeOK, RemoveEntry
<1>4. result' \in [Message -> {"idle", "waiting"} \cup Outcome]
  <2>1. v \in {"idle", "waiting"} \cup Outcome
    OBVIOUS
  <2> QED
    BY <2>1, AnswerType DEF TypeOK, RemoveEntry
<1>5. reply' \in [Connect -> {"idle", "waiting"} \cup Outcome]
  <2>1. v \in {"idle", "waiting"} \cup Outcome
    OBVIOUS
  <2> QED
    BY <2>1, AnswerType DEF TypeOK, RemoveEntry
<1> QED
  BY <1>1, <1>2, <1>3, <1>4, <1>5

\* A request enters the table as an entry with a dial, or finds one.
LEMMA MaybeConnectType ==
  ASSUME TypeOK, NEW p \in Peer, maybe_connect(p)
  PROVE  /\ state' \in [Peer -> {"absent", "connecting", "connected"}]
         /\ dialing' \in [Peer -> Nat]
<1>1. CASE state[p] = "absent"
  <2>1. state' = [state EXCEPT ![p] = "connecting"] /\ dialing' = [dialing EXCEPT ![p] = @ + 1]
    BY <1>1 DEF maybe_connect
  <2> QED
    BY <2>1 DEF TypeOK
<1>2. CASE state[p] # "absent"
  BY <1>2 DEF TypeOK, maybe_connect
<1> QED
  BY <1>1, <1>2

\* A new connection and the event that carries it keep the types.
LEMMA EstablishType ==
  ASSUME TypeOK, NEW p \in Peer, Establish(p)
  PROVE  /\ queue' \in Seq(Event)
         /\ owner' \in [Socket -> Peer \cup {None}]
         /\ open' \in [Socket -> BOOLEAN]
<1>1. PICK s \in Socket :
        /\ owner' = [owner EXCEPT ![s] = p]
        /\ open' = [open EXCEPT ![s] = TRUE]
        /\ Enqueue([type |-> "ConnectionEstablished", peer |-> p, socket |-> s])
  BY DEF Establish
<1>2. queue' \in Seq(Event)
  BY <1>1, EventTypes, AppendKeeps DEF TypeOK, Enqueue
<1> QED
  BY <1>1, <1>2 DEF TypeOK

\* What the loop takes off the queue is an event, and what is left is a queue.
LEMMA TakeType ==
  ASSUME TypeOK, NEW type, Take(type)
  PROVE  queue' \in Seq(Event) /\ Head(queue) \in Event /\ Head(queue).type = type
BY TailKeeps DEF TypeOK, Take

\* Every step of a caller, the loop, a task, a peer or the network keeps the types.
LEMMA NextTypeOK == Typed /\ [Next]_vars => TypeOK'
<1> SUFFICES ASSUME TypeOK, SocketsOwned, [Next]_vars PROVE TypeOK'
  BY DEF Typed
<1> USE DEF table, sockets, answers, stream
<1>o. Outcome \subseteq {"idle", "waiting"} \cup Outcome
      /\ "ok" \in Outcome /\ "err" \in Outcome /\ "dropped" \in Outcome
  BY DEF Outcome
<1>q. \A e \in Event : Append(queue, e) \in Seq(Event)
  BY AppendKeeps DEF TypeOK
<1>1. ASSUME NEW r \in Connect, NEW p \in Peer, RequestConnect(r, p) PROVE TypeOK'
  <2>1. queue' \in Seq(Event)
    BY <1>1, <1>q, EventTypes DEF RequestConnect, Enqueue
  <2> QED
    BY <1>1, <2>1 DEF RequestConnect, TypeOK
<1>2. ASSUME NEW m \in Message, NEW p \in Peer, send_message(m, p) PROVE TypeOK'
  <2>1. queue' \in Seq(Event)
    BY <1>2, <1>q, EventTypes DEF send_message, Enqueue
  <2> QED
    BY <1>2, <2>1 DEF send_message, TypeOK
<1>3. CASE HandleOutgoingConnectionReq
  <2> DEFINE p == Head(queue).peer
             r == Head(queue).notify
  <2>1. queue' \in Seq(Event) /\ p \in Peer /\ r \in Connect
    BY <1>3, TakeType, EventFields DEF HandleOutgoingConnectionReq
  <2>2. state' \in [Peer -> {"absent", "connecting", "connected"}] /\ dialing' \in [Peer -> Nat]
    BY <1>3, <2>1, MaybeConnectType DEF HandleOutgoingConnectionReq
  <2>3. reply' \in [Connect -> {"idle", "waiting"} \cup Outcome]
    <3>1. reply' = Answer(reply, {r}, "dropped") \/ reply' = reply
      BY <1>3 DEF HandleOutgoingConnectionReq
    <3>2. Answer(reply, {r}, "dropped") \in [Connect -> {"idle", "waiting"} \cup Outcome]
      BY <1>o, AnswerType DEF TypeOK
    <3> QED
      BY <3>1, <3>2 DEF TypeOK
  <2>4. notify_on_connect' \in [Peer -> Seq(Connect)]
    <3>1. \/ notify_on_connect' = [notify_on_connect EXCEPT ![p] = Append(@, r)]
          \/ notify_on_connect' = notify_on_connect
      BY <1>3 DEF HandleOutgoingConnectionReq
    <3>2. notify_on_connect \in [Peer -> Seq(Connect)]
      BY DEF TypeOK
    <3>3. [notify_on_connect EXCEPT ![p] = Append(@, r)] \in [Peer -> Seq(Connect)]
      BY <2>1, <3>2, AppendType
    <3> QED
      BY <3>1, <3>2, <3>3
  <2> QED
    BY <1>3, <2>1, <2>2, <2>3, <2>4 DEF HandleOutgoingConnectionReq, TypeOK
<1>4. CASE HandleSendMessageReq
  <2> DEFINE p == Head(queue).peer
             m == Head(queue).message
  <2>1. queue' \in Seq(Event) /\ p \in Peer /\ m \in Message
    BY <1>4, TakeType, EventFields DEF HandleSendMessageReq
  <2>2. state' \in [Peer -> {"absent", "connecting", "connected"}] /\ dialing' \in [Peer -> Nat]
    BY <1>4, <2>1, MaybeConnectType DEF HandleSendMessageReq
  <2>3. out' \in [Socket -> Seq(Message)] /\ pending_messages' \in [Peer -> Seq(Message)]
    <3>1. \/ /\ out' = [out EXCEPT ![outgoing[p]] = Append(@, m)]
             /\ pending_messages' = pending_messages
          \/ /\ pending_messages' = [pending_messages EXCEPT ![p] = Append(@, m)]
             /\ out' = out
      BY <1>4 DEF HandleSendMessageReq
    <3>2. out \in [Socket -> Seq(Message)] /\ pending_messages \in [Peer -> Seq(Message)]
      BY DEF TypeOK
    <3>3. \A s : [out EXCEPT ![s] = Append(@, m)] \in [Socket -> Seq(Message)]
      BY <2>1, <3>2, AppendType
    <3>4. out' = [out EXCEPT ![outgoing[p]] = Append(@, m)] => out' \in [Socket -> Seq(Message)]
      BY <3>3
    <3>5. [pending_messages EXCEPT ![p] = Append(@, m)] \in [Peer -> Seq(Message)]
      BY <2>1, <3>2, AppendType
    <3> QED
      BY <3>1, <3>2, <3>4, <3>5
  <2> QED
    BY <1>4, <2>1, <2>2, <2>3 DEF HandleSendMessageReq, TypeOK
<1>5. CASE HandleNewIncomingMessage
  <2>1. queue' \in Seq(Event) /\ Head(queue).peer \in Peer /\ Head(queue).message \in Incoming
    BY <1>5, TakeType, EventFields DEF HandleNewIncomingMessage
  <2>2. inbox' \in Seq([peer : Peer, message : Incoming])
    BY <1>5, <2>1 DEF HandleNewIncomingMessage, TypeOK
  <2> QED
    BY <1>5, <2>1, <2>2 DEF HandleNewIncomingMessage, TypeOK
<1>6. CASE HandleDisconnected
  <2>1. queue' \in Seq(Event) /\ Head(queue).peer \in Peer
    BY <1>6, TakeType, EventFields DEF HandleDisconnected
  <2> QED
    BY <1>6, <1>o, <2>1, RemoveEntryType DEF HandleDisconnected, TypeOK
<1>7. CASE HandleConnectionEstablished
  <2> DEFINE p == Head(queue).peer
             s == Head(queue).socket
  <2>1. queue' \in Seq(Event) /\ p \in Peer /\ s \in Socket
    BY <1>7, TakeType, EventFields DEF HandleConnectionEstablished
  <2>2. reply' \in [Connect -> {"idle", "waiting"} \cup Outcome]
    BY <1>7, <1>o, AnswerType DEF HandleConnectionEstablished, TypeOK
  <2>3. /\ notify_on_connect' \in [Peer -> Seq(Connect)]
        /\ pending_messages' \in [Peer -> Seq(Message)]
        /\ out' \in [Socket -> Seq(Message)]
    BY <1>7, <2>1 DEF HandleConnectionEstablished, TypeOK
  <2>4. /\ state' \in [Peer -> {"absent", "connecting", "connected"}]
        /\ outgoing' \in [Peer -> Socket \cup {None}]
        /\ writer' \in [Socket -> {"none", "sending", "ended"}]
        /\ reader' \in [Socket -> {"none", "reading", "ended"}]
    BY <1>7, <2>1 DEF HandleConnectionEstablished, TypeOK
  <2> QED
    BY <1>7, <2>1, <2>2, <2>3, <2>4 DEF HandleConnectionEstablished, TypeOK
<1>8. CASE HandleConnectionFailed
  <2>1. queue' \in Seq(Event) /\ Head(queue).peer \in Peer
    BY <1>8, TakeType, EventFields DEF HandleConnectionFailed
  <2> QED
    BY <1>8, <1>o, <2>1, RemoveEntryType DEF HandleConnectionFailed, TypeOK
<1>9. ASSUME NEW p \in Peer, DialSucceeds(p) PROVE TypeOK'
  <2>1. dialing' \in [Peer -> Nat]
    BY <1>9 DEF DialSucceeds, TypeOK
  <2>2. UNCHANGED <<table, reader, writer, out, wire, answers, stream>>
    BY <1>9 DEF DialSucceeds, Establish
  <2> QED
    BY <1>9, <2>1, <2>2, EstablishType DEF DialSucceeds, TypeOK
<1>10. ASSUME NEW p \in Peer, DialFails(p) PROVE TypeOK'
  <2>1. queue' \in Seq(Event)
    BY <1>10, <1>q, EventTypes DEF DialFails, Enqueue
  <2>2. dialing' \in [Peer -> Nat]
    BY <1>10 DEF DialFails, TypeOK
  <2> QED
    BY <1>10, <2>1, <2>2 DEF DialFails, TypeOK
<1>11. ASSUME NEW p \in Peer, Accept(p) PROVE TypeOK'
  <2>1. UNCHANGED <<table, reader, writer, out, wire, answers, stream>>
    BY <1>11 DEF Accept, Establish
  <2> QED
    BY <1>11, <2>1, EstablishType DEF Accept, TypeOK
<1>12. ASSUME NEW s \in Socket, Break(s) PROVE TypeOK'
  BY <1>12 DEF Break, TypeOK
<1>13. ASSUME NEW s \in Socket, ReadMessage(s) PROVE TypeOK'
  <2>1. owner[s] \in Peer /\ arrived + 1 \in Incoming
    BY <1>13, ConstantsAssumption DEF ReadMessage, SocketsOwned, Incoming, TypeOK
  <2>2. queue' \in Seq(Event)
    BY <1>13, <1>q, <2>1, EventTypes DEF ReadMessage, Enqueue
  <2>3. arrived' \in 0 .. MaxIncoming
    BY <1>13, ConstantsAssumption DEF ReadMessage, TypeOK
  <2> QED
    BY <1>13, <2>2, <2>3 DEF ReadMessage, TypeOK
<1>14. ASSUME NEW s \in Socket, ReadEnds(s) PROVE TypeOK'
  <2>1. owner[s] \in Peer
    BY <1>14 DEF ReadEnds, SocketsOwned
  <2>2. queue' \in Seq(Event)
    BY <1>14, <1>q, <2>1, EventTypes DEF ReadEnds, Enqueue
  <2> QED
    BY <1>14, <2>2 DEF ReadEnds, TypeOK
<1>15. ASSUME NEW s \in Socket, WriteMessage(s) PROVE TypeOK'
  <2>1. result' \in [Message -> {"idle", "waiting"} \cup Outcome]
    <3>1. PICK v \in {"ok", "err"} : result' = Answer(result, {Head(out[s])}, v)
      BY <1>15 DEF WriteMessage
    <3>2. v \in {"idle", "waiting"} \cup Outcome
      BY <1>o
    <3> QED
      BY <3>1, <3>2, AnswerType DEF TypeOK
  <2>2. out' \in [Socket -> Seq(Message)] /\ wire' \in [Socket -> Seq(Message)]
    <3>1. Head(out[s]) \in Message /\ Tail(out[s]) \in Seq(Message)
      BY <1>15 DEF WriteMessage, TypeOK
    <3>2. out' \in [Socket -> Seq(Message)]
      BY <1>15, <3>1 DEF WriteMessage, TypeOK
    <3>3. \/ wire' = [wire EXCEPT ![s] = Append(@, Head(out[s]))]
          \/ wire' = wire
      BY <1>15 DEF WriteMessage
    <3>4. wire \in [Socket -> Seq(Message)]
      BY DEF TypeOK
    <3>5. [wire EXCEPT ![s] = Append(@, Head(out[s]))] \in [Socket -> Seq(Message)]
      BY <3>1, <3>4, AppendType
    <3> QED
      BY <3>2, <3>3, <3>4, <3>5
  <2> QED
    BY <1>15, <2>1, <2>2 DEF WriteMessage, TypeOK
<1>16. ASSUME NEW s \in Socket, WriterEnds(s) PROVE TypeOK'
  BY <1>16 DEF WriterEnds, TypeOK
<1>17. CASE UNCHANGED vars
  BY <1>17 DEF vars, TypeOK
<1> QED
  BY <1>1, <1>2, <1>3, <1>4, <1>5, <1>6, <1>7, <1>8, <1>9, <1>10, <1>11, <1>12,
     <1>13, <1>14, <1>15, <1>16, <1>17 DEF Next, handle_event

\* A socket that has an owner keeps it.
LEMMA OwnerKept ==
  ASSUME TypeOK, [Next]_vars, NEW s \in Socket, owner[s] # None
  PROVE  owner'[s] = owner[s]
<1> USE DEF sockets, vars
<1>1. ASSUME NEW p \in Peer, Establish(p) PROVE owner'[s] = owner[s]
  BY <1>1 DEF Establish, Fresh, TypeOK
<1> QED
  BY <1>1 DEF Next, handle_event, RequestConnect, send_message, HandleOutgoingConnectionReq,
     HandleSendMessageReq, HandleNewIncomingMessage, HandleDisconnected,
     HandleConnectionEstablished, HandleConnectionFailed, DialSucceeds, DialFails, Accept,
     Break, ReadMessage, ReadEnds, WriteMessage, WriterEnds

\* Tasks are started only for connections that were established, so a socket that is
\* fed, read or carried by an event has a peer at its other end.
LEMMA NextSocketsOwned == Typed /\ [Next]_vars => SocketsOwned'
<1> SUFFICES ASSUME TypeOK, SocketsOwned, [Next]_vars PROVE SocketsOwned'
  BY DEF Typed
<1> USE DEF sockets
<1>q. ToSet(queue) \subseteq Event
  BY DEF TypeOK, ToSet
<1>r. ASSUME NEW s \in Socket, reader'[s] = reader[s], reader'[s] # "none" PROVE owner'[s] \in Peer
  BY <1>r, OwnerKept, ConstantsAssumption DEF SocketsOwned
<1>e. ASSUME NEW e \in ToSet(queue), e.type = "ConnectionEstablished" PROVE owner'[e.socket] = e.peer
  BY <1>e, <1>q, OwnerKept, EventFields, ConstantsAssumption DEF SocketsOwned
<1>a. ASSUME NEW e \in Event, e.type # "ConnectionEstablished", queue' = Append(queue, e), reader' = reader
      PROVE  SocketsOwned'
  BY <1>a, <1>r, <1>e, AppendKeeps DEF SocketsOwned, TypeOK
<1>t. ASSUME queue # <<>>, queue' = Tail(queue), reader' = reader
      PROVE  SocketsOwned'
  BY <1>t, <1>r, <1>e, TailKeeps DEF SocketsOwned, TypeOK
<1>u. ASSUME queue' = queue, reader' = reader PROVE SocketsOwned'
  BY <1>u, <1>r, <1>e DEF SocketsOwned
<1>f. ASSUME NEW p \in Peer, Establish(p) PROVE SocketsOwned'
  <2>1. PICK s \in Socket :
          /\ owner' = [owner EXCEPT ![s] = p]
          /\ Enqueue([type |-> "ConnectionEstablished", peer |-> p, socket |-> s])
          /\ reader' = reader
    BY <1>f DEF Establish
  <2> DEFINE e == [type |-> "ConnectionEstablished", peer |-> p, socket |-> s]
  <2>2. e \in Event /\ owner'[e.socket] = e.peer
    BY <2>1, EventTypes DEF TypeOK
  <2>3. ToSet(queue') = ToSet(queue) \cup {e}
    BY <2>1, <2>2, AppendKeeps DEF Enqueue, TypeOK
  <2> HIDE DEF e
  <2> QED
    BY <2>1, <2>2, <2>3, <1>r, <1>e DEF SocketsOwned
<1>1. ASSUME NEW r \in Connect, NEW p \in Peer, RequestConnect(r, p) PROVE SocketsOwned'
  BY <1>1, <1>a, EventTypes DEF RequestConnect, Enqueue
<1>2. ASSUME NEW m \in Message, NEW p \in Peer, send_message(m, p) PROVE SocketsOwned'
  BY <1>2, <1>a, EventTypes DEF send_message, Enqueue
<1>3. CASE HandleOutgoingConnectionReq
  BY <1>3, <1>t DEF HandleOutgoingConnectionReq, Take
<1>4. CASE HandleSendMessageReq
  BY <1>4, <1>t DEF HandleSendMessageReq, Take
<1>5. CASE HandleNewIncomingMessage
  BY <1>5, <1>t DEF HandleNewIncomingMessage, Take
<1>6. CASE HandleDisconnected
  BY <1>6, <1>t DEF HandleDisconnected, Take
<1>7. CASE HandleConnectionEstablished
  <2> DEFINE e == Head(queue)
  <2>1. e \in ToSet(queue) /\ e \in Event /\ ToSet(queue') \subseteq ToSet(queue)
    BY <1>7, TailKeeps DEF HandleConnectionEstablished, Take, TypeOK
  <2>2. e.type = "ConnectionEstablished" /\ reader' = [reader EXCEPT ![e.socket] = "reading"]
    BY <1>7 DEF HandleConnectionEstablished, Take
  <2>3. owner'[e.socket] \in Peer
    BY <2>1, <2>2, <1>e, EventFields
  <2>4. ASSUME NEW s \in Socket, reader'[s] # "none" PROVE owner'[s] \in Peer
    BY <2>2, <2>3, <2>4, <1>r DEF TypeOK
  <2> QED
    BY <2>1, <2>4, <1>e DEF SocketsOwned
<1>8. CASE HandleConnectionFailed
  BY <1>8, <1>t DEF HandleConnectionFailed, Take
<1>9. ASSUME NEW p \in Peer, DialSucceeds(p) \/ Accept(p) PROVE SocketsOwned'
  BY <1>9, <1>f DEF DialSucceeds, Accept
<1>10. ASSUME NEW p \in Peer, DialFails(p) PROVE SocketsOwned'
  BY <1>10, <1>a, EventTypes DEF DialFails, Enqueue
<1>11. ASSUME NEW s \in Socket, Break(s) \/ WriteMessage(s) \/ WriterEnds(s) PROVE SocketsOwned'
  BY <1>11, <1>u DEF Break, WriteMessage, WriterEnds
<1>12. ASSUME NEW s \in Socket, ReadMessage(s) PROVE SocketsOwned'
  <2>1. owner[s] \in Peer /\ arrived + 1 \in Incoming
    BY <1>12, ConstantsAssumption DEF ReadMessage, SocketsOwned, Incoming, TypeOK
  <2> QED
    BY <1>12, <1>a, <2>1, EventTypes DEF ReadMessage, Enqueue
<1>13. ASSUME NEW s \in Socket, ReadEnds(s) PROVE SocketsOwned'
  <2> DEFINE e == [type |-> "Disconnected", peer |-> owner[s]]
  <2>1. owner[s] \in Peer /\ owner' = owner
    BY <1>13 DEF ReadEnds, SocketsOwned
  <2>2. e \in Event /\ e.type # "ConnectionEstablished"
    BY <2>1, EventTypes
  <2>3. ToSet(queue') = ToSet(queue) \cup {e}
    BY <1>13, <2>2, AppendKeeps DEF ReadEnds, Enqueue, TypeOK
  <2>4. \A t \in Socket : reader'[t] # "none" => reader[t] # "none"
    BY <1>13 DEF ReadEnds, TypeOK
  <2> HIDE DEF e
  <2> QED
    BY <2>1, <2>2, <2>3, <2>4, <1>e DEF SocketsOwned
<1>14. CASE UNCHANGED vars
  BY <1>14, <1>u DEF vars
<1> QED
  BY <1>1, <1>2, <1>3, <1>4, <1>5, <1>6, <1>7, <1>8, <1>9, <1>10, <1>11, <1>12,
     <1>13, <1>14 DEF Next, handle_event

\* Every variable keeps its type, and every reader belongs to a peer, whatever
\* the callers, the tasks, the peers and the network do.
THEOREM TypeInvariant == Spec => []Typed
<1>1. Typed /\ [Next]_vars => Typed'
  BY NextTypeOK, NextSocketsOwned DEF Typed
<1> QED
  BY InitTyped, <1>1, PTL DEF Spec

\* The type invariant that the runs check, of event.rs's table, tasks and sockets.
THEOREM TypeCorrect == Spec => []TypeOK
<1>1. Typed => TypeOK
  BY DEF Typed
<1> QED
  BY TypeInvariant, <1>1, PTL

-----------------------------------------------------------------------------
(* What the entries of the table promise *)

\* The writer of a Connected entry's socket runs, and its reader runs or has put
\* the event on the queue that will remove the entry.
ConnectedOK(p) ==
  state[p] = "connected" =>
    /\ outgoing[p] \in Socket
    /\ owner[outgoing[p]] = p
    /\ writer[outgoing[p]] = "sending"
    /\ reader[outgoing[p]] # "none"
    /\ reader[outgoing[p]] = "ended" => Queued("Disconnected", p)

\* An attempt to connect runs behind a Connecting entry, or its outcome is queued.
ConnectingOK(p) ==
  state[p] = "connecting" =>
    dialing[p] > 0 \/ Queued("ConnectionEstablished", p) \/ Queued("ConnectionFailed", p)

EntryInv == \A p \in Peer : ConnectedOK(p) /\ ConnectingOK(p)

\* Queued asks for a member of the set of queued events.
LEMMA QueuedSet ==
  \A type, p : /\ Queued(type, p) <=> \E e \in ToSet(queue) : e.type = type /\ e.peer = p
               /\ Queued(type, p)' <=> \E e \in ToSet(queue') : e.type = type /\ e.peer = p
BY DEF Queued, ToSet

\* Adding an event to the queue.
LEMMA QueuedAppend ==
  ASSUME TypeOK, NEW e \in Event, queue' = Append(queue, e)
  PROVE  \A type, p : /\ Queued(type, p) => Queued(type, p)'
                      /\ e.type = type /\ e.peer = p => Queued(type, p)'
<1>1. ToSet(queue') = ToSet(queue) \cup {e}
  BY AppendKeeps DEF TypeOK
<1> QED
  BY <1>1, QueuedSet

\* Taking an event off the queue leaves the others there.
LEMMA QueuedTake ==
  ASSUME TypeOK, NEW t, Take(t)
  PROVE  \A type, p : Queued(type, p) =>
           Queued(type, p)' \/ (type = t /\ Head(queue).peer = p)
<1>1. ToSet(queue) = {Head(queue)} \cup ToSet(queue')
  BY TailKeeps DEF TypeOK, Take
<1>2. Head(queue).type = t
  BY DEF Take
<1> QED
  BY <1>1, <1>2, QueuedSet

\* Initially no peer has an entry.
LEMMA InitEntryInv == Init => EntryInv
BY DEF Init, EntryInv, ConnectedOK, ConnectingOK

\* Each arm of handle_event and each task leaves every entry with what it needs: a
\* Connected one its writer, and its reader or the event of its end; a Connecting one
\* an attempt.  One step per action, and under it one per kind of entry.
LEMMA NextEntryInv == Typed /\ EntryInv /\ [Next]_vars => EntryInv'
<1> SUFFICES ASSUME TypeOK, SocketsOwned, EntryInv, [Next]_vars, NEW p \in Peer
             PROVE  ConnectedOK(p)' /\ ConnectingOK(p)'
  BY DEF Typed, EntryInv
<1> USE DEF table, sockets
<1>h. ConnectedOK(p) /\ ConnectingOK(p)
  BY DEF EntryInv
<1>o. state[p] = "connected" => owner'[outgoing[p]] = p
  BY <1>h, OwnerKept, ConstantsAssumption DEF ConnectedOK
<1>a. ASSUME NEW e \in Event, queue' = Append(queue, e),
             UNCHANGED <<table, dialing, reader, writer>>
      PROVE  ConnectedOK(p)' /\ ConnectingOK(p)'
  BY <1>a, <1>h, <1>o, QueuedAppend DEF ConnectedOK, ConnectingOK
<1>u. ASSUME UNCHANGED <<queue, table, dialing, reader, writer>>
      PROVE  ConnectedOK(p)' /\ ConnectingOK(p)'
  BY <1>u, <1>h, <1>o DEF ConnectedOK, ConnectingOK, Queued
<1>m. ASSUME NEW q \in Peer, maybe_connect(q)
      PROVE  /\ state'[p] = "connected" <=> state[p] = "connected"
             /\ dialing'[p] >= dialing[p]
             /\ state'[p] = "connecting" => state[p] = "connecting" \/ dialing'[p] > 0
  BY <1>m DEF maybe_connect, TypeOK
<1>r. ASSUME NEW q \in Peer, NEW v, RemoveEntry(q, v)
      PROVE  /\ p # q => state'[p] = state[p] /\ outgoing'[p] = outgoing[p]
             /\ p = q => state'[p] = "absent"
  BY <1>r DEF RemoveEntry, TypeOK
<1>f. ASSUME NEW q \in Peer, Establish(q)
      PROVE  /\ \A type, r : Queued(type, r) => Queued(type, r)'
             /\ Queued("ConnectionEstablished", q)'
             /\ UNCHANGED <<table, reader, writer>>
  <2>1. PICK s \in Socket :
          /\ Enqueue([type |-> "ConnectionEstablished", peer |-> q, socket |-> s])
          /\ UNCHANGED <<table, reader, writer>>
    BY <1>f DEF Establish
  <2> QED
    BY <2>1, EventTypes, QueuedAppend DEF Enqueue
<1>1. ASSUME NEW r \in Connect, NEW q \in Peer, RequestConnect(r, q)
      PROVE  ConnectedOK(p)' /\ ConnectingOK(p)'
  BY <1>1, <1>a, EventTypes DEF RequestConnect, Enqueue
<1>2. ASSUME NEW m \in Message, NEW q \in Peer, send_message(m, q)
      PROVE  ConnectedOK(p)' /\ ConnectingOK(p)'
  BY <1>2, <1>a, EventTypes DEF send_message, Enqueue
<1>3. CASE HandleOutgoingConnectionReq
  <2>1. maybe_connect(Head(queue).peer) /\ Head(queue).peer \in Peer
    BY <1>3, TakeType, EventFields DEF HandleOutgoingConnectionReq
  <2>2. UNCHANGED <<outgoing, reader, writer>> /\ Take("OutgoingConnectionReq")
    BY <1>3 DEF HandleOutgoingConnectionReq
  <2>3. \A type \in {"ConnectionEstablished", "ConnectionFailed", "Disconnected"} :
          Queued(type, p) => Queued(type, p)'
    BY <2>2, QueuedTake
  <2>4. dialing[p] \in Nat /\ dialing'[p] \in Nat
    BY <2>1, MaybeConnectType DEF TypeOK
  <2>5. ConnectedOK(p)'
    BY <2>1, <2>2, <2>3, <1>m, <1>h, <1>o DEF ConnectedOK
  <2>6. ConnectingOK(p)'
    BY <2>1, <2>3, <2>4, <1>m, <1>h DEF ConnectingOK
  <2> QED
    BY <2>5, <2>6
<1>4. CASE HandleSendMessageReq
  <2>1. maybe_connect(Head(queue).peer) /\ Head(queue).peer \in Peer
    BY <1>4, TakeType, EventFields DEF HandleSendMessageReq
  <2>2. UNCHANGED <<outgoing, reader, writer>> /\ Take("SendMessageReq")
    BY <1>4 DEF HandleSendMessageReq
  <2>3. \A type \in {"ConnectionEstablished", "ConnectionFailed", "Disconnected"} :
          Queued(type, p) => Queued(type, p)'
    BY <2>2, QueuedTake
  <2>4. dialing[p] \in Nat /\ dialing'[p] \in Nat
    BY <2>1, MaybeConnectType DEF TypeOK
  <2>5. ConnectedOK(p)'
    BY <2>1, <2>2, <2>3, <1>m, <1>h, <1>o DEF ConnectedOK
  <2>6. ConnectingOK(p)'
    BY <2>1, <2>3, <2>4, <1>m, <1>h DEF ConnectingOK
  <2> QED
    BY <2>5, <2>6
<1>5. CASE HandleNewIncomingMessage
  <2>1. UNCHANGED <<table, dialing, sockets>> /\ Take("NewIncomingMessage")
    BY <1>5 DEF HandleNewIncomingMessage
  <2> QED
    BY <2>1, <1>h, QueuedTake DEF ConnectedOK, ConnectingOK
<1>6. CASE HandleDisconnected
  <2>1. /\ Take("Disconnected") /\ Head(queue).peer \in Peer
        /\ RemoveEntry(Head(queue).peer, "dropped")
        /\ UNCHANGED <<dialing, sockets>>
    BY <1>6, TakeType, EventFields DEF HandleDisconnected
  <2> QED
    BY <2>1, <1>r, <1>h, QueuedTake DEF ConnectedOK, ConnectingOK
<1>7. CASE HandleConnectionEstablished
  <2> DEFINE q == Head(queue).peer
             s == Head(queue).socket
  <2>1. /\ Take("ConnectionEstablished") /\ q \in Peer /\ s \in Socket
        /\ state' = [state EXCEPT ![q] = "connected"]
        /\ outgoing' = [outgoing EXCEPT ![q] = s]
        /\ writer' = [writer EXCEPT ![s] = "sending"]
        /\ reader' = [reader EXCEPT ![s] = "reading"]
        /\ UNCHANGED <<dialing, owner>>
    BY <1>7, TakeType, EventFields DEF HandleConnectionEstablished
  <2>2. owner[s] = q
    BY <2>1, TailKeeps DEF Take, TypeOK, SocketsOwned
  <2> HIDE DEF q, s
  <2>3. CASE p = q
    BY <2>1, <2>2, <2>3 DEF ConnectedOK, ConnectingOK, TypeOK
  <2>4. CASE p # q
    <3>1. \A type : Queued(type, p) => Queued(type, p)'
      BY <2>1, <2>4, QueuedTake DEF q
    <3> QED
      BY <2>1, <2>2, <2>4, <3>1, <1>h DEF ConnectedOK, ConnectingOK, TypeOK
  <2> QED
    BY <2>3, <2>4
<1>8. CASE HandleConnectionFailed
  <2>1. /\ Take("ConnectionFailed") /\ Head(queue).peer \in Peer
        /\ RemoveEntry(Head(queue).peer, "err")
        /\ UNCHANGED <<dialing, sockets>>
    BY <1>8, TakeType, EventFields DEF HandleConnectionFailed
  <2> QED
    BY <2>1, <1>r, <1>h, QueuedTake DEF ConnectedOK, ConnectingOK
<1>9. ASSUME NEW q \in Peer, DialSucceeds(q)
      PROVE  ConnectedOK(p)' /\ ConnectingOK(p)'
  <2>1. Establish(q) /\ dialing' = [dialing EXCEPT ![q] = @ - 1]
    BY <1>9 DEF DialSucceeds
  <2>2. ConnectedOK(p)'
    BY <2>1, <1>f, <1>h, <1>o DEF ConnectedOK
  <2>3. ConnectingOK(p)'
    BY <2>1, <1>f, <1>h DEF ConnectingOK, TypeOK
  <2> QED
    BY <2>2, <2>3
<1>10. ASSUME NEW q \in Peer, DialFails(q)
       PROVE  ConnectedOK(p)' /\ ConnectingOK(p)'
  <2> DEFINE e == [type |-> "ConnectionFailed", peer |-> q]
  <2>1. /\ UNCHANGED <<table, reader, writer>> /\ queue' = Append(queue, e)
        /\ dialing' = [dialing EXCEPT ![q] = @ - 1]
    BY <1>10 DEF DialFails, Enqueue
  <2>2. /\ \A type, r : Queued(type, r) => Queued(type, r)'
        /\ Queued("ConnectionFailed", q)'
    BY <2>1, EventTypes, QueuedAppend
  <2>3. ConnectedOK(p)'
    BY <2>1, <2>2, <1>h, <1>o DEF ConnectedOK
  <2>4. ConnectingOK(p)'
    BY <2>1, <2>2, <1>h DEF ConnectingOK, TypeOK
  <2> QED
    BY <2>3, <2>4
<1>11. ASSUME NEW q \in Peer, Accept(q)
       PROVE  ConnectedOK(p)' /\ ConnectingOK(p)'
  <2>1. Establish(q) /\ dialing' = dialing
    BY <1>11 DEF Accept
  <2> QED
    BY <2>1, <1>f, <1>h, <1>o DEF ConnectedOK, ConnectingOK
<1>12. ASSUME NEW s \in Socket, Break(s) \/ WriteMessage(s)
       PROVE  ConnectedOK(p)' /\ ConnectingOK(p)'
  <2>1. CASE Break(s)
    BY <2>1, <1>u DEF Break
  <2>2. CASE WriteMessage(s)
    BY <2>2, <1>u DEF WriteMessage
  <2> QED
    BY <1>12, <2>1, <2>2
<1>13. ASSUME NEW s \in Socket, WriterEnds(s)
       PROVE  ConnectedOK(p)' /\ ConnectingOK(p)'
  <2>1. state[p] = "connected" => s # outgoing[p]
    BY <1>13, <1>h DEF WriterEnds, ConnectedOK
  <2>2. /\ UNCHANGED <<queue, table, dialing, owner, reader>>
        /\ writer' = [writer EXCEPT ![s] = "ended"]
    BY <1>13 DEF WriterEnds
  <2> QED
    BY <2>1, <2>2, <1>h DEF ConnectedOK, ConnectingOK, Queued, TypeOK
<1>14. ASSUME NEW s \in Socket, ReadMessage(s)
       PROVE  ConnectedOK(p)' /\ ConnectingOK(p)'
  <2>1. owner[s] \in Peer /\ arrived + 1 \in Incoming
    BY <1>14, ConstantsAssumption DEF ReadMessage, SocketsOwned, Incoming, TypeOK
  <2> QED
    BY <1>14, <1>a, <2>1, EventTypes DEF ReadMessage, Enqueue
<1>15. ASSUME NEW s \in Socket, ReadEnds(s)
       PROVE  ConnectedOK(p)' /\ ConnectingOK(p)'
  <2>1. PICK q \in Peer : q = owner[s]
    BY <1>15 DEF ReadEnds, SocketsOwned
  <2> DEFINE e == [type |-> "Disconnected", peer |-> q]
  <2>2. /\ UNCHANGED <<table, dialing, owner, writer>> /\ queue' = Append(queue, e)
        /\ reader' = [reader EXCEPT ![s] = "ended"]
    BY <1>15, <2>1 DEF ReadEnds, Enqueue
  <2>3. /\ \A type, r : Queued(type, r) => Queued(type, r)'
        /\ Queued("Disconnected", q)'
    BY <2>2, EventTypes, QueuedAppend
  <2>4. ConnectedOK(p)'
    BY <2>1, <2>2, <2>3, <1>h DEF ConnectedOK, TypeOK
  <2>5. ConnectingOK(p)'
    BY <2>2, <2>3, <1>h DEF ConnectingOK
  <2> QED
    BY <2>4, <2>5
<1>16. CASE UNCHANGED vars
  BY <1>16, <1>u DEF vars
<1> QED
  BY <1>1, <1>2, <1>3, <1>4, <1>5, <1>6, <1>7, <1>8, <1>9, <1>10, <1>11, <1>12,
     <1>13, <1>14, <1>15, <1>16 DEF Next, handle_event

\* In every reachable state the entries of the table (event.rs:84-90) have behind them
\* the tasks and the events that they rely on.
THEOREM EntryInvariant == Spec => [](Typed /\ EntryInv)
<1>1. Typed /\ EntryInv /\ [Next]_vars => Typed' /\ EntryInv'
  BY NextTypeOK, NextSocketsOwned, NextEntryInv DEF Typed
<1> QED
  BY InitTyped, InitEntryInv, <1>1, PTL DEF Spec

\* The unwrap in the SendMessageReq arm (event.rs:158) never sees a closed queue.
THEOREM LoopNeverPanics == Spec => []SendNeverPanics
<1>1. Typed /\ EntryInv => SendNeverPanics
  BY DEF EntryInv, ConnectedOK, SendNeverPanics
<1> QED
  BY EntryInvariant, <1>1, PTL

\* A Connected entry without a reader is removed by an event that is already queued.
THEOREM ZombiesLeave == Spec => []NoZombieEntry
<1>1. Typed /\ EntryInv => NoZombieEntry
  BY DEF EntryInv, ConnectedOK, NoZombieEntry
<1> QED
  BY EntryInvariant, <1>1, PTL

\* Whoever waits on a Connecting entry waits for an attempt that has yet to report.
THEOREM AttemptBehindEntry == Spec => []ConnectingHasAttempt
<1>1. Typed /\ EntryInv => ConnectingHasAttempt
  BY DEF EntryInv, ConnectingOK, ConnectingHasAttempt
<1> QED
  BY EntryInvariant, <1>1, PTL

-----------------------------------------------------------------------------
(* The order of the messages *)

Asc(q) == \A i, j \in DOMAIN q : i < j => q[i] < q[j]

\* Sends are queued in the order of their numbers, connections once each.
Before(e, f) ==
  /\ e.type = "SendMessageReq" /\ f.type = "SendMessageReq" => e.message < f.message
  /\ e.type = "ConnectionEstablished" /\ f.type = "ConnectionEstablished" => e.socket # f.socket

Ordered(q) == \A i, j \in DOMAIN q : i < j => Before(q[i], q[j])

Pending(p) == ToSet(pending_messages[p])
Out(s) == ToSet(out[s])
Wire(s) == ToSet(wire[s])

\* Everything that was taken out of the queue and may still be somewhere is before m.
BehindTaken(m) ==
  /\ \A p \in Peer : \A k \in Pending(p) : k < m
  /\ \A s \in Socket : \A k \in Out(s) \cup Wire(s) : k < m

QueueInv ==
  /\ Ordered(queue)
  /\ \A e \in ToSet(queue) : e.type = "SendMessageReq" =>
       result[e.message] = "waiting" /\ BehindTaken(e.message)

HeldInv ==
  /\ \A p \in Peer : Asc(pending_messages[p]) /\ \A m \in Pending(p) : result[m] = "waiting"
  /\ \A s \in Socket : Asc(out[s]) /\ \A m \in Out(s) : result[m] = "waiting"
  /\ \A p, q \in Peer : p # q => Pending(p) \cap Pending(q) = {}
  /\ \A s, t \in Socket : s # t => Out(s) \cap Out(t) = {}
  /\ \A p \in Peer, s \in Socket : Pending(p) \cap Out(s) = {}

WireInv ==
  \A s \in Socket :
    /\ Asc(wire[s])
    /\ \A m \in Wire(s) : result[m] \notin {"idle", "waiting"}
    /\ \A m \in Wire(s), k \in Out(s) : m < k

SocketInv ==
  /\ \A s \in Socket : owner[s] = None => writer[s] = "none"
  /\ \A s \in Socket : writer[s] = "none" => out[s] = <<>> /\ wire[s] = <<>>
  /\ \A e \in ToSet(queue) : e.type = "ConnectionEstablished" => writer[e.socket] = "none"

\* Requests are made in the order of their numbers.
NumberInv == \A m, k \in Message : result[m] = "idle" /\ result[k] # "idle" => k < m

OrderInv == QueueInv /\ HeldInv /\ WireInv /\ SocketInv /\ NumberInv

-----------------------------------------------------------------------------
(* Sequences *)

\* What is in a sequence after an element was appended.
LEMMA AppendSet ==
  ASSUME NEW S, NEW q \in Seq(S), NEW x \in S
  PROVE  ToSet(Append(q, x)) = ToSet(q) \cup {x}
<1>1. /\ DOMAIN Append(q, x) = DOMAIN q \cup {Len(q) + 1}
      /\ \A i \in DOMAIN q : Append(q, x)[i] = q[i]
      /\ Append(q, x)[Len(q) + 1] = x
  OBVIOUS
<1> QED
  BY <1>1, Zenon DEF ToSet

\* A number above all others can be appended to numbers that ascend.
LEMMA AscAppend ==
  ASSUME NEW q \in Seq(Message), NEW m \in Message, Asc(q), \A k \in ToSet(q) : k < m
  PROVE  Asc(Append(q, m))
<1>1. /\ DOMAIN Append(q, m) = 1 .. Len(q) + 1 /\ DOMAIN q = 1 .. Len(q) /\ Len(q) \in Nat
      /\ \A i \in DOMAIN q : Append(q, m)[i] = q[i]
      /\ Append(q, m)[Len(q) + 1] = m
  OBVIOUS
<1>2. \A i \in DOMAIN q : q[i] < m
  BY DEF ToSet
<1> QED
  BY <1>1, <1>2 DEF Asc

\* What ascends goes on ascending without its head, which is below the rest.
LEMMA AscTail ==
  ASSUME NEW q \in Seq(Message), q # <<>>, Asc(q)
  PROVE  /\ Tail(q) \in Seq(Message) /\ Head(q) \in Message
         /\ Asc(Tail(q)) /\ \A k \in ToSet(Tail(q)) : Head(q) < k
         /\ ToSet(q) = {Head(q)} \cup ToSet(Tail(q))
<1>1. /\ Tail(q) \in Seq(Message) /\ Head(q) \in Message
      /\ 1 \in DOMAIN q /\ Head(q) = q[1]
      /\ \A i \in DOMAIN Tail(q) : i + 1 \in DOMAIN q /\ i + 1 > 1 /\ i \in Nat /\ Tail(q)[i] = q[i + 1]
      /\ \A i \in DOMAIN q : i = 1 \/ (i - 1 \in DOMAIN Tail(q) /\ Tail(q)[i - 1] = q[i])
  OBVIOUS
<1>2. Asc(Tail(q))
  BY <1>1 DEF Asc
<1>3. \A k \in ToSet(Tail(q)) : Head(q) < k
  BY <1>1 DEF Asc, ToSet
<1>4. ASSUME NEW x \in ToSet(q) PROVE x = Head(q) \/ x \in ToSet(Tail(q))
  <2>1. PICK i \in DOMAIN q : x = q[i]
    BY DEF ToSet
  <2>2. CASE i # 1
    BY <1>1, <2>1, <2>2 DEF ToSet
  <2> QED
    BY <1>1, <2>1, <2>2
<1>5. ASSUME NEW x \in ToSet(Tail(q)) PROVE x \in ToSet(q)
  <2>1. PICK i \in DOMAIN Tail(q) : x = Tail(q)[i]
    BY DEF ToSet
  <2> QED
    BY <1>1, <2>1, Zenon DEF ToSet
<1>6. Head(q) \in ToSet(q)
  <2>1. 1 \in DOMAIN q /\ q[1] = Head(q)
    BY <1>1
  <2> QED
    BY <2>1, Zenon DEF ToSet
<1> QED
  BY <1>1, <1>2, <1>3, <1>4, <1>5, <1>6

\* A request with a number above those of all others can be queued behind them.
LEMMA OrderedAppend ==
  ASSUME NEW q \in Seq(Event), NEW e \in Event, Ordered(q), \A f \in ToSet(q) : Before(f, e)
  PROVE  Ordered(Append(q, e))
<1>1. /\ DOMAIN Append(q, e) = 1 .. Len(q) + 1 /\ DOMAIN q = 1 .. Len(q) /\ Len(q) \in Nat
      /\ \A i \in DOMAIN q : Append(q, e)[i] = q[i]
      /\ Append(q, e)[Len(q) + 1] = e
  OBVIOUS
<1>2. \A i \in DOMAIN q : Before(q[i], e)
  BY DEF ToSet
<1>3. ASSUME NEW i \in DOMAIN Append(q, e), NEW j \in DOMAIN Append(q, e), i < j
      PROVE  Before(Append(q, e)[i], Append(q, e)[j])
  <2>1. i \in DOMAIN q /\ (j \in DOMAIN q \/ j = Len(q) + 1)
    BY <1>1, <1>3
  <2> QED
    BY <1>1, <1>2, <1>3, <2>1 DEF Ordered
<1> QED
  BY <1>3 DEF Ordered

\* A queue in order stays so without its head, which comes before the rest.
LEMMA OrderedTail ==
  ASSUME NEW q \in Seq(Event), q # <<>>, Ordered(q)
  PROVE  Ordered(Tail(q)) /\ \A f \in ToSet(Tail(q)) : Before(Head(q), f)
<1>1. /\ 1 \in DOMAIN q /\ Head(q) = q[1]
      /\ \A i \in DOMAIN Tail(q) : i + 1 \in DOMAIN q /\ i + 1 > 1 /\ i \in Nat /\ Tail(q)[i] = q[i + 1]
  OBVIOUS
<1>2. \A i, j \in DOMAIN Tail(q) : i < j => i + 1 < j + 1
  BY <1>1
<1>3. Ordered(Tail(q))
  BY <1>1, <1>2 DEF Ordered
<1>4. \A i \in DOMAIN Tail(q) : Before(Head(q), Tail(q)[i])
  BY <1>1 DEF Ordered
<1> QED
  BY <1>3, <1>4 DEF ToSet

\* The elements of the queues.
LEMMA EventsQueued == ASSUME TypeOK PROVE \A e \in ToSet(queue) : e \in Event
BY DEF TypeOK, ToSet

\* The pending, queued and written numbers are numbers of messages.
LEMMA SetsOfMessages ==
  ASSUME TypeOK
  PROVE  /\ \A p \in Peer : Pending(p) \subseteq Message /\ pending_messages[p] \in Seq(Message)
         /\ \A s \in Socket : /\ Out(s) \subseteq Message /\ out[s] \in Seq(Message)
                              /\ Wire(s) \subseteq Message /\ wire[s] \in Seq(Message)
<1>1. \A q \in Seq(Message) : ToSet(q) \subseteq Message
  BY DEF ToSet
<1> QED
  BY <1>1 DEF TypeOK, Pending, Out, Wire

-----------------------------------------------------------------------------
(* The steps *)

\* A step that only appends or takes an event of no concern here.
LEMMA QuietStep ==
  ASSUME OrderInv, Ordered(queue'),
         \A e \in ToSet(queue') :
           e.type \in {"SendMessageReq", "ConnectionEstablished"} => e \in ToSet(queue),
         UNCHANGED <<pending_messages, out, wire, result, owner, writer>>
  PROVE  OrderInv'
<1>1. (\A p : Pending(p)' = Pending(p)) /\ \A s : Out(s)' = Out(s) /\ Wire(s)' = Wire(s)
  BY DEF Pending, Out, Wire
<1>2. QueueInv'
  BY <1>1 DEF OrderInv, QueueInv, BehindTaken
<1>3. HeldInv'
  BY <1>1 DEF OrderInv, HeldInv
<1>4. WireInv'
  BY <1>1 DEF OrderInv, WireInv
<1>5. SocketInv' /\ NumberInv'
  BY DEF OrderInv, SocketInv, NumberInv
<1> QED
  BY <1>2, <1>3, <1>4, <1>5 DEF OrderInv

\* An event that carries no message and opens no connection disturbs no order.
LEMMA QuietAppend ==
  ASSUME TypeOK, OrderInv, NEW e \in Event, queue' = Append(queue, e),
         e.type \notin {"SendMessageReq", "ConnectionEstablished"},
         UNCHANGED <<pending_messages, out, wire, result, owner, writer>>
  PROVE  OrderInv'
<1>1. ToSet(queue') = ToSet(queue) \cup {e}
  BY AppendKeeps DEF TypeOK
<1>2. \A f \in ToSet(queue) : Before(f, e)
  BY DEF Before
<1>3. Ordered(queue')
  BY <1>2, OrderedAppend DEF TypeOK, OrderInv, QueueInv
<1> QED
  BY <1>1, <1>3, QuietStep

\* What is left of the queue when its head is taken.
LEMMA TakeLeaves ==
  ASSUME TypeOK, OrderInv, NEW type, Take(type)
  PROVE  /\ queue' \in Seq(Event) /\ Ordered(queue')
         /\ Head(queue) \in Event /\ Head(queue) \in ToSet(queue) /\ Head(queue).type = type
         /\ \A e \in ToSet(queue') : e \in ToSet(queue) /\ Before(Head(queue), e)
<1>1. queue \in Seq(Event) /\ queue # <<>> /\ queue' = Tail(queue) /\ Head(queue).type = type
  BY DEF Take, TypeOK
<1> QED
  BY <1>1, TailKeeps, OrderedTail DEF OrderInv, QueueInv

\* Nor does taking such an event, if the arm leaves messages and connections alone.
LEMMA QuietTake ==
  ASSUME TypeOK, OrderInv, NEW type, Take(type),
         UNCHANGED <<pending_messages, out, wire, result, owner, writer>>
  PROVE  OrderInv'
BY TakeLeaves, QuietStep

\* A request gets the next number.
LEMMA SendOrder ==
  ASSUME TypeOK, OrderInv, NEW m \in Message, NEW p \in Peer, send_message(m, p)
  PROVE  OrderInv'
<1> DEFINE e == [type |-> "SendMessageReq", peer |-> p, message |-> m]
<1>1. /\ result[m] = "idle" /\ \A k \in Message : k < m => result[k] # "idle"
      /\ result' = [result EXCEPT ![m] = "waiting"]
      /\ queue' = Append(queue, e)
      /\ UNCHANGED <<pending_messages, out, wire, owner, writer>>
  BY DEF send_message, Fresh, Enqueue, table, sockets
<1>2. e \in Event
  BY DEF Event
<1>3. ToSet(queue') = ToSet(queue) \cup {e}
  BY <1>1, <1>2, AppendKeeps DEF TypeOK
<1>4. result'[m] = "waiting" /\ \A k \in Message : k # m => result'[k] = result[k]
  BY <1>1 DEF TypeOK
<1>5. /\ \A q \in Peer : Pending(q) \subseteq Message /\ Pending(q)' = Pending(q)
      /\ \A s \in Socket : /\ Out(s) \subseteq Message /\ Out(s)' = Out(s)
                           /\ Wire(s) \subseteq Message /\ Wire(s)' = Wire(s)
  BY <1>1, SetsOfMessages DEF Pending, Out, Wire
<1>6. \A k \in Message : result[k] # "idle" => k < m
  BY <1>1 DEF OrderInv, NumberInv
<1>7. BehindTaken(m)
  BY <1>5, <1>6 DEF OrderInv, HeldInv, WireInv, BehindTaken
<1>8. \A f \in ToSet(queue) : f.type = "SendMessageReq" =>
         f.message \in Message /\ f.message # m /\ result[f.message] = "waiting"
  <2>1. \A f \in ToSet(queue) : f \in Event
    BY EventsQueued
  <2> QED
    BY <1>1, <2>1, EventFields DEF OrderInv, QueueInv
<1>9. Ordered(queue')
  <2>1. \A f \in ToSet(queue) : Before(f, e)
    BY <1>6, <1>8 DEF Before
  <2> QED
    BY <1>1, <1>2, <2>1, OrderedAppend DEF TypeOK, OrderInv, QueueInv
<1>10. QueueInv'
  BY <1>3, <1>4, <1>5, <1>7, <1>8, <1>9 DEF OrderInv, QueueInv, BehindTaken
<1>11. HeldInv'
  BY <1>1, <1>4, <1>5 DEF OrderInv, HeldInv
<1>12. WireInv'
  BY <1>1, <1>4, <1>5 DEF OrderInv, WireInv
<1>13. SocketInv'
  BY <1>1, <1>3 DEF OrderInv, SocketInv
<1>14. NumberInv'
  BY <1>1, <1>4, <1>6 DEF OrderInv, NumberInv, Message, TypeOK
<1> QED
  BY <1>10, <1>11, <1>12, <1>13, <1>14 DEF OrderInv

\* A new connection has a socket that nobody has used.
LEMMA EstablishOrder ==
  ASSUME TypeOK, SocketsOwned, OrderInv, NEW p \in Peer, Establish(p)
  PROVE  OrderInv'
<1>1. PICK s \in Socket :
        /\ owner[s] = None
        /\ owner' = [owner EXCEPT ![s] = p]
        /\ queue' = Append(queue, [type |-> "ConnectionEstablished", peer |-> p, socket |-> s])
        /\ UNCHANGED <<pending_messages, out, wire, result, writer>>
  BY DEF Establish, Fresh, Enqueue, table, answers
<1> DEFINE e == [type |-> "ConnectionEstablished", peer |-> p, socket |-> s]
<1>2. e \in Event
  BY DEF Event
<1>3. ToSet(queue') = ToSet(queue) \cup {e}
  BY <1>1, <1>2, AppendKeeps DEF TypeOK
<1>4. (\A q : Pending(q)' = Pending(q)) /\ \A t : Out(t)' = Out(t) /\ Wire(t)' = Wire(t)
  BY <1>1 DEF Pending, Out, Wire
<1>5. \A f \in ToSet(queue) : Before(f, e)
  <2>1. \A f \in ToSet(queue) : f \in Event
    BY EventsQueued
  <2>2. \A f \in ToSet(queue) : f.type = "ConnectionEstablished" => f.socket # s
    BY <1>1, <2>1, EventFields, ConstantsAssumption DEF SocketsOwned
  <2> QED
    BY <2>2 DEF Before
<1>6. Ordered(queue')
  BY <1>1, <1>2, <1>5, OrderedAppend DEF TypeOK, OrderInv, QueueInv
<1>7. QueueInv'
  BY <1>1, <1>3, <1>4, <1>6 DEF OrderInv, QueueInv, BehindTaken
<1>8. HeldInv'
  BY <1>1, <1>4 DEF OrderInv, HeldInv
<1>9. WireInv'
  BY <1>1, <1>4 DEF OrderInv, WireInv
<1>10. SocketInv'
  BY <1>1, <1>3 DEF OrderInv, SocketInv, TypeOK
<1>11. NumberInv'
  BY <1>1 DEF OrderInv, NumberInv
<1> QED
  BY <1>7, <1>8, <1>9, <1>10, <1>11 DEF OrderInv

\* The waiting requests of a set are answered, and nothing else changes hands.
LEMMA AnswerIs ==
  ASSUME TypeOK, NEW S, NEW v \in Outcome, result' = Answer(result, S, v)
  PROVE  /\ \A m \in Message : m \in S /\ result[m] = "waiting" => result'[m] = v
         /\ \A m \in Message : m \notin S \/ result[m] # "waiting" => result'[m] = result[m]
         /\ \A m \in Message : result'[m] = "idle" <=> result[m] = "idle"
         /\ \A m \in Message : result[m] \notin {"idle", "waiting"} => result'[m] \notin {"idle", "waiting"}
BY DEF Answer, TypeOK, Outcome

\* The messages of an entry that goes are answered, and wait no more.
LEMMA RemoveOrder ==
  ASSUME TypeOK, OrderInv, NEW type, Take(type), NEW p \in Peer, NEW v \in Outcome, RemoveEntry(p, v),
         UNCHANGED <<out, wire, owner, writer>>
  PROVE  OrderInv'
<1>1. /\ pending_messages' = [pending_messages EXCEPT ![p] = <<>>]
      /\ result' = Answer(result, Pending(p), v)
  BY DEF RemoveEntry, Pending
<1>2. /\ Pending(p)' = {} /\ pending_messages'[p] = <<>>
      /\ \A q \in Peer : q # p => Pending(q)' = Pending(q) /\ pending_messages'[q] = pending_messages[q]
      /\ \A s \in Socket : Out(s)' = Out(s) /\ Wire(s)' = Wire(s)
  BY <1>1 DEF Pending, Out, Wire, TypeOK, ToSet
<1>3. /\ \A m \in Message : m \notin Pending(p) => result'[m] = result[m]
      /\ \A m \in Message : result'[m] = "idle" <=> result[m] = "idle"
      /\ \A m \in Message : result[m] \notin {"idle", "waiting"} => result'[m] \notin {"idle", "waiting"}
  BY <1>1, AnswerIs
<1>4. Ordered(queue') /\ \A e \in ToSet(queue') : e \in ToSet(queue) /\ e \in Event
  BY TakeLeaves, EventsQueued
<1>5. QueueInv'
  <2> SUFFICES ASSUME NEW e \in ToSet(queue'), e.type = "SendMessageReq"
               PROVE  result'[e.message] = "waiting" /\ BehindTaken(e.message)'
    BY <1>4 DEF QueueInv
  <2>1. e.message \in Message /\ result[e.message] = "waiting" /\ BehindTaken(e.message)
    BY <1>4, EventFields DEF OrderInv, QueueInv
  <2>2. e.message \notin Pending(p)
    BY <2>1 DEF BehindTaken, Message
  <2>3. BehindTaken(e.message)'
    BY <1>2, <2>1 DEF BehindTaken
  <2> QED
    BY <1>3, <2>1, <2>2, <2>3
<1>6. HeldInv'
  <2>1. ASSUME NEW q \in Peer
        PROVE  Asc(pending_messages'[q]) /\ \A m \in Pending(q)' : result'[m] = "waiting"
    <3>1. CASE q = p
      BY <1>2, <3>1 DEF Asc
    <3>2. CASE q # p
      BY <1>2, <1>3, <3>2, SetsOfMessages DEF OrderInv, HeldInv
    <3> QED
      BY <3>1, <3>2
  <2>2. ASSUME NEW s \in Socket
        PROVE  Asc(out'[s]) /\ \A m \in Out(s)' : result'[m] = "waiting"
    BY <1>2, <1>3, SetsOfMessages DEF OrderInv, HeldInv
  <2>3. \A q \in Peer : Pending(q)' \subseteq Pending(q)
    BY <1>2
  <2>4. /\ \A q, r \in Peer : q # r => Pending(q)' \cap Pending(r)' = {}
        /\ \A s, t \in Socket : s # t => Out(s)' \cap Out(t)' = {}
        /\ \A q \in Peer, s \in Socket : Pending(q)' \cap Out(s)' = {}
    BY <1>2, <2>3 DEF OrderInv, HeldInv
  <2> QED
    BY <2>1, <2>2, <2>4 DEF HeldInv
<1>7. WireInv'
  BY <1>2, <1>3, SetsOfMessages DEF OrderInv, WireInv
<1>8. SocketInv'
  BY <1>4 DEF OrderInv, SocketInv
<1>9. NumberInv'
  BY <1>3 DEF OrderInv, NumberInv
<1> QED
  BY <1>5, <1>6, <1>7, <1>8, <1>9 DEF OrderInv

\* A message goes from the head of the queue to the end of an entry's messages ...
LEMMA PendingOrder ==
  ASSUME TypeOK, OrderInv, Take("SendMessageReq"), NEW p \in Peer, NEW m \in Message,
         m = Head(queue).message,
         pending_messages' = [pending_messages EXCEPT ![p] = Append(@, m)],
         UNCHANGED <<out, wire, result, owner, writer>>
  PROVE  OrderInv'
<1>1. /\ Pending(p)' = Pending(p) \cup {m} /\ pending_messages'[p] = Append(pending_messages[p], m)
      /\ \A q \in Peer : q # p => Pending(q)' = Pending(q) /\ pending_messages'[q] = pending_messages[q]
      /\ \A s \in Socket : Out(s)' = Out(s) /\ Wire(s)' = Wire(s)
  <2>1. pending_messages'[p] = Append(pending_messages[p], m)
    BY DEF TypeOK
  <2>2. ToSet(Append(pending_messages[p], m)) = Pending(p) \cup {m}
    BY AppendSet, SetsOfMessages DEF Pending
  <2> QED
    BY <2>1, <2>2 DEF Pending, Out, Wire, TypeOK
<1>2. /\ result[m] = "waiting" /\ BehindTaken(m)
      /\ Ordered(queue')
      /\ \A e \in ToSet(queue') : /\ e \in ToSet(queue) /\ e \in Event
                                  /\ e.type = "SendMessageReq" => m < e.message
  BY TakeLeaves, EventsQueued DEF OrderInv, QueueInv, Before
<1>3. QueueInv'
  BY <1>1, <1>2 DEF OrderInv, QueueInv, BehindTaken
<1>4. HeldInv'
  <2>1. /\ \A q \in Peer : m \notin Pending(q)
        /\ \A s \in Socket : m \notin Out(s)
    BY <1>2 DEF BehindTaken, Message
  <2>2. Asc(pending_messages'[p])
    BY <1>1, <1>2, AscAppend, SetsOfMessages DEF OrderInv, HeldInv, BehindTaken, Pending
  <2>3. /\ \A q \in Peer : Asc(pending_messages'[q]) /\ \A k \in Pending(q)' : result'[k] = "waiting"
        /\ \A s \in Socket : Asc(out'[s]) /\ \A k \in Out(s)' : result'[k] = "waiting"
    BY <1>1, <1>2, <2>2 DEF OrderInv, HeldInv
  <2>4. /\ \A q, r \in Peer : q # r => Pending(q)' \cap Pending(r)' = {}
        /\ \A s, t \in Socket : s # t => Out(s)' \cap Out(t)' = {}
        /\ \A q \in Peer, s \in Socket : Pending(q)' \cap Out(s)' = {}
    BY <1>1, <2>1 DEF OrderInv, HeldInv
  <2> QED
    BY <2>3, <2>4 DEF HeldInv
<1>5. WireInv'
  BY <1>1 DEF OrderInv, WireInv
<1>6. SocketInv' /\ NumberInv'
  BY <1>2 DEF OrderInv, SocketInv, NumberInv
<1> QED
  BY <1>3, <1>4, <1>5, <1>6 DEF OrderInv

\* ... or to the end of what a writer has to write, which has started.
LEMMA OutOrder ==
  ASSUME TypeOK, OrderInv, Take("SendMessageReq"), NEW s \in Socket, NEW m \in Message,
         m = Head(queue).message, writer[s] # "none",
         out' = [out EXCEPT ![s] = Append(@, m)],
         UNCHANGED <<pending_messages, wire, result, owner, writer>>
  PROVE  OrderInv'
<1>1. /\ Out(s)' = Out(s) \cup {m} /\ out'[s] = Append(out[s], m)
      /\ \A t \in Socket : t # s => Out(t)' = Out(t) /\ out'[t] = out[t]
      /\ \A t \in Socket : Wire(t)' = Wire(t)
      /\ \A q \in Peer : Pending(q)' = Pending(q)
  <2>1. out'[s] = Append(out[s], m)
    BY DEF TypeOK
  <2>2. ToSet(Append(out[s], m)) = Out(s) \cup {m}
    BY AppendSet, SetsOfMessages DEF Out
  <2> QED
    BY <2>1, <2>2 DEF Pending, Out, Wire, TypeOK
<1>2. /\ result[m] = "waiting" /\ BehindTaken(m)
      /\ Ordered(queue')
      /\ \A e \in ToSet(queue') : /\ e \in ToSet(queue) /\ e \in Event
                                  /\ e.type = "SendMessageReq" => m < e.message
  BY TakeLeaves, EventsQueued DEF OrderInv, QueueInv, Before
<1>3. QueueInv'
  BY <1>1, <1>2 DEF OrderInv, QueueInv, BehindTaken
<1>4. HeldInv'
  <2>1. /\ \A q \in Peer : m \notin Pending(q)
        /\ \A t \in Socket : m \notin Out(t)
    BY <1>2 DEF BehindTaken, Message
  <2>2. Asc(out'[s])
    BY <1>1, <1>2, AscAppend, SetsOfMessages DEF OrderInv, HeldInv, BehindTaken, Out
  <2>3. /\ \A q \in Peer : Asc(pending_messages'[q]) /\ \A k \in Pending(q)' : result'[k] = "waiting"
        /\ \A t \in Socket : Asc(out'[t]) /\ \A k \in Out(t)' : result'[k] = "waiting"
    BY <1>1, <1>2, <2>2 DEF OrderInv, HeldInv
  <2>4. /\ \A q, r \in Peer : q # r => Pending(q)' \cap Pending(r)' = {}
        /\ \A t, u \in Socket : t # u => Out(t)' \cap Out(u)' = {}
        /\ \A q \in Peer, t \in Socket : Pending(q)' \cap Out(t)' = {}
    BY <1>1, <2>1 DEF OrderInv, HeldInv
  <2> QED
    BY <2>3, <2>4 DEF HeldInv
<1>5. WireInv'
  BY <1>1, <1>2 DEF OrderInv, WireInv, BehindTaken
<1>6. SocketInv' /\ NumberInv'
  BY <1>1, <1>2 DEF OrderInv, SocketInv, NumberInv
<1> QED
  BY <1>3, <1>4, <1>5, <1>6 DEF OrderInv

\* The messages of an entry become those of a writer that starts.
LEMMA HandOverOrder ==
  ASSUME TypeOK, SocketsOwned, OrderInv, HandleConnectionEstablished
  PROVE  OrderInv'
<1>0. PICK p \in Peer, s \in Socket : p = Head(queue).peer /\ s = Head(queue).socket
  BY TakeLeaves, EventFields DEF HandleConnectionEstablished
<1>1. /\ Take("ConnectionEstablished")
      /\ out' = [out EXCEPT ![s] = pending_messages[p]]
      /\ pending_messages' = [pending_messages EXCEPT ![p] = <<>>]
      /\ writer' = [writer EXCEPT ![s] = "sending"]
      /\ UNCHANGED <<owner, wire, result>>
  BY <1>0 DEF HandleConnectionEstablished
<1>2. /\ owner[s] = p
      /\ Ordered(queue')
      /\ \A e \in ToSet(queue') : /\ e \in ToSet(queue) /\ e \in Event
                                  /\ e.type = "ConnectionEstablished" => e.socket # s
      /\ out[s] = <<>> /\ wire[s] = <<>>
  BY <1>0, <1>1, TakeLeaves, EventsQueued, EventFields DEF SocketsOwned, OrderInv, SocketInv, Before
<1>3. /\ Pending(p)' = {} /\ pending_messages'[p] = <<>>
      /\ \A q \in Peer : q # p => Pending(q)' = Pending(q) /\ pending_messages'[q] = pending_messages[q]
      /\ Out(s) = {} /\ Out(s)' = Pending(p) /\ out'[s] = pending_messages[p]
      /\ \A t \in Socket : t # s => Out(t)' = Out(t) /\ out'[t] = out[t]
      /\ Wire(s) = {} /\ \A t \in Socket : Wire(t)' = Wire(t)
  BY <1>1, <1>2 DEF Pending, Out, Wire, TypeOK, ToSet
<1>4. QueueInv'
  BY <1>1, <1>2, <1>3 DEF OrderInv, QueueInv, BehindTaken
<1>5. HeldInv'
  <2>1. ASSUME NEW q \in Peer
        PROVE  Asc(pending_messages'[q]) /\ \A m \in Pending(q)' : result'[m] = "waiting"
    BY <1>1, <1>3 DEF OrderInv, HeldInv, Asc
  <2>2. ASSUME NEW t \in Socket
        PROVE  Asc(out'[t]) /\ \A m \in Out(t)' : result'[m] = "waiting"
    BY <1>1, <1>2, <1>3 DEF OrderInv, HeldInv
  <2>3. /\ \A q, r \in Peer : q # r => Pending(q)' \cap Pending(r)' = {}
        /\ \A t, u \in Socket : t # u => Out(t)' \cap Out(u)' = {}
        /\ \A q \in Peer, t \in Socket : Pending(q)' \cap Out(t)' = {}
    BY <1>2, <1>3 DEF OrderInv, HeldInv
  <2> QED
    BY <2>1, <2>2, <2>3 DEF HeldInv
<1>6. WireInv'
  BY <1>1, <1>3 DEF OrderInv, WireInv
<1>7. SocketInv'
  <2>1. owner[s] # None
    BY <1>2, ConstantsAssumption
  <2>2. \A t \in Socket : writer'[t] = "none" => t # s /\ writer[t] = "none"
    BY <1>1, <1>2 DEF TypeOK
  <2>3. \A t \in Socket : t # s => writer'[t] = writer[t]
    BY <1>1 DEF TypeOK
  <2> QED
    BY <1>1, <1>2, <1>3, <2>1, <2>2, <2>3, EventFields DEF OrderInv, SocketInv
<1>8. NumberInv'
  BY <1>1 DEF OrderInv, NumberInv
<1> QED
  BY <1>4, <1>5, <1>6, <1>7, <1>8 DEF OrderInv

\* What a writer does with the message at the head of its queue.
LEMMA WriteFacts ==
  ASSUME TypeOK, OrderInv, NEW s \in Socket, WriteMessage(s)
  PROVE  LET m == Head(out[s])
         IN  /\ m \in Message /\ result[m] = "waiting"
             /\ out[s] # <<>> /\ out' = [out EXCEPT ![s] = Tail(out[s])]
             /\ \E v \in {"ok", "err"} :
                  /\ result' = Answer(result, {m}, v)
                  /\ \/ v = "ok" /\ wire' = [wire EXCEPT ![s] = Append(wire[s], m)]
                     \/ wire' = wire
             /\ writer[s] = "sending"
             /\ UNCHANGED <<queue, pending_messages, owner, writer>>
<1>1. out[s] # <<>> /\ Asc(out[s]) /\ out[s] \in Seq(Message)
  BY SetsOfMessages DEF WriteMessage, OrderInv, HeldInv
<1>2. Head(out[s]) \in Message /\ Head(out[s]) \in Out(s)
  BY <1>1, AscTail DEF Out
<1> QED
  BY <1>1, <1>2 DEF WriteMessage, OrderInv, HeldInv, table

\* A message that is written was the next of its writer, so it is behind what was
\* written before and below what is still to be written.
LEMMA WriteOrder ==
  ASSUME TypeOK, OrderInv, NEW s \in Socket, WriteMessage(s)
  PROVE  OrderInv'
<1>0. PICK m \in Message : m = Head(out[s])
  BY WriteFacts
<1>1. /\ result[m] = "waiting"
      /\ out' = [out EXCEPT ![s] = Tail(out[s])]
      /\ writer[s] = "sending"
      /\ UNCHANGED <<queue, pending_messages, owner, writer>>
      /\ out[s] # <<>>
  BY <1>0, WriteFacts
<1>2. PICK v \in {"ok", "err"} :
        /\ result' = Answer(result, {m}, v)
        /\ wire' = [wire EXCEPT ![s] = Append(wire[s], m)] \/ wire' = wire
  BY <1>0, WriteFacts
<1>3. /\ Tail(out[s]) \in Seq(Message) /\ Asc(Tail(out[s]))
      /\ \A k \in ToSet(Tail(out[s])) : m < k
      /\ Out(s) = {m} \cup ToSet(Tail(out[s]))
  <2>1. out[s] \in Seq(Message) /\ Asc(out[s])
    BY SetsOfMessages DEF OrderInv, HeldInv
  <2> QED
    BY <1>0, <1>1, <2>1, AscTail DEF Out
<1>4. /\ out'[s] = Tail(out[s]) /\ Out(s)' \subseteq Out(s) /\ Out(s) = {m} \cup Out(s)'
      /\ \A k \in Out(s)' : m < k
      /\ \A t \in Socket : t # s => Out(t)' = Out(t) /\ out'[t] = out[t]
      /\ \A q \in Peer : Pending(q)' = Pending(q)
  BY <1>1, <1>3 DEF Out, Pending, TypeOK
<1>5. /\ \A t \in Socket : t # s => Wire(t)' = Wire(t) /\ wire'[t] = wire[t]
      /\ \/ Wire(s)' = Wire(s) /\ wire'[s] = wire[s]
         \/ Wire(s)' = Wire(s) \cup {m} /\ wire'[s] = Append(wire[s], m)
  <2>1. ToSet(Append(wire[s], m)) = Wire(s) \cup {m}
    BY <1>1, AppendSet, SetsOfMessages DEF Wire
  <2>2. CASE wire' = wire
    BY <2>2 DEF Wire
  <2>3. CASE wire' = [wire EXCEPT ![s] = Append(wire[s], m)]
    BY <2>1, <2>3 DEF Wire, TypeOK
  <2> QED
    BY <1>2, <2>2, <2>3
<1>6. /\ result'[m] \notin {"idle", "waiting"}
      /\ \A k \in Message : k # m => result'[k] = result[k]
      /\ \A k \in Message : result'[k] = "idle" <=> result[k] = "idle"
      /\ \A k \in Message : result[k] \notin {"idle", "waiting"} => result'[k] \notin {"idle", "waiting"}
  <2>1. v \in Outcome /\ v \notin {"idle", "waiting"}
    BY DEF Outcome
  <2> DEFINE S == {m}
  <2> HIDE DEF S
  <2>2. result' = Answer(result, S, v)
    BY <1>2 DEF S
  <2>3. /\ \A k \in Message : k \in S /\ result[k] = "waiting" => result'[k] = v
        /\ \A k \in Message : k \notin S \/ result[k] # "waiting" => result'[k] = result[k]
        /\ \A k \in Message : result'[k] = "idle" <=> result[k] = "idle"
        /\ \A k \in Message : result[k] \notin {"idle", "waiting"} => result'[k] \notin {"idle", "waiting"}
    BY <2>1, <2>2, AnswerIs
  <2> QED
    BY <1>1, <2>1, <2>3 DEF S
<1>7. QueueInv'
  <2> SUFFICES ASSUME NEW e \in ToSet(queue), e.type = "SendMessageReq"
               PROVE  result'[e.message] = "waiting" /\ BehindTaken(e.message)'
    BY <1>1 DEF QueueInv, OrderInv
  <2>1. e.message \in Message /\ result[e.message] = "waiting" /\ BehindTaken(e.message)
    BY EventsQueued, EventFields DEF OrderInv, QueueInv
  <2>2. m < e.message
    BY <1>4, <2>1 DEF BehindTaken
  <2>3. BehindTaken(e.message)'
    BY <1>4, <1>5, <2>1, <2>2 DEF BehindTaken
  <2> QED
    BY <1>1, <1>6, <2>1, <2>2, <2>3 DEF Message
<1>8. HeldInv'
  <2>1. /\ \A q \in Peer : m \notin Pending(q)
        /\ \A t \in Socket : t # s => m \notin Out(t)
    BY <1>4 DEF OrderInv, HeldInv
  <2>2. m \notin Out(s)'
    BY <1>1, <1>4 DEF Message
  <2>3. ASSUME NEW q \in Peer
        PROVE  Asc(pending_messages'[q]) /\ \A k \in Pending(q)' : result'[k] = "waiting"
    BY <1>1, <1>4, <1>6, <2>1, SetsOfMessages DEF OrderInv, HeldInv
  <2>4. ASSUME NEW t \in Socket
        PROVE  Asc(out'[t]) /\ \A k \in Out(t)' : result'[k] = "waiting"
    BY <1>3, <1>4, <1>6, <2>1, <2>2, SetsOfMessages DEF OrderInv, HeldInv
  <2>5. \A t \in Socket : Out(t)' \subseteq Out(t)
    BY <1>4
  <2>6. /\ \A q, r \in Peer : q # r => Pending(q)' \cap Pending(r)' = {}
        /\ \A t, u \in Socket : t # u => Out(t)' \cap Out(u)' = {}
        /\ \A q \in Peer, t \in Socket : Pending(q)' \cap Out(t)' = {}
    BY <1>4, <2>5 DEF OrderInv, HeldInv
  <2> QED
    BY <2>3, <2>4, <2>6 DEF HeldInv
<1>9. WireInv'
  <2>1. ASSUME NEW t \in Socket, t # s
        PROVE  /\ Asc(wire'[t]) /\ \A k \in Wire(t)' : result'[k] \notin {"idle", "waiting"}
               /\ \A k \in Wire(t)', j \in Out(t)' : k < j
    BY <1>4, <1>5, <1>6, <2>1, SetsOfMessages DEF OrderInv, WireInv
  <2>2. Asc(wire'[s])
    <3>1. \A k \in Wire(s) : k < m
      BY <1>4 DEF OrderInv, WireInv
    <3>2. Asc(wire[s]) /\ wire[s] \in Seq(Message)
      BY SetsOfMessages DEF OrderInv, WireInv
    <3>3. Asc(Append(wire[s], m))
      BY <3>1, <3>2, AscAppend DEF Wire
    <3> QED
      BY <1>5, <3>2, <3>3
  <2>3. /\ \A k \in Wire(s)' : result'[k] \notin {"idle", "waiting"}
        /\ \A k \in Wire(s)', j \in Out(s)' : k < j
    BY <1>4, <1>5, <1>6, SetsOfMessages DEF OrderInv, WireInv
  <2> QED
    BY <2>1, <2>2, <2>3 DEF WireInv
<1>10. SocketInv'
  BY <1>1, <1>4, <1>5 DEF OrderInv, SocketInv
<1>11. NumberInv'
  BY <1>6 DEF OrderInv, NumberInv
<1> QED
  BY <1>7, <1>8, <1>9, <1>10, <1>11 DEF OrderInv

\* Initially there is no message, event or socket.
LEMMA InitOrder == Init => OrderInv
BY DEF Init, OrderInv, QueueInv, HeldInv, WireInv, SocketInv, NumberInv, Ordered, Asc,
       Pending, Out, Wire, ToSet

\* One step per action; those that move messages have lemmas of their own.
LEMMA NextOrder == Typed /\ EntryInv /\ OrderInv /\ [Next]_vars => OrderInv'
<1> SUFFICES ASSUME TypeOK, SocketsOwned, EntryInv, OrderInv, [Next]_vars PROVE OrderInv'
  BY DEF Typed
<1> USE DEF table, sockets, answers
<1>1. ASSUME NEW r \in Connect, NEW p \in Peer, RequestConnect(r, p) PROVE OrderInv'
  BY <1>1, EventTypes, QuietAppend DEF RequestConnect, Enqueue
<1>2. ASSUME NEW p \in Peer, DialFails(p) PROVE OrderInv'
  BY <1>2, EventTypes, QuietAppend DEF DialFails, Enqueue
<1>3. ASSUME NEW s \in Socket, ReadMessage(s) PROVE OrderInv'
  <2>1. owner[s] \in Peer /\ arrived + 1 \in Incoming
    BY <1>3, ConstantsAssumption DEF ReadMessage, SocketsOwned, Incoming, TypeOK
  <2> QED
    BY <1>3, <2>1, EventTypes, QuietAppend DEF ReadMessage, Enqueue
<1>4. ASSUME NEW s \in Socket, ReadEnds(s) PROVE OrderInv'
  <2>1. owner[s] \in Peer
    BY <1>4 DEF ReadEnds, SocketsOwned
  <2> QED
    BY <1>4, <2>1, EventTypes, QuietAppend DEF ReadEnds, Enqueue
<1>5. CASE HandleOutgoingConnectionReq
  BY <1>5, QuietTake DEF HandleOutgoingConnectionReq
<1>6. CASE HandleNewIncomingMessage
  BY <1>6, QuietTake DEF HandleNewIncomingMessage
<1>7. CASE HandleSendMessageReq
  <2> DEFINE p == Head(queue).peer
             m == Head(queue).message
  <2>1. p \in Peer /\ m \in Message /\ Take("SendMessageReq")
    BY <1>7, TakeLeaves, EventFields DEF HandleSendMessageReq
  <2>2. CASE state[p] = "connected"
    <3>1. outgoing[p] \in Socket /\ writer[outgoing[p]] = "sending"
      BY <2>1, <2>2 DEF EntryInv, ConnectedOK
    <3> QED
      BY <1>7, <2>1, <2>2, <3>1, OutOrder DEF HandleSendMessageReq
  <2>3. CASE state[p] # "connected"
    BY <1>7, <2>1, <2>3, PendingOrder DEF HandleSendMessageReq
  <2> QED
    BY <2>2, <2>3
<1>8. CASE HandleDisconnected \/ HandleConnectionFailed
  <2>1. Head(queue).peer \in Peer
    BY <1>8, TakeType, EventFields DEF HandleDisconnected, HandleConnectionFailed
  <2> QED
    BY <1>8, <2>1, RemoveOrder DEF HandleDisconnected, HandleConnectionFailed, Outcome
<1>9. ASSUME NEW p \in Peer, DialSucceeds(p) \/ Accept(p) PROVE OrderInv'
  BY <1>9, EstablishOrder DEF DialSucceeds, Accept
<1>10. CASE UNCHANGED <<queue, pending_messages, out, wire, result, owner, writer>>
  BY <1>10, QuietStep DEF OrderInv, QueueInv
<1>11. ASSUME NEW s \in Socket, Break(s) PROVE OrderInv'
  BY <1>10, <1>11 DEF Break
<1>12. ASSUME NEW s \in Socket, WriterEnds(s) PROVE OrderInv'
  <2>1. /\ writer[s] = "sending" /\ writer' = [writer EXCEPT ![s] = "ended"]
        /\ UNCHANGED <<queue, pending_messages, out, wire, result, owner>>
    BY <1>12 DEF WriterEnds
  <2>2. (\A p : Pending(p)' = Pending(p)) /\ \A t : Out(t)' = Out(t) /\ Wire(t)' = Wire(t)
    BY <2>1 DEF Pending, Out, Wire
  <2>3. \A t \in Socket : writer'[t] = "none" <=> writer[t] = "none"
    BY <2>1 DEF TypeOK
  <2>4. QueueInv' /\ HeldInv' /\ WireInv' /\ NumberInv'
    BY <2>1, <2>2 DEF OrderInv, QueueInv, BehindTaken, HeldInv, WireInv, NumberInv
  <2>5. SocketInv'
    BY <2>1, <2>3, EventsQueued, EventFields DEF OrderInv, SocketInv
  <2> QED
    BY <2>4, <2>5 DEF OrderInv
<1> QED
  BY <1>1, <1>2, <1>3, <1>4, <1>5, <1>6, <1>7, <1>8, <1>9, <1>10, <1>11, <1>12, SendOrder,
     HandOverOrder, WriteOrder DEF Next, handle_event, vars

-----------------------------------------------------------------------------
(* The properties *)

\* The invariant holds throughout.
THEOREM OrderInvariant == Spec => [](Typed /\ EntryInv /\ OrderInv)
<1>1. Typed /\ EntryInv /\ OrderInv /\ [Next]_vars => Typed' /\ EntryInv' /\ OrderInv'
  BY NextTypeOK, NextSocketsOwned, NextEntryInv, NextOrder DEF Typed
<1> QED
  BY InitTyped, InitEntryInv, InitOrder, <1>1, PTL DEF Spec

\* Every connection carries its messages in the order of the requests (event.rs:256-285),
\* also one that is replaced, or that replaces one, while messages wait.
THEOREM OrderOnSockets == Spec => []InOrderOnSocket
<1>1. OrderInv => InOrderOnSocket
  BY DEF OrderInv, WireInv, Asc, InOrderOnSocket
<1> QED
  BY OrderInvariant, <1>1, PTL

\* Where a message is written.
LEMMA PlacesAre ==
  ASSUME NEW m, NEW t, NEW i
  PROVE  <<t, i>> \in Places(m) <=> t \in Socket /\ i \in DOMAIN wire[t] /\ wire[t][i] = m
BY DEF Places

\* A message that waits is written nowhere yet.
LEMMA WaitingNowhere ==
  ASSUME TypeOK, OrderInv, NEW m \in Message, result[m] = "waiting"
  PROVE  Places(m) = {}
<1>1. \A t \in Socket : \A i \in DOMAIN wire[t] : wire[t][i] # m
  BY DEF OrderInv, WireInv, Wire, ToSet
<1> QED
  BY <1>1 DEF Places

\* The places of a message are the same while no socket is written to.
LEMMA PlacesKept == ASSUME wire' = wire PROVE \A m : Places(m)' = Places(m)
BY DEF Places

\* Writing a message adds its place and no other.
LEMMA PlaceAdded ==
  ASSUME TypeOK, NEW s \in Socket, NEW m \in Message, Places(m) = {},
         wire' = [wire EXCEPT ![s] = Append(wire[s], m)]
  PROVE  /\ Places(m)' = {<<s, Len(wire[s]) + 1>>}
         /\ \A k \in Message : k # m => Places(k)' = Places(k)
<1>1. /\ wire'[s] = Append(wire[s], m) /\ wire[s] \in Seq(Message)
      /\ \A t \in Socket : t # s => wire'[t] = wire[t]
  BY DEF TypeOK
<1>2. /\ DOMAIN wire'[s] = DOMAIN wire[s] \cup {Len(wire[s]) + 1}
      /\ \A i \in DOMAIN wire[s] : wire'[s][i] = wire[s][i]
      /\ wire'[s][Len(wire[s]) + 1] = m
  BY <1>1
<1>3. \A t \in Socket : \A i \in DOMAIN wire[t] : wire[t][i] # m
  BY PlacesAre
<1>4. Places(m)' = {<<s, Len(wire[s]) + 1>>}
  <2>1. \A t \in Socket : {i \in DOMAIN wire'[t] : wire'[t][i] = m}
                            = IF t = s THEN {Len(wire[s]) + 1} ELSE {}
    BY <1>1, <1>2, <1>3
  <2> QED
    BY <2>1 DEF Places
<1>5. ASSUME NEW k \in Message, k # m PROVE Places(k)' = Places(k)
  <2>1. \A t \in Socket : {i \in DOMAIN wire'[t] : wire'[t][i] = k}
                            = {i \in DOMAIN wire[t] : wire[t][i] = k}
    BY <1>1, <1>2, <1>5
  <2> QED
    BY <2>1 DEF Places
<1> QED
  BY <1>4, <1>5

\* Answering waiting requests with a failure is one step of the promise.
LEMMA FailStep ==
  ASSUME TypeOK, NEW S, NEW v \in {"err", "dropped"}, result' = Answer(result, S, v), wire' = wire
  PROVE  Abstract!Fail
<1> DEFINE T == {m \in Message : result[m] = "waiting" /\ m \in S}
<1>1. T \in SUBSET {m \in Message : result[m] = "waiting"}
  OBVIOUS
<1>2. result' = [m \in Message |-> IF m \in T THEN v ELSE result[m]]
  BY DEF Answer, TypeOK
<1>3. UNCHANGED [m \in Message |-> Places(m)]
  BY PlacesKept
<1> QED
  BY <1>1, <1>2, <1>3 DEF Abstract!Fail

\* Whatever the loop and its tasks do, for a message it is a step of Delivery or none.
LEMMA StepImplements ==
  ASSUME Typed, EntryInv, OrderInv, [Next]_vars
  PROVE  [Abstract!Next]_(Abstract!vars)
<1> USE DEF table, sockets, answers, Typed
<1> DEFINE copies == [m \in Message |-> Places(m)]
<1>1. ASSUME result' = result, wire' = wire PROVE UNCHANGED Abstract!vars
  BY <1>1, PlacesKept DEF Abstract!vars
<1>2. ASSUME NEW m \in Message, NEW p \in Peer, send_message(m, p) PROVE Abstract!Request(m)
  <2>1. /\ result[m] = "idle" /\ result' = [result EXCEPT ![m] = "waiting"] /\ wire' = wire
    BY <1>2 DEF send_message, Fresh
  <2> QED
    BY <2>1, PlacesKept DEF Abstract!Request
<1>3. CASE HandleDisconnected \/ HandleConnectionFailed
  BY <1>3, FailStep DEF HandleDisconnected, HandleConnectionFailed, RemoveEntry, Abstract!Next
<1>4. ASSUME NEW s \in Socket, WriteMessage(s) PROVE Abstract!Next
  <2>1. PICK m \in Message : m = Head(out[s])
    BY <1>4, WriteFacts
  <2>2. result[m] = "waiting" /\ Places(m) = {}
    BY <1>4, <2>1, WriteFacts, WaitingNowhere
  <2>3. PICK v \in {"ok", "err"} :
          /\ result' = Answer(result, {m}, v)
          /\ \/ v = "ok" /\ wire' = [wire EXCEPT ![s] = Append(wire[s], m)]
             \/ wire' = wire
    BY <1>4, <2>1, WriteFacts
  <2>4. result' = [result EXCEPT ![m] = v]
    BY <2>2, <2>3 DEF Answer, TypeOK
  <2>5. CASE v = "ok" /\ wire' = [wire EXCEPT ![s] = Append(wire[s], m)]
    <3> DEFINE place == <<s, Len(wire[s]) + 1>>
    <3>1. /\ Places(m)' = {place}
          /\ \A k \in Message : k # m => Places(k)' = Places(k)
      BY <2>2, <2>5, PlaceAdded
    <3> HIDE DEF place
    <3>2. copies' = [copies EXCEPT ![m] = {place}] /\ place \in copies'[m]
      BY <3>1
    <3>3. Abstract!Write(m)
      BY <2>2, <2>4, <2>5, <3>2 DEF Abstract!Write
    <3> QED
      BY <3>3 DEF Abstract!Next
  <2>6. CASE wire' = wire /\ v = "ok"
    <3>1. UNCHANGED copies
      BY <2>6, PlacesKept
    <3> QED
      BY <2>2, <2>4, <2>6, <3>1 DEF Abstract!WriteIntoVoid, Abstract!Next
  <2>7. CASE wire' = wire /\ v = "err"
    BY <2>3, <2>7, FailStep DEF Abstract!Next
  <2> QED
    BY <2>3, <2>5, <2>6, <2>7
<1>5. CASE HandleOutgoingConnectionReq \/ HandleSendMessageReq \/ HandleNewIncomingMessage
           \/ HandleConnectionEstablished
  BY <1>1, <1>5 DEF HandleOutgoingConnectionReq, HandleSendMessageReq, HandleNewIncomingMessage,
                    HandleConnectionEstablished
<1>6. ASSUME NEW p \in Peer, DialSucceeds(p) \/ DialFails(p) \/ Accept(p)
      PROVE  UNCHANGED Abstract!vars
  BY <1>1, <1>6 DEF DialSucceeds, DialFails, Accept, Establish
<1>7. ASSUME NEW s \in Socket, Break(s) \/ ReadMessage(s) \/ ReadEnds(s) \/ WriterEnds(s)
      PROVE  UNCHANGED Abstract!vars
  BY <1>1, <1>7 DEF Break, ReadMessage, ReadEnds, WriterEnds
<1>8. ASSUME NEW r \in Connect, NEW p \in Peer, RequestConnect(r, p) PROVE UNCHANGED Abstract!vars
  BY <1>1, <1>8 DEF RequestConnect
<1>9. CASE UNCHANGED vars
  BY <1>1, <1>9 DEF vars
<1> QED
  BY <1>2, <1>3, <1>4, <1>5, <1>6, <1>7, <1>8, <1>9 DEF Next, handle_event, Abstract!Next

\* The event loop (event.rs:102-286) does for each message what Delivery promises: it
\* is written once at most, and never after its caller was told that it failed.
THEOREM DeliveryImplemented == Spec => ImplementsDelivery
<1>1. Init => Abstract!Init
  BY DEF Init, Abstract!Init, Places
<1>2. Typed /\ EntryInv /\ OrderInv /\ [Next]_vars => [Abstract!Next]_(Abstract!vars)
  BY StepImplements
<1> QED
  BY OrderInvariant, <1>1, <1>2, PTL DEF Spec, ImplementsDelivery, Abstract!Spec

-----------------------------------------------------------------------------
(* Whoever waits is held somewhere *)

\* Every event stays in the queue but the one that is taken.
LEMMA TakeKeeps ==
  ASSUME TypeOK, NEW type, Take(type)
  PROVE  \A e \in ToSet(queue) : e = Head(queue) \/ e \in ToSet(queue')
BY TailKeeps DEF Take, TypeOK

\* A message stays where it is held, while its event stays queued, the entries that
\* hold it stay Connecting and the writers that hold it run.
LEMMA SendHeldKept ==
  ASSUME NEW m, SendHeld(m),
         \A e \in ToSet(queue) : e.type = "SendMessageReq" /\ e.message = m => e \in ToSet(queue'),
         \A p \in Peer : state[p] = "connecting" /\ m \in Pending(p) =>
           state'[p] = "connecting" /\ m \in Pending(p)',
         \A s \in Socket : writer[s] = "sending" /\ m \in Out(s) =>
           writer'[s] = "sending" /\ m \in Out(s)'
  PROVE  SendHeld(m)'
BY DEF SendHeld, Pending, Out

\* A request to connect is still held after a step that keeps the event or entry it is in.
LEMMA ConnectHeldKept ==
  ASSUME NEW r, ConnectHeld(r),
         \A e \in ToSet(queue) : e.type = "OutgoingConnectionReq" /\ e.notify = r => e \in ToSet(queue'),
         \A p \in Peer : state[p] = "connecting" /\ r \in ToSet(notify_on_connect[p]) =>
           state'[p] = "connecting" /\ r \in ToSet(notify_on_connect'[p])
  PROVE  ConnectHeld(r)'
BY DEF ConnectHeld

\* A message that waits after a step was requested in it or was held before; then the
\* step has kept it or handed it on.  One step per action.
LEMMA NextSendHeld ==
  ASSUME Typed, EntryInv, OrderInv, [Next]_vars,
         NEW m \in Message, result[m] = "waiting" => SendHeld(m), result'[m] = "waiting"
  PROVE  SendHeld(m)'
<1> USE DEF table, sockets, answers, Typed
<1>a. ASSUME NEW e \in Event, queue' = Append(queue, e), result'[m] = result[m],
             UNCHANGED <<state, pending_messages, out>>,
             \A s \in Socket : writer[s] = "sending" => writer'[s] = "sending"
      PROVE  SendHeld(m)'
  <2>1. ToSet(queue') = ToSet(queue) \cup {e}
    BY <1>a, AppendKeeps DEF TypeOK
  <2> QED
    BY <1>a, <2>1, SendHeldKept DEF Pending, Out
<1>t. ASSUME NEW type, type # "SendMessageReq", Take(type), result'[m] = result[m],
             UNCHANGED <<pending_messages, out, writer>>,
             \A p \in Peer : state[p] = "connecting" => state'[p] = "connecting"
      PROVE  SendHeld(m)'
  <2>1. \A e \in ToSet(queue) : e.type = "SendMessageReq" => e \in ToSet(queue')
    BY <1>t, TakeKeeps DEF Take
  <2> QED
    BY <1>t, <2>1, SendHeldKept DEF Pending, Out
<1>u. ASSUME UNCHANGED <<queue, state, pending_messages, out, writer, result>>
      PROVE  SendHeld(m)'
  BY <1>u, SendHeldKept DEF Pending, Out
<1>1. ASSUME NEW r \in Connect, NEW p \in Peer, RequestConnect(r, p) PROVE SendHeld(m)'
  BY <1>1, <1>a, EventTypes DEF RequestConnect, Enqueue
<1>2. ASSUME NEW k \in Message, NEW p \in Peer, send_message(k, p) PROVE SendHeld(m)'
  <2> DEFINE e == [type |-> "SendMessageReq", peer |-> p, message |-> k]
  <2>1. /\ e \in Event /\ queue' = Append(queue, e)
        /\ result' = [result EXCEPT ![k] = "waiting"]
        /\ UNCHANGED <<state, pending_messages, out, writer>>
    BY <1>2, EventTypes DEF send_message, Enqueue
  <2>2. CASE k = m
    <3>1. e \in ToSet(queue') /\ e.type = "SendMessageReq" /\ e.message = m
      BY <2>1, <2>2, AppendKeeps DEF TypeOK
    <3> HIDE DEF e
    <3> QED
      BY <3>1 DEF SendHeld
  <2>3. CASE k # m
    BY <2>1, <2>3, <1>a DEF TypeOK
  <2> QED
    BY <2>2, <2>3
<1>3. ASSUME NEW p \in Peer, maybe_connect(p)
      PROVE  /\ \A q \in Peer : state[q] = "connecting" => state'[q] = "connecting"
             /\ state[p] # "connected" => state'[p] = "connecting"
  BY <1>3 DEF maybe_connect, TypeOK
<1>4. CASE HandleOutgoingConnectionReq
  <2>1. Head(queue).peer \in Peer
    BY <1>4, TakeType, EventFields DEF HandleOutgoingConnectionReq
  <2> QED
    BY <1>4, <1>3, <1>t, <2>1 DEF HandleOutgoingConnectionReq
<1>5. CASE HandleSendMessageReq
  <2>1. PICK p \in Peer, k \in Message :
          /\ k = Head(queue).message /\ maybe_connect(p)
          /\ \/ /\ state[p] = "connected" /\ UNCHANGED pending_messages
                /\ out' = [out EXCEPT ![outgoing[p]] = Append(@, k)]
             \/ /\ state[p] # "connected" /\ UNCHANGED out
                /\ pending_messages' = [pending_messages EXCEPT ![p] = Append(@, k)]
    <3>1. Head(queue).peer \in Peer /\ Head(queue).message \in Message
      BY <1>5, TakeLeaves, EventFields DEF HandleSendMessageReq
    <3> QED
      BY <1>5, <3>1 DEF HandleSendMessageReq
  <2>2. /\ Take("SendMessageReq") /\ UNCHANGED <<result, writer>>
    BY <1>5 DEF HandleSendMessageReq
  <2>3. CASE state[p] = "connected"
    <3>1. PICK s \in Socket : s = outgoing[p] /\ writer[s] = "sending"
      BY <2>3 DEF EntryInv, ConnectedOK
    <3>2. /\ Out(s)' = Out(s) \cup {k} /\ \A t \in Socket : t # s => Out(t)' = Out(t)
          /\ \A q : Pending(q)' = Pending(q)
      <4>1. ToSet(Append(out[s], k)) = Out(s) \cup {k}
        BY AppendSet, SetsOfMessages DEF Out
      <4> QED
        BY <2>1, <2>3, <3>1, <4>1 DEF Out, Pending, TypeOK
    <3>3. CASE k = m
      BY <2>2, <3>1, <3>2, <3>3 DEF SendHeld, Out
    <3>4. CASE k # m
      <4>1. \A e \in ToSet(queue) : e.message = m => e \in ToSet(queue')
        BY <2>1, <2>2, <3>4, TakeKeeps
      <4> QED
        BY <2>1, <2>2, <1>3, <3>2, <4>1, SendHeldKept
    <3> QED
      BY <3>3, <3>4
  <2>4. CASE state[p] # "connected"
    <3>1. /\ Pending(p)' = Pending(p) \cup {k} /\ \A q \in Peer : q # p => Pending(q)' = Pending(q)
          /\ \A s : Out(s)' = Out(s)
      <4>1. ToSet(Append(pending_messages[p], k)) = Pending(p) \cup {k}
        BY AppendSet, SetsOfMessages DEF Pending
      <4> QED
        BY <2>1, <2>4, <4>1 DEF Out, Pending, TypeOK
    <3>2. CASE k = m
      BY <2>1, <1>3, <2>4, <3>1, <3>2 DEF SendHeld, Pending
    <3>3. CASE k # m
      <4>1. \A e \in ToSet(queue) : e.message = m => e \in ToSet(queue')
        BY <2>1, <2>2, <3>3, TakeKeeps
      <4> QED
        BY <2>1, <2>2, <1>3, <3>1, <4>1, SendHeldKept
    <3> QED
      BY <3>2, <3>3
  <2> QED
    BY <2>3, <2>4
<1>6. CASE HandleNewIncomingMessage
  BY <1>6, <1>t DEF HandleNewIncomingMessage
<1>7. ASSUME NEW type, type # "SendMessageReq", Take(type), NEW p \in Peer, NEW v \in Outcome,
             RemoveEntry(p, v), UNCHANGED <<out, writer>>
      PROVE  SendHeld(m)'
  <2>1. result' = Answer(result, Pending(p), v)
    BY <1>7 DEF RemoveEntry, Pending
  <2>2. result[m] = "waiting" /\ m \notin Pending(p)
    BY <2>1, AnswerIs DEF Outcome
  <2>3. \A q \in Peer : q # p => state'[q] = state[q] /\ Pending(q)' = Pending(q)
    BY <1>7 DEF RemoveEntry, Pending, TypeOK
  <2>4. \A e \in ToSet(queue) : e.type = "SendMessageReq" => e \in ToSet(queue')
    BY <1>7, TakeKeeps DEF Take
  <2> QED
    BY <1>7, <2>2, <2>3, <2>4, SendHeldKept DEF Out
<1>8. CASE HandleDisconnected \/ HandleConnectionFailed
  <2>1. Head(queue).peer \in Peer
    BY <1>8, TakeType, EventFields DEF HandleDisconnected, HandleConnectionFailed
  <2> QED
    BY <1>7, <1>8, <2>1 DEF HandleDisconnected, HandleConnectionFailed, Outcome
<1>9. CASE HandleConnectionEstablished
  <2>1. PICK p \in Peer, s \in Socket : p = Head(queue).peer /\ s = Head(queue).socket
    BY <1>9, TakeLeaves, EventFields DEF HandleConnectionEstablished
  <2>2. /\ Take("ConnectionEstablished")
        /\ out' = [out EXCEPT ![s] = pending_messages[p]]
        /\ pending_messages' = [pending_messages EXCEPT ![p] = <<>>]
        /\ state' = [state EXCEPT ![p] = "connected"]
        /\ writer' = [writer EXCEPT ![s] = "sending"]
        /\ result' = result
    BY <1>9, <2>1 DEF HandleConnectionEstablished
  <2>3. writer[s] = "none"
    BY <2>1, <2>2, TakeLeaves DEF OrderInv, SocketInv
  <2>4. /\ \A q \in Peer : q # p => state'[q] = state[q] /\ Pending(q)' = Pending(q)
        /\ \A t \in Socket : t # s => writer'[t] = writer[t] /\ Out(t)' = Out(t)
        /\ writer'[s] = "sending" /\ Out(s)' = Pending(p)
    BY <2>2 DEF Pending, Out, TypeOK
  <2>5. \A e \in ToSet(queue) : e.type = "SendMessageReq" => e \in ToSet(queue')
    BY <2>2, TakeKeeps DEF Take
  <2>6. CASE m \in Pending(p)
    BY <2>4, <2>6 DEF SendHeld, Out
  <2>7. CASE m \notin Pending(p)
    BY <2>2, <2>3, <2>4, <2>5, <2>7, SendHeldKept
  <2> QED
    BY <2>6, <2>7
<1>10. ASSUME NEW p \in Peer, DialSucceeds(p) \/ Accept(p) PROVE SendHeld(m)'
  BY <1>10, <1>a, EventTypes DEF DialSucceeds, Accept, Establish, Enqueue
<1>11. ASSUME NEW p \in Peer, DialFails(p) PROVE SendHeld(m)'
  BY <1>11, <1>a, EventTypes DEF DialFails, Enqueue
<1>12. ASSUME NEW s \in Socket, ReadMessage(s) PROVE SendHeld(m)'
  <2>1. owner[s] \in Peer /\ arrived + 1 \in Incoming
    BY <1>12, ConstantsAssumption DEF ReadMessage, SocketsOwned, Incoming, TypeOK
  <2> QED
    BY <1>12, <1>a, <2>1, EventTypes DEF ReadMessage, Enqueue
<1>13. ASSUME NEW s \in Socket, ReadEnds(s) PROVE SendHeld(m)'
  <2>1. owner[s] \in Peer
    BY <1>13 DEF ReadEnds, SocketsOwned
  <2> QED
    BY <1>13, <1>a, <2>1, EventTypes DEF ReadEnds, Enqueue
<1>14. ASSUME NEW s \in Socket, WriteMessage(s) PROVE SendHeld(m)'
  <2>1. PICK k \in Message : k = Head(out[s])
    BY <1>14, WriteFacts
  <2>2. PICK v \in {"ok", "err"} : result' = Answer(result, {k}, v)
    BY <1>14, <2>1, WriteFacts
  <2>3. /\ out[s] # <<>> /\ out' = [out EXCEPT ![s] = Tail(out[s])]
        /\ UNCHANGED <<queue, state, pending_messages, writer>>
    BY <1>14, WriteFacts DEF WriteMessage
  <2>4. result[m] = "waiting" /\ m # k
    <3> DEFINE S == {k}
    <3> HIDE DEF S
    <3>1. result' = Answer(result, S, v) /\ v \in Outcome /\ v # "waiting"
      BY <2>2 DEF S, Outcome
    <3>2. result[m] = "waiting" /\ m \notin S
      BY <3>1, AnswerIs
    <3> QED
      BY <3>2 DEF S
  <2>5. Out(s) = {k} \cup Out(s)' /\ \A t \in Socket : t # s => Out(t)' = Out(t)
    <3>1. Out(s) = {k} \cup ToSet(Tail(out[s]))
      BY <2>1, <2>3, SetsOfMessages, AscTail DEF Out, OrderInv, HeldInv
    <3> QED
      BY <2>3, <3>1 DEF Out, TypeOK
  <2> QED
    BY <2>3, <2>4, <2>5, SendHeldKept DEF Pending
<1>15. ASSUME NEW s \in Socket, WriterEnds(s) PROVE SendHeld(m)'
  <2>1. /\ out[s] = <<>> /\ \A t \in Socket : t # s => writer'[t] = writer[t]
        /\ UNCHANGED <<queue, state, pending_messages, out, result>>
    BY <1>15 DEF WriterEnds, TypeOK
  <2>2. Out(s) = {}
    BY <2>1 DEF Out, ToSet
  <2> QED
    BY <2>1, <2>2, SendHeldKept DEF Pending, Out
<1>16. ASSUME NEW s \in Socket, Break(s) PROVE SendHeld(m)'
  BY <1>16, <1>u DEF Break
<1>17. CASE UNCHANGED vars
  BY <1>17, <1>u DEF vars
<1> QED
  BY <1>1, <1>2, <1>4, <1>5, <1>6, <1>8, <1>9, <1>10, <1>11, <1>12, <1>13, <1>14, <1>15,
     <1>16, <1>17 DEF Next, handle_event

\* The same for the requests to connect, which an entry holds or answers.
LEMMA NextConnectHeld ==
  ASSUME Typed, [Next]_vars,
         NEW r \in Connect, reply[r] = "waiting" => ConnectHeld(r), reply'[r] = "waiting"
  PROVE  ConnectHeld(r)'
<1> USE DEF table, sockets, answers, Typed
<1> DEFINE Told(p) == ToSet(notify_on_connect[p])
<1>a. ASSUME NEW e \in Event, queue' = Append(queue, e), reply'[r] = reply[r],
             UNCHANGED <<state, notify_on_connect>>
      PROVE  ConnectHeld(r)'
  <2>1. ToSet(queue') = ToSet(queue) \cup {e}
    BY <1>a, AppendKeeps DEF TypeOK
  <2> QED
    BY <1>a, <2>1, ConnectHeldKept
<1>t. ASSUME NEW type, type # "OutgoingConnectionReq", Take(type), reply'[r] = reply[r],
             UNCHANGED notify_on_connect,
             \A p \in Peer : state[p] = "connecting" => state'[p] = "connecting"
      PROVE  ConnectHeld(r)'
  <2>1. \A e \in ToSet(queue) : e.type = "OutgoingConnectionReq" => e \in ToSet(queue')
    BY <1>t, TakeKeeps DEF Take
  <2> QED
    BY <1>t, <2>1, ConnectHeldKept
<1>u. ASSUME UNCHANGED <<queue, state, notify_on_connect, reply>> PROVE ConnectHeld(r)'
  BY <1>u, ConnectHeldKept
<1>v. ASSUME NEW S, NEW v \in Outcome, reply' = Answer(reply, S, v)
      PROVE  reply[r] = "waiting" /\ r \notin S
  BY <1>v DEF Answer, TypeOK, Outcome
<1>1. ASSUME NEW k \in Connect, NEW p \in Peer, RequestConnect(k, p) PROVE ConnectHeld(r)'
  <2> DEFINE e == [type |-> "OutgoingConnectionReq", peer |-> p, notify |-> k]
  <2>1. /\ e \in Event /\ queue' = Append(queue, e)
        /\ reply' = [reply EXCEPT ![k] = "waiting"]
        /\ UNCHANGED <<state, notify_on_connect>>
    BY <1>1, EventTypes DEF RequestConnect, Enqueue
  <2>2. CASE k = r
    <3>1. e \in ToSet(queue') /\ e.type = "OutgoingConnectionReq" /\ e.notify = r
      BY <2>1, <2>2, AppendKeeps DEF TypeOK
    <3> HIDE DEF e
    <3> QED
      BY <3>1 DEF ConnectHeld
  <2>3. CASE k # r
    BY <2>1, <2>3, <1>a DEF TypeOK
  <2> QED
    BY <2>2, <2>3
<1>2. ASSUME NEW m \in Message, NEW p \in Peer, send_message(m, p) PROVE ConnectHeld(r)'
  BY <1>2, <1>a, EventTypes DEF send_message, Enqueue
<1>3. ASSUME NEW p \in Peer, maybe_connect(p)
      PROVE  /\ \A q \in Peer : state[q] = "connecting" => state'[q] = "connecting"
             /\ state[p] # "connected" => state'[p] = "connecting"
  BY <1>3 DEF maybe_connect, TypeOK
<1>4. CASE HandleOutgoingConnectionReq
  <2>1. PICK p \in Peer, k \in Connect :
          /\ k = Head(queue).notify /\ maybe_connect(p)
          /\ \/ /\ state[p] = "connected" /\ UNCHANGED notify_on_connect
                /\ reply' = Answer(reply, {k}, "dropped")
             \/ /\ state[p] # "connected" /\ UNCHANGED reply
                /\ notify_on_connect' = [notify_on_connect EXCEPT ![p] = Append(@, k)]
    <3>1. Head(queue).peer \in Peer /\ Head(queue).notify \in Connect
      BY <1>4, TakeType, EventFields DEF HandleOutgoingConnectionReq, Take
    <3> QED
      BY <1>4, <3>1 DEF HandleOutgoingConnectionReq
  <2>2. Take("OutgoingConnectionReq")
    BY <1>4 DEF HandleOutgoingConnectionReq
  <2>3. CASE state[p] = "connected"
    <3>1. reply' = Answer(reply, {k}, "dropped") /\ notify_on_connect' = notify_on_connect
      BY <2>1, <2>3
    <3>2. reply[r] = "waiting" /\ k # r
      <4> DEFINE S == {k}
      <4> HIDE DEF S
      <4>1. reply' = Answer(reply, S, "dropped")
        BY <3>1 DEF S
      <4>2. reply[r] = "waiting" /\ r \notin S
        BY <4>1, <1>v DEF Outcome
      <4> QED
        BY <4>2 DEF S
    <3>3. \A e \in ToSet(queue) : e.notify = r => e \in ToSet(queue')
      BY <2>1, <2>2, <3>2, TakeKeeps
    <3> QED
      BY <2>1, <3>1, <3>2, <3>3, <1>3, ConnectHeldKept
  <2>4. CASE state[p] # "connected"
    <3>1. reply' = reply /\ Told(p)' = Told(p) \cup {k}
          /\ \A q \in Peer : q # p => Told(q)' = Told(q)
      <4>1. ToSet(Append(notify_on_connect[p], k)) = Told(p) \cup {k}
        BY AppendSet DEF TypeOK
      <4> QED
        BY <2>1, <2>4, <4>1 DEF TypeOK
    <3>2. CASE k = r
      BY <2>1, <1>3, <2>4, <3>1, <3>2 DEF ConnectHeld
    <3>3. CASE k # r
      <4>1. \A e \in ToSet(queue) : e.notify = r => e \in ToSet(queue')
        BY <2>1, <2>2, <3>3, TakeKeeps
      <4> QED
        BY <2>1, <1>3, <3>1, <4>1, ConnectHeldKept
    <3> QED
      BY <3>2, <3>3
  <2> QED
    BY <2>3, <2>4
<1>5. CASE HandleSendMessageReq
  <2>1. Head(queue).peer \in Peer
    BY <1>5, TakeType, EventFields DEF HandleSendMessageReq
  <2> QED
    BY <1>5, <1>3, <1>t, <2>1 DEF HandleSendMessageReq
<1>6. CASE HandleNewIncomingMessage
  BY <1>6, <1>t DEF HandleNewIncomingMessage
<1>7. ASSUME NEW type, type # "OutgoingConnectionReq", Take(type), NEW p \in Peer, NEW v \in Outcome,
             reply' = Answer(reply, Told(p), v),
             \A q \in Peer : q # p =>
               state'[q] = state[q] /\ notify_on_connect'[q] = notify_on_connect[q]
      PROVE  ConnectHeld(r)'
  <2>1. reply[r] = "waiting" /\ r \notin Told(p)
    BY <1>7, <1>v
  <2>2. \A e \in ToSet(queue) : e.type = "OutgoingConnectionReq" => e \in ToSet(queue')
    BY <1>7, TakeKeeps DEF Take
  <2> QED
    BY <1>7, <2>1, <2>2, ConnectHeldKept
<1>8. CASE HandleDisconnected \/ HandleConnectionFailed
  <2>1. PICK p \in Peer : p = Head(queue).peer
    BY <1>8, TakeType, EventFields DEF HandleDisconnected, HandleConnectionFailed
  <2>2. PICK v \in {"dropped", "err"} : RemoveEntry(p, v)
    BY <1>8, <2>1 DEF HandleDisconnected, HandleConnectionFailed
  <2>3. v \in Outcome /\ reply' = Answer(reply, Told(p), v)
    BY <2>2 DEF RemoveEntry, Outcome
  <2>4. \A q \in Peer : q # p =>
          state'[q] = state[q] /\ notify_on_connect'[q] = notify_on_connect[q]
    BY <2>2 DEF RemoveEntry, TypeOK
  <2>5. CASE Take("Disconnected")
    BY <2>3, <2>4, <2>5, <1>7
  <2>6. CASE Take("ConnectionFailed")
    BY <2>3, <2>4, <2>6, <1>7
  <2> QED
    BY <1>8, <2>5, <2>6 DEF HandleDisconnected, HandleConnectionFailed
<1>9. CASE HandleConnectionEstablished
  <2>1. PICK p \in Peer : p = Head(queue).peer
    BY <1>9, TakeType, EventFields DEF HandleConnectionEstablished
  <2>2. /\ Take("ConnectionEstablished") /\ reply' = Answer(reply, Told(p), "ok")
        /\ \A q \in Peer : q # p =>
             state'[q] = state[q] /\ notify_on_connect'[q] = notify_on_connect[q]
    BY <1>9, <2>1 DEF HandleConnectionEstablished, TypeOK
  <2> QED
    BY <2>2, <1>7 DEF Outcome
<1>10. ASSUME NEW p \in Peer, DialSucceeds(p) \/ Accept(p) PROVE ConnectHeld(r)'
  BY <1>10, <1>a, EventTypes DEF DialSucceeds, Accept, Establish, Enqueue
<1>11. ASSUME NEW p \in Peer, DialFails(p) PROVE ConnectHeld(r)'
  BY <1>11, <1>a, EventTypes DEF DialFails, Enqueue
<1>12. ASSUME NEW s \in Socket, ReadMessage(s) PROVE ConnectHeld(r)'
  <2>1. owner[s] \in Peer /\ arrived + 1 \in Incoming
    BY <1>12, ConstantsAssumption DEF ReadMessage, SocketsOwned, Incoming, TypeOK
  <2> QED
    BY <1>12, <1>a, <2>1, EventTypes DEF ReadMessage, Enqueue
<1>13. ASSUME NEW s \in Socket, ReadEnds(s) PROVE ConnectHeld(r)'
  <2>1. owner[s] \in Peer
    BY <1>13 DEF ReadEnds, SocketsOwned
  <2> QED
    BY <1>13, <1>a, <2>1, EventTypes DEF ReadEnds, Enqueue
<1>14. ASSUME NEW s \in Socket, WriteMessage(s) \/ WriterEnds(s) \/ Break(s) PROVE ConnectHeld(r)'
  BY <1>14, <1>u DEF WriteMessage, WriterEnds, Break
<1>15. CASE UNCHANGED vars
  BY <1>15, <1>u DEF vars
<1> QED
  BY <1>1, <1>2, <1>4, <1>5, <1>6, <1>8, <1>9, <1>10, <1>11, <1>12, <1>13, <1>14, <1>15
     DEF Next, handle_event

\* The loop and its tasks forget no request (event.rs:60-64, 102-286): whoever waits on a
\* notifier is in the queue, in an entry that an attempt stands behind, or with a writer
\* that runs, whichever connections replace each other or end meanwhile.
THEOREM NothingForgotten == Spec => []NoRequestForgotten
<1>1. Init => NoRequestForgotten
  BY DEF Init, NoRequestForgotten
<1>2. Typed /\ EntryInv /\ OrderInv /\ NoRequestForgotten /\ [Next]_vars => NoRequestForgotten'
  BY NextSendHeld, NextConnectHeld DEF NoRequestForgotten
<1> QED
  BY OrderInvariant, <1>1, <1>2, PTL DEF Spec
=============================================================================
