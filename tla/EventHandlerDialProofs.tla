----------------------- MODULE EventHandlerDialProofs -----------------------
(***************************************************************************)
(* Proofs about the event loop of a node whose peers never open a          *)
(* connection to it (Dialer = {}).                                         *)
(*                                                                         *)
(* The argument is a token that each peer has: the dial task hands it to   *)
(* the event that reports the outcome, that event to the reader of the new *)
(* connection, the reader to the Disconnected event.  Phase(p) says that   *)
(* the token is in one of these places at most and that the table's entry  *)
(* for p agrees with the place.  A peer that dials in brings a second      *)
(* token; EventHandler_dropped.cfg shows what that does.                   *)
(*                                                                         *)
(* For the order across connections (AcrossInv): the socket in an entry is *)
(* the last one made to the peer, an earlier socket carries only earlier   *)
(* messages, and what waits in the entry is behind what any of them        *)
(* carries.                                                                *)
(***************************************************************************)
EXTENDS EventHandlerProofs

Lifecycle == {"ConnectionEstablished", "ConnectionFailed", "Disconnected"}

Token(e, p) == e.type \in Lifecycle /\ e.peer = p

NoToken(q, p) == \A i \in DOMAIN q : ~Token(q[i], p)

OneToken(q, types, p) ==
  \E i \in DOMAIN q :
    /\ Token(q[i], p) /\ q[i].type \in types
    /\ \A j \in DOMAIN q : Token(q[j], p) => j = i

\* Adding an event to a queue that holds no token of p, or one.
LEMMA TokenAppend ==
  ASSUME NEW q \in Seq(Event), NEW e \in Event, NEW p, NEW types
  PROVE  /\ NoToken(q, p) /\ ~Token(e, p) => NoToken(Append(q, e), p)
         /\ NoToken(q, p) /\ Token(e, p) /\ e.type \in types => OneToken(Append(q, e), types, p)
         /\ OneToken(q, types, p) /\ ~Token(e, p) => OneToken(Append(q, e), types, p)
<1>1. /\ DOMAIN Append(q, e) = DOMAIN q \cup {Len(q) + 1}
      /\ Len(q) + 1 \notin DOMAIN q
      /\ \A i \in DOMAIN q : Append(q, e)[i] = q[i]
      /\ Append(q, e)[Len(q) + 1] = e
  OBVIOUS
<1>2. ASSUME NoToken(q, p), ~Token(e, p) PROVE NoToken(Append(q, e), p)
  BY <1>1, <1>2, Zenon DEF NoToken
<1>3. ASSUME NoToken(q, p), Token(e, p), e.type \in types
      PROVE  OneToken(Append(q, e), types, p)
  BY <1>1, <1>3, Zenon DEF NoToken, OneToken
<1>4. ASSUME OneToken(q, types, p), ~Token(e, p) PROVE OneToken(Append(q, e), types, p)
  <2>1. PICK i \in DOMAIN q : /\ Token(q[i], p) /\ q[i].type \in types
                              /\ \A j \in DOMAIN q : Token(q[j], p) => j = i
    BY <1>4 DEF OneToken
  <2>2. i \in DOMAIN Append(q, e) /\ Append(q, e)[i] = q[i]
    BY <1>1
  <2>3. ASSUME NEW j \in DOMAIN Append(q, e), Token(Append(q, e)[j], p) PROVE j = i
    BY <1>1, <1>4, <2>1, <2>3
  <2> QED
    BY <2>1, <2>2, <2>3, Zenon DEF OneToken
<1> QED
  BY <1>2, <1>3, <1>4

\* Taking the first event off a queue that holds no token of p, or one.
LEMMA TokenTail ==
  ASSUME NEW q \in Seq(Event), q # <<>>, NEW p, NEW types
  PROVE  /\ NoToken(q, p) => NoToken(Tail(q), p) /\ ~Token(Head(q), p)
         /\ OneToken(q, types, p) /\ Token(Head(q), p)
              => NoToken(Tail(q), p) /\ Head(q).type \in types
         /\ OneToken(q, types, p) /\ ~Token(Head(q), p) => OneToken(Tail(q), types, p)
<1>1. /\ 1 \in DOMAIN q /\ Head(q) = q[1]
      /\ \A i \in DOMAIN Tail(q) : i + 1 \in DOMAIN q /\ i + 1 # 1 /\ Tail(q)[i] = q[i + 1]
      /\ \A i \in DOMAIN q : i = 1 \/ (i - 1 \in DOMAIN Tail(q) /\ Tail(q)[i - 1] = q[i])
  OBVIOUS
<1>2. ASSUME NoToken(q, p) PROVE NoToken(Tail(q), p) /\ ~Token(Head(q), p)
  BY <1>1, <1>2, Zenon DEF NoToken
<1>3. ASSUME OneToken(q, types, p), Token(Head(q), p)
      PROVE  NoToken(Tail(q), p) /\ Head(q).type \in types
  BY <1>1, <1>3, Zenon DEF NoToken, OneToken
<1>4. ASSUME OneToken(q, types, p), ~Token(Head(q), p) PROVE OneToken(Tail(q), types, p)
  <2>1. PICK i \in DOMAIN q : /\ Token(q[i], p) /\ q[i].type \in types
                              /\ \A j \in DOMAIN q : Token(q[j], p) => j = i
    BY <1>4 DEF OneToken
  <2>2. i - 1 \in DOMAIN Tail(q) /\ Tail(q)[i - 1] = q[i]
    BY <1>1, <1>4, <2>1
  <2>3. ASSUME NEW j \in DOMAIN Tail(q), Token(Tail(q)[j], p) PROVE j = i - 1
    <3>1. j + 1 = i
      BY <1>1, <2>1, <2>3
    <3> QED
      BY <3>1
  <2> QED
    BY <2>1, <2>2, <2>3, Zenon DEF OneToken
<1> QED
  BY <1>2, <1>3, <1>4

-----------------------------------------------------------------------------
(* Where the token of p is, and what the table says of p then *)

Reading(s, p) == owner[s] = p /\ reader[s] = "reading"

NoReader(p) == \A s \in Socket : ~Reading(s, p)

OneReader(p) == \E s \in Socket : Reading(s, p) /\ \A t \in Socket : Reading(t, p) => t = s

Idle(p) == state[p] = "absent" /\ dialing[p] = 0 /\ NoToken(queue, p) /\ NoReader(p)

Dialling(p) == state[p] = "connecting" /\ dialing[p] = 1 /\ NoToken(queue, p) /\ NoReader(p)

Dialled(p) ==
  /\ state[p] = "connecting" /\ dialing[p] = 0 /\ NoReader(p)
  /\ OneToken(queue, {"ConnectionEstablished", "ConnectionFailed"}, p)

Up(p) == state[p] = "connected" /\ dialing[p] = 0 /\ NoToken(queue, p) /\ OneReader(p)

Down(p) ==
  /\ state[p] = "connected" /\ dialing[p] = 0 /\ NoReader(p)
  /\ OneToken(queue, {"Disconnected"}, p)

Phase(p) == Idle(p) \/ Dialling(p) \/ Dialled(p) \/ Up(p) \/ Down(p)

\* Messages wait in the table for a connection that is being made.
PendingOK(p) == state[p] # "connecting" => pending_messages[p] = <<>>

DialInv == \A p \in Peer : Phase(p) /\ PendingOK(p)

\* Initially every peer is idle, and nothing is pending.
LEMMA InitDialInv == Init => DialInv
BY DEF Init, DialInv, Phase, PendingOK, Idle, NoToken, NoReader, Reading

\* An action that neither moves p's token nor touches p's entry.
LEMMA PhaseKept ==
  ASSUME NEW p, Phase(p),
         state'[p] = state[p], dialing'[p] = dialing[p],
         \A s \in Socket : Reading(s, p)' <=> Reading(s, p),
         NoToken(queue, p) => NoToken(queue', p),
         \A types : OneToken(queue, types, p) => OneToken(queue', types, p)
  PROVE  Phase(p)'
<1>1. NoReader(p)' <=> NoReader(p)
  BY DEF NoReader
<1>2. OneReader(p)' <=> OneReader(p)
  BY DEF OneReader
<1>3. Phase(p)' = (\/ state'[p] = "absent" /\ dialing'[p] = 0 /\ NoToken(queue', p) /\ NoReader(p)'
                   \/ state'[p] = "connecting" /\ dialing'[p] = 1 /\ NoToken(queue', p) /\ NoReader(p)'
                   \/ /\ state'[p] = "connecting" /\ dialing'[p] = 0 /\ NoReader(p)'
                      /\ OneToken(queue', {"ConnectionEstablished", "ConnectionFailed"}, p)
                   \/ state'[p] = "connected" /\ dialing'[p] = 0 /\ NoToken(queue', p) /\ OneReader(p)'
                   \/ /\ state'[p] = "connected" /\ dialing'[p] = 0 /\ NoReader(p)'
                      /\ OneToken(queue', {"Disconnected"}, p))
  BY DEF Phase, Idle, Dialling, Dialled, Up, Down
<1> QED
  BY <1>1, <1>2, <1>3 DEF Phase, Idle, Dialling, Dialled, Up, Down

\* A step moves the one token of a peer along the cycle of its phases, or leaves it
\* where it is.  One step per action; only the actions on the peer itself are hard.
LEMMA NextPhase ==
  ASSUME Dialer = {}, TypeOK, SocketsOwned, EntryInv, [Next]_vars, NEW p \in Peer, Phase(p)
  PROVE  Phase(p)'
<1> USE DEF table, sockets
<1>n. ASSUME reader' = reader, NEW s \in Socket PROVE Reading(s, p)' <=> Reading(s, p)
  BY <1>n, OwnerKept, ConstantsAssumption DEF Reading, SocketsOwned
<1>a. ASSUME NEW e \in Event, ~Token(e, p), queue' = Append(queue, e), reader' = reader,
             state'[p] = state[p], dialing'[p] = dialing[p]
      PROVE  Phase(p)'
  <2>1. /\ NoToken(queue, p) => NoToken(queue', p)
        /\ \A types : OneToken(queue, types, p) => OneToken(queue', types, p)
    BY <1>a, TokenAppend DEF TypeOK
  <2> QED
    BY <1>a, <1>n, <2>1, PhaseKept
<1>t. ASSUME NEW t, Take(t), ~Token(Head(queue), p), reader' = reader,
             state'[p] = state[p], dialing'[p] = dialing[p]
      PROVE  Phase(p)'
  <2>1. /\ NoToken(queue, p) => NoToken(queue', p)
        /\ \A types : OneToken(queue, types, p) => OneToken(queue', types, p)
    BY <1>t, TokenTail DEF TypeOK, Take
  <2> QED
    BY <1>t, <1>n, <2>1, PhaseKept
<1>u. ASSUME queue' = queue, reader' = reader, state'[p] = state[p], dialing'[p] = dialing[p]
      PROVE  Phase(p)'
  BY <1>u, <1>n, PhaseKept
<1>l. ASSUME NEW t, Take(t), Token(Head(queue), p)
      PROVE  /\ NoToken(queue', p)
             /\ Dialled(p) \/ Down(p)
             /\ Dialled(p) => t \in {"ConnectionEstablished", "ConnectionFailed"}
             /\ Down(p) => t = "Disconnected"
  <2>1. queue \in Seq(Event) /\ queue # <<>> /\ queue' = Tail(queue) /\ Head(queue).type = t
    BY <1>l DEF TypeOK, Take
  <2>2. ~NoToken(queue, p)
    BY <1>l, <2>1, TokenTail
  <2>3. Dialled(p) \/ Down(p)
    BY <2>2 DEF Phase, Idle, Dialling, Up
  <2>4. Dialled(p) => NoToken(queue', p) /\ t \in {"ConnectionEstablished", "ConnectionFailed"}
    BY <1>l, <2>1, TokenTail DEF Dialled
  <2>5. Down(p) => NoToken(queue', p) /\ t \in {"Disconnected"}
    BY <1>l, <2>1, TokenTail DEF Down
  <2> QED
    BY <2>3, <2>4, <2>5
<1>m. ASSUME NEW t, t \notin Lifecycle, Take(t), reader' = reader,
             NEW q \in Peer, maybe_connect(q)
      PROVE  Phase(p)'
  <2>1. ~Token(Head(queue), p)
    BY <1>m DEF Take, Token
  <2>2. CASE state'[p] = state[p] /\ dialing'[p] = dialing[p]
    BY <1>m, <1>t, <2>1, <2>2
  <2>3. CASE q = p /\ state[p] = "absent"
    <3>1. Idle(p)
      BY <2>3 DEF Phase, Idle, Dialling, Dialled, Up, Down
    <3>2. NoToken(queue', p)
      BY <1>m, <3>1, TokenTail DEF Idle, Take, TypeOK
    <3>3. NoReader(p)'
      BY <1>m, <1>n, <3>1 DEF Idle, NoReader
    <3>4. state'[p] = "connecting" /\ dialing'[p] = 1
      BY <1>m, <2>3, <3>1 DEF maybe_connect, Idle, TypeOK
    <3>5. Dialling(p)'
      BY <3>2, <3>3, <3>4 DEF Dialling
    <3> QED
      BY <3>5 DEF Phase
  <2>4. (state'[p] = state[p] /\ dialing'[p] = dialing[p]) \/ (q = p /\ state[p] = "absent")
    BY <1>m DEF maybe_connect, TypeOK
  <2> QED
    BY <2>2, <2>3, <2>4
<1>r. ASSUME NEW t \in {"ConnectionFailed", "Disconnected"}, Take(t), reader' = reader,
             dialing' = dialing, NEW v, RemoveEntry(Head(queue).peer, v)
      PROVE  Phase(p)'
  <2>1. CASE Head(queue).peer # p
    <3>1. ~Token(Head(queue), p)
      BY <2>1 DEF Token
    <3>2. state'[p] = state[p]
      BY <1>r, <2>1 DEF RemoveEntry, TypeOK
    <3> QED
      BY <1>r, <1>t, <3>1, <3>2
  <2>2. CASE Head(queue).peer = p
    <3>1. Token(Head(queue), p)
      BY <1>r, <2>2 DEF Token, Take, Lifecycle
    <3>2. NoToken(queue', p) /\ dialing[p] = 0 /\ NoReader(p)
      BY <1>r, <1>l, <3>1 DEF Dialled, Down
    <3>3. state'[p] = "absent" /\ dialing'[p] = 0
      BY <1>r, <2>2, <3>2 DEF RemoveEntry, TypeOK
    <3>4. NoReader(p)'
      BY <1>r, <1>n, <3>2 DEF NoReader
    <3>5. Idle(p)'
      BY <3>2, <3>3, <3>4 DEF Idle
    <3> QED
      BY <3>5 DEF Phase
  <2> QED
    BY <2>1, <2>2
<1>d. ASSUME NEW q \in Peer, dialing[q] > 0, dialing' = [dialing EXCEPT ![q] = @ - 1],
             state' = state, reader' = reader,
             NEW e \in Event, queue' = Append(queue, e), e.peer = q,
             e.type \in {"ConnectionEstablished", "ConnectionFailed"}
      PROVE  Phase(p)'
  <2>1. CASE q # p
    <3>1. ~Token(e, p) /\ dialing'[p] = dialing[p]
      BY <1>d, <2>1 DEF Token, TypeOK
    <3> QED
      BY <1>d, <1>a, <3>1
  <2>2. CASE q = p
    <3>1. Dialling(p)
      BY <1>d, <2>2 DEF Phase, Idle, Dialled, Up, Down, TypeOK
    <3>2. Token(e, p)
      BY <1>d, <2>2 DEF Token, Lifecycle
    <3>3. OneToken(queue', {"ConnectionEstablished", "ConnectionFailed"}, p)
      BY <1>d, <3>1, <3>2, TokenAppend DEF Dialling, TypeOK
    <3>4. NoReader(p)'
      BY <1>d, <1>n, <3>1 DEF NoReader, Dialling
    <3>5. state'[p] = "connecting" /\ dialing'[p] = 0
      BY <1>d, <2>2, <3>1 DEF Dialling, TypeOK
    <3>6. Dialled(p)'
      BY <3>3, <3>4, <3>5 DEF Dialled
    <3> QED
      BY <3>6 DEF Phase
  <2> QED
    BY <2>1, <2>2
<1>1. ASSUME NEW r \in Connect, NEW q \in Peer, RequestConnect(r, q) PROVE Phase(p)'
  <2> DEFINE e == [type |-> "OutgoingConnectionReq", peer |-> q, notify |-> r]
  <2>1. e \in Event /\ ~Token(e, p)
    BY EventTypes DEF Token, Lifecycle
  <2> QED
    BY <1>1, <1>a, <2>1 DEF RequestConnect, Enqueue
<1>2. ASSUME NEW m \in Message, NEW q \in Peer, send_message(m, q) PROVE Phase(p)'
  <2> DEFINE e == [type |-> "SendMessageReq", peer |-> q, message |-> m]
  <2>1. e \in Event /\ ~Token(e, p)
    BY EventTypes DEF Token, Lifecycle
  <2> QED
    BY <1>2, <1>a, <2>1 DEF send_message, Enqueue
<1>3. CASE HandleOutgoingConnectionReq
  <2>1. /\ Take("OutgoingConnectionReq") /\ Head(queue).peer \in Peer
        /\ maybe_connect(Head(queue).peer) /\ reader' = reader
    BY <1>3, TakeType, EventFields DEF HandleOutgoingConnectionReq
  <2> QED
    BY <2>1, <1>m DEF Lifecycle
<1>4. CASE HandleSendMessageReq
  <2>1. /\ Take("SendMessageReq") /\ Head(queue).peer \in Peer
        /\ maybe_connect(Head(queue).peer) /\ reader' = reader
    BY <1>4, TakeType, EventFields DEF HandleSendMessageReq
  <2> QED
    BY <2>1, <1>m DEF Lifecycle
<1>5. CASE HandleNewIncomingMessage
  <2>1. /\ Take("NewIncomingMessage") /\ reader' = reader /\ state' = state /\ dialing' = dialing
    BY <1>5 DEF HandleNewIncomingMessage
  <2>2. ~Token(Head(queue), p)
    BY <2>1 DEF Take, Token, Lifecycle
  <2> QED
    BY <2>1, <2>2, <1>t
<1>6. CASE HandleDisconnected
  BY <1>6, <1>r DEF HandleDisconnected
<1>7. CASE HandleConnectionEstablished
  <2>1. PICK q \in Peer, s \in Socket :
          /\ Head(queue).peer = q /\ owner[s] = q /\ owner' = owner
          /\ state' = [state EXCEPT ![q] = "connected"]
          /\ reader' = [reader EXCEPT ![s] = "reading"]
          /\ dialing' = dialing
    <3>1. Head(queue).peer \in Peer /\ Head(queue).socket \in Socket
      BY <1>7, TakeType, EventFields DEF HandleConnectionEstablished
    <3>2. owner[Head(queue).socket] = Head(queue).peer
      BY <1>7, TailKeeps DEF HandleConnectionEstablished, Take, TypeOK, SocketsOwned
    <3> QED
      BY <1>7, <3>1, <3>2 DEF HandleConnectionEstablished
  <2>2. Take("ConnectionEstablished")
    BY <1>7 DEF HandleConnectionEstablished
  <2>3. CASE q # p
    <3>1. \A t \in Socket : Reading(t, p)' <=> Reading(t, p)
      BY <2>1, <2>3 DEF Reading, TypeOK
    <3>2. ~Token(Head(queue), p) /\ queue # <<>> /\ queue' = Tail(queue)
      BY <2>1, <2>2, <2>3 DEF Token, Take
    <3>3. /\ NoToken(queue, p) => NoToken(queue', p)
          /\ \A types : OneToken(queue, types, p) => OneToken(queue', types, p)
      BY <3>2, TokenTail DEF TypeOK
    <3>4. state'[p] = state[p] /\ dialing'[p] = dialing[p]
      BY <2>1, <2>3 DEF TypeOK
    <3> QED
      BY <3>1, <3>3, <3>4, PhaseKept
  <2>4. CASE q = p
    <3>1. Token(Head(queue), p)
      BY <2>1, <2>2, <2>4 DEF Token, Take, Lifecycle
    <3>2. NoToken(queue', p) /\ Dialled(p)
      BY <1>l, <2>2, <3>1
    <3>3. state'[p] = "connected" /\ dialing'[p] = 0
      BY <2>1, <2>4, <3>2 DEF Dialled, TypeOK
    <3>4. Reading(s, p)' /\ \A t \in Socket : Reading(t, p)' => t = s
      BY <2>1, <2>4, <3>2 DEF Reading, Dialled, NoReader, TypeOK
    <3>5. Up(p)'
      BY <3>2, <3>3, <3>4 DEF Up, OneReader
    <3> QED
      BY <3>5 DEF Phase
  <2> QED
    BY <2>3, <2>4
<1>8. CASE HandleConnectionFailed
  BY <1>8, <1>r DEF HandleConnectionFailed
<1>9. ASSUME NEW q \in Peer, DialSucceeds(q) PROVE Phase(p)'
  <2>1. PICK s \in Socket :
          Enqueue([type |-> "ConnectionEstablished", peer |-> q, socket |-> s])
    BY <1>9 DEF DialSucceeds, Establish
  <2> DEFINE e == [type |-> "ConnectionEstablished", peer |-> q, socket |-> s]
  <2>2. e \in Event /\ queue' = Append(queue, e)
        /\ e.peer = q /\ e.type \in {"ConnectionEstablished", "ConnectionFailed"}
    BY <2>1, EventTypes DEF Enqueue
  <2>3. dialing[q] > 0 /\ dialing' = [dialing EXCEPT ![q] = @ - 1] /\ state' = state /\ reader' = reader
    BY <1>9 DEF DialSucceeds, Establish
  <2> HIDE DEF e
  <2> QED
    BY <2>2, <2>3, <1>d
<1>10. ASSUME NEW q \in Peer, DialFails(q) PROVE Phase(p)'
  <2> DEFINE e == [type |-> "ConnectionFailed", peer |-> q]
  <2>1. e \in Event /\ queue' = Append(queue, e)
        /\ e.peer = q /\ e.type \in {"ConnectionEstablished", "ConnectionFailed"}
    BY <1>10, EventTypes DEF DialFails, Enqueue
  <2>2. dialing[q] > 0 /\ dialing' = [dialing EXCEPT ![q] = @ - 1] /\ state' = state /\ reader' = reader
    BY <1>10 DEF DialFails
  <2> HIDE DEF e
  <2> QED
    BY <2>1, <2>2, <1>d
<1>11. ASSUME NEW q \in Peer, Accept(q) PROVE FALSE
  BY <1>11 DEF Accept
<1>12. ASSUME NEW s \in Socket, Break(s) PROVE Phase(p)'
  BY <1>12, <1>u DEF Break
<1>13. ASSUME NEW s \in Socket, WriteMessage(s) PROVE Phase(p)'
  BY <1>13, <1>u DEF WriteMessage
<1>14. ASSUME NEW s \in Socket, WriterEnds(s) PROVE Phase(p)'
  BY <1>14, <1>u DEF WriterEnds
<1>15. ASSUME NEW s \in Socket, ReadMessage(s) PROVE Phase(p)'
  <2>1. PICK q \in Peer, n \in Incoming :
          Enqueue([type |-> "NewIncomingMessage", peer |-> q, message |-> n])
    <3>1. owner[s] \in Peer /\ arrived + 1 \in Incoming
      BY <1>15, ConstantsAssumption DEF ReadMessage, SocketsOwned, Incoming, TypeOK
    <3>2. Enqueue([type |-> "NewIncomingMessage", peer |-> owner[s], message |-> arrived + 1])
      BY <1>15 DEF ReadMessage
    <3> QED
      BY <3>1, <3>2
  <2> DEFINE e == [type |-> "NewIncomingMessage", peer |-> q, message |-> n]
  <2>2. e \in Event /\ ~Token(e, p)
    BY EventTypes DEF Token, Lifecycle
  <2> QED
    BY <1>15, <1>a, <2>1, <2>2 DEF ReadMessage, Enqueue
<1>16. ASSUME NEW s \in Socket, ReadEnds(s) PROVE Phase(p)'
  <2>1. PICK q \in Peer : q = owner[s]
    BY <1>16 DEF ReadEnds, SocketsOwned
  <2> DEFINE e == [type |-> "Disconnected", peer |-> q]
  <2>2. /\ e \in Event /\ queue' = Append(queue, e)
        /\ reader[s] = "reading" /\ reader' = [reader EXCEPT ![s] = "ended"]
        /\ UNCHANGED <<state, dialing, owner>>
    BY <1>16, <2>1, EventTypes DEF ReadEnds, Enqueue
  <2>3. CASE q # p
    <3>1. \A t \in Socket : Reading(t, p)' <=> Reading(t, p)
      BY <2>1, <2>2, <2>3 DEF Reading, TypeOK
    <3>2. ~Token(e, p)
      BY <2>3 DEF Token
    <3>3. /\ NoToken(queue, p) => NoToken(queue', p)
          /\ \A types : OneToken(queue, types, p) => OneToken(queue', types, p)
      BY <2>2, <3>2, TokenAppend DEF TypeOK
    <3> QED
      BY <2>2, <3>1, <3>3, PhaseKept
  <2>4. CASE q = p
    <3>1. Reading(s, p)
      BY <2>1, <2>2, <2>4 DEF Reading
    <3>2. Up(p)
      BY <3>1 DEF Phase, Idle, Dialling, Dialled, Down, NoReader
    <3>3. \A t \in Socket : Reading(t, p) => t = s
      BY <3>1, <3>2 DEF Up, OneReader
    <3>4. NoReader(p)'
      BY <2>2, <3>3 DEF NoReader, Reading, TypeOK
    <3>5. Token(e, p) /\ e.type \in {"Disconnected"}
      BY <2>4 DEF Token, Lifecycle
    <3>6. OneToken(queue', {"Disconnected"}, p)
      BY <2>2, <3>2, <3>5, TokenAppend DEF Up, TypeOK
    <3>7. Down(p)'
      BY <2>2, <3>2, <3>4, <3>6 DEF Up, Down
    <3> QED
      BY <3>7 DEF Phase
  <2> QED
    BY <2>3, <2>4
<1>17. CASE UNCHANGED vars
  BY <1>17, <1>u DEF vars
<1> QED
  BY <1>1, <1>2, <1>3, <1>4, <1>5, <1>6, <1>7, <1>8, <1>9, <1>10, <1>11, <1>12,
     <1>13, <1>14, <1>15, <1>16, <1>17 DEF Next, handle_event

\* Messages wait in a Connecting entry only: all others are handed to a writer.
LEMMA NextPendingOK ==
  ASSUME TypeOK, [Next]_vars, NEW p \in Peer, PendingOK(p)
  PROVE  PendingOK(p)'
<1> USE DEF table, sockets, PendingOK
<1>r. ASSUME NEW q \in Peer, NEW v, RemoveEntry(q, v) PROVE PendingOK(p)'
  BY <1>r DEF RemoveEntry, TypeOK
<1>m. ASSUME NEW q \in Peer, maybe_connect(q)
      PROVE  /\ state'[p] # "connecting" => state[p] # "connecting"
             /\ state[q] # "connected" => state'[q] = "connecting"
             /\ state[q] = "connected" => state' = state
  BY <1>m DEF maybe_connect, TypeOK
<1>1. CASE HandleOutgoingConnectionReq
  <2>1. /\ maybe_connect(Head(queue).peer) /\ Head(queue).peer \in Peer
        /\ pending_messages' = pending_messages
    BY <1>1, TakeType, EventFields DEF HandleOutgoingConnectionReq
  <2> QED
    BY <2>1, <1>m
<1>2. CASE HandleSendMessageReq
  <2>1. PICK q \in Peer :
          /\ maybe_connect(q)
          /\ \/ state[q] = "connected" /\ pending_messages' = pending_messages
             \/ /\ state[q] # "connected"
                /\ \E m : pending_messages' = [pending_messages EXCEPT ![q] = Append(@, m)]
    <3>1. Head(queue).peer \in Peer
      BY <1>2, TakeType, EventFields DEF HandleSendMessageReq
    <3> QED
      BY <1>2, <3>1 DEF HandleSendMessageReq
  <2>2. CASE p = q /\ state[q] # "connected"
    BY <2>1, <2>2, <1>m
  <2>3. CASE ~(p = q /\ state[q] # "connected")
    <3>1. pending_messages'[p] = pending_messages[p]
      BY <2>1, <2>3 DEF TypeOK
    <3> QED
      BY <2>1, <3>1, <1>m
  <2> QED
    BY <2>2, <2>3
<1>3. CASE HandleDisconnected
  BY <1>3, <1>r, TakeType, EventFields DEF HandleDisconnected
<1>4. CASE HandleConnectionFailed
  BY <1>4, <1>r, TakeType, EventFields DEF HandleConnectionFailed
<1>5. CASE HandleConnectionEstablished
  <2>1. PICK q \in Peer : /\ pending_messages' = [pending_messages EXCEPT ![q] = <<>>]
                          /\ state' = [state EXCEPT ![q] = "connected"]
    BY <1>5, TakeType, EventFields DEF HandleConnectionEstablished
  <2> QED
    BY <2>1 DEF TypeOK
<1>6. ASSUME NEW q \in Peer, DialSucceeds(q) \/ Accept(q) PROVE PendingOK(p)'
  BY <1>6 DEF DialSucceeds, Accept, Establish
<1> QED
  BY <1>1, <1>2, <1>3, <1>4, <1>5, <1>6 DEF Next, handle_event, vars, RequestConnect,
     send_message, HandleNewIncomingMessage, DialFails, Break, ReadMessage, ReadEnds,
     WriteMessage, WriterEnds

\* The entry that a Disconnected event takes away is a Connected one.
LEMMA DisconnectedIsUp ==
  ASSUME TypeOK, Take("Disconnected"), NEW p \in Peer, Head(queue).peer = p, Phase(p)
  PROVE  Down(p)
<1>1. queue \in Seq(Event) /\ queue # <<>> /\ Head(queue).type = "Disconnected"
  BY DEF TypeOK, Take
<1>2. Token(Head(queue), p)
  BY <1>1 DEF Token, Lifecycle
<1>3. ~NoToken(queue, p)
  BY <1>1, <1>2, TokenTail
<1>4. ~Dialled(p)
  BY <1>1, <1>2, TokenTail DEF Dialled
<1> QED
  BY <1>3, <1>4 DEF Phase, Idle, Dialling, Up

\* No step drops the notifier of a message: the one arm that could, Disconnected,
\* finds a Connected entry, in which nothing is pending.
LEMMA NextSenderNeverDropped ==
  ASSUME TypeOK, DialInv, SenderNeverDropped, [Next]_vars
  PROVE  SenderNeverDropped'
<1> USE DEF answers, SenderNeverDropped
<1>a. ASSUME NEW S, NEW v \in {"ok", "err"}, result' = Answer(result, S, v)
      PROVE  SenderNeverDropped'
  BY <1>a DEF Answer, TypeOK
<1>1. ASSUME NEW m \in Message, NEW p \in Peer, send_message(m, p) PROVE SenderNeverDropped'
  BY <1>1 DEF send_message, TypeOK
<1>2. CASE HandleDisconnected
  <2>1. PICK p \in Peer : /\ Take("Disconnected") /\ Head(queue).peer = p
                          /\ result' = Answer(result, ToSet(pending_messages[p]), "dropped")
    BY <1>2, TakeType, EventFields DEF HandleDisconnected, RemoveEntry
  <2>2. Down(p) /\ PendingOK(p)
    BY <2>1, DisconnectedIsUp DEF DialInv
  <2>3. ToSet(pending_messages[p]) = {}
    BY <2>2 DEF Down, PendingOK, ToSet
  <2>4. \A m \in Message : result'[m] = result[m]
    BY <2>1, <2>3 DEF Answer, TypeOK
  <2> QED
    BY <2>4
<1>3. CASE HandleConnectionFailed
  BY <1>3, <1>a DEF HandleConnectionFailed, RemoveEntry
<1>4. ASSUME NEW s \in Socket, WriteMessage(s) PROVE SenderNeverDropped'
  BY <1>4, <1>a DEF WriteMessage
<1>5. ASSUME NEW p \in Peer, DialSucceeds(p) \/ Accept(p) PROVE SenderNeverDropped'
  BY <1>5 DEF DialSucceeds, Accept, Establish
<1> QED
  BY <1>1, <1>2, <1>3, <1>4, <1>5 DEF Next, handle_event, vars, RequestConnect,
     HandleOutgoingConnectionReq, HandleSendMessageReq, HandleNewIncomingMessage,
     HandleConnectionEstablished, DialFails, Break, ReadMessage, ReadEnds, WriterEnds

-----------------------------------------------------------------------------

\* On a node that no peer dials, an entry, its dial, its connection and its end follow
\* each other one at a time (event.rs:136-286).
THEOREM DialInvariant == ASSUME Dialer = {} PROVE Spec => [](Typed /\ EntryInv /\ DialInv)
<1>1. Typed /\ EntryInv /\ DialInv /\ [Next]_vars => DialInv'
  BY NextPhase, NextPendingOK DEF Typed, DialInv
<1>2. Init => Typed /\ EntryInv /\ DialInv
  BY InitTyped, InitEntryInv, InitDialInv
<1>3. Typed /\ EntryInv /\ DialInv /\ [Next]_vars => Typed' /\ EntryInv' /\ DialInv'
  BY <1>1, NextTypeOK, NextSocketsOwned, NextEntryInv DEF Typed
<1> QED
  BY <1>2, <1>3, PTL DEF Spec

\* receiver.await.expect("sender can't be dropped") in Event::send_message
\* (event.rs:63) holds on a node whose peers never open a connection to it: only
\* then does a Disconnected event find the entry of the connection that ended.
THEOREM NotifierAlwaysUsed == ASSUME Dialer = {} PROVE Spec => []SenderNeverDropped
<1>1. Init => SenderNeverDropped
  BY DEF Init, SenderNeverDropped
<1>2. Typed /\ DialInv /\ SenderNeverDropped /\ [Next]_vars => SenderNeverDropped'
  BY NextSenderNeverDropped DEF Typed
<1> QED
  BY DialInvariant, <1>1, <1>2, PTL DEF Spec

-----------------------------------------------------------------------------
(* A connection that works stays the one in the table *)

\* Without lines that are not messages, a reader ends with its socket only.
ReadersEndLast == \A s \in Socket : reader[s] = "ended" => ~open[s]

\* A reader ends after its transport, when the lines are messages.
LEMMA NextReadersEndLast ==
  ASSUME Garbler = {}, TypeOK, SocketsOwned, ReadersEndLast, [Next]_vars
  PROVE  ReadersEndLast'
<1> USE DEF sockets, ReadersEndLast
<1>1. CASE HandleConnectionEstablished
  BY <1>1 DEF HandleConnectionEstablished, TypeOK
<1>2. ASSUME NEW p \in Peer, Establish(p) PROVE ReadersEndLast'
  <2>1. PICK s \in Socket : /\ owner[s] = None
                            /\ open' = [open EXCEPT ![s] = TRUE]
                            /\ reader' = reader
    BY <1>2 DEF Establish, Fresh
  <2>2. reader[s] = "none"
    BY <2>1, ConstantsAssumption DEF SocketsOwned
  <2> QED
    BY <2>1, <2>2 DEF TypeOK
<1>3. ASSUME NEW s \in Socket, Break(s) PROVE ReadersEndLast'
  BY <1>3 DEF Break, TypeOK
<1>4. ASSUME NEW s \in Socket, ReadEnds(s) PROVE ReadersEndLast'
  BY <1>4 DEF ReadEnds, TypeOK
<1> QED
  BY <1>1, <1>2, <1>3, <1>4 DEF Next, handle_event, vars, RequestConnect, send_message,
     HandleOutgoingConnectionReq, HandleSendMessageReq, HandleNewIncomingMessage,
     HandleDisconnected, HandleConnectionFailed, DialSucceeds, DialFails, Accept,
     ReadMessage, WriteMessage, WriterEnds

\* A step that takes a Connected entry away or replaces it finds its socket broken.
LEMMA StepKeepsLive ==
  ASSUME Garbler = {}, Typed, EntryInv, DialInv, ReadersEndLast, [Next]_vars,
         NEW p \in Peer, state[p] = "connected", open[outgoing[p]]
  PROVE  outgoing'[p] = outgoing[p]
<1> USE DEF table
<1>1. Up(p)
  <2>1. outgoing[p] \in Socket /\ owner[outgoing[p]] = p /\ reader[outgoing[p]] # "none"
    BY DEF EntryInv, ConnectedOK
  <2>2. reader[outgoing[p]] = "reading"
    BY <2>1 DEF Typed, TypeOK, ReadersEndLast
  <2>3. ~NoReader(p)
    BY <2>1, <2>2 DEF NoReader, Reading
  <2> QED
    BY <2>3 DEF DialInv, Phase, Idle, Dialling, Dialled, Down
<1>2. ASSUME NEW t \in Lifecycle, Take(t) PROVE Head(queue).peer # p
  <2>1. queue \in Seq(Event) /\ queue # <<>> /\ Head(queue).type \in Lifecycle
    BY <1>2 DEF Take, Typed, TypeOK
  <2>2. ~Token(Head(queue), p)
    BY <1>1, <2>1, TokenTail DEF Up
  <2> QED
    BY <2>1, <2>2 DEF Token
<1>3. ASSUME NEW t \in Lifecycle, Take(t), NEW v, RemoveEntry(Head(queue).peer, v)
      PROVE  outgoing'[p] = outgoing[p]
  BY <1>2, <1>3 DEF RemoveEntry, Typed, TypeOK
<1>4. CASE HandleDisconnected
  BY <1>3, <1>4 DEF HandleDisconnected, Lifecycle
<1>5. CASE HandleConnectionFailed
  BY <1>3, <1>5 DEF HandleConnectionFailed, Lifecycle
<1>6. CASE HandleConnectionEstablished
  BY <1>2, <1>6 DEF HandleConnectionEstablished, Lifecycle, Typed, TypeOK
<1>7. ASSUME NEW q \in Peer, DialSucceeds(q) \/ Accept(q) PROVE outgoing'[p] = outgoing[p]
  BY <1>7 DEF DialSucceeds, Accept, Establish
<1> QED
  BY <1>4, <1>5, <1>6, <1>7 DEF Next, handle_event, vars, RequestConnect, send_message,
     HandleOutgoingConnectionReq, HandleSendMessageReq, HandleNewIncomingMessage,
     DialFails, Break, ReadMessage, ReadEnds, WriteMessage, WriterEnds

\* No event removes or replaces a working connection (event.rs:173-204) of a node
\* whose peers neither dial in nor send lines that are not messages.
THEOREM LiveKept == ASSUME Dialer = {}, Garbler = {} PROVE Spec => LiveConnectionKept
<1>1. Init => ReadersEndLast
  BY DEF Init, ReadersEndLast
<1>2. Typed /\ ReadersEndLast /\ [Next]_vars => ReadersEndLast'
  BY NextReadersEndLast DEF Typed
<1>3. Typed /\ EntryInv /\ DialInv /\ ReadersEndLast /\ [Next]_vars =>
        [\A p \in Peer : state[p] = "connected" /\ open[outgoing[p]]
                           => outgoing'[p] = outgoing[p]]_vars
  BY StepKeepsLive
<1> QED
  BY DialInvariant, <1>1, <1>2, <1>3, PTL DEF Spec, LiveConnectionKept

-----------------------------------------------------------------------------
(* The order of the messages across connections *)

\* What a socket has carried or is about to.
Carried(s) == Out(s) \cup Wire(s)

\* Every message of S was requested before every message of T.
AllBefore(S, T) == \A m \in S, k \in T : m < k

\* Of the sockets to p, s was made last.
Latest(p, s) == \A t \in Socket : owner[t] = p => t <= s

\* Sockets are used in turn; the entry of p and the event that announces a connection
\* name the last one to p; an earlier socket carries earlier messages, and what waits
\* in the entry is behind what any socket to p carries.
AcrossInv ==
  /\ \A s, t \in Socket : owner[s] = None /\ owner[t] # None => t < s
  /\ \A p \in Peer : state[p] = "connected" => Latest(p, outgoing[p])
  /\ \A e \in ToSet(queue) : e.type = "ConnectionEstablished" => Latest(e.peer, e.socket)
  /\ \A s, t \in Socket : owner[s] = owner[t] /\ s < t => AllBefore(Carried(s), Carried(t))
  /\ \A p \in Peer, s \in Socket : owner[s] = p => AllBefore(Carried(s), Pending(p))

\* Initially there is no socket.
LEMMA InitAcross == Init => AcrossInv
BY ConstantsAssumption DEF Init, AcrossInv, AllBefore, Carried, Pending, Out, Wire, ToSet

\* A step that makes no socket, announces none and hands no message on.
LEMMA AcrossKept ==
  ASSUME AcrossInv, owner' = owner,
         \A p \in Peer : state'[p] = "connected" =>
           state[p] = "connected" /\ outgoing'[p] = outgoing[p],
         \A e \in ToSet(queue') : e.type = "ConnectionEstablished" => e \in ToSet(queue),
         \A s \in Socket : Carried(s)' \subseteq Carried(s),
         \A p \in Peer : Pending(p)' \subseteq Pending(p)
  PROVE  AcrossInv'
<1>1. \A p, s : Latest(p, s)' <=> Latest(p, s)
  BY DEF Latest
<1>2. \A s, t \in Socket : owner'[s] = owner'[t] /\ s < t => AllBefore(Carried(s)', Carried(t)')
  BY DEF AcrossInv, AllBefore
<1>3. \A p \in Peer, s \in Socket : owner'[s] = p => AllBefore(Carried(s)', Pending(p)')
  BY DEF AcrossInv, AllBefore
<1> QED
  BY <1>1, <1>2, <1>3 DEF AcrossInv, AllBefore

\* A dial brings the next socket, while nothing is announced for its peer.
LEMMA AcrossEstablish ==
  ASSUME TypeOK, SocketsOwned, OrderInv, AcrossInv, NEW p \in Peer, Establish(p),
         state[p] # "connected", NoToken(queue, p)
  PROVE  AcrossInv'
<1>1. PICK s \in Socket :
        /\ owner[s] = None
        /\ \A k \in Socket : k < s => owner[k] # None
        /\ owner' = [owner EXCEPT ![s] = p]
        /\ queue' = Append(queue, [type |-> "ConnectionEstablished", peer |-> p, socket |-> s])
        /\ UNCHANGED <<state, outgoing, pending_messages, out, wire>>
  BY DEF Establish, Fresh, Enqueue, table
<1> DEFINE e == [type |-> "ConnectionEstablished", peer |-> p, socket |-> s]
<1>2. ToSet(queue') = ToSet(queue) \cup {e}
  BY <1>1, EventTypes, AppendKeeps DEF TypeOK
<1>3. (\A q : Pending(q)' = Pending(q)) /\ \A t : Carried(t)' = Carried(t)
  BY <1>1 DEF Pending, Carried, Out, Wire
<1>4. /\ owner'[s] = p /\ p # None
      /\ \A t \in Socket : t # s => owner'[t] = owner[t]
      /\ \A t \in Socket : owner[t] # None => t < s
      /\ Carried(s) = {}
  BY <1>1, ConstantsAssumption
     DEF AcrossInv, OrderInv, SocketInv, Carried, Out, Wire, ToSet, TypeOK
<1>5. \A f \in ToSet(queue) : f.type = "ConnectionEstablished" => f.peer # p
  BY DEF NoToken, Token, Lifecycle, ToSet
<1>6. \A q, t : q # p /\ Latest(q, t) => Latest(q, t)'
  BY <1>4 DEF Latest
<1>7. Latest(p, s)'
  BY <1>4 DEF Latest, Socket
<1>8. \A t, u \in Socket : owner'[t] = None /\ owner'[u] # None => u < t
  BY <1>1, <1>4 DEF AcrossInv, Socket
<1>9. \A q \in Peer : state'[q] = "connected" => Latest(q, outgoing[q])'
  BY <1>1, <1>6 DEF AcrossInv
<1>10. \A f \in ToSet(queue') : f.type = "ConnectionEstablished" => Latest(f.peer, f.socket)'
  BY <1>2, <1>5, <1>6, <1>7 DEF AcrossInv
<1>11. \A t, u \in Socket : owner'[t] = owner'[u] /\ t < u => AllBefore(Carried(t)', Carried(u)')
  BY <1>3, <1>4 DEF AcrossInv, AllBefore
<1>12. \A q \in Peer, t \in Socket : owner'[t] = q => AllBefore(Carried(t)', Pending(q)')
  BY <1>3, <1>4 DEF AcrossInv, AllBefore
<1> QED
  BY <1>8, <1>9, <1>10, <1>11, <1>12 DEF AcrossInv

\* The connection that was announced takes over what waits in the entry.
LEMMA AcrossHandOver ==
  ASSUME TypeOK, SocketsOwned, OrderInv, AcrossInv, HandleConnectionEstablished
  PROVE  AcrossInv'
<1>0. PICK p \in Peer, s \in Socket : p = Head(queue).peer /\ s = Head(queue).socket
  BY TakeLeaves, EventFields DEF HandleConnectionEstablished
<1>1. /\ Take("ConnectionEstablished")
      /\ out' = [out EXCEPT ![s] = pending_messages[p]]
      /\ pending_messages' = [pending_messages EXCEPT ![p] = <<>>]
      /\ state' = [state EXCEPT ![p] = "connected"]
      /\ outgoing' = [outgoing EXCEPT ![p] = s]
      /\ UNCHANGED <<owner, wire>>
  BY <1>0 DEF HandleConnectionEstablished
<1>2. /\ owner[s] = p /\ Latest(p, s)
      /\ \A e \in ToSet(queue') : e \in ToSet(queue)
      /\ out[s] = <<>> /\ wire[s] = <<>>
  BY <1>0, <1>1, TakeLeaves DEF SocketsOwned, OrderInv, SocketInv, AcrossInv
<1>3. /\ Pending(p)' = {} /\ \A q \in Peer : q # p => Pending(q)' = Pending(q)
      /\ Carried(s)' = Pending(p)
      /\ \A t \in Socket : t # s => Carried(t)' = Carried(t)
  BY <1>1, <1>2 DEF Pending, Carried, Out, Wire, TypeOK, ToSet
<1>4. \A q, t : Latest(q, t)' <=> Latest(q, t)
  BY <1>1 DEF Latest
<1>5. \A q \in Peer : state'[q] = "connected" => Latest(q, outgoing[q])'
  BY <1>1, <1>2, <1>4 DEF AcrossInv, TypeOK
<1>6. \A t, u \in Socket : owner'[t] = owner'[u] /\ t < u => AllBefore(Carried(t)', Carried(u)')
  <2> SUFFICES ASSUME NEW t \in Socket, NEW u \in Socket, owner[t] = owner[u], t < u
               PROVE  AllBefore(Carried(t)', Carried(u)')
    BY <1>1
  <2>1. t # s
    BY <1>2 DEF Latest, Socket
  <2>2. CASE u = s
    BY <1>2, <1>3, <2>1, <2>2 DEF AcrossInv
  <2>3. CASE u # s
    BY <1>3, <2>1, <2>3 DEF AcrossInv
  <2> QED
    BY <2>2, <2>3
<1>7. \A q \in Peer, t \in Socket : owner'[t] = q => AllBefore(Carried(t)', Pending(q)')
  <2> SUFFICES ASSUME NEW q \in Peer, NEW t \in Socket, owner[t] = q
               PROVE  AllBefore(Carried(t)', Pending(q)')
    BY <1>1
  <2>1. CASE q = p
    BY <1>3, <2>1 DEF AllBefore
  <2>2. CASE q # p
    BY <1>2, <1>3, <2>2 DEF AcrossInv
  <2> QED
    BY <2>1, <2>2
<1> QED
  BY <1>1, <1>2, <1>4, <1>5, <1>6, <1>7 DEF AcrossInv

\* A new request is behind all that were taken; it goes to the last socket, or waits.
LEMMA AcrossSend ==
  ASSUME TypeOK, EntryInv, DialInv, OrderInv, AcrossInv, HandleSendMessageReq
  PROVE  AcrossInv'
<1>0. PICK p \in Peer, m \in Message : p = Head(queue).peer /\ m = Head(queue).message
  BY TakeLeaves, EventFields DEF HandleSendMessageReq
<1>1. /\ Take("SendMessageReq") /\ maybe_connect(p)
      /\ UNCHANGED <<outgoing, owner, wire>>
      /\ \/ /\ state[p] = "connected" /\ UNCHANGED pending_messages
            /\ out' = [out EXCEPT ![outgoing[p]] = Append(@, m)]
         \/ /\ state[p] # "connected" /\ UNCHANGED out
            /\ pending_messages' = [pending_messages EXCEPT ![p] = Append(@, m)]
  BY <1>0 DEF HandleSendMessageReq
<1>2. /\ BehindTaken(m)
      /\ \A e \in ToSet(queue') : e \in ToSet(queue)
  BY <1>0, <1>1, TakeLeaves DEF OrderInv, QueueInv
<1>3. /\ \A s \in Socket : AllBefore(Carried(s), {m})
      /\ AllBefore(Pending(p), {m})
  BY <1>2 DEF BehindTaken, AllBefore, Carried
<1>4. \A q \in Peer : state'[q] = "connected" => state[q] = "connected"
  BY <1>1 DEF maybe_connect, TypeOK
<1>5. \A q, s : Latest(q, s)' <=> Latest(q, s)
  BY <1>1 DEF Latest
<1>6. CASE state[p] = "connected"
  <2>1. PICK s \in Socket : s = outgoing[p] /\ owner[s] = p
    BY <1>6 DEF EntryInv, ConnectedOK
  <2>2. /\ Latest(p, s) /\ Pending(p) = {}
        /\ \A q : Pending(q)' = Pending(q)
    BY <1>1, <1>6, <2>1 DEF AcrossInv, DialInv, PendingOK, Pending, ToSet
  <2>3. /\ Carried(s)' = Carried(s) \cup {m}
        /\ \A t \in Socket : t # s => Carried(t)' = Carried(t)
    <3>1. ToSet(Append(out[s], m)) = Out(s) \cup {m}
      BY AppendSet, SetsOfMessages DEF Out
    <3> QED
      BY <1>1, <1>6, <2>1, <3>1 DEF Carried, Out, Wire, TypeOK
  <2>4. ASSUME NEW t \in Socket, NEW u \in Socket, owner[t] = owner[u], t < u
        PROVE  AllBefore(Carried(t)', Carried(u)')
    <3>1. t # s
      BY <2>1, <2>2, <2>4 DEF Latest, Socket
    <3>2. AllBefore(Carried(t), Carried(u))
      BY <2>4 DEF AcrossInv
    <3> QED
      BY <1>3, <2>3, <3>1, <3>2 DEF AllBefore
  <2>5. ASSUME NEW q \in Peer, NEW t \in Socket, owner[t] = q
        PROVE  AllBefore(Carried(t)', Pending(q)')
    <3>1. CASE q = p
      BY <2>2, <3>1 DEF AllBefore
    <3>2. CASE q # p
      BY <2>1, <2>2, <2>3, <2>5, <3>2 DEF AcrossInv
    <3> QED
      BY <3>1, <3>2
  <2> QED
    BY <1>1, <1>2, <1>4, <1>5, <2>4, <2>5 DEF AcrossInv
<1>7. CASE state[p] # "connected"
  <2>1. \A s : Carried(s)' = Carried(s)
    BY <1>1, <1>7 DEF Carried, Out, Wire
  <2>2. /\ Pending(p)' = Pending(p) \cup {m}
        /\ \A q \in Peer : q # p => Pending(q)' = Pending(q)
    <3>1. ToSet(Append(pending_messages[p], m)) = Pending(p) \cup {m}
      BY AppendSet, SetsOfMessages DEF Pending
    <3> QED
      BY <1>1, <1>7, <3>1 DEF Pending, TypeOK
  <2>3. ASSUME NEW q \in Peer, NEW t \in Socket, owner[t] = q
        PROVE  AllBefore(Carried(t)', Pending(q)')
    BY <1>3, <2>1, <2>2, <2>3 DEF AcrossInv, AllBefore
  <2> QED
    BY <1>1, <1>2, <1>4, <1>5, <2>1, <2>3 DEF AcrossInv
<1> QED
  BY <1>6, <1>7

\* One step per action; the four that make sockets or move messages are above.
LEMMA NextAcross ==
  ASSUME Dialer = {}, Typed, EntryInv, DialInv, OrderInv, AcrossInv, [Next]_vars
  PROVE  AcrossInv'
<1> USE DEF table, sockets, Typed
<1>a. ASSUME NEW e \in Event, e.type # "ConnectionEstablished", queue' = Append(queue, e),
             UNCHANGED <<state, outgoing, pending_messages, owner, out, wire>>
      PROVE  AcrossInv'
  <2>1. ToSet(queue') = ToSet(queue) \cup {e}
    BY <1>a, AppendKeeps DEF TypeOK
  <2> QED
    BY <1>a, <2>1, AcrossKept DEF Carried, Out, Wire, Pending
<1>k. ASSUME \A e \in ToSet(queue') : e \in ToSet(queue),
             UNCHANGED <<outgoing, pending_messages, owner, out, wire>>,
             \A p \in Peer : state'[p] = "connected" => state[p] = "connected"
      PROVE  AcrossInv'
  BY <1>k, AcrossKept DEF Carried, Out, Wire, Pending
<1>1. ASSUME NEW r \in Connect, NEW p \in Peer, RequestConnect(r, p) PROVE AcrossInv'
  BY <1>1, <1>a, EventTypes DEF RequestConnect, Enqueue
<1>2. ASSUME NEW m \in Message, NEW p \in Peer, send_message(m, p) PROVE AcrossInv'
  BY <1>2, <1>a, EventTypes DEF send_message, Enqueue
<1>3. CASE HandleOutgoingConnectionReq
  <2>1. \A p \in Peer : state'[p] = "connected" => state[p] = "connected"
    BY <1>3, TakeType, EventFields DEF HandleOutgoingConnectionReq, maybe_connect, TypeOK
  <2> QED
    BY <1>3, <1>k, <2>1, TakeLeaves DEF HandleOutgoingConnectionReq
<1>4. CASE HandleNewIncomingMessage
  BY <1>4, <1>k, TakeLeaves DEF HandleNewIncomingMessage
<1>5. ASSUME NEW type, Take(type), NEW p \in Peer, NEW v, RemoveEntry(p, v),
             UNCHANGED <<owner, out, wire>>
      PROVE  AcrossInv'
  <2>1. \A q \in Peer : state'[q] = "connected" =>
          state[q] = "connected" /\ outgoing'[q] = outgoing[q]
    BY <1>5 DEF RemoveEntry, TypeOK
  <2>2. \A q \in Peer : Pending(q)' \subseteq Pending(q)
    BY <1>5 DEF RemoveEntry, Pending, ToSet, TypeOK
  <2> QED
    BY <1>5, <2>1, <2>2, TakeLeaves, AcrossKept DEF Carried, Out, Wire
<1>6. CASE HandleDisconnected \/ HandleConnectionFailed
  <2>1. Head(queue).peer \in Peer
    BY <1>6, TakeType, EventFields DEF HandleDisconnected, HandleConnectionFailed
  <2> QED
    BY <1>5, <1>6, <2>1 DEF HandleDisconnected, HandleConnectionFailed
<1>7. ASSUME NEW p \in Peer, DialSucceeds(p) PROVE AcrossInv'
  <2>1. dialing[p] > 0 /\ Phase(p)
    BY <1>7 DEF DialSucceeds, DialInv
  <2>2. Dialling(p)
    BY <2>1 DEF Phase, Idle, Dialled, Up, Down
  <2> QED
    BY <1>7, <2>2, AcrossEstablish DEF DialSucceeds, Dialling
<1>8. ASSUME NEW p \in Peer, DialFails(p) PROVE AcrossInv'
  BY <1>8, <1>a, EventTypes DEF DialFails, Enqueue
<1>9. ASSUME NEW s \in Socket, ReadMessage(s) PROVE AcrossInv'
  <2>1. owner[s] \in Peer /\ arrived + 1 \in Incoming
    BY <1>9, ConstantsAssumption DEF ReadMessage, SocketsOwned, Incoming, TypeOK
  <2> QED
    BY <1>9, <1>a, <2>1, EventTypes DEF ReadMessage, Enqueue
<1>10. ASSUME NEW s \in Socket, ReadEnds(s) PROVE AcrossInv'
  <2>1. owner[s] \in Peer
    BY <1>10 DEF ReadEnds, SocketsOwned
  <2> QED
    BY <1>10, <1>a, <2>1, EventTypes DEF ReadEnds, Enqueue
<1>11. ASSUME NEW s \in Socket, WriteMessage(s) PROVE AcrossInv'
  <2>1. PICK m \in Message : /\ m = Head(out[s]) /\ out[s] # <<>>
                             /\ out' = [out EXCEPT ![s] = Tail(out[s])]
                             /\ wire' = [wire EXCEPT ![s] = Append(wire[s], m)] \/ wire' = wire
    BY <1>11, WriteFacts
  <2>2. Out(s) = {m} \cup ToSet(Tail(out[s]))
    BY <2>1, SetsOfMessages, AscTail DEF Out, OrderInv, HeldInv
  <2>3. ToSet(Append(wire[s], m)) = Wire(s) \cup {m}
    BY AppendSet, SetsOfMessages DEF Wire
  <2>4. \A t \in Socket : Carried(t)' \subseteq Carried(t)
    BY <2>1, <2>2, <2>3 DEF Carried, Out, Wire, TypeOK
  <2> QED
    BY <1>11, <2>4, AcrossKept DEF WriteMessage, Pending
<1>12. ASSUME NEW s \in Socket, Break(s) \/ WriterEnds(s) PROVE AcrossInv'
  BY <1>12, <1>k DEF Break, WriterEnds
<1>13. CASE UNCHANGED vars
  BY <1>13, <1>k DEF vars
<1> QED
  BY <1>1, <1>2, <1>3, <1>4, <1>6, <1>7, <1>8, <1>9, <1>10, <1>11, <1>12, <1>13,
     AcrossHandOver, AcrossSend DEF Next, handle_event, Accept

\* The messages for a peer are written in the order in which they were requested, over
\* all its connections (event.rs:136-286), when every connection is one that this node
\* dialled: then the next one is announced only when the entry of the last is gone.
THEOREM OrderAcross == ASSUME Dialer = {} PROVE Spec => []WrittenInOrder
<1>1. Init => AcrossInv
  BY InitAcross
<1>2. Typed /\ EntryInv /\ DialInv /\ OrderInv /\ AcrossInv /\ [Next]_vars => AcrossInv'
  BY NextAcross
<1>3. OrderInv /\ AcrossInv => WrittenInOrder
  <2> SUFFICES ASSUME OrderInv, AcrossInv, NEW s \in Socket, NEW t \in Socket,
                      NEW i \in DOMAIN wire[s], NEW j \in DOMAIN wire[t],
                      owner[s] = owner[t], s < t \/ (s = t /\ i < j)
               PROVE  wire[s][i] < wire[t][j]
    BY DEF WrittenInOrder
  <2>1. CASE s = t
    BY <2>1 DEF OrderInv, WireInv, Asc, Socket
  <2>2. CASE s < t
    <3>1. AllBefore(Carried(s), Carried(t))
      BY <2>2 DEF AcrossInv
    <3>2. wire[s][i] \in Carried(s) /\ wire[t][j] \in Carried(t)
      BY DEF Carried, Wire, ToSet
    <3> QED
      BY <3>1, <3>2 DEF AllBefore
  <2> QED
    BY <2>1, <2>2
<1> QED
  BY DialInvariant, OrderInvariant, <1>1, <1>2, <1>3, PTL DEF Spec
=============================================================================
