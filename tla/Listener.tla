------------------------------ MODULE Listener ------------------------------
(***************************************************************************)
(* Connections that come in: the accept loop of src/src/p2p/conn.rs, which *)
(* handshakes with one connection after the other, and the stream of lines *)
(* that a connection becomes, with the clients at the other ends.          *)
(*                                                                         *)
(* A client that runs this code (Lindy) dials, writes its key and then its *)
(* messages, without waiting for anything.  A Stranger writes a key that   *)
(* is not one, or part of it, or nothing; a Garbler's lines are no         *)
(* messages.  Each may close at any time.                                  *)
(*                                                                         *)
(* Abstractions.  A key is KeyLength tokens; message i of a client is a    *)
(* line of two tokens, of which the second has the newline (a cut right    *)
(* before the newline of a last message is left out).  The transport       *)
(* delivers tokens in order and as late as it likes (the client's write is *)
(* their arrival), so a read finds any part of what was sent; a reset      *)
(* takes away what was not read.                                           *)
(***************************************************************************)
EXTENDS Integers, Sequences, FiniteSets

CONSTANTS Lindy, Stranger, Garbler,   \* connections, by who makes them
          KeyLength,                  \* 32 bytes, in small
          MaxLine,                    \* bound: messages that a client sends
          None

ASSUME ListenerAssumption ==
  /\ Lindy \cap (Stranger \cup Garbler) = {} /\ Stranger \cap Garbler = {}
  /\ None \notin Lindy \cup Stranger \cup Garbler
  /\ KeyLength \in Nat \ {0} /\ MaxLine \in Nat

Client == Lindy \cup Stranger \cup Garbler

\* The tokens: part of a key, the first part of message i, its end and the newline.
Key(valid) == [kind |-> "key", part |-> valid]
Half(i) == [kind |-> "half", part |-> i]
End(i) == [kind |-> "end", part |-> i]

VARIABLES
  tcp,       \* a connection: none, open, closed by its client, or reset
  written,   \* how many tokens the client has written
  unread,    \* the tokens that have arrived and were not read
  backlog,   \* connections that the kernel has made and nobody has accepted
  current,   \* the connection that listen handshakes with
  xonly,     \* the part of its key that was read
  stream,    \* connections that were handed to the event loop: up, or ended
  lines      \* the messages that came out of a stream

vars == <<tcp, written, unread, backlog, current, xonly, stream, lines>>

Init ==
  /\ tcp = [c \in Client |-> "none"]
  /\ written = [c \in Client |-> 0]
  /\ unread = [c \in Client |-> <<>>]
  /\ backlog = <<>>
  /\ current = None
  /\ xonly = <<>>
  /\ stream = [c \in Client |-> "none"]
  /\ lines = [c \in Client |-> <<>>]

-----------------------------------------------------------------------------
(* Clients *)

\* What a client writes, token by token: send_handshake, then the framed messages,
\* none of a Stranger's and one of a Garbler's.  Nobody would read more of theirs.
Sends(c) ==
  CASE c \in Stranger -> [i \in 1 .. KeyLength |-> Key(FALSE)]
    [] c \in Garbler -> [i \in 1 .. KeyLength |-> Key(TRUE)] \o <<Half(0), End(1)>>
    [] c \in Lindy -> [i \in 1 .. KeyLength |-> Key(TRUE)] \o
                       [i \in 1 .. 2 * MaxLine |-> IF i % 2 = 0 THEN End(i \div 2)
                                                  ELSE Half((i + 1) \div 2)]

\* The kernel completes a connection before anybody accepts it.
Dial(c) ==
  /\ tcp[c] = "none"
  /\ tcp' = [tcp EXCEPT ![c] = "open"]
  /\ backlog' = Append(backlog, c)
  /\ UNCHANGED <<written, unread, current, xonly, stream, lines>>

Write(c) ==
  /\ tcp[c] = "open" /\ written[c] < Len(Sends(c))
  /\ written' = [written EXCEPT ![c] = @ + 1]
  /\ unread' = [unread EXCEPT ![c] = Append(@, Sends(c)[written[c] + 1])]
  /\ UNCHANGED <<tcp, backlog, current, xonly, stream, lines>>

Close(c) ==
  /\ tcp[c] = "open"
  /\ tcp' = [tcp EXCEPT ![c] = "closed"]
  /\ UNCHANGED <<written, unread, backlog, current, xonly, stream, lines>>

\* The client is killed, or its host: data on the way may be lost.
Reset(c) ==
  /\ tcp[c] = "open"
  /\ tcp' = [tcp EXCEPT ![c] = "reset"]
  /\ \E rest \in {unread[c], <<>>} : unread' = [unread EXCEPT ![c] = rest]
  /\ UNCHANGED <<written, backlog, current, xonly, stream, lines>>

Over(c) == tcp[c] \in {"closed", "reset"}

-----------------------------------------------------------------------------
(* listen *)

\* Mutant: what was read of the previous key is not cleared.
accept_uncleared ==
  /\ current = None /\ backlog # <<>>
  /\ backlog' = Tail(backlog)
  /\ \/ current' = Head(backlog)
     \/ tcp[Head(backlog)] = "reset" /\ current' = None
  /\ UNCHANGED <<tcp, written, unread, xonly, stream, lines>>

\* Take the next connection; one that was reset has no address any more.
accept ==
  /\ current = None /\ backlog # <<>>
  /\ backlog' = Tail(backlog)
  /\ \/ current' = Head(backlog)
     \/ tcp[Head(backlog)] = "reset" /\ current' = None
  /\ xonly' = <<>>
  /\ UNCHANGED <<tcp, written, unread, stream, lines>>

\* Mutant: a handshake that fails leaves the listener with the connection.
recv_handshake_stuck ==
  /\ current # None
  /\ \/ /\ unread[current] # <<>> /\ Len(xonly) < KeyLength
        /\ xonly' = Append(xonly, Head(unread[current]))
        /\ unread' = [unread EXCEPT ![current] = Tail(@)]
        /\ UNCHANGED <<current, stream>>
     \/ /\ Len(xonly) = KeyLength /\ (\A i \in 1 .. KeyLength : xonly[i] = Key(TRUE))
        /\ current' = None
        /\ stream' = [stream EXCEPT ![current] = "up"]
        /\ UNCHANGED <<unread, xonly>>
  /\ UNCHANGED <<tcp, written, backlog, lines>>

\* Mutant: the read of the key takes whatever has arrived with it.
recv_handshake_read ==
  /\ current # None
  /\ \/ /\ unread[current] # <<>> /\ Len(xonly) < KeyLength
        /\ xonly' = xonly \o unread[current]
        /\ unread' = [unread EXCEPT ![current] = <<>>]
        /\ UNCHANGED <<current, stream>>
     \/ /\ Len(xonly) >= KeyLength
        /\ current' = None
        /\ stream' = [stream EXCEPT ![current] =
                        IF \A i \in 1 .. KeyLength : xonly[i] = Key(TRUE) THEN "up" ELSE @]
        /\ UNCHANGED <<unread, xonly>>
     \/ /\ unread[current] = <<>> /\ Len(xonly) < KeyLength /\ Over(current)
        /\ current' = None
        /\ UNCHANGED <<unread, xonly, stream>>
  /\ UNCHANGED <<tcp, written, backlog, lines>>

\* read_exact takes what is there until it has a key, or meets the end of the
\* stream; then the connection is framed, or forgotten (a bad key, no address any
\* more), and the next one is accepted.
recv_handshake ==
  /\ current # None
  /\ \/ /\ unread[current] # <<>> /\ Len(xonly) < KeyLength
        /\ xonly' = Append(xonly, Head(unread[current]))
        /\ unread' = [unread EXCEPT ![current] = Tail(@)]
        /\ UNCHANGED <<current, stream>>
     \/ /\ Len(xonly) = KeyLength
        /\ current' = None
        /\ \/ /\ \A i \in 1 .. KeyLength : xonly[i] = Key(TRUE)
              /\ stream' = [stream EXCEPT ![current] = "up"]
           \/ /\ (\E i \in 1 .. KeyLength : xonly[i] # Key(TRUE)) \/ tcp[current] = "reset"
              /\ UNCHANGED stream
        /\ UNCHANGED <<unread, xonly>>
     \/ /\ unread[current] = <<>> /\ Len(xonly) < KeyLength /\ Over(current)
        /\ current' = None
        /\ UNCHANGED <<unread, xonly, stream>>
  /\ UNCHANGED <<tcp, written, backlog, lines>>

-----------------------------------------------------------------------------
(* The stream of frame_connection *)

\* A line is decoded when its newline is there, and the stream ends at one that is
\* no message.  So is what is left when the transport ends.
next_line(c) ==
  /\ stream[c] = "up"
  /\ LET newlines == {i \in DOMAIN unread[c] : unread[c][i].kind = "end"}
         n == CHOOSE i \in newlines : \A j \in newlines : i <= j
         line == SubSeq(unread[c], 1, n)
     IN  \/ /\ newlines # {} /\ line = <<Half(line[n].part), End(line[n].part)>>
            /\ lines' = [lines EXCEPT ![c] = Append(@, line[n].part)]
            /\ unread' = [unread EXCEPT ![c] = SubSeq(@, n + 1, Len(@))]
            /\ UNCHANGED stream
         \/ /\ \/ newlines # {} /\ line # <<Half(line[n].part), End(line[n].part)>>
               \/ newlines = {} /\ Over(c)
            /\ stream' = [stream EXCEPT ![c] = "ended"]
            /\ UNCHANGED <<unread, lines>>
  /\ UNCHANGED <<tcp, written, backlog, current, xonly>>

Next ==
  \/ \E c \in Client : Dial(c) \/ Write(c) \/ Close(c) \/ Reset(c) \/ next_line(c)
  \/ accept \/ recv_handshake

Spec == Init /\ [][Next]_vars

\* The loop and the streams run, and a client that runs this code writes on.  No client
\* has to dial or to close.
Fairness ==
  /\ WF_vars(accept) /\ WF_vars(recv_handshake)
  /\ \A c \in Client : WF_vars(next_line(c))
  /\ \A c \in Lindy : WF_vars(Write(c))

FairSpec == Spec /\ Fairness

-----------------------------------------------------------------------------
(* Properties *)

TypeOK ==
  /\ tcp \in [Client -> {"none", "open", "closed", "reset"}]
  /\ \A c \in Client : written[c] \in 0 .. Len(Sends(c))
  /\ backlog \in Seq(Client) /\ current \in Client \cup {None}
  /\ Len(xonly) <= KeyLength
  /\ stream \in [Client -> {"none", "up", "ended"}]

\* The whole messages that a client has written, as far as they may be read by now.
Complete(c) == IF written[c] < KeyLength THEN 0 ELSE (written[c] - KeyLength) \div 2

\* However the writes are cut up on the way: a connection becomes a stream only after
\* a whole key, the key and the messages behind it are never mixed up, and a stream
\* that ends has yielded every whole message unless its connection was reset.
LinesIntact ==
  \A c \in Client :
    /\ stream[c] # "none" => c \notin Stranger /\ written[c] >= KeyLength
    /\ lines[c] # <<>> => c \in Lindy
    /\ lines[c] = [i \in 1 .. Len(lines[c]) |-> i]
    /\ stream[c] = "ended" /\ c \in Lindy => Over(c)
    /\ stream[c] = "ended" /\ c \in Lindy /\ tcp[c] = "closed" => Len(lines[c]) = Complete(c)

\* A connection is in one place: the kernel's queue, the listener's hands, the event
\* loop's, or nowhere any more; one that runs this code and is open is never dropped.
NeverDropped ==
  \A c \in Client :
    LET places == Cardinality({i \in DOMAIN backlog : backlog[i] = c})
                  + (IF current = c THEN 1 ELSE 0) + (IF stream[c] # "none" THEN 1 ELSE 0)
    IN  /\ places <= 1
        /\ c \in Lindy /\ tcp[c] = "open" => places = 1 /\ stream[c] # "ended"

\* Whoever dials and stays is served and all its messages are read, unless somebody in
\* front keeps its connection open and never sends a whole key.
ServedUnlessHeldUp ==
  \A c \in Lindy :
    tcp[c] = "open" ~> \/ Len(lines[c]) = MaxLine \/ Over(c)
                       \/ \E s \in Client \ Lindy : [](current = s /\ tcp[s] = "open")
=============================================================================
