--------------------------- MODULE ListenerProofs ---------------------------
(***************************************************************************)
(* The accept loop and its streams, for any clients, any length of a key   *)
(* and any number of messages.                                             *)
(*                                                                         *)
(*   Typed       the type invariant, with what TypeOK leaves to TLC        *)
(*   PlaceInv    a connection is in one place, and open ones are not lost  *)
(*   ReadInv     how far the tokens of a connection were read, and what    *)
(*               was made of them                                          *)
(*                                                                         *)
(* The argument is ReadOf(c): the key is read token by token, a stream has *)
(* read the key and two tokens for every line, and what is unread goes on  *)
(* from there unless a reset took it away (ReadUpTo).  So the next newline *)
(* of a client that runs this code is the second unread token.             *)
(***************************************************************************)
EXTENDS Listener, SequenceTheorems, FiniteSetTheorems, TLAPS

Token == [kind : {"key"}, part : BOOLEAN] \cup [kind : {"half", "end"}, part : Nat]

Typed ==
  /\ tcp \in [Client -> {"none", "open", "closed", "reset"}]
  /\ written \in [Client -> Nat] /\ \A c \in Client : written[c] <= Len(Sends(c))
  /\ unread \in [Client -> Seq(Token)]
  /\ backlog \in Seq(Client) /\ current \in Client \cup {None}
  /\ xonly \in Seq(Token) /\ Len(xonly) <= KeyLength
  /\ stream \in [Client -> {"none", "up", "ended"}]
  /\ lines \in [Client -> Seq(Nat)]

Waits(c) == \E i \in DOMAIN backlog : backlog[i] = c

\* The kernel, the listener or a stream that goes on has the connection.
Placed(c) == Waits(c) \/ current = c \/ stream[c] = "up"

PlaceInv(c) ==
  /\ \A i, j \in DOMAIN backlog : backlog[i] = c /\ backlog[j] = c => i = j
  /\ Waits(c) => current # c /\ stream[c] = "none"
  /\ current = c => stream[c] = "none"
  /\ tcp[c] = "none" => ~Placed(c) /\ stream[c] = "none" /\ written[c] = 0 /\ unread[c] = <<>>
  /\ c \in Lindy /\ tcp[c] = "open" => Placed(c)

\* The first r tokens of c were read; the others are there, or a reset took them.
ReadUpTo(c, r) ==
  /\ r <= written[c]
  /\ \/ /\ r + Len(unread[c]) = written[c]
        /\ \A i \in 1 .. Len(unread[c]) : unread[c][i] = Sends(c)[r + i]
     \/ tcp[c] = "reset" /\ unread[c] = <<>>

ReadOf(c) ==
  IF current = c THEN Len(xonly)
  ELSE IF stream[c] = "none" THEN 0 ELSE KeyLength + 2 * Len(lines[c])

ReadInv(c) ==
  /\ Placed(c) => ReadUpTo(c, ReadOf(c))
  /\ current = c => \A i \in 1 .. Len(xonly) : xonly[i] = Sends(c)[i]
  /\ stream[c] = "none" \/ c \in Garbler => lines[c] = <<>>
  /\ stream[c] # "none" => c \notin Stranger /\ KeyLength + 2 * Len(lines[c]) <= written[c]
  /\ \A i \in 1 .. Len(lines[c]) : lines[c][i] = i
  /\ stream[c] = "ended" /\ c \in Lindy =>
       Over(c) /\ (tcp[c] = "closed" => Len(lines[c]) = Complete(c))

ListenInv == \A c \in Client : PlaceInv(c) /\ ReadInv(c)

-----------------------------------------------------------------------------
(* What the clients send *)

\* A function on the first numbers is a sequence.
LEMMA FunSeq ==
  ASSUME NEW S, NEW n \in Nat, NEW f \in [1 .. n -> S]
  PROVE  f \in Seq(S) /\ Len(f) = n
<1>1. f \in Seq(S)
  BY SeqDef, Zenon
<1> QED
  BY <1>1, LenProperties

\* A stream reads two tokens for a line.
LEMMA Lines ==
  ASSUME NEW k \in Nat, NEW l \in Nat, NEW x \in Nat, NEW w \in Nat, (k + 2 * l) + x = w
  PROVE  /\ x < 2 => ~(w < k) /\ (w - k) \div 2 = l
         /\ \A m \in Nat : x > 0 /\ w <= k + 2 * m => l + 1 \in 1 .. m
         /\ (k + 2 * l) + 1 = k + 2 * (l + 1) - 1 /\ (k + 2 * l) + 2 = k + 2 * (l + 1)
<1>1. ASSUME x < 2 PROVE ~(w < k) /\ (w - k) \div 2 = l
  BY <1>1
<1>2. ASSUME NEW m \in Nat, x > 0, w <= k + 2 * m PROVE l + 1 \in 1 .. m
  BY <1>2
<1> QED
  BY <1>1, <1>2

\* What a stranger sends, the same line over and over, is a sequence of tokens.
LEMMA SendsStranger ==
  ASSUME NEW c \in Stranger
  PROVE  /\ Sends(c) \in Seq(Token) /\ Len(Sends(c)) = KeyLength
         /\ \A i \in 1 .. KeyLength : Sends(c)[i] = Key(FALSE)
<1>1. Sends(c) = [i \in 1 .. KeyLength |-> Key(FALSE)]
  BY ListenerAssumption DEF Sends
<1>2. Key(FALSE) \in Token
  BY DEF Key, Token
<1>3. [i \in 1 .. KeyLength |-> Key(FALSE)] \in [1 .. KeyLength -> Token]
  BY <1>2
<1>4. KeyLength \in Nat
  BY ListenerAssumption
<1>5. Sends(c) \in Seq(Token) /\ Len(Sends(c)) = KeyLength
  <2> DEFINE f == [i \in 1 .. KeyLength |-> Key(FALSE)]
  <2>1. f \in [1 .. KeyLength -> Token] /\ Sends(c) = f
    BY <1>1, <1>3
  <2> HIDE DEF f
  <2> QED
    BY <1>4, <2>1, FunSeq
<1>6. \A i \in 1 .. KeyLength : Sends(c)[i] = Key(FALSE)
  BY <1>1, Zenon
<1> QED
  BY <1>5, <1>6

\* A garbler sends its key and then one line that is no message: half of it, then its end.
LEMMA SendsGarbler ==
  ASSUME NEW c \in Garbler
  PROVE  /\ Sends(c) \in Seq(Token) /\ Len(Sends(c)) = KeyLength + 2
         /\ \A i \in 1 .. KeyLength : Sends(c)[i] = Key(TRUE)
         /\ Sends(c)[KeyLength + 1] = Half(0) /\ Sends(c)[KeyLength + 2] = End(1)
<1> DEFINE k == [i \in 1 .. KeyLength |-> Key(TRUE)]
           l == <<Half(0), End(1)>>
<1>1. Sends(c) = k \o l
  BY ListenerAssumption DEF Sends
<1>2. Key(TRUE) \in Token /\ Half(0) \in Token /\ End(1) \in Token
  BY DEF Key, Half, End, Token
<1>3. k \in Seq(Token) /\ Len(k) = KeyLength /\ \A i \in 1 .. KeyLength : k[i] = Key(TRUE)
  <2>1. k \in [1 .. KeyLength -> Token]
    BY <1>2
  <2> QED
    BY <2>1, FunSeq, ListenerAssumption
<1>4. l \in Seq(Token) /\ Len(l) = 2 /\ l[1] = Half(0) /\ l[2] = End(1)
  BY <1>2
<1> HIDE DEF k, l
<1>5. /\ Sends(c) \in Seq(Token) /\ Len(Sends(c)) = KeyLength + 2
      /\ \A i \in 1 .. KeyLength + 2 : Sends(c)[i] = IF i <= KeyLength THEN k[i] ELSE l[i - KeyLength]
  <2>1. /\ k \o l \in Seq(Token) /\ Len(k \o l) = Len(k) + Len(l)
        /\ \A i \in 1 .. Len(k) + Len(l) : (k \o l)[i] = IF i <= Len(k) THEN k[i] ELSE l[i - Len(k)]
    <3>1. k \in Seq(Token) /\ l \in Seq(Token)
      BY <1>3, <1>4
    <3> QED
      BY <3>1, ConcatProperties, Zenon
  <2> QED
    BY <1>1, <1>3, <1>4, <2>1
<1>6. KeyLength + 1 - KeyLength = 1 /\ KeyLength + 2 - KeyLength = 2
  BY ListenerAssumption
<1>7. KeyLength \in Nat /\ \A i \in 1 .. KeyLength : i \in 1 .. KeyLength + 2 /\ i <= KeyLength
  BY ListenerAssumption
<1>8. /\ KeyLength + 1 \in 1 .. KeyLength + 2 /\ ~(KeyLength + 1 <= KeyLength)
      /\ KeyLength + 2 \in 1 .. KeyLength + 2 /\ ~(KeyLength + 2 <= KeyLength)
  BY ListenerAssumption
<1>9. \A i \in 1 .. KeyLength : Sends(c)[i] = Key(TRUE)
  BY <1>3, <1>5, <1>7
<1>10. Sends(c)[KeyLength + 1] = Half(0)
  BY <1>4, <1>5, <1>6, <1>7, <1>8
<1>11. Sends(c)[KeyLength + 2] = End(1)
  BY <1>4, <1>5, <1>6, <1>7, <1>8
<1> QED
  BY <1>5, <1>9, <1>10, <1>11

\* A client that runs this code sends its key, then one line for each message.
LEMMA SendsLindy ==
  ASSUME NEW c \in Lindy
  PROVE  /\ Sends(c) \in Seq(Token) /\ Len(Sends(c)) = KeyLength + 2 * MaxLine
         /\ \A i \in 1 .. KeyLength : Sends(c)[i] = Key(TRUE)
         /\ \A n \in 1 .. MaxLine : /\ Sends(c)[KeyLength + 2 * n - 1] = Half(n)
                                    /\ Sends(c)[KeyLength + 2 * n] = End(n)
<1> DEFINE k == [i \in 1 .. KeyLength |-> Key(TRUE)]
           f(i) == IF i % 2 = 0 THEN End(i \div 2) ELSE Half((i + 1) \div 2)
           l == [i \in 1 .. 2 * MaxLine |-> f(i)]
<1>1. Sends(c) = k \o l
  BY ListenerAssumption DEF Sends
<1>2. Key(TRUE) \in Token /\ \A n \in Nat : Half(n) \in Token /\ End(n) \in Token
  BY DEF Key, Half, End, Token
<1>3. k \in Seq(Token) /\ Len(k) = KeyLength /\ \A i \in 1 .. KeyLength : k[i] = Key(TRUE)
  <2>1. k \in [1 .. KeyLength -> Token]
    BY <1>2
  <2> QED
    BY <2>1, FunSeq, ListenerAssumption
<1>4. ASSUME NEW i \in 1 .. 2 * MaxLine PROVE f(i) \in Token
  <2>1. i \div 2 \in Nat /\ (i + 1) \div 2 \in Nat
    BY ListenerAssumption
  <2> QED
    BY <1>2, <2>1
<1>5. ASSUME NEW n \in 1 .. MaxLine PROVE f(2 * n - 1) = Half(n) /\ f(2 * n) = End(n)
  <2>1. /\ n \in Nat /\ (2 * n) % 2 = 0 /\ (2 * n) \div 2 = n
        /\ (2 * n - 1) % 2 # 0 /\ ((2 * n - 1) + 1) \div 2 = n
    BY ListenerAssumption
  <2> QED
    BY <2>1
<1> HIDE DEF f
<1>6. l \in Seq(Token) /\ Len(l) = 2 * MaxLine
  <2>1. l \in [1 .. 2 * MaxLine -> Token] /\ 2 * MaxLine \in Nat
    BY <1>4, ListenerAssumption
  <2> HIDE DEF l
  <2> QED
    BY <2>1, FunSeq
<1>7. \A n \in 1 .. MaxLine : l[2 * n - 1] = Half(n) /\ l[2 * n] = End(n)
  <2> TAKE n \in 1 .. MaxLine
  <2>1. 2 * n - 1 \in 1 .. 2 * MaxLine /\ 2 * n \in 1 .. 2 * MaxLine
    BY ListenerAssumption
  <2> QED
    BY <1>5, <2>1
<1> HIDE DEF k, l
<1>9. /\ Sends(c) \in Seq(Token) /\ Len(Sends(c)) = KeyLength + 2 * MaxLine
      /\ \A i \in 1 .. KeyLength + 2 * MaxLine :
           Sends(c)[i] = IF i <= KeyLength THEN k[i] ELSE l[i - KeyLength]
  <2>1. /\ k \o l \in Seq(Token) /\ Len(k \o l) = Len(k) + Len(l)
        /\ \A i \in 1 .. Len(k) + Len(l) : (k \o l)[i] = IF i <= Len(k) THEN k[i] ELSE l[i - Len(k)]
    <3>1. k \in Seq(Token) /\ l \in Seq(Token)
      BY <1>3, <1>6
    <3> QED
      BY <3>1, ConcatProperties, Zenon
  <2> QED
    BY <1>1, <1>3, <1>6, <2>1
<1>8. ASSUME NEW n \in 1 .. MaxLine
      PROVE  Sends(c)[KeyLength + 2 * n - 1] = Half(n) /\ Sends(c)[KeyLength + 2 * n] = End(n)
  <2>1. /\ 2 * n - 1 \in 1 .. 2 * MaxLine /\ 2 * n \in 1 .. 2 * MaxLine
        /\ KeyLength + 2 * n - 1 = KeyLength + (2 * n - 1)
    BY ListenerAssumption
  <2>2. \A j \in 1 .. 2 * MaxLine : Sends(c)[KeyLength + j] = l[j]
    <3> TAKE j \in 1 .. 2 * MaxLine
    <3>1. /\ KeyLength + j \in 1 .. KeyLength + 2 * MaxLine
          /\ ~(KeyLength + j <= KeyLength) /\ (KeyLength + j) - KeyLength = j
      BY ListenerAssumption
    <3> QED
      BY <1>9, <3>1
  <2> QED
    BY <1>7, <2>1, <2>2
<1>10. \A i \in 1 .. KeyLength : i \in 1 .. KeyLength + 2 * MaxLine /\ i <= KeyLength
  BY ListenerAssumption
<1> QED
  BY <1>3, <1>8, <1>9, <1>10

\* So every client sends tokens.
LEMMA SendsTokens ==
  \A c \in Client : Sends(c) \in Seq(Token) /\ Len(Sends(c)) \in Nat
<1> TAKE c \in Client
<1>1. Sends(c) \in Seq(Token)
  BY SendsStranger, SendsGarbler, SendsLindy DEF Client
<1> QED
  BY <1>1, LenProperties

-----------------------------------------------------------------------------
(* The queue of the kernel *)

\* A connection that is new is behind those that wait, and waits once.
LEMMA BacklogAppend ==
  ASSUME backlog \in Seq(Client), NEW d \in Client, backlog' = Append(backlog, d), NEW c
  PROVE  /\ Waits(c)' <=> Waits(c) \/ c = d
         /\ ~Waits(d) /\ (\A i, j \in DOMAIN backlog : backlog[i] = c /\ backlog[j] = c => i = j)
              => \A i, j \in DOMAIN backlog' : backlog'[i] = c /\ backlog'[j] = c => i = j
<1>1. /\ DOMAIN backlog' = DOMAIN backlog \cup {Len(backlog) + 1}
      /\ \A i \in DOMAIN backlog : backlog'[i] = backlog[i]
      /\ backlog'[Len(backlog) + 1] = d
  OBVIOUS
<1> QED
  BY <1>1, Zenon DEF Waits

\* Taking the first connection leaves the others waiting, each once.
LEMMA BacklogTail ==
  ASSUME backlog \in Seq(Client), backlog # <<>>, backlog' = Tail(backlog),
         NEW d, d = Head(backlog),
         \A c \in Client : \A i, j \in DOMAIN backlog : backlog[i] = c /\ backlog[j] = c => i = j
  PROVE  /\ d \in Client /\ Waits(d) /\ ~Waits(d)'
         /\ \A c \in Client : c # d => (Waits(c)' <=> Waits(c))
         /\ \A c \in Client : \A i, j \in DOMAIN backlog' : backlog'[i] = c /\ backlog'[j] = c => i = j
<1>1. /\ 1 \in DOMAIN backlog /\ d = backlog[1] /\ d \in Client
      /\ \A i \in DOMAIN backlog' : i \in Nat /\ i + 1 \in DOMAIN backlog /\ i + 1 # 1
                                    /\ backlog'[i] = backlog[i + 1]
      /\ \A i \in DOMAIN backlog : i = 1 \/ (i - 1 \in DOMAIN backlog' /\ backlog'[i - 1] = backlog[i])
  OBVIOUS
<1>2. ASSUME NEW c \in Client, NEW i \in DOMAIN backlog', NEW j \in DOMAIN backlog',
             backlog'[i] = c, backlog'[j] = c
      PROVE  i = j
  <2>1. i + 1 = j + 1
    BY <1>1, <1>2
  <2> QED
    BY <1>1, <2>1
<1>3. Waits(d)
  BY <1>1 DEF Waits
<1>4. ~Waits(d)'
  BY <1>1, Zenon DEF Waits
<1>5. \A c \in Client : c # d => (Waits(c)' <=> Waits(c))
  <2> TAKE c \in Client
  <2>1. ASSUME c # d, NEW i \in DOMAIN backlog, backlog[i] = c PROVE Waits(c)'
    BY <1>1, <2>1, Zenon DEF Waits
  <2>2. ASSUME NEW i \in DOMAIN backlog', backlog'[i] = c PROVE Waits(c)
    BY <1>1, <2>2, Zenon DEF Waits
  <2> QED
    BY <2>1, <2>2, Zenon DEF Waits
<1> QED
  BY <1>1, <1>2, <1>3, <1>4, <1>5

-----------------------------------------------------------------------------
(* The steps *)

\* At first no connection waits and nothing is read.
LEMMA InitListen == Init => Typed /\ ListenInv
<1> SUFFICES ASSUME Init PROVE Typed /\ ListenInv
  OBVIOUS
<1>1. Typed
  BY SendsTokens, ListenerAssumption DEF Init, Typed
<1>2. ASSUME NEW c \in Client PROVE PlaceInv(c) /\ ReadInv(c)
  BY <1>1, ListenerAssumption DEF Init, PlaceInv, ReadInv, Placed, Waits, Client
<1> QED
  BY <1>1, <1>2 DEF ListenInv

\* A step on another connection leaves this one as it was.
LEMMA OtherKept ==
  ASSUME NEW c \in Client, PlaceInv(c), ReadInv(c),
         tcp'[c] = tcp[c], written'[c] = written[c], unread'[c] = unread[c],
         stream'[c] = stream[c], lines'[c] = lines[c],
         Waits(c)' <=> Waits(c), current' = c <=> current = c, current = c => xonly' = xonly,
         \A i, j \in DOMAIN backlog' : backlog'[i] = c /\ backlog'[j] = c => i = j
  PROVE  PlaceInv(c)' /\ ReadInv(c)'
<1>1. ReadOf(c)' = ReadOf(c) /\ Placed(c)' = Placed(c)
  BY DEF ReadOf, Placed
<1>2. PlaceInv(c)'
  BY <1>1 DEF PlaceInv
<1>3. \A r : ReadUpTo(c, r)' <=> ReadUpTo(c, r)
  BY DEF ReadUpTo
<1>4. Over(c)' = Over(c) /\ Complete(c)' = Complete(c)
  BY DEF Over, Complete
<1>5. ReadInv(c)'
  BY <1>1, <1>3, <1>4 DEF ReadInv
<1> QED
  BY <1>2, <1>5

\* The clients dial, write, close and are cut off.
LEMMA ClientSteps ==
  ASSUME Typed, ListenInv, NEW d \in Client, Dial(d) \/ Write(d) \/ Close(d) \/ Reset(d)
  PROVE  Typed' /\ ListenInv'
<1>0. ASSUME NEW c \in Client PROVE PlaceInv(c) /\ ReadInv(c)
  BY DEF ListenInv
<1>1. CASE Dial(d)
  <2>1. /\ tcp[d] = "none" /\ tcp' = [tcp EXCEPT ![d] = "open"] /\ backlog' = Append(backlog, d)
        /\ UNCHANGED <<written, unread, current, xonly, stream, lines>>
    BY <1>1 DEF Dial
  <2>2. Typed'
    BY <2>1 DEF Typed
  <2>3. ASSUME NEW c \in Client, c # d PROVE PlaceInv(c)' /\ ReadInv(c)'
    <3>1. PlaceInv(d) /\ PlaceInv(c) /\ ReadInv(c)
      BY <1>0
    <3>2. ~Waits(d)
      BY <2>1, <3>1 DEF PlaceInv, Placed
    <3>3. Waits(c)' <=> Waits(c)
      BY <2>1, <2>3, BacklogAppend DEF Typed
    <3>4. \A i, j \in DOMAIN backlog' : backlog'[i] = c /\ backlog'[j] = c => i = j
      <4>1. /\ backlog \in Seq(Client)
            /\ \A i, j \in DOMAIN backlog : backlog[i] = c /\ backlog[j] = c => i = j
        BY <3>1 DEF Typed, PlaceInv
      <4> QED
        BY <2>1, <3>2, <4>1, BacklogAppend
    <3> QED
      BY <2>1, <2>3, <3>1, <3>3, <3>4, OtherKept DEF Typed
  <2>4. PlaceInv(d)' /\ ReadInv(d)'
    <3>1. /\ ~Waits(d) /\ current # d /\ stream[d] = "none" /\ written[d] = 0 /\ unread[d] = <<>>
          /\ \A i, j \in DOMAIN backlog : backlog[i] = d /\ backlog[j] = d => i = j
      BY <1>0, <2>1 DEF PlaceInv, Placed
    <3>2. /\ Waits(d)'
          /\ \A i, j \in DOMAIN backlog' : backlog'[i] = d /\ backlog'[j] = d => i = j
      BY <2>1, <3>1, BacklogAppend DEF Typed
    <3>3. tcp'[d] = "open"
      BY <2>1 DEF Typed
    <3>4. PlaceInv(d)'
      BY <2>1, <3>1, <3>2, <3>3 DEF PlaceInv, Placed
    <3>5. ReadUpTo(d, 0)' /\ ReadOf(d)' = 0
      BY <2>1, <3>1 DEF ReadUpTo, ReadOf
    <3>6. ReadInv(d)'
      BY <1>0, <2>1, <3>1, <3>5 DEF ReadInv
    <3> QED
      BY <3>4, <3>6
  <2> QED
    BY <2>2, <2>3, <2>4 DEF ListenInv
<1>2. CASE Write(d)
  <2>1. /\ tcp[d] = "open" /\ written[d] < Len(Sends(d))
        /\ written' = [written EXCEPT ![d] = @ + 1]
        /\ unread' = [unread EXCEPT ![d] = Append(@, Sends(d)[written[d] + 1])]
        /\ UNCHANGED <<tcp, backlog, current, xonly, stream, lines>>
    BY <1>2 DEF Write
  <2>2. /\ written'[d] = written[d] + 1 /\ written[d] \in Nat
        /\ unread'[d] = Append(unread[d], Sends(d)[written[d] + 1])
        /\ unread[d] \in Seq(Token) /\ Sends(d)[written[d] + 1] \in Token
        /\ \A c \in Client : c # d => written'[c] = written[c] /\ unread'[c] = unread[c]
    BY <2>1, SendsTokens DEF Typed
  <2>3. Typed'
    <3>1. unread' \in [Client -> Seq(Token)]
      BY <2>1, <2>2 DEF Typed
    <3>2. written' \in [Client -> Nat] /\ \A c \in Client : written'[c] <= Len(Sends(c))
      BY <2>1, <2>2, SendsTokens DEF Typed
    <3> QED
      BY <2>1, <3>1, <3>2 DEF Typed
  <2>4. ASSUME NEW c \in Client, c # d PROVE PlaceInv(c)' /\ ReadInv(c)'
    BY <1>0, <2>1, <2>2, <2>4, OtherKept DEF Waits, PlaceInv
  <2>5. PlaceInv(d)'
    BY <1>0, <2>1 DEF PlaceInv, Placed, Waits
  <2>6. ReadInv(d)'
    <3>1. ReadOf(d)' = ReadOf(d) /\ (Placed(d)' <=> Placed(d)) /\ ReadOf(d) \in Nat
      BY <2>1, ListenerAssumption DEF ReadOf, Placed, Waits, Typed
    <3>2. ASSUME ReadUpTo(d, ReadOf(d)) PROVE ReadUpTo(d, ReadOf(d))'
      <4>1. /\ ReadOf(d) + Len(unread[d]) = written[d]
            /\ \A i \in 1 .. Len(unread[d]) : unread[d][i] = Sends(d)[ReadOf(d) + i]
        BY <2>1, <3>2 DEF ReadUpTo
      <4>2. /\ Len(unread'[d]) = Len(unread[d]) + 1
            /\ \A i \in 1 .. Len(unread[d]) : unread'[d][i] = unread[d][i]
            /\ unread'[d][Len(unread[d]) + 1] = Sends(d)[written[d] + 1]
        BY <2>2
      <4>3. \A i \in 1 .. Len(unread'[d]) : unread'[d][i] = Sends(d)[ReadOf(d) + i]
        <5> TAKE i \in 1 .. Len(unread'[d])
        <5>1. i \in 1 .. Len(unread[d]) \/ i = Len(unread[d]) + 1
          BY <2>2, <4>2
        <5>2. ReadOf(d) + (Len(unread[d]) + 1) = written[d] + 1
          BY <2>2, <3>1, <4>1
        <5> QED
          BY <4>1, <4>2, <5>1, <5>2
      <4>4. ReadOf(d) <= written'[d] /\ ReadOf(d) + Len(unread'[d]) = written'[d]
        <5>1. Len(unread[d]) \in Nat /\ written[d] \in Nat /\ ReadOf(d) \in Nat
          BY <2>2, <3>1
        <5>2. /\ written'[d] = written[d] + 1 /\ Len(unread'[d]) = Len(unread[d]) + 1
              /\ ReadOf(d) + Len(unread[d]) = written[d]
          BY <2>2, <4>1, <4>2
        <5> QED
          BY <5>1, <5>2
      <4> QED
        BY <3>1, <4>3, <4>4 DEF ReadUpTo
    <3>3. ~Over(d)
      BY <2>1 DEF Over
    <3>4. KeyLength + 2 * Len(lines[d]) <= written[d] => KeyLength + 2 * Len(lines[d]) <= written'[d]
      BY <2>2, ListenerAssumption DEF Typed
    <3> QED
      BY <1>0, <2>1, <3>1, <3>2, <3>3, <3>4 DEF ReadInv
  <2> QED
    BY <2>3, <2>4, <2>5, <2>6 DEF ListenInv
<1>3. CASE Close(d) \/ Reset(d)
  <2>1. PICK v \in {"closed", "reset"}, rest \in {unread[d], <<>>} :
          /\ tcp[d] = "open" /\ tcp' = [tcp EXCEPT ![d] = v]
          /\ unread' = [unread EXCEPT ![d] = rest] /\ (v = "closed" => rest = unread[d])
          /\ UNCHANGED <<written, backlog, current, xonly, stream, lines>>
    <3>1. unread = [unread EXCEPT ![d] = unread[d]]
      BY DEF Typed
    <3>2. CASE Close(d)
      BY <3>1, <3>2 DEF Close
    <3>3. CASE Reset(d)
      BY <3>3 DEF Reset
    <3> QED
      BY <1>3, <3>2, <3>3
  <2>2. /\ tcp'[d] = v /\ unread'[d] = rest
        /\ \A c \in Client : c # d => tcp'[c] = tcp[c] /\ unread'[c] = unread[c]
    BY <2>1 DEF Typed
  <2>3. Typed'
    <3>1. rest \in Seq(Token)
      <4>1. unread[d] \in Seq(Token) /\ <<>> \in Seq(Token)
        BY DEF Typed
      <4> QED
        BY <4>1
    <3> QED
      BY <2>1, <3>1 DEF Typed
  <2>4. ASSUME NEW c \in Client, c # d PROVE PlaceInv(c)' /\ ReadInv(c)'
    BY <1>0, <2>1, <2>2, <2>4, OtherKept DEF Waits, PlaceInv
  <2>5. PlaceInv(d)'
    BY <1>0, <2>1, <2>2 DEF PlaceInv, Placed, Waits
  <2>6. ReadInv(d)'
    <3>1. ReadOf(d)' = ReadOf(d) /\ (Placed(d)' <=> Placed(d)) /\ Complete(d)' = Complete(d)
      BY <2>1 DEF ReadOf, Placed, Waits, Complete
    <3>2. ReadUpTo(d, ReadOf(d)) => ReadUpTo(d, ReadOf(d))'
      BY <2>1, <2>2, <3>1 DEF ReadUpTo
    <3>3. ~Over(d)
      BY <2>1 DEF Over
    <3> QED
      BY <1>0, <2>1, <3>1, <3>2, <3>3 DEF ReadInv
  <2> QED
    BY <2>3, <2>4, <2>5, <2>6 DEF ListenInv
<1> QED
  BY <1>1, <1>2, <1>3

\* The listener takes the first connection of the queue, or forgets it.
LEMMA AcceptStep == Typed /\ ListenInv /\ accept => Typed' /\ ListenInv'
<1> SUFFICES ASSUME Typed, ListenInv, accept PROVE Typed' /\ ListenInv'
  OBVIOUS
<1>0. ASSUME NEW c \in Client PROVE PlaceInv(c) /\ ReadInv(c)
  BY DEF ListenInv
<1>1. /\ current = None /\ backlog \in Seq(Client) /\ backlog # <<>> /\ backlog' = Tail(backlog)
      /\ xonly' = <<>> /\ UNCHANGED <<tcp, written, unread, stream, lines>>
  BY DEF accept, Typed
<1>2. PICK d \in Client : d = Head(backlog)
  BY <1>1
<1>3. \A c \in Client : \A i, j \in DOMAIN backlog : backlog[i] = c /\ backlog[j] = c => i = j
  BY <1>0 DEF PlaceInv
<1>4. /\ Waits(d) /\ ~Waits(d)'
      /\ \A c \in Client : c # d => (Waits(c)' <=> Waits(c))
      /\ \A c \in Client : \A i, j \in DOMAIN backlog' : backlog'[i] = c /\ backlog'[j] = c => i = j
  BY <1>1, <1>2, <1>3, BacklogTail
<1>5. current' = d \/ (tcp[d] = "reset" /\ current' = None)
  BY <1>2 DEF accept
<1>6. None \notin Client
  BY ListenerAssumption DEF Client
<1>7. Typed'
  <2>1. backlog' \in Seq(Client) /\ xonly' \in Seq(Token) /\ Len(xonly') = 0
    BY <1>1
  <2>2. Len(xonly') <= KeyLength
    BY <2>1, ListenerAssumption
  <2>3. current' \in Client \cup {None}
    BY <1>5
  <2> QED
    BY <1>1, <2>1, <2>2, <2>3 DEF Typed
<1>8. ASSUME NEW c \in Client, c # d PROVE PlaceInv(c)' /\ ReadInv(c)'
  BY <1>0, <1>1, <1>4, <1>5, <1>6, <1>8, OtherKept
<1>9. PlaceInv(d)' /\ ReadInv(d)'
  <2>1. stream[d] = "none" /\ tcp[d] # "none" /\ current # d /\ lines[d] = <<>>
    BY <1>0, <1>4 DEF PlaceInv, ReadInv, Placed
  <2>2. ReadUpTo(d, 0)'
    <3>1. ReadUpTo(d, 0)
      BY <1>0, <1>4, <2>1 DEF ReadInv, Placed, ReadOf
    <3> QED
      BY <1>1, <3>1 DEF ReadUpTo
  <2>3. PlaceInv(d)'
    BY <1>1, <1>4, <1>5, <1>6, <2>1 DEF PlaceInv, Placed
  <2>4. Placed(d)' => ReadOf(d)' = 0
    BY <1>1, <1>4, <1>5, <2>1 DEF Placed, ReadOf
  <2>5. ReadInv(d)'
    BY <1>0, <1>1, <2>1, <2>2, <2>4 DEF ReadInv
  <2> QED
    BY <2>3, <2>5
<1> QED
  BY <1>7, <1>8, <1>9 DEF ListenInv

\* The listener reads a token of the key, hands the connection on or forgets it.
LEMMA HandshakeStep == Typed /\ ListenInv /\ recv_handshake => Typed' /\ ListenInv'
<1> SUFFICES ASSUME Typed, ListenInv, recv_handshake PROVE Typed' /\ ListenInv'
  OBVIOUS
<1>0. ASSUME NEW c \in Client PROVE PlaceInv(c) /\ ReadInv(c)
  BY DEF ListenInv
<1>n. None \notin Client /\ KeyLength \in Nat /\ KeyLength > 0
  BY ListenerAssumption DEF Client
<1>1. PICK d \in Client : d = current
  BY DEF recv_handshake, Typed
<1>2. /\ ~Waits(d) /\ stream[d] = "none" /\ tcp[d] # "none" /\ lines[d] = <<>>
      /\ ReadUpTo(d, Len(xonly))
      /\ \A i \in 1 .. Len(xonly) : xonly[i] = Sends(d)[i]
  BY <1>0, <1>1 DEF PlaceInv, ReadInv, Placed, ReadOf
<1>3. UNCHANGED <<tcp, written, backlog, lines>> /\ \A c : Waits(c)' <=> Waits(c)
  BY DEF recv_handshake, Waits
<1>4. /\ xonly \in Seq(Token) /\ Len(xonly) \in Nat /\ Len(xonly) <= KeyLength
      /\ unread[d] \in Seq(Token) /\ Len(unread[d]) \in Nat /\ written[d] \in Nat
  BY DEF Typed
<1>o. ASSUME \A c \in Client : c # d => unread'[c] = unread[c] /\ stream'[c] = stream[c] /\ current' # c,
             NEW c \in Client, c # d
      PROVE  PlaceInv(c)' /\ ReadInv(c)'
  BY <1>0, <1>1, <1>3, <1>o, OtherKept DEF PlaceInv
<1>5. CASE /\ unread[d] # <<>> /\ Len(xonly) < KeyLength
           /\ xonly' = Append(xonly, Head(unread[d]))
           /\ unread' = [unread EXCEPT ![d] = Tail(@)]
           /\ UNCHANGED <<current, stream>>
  <2>1. /\ Head(unread[d]) \in Token /\ Head(unread[d]) = unread[d][1]
        /\ Tail(unread[d]) \in Seq(Token) /\ Len(Tail(unread[d])) = Len(unread[d]) - 1
        /\ Len(unread[d]) > 0
        /\ \A i \in 1 .. Len(unread[d]) - 1 : Tail(unread[d])[i] = unread[d][i + 1]
    BY <1>4, <1>5
  <2>2. unread'[d] = Tail(unread[d]) /\ \A c \in Client : c # d => unread'[c] = unread[c]
    BY <1>5 DEF Typed
  <2>3. /\ xonly' \in Seq(Token) /\ Len(xonly') = Len(xonly) + 1
        /\ \A i \in 1 .. Len(xonly) : xonly'[i] = xonly[i]
        /\ xonly'[Len(xonly) + 1] = unread[d][1]
    BY <1>4, <1>5, <2>1
  <2>4. Typed'
    <3>1. unread' \in [Client -> Seq(Token)]
      BY <1>5, <2>1 DEF Typed
    <3>2. Len(xonly') <= KeyLength
      BY <1>4, <1>5, <1>n, <2>3
    <3> QED
      BY <1>3, <1>5, <2>3, <3>1, <3>2 DEF Typed
  <2>5. ASSUME NEW c \in Client, c # d PROVE PlaceInv(c)' /\ ReadInv(c)'
    BY <1>1, <1>5, <1>o, <2>2, <2>5
  <2>6. PlaceInv(d)'
    BY <1>0, <1>1, <1>2, <1>3, <1>5 DEF PlaceInv, Placed
  <2>7. /\ Len(xonly) + Len(unread[d]) = written[d]
        /\ \A i \in 1 .. Len(unread[d]) : unread[d][i] = Sends(d)[Len(xonly) + i]
    BY <1>2, <1>5 DEF ReadUpTo
  <2>8. ReadUpTo(d, Len(xonly))'
    <3>1. /\ Len(xonly') \in Nat /\ Len(unread'[d]) \in Nat /\ written'[d] \in Nat
          /\ Len(xonly') + Len(unread'[d]) = written'[d]
      <4>1. Len(unread'[d]) = Len(unread[d]) - 1 /\ written'[d] = written[d]
        BY <1>3, <2>1, <2>2
      <4>2. Len(xonly') = Len(xonly) + 1 /\ Len(unread[d]) > 0
        BY <2>1, <2>3
      <4>3. Len(xonly) + Len(unread[d]) = written[d]
        BY <2>7
      <4>4. Len(xonly) \in Nat /\ Len(unread[d]) \in Nat /\ written[d] \in Nat
        BY <1>4
      <4> QED
        BY <1>1, <2>4, <4>1, <4>2, <4>3, <4>4 DEF Typed
    <3>2. ASSUME NEW i \in 1 .. Len(unread'[d])
          PROVE  unread'[d][i] = Sends(d)[Len(xonly') + i]
      <4>1. /\ i + 1 \in 1 .. Len(unread[d]) /\ i \in 1 .. Len(unread[d]) - 1
            /\ Len(xonly) + (i + 1) = (Len(xonly) + 1) + i
        BY <1>4, <2>1, <2>2
      <4>2. unread[d][i + 1] = Sends(d)[Len(xonly) + (i + 1)]
        BY <2>7, <4>1
      <4> QED
        BY <2>1, <2>2, <2>3, <4>1, <4>2
    <3>3. Len(xonly') <= written'[d]
      BY <3>1
    <3> QED
      BY <3>1, <3>2, <3>3 DEF ReadUpTo
  <2>9. \A i \in 1 .. Len(xonly') : xonly'[i] = Sends(d)[i]
    <3> TAKE i \in 1 .. Len(xonly')
    <3>1. i \in 1 .. Len(xonly) \/ i = Len(xonly) + 1
      BY <1>4, <2>3
    <3>2. unread[d][1] = Sends(d)[Len(xonly) + 1]
      BY <1>4, <2>1, <2>7
    <3> QED
      BY <1>2, <2>3, <3>1, <3>2
  <2>10. ReadInv(d)'
    BY <1>0, <1>1, <1>2, <1>3, <1>5, <2>3, <2>8, <2>9 DEF ReadInv, ReadOf
  <2> QED
    BY <2>4, <2>5, <2>6, <2>10 DEF ListenInv
<1>6. CASE /\ Len(xonly) = KeyLength /\ current' = None
           /\ \A i \in 1 .. KeyLength : xonly[i] = Key(TRUE)
           /\ stream' = [stream EXCEPT ![d] = "up"] /\ UNCHANGED <<unread, xonly>>
  <2>1. stream'[d] = "up" /\ \A c \in Client : c # d => stream'[c] = stream[c]
    BY <1>6 DEF Typed
  <2>2. Typed'
    BY <1>3, <1>6 DEF Typed
  <2>3. ASSUME NEW c \in Client, c # d PROVE PlaceInv(c)' /\ ReadInv(c)'
    BY <1>6, <1>n, <1>o, <2>1, <2>3
  <2>4. d \notin Stranger
    <3>1. Key(TRUE) # Key(FALSE)
      BY DEF Key
    <3>2. 1 \in 1 .. KeyLength
      BY <1>n
    <3> QED
      BY <1>2, <1>6, <3>1, <3>2, SendsStranger
  <2>5. PlaceInv(d)'
    BY <1>0, <1>2, <1>3, <1>6, <1>n, <2>1 DEF PlaceInv, Placed
  <2>6. ReadUpTo(d, KeyLength)' /\ KeyLength <= written[d]
    BY <1>2, <1>3, <1>6 DEF ReadUpTo
  <2>7. Len(lines[d]) = 0 /\ KeyLength + 2 * Len(lines[d]) = KeyLength
    BY <1>2, <1>n
  <2>8. ReadOf(d)' = KeyLength
    BY <1>3, <1>6, <1>n, <2>1, <2>7 DEF ReadOf
  <2>9. ReadInv(d)'
    BY <1>0, <1>2, <1>3, <1>6, <1>n, <2>1, <2>4, <2>6, <2>7, <2>8 DEF ReadInv
  <2> QED
    BY <2>2, <2>3, <2>5, <2>9 DEF ListenInv
<1>7. CASE /\ current' = None /\ UNCHANGED <<unread, xonly, stream>>
           /\ d \in Lindy => tcp[d] # "open"
  <2>1. Typed'
    BY <1>3, <1>7 DEF Typed
  <2>2. ASSUME NEW c \in Client, c # d PROVE PlaceInv(c)' /\ ReadInv(c)'
    BY <1>7, <1>n, <1>o, <2>2
  <2>3. ~Placed(d)'
    BY <1>2, <1>3, <1>7, <1>n DEF Placed
  <2>4. PlaceInv(d)'
    BY <1>0, <1>2, <1>3, <1>7, <1>n, <2>3 DEF PlaceInv
  <2>5. ReadInv(d)'
    BY <1>0, <1>2, <1>3, <1>7, <1>n, <2>3 DEF ReadInv
  <2> QED
    BY <2>1, <2>2, <2>4, <2>5 DEF ListenInv
<1>8. d \in Lindy /\ Len(xonly) = KeyLength => \A i \in 1 .. KeyLength : xonly[i] = Key(TRUE)
  BY <1>2, SendsLindy
<1> QED
  BY <1>1, <1>5, <1>6, <1>7, <1>8 DEF recv_handshake, Over

\* Where a client's first newline is, and what the line says.
LEMMA NextNewline ==
  ASSUME Typed, NEW c \in Client, ReadInv(c), current # c, stream[c] = "up",
         {i \in DOMAIN unread[c] : unread[c][i].kind = "end"} # {}
  PROVE  LET newlines == {i \in DOMAIN unread[c] : unread[c][i].kind = "end"}
             n == CHOOSE i \in newlines : \A j \in newlines : i <= j
         IN  /\ n = 2 /\ Len(unread[c]) >= 2
             /\ c \in Lindy => /\ unread[c][1] = Half(Len(lines[c]) + 1)
                              /\ unread[c][2] = End(Len(lines[c]) + 1)
             /\ c \in Garbler => unread[c][1] = Half(0) /\ unread[c][2] = End(1)
             /\ ReadUpTo(c, KeyLength + 2 * Len(lines[c])) /\ unread[c] # <<>>
<1> DEFINE newlines == {i \in DOMAIN unread[c] : unread[c][i].kind = "end"}
           n == CHOOSE i \in newlines : \A j \in newlines : i <= j
           L == Len(lines[c])
           r == KeyLength + 2 * L
<1>1. /\ L \in Nat /\ KeyLength \in Nat /\ MaxLine \in Nat /\ written[c] \in Nat
      /\ unread[c] \in Seq(Token) /\ Len(unread[c]) \in Nat /\ DOMAIN unread[c] = 1 .. Len(unread[c])
  BY ListenerAssumption DEF Typed
<1>2. ReadUpTo(c, r) /\ unread[c] # <<>> /\ c \notin Stranger /\ (c \in Garbler => L = 0)
  BY DEF ReadInv, Placed, ReadOf
<1>3. /\ r + Len(unread[c]) = written[c] /\ written[c] <= Len(Sends(c))
      /\ \A i \in 1 .. Len(unread[c]) : unread[c][i] = Sends(c)[r + i]
  BY <1>2 DEF ReadUpTo, Typed
<1>a. L \in Nat /\ KeyLength \in Nat /\ MaxLine \in Nat /\ written[c] \in Nat /\ Len(unread[c]) \in Nat
  BY <1>1
<1>b. r + Len(unread[c]) = written[c]
  BY <1>3
<1>4. \A i : Half(i).kind # "end" /\ End(i).kind = "end"
  BY DEF Half, End
<1>5. /\ Len(unread[c]) > 0
      /\ c \in Lindy => unread[c][1] = Half(L + 1)
      /\ c \in Garbler => unread[c][1] = Half(0)
  <2>1. Len(unread[c]) > 0
    BY <1>1, <1>2
  <2>a. 1 \in 1 .. Len(unread[c])
    BY <1>a, <2>1
  <2>2. CASE c \in Lindy
    <3>1. L + 1 \in 1 .. MaxLine /\ r + 1 = KeyLength + 2 * (L + 1) - 1
      <4>1. written[c] <= KeyLength + 2 * MaxLine
        BY <1>3, <2>2, SendsLindy
      <4> QED
        BY <1>a, <1>b, <2>1, <4>1, Lines DEF Typed
    <3>2. unread[c][1] = Sends(c)[r + 1]
      BY <1>3, <2>a, Zenon
    <3> QED
      BY <2>1, <2>2, <3>1, <3>2, SendsLindy, ListenerAssumption
  <2>3. CASE c \in Garbler
    <3>1. unread[c][1] = Sends(c)[KeyLength + 1]
      BY <1>1, <1>2, <1>3, <2>1, <2>3
    <3> QED
      BY <2>1, <2>3, <3>1, SendsGarbler, ListenerAssumption
  <2> QED
    BY <1>2, <2>2, <2>3 DEF Client
<1>6. 1 \notin newlines
  BY <1>2, <1>4, <1>5 DEF Client
<1>7. Len(unread[c]) >= 2
  BY <1>1, <1>6
<1>8. /\ c \in Lindy => unread[c][2] = End(L + 1)
      /\ c \in Garbler => unread[c][2] = End(1)
  <2>2. CASE c \in Lindy
    <3>1. L + 1 \in 1 .. MaxLine /\ r + 2 = KeyLength + 2 * (L + 1)
      <4>1. written[c] <= KeyLength + 2 * MaxLine
        BY <1>3, <2>2, SendsLindy
      <4>2. Len(unread[c]) > 0
        BY <1>1, <1>7
      <4> QED
        BY <1>a, <1>b, <4>1, <4>2, Lines DEF Typed
    <3>2. unread[c][2] = Sends(c)[r + 2]
      BY <1>1, <1>3, <1>7
    <3> QED
      BY <2>2, <3>1, <3>2, SendsLindy, ListenerAssumption
  <2>3. CASE c \in Garbler
    <3>1. unread[c][2] = Sends(c)[KeyLength + 2]
      BY <1>1, <1>2, <1>3, <1>7, <2>3
    <3> QED
      BY <2>3, <3>1, SendsGarbler, ListenerAssumption
  <2> QED
    BY <1>2, <2>2, <2>3 DEF Client
<1>9. 2 \in newlines
  BY <1>1, <1>2, <1>4, <1>7, <1>8 DEF Client
<1>10. \A j \in newlines : j \in Nat /\ 2 <= j
  BY <1>1, <1>6
<1>11. n = 2
  <2> HIDE DEF newlines
  <2>1. n \in newlines /\ \A j \in newlines : n <= j
    BY <1>9, <1>10
  <2> QED
    BY <1>9, <1>10, <2>1
<1> QED
  BY <1>2, <1>5, <1>7, <1>8, <1>11

\* A stream yields the next message, or ends at a line that is none, or with its transport.
LEMMA LineStep ==
  ASSUME Typed, ListenInv, NEW d \in Client, next_line(d)
  PROVE  Typed' /\ ListenInv'
<1>0. ASSUME NEW c \in Client PROVE PlaceInv(c) /\ ReadInv(c)
  BY DEF ListenInv
<1> DEFINE newlines == {i \in DOMAIN unread[d] : unread[d][i].kind = "end"}
           n == CHOOSE i \in newlines : \A j \in newlines : i <= j
           line == SubSeq(unread[d], 1, n)
           L == Len(lines[d])
           r == KeyLength + 2 * L
<1>1. /\ stream[d] = "up" /\ UNCHANGED <<tcp, written, backlog, current, xonly>>
      /\ \/ /\ newlines # {} /\ line = <<Half(line[n].part), End(line[n].part)>>
            /\ lines' = [lines EXCEPT ![d] = Append(@, line[n].part)]
            /\ unread' = [unread EXCEPT ![d] = SubSeq(@, n + 1, Len(@))]
            /\ UNCHANGED stream
         \/ /\ \/ newlines # {} /\ line # <<Half(line[n].part), End(line[n].part)>>
               \/ newlines = {} /\ Over(d)
            /\ stream' = [stream EXCEPT ![d] = "ended"]
            /\ UNCHANGED <<unread, lines>>
  BY DEF next_line
<1>2. \A c : (Waits(c)' <=> Waits(c))
  BY <1>1 DEF Waits
<1>3. /\ ~Waits(d) /\ current # d /\ d \notin Stranger /\ tcp[d] # "none"
      /\ ReadUpTo(d, r) /\ ReadOf(d) = r
  BY <1>0, <1>1 DEF PlaceInv, ReadInv, Placed, ReadOf
<1>4. /\ L \in Nat /\ KeyLength \in Nat /\ written[d] \in Nat /\ lines[d] \in Seq(Nat)
      /\ unread[d] \in Seq(Token) /\ Len(unread[d]) \in Nat /\ DOMAIN unread[d] = 1 .. Len(unread[d])
  BY ListenerAssumption DEF Typed
<1>a. L \in Nat /\ KeyLength \in Nat /\ written[d] \in Nat /\ Len(unread[d]) \in Nat
  BY <1>4
<1>5. ASSUME newlines # {}
      PROVE  /\ n = 2 /\ Len(unread[d]) >= 2 /\ unread[d] # <<>>
             /\ line = <<unread[d][1], unread[d][2]>> /\ line[n] = unread[d][2]
             /\ d \in Lindy => unread[d][1] = Half(L + 1) /\ unread[d][2] = End(L + 1)
             /\ d \in Garbler => unread[d][1] = Half(0) /\ unread[d][2] = End(1)
  <2>1. /\ n = 2 /\ Len(unread[d]) >= 2 /\ unread[d] # <<>>
        /\ d \in Lindy => unread[d][1] = Half(L + 1) /\ unread[d][2] = End(L + 1)
        /\ d \in Garbler => unread[d][1] = Half(0) /\ unread[d][2] = End(1)
    BY <1>0, <1>1, <1>3, <1>5, NextNewline
  <2> HIDE DEF n
  <2>2. SubSeq(unread[d], 1, 2) = <<unread[d][1], unread[d][2]>>
    <3>1. /\ unread[d][1] \in Token /\ unread[d][2] \in Token
          /\ SubSeq(unread[d], 1, 2) \in Seq(Token) /\ Len(SubSeq(unread[d], 1, 2)) = 2
          /\ SubSeq(unread[d], 1, 2)[1] = unread[d][1] /\ SubSeq(unread[d], 1, 2)[2] = unread[d][2]
      BY <1>4, <2>1
    <3> DEFINE a == unread[d][1]
               b == unread[d][2]
               q == SubSeq(unread[d], 1, 2)
    <3> HIDE DEF a, b, q
    <3>2. /\ <<a, b>> \in Seq(Token) /\ Len(<<a, b>>) = 2 /\ <<a, b>>[1] = a /\ <<a, b>>[2] = b
      BY <3>1 DEF a, b
    <3>3. q \in Seq(Token) /\ Len(q) = 2 /\ q[1] = a /\ q[2] = b
      BY <3>1 DEF a, b, q
    <3>4. q = <<a, b>>
      <4>1. \A i \in 1 .. 2 : q[i] = <<a, b>>[i]
        BY <3>2, <3>3
      <4> QED
        BY <3>2, <3>3, <4>1, SeqEqual
    <3> QED
      BY <3>4 DEF a, b, q
  <2> QED
    BY <2>1, <2>2
<1> HIDE DEF n, line
<1>6. ASSUME newlines # {}, d \in Lindy PROVE line = <<Half(line[n].part), End(line[n].part)>>
  BY <1>5, <1>6 DEF End
<1>7. ASSUME newlines # {}, d \in Garbler PROVE line # <<Half(line[n].part), End(line[n].part)>>
  BY <1>5, <1>7 DEF End, Half
<1>8. CASE /\ newlines # {} /\ d \in Lindy
           /\ lines' = [lines EXCEPT ![d] = Append(@, line[n].part)]
           /\ unread' = [unread EXCEPT ![d] = SubSeq(@, n + 1, Len(@))]
           /\ UNCHANGED stream
  <2>1. /\ line[n].part = L + 1 /\ n + 1 = 3
        /\ Len(unread[d]) >= 2 /\ unread[d] # <<>>
    BY <1>5, <1>8 DEF End
  <2>2. /\ lines'[d] = Append(lines[d], L + 1) /\ unread'[d] = SubSeq(unread[d], 3, Len(unread[d]))
        /\ \A c \in Client : c # d => lines'[c] = lines[c] /\ unread'[c] = unread[c]
    BY <1>8, <2>1 DEF Typed
  <2>3. /\ lines'[d] \in Seq(Nat) /\ Len(lines'[d]) = L + 1
        /\ \A i \in 1 .. L : lines'[d][i] = lines[d][i]
        /\ lines'[d][L + 1] = L + 1
    BY <1>4, <2>2
  <2>4. /\ unread'[d] \in Seq(Token) /\ Len(unread'[d]) = Len(unread[d]) - 2
        /\ \A i \in 1 .. Len(unread'[d]) : unread'[d][i] = unread[d][i + 2]
    BY <1>4, <2>1, <2>2
  <2>5. Typed'
    <3>1. lines' \in [Client -> Seq(Nat)]
      BY <1>8, <2>2, <2>3 DEF Typed
    <3>2. unread' \in [Client -> Seq(Token)]
      BY <1>8, <2>2, <2>4 DEF Typed
    <3> QED
      BY <1>1, <1>8, <3>1, <3>2 DEF Typed
  <2>6. ASSUME NEW c \in Client, c # d PROVE PlaceInv(c)' /\ ReadInv(c)'
    BY <1>0, <1>1, <1>2, <1>8, <2>2, <2>6, OtherKept DEF PlaceInv
  <2>7. PlaceInv(d)'
    BY <1>0, <1>1, <1>2, <1>3, <1>8 DEF PlaceInv, Placed
  <2>8. /\ r + Len(unread[d]) = written[d]
        /\ \A i \in 1 .. Len(unread[d]) : unread[d][i] = Sends(d)[r + i]
    BY <1>3, <2>1 DEF ReadUpTo
  <2>9. /\ ReadOf(d)' = r + 2 /\ r + 2 = KeyLength + 2 * (L + 1) /\ r + 2 <= written[d]
        /\ (r + 2) + Len(unread'[d]) = written[d]
    <3>1. Len(unread'[d]) = Len(unread[d]) - 2 /\ Len(unread[d]) >= 2
      BY <2>1, <2>4
    <3>2. r + 2 = KeyLength + 2 * (L + 1)
      BY <1>4
    <3>3. ReadOf(d)' = KeyLength + 2 * Len(lines'[d])
      BY <1>1, <1>3, <1>8 DEF ReadOf
    <3>4. r + 2 <= written[d] /\ (r + 2) + Len(unread'[d]) = written[d]
      <4>1. r + Len(unread[d]) = written[d]
        BY <2>8
      <4> QED
        BY <1>a, <2>5, <3>1, <4>1 DEF Typed
    <3> QED
      BY <2>3, <3>2, <3>3, <3>4
  <2>10. ReadUpTo(d, ReadOf(d))'
    <3>1. ASSUME NEW i \in 1 .. Len(unread'[d]) PROVE unread'[d][i] = Sends(d)[(r + 2) + i]
      <4>1. i + 2 \in 1 .. Len(unread[d]) /\ r + (i + 2) = (r + 2) + i
        <5>1. i \in 1 .. Len(unread[d]) - 2
          BY <2>4
        <5> QED
          BY <1>a, <2>5, <5>1 DEF Typed
      <4>2. unread[d][i + 2] = Sends(d)[r + (i + 2)]
        BY <2>8, <4>1
      <4> QED
        BY <2>4, <4>1, <4>2
    <3> QED
      BY <1>1, <2>9, <3>1 DEF ReadUpTo
  <2>11. ASSUME NEW i \in 1 .. Len(lines'[d]) PROVE lines'[d][i] = i
    <3>1. i \in 1 .. L \/ i = L + 1
      BY <1>4, <2>3
    <3> QED
      BY <1>0, <2>3, <3>1 DEF ReadInv
  <2>12. d \notin Garbler
    BY <1>8, ListenerAssumption
  <2>13. ReadInv(d)'
    BY <1>1, <1>3, <1>8, <2>3, <2>9, <2>10, <2>11, <2>12 DEF ReadInv
  <2> QED
    BY <2>5, <2>6, <2>7, <2>13 DEF ListenInv
<1>9. CASE /\ d \in Lindy => newlines = {} /\ Over(d)
           /\ stream' = [stream EXCEPT ![d] = "ended"] /\ UNCHANGED <<unread, lines>>
  <2>1. stream'[d] = "ended" /\ \A c \in Client : c # d => stream'[c] = stream[c]
    BY <1>9 DEF Typed
  <2>2. Typed'
    BY <1>1, <1>9 DEF Typed
  <2>3. ASSUME NEW c \in Client, c # d PROVE PlaceInv(c)' /\ ReadInv(c)'
    BY <1>0, <1>1, <1>2, <1>9, <2>1, <2>3, OtherKept DEF PlaceInv
  <2>4. PlaceInv(d)'
    BY <1>0, <1>1, <1>2, <1>3, <1>9, <2>1 DEF PlaceInv, Placed, Over
  <2>5. ~Placed(d)'
    BY <1>1, <1>2, <1>3, <2>1 DEF Placed
  <2>6. ASSUME d \in Lindy, tcp[d] = "closed" PROVE L = Complete(d)
    <3>1. /\ r + Len(unread[d]) = written[d]
          /\ \A i \in 1 .. Len(unread[d]) : unread[d][i] = Sends(d)[r + i]
      BY <1>3, <2>6 DEF ReadUpTo
    <3>2. Len(unread[d]) < 2
      <4> SUFFICES ASSUME Len(unread[d]) >= 2 PROVE FALSE
        BY <1>4
      <4>1. /\ L + 1 \in 1 .. MaxLine /\ r + 2 = KeyLength + 2 * (L + 1)
            /\ 2 \in 1 .. Len(unread[d])
        <5>1. written[d] <= KeyLength + 2 * MaxLine /\ MaxLine \in Nat
          BY <2>6, SendsLindy, ListenerAssumption DEF Typed
        <5>2. Len(unread[d]) > 0 /\ 2 \in 1 .. Len(unread[d])
          BY <1>4
        <5>3. r + Len(unread[d]) = written[d]
          BY <3>1
        <5> DEFINE x == Len(unread[d])
                   w == written[d]
        <5>4. /\ L \in Nat /\ KeyLength \in Nat /\ w \in Nat /\ x \in Nat /\ x > 0
              /\ (KeyLength + 2 * L) + x = w /\ w <= KeyLength + 2 * MaxLine
          BY <1>a, <5>1, <5>2, <5>3
        <5> HIDE DEF x, w
        <5>5. L + 1 \in 1 .. MaxLine /\ (KeyLength + 2 * L) + 2 = KeyLength + 2 * (L + 1)
          BY <5>1, <5>4, Lines
        <5> QED
          BY <5>2, <5>5
      <4>2. unread[d][2] = End(L + 1)
        BY <2>6, <3>1, <4>1, SendsLindy
      <4>3. 2 \in newlines
        BY <1>4, <4>1, <4>2 DEF End
      <4> QED
        BY <1>9, <2>6, <4>3
    <3>3. ~(written[d] < KeyLength) /\ L = (written[d] - KeyLength) \div 2
      <4>1. r + Len(unread[d]) = written[d]
        BY <3>1
      <4> QED
        <5> DEFINE x == Len(unread[d])
                   w == written[d]
        <5>1. L \in Nat /\ KeyLength \in Nat /\ w \in Nat /\ x \in Nat /\ x < 2
          BY <1>a, <3>2
        <5> HIDE DEF x, w
        <5>2. (KeyLength + 2 * L) + x = w
          BY <4>1 DEF x, w
        <5>3. ~(w < KeyLength) /\ (w - KeyLength) \div 2 = L
          BY <5>1, <5>2, Lines
        <5> QED
          BY <5>3 DEF w
    <3> QED
      BY <3>3 DEF Complete
  <2>7. ReadInv(d)'
    BY <1>0, <1>1, <1>3, <1>9, <2>1, <2>5, <2>6 DEF ReadInv, Over, Complete
  <2> QED
    BY <2>2, <2>3, <2>4, <2>7 DEF ListenInv
<1> QED
  BY <1>1, <1>3, <1>6, <1>7, <1>8, <1>9 DEF Client

\* Every step keeps the invariant.
LEMMA NextListen == Typed /\ ListenInv /\ [Next]_vars => Typed' /\ ListenInv'
<1> SUFFICES ASSUME Typed, ListenInv, [Next]_vars PROVE Typed' /\ ListenInv'
  OBVIOUS
<1>1. CASE UNCHANGED vars
  <2>1. Typed'
    BY <1>1 DEF vars, Typed
  <2>2. ASSUME NEW c \in Client PROVE PlaceInv(c)' /\ ReadInv(c)'
    BY <1>1, OtherKept DEF vars, ListenInv, Waits, PlaceInv
  <2> QED
    BY <2>1, <2>2 DEF ListenInv
<1> QED
  BY <1>1, ClientSteps, AcceptStep, HandshakeStep, LineStep DEF Next

-----------------------------------------------------------------------------
(* The properties *)

\* In every reachable state a connection is in one place, and what is read of it are the
\* tokens that its client sent first.
THEOREM ListenInvariant == Spec => [](Typed /\ ListenInv)
BY InitListen, NextListen, PTL DEF Spec

\* The accept loop and its streams keep their types (conn.rs).
THEOREM ListenerTypeCorrect == Spec => []TypeOK
<1>1. Typed => TypeOK
  BY SendsTokens DEF Typed, TypeOK
<1> QED
  BY ListenInvariant, <1>1, PTL

\* However the bytes of however many connections are cut up on the way (conn.rs:83-135),
\* a stream begins behind a whole key and yields each message once and in order, and
\* all that were written when its client has closed it.
THEOREM StreamsIntact == Spec => []LinesIntact
<1>1. Typed /\ ListenInv => LinesIntact
  <2> SUFFICES ASSUME Typed, ListenInv, NEW c \in Client
               PROVE  /\ stream[c] # "none" => c \notin Stranger /\ written[c] >= KeyLength
                      /\ lines[c] # <<>> => c \in Lindy
                      /\ lines[c] = [i \in 1 .. Len(lines[c]) |-> i]
                      /\ stream[c] = "ended" /\ c \in Lindy => Over(c)
                      /\ stream[c] = "ended" /\ c \in Lindy /\ tcp[c] = "closed"
                           => Len(lines[c]) = Complete(c)
    BY DEF LinesIntact
  <2>1. ReadInv(c) /\ lines[c] \in Seq(Nat) /\ written[c] \in Nat /\ stream[c] \in {"none", "up", "ended"}
    BY DEF ListenInv, Typed
  <2>2. stream[c] # "none" => c \notin Stranger /\ written[c] >= KeyLength
    <3>1. Len(lines[c]) \in Nat
      BY <2>1
    <3> QED
      BY <2>1, <3>1, ListenerAssumption DEF ReadInv
  <2>3. lines[c] # <<>> => c \in Lindy
    BY <2>1 DEF ReadInv, Client
  <2>4. lines[c] = [i \in 1 .. Len(lines[c]) |-> i]
    <3>1. /\ lines[c] = [i \in 1 .. Len(lines[c]) |-> lines[c][i]]
          /\ \A i \in 1 .. Len(lines[c]) : lines[c][i] = i
      BY <2>1 DEF ReadInv
    <3> QED
      BY <3>1
  <2> QED
    BY <2>1, <2>2, <2>3, <2>4 DEF ReadInv
<1> QED
  BY ListenInvariant, <1>1, PTL

\* A connection is in one place at most, and one that runs this code and is open is
\* never lost between the kernel, the listener (conn.rs:137-174) and the event loop.
THEOREM ConnectionsKept == Spec => []NeverDropped
<1>1. Typed /\ ListenInv => NeverDropped
  <2> SUFFICES ASSUME Typed, ListenInv, NEW c \in Client
               PROVE  LET places == Cardinality({i \in DOMAIN backlog : backlog[i] = c})
                            + (IF current = c THEN 1 ELSE 0) + (IF stream[c] # "none" THEN 1 ELSE 0)
                      IN  /\ places <= 1
                          /\ c \in Lindy /\ tcp[c] = "open" => places = 1 /\ stream[c] # "ended"
    BY DEF NeverDropped
  <2> DEFINE waiting == {i \in DOMAIN backlog : backlog[i] = c}
  <2>1. PlaceInv(c) /\ ReadInv(c) /\ stream[c] \in {"none", "up", "ended"}
    BY DEF ListenInv, Typed
  <2>2. Cardinality(waiting) = IF Waits(c) THEN 1 ELSE 0
    <3>1. CASE Waits(c)
      <4>1. PICK i \in DOMAIN backlog : backlog[i] = c
        BY <3>1 DEF Waits
      <4>2. waiting = {i}
        BY <2>1, <4>1 DEF PlaceInv
      <4> QED
        BY <3>1, <4>2, FS_Singleton
    <3>2. CASE ~Waits(c)
      <4>1. waiting = {}
        BY <3>2 DEF Waits
      <4> QED
        BY <3>2, <4>1, FS_EmptySet
    <3> QED
      BY <3>1, <3>2
  <2> HIDE DEF waiting
  <2>3. c \in Lindy /\ tcp[c] = "open" => Placed(c) /\ stream[c] # "ended"
    BY <2>1 DEF PlaceInv, ReadInv, Over
  <2> QED
    BY <2>1, <2>2, <2>3 DEF PlaceInv, Placed, waiting
<1> QED
  BY ListenInvariant, <1>1, PTL
=============================================================================
