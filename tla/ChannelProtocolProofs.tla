----------------------- MODULE ChannelProtocolProofs -----------------------
(***************************************************************************)
(* Proofs about ChannelProtocol.tla, for any nodes, amounts and number of  *)
(* channels, whether or not the wallets repeat themselves, whatever is     *)
(* lost and whichever processes end.                                       *)
(*                                                                         *)
(* The argument.  The funding transaction behind an id never changes, and  *)
(* it names both nodes, so every copy of a channel, in a database, with a  *)
(* task or in the hands of a call, has the role that the transaction gives *)
(* to its node (Role).  The acceptor stores the channel before its ack is  *)
(* sent and takes it back only when its process ends, so whoever has seen  *)
(* the ack, or has a channel beyond Pending because of it, knows that the  *)
(* channel is Shared.                                                      *)
(***************************************************************************)
EXTENDS ChannelProtocol, TLAPS

(* The parts of the invariant are operators of the databases D, the funding *)
(* transactions F, the nodes X whose process has ended and the chain C, so   *)
(* that lemmas can compare two states.                                      *)

\* A record with the fields of a channel.
IsChannel(ch) ==
  ch = [state |-> ch.state, peer_id |-> ch.peer_id, value |-> ch.value,
        i_am_initiator |-> ch.i_am_initiator,
        commit_sig |-> ch.commit_sig, close_tx |-> ch.close_tx]

InitiatorState == {"Pending", "ReadyToFund", "Live", "Closed"}
AcceptorState == {"WaitingForFund", "Funded"}

\* The channel has the role in which the funding transaction names n.
Role(F, n, id, ch) ==
  /\ IsChannel(ch) /\ F[id] # None
  /\ \/ /\ ch.state \in InitiatorState /\ ch.i_am_initiator = TRUE
        /\ F[id].by = n
     \/ /\ ch.state \in AcceptorState /\ ch.i_am_initiator = FALSE
        /\ F[id].peer = n /\ ch.peer_id = F[id].by /\ ch.value = F[id].value
        /\ ch.commit_sig = None /\ ch.close_tx = None

\* The peer of the funding transaction has the channel, as the acceptor, or its
\* process has ended (X) since it stored it.
Shared(D, F, X, id) ==
  LET ch == D[F[id].peer][id]
  IN  /\ F[id] # None
      /\ \/ F[id].peer \in X /\ ch = None
         \/ /\ ch # None /\ ch.state \in AcceptorState /\ ch.i_am_initiator = FALSE
            /\ ch.peer_id = F[id].by /\ ch.value = F[id].value

\* All that holds of a copy of a channel.
ChannelInv(D, F, X, C, n, id, ch) ==
  /\ Role(F, n, id, ch)
  /\ ch.state \in {"ReadyToFund", "Live", "Closed"} => Shared(D, F, X, id)
  /\ ch.state \in {"Live", "Closed", "Funded"} => id \in C

NewInv(F, m) ==
  /\ m.id \in ChannelId /\ F[m.id] # None
  /\ m.from = F[m.id].by /\ m.to = F[m.id].peer /\ m.funding_satoshis = F[m.id].value

AckInv(D, F, X, m) == m.id \in ChannelId /\ Shared(D, F, X, m.id)

MessageInv(D, F, X, m) ==
  /\ m.kind = "RsEcdsaNewChannel" => NewInv(F, m)
  /\ m.kind = "RsEcdsaAckNewChannel" => AckInv(D, F, X, m)

\* What the holder of n's lock is about to send or to store.
CallInv(D, F, X, C, n, call) ==
  /\ call.at \in {"open", "ack"} => MessageInv(D, F, X, call.message)
  /\ call.at \in {"acked", "close"} =>
       call.id \in ChannelId /\ ChannelInv(D, F, X, C, n, call.id, call.channel)
  /\ call.at = "acked" => call.channel.state = "ReadyToFund"

WaiterInv(D, F, X, C, w) ==
  /\ w.node \in Node /\ w.id \in ChannelId
  /\ ChannelInv(D, F, X, C, w.node, w.id, w.channel)
  /\ w.channel.state \in {"ReadyToFund", "WaitingForFund"}

FundTxsOK(F) ==
  /\ F \in [ChannelId -> FundTx \cup {None}]
  /\ \A id \in ChannelId : F[id] # None =>
       /\ F[id].by # F[id].peer
       /\ F[id].script = funding_descriptor_for(F[id].by, F[id].peer, TRUE)

IsDb(D) == D = [n \in Node |-> [id \in ChannelId |-> D[n][id]]]

IInv ==
  /\ FundTxsOK(fund_tx) /\ IsDb(db) /\ lock = [n \in Node |-> lock[n]]
  /\ \A n \in Node, id \in ChannelId :
       db[n][id] # None => ChannelInv(db, fund_tx, ended, chain, n, id, db[n][id])
  /\ \A n \in Node : lock[n] # None => CallInv(db, fund_tx, ended, chain, n, lock[n])
  /\ \A m \in net : MessageInv(db, fund_tx, ended, m)
  /\ \A w \in waiters : WaiterInv(db, fund_tx, ended, chain, w)
  /\ \A id \in signed : id \in ChannelId /\ Shared(db, fund_tx, ended, id)

-----------------------------------------------------------------------------
(* Channels, scripts and the database *)

\* A channel after a change of state, and of what comes with the state.
InState(ch, s) == [ch EXCEPT !.state = s]
Signed(ch, s, c) == [ch EXCEPT !.state = s, !.commit_sig = c]
ClosedBy(ch, s, c, t) == [ch EXCEPT !.state = s, !.commit_sig = c, !.close_tx = t]

\* Changing fields of a channel leaves the others as they are.
LEMMA ChannelFields ==
  ASSUME NEW ch, IsChannel(ch), NEW s, NEW c, NEW t
  PROVE  /\ IsChannel(InState(ch, s)) /\ InState(ch, s).state = s
         /\ InState(ch, s).peer_id = ch.peer_id /\ InState(ch, s).value = ch.value
         /\ InState(ch, s).i_am_initiator = ch.i_am_initiator
         /\ InState(ch, s).commit_sig = ch.commit_sig /\ InState(ch, s).close_tx = ch.close_tx
         /\ IsChannel(Signed(ch, s, c)) /\ Signed(ch, s, c).state = s
         /\ Signed(ch, s, c).peer_id = ch.peer_id /\ Signed(ch, s, c).value = ch.value
         /\ Signed(ch, s, c).i_am_initiator = ch.i_am_initiator
         /\ Signed(ch, s, c).commit_sig = c /\ Signed(ch, s, c).close_tx = ch.close_tx
         /\ IsChannel(ClosedBy(ch, s, c, t)) /\ ClosedBy(ch, s, c, t).state = s
         /\ ClosedBy(ch, s, c, t).peer_id = ch.peer_id /\ ClosedBy(ch, s, c, t).value = ch.value
         /\ ClosedBy(ch, s, c, t).i_am_initiator = ch.i_am_initiator
         /\ ClosedBy(ch, s, c, t).commit_sig = c /\ ClosedBy(ch, s, c, t).close_tx = t
<1> DEFINE c1 == [ch EXCEPT !.state = s]
           c2 == [c1 EXCEPT !.commit_sig = c]
           c3 == [c2 EXCEPT !.close_tx = t]
<1>1. /\ c1 = [state |-> s, peer_id |-> ch.peer_id, value |-> ch.value,
               i_am_initiator |-> ch.i_am_initiator,
               commit_sig |-> ch.commit_sig, close_tx |-> ch.close_tx]
  BY DEF IsChannel
<1>2. /\ IsChannel(c1) /\ c1.state = s /\ c1.peer_id = ch.peer_id
      /\ c1.value = ch.value /\ c1.i_am_initiator = ch.i_am_initiator
      /\ c1.commit_sig = ch.commit_sig /\ c1.close_tx = ch.close_tx
  <2> HIDE DEF c1
  <2> QED
    BY <1>1 DEF IsChannel
<1> HIDE DEF c1
<1>3. /\ c2 = [state |-> s, peer_id |-> c1.peer_id, value |-> c1.value,
               i_am_initiator |-> c1.i_am_initiator, commit_sig |-> c, close_tx |-> c1.close_tx]
  BY <1>2 DEF IsChannel
<1>4. /\ IsChannel(c2) /\ c2.state = s /\ c2.peer_id = ch.peer_id
      /\ c2.value = ch.value /\ c2.i_am_initiator = ch.i_am_initiator
      /\ c2.commit_sig = c /\ c2.close_tx = ch.close_tx
  <2> HIDE DEF c2
  <2> QED
    BY <1>2, <1>3 DEF IsChannel
<1> HIDE DEF c2
<1>5. /\ c3 = [state |-> c2.state, peer_id |-> c2.peer_id, value |-> c2.value,
               i_am_initiator |-> c2.i_am_initiator, commit_sig |-> c2.commit_sig, close_tx |-> t]
  BY <1>4 DEF IsChannel
<1>6. /\ IsChannel(c3) /\ c3.state = s /\ c3.peer_id = ch.peer_id
      /\ c3.value = ch.value /\ c3.i_am_initiator = ch.i_am_initiator
      /\ c3.commit_sig = c /\ c3.close_tx = t
  <2> HIDE DEF c3
  <2> QED
    BY <1>4, <1>5 DEF IsChannel
<1>7. Signed(ch, s, c) = c2 /\ InState(ch, s) = c1
  BY Zenon DEF Signed, InState, c1, c2
<1>8. ClosedBy(ch, s, c, t) = c3
  BY Zenon DEF ClosedBy, c1, c2, c3
<1> HIDE DEF c3
<1> QED
  BY <1>2, <1>4, <1>6, <1>7, <1>8

\* The script that the two sides compute for a channel is one and the same.
LEMMA SameScript ==
  ASSUME NEW a \in Node, NEW b \in Node
  PROVE  /\ funding_descriptor_for(a, b, TRUE) = funding_descriptor_for(b, a, FALSE)
         /\ funding_descriptor_for(a, b, TRUE) \in Key \X Key
<1>1. {a, b} = {b, a} /\ {a, b} \in SUBSET Node
  OBVIOUS
<1> QED
  BY <1>1 DEF funding_descriptor_for, points_at, Key

\* What an acceptor stores is not None.
LEMMA AcceptorIsSome ==
  ASSUME NEW F, FundTxsOK(F), NEW n \in Node, NEW id \in ChannelId, NEW ch,
         Role(F, n, id, ch), ch.state \in AcceptorState
  PROVE  ch # None
<1>1. F[id] \in FundTx
  BY DEF Role, FundTxsOK
<1>2. ch.i_am_initiator = FALSE /\ ch.commit_sig = None /\ ch.close_tx = None
  BY DEF Role, InitiatorState, AcceptorState
<1>3. ch.peer_id \in Node /\ ch.value \in Value
  BY <1>1 DEF Role, InitiatorState, AcceptorState, FundTx
<1>4. ch \in StoredChannel
  BY <1>2, <1>3 DEF Role, IsChannel, AcceptorState, State, StoredChannel
<1> QED
  BY <1>4, NoneAssumption

\* The databases E are D after n has stored channel id.
Insert(D, n, id, ch, E) == E = [D EXCEPT ![n][id] = ch]

\* insert_channel changes one channel of one node.
LEMMA Inserted ==
  ASSUME NEW D, IsDb(D), NEW n \in Node, NEW id \in ChannelId, NEW ch,
         NEW E, Insert(D, n, id, ch, E)
  PROVE  /\ IsDb(E) /\ E[n][id] = ch
         /\ \A k \in Node, j \in ChannelId : k # n \/ j # id => E[k][j] = D[k][j]
<1>1. E = [k \in Node |-> IF k = n THEN [D[n] EXCEPT ![id] = ch] ELSE D[k]]
  BY DEF IsDb, Insert
<1>2. [D[n] EXCEPT ![id] = ch] = [j \in ChannelId |-> IF j = id THEN ch ELSE D[n][j]]
  <2>1. D[n] = [j \in ChannelId |-> D[n][j]]
    BY DEF IsDb
  <2> QED
    BY <2>1
<1>3. E[n] = [j \in ChannelId |-> IF j = id THEN ch ELSE D[n][j]] /\ E[n][id] = ch
  BY <1>1, <1>2
<1>4. ASSUME NEW k \in Node, NEW j \in ChannelId, k # n \/ j # id PROVE E[k][j] = D[k][j]
  BY <1>1, <1>3, <1>4
<1>5. ASSUME NEW k \in Node PROVE E[k] = [j \in ChannelId |-> E[k][j]]
  <2>1. CASE k = n
    BY <1>3, <2>1
  <2>2. CASE k # n
    BY <1>1, <2>2 DEF IsDb
  <2> QED
    BY <2>1, <2>2
<1>6. IsDb(E)
  BY <1>1, <1>5 DEF IsDb
<1> QED
  BY <1>3, <1>4, <1>6

\* Storing a channel in its role takes away nothing that is shared.
LEMMA InsertKeepsShared ==
  ASSUME NEW D, IsDb(D), NEW F, FundTxsOK(F), NEW X, NEW n \in Node, NEW id \in ChannelId, NEW ch,
         Role(F, n, id, ch), NEW E, Insert(D, n, id, ch, E),
         NEW j \in ChannelId, Shared(D, F, X, j)
  PROVE  Shared(E, F, X, j)
<1>1. F[j] # None /\ F[j].peer \in Node /\ F[j].by # F[j].peer
  BY DEF Shared, FundTxsOK, FundTx
<1>2. CASE F[j].peer # n \/ j # id
  <2>1. E[F[j].peer][j] = D[F[j].peer][j]
    BY <1>1, <1>2, Inserted
  <2> QED
    BY <2>1 DEF Shared
<1>3. CASE F[j].peer = n /\ j = id
  <2>1. E[n][id] = ch
    BY Inserted
  <2>2. ch.state \in AcceptorState
    BY <1>1, <1>3 DEF Role
  <2>3. ch # None
    BY <2>2, AcceptorIsSome
  <2> QED
    BY <1>1, <1>3, <2>1, <2>2, <2>3 DEF Role, Shared, InitiatorState, AcceptorState
<1> QED
  BY <1>2, <1>3

-----------------------------------------------------------------------------
(* How one state follows another *)

\* No transaction changes, nothing shared is taken away, nothing leaves the chain.
Grows(D, F, X, C, E, G, Y, B) ==
  /\ \A id \in ChannelId : /\ F[id] # None => G[id] = F[id]
                           /\ Shared(D, F, X, id) => Shared(E, G, Y, id)
  /\ C \subseteq B

\* What holds of channels, messages, calls and tasks is kept then.
LEMMA Kept ==
  ASSUME NEW D, NEW F, NEW X, NEW C, NEW E, NEW G, NEW Y, NEW B, Grows(D, F, X, C, E, G, Y, B)
  PROVE  /\ \A n, ch : \A id \in ChannelId :
               ChannelInv(D, F, X, C, n, id, ch) => ChannelInv(E, G, Y, B, n, id, ch)
         /\ \A m : MessageInv(D, F, X, m) => MessageInv(E, G, Y, m)
         /\ \A n, call : CallInv(D, F, X, C, n, call) => CallInv(E, G, Y, B, n, call)
         /\ \A w : WaiterInv(D, F, X, C, w) => WaiterInv(E, G, Y, B, w)
<1>1. ASSUME NEW n, NEW ch, NEW id \in ChannelId, ChannelInv(D, F, X, C, n, id, ch)
      PROVE  ChannelInv(E, G, Y, B, n, id, ch)
  <2>1. Role(G, n, id, ch)
    BY <1>1 DEF ChannelInv, Role, Grows
  <2> QED
    BY <1>1, <2>1 DEF ChannelInv, Grows
<1>2. ASSUME NEW m, MessageInv(D, F, X, m) PROVE MessageInv(E, G, Y, m)
  BY <1>2 DEF MessageInv, NewInv, AckInv, Grows
<1>3. ASSUME NEW n, NEW call, CallInv(D, F, X, C, n, call) PROVE CallInv(E, G, Y, B, n, call)
  BY <1>1, <1>2, <1>3 DEF CallInv
<1>4. ASSUME NEW w, WaiterInv(D, F, X, C, w) PROVE WaiterInv(E, G, Y, B, w)
  BY <1>1, <1>4 DEF WaiterInv
<1> QED
  BY <1>1, <1>2, <1>3, <1>4

\* The invariant is kept by a step that adds only what satisfies it.
LEMMA Preserved ==
  ASSUME IInv,
         Grows(db, fund_tx, ended, chain, db', fund_tx', ended', chain'),
         FundTxsOK(fund_tx'), IsDb(db'), lock' = [n \in Node |-> lock'[n]],
         \A n \in Node, id \in ChannelId : db'[n][id] # None =>
           db'[n][id] = db[n][id] \/ ChannelInv(db', fund_tx', ended', chain', n, id, db'[n][id]),
         \A n \in Node : lock'[n] # None =>
           lock'[n] = lock[n] \/ CallInv(db', fund_tx', ended', chain', n, lock'[n]),
         \A m \in net' : m \in net \/ MessageInv(db', fund_tx', ended', m),
         \A w \in waiters' : w \in waiters \/ WaiterInv(db', fund_tx', ended', chain', w),
         \A id \in signed' : id \in signed \/ (id \in ChannelId /\ Shared(db', fund_tx', ended', id))
  PROVE  IInv'
<1>1. \A n \in Node, id \in ChannelId :
        db'[n][id] # None => ChannelInv(db', fund_tx', ended', chain', n, id, db'[n][id])
  BY Kept DEF IInv
<1>2. \A n \in Node : lock'[n] # None => CallInv(db', fund_tx', ended', chain', n, lock'[n])
  BY Kept DEF IInv
<1>3. \A m \in net' : MessageInv(db', fund_tx', ended', m)
  BY Kept DEF IInv
<1>4. \A w \in waiters' : WaiterInv(db', fund_tx', ended', chain', w)
  BY Kept DEF IInv
<1>5. \A id \in signed' : id \in ChannelId /\ Shared(db', fund_tx', ended', id)
  BY DEF IInv, Grows
<1> QED
  BY <1>1, <1>2, <1>3, <1>4, <1>5 DEF IInv

\* Storing a copy of a channel that satisfies the invariant.
LEMMA Stored ==
  ASSUME IInv, NEW n \in Node, NEW id \in ChannelId, NEW ch, insert_channel(n, id, ch),
         FundTxsOK(fund_tx'),
         \A j \in ChannelId : fund_tx[j] # None => fund_tx'[j] = fund_tx[j],
         ended' = ended, chain \subseteq chain', ChannelInv(db, fund_tx', ended', chain', n, id, ch)
  PROVE  /\ Grows(db, fund_tx, ended, chain, db', fund_tx', ended', chain')
         /\ IsDb(db') /\ db'[n][id] = ch
         /\ ChannelInv(db', fund_tx', ended', chain', n, id, ch)
         /\ \A k \in Node, j \in ChannelId : db'[k][j] # None =>
              db'[k][j] = db[k][j] \/ ChannelInv(db', fund_tx', ended', chain', k, j, db'[k][j])
<1>1. IsDb(db') /\ db'[n][id] = ch
      /\ \A k \in Node, j \in ChannelId : k # n \/ j # id => db'[k][j] = db[k][j]
  <2>1. IsDb(db) /\ Insert(db, n, id, ch, db')
    BY DEF IInv, insert_channel, Insert
  <2> QED
    BY <2>1, Inserted
<1>2. \A j \in ChannelId : Shared(db, fund_tx, ended, j) => Shared(db, fund_tx', ended', j)
  BY DEF Shared
<1>3. \A j \in ChannelId : Shared(db, fund_tx', ended', j) => Shared(db', fund_tx', ended', j)
  <2>1. IsDb(db) /\ Insert(db, n, id, ch, db') /\ Role(fund_tx', n, id, ch)
    BY DEF IInv, insert_channel, Insert, ChannelInv
  <2> QED
    BY <2>1, InsertKeepsShared
<1>4. Grows(db, fund_tx, ended, chain, db', fund_tx', ended', chain')
  BY <1>2, <1>3 DEF Grows
<1>5. ChannelInv(db', fund_tx', ended', chain', n, id, ch)
  BY <1>3 DEF ChannelInv
<1> QED
  BY <1>1, <1>4, <1>5

\* A step that leaves the databases and the transactions as they are.
LEMMA Unstored ==
  ASSUME IInv, db' = db, fund_tx' = fund_tx, ended' = ended, chain \subseteq chain'
  PROVE  /\ Grows(db, fund_tx, ended, chain, db', fund_tx', ended', chain')
         /\ FundTxsOK(fund_tx') /\ IsDb(db')
         /\ \A k \in Node, j \in ChannelId : db'[k][j] = db[k][j]
BY DEF IInv, Grows

\* Taking the lock of one node, or letting go of it.
LEMMA LockSet ==
  ASSUME IInv, NEW n \in Node, NEW c, lock' = [lock EXCEPT ![n] = c]
  PROVE  /\ lock' = [k \in Node |-> lock'[k]] /\ lock'[n] = c
         /\ \A k \in Node : k # n => lock'[k] = lock[k]
<1>1. lock = [k \in Node |-> lock[k]]
  BY DEF IInv
<1> QED
  BY <1>1

\* The wallet's transaction is stored under its id, and no other one changes.
LEMMA TransactionMade ==
  ASSUME IInv, NEW n \in Node, NEW peer \in Node, n # peer, NEW v \in Value,
         NEW id \in ChannelId, create_fund_transaction(n, peer, v, id)
  PROVE  /\ FundTxsOK(fund_tx')
         /\ \A j \in ChannelId : fund_tx[j] # None => fund_tx'[j] = fund_tx[j]
         /\ fund_tx'[id] # None
         /\ fund_tx'[id].by = n /\ fund_tx'[id].peer = peer /\ fund_tx'[id].value = v
<1> DEFINE tx == [by |-> n, peer |-> peer, value |-> v,
                  script |-> funding_descriptor_for(n, peer, TRUE)]
<1>1. tx \in FundTx /\ tx # None
  <2>1. tx \in FundTx
    BY SameScript DEF FundTx
  <2> QED
    BY <2>1, NoneAssumption
<1>2. /\ tx.by = n /\ tx.peer = peer /\ tx.value = v
      /\ tx.script = funding_descriptor_for(n, peer, TRUE)
  OBVIOUS
<1>3. \/ fund_tx[id] = None /\ fund_tx' = [fund_tx EXCEPT ![id] = tx]
      \/ fund_tx[id] = tx /\ fund_tx' = fund_tx
  BY DEF create_fund_transaction
<1> HIDE DEF tx
<1>4. FundTxsOK(fund_tx)
  BY DEF IInv
<1>5. CASE fund_tx[id] = None /\ fund_tx' = [fund_tx EXCEPT ![id] = tx]
  BY <1>1, <1>2, <1>4, <1>5 DEF FundTxsOK
<1>6. CASE fund_tx[id] = tx /\ fund_tx' = fund_tx
  BY <1>1, <1>2, <1>4, <1>6
<1> QED
  BY <1>3, <1>5, <1>6

-----------------------------------------------------------------------------
(* The invariant: what each action adds satisfies it *)

\* Initially there are no channels, messages, calls or tasks.
LEMMA InitIInv == Init => IInv
BY DEF Init, IInv, FundTxsOK, IsDb

\* Sending adds the message in hand, or nothing.
LEMMA Sent ==
  ASSUME IInv, NEW n \in Node, lock[n] # None, lock[n].at \in {"open", "ack"},
         NEW ok \in BOOLEAN, Send(lock[n].message, ok)
  PROVE  \A m \in net' : m \in net \/ MessageInv(db, fund_tx, ended, m)
<1>1. MessageInv(db, fund_tx, ended, lock[n].message)
  BY DEF IInv, CallInv
<1>2. net' \subseteq net \cup {lock[n].message}
  BY DEF Send
<1> QED
  BY <1>1, <1>2

\* open_channel stores a channel whose transaction was just made.
LEMMA OpenIInv ==
  ASSUME IInv, NEW k \in Call, NEW n \in Node, NEW peer \in Node, NEW v \in Value,
         open_channel(k, n, peer, v)
  PROVE  IInv'
<1> DEFINE M(id) == [kind |-> "RsEcdsaNewChannel", call |-> k, from |-> n, to |-> peer,
                     id |-> id, funding_satoshis |-> v,
                     publishing_key |-> my_publishing_key_for(n)]
           C(id) == [at |-> "open", message |-> M(id)]
           ch == Channel("Pending", peer, v, TRUE)
<1>1. PICK id \in ChannelId :
        /\ create_fund_transaction(n, peer, v, id)
        /\ insert_channel(n, id, ch)
        /\ Acquire(n, C(id))
  BY DEF open_channel
<1>2. n # peer /\ net' = net /\ waiters' = waiters /\ signed' = signed /\ chain' = chain /\ ended' = ended
  BY DEF open_channel
<1>3. /\ FundTxsOK(fund_tx')
      /\ \A j \in ChannelId : fund_tx[j] # None => fund_tx'[j] = fund_tx[j]
      /\ fund_tx'[id] # None
      /\ fund_tx'[id].by = n /\ fund_tx'[id].peer = peer /\ fund_tx'[id].value = v
  BY <1>1, <1>2, TransactionMade
<1>4. ChannelInv(db, fund_tx', ended', chain', n, id, ch)
  <2>1. IsChannel(ch) /\ ch.state = "Pending" /\ ch.i_am_initiator = TRUE
    BY DEF IsChannel, Channel
  <2> HIDE DEF ch
  <2> QED
    BY <1>3, <2>1 DEF ChannelInv, Role, InitiatorState
<1>5. /\ Grows(db, fund_tx, ended, chain, db', fund_tx', ended', chain')
      /\ IsDb(db')
      /\ \A m \in Node, j \in ChannelId : db'[m][j] # None =>
           db'[m][j] = db[m][j] \/ ChannelInv(db', fund_tx', ended', chain', m, j, db'[m][j])
  <2> HIDE DEF ch
  <2> QED
    BY <1>1, <1>2, <1>3, <1>4, Stored
<1>6. CallInv(db', fund_tx', ended', chain', n, C(id))
  <2>1. NewInv(fund_tx', M(id)) /\ M(id).kind = "RsEcdsaNewChannel"
    BY <1>3 DEF NewInv
  <2>2. C(id).at = "open" /\ C(id).message = M(id)
    OBVIOUS
  <2> HIDE DEF M, C
  <2> QED
    BY <2>1, <2>2 DEF CallInv, MessageInv
<1>7. /\ lock' = [j \in Node |-> lock'[j]] /\ lock'[n] = C(id)
      /\ \A j \in Node : j # n => lock'[j] = lock[j]
  <2>1. lock' = [lock EXCEPT ![n] = C(id)]
    BY <1>1 DEF Acquire
  <2> HIDE DEF C
  <2> QED
    BY <2>1, LockSet
<1> HIDE DEF C
<1> QED
  BY <1>2, <1>3, <1>5, <1>6, <1>7, Preserved

\* recv_new_channel stores the acceptor's channel before the ack is on its way.
LEMMA RecvNewIInv ==
  ASSUME IInv, NEW n \in Node, NEW m \in net, recv_new_channel(n, m)
  PROVE  IInv'
<1> DEFINE ch == Channel("WaitingForFund", m.from, m.funding_satoshis, FALSE)
           w == [node |-> n, id |-> m.id, channel |-> ch, call |-> m.call]
           A(sig) == [kind |-> "RsEcdsaAckNewChannel", call |-> m.call, from |-> n,
                      to |-> m.from, id |-> m.id, commit_sig |-> sig]
           C(sig) == [at |-> "ack", message |-> A(sig)]
<1>1. PICK sig : /\ insert_channel(n, m.id, ch)
                 /\ waiters' = waiters \cup {w}
                 /\ Acquire(n, C(sig))
  BY DEF recv_new_channel, wait_for_funding
<1>2. /\ m.kind = "RsEcdsaNewChannel" /\ m.to = n
      /\ net' \subseteq net /\ fund_tx' = fund_tx /\ signed' = signed /\ chain' = chain /\ ended' = ended
  BY DEF recv_new_channel
<1>3. NewInv(fund_tx, m)
  BY <1>2 DEF IInv, MessageInv
<1>4. /\ IsChannel(ch) /\ ch.state = "WaitingForFund" /\ ch.i_am_initiator = FALSE
      /\ ch.peer_id = m.from /\ ch.value = m.funding_satoshis
      /\ ch.commit_sig = None /\ ch.close_tx = None
  BY DEF IsChannel, Channel
<1>5. w.node = n /\ w.id = m.id /\ w.channel = ch
  OBVIOUS
<1>6. A(sig).kind = "RsEcdsaAckNewChannel" /\ A(sig).id = m.id
  OBVIOUS
<1>7. C(sig).at = "ack" /\ C(sig).message = A(sig)
  OBVIOUS
<1>8. lock' = [lock EXCEPT ![n] = C(sig)]
  BY <1>1 DEF Acquire
<1> HIDE DEF ch, w, A, C
<1>9. m.id \in ChannelId /\ Role(fund_tx, n, m.id, ch)
  BY <1>2, <1>3, <1>4 DEF NewInv, Role, AcceptorState
<1>10. ChannelInv(db, fund_tx', ended', chain', n, m.id, ch)
  BY <1>2, <1>4, <1>9 DEF ChannelInv
<1>11. /\ Grows(db, fund_tx, ended, chain, db', fund_tx', ended', chain')
       /\ IsDb(db') /\ db'[n][m.id] = ch
       /\ ChannelInv(db', fund_tx', ended', chain', n, m.id, ch)
       /\ \A i \in Node, j \in ChannelId : db'[i][j] # None =>
            db'[i][j] = db[i][j] \/ ChannelInv(db', fund_tx', ended', chain', i, j, db'[i][j])
  <2>1. FundTxsOK(fund_tx')
    BY <1>2 DEF IInv
  <2> QED
    BY <1>1, <1>2, <1>9, <1>10, <2>1, Stored
<1>12. Shared(db', fund_tx', ended', m.id)
  <2>1. ch # None
    BY <1>4, <1>9, AcceptorIsSome DEF IInv, AcceptorState
  <2> QED
    BY <1>2, <1>3, <1>4, <1>11, <2>1 DEF NewInv, Shared, AcceptorState
<1>13. CallInv(db', fund_tx', ended', chain', n, C(sig))
  BY <1>6, <1>7, <1>9, <1>12 DEF CallInv, MessageInv, AckInv
<1>14. WaiterInv(db', fund_tx', ended', chain', w)
  BY <1>4, <1>5, <1>9, <1>11 DEF WaiterInv
<1>15. /\ lock' = [j \in Node |-> lock'[j]] /\ lock'[n] = C(sig)
       /\ \A j \in Node : j # n => lock'[j] = lock[j]
  BY <1>8, LockSet
<1>16. FundTxsOK(fund_tx')
  BY <1>2 DEF IInv
<1> QED
  BY <1>1, <1>2, <1>11, <1>13, <1>14, <1>15, <1>16, Preserved

\* recv_new_channel_ack takes a channel in hand that its peer has stored.
LEMMA RecvAckIInv ==
  ASSUME IInv, NEW n \in Node, NEW m \in net, recv_new_channel_ack(n, m)
  PROVE  IInv'
<1> DEFINE ch == Signed(db[n][m.id], "ReadyToFund", m.commit_sig)
           C == [at |-> "acked", id |-> m.id, call |-> m.call, channel |-> ch]
<1>1. /\ m.kind = "RsEcdsaAckNewChannel"
      /\ net' \subseteq net /\ db' = db /\ fund_tx' = fund_tx
      /\ waiters' = waiters /\ signed' = signed /\ chain' = chain /\ ended' = ended
  BY DEF recv_new_channel_ack
<1>2. /\ Grows(db, fund_tx, ended, chain, db', fund_tx', ended', chain')
      /\ FundTxsOK(fund_tx') /\ IsDb(db')
      /\ \A k \in Node, j \in ChannelId : db'[k][j] = db[k][j]
  BY <1>1, Unstored
<1>3. AckInv(db, fund_tx, ended, m)
  BY <1>1 DEF IInv, MessageInv
<1>4. CASE Acceptable(n, m) /\ Acquire(n, C)
  <2>1. m.id \in ChannelId /\ Shared(db, fund_tx, ended, m.id)
    BY <1>3 DEF AckInv
  <2>2. db[n][m.id] # None /\ db[n][m.id].state = "Pending"
    BY <1>4 DEF Acceptable
  <2>3. Role(fund_tx, n, m.id, db[n][m.id])
    BY <2>1, <2>2 DEF IInv, ChannelInv
  <2>4. IsChannel(ch) /\ ch.state = "ReadyToFund" /\ ch.i_am_initiator = db[n][m.id].i_am_initiator
    BY <2>3, ChannelFields DEF Role
  <2>5. C.at = "acked" /\ C.id = m.id /\ C.channel = ch
    OBVIOUS
  <2>6. lock' = [lock EXCEPT ![n] = C]
    BY <1>4 DEF Acquire
  <2> HIDE DEF ch, C
  <2>7. Role(fund_tx, n, m.id, ch)
    BY <2>2, <2>3, <2>4 DEF Role, InitiatorState, AcceptorState
  <2>8. CallInv(db', fund_tx', ended', chain', n, C)
    BY <1>1, <2>1, <2>4, <2>5, <2>7 DEF CallInv, ChannelInv
  <2>9. /\ lock' = [j \in Node |-> lock'[j]] /\ lock'[n] = C
        /\ \A j \in Node : j # n => lock'[j] = lock[j]
    BY <2>6, LockSet
  <2> QED
    BY <1>1, <1>2, <2>8, <2>9, Preserved
<1>5. CASE lock' = lock
  <2>1. lock' = [j \in Node |-> lock'[j]]
    BY <1>5 DEF IInv
  <2> QED
    BY <1>1, <1>2, <1>5, <2>1, Preserved
<1> QED
  BY <1>4, <1>5 DEF recv_new_channel_ack, Signed

\* ack_stored and close_stored store the channel that the call has in hand.
LEMMA StoreIInv ==
  ASSUME IInv, NEW n \in Node, ack_stored(n) \/ close_stored(n)
  PROVE  IInv'
<1> DEFINE id == lock[n].id
           ch == lock[n].channel
<1>1. /\ lock[n] # None /\ lock[n].at \in {"acked", "close"}
      /\ insert_channel(n, id, ch) /\ lock' = [lock EXCEPT ![n] = None]
      /\ fund_tx' = fund_tx /\ net' = net /\ signed' = signed /\ chain' = chain /\ ended' = ended
      /\ \A w \in waiters' : w \in waiters \/
           /\ lock[n].at = "acked"
           /\ w.node = n /\ w.id = id /\ w.channel = ch
  BY DEF ack_stored, close_stored, wait_for_funding, Release
<1>2. CallInv(db, fund_tx, ended, chain, n, lock[n])
  BY <1>1 DEF IInv
<1>3. /\ id \in ChannelId /\ ChannelInv(db, fund_tx, ended, chain, n, id, ch)
      /\ lock[n].at = "acked" => ch.state = "ReadyToFund"
  BY <1>1, <1>2 DEF CallInv
<1>4. FundTxsOK(fund_tx')
  BY <1>1 DEF IInv
<1> HIDE DEF id, ch
<1>5. /\ Grows(db, fund_tx, ended, chain, db', fund_tx', ended', chain')
      /\ IsDb(db') /\ ChannelInv(db', fund_tx', ended', chain', n, id, ch)
      /\ \A k \in Node, j \in ChannelId : db'[k][j] # None =>
           db'[k][j] = db[k][j] \/ ChannelInv(db', fund_tx', ended', chain', k, j, db'[k][j])
  BY <1>1, <1>3, <1>4, Stored
<1>6. \A w \in waiters' : w \in waiters \/ WaiterInv(db', fund_tx', ended', chain', w)
  BY <1>1, <1>3, <1>5 DEF WaiterInv
<1>7. /\ lock' = [j \in Node |-> lock'[j]] /\ lock'[n] = None
      /\ \A j \in Node : j # n => lock'[j] = lock[j]
  BY <1>1, LockSet
<1> QED
  BY <1>1, <1>4, <1>5, <1>6, <1>7, Preserved

\* force_close_channel takes a Live channel in hand, which is on chain and shared.
LEMMA CloseIInv ==
  ASSUME IInv, NEW n \in Node, NEW id \in ChannelId, force_close_channel(n, id)
  PROVE  IInv'
<1> DEFINE ch == ClosedBy(db[n][id], "Closed", None, CloseTx(n, id, db[n][id]))
           C == [at |-> "close", id |-> id, channel |-> ch]
<1>1. /\ db' = db /\ fund_tx' = fund_tx /\ net' = net
      /\ waiters' = waiters /\ signed' = signed /\ chain' = chain /\ ended' = ended
  BY DEF force_close_channel
<1>2. /\ Grows(db, fund_tx, ended, chain, db', fund_tx', ended', chain')
      /\ FundTxsOK(fund_tx') /\ IsDb(db')
      /\ \A k \in Node, j \in ChannelId : db'[k][j] = db[k][j]
  BY <1>1, Unstored
<1>3. db[n][id] # None /\ db[n][id].state = "Live"
  BY DEF force_close_channel, StateOf
<1>4. ChannelInv(db, fund_tx, ended, chain, n, id, db[n][id])
  BY <1>3 DEF IInv
<1>5. IsChannel(ch) /\ ch.state = "Closed" /\ ch.i_am_initiator = db[n][id].i_am_initiator
  BY <1>4, ChannelFields DEF ChannelInv, Role
<1>6. C.at = "close" /\ C.id = id /\ C.channel = ch
  OBVIOUS
<1>7. lock' = [lock EXCEPT ![n] = C]
  BY DEF force_close_channel, Acquire, ClosedBy
<1> HIDE DEF ch, C
<1>8. ChannelInv(db, fund_tx, ended, chain, n, id, ch)
  BY <1>3, <1>4, <1>5 DEF ChannelInv, Role, InitiatorState, AcceptorState
<1>9. CallInv(db', fund_tx', ended', chain', n, C)
  BY <1>1, <1>6, <1>8 DEF CallInv
<1>10. /\ lock' = [j \in Node |-> lock'[j]] /\ lock'[n] = C
       /\ \A j \in Node : j # n => lock'[j] = lock[j]
  BY <1>7, LockSet
<1> QED
  BY <1>1, <1>2, <1>9, <1>10, Preserved

\* A send that returns, a handler that is dropped, and a message that is lost.
LEMMA SendIInv ==
  ASSUME IInv,
         \/ \E n \in Node : open_channel_sent(n) \/ ack_sent(n) \/ hang_up(n)
         \/ \E m \in net : Lose(m)
  PROVE  IInv'
<1>1. /\ db' = db /\ fund_tx' = fund_tx /\ waiters' = waiters /\ signed' = signed /\ chain' = chain /\ ended' = ended
  BY DEF open_channel_sent, ack_sent, hang_up, Lose
<1>2. /\ Grows(db, fund_tx, ended, chain, db', fund_tx', ended', chain')
      /\ FundTxsOK(fund_tx') /\ IsDb(db')
      /\ \A k \in Node, j \in ChannelId : db'[k][j] = db[k][j]
  BY <1>1, Unstored
<1>3. ASSUME NEW n \in Node, open_channel_sent(n) \/ ack_sent(n) \/ hang_up(n)
      PROVE  IInv'
  <2>1. \A m \in net' : m \in net \/ MessageInv(db, fund_tx, ended, m)
    <3>1. CASE lock[n].at \in {"open", "ack"} /\ \E ok \in BOOLEAN : Send(lock[n].message, ok)
      BY <1>3, <3>1, Sent DEF open_channel_sent, ack_sent, hang_up
    <3>2. CASE net' = net
      BY <3>2
    <3> QED
      BY <1>3, <3>1, <3>2 DEF open_channel_sent, ack_sent, hang_up
  <2>2. lock' = [lock EXCEPT ![n] = None]
    BY <1>3 DEF open_channel_sent, ack_sent, hang_up, Release
  <2>3. /\ lock' = [j \in Node |-> lock'[j]] /\ lock'[n] = None
        /\ \A j \in Node : j # n => lock'[j] = lock[j]
    BY <2>2, LockSet
  <2> QED
    BY <1>1, <1>2, <2>1, <2>3, Preserved
<1>4. ASSUME NEW m \in net, Lose(m) PROVE IInv'
  <2>1. lock' = [j \in Node |-> lock'[j]] /\ lock' = lock /\ net' \subseteq net
    BY <1>4 DEF IInv, Lose
  <2> QED
    BY <1>1, <1>2, <2>1, Preserved
<1> QED
  BY <1>3, <1>4

\* A task stores its copy of the channel when the transaction is on chain.
LEMMA SeenIInv ==
  ASSUME IInv, NEW w \in waiters, funding_seen(w)
  PROVE  IInv'
<1>1. /\ w.id \in chain /\ waiters' \subseteq waiters
      /\ fund_tx' = fund_tx /\ lock' = lock /\ net' = net /\ signed' = signed /\ chain' = chain /\ ended' = ended
  BY DEF funding_seen
<1>2. WaiterInv(db, fund_tx, ended, chain, w)
  BY DEF IInv
<1>3. /\ w.node \in Node /\ w.id \in ChannelId
      /\ ChannelInv(db, fund_tx, ended, chain, w.node, w.id, w.channel)
      /\ Role(fund_tx, w.node, w.id, w.channel) /\ IsChannel(w.channel)
  BY <1>2 DEF WaiterInv, ChannelInv, Role
<1>4. lock' = [j \in Node |-> lock'[j]] /\ FundTxsOK(fund_tx')
  BY <1>1 DEF IInv
<1>5. ASSUME NEW s, insert_channel(w.node, w.id, InState(w.channel, s)),
             ChannelInv(db, fund_tx, ended, chain, w.node, w.id, InState(w.channel, s))
      PROVE  IInv'
  <2>1. /\ Grows(db, fund_tx, ended, chain, db', fund_tx', ended', chain') /\ IsDb(db')
        /\ \A k \in Node, j \in ChannelId : db'[k][j] # None =>
             db'[k][j] = db[k][j] \/ ChannelInv(db', fund_tx', ended', chain', k, j, db'[k][j])
    BY <1>1, <1>3, <1>4, <1>5, Stored
  <2> QED
    BY <1>1, <1>4, <2>1, Preserved
<1>6. CASE w.channel.state = "ReadyToFund"
           /\ insert_channel(w.node, w.id, InState(w.channel, "Live"))
  <2>1. ChannelInv(db, fund_tx, ended, chain, w.node, w.id, InState(w.channel, "Live"))
    BY <1>1, <1>3, <1>6, ChannelFields DEF ChannelInv, Role, InitiatorState, AcceptorState
  <2> QED
    BY <1>5, <1>6, <2>1
<1>7. CASE w.channel.state = "WaitingForFund"
           /\ insert_channel(w.node, w.id, InState(w.channel, "Funded"))
  <2>1. ChannelInv(db, fund_tx, ended, chain, w.node, w.id, InState(w.channel, "Funded"))
    BY <1>1, <1>3, <1>7, ChannelFields DEF ChannelInv, Role, InitiatorState, AcceptorState
  <2> QED
    BY <1>5, <1>7, <2>1
<1>8. CASE db' = db
  <2>1. /\ Grows(db, fund_tx, ended, chain, db', fund_tx', ended', chain') /\ IsDb(db')
        /\ \A k \in Node, j \in ChannelId : db'[k][j] = db[k][j]
    BY <1>1, <1>8, Unstored
  <2> QED
    BY <1>1, <1>4, <2>1, Preserved
<1> QED
  BY <1>6, <1>7, <1>8 DEF funding_seen, InState

\* What a user signs is ready, so the peer has stored it.
LEMMA UserIInv ==
  ASSUME IInv, NEW id \in ChannelId, sign(id) \/ broadcast(id)
  PROVE  IInv'
<1>1. /\ db' = db /\ fund_tx' = fund_tx /\ lock' = lock /\ net' = net /\ waiters' = waiters
      /\ chain \subseteq chain' /\ ended' = ended
  BY DEF sign, broadcast
<1>2. /\ Grows(db, fund_tx, ended, chain, db', fund_tx', ended', chain')
      /\ FundTxsOK(fund_tx') /\ IsDb(db')
      /\ \A k \in Node, j \in ChannelId : db'[k][j] = db[k][j]
  BY <1>1, Unstored
<1>3. \A i \in signed' : i \in signed \/ (i \in ChannelId /\ Shared(db', fund_tx', ended', i))
  <2>1. CASE sign(id)
    <3>1. /\ fund_tx[id] # None /\ fund_tx[id].by \in Node
          /\ db[fund_tx[id].by][id] # None
          /\ db[fund_tx[id].by][id].state = "ReadyToFund"
      BY <2>1 DEF sign, StateOf, IInv, FundTxsOK, FundTx
    <3>2. Shared(db, fund_tx, ended, id)
      BY <3>1 DEF IInv, ChannelInv
    <3> QED
      BY <1>1, <2>1, <3>2 DEF sign
  <2>2. CASE broadcast(id)
    BY <2>2 DEF broadcast
  <2> QED
    BY <2>1, <2>2
<1>4. lock' = [j \in Node |-> lock'[j]]
  BY <1>1 DEF IInv
<1> QED
  BY <1>1, <1>2, <1>3, <1>4, Preserved

\* A process that ends takes with it what its node has stored and nobody else's.
LEMMA EndsIInv ==
  ASSUME IInv, NEW n \in Node, node_ends(n)
  PROVE  IInv'
<1> DEFINE none == [id \in ChannelId |-> None]
<1>1. /\ fund_tx' = fund_tx /\ signed' = signed /\ chain' = chain
      /\ waiters' \subseteq waiters /\ ended' = ended \cup {n}
      /\ db' = [db EXCEPT ![n] = none] /\ lock' = [lock EXCEPT ![n] = None]
  BY DEF node_ends, Release
<1>2. FundTxsOK(fund_tx') /\ IsDb(db)
  BY <1>1 DEF IInv
<1>3. db' = [k \in Node |-> IF k = n THEN none ELSE db[k]]
  BY <1>1, <1>2 DEF IsDb
<1>4. \A k \in Node, j \in ChannelId : db'[k][j] = IF k = n THEN None ELSE db[k][j]
  BY <1>3
<1>5. IsDb(db')
  <2>1. ASSUME NEW k \in Node PROVE db'[k] = [j \in ChannelId |-> db'[k][j]]
    BY <1>2, <1>3 DEF IsDb
  <2> QED
    BY <1>3, <2>1 DEF IsDb
<1> HIDE DEF none
<1>6. \A id \in ChannelId : Shared(db, fund_tx, ended, id) => Shared(db', fund_tx', ended', id)
  <2> SUFFICES ASSUME NEW id \in ChannelId, Shared(db, fund_tx, ended, id)
               PROVE  Shared(db', fund_tx', ended', id)
    OBVIOUS
  <2>1. fund_tx[id] # None /\ fund_tx[id].peer \in Node
    BY <1>1, <1>2 DEF Shared, FundTxsOK, FundTx
  <2>2. CASE fund_tx[id].peer = n
    BY <1>1, <1>4, <2>1, <2>2 DEF Shared
  <2>3. CASE fund_tx[id].peer # n
    BY <1>1, <1>4, <2>1, <2>3 DEF Shared
  <2> QED
    BY <2>2, <2>3
<1>7. Grows(db, fund_tx, ended, chain, db', fund_tx', ended', chain')
  BY <1>1, <1>6 DEF Grows
<1>8. \A m \in net' : m \in net \/ MessageInv(db', fund_tx', ended', m)
  <2>1. ASSUME lock[n] # None, lock[n].at \in {"open", "ack"}
        PROVE  MessageInv(db', fund_tx', ended', lock[n].message)
    <3>1. MessageInv(db, fund_tx, ended, lock[n].message)
      BY <2>1 DEF IInv, CallInv
    <3> QED
      BY <1>7, <3>1, Kept
  <2>2. \A m \in net' : \/ m \in net
                       \/ /\ lock[n] # None /\ lock[n].at \in {"open", "ack"}
                          /\ m = lock[n].message
    BY DEF node_ends
  <2> QED
    BY <2>1, <2>2
<1>9. /\ lock' = [j \in Node |-> lock'[j]] /\ lock'[n] = None
      /\ \A j \in Node : j # n => lock'[j] = lock[j]
  BY <1>1, LockSet
<1>10. \A k \in Node, j \in ChannelId : db'[k][j] # None => db'[k][j] = db[k][j]
  BY <1>4
<1>11. \A k \in Node : lock'[k] # None => lock'[k] = lock[k]
  BY <1>9
<1> QED
  BY <1>1, <1>2, <1>5, <1>7, <1>8, <1>9, <1>10, <1>11, Preserved

\* Every step keeps the invariant.
LEMMA NextIInv == IInv /\ [Next]_vars => IInv'
<1> SUFFICES ASSUME IInv, [Next]_vars PROVE IInv'
  OBVIOUS
<1>1. CASE UNCHANGED vars
  BY <1>1 DEF vars, IInv
<1>2. CASE Next
  BY <1>2, EndsIInv, OpenIInv, StoreIInv, SendIInv, CloseIInv, RecvNewIInv, RecvAckIInv, SeenIInv, UserIInv
     DEF Next
<1> QED
  BY <1>1, <1>2

-----------------------------------------------------------------------------
(* Theorems *)

\* In every reachable state each copy of a channel has the role that the funding
\* transaction gives to its node, and a channel beyond Pending is shared.
THEOREM ChannelInvariant == Spec => []IInv
BY InitIInv, NextIInv, PTL DEF Spec

\* What a node calls Live, Funded or Closed (rs_ecdsa.rs:355-398, 401-485) is on
\* chain, and no channel is in a state of the other role.
THEOREM LiveOnChain == Spec => []LiveIsFunded
<1>1. IInv => LiveIsFunded
  <2> SUFFICES ASSUME IInv, NEW n \in Node, NEW id \in ChannelId, StateOf(n, id) # "none"
               PROVE  /\ db[n][id].state \in {"Live", "Closed", "Funded"} => id \in chain
                      /\ db[n][id].i_am_initiator <=> db[n][id].state \notin {"WaitingForFund", "Funded"}
                      /\ db[n][id].i_am_initiator <=> fund_tx[id].by = n
    BY DEF LiveIsFunded
  <2>1. ChannelInv(db, fund_tx, ended, chain, n, id, db[n][id])
    BY DEF IInv, StateOf
  <2>2. fund_tx[id].by # fund_tx[id].peer
    BY <2>1 DEF IInv, FundTxsOK, ChannelInv, Role
  <2> QED
    BY <2>1, <2>2 DEF ChannelInv, Role, InitiatorState, AcceptorState
<1> QED
  BY ChannelInvariant, <1>1, PTL

\* Whoever funds a channel funds one that the peer has stored (rs_ecdsa.rs:248-285),
\* for the same amount and with the script that the peer will look for.
THEOREM FundersAreExpected == Spec => []FundedIsShared
<1>1. IInv => FundedIsShared
  <2> SUFFICES ASSUME IInv, NEW id \in signed
               PROVE  LET tx == fund_tx[id]
                          ch == db[tx.peer][id]
                      IN  \/ tx.peer \in ended /\ ch = None
                          \/ /\ StateOf(tx.peer, id) \in {"WaitingForFund", "Funded"}
                             /\ ch.peer_id = tx.by /\ ~ch.i_am_initiator
                             /\ FundsChannel(tx.peer, id, ch)
    BY DEF FundedIsShared
  <2>1. id \in ChannelId /\ Shared(db, fund_tx, ended, id)
    BY DEF IInv
  <2>2. /\ fund_tx[id] \in FundTx
        /\ fund_tx[id].script = funding_descriptor_for(fund_tx[id].by, fund_tx[id].peer, TRUE)
    BY <2>1 DEF IInv, FundTxsOK, Shared
  <2>3. fund_tx[id].script = funding_descriptor_for(fund_tx[id].peer, fund_tx[id].by, FALSE)
    BY <2>2, SameScript DEF FundTx
  <2> QED
    BY <2>1, <2>3 DEF Shared, StateOf, FundsChannel, AcceptorState
<1> QED
  BY ChannelInvariant, <1>1, PTL
=============================================================================
