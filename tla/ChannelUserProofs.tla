------------------------- MODULE ChannelUserProofs -------------------------
(***************************************************************************)
(* What ChannelProtocol.tla promises the users of a channel, for any nodes *)
(* and amounts: the closing transaction is valid, the money can be got     *)
(* back, and what they see follows ChannelLifecycle.tla.                   *)
(*                                                                         *)
(* The argument.  The funding transaction behind an id also determines the *)
(* commitment, its signatures and the closing transaction, so what any     *)
(* copy of a channel has of these is equal to them (Signs): only an ack    *)
(* whose signature is this one is stored.  Until the money is on chain     *)
(* a task holds the signature of every channel that was signed (Awaited).  *)
(*                                                                         *)
(* If no wallet makes a transaction twice, there is one offer at most for  *)
(* every channel (OfferInv), so the acceptor stores it once; and of the    *)
(* calls and tasks that hold a copy, those that will store one are so few  *)
(* that it is still the successor of what the database holds (HandInv).    *)
(* Hence every store moves a channel one state forward (Moves), which is a *)
(* step of the lifecycle.                                                  *)
(*                                                                         *)
(* The liveness of the protocol rests on two invariants.  A channel that   *)
(* waits is with a task (WatchedUntilFunded).  And because every ack is    *)
(* the one that its initiator accepts (SaysInv), a Pending channel whose   *)
(* messages are not lost has one coming (AnswerComing).                    *)
(***************************************************************************)
EXTENDS ChannelProtocolProofs

\* The transaction that returns the money, and what both sides make of it.
Commitment(F, id) ==
  state_sighash(F[id].by, id, F[id].peer, AllToParty1(F[id].value), TRUE)

Refund(F, id) ==
  encrypted_sign(funding_descriptor_for(F[id].by, F[id].peer, TRUE)[2],
                 my_publishing_key_for(F[id].by), Commitment(F, id))

Closing(F, id) ==
  [sighash |-> Commitment(F, id),
   witness |-> {[by |-> funding_key_for(F[id].by, F[id].peer, TRUE), on |-> Commitment(F, id)],
                [by |-> Refund(F, id).by, on |-> Refund(F, id).on]}]

\* An initiator's copy has the signature or the closing transaction of its state.
Signs(F, id, ch) ==
  ch.state \in InitiatorState =>
    /\ ch.peer_id = F[id].peer /\ ch.value = F[id].value
    /\ ch.commit_sig = IF ch.state \in {"ReadyToFund", "Live"} THEN Refund(F, id) ELSE None
    /\ ch.close_tx = IF ch.state = "Closed" THEN Closing(F, id) ELSE None

\* So it is in the databases, with the calls that are about to store, and with the tasks.
SignInv ==
  /\ \A n \in Node, id \in ChannelId : db[n][id] # None => Signs(fund_tx, id, db[n][id])
  /\ \A n \in Node : lock[n] # None /\ lock[n].at \in {"acked", "close"} =>
       Signs(fund_tx, lock[n].id, lock[n].channel)
  /\ \A w \in waiters : Signs(fund_tx, w.id, w.channel)

-----------------------------------------------------------------------------
(* Commitments *)

\* An amount is a number.
LEMMA ValueIsNat == ASSUME NEW v \in Value PROVE v \in Nat
BY ConstantsAssumption

\* What is left of an amount when the fee is taken: a word, and the difference just when
\* the amount covers the fee.
LEMMA MinusFee ==
  ASSUME NEW v \in Value
  PROVE  /\ Minus(v, Fee) \in 0 .. Word - 1
         /\ Minus(v, Fee) = v - Fee <=> v >= Fee
<1>1. v \in 0 .. Word - 1 /\ Fee \in 1 .. Word - 1 /\ Word \in Nat
  BY ConstantsAssumption
<1>2. CASE v >= Fee
  <2>1. Minus(v, Fee) = v - Fee
    BY <1>1, <1>2 DEF Minus
  <2> QED
    BY <1>1, <1>2, <2>1
<1>3. CASE ~(v >= Fee)
  <2>1. Minus(v, Fee) = v - Fee + Word
    BY <1>1, <1>3 DEF Minus
  <2> QED
    BY <1>1, <1>3, <2>1
<1> QED
  BY <1>2, <1>3

\* A commitment has one output at most, which is within the word.
LEMMA OutputBounds ==
  ASSUME NEW v \in Value, NEW key \in Key
  PROVE  /\ Output(v, key, Fee) \in SUBSET [to : Key, value : 0 .. Word - 1]
         /\ Output(0, key, 0) = {}
<1>1. Output(v, key, Fee) \subseteq {[to |-> key, value |-> Minus(v, Fee)]}
  BY DEF Output
<1>2. [to |-> key, value |-> Minus(v, Fee)] \in [to : Key, value : 0 .. Word - 1]
  BY MinusFee
<1>3. Output(0, key, 0) = {}
  BY DEF Output
<1> QED
  BY <1>1, <1>2, <1>3

\* It pays the key all but the fee just when the amount covers the fee.
LEMMA OutputPays ==
  ASSUME NEW v \in Value, NEW key
  PROVE  v >= Fee <=> \E o \in Output(v, key, Fee) :
           Output(v, key, Fee) = {o} /\ o.to = key /\ o.value = v - Fee
<1> DEFINE out == [to |-> key, value |-> Minus(v, Fee)]
<1>1. out.to = key /\ out.value = Minus(v, Fee)
  OBVIOUS
<1>2. Output(v, key, Fee) = IF v > 0 THEN {out} ELSE {}
  BY DEF Output
<1> HIDE DEF out
<1>3. v \in Nat /\ (v >= Fee => v > 0)
  BY ConstantsAssumption
<1>4. CASE v > 0
  <2>1. Output(v, key, Fee) = {out}
    BY <1>2, <1>4
  <2> QED
    BY <1>1, <2>1, MinusFee
<1>5. CASE ~(v > 0)
  BY <1>2, <1>3, <1>5
<1> QED
  BY <1>4, <1>5

\* The commitment of a channel spends its funding output.
LEMMA CommitmentSpends ==
  ASSUME FundTxsOK(fund_tx), NEW id \in ChannelId, fund_tx[id] # None
  PROVE  LET c == Commitment(fund_tx, id)
         IN  /\ c \in Sighash /\ c.spends = id
             /\ c.script = fund_tx[id].script /\ c.value = fund_tx[id].value
             /\ c.pays = Output(fund_tx[id].value,
                                points_at(fund_tx[id].by, fund_tx[id].peer, TRUE, "Balance")[1], Fee)
<1> DEFINE tx == fund_tx[id]
           key == points_at(tx.by, tx.peer, TRUE, "Balance")
           p1 == AllToParty1(tx.value).p1
           p2 == AllToParty1(tx.value).p2
<1>1. /\ tx \in FundTx /\ tx.by \in Node /\ tx.peer \in Node /\ tx.value \in Value
      /\ tx.script = funding_descriptor_for(tx.by, tx.peer, TRUE) /\ tx.script \in Key \X Key
  BY DEF FundTxsOK, FundTx
<1>2. p1 = tx.value /\ p2 = 0 /\ p1 + p2 = tx.value /\ tx.value \in Nat
  <2>1. p1 = tx.value /\ p2 = 0
    BY DEF AllToParty1
  <2>2. tx.value \in Nat
    BY <1>1, ValueIsNat
  <2> HIDE DEF tx, p1, p2
  <2> QED
    BY <2>1, <2>2
<1>3. key[1] \in Key /\ key[2] \in Key
  BY <1>1 DEF points_at, Key
<1> DEFINE pays == Output(p1, key[1], Fee) \cup Output(p2, key[2], 0)
           script == funding_descriptor_for(tx.by, tx.peer, TRUE)
<1>4. Commitment(fund_tx, id) =
        [spends |-> id, script |-> script, value |-> p1 + p2, pays |-> pays]
  BY DEF Commitment, state_sighash
<1> HIDE DEF tx, key, p1, p2, script
<1>5. /\ pays \in SUBSET [to : Key, value : 0 .. Word - 1]
      /\ pays = Output(tx.value, key[1], Fee)
  BY <1>1, <1>2, <1>3, OutputBounds
<1> HIDE DEF pays
<1>6. tx.script = script
  BY <1>1 DEF script
<1>7. Commitment(fund_tx, id) \in Sighash
  <2> DEFINE Pays == SUBSET [to : Key, value : 0 .. Word - 1]
             Script == Key \X Key
  <2>1. Sighash = [spends : ChannelId, script : Script, value : Nat, pays : Pays]
    BY DEF Sighash
  <2>2. script \in Script /\ pays \in Pays /\ p1 + p2 \in Nat
    BY <1>1, <1>2, <1>5, <1>6
  <2> HIDE DEF Pays, Script
  <2> QED
    BY <1>4, <2>1, <2>2
<1>8. /\ Commitment(fund_tx, id).spends = id /\ Commitment(fund_tx, id).script = tx.script
      /\ Commitment(fund_tx, id).value = tx.value /\ Commitment(fund_tx, id).pays = pays
  BY <1>2, <1>4, <1>6
<1> QED
  BY <1>5, <1>7, <1>8 DEF tx, key

\* Both keys of the script sign the closing transaction, and it refunds the initiator.
LEMMA ClosingIsValid ==
  ASSUME FundTxsOK(fund_tx), NEW id \in ChannelId, fund_tx[id] # None
  PROVE  /\ Refunds(Closing(fund_tx, id), id)
         /\ Closing(fund_tx, id) \in Tx /\ Refund(fund_tx, id) \in EncryptedSignature
         /\ Closing(fund_tx, id) # None /\ Refund(fund_tx, id) # None
<1> DEFINE tx == fund_tx[id]
           c == Commitment(fund_tx, id)
           d == funding_descriptor_for(tx.by, tx.peer, TRUE)
<1>1. /\ tx.by \in Node /\ tx.peer \in Node /\ tx.script = d /\ tx.value \in Value
  BY DEF FundTxsOK, FundTx
<1>2. /\ c \in Sighash /\ c.spends = id /\ c.script = tx.script /\ c.value = tx.value
      /\ c.pays = Output(tx.value, points_at(tx.by, tx.peer, TRUE, "Balance")[1], Fee)
  BY CommitmentSpends
<1>3. d[1] = funding_key_for(tx.by, tx.peer, TRUE) /\ d[1] \in Key /\ d[2] \in Key
  BY <1>1, SameScript DEF funding_descriptor_for, funding_key_for
<1>4. Refund(fund_tx, id) = [by |-> d[2], under |-> my_publishing_key_for(tx.by), on |-> c]
  BY DEF Refund, encrypted_sign
<1> HIDE DEF tx, c, d
<1>5. Closing(fund_tx, id) = [sighash |-> c, witness |-> {[by |-> d[1], on |-> c], [by |-> d[2], on |-> c]}]
  BY <1>3, <1>4 DEF Closing, tx, c
<1>6. Refund(fund_tx, id) \in EncryptedSignature
  BY <1>1, <1>2, <1>3, <1>4 DEF EncryptedSignature, my_publishing_key_for
<1>7. Closing(fund_tx, id) \in Tx
  <2> DEFINE witness == {[by |-> d[1], on |-> c], [by |-> d[2], on |-> c]}
  <2>1. witness \in SUBSET [by : Key, on : Sighash]
    <3>1. [by |-> d[1], on |-> c] \in [by : Key, on : Sighash]
      BY <1>2, <1>3
    <3>2. [by |-> d[2], on |-> c] \in [by : Key, on : Sighash]
      BY <1>2, <1>3
    <3> QED
      BY <3>1, <3>2
  <2> HIDE DEF witness
  <2>2. [sighash |-> c, witness |-> witness] \in Tx
    BY <1>2, <2>1 DEF Tx
  <2> QED
    BY <1>5, <2>2 DEF witness
<1>8. ValidSpend(Closing(fund_tx, id), id)
  <2>1. \A i \in 1 .. 2 : i = 1 \/ i = 2
    OBVIOUS
  <2> QED
    BY <1>1, <1>2, <1>5, <2>1 DEF ValidSpend, tx
<1>9. PaysBack(Closing(fund_tx, id), id) <=> fund_tx[id].value >= Fee
  <2> DEFINE key == points_at(tx.by, tx.peer, TRUE, "Balance")[1]
  <2> HIDE DEF key
  <2>1. Closing(fund_tx, id).sighash = c
    BY <1>5
  <2>2. c.pays = Output(tx.value, key, Fee)
    BY <1>2 DEF key
  <2>3. tx.value >= Fee <=> \E o \in c.pays : c.pays = {o} /\ o.to = key /\ o.value = tx.value - Fee
    BY <1>1, <2>2, OutputPays
  <2> QED
    BY <2>1, <2>3, Zenon DEF PaysBack, tx, key
<1> QED
  BY <1>6, <1>7, <1>8, <1>9, NoneAssumption DEF Refunds

\* What an initiator stores is a channel.
LEMMA InitiatorIsSome ==
  ASSUME FundTxsOK(fund_tx), NEW n \in Node, NEW id \in ChannelId, NEW ch,
         Role(fund_tx, n, id, ch), Signs(fund_tx, id, ch), ch.state \in InitiatorState
  PROVE  ch.peer_id \in Node /\ ch.value \in Value /\ ch # None /\ ch \in StoredChannel
<1>1. fund_tx[id] # None /\ fund_tx[id] \in FundTx
  BY DEF Role, FundTxsOK
<1>2. /\ ch.i_am_initiator = TRUE /\ ch.peer_id = fund_tx[id].peer /\ ch.value = fund_tx[id].value
      /\ ch.commit_sig \in {Refund(fund_tx, id), None} /\ ch.close_tx \in {Closing(fund_tx, id), None}
  BY DEF Role, Signs, InitiatorState, AcceptorState
<1>3. ch.peer_id \in Node /\ ch.value \in Value
  BY <1>1, <1>2 DEF FundTx
<1>4. ch.commit_sig \in EncryptedSignature \cup {None} /\ ch.close_tx \in Tx \cup {None}
  BY <1>1, <1>2, ClosingIsValid
<1>5. ch \in StoredChannel
  BY <1>2, <1>3, <1>4 DEF Role, IsChannel, InitiatorState, State, StoredChannel
<1> QED
  BY <1>3, <1>5, NoneAssumption

\* Closing a channel that has the signature makes this transaction.
LEMMA CloseIsClosing ==
  ASSUME NEW n \in Node, NEW id \in ChannelId, NEW ch,
         Role(fund_tx, n, id, ch), Signs(fund_tx, id, ch), ch.state \in {"ReadyToFund", "Live"}
  PROVE  ch.commit_sig = Refund(fund_tx, id) /\ CloseTx(n, id, ch) = Closing(fund_tx, id)
<1>1. /\ n = fund_tx[id].by /\ ch.peer_id = fund_tx[id].peer /\ ch.i_am_initiator = TRUE
      /\ ch.commit_sig = Refund(fund_tx, id)
  BY DEF Role, Signs, InitiatorState, AcceptorState
<1>2. decrypt_signature(n, ch.commit_sig) = [by |-> Refund(fund_tx, id).by, on |-> Refund(fund_tx, id).on]
  <2>1. Refund(fund_tx, id).under = my_publishing_key_for(n)
    BY <1>1 DEF Refund, encrypted_sign
  <2> QED
    BY <1>1, <2>1 DEF decrypt_signature
<1>3. Commitment(fund_tx, id) = state_sighash(n, id, ch.peer_id, AllToParty1(fund_tx[id].value), ch.i_am_initiator)
  BY <1>1 DEF Commitment
<1> QED
  BY <1>1, <1>2, <1>3, Zenon DEF CloseTx, Closing
-----------------------------------------------------------------------------
(* Signatures: what each action adds is what the transaction determines *)

\* A copy that is old stays what its transaction determines, which does not change.
LEMMA SignKept ==
  ASSUME IInv, SignInv,
         \A j \in ChannelId : fund_tx[j] # None => fund_tx'[j] = fund_tx[j],
         \A n \in Node, id \in ChannelId : db'[n][id] # None =>
           db'[n][id] = db[n][id] \/ Signs(fund_tx', id, db'[n][id]),
         \A n \in Node : lock'[n] # None /\ lock'[n].at \in {"acked", "close"} =>
           lock'[n] = lock[n] \/ Signs(fund_tx', lock'[n].id, lock'[n].channel),
         \A w \in waiters' : w \in waiters \/ Signs(fund_tx', w.id, w.channel)
  PROVE  SignInv'
<1>1. ASSUME NEW n, NEW id \in ChannelId, NEW ch, Role(fund_tx, n, id, ch), Signs(fund_tx, id, ch)
      PROVE  Signs(fund_tx', id, ch)
  <2>1. fund_tx'[id] = fund_tx[id]
    BY <1>1 DEF Role
  <2>2. Refund(fund_tx', id) = Refund(fund_tx, id) /\ Closing(fund_tx', id) = Closing(fund_tx, id)
    BY <2>1 DEF Refund, Closing, Commitment
  <2> QED
    BY <1>1, <2>1, <2>2 DEF Signs
<1>2. ASSUME NEW n \in Node, NEW id \in ChannelId, db'[n][id] # None
      PROVE  Signs(fund_tx', id, db'[n][id])
  BY <1>1, <1>2 DEF IInv, SignInv, ChannelInv
<1>3. ASSUME NEW n \in Node, lock'[n] # None, lock'[n].at \in {"acked", "close"}
      PROVE  Signs(fund_tx', lock'[n].id, lock'[n].channel)
  BY <1>1, <1>3 DEF IInv, SignInv, CallInv, ChannelInv
<1>4. ASSUME NEW w \in waiters' PROVE Signs(fund_tx', w.id, w.channel)
  BY <1>1, <1>4 DEF IInv, SignInv, WaiterInv, ChannelInv
<1> QED
  BY <1>2, <1>3, <1>4 DEF SignInv

\* What is stored is what is stored now, or was.
LEMMA StoredOrOld ==
  ASSUME IInv, NEW n \in Node, NEW id \in ChannelId, NEW ch, insert_channel(n, id, ch)
  PROVE  /\ db'[n][id] = ch
         /\ \A k \in Node, j \in ChannelId : k # n \/ j # id => db'[k][j] = db[k][j]
<1>1. IsDb(db) /\ Insert(db, n, id, ch, db')
  BY DEF IInv, insert_channel, Insert
<1> QED
  BY <1>1, Inserted

\* open_channel stores a channel without a signature.
LEMMA OpenSigns ==
  ASSUME IInv, SignInv, NEW k \in Call, NEW n \in Node, NEW peer \in Node, NEW v \in Value,
         open_channel(k, n, peer, v)
  PROVE  SignInv'
<1> DEFINE M(id) == [kind |-> "RsEcdsaNewChannel", call |-> k, from |-> n, to |-> peer,
                     id |-> id, funding_satoshis |-> v,
                     publishing_key |-> my_publishing_key_for(n)]
           C(id) == [at |-> "open", message |-> M(id)]
           ch == Channel("Pending", peer, v, TRUE)
<1>1. PICK id \in ChannelId :
        /\ create_fund_transaction(n, peer, v, id)
        /\ insert_channel(n, id, ch)
        /\ Acquire(n, C(id))
  BY DEF open_channel
<1>2. n # peer /\ waiters' = waiters
  BY DEF open_channel
<1>3. /\ \A j \in ChannelId : fund_tx[j] # None => fund_tx'[j] = fund_tx[j]
      /\ fund_tx'[id].peer = peer /\ fund_tx'[id].value = v
  BY <1>1, <1>2, TransactionMade
<1>4. Signs(fund_tx', id, ch)
  <2>1. /\ ch.state = "Pending" /\ ch.peer_id = peer /\ ch.value = v
        /\ ch.commit_sig = None /\ ch.close_tx = None
    BY DEF Channel
  <2> HIDE DEF ch
  <2> QED
    BY <1>3, <2>1 DEF Signs
<1>5. \A j \in Node : lock'[j] = lock[j] \/ lock'[j].at = "open"
  <2>1. lock' = [lock EXCEPT ![n] = C(id)] /\ C(id).at = "open"
    BY <1>1 DEF Acquire
  <2> HIDE DEF C
  <2> QED
    BY <2>1, LockSet
<1> HIDE DEF ch, C
<1> QED
  BY <1>1, <1>2, <1>3, <1>4, <1>5, StoredOrOld, SignKept

\* recv_new_channel stores the acceptor's channel, which holds no signature.
LEMMA RecvNewSigns ==
  ASSUME IInv, SignInv, NEW n \in Node, NEW m \in net, recv_new_channel(n, m)
  PROVE  SignInv'
<1> DEFINE ch == Channel("WaitingForFund", m.from, m.funding_satoshis, FALSE)
           w == [node |-> n, id |-> m.id, channel |-> ch, call |-> m.call]
           A(sig) == [kind |-> "RsEcdsaAckNewChannel", call |-> m.call, from |-> n,
                      to |-> m.from, id |-> m.id, commit_sig |-> sig]
           C(sig) == [at |-> "ack", message |-> A(sig)]
<1>1. PICK sig : /\ insert_channel(n, m.id, ch)
                 /\ waiters' = waiters \cup {w}
                 /\ Acquire(n, C(sig))
  BY DEF recv_new_channel, wait_for_funding
<1>2. fund_tx' = fund_tx /\ m.id \in ChannelId
  BY DEF recv_new_channel, IInv, MessageInv, NewInv
<1>3. Signs(fund_tx', m.id, ch)
  BY DEF Signs, Channel, InitiatorState
<1>4. w.id = m.id /\ w.channel = ch
  OBVIOUS
<1>5. \A j \in Node : lock'[j] = lock[j] \/ lock'[j].at = "ack"
  <2>1. lock' = [lock EXCEPT ![n] = C(sig)] /\ C(sig).at = "ack"
    BY <1>1 DEF Acquire
  <2> HIDE DEF C
  <2> QED
    BY <2>1, LockSet
<1> HIDE DEF ch, C, w
<1> QED
  BY <1>1, <1>2, <1>3, <1>4, <1>5, StoredOrOld, SignKept

\* The signature of an ack that is accepted is the one that the transaction determines.
LEMMA RecvAckSigns ==
  ASSUME IInv, SignInv, NEW n \in Node, NEW m \in net, recv_new_channel_ack(n, m)
  PROVE  SignInv'
<1> DEFINE ch == Signed(db[n][m.id], "ReadyToFund", m.commit_sig)
           C == [at |-> "acked", id |-> m.id, call |-> m.call, channel |-> ch]
<1>1. db' = db /\ fund_tx' = fund_tx /\ waiters' = waiters /\ m.id \in ChannelId
  BY DEF recv_new_channel_ack, IInv, MessageInv, AckInv
<1>2. CASE Acceptable(n, m) /\ Acquire(n, C)
  <2>1. /\ db[n][m.id] # None /\ db[n][m.id].state = "Pending" /\ db[n][m.id].peer_id = m.from
        /\ m.commit_sig = encrypted_sign(
             funding_descriptor_for(n, m.from, TRUE)[2], my_publishing_key_for(n),
             state_sighash(n, m.id, m.from, AllToParty1(fund_tx[m.id].value), TRUE))
    BY <1>2 DEF Acceptable
  <2>2. Role(fund_tx, n, m.id, db[n][m.id]) /\ Signs(fund_tx, m.id, db[n][m.id])
    BY <1>1, <2>1 DEF IInv, ChannelInv, SignInv
  <2>3. /\ fund_tx[m.id].by = n /\ fund_tx[m.id].peer = m.from
        /\ db[n][m.id].value = fund_tx[m.id].value /\ db[n][m.id].close_tx = None
    BY <2>1, <2>2 DEF Role, Signs, InitiatorState, AcceptorState
  <2>4. m.commit_sig = Refund(fund_tx, m.id)
    BY <2>1, <2>3 DEF Refund, Commitment
  <2>5. Signs(fund_tx, m.id, ch)
    <3>1. /\ ch.state = "ReadyToFund" /\ ch.peer_id = m.from /\ ch.value = fund_tx[m.id].value
          /\ ch.commit_sig = m.commit_sig /\ ch.close_tx = None
      <4>1. IsChannel(db[n][m.id])
        BY <2>2 DEF Role
      <4>2. /\ ch.state = "ReadyToFund" /\ ch.peer_id = db[n][m.id].peer_id
            /\ ch.value = db[n][m.id].value /\ ch.commit_sig = m.commit_sig
            /\ ch.close_tx = db[n][m.id].close_tx
        BY <4>1, ChannelFields
      <4> HIDE DEF ch
      <4> QED
        BY <2>1, <2>3, <4>2
    <3> HIDE DEF ch
    <3> QED
      BY <2>3, <2>4, <3>1 DEF Signs
  <2>6. C.id = m.id /\ C.channel = ch
    OBVIOUS
  <2>7. lock' = [lock EXCEPT ![n] = C]
    BY <1>2 DEF Acquire
  <2> HIDE DEF C, ch
  <2>8. \A j \in Node : lock'[j] = lock[j] \/ lock'[j] = C
    BY <2>7, LockSet
  <2> QED
    BY <1>1, <2>5, <2>6, <2>8, SignKept
<1>3. CASE lock' = lock
  BY <1>1, <1>3, SignKept
<1> QED
  BY <1>2, <1>3 DEF recv_new_channel_ack, Signed

\* What is stored, and handed to a task, was in hand.
LEMMA StoreSigns ==
  ASSUME IInv, SignInv, NEW n \in Node, ack_stored(n) \/ close_stored(n)
  PROVE  SignInv'
<1>1. /\ lock[n] # None /\ lock[n].at \in {"acked", "close"}
      /\ insert_channel(n, lock[n].id, lock[n].channel) /\ lock' = [lock EXCEPT ![n] = None]
      /\ fund_tx' = fund_tx
      /\ \A w \in waiters' : w \in waiters \/ (w.id = lock[n].id /\ w.channel = lock[n].channel)
  BY DEF ack_stored, close_stored, wait_for_funding, Release
<1>2. lock[n].id \in ChannelId /\ Signs(fund_tx, lock[n].id, lock[n].channel)
  BY <1>1 DEF IInv, CallInv, SignInv
<1>3. \A j \in Node : lock'[j] = lock[j] \/ lock'[j] = None
  BY <1>1, LockSet
<1> QED
  BY <1>1, <1>2, <1>3, StoredOrOld, SignKept

\* A close takes the closing transaction in hand.
LEMMA CloseSigns ==
  ASSUME IInv, SignInv, NEW n \in Node, NEW id \in ChannelId, force_close_channel(n, id)
  PROVE  SignInv'
<1> DEFINE tx == CloseTx(n, id, db[n][id])
           ch == ClosedBy(db[n][id], "Closed", None, tx)
           C == [at |-> "close", id |-> id, channel |-> ch]
<1>1. db' = db /\ fund_tx' = fund_tx /\ waiters' = waiters
  BY DEF force_close_channel
<1>2. db[n][id] # None /\ db[n][id].state = "Live"
  BY DEF force_close_channel, StateOf
<1>3. Role(fund_tx, n, id, db[n][id]) /\ Signs(fund_tx, id, db[n][id])
  BY <1>2 DEF IInv, ChannelInv, SignInv
<1>4. tx = Closing(fund_tx, id)
  BY <1>2, <1>3, CloseIsClosing
<1> HIDE DEF tx
<1>5. Signs(fund_tx, id, ch)
  <2>1. /\ ch.state = "Closed" /\ ch.peer_id = db[n][id].peer_id /\ ch.value = db[n][id].value
        /\ ch.commit_sig = None /\ ch.close_tx = tx
    BY <1>3, ChannelFields DEF Role
  <2> HIDE DEF ch
  <2> QED
    BY <1>2, <1>3, <1>4, <2>1 DEF Signs, InitiatorState
<1>6. C.id = id /\ C.channel = ch
  OBVIOUS
<1>7. lock' = [lock EXCEPT ![n] = C]
  BY DEF force_close_channel, Acquire, ClosedBy, tx
<1> HIDE DEF ch, C
<1>8. \A j \in Node : lock'[j] = lock[j] \/ lock'[j] = C
  BY <1>7, LockSet
<1> QED
  BY <1>1, <1>5, <1>6, <1>8, SignKept

\* A task stores its copy with the signature in it.
LEMMA SeenSigns ==
  ASSUME IInv, SignInv, NEW w \in waiters, funding_seen(w)
  PROVE  SignInv'
<1>1. waiters' \subseteq waiters /\ fund_tx' = fund_tx /\ lock' = lock
  BY DEF funding_seen
<1>2. /\ w.node \in Node /\ w.id \in ChannelId /\ IsChannel(w.channel)
      /\ Role(fund_tx, w.node, w.id, w.channel) /\ Signs(fund_tx, w.id, w.channel)
  BY DEF IInv, WaiterInv, ChannelInv, Role, SignInv
<1>3. CASE w.channel.state = "ReadyToFund"
           /\ insert_channel(w.node, w.id, InState(w.channel, "Live"))
  <2>1. Signs(fund_tx, w.id, InState(w.channel, "Live"))
    BY <1>2, <1>3, ChannelFields DEF Signs, InitiatorState
  <2> QED
    BY <1>1, <1>2, <1>3, <2>1, StoredOrOld, SignKept
<1>4. CASE insert_channel(w.node, w.id, InState(w.channel, "Funded"))
  <2>1. Signs(fund_tx, w.id, InState(w.channel, "Funded"))
    BY <1>2, ChannelFields DEF Signs, InitiatorState
  <2> QED
    BY <1>1, <1>2, <1>4, <2>1, StoredOrOld, SignKept
<1>5. CASE db' = db
  BY <1>1, <1>5, SignKept
<1> QED
  BY <1>3, <1>4, <1>5 DEF funding_seen, InState

\* Nothing else adds a copy of a channel.
LEMMA OtherSigns ==
  ASSUME IInv, SignInv,
         \/ UNCHANGED vars
         \/ \E n \in Node : open_channel_sent(n) \/ ack_sent(n) \/ hang_up(n) \/ node_ends(n)
         \/ \E m \in net : Lose(m)
         \/ \E id \in ChannelId : sign(id) \/ broadcast(id)
  PROVE  SignInv'
<1>1. fund_tx' = fund_tx /\ waiters' \subseteq waiters
  BY DEF vars, open_channel_sent, ack_sent, hang_up, node_ends, Lose, sign, broadcast
<1>2. \A j \in Node : lock'[j] = lock[j] \/ lock'[j] = None
  <2>1. lock' = lock \/ \E n \in Node : lock' = [lock EXCEPT ![n] = None]
    BY DEF vars, open_channel_sent, ack_sent, hang_up, node_ends, Lose, sign, broadcast, Release
  <2> QED
    BY <2>1, LockSet
<1>3. \A k \in Node, j \in ChannelId : db'[k][j] = db[k][j] \/ db'[k][j] = None
  <2>1. db' = db \/ \E n \in Node : db' = [db EXCEPT ![n] = [id \in ChannelId |-> None]]
    BY DEF vars, open_channel_sent, ack_sent, hang_up, node_ends, Lose, sign, broadcast
  <2> QED
    BY <2>1 DEF IInv, IsDb
<1> QED
  BY <1>1, <1>2, <1>3, SignKept

\* Every step keeps the signatures.
LEMMA NextSigns == IInv /\ SignInv /\ [Next]_vars => SignInv'
BY OpenSigns, RecvNewSigns, RecvAckSigns, StoreSigns, CloseSigns, SeenSigns, OtherSigns DEF Next

\* There are none at first.
LEMMA InitSigns == Init => SignInv
BY DEF Init, SignInv

\* In every reachable state the signatures are those of the funding transactions.
THEOREM Signatures == Spec => [](IInv /\ SignInv)
BY ChannelInvariant, InitSigns, NextSigns, PTL DEF Spec

\* What a node has closed (rs_ecdsa.rs:401-485) is on chain, and spent by a transaction
\* with the signatures of both keys, for any amount; the transaction pays the initiator
\* all but the fee when the amount covers the fee, and never when it does not, as the fee
\* is subtracted without a check (rs_ecdsa.rs:188).
THEOREM ClosedIsValid == Spec => []ClosesValidly
<1>1. IInv /\ SignInv => ClosesValidly
  <2> SUFFICES ASSUME IInv, SignInv, NEW n \in Node, NEW id \in ChannelId,
                      StateOf(n, id) = "Closed"
               PROVE  id \in chain /\ Refunds(db[n][id].close_tx, id)
    BY DEF ClosesValidly
  <2>1. /\ db[n][id].state = "Closed" /\ FundTxsOK(fund_tx) /\ Signs(fund_tx, id, db[n][id])
        /\ ChannelInv(db, fund_tx, ended, chain, n, id, db[n][id])
    BY DEF StateOf, IInv, SignInv
  <2>2. id \in chain /\ fund_tx[id] # None /\ db[n][id].close_tx = Closing(fund_tx, id)
    BY <2>1 DEF ChannelInv, Role, Signs, InitiatorState
  <2> QED
    BY <2>1, <2>2, ClosingIsValid
<1> QED
  BY Signatures, <1>1, PTL

-----------------------------------------------------------------------------
(* Calls, messages and replies *)

IsMessage(m) == m.from \in Node /\ m.to \in Node \ {m.from} /\ m.id \in ChannelId

\* Where a call waits, with what it sends or stores.
CallOK(call) ==
  /\ call.at \in {"open", "ack", "acked", "close"}
  /\ call.at \in {"open", "ack"} => IsMessage(call.message)
  /\ call.at = "close" => call.channel.state = "Closed"

CallsInv ==
  /\ \A n \in Node : lock[n] # None => CallOK(lock[n])
  /\ \A m \in net : IsMessage(m)

ReplyInv ==
  /\ reply \in [Call -> {"none", "sending", "Ok", "Err", "gone"}]
  /\ chain \subseteq signed /\ ended \subseteq Mortal

\* A step that takes the lock of n, or lets go of it, and sends at most its message.
LEMMA CallsKept ==
  ASSUME IInv, CallsInv,
         \/ lock' = lock
         \/ \E n \in Node : \/ lock' = [lock EXCEPT ![n] = None]
                            \/ \E C : CallOK(C) /\ lock' = [lock EXCEPT ![n] = C],
         \A m \in net' :
           \/ m \in net
           \/ \E n \in Node : lock[n] # None /\ lock[n].at \in {"open", "ack"} /\ m = lock[n].message
  PROVE  CallsInv'
<1>1. \A j \in Node : lock'[j] # None => CallOK(lock'[j])
  BY LockSet DEF CallsInv
<1>2. \A m \in net' : IsMessage(m)
  BY DEF CallsInv, CallOK
<1> QED
  BY <1>1, <1>2 DEF CallsInv

\* What open_channel and recv_new_channel are about to send is a message.
LEMMA SendingCalls ==
  ASSUME IInv, CallsInv,
         \/ \E k \in Call, n, peer \in Node, v \in Value : open_channel(k, n, peer, v)
         \/ \E n \in Node, m \in net : recv_new_channel(n, m)
  PROVE  CallsInv'
<1>1. ASSUME NEW k \in Call, NEW n \in Node, NEW peer \in Node, NEW v \in Value,
             open_channel(k, n, peer, v)
      PROVE  CallsInv'
  <2> DEFINE M(id) == [kind |-> "RsEcdsaNewChannel", call |-> k, from |-> n, to |-> peer,
                       id |-> id, funding_satoshis |-> v,
                       publishing_key |-> my_publishing_key_for(n)]
             C(id) == [at |-> "open", message |-> M(id)]
  <2>1. PICK id \in ChannelId : Acquire(n, C(id))
    BY <1>1 DEF open_channel
  <2>2. n # peer /\ net' = net
    BY <1>1 DEF open_channel
  <2>3. IsMessage(M(id))
    BY <2>2 DEF IsMessage
  <2>4. CallOK(C(id))
    BY <2>3 DEF CallOK
  <2> HIDE DEF C
  <2> QED
    BY <2>1, <2>2, <2>4, CallsKept DEF Acquire
<1>2. ASSUME NEW n \in Node, NEW m \in net, recv_new_channel(n, m) PROVE CallsInv'
  <2> DEFINE A(sig) == [kind |-> "RsEcdsaAckNewChannel", call |-> m.call, from |-> n,
                        to |-> m.from, id |-> m.id, commit_sig |-> sig]
             C(sig) == [at |-> "ack", message |-> A(sig)]
  <2>1. PICK sig : Acquire(n, C(sig))
    BY <1>2 DEF recv_new_channel
  <2>2. m.to = n /\ net' \subseteq net /\ IsMessage(m)
    BY <1>2 DEF recv_new_channel, CallsInv
  <2>3. IsMessage(A(sig))
    BY <2>2 DEF IsMessage
  <2>4. CallOK(C(sig))
    BY <2>3 DEF CallOK
  <2> HIDE DEF C
  <2> QED
    BY <2>1, <2>2, <2>4, CallsKept DEF Acquire
<1> QED
  BY <1>1, <1>2

\* A call that is about to store a channel.
LEMMA StoringCalls ==
  ASSUME IInv, CallsInv,
         \/ \E n \in Node, m \in net : recv_new_channel_ack(n, m)
         \/ \E n \in Node, id \in ChannelId : force_close_channel(n, id)
  PROVE  CallsInv'
<1>1. ASSUME NEW n \in Node, NEW m \in net, recv_new_channel_ack(n, m) PROVE CallsInv'
  <2> DEFINE C == [at |-> "acked", id |-> m.id, call |-> m.call,
                   channel |-> Signed(db[n][m.id], "ReadyToFund", m.commit_sig)]
  <2>1. (lock' = lock \/ Acquire(n, C)) /\ net' \subseteq net
    BY <1>1 DEF recv_new_channel_ack, Signed
  <2>2. CallOK(C)
    BY DEF CallOK
  <2> HIDE DEF C
  <2> QED
    BY <2>1, <2>2, CallsKept DEF Acquire
<1>2. ASSUME NEW n \in Node, NEW id \in ChannelId, force_close_channel(n, id) PROVE CallsInv'
  <2> DEFINE ch == ClosedBy(db[n][id], "Closed", None, CloseTx(n, id, db[n][id]))
             C == [at |-> "close", id |-> id, channel |-> ch]
  <2>1. Acquire(n, C) /\ net' = net
    BY <1>2 DEF force_close_channel, ClosedBy
  <2>2. ch.state = "Closed"
    <3>1. db[n][id] # None
      BY <1>2 DEF force_close_channel, StateOf
    <3>2. IsChannel(db[n][id])
      BY <3>1 DEF IInv, ChannelInv, Role
    <3> QED
      BY <3>2, ChannelFields
  <2> HIDE DEF ch
  <2>3. CallOK(C)
    BY <2>2 DEF CallOK
  <2> HIDE DEF C
  <2> QED
    BY <2>1, <2>3, CallsKept DEF Acquire
<1> QED
  BY <1>1, <1>2

\* Nothing else takes a lock.
LEMMA OtherCalls ==
  ASSUME IInv, CallsInv,
         \/ UNCHANGED vars
         \/ \E n \in Node : \/ open_channel_sent(n) \/ ack_sent(n) \/ hang_up(n) \/ node_ends(n)
                            \/ ack_stored(n) \/ close_stored(n)
         \/ \E m \in net : Lose(m)
         \/ \E w \in waiters : funding_seen(w)
         \/ \E id \in ChannelId : sign(id) \/ broadcast(id)
  PROVE  CallsInv'
<1>1. lock' = lock \/ \E n \in Node : lock' = [lock EXCEPT ![n] = None]
  BY DEF vars, open_channel_sent, ack_sent, hang_up, node_ends, ack_stored, close_stored,
         Lose, funding_seen, sign, broadcast, Release
<1>2. ASSUME NEW m \in net', m \notin net
      PROVE  \E n \in Node : lock[n] # None /\ lock[n].at \in {"open", "ack"} /\ m = lock[n].message
  <2>1. ASSUME NEW n \in Node, open_channel_sent(n) \/ ack_sent(n) \/ hang_up(n) \/ node_ends(n)
        PROVE  lock[n] # None /\ lock[n].at \in {"open", "ack"} /\ m = lock[n].message
    BY <1>2, <2>1 DEF open_channel_sent, ack_sent, hang_up, node_ends, Send
  <2>2. CASE net' \subseteq net
    BY <1>2, <2>2
  <2> QED
    BY <2>1, <2>2 DEF vars, ack_stored, close_stored, Lose, funding_seen, sign, broadcast
<1> QED
  BY <1>1, <1>2, CallsKept

\* Every step keeps the calls.
LEMMA NextCalls == IInv /\ CallsInv /\ [Next]_vars => CallsInv'
BY SendingCalls, StoringCalls, OtherCalls DEF Next

\* A call of the HTTP interface has one of five replies, and what is on chain was signed.
LEMMA NextReplies == ReplyInv /\ [Next]_vars => ReplyInv'
<1> SUFFICES ASSUME ReplyInv, [Next]_vars PROVE ReplyInv'
  OBVIOUS
<1> DEFINE Replies == {"none", "sending", "Ok", "Err", "gone"}
<1>1. reply \in [Call -> Replies]
  BY DEF ReplyInv
<1>2. chain' \subseteq signed' /\ ended' \subseteq Mortal
  BY ZenonT(30)
     DEF ReplyInv, Next, vars, open_channel, open_channel_sent, ack_sent, hang_up, node_ends, ack_stored,
         close_stored, force_close_channel, recv_new_channel, recv_new_channel_ack,
         Lose, funding_seen, sign, broadcast
<1>3. CASE reply' = reply
  BY <1>1, <1>2, <1>3 DEF ReplyInv
<1>4. ASSUME NEW k \in Call, NEW n \in Node, NEW peer \in Node, NEW v \in Value, open_channel(k, n, peer, v)
      PROVE  reply' \in [Call -> Replies]
  BY <1>1, <1>4 DEF open_channel
<1>5. ASSUME NEW n \in Node, open_channel_sent(n) PROVE reply' \in [Call -> Replies]
  BY <1>1, <1>5 DEF open_channel_sent
<1>6. ASSUME NEW n \in Node, hang_up(n) PROVE reply' \in [Call -> Replies]
  BY <1>1, <1>6 DEF hang_up
<1>7. ASSUME NEW n \in Node, node_ends(n) PROVE reply' \in [Call -> Replies]
  BY <1>1, <1>7 DEF node_ends
<1>8. \/ reply' = reply
      \/ \E k \in Call, n, peer \in Node, v \in Value : open_channel(k, n, peer, v)
      \/ \E n \in Node : open_channel_sent(n) \/ hang_up(n) \/ node_ends(n)
  BY ZenonT(30)
     DEF Next, vars, ack_sent, ack_stored, close_stored, force_close_channel, recv_new_channel,
         recv_new_channel_ack, Lose, funding_seen, sign, broadcast
<1> QED
  BY <1>2, <1>3, <1>4, <1>5, <1>6, <1>7, <1>8 DEF ReplyInv

-----------------------------------------------------------------------------
(* The tasks that hold a signature *)

\* A task of the tasks W waits with a copy of n's channel that is ready.
Awaited(W, n, id) ==
  \E w \in W : w.node = n /\ w.id = id /\ w.channel.state = "ReadyToFund"

\* It waits from when the channel is stored until the money is on chain.
WaitInv ==
  /\ \A n \in Node, id \in ChannelId :
       db[n][id] # None /\ db[n][id].state = "ReadyToFund" =>
         id \in chain \/ Awaited(waiters, n, id)
  /\ \A id \in signed :
       id \in chain \/ fund_tx[id].by \in ended \/ Awaited(waiters, fund_tx[id].by, id)

\* The step takes no task away, but those whose money is on chain and those of nodes
\* that end; it stores a channel that is ready only with a task that waits.
Awaits ==
  /\ chain \subseteq chain' /\ ended \subseteq ended'
  /\ \A id \in ChannelId : fund_tx[id] # None => fund_tx'[id] = fund_tx[id]
  /\ \A w \in waiters : w \in waiters' \/ w.id \in chain
  /\ \A n \in Node, id \in ChannelId :
       db'[n][id] # None /\ db'[n][id].state = "ReadyToFund" =>
         db'[n][id] = db[n][id] \/ Awaited(waiters', n, id)

\* Such a step, if nobody signs, leaves a task for all that is ready or signed.
LEMMA AwaitKept == ASSUME IInv, WaitInv, Awaits, signed' = signed PROVE WaitInv'
<1>1. ASSUME NEW n, NEW id, Awaited(waiters, n, id) PROVE id \in chain' \/ Awaited(waiters', n, id)
  BY <1>1 DEF Awaited, Awaits
<1>2. ASSUME NEW n \in Node, NEW id \in ChannelId,
             db'[n][id] # None, db'[n][id].state = "ReadyToFund"
      PROVE  id \in chain' \/ Awaited(waiters', n, id)
  BY <1>1, <1>2 DEF WaitInv, Awaits
<1>3. ASSUME NEW id \in signed
      PROVE  id \in chain' \/ fund_tx'[id].by \in ended' \/ Awaited(waiters', fund_tx'[id].by, id)
  <2>1. fund_tx'[id] = fund_tx[id]
    BY <1>3 DEF IInv, Shared, Awaits
  <2> QED
    BY <1>1, <1>3, <2>1 DEF WaitInv, Awaits
<1> QED
  BY <1>2, <1>3 DEF WaitInv

\* open_channel and recv_new_channel store channels that are not ready.
LEMMA NewAwaits ==
  ASSUME IInv, WaitInv,
         \/ \E k \in Call, n, peer \in Node, v \in Value : open_channel(k, n, peer, v)
         \/ \E n \in Node, m \in net : recv_new_channel(n, m)
  PROVE  WaitInv'
<1>1. ASSUME NEW k \in Call, NEW n \in Node, NEW peer \in Node, NEW v \in Value,
             open_channel(k, n, peer, v)
      PROVE  WaitInv'
  <2> DEFINE ch == Channel("Pending", peer, v, TRUE)
  <2>1. PICK id \in ChannelId : create_fund_transaction(n, peer, v, id) /\ insert_channel(n, id, ch)
    BY <1>1 DEF open_channel
  <2>2. n # peer /\ waiters' = waiters /\ chain' = chain /\ ended' = ended /\ signed' = signed
    BY <1>1 DEF open_channel
  <2>3. \A j \in ChannelId : fund_tx[j] # None => fund_tx'[j] = fund_tx[j]
    BY <2>1, <2>2, TransactionMade
  <2>4. ch.state = "Pending"
    BY DEF Channel
  <2> HIDE DEF ch
  <2>5. Awaits
    BY <2>1, <2>2, <2>3, <2>4, StoredOrOld DEF Awaits
  <2> QED
    BY <2>2, <2>5, AwaitKept
<1>2. ASSUME NEW n \in Node, NEW m \in net, recv_new_channel(n, m) PROVE WaitInv'
  <2> DEFINE ch == Channel("WaitingForFund", m.from, m.funding_satoshis, FALSE)
  <2>1. /\ insert_channel(n, m.id, ch) /\ waiters \subseteq waiters'
        /\ chain' = chain /\ ended' = ended /\ signed' = signed /\ fund_tx' = fund_tx
    BY <1>2 DEF recv_new_channel, wait_for_funding
  <2>2. m.id \in ChannelId
    BY <1>2 DEF recv_new_channel, IInv, MessageInv, NewInv
  <2>3. ch.state = "WaitingForFund"
    BY DEF Channel
  <2> HIDE DEF ch
  <2>4. Awaits
    BY <2>1, <2>2, <2>3, StoredOrOld DEF Awaits
  <2> QED
    BY <2>1, <2>4, AwaitKept
<1> QED
  BY <1>1, <1>2

\* A channel that is ready is stored together with a task that waits for it, and a
\* channel that is stored after a close is not ready.
LEMMA StoreAwaits ==
  ASSUME IInv, CallsInv, WaitInv, NEW n \in Node, ack_stored(n) \/ close_stored(n)
  PROVE  WaitInv'
<1> DEFINE id == lock[n].id
           ch == lock[n].channel
           w == [node |-> n, id |-> id, channel |-> ch, call |-> lock[n].call]
<1>1. /\ lock[n] # None /\ lock[n].at \in {"acked", "close"} /\ insert_channel(n, id, ch)
      /\ fund_tx' = fund_tx /\ signed' = signed /\ chain' = chain /\ ended' = ended
      /\ waiters \subseteq waiters'
      /\ lock[n].at = "acked" => w \in waiters'
  BY DEF ack_stored, close_stored, wait_for_funding
<1>2. id \in ChannelId
  BY <1>1 DEF IInv, CallInv
<1>3. w.node = n /\ w.id = id /\ w.channel = ch
  OBVIOUS
<1> HIDE DEF id, ch, w
<1>4. CASE lock[n].at = "acked"
  <2>1. ch.state = "ReadyToFund" => Awaited(waiters', n, id)
    BY <1>1, <1>3, <1>4 DEF Awaited
  <2>2. Awaits
    BY <1>1, <1>2, <2>1, StoredOrOld DEF Awaits
  <2> QED
    BY <1>1, <2>2, AwaitKept
<1>5. CASE lock[n].at = "close"
  <2>1. ch.state # "ReadyToFund"
    BY <1>1, <1>5 DEF CallsInv, CallOK, ch
  <2>2. Awaits
    BY <1>1, <1>2, <2>1, StoredOrOld DEF Awaits
  <2> QED
    BY <1>1, <2>2, AwaitKept
<1> QED
  BY <1>1, <1>4, <1>5

\* A task that stores its copy has its money on chain, and is done.
LEMMA SeenAwaits ==
  ASSUME IInv, WaitInv, NEW w \in waiters, funding_seen(w)
  PROVE  WaitInv'
<1>1. /\ w.id \in chain /\ waiters' = waiters \ {w} /\ fund_tx' = fund_tx
      /\ signed' = signed /\ chain' = chain /\ ended' = ended
  BY DEF funding_seen
<1>2. w.node \in Node /\ w.id \in ChannelId /\ IsChannel(w.channel)
  BY DEF IInv, WaiterInv, ChannelInv, Role
<1>3. ASSUME NEW s \in {"Live", "Funded"}, insert_channel(w.node, w.id, InState(w.channel, s))
      PROVE  Awaits
  <2>1. InState(w.channel, s).state # "ReadyToFund"
    BY <1>2, ChannelFields
  <2> QED
    BY <1>1, <1>2, <1>3, <2>1, StoredOrOld DEF Awaits
<1>4. ASSUME db' = db PROVE Awaits
  BY <1>1, <1>4 DEF Awaits
<1>5. Awaits
  <2>1. \/ \E s \in {"Live", "Funded"} : insert_channel(w.node, w.id, InState(w.channel, s))
        \/ db' = db
    BY DEF funding_seen, InState
  <2> QED
    BY <1>3, <1>4, <2>1
<1> QED
  BY <1>1, <1>5, AwaitKept

\* What a user signs is ready, so a task waits for it.
LEMMA SignAwaits ==
  ASSUME IInv, WaitInv, NEW id \in ChannelId, sign(id)
  PROVE  WaitInv'
<1>1. /\ db' = db /\ waiters' = waiters /\ fund_tx' = fund_tx
      /\ signed' = signed \cup {id} /\ chain' = chain /\ ended' = ended
  BY DEF sign
<1>2. /\ fund_tx[id].by \in Node /\ db[fund_tx[id].by][id] # None
      /\ db[fund_tx[id].by][id].state = "ReadyToFund"
  BY DEF sign, StateOf, IInv, FundTxsOK, FundTx
<1> QED
  BY <1>1, <1>2 DEF WaitInv

\* The tasks of a node that ends are gone, and what it had signed is lost.
LEMMA EndsAwaits ==
  ASSUME IInv, WaitInv, NEW n \in Node, node_ends(n)
  PROVE  WaitInv'
<1>1. /\ fund_tx' = fund_tx /\ signed' = signed /\ chain' = chain /\ ended' = ended \cup {n}
      /\ waiters' = {w \in waiters : w.node # n}
      /\ db' = [db EXCEPT ![n] = [id \in ChannelId |-> None]]
  BY DEF node_ends
<1>2. \A k \in Node, j \in ChannelId : db'[k][j] = IF k = n THEN None ELSE db[k][j]
  BY <1>1 DEF IInv, IsDb
<1>3. ASSUME NEW k \in Node, NEW id, k # n, Awaited(waiters, k, id)
      PROVE  Awaited(waiters', k, id)
  BY <1>1, <1>3 DEF Awaited
<1>4. ASSUME NEW k \in Node, NEW id \in ChannelId, db'[k][id] # None, db'[k][id].state = "ReadyToFund"
      PROVE  id \in chain' \/ Awaited(waiters', k, id)
  BY <1>1, <1>2, <1>3, <1>4 DEF WaitInv
<1>5. ASSUME NEW id \in signed
      PROVE  id \in chain' \/ fund_tx'[id].by \in ended' \/ Awaited(waiters', fund_tx'[id].by, id)
  <2>1. fund_tx[id].by \in Node
    BY <1>5 DEF IInv, Shared, FundTxsOK, FundTx
  <2> QED
    BY <1>1, <1>3, <1>5, <2>1 DEF WaitInv
<1> QED
  BY <1>1, <1>4, <1>5 DEF WaitInv

\* Nothing else touches a task or a channel.
LEMMA OtherAwaits ==
  ASSUME IInv, WaitInv,
         \/ UNCHANGED vars
         \/ \E n \in Node : \/ open_channel_sent(n) \/ ack_sent(n) \/ hang_up(n)
                            \/ \E id \in ChannelId : force_close_channel(n, id)
                            \/ \E m \in net : recv_new_channel_ack(n, m)
         \/ \E m \in net : Lose(m)
         \/ \E id \in ChannelId : broadcast(id)
  PROVE  WaitInv'
<1>1. /\ db' = db /\ waiters' = waiters /\ fund_tx' = fund_tx /\ signed' = signed /\ ended' = ended
      /\ chain \subseteq chain'
  BY DEF vars, open_channel_sent, ack_sent, hang_up, force_close_channel, recv_new_channel_ack,
         Lose, broadcast
<1>2. Awaits
  BY <1>1 DEF Awaits
<1> QED
  BY <1>1, <1>2, AwaitKept

\* Every step keeps a task waiting for what is ready, or signed and not on chain.
LEMMA NextAwaits == IInv /\ CallsInv /\ WaitInv /\ [Next]_vars => WaitInv'
BY NewAwaits, StoreAwaits, SeenAwaits, SignAwaits, EndsAwaits, OtherAwaits DEF Next

-----------------------------------------------------------------------------
(* When the wallets make no transaction twice *)

\* The initiator of a channel that was signed has it, ready or beyond.
KeptInv ==
  \A id \in signed :
    \/ fund_tx[id].by \in ended
    \/ /\ db[fund_tx[id].by][id] # None
       /\ db[fund_tx[id].by][id].state \in {"ReadyToFund", "Live", "Closed"}

\* It is kept by a step that stores, of a channel that was signed, only such a state
\* with the initiator.
LEMMA KeptInvKept ==
  ASSUME IInv, KeptInv, signed' = signed, ended \subseteq ended',
         \A id \in ChannelId : fund_tx[id] # None => fund_tx'[id] = fund_tx[id],
         \A id \in ChannelId : fund_tx[id] # None => LET n == fund_tx[id].by IN
           \/ n \in ended' \/ db'[n][id] = db[n][id]
           \/ db'[n][id] # None /\ db'[n][id].state \in {"ReadyToFund", "Live", "Closed"}
  PROVE  KeptInv'
<1> SUFFICES ASSUME NEW id \in signed
             PROVE  \/ fund_tx'[id].by \in ended'
                    \/ /\ db'[fund_tx'[id].by][id] # None
                       /\ db'[fund_tx'[id].by][id].state \in {"ReadyToFund", "Live", "Closed"}
  BY DEF KeptInv
<1>1. id \in ChannelId /\ fund_tx[id] # None /\ fund_tx'[id] = fund_tx[id]
  BY DEF IInv, Shared
<1> QED
  BY <1>1 DEF KeptInv

\* The wallet makes a transaction that is new, and the acceptor stores its own channel.
LEMMA NewKeeps ==
  ASSUME WalletRepeats = FALSE, IInv, KeptInv,
         \/ \E k \in Call, n, peer \in Node, v \in Value : open_channel(k, n, peer, v)
         \/ \E n \in Node, m \in net : recv_new_channel(n, m)
  PROVE  KeptInv'
<1>1. \A id \in ChannelId : fund_tx[id] # None => fund_tx[id].by \in Node /\ fund_tx[id].by # fund_tx[id].peer
  BY DEF IInv, FundTxsOK, FundTx
<1>2. ASSUME NEW k \in Call, NEW n \in Node, NEW peer \in Node, NEW v \in Value,
             open_channel(k, n, peer, v)
      PROVE  KeptInv'
  <2> DEFINE ch == Channel("Pending", peer, v, TRUE)
  <2>1. PICK id \in ChannelId : create_fund_transaction(n, peer, v, id) /\ insert_channel(n, id, ch)
    BY <1>2 DEF open_channel
  <2>2. n # peer /\ ended' = ended /\ signed' = signed
    BY <1>2 DEF open_channel
  <2>3. \A j \in ChannelId : fund_tx[j] # None => fund_tx'[j] = fund_tx[j]
    BY <2>1, <2>2, TransactionMade
  <2>4. fund_tx[id] = None
    BY <2>1 DEF create_fund_transaction
  <2> HIDE DEF ch
  <2>5. \A j \in ChannelId : fund_tx[j] # None => db'[fund_tx[j].by][j] = db[fund_tx[j].by][j]
    BY <1>1, <2>1, <2>4, StoredOrOld
  <2> QED
    BY <2>2, <2>3, <2>5, KeptInvKept
<1>3. ASSUME NEW n \in Node, NEW m \in net, recv_new_channel(n, m) PROVE KeptInv'
  <2> DEFINE ch == Channel("WaitingForFund", m.from, m.funding_satoshis, FALSE)
  <2>1. insert_channel(n, m.id, ch) /\ ended' = ended /\ signed' = signed /\ fund_tx' = fund_tx
    BY <1>3 DEF recv_new_channel
  <2>2. m.id \in ChannelId /\ n = fund_tx[m.id].peer
    BY <1>3 DEF recv_new_channel, IInv, MessageInv, NewInv
  <2> HIDE DEF ch
  <2>3. \A j \in ChannelId : fund_tx[j] # None => db'[fund_tx[j].by][j] = db[fund_tx[j].by][j]
    BY <1>1, <2>1, <2>2, StoredOrOld
  <2> QED
    BY <2>1, <2>3, KeptInvKept
<1> QED
  BY <1>2, <1>3

\* A copy of the initiator's channel that is stored is one that is ready or beyond.
LEMMA StoredKeeps ==
  ASSUME IInv, KeptInv, NEW n \in Node, NEW id \in ChannelId, NEW ch, insert_channel(n, id, ch),
         Role(fund_tx, n, id, ch), Signs(fund_tx, id, ch),
         ch.state \in {"ReadyToFund", "Live", "Closed"} \/ n # fund_tx[id].by,
         fund_tx' = fund_tx, signed' = signed, ended' = ended
  PROVE  KeptInv'
<1>1. \A j \in ChannelId : fund_tx[j] # None => fund_tx[j].by \in Node
  BY DEF IInv, FundTxsOK, FundTx
<1>2. /\ db'[n][id] = ch
      /\ \A k \in Node, j \in ChannelId : k # n \/ j # id => db'[k][j] = db[k][j]
  BY StoredOrOld
<1>3. ch # None \/ n # fund_tx[id].by
  BY InitiatorIsSome DEF IInv, InitiatorState
<1> QED
  BY <1>1, <1>2, <1>3, KeptInvKept

\* What a call stores after an ack or a close is ready or beyond.
LEMMA StoreKeeps ==
  ASSUME IInv, SignInv, CallsInv, KeptInv, NEW n \in Node, ack_stored(n) \/ close_stored(n)
  PROVE  KeptInv'
<1>1. /\ lock[n] # None /\ lock[n].at \in {"acked", "close"}
      /\ insert_channel(n, lock[n].id, lock[n].channel)
      /\ fund_tx' = fund_tx /\ signed' = signed /\ ended' = ended
  BY DEF ack_stored, close_stored
<1>2. /\ lock[n].id \in ChannelId /\ Role(fund_tx, n, lock[n].id, lock[n].channel)
      /\ lock[n].channel.state \in {"ReadyToFund", "Closed"}
      /\ Signs(fund_tx, lock[n].id, lock[n].channel)
  BY <1>1 DEF IInv, CallInv, ChannelInv, CallsInv, CallOK, SignInv
<1> QED
  BY <1>1, <1>2, StoredKeeps

\* What the task of an initiator stores is Live.
LEMMA SeenKeeps ==
  ASSUME IInv, SignInv, KeptInv, NEW w \in waiters, funding_seen(w)
  PROVE  KeptInv'
<1>1. fund_tx' = fund_tx /\ signed' = signed /\ ended' = ended
  BY DEF funding_seen
<1>2. /\ w.node \in Node /\ w.id \in ChannelId /\ IsChannel(w.channel)
      /\ Role(fund_tx, w.node, w.id, w.channel) /\ Signs(fund_tx, w.id, w.channel)
  BY DEF IInv, WaiterInv, ChannelInv, Role, SignInv
<1>3. ASSUME w.channel.state = "ReadyToFund", insert_channel(w.node, w.id, InState(w.channel, "Live"))
      PROVE  KeptInv'
  <2>1. /\ Role(fund_tx, w.node, w.id, InState(w.channel, "Live"))
        /\ InState(w.channel, "Live").state = "Live"
    BY <1>2, <1>3, ChannelFields DEF Role, InitiatorState, AcceptorState
  <2>2. Signs(fund_tx, w.id, InState(w.channel, "Live"))
    BY <1>2, <1>3, ChannelFields DEF Signs, InitiatorState
  <2> QED
    BY <1>1, <1>2, <1>3, <2>1, <2>2, StoredKeeps
<1>4. ASSUME w.channel.state = "WaitingForFund", insert_channel(w.node, w.id, InState(w.channel, "Funded"))
      PROVE  KeptInv'
  <2>1. Role(fund_tx, w.node, w.id, InState(w.channel, "Funded"))
    BY <1>2, <1>4, ChannelFields DEF Role, InitiatorState, AcceptorState
  <2>2. Signs(fund_tx, w.id, InState(w.channel, "Funded"))
    BY <1>2, ChannelFields DEF Signs, InitiatorState
  <2>3. w.node # fund_tx[w.id].by
    BY <1>2, <1>4 DEF Role, InitiatorState, AcceptorState, IInv, FundTxsOK
  <2> QED
    BY <1>1, <1>2, <1>4, <2>1, <2>2, <2>3, StoredKeeps
<1>5. ASSUME db' = db PROVE KeptInv'
  BY <1>1, <1>5, KeptInvKept
<1> QED
  BY <1>3, <1>4, <1>5 DEF funding_seen, InState

\* What is signed is ready with its initiator; a process that ends loses its own.
LEMMA OtherKeeps ==
  ASSUME IInv, KeptInv,
         \/ UNCHANGED vars
         \/ \E n \in Node : \/ open_channel_sent(n) \/ ack_sent(n) \/ hang_up(n) \/ node_ends(n)
                            \/ \E id \in ChannelId : force_close_channel(n, id)
                            \/ \E m \in net : recv_new_channel_ack(n, m)
         \/ \E m \in net : Lose(m)
         \/ \E id \in ChannelId : sign(id) \/ broadcast(id)
  PROVE  KeptInv'
<1>1. fund_tx' = fund_tx
  BY DEF vars, open_channel_sent, ack_sent, hang_up, node_ends, force_close_channel, recv_new_channel_ack,
         Lose, sign, broadcast
<1>2. ASSUME NEW id \in ChannelId, sign(id) PROVE KeptInv'
  <2>1. /\ db' = db /\ ended' = ended /\ signed' = signed \cup {id}
        /\ fund_tx[id] # None /\ StateOf(fund_tx[id].by, id) = "ReadyToFund"
    BY <1>2 DEF sign
  <2>2. db[fund_tx[id].by][id] # None /\ db[fund_tx[id].by][id].state = "ReadyToFund"
    BY <2>1 DEF StateOf
  <2> QED
    BY <1>1, <2>1, <2>2 DEF KeptInv
<1>3. ASSUME NEW n \in Node, node_ends(n) PROVE KeptInv'
  <2>1. /\ ended' = ended \cup {n} /\ signed' = signed
        /\ db' = [db EXCEPT ![n] = [id \in ChannelId |-> None]]
    BY <1>3 DEF node_ends
  <2>2. \A k \in Node, j \in ChannelId : k # n => db'[k][j] = db[k][j]
    BY <2>1 DEF IInv, IsDb
  <2>3. \A j \in ChannelId : fund_tx[j] # None => fund_tx[j].by \in Node
    BY DEF IInv, FundTxsOK, FundTx
  <2> QED
    BY <1>1, <2>1, <2>2, <2>3, KeptInvKept
<1>4. CASE db' = db /\ signed' = signed /\ ended' = ended
  BY <1>1, <1>4, KeptInvKept
<1> QED
  BY <1>2, <1>3, <1>4
     DEF vars, open_channel_sent, ack_sent, hang_up, force_close_channel, recv_new_channel_ack, Lose, broadcast

\* Every step keeps the initiator's channel, if no transaction is made twice.
LEMMA NextKeeps ==
  WalletRepeats = FALSE /\ IInv /\ SignInv /\ CallsInv /\ KeptInv /\ [Next]_vars => KeptInv'
BY NewKeeps, StoreKeeps, SeenKeeps, OtherKeeps DEF Next

-----------------------------------------------------------------------------
(* Offers: one at most for every channel, and none for one that the peer has *)

\* The message that offers a channel.
IsOffer(m) == m.kind = "RsEcdsaNewChannel"

\* An offer under way, or about to be sent, is the only one, to a peer without the channel.
OfferInv ==
  /\ \A m \in net : IsOffer(m) => db[m.to][m.id] = None
  /\ \A l, m \in net : IsOffer(l) /\ IsOffer(m) /\ l.id = m.id => l = m
  /\ \A n \in Node : lock[n] # None /\ lock[n].at = "open" =>
       LET offer == lock[n].message
       IN  /\ IsOffer(offer) /\ offer.from = n /\ db[offer.to][offer.id] = None
           /\ \A m \in net : IsOffer(m) => m.id # offer.id
  /\ \A n \in Node : lock[n] # None /\ lock[n].at = "ack" => ~IsOffer(lock[n].message)

\* No step but recv_new_channel and open_channel makes an entry where there was none.
NoneStays == \A n \in Node, id \in ChannelId : db[n][id] = None => db'[n][id] = None

\* An offer goes from the maker of the transaction to its peer.
LEMMA OfferIsNew ==
  ASSUME IInv, NEW m \in net, IsOffer(m)
  PROVE  /\ m.id \in ChannelId /\ fund_tx[m.id] # None /\ m.to \in Node /\ m.from \in Node
         /\ m.from = fund_tx[m.id].by /\ m.to = fund_tx[m.id].peer /\ m.from # m.to
BY DEF IInv, MessageInv, NewInv, FundTxsOK, FundTx, IsOffer

\* So does one that is about to be sent.
LEMMA HeldOfferIsNew ==
  ASSUME IInv, OfferInv, NEW n \in Node, lock[n] # None, lock[n].at = "open"
  PROVE  LET m == lock[n].message IN
         /\ m.id \in ChannelId /\ fund_tx[m.id] # None /\ m.to \in Node
         /\ n = fund_tx[m.id].by /\ m.to = fund_tx[m.id].peer /\ n # m.to
<1>1. IsOffer(lock[n].message) /\ lock[n].message.from = n
  BY DEF OfferInv
<1>2. NewInv(fund_tx, lock[n].message)
  BY <1>1 DEF IInv, CallInv, MessageInv, IsOffer
<1> DEFINE m == lock[n].message
<1>3. NewInv(fund_tx, m) /\ m.from = n
  BY <1>1, <1>2
<1> HIDE DEF m
<1>4. /\ m.id \in ChannelId /\ fund_tx[m.id] # None /\ m.to \in Node
      /\ n = fund_tx[m.id].by /\ m.to = fund_tx[m.id].peer /\ n # m.to
  BY <1>3 DEF NewInv, IInv, FundTxsOK, FundTx
<1> QED
  BY <1>4 DEF m

\* A step that sends nothing and starts to send nothing.
LEMMA OfferKept ==
  ASSUME IInv, OfferInv, NoneStays, net' \subseteq net,
         \A n \in Node : lock'[n] # None /\ lock'[n].at \in {"open", "ack"} => lock'[n] = lock[n]
  PROVE  OfferInv'
<1>1. \A m \in net' : IsOffer(m) => db'[m.to][m.id] = None
  BY OfferIsNew DEF OfferInv, NoneStays
<1>2. ASSUME NEW n \in Node, lock'[n] # None, lock'[n].at = "open"
      PROVE  /\ IsOffer(lock'[n].message) /\ lock'[n].message.from = n
             /\ db'[lock'[n].message.to][lock'[n].message.id] = None
             /\ \A m \in net' : IsOffer(m) => m.id # lock'[n].message.id
  <2>1. lock'[n] = lock[n] /\ lock[n].at = "open" /\ lock[n] # None
    BY <1>2
  <2> QED
    BY <2>1, HeldOfferIsNew DEF OfferInv, NoneStays
<1>3. \A n \in Node : lock'[n] # None /\ lock'[n].at = "ack" => ~IsOffer(lock'[n].message)
  BY DEF OfferInv
<1>4. \A l, m \in net' : IsOffer(l) /\ IsOffer(m) /\ l.id = m.id => l = m
  BY DEF OfferInv
<1> QED
  BY <1>1, <1>2, <1>3, <1>4 DEF OfferInv

\* A step that sends the message in hand, or drops it, and lets go of the lock.
LEMMA OfferSent ==
  ASSUME IInv, OfferInv, NoneStays, NEW n \in Node, lock[n] # None, lock[n].at \in {"open", "ack"},
         \A m \in net' : m \in net \/ m = lock[n].message, lock' = [lock EXCEPT ![n] = None]
  PROVE  OfferInv'
<1> DEFINE offer == lock[n].message
<1>1. lock'[n] = None /\ \A k \in Node : k # n => lock'[k] = lock[k]
  BY LockSet
<1>2. CASE lock[n].at = "ack"
  <2>1. \A m \in net' : IsOffer(m) => m \in net
    BY <1>2 DEF OfferInv
  <2>2. \A m \in net' : IsOffer(m) => db'[m.to][m.id] = None
    BY <2>1, OfferIsNew DEF OfferInv, NoneStays
  <2>3. ASSUME NEW k \in Node, lock'[k] # None, lock'[k].at = "open"
        PROVE  /\ IsOffer(lock'[k].message) /\ lock'[k].message.from = k
               /\ db'[lock'[k].message.to][lock'[k].message.id] = None
               /\ \A m \in net' : IsOffer(m) => m.id # lock'[k].message.id
    BY <1>1, <2>1, <2>3, HeldOfferIsNew DEF OfferInv, NoneStays
  <2> QED
    BY <1>1, <2>1, <2>2, <2>3 DEF OfferInv
<1>3. CASE lock[n].at = "open"
  <2>1. /\ IsOffer(offer) /\ offer.from = n /\ db[offer.to][offer.id] = None
        /\ \A m \in net : IsOffer(m) => m.id # offer.id
    BY <1>3 DEF OfferInv
  <2>2. offer.id \in ChannelId /\ offer.to \in Node /\ n = fund_tx[offer.id].by
    BY <1>3, HeldOfferIsNew
  <2>3. \A m \in net' : IsOffer(m) => db'[m.to][m.id] = None
    BY <2>1, <2>2, OfferIsNew DEF OfferInv, NoneStays
  <2>4. \A l, m \in net' : IsOffer(l) /\ IsOffer(m) /\ l.id = m.id => l = m
    BY <2>1 DEF OfferInv
  <2>5. ASSUME NEW k \in Node, lock'[k] # None, lock'[k].at = "open"
        PROVE  /\ IsOffer(lock'[k].message) /\ lock'[k].message.from = k
               /\ db'[lock'[k].message.to][lock'[k].message.id] = None
               /\ \A m \in net' : IsOffer(m) => m.id # lock'[k].message.id
    <3>1. k # n /\ lock'[k] = lock[k]
      BY <1>1, <2>5
    <3>2. lock[k].message.id # offer.id
      BY <2>2, <2>5, <3>1, HeldOfferIsNew
    <3> QED
      BY <2>1, <2>5, <3>1, <3>2, HeldOfferIsNew DEF OfferInv, NoneStays
  <2> QED
    BY <1>1, <2>3, <2>4, <2>5 DEF OfferInv
<1> QED
  BY <1>2, <1>3

\* The offer of a new transaction is the first for its channel.
LEMMA OpenOffers ==
  ASSUME WalletRepeats = FALSE, IInv, OfferInv,
         NEW k \in Call, NEW n \in Node, NEW peer \in Node, NEW v \in Value, open_channel(k, n, peer, v)
  PROVE  OfferInv'
<1> DEFINE M(id) == [kind |-> "RsEcdsaNewChannel", call |-> k, from |-> n, to |-> peer,
                     id |-> id, funding_satoshis |-> v,
                     publishing_key |-> my_publishing_key_for(n)]
           C(id) == [at |-> "open", message |-> M(id)]
           ch == Channel("Pending", peer, v, TRUE)
<1>1. PICK id \in ChannelId :
        /\ create_fund_transaction(n, peer, v, id)
        /\ insert_channel(n, id, ch)
        /\ Acquire(n, C(id))
  BY DEF open_channel
<1>2. n # peer /\ net' = net
  BY DEF open_channel
<1>3. fund_tx[id] = None /\ db[peer][id] = None
  BY <1>1 DEF create_fund_transaction, IInv, ChannelInv, Role
<1> HIDE DEF ch
<1>4. \A i \in Node, j \in ChannelId : i # n \/ j # id => db'[i][j] = db[i][j]
  BY <1>1, StoredOrOld
<1>5. \A m \in net' : IsOffer(m) => m.id # id /\ db'[m.to][m.id] = None
  BY <1>2, <1>3, <1>4, OfferIsNew DEF OfferInv
<1>6. /\ C(id).at = "open" /\ IsOffer(C(id).message) /\ C(id).message.from = n
      /\ C(id).message.to = peer /\ C(id).message.id = id
  BY DEF IsOffer
<1>7. lock' = [lock EXCEPT ![n] = C(id)]
  BY <1>1 DEF Acquire
<1> HIDE DEF C
<1>8. lock'[n] = C(id) /\ \A i \in Node : i # n => lock'[i] = lock[i]
  BY <1>7, LockSet
<1>9. ASSUME NEW i \in Node, lock'[i] # None, lock'[i].at = "open"
      PROVE  /\ IsOffer(lock'[i].message) /\ lock'[i].message.from = i
             /\ db'[lock'[i].message.to][lock'[i].message.id] = None
             /\ \A m \in net' : IsOffer(m) => m.id # lock'[i].message.id
  <2>1. CASE i = n
    BY <1>2, <1>3, <1>4, <1>5, <1>6, <1>8, <2>1
  <2>2. CASE i # n
    <3>1. lock'[i] = lock[i] /\ lock[i].message.id # id
      BY <1>3, <1>8, <1>9, <2>2, HeldOfferIsNew
    <3> QED
      BY <1>2, <1>4, <1>9, <3>1, HeldOfferIsNew DEF OfferInv
  <2> QED
    BY <2>1, <2>2
<1>10. \A i \in Node : lock'[i] # None /\ lock'[i].at = "ack" => ~IsOffer(lock'[i].message)
  BY <1>6, <1>8 DEF OfferInv
<1> QED
  BY <1>2, <1>5, <1>9, <1>10 DEF OfferInv

\* An offer that is taken was the only one for its channel.
LEMMA RecvNewOffers ==
  ASSUME IInv, OfferInv, NEW n \in Node, NEW m \in net, recv_new_channel(n, m)
  PROVE  OfferInv'
<1> DEFINE ch == Channel("WaitingForFund", m.from, m.funding_satoshis, FALSE)
           A(sig) == [kind |-> "RsEcdsaAckNewChannel", call |-> m.call, from |-> n,
                      to |-> m.from, id |-> m.id, commit_sig |-> sig]
           C(sig) == [at |-> "ack", message |-> A(sig)]
<1>1. PICK sig : insert_channel(n, m.id, ch) /\ Acquire(n, C(sig))
  BY DEF recv_new_channel
<1>2. net' = net \ {m} /\ IsOffer(m) /\ n = m.to /\ m.id \in ChannelId
  BY OfferIsNew DEF recv_new_channel, IsOffer
<1> HIDE DEF ch
<1>3. \A i \in Node, j \in ChannelId : i # n \/ j # m.id => db'[i][j] = db[i][j]
  BY <1>1, <1>2, StoredOrOld
<1>4. \A l \in net' : IsOffer(l) => l.id # m.id /\ db'[l.to][l.id] = None
  BY <1>2, <1>3, OfferIsNew DEF OfferInv
<1>5. C(sig).at = "ack" /\ ~IsOffer(C(sig).message)
  BY DEF IsOffer
<1>6. lock' = [lock EXCEPT ![n] = C(sig)]
  BY <1>1 DEF Acquire
<1> HIDE DEF C
<1>7. lock'[n] = C(sig) /\ \A i \in Node : i # n => lock'[i] = lock[i]
  BY <1>6, LockSet
<1>8. ASSUME NEW i \in Node, lock'[i] # None, lock'[i].at = "open"
      PROVE  /\ IsOffer(lock'[i].message) /\ lock'[i].message.from = i
             /\ db'[lock'[i].message.to][lock'[i].message.id] = None
             /\ \A l \in net' : IsOffer(l) => l.id # lock'[i].message.id
  <2>1. lock'[i] = lock[i] /\ lock[i].message.id # m.id
    BY <1>2, <1>5, <1>7, <1>8 DEF OfferInv
  <2> QED
    BY <1>2, <1>3, <1>8, <2>1, HeldOfferIsNew DEF OfferInv
<1>9. \A i \in Node : lock'[i] # None /\ lock'[i].at = "ack" => ~IsOffer(lock'[i].message)
  BY <1>5, <1>7 DEF OfferInv
<1>10. \A k, l \in net' : IsOffer(k) /\ IsOffer(l) /\ k.id = l.id => k = l
  BY <1>2 DEF OfferInv
<1> QED
  BY <1>4, <1>8, <1>9, <1>10 DEF OfferInv

-----------------------------------------------------------------------------
(* Calls and tasks: what they hold is one step ahead of the database *)

\* What a call in progress will store follows on what the database D holds.
InHand(D, n, call) ==
  /\ call.at = "acked" => D[n][call.id] # None /\ D[n][call.id].state = "Pending"
  /\ call.at = "close" => D[n][call.id] # None /\ D[n][call.id].state = "Live"

\* What a task will store follows on what the database D holds.
Watched(D, w) ==
  /\ D[w.node][w.id] # None
  /\ w.channel.state = "ReadyToFund" => D[w.node][w.id].state = "ReadyToFund"

\* Two tasks with a copy of one channel that is ready.
Twins(v, w) ==
  /\ v.node = w.node /\ v.id = w.id
  /\ v.channel.state = "ReadyToFund" /\ w.channel.state = "ReadyToFund"

\* All calls and tasks are so, and no two tasks will make one channel Live.
HandInv ==
  /\ \A n \in Node : lock[n] # None => InHand(db, n, lock[n])
  /\ \A w \in waiters : Watched(db, w)
  /\ \A v, w \in waiters : Twins(v, w) => v = w

\* Every copy of a channel is a channel.
LEMMA CopyIsSome ==
  ASSUME FundTxsOK(fund_tx), NEW n \in Node, NEW id \in ChannelId, NEW ch,
         Role(fund_tx, n, id, ch), Signs(fund_tx, id, ch)
  PROVE  ch # None
<1>1. CASE ch.state \in InitiatorState
  BY <1>1, InitiatorIsSome
<1>2. CASE ch.state \in AcceptorState
  BY <1>2, AcceptorIsSome
<1> QED
  BY <1>1, <1>2 DEF Role

\* What is in hand is a channel in its role, by the initiator.
LEMMA HandFacts ==
  ASSUME IInv, SignInv, CallsInv, NEW n \in Node, lock[n] # None, lock[n].at \in {"acked", "close"}
  PROVE  /\ lock[n].id \in ChannelId /\ fund_tx[lock[n].id] # None /\ n = fund_tx[lock[n].id].by
         /\ n # fund_tx[lock[n].id].peer
         /\ lock[n].channel # None
         /\ lock[n].channel.state = IF lock[n].at = "acked" THEN "ReadyToFund" ELSE "Closed"
         /\ lock[n].channel.state = "ReadyToFund" => Shared(db, fund_tx, ended, lock[n].id)
<1>1. /\ lock[n].id \in ChannelId /\ Role(fund_tx, n, lock[n].id, lock[n].channel)
      /\ ChannelInv(db, fund_tx, ended, chain, n, lock[n].id, lock[n].channel)
      /\ lock[n].channel.state = IF lock[n].at = "acked" THEN "ReadyToFund" ELSE "Closed"
      /\ Signs(fund_tx, lock[n].id, lock[n].channel) /\ FundTxsOK(fund_tx)
  BY DEF IInv, CallInv, ChannelInv, CallsInv, CallOK, SignInv
<1>2. /\ fund_tx[lock[n].id] # None /\ n = fund_tx[lock[n].id].by
      /\ fund_tx[lock[n].id].by # fund_tx[lock[n].id].peer
  BY <1>1 DEF Role, FundTxsOK, AcceptorState
<1> QED
  BY <1>1, <1>2, CopyIsSome DEF ChannelInv

\* A task is of the initiator or of the acceptor, and stores a channel.
LEMMA TaskFacts ==
  ASSUME IInv, SignInv, NEW w \in waiters
  PROVE  /\ w.node \in Node /\ w.id \in ChannelId /\ fund_tx[w.id] # None
         /\ fund_tx[w.id].by # fund_tx[w.id].peer
         /\ \/ /\ w.channel.state = "ReadyToFund" /\ w.node = fund_tx[w.id].by
               /\ InState(w.channel, "Live") # None
               /\ InState(w.channel, "Live").state = "Live"
            \/ /\ w.channel.state = "WaitingForFund" /\ w.node = fund_tx[w.id].peer
               /\ InState(w.channel, "Funded") # None
               /\ InState(w.channel, "Funded").state = "Funded"
<1>1. /\ w.node \in Node /\ w.id \in ChannelId /\ IsChannel(w.channel)
      /\ Role(fund_tx, w.node, w.id, w.channel) /\ Signs(fund_tx, w.id, w.channel)
      /\ w.channel.state \in {"ReadyToFund", "WaitingForFund"} /\ FundTxsOK(fund_tx)
  BY DEF IInv, WaiterInv, ChannelInv, Role, SignInv
<1>2. fund_tx[w.id] # None /\ fund_tx[w.id].by # fund_tx[w.id].peer
  BY <1>1 DEF Role, FundTxsOK
<1>3. CASE w.channel.state = "ReadyToFund"
  <2>1. /\ Role(fund_tx, w.node, w.id, InState(w.channel, "Live"))
        /\ InState(w.channel, "Live").state = "Live" /\ w.node = fund_tx[w.id].by
    BY <1>1, <1>3, ChannelFields DEF Role, InitiatorState, AcceptorState
  <2>2. Signs(fund_tx, w.id, InState(w.channel, "Live"))
    BY <1>1, <1>3, ChannelFields DEF Signs, InitiatorState
  <2> QED
    BY <1>1, <1>2, <1>3, <2>1, <2>2, CopyIsSome
<1>4. CASE w.channel.state = "WaitingForFund"
  <2>1. /\ Role(fund_tx, w.node, w.id, InState(w.channel, "Funded"))
        /\ InState(w.channel, "Funded").state = "Funded" /\ w.node = fund_tx[w.id].peer
    BY <1>1, <1>4, ChannelFields DEF Role, InitiatorState, AcceptorState
  <2>2. Signs(fund_tx, w.id, InState(w.channel, "Funded"))
    BY <1>1, ChannelFields DEF Signs, InitiatorState
  <2> QED
    BY <1>1, <1>2, <1>4, <2>1, <2>2, CopyIsSome
<1> QED
  BY <1>1, <1>3, <1>4

\* It is kept by a step that leaves alone what is in hand and watched, or adds one
\* call and one task that satisfy it.
LEMMA HandKept ==
  ASSUME \A n \in Node : lock'[n] # None => InHand(db', n, lock'[n]),
         \A w \in waiters' : Watched(db', w),
         HandInv,
         \A v, w \in waiters' : Twins(v, w) => (v \in waiters /\ w \in waiters) \/ v = w
  PROVE  HandInv'
BY DEF HandInv

\* A new channel is in nobody's hand.
LEMMA OpenHands ==
  ASSUME WalletRepeats = FALSE, IInv, SignInv, CallsInv, HandInv,
         NEW k \in Call, NEW n \in Node, NEW peer \in Node, NEW v \in Value, open_channel(k, n, peer, v)
  PROVE  HandInv'
<1> DEFINE M(id) == [kind |-> "RsEcdsaNewChannel", call |-> k, from |-> n, to |-> peer,
                     id |-> id, funding_satoshis |-> v,
                     publishing_key |-> my_publishing_key_for(n)]
           C(id) == [at |-> "open", message |-> M(id)]
           ch == Channel("Pending", peer, v, TRUE)
<1>1. PICK id \in ChannelId :
        /\ fund_tx[id] = None
        /\ insert_channel(n, id, ch)
        /\ lock' = [lock EXCEPT ![n] = C(id)]
  BY DEF open_channel, create_fund_transaction, Acquire
<1>2. waiters' = waiters
  BY DEF open_channel
<1>3. C(id).at = "open"
  OBVIOUS
<1> HIDE DEF ch, C
<1>4. \A i \in Node, j \in ChannelId : i # n \/ j # id => db'[i][j] = db[i][j]
  BY <1>1, StoredOrOld
<1>5. lock'[n] = C(id) /\ \A i \in Node : i # n => lock'[i] = lock[i]
  BY <1>1, LockSet
<1>6. ASSUME NEW i \in Node, lock'[i] # None PROVE InHand(db', i, lock'[i])
  <2>1. CASE i = n
    BY <1>3, <1>5, <2>1 DEF InHand
  <2>2. CASE i # n
    <3>1. lock'[i] = lock[i] /\ InHand(db, i, lock[i])
      BY <1>5, <1>6, <2>2 DEF HandInv
    <3> QED
      BY <1>4, <1>6, <2>2, <3>1, HandFacts DEF InHand
  <2> QED
    BY <2>1, <2>2
<1>7. ASSUME NEW w \in waiters PROVE Watched(db', w)
  <2>1. w.node \in Node /\ w.id \in ChannelId /\ w.id # id
    BY <1>1, TaskFacts
  <2> QED
    BY <1>4, <2>1 DEF HandInv, Watched
<1> QED
  BY <1>2, <1>6, <1>7, HandKept

\* The acceptor had no channel, so nothing held or watched it.
LEMMA RecvNewHands ==
  ASSUME IInv, SignInv, CallsInv, OfferInv, HandInv, NEW n \in Node, NEW m \in net, recv_new_channel(n, m)
  PROVE  HandInv'
<1> DEFINE ch == Channel("WaitingForFund", m.from, m.funding_satoshis, FALSE)
           w == [node |-> n, id |-> m.id, channel |-> ch, call |-> m.call]
           A(sig) == [kind |-> "RsEcdsaAckNewChannel", call |-> m.call, from |-> n,
                      to |-> m.from, id |-> m.id, commit_sig |-> sig]
           C(sig) == [at |-> "ack", message |-> A(sig)]
<1>1. PICK sig : /\ insert_channel(n, m.id, ch)
                 /\ waiters' = waiters \cup {w}
                 /\ lock' = [lock EXCEPT ![n] = C(sig)]
  BY DEF recv_new_channel, wait_for_funding, Acquire
<1>2. m.to = n /\ IsOffer(m) /\ m.id \in ChannelId /\ db[n][m.id] = None
  BY OfferIsNew DEF recv_new_channel, IsOffer, OfferInv
<1>3. /\ C(sig).at = "ack"
      /\ w.node = n /\ w.id = m.id /\ w.channel.state = "WaitingForFund"
  BY DEF Channel
<1>4. ch # None
  <2>1. NewInv(fund_tx, m)
    BY <1>2 DEF IInv, MessageInv, IsOffer
  <2>2. /\ IsChannel(ch) /\ ch.state = "WaitingForFund" /\ ch.i_am_initiator = FALSE
        /\ ch.peer_id = m.from /\ ch.value = m.funding_satoshis
        /\ ch.commit_sig = None /\ ch.close_tx = None
    BY DEF IsChannel, Channel
  <2> HIDE DEF ch
  <2>3. Role(fund_tx, n, m.id, ch)
    BY <1>2, <2>1, <2>2 DEF NewInv, Role, AcceptorState
  <2> QED
    BY <1>2, <2>2, <2>3, AcceptorIsSome DEF IInv, AcceptorState
<1> HIDE DEF ch, C, w
<1>5. /\ db'[n][m.id] = ch
      /\ \A i \in Node, j \in ChannelId : i # n \/ j # m.id => db'[i][j] = db[i][j]
  BY <1>1, <1>2, StoredOrOld
<1>6. lock'[n] = C(sig) /\ \A i \in Node : i # n => lock'[i] = lock[i]
  BY <1>1, LockSet
<1>7. ASSUME NEW i \in Node, lock'[i] # None PROVE InHand(db', i, lock'[i])
  <2>1. CASE i = n
    BY <1>3, <1>6, <2>1 DEF InHand
  <2>2. CASE i # n
    <3>1. lock'[i] = lock[i] /\ InHand(db, i, lock[i])
      BY <1>6, <1>7, <2>2 DEF HandInv
    <3> QED
      BY <1>5, <1>7, <2>2, <3>1, HandFacts DEF InHand
  <2> QED
    BY <2>1, <2>2
<1>8. ASSUME NEW x \in waiters PROVE Watched(db', x)
  <2>1. x.node \in Node /\ x.id \in ChannelId /\ Watched(db, x)
    BY TaskFacts DEF HandInv
  <2> QED
    BY <1>2, <1>5, <2>1 DEF Watched
<1>9. Watched(db', w)
  BY <1>3, <1>4, <1>5 DEF Watched
<1>10. \A x, y \in waiters' : Twins(x, y) => x \in waiters /\ y \in waiters
  BY <1>1, <1>3 DEF Twins
<1> QED
  BY <1>1, <1>7, <1>8, <1>9, <1>10, HandKept

\* What a call has taken in hand is what the database holds.
LEMMA TakeHands ==
  ASSUME IInv, HandInv, NEW n \in Node,
         \/ \E m \in net : recv_new_channel_ack(n, m)
         \/ \E id \in ChannelId : force_close_channel(n, id)
  PROVE  HandInv'
<1>1. db' = db /\ waiters' = waiters
  BY DEF recv_new_channel_ack, force_close_channel
<1>2. ASSUME NEW C, lock' = [lock EXCEPT ![n] = C], InHand(db, n, C) PROVE HandInv'
  <2>1. lock'[n] = C /\ \A i \in Node : i # n => lock'[i] = lock[i]
    BY <1>2, LockSet
  <2> QED
    BY <1>1, <1>2, <2>1 DEF HandInv
<1>3. ASSUME NEW m \in net, recv_new_channel_ack(n, m) PROVE HandInv'
  <2> DEFINE C == [at |-> "acked", id |-> m.id, call |-> m.call,
                   channel |-> Signed(db[n][m.id], "ReadyToFund", m.commit_sig)]
  <2>1. lock' = lock \/ (Acceptable(n, m) /\ lock' = [lock EXCEPT ![n] = C])
    BY <1>3 DEF recv_new_channel_ack, Signed, Acquire
  <2>2. C.at = "acked" /\ C.id = m.id
    OBVIOUS
  <2> HIDE DEF C
  <2>3. Acceptable(n, m) => InHand(db, n, C)
    BY <2>2 DEF Acceptable, InHand
  <2> QED
    BY <1>1, <1>2, <2>1, <2>3 DEF HandInv
<1>4. ASSUME NEW id \in ChannelId, force_close_channel(n, id) PROVE HandInv'
  <2> DEFINE C == [at |-> "close", id |-> id,
                   channel |-> ClosedBy(db[n][id], "Closed", None, CloseTx(n, id, db[n][id]))]
  <2>1. StateOf(n, id) = "Live" /\ lock' = [lock EXCEPT ![n] = C]
    BY <1>4 DEF force_close_channel, ClosedBy, Acquire
  <2>2. C.at = "close" /\ C.id = id
    OBVIOUS
  <2> HIDE DEF C
  <2>3. InHand(db, n, C)
    BY <2>1, <2>2 DEF StateOf, InHand
  <2> QED
    BY <1>2, <2>1, <2>3
<1> QED
  BY <1>3, <1>4

\* What is stored was in the hand of one call, and no task of the initiator watched it.
LEMMA StoreHands ==
  ASSUME IInv, SignInv, CallsInv, HandInv, NEW n \in Node, ack_stored(n) \/ close_stored(n)
  PROVE  HandInv'
<1> DEFINE id == lock[n].id
           ch == lock[n].channel
           x == [node |-> n, id |-> id, channel |-> ch, call |-> lock[n].call]
<1>1. /\ lock[n] # None /\ lock[n].at \in {"acked", "close"}
      /\ insert_channel(n, id, ch) /\ lock' = [lock EXCEPT ![n] = None]
      /\ \/ lock[n].at = "acked" /\ waiters' = waiters \cup {x}
         \/ waiters' = waiters
  BY DEF ack_stored, close_stored, wait_for_funding, Release
<1>2. /\ id \in ChannelId /\ ch # None
      /\ lock[n].at = "acked" => ch.state = "ReadyToFund"
      /\ db[n][id] # None /\ db[n][id].state \in {"Pending", "Live"}
  BY <1>1, HandFacts DEF HandInv, InHand
<1>3. x.node = n /\ x.id = id /\ x.channel = ch
  OBVIOUS
<1> HIDE DEF id, ch, x
<1>4. /\ db'[n][id] = ch
      /\ \A i \in Node, j \in ChannelId : i # n \/ j # id => db'[i][j] = db[i][j]
  BY <1>1, <1>2, StoredOrOld
<1>5. lock'[n] = None /\ \A i \in Node : i # n => lock'[i] = lock[i]
  BY <1>1, LockSet
<1>6. ASSUME NEW i \in Node, lock'[i] # None PROVE InHand(db', i, lock'[i])
  <2>1. i # n /\ lock'[i] = lock[i] /\ InHand(db, i, lock[i])
    BY <1>5, <1>6 DEF HandInv
  <2> QED
    BY <1>4, <1>6, <2>1, HandFacts DEF InHand
<1>7. ASSUME NEW w \in waiters
      PROVE  /\ Watched(db', w)
             /\ w.node = n /\ w.id = id => w.channel.state # "ReadyToFund"
  <2>1. w.node \in Node /\ w.id \in ChannelId /\ Watched(db, w)
    BY TaskFacts DEF HandInv
  <2> QED
    BY <1>2, <1>4, <2>1 DEF Watched
<1>8. lock[n].at = "acked" => Watched(db', x)
  BY <1>2, <1>3, <1>4 DEF Watched
<1>9. \A v, w \in waiters' : Twins(v, w) => (v \in waiters /\ w \in waiters) \/ v = w
  BY <1>1, <1>3, <1>7 DEF Twins
<1> QED
  BY <1>1, <1>6, <1>7, <1>8, <1>9, HandKept

\* A task that stores its copy is the only one, and no call has the channel in hand.
LEMMA SeenHands ==
  ASSUME IInv, SignInv, CallsInv, HandInv, NEW w \in waiters, funding_seen(w)
  PROVE  HandInv'
<1>1. waiters' = waiters \ {w} /\ lock' = lock
  BY DEF funding_seen
<1>2. ASSUME db' = db PROVE HandInv'
  BY <1>1, <1>2 DEF HandInv
<1>3. ASSUME NEW ch, ch # None, insert_channel(w.node, w.id, ch),
             \A v \in waiters' : v.node = w.node /\ v.id = w.id => v.channel.state # "ReadyToFund",
             \A n \in Node : lock[n] # None /\ lock[n].at \in {"acked", "close"} =>
               n # w.node \/ lock[n].id # w.id
      PROVE  HandInv'
  <2>1. /\ w.node \in Node /\ w.id \in ChannelId /\ db'[w.node][w.id] = ch
        /\ \A i \in Node, j \in ChannelId : i # w.node \/ j # w.id => db'[i][j] = db[i][j]
    BY <1>3, TaskFacts, StoredOrOld
  <2>2. ASSUME NEW i \in Node, lock'[i] # None PROVE InHand(db', i, lock'[i])
    <3>1. lock'[i] = lock[i] /\ InHand(db, i, lock[i])
      BY <1>1, <2>2 DEF HandInv
    <3> QED
      BY <1>3, <2>1, <2>2, <3>1, HandFacts DEF InHand
  <2>3. ASSUME NEW v \in waiters' PROVE Watched(db', v)
    <3>1. v.node \in Node /\ v.id \in ChannelId /\ Watched(db, v)
      BY <1>1, TaskFacts DEF HandInv
    <3> QED
      BY <1>3, <2>1, <2>3, <3>1 DEF Watched
  <2> QED
    BY <1>1, <2>2, <2>3, HandKept
<1>4. ASSUME w.channel.state = "ReadyToFund", insert_channel(w.node, w.id, InState(w.channel, "Live"))
      PROVE  HandInv'
  <2>1. \A v \in waiters' : v.node = w.node /\ v.id = w.id => v.channel.state # "ReadyToFund"
    BY <1>1, <1>4 DEF HandInv, Twins
  <2>2. ASSUME NEW n \in Node, lock[n] # None, lock[n].at \in {"acked", "close"}
        PROVE  n # w.node \/ lock[n].id # w.id
    BY <1>4, <2>2 DEF HandInv, InHand, Watched
  <2> QED
    BY <1>3, <1>4, <2>1, <2>2, TaskFacts
<1>5. ASSUME w.channel.state = "WaitingForFund", insert_channel(w.node, w.id, InState(w.channel, "Funded"))
      PROVE  HandInv'
  <2>1. w.node = fund_tx[w.id].peer /\ fund_tx[w.id].by # fund_tx[w.id].peer
        /\ InState(w.channel, "Funded") # None
    BY <1>5, TaskFacts
  <2>2. \A v \in waiters' : v.node = w.node /\ v.id = w.id => v.channel.state # "ReadyToFund"
    BY <1>1, <2>1, TaskFacts
  <2>3. ASSUME NEW n \in Node, lock[n] # None, lock[n].at \in {"acked", "close"}
        PROVE  n # w.node \/ lock[n].id # w.id
    BY <2>1, <2>3, HandFacts
  <2> QED
    BY <1>3, <1>5, <2>1, <2>2, <2>3
<1> QED
  BY <1>2, <1>4, <1>5 DEF funding_seen, InState

\* Nothing else touches a call that stores, or a task that goes on.
LEMMA OtherHands ==
  ASSUME IInv, SignInv, CallsInv, HandInv,
         \/ UNCHANGED vars
         \/ \E n \in Node : open_channel_sent(n) \/ ack_sent(n) \/ hang_up(n) \/ node_ends(n)
         \/ \E m \in net : Lose(m)
         \/ \E id \in ChannelId : sign(id) \/ broadcast(id)
  PROVE  HandInv'
<1>1. \A j \in Node : lock'[j] = lock[j] \/ lock'[j] = None
  <2>1. lock' = lock \/ \E n \in Node : lock' = [lock EXCEPT ![n] = None]
    BY DEF vars, open_channel_sent, ack_sent, hang_up, node_ends, Lose, sign, broadcast, Release
  <2> QED
    BY <2>1, LockSet
<1>2. ASSUME NEW n \in Node, node_ends(n) PROVE HandInv'
  <2>1. /\ db' = [db EXCEPT ![n] = [id \in ChannelId |-> None]] /\ lock' = [lock EXCEPT ![n] = None]
        /\ waiters' = {w \in waiters : w.node # n}
    BY <1>2 DEF node_ends, Release
  <2>2. \A k \in Node, j \in ChannelId : k # n => db'[k][j] = db[k][j]
    BY <2>1 DEF IInv, IsDb
  <2>3. lock'[n] = None /\ \A i \in Node : i # n => lock'[i] = lock[i]
    BY <2>1, LockSet
  <2>4. ASSUME NEW i \in Node, lock'[i] # None PROVE InHand(db', i, lock'[i])
    <3>1. i # n /\ lock'[i] = lock[i] /\ InHand(db, i, lock[i])
      BY <2>3, <2>4 DEF HandInv
    <3> QED
      BY <2>2, <2>4, <3>1, HandFacts DEF InHand
  <2>5. ASSUME NEW w \in waiters' PROVE Watched(db', w)
    <3>1. w \in waiters /\ w.node # n /\ w.node \in Node /\ w.id \in ChannelId /\ Watched(db, w)
      BY <2>1, TaskFacts DEF HandInv
    <3> QED
      BY <2>2, <3>1 DEF Watched
  <2> QED
    BY <2>1, <2>4, <2>5, HandKept
<1>3. CASE db' = db /\ waiters' = waiters
  BY <1>1, <1>3 DEF HandInv
<1> QED
  BY <1>2, <1>3 DEF vars, open_channel_sent, ack_sent, hang_up, Lose, sign, broadcast

\* Every step keeps what is in hand.
LEMMA NextHands ==
  WalletRepeats = FALSE /\ IInv /\ SignInv /\ CallsInv /\ OfferInv /\ HandInv /\ [Next]_vars => HandInv'
BY OpenHands, RecvNewHands, TakeHands, StoreHands, SeenHands, OtherHands DEF Next

\* Every other step makes no entry where there was none, so the offers are kept.
LEMMA NextOffers ==
  WalletRepeats = FALSE /\ IInv /\ SignInv /\ CallsInv /\ OfferInv /\ HandInv /\ [Next]_vars => OfferInv'
<1> SUFFICES ASSUME WalletRepeats = FALSE, IInv, SignInv, CallsInv, OfferInv, HandInv, [Next]_vars
             PROVE  OfferInv'
  OBVIOUS
<1>1. ASSUME db' = db PROVE NoneStays
  BY <1>1 DEF NoneStays
<1>2. ASSUME NEW n \in Node, ack_stored(n) \/ close_stored(n) PROVE OfferInv'
  <2>1. /\ lock[n] # None /\ lock[n].at \in {"acked", "close"} /\ net' = net
        /\ insert_channel(n, lock[n].id, lock[n].channel) /\ lock' = [lock EXCEPT ![n] = None]
    BY <1>2 DEF ack_stored, close_stored, Release
  <2>2. lock[n].id \in ChannelId /\ db[n][lock[n].id] # None
    BY <2>1, HandFacts DEF HandInv, InHand
  <2>3. NoneStays
    BY <2>1, <2>2, StoredOrOld DEF NoneStays
  <2>4. lock'[n] = None /\ \A i \in Node : i # n => lock'[i] = lock[i]
    BY <2>1, LockSet
  <2> QED
    BY <2>1, <2>3, <2>4, OfferKept
<1>3. ASSUME NEW w \in waiters, funding_seen(w) PROVE OfferInv'
  <2>1. /\ net' = net /\ lock' = lock
        /\ db' = db \/ \E ch : insert_channel(w.node, w.id, ch)
    BY <1>3 DEF funding_seen
  <2>2. w.node \in Node /\ w.id \in ChannelId /\ db[w.node][w.id] # None
    BY TaskFacts DEF HandInv, Watched
  <2>3. NoneStays
    BY <1>1, <2>1, <2>2, StoredOrOld DEF NoneStays
  <2> QED
    BY <2>1, <2>3, OfferKept
<1>4. ASSUME NEW n \in Node, NEW C, C.at \in {"acked", "close"}, lock' = [lock EXCEPT ![n] = C],
             db' = db, net' \subseteq net
      PROVE  OfferInv'
  <2>1. lock'[n] = C /\ \A i \in Node : i # n => lock'[i] = lock[i]
    BY <1>4, LockSet
  <2> QED
    BY <1>1, <1>4, <2>1, OfferKept
<1>5. ASSUME NEW n \in Node, NEW m \in net, recv_new_channel_ack(n, m) PROVE OfferInv'
  <2> DEFINE C == [at |-> "acked", id |-> m.id, call |-> m.call,
                   channel |-> Signed(db[n][m.id], "ReadyToFund", m.commit_sig)]
  <2>1. /\ lock' = lock \/ lock' = [lock EXCEPT ![n] = C]
        /\ db' = db /\ net' \subseteq net
    BY <1>5 DEF recv_new_channel_ack, Signed, Acquire
  <2>2. C.at = "acked"
    OBVIOUS
  <2> HIDE DEF C
  <2> QED
    BY <1>1, <1>4, <2>1, <2>2, OfferKept
<1>6. ASSUME NEW n \in Node, NEW id \in ChannelId, force_close_channel(n, id) PROVE OfferInv'
  <2> DEFINE C == [at |-> "close", id |-> id,
                   channel |-> ClosedBy(db[n][id], "Closed", None, CloseTx(n, id, db[n][id]))]
  <2>1. lock' = [lock EXCEPT ![n] = C] /\ db' = db /\ net' \subseteq net
    BY <1>6 DEF force_close_channel, ClosedBy, Acquire
  <2>2. C.at = "close"
    OBVIOUS
  <2> HIDE DEF C
  <2>3. lock'[n] = C /\ \A i \in Node : i # n => lock'[i] = lock[i]
    BY <2>1, LockSet
  <2> QED
    BY <1>1, <2>1, <2>2, <2>3, OfferKept
<1>7. ASSUME NEW n \in Node, open_channel_sent(n) \/ ack_sent(n) \/ hang_up(n) PROVE OfferInv'
  <2>1. /\ db' = db /\ lock' = [lock EXCEPT ![n] = None] /\ lock[n] # None
        /\ \/ lock[n].at \in {"open", "ack"} /\ \A m \in net' : m \in net \/ m = lock[n].message
           \/ net' = net
    BY <1>7 DEF open_channel_sent, ack_sent, hang_up, Send, Release
  <2>2. lock'[n] = None /\ \A i \in Node : i # n => lock'[i] = lock[i]
    BY <2>1, LockSet
  <2> QED
    BY <1>1, <2>1, <2>2, OfferSent, OfferKept
<1>8. ASSUME NEW n \in Node, node_ends(n) PROVE OfferInv'
  <2>1. /\ db' = [db EXCEPT ![n] = [id \in ChannelId |-> None]] /\ lock' = [lock EXCEPT ![n] = None]
    BY <1>8 DEF node_ends, Release
  <2>2. NoneStays
    <3>1. \A k \in Node, j \in ChannelId : db'[k][j] = IF k = n THEN None ELSE db[k][j]
      BY <2>1 DEF IInv, IsDb
    <3> QED
      BY <3>1 DEF NoneStays
  <2>3. \/ /\ lock[n] # None /\ lock[n].at \in {"open", "ack"}
           /\ \A m \in net' : m \in net \/ m = lock[n].message
        \/ \A m \in net' : m \in net
    BY <1>8 DEF node_ends
  <2>4. lock'[n] = None /\ \A i \in Node : i # n => lock'[i] = lock[i]
    BY <2>1, LockSet
  <2> QED
    BY <2>1, <2>2, <2>3, <2>4, OfferSent, OfferKept
<1>9. ASSUME db' = db, lock' = lock, net' \subseteq net PROVE OfferInv'
  BY <1>1, <1>9, OfferKept
<1>10. \/ Next
       \/ db' = db /\ lock' = lock /\ net' \subseteq net
  BY DEF vars
<1>11. ASSUME Next PROVE OfferInv'
  BY <1>2, <1>3, <1>5, <1>6, <1>7, <1>8, <1>9, <1>11, OpenOffers, RecvNewOffers
     DEF Next, Lose, sign, broadcast
<1> QED
  BY <1>9, <1>10, <1>11

-----------------------------------------------------------------------------
(* Moves: which state follows which, at one node *)

\* The state of a channel in the databases D.
St(D, n, id) == IF D[n][id] = None THEN "none" ELSE D[n][id].state

\* The only change to the databases is that n's channel id goes from s to t.
Moves(n, id, s, t) ==
  /\ St(db, n, id) = s /\ St(db', n, id) = t
  /\ \A k \in Node, j \in ChannelId : k # n \/ j # id => St(db', k, j) = St(db, k, j)

\* A store is one move.
LEMMA StoreMoves ==
  ASSUME IInv, NEW n \in Node, NEW id \in ChannelId, NEW ch, insert_channel(n, id, ch), ch # None
  PROVE  Moves(n, id, St(db, n, id), ch.state)
<1>1. /\ db'[n][id] = ch
      /\ \A k \in Node, j \in ChannelId : k # n \/ j # id => db'[k][j] = db[k][j]
  BY StoredOrOld
<1> QED
  BY <1>1 DEF Moves, St

\* A channel whose transaction was just made starts as Pending.
LEMMA OpenMoves ==
  ASSUME WalletRepeats = FALSE, IInv,
         NEW k \in Call, NEW n \in Node, NEW peer \in Node, NEW v \in Value, open_channel(k, n, peer, v)
  PROVE  \E id \in ChannelId :
           /\ fund_tx[id] = None /\ fund_tx'[id] # None /\ fund_tx'[id].by = n /\ fund_tx'[id].peer = peer
           /\ n # peer /\ \A j \in ChannelId : j # id => fund_tx'[j] = fund_tx[j]
           /\ Moves(n, id, "none", "Pending") /\ St(db, peer, id) = "none"
<1> DEFINE ch == Channel("Pending", peer, v, TRUE)
<1>1. PICK id \in ChannelId : /\ create_fund_transaction(n, peer, v, id) /\ fund_tx[id] = None
                              /\ insert_channel(n, id, ch)
  BY DEF open_channel, create_fund_transaction
<1>2. n # peer
  BY DEF open_channel
<1>3. /\ fund_tx'[id] # None /\ fund_tx'[id].by = n /\ fund_tx'[id].peer = peer
      /\ \A j \in ChannelId : j # id => fund_tx'[j] = fund_tx[j]
  <2>1. \A j \in ChannelId : j # id => fund_tx'[j] = fund_tx[j]
    BY <1>1 DEF create_fund_transaction, IInv, FundTxsOK
  <2> QED
    BY <1>1, <1>2, <2>1, TransactionMade
<1>4. ch.state = "Pending" /\ ch # None
  <2>1. ch \in StoredChannel
    BY DEF Channel, State, StoredChannel
  <2> QED
    BY <2>1, NoneAssumption DEF Channel
<1>5. db[n][id] = None /\ db[peer][id] = None
  BY <1>1 DEF IInv, ChannelInv, Role
<1> HIDE DEF ch
<1>6. Moves(n, id, "none", "Pending")
  BY <1>1, <1>4, <1>5, StoreMoves DEF St
<1> QED
  BY <1>1, <1>2, <1>3, <1>5, <1>6 DEF St

\* The peer had no channel for an offer.
LEMMA RecvNewMoves ==
  ASSUME IInv, OfferInv, NEW n \in Node, NEW m \in net, recv_new_channel(n, m)
  PROVE  /\ m.id \in ChannelId /\ fund_tx[m.id] # None /\ n = fund_tx[m.id].peer
         /\ Moves(n, m.id, "none", "WaitingForFund")
<1> DEFINE ch == Channel("WaitingForFund", m.from, m.funding_satoshis, FALSE)
<1>1. insert_channel(n, m.id, ch) /\ m.to = n /\ IsOffer(m)
  BY DEF recv_new_channel, IsOffer
<1>2. m.id \in ChannelId /\ fund_tx[m.id] # None /\ n = fund_tx[m.id].peer /\ db[n][m.id] = None
  BY <1>1, OfferIsNew DEF OfferInv
<1>3. /\ IsChannel(ch) /\ ch.state = "WaitingForFund" /\ ch.i_am_initiator = FALSE
      /\ ch.peer_id = m.from /\ ch.value = m.funding_satoshis
      /\ ch.commit_sig = None /\ ch.close_tx = None
  BY DEF IsChannel, Channel
<1>4. NewInv(fund_tx, m)
  BY <1>1 DEF IInv, MessageInv, IsOffer
<1> HIDE DEF ch
<1>5. Role(fund_tx, n, m.id, ch)
  BY <1>2, <1>3, <1>4 DEF NewInv, Role, AcceptorState
<1>6. ch # None
  BY <1>2, <1>3, <1>5, AcceptorIsSome DEF IInv, AcceptorState
<1>7. Moves(n, m.id, "none", "WaitingForFund")
  BY <1>1, <1>2, <1>3, <1>6, StoreMoves DEF St
<1> QED
  BY <1>2, <1>7

\* An ack moves a Pending channel, a close a Live one.
LEMMA CallMoves ==
  ASSUME IInv, SignInv, CallsInv, HandInv, NEW n \in Node, ack_stored(n) \/ close_stored(n)
  PROVE  /\ lock[n].id \in ChannelId /\ fund_tx[lock[n].id] # None /\ n = fund_tx[lock[n].id].by
         /\ \/ /\ Moves(n, lock[n].id, "Pending", "ReadyToFund")
               /\ Shared(db, fund_tx, ended, lock[n].id)
            \/ Moves(n, lock[n].id, "Live", "Closed")
<1>1. /\ lock[n] # None /\ lock[n].at \in {"acked", "close"}
      /\ insert_channel(n, lock[n].id, lock[n].channel)
  BY DEF ack_stored, close_stored
<1>2. InHand(db, n, lock[n])
  BY <1>1 DEF HandInv
<1>3. /\ lock[n].id \in ChannelId /\ lock[n].channel # None
      /\ fund_tx[lock[n].id] # None /\ n = fund_tx[lock[n].id].by
      /\ lock[n].channel.state = IF lock[n].at = "acked" THEN "ReadyToFund" ELSE "Closed"
      /\ lock[n].channel.state = "ReadyToFund" => Shared(db, fund_tx, ended, lock[n].id)
  BY <1>1, HandFacts
<1>4. Moves(n, lock[n].id, St(db, n, lock[n].id), lock[n].channel.state)
  BY <1>1, <1>3, StoreMoves
<1> QED
  BY <1>1, <1>2, <1>3, <1>4 DEF InHand, St

\* A task moves a channel that is ready, or waits for the same money.
LEMMA SeenMoves ==
  ASSUME IInv, SignInv, HandInv, NEW w \in waiters, funding_seen(w)
  PROVE  /\ w.node \in Node /\ w.id \in ChannelId /\ fund_tx[w.id] # None
         /\ \/ w.node = fund_tx[w.id].by /\ Moves(w.node, w.id, "ReadyToFund", "Live")
            \/ w.node = fund_tx[w.id].peer /\ Moves(w.node, w.id, "WaitingForFund", "Funded")
            \/ \A k \in Node, j \in ChannelId : St(db', k, j) = St(db, k, j)
<1>1. /\ w.node \in Node /\ w.id \in ChannelId /\ fund_tx[w.id] # None
      /\ fund_tx[w.id].by # fund_tx[w.id].peer /\ Watched(db, w)
  BY TaskFacts DEF HandInv
<1>2. ASSUME w.channel.state = "ReadyToFund", insert_channel(w.node, w.id, InState(w.channel, "Live"))
      PROVE  w.node = fund_tx[w.id].by /\ Moves(w.node, w.id, "ReadyToFund", "Live")
  <2>1. /\ w.node = fund_tx[w.id].by /\ InState(w.channel, "Live") # None
        /\ InState(w.channel, "Live").state = "Live"
    BY <1>2, TaskFacts
  <2>2. St(db, w.node, w.id) = "ReadyToFund"
    BY <1>1, <1>2 DEF Watched, St
  <2>3. Moves(w.node, w.id, St(db, w.node, w.id), InState(w.channel, "Live").state)
    BY <1>1, <1>2, <2>1, StoreMoves
  <2> QED
    BY <2>1, <2>2, <2>3
<1>3. ASSUME w.channel.state = "WaitingForFund", insert_channel(w.node, w.id, InState(w.channel, "Funded"))
      PROVE  /\ w.node = fund_tx[w.id].peer
             /\ \/ Moves(w.node, w.id, "WaitingForFund", "Funded")
                \/ \A k \in Node, j \in ChannelId : St(db', k, j) = St(db, k, j)
  <2>1. /\ w.node = fund_tx[w.id].peer /\ InState(w.channel, "Funded") # None
        /\ InState(w.channel, "Funded").state = "Funded"
    BY <1>3, TaskFacts
  <2>2. db[w.node][w.id] # None /\ Role(fund_tx, w.node, w.id, db[w.node][w.id])
    BY <1>1 DEF Watched, IInv, ChannelInv
  <2>3. St(db, w.node, w.id) \in {"WaitingForFund", "Funded"}
    BY <1>1, <2>1, <2>2 DEF Role, AcceptorState, St
  <2>4. Moves(w.node, w.id, St(db, w.node, w.id), InState(w.channel, "Funded").state)
    BY <1>1, <1>3, <2>1, StoreMoves
  <2> QED
    BY <2>1, <2>3, <2>4 DEF Moves
<1> QED
  BY <1>1, <1>2, <1>3 DEF funding_seen, InState

\* What a process that ends takes with it.
LEMMA EndsMoves ==
  ASSUME IInv, NEW n \in Node, node_ends(n)
  PROVE  \A k \in Node, j \in ChannelId : St(db', k, j) = IF k = n THEN "none" ELSE St(db, k, j)
<1>1. \A k \in Node, j \in ChannelId : db'[k][j] = IF k = n THEN None ELSE db[k][j]
  BY DEF node_ends, IInv, IsDb
<1> QED
  BY <1>1 DEF St

\* The other steps change no database.
LEMMA NoMoves ==
  ASSUME \/ UNCHANGED vars
         \/ \E n \in Node : \/ open_channel_sent(n) \/ ack_sent(n) \/ hang_up(n)
                            \/ \E id \in ChannelId : force_close_channel(n, id)
                            \/ \E m \in net : recv_new_channel_ack(n, m)
         \/ \E m \in net : Lose(m)
         \/ \E id \in ChannelId : sign(id) \/ broadcast(id)
  PROVE  db' = db /\ fund_tx' = fund_tx /\ ended' = ended
BY DEF vars, open_channel_sent, ack_sent, hang_up, force_close_channel, recv_new_channel_ack, Lose, sign, broadcast

\* Whoever has made a funding transaction has its channel, unless its process has ended.
MadeInv ==
  \A id \in ChannelId : fund_tx[id] # None =>
    St(db, fund_tx[id].by, id) # "none" \/ fund_tx[id].by \in ended

\* What the moves are proved from.
MovesInv == IInv /\ SignInv /\ CallsInv /\ OfferInv /\ HandInv

\* Every step keeps it.
LEMMA NextMade == WalletRepeats = FALSE /\ MovesInv /\ MadeInv /\ [Next]_vars => MadeInv'
<1> SUFFICES ASSUME WalletRepeats = FALSE, MovesInv, MadeInv, [Next]_vars PROVE MadeInv'
  OBVIOUS
<1> USE DEF MovesInv
<1>1. \A id \in ChannelId : fund_tx[id] # None => fund_tx[id].by \in Node
  BY DEF IInv, FundTxsOK, FundTx
<1>2. ASSUME NEW n \in Node, NEW id \in ChannelId, NEW s, NEW t, t # "none", Moves(n, id, s, t),
             fund_tx' = fund_tx, ended' = ended
      PROVE  MadeInv'
  BY <1>1, <1>2 DEF Moves, MadeInv
<1>3. ASSUME \A k \in Node, j \in ChannelId : St(db', k, j) = St(db, k, j),
             fund_tx' = fund_tx, ended' = ended
      PROVE  MadeInv'
  BY <1>1, <1>3 DEF MadeInv
<1>4. ASSUME NEW k \in Call, NEW n \in Node, NEW peer \in Node, NEW v \in Value, open_channel(k, n, peer, v)
      PROVE  MadeInv'
  <2>1. ended' = ended
    BY <1>4 DEF open_channel
  <2>2. PICK id \in ChannelId :
           /\ fund_tx'[id].by = n /\ \A j \in ChannelId : j # id => fund_tx'[j] = fund_tx[j]
           /\ Moves(n, id, "none", "Pending")
    BY <1>4, OpenMoves
  <2> QED
    BY <1>1, <2>1, <2>2 DEF Moves, MadeInv
<1>5. ASSUME NEW n \in Node, NEW m \in net, recv_new_channel(n, m) PROVE MadeInv'
  <2>1. fund_tx' = fund_tx /\ ended' = ended
    BY <1>5 DEF recv_new_channel
  <2> QED
    BY <1>2, <1>5, <2>1, RecvNewMoves
<1>6. ASSUME NEW n \in Node, ack_stored(n) \/ close_stored(n) PROVE MadeInv'
  <2>1. fund_tx' = fund_tx /\ ended' = ended
    BY <1>6 DEF ack_stored, close_stored
  <2>2. \/ Moves(n, lock[n].id, "Pending", "ReadyToFund")
        \/ Moves(n, lock[n].id, "Live", "Closed")
    BY <1>6, CallMoves
  <2>3. lock[n].id \in ChannelId
    BY <1>6, CallMoves
  <2> QED
    BY <1>2, <2>1, <2>2, <2>3
<1>7. ASSUME NEW w \in waiters, funding_seen(w) PROVE MadeInv'
  <2>1. fund_tx' = fund_tx /\ ended' = ended
    BY <1>7 DEF funding_seen
  <2> QED
    BY <1>2, <1>3, <1>7, <2>1, SeenMoves
<1>8. ASSUME NEW n \in Node, node_ends(n) PROVE MadeInv'
  <2>1. fund_tx' = fund_tx /\ ended' = ended \cup {n}
    BY <1>8 DEF node_ends
  <2> QED
    BY <1>1, <1>8, <2>1, EndsMoves DEF MadeInv
<1>9. ASSUME db' = db, fund_tx' = fund_tx, ended' = ended PROVE MadeInv'
  BY <1>3, <1>9
<1> QED
  BY <1>4, <1>5, <1>6, <1>7, <1>8, <1>9, NoMoves DEF Next

\* A move is forward, and only the end of a process takes a channel back.
LEMMA NextForward ==
  ASSUME WalletRepeats = FALSE, MovesInv, [Next]_vars, NEW n \in Node, NEW id \in ChannelId,
         Rank(StateOf(n, id)') < Rank(StateOf(n, id))
  PROVE  n \in ended' \ ended
<1> USE DEF MovesInv
<1>1. StateOf(n, id)' = St(db', n, id) /\ StateOf(n, id) = St(db, n, id)
  BY DEF StateOf, St
<1>2. Rank(St(db', n, id)) < Rank(St(db, n, id))
  BY <1>1
<1>3. /\ Rank("none") = 0 /\ Rank("Pending") = 1 /\ Rank("WaitingForFund") = 1 /\ Rank("ReadyToFund") = 2
      /\ Rank("Live") = 3 /\ Rank("Funded") = 3 /\ Rank("Closed") = 4
  BY DEF Rank
<1>4. St(db, n, id) \in State \cup {"none"}
  BY DEF St, IInv, ChannelInv, Role, InitiatorState, AcceptorState, State
<1>5. Rank(St(db, n, id)) \in 0 .. 4
  BY <1>3, <1>4 DEF State
<1>6. ~(St(db', n, id) = St(db, n, id))
  BY <1>2, <1>5
<1>7. ASSUME NEW k \in Node, NEW j \in ChannelId, NEW s, NEW t, Moves(k, j, s, t), Rank(s) <= Rank(t),
             Rank(s) \in 0 .. 4, Rank(t) \in 0 .. 4
      PROVE  FALSE
  <2>1. k = n /\ j = id
    BY <1>6, <1>7 DEF Moves
  <2>2. St(db, n, id) = s /\ St(db', n, id) = t
    BY <1>7, <2>1 DEF Moves
  <2> QED
    BY <1>2, <1>7, <2>2
<1>8. ASSUME NEW k \in Call, NEW i \in Node, NEW peer \in Node, NEW v \in Value, open_channel(k, i, peer, v)
      PROVE  FALSE
  <2>1. PICK j \in ChannelId : Moves(i, j, "none", "Pending")
    BY <1>8, OpenMoves
  <2> QED
    BY <1>3, <1>7, <2>1
<1>9. ASSUME NEW i \in Node, NEW m \in net, recv_new_channel(i, m) PROVE FALSE
  BY <1>3, <1>7, <1>9, RecvNewMoves
<1>10. ASSUME NEW i \in Node, ack_stored(i) \/ close_stored(i) PROVE FALSE
  <2>1. lock[i].id \in ChannelId
    BY <1>10, CallMoves
  <2>2. \/ Moves(i, lock[i].id, "Pending", "ReadyToFund")
        \/ Moves(i, lock[i].id, "Live", "Closed")
    BY <1>10, CallMoves
  <2> QED
    BY <1>3, <1>7, <2>1, <2>2
<1>11. ASSUME NEW w \in waiters, funding_seen(w) PROVE FALSE
  BY <1>3, <1>6, <1>7, <1>11, SeenMoves
<1>12. ASSUME NEW i \in Node, node_ends(i) PROVE n \in ended' \ ended
  <2>1. i = n
    BY <1>6, <1>12, EndsMoves
  <2> QED
    BY <1>12, <2>1 DEF node_ends
<1>13. ~(db' = db)
  BY <1>6
<1> QED
  BY <1>8, <1>9, <1>10, <1>11, <1>12, <1>13, NoMoves DEF Next

-----------------------------------------------------------------------------
(* The lifecycle: what the users see of a state *)

\* The refinement mapping of ChannelProtocol.tla, for any databases, transactions and chain.
InitiatorOf(D, F) ==
  [id \in ChannelId |-> IF F[id] = None THEN "none" ELSE St(D, F[id].by, id)]

AcceptorOf(D, F) ==
  [id \in ChannelId |-> IF F[id] = None THEN "none" ELSE St(D, F[id].peer, id)]

MoneyOf(C, S) ==
  [id \in ChannelId |-> IF id \in C THEN "on_chain" ELSE IF id \in S THEN "signed" ELSE "wallet"]

LostOf(F, X) ==
  {s \in ChannelId \X {"initiator", "acceptor"} :
     /\ F[s[1]] # None
     /\ (IF s[2] = "initiator" THEN F[s[1]].by ELSE F[s[1]].peer) \in X}

\* The actions of ChannelLifecycle in terms of these.
LEMMA ViewActions ==
  ASSUME NEW id \in ChannelId,
         NEW I, NEW A, NEW M, NEW L, NEW I1, NEW A1, NEW M1, NEW L1,
         I = InitiatorOf(db, fund_tx), A = AcceptorOf(db, fund_tx),
         M = MoneyOf(chain, signed), L = LostOf(fund_tx, ended),
         I1 = InitiatorOf(db', fund_tx'), A1 = AcceptorOf(db', fund_tx'),
         M1 = MoneyOf(chain', signed'), L1 = LostOf(fund_tx', ended')
  PROVE  /\ /\ I[id] # "none" \/ <<id, "initiator">> \in L
            /\ A[id] = "none" /\ A1 = [A EXCEPT ![id] = "WaitingForFund"] /\ I1 = I /\ M1 = M /\ L1 = L
            => Views!Accept(id)
         /\ /\ I[id] = "Pending" /\ (A[id] # "none" \/ <<id, "acceptor">> \in L)
            /\ I1 = [I EXCEPT ![id] = "ReadyToFund"] /\ A1 = A /\ M1 = M /\ L1 = L
            => Views!Ready(id)
         /\ /\ I[id] = "ReadyToFund" /\ M[id] = "wallet"
            /\ M1 = [M EXCEPT ![id] = "signed"] /\ I1 = I /\ A1 = A /\ L1 = L
            => Views!Sign(id)
         /\ /\ M[id] = "signed" /\ M1 = [M EXCEPT ![id] = "on_chain"] /\ I1 = I /\ A1 = A /\ L1 = L
            => Views!Confirm(id)
         /\ /\ I[id] = "ReadyToFund" /\ M[id] = "on_chain"
            /\ I1 = [I EXCEPT ![id] = "Live"] /\ A1 = A /\ M1 = M /\ L1 = L
            => Views!GoLive(id)
         /\ /\ A[id] = "WaitingForFund" /\ M[id] = "on_chain"
            /\ A1 = [A EXCEPT ![id] = "Funded"] /\ I1 = I /\ M1 = M /\ L1 = L
            => Views!SeeFunds(id)
         /\ /\ I[id] = "Live" /\ I1 = [I EXCEPT ![id] = "Closed"] /\ A1 = A /\ M1 = M /\ L1 = L
            => Views!Close(id)
BY Zenon DEF InitiatorOf, AcceptorOf, MoneyOf, LostOf, St, StateOf, Views!Accept, Views!Ready,
       Views!Sign, Views!Confirm, Views!GoLive, Views!SeeFunds, Views!Close

\* A step that changes neither side's view is a stutter.
LEMMA ViewSame ==
  ASSUME InitiatorOf(db', fund_tx') = InitiatorOf(db, fund_tx),
         AcceptorOf(db', fund_tx') = AcceptorOf(db, fund_tx),
         fund_tx' = fund_tx, ended' = ended, chain' = chain, signed' = signed
  PROVE  UNCHANGED Views!vars
<1>1. MoneyOf(chain', signed') = MoneyOf(chain, signed) /\ LostOf(fund_tx', ended') = LostOf(fund_tx, ended)
  OBVIOUS
<1> QED
  BY <1>1, Zenon DEF InitiatorOf, AcceptorOf, MoneyOf, LostOf, St, StateOf, Views!vars

\* The views in which a channel is offered.
LEMMA ViewOffer ==
  ASSUME NEW id \in ChannelId,
         InitiatorOf(db, fund_tx)[id] = "none", AcceptorOf(db, fund_tx)[id] = "none",
         MoneyOf(chain, signed)[id] = "wallet", <<id, "initiator">> \notin LostOf(fund_tx, ended),
         InitiatorOf(db', fund_tx') = [InitiatorOf(db, fund_tx) EXCEPT ![id] = "Pending"],
         AcceptorOf(db', fund_tx') = AcceptorOf(db, fund_tx),
         MoneyOf(chain', signed') = MoneyOf(chain, signed),
         \E S \in SUBSET ({id} \X {"initiator", "acceptor"}) :
           LostOf(fund_tx', ended') = LostOf(fund_tx, ended) \cup S
  PROVE  Views!Offer(id)
BY Zenon DEF InitiatorOf, AcceptorOf, MoneyOf, LostOf, St, StateOf, Views!Offer, Views!Side

\* The views in which sides are forgotten.
LEMMA ViewForget ==
  ASSUME NEW J \in SUBSET ChannelId, NEW B \in SUBSET ChannelId,
         InitiatorOf(db', fund_tx') = [j \in ChannelId |-> IF j \in J THEN "none" ELSE InitiatorOf(db, fund_tx)[j]],
         AcceptorOf(db', fund_tx') = [j \in ChannelId |-> IF j \in B THEN "none" ELSE AcceptorOf(db, fund_tx)[j]],
         LostOf(fund_tx', ended') = LostOf(fund_tx, ended) \cup (J \X {"initiator"}) \cup (B \X {"acceptor"}),
         MoneyOf(chain', signed') = MoneyOf(chain, signed)
  PROVE  Views!Forget(J, B)
BY Zenon DEF InitiatorOf, AcceptorOf, MoneyOf, LostOf, St, StateOf, Views!Forget

\* A move of the initiator is one of its view, and of nothing else.
LEMMA InitiatorMoves ==
  ASSUME IInv, fund_tx' = fund_tx, NEW n \in Node, NEW id \in ChannelId, NEW s, NEW t, Moves(n, id, s, t),
         fund_tx[id] # None, n = fund_tx[id].by
  PROVE  /\ InitiatorOf(db, fund_tx)[id] = s
         /\ InitiatorOf(db', fund_tx') = [InitiatorOf(db, fund_tx) EXCEPT ![id] = t]
         /\ AcceptorOf(db', fund_tx') = AcceptorOf(db, fund_tx)
<1>1. \A j \in ChannelId : fund_tx[j] # None =>
        fund_tx[j].by \in Node /\ fund_tx[j].peer \in Node /\ fund_tx[j].by # fund_tx[j].peer
  BY DEF IInv, FundTxsOK, FundTx
<1>2. /\ St(db, fund_tx[id].by, id) = s /\ St(db', fund_tx[id].by, id) = t
      /\ \A j \in ChannelId : fund_tx[j] # None =>
           /\ j # id => St(db', fund_tx[j].by, j) = St(db, fund_tx[j].by, j)
           /\ St(db', fund_tx[j].peer, j) = St(db, fund_tx[j].peer, j)
  BY <1>1 DEF Moves
<1>3. InitiatorOf(db, fund_tx)[id] = s
  BY <1>2 DEF InitiatorOf
<1>4. AcceptorOf(db', fund_tx') = AcceptorOf(db, fund_tx)
  BY <1>2 DEF AcceptorOf
<1>5. InitiatorOf(db', fund_tx') = [InitiatorOf(db, fund_tx) EXCEPT ![id] = t]
  BY <1>2 DEF InitiatorOf
<1> QED
  BY <1>3, <1>4, <1>5

\* A move of the acceptor is one of its view, and of nothing else.
LEMMA AcceptorMoves ==
  ASSUME IInv, fund_tx' = fund_tx, NEW n \in Node, NEW id \in ChannelId, NEW s, NEW t, Moves(n, id, s, t),
         fund_tx[id] # None, n = fund_tx[id].peer
  PROVE  /\ AcceptorOf(db, fund_tx)[id] = s
         /\ AcceptorOf(db', fund_tx') = [AcceptorOf(db, fund_tx) EXCEPT ![id] = t]
         /\ InitiatorOf(db', fund_tx') = InitiatorOf(db, fund_tx)
<1>1. \A j \in ChannelId : fund_tx[j] # None =>
        fund_tx[j].by \in Node /\ fund_tx[j].peer \in Node /\ fund_tx[j].by # fund_tx[j].peer
  BY DEF IInv, FundTxsOK, FundTx
<1>2. /\ St(db, fund_tx[id].peer, id) = s /\ St(db', fund_tx[id].peer, id) = t
      /\ \A j \in ChannelId : fund_tx[j] # None =>
           /\ j # id => St(db', fund_tx[j].peer, j) = St(db, fund_tx[j].peer, j)
           /\ St(db', fund_tx[j].by, j) = St(db, fund_tx[j].by, j)
  BY <1>1 DEF Moves
<1>3. AcceptorOf(db, fund_tx)[id] = s
  BY <1>2 DEF AcceptorOf
<1>4. InitiatorOf(db', fund_tx') = InitiatorOf(db, fund_tx)
  BY <1>2 DEF InitiatorOf
<1>5. AcceptorOf(db', fund_tx') = [AcceptorOf(db, fund_tx) EXCEPT ![id] = t]
  BY <1>2 DEF AcceptorOf
<1> QED
  BY <1>3, <1>4, <1>5

\* A side is lost when its process has ended.
LEMMA LostIs ==
  ASSUME NEW id \in ChannelId, fund_tx[id] # None
  PROVE  /\ <<id, "initiator">> \in LostOf(fund_tx, ended) <=> fund_tx[id].by \in ended
         /\ <<id, "acceptor">> \in LostOf(fund_tx, ended) <=> fund_tx[id].peer \in ended
BY DEF LostOf

\* Two sets of lost sides are the same if they hold the same sides of every channel.
LEMMA SameLost ==
  ASSUME NEW F, NEW X, NEW T \in SUBSET (ChannelId \X {"initiator", "acceptor"}),
         \A id \in ChannelId : /\ <<id, "initiator">> \in T <=> F[id] # None /\ F[id].by \in X
                               /\ <<id, "acceptor">> \in T <=> F[id] # None /\ F[id].peer \in X
  PROVE  LostOf(F, X) = T
<1>1. ASSUME NEW s \in ChannelId \X {"initiator", "acceptor"} PROVE s \in LostOf(F, X) <=> s \in T
  <2>1. s = <<s[1], s[2]>> /\ s[1] \in ChannelId /\ s[2] \in {"initiator", "acceptor"}
    OBVIOUS
  <2>2. CASE s[2] = "initiator"
    BY <2>1, <2>2 DEF LostOf
  <2>3. CASE s[2] = "acceptor"
    BY <2>1, <2>3 DEF LostOf
  <2> QED
    BY <2>1, <2>2, <2>3
<1>2. LostOf(F, X) \subseteq ChannelId \X {"initiator", "acceptor"}
  BY DEF LostOf
<1> QED
  BY <1>1, <1>2

\* Nothing that is seen changes when no state, transaction, money or process does.
LEMMA SameViews ==
  ASSUME IInv, fund_tx' = fund_tx, \A k \in Node, j \in ChannelId : St(db', k, j) = St(db, k, j)
  PROVE  /\ InitiatorOf(db', fund_tx') = InitiatorOf(db, fund_tx)
         /\ AcceptorOf(db', fund_tx') = AcceptorOf(db, fund_tx)
<1>1. \A j \in ChannelId : fund_tx[j] # None => fund_tx[j].by \in Node /\ fund_tx[j].peer \in Node
  BY DEF IInv, FundTxsOK, FundTx
<1>2. \A j \in ChannelId : fund_tx[j] # None =>
        /\ St(db', fund_tx[j].by, j) = St(db, fund_tx[j].by, j)
        /\ St(db', fund_tx[j].peer, j) = St(db, fund_tx[j].peer, j)
  BY <1>1
<1> QED
  BY <1>2 DEF InitiatorOf, AcceptorOf

\* open_channel offers a channel that neither side has.
LEMMA OpenOffer ==
  ASSUME WalletRepeats = FALSE, MovesInv, chain \subseteq signed,
         NEW k \in Call, NEW n \in Node, NEW peer \in Node, NEW v \in Value, open_channel(k, n, peer, v)
  PROVE  \E id \in ChannelId : Views!Offer(id)
<1> DEFINE I == InitiatorOf(db, fund_tx)
           A == AcceptorOf(db, fund_tx)
           L == LostOf(fund_tx, ended)
           I1 == InitiatorOf(db', fund_tx')
           A1 == AcceptorOf(db', fund_tx')
           L1 == LostOf(fund_tx', ended')
<1>1. chain' = chain /\ signed' = signed /\ ended' = ended
  BY DEF open_channel
<1>2. PICK id \in ChannelId :
         /\ fund_tx[id] = None /\ fund_tx'[id] # None /\ fund_tx'[id].by = n /\ fund_tx'[id].peer = peer
         /\ n # peer /\ \A j \in ChannelId : j # id => fund_tx'[j] = fund_tx[j]
         /\ Moves(n, id, "none", "Pending") /\ St(db, peer, id) = "none"
  BY OpenMoves DEF MovesInv
<1>3. \A j \in ChannelId : fund_tx[j] # None => fund_tx[j].by \in Node /\ fund_tx[j].peer \in Node
  BY DEF MovesInv, IInv, FundTxsOK, FundTx
<1>4. \A j \in ChannelId : j # id /\ fund_tx[j] # None =>
        /\ St(db', fund_tx[j].by, j) = St(db, fund_tx[j].by, j)
        /\ St(db', fund_tx[j].peer, j) = St(db, fund_tx[j].peer, j)
  BY <1>2, <1>3 DEF Moves
<1>5. St(db', n, id) = "Pending" /\ St(db', peer, id) = "none"
  BY <1>2 DEF Moves
<1>6. I[id] = "none" /\ A[id] = "none" /\ <<id, "initiator">> \notin L
  BY <1>2 DEF InitiatorOf, AcceptorOf, LostOf
<1>7. I1 = [I EXCEPT ![id] = "Pending"]
  BY <1>2, <1>4, <1>5 DEF InitiatorOf
<1>8. A1 = A
  BY <1>2, <1>4, <1>5 DEF AcceptorOf
<1>9. MoneyOf(chain, signed)[id] = "wallet" /\ MoneyOf(chain', signed') = MoneyOf(chain, signed)
  <2>1. id \notin signed /\ id \notin chain
    BY <1>2 DEF MovesInv, IInv, Shared
  <2> QED
    BY <1>1, <2>1 DEF MoneyOf
<1>10. \E S \in SUBSET ({id} \X {"initiator", "acceptor"}) : L1 = L \cup S
  <2> DEFINE S == {s \in {id} \X {"initiator", "acceptor"} : (IF s[2] = "initiator" THEN n ELSE peer) \in ended}
  <2>1. S \in SUBSET ({id} \X {"initiator", "acceptor"})
    OBVIOUS
  <2>2. /\ <<id, "initiator">> \in S <=> n \in ended
        /\ <<id, "acceptor">> \in S <=> peer \in ended
        /\ \A j \in ChannelId : j # id => <<j, "initiator">> \notin S /\ <<j, "acceptor">> \notin S
    OBVIOUS
  <2>3. L \cup S \in SUBSET (ChannelId \X {"initiator", "acceptor"})
    BY DEF LostOf
  <2> HIDE DEF S
  <2>4. ASSUME NEW j \in ChannelId
        PROVE  /\ <<j, "initiator">> \in L \cup S <=> fund_tx'[j] # None /\ fund_tx'[j].by \in ended
               /\ <<j, "acceptor">> \in L \cup S <=> fund_tx'[j] # None /\ fund_tx'[j].peer \in ended
    <3>1. CASE j = id
      <4>1. <<id, "initiator">> \notin L /\ <<id, "acceptor">> \notin L
        BY <1>2 DEF LostOf
      <4> QED
        BY <1>2, <2>2, <3>1, <4>1
    <3>2. CASE j # id
      <4>1. /\ <<j, "initiator">> \in L <=> fund_tx[j] # None /\ fund_tx[j].by \in ended
            /\ <<j, "acceptor">> \in L <=> fund_tx[j] # None /\ fund_tx[j].peer \in ended
        BY DEF LostOf
      <4> QED
        BY <1>2, <2>2, <3>2, <4>1
    <3> QED
      BY <3>1, <3>2
  <2>5. LostOf(fund_tx', ended) = L \cup S
    <3> HIDE DEF L
    <3> QED
      BY <2>3, <2>4, SameLost
  <2> QED
    BY <1>1, <2>1, <2>5
<1>11. Views!Offer(id)
  BY <1>6, <1>7, <1>8, <1>9, <1>10, ViewOffer
<1> QED
  BY <1>11

\* A process that ends forgets, of every channel, the side that it was.
LEMMA EndsForgets ==
  ASSUME MovesInv, NEW n \in Node, node_ends(n)
  PROVE  \E I, A \in SUBSET ChannelId : Views!Forget(I, A)
<1>0. \E J, B \in SUBSET ChannelId :
        /\ \A j \in ChannelId : j \in J <=> fund_tx[j] # None /\ fund_tx[j].by = n
        /\ \A j \in ChannelId : j \in B <=> fund_tx[j] # None /\ fund_tx[j].peer = n
  <2> WITNESS {j \in ChannelId : fund_tx[j] # None /\ fund_tx[j].by = n} \in SUBSET ChannelId
  <2> WITNESS {j \in ChannelId : fund_tx[j] # None /\ fund_tx[j].peer = n} \in SUBSET ChannelId
  <2> QED
    OBVIOUS
<1> PICK J \in SUBSET ChannelId, B \in SUBSET ChannelId :
        /\ \A j \in ChannelId : j \in J <=> fund_tx[j] # None /\ fund_tx[j].by = n
        /\ \A j \in ChannelId : j \in B <=> fund_tx[j] # None /\ fund_tx[j].peer = n
  BY <1>0
<1> DEFINE L == LostOf(fund_tx, ended)
           T == L \cup (J \X {"initiator"}) \cup (B \X {"acceptor"})
<1>1. fund_tx' = fund_tx /\ chain' = chain /\ signed' = signed /\ ended' = ended \cup {n}
  BY DEF node_ends
<1>2. \A k \in Node, j \in ChannelId : St(db', k, j) = IF k = n THEN "none" ELSE St(db, k, j)
  BY EndsMoves DEF MovesInv
<1>3. \A j \in ChannelId : fund_tx[j] # None => fund_tx[j].by \in Node /\ fund_tx[j].peer \in Node
  BY DEF MovesInv, IInv, FundTxsOK, FundTx
<1>4. InitiatorOf(db', fund_tx') = [j \in ChannelId |-> IF j \in J THEN "none" ELSE InitiatorOf(db, fund_tx)[j]]
  BY <1>1, <1>2, <1>3 DEF InitiatorOf
<1>5. AcceptorOf(db', fund_tx') = [j \in ChannelId |-> IF j \in B THEN "none" ELSE AcceptorOf(db, fund_tx)[j]]
  BY <1>1, <1>2, <1>3 DEF AcceptorOf
<1>6. MoneyOf(chain', signed') = MoneyOf(chain, signed)
  BY <1>1
<1>7. LostOf(fund_tx', ended') = T
  <2>1. T \in SUBSET (ChannelId \X {"initiator", "acceptor"})
    BY DEF LostOf
  <2>2. ASSUME NEW j \in ChannelId
        PROVE  /\ <<j, "initiator">> \in T <=> fund_tx[j] # None /\ fund_tx[j].by \in ended \cup {n}
               /\ <<j, "acceptor">> \in T <=> fund_tx[j] # None /\ fund_tx[j].peer \in ended \cup {n}
    BY DEF LostOf
  <2>3. LostOf(fund_tx, ended \cup {n}) = T
    <3> HIDE DEF T
    <3> QED
      BY <2>1, <2>2, SameLost
  <2> QED
    BY <1>1, <2>3
<1>8. Views!Forget(J, B)
  BY <1>4, <1>5, <1>6, <1>7, ViewForget
<1> QED
  BY <1>8

\* A call that stores the initiator's channel makes it ready, or closes it.
LEMMA CallViews ==
  ASSUME MovesInv, NEW n \in Node, ack_stored(n) \/ close_stored(n)
  PROVE  Views!Next
<1>0. PICK id \in ChannelId : id = lock[n].id
  BY CallMoves DEF MovesInv
<1>1. fund_tx' = fund_tx /\ ended' = ended /\ chain' = chain /\ signed' = signed
  BY DEF ack_stored, close_stored
<1>2. fund_tx[id] # None /\ n = fund_tx[id].by
  BY <1>0, CallMoves DEF MovesInv
<1>3. \/ Moves(n, id, "Pending", "ReadyToFund") /\ Shared(db, fund_tx, ended, id)
      \/ Moves(n, id, "Live", "Closed")
  BY <1>0, CallMoves DEF MovesInv
<1>4. CASE Moves(n, id, "Pending", "ReadyToFund") /\ Shared(db, fund_tx, ended, id)
  <2>1. AcceptorOf(db, fund_tx)[id] # "none" \/ <<id, "acceptor">> \in LostOf(fund_tx, ended)
    BY <1>2, <1>4, LostIs DEF Shared, AcceptorOf, St, AcceptorState
  <2>2. /\ InitiatorOf(db, fund_tx)[id] = "Pending"
        /\ InitiatorOf(db', fund_tx') = [InitiatorOf(db, fund_tx) EXCEPT ![id] = "ReadyToFund"]
        /\ AcceptorOf(db', fund_tx') = AcceptorOf(db, fund_tx)
    BY <1>1, <1>2, <1>4, InitiatorMoves DEF MovesInv
  <2>3. Views!Ready(id)
    BY <1>1, <1>2, <2>1, <2>2, ViewActions
  <2> QED
    BY <1>2, <2>3 DEF Views!Next
<1>5. CASE Moves(n, id, "Live", "Closed")
  <2>1. /\ InitiatorOf(db, fund_tx)[id] = "Live"
        /\ InitiatorOf(db', fund_tx') = [InitiatorOf(db, fund_tx) EXCEPT ![id] = "Closed"]
        /\ AcceptorOf(db', fund_tx') = AcceptorOf(db, fund_tx)
    BY <1>1, <1>2, <1>5, InitiatorMoves DEF MovesInv
  <2>2. Views!Close(id)
    BY <1>1, <1>2, <2>1, ViewActions
  <2> QED
    BY <1>2, <2>2 DEF Views!Next
<1> QED
  BY <1>4, <1>5, <1>3

\* Every step is a step of the lifecycle, or one that nobody sees.
LEMMA NextViews ==
  ASSUME WalletRepeats = FALSE, MovesInv, MadeInv, chain \subseteq signed, [Next]_vars
  PROVE  [Views!Next]_(Views!vars)
<1> USE DEF MovesInv
<1>1. \A id \in ChannelId : fund_tx[id] # None =>
        fund_tx[id].by \in Node /\ fund_tx[id].peer \in Node /\ fund_tx[id].by # fund_tx[id].peer
  BY DEF IInv, FundTxsOK, FundTx
<1>2. ASSUME fund_tx' = fund_tx, ended' = ended, chain' = chain, signed' = signed,
             \A k \in Node, j \in ChannelId : St(db', k, j) = St(db, k, j)
      PROVE  UNCHANGED Views!vars
  BY <1>2, SameViews, ViewSame
<1>3. ASSUME NEW k \in Call, NEW n \in Node, NEW peer \in Node, NEW v \in Value, open_channel(k, n, peer, v)
      PROVE  Views!Next
  BY <1>3, OpenOffer DEF Views!Next
<1>4. ASSUME NEW n \in Node, NEW m \in net, recv_new_channel(n, m) PROVE Views!Next
  <2>1. fund_tx' = fund_tx /\ ended' = ended /\ chain' = chain /\ signed' = signed
    BY <1>4 DEF recv_new_channel
  <2>2. /\ m.id \in ChannelId /\ fund_tx[m.id] # None /\ n = fund_tx[m.id].peer
        /\ Moves(n, m.id, "none", "WaitingForFund")
    BY <1>4, RecvNewMoves
  <2>3. InitiatorOf(db, fund_tx)[m.id] # "none" \/ <<m.id, "initiator">> \in LostOf(fund_tx, ended)
    BY <2>2, LostIs DEF MadeInv, InitiatorOf
  <2>4. /\ AcceptorOf(db, fund_tx)[m.id] = "none"
        /\ AcceptorOf(db', fund_tx') = [AcceptorOf(db, fund_tx) EXCEPT ![m.id] = "WaitingForFund"]
        /\ InitiatorOf(db', fund_tx') = InitiatorOf(db, fund_tx)
    BY <2>1, <2>2, AcceptorMoves
  <2>5. Views!Accept(m.id)
    BY <2>1, <2>2, <2>3, <2>4, ViewActions
  <2> QED
    BY <2>2, <2>5 DEF Views!Next
<1>5. ASSUME NEW n \in Node, ack_stored(n) \/ close_stored(n) PROVE Views!Next
  BY <1>5, CallViews
<1>6. ASSUME NEW w \in waiters, funding_seen(w) PROVE [Views!Next]_(Views!vars)
  <2> DEFINE id == w.id
             n == w.node
  <2>1. fund_tx' = fund_tx /\ ended' = ended /\ chain' = chain /\ signed' = signed /\ id \in chain
    BY <1>6 DEF funding_seen
  <2>2. n \in Node /\ id \in ChannelId /\ fund_tx[id] # None
    BY <1>6, SeenMoves
  <2>3. \/ n = fund_tx[id].by /\ Moves(n, id, "ReadyToFund", "Live")
        \/ n = fund_tx[id].peer /\ Moves(n, id, "WaitingForFund", "Funded")
        \/ \A k \in Node, j \in ChannelId : St(db', k, j) = St(db, k, j)
    BY <1>6, SeenMoves
  <2> HIDE DEF id, n
  <2>4. MoneyOf(chain, signed)[id] = "on_chain"
    BY <2>1, <2>2 DEF MoneyOf
  <2>5. CASE n = fund_tx[id].by /\ Moves(n, id, "ReadyToFund", "Live")
    <3>1. /\ InitiatorOf(db, fund_tx)[id] = "ReadyToFund"
          /\ InitiatorOf(db', fund_tx') = [InitiatorOf(db, fund_tx) EXCEPT ![id] = "Live"]
          /\ AcceptorOf(db', fund_tx') = AcceptorOf(db, fund_tx)
      BY <2>1, <2>2, <2>5, InitiatorMoves
    <3>2. Views!GoLive(id)
      BY <2>1, <2>2, <2>4, <3>1, ViewActions
    <3> QED
      BY <2>2, <3>2 DEF Views!Next
  <2>6. CASE n = fund_tx[id].peer /\ Moves(n, id, "WaitingForFund", "Funded")
    <3>1. /\ AcceptorOf(db, fund_tx)[id] = "WaitingForFund"
          /\ AcceptorOf(db', fund_tx') = [AcceptorOf(db, fund_tx) EXCEPT ![id] = "Funded"]
          /\ InitiatorOf(db', fund_tx') = InitiatorOf(db, fund_tx)
      BY <2>1, <2>2, <2>6, AcceptorMoves
    <3>2. Views!SeeFunds(id)
      BY <2>1, <2>2, <2>4, <3>1, ViewActions, ZenonT(30)
    <3> QED
      BY <2>2, <3>2 DEF Views!Next
  <2>7. CASE \A k \in Node, j \in ChannelId : St(db', k, j) = St(db, k, j)
    BY <1>2, <2>1, <2>7
  <2> QED
    BY <2>3, <2>5, <2>6, <2>7
<1>7. ASSUME NEW id \in ChannelId, sign(id) PROVE [Views!Next]_(Views!vars)
  <2>1. /\ db' = db /\ fund_tx' = fund_tx /\ ended' = ended /\ chain' = chain /\ signed' = signed \cup {id}
        /\ fund_tx[id] # None /\ StateOf(fund_tx[id].by, id) = "ReadyToFund"
    BY <1>7 DEF sign
  <2>2. CASE id \in signed
    BY <1>2, <2>1, <2>2
  <2>3. CASE id \notin signed
    <3>1. InitiatorOf(db, fund_tx)[id] = "ReadyToFund"
      BY <2>1 DEF InitiatorOf, St, StateOf
    <3>2. /\ MoneyOf(chain, signed)[id] = "wallet"
          /\ MoneyOf(chain', signed') = [MoneyOf(chain, signed) EXCEPT ![id] = "signed"]
      BY <2>1, <2>3 DEF MoneyOf
    <3>3. Views!Sign(id)
      BY <2>1, <3>1, <3>2, ViewActions
    <3> QED
      BY <3>3 DEF Views!Next
  <2> QED
    BY <2>2, <2>3
<1>8. ASSUME NEW id \in ChannelId, broadcast(id) PROVE [Views!Next]_(Views!vars)
  <2>1. /\ db' = db /\ fund_tx' = fund_tx /\ ended' = ended /\ chain' = chain \cup {id} /\ signed' = signed
        /\ id \in signed
    BY <1>8 DEF broadcast
  <2>2. CASE id \in chain
    BY <1>2, <2>1, <2>2
  <2>3. CASE id \notin chain
    <3>1. /\ MoneyOf(chain, signed)[id] = "signed"
          /\ MoneyOf(chain', signed') = [MoneyOf(chain, signed) EXCEPT ![id] = "on_chain"]
      BY <2>1, <2>3 DEF MoneyOf
    <3>2. Views!Confirm(id)
      BY <2>1, <3>1, ViewActions
    <3> QED
      BY <3>2 DEF Views!Next
  <2> QED
    BY <2>2, <2>3
<1>9. ASSUME NEW n \in Node, node_ends(n) PROVE Views!Next
  BY <1>9, EndsForgets DEF Views!Next
<1>10. ASSUME \/ UNCHANGED vars
              \/ \E n \in Node : \/ open_channel_sent(n) \/ ack_sent(n) \/ hang_up(n)
                                 \/ \E id \in ChannelId : force_close_channel(n, id)
                                 \/ \E m \in net : recv_new_channel_ack(n, m)
              \/ \E m \in net : Lose(m)
       PROVE  UNCHANGED Views!vars
  <2>1. db' = db /\ fund_tx' = fund_tx /\ ended' = ended
    BY <1>10, NoMoves
  <2>2. chain' = chain /\ signed' = signed
    BY <1>10 DEF vars, open_channel_sent, ack_sent, hang_up, force_close_channel, recv_new_channel_ack, Lose
  <2> QED
    BY <1>2, <2>1, <2>2
<1> QED
  BY <1>3, <1>4, <1>5, <1>6, <1>7, <1>8, <1>9, <1>10 DEF Next

-----------------------------------------------------------------------------
(* The tasks of channels that wait for their funding *)

\* A channel in one of these states waits for its funding.
Waits(ch) == ch # None /\ ch.state \in {"ReadyToFund", "WaitingForFund"}

HasTask(n, id) == \E w \in waiters : w.node = n /\ w.id = id /\ w.channel = db[n][id]

\* A step that takes away no task but of channels that do not wait any more, and that
\* stores one that waits only with its task.
LEMMA TaskKept ==
  ASSUME IInv, WatchedUntilFunded,
         \A w \in waiters : w \in waiters' \/ ~Waits(db'[w.node][w.id]),
         \A n \in Node, id \in ChannelId :
           Waits(db'[n][id]) => db'[n][id] = db[n][id] \/ HasTask(n, id)'
  PROVE  WatchedUntilFunded'
<1> SUFFICES ASSUME NEW n \in Node, NEW id \in ChannelId, Waits(db'[n][id]) PROVE HasTask(n, id)'
  BY DEF WatchedUntilFunded, StateOf, Waits, HasTask
<1>1. CASE db'[n][id] = db[n][id]
  <2>1. PICK w \in waiters : w.node = n /\ w.id = id /\ w.channel = db[n][id]
    BY <1>1 DEF WatchedUntilFunded, StateOf, Waits
  <2>2. w \in waiters'
    BY <2>1
  <2> QED
    BY <1>1, <2>1, <2>2 DEF HasTask
<1> QED
  BY <1>1

\* The managers store a channel that waits together with its task.
LEMMA ManagerTasks ==
  ASSUME IInv, CallsInv, WatchedUntilFunded,
         \/ \E k \in Call, n, peer \in Node, v \in Value : open_channel(k, n, peer, v)
         \/ \E n \in Node : \/ ack_stored(n) \/ close_stored(n)
                            \/ \E m \in net : recv_new_channel(n, m)
  PROVE  WatchedUntilFunded'
<1>1. ASSUME NEW n \in Node, NEW id \in ChannelId, NEW ch, insert_channel(n, id, ch),
             waiters \subseteq waiters',
             Waits(ch) => \E w \in waiters' : w.node = n /\ w.id = id /\ w.channel = ch
      PROVE  WatchedUntilFunded'
  <2>1. /\ db'[n][id] = ch
        /\ \A k \in Node, j \in ChannelId : k # n \/ j # id => db'[k][j] = db[k][j]
    BY <1>1, StoredOrOld
  <2>2. \A k \in Node, j \in ChannelId :
          Waits(db'[k][j]) => db'[k][j] = db[k][j] \/ HasTask(k, j)'
    BY <1>1, <2>1 DEF HasTask
  <2> QED
    BY <1>1, <2>2, TaskKept
<1>2. ASSUME NEW k \in Call, NEW n \in Node, NEW peer \in Node, NEW v \in Value,
             open_channel(k, n, peer, v)
      PROVE  WatchedUntilFunded'
  <2> DEFINE ch == Channel("Pending", peer, v, TRUE)
  <2>1. PICK id \in ChannelId : insert_channel(n, id, ch)
    BY <1>2 DEF open_channel
  <2>2. ~Waits(ch)
    BY DEF Waits, Channel
  <2>3. waiters' = waiters
    BY <1>2 DEF open_channel
  <2> HIDE DEF ch
  <2> QED
    BY <1>1, <2>1, <2>2, <2>3
<1>3. ASSUME NEW n \in Node, NEW m \in net, recv_new_channel(n, m) PROVE WatchedUntilFunded'
  <2> DEFINE ch == Channel("WaitingForFund", m.from, m.funding_satoshis, FALSE)
             w == [node |-> n, id |-> m.id, channel |-> ch, call |-> m.call]
  <2>1. insert_channel(n, m.id, ch) /\ waiters' = waiters \cup {w}
    BY <1>3 DEF recv_new_channel, wait_for_funding
  <2>2. m.id \in ChannelId
    BY <1>3 DEF CallsInv, IsMessage
  <2>3. w.node = n /\ w.id = m.id /\ w.channel = ch
    OBVIOUS
  <2> HIDE DEF ch, w
  <2> QED
    BY <1>1, <2>1, <2>2, <2>3
<1>4. ASSUME NEW n \in Node, ack_stored(n) \/ close_stored(n) PROVE WatchedUntilFunded'
  <2> DEFINE id == lock[n].id
             ch == lock[n].channel
             w == [node |-> n, id |-> id, channel |-> ch, call |-> lock[n].call]
  <2>1. /\ lock[n] # None /\ insert_channel(n, id, ch)
        /\ \/ lock[n].at = "acked" /\ waiters' = waiters \cup {w}
           \/ lock[n].at = "close" /\ waiters' = waiters
    BY <1>4 DEF ack_stored, close_stored, wait_for_funding
  <2>2. id \in ChannelId
    BY <2>1 DEF IInv, CallInv
  <2>3. lock[n].at = "close" => ~Waits(ch)
    BY <2>1 DEF CallsInv, CallOK, Waits
  <2>4. w.node = n /\ w.id = id /\ w.channel = ch
    OBVIOUS
  <2> HIDE DEF id, ch, w
  <2> QED
    BY <1>1, <2>1, <2>2, <2>3, <2>4
<1> QED
  BY <1>2, <1>3, <1>4

\* The output is the one that an acceptor's task waits for: it never finds another.
LEMMA TaskExpects ==
  ASSUME IInv, NEW w \in waiters, w.channel.state = "WaitingForFund"
  PROVE  FundsChannel(w.node, w.id, w.channel)
<1>1. w.id \in ChannelId /\ Role(fund_tx, w.node, w.id, w.channel)
  BY DEF IInv, WaiterInv, ChannelInv
<1>2. /\ fund_tx[w.id] # None
      /\ fund_tx[w.id].peer = w.node /\ w.channel.peer_id = fund_tx[w.id].by
      /\ w.channel.value = fund_tx[w.id].value
  BY <1>1 DEF Role, InitiatorState
<1>3. /\ fund_tx[w.id].by \in Node /\ fund_tx[w.id].peer \in Node
      /\ fund_tx[w.id].script = funding_descriptor_for(fund_tx[w.id].by, fund_tx[w.id].peer, TRUE)
  BY <1>1, <1>2 DEF IInv, FundTxsOK, FundTx
<1> QED
  BY <1>2, <1>3, SameScript DEF FundsChannel

\* A task that is done leaves its channel in a state that does not wait.
LEMMA SeenTasks ==
  ASSUME IInv, WatchedUntilFunded, NEW w \in waiters, funding_seen(w)
  PROVE  WatchedUntilFunded'
<1>1. w.node \in Node /\ w.id \in ChannelId /\ IsChannel(w.channel)
  BY DEF IInv, WaiterInv, ChannelInv, Role
<1>2. PICK s \in {"Live", "Funded"} : insert_channel(w.node, w.id, InState(w.channel, s))
  BY TaskExpects DEF funding_seen, InState
<1>3. ~Waits(InState(w.channel, s))
  BY <1>1, ChannelFields DEF Waits
<1>4. /\ db'[w.node][w.id] = InState(w.channel, s)
      /\ \A k \in Node, j \in ChannelId : k # w.node \/ j # w.id => db'[k][j] = db[k][j]
  BY <1>1, <1>2, StoredOrOld
<1>5. waiters' = waiters \ {w}
  BY DEF funding_seen
<1> QED
  BY <1>3, <1>4, <1>5, TaskKept

\* Nothing else takes a task away, but the end of the process that takes the channel too.
LEMMA OtherTasks ==
  ASSUME IInv, WatchedUntilFunded,
         \/ UNCHANGED vars
         \/ \E n \in Node : \/ open_channel_sent(n) \/ ack_sent(n) \/ hang_up(n) \/ node_ends(n)
                            \/ \E id \in ChannelId : force_close_channel(n, id)
                            \/ \E m \in net : recv_new_channel_ack(n, m)
         \/ \E m \in net : Lose(m)
         \/ \E id \in ChannelId : sign(id) \/ broadcast(id)
  PROVE  WatchedUntilFunded'
<1>1. ASSUME NEW n \in Node, node_ends(n) PROVE WatchedUntilFunded'
  <2>1. /\ waiters' = {w \in waiters : w.node # n}
        /\ db' = [db EXCEPT ![n] = [id \in ChannelId |-> None]]
    BY <1>1 DEF node_ends
  <2>2. \A k \in Node, j \in ChannelId : db'[k][j] = IF k = n THEN None ELSE db[k][j]
    BY <2>1 DEF IInv, IsDb
  <2>3. \A w \in waiters : w.node \in Node /\ w.id \in ChannelId
    BY DEF IInv, WaiterInv
  <2> QED
    BY <2>1, <2>2, <2>3, TaskKept DEF Waits
<1>2. CASE db' = db /\ waiters' = waiters
  BY <1>2, TaskKept
<1> QED
  BY <1>1, <1>2 DEF vars, open_channel_sent, ack_sent, hang_up, force_close_channel, recv_new_channel_ack,
                    Lose, sign, broadcast

\* Every step keeps a task with every channel that waits.
LEMMA NextTasks == IInv /\ CallsInv /\ WatchedUntilFunded /\ [Next]_vars => WatchedUntilFunded'
BY ManagerTasks, SeenTasks, OtherTasks DEF Next

-----------------------------------------------------------------------------
(* What the messages say *)

\* An offer names its maker's publishing key, and an ack has the one signature that the
\* funding transaction determines: n accepts it whenever the channel is Pending.
SaysOK(F, m) ==
  /\ m \in Message
  /\ m.kind = "RsEcdsaNewChannel" => m.publishing_key = my_publishing_key_for(m.from)
  /\ m.kind = "RsEcdsaAckNewChannel" =>
       m.from = F[m.id].peer /\ m.to = F[m.id].by /\ m.commit_sig = Refund(F, m.id)

Sends(k) == lock[k] # None /\ lock[k].at \in {"open", "ack"}

SaysInv ==
  /\ \A m \in net : SaysOK(fund_tx, m)
  /\ \A k \in Node : Sends(k) => SaysOK(fund_tx, lock[k].message)

\* Both sides compute one commitment, so the acceptor's signature is the initiator's refund.
LEMMA AckSignature ==
  ASSUME NEW id, fund_tx[id].by \in Node, fund_tx[id].peer \in Node
  PROVE  LET n == fund_tx[id].peer
             peer == fund_tx[id].by
         IN  encrypted_sign(funding_key_for(n, peer, FALSE), my_publishing_key_for(peer),
               state_sighash(n, id, peer, AllToParty1(fund_tx[id].value), FALSE)) = Refund(fund_tx, id)
<1> DEFINE n == fund_tx[id].peer
           peer == fund_tx[id].by
<1>1. {n, peer} = {peer, n}
  OBVIOUS
<1>2. \A kind : points_at(n, peer, FALSE, kind) = points_at(peer, n, TRUE, kind)
  BY <1>1 DEF points_at
<1>3. state_sighash(n, id, peer, AllToParty1(fund_tx[id].value), FALSE) = Commitment(fund_tx, id)
  BY <1>2 DEF state_sighash, Commitment, funding_descriptor_for
<1>4. funding_key_for(n, peer, FALSE) = funding_descriptor_for(peer, n, TRUE)[2]
  BY <1>2 DEF funding_key_for, funding_descriptor_for
<1> QED
  BY <1>3, <1>4 DEF Refund

\* The step sends what was in hand, and takes nothing in hand but what is said right.
LEMMA SaysKept ==
  ASSUME IInv, SaysInv,
         \A j \in ChannelId : fund_tx[j] # None => fund_tx'[j] = fund_tx[j],
         \A m \in net' : m \in net \/ \E k \in Node : Sends(k) /\ m = lock[k].message,
         \A k \in Node : Sends(k)' => lock'[k] = lock[k] \/ SaysOK(fund_tx', lock'[k].message)
  PROVE  SaysInv'
<1>1. ASSUME NEW m, MessageInv(db, fund_tx, ended, m), SaysOK(fund_tx, m) PROVE SaysOK(fund_tx', m)
  <2>1. CASE m.kind = "RsEcdsaAckNewChannel"
    <3>1. m.id \in ChannelId /\ fund_tx'[m.id] = fund_tx[m.id]
      BY <1>1, <2>1 DEF MessageInv, AckInv, Shared
    <3> QED
      BY <1>1, <2>1, <3>1 DEF SaysOK, Refund, Commitment
  <2>2. CASE m.kind # "RsEcdsaAckNewChannel"
    BY <1>1, <2>2 DEF SaysOK
  <2> QED
    BY <2>1, <2>2
<1>2. ASSUME NEW k \in Node, Sends(k)
      PROVE  MessageInv(db, fund_tx, ended, lock[k].message) /\ SaysOK(fund_tx, lock[k].message)
  BY <1>2 DEF IInv, CallInv, Sends, SaysInv
<1>3. \A m \in net' : SaysOK(fund_tx', m)
  BY <1>1, <1>2 DEF IInv, SaysInv
<1>4. \A k \in Node : Sends(k)' => SaysOK(fund_tx', lock'[k].message)
  BY <1>1, <1>2 DEF Sends
<1> QED
  BY <1>3, <1>4 DEF SaysInv

\* The offer that open_channel has in hand.
LEMMA OpenSays ==
  ASSUME IInv, SaysInv, NEW k \in Call, NEW n \in Node, NEW peer \in Node, NEW v \in Value,
         open_channel(k, n, peer, v)
  PROVE  SaysInv' /\ \E id \in ChannelId : /\ insert_channel(n, id, Channel("Pending", peer, v, TRUE))
                                          /\ Sends(n)' /\ OfferOf(n, id, lock'[n].message)
<1> DEFINE M(id) == [kind |-> "RsEcdsaNewChannel", call |-> k, from |-> n, to |-> peer,
                     id |-> id, funding_satoshis |-> v,
                     publishing_key |-> my_publishing_key_for(n)]
           C(id) == [at |-> "open", message |-> M(id)]
<1>1. PICK id \in ChannelId :
        /\ create_fund_transaction(n, peer, v, id)
        /\ insert_channel(n, id, Channel("Pending", peer, v, TRUE))
        /\ Acquire(n, C(id))
  BY DEF open_channel
<1>2. n # peer /\ net' = net
  BY DEF open_channel
<1>3. \A j \in ChannelId : fund_tx[j] # None => fund_tx'[j] = fund_tx[j]
  BY <1>1, <1>2, TransactionMade
<1>4. M(id) \in Message /\ SaysOK(fund_tx', M(id)) /\ OfferOf(n, id, M(id))
  <2>1. my_publishing_key_for(n) \in [kind : {"Publishing"}, base : Node]
    BY DEF my_publishing_key_for
  <2>2. M(id) \in Message
    BY <2>1 DEF Message
  <2>3. /\ M(id).kind = "RsEcdsaNewChannel" /\ M(id).from = n /\ M(id).id = id
        /\ M(id).publishing_key = my_publishing_key_for(n)
    OBVIOUS
  <2> HIDE DEF M
  <2> QED
    BY <2>2, <2>3 DEF SaysOK, OfferOf
<1>5. lock' = [lock EXCEPT ![n] = C(id)]
  BY <1>1 DEF Acquire
<1>6. C(id).at = "open" /\ C(id).message = M(id) /\ C(id) # None
  <2>1. C(id) \in [at : {"open", "ack"}, message : Message]
    <3> HIDE DEF M
    <3> QED
      BY <1>4
  <2> QED
    BY <2>1, NoneAssumption
<1> HIDE DEF C, M
<1>7. lock'[n] = C(id) /\ \A j \in Node : j # n => lock'[j] = lock[j]
  BY <1>5, LockSet
<1>8. SaysInv'
  BY <1>2, <1>3, <1>4, <1>6, <1>7, SaysKept
<1> QED
  BY <1>1, <1>4, <1>6, <1>7, <1>8 DEF Sends

\* The ack that recv_new_channel has in hand is one for the maker of the offer.
LEMMA RecvNewSays ==
  ASSUME IInv, SaysInv, NEW n \in Node, NEW m \in net, recv_new_channel(n, m)
  PROVE  /\ SaysInv' /\ Sends(n)'
         /\ lock'[n].message.kind = "RsEcdsaAckNewChannel" /\ lock'[n].message.id = m.id
<1> DEFINE A(sig) == [kind |-> "RsEcdsaAckNewChannel", call |-> m.call, from |-> n,
                      to |-> m.from, id |-> m.id, commit_sig |-> sig]
           C(sig) == [at |-> "ack", message |-> A(sig)]
           sig0 == encrypted_sign(funding_key_for(n, m.from, FALSE), m.publishing_key,
                     state_sighash(n, m.id, m.from, AllToParty1(m.funding_satoshis), FALSE))
<1>1. /\ Acquire(n, C(sig0)) /\ m.kind = "RsEcdsaNewChannel" /\ m.to = n
      /\ net' \subseteq net /\ fund_tx' = fund_tx
  BY DEF recv_new_channel
<1>2. /\ m.id \in ChannelId /\ fund_tx[m.id] # None
      /\ m.from = fund_tx[m.id].by /\ n = fund_tx[m.id].peer /\ m.funding_satoshis = fund_tx[m.id].value
  BY <1>1 DEF IInv, MessageInv, NewInv
<1>3. FundTxsOK(fund_tx) /\ fund_tx[m.id].by \in Node /\ fund_tx[m.id].peer \in Node
  BY <1>2 DEF IInv, FundTxsOK, FundTx
<1>4. m.publishing_key = my_publishing_key_for(m.from) /\ m.call \in Call
  BY <1>1 DEF SaysInv, SaysOK, Message
<1>5. sig0 = Refund(fund_tx, m.id)
  BY <1>2, <1>3, <1>4, AckSignature
<1>6. sig0 \in EncryptedSignature
  BY <1>2, <1>3, <1>5, ClosingIsValid
<1> HIDE DEF sig0
<1>7. /\ A(sig0).kind = "RsEcdsaAckNewChannel" /\ A(sig0).from = n /\ A(sig0).to = m.from
      /\ A(sig0).id = m.id /\ A(sig0).commit_sig = sig0
  OBVIOUS
<1>8. A(sig0) \in Message
  BY <1>2, <1>3, <1>4, <1>6 DEF Message
<1>9. C(sig0).at = "ack" /\ C(sig0).message = A(sig0)
  OBVIOUS
<1>10. lock' = [lock EXCEPT ![n] = C(sig0)]
  BY <1>1 DEF Acquire
<1> HIDE DEF A
<1>11. C(sig0) # None
  BY <1>8, NoneAssumption
<1> HIDE DEF C
<1>12. SaysOK(fund_tx', A(sig0))
  BY <1>1, <1>2, <1>5, <1>7, <1>8 DEF SaysOK
<1>13. lock'[n] = C(sig0) /\ \A j \in Node : j # n => lock'[j] = lock[j]
  BY <1>10, LockSet
<1>14. SaysInv'
  BY <1>1, <1>9, <1>12, <1>13, SaysKept
<1> QED
  BY <1>7, <1>9, <1>11, <1>13, <1>14 DEF Sends

\* Nothing else takes a message in hand.
LEMMA OtherSays ==
  ASSUME IInv, SaysInv,
         \/ UNCHANGED vars
         \/ \E n \in Node : \/ open_channel_sent(n) \/ ack_sent(n) \/ ack_stored(n) \/ close_stored(n)
                            \/ hang_up(n) \/ node_ends(n)
                            \/ \E id \in ChannelId : force_close_channel(n, id)
                            \/ \E m \in net : recv_new_channel_ack(n, m)
         \/ \E m \in net : Lose(m)
         \/ \E w \in waiters : funding_seen(w)
         \/ \E id \in ChannelId : sign(id) \/ broadcast(id)
  PROVE  SaysInv'
<1>1. fund_tx' = fund_tx
  BY DEF vars, open_channel_sent, ack_sent, hang_up, node_ends, ack_stored, close_stored,
         force_close_channel, recv_new_channel_ack, Lose, funding_seen, sign, broadcast
<1>2. ASSUME NEW m \in net', m \notin net PROVE \E k \in Node : Sends(k) /\ m = lock[k].message
  <2>1. ASSUME NEW k \in Node, open_channel_sent(k) \/ ack_sent(k) \/ hang_up(k) \/ node_ends(k)
        PROVE  Sends(k) /\ m = lock[k].message
    BY <1>2, <2>1 DEF open_channel_sent, ack_sent, hang_up, node_ends, Send, Sends
  <2>2. CASE net' \subseteq net
    BY <1>2, <2>2
  <2> QED
    BY <2>1, <2>2 DEF vars, ack_stored, close_stored, force_close_channel, recv_new_channel_ack,
                      Lose, funding_seen, sign, broadcast
<1>3. \A k \in Node : Sends(k)' => lock'[k] = lock[k]
  <2>1. ASSUME NEW n \in Node, NEW C, lock' = [lock EXCEPT ![n] = C], C = None \/ C.at \in {"acked", "close"},
               NEW k \in Node, Sends(k)'
        PROVE  lock'[k] = lock[k]
    BY <2>1, LockSet DEF Sends
  <2>2. \/ lock' = lock
        \/ \E n \in Node : \E C : lock' = [lock EXCEPT ![n] = C] /\ (C = None \/ C.at \in {"acked", "close"})
    <3>1. ASSUME NEW n \in Node, NEW m \in net, recv_new_channel_ack(n, m), lock' # lock
          PROVE  \E C : lock' = [lock EXCEPT ![n] = C] /\ C.at = "acked"
      <4> DEFINE C == [at |-> "acked", id |-> m.id, call |-> m.call,
                       channel |-> [db[n][m.id] EXCEPT !.state = "ReadyToFund", !.commit_sig = m.commit_sig]]
      <4>1. lock' = [lock EXCEPT ![n] = C]
        BY <3>1 DEF recv_new_channel_ack, Acquire
      <4>2. C.at = "acked"
        OBVIOUS
      <4> HIDE DEF C
      <4> QED
        BY <4>1, <4>2
    <3>2. ASSUME NEW n \in Node, NEW id \in ChannelId, force_close_channel(n, id)
          PROVE  \E C : lock' = [lock EXCEPT ![n] = C] /\ C.at = "close"
      <4> DEFINE C == [at |-> "close", id |-> id,
                       channel |-> [db[n][id] EXCEPT !.state = "Closed", !.commit_sig = None,
                                                     !.close_tx = CloseTx(n, id, db[n][id])]]
      <4>1. lock' = [lock EXCEPT ![n] = C]
        BY <3>2 DEF force_close_channel, Acquire
      <4>2. C.at = "close"
        OBVIOUS
      <4> HIDE DEF C
      <4> QED
        BY <4>1, <4>2
    <3>3. CASE lock' = lock \/ \E n \in Node : lock' = [lock EXCEPT ![n] = None]
      BY <3>3
    <3> QED
      BY <3>1, <3>2, <3>3 DEF vars, open_channel_sent, ack_sent, hang_up, node_ends, ack_stored, close_stored,
         Lose, funding_seen, sign, broadcast, Release
  <2> QED
    BY <2>1, <2>2
<1> QED
  BY <1>1, <1>2, <1>3, SaysKept

\* Every step keeps what the messages say.
LEMMA NextSays == IInv /\ SaysInv /\ [Next]_vars => SaysInv'
BY OpenSays, RecvNewSays, OtherSays DEF Next

-----------------------------------------------------------------------------
(* Answers, when nothing is lost *)

Coming(n, id, m) == OfferOf(n, id, m) \/ AckFor(n, id, m)

Pends(n, id) == db[n][id] # None /\ db[n][id].state = "Pending"

Acked(n, id) == lock[n] # None /\ lock[n].at = "acked" /\ lock[n].id = id

\* An ack is one that the initiator of its channel accepts.
LEMMA AckAccepted ==
  ASSUME IInv, SignInv, NEW n \in Node, NEW id \in ChannelId, Pends(n, id),
         NEW m, SaysOK(fund_tx, m), m.kind = "RsEcdsaAckNewChannel", m.id = id
  PROVE  AckFor(n, id, m)
<1>1. Role(fund_tx, n, id, db[n][id]) /\ Signs(fund_tx, id, db[n][id])
  BY DEF IInv, ChannelInv, SignInv, Pends
<1>2. fund_tx[id].by = n /\ db[n][id].peer_id = fund_tx[id].peer
  BY <1>1 DEF Role, Signs, Pends, InitiatorState, AcceptorState
<1>3. m.from = fund_tx[id].peer /\ m.to = n /\ m.commit_sig = Refund(fund_tx, id)
  BY <1>2 DEF SaysOK
<1> QED
  BY <1>2, <1>3 DEF AckFor, Acceptable, Pends, Refund, Commitment

\* What n expects of a message does not change while n has the channel.
LEMMA ComingStays ==
  ASSUME NEW n \in Node, NEW id \in ChannelId, db'[n][id] = db[n][id], fund_tx'[id] = fund_tx[id]
  PROVE  \A m : Coming(n, id, m) => (OfferOf(n, id, m) \/ AckFor(n, id, m))'
BY DEF Coming, OfferOf, AckFor, Acceptable

\* The answer of a channel that stays as it is still comes after a step that sends, or
\* turns into what comes, what it takes from the net or from a call.
LEMMA AnswerKept ==
  ASSUME IInv, PendingIsAnswered, NEW n \in Node, NEW id \in ChannelId, Pends(n, id),
         db'[n][id] = db[n][id], fund_tx'[id] = fund_tx[id],
         \A m \in net : Coming(n, id, m) => m \in net' \/ AnswerComing(n, id)',
         \A k \in Node : Sends(k) /\ Coming(n, id, lock[k].message) =>
           lock'[k] = lock[k] \/ lock[k].message \in net',
         Acked(n, id) => lock'[n] = lock[n]
  PROVE  AnswerComing(n, id)'
<1>1. AnswerComing(n, id)
  BY DEF PendingIsAnswered, StateOf, Pends
<1>2. CASE \E m \in net : Coming(n, id, m)
  BY <1>2, ComingStays DEF AnswerComing
<1>3. CASE \E k \in Node : Sends(k) /\ Coming(n, id, lock[k].message)
  <2>1. PICK k \in Node : Sends(k) /\ Coming(n, id, lock[k].message)
    BY <1>3
  <2>2. PICK m : m = lock[k].message
    OBVIOUS
  <2>3. (OfferOf(n, id, m) \/ AckFor(n, id, m))'
    BY <2>1, <2>2, ComingStays
  <2>4. CASE lock'[k] = lock[k]
    BY <2>1, <2>2, <2>3, <2>4 DEF AnswerComing, Sends
  <2>5. CASE m \in net'
    BY <2>3, <2>5 DEF AnswerComing
  <2> QED
    BY <2>1, <2>2, <2>4, <2>5
<1>4. CASE Acked(n, id)
  BY <1>4 DEF Acked, AnswerComing
<1> QED
  BY <1>1, <1>2, <1>3, <1>4 DEF AnswerComing, Coming, Sends, Acked

\* A channel in a database has its funding transaction.
LEMMA PendsHasTx ==
  ASSUME IInv, NEW n \in Node, NEW id \in ChannelId, Pends(n, id)
  PROVE  fund_tx[id] # None
BY DEF IInv, ChannelInv, Role, Pends

\* open_channel stores the channel with the offer in hand.
LEMMA OpenAnswers ==
  ASSUME IInv, SaysInv, PendingIsAnswered,
         NEW k \in Call, NEW i \in Node, NEW peer \in Node, NEW v \in Value, open_channel(k, i, peer, v),
         NEW n \in Node, NEW id \in ChannelId, Pends(n, id)'
  PROVE  AnswerComing(n, id)'
<1>1. PICK j \in ChannelId : /\ insert_channel(i, j, Channel("Pending", peer, v, TRUE))
                             /\ Sends(i)' /\ OfferOf(i, j, lock'[i].message)
  BY OpenSays
<1>2. CASE n = i /\ id = j
  BY <1>1, <1>2 DEF AnswerComing, Sends, OfferOf
<1>3. CASE n # i \/ id # j
  <2>1. db'[n][id] = db[n][id]
    <3> DEFINE ch == Channel("Pending", peer, v, TRUE)
    <3>1. insert_channel(i, j, ch)
      BY <1>1
    <3> HIDE DEF ch
    <3> QED
      BY <1>3, <3>1, StoredOrOld
  <2>2. Pends(n, id)
    BY <2>1 DEF Pends
  <2>3. PICK l \in ChannelId : create_fund_transaction(i, peer, v, l)
    BY DEF open_channel
  <2>4. i # peer /\ net' = net
    BY DEF open_channel
  <2>5. fund_tx'[id] = fund_tx[id]
    BY <2>2, <2>3, <2>4, PendsHasTx, TransactionMade
  <2>6. lock[i] = None /\ \A h \in Node : h # i => lock'[h] = lock[h]
    BY LockSet DEF open_channel, Acquire
  <2> QED
    BY <2>1, <2>2, <2>4, <2>5, <2>6, AnswerKept DEF Sends, Acked
<1> QED
  BY <1>2, <1>3

\* recv_new_channel takes an offer, and has its ack in hand.
LEMMA RecvNewAnswers ==
  ASSUME IInv, SignInv, SaysInv, PendingIsAnswered, NEW i \in Node, NEW o \in net, recv_new_channel(i, o),
         NEW n \in Node, NEW id \in ChannelId, Pends(n, id)'
  PROVE  AnswerComing(n, id)'
<1> DEFINE ch == Channel("WaitingForFund", o.from, o.funding_satoshis, FALSE)
<1>1. /\ insert_channel(i, o.id, ch) /\ net' = net \ {o} /\ fund_tx' = fund_tx
      /\ o.kind = "RsEcdsaNewChannel" /\ lock[i] = None
  BY DEF recv_new_channel, Acquire
<1>2. o.id \in ChannelId
  BY <1>1 DEF IInv, MessageInv, NewInv
<1>3. ch.state = "WaitingForFund"
  BY DEF Channel
<1> HIDE DEF ch
<1>4. n # i \/ id # o.id
  BY <1>1, <1>2, <1>3, StoredOrOld DEF Pends
<1>5. db'[n][id] = db[n][id]
  BY <1>1, <1>2, <1>4, StoredOrOld
<1>6. Pends(n, id)
  BY <1>5 DEF Pends
<1>7. /\ SaysInv' /\ Sends(i)'
      /\ lock'[i].message.kind = "RsEcdsaAckNewChannel" /\ lock'[i].message.id = o.id
  BY RecvNewSays
<1>8. CASE id = o.id
  <2>1. PICK m : m = lock'[i].message
    OBVIOUS
  <2>2. SaysOK(fund_tx, m)
    BY <1>1, <1>7, <2>1 DEF SaysInv
  <2>3. AckFor(n, id, m)
    BY <1>6, <1>7, <1>8, <2>1, <2>2, AckAccepted
  <2>4. (OfferOf(n, id, m) \/ AckFor(n, id, m))'
    BY <1>1, <1>5, <2>3, ComingStays DEF Coming
  <2> QED
    BY <1>7, <2>1, <2>4 DEF AnswerComing, Sends
<1>9. CASE id # o.id
  <2>1. ~Coming(n, id, o)
    BY <1>9 DEF Coming, OfferOf, AckFor
  <2>2. \A h \in Node : h # i => lock'[h] = lock[h]
    BY LockSet DEF recv_new_channel, Acquire
  <2> QED
    BY <1>1, <1>5, <1>6, <2>1, <2>2, AnswerKept DEF Sends, Acked
<1> QED
  BY <1>8, <1>9

\* recv_new_channel_ack takes an ack, and has the channel in hand if it accepts it.
LEMMA RecvAckAnswers ==
  ASSUME IInv, SignInv, SaysInv, PendingIsAnswered, NEW i \in Node, NEW a \in net, recv_new_channel_ack(i, a),
         NEW n \in Node, NEW id \in ChannelId, Pends(n, id)'
  PROVE  AnswerComing(n, id)'
<1> DEFINE ch == Signed(db[i][a.id], "ReadyToFund", a.commit_sig)
           C == [at |-> "acked", id |-> a.id, call |-> a.call, channel |-> ch]
<1>1. /\ a.kind = "RsEcdsaAckNewChannel" /\ a.to = i /\ net' = net \ {a}
      /\ db' = db /\ fund_tx' = fund_tx /\ lock[i] = None
      /\ \/ Acceptable(i, a) /\ lock' = [lock EXCEPT ![i] = C]
         \/ ~Acceptable(i, a) /\ lock' = lock
  BY DEF recv_new_channel_ack, Acquire, Signed
<1>2. Pends(n, id)
  BY <1>1 DEF Pends
<1>3. ASSUME Coming(n, id, a) PROVE AnswerComing(n, id)'
  <2>1. n = i /\ id = a.id /\ Acceptable(i, a)
    BY <1>1, <1>3 DEF Coming, OfferOf, AckFor
  <2>2. Role(fund_tx, n, id, db[n][id]) /\ Signs(fund_tx, id, db[n][id]) /\ fund_tx[id] # None
    BY <1>2 DEF IInv, ChannelInv, SignInv, Pends, Role
  <2>3. ch \in StoredChannel
    <3>1. /\ IsChannel(ch) /\ ch.state = "ReadyToFund" /\ ch.peer_id = db[n][id].peer_id
          /\ ch.value = db[n][id].value /\ ch.i_am_initiator = db[n][id].i_am_initiator
          /\ ch.commit_sig = a.commit_sig /\ ch.close_tx = db[n][id].close_tx
      BY <2>1, <2>2, ChannelFields DEF Role
    <3> HIDE DEF ch
    <3>2. db[n][id].peer_id \in Node /\ db[n][id].value \in Value
      BY <1>2, <2>2, InitiatorIsSome DEF IInv, Pends, InitiatorState
    <3>3. db[n][id].i_am_initiator = TRUE /\ db[n][id].close_tx = None
      BY <1>2, <2>2 DEF Role, Signs, Pends, InitiatorState, AcceptorState
    <3>4. a.commit_sig \in EncryptedSignature
      BY <1>1 DEF SaysInv, SaysOK, Message
    <3> QED
      BY <3>1, <3>2, <3>3, <3>4 DEF IsChannel, StoredChannel, State
  <2>4. a.call \in Call
    BY DEF SaysInv, SaysOK, Message
  <2> HIDE DEF ch
  <2>5. C # None
    BY <2>1, <2>3, <2>4, NoneAssumption
  <2>6. C.at = "acked" /\ C.id = a.id
    OBVIOUS
  <2> HIDE DEF C
  <2>7. lock'[i] = C
    BY <1>1, <2>1, LockSet
  <2> QED
    BY <2>1, <2>5, <2>6, <2>7 DEF AnswerComing
<1> HIDE DEF C, ch
<1>4. \A h \in Node : h # i => lock'[h] = lock[h]
  BY <1>1, LockSet
<1> QED
  BY <1>1, <1>2, <1>3, <1>4, AnswerKept DEF Sends, Acked

\* A send that returns has sent the message.
LEMMA SentAnswers ==
  ASSUME Lossy = FALSE, IInv, PendingIsAnswered, NEW i \in Node, open_channel_sent(i) \/ ack_sent(i),
         NEW n \in Node, NEW id \in ChannelId, Pends(n, id)'
  PROVE  AnswerComing(n, id)'
<1>1. /\ db' = db /\ fund_tx' = fund_tx /\ lock[i].at # "acked"
      /\ net' = net \cup {lock[i].message} /\ lock' = [lock EXCEPT ![i] = None]
  BY DEF open_channel_sent, ack_sent, Send, Release
<1>2. \A h \in Node : h # i => lock'[h] = lock[h]
  BY <1>1, LockSet
<1> QED
  BY <1>1, <1>2, AnswerKept DEF Sends, Acked, Pends

\* What a call or a task stores is not Pending, and no answer is in its hands.
LEMMA StoredAnswers ==
  ASSUME IInv, CallsInv, PendingIsAnswered, NEW n \in Node, NEW id \in ChannelId, Pends(n, id)',
         \/ \E i \in Node : ack_stored(i) \/ close_stored(i)
         \/ \E w \in waiters : funding_seen(w)
  PROVE  AnswerComing(n, id)'
<1>1. ASSUME NEW i \in Node, ack_stored(i) \/ close_stored(i) PROVE AnswerComing(n, id)'
  <2>1. /\ lock[i] # None /\ lock[i].at \in {"acked", "close"}
        /\ insert_channel(i, lock[i].id, lock[i].channel) /\ lock' = [lock EXCEPT ![i] = None]
        /\ net' = net /\ fund_tx' = fund_tx
    BY <1>1 DEF ack_stored, close_stored, Release
  <2>2. lock[i].id \in ChannelId /\ lock[i].channel.state # "Pending"
    BY <2>1 DEF IInv, CallInv, CallsInv, CallOK
  <2>3. n # i \/ id # lock[i].id
    BY <2>1, <2>2, StoredOrOld DEF Pends
  <2>4. db'[n][id] = db[n][id]
    BY <2>1, <2>2, <2>3, StoredOrOld
  <2>5. \A h \in Node : h # i => lock'[h] = lock[h]
    BY <2>1, LockSet
  <2> QED
    BY <2>1, <2>3, <2>4, <2>5, AnswerKept DEF Sends, Acked, Pends
<1>2. ASSUME NEW w \in waiters, funding_seen(w) PROVE AnswerComing(n, id)'
  <2>1. w.node \in Node /\ w.id \in ChannelId /\ IsChannel(w.channel)
    BY DEF IInv, WaiterInv, ChannelInv, Role
  <2>2. db'[n][id] = db[n][id]
    <3>1. CASE db' = db
      BY <3>1
    <3>2. ASSUME NEW s \in {"Live", "Funded"}, insert_channel(w.node, w.id, InState(w.channel, s))
          PROVE  db'[n][id] = db[n][id]
      <4>1. InState(w.channel, s).state # "Pending"
        BY <2>1, ChannelFields
      <4> QED
        BY <2>1, <3>2, <4>1, StoredOrOld DEF Pends
    <3> QED
      BY <1>2, <3>1, <3>2 DEF funding_seen, InState
  <2>3. lock' = lock /\ net' = net /\ fund_tx' = fund_tx
    BY <1>2 DEF funding_seen
  <2> QED
    BY <2>2, <2>3, AnswerKept DEF Pends
<1> QED
  BY <1>1, <1>2

\* A close that is begun, a user that signs or broadcasts.
LEMMA OtherAnswers ==
  ASSUME IInv, PendingIsAnswered, NEW n \in Node, NEW id \in ChannelId, Pends(n, id)',
         \/ UNCHANGED vars
         \/ \E i \in Node, j \in ChannelId : force_close_channel(i, j)
         \/ \E j \in ChannelId : sign(j) \/ broadcast(j)
  PROVE  AnswerComing(n, id)'
<1>1. db' = db /\ net' = net /\ fund_tx' = fund_tx
  BY DEF vars, force_close_channel, sign, broadcast
<1>2. \A k \in Node : lock[k] # None => lock'[k] = lock[k]
  BY LockSet DEF vars, force_close_channel, sign, broadcast, Acquire
<1> QED
  BY <1>1, <1>2, AnswerKept DEF Sends, Acked, Pends

\* Without losses every step keeps the answers coming.
LEMMA NextAnswers ==
  ASSUME Lossy = FALSE, Mortal = {}, IInv, SignInv, CallsInv, SaysInv, PendingIsAnswered, [Next]_vars
  PROVE  PendingIsAnswered'
<1> SUFFICES ASSUME NEW n \in Node, NEW id \in ChannelId, Pends(n, id)' PROVE AnswerComing(n, id)'
  BY DEF PendingIsAnswered, StateOf, Pends
<1>1. /\ \A i \in Node : ~hang_up(i) /\ ~node_ends(i)
      /\ \A m \in net : ~Lose(m)
  BY DEF hang_up, node_ends, Lose
<1> QED
  BY <1>1, OpenAnswers, RecvNewAnswers, RecvAckAnswers, SentAnswers, StoredAnswers, OtherAnswers DEF Next

-----------------------------------------------------------------------------
(* Theorems *)

\* There are no calls, messages and tasks at first.
LEMMA InitUser == Init => CallsInv /\ ReplyInv /\ WaitInv /\ KeptInv
BY DEF Init, CallsInv, ReplyInv, WaitInv, KeptInv

\* Calls, messages and tasks are as the above says in every reachable state.
THEOREM CallsAndTasks == Spec => [](CallsInv /\ ReplyInv /\ WaitInv)
BY ChannelInvariant, InitUser, NextCalls, NextReplies, NextAwaits, PTL DEF Spec

\* A channel that waits for its funding, on either side, has a task with the very
\* channel that is stored (rs_ecdsa.rs:305-398), whatever was lost, opened again or
\* ended before.
THEOREM TasksAreThere == Spec => []WatchedUntilFunded
<1>1. Init => WatchedUntilFunded
  BY DEF Init, WatchedUntilFunded, StateOf
<1> QED
  BY <1>1, Signatures, CallsAndTasks, NextTasks, PTL DEF Spec

\* Every message says what its channel's funding transaction determines.
THEOREM MessagesAreRight == Spec => []SaysInv
<1>1. Init => SaysInv
  BY DEF Init, SaysInv, Sends
<1> QED
  BY <1>1, Signatures, NextSays, PTL DEF Spec

\* Every copy of a channel, in a database (mod.rs:10-41) or with a task, has the
\* fields of its state, and every call, message and reply is one the code makes.
THEOREM Types == Spec => []TypeOK
<1>1. IInv /\ SignInv /\ CallsInv /\ ReplyInv /\ SaysInv => TypeOK
  <2> SUFFICES ASSUME IInv, SignInv, CallsInv, ReplyInv, SaysInv PROVE TypeOK
    OBVIOUS
  <2>1. FundTxsOK(fund_tx)
    BY DEF IInv
  <2>2. ASSUME NEW n \in Node, NEW id \in ChannelId, NEW ch,
               Role(fund_tx, n, id, ch), Signs(fund_tx, id, ch)
        PROVE  ChannelOK(ch)
    <3>1. fund_tx[id] # None /\ fund_tx[id] \in FundTx
      BY <2>1, <2>2 DEF Role, FundTxsOK
    <3>2. CASE ch.state \in InitiatorState
      <4>1. ch.peer_id \in Node /\ ch.value \in Value
        BY <2>1, <2>2, <3>2, InitiatorIsSome
      <4>2. /\ ch.i_am_initiator = TRUE /\ ch.state \in State
        BY <2>2, <3>2 DEF Role, InitiatorState, AcceptorState, State
      <4>3. Closing(fund_tx, id) # None /\ Refund(fund_tx, id) # None
        BY <2>1, <3>1, ClosingIsValid
      <4> QED
        BY <2>2, <3>2, <4>1, <4>2, <4>3 DEF Signs, ChannelOK, InitiatorState
    <3>3. CASE ch.state \in AcceptorState
      BY <2>2, <3>1, <3>3 DEF Role, ChannelOK, InitiatorState, AcceptorState, State, FundTx
    <3> QED
      BY <2>2, <3>2, <3>3 DEF Role
  <2>3. \A n \in Node, id \in ChannelId : db[n][id] # None => ChannelOK(db[n][id])
    BY <2>2 DEF IInv, ChannelInv, SignInv
  <2>4. \A w \in waiters : ChannelOK(w.channel) /\ w.channel.state \in {"ReadyToFund", "WaitingForFund"}
    BY <2>2 DEF IInv, WaiterInv, ChannelInv, SignInv
  <2>5. \A id \in ChannelId : fund_tx[id] # None => fund_tx[id] \in FundTx
    BY <2>1 DEF FundTxsOK
  <2>6. signed \subseteq ChannelId
    BY DEF IInv
  <2> QED
    BY <2>3, <2>4, <2>5, <2>6 DEF TypeOK, CallsInv, CallOK, IsMessage, ReplyInv, SaysInv, SaysOK
<1> QED
  BY Signatures, CallsAndTasks, MessagesAreRight, <1>1, PTL

\* When no message is lost and no process ends, the initiator of a Pending channel has
\* its offer or an ack that it will accept coming, or is just storing the channel
\* (rs_ecdsa.rs:248-353), however often the channel was offered: nothing is stuck.
THEOREM AnswersCome == Lossy = FALSE /\ Mortal = {} /\ Spec => []PendingIsAnswered
<1>1. Init => PendingIsAnswered
  BY DEF Init, PendingIsAnswered, StateOf
<1>2. ASSUME Lossy = FALSE, Mortal = {}
      PROVE  IInv /\ SignInv /\ CallsInv /\ SaysInv /\ PendingIsAnswered /\ [Next]_vars => PendingIsAnswered'
  BY <1>2, NextAnswers
<1>3. CASE Lossy = FALSE /\ Mortal = {}
  BY <1>1, <1>2, <1>3, Signatures, CallsAndTasks, MessagesAreRight, PTL DEF Spec
<1>4. CASE ~(Lossy = FALSE /\ Mortal = {})
  BY <1>4
<1> QED
  BY <1>3, <1>4

\* A copy with the signature can be turned into a commitment that refunds the initiator.
LEMMA RefundsHold ==
  ASSUME FundTxsOK(fund_tx), NEW n \in Node, NEW id \in ChannelId, NEW ch,
         Role(fund_tx, n, id, ch), Signs(fund_tx, id, ch), ch.state \in {"ReadyToFund", "Live"}
  PROVE  ch.commit_sig # None /\ Refunds(CloseTx(n, id, ch), id)
<1>1. fund_tx[id] # None
  BY DEF Role
<1> QED
  BY <1>1, CloseIsClosing, ClosingIsValid

\* Until a funding transaction that was signed is on chain, a commitment that returns
\* the money is held (rs_ecdsa.rs:305-398), also when the same transaction is opened again.
\* The amount may be any: the signatures are held, and they return it if it covers the fee.
THEOREM RefundsAreKept == Spec => []RetryKeepsRefund
<1>1. IInv /\ SignInv /\ WaitInv => RetryKeepsRefund
  <2> SUFFICES ASSUME IInv, SignInv, WaitInv, NEW id \in signed \ chain, fund_tx[id].by \notin ended
               PROVE  RefundHeld(id)
    BY DEF RetryKeepsRefund
  <2> DEFINE n == fund_tx[id].by
  <2>1. PICK w \in waiters : w.node = n /\ w.id = id /\ w.channel.state = "ReadyToFund"
    BY DEF WaitInv, Awaited
  <2>2. /\ FundTxsOK(fund_tx) /\ n \in Node /\ id \in ChannelId
        /\ Role(fund_tx, n, id, w.channel) /\ Signs(fund_tx, id, w.channel)
    BY <2>1 DEF IInv, WaiterInv, ChannelInv, SignInv
  <2> HIDE DEF n
  <2>3. w.channel.commit_sig # None /\ Refunds(CloseTx(n, id, w.channel), id)
    BY <2>1, <2>2, RefundsHold
  <2> QED
    BY <2>1, <2>3 DEF RefundHeld, n
<1> QED
  BY Signatures, CallsAndTasks, <1>1, PTL

\* When no wallet makes a transaction twice, this holds for good: what was signed can
\* be got back until the channel is closed, if it covers the fee.
THEOREM FundsAreKept == WalletRepeats = FALSE /\ Spec => []FundsRecoverable
<1>1. IInv /\ SignInv /\ KeptInv => FundsRecoverable
  <2> SUFFICES ASSUME IInv, SignInv, KeptInv, NEW id \in signed, fund_tx[id].by \notin ended
               PROVE  RefundHeld(id)
    BY DEF FundsRecoverable
  <2> DEFINE n == fund_tx[id].by
             ch == db[n][id]
  <2>1. ch # None /\ ch.state \in {"ReadyToFund", "Live", "Closed"}
    BY DEF KeptInv
  <2>2. /\ FundTxsOK(fund_tx) /\ n \in Node /\ id \in ChannelId
    BY DEF IInv, Shared, FundTxsOK, FundTx
  <2>3. Role(fund_tx, n, id, ch) /\ Signs(fund_tx, id, ch)
    BY <2>1, <2>2 DEF IInv, ChannelInv, SignInv
  <2>4. CASE ch.state = "Closed"
    BY <2>1, <2>4 DEF RefundHeld, StateOf
  <2>5. CASE ch.state \in {"ReadyToFund", "Live"}
    <3>1. ch.commit_sig # None /\ Refunds(CloseTx(n, id, ch), id)
      BY <2>2, <2>3, <2>5, RefundsHold
    <3>2. StateOf(n, id) # "none"
      BY <2>1, <2>5 DEF StateOf
    <3> QED
      BY <3>1, <3>2 DEF RefundHeld
  <2> QED
    BY <2>1, <2>4, <2>5
<1>2. ASSUME WalletRepeats = FALSE
      PROVE  IInv /\ SignInv /\ CallsInv /\ KeptInv /\ [Next]_vars => KeptInv'
  BY <1>2, NextKeeps
<1>3. CASE WalletRepeats = FALSE
  BY <1>1, <1>2, <1>3, Signatures, CallsAndTasks, InitUser, PTL DEF Spec
<1>4. CASE WalletRepeats # FALSE
  BY <1>4
<1> QED
  BY <1>3, <1>4

\* Nor is anything offered or in hand.
LEMMA InitMoves == Init => OfferInv /\ HandInv /\ MadeInv
BY DEF Init, OfferInv, HandInv, MadeInv

\* When no wallet makes a transaction twice, there is one offer at most for every
\* channel, and calls and tasks hold the successor of what the database holds.
THEOREM OneAtATime == WalletRepeats = FALSE /\ Spec => [](MovesInv /\ MadeInv)
<1>1. ASSUME WalletRepeats = FALSE
      PROVE  /\ MovesInv /\ [Next]_vars => OfferInv' /\ HandInv'
             /\ MovesInv /\ MadeInv /\ [Next]_vars => MadeInv'
  BY <1>1, NextOffers, NextHands, NextMade DEF MovesInv
<1>2. CASE WalletRepeats = FALSE
  BY <1>1, <1>2, Signatures, CallsAndTasks, InitMoves, PTL DEF Spec, MovesInv
<1>3. CASE WalletRepeats # FALSE
  BY <1>3
<1> QED
  BY <1>2, <1>3

\* No call, task or message takes a channel back that another one has brought forward
\* (rs_ecdsa.rs:305-398, 401-485); only the end of its own process does.
THEOREM OnlyForward == WalletRepeats = FALSE /\ Spec => NeverBack
<1>1. ASSUME WalletRepeats = FALSE
      PROVE  MovesInv /\ [Next]_vars =>
               [\A n \in Node, id \in ChannelId :
                  Rank(StateOf(n, id)') < Rank(StateOf(n, id)) => n \in ended' \ ended]_vars
  BY <1>1, NextForward
<1>2. CASE WalletRepeats = FALSE
  BY <1>1, <1>2, OneAtATime, PTL DEF Spec, NeverBack
<1>3. CASE WalletRepeats # FALSE
  BY <1>3
<1> QED
  BY <1>2, <1>3

\* The two managers, their messages, locks and tasks, and processes that end, implement
\* the lifecycle that the users of a channel see.
THEOREM LifecycleImplemented == WalletRepeats = FALSE /\ Spec => ImplementsLifecycle
<1>1. Init => Views!Init
  BY DEF Init, Views!Init
<1>2. ASSUME WalletRepeats = FALSE
      PROVE  MovesInv /\ MadeInv /\ ReplyInv /\ [Next]_vars => [Views!Next]_(Views!vars)
  BY <1>2, NextViews DEF ReplyInv
<1>3. CASE WalletRepeats = FALSE
  BY <1>1, <1>2, <1>3, OneAtATime, CallsAndTasks, PTL DEF Spec, ImplementsLifecycle, Views!Spec
<1>4. CASE WalletRepeats # FALSE
  BY <1>4
<1> QED
  BY <1>3, <1>4
=============================================================================
