------------------------- MODULE FundingWatchProofs -------------------------
(***************************************************************************)
(* The safety of FundingWatch.tla for any channels, coins, peers and       *)
(* amounts.  A request carries the id of the transaction of its channel    *)
(* (Asks), so an answer to it is that very transaction, and one that is on *)
(* chain (Answers); the code that decides then finds what the wallet made  *)
(* (FundTxOK).  The acceptor finds it too: its record is the offer         *)
(* (OfferOK), whose id and amount are those of the output, and its script  *)
(* is the one that the opener derived in the other role (SameScript).  The *)
(* chain takes one transaction per coin (ChainOK).                         *)
(*                                                                         *)
(* A task that waits has one request, which is in the queue of the monitor, *)
(* with a polling task or among the answers, and a task that does not wait *)
(* has none (Place).  So no request is lost or made twice, which is what   *)
(* the type invariant counts.                                              *)
(***************************************************************************)
EXTENDS FundingWatch, FiniteSetTheorems, TLAPS

Tx == [coin : Coin, output : Seq([script : Descriptor \cup {None}, value : Int]), script_sig : {"empty", "signature"}]

MadeBy(f, ch) ==
  \E peer \in Peer, v \in Amount, coin \in Coin :
    \E output \in Outputs(funding_descriptor_for(Opener, peer, TRUE), v) :
      /\ f = [descriptor |-> funding_descriptor_for(Opener, peer, TRUE), psbt |-> Unsigned(coin, output)]
      /\ ch = [id |-> channel_id(f), peer_id |-> peer, value |-> v]

FundTxOK(c) == fund_tx[c] # None => MadeBy(fund_tx[c], channel["initiator"][c])

OfferOK(c) ==
  outcome["acceptor"][c] # "none" =>
    channel["acceptor"][c] = [id |-> channel["initiator"][c].id, peer_id |-> Opener,
                              value |-> channel["initiator"][c].value]

ChainOK ==
  /\ \A tx \in chain : tx.script_sig = "empty" => tx.coin \notin Legacy
  /\ \A tx, u \in chain : tx.coin = u.coin => tx = u

Asks(s, r) ==
  /\ s \in Side /\ r.channel \in Channel /\ outcome[s][r.channel] # "none"
  /\ fund_tx[r.channel] # None /\ r.txid = fund_tx[r.channel].psbt

Answers(r) ==
  /\ r.side \in Side /\ r.channel \in Channel /\ outcome[r.side][r.channel] # "none"
  /\ fund_tx[r.channel] # None
  /\ r.tx = fund_tx[r.channel].psbt /\ r.tx \in chain

Paid(c) == fund_tx[c] # None /\ fund_tx[c].psbt \in chain

OutcomeOK(c) ==
  /\ outcome["initiator"][c] \in {"none", "waiting", "Live"}
  /\ outcome["acceptor"][c] \in {"none", "waiting", "Funded"}
  /\ outcome["initiator"][c] # "none" => outcome["acceptor"][c] # "none"
  /\ outcome["acceptor"][c] # "none" => fund_tx[c] # None
  /\ outcome["initiator"][c] = "Live" \/ outcome["acceptor"][c] = "Funded" => Paid(c)

Shapes ==
  /\ DOMAIN fund_tx = Channel /\ DOMAIN outcome = Side
  /\ \A s \in Side : DOMAIN outcome[s] = Channel
  /\ DOMAIN channel = Side /\ \A s \in Side : DOMAIN channel[s] = Channel
  /\ requests \in [Side -> Seq([channel : Channel, txid : Tx])]

IInv ==
  /\ Shapes
  /\ \A c \in Channel : FundTxOK(c) /\ OfferOK(c)
  /\ ChainOK
  /\ \A s \in Side : \A i \in 1 .. Len(requests[s]) : Asks(s, requests[s][i])
  /\ \A t \in polling : Asks(t.side, t)
  /\ \A r \in found : Answers(r)
  /\ \A c \in Channel : OutcomeOK(c)

-----------------------------------------------------------------------------
(* What the wallet made *)

\* The two sides derive the same script, each in its role, and it is one.
LEMMA SameScript ==
  ASSUME NEW peer \in Peer
  PROVE  /\ funding_descriptor_for(Opener, peer, TRUE) \in Descriptor
         /\ funding_descriptor_for(peer, Opener, FALSE) = funding_descriptor_for(Opener, peer, TRUE)
BY DEF funding_descriptor_for, Descriptor, Node

\* The wallet's transaction has one output that pays the script, and it is the one that
\* channel_id finds.
LEMMA FundingOutput ==
  ASSUME NEW script \in Descriptor, NEW v \in Amount, NEW coin \in Coin, NEW output \in Outputs(script, v)
  PROVE  LET f == [descriptor |-> script, psbt |-> Unsigned(coin, output)]
         IN  /\ channel_id(f).vout \in DOMAIN output
             /\ output[channel_id(f).vout] = Output(script, v)
             /\ channel_id(f).txid = f.psbt
<1> DEFINE f == [descriptor |-> script, psbt |-> Unsigned(coin, output)]
           Pays(i) == /\ output[i].script = script
                      /\ \A j \in 1 .. i - 1 : output[j].script # script
<1>1. f.psbt.output = output /\ f.descriptor = script
  BY DEF Unsigned
<1>2. channel_id(f) = [txid |-> f.psbt, vout |-> CHOOSE i \in DOMAIN output : Pays(i)]
  BY <1>1 DEF channel_id, txid
<1>3. script # None
  BY FundingAssumption
<1>4. \E i \in DOMAIN output : Pays(i)
  <2>1. CASE output = <<Output(script, v)>>
    <3>1. 1 \in DOMAIN output /\ Pays(1)
      BY <2>1 DEF Output
    <3> QED
      BY <3>1
  <2>2. CASE output = <<Output(script, v), Output(None, 1)>>
    <3>1. 1 \in DOMAIN output /\ Pays(1)
      BY <2>2 DEF Output
    <3> QED
      BY <3>1
  <2>3. CASE output = <<Output(None, 1), Output(script, v)>>
    <3>1. 2 \in DOMAIN output /\ Pays(2)
      BY <1>3, <2>3 DEF Output
    <3> QED
      BY <3>1
  <2> QED
    BY <2>1, <2>2, <2>3 DEF Outputs
<1>5. \A i \in DOMAIN output : output[i].script = script => output[i] = Output(script, v)
  BY <1>3 DEF Outputs, Output
<1>6. PICK k \in DOMAIN output : k = channel_id(f).vout /\ Pays(k)
  BY <1>2, <1>4
<1> QED
  BY <1>2, <1>5, <1>6

\* What a channel was made with.
LEMMA Made ==
  ASSUME NEW c \in Channel, fund_tx[c] # None, FundTxOK(c)
  PROVE  \E peer \in Peer, v \in Amount, coin \in Coin, script \in Descriptor :
           /\ script = funding_descriptor_for(Opener, peer, TRUE)
           /\ \E output \in Outputs(script, v) :
                fund_tx[c] = [descriptor |-> script, psbt |-> Unsigned(coin, output)]
           /\ channel["initiator"][c] = [id |-> channel_id(fund_tx[c]), peer_id |-> peer, value |-> v]
BY SameScript DEF FundTxOK, MadeBy

\* So both sides recognise it.
LEMMA Recognised ==
  ASSUME NEW c \in Channel, fund_tx[c] # None, FundTxOK(c), NEW r,
         r.channel = c, r.tx = fund_tx[c].psbt
  PROVE  /\ initiator_decides(r) = "Live"
         /\ OfferOK(c) /\ outcome["acceptor"][c] # "none" => acceptor_decides(r) = "Funded"
<1>1. PICK peer \in Peer, v \in Amount, coin \in Coin, script \in Descriptor :
        /\ script = funding_descriptor_for(Opener, peer, TRUE)
        /\ \E output \in Outputs(script, v) :
             fund_tx[c] = [descriptor |-> script, psbt |-> Unsigned(coin, output)]
        /\ channel["initiator"][c] = [id |-> channel_id(fund_tx[c]), peer_id |-> peer, value |-> v]
  BY Made
<1>2. PICK output \in Outputs(script, v) :
         fund_tx[c] = [descriptor |-> script, psbt |-> Unsigned(coin, output)]
  BY <1>1
<1> DEFINE f == fund_tx[c]
<1>3. /\ f.descriptor = script /\ f.psbt.output = output
  BY <1>2 DEF Unsigned
<1>4. /\ channel_id(f).vout \in DOMAIN output
      /\ output[channel_id(f).vout] = Output(script, v)
      /\ channel_id(f).txid = f.psbt
  BY <1>2, FundingOutput
<1>5. output_value(f) = v
  BY <1>3, <1>4 DEF output_value, Output
<1>6. matches(f, r.tx)
  BY <1>3, <1>4, <1>5 DEF matches, txid
<1>7. ASSUME OfferOK(c), outcome["acceptor"][c] # "none" PROVE acceptor_decides(r) = "Funded"
  <2> DEFINE ch == channel["acceptor"][c]
  <2>1. ch.id = channel_id(f) /\ ch.peer_id = Opener /\ ch.value = v /\ Acceptor(c) = peer
    BY <1>1, <1>7 DEF OfferOK, Acceptor
  <2>2. funding_descriptor_for(Acceptor(c), ch.peer_id, FALSE) = script
    BY <1>1, <2>1, SameScript
  <2>3. r.tx.output = output
    BY <1>3
  <2> HIDE DEF ch, f
  <2> QED
    BY <1>4, <2>1, <2>2, <2>3 DEF acceptor_decides, ch
<1> QED
  BY <1>6, <1>7 DEF initiator_decides

\* An unsigned transaction of an ordinary coin is what its signature makes of it.
LEMMA SignedInChain ==
  ASSUME NEW c \in Channel, FundTxOK(c), ChainOK, Paid(c)
  PROVE  Signed(fund_tx[c].psbt) = fund_tx[c].psbt
<1>1. PICK v \in Amount, coin \in Coin, script \in Descriptor : \E output \in Outputs(script, v) :
         fund_tx[c] = [descriptor |-> script, psbt |-> Unsigned(coin, output)]
  BY Made DEF Paid
<1>2. PICK output \in Outputs(script, v) :
         fund_tx[c] = [descriptor |-> script, psbt |-> Unsigned(coin, output)]
  BY <1>1
<1>3. fund_tx[c].psbt = [coin |-> coin, output |-> output, script_sig |-> "empty"]
  BY <1>2 DEF Unsigned
<1>4. coin \notin Legacy
  BY <1>3 DEF ChainOK, Paid
<1> QED
  BY <1>3, <1>4 DEF Signed

\* The transaction of a channel, as a request carries it.
LEMMA PsbtInTx ==
  ASSUME NEW c \in Channel, FundTxOK(c), fund_tx[c] # None
  PROVE  fund_tx[c].psbt \in Tx
<1>1. PICK v \in Amount, coin \in Coin, script \in Descriptor : \E output \in Outputs(script, v) :
         fund_tx[c] = [descriptor |-> script, psbt |-> Unsigned(coin, output)]
  BY Made
<1>2. PICK output \in Outputs(script, v) :
         fund_tx[c] = [descriptor |-> script, psbt |-> Unsigned(coin, output)]
  BY <1>1
<1>3. output \in Seq([script : Descriptor \cup {None}, value : Int])
  <2>1. v \in Int
    BY FundingAssumption
  <2>2. /\ Output(script, v) \in [script : Descriptor \cup {None}, value : Int]
        /\ Output(None, 1) \in [script : Descriptor \cup {None}, value : Int]
    BY <2>1 DEF Output
  <2> DEFINE O == [script : Descriptor \cup {None}, value : Int]
  <2> HIDE DEF O
  <2>3. \A a, b \in O : <<a>> \in Seq(O) /\ <<a, b>> \in Seq(O)
    OBVIOUS
  <2> QED
    BY <2>2, <2>3 DEF Outputs, O
<1> QED
  BY <1>2, <1>3 DEF Unsigned, Tx

-----------------------------------------------------------------------------
(* The steps *)

\* What is known of a channel stays true while its transaction and the chain only grow.
Grows ==
  /\ \A c \in Channel : fund_tx[c] # None => fund_tx'[c] = fund_tx[c]
  /\ chain \subseteq chain'
  /\ \A s \in Side, c \in Channel : outcome[s][c] # "none" => outcome'[s][c] # "none"

\* Transactions, answers and conclusions that were right stay so.
LEMMA Kept ==
  ASSUME Grows
  PROVE  /\ \A s, r : Asks(s, r) => Asks(s, r)'
         /\ \A r : Answers(r) => Answers(r)'
         /\ \A c \in Channel : Paid(c) => Paid(c)'
         /\ \A c \in Channel : OutcomeOK(c) /\ outcome' = outcome => OutcomeOK(c)'
BY DEF Grows, Asks, Answers, Paid, OutcomeOK

\* So do the records of the channels, while no side touches them.
LEMMA ChannelsKept ==
  ASSUME IInv, fund_tx' = fund_tx, channel' = channel,
         \A c \in Channel : outcome'["acceptor"][c] # "none" => outcome["acceptor"][c] # "none"
  PROVE  \A c \in Channel : FundTxOK(c)' /\ OfferOK(c)'
<1> TAKE c \in Channel
<1>1. FundTxOK(c)'
  BY DEF IInv, FundTxOK
<1>2. OfferOK(c)'
  BY DEF IInv, OfferOK
<1> QED
  BY <1>1, <1>2

\* A transaction is made once for a channel, before anything asks for it.
LEMMA CreateIInv ==
  ASSUME IInv, NEW c \in Channel, NEW peer \in Peer, NEW v \in Amount,
         create_fund_transaction(c, peer, v)
  PROVE  IInv'
<1> DEFINE script == funding_descriptor_for(Opener, peer, TRUE)
<1>1. PICK coin \in Coin, output \in Outputs(script, v) :
         LET f == [descriptor |-> script, psbt |-> Unsigned(coin, output)]
         IN  /\ fund_tx' = [fund_tx EXCEPT ![c] = f]
             /\ channel' = [channel EXCEPT !["initiator"][c] =
                              [id |-> channel_id(f), peer_id |-> peer, value |-> v]]
  BY DEF create_fund_transaction
<1>2. /\ fund_tx[c] = None /\ chain' = chain /\ requests' = requests /\ polling' = polling
      /\ found' = found /\ outcome' = outcome
  BY DEF create_fund_transaction
<1> DEFINE f == [descriptor |-> script, psbt |-> Unsigned(coin, output)]
           ch == [id |-> channel_id(f), peer_id |-> peer, value |-> v]
<1>3. fund_tx' = [fund_tx EXCEPT ![c] = f] /\ channel' = [channel EXCEPT !["initiator"][c] = ch]
  BY <1>1
<1>4. outcome["acceptor"][c] = "none"
  BY <1>2 DEF IInv, OutcomeOK
<1>5. FundTxOK(c)'
  <2>1. fund_tx'[c] = f /\ channel'["initiator"][c] = ch
    BY <1>3 DEF IInv, Shapes, Side
  <2>2. f = [descriptor |-> script, psbt |-> Unsigned(coin, output)]
    OBVIOUS
  <2>3. channel'["initiator"][c] = [id |-> channel_id(fund_tx'[c]), peer_id |-> peer, value |-> v]
    BY <2>1
  <2>4. fund_tx'[c] = [descriptor |-> script, psbt |-> Unsigned(coin, output)]
    BY <2>1
  <2> HIDE DEF f, ch
  <2> QED
    BY <2>3, <2>4 DEF FundTxOK, MadeBy
<1> HIDE DEF f, ch
<1>6. ASSUME NEW d \in Channel, d # c
      PROVE  /\ fund_tx'[d] = fund_tx[d]
             /\ \A s \in Side : channel'[s][d] = channel[s][d]
  BY <1>3, <1>6 DEF IInv, Shapes, Side
<1>7. \A d \in Channel : FundTxOK(d)' /\ OfferOK(d)'
  <2> TAKE d \in Channel
  <2>1. CASE d = c
    BY <1>2, <1>4, <1>5, <2>1 DEF OfferOK
  <2>2. CASE d # c
    BY <1>2, <1>6, <2>2 DEF IInv, FundTxOK, OfferOK, Side
  <2> QED
    BY <2>1, <2>2
<1>8. Grows
  BY <1>2, <1>3 DEF Grows, IInv, Shapes
<1>9. Shapes' /\ ChainOK'
  <2>1. DOMAIN fund_tx' = Channel /\ DOMAIN channel' = Side /\ \A s \in Side : DOMAIN channel'[s] = Channel
    BY <1>3 DEF IInv, Shapes, Side
  <2> QED
    BY <1>2, <2>1 DEF IInv, Shapes, ChainOK, Tx
<1> QED
  BY <1>2, <1>7, <1>8, <1>9, Kept DEF IInv

\* A task asks for the transaction that its channel was made with.
LEMMA WaitIInv ==
  ASSUME IInv, NEW s \in Side, NEW c \in Channel, wait_for_funding(s, c, fund_tx[c].psbt),
         fund_tx[c] # None, s = "initiator" => outcome["acceptor"][c] # "none",
         DOMAIN channel' = Side, \A t \in Side : DOMAIN channel'[t] = Channel,
         \A d \in Channel : FundTxOK(d)' /\ OfferOK(d)'
  PROVE  IInv'
<1> DEFINE request == [channel |-> c, txid |-> fund_tx[c].psbt]
<1>1. /\ outcome[s][c] = "none"
      /\ outcome' = [outcome EXCEPT ![s][c] = "waiting"]
      /\ requests' = [requests EXCEPT ![s] = Append(@, request)]
      /\ fund_tx' = fund_tx /\ chain' = chain /\ polling' = polling /\ found' = found
  BY DEF wait_for_funding
<1>2. request.txid = fund_tx[c].psbt /\ request.txid \in Tx
  BY <1>1, PsbtInTx DEF IInv
<1>3. /\ request \in [channel : Channel, txid : Tx]
      /\ outcome'[s][request.channel] # "none"
      /\ fund_tx'[request.channel] # None /\ request.txid = fund_tx'[request.channel].psbt
  BY <1>1, <1>2 DEF IInv, Shapes
<1> HIDE DEF request
<1>4. Shapes'
  <2>1. requests' \in [Side -> Seq([channel : Channel, txid : Tx])]
    <3> DEFINE R == [channel : Channel, txid : Tx]
    <3> HIDE DEF R
    <3>1. requests \in [Side -> Seq(R)] /\ request \in R
      BY <1>3 DEF IInv, Shapes, R
    <3>2. Append(requests[s], request) \in Seq(R)
      BY <3>1
    <3>3. requests' = [requests EXCEPT ![s] = Append(requests[s], request)]
      BY <1>1
    <3>4. requests' \in [Side -> Seq(R)]
      BY <3>1, <3>2, <3>3
    <3> QED
      BY <3>4 DEF R
  <2>2. DOMAIN outcome' = Side /\ \A t \in Side : DOMAIN outcome'[t] = Channel
    BY <1>1 DEF IInv, Shapes
  <2> QED
    BY <1>1, <2>1, <2>2 DEF IInv, Shapes, Tx
<1>5. ASSUME NEW t \in Side, NEW i \in 1 .. Len(requests'[t]) PROVE Asks(t, requests[t][i])'
  <2>0. Grows
    BY <1>1 DEF Grows, IInv, Shapes
  <2>1. requests[t] \in Seq([channel : Channel, txid : Tx])
    BY DEF IInv, Shapes
  <2>2. CASE t # s
    <3>1. requests'[t] = requests[t]
      BY <1>1, <2>2 DEF IInv, Shapes
    <3> QED
      BY <2>0, <3>1, Kept DEF IInv
  <2>3. CASE t = s
    <3>1. requests'[t] = Append(requests[t], request)
      BY <1>1, <2>3 DEF IInv, Shapes
    <3>2. \/ i \in 1 .. Len(requests[t]) /\ requests'[t][i] = requests[t][i]
          \/ requests'[t][i] = request
      BY <2>1, <3>1
    <3> QED
      <4>1. CASE i \in 1 .. Len(requests[t]) /\ requests'[t][i] = requests[t][i]
        BY <2>0, <4>1, Kept DEF IInv
      <4>2. CASE requests'[t][i] = request
        BY <1>3, <2>3, <4>2 DEF Asks
      <4> QED
        BY <3>2, <4>1, <4>2
  <2> QED
    BY <2>2, <2>3
<1>6. ASSUME NEW d \in Channel PROVE OutcomeOK(d)'
  BY <1>1 DEF IInv, Shapes, OutcomeOK, Paid, Side
<1>7. /\ ChainOK'
      /\ \A t \in polling' : Asks(t.side, t)'
      /\ \A r \in found' : Answers(r)'
  <2>1. Grows
    BY <1>1 DEF Grows, IInv, Shapes
  <2> QED
    BY <1>1, <2>1, Kept DEF IInv, ChainOK
<1> QED
  BY <1>4, <1>5, <1>6, <1>7 DEF IInv

\* The id in the record of the opener is that of its transaction, ...
LEMMA IdIsPsbt ==
  ASSUME NEW c \in Channel, fund_tx[c] # None, FundTxOK(c)
  PROVE  channel["initiator"][c].id.txid = fund_tx[c].psbt
<1>1. PICK peer, v : channel["initiator"][c] = [id |-> channel_id(fund_tx[c]), peer_id |-> peer, value |-> v]
  BY Made
<1> QED
  BY <1>1 DEF channel_id, txid

\* ... so that is what the acceptor asks for when it has the offer, ...
LEMMA OfferIInv == ASSUME IInv, NEW c \in Channel, recv_new_channel(c) PROVE IInv'
<1> DEFINE ch == [id |-> channel["initiator"][c].id, peer_id |-> Opener,
                  value |-> channel["initiator"][c].value]
<1>1. /\ fund_tx[c] # None /\ channel' = [channel EXCEPT !["acceptor"][c] = ch]
      /\ wait_for_funding("acceptor", c, fund_tx[c].psbt)
  BY IdIsPsbt DEF recv_new_channel, IInv
<1>2. fund_tx' = fund_tx /\ outcome' = [outcome EXCEPT !["acceptor"][c] = "waiting"]
  BY <1>1 DEF wait_for_funding
<1>3. /\ \A d \in Channel : channel'["initiator"][d] = channel["initiator"][d]
      /\ channel'["acceptor"][c] = ch
      /\ \A d \in Channel \ {c} : /\ channel'["acceptor"][d] = channel["acceptor"][d]
                                  /\ outcome'["acceptor"][d] = outcome["acceptor"][d]
      /\ DOMAIN channel' = Side /\ \A t \in Side : DOMAIN channel'[t] = Channel
  <2> HIDE DEF ch
  <2> QED
    BY <1>1, <1>2 DEF IInv, Shapes, Side
<1>4. \A d \in Channel : FundTxOK(d)'
  BY <1>2, <1>3 DEF IInv, FundTxOK
<1>5. \A d \in Channel : OfferOK(d)'
  BY <1>3 DEF IInv, OfferOK
<1> HIDE DEF ch
<1> QED
  BY <1>1, <1>3, <1>4, <1>5, WaitIInv DEF Side

\* ... and the opener when it has the ack.
LEMMA AckIInv == ASSUME IInv, NEW c \in Channel, recv_new_channel_ack(c) PROVE IInv'
<1>1. outcome["acceptor"][c] # "none" /\ channel' = channel
  BY DEF recv_new_channel_ack
<1>2. fund_tx[c] # None
  BY <1>1 DEF IInv, OutcomeOK
<1>3. wait_for_funding("initiator", c, fund_tx[c].psbt)
  BY <1>2, IdIsPsbt DEF recv_new_channel_ack, IInv
<1>4. fund_tx' = fund_tx /\ outcome' = [outcome EXCEPT !["initiator"][c] = "waiting"]
  BY <1>3 DEF wait_for_funding
<1>5. \A d \in Channel : outcome'["acceptor"][d] = outcome["acceptor"][d]
  BY <1>4 DEF IInv, Shapes, Side
<1>6. \A d \in Channel : FundTxOK(d)' /\ OfferOK(d)'
  BY <1>1, <1>4, <1>5, ChannelsKept DEF IInv
<1>7. DOMAIN channel' = Side /\ \A t \in Side : DOMAIN channel'[t] = Channel
  BY <1>1 DEF IInv, Shapes
<1> QED
  BY <1>1, <1>2, <1>3, <1>6, <1>7, WaitIInv DEF Side

\* The chain takes a signed transaction of a coin that is not spent.
LEMMA PayIInv ==
  ASSUME IInv, NEW tx, Unspent(tx.coin), tx.script_sig = "empty" => tx.coin \notin Legacy,
         chain' = chain \cup {tx}, UNCHANGED <<fund_tx, channel, requests, polling, found, outcome>>
  PROVE  IInv'
<1>a. Grows /\ Shapes'
  BY DEF Grows, IInv, Shapes
<1>b. \A c \in Channel : FundTxOK(c)' /\ OfferOK(c)'
  BY ChannelsKept DEF IInv
<1>1. Grows /\ Shapes' /\ \A c \in Channel : FundTxOK(c)' /\ OfferOK(c)'
  BY <1>a, <1>b
<1>2. ChainOK'
  BY DEF IInv, ChainOK, Unspent
<1> QED
  BY <1>1, <1>2, Kept DEF IInv

\* A coin that is not spent yet may be spent.
LEMMA BroadcastIInv == ASSUME IInv, NEW c \in Channel, broadcast(c) PROVE IInv'
<1> DEFINE tx == Signed(fund_tx[c].psbt)
<1>1. fund_tx[c] # None
  <2>1. outcome["initiator"][c] # "none"
    BY DEF broadcast
  <2> QED
    BY <2>1 DEF IInv, OutcomeOK
<1>2. fund_tx[c].psbt \in Tx
  BY <1>1, PsbtInTx DEF IInv
<1>3. tx.coin = fund_tx[c].psbt.coin /\ (tx.script_sig = "empty" => tx.coin \notin Legacy)
  BY <1>2 DEF Signed, Tx
<1> HIDE DEF tx
<1> QED
  BY <1>3, PayIInv DEF broadcast, tx

\* The owner's other transactions are those of coins that are not spent yet.
LEMMA SpendIInv == ASSUME IInv, NEW coin \in Coin, spend(coin) PROVE IInv'
<1> DEFINE tx == Signed(Unsigned(coin, <<Output(None, 1)>>))
<1>1. tx.coin = coin /\ (tx.script_sig = "empty" => tx.coin \notin Legacy)
  BY DEF Signed, Unsigned
<1> HIDE DEF tx
<1> QED
  BY <1>1, PayIInv DEF spend, tx

\* The monitor hands a request to a polling task as it is.
LEMMA StartIInv == ASSUME IInv, NEW s \in Side, start(s) PROVE IInv'
<1> DEFINE R == [channel : Channel, txid : Tx]
           t == [side |-> s, channel |-> Head(requests[s]).channel, txid |-> Head(requests[s]).txid]
<1>1. /\ requests[s] # <<>>
      /\ requests' = [requests EXCEPT ![s] = Tail(requests[s])]
      /\ polling' = polling \cup {t}
      /\ UNCHANGED <<fund_tx, channel, chain, source, found, outcome>>
  BY DEF start
<1>2. Asks(s, t)
  <2>1. Len(requests[s]) \in Nat /\ Len(requests[s]) > 0 /\ Head(requests[s]) = requests[s][1]
    BY <1>1 DEF IInv, Shapes
  <2> QED
    BY <2>1 DEF IInv, Asks
<1> HIDE DEF t, R
<1>3. requests \in [Side -> Seq(R)]
  BY DEF IInv, Shapes, R
<1>4. /\ Tail(requests[s]) \in Seq(R)
      /\ \A i \in 1 .. Len(Tail(requests[s])) :
           i + 1 \in 1 .. Len(requests[s]) /\ Tail(requests[s])[i] = requests[s][i + 1]
  BY <1>1, <1>3
<1>5. requests' \in [Side -> Seq(R)]
  BY <1>1, <1>3, <1>4
<1>6. Grows /\ Shapes'
  BY <1>1, <1>5 DEF Grows, IInv, Shapes, R, Tx
<1>7. ASSUME NEW u \in Side, NEW i \in 1 .. Len(requests'[u]) PROVE Asks(u, requests[u][i])'
  <2>1. CASE u = s
    BY <1>1, <1>3, <1>4, <1>6, <2>1, Kept DEF IInv
  <2>2. CASE u # s
    <3>1. requests'[u] = requests[u]
      BY <1>1, <1>3, <2>2
    <3> QED
      BY <1>6, <3>1, Kept DEF IInv
  <2> QED
    BY <2>1, <2>2
<1>8. ASSUME NEW u \in polling' PROVE Asks(u.side, u)'
  <2>1. t.side = s
    BY DEF t
  <2> QED
    BY <1>1, <1>2, <1>6, <2>1, Kept DEF IInv
<1>9. (\A d \in Channel : FundTxOK(d)' /\ OfferOK(d)') /\ ChainOK'
  BY <1>1, ChannelsKept DEF IInv, ChainOK
<1> QED
  BY <1>1, <1>6, <1>7, <1>8, <1>9, Kept DEF IInv

\* What the block source returns for an id is the transaction with this id, on chain.
LEMMA GetIInv == ASSUME IInv, NEW t \in polling, get_tx(t) PROVE IInv'
<1>1. PICK tx \in chain : /\ txid(tx) = t.txid
                          /\ found' = found \cup {[side |-> t.side, channel |-> t.channel, tx |-> tx]}
  BY DEF get_tx
<1>2. /\ polling' = polling \ {t}
      /\ UNCHANGED <<fund_tx, channel, chain, source, requests, outcome>>
  BY DEF get_tx
<1>3. Answers([side |-> t.side, channel |-> t.channel, tx |-> tx])
  BY <1>1 DEF IInv, Asks, Answers, txid
<1>4. Grows /\ Shapes' /\ (\A d \in Channel : FundTxOK(d)' /\ OfferOK(d)') /\ ChainOK'
  <2>1. Grows /\ Shapes'
    BY <1>2 DEF Grows, IInv, Shapes, Tx
  <2> QED
    BY <1>2, <2>1, ChannelsKept DEF IInv, ChainOK
<1>5. \A r \in found' : Answers(r)'
  BY <1>1, <1>3, <1>4, Kept DEF IInv
<1> QED
  BY <1>2, <1>4, <1>5, Kept DEF IInv

\* Given the transaction of the channel, each task finds the output that it looks for.
LEMMA DecideIInv == ASSUME IInv, NEW r \in found, tx_on_chain(r) PROVE IInv'
<1>1. /\ r.side \in Side /\ r.channel \in Channel /\ outcome[r.side][r.channel] # "none"
      /\ fund_tx[r.channel] # None
      /\ r.tx = fund_tx[r.channel].psbt /\ r.tx \in chain
  BY DEF IInv, Answers
<1>2. outcome' = [outcome EXCEPT ![r.side][r.channel] =
        IF r.side = "initiator" THEN "Live" ELSE "Funded"]
  <2>0. outcome["acceptor"][r.channel] # "none"
    BY <1>1 DEF IInv, OutcomeOK, Side
  <2>1. initiator_decides(r) = "Live" /\ acceptor_decides(r) = "Funded"
    BY <1>1, <2>0, Recognised DEF IInv
  <2> QED
    BY <2>1 DEF tx_on_chain
<1>3. found' = found \ {r} /\ UNCHANGED <<fund_tx, channel, chain, source, requests, polling>>
  BY DEF tx_on_chain
<1>4. Grows /\ (\A d \in Channel : FundTxOK(d)' /\ OfferOK(d)') /\ ChainOK'
  <2>1. Grows
    BY <1>1, <1>2, <1>3 DEF Grows, IInv, Shapes
  <2>2. \A d \in Channel : outcome'["acceptor"][d] = "none" <=> outcome["acceptor"][d] = "none"
    BY <1>1, <1>2 DEF IInv, Shapes, Side
  <2> QED
    BY <1>3, <2>1, <2>2, ChannelsKept DEF IInv, ChainOK
<1>5. Shapes'
  BY <1>1, <1>2, <1>3 DEF IInv, Shapes, Tx
<1>6. ASSUME NEW d \in Channel PROVE OutcomeOK(d)'
  <2>1. CASE d # r.channel
    <3>1. \A s \in Side : outcome'[s][d] = outcome[s][d]
      BY <1>2, <2>1 DEF IInv, Shapes
    <3> QED
      BY <1>3, <3>1 DEF IInv, OutcomeOK, Paid, Side
  <2>2. CASE d = r.channel /\ r.side = "initiator"
    <3>1. outcome'["initiator"][d] = "Live" /\ outcome'["acceptor"][d] = outcome["acceptor"][d]
      BY <1>2, <2>2 DEF IInv, Shapes, Side
    <3>2. outcome["acceptor"][d] # "none"
      BY <1>1, <2>2 DEF IInv, OutcomeOK
    <3> QED
      BY <1>1, <1>3, <2>2, <3>1, <3>2 DEF IInv, OutcomeOK, Paid
  <2>3. CASE d = r.channel /\ r.side = "acceptor"
    <3>1. outcome'["acceptor"][d] = "Funded" /\ outcome'["initiator"][d] = outcome["initiator"][d]
      BY <1>2, <2>3 DEF IInv, Shapes, Side
    <3> QED
      BY <1>1, <1>3, <2>3, <3>1 DEF IInv, OutcomeOK, Paid
  <2> QED
    BY <1>1, <2>1, <2>2, <2>3 DEF Side
<1> QED
  BY <1>3, <1>4, <1>5, <1>6, Kept DEF IInv

\* The invariant holds throughout.
THEOREM Invariant == Spec => []IInv
<1>1. Init => IInv
  <2>1. ASSUME Init PROVE Shapes
    BY <2>1 DEF Init, Shapes
  <2> QED
    BY <2>1 DEF Init, IInv, FundTxOK, OfferOK, ChainOK, OutcomeOK, Side
<1>2. IInv /\ [Next]_vars => IInv'
  <2> SUFFICES ASSUME IInv, [Next]_vars PROVE IInv'
    OBVIOUS
  <2>1. CASE UNCHANGED <<fund_tx, channel, chain, requests, polling, found, outcome>>
    <3>1. Grows /\ Shapes'
      BY <2>1 DEF Grows, IInv, Shapes, Tx
    <3> QED
      BY <2>1, <3>1, Kept, ChannelsKept DEF IInv, ChainOK
  <2>2. CASE source_fails \/ source_recovers \/ UNCHANGED vars
    BY <2>1, <2>2 DEF source_fails, source_recovers, vars
  <2> QED
    BY <2>2, CreateIInv, OfferIInv, AckIInv, BroadcastIInv, SpendIInv, StartIInv, GetIInv, DecideIInv DEF Next
<1> QED
  BY <1>1, <1>2, PTL DEF Spec

-----------------------------------------------------------------------------
(* The properties *)

\* The unreachable! of the initiator's task (rs_ecdsa.rs:374) is unreachable, whatever
\* coins, peers and values the wallet uses and wherever it puts the output.
THEOREM TransactionsMatch == Spec => []NeverUnreachable
<1>1. IInv => NeverUnreachable
  BY DEF IInv, OutcomeOK, NeverUnreachable
<1> QED
  BY <1>1, Invariant, PTL

\* The two sides of a channel agree on its transaction, each with its own monitor, its
\* own script and its own record of the channel (rs_ecdsa.rs:355-398): the acceptor,
\* which took the position and the amount from the offer, never finds anything else.
THEOREM SidesDoAgree == Spec => []SidesAgree
<1>1. IInv => SidesAgree
  BY DEF IInv, OutcomeOK, SidesAgree
<1> QED
  BY <1>1, Invariant, PTL

\* A channel that goes live on either side has money of its own on chain.
THEOREM MoneyIsOnChain == Spec => []MoneyIsThere
<1>1. IInv => MoneyIsThere
  <2> SUFFICES ASSUME IInv, NEW c \in Channel, Paid(c)
               PROVE  /\ Signed(fund_tx[c].psbt) \in chain
                      /\ \A tx \in chain : tx.coin = fund_tx[c].psbt.coin => tx = Signed(fund_tx[c].psbt)
    BY DEF MoneyIsThere, IInv, OutcomeOK
  <2>1. Signed(fund_tx[c].psbt) = fund_tx[c].psbt
    BY SignedInChain DEF IInv
  <2> QED
    BY <2>1 DEF IInv, ChainOK, Paid
<1> QED
  BY <1>1, Invariant, PTL
-----------------------------------------------------------------------------
(* Nothing is lost or asked twice *)

Behind(q, c) == {i \in DOMAIN q : q[i].channel = c}
Polled(s, c) == {t \in polling : t.side = s /\ t.channel = c}
Answered(s, c) == {r \in found : r.side = s /\ r.channel = c}

Single(S) == \E x \in S : S = {x}

\* The one request of a task that waits is in one place; a task that does not has none.
OnePlace(waits, queued, polled, answered) ==
  IF waits
  THEN \/ Single(queued) /\ polled = {} /\ answered = {}
       \/ queued = {} /\ Single(polled) /\ answered = {}
       \/ queued = {} /\ polled = {} /\ Single(answered)
  ELSE queued = {} /\ polled = {} /\ answered = {}

Place(s, c) == OnePlace(outcome[s][c] = "waiting", Behind(requests[s], c), Polled(s, c), Answered(s, c))

SourceOK == source \in [up : BOOLEAN, failures : 0 .. MaxFailure]

PlaceInv == SourceOK /\ \A s \in Side, c \in Channel : Place(s, c)

\* The two sizes that TypeOK counts.
LEMMA SingleSize == /\ \A S : Single(S) => Cardinality(S) = 1
                    /\ Cardinality({}) = 0
BY FS_EmptySet, FS_Singleton, Zenon DEF Single

\* A request that is appended is behind the others, which stay where they are.
LEMMA BehindAppend ==
  ASSUME NEW R, NEW q \in Seq(R), NEW r \in R, NEW c
  PROVE  /\ r.channel # c => Behind(Append(q, r), c) = Behind(q, c)
         /\ r.channel = c /\ Behind(q, c) = {} => Single(Behind(Append(q, r), c))
<1> DEFINE p == Append(q, r)
<1>1. DOMAIN q = 1 .. Len(q) /\ DOMAIN p = 1 .. Len(q) + 1 /\ Len(q) \in Nat
  OBVIOUS
<1>2. (\A i \in DOMAIN q : p[i] = q[i]) /\ p[Len(q) + 1] = r
  OBVIOUS
<1> HIDE DEF p
<1>3. DOMAIN p = DOMAIN q \cup {Len(q) + 1} /\ Len(q) + 1 \notin DOMAIN q
  BY <1>1
<1>4. ASSUME r.channel # c PROVE Behind(p, c) = Behind(q, c)
  BY <1>2, <1>3, <1>4 DEF Behind
<1>5. ASSUME r.channel = c, Behind(q, c) = {} PROVE Behind(p, c) = {Len(q) + 1}
  BY <1>2, <1>3, <1>5 DEF Behind
<1> QED
  BY <1>4, <1>5, Zenon DEF Single, p

\* When the first request is taken, a channel that had one request has none if it was
\* that one, and has one still if it was another.
LEMMA BehindTail ==
  ASSUME NEW R, NEW q \in Seq(R), q # <<>>, NEW c
  PROVE  /\ Behind(q, c) = {} => Behind(Tail(q), c) = {}
         /\ Head(q).channel = c => Behind(q, c) # {}
         /\ Head(q).channel = c /\ Single(Behind(q, c)) => Behind(Tail(q), c) = {}
         /\ Head(q).channel # c /\ Single(Behind(q, c)) => Single(Behind(Tail(q), c))
<1> DEFINE p == Tail(q)
<1>1. /\ Len(q) \in Nat /\ Len(q) > 0 /\ DOMAIN q = 1 .. Len(q) /\ DOMAIN p = 1 .. Len(q) - 1
      /\ Head(q) = q[1] /\ \A i \in DOMAIN p : p[i] = q[i + 1]
  OBVIOUS
<1> HIDE DEF p
<1>2. \A i \in DOMAIN p : i \in Nat /\ i + 1 # 1 /\ i + 1 \in DOMAIN q
  BY <1>1
<1>3. \A i \in DOMAIN q : i \in Int /\ (i # 1 => i - 1 \in DOMAIN p /\ p[i - 1] = q[i])
  BY <1>1
<1>4. Behind(q, c) = {} => Behind(p, c) = {}
  BY <1>1, <1>2 DEF Behind
<1>5. Head(q).channel = c => 1 \in Behind(q, c)
  BY <1>1 DEF Behind
<1>6. \A i : i \in Behind(p, c) => i \in Nat /\ i + 1 # 1 /\ i + 1 \in Behind(q, c)
  BY <1>1, <1>2 DEF Behind
<1>7. ASSUME Head(q).channel = c, Single(Behind(q, c)) PROVE Behind(p, c) = {}
  <2>1. \A i \in Behind(q, c) : i = 1
    BY <1>5, <1>7, Zenon DEF Single
  <2> QED
    BY <1>6, <2>1
<1>8. ASSUME Head(q).channel # c, Single(Behind(q, c)) PROVE Single(Behind(p, c))
  <2>1. PICK k \in Behind(q, c) : Behind(q, c) = {k}
    BY <1>8 DEF Single
  <2>2. k \in DOMAIN q /\ q[k].channel = c
    BY <2>1 DEF Behind
  <2>3. k # 1
    BY <1>1, <1>8, <2>2
  <2>4. k \in Int /\ k - 1 \in Behind(p, c)
    BY <1>3, <2>2, <2>3 DEF Behind
  <2>5. \A i \in Behind(p, c) : i = k - 1
    <3> TAKE i \in Behind(p, c)
    <3>1. i \in Nat /\ i + 1 = k
      BY <1>6, <2>1
    <3> QED
      BY <2>4, <3>1
  <2>6. Behind(p, c) = {k - 1}
    BY <2>4, <2>5
  <2> QED
    BY <2>6 DEF Single
<1> QED
  BY <1>4, <1>5, <1>7, <1>8, Zenon DEF p

\* A step that leaves the channels of the other tasks alone moves the one request.
LEMMA PlaceKept ==
  ASSUME NEW s \in Side, NEW c \in Channel, Place(s, c),
         outcome'[s][c] = outcome[s][c], Behind(requests[s], c)' = Behind(requests[s], c),
         Polled(s, c)' = Polled(s, c), Answered(s, c)' = Answered(s, c)
  PROVE  Place(s, c)'
BY DEF Place

\* A task that starts to wait had no request anywhere, and has one in the queue now.
LEMMA WaitPlace ==
  ASSUME IInv, PlaceInv, NEW s \in Side, NEW c \in Channel, fund_tx[c] # None,
         wait_for_funding(s, c, fund_tx[c].psbt), NEW t \in Side, NEW d \in Channel
  PROVE  Place(t, d)'
<1> DEFINE R == [channel : Channel, txid : Tx]
           request == [channel |-> c, txid |-> fund_tx[c].psbt]
<1>1. /\ outcome[s][c] = "none"
      /\ outcome' = [outcome EXCEPT ![s][c] = "waiting"]
      /\ requests' = [requests EXCEPT ![s] = Append(@, request)]
      /\ polling' = polling /\ found' = found
  BY DEF wait_for_funding
<1>2. request \in R
  BY <1>1, PsbtInTx DEF IInv
<1>3. request.channel = c
  OBVIOUS
<1> HIDE DEF request, R
<1>4. requests \in [Side -> Seq(R)]
  BY DEF IInv, Shapes, R
<1>5. Polled(t, d)' = Polled(t, d) /\ Answered(t, d)' = Answered(t, d)
  BY <1>1 DEF Polled, Answered
<1>6. Place(t, d)
  BY DEF PlaceInv
<1>7. CASE t # s
  BY <1>1, <1>4, <1>5, <1>6, <1>7, PlaceKept DEF IInv, Shapes
<1>8. CASE t = s
  <2>1. requests[s] \in Seq(R) /\ requests'[s] = Append(requests[s], request)
    BY <1>1, <1>4
  <2>2. CASE d # c
    <3>1. Behind(requests[s], d)' = Behind(requests[s], d)
      BY <1>2, <1>3, <2>1, <2>2, BehindAppend
    <3>2. outcome'[s][d] = outcome[s][d]
      BY <1>1, <2>2 DEF IInv, Shapes
    <3> QED
      BY <1>5, <1>6, <1>8, <3>1, <3>2, PlaceKept
  <2>3. CASE d = c
    <3>1. Behind(requests[s], c) = {} /\ Polled(s, c) = {} /\ Answered(s, c) = {}
      BY <1>1, <1>6, <1>8, <2>3 DEF Place, OnePlace
    <3>2. Single(Behind(requests[s], c)')
      BY <1>2, <1>3, <2>1, <3>1, BehindAppend
    <3>3. outcome'[s][c] = "waiting"
      BY <1>1 DEF IInv, Shapes
    <3> QED
      BY <1>5, <1>8, <2>3, <3>1, <3>2, <3>3 DEF Place, OnePlace
  <2> QED
    BY <2>2, <2>3
<1> QED
  BY <1>7, <1>8

\* Both sides start to wait like this.
LEMMA TaskStarts ==
  ASSUME IInv, NEW c \in Channel, recv_new_channel(c) \/ recv_new_channel_ack(c)
  PROVE  fund_tx[c] # None /\ \E s \in Side : wait_for_funding(s, c, fund_tx[c].psbt)
<1>1. fund_tx[c] # None
  BY DEF recv_new_channel, recv_new_channel_ack, IInv, OutcomeOK
<1>2. channel["initiator"][c].id.txid = fund_tx[c].psbt
  BY <1>1, IdIsPsbt DEF IInv
<1> QED
  BY <1>1, <1>2 DEF recv_new_channel, recv_new_channel_ack, Side

\* The request at the head of the queue moves to a polling task.
LEMMA StartPlace ==
  ASSUME IInv, PlaceInv, NEW s \in Side, start(s), NEW t \in Side, NEW d \in Channel
  PROVE  Place(t, d)'
<1> DEFINE R == [channel : Channel, txid : Tx]
           task == [side |-> s, channel |-> Head(requests[s]).channel, txid |-> Head(requests[s]).txid]
<1>1. /\ requests[s] # <<>>
      /\ requests' = [requests EXCEPT ![s] = Tail(@)]
      /\ polling' = polling \cup {task}
      /\ found' = found /\ outcome' = outcome
  BY DEF start
<1>2. task.side = s /\ task.channel = Head(requests[s]).channel
  OBVIOUS
<1> HIDE DEF task, R
<1>3. requests \in [Side -> Seq(R)]
  BY DEF IInv, Shapes, R
<1>4. Answered(t, d)' = Answered(t, d) /\ outcome'[t][d] = outcome[t][d]
  BY <1>1 DEF Answered
<1>5. Place(t, d)
  BY DEF PlaceInv
<1>6. CASE t # s
  <2>1. requests'[t] = requests[t]
    BY <1>1, <1>3, <1>6
  <2>2. Polled(t, d)' = Polled(t, d)
    BY <1>1, <1>2, <1>6 DEF Polled
  <2> QED
    BY <1>4, <1>5, <2>1, <2>2, PlaceKept
<1>7. CASE t = s
  <2>1. requests[s] \in Seq(R) /\ requests'[s] = Tail(requests[s])
    BY <1>1, <1>3
  <2>2. CASE d # task.channel
    <3>1. Polled(s, d)' = Polled(s, d)
      BY <1>1, <2>2 DEF Polled
    <3>2. /\ Behind(requests[s], d) = {} => Behind(requests[s], d)' = {}
          /\ Single(Behind(requests[s], d)) => Single(Behind(requests[s], d)')
      BY <1>1, <1>2, <2>1, <2>2, BehindTail
    <3> QED
      BY <1>4, <1>5, <1>7, <3>1, <3>2 DEF Place, OnePlace
  <2>3. CASE d = task.channel
    <3>1. Behind(requests[s], d) # {}
      BY <1>1, <1>2, <2>1, <2>3, BehindTail
    <3>2. /\ outcome[s][d] = "waiting" /\ Single(Behind(requests[s], d))
          /\ Polled(s, d) = {} /\ Answered(s, d) = {}
      BY <1>5, <1>7, <3>1 DEF Place, OnePlace
    <3>3. Behind(requests[s], d)' = {}
      <4>1. requests[s] # <<>> /\ d = Head(requests[s]).channel /\ Single(Behind(requests[s], d))
        BY <1>1, <1>2, <2>3, <3>2
      <4>2. Behind(Tail(requests[s]), d) = {}
        BY <2>1, <4>1, BehindTail
      <4>3. Behind(requests[s], d)' = Behind(Tail(requests[s]), d)
        BY <2>1 DEF Behind
      <4> QED
        BY <4>2, <4>3
    <3>4. Polled(s, d)' = {task}
      BY <1>1, <1>2, <2>3, <3>2 DEF Polled
    <3> QED
      BY <1>4, <1>7, <3>2, <3>3, <3>4 DEF Place, OnePlace, Single
  <2> QED
    BY <2>2, <2>3
<1> QED
  BY <1>6, <1>7

\* The request of a polling task moves to the answers.
LEMMA GetPlace ==
  ASSUME IInv, PlaceInv, NEW task \in polling, get_tx(task), NEW t \in Side, NEW d \in Channel
  PROVE  Place(t, d)'
<1>1. PICK tx \in chain : found' = found \cup {[side |-> task.side, channel |-> task.channel, tx |-> tx]}
  BY DEF get_tx
<1> DEFINE r == [side |-> task.side, channel |-> task.channel, tx |-> tx]
<1>2. found' = found \cup {r} /\ r.side = task.side /\ r.channel = task.channel
  BY <1>1
<1> HIDE DEF r
<1>3. polling' = polling \ {task} /\ outcome' = outcome /\ requests' = requests
  BY DEF get_tx
<1>4. Place(t, d)
  BY DEF PlaceInv
<1>5. CASE t # task.side \/ d # task.channel
  <2>1. Polled(t, d)' = Polled(t, d) /\ Answered(t, d)' = Answered(t, d)
    BY <1>2, <1>3, <1>5 DEF Polled, Answered
  <2> QED
    BY <1>3, <1>4, <2>1, PlaceKept
<1>6. CASE t = task.side /\ d = task.channel
  <2>1. task \in Polled(t, d)
    BY <1>6 DEF Polled
  <2>2. /\ outcome[t][d] = "waiting" /\ Behind(requests[t], d) = {}
        /\ Single(Polled(t, d)) /\ Answered(t, d) = {}
    BY <1>4, <2>1, Zenon DEF Place, OnePlace
  <2>3. Polled(t, d) = {task}
    BY <2>1, <2>2, Zenon DEF Single
  <2>4. Polled(t, d)' = {}
    BY <1>3, <2>3 DEF Polled
  <2>5. Answered(t, d)' = {r}
    BY <1>2, <1>6, <2>2 DEF Answered
  <2> QED
    BY <1>3, <2>2, <2>4, <2>5 DEF Place, OnePlace, Single
<1> QED
  BY <1>5, <1>6

\* The answer is consumed by the task that waits for it, which waits no longer.
LEMMA DecidePlace ==
  ASSUME IInv, PlaceInv, NEW r \in found, tx_on_chain(r), NEW t \in Side, NEW d \in Channel
  PROVE  Place(t, d)'
<1>1. /\ r.side \in Side /\ r.channel \in Channel
      /\ fund_tx[r.channel] # None /\ r.tx = fund_tx[r.channel].psbt
  BY DEF IInv, Answers
<1>2. PICK verdict \in {"Live", "Funded"} : outcome' = [outcome EXCEPT ![r.side][r.channel] = verdict]
  <2>0. outcome["acceptor"][r.channel] # "none"
    BY <1>1 DEF IInv, Answers, OutcomeOK, Side
  <2>1. initiator_decides(r) = "Live" /\ acceptor_decides(r) = "Funded"
    BY <1>1, <2>0, Recognised DEF IInv
  <2> QED
    BY <2>1 DEF tx_on_chain
<1>3. found' = found \ {r} /\ polling' = polling /\ requests' = requests
  BY DEF tx_on_chain
<1>4. Place(t, d)
  BY DEF PlaceInv
<1>5. Polled(t, d)' = Polled(t, d)
  BY <1>3 DEF Polled
<1>6. CASE t # r.side \/ d # r.channel
  <2>1. Answered(t, d)' = Answered(t, d)
    BY <1>3, <1>6 DEF Answered
  <2>2. outcome'[t][d] = outcome[t][d]
    BY <1>2, <1>6 DEF IInv, Shapes
  <2> QED
    BY <1>3, <1>4, <1>5, <2>1, <2>2, PlaceKept
<1>7. CASE t = r.side /\ d = r.channel
  <2>1. r \in Answered(t, d)
    BY <1>7 DEF Answered
  <2>2. Behind(requests[t], d) = {} /\ Polled(t, d) = {} /\ Single(Answered(t, d))
    BY <1>4, <2>1, Zenon DEF Place, OnePlace
  <2>3. Answered(t, d) = {r}
    BY <2>1, <2>2, Zenon DEF Single
  <2>4. Answered(t, d)' = {}
    BY <1>3, <2>3 DEF Answered
  <2>5. outcome'[t][d] # "waiting"
    BY <1>1, <1>2, <1>7 DEF IInv, Shapes
  <2> QED
    BY <1>3, <1>5, <2>2, <2>4, <2>5 DEF Place, OnePlace
<1> QED
  BY <1>6, <1>7

\* No step loses a request, or makes a second one.
LEMMA NextPlace == ASSUME IInv, PlaceInv, [Next]_vars PROVE PlaceInv'
<1>1. SourceOK'
  <2>1. CASE source_fails
    BY <2>1, FundingAssumption DEF PlaceInv, SourceOK, source_fails
  <2>2. CASE source_recovers
    BY <2>2 DEF PlaceInv, SourceOK, source_recovers
  <2>3. CASE UNCHANGED source
    BY <2>3 DEF PlaceInv, SourceOK
  <2> QED
    BY <2>1, <2>2, <2>3
    DEF Next, vars, create_fund_transaction, recv_new_channel, recv_new_channel_ack, wait_for_funding, broadcast, spend, start, get_tx, tx_on_chain
<1>2. ASSUME NEW t \in Side, NEW d \in Channel PROVE Place(t, d)'
  <2>1. CASE UNCHANGED <<requests, polling, found, outcome>>
    BY <2>1 DEF PlaceInv, Place, Polled, Answered
  <2>2. CASE \/ \E c \in Channel : \/ \E peer \in Peer, v \in Amount : create_fund_transaction(c, peer, v)
                                   \/ broadcast(c)
             \/ \E coin \in Coin : spend(coin)
             \/ source_fails \/ source_recovers \/ UNCHANGED vars
    BY <2>1, <2>2 DEF create_fund_transaction, broadcast, spend, source_fails, source_recovers, vars
  <2>3. CASE \E c \in Channel : recv_new_channel(c) \/ recv_new_channel_ack(c)
    BY <2>3, TaskStarts, WaitPlace
  <2> QED
    BY <2>2, <2>3, StartPlace, GetPlace, DecidePlace DEF Next
<1> QED
  BY <1>1, <1>2 DEF PlaceInv

\* Every task of wait_for_funding that waits has its one request with the monitor: in
\* the queue, with a polling task, or answered; a task that has decided, or was never
\* started, has none (monitor.rs, rs_ecdsa.rs).
THEOREM TypeCorrect == Spec => []TypeOK
<1>1. Init => PlaceInv
  BY FundingAssumption DEF Init, PlaceInv, SourceOK, Place, OnePlace, Behind, Polled, Answered
<1>2. IInv /\ PlaceInv /\ [Next]_vars => PlaceInv'
  BY NextPlace
<1>3. IInv /\ PlaceInv => TypeOK
  <2> SUFFICES ASSUME IInv, PlaceInv, NEW s \in Side, NEW c \in Channel
               PROVE  /\ outcome[s][c] \in {"none", "waiting", "Live", "Funded", "ignored", "not expected", "unreachable"}
                      /\ Cardinality(Behind(requests[s], c)) + Cardinality(Polled(s, c)) + Cardinality(Answered(s, c))
                           = IF outcome[s][c] = "waiting" THEN 1 ELSE 0
    BY DEF TypeOK, PlaceInv, SourceOK, Behind, Polled, Answered
  <2>1. outcome[s][c] \in {"none", "waiting", "Live", "Funded"}
    BY DEF IInv, OutcomeOK, Side
  <2>2. Place(s, c)
    BY DEF PlaceInv
  <2> DEFINE queued == Behind(requests[s], c)
             polled == Polled(s, c)
             answered == Answered(s, c)
  <2> HIDE DEF queued, polled, answered
  <2>3. OnePlace(outcome[s][c] = "waiting", queued, polled, answered)
    BY <2>2 DEF Place, queued, polled, answered
  <2>4. Cardinality(queued) + Cardinality(polled) + Cardinality(answered)
          = IF outcome[s][c] = "waiting" THEN 1 ELSE 0
    BY <2>3, SingleSize DEF OnePlace
  <2> QED
    BY <2>1, <2>4 DEF queued, polled, answered
<1> QED
  BY <1>1, <1>2, <1>3, Invariant, PTL DEF Spec
=============================================================================
