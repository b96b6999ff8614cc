---------------------------- MODULE FundingWatch ----------------------------
(***************************************************************************)
(* Funding transactions from the wallet to the decision of both nodes: the *)
(* funder (src/src/funder.rs), the monitor and its polling tasks           *)
(* (src/src/monitor.rs), and the tasks of wait_for_funding                 *)
(* (src/src/channel/rs_ecdsa.rs) on either side of a channel.              *)
(*                                                                         *)
(* The wallet is synchronised with the chain once, when its node starts    *)
(* (src/src/config.rs), so it spends the same coins again and again while  *)
(* the node runs, and coins that their owner has spent elsewhere.  The     *)
(* chain takes one transaction per coin.                                   *)
(*                                                                         *)
(* Abstractions.  A transaction is its coin, its outputs, and what signing *)
(* adds to the text whose hash is its id: nothing for a segwit coin.       *)
(* Each side derives the funding script by itself, from its own name, its  *)
(* peer and its role, and has its own record of the channel: the opener    *)
(* from its wallet, the other node from the offer.  The messages between   *)
(* the nodes arrive here (see ChannelProtocol.tla for what happens         *)
(* otherwise), and a wallet that makes an equal transaction twice is left  *)
(* to that module.                                                         *)
(***************************************************************************)
EXTENDS Integers, Sequences, FiniteSets

CONSTANTS Channel,     \* channels that one node opens
          Opener,      \* this node
          Peer,        \* the nodes that it opens them with
          Coin,        \* the coins that the wallet believes in
          Legacy,      \* coins whose signature is in the text that is hashed
          Amount,      \* the values of funding outputs
          MaxFailure,  \* bound: how often the block source goes down
          None         \* no transaction, no channel, no script

Node == Peer \cup {Opener}

Descriptor == Node \X Node

ASSUME FundingAssumption ==
  /\ Legacy \subseteq Coin /\ Amount \subseteq Nat /\ MaxFailure \in Nat
  /\ None \notin Descriptor

Side == {"initiator", "acceptor"}

VARIABLES
  fund_tx,   \* the opener's FundTx of a channel: descriptor, and transaction in the psbt
  channel,   \* the channel as either side has it
  chain,     \* the transactions that the block source knows
  source,    \* does the block source answer, and how often it went down
  requests,  \* the queue of a node's monitor
  polling,   \* the polling tasks, one per request
  found,     \* transactions on their way to the task that waits for them
  outcome    \* what a waiting task has decided

vars == <<fund_tx, channel, chain, source, requests, polling, found, outcome>>

Init ==
  /\ fund_tx = [c \in Channel |-> None]
  /\ channel = [s \in Side |-> [c \in Channel |-> None]]
  /\ chain = {}
  /\ source = [up |-> TRUE, failures |-> 0]
  /\ requests = [s \in Side |-> <<>>]
  /\ polling = {}
  /\ found = {}
  /\ outcome = [s \in Side |-> [c \in Channel |-> "none"]]

-----------------------------------------------------------------------------
(* Scripts, transactions and channel ids *)

\* The 2-of-2 of a key of each; party 1 is the initiator, and comes first.
funding_descriptor_for(n, peer, i_am_party_1) ==
  IF i_am_party_1 THEN <<n, peer>> ELSE <<peer, n>>

Output(script, value) == [script |-> script, value |-> value]

\* The wallet orders the outputs as it likes, and may need no change.
Outputs(script, v) ==
  LET pay == Output(script, v)
      change == Output(None, 1)
  IN  {<<pay>>, <<pay, change>>, <<change, pay>>}

Unsigned(coin, output) == [coin |-> coin, output |-> output, script_sig |-> "empty"]

Signed(tx) == [tx EXCEPT !.script_sig = IF tx.coin \in Legacy THEN "signature" ELSE "empty"]

\* The hash of all but the witness: as good as the transaction.
txid(tx) == tx

\* Mutant: the funding output is taken to be the first one.
channel_id_first(f) == [txid |-> txid(f.psbt), vout |-> 1]

\* The first output that pays the script.
channel_id(f) ==
  [txid |-> txid(f.psbt),
   vout |-> CHOOSE i \in DOMAIN f.psbt.output :
              /\ f.psbt.output[i].script = f.descriptor
              /\ \A j \in 1 .. i - 1 : f.psbt.output[j].script # f.descriptor]

output_value(f) == f.psbt.output[channel_id(f).vout].value

matches(f, tx) ==
  LET id == channel_id(f)
  IN  /\ id.vout \in DOMAIN tx.output
      /\ txid(tx) = id.txid
      /\ tx.output[id.vout] = Output(f.descriptor, output_value(f))

-----------------------------------------------------------------------------
(* Opening, signing, spending *)

\* new_channel: a psbt for the value and the script of the peer, of a coin that may be
\* spent already, and the channel that the peer is offered.
create_fund_transaction(c, peer, v) ==
  /\ fund_tx[c] = None
  /\ LET descriptor == funding_descriptor_for(Opener, peer, TRUE)
     IN  \E coin \in Coin, output \in Outputs(descriptor, v) :
           LET f == [descriptor |-> descriptor, psbt |-> Unsigned(coin, output)]
           IN  /\ \A d \in Channel : fund_tx[d] # None => fund_tx[d].psbt # f.psbt
               /\ fund_tx' = [fund_tx EXCEPT ![c] = f]
               /\ channel' = [channel EXCEPT !["initiator"][c] =
                                [id |-> channel_id(f), peer_id |-> peer, value |-> v]]
  /\ UNCHANGED <<chain, source, requests, polling, found, outcome>>

wait_for_funding(s, c, txid_to_find) ==
  /\ outcome[s][c] = "none"
  /\ outcome' = [outcome EXCEPT ![s][c] = "waiting"]
  /\ requests' = [requests EXCEPT ![s] = Append(@, [channel |-> c, txid |-> txid_to_find])]
  /\ UNCHANGED <<fund_tx, chain, source, polling, found>>

\* The peer has the id and the value from the offer, and takes their word for it.
recv_new_channel(c) ==
  /\ fund_tx[c] # None
  /\ LET offer == channel["initiator"][c]
     IN  /\ channel' = [channel EXCEPT !["acceptor"][c] =
                          [id |-> offer.id, peer_id |-> Opener, value |-> offer.value]]
         /\ wait_for_funding("acceptor", c, offer.id.txid)

\* The node that has been offered the channel c.
Acceptor(c) == channel["initiator"][c].peer_id

\* What the signature of a commitment is for: the output, its script and its amount.
state_sighash(id, descriptor, value) == [spends |-> id, script |-> descriptor, value |-> value]

\* The opener has the ack, and goes on if the other side has signed what it would sign.
recv_new_channel_ack(c) ==
  /\ outcome["acceptor"][c] # "none"
  /\ LET mine == channel["initiator"][c]
         theirs == channel["acceptor"][c]
     IN  /\ state_sighash(theirs.id, funding_descriptor_for(Acceptor(c), theirs.peer_id, FALSE), theirs.value)
              = state_sighash(mine.id, funding_descriptor_for(Opener, mine.peer_id, TRUE), output_value(fund_tx[c]))
         /\ wait_for_funding("initiator", c, mine.id.txid)
  /\ UNCHANGED channel

Unspent(coin) == \A tx \in chain : tx.coin # coin

\* The user signs the transaction of a channel that is ready, and broadcasts it.
broadcast(c) ==
  /\ outcome["initiator"][c] # "none" /\ Unspent(fund_tx[c].psbt.coin)
  /\ chain' = chain \cup {Signed(fund_tx[c].psbt)}
  /\ UNCHANGED <<fund_tx, channel, source, requests, polling, found, outcome>>

\* The user pays somebody else.
spend(coin) ==
  /\ Unspent(coin)
  /\ chain' = chain \cup {Signed(Unsigned(coin, <<Output(None, 1)>>))}
  /\ UNCHANGED <<fund_tx, channel, source, requests, polling, found, outcome>>

-----------------------------------------------------------------------------
(* The monitor *)

source_fails ==
  /\ source.up /\ source.failures < MaxFailure
  /\ source' = [up |-> FALSE, failures |-> source.failures + 1]
  /\ UNCHANGED <<fund_tx, channel, chain, requests, polling, found, outcome>>

source_recovers ==
  /\ ~source.up
  /\ source' = [source EXCEPT !.up = TRUE]
  /\ UNCHANGED <<fund_tx, channel, chain, requests, polling, found, outcome>>

\* The loop of the monitor spawns a task for each request.
start(s) ==
  /\ requests[s] # <<>>
  /\ requests' = [requests EXCEPT ![s] = Tail(@)]
  /\ polling' = polling \cup {[side |-> s, channel |-> Head(requests[s]).channel,
                               txid |-> Head(requests[s]).txid]}
  /\ UNCHANGED <<fund_tx, channel, chain, source, found, outcome>>

\* Mutant: an error ends the polling.
get_tx_gives_up(t) ==
  /\ polling' = polling \ {t}
  /\ \/ ~source.up /\ UNCHANGED found
     \/ /\ source.up
        /\ \E tx \in chain : /\ txid(tx) = t.txid
                             /\ found' = found \cup {[side |-> t.side, channel |-> t.channel, tx |-> tx]}
  /\ UNCHANGED <<fund_tx, channel, chain, source, requests, outcome>>

\* Mutant: the task asks for a transaction that pays the script.
get_tx_by_script(t) ==
  /\ source.up
  /\ \E tx \in chain :
       /\ \E i \in DOMAIN tx.output : tx.output[i].script = fund_tx[t.channel].descriptor
       /\ found' = found \cup {[side |-> t.side, channel |-> t.channel, tx |-> tx]}
  /\ polling' = polling \ {t}
  /\ UNCHANGED <<fund_tx, channel, chain, source, requests, outcome>>

\* Mutant: a task that has its answer polls on.
get_tx_again(t) ==
  /\ source.up
  /\ \E tx \in chain : /\ txid(tx) = t.txid
                       /\ found' = found \cup {[side |-> t.side, channel |-> t.channel, tx |-> tx]}
  /\ UNCHANGED <<fund_tx, channel, chain, source, requests, polling, outcome>>

\* A task asks every ten seconds; an error and a transaction that is not there are
\* the same to it, and change nothing.
get_tx(t) ==
  /\ source.up
  /\ \E tx \in chain : /\ txid(tx) = t.txid
                       /\ found' = found \cup {[side |-> t.side, channel |-> t.channel, tx |-> tx]}
  /\ polling' = polling \ {t}
  /\ UNCHANGED <<fund_tx, channel, chain, source, requests, outcome>>

-----------------------------------------------------------------------------
(* The tasks of wait_for_funding *)

\* Mutant: the acceptor derives the script in the role of party 1.
acceptor_decides_party_1(r) ==
  LET ch == channel["acceptor"][r.channel]
      descriptor == funding_descriptor_for(Acceptor(r.channel), ch.peer_id, TRUE)
  IN  IF ch.id.vout \notin DOMAIN r.tx.output THEN "not expected"
      ELSE IF r.tx.output[ch.id.vout] = Output(descriptor, ch.value) THEN "Funded"
      ELSE "ignored"

\* The acceptor compares with what it has: its own script, and the offer.
acceptor_decides(r) ==
  LET ch == channel["acceptor"][r.channel]
      descriptor == funding_descriptor_for(Acceptor(r.channel), ch.peer_id, FALSE)
  IN  IF ch.id.vout \notin DOMAIN r.tx.output THEN "not expected"
      ELSE IF r.tx.output[ch.id.vout] = Output(descriptor, ch.value) THEN "Funded"
      ELSE "ignored"

\* The initiator compares with what its wallet made.
initiator_decides(r) == IF matches(fund_tx[r.channel], r.tx) THEN "Live" ELSE "unreachable"

tx_on_chain(r) ==
  /\ found' = found \ {r}
  /\ outcome' = [outcome EXCEPT ![r.side][r.channel] =
       IF r.side = "initiator" THEN initiator_decides(r) ELSE acceptor_decides(r)]
  /\ UNCHANGED <<fund_tx, channel, chain, source, requests, polling>>

Next ==
  \/ \E c \in Channel : \/ \E peer \in Peer, v \in Amount : create_fund_transaction(c, peer, v)
                        \/ recv_new_channel(c) \/ recv_new_channel_ack(c) \/ broadcast(c)
  \/ \E coin \in Coin : spend(coin)
  \/ source_fails \/ source_recovers
  \/ \E s \in Side : start(s)
  \/ \E t \in polling : get_tx(t)
  \/ \E r \in found : tx_on_chain(r)

Spec == Init /\ [][Next]_vars

\* The tasks run, a task that asks for ever is answered, and the block source works in
\* the end.
Fairness ==
  /\ WF_vars(source_recovers)
  /\ \A s \in Side : WF_vars(start(s))
  /\ \A s \in Side, c \in Channel :
       /\ WF_vars(\E t \in polling : t.side = s /\ t.channel = c /\ get_tx(t))
       /\ WF_vars(\E r \in found : r.side = s /\ r.channel = c /\ tx_on_chain(r))

FairSpec == Spec /\ Fairness

-----------------------------------------------------------------------------
(* Properties *)

\* A task that waits is behind a request, a poll or an answer, and behind one only.
TypeOK ==
  /\ source \in [up : BOOLEAN, failures : 0 .. MaxFailure]
  /\ \A s \in Side, c \in Channel :
       LET queued == {i \in DOMAIN requests[s] : requests[s][i].channel = c}
           polled == {t \in polling : t.side = s /\ t.channel = c}
           answered == {r \in found : r.side = s /\ r.channel = c}
       IN  /\ outcome[s][c] \in {"none", "waiting", "Live", "Funded", "ignored", "not expected", "unreachable"}
           /\ Cardinality(queued) + Cardinality(polled) + Cardinality(answered)
                = IF outcome[s][c] = "waiting" THEN 1 ELSE 0

\* "We created this transaction so it must match": what the chain has under the id is
\* what the wallet made, wherever it put the funding output.
NeverUnreachable == \A c \in Channel : outcome["initiator"][c] # "unreachable"

\* The two sides look at the chain by themselves, one with the script and the outputs
\* that its wallet made, one with a script, a position and an amount of its own: they
\* come to the same conclusion.  None goes live alone, with the money in the output.
SidesAgree ==
  \A c \in Channel :
    /\ outcome["initiator"][c] = "Live" => outcome["acceptor"][c] \in {"waiting", "Funded"}
    /\ outcome["acceptor"][c] \in {"none", "waiting", "Funded"}

\* A channel that either side relies on has its money on chain, and no other channel
\* or payment has it: not one that was opened before or after it with the same coin,
\* the same peer and the same amount.
MoneyIsThere ==
  \A c \in Channel :
    outcome["initiator"][c] = "Live" \/ outcome["acceptor"][c] = "Funded" =>
      /\ Signed(fund_tx[c].psbt) \in chain
      /\ \A tx \in chain : tx.coin = fund_tx[c].psbt.coin => tx = Signed(fund_tx[c].psbt)

\* Both sides notice the transaction of a channel that is ready, whatever the block
\* source does meanwhile.  This is for coins whose signature is not hashed.
SeenByBoth ==
  \A c \in Channel :
    fund_tx[c] # None /\ fund_tx[c].psbt \in chain /\ fund_tx[c].psbt.coin \notin Legacy
      ~> outcome["initiator"][c] = "Live" /\ outcome["acceptor"][c] = "Funded"
=============================================================================
