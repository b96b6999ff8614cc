-------------------------- MODULE ChannelProtocol --------------------------
(***************************************************************************)
(* Opening, funding and closing payment channels between the nodes: the    *)
(* ChannelManager (src/src/channel/rs_ecdsa.rs) of every node, with the    *)
(* HTTP handlers and the message loop that call it, the database, the      *)
(* tasks that wait for a funding transaction, and the users who sign and   *)
(* broadcast it.                                                           *)
(*                                                                         *)
(* A node runs one call of its manager at a time, under the lock of        *)
(* server_bundle.rs.  The tasks that wait for funding do not take it, so a *)
(* call that reads the database and writes it later is two actions here.   *)
(* Sending a message is also a step of its own, made with the lock held.   *)
(*                                                                         *)
(* Abstractions.  Keys and signatures are records that say who can make    *)
(* them and what they sign; a channel id stands for the funding            *)
(* transaction that has it; the event loops and the sockets are a set of   *)
(* messages that are delivered once, in any order, or lost, after a send   *)
(* that may report an error and then delivers nothing (EventHandler.tla).  *)
(***************************************************************************)
EXTENDS Integers, FiniteSets

CONSTANTS Node,
          Value,          \* the amounts that channels are opened with
          Fee,            \* the fee of a commitment transaction
          Word,           \* the number of values of a u64, in small
          MaxOpen,        \* bound: calls of open_channel ever made
          WalletRepeats,  \* may the wallet make the same funding tx again
          Lossy,          \* may sends fail, messages get lost and HTTP clients go away
          Mortal,         \* bound: nodes whose process may end, once each
          None            \* no channel, no call, no signature

ASSUME ConstantsAssumption ==
  /\ Word \in Nat /\ Fee \in 1 .. Word - 1
  /\ Value \subseteq 0 .. Word - 1
  /\ MaxOpen \in Nat
  /\ WalletRepeats \in BOOLEAN /\ Lossy \in BOOLEAN /\ Mortal \subseteq Node

Call == 1 .. MaxOpen
ChannelId == 1 .. MaxOpen

VARIABLES
  db,        \* the channel database of a node
  fund_tx,   \* the funding transactions that the wallets have made
  lock,      \* who holds a node's channel manager, and where it waits
  net,       \* messages on their way to a message loop or queued there
  waiters,   \* the tasks that wait for a funding transaction
  reply,     \* the HTTP replies to the calls of open_channel
  signed,    \* funding transactions that users signed
  chain,     \* funding transactions that the monitors can see
  ended      \* nodes whose process has ended, and was started again

vars == <<db, fund_tx, lock, net, waiters, reply, signed, chain, ended>>

-----------------------------------------------------------------------------
(* Keys and signatures *)

Key == [kind : {"Funding", "Balance"}, base : Node, secret : SUBSET Node, place : 1 .. 2]

\* Both nodes offset their base keys by numbers drawn from a shared secret.
points_at(n, peer, i_am_party_1, kind) ==
  LET Point(base, place) == [kind |-> kind, base |-> base, secret |-> {n, peer}, place |-> place]
  IN  IF i_am_party_1 THEN <<Point(n, 1), Point(peer, 2)>> ELSE <<Point(peer, 1), Point(n, 2)>>

\* The 2-of-2 output script; the order of the keys is part of it.
funding_descriptor_for(n, peer, i_am_party_1) == points_at(n, peer, i_am_party_1, "Funding")

\* The key that n signs for this channel with.
funding_key_for(n, peer, i_am_party_1) ==
  points_at(n, peer, i_am_party_1, "Funding")[IF i_am_party_1 THEN 1 ELSE 2]

my_publishing_key_for(n) == [kind |-> "Publishing", base |-> n]

\* Nobody checks that the fee can be subtracted: a release build wraps around.  (A debug
\* build panics here, in the message loop, as node_ends.)
Minus(a, b) == (a - b) % Word

\* A balance of zero has no output; the first party pays the fee.
Output(balance, key, fee) ==
  IF balance > 0 THEN {[to |-> key, value |-> Minus(balance, fee)]} ELSE {}

\* The transaction that pays out the state, as its signatures see it.
state_sighash(n, id, peer, commit, i_am_party_1) ==
  LET balance == points_at(n, peer, i_am_party_1, "Balance")
  IN  [spends |-> id,
       script |-> funding_descriptor_for(n, peer, i_am_party_1),
       value  |-> commit.p1 + commit.p2,
       pays   |-> Output(commit.p1, balance[1], Fee) \cup Output(commit.p2, balance[2], 0)]

encrypted_sign(key, encryption_key, sighash) ==
  [by |-> key, under |-> encryption_key, on |-> sighash]

\* Decrypting with the wrong secret leaves a signature that verifies nowhere.
decrypt_signature(n, sig) ==
  IF sig.under = my_publishing_key_for(n) THEN [by |-> sig.by, on |-> sig.on] ELSE None

AllToParty1(v) == [p1 |-> v, p2 |-> 0]

\* What is signed, an adaptor signature of it, and a transaction with its witness.
Sighash == [spends : ChannelId, script : Key \X Key, value : Nat,
            pays : SUBSET [to : Key, value : 0 .. Word - 1]]
EncryptedSignature ==
  [by : Key, under : [kind : {"Publishing"}, base : Node], on : Sighash]
Tx == [sighash : Sighash, witness : SUBSET [by : Key, on : Sighash]]

-----------------------------------------------------------------------------
(* The database, the lock and the wallet *)

State == {"Pending", "ReadyToFund", "WaitingForFund", "Funded", "Live", "Closed"}

FundTx == [by : Node, peer : Node, value : Value, script : Key \X Key]

\* A channel as it is first stored: no signature held, nothing closed.
Channel(state, peer, value, i_am_initiator) ==
  [state |-> state, peer_id |-> peer, value |-> value,
   i_am_initiator |-> i_am_initiator, commit_sig |-> None, close_tx |-> None]

StoredChannel ==
  [state : State, peer_id : Node, value : Value, i_am_initiator : BOOLEAN,
   commit_sig : EncryptedSignature \cup {None}, close_tx : Tx \cup {None}]

Message ==
  [kind : {"RsEcdsaNewChannel"}, call : Call, from : Node, to : Node, id : ChannelId,
   funding_satoshis : Value, publishing_key : [kind : {"Publishing"}, base : Node]]
  \cup [kind : {"RsEcdsaAckNewChannel"}, call : Call, from : Node, to : Node, id : ChannelId,
        commit_sig : EncryptedSignature]

\* No transaction, signature, channel or call is not one: an Option in the code.
ASSUME NoneAssumption ==
  /\ None \notin FundTx /\ None \notin EncryptedSignature /\ None \notin Tx
  /\ None \notin StoredChannel
  /\ None \notin [at : {"open", "ack"}, message : Message]
  /\ None \notin [at : {"acked"}, id : ChannelId, call : Call, channel : StoredChannel]

insert_channel(n, id, channel) == db' = [db EXCEPT ![n][id] = channel]

Acquire(n, call) == lock[n] = None /\ lock' = [lock EXCEPT ![n] = call]
Release(n) == lock' = [lock EXCEPT ![n] = None]

\* The state of n's channel id, "none" if there is no such channel.
StateOf(n, id) == IF db[n][id] = None THEN "none" ELSE db[n][id].state

\* The wallet makes a transaction nobody has seen, or one it made before: it picks
\* coins and change by what it saw of the chain when the node started.
create_fund_transaction(n, peer, v, id) ==
  LET tx == [by |-> n, peer |-> peer, value |-> v,
             script |-> funding_descriptor_for(n, peer, TRUE)]
  IN  \/ /\ fund_tx[id] = None
         /\ \A i \in ChannelId : i < id => fund_tx[i] # None
         /\ fund_tx' = [fund_tx EXCEPT ![id] = tx]
      \/ /\ WalletRepeats
         /\ fund_tx[id] = tx
         /\ UNCHANGED fund_tx

Init ==
  /\ db = [n \in Node |-> [id \in ChannelId |-> None]]
  /\ fund_tx = [id \in ChannelId |-> None]
  /\ lock = [n \in Node |-> None]
  /\ net = {}
  /\ waiters = {}
  /\ reply = [k \in Call |-> "none"]
  /\ signed = {}
  /\ chain = {}
  /\ ended = {}

-----------------------------------------------------------------------------
(* Messages *)

\* A send that reports an error has delivered nothing; one that reports success
\* has written the message to a socket.
Send(m, ok) ==
  /\ ok \/ Lossy
  /\ net' = IF ok THEN net \cup {m} ELSE net

\* The connection ends with the message on the wire, or it is not read in time.
Lose(m) ==
  /\ Lossy
  /\ net' = net \ {m}
  /\ UNCHANGED <<db, fund_tx, lock, waiters, reply, signed, chain, ended>>

-----------------------------------------------------------------------------
(* open_channel: POST /channels *)

\* Take the lock, make the funding transaction, store the channel, start to send.
\* A wallet that cannot pay changes nothing and is not an action.
open_channel(k, n, peer, v) ==
  /\ reply[k] = "none" /\ \A j \in Call : j < k => reply[j] # "none"
  /\ peer # n
  /\ \E id \in ChannelId :
       /\ create_fund_transaction(n, peer, v, id)
       /\ insert_channel(n, id, Channel("Pending", peer, v, TRUE))
       /\ Acquire(n, [at |-> "open",
                      message |-> [kind |-> "RsEcdsaNewChannel", call |-> k, from |-> n, to |-> peer,
                                   id |-> id, funding_satoshis |-> v,
                                   publishing_key |-> my_publishing_key_for(n)]])
  /\ reply' = [reply EXCEPT ![k] = "sending"]
  /\ UNCHANGED <<net, waiters, signed, chain, ended>>

\* The send returns: reply, and let go of the lock.
open_channel_sent(n) ==
  /\ lock[n] # None /\ lock[n].at = "open"
  /\ \E ok \in BOOLEAN :
       /\ Send(lock[n].message, ok)
       /\ reply' = [reply EXCEPT ![lock[n].message.call] = IF ok THEN "Ok" ELSE "Err"]
  /\ Release(n)
  /\ UNCHANGED <<db, fund_tx, waiters, signed, chain, ended>>

-----------------------------------------------------------------------------
(* The message loop *)

\* Start a task that waits for the funding transaction with a copy of the channel.
wait_for_funding(n, id, channel, k) ==
  waiters' = waiters \cup {[node |-> n, id |-> id, channel |-> channel, call |-> k]}

\* Mutant: the ack goes out, but the channel is not stored before funding is seen.
recv_new_channel_unstored(n, m) ==
  /\ m.kind = "RsEcdsaNewChannel" /\ m.to = n
  /\ net' = net \ {m}
  /\ LET peer == m.from
         channel == Channel("WaitingForFund", peer, m.funding_satoshis, FALSE)
         commit_sig == encrypted_sign(funding_key_for(n, peer, FALSE), m.publishing_key,
                         state_sighash(n, m.id, peer, AllToParty1(m.funding_satoshis), FALSE))
     IN  /\ wait_for_funding(n, m.id, channel, m.call)
         /\ Acquire(n, [at |-> "ack",
                        message |-> [kind |-> "RsEcdsaAckNewChannel", call |-> m.call, from |-> n,
                                     to |-> peer, id |-> m.id, commit_sig |-> commit_sig]])
  /\ UNCHANGED <<db, fund_tx, reply, signed, chain, ended>>

\* Mutant: the acceptor signs in the role of party 1.
recv_new_channel_party_1(n, m) ==
  /\ m.kind = "RsEcdsaNewChannel" /\ m.to = n
  /\ net' = net \ {m}
  /\ LET peer == m.from
         channel == Channel("WaitingForFund", peer, m.funding_satoshis, FALSE)
         commit_sig == encrypted_sign(funding_key_for(n, peer, TRUE), m.publishing_key,
                         state_sighash(n, m.id, peer, AllToParty1(m.funding_satoshis), TRUE))
     IN  /\ insert_channel(n, m.id, channel)
         /\ wait_for_funding(n, m.id, channel, m.call)
         /\ Acquire(n, [at |-> "ack",
                        message |-> [kind |-> "RsEcdsaAckNewChannel", call |-> m.call, from |-> n,
                                     to |-> peer, id |-> m.id, commit_sig |-> commit_sig]])
  /\ UNCHANGED <<fund_tx, reply, signed, chain, ended>>

\* Sign the peer's commitment, store the channel, wait for its funding, send the ack.
recv_new_channel(n, m) ==
  /\ m.kind = "RsEcdsaNewChannel" /\ m.to = n
  /\ net' = net \ {m}
  /\ LET peer == m.from
         channel == Channel("WaitingForFund", peer, m.funding_satoshis, FALSE)
         commit_sig == encrypted_sign(funding_key_for(n, peer, FALSE), m.publishing_key,
                         state_sighash(n, m.id, peer, AllToParty1(m.funding_satoshis), FALSE))
     IN  /\ insert_channel(n, m.id, channel)
         /\ wait_for_funding(n, m.id, channel, m.call)
         /\ Acquire(n, [at |-> "ack",
                        message |-> [kind |-> "RsEcdsaAckNewChannel", call |-> m.call, from |-> n,
                                     to |-> peer, id |-> m.id, commit_sig |-> commit_sig]])
  /\ UNCHANGED <<fund_tx, reply, signed, chain, ended>>

ack_sent(n) ==
  /\ lock[n] # None /\ lock[n].at = "ack"
  /\ \E ok \in BOOLEAN : Send(lock[n].message, ok)
  /\ Release(n)
  /\ UNCHANGED <<db, fund_tx, waiters, reply, signed, chain, ended>>

\* What recv_new_channel_ack asks of an ack, of the channel as it read it.
Acceptable(n, m) ==
  /\ db[n][m.id] # None
  /\ db[n][m.id].peer_id = m.from
  /\ db[n][m.id].state = "Pending"
  /\ m.commit_sig = encrypted_sign(
       funding_descriptor_for(n, m.from, TRUE)[2],
       my_publishing_key_for(n),
       state_sighash(n, m.id, m.from, AllToParty1(fund_tx[m.id].value), TRUE))

\* Mutant: the signature of the ack is verified and then forgotten.
recv_new_channel_ack_forgets(n, m) ==
  /\ m.kind = "RsEcdsaAckNewChannel" /\ m.to = n
  /\ net' = net \ {m}
  /\ \/ /\ Acceptable(n, m)
        /\ Acquire(n, [at |-> "acked", id |-> m.id, call |-> m.call,
                       channel |-> [db[n][m.id] EXCEPT !.state = "ReadyToFund"]])
     \/ /\ ~Acceptable(n, m)
        /\ lock[n] = None
        /\ UNCHANGED lock
  /\ UNCHANGED <<db, fund_tx, waiters, reply, signed, chain, ended>>

\* Read the channel and verify the signature; an ack that is not acceptable is
\* logged and forgotten.
recv_new_channel_ack(n, m) ==
  /\ m.kind = "RsEcdsaAckNewChannel" /\ m.to = n
  /\ net' = net \ {m}
  /\ \/ /\ Acceptable(n, m)
        /\ Acquire(n, [at |-> "acked", id |-> m.id, call |-> m.call,
                       channel |-> [db[n][m.id] EXCEPT !.state = "ReadyToFund",
                                                       !.commit_sig = m.commit_sig]])
     \/ /\ ~Acceptable(n, m)
        /\ lock[n] = None
        /\ UNCHANGED lock
  /\ UNCHANGED <<db, fund_tx, waiters, reply, signed, chain, ended>>

\* Mutant: nobody waits for the funding of the channel that is ready.
ack_stored_unwatched(n) ==
  /\ lock[n] # None /\ lock[n].at = "acked"
  /\ insert_channel(n, lock[n].id, lock[n].channel)
  /\ Release(n)
  /\ UNCHANGED <<fund_tx, net, waiters, reply, signed, chain, ended>>

\* Write the channel back and wait for its funding.
ack_stored(n) ==
  /\ lock[n] # None /\ lock[n].at = "acked"
  /\ insert_channel(n, lock[n].id, lock[n].channel)
  /\ wait_for_funding(n, lock[n].id, lock[n].channel, lock[n].call)
  /\ Release(n)
  /\ UNCHANGED <<fund_tx, net, reply, signed, chain, ended>>

-----------------------------------------------------------------------------
(* force_close_channel: PUT /channels/:id *)

\* Mutant: the closer signs with the key of the other role.
CloseTx_swapped(n, id, channel) ==
  LET peer == channel.peer_id
      sighash == state_sighash(n, id, peer, AllToParty1(fund_tx[id].value), channel.i_am_initiator)
  IN  [sighash |-> sighash,
       witness |-> {[by |-> funding_key_for(n, peer, ~channel.i_am_initiator), on |-> sighash],
                    decrypt_signature(n, channel.commit_sig)}]

\* The commitment with both signatures: one's own, and the peer's decrypted one.
CloseTx(n, id, channel) ==
  LET peer == channel.peer_id
      sighash == state_sighash(n, id, peer, AllToParty1(fund_tx[id].value), channel.i_am_initiator)
  IN  [sighash |-> sighash,
       witness |-> {[by |-> funding_key_for(n, peer, channel.i_am_initiator), on |-> sighash],
                    decrypt_signature(n, channel.commit_sig)}]

\* Mutant: a channel that is ready but not yet funded can be closed too.
force_close_channel_unfunded(n, id) ==
  /\ StateOf(n, id) \in {"ReadyToFund", "Live"}
  /\ Acquire(n, [at |-> "close", id |-> id,
                 channel |-> [db[n][id] EXCEPT !.state = "Closed", !.commit_sig = None,
                                               !.close_tx = CloseTx(n, id, db[n][id])]])
  /\ UNCHANGED <<db, fund_tx, net, waiters, reply, signed, chain, ended>>

\* Read the channel and sign; one that is not Live is refused, which changes nothing.
force_close_channel(n, id) ==
  /\ StateOf(n, id) = "Live"
  /\ Acquire(n, [at |-> "close", id |-> id,
                 channel |-> [db[n][id] EXCEPT !.state = "Closed", !.commit_sig = None,
                                               !.close_tx = CloseTx(n, id, db[n][id])]])
  /\ UNCHANGED <<db, fund_tx, net, waiters, reply, signed, chain, ended>>

close_stored(n) ==
  /\ lock[n] # None /\ lock[n].at = "close"
  /\ insert_channel(n, lock[n].id, lock[n].channel)
  /\ Release(n)
  /\ UNCHANGED <<fund_tx, net, waiters, reply, signed, chain, ended>>

-----------------------------------------------------------------------------
(* Waiting tasks, users, and processes that end *)

\* The HTTP client goes away while its handler awaits: the server drops the handler,
\* and the lock with it; a message may be out already, a close is not stored.
hang_up(n) ==
  /\ Lossy
  /\ lock[n] # None /\ lock[n].at \in {"open", "close"}
  /\ Release(n)
  /\ \/ /\ lock[n].at = "open"
        /\ \E ok \in BOOLEAN : Send(lock[n].message, ok)
        /\ reply' = [reply EXCEPT ![lock[n].message.call] = "gone"]
     \/ /\ lock[n].at = "close"
        /\ UNCHANGED <<net, reply>>
  /\ UNCHANGED <<db, fund_tx, waiters, signed, chain, ended>>

\* Does the output on chain pay the script and the amount that this node expects?
FundsChannel(n, id, channel) ==
  /\ fund_tx[id].script = funding_descriptor_for(n, channel.peer_id, FALSE)
  /\ fund_tx[id].value = channel.value

\* Mutant: the task does not wait for the monitor.
funding_seen_at_once(w) ==
  /\ waiters' = waiters \ {w}
  /\ \/ /\ w.channel.state = "ReadyToFund"
        /\ insert_channel(w.node, w.id, [w.channel EXCEPT !.state = "Live"])
     \/ /\ w.channel.state = "WaitingForFund"
        /\ IF FundsChannel(w.node, w.id, w.channel)
           THEN insert_channel(w.node, w.id, [w.channel EXCEPT !.state = "Funded"])
           ELSE UNCHANGED db
  /\ UNCHANGED <<fund_tx, lock, net, reply, signed, chain, ended>>

\* The monitor hands the transaction to the task, which stores its own copy of the
\* channel in a new state, whatever the database holds by now.
funding_seen(w) ==
  /\ w.id \in chain
  /\ waiters' = waiters \ {w}
  /\ \/ /\ w.channel.state = "ReadyToFund"
        /\ insert_channel(w.node, w.id, [w.channel EXCEPT !.state = "Live"])
     \/ /\ w.channel.state = "WaitingForFund"
        /\ IF FundsChannel(w.node, w.id, w.channel)
           THEN insert_channel(w.node, w.id, [w.channel EXCEPT !.state = "Funded"])
           ELSE UNCHANGED db
  /\ UNCHANGED <<fund_tx, lock, net, reply, signed, chain, ended>>

\* The user reads a channel that is ready and signs its funding transaction ...
sign(id) ==
  /\ fund_tx[id] # None
  /\ StateOf(fund_tx[id].by, id) = "ReadyToFund"
  /\ signed' = signed \cup {id}
  /\ UNCHANGED <<db, fund_tx, lock, net, waiters, reply, chain, ended>>

\* ... and broadcasts it, at once or later.
broadcast(id) ==
  /\ id \in signed
  /\ chain' = chain \cup {id}
  /\ UNCHANGED <<db, fund_tx, lock, net, waiters, reply, signed, ended>>

\* The process of a node ends, with a panic in one of the loops that start joins or
\* from outside, and is started again with the same seed.  The database was in memory
\* and the sockets are closed; the message in hand may have been written.
node_ends(n) ==
  /\ n \in Mortal \ ended
  /\ ended' = ended \cup {n}
  /\ db' = [db EXCEPT ![n] = [id \in ChannelId |-> None]]
  /\ waiters' = {w \in waiters : w.node # n}
  /\ Release(n)
  /\ LET Sending(at) == lock[n] # None /\ lock[n].at \in at
     IN  /\ \E written \in BOOLEAN :
              /\ written => Sending({"open", "ack"})
              /\ net' = {m \in net : m.to # n} \cup (IF written THEN {lock[n].message} ELSE {})
         /\ reply' = [k \in Call |-> IF Sending({"open"}) /\ lock[n].message.call = k
                                     THEN "gone" ELSE reply[k]]
  /\ UNCHANGED <<fund_tx, signed, chain>>

Next ==
  \/ \E k \in Call, n, peer \in Node, v \in Value : open_channel(k, n, peer, v)
  \/ \E n \in Node : \/ open_channel_sent(n) \/ ack_sent(n) \/ ack_stored(n) \/ close_stored(n)
                     \/ hang_up(n) \/ node_ends(n)
                     \/ \E id \in ChannelId : force_close_channel(n, id)
                     \/ \E m \in net : recv_new_channel(n, m) \/ recv_new_channel_ack(n, m)
  \/ \E m \in net : Lose(m)
  \/ \E w \in waiters : funding_seen(w)
  \/ \E id \in ChannelId : sign(id) \/ broadcast(id)

Spec == Init /\ [][Next]_vars

-----------------------------------------------------------------------------
(* Properties *)

\* Which fields a channel has follows from its state, as in the enum of the code.
ChannelOK(ch) ==
  /\ ch.state \in State
  /\ ch.peer_id \in Node /\ ch.value \in Value /\ ch.i_am_initiator \in BOOLEAN
  /\ ch.commit_sig # None <=> ch.state \in {"ReadyToFund", "Live"}
  /\ ch.close_tx # None <=> ch.state = "Closed"

TypeOK ==
  /\ \A n \in Node, id \in ChannelId : db[n][id] # None => ChannelOK(db[n][id])
  /\ \A id \in ChannelId : fund_tx[id] # None => fund_tx[id] \in FundTx
  /\ \A n \in Node : lock[n] # None => lock[n].at \in {"open", "ack", "acked", "close"}
  /\ \A m \in net : m \in Message /\ m.to # m.from
  /\ \A w \in waiters : ChannelOK(w.channel) /\ w.channel.state \in {"ReadyToFund", "WaitingForFund"}
  /\ reply \in [Call -> {"none", "sending", "Ok", "Err", "gone"}]
  /\ chain \subseteq signed /\ signed \subseteq ChannelId /\ ended \subseteq Mortal

\* The transaction spends the funding output, script and amount as they are on chain, and
\* carries the signatures of both keys of the script.
ValidSpend(tx, id) ==
  /\ tx.sighash.spends = id
  /\ tx.sighash.script = fund_tx[id].script
  /\ tx.sighash.value = fund_tx[id].value
  /\ \A i \in 1 .. 2 : [by |-> fund_tx[id].script[i], on |-> tx.sighash] \in tx.witness

\* It pays the initiator all but the fee.
PaysBack(tx, id) ==
  \E o \in tx.sighash.pays :
    /\ tx.sighash.pays = {o}
    /\ o.to = points_at(fund_tx[id].by, fund_tx[id].peer, TRUE, "Balance")[1]
    /\ o.value = fund_tx[id].value - Fee

\* It returns the money, unless that does not cover the fee: then it cannot, since its
\* output wraps around to more than there is, or it has none.
Refunds(tx, id) ==
  /\ ValidSpend(tx, id)
  /\ PaysBack(tx, id) <=> fund_tx[id].value >= Fee

\* The asserts of force_close_channel hold, and what it returns gives the money back, for
\* every amount that covers the fee and for no other.
ClosesValidly ==
  \A n \in Node, id \in ChannelId :
    StateOf(n, id) = "Closed" => id \in chain /\ Refunds(db[n][id].close_tx, id)

\* The initiator of id can get the money back without the peer: it has closed, or a
\* commitment that refunds it is in the database, or with a task that will put it there.
RefundHeld(id) ==
  LET n == fund_tx[id].by
      CanRefund(ch) == ch.commit_sig # None /\ Refunds(CloseTx(n, id, ch), id)
  IN  \/ StateOf(n, id) = "Closed"
      \/ StateOf(n, id) # "none" /\ CanRefund(db[n][id])
      \/ \E w \in waiters : w.node = n /\ w.id = id /\ CanRefund(w.channel)

\* From the moment the user signs a funding transaction (a channel is shown as
\* ReadyToFund), its money cannot be lost to a peer that goes away, or whose process
\* ends and forgets the channel.  Only the end of one's own process loses it, and an
\* amount that does not cover the fee, as Refunds says.
FundsRecoverable == \A id \in signed : fund_tx[id].by \in ended \/ RefundHeld(id)

\* Until the transaction is on chain that holds even when the user opens again and
\* the wallet makes the same transaction, so that the new channel overwrites the old.
RetryKeepsRefund == \A id \in signed \ chain : fund_tx[id].by \in ended \/ RefundHeld(id)

\* No one funds a channel that the other side does not know: it expects this output,
\* for the same amount, with the roles and the keys the other way round.  A node
\* whose process has ended since may know nothing, or know it again.
FundedIsShared ==
  \A id \in signed :
    LET tx == fund_tx[id]
        ch == db[tx.peer][id]
    IN  \/ tx.peer \in ended /\ ch = None
        \/ /\ StateOf(tx.peer, id) \in {"WaitingForFund", "Funded"}
           /\ ch.peer_id = tx.by /\ ~ch.i_am_initiator
           /\ FundsChannel(tx.peer, id, ch)

\* What a node calls Live, Funded or Closed is on chain, and nowhere else is a
\* channel in a state of the other role.
LiveIsFunded ==
  \A n \in Node, id \in ChannelId : StateOf(n, id) # "none" =>
    /\ db[n][id].state \in {"Live", "Closed", "Funded"} => id \in chain
    /\ db[n][id].i_am_initiator <=> db[n][id].state \notin {"WaitingForFund", "Funded"}
    /\ db[n][id].i_am_initiator <=> fund_tx[id].by = n

\* A channel that waits for its funding is with a task, which has the very channel that
\* is stored: what the task writes when the money is on chain is never an older copy.
WatchedUntilFunded ==
  \A n \in Node, id \in ChannelId :
    StateOf(n, id) \in {"ReadyToFund", "WaitingForFund"} =>
      \E w \in waiters : w.node = n /\ w.id = id /\ w.channel = db[n][id]

\* n's offer of id as it was written, and an ack of it that n accepts.
OfferOf(n, id, m) ==
  /\ m.kind = "RsEcdsaNewChannel" /\ m.from = n /\ m.id = id
  /\ m.publishing_key = my_publishing_key_for(n)
AckFor(n, id, m) ==
  m.kind = "RsEcdsaAckNewChannel" /\ m.to = n /\ m.id = id /\ Acceptable(n, m)

\* The offer or an ack that will be accepted is with a call or on its way, or the ack is
\* just being stored.
AnswerComing(n, id) ==
  \/ \E m \in net : OfferOf(n, id, m) \/ AckFor(n, id, m)
  \/ \E k \in Node : /\ lock[k] # None /\ lock[k].at \in {"open", "ack"}
                     /\ OfferOf(n, id, lock[k].message) \/ AckFor(n, id, lock[k].message)
  \/ lock[n] # None /\ lock[n].at = "acked" /\ lock[n].id = id

\* Without losses a channel is never Pending for good, however often it was offered and
\* whatever other acks of it were refused.
PendingIsAnswered ==
  \A n \in Node, id \in ChannelId : StateOf(n, id) = "Pending" => AnswerComing(n, id)

Rank(state) ==
  CASE state = "none" -> 0
    [] state \in {"Pending", "WaitingForFund"} -> 1
    [] state = "ReadyToFund" -> 2
    [] state \in {"Live", "Funded"} -> 3
    [] state = "Closed" -> 4

\* A channel never goes back: no task or handler overwrites what another has done, and
\* nothing that was under way when a process ended disturbs the one that follows.
NeverBack ==
  [][\A n \in Node, id \in ChannelId :
       Rank(StateOf(n, id)') < Rank(StateOf(n, id)) => n \in ended' \ ended]_vars

\* The protocol as its users see it: each side's view of a channel, and the money.
Views == INSTANCE ChannelLifecycle WITH
  initiator <- [id \in ChannelId |-> IF fund_tx[id] = None THEN "none" ELSE StateOf(fund_tx[id].by, id)],
  acceptor  <- [id \in ChannelId |-> IF fund_tx[id] = None THEN "none" ELSE StateOf(fund_tx[id].peer, id)],
  money     <- [id \in ChannelId |-> IF id \in chain THEN "on_chain"
                                     ELSE IF id \in signed THEN "signed" ELSE "wallet"],
  lost      <- {s \in ChannelId \X {"initiator", "acceptor"} :
                  /\ fund_tx[s[1]] # None
                  /\ (IF s[2] = "initiator" THEN fund_tx[s[1]].by ELSE fund_tx[s[1]].peer) \in ended}

\* Across two nodes, their messages, locks and tasks, a channel takes the steps of the
\* lifecycle in its order, one at a time, whatever is lost and whoever ends.
ImplementsLifecycle == Views!Spec

\* The end-to-end test: when POST /channels has replied, the peer has the channel
\* (tests/end_to_end.rs:205-215).
OpenedIsKnownToPeer ==
  \A id \in ChannelId :
    fund_tx[id] # None /\ reply[id] = "Ok" => StateOf(fund_tx[id].peer, id) # "none"
=============================================================================
