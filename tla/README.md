# Formal models of lindy

lindy is a small payment channel node: it keeps connections to peers, opens a
channel with a peer on request of its user, waits for the funding transaction
of the channel to appear on chain, and can close the channel by itself.  This
directory holds TLA+ models of it, the TLC runs that check them on small
instances, and theorems about them whose proofs TLAPS checks.

Paths below are those of the repository (`src/p2p/event.rs`, `tests/...`); in
PROJECT.json they have one more `src/` in front.

## The system

| component | state | operations | talks to |
|---|---|---|---|
| **p2p event loop** `p2p/event.rs` | table peer id -> `Connecting` (waiting notifiers, pending messages) or `Connected` (queue of the writer) | one handler per `Event`; `send_message` for callers | dial, reader and writer tasks, all through one queue of events; callers wait on oneshots |
| **connections** `p2p/conn.rs` | a TCP stream, the remote key | `listen`, `Connector::connect`, the handshake (a key), framing in lines of JSON | the event loop |
| **messages** `p2p/messages.rs` | - | `RsEcdsaNewChannel`, `RsEcdsaAckNewChannel` | - |
| **channel manager** `channel/rs_ecdsa.rs` | none of its own but keys; one lock around it | `new_channel`, `recv_new_channel`, `recv_new_channel_ack`, `wait_for_funding`, `force_close_channel` | database, wallet, monitor |
| **channels and database** `channel/mod.rs`, `channel_db.rs` | map channel id -> channel, in memory | `insert_channel` (overwrites), `get_channel`, `list_channels` | manager, waiting tasks, HTTP |
| **funder** `funder.rs` | the bdk wallet | `create_fund_transaction` | manager |
| **monitor** `monitor.rs` | a polling task per request | `wait_for_tx` | waiting tasks, a block source |
| **server bundle** `server_bundle.rs` | the lock of the manager | the message loop; the join of all loops | everything |
| **HTTP** `http/*` | - | `POST /peers`, `POST /channels`, `PUT /channels/:id`, reads | event loop, manager, database |
| **keys** `keychain.rs`, `seed.rs` | the seed | derivation of the node key | manager |
| **hex** `hex.rs` | - | reading a seed from text | configuration |
| configuration, binary | - | start-up: sockets, seed, one synchronisation of the wallet | everything |

A channel is opened like this.  The user of node A asks for it (`POST
/channels`).  A takes the lock of its manager, makes a funding transaction
without signing it, stores the channel as `Pending` under the transaction's
output, and sends `RsEcdsaNewChannel` to B, with the lock held until the message
is written.  B's message loop takes B's lock, signs the transaction that would
return the money to A, encrypted under A's publishing key, stores the channel as
`WaitingForFund`, starts a task that waits for the transaction, and sends the
signature in an `RsEcdsaAckNewChannel`.  A verifies it, stores the channel as
`ReadyToFund` and starts a task of its own.  A's user reads the channel, signs
the transaction and broadcasts it.  Both tasks see it and store `Live` on A and
`Funded` on B.  From then on A can force-close: the commitment with both
signatures is stored in the channel, now `Closed`, and returned to the user, who
broadcasts it.

### What is hard

* *Concurrency of the event loop.*  The loop learns of connections and their end
  by events that name only the peer.  A node may have several connections with
  one peer (both sides dial; one is replaced by the next), and the events of all
  of them share the queue with new requests.
* *Concurrency of the manager.*  The tasks that wait for funding work on a copy of
  the channel and store it without the lock; every other call reads first and
  stores later.
* *Failure.*  Sends fail or succeed into the void, messages are lost with a
  connection, HTTP clients go away, which drops their handler at whatever `await`
  it has reached.  Nothing is sent twice and nothing times out.  A panic in one
  loop ends the process in the middle of what the others do.
* *Locks across sends.*  A handler that holds the manager's lock waits for the
  event loop, for a dial, and for the socket, and so for the peer, whose handlers do
  the same.  The queue of the event loop is bounded, and its readers fill it.
* *Two nodes compute the same thing by themselves.*  Keys, roles, scripts, outputs
  and sighashes are never exchanged.  If the two sides disagreed, the loss would
  show only at closing.
* *Two nodes watch one transaction.*  Each asks its own block source for an id that
  it got in another way.  One compares the output with its own transaction, the other
  with a script that it derives and with the position and amount of an offer.

Nothing is persisted: a node that is started again knows no channel, but meets the
messages, acks and funding transactions of those it had.

### What makes each component correct

* event loop: no panic of the loop or of a caller; every request is answered;
  what is reported as failed was not sent; nothing is sent twice; order; a live
  connection is kept and a dead one forgotten.
* listener: keys and messages are never mixed up; nobody who behaves is dropped; only
  somebody in front who never ends the handshake holds up others.
* channel protocol: nobody funds what the other side does not know; from the
  signature on the money can be got back without the peer, if it covers the fee; a
  closing transaction is valid; no channel goes back to an earlier state; every ack and every funding
  transaction is noticed; the lock is always released.
* funder and monitor: the transaction that is awaited is the one that was made; both
  sides find it; a channel that is relied on has a coin of its own.
* keys: both sides derive the same points, and each can sign for its own.
* hex: what is accepted is the numeral of what is returned.

## Modules

| module | what it is |
|---|---|
| `EventHandler` | the event loop of one node with its tasks, its peers and the network |
| `Delivery` | abstract: what `send_message` promises its callers |
| `ChannelProtocol` | nodes that open, fund and close channels with each other, and may end |
| `SendPath` | extends `ChannelProtocol` with the queues and sockets that a message passes on its way to the peer |
| `ChannelLifecycle` | abstract: one channel as its two users see it |
| `Listener` | connections that come in: serial handshakes, framed streams, three kinds of clients |
| `FundingWatch` | funding transactions from the wallet over the chain to what both nodes conclude |
| `KeyAgreement` | node keys and the keys of a channel, over a group of prime order |
| `Hex` | the parser of seeds, and what it should do |
| `MCEventHandler`, `MCChannelProtocol`, `MCSendPath`, `MCListener`, `MCFundingWatch`, `MCKeyAgreement`, `MCHex` | the roots for TLC |
| `EventHandlerProofs` | types, the invariant of the table, order on sockets, requests that are never lost, and `EventHandler` implements `Delivery`, for any peers |
| `EventHandlerDialProofs` | what holds in addition on a node that only dials, with the order across its connections |
| `ListenerProofs` | all safety properties of the listener, for any clients |
| `ChannelProtocolProofs` | roles, and what is stored before what is sent or funded, for any nodes |
| `ChannelUserProofs` | valid closing, refunds, tasks and answers that are there, order of states, and `ChannelProtocol` implements `ChannelLifecycle` |
| `FundingWatchProofs`, `KeyAgreementProofs`, `HexProofs` | the safety of these three, for any constants |

How they compose.  `ChannelProtocol` uses the event loop only through the action
`Send` and the set `net`: a send ends; if it reports an error nothing was
delivered; what is delivered is delivered once, in any order, or lost.  This is
`Delivery`, which `EventHandler` implements (`ImplementsDelivery`), and
`EveryRequestAnswered`; that messages keep their order is not assumed, because
only those of one connection do (`InOrderOnSocket`).  `EventHandler` takes a
connection that came in as a step of the peer (`Accept`); `Listener` is where it
comes from.  That a send under a lock returns, although the receiver may be sending
under its own lock, is `LockIsReleased` of `SendPath`, which has the protocol with the
event loops of all nodes.  `ChannelProtocol` takes the monitor as a wait that ends some time after
the transaction is visible, and an id as the name of one transaction: the first is
`SeenByBoth` of `FundingWatch`, the second `SidesAgree`.  That the keys of the two
sides are the same terms is `SameKeys` of `KeyAgreement`.

### EventHandler

| variables | code |
|---|---|
| `queue` | the `mpsc` channel of `Event`s |
| `state`, `notify_on_connect`, `pending_messages`, `outgoing` | `EventHandler.peers`: is there an entry, its variant and its fields; `outgoing` is the socket whose writer has the other end of the `UnboundedSender` |
| `dialing` | the tasks that `maybe_connect` spawned and that have not reported yet |
| `owner`, `open` | sockets: the peer at the other end, and whether TCP still works |
| `reader`, `writer`, `out` | the two tasks of a connection, and the queue that the writer drains |
| `result`, `reply` | what the oneshots delivered: `ok`, `err`, or `dropped` when the sending half was dropped |
| `wire` | the messages written to each socket while it worked, in order |
| `inbox`, `arrived` | messages read |

There is one action per arm of `handle_event`, and one per step of a task between
two awaits.  The action of an arm contains all that the arm calls:
`HandleConnectionEstablished` is `spawn_outgoing_messages` and
`spawn_incoming_messages` at once, as in the code, where nothing in an arm awaits.
The queue is unbounded: the code's channel holds ten events and one more per
sender, and a sender that is held back only waits, since the loop never sends.

A socket that is not `open` may still take messages that go nowhere, with success
reported, as TCP does.  A peer in `Garbler` may send a line that is not a message,
which ends the reader of a connection that works.  A peer in `Dialer` may connect
to the node at any time.

`Delivery` has two variables: what the caller of each message knows, and the places
where the message is written.  `EventHandler` implements it with `result` as it is
and `copies` as the places in `wire`.

### ChannelProtocol

| variables | code |
|---|---|
| `db` | `InMemory` of every node; a channel record has the fields of `Channel` and of its state |
| `fund_tx` | the funding transaction behind a channel id, as its wallet made it |
| `lock` | the mutex of the manager: free, or at which await its holder is and what it holds |
| `net` | messages between a sender's socket and the receiver's message loop |
| `waiters` | the tasks of `wait_for_funding`, each with its copy of the channel |
| `reply` | the HTTP replies of `POST /channels` |
| `signed`, `chain` | transactions that users signed, that the block source shows |
| `ended` | nodes whose process has ended and was started again |

A call that takes the lock is split where another task can see the difference:
before its store and before its send.  `open_channel` / `open_channel_sent`,
`recv_new_channel` / `ack_sent`, `recv_new_channel_ack` / `ack_stored` and
`force_close_channel` / `close_stored` are the halves; `hang_up` is a handler
dropped between them.  `node_ends` is the end of a process at any point, with
everything it has in memory: database, lock, tasks, unanswered calls, and the
messages on their way to it; the one that it is sending may be written or not.
The chain, what users have signed, and what it has written stay.

Cryptography is by construction of terms: a point is the record of what it is
derived from (base key, shared secret, place, kind), a signature says which key
made it, of what, and under which encryption key; decrypting it with the wrong
secret gives nothing.  The two nodes compute these terms from their own arguments
as the code does, so swapped roles or keys give other terms, and `ValidSpend`, the
check of a witness against the output it spends, fails.

The fee is subtracted from the amount without a check (`channel/rs_ecdsa.rs:188`), and
no amount is excluded here: `Minus` wraps around as a release build does, and a debug
build panics in the message loop, which is `node_ends`.  `Refunds` is a commitment that
both keys have signed (`ValidSpend`), and that pays the initiator all but the fee
(`PaysBack`) if and only if the amount covers the fee.

`ChannelLifecycle` is a channel without messages, locks and tasks: the initiator's
view, the acceptor's view, where the money is, and which sides have lost their
memory.  Its actions say which step of one side needs what of the other: nobody waits
for money that was not offered, and no user is asked for money before the peer
waits for it.  The mapping (`Views`) reads both views from the databases of the two
nodes that the funding transaction names.

### SendPath

A call of `ChannelProtocol` that sends keeps its lock until the last of the queues has
taken its message.  `events` are the queues of the event loops, which have a bound
(`Events`; ten in the code), `outgoing` the unbounded queues of the writers, `socket`
what is written and not read (`Window`), `inbox` the unbounded queues of the message
loops.  A send is five actions: the call finds a place in the queue of its own event
loop (`send_message`), the loop hands the message to the writer (`handle_event`), the
writer finds room on the socket and notifies the call (`write`), the peer's reader
finds a place in the queue of the peer's event loop (`read`), which hands it to the
message loop (`handle_event`), which takes the lock (`receive`).  Nothing returns by
assumption: a call waits for the socket, the socket for the peer's reader, the reader
for a place in the same queue that the peer's calls need, and the peer's message loop
for the peer's lock.  What breaks the circle is that no event loop waits for a lock or
for a queue; the mutant `handle_event_locks`, an event loop that calls the manager
itself, makes two nodes wait for each other.  Connections are up here; what their ends
do is in `EventHandler` and `ChannelProtocol`.

### Listener

`tcp`, `written` and `unread` are the connections as the kernel has them, by client;
`backlog` those nobody has accepted; `current` and `xonly` the handshake of `listen`
and the part of the key read so far; `stream` and `lines` what a connection becomes
and yields.  `accept`, `recv_handshake` and `next_line` are the code; `Dial`, `Write`,
`Close` and `Reset` the clients.  A key and a message are several tokens, and a read
finds any part of what was written, so every way of cutting the bytes is covered.
A client runs this code (`Lindy`), or sends half a key or a bad one (`Stranger`), or
lines that are no messages (`Garbler`).

### FundingWatch

`fund_tx` is what the wallet of the initiator made for each channel, and `channel` the
record that either side has of it: the opener's from its wallet, the acceptor's from the
offer (`recv_new_channel`).  `chain` is what the block source knows, one transaction per
coin; `source` whether it answers; `requests`, `polling` and `found` the request of a
waiting task on its way through the monitor; `outcome` what the task decided.  The wallet
was synchronised once (`config.rs:50`), so `create_fund_transaction` may take coins that
are spent, or committed to another channel, and it puts the funding output where it likes.

The two sides decide by different data.  The acceptor's task derives the script itself, in
its own role, and looks at the position and for the amount of its own record
(`acceptor_decides`); the initiator's compares with its own transaction
(`initiator_decides`) and reaches `unreachable!` otherwise.  The two meet only in
`recv_new_channel_ack`, which takes an adaptor signature of the acceptor's sighash for one
of its own.

### KeyAgreement and Hex

`KeyAgreement` writes points as exponents: `x` and `Q - x` have the same x-coordinate
and one of them has the even y.  `new` makes the key pair of a node from the hash of
its seed, negating it if need be; `derive` is a node that computes the keys of a
channel from its own secret and the peer's x-coordinate, in either role.  The cipher
is any function.  `Hex` has one action per round of the parser's loop; `ParsesHex`
compares with the numeral of the value that is returned.

## Runs

| run | instance | states | properties |
|---|---|---|---|
| `EventHandler_dial` | 1 peer, 3 messages, 1 connect request, 3 connections, nobody dials in | 51,476 | `SenderNeverDropped`, `WrittenInOrder`, `LiveConnectionKept` |
| `EventHandler_mixed` | 2 peers, one dials in and may garble; 2 messages, 1 connect request, 2 connections | 813,983 | `TypeOK`, `SendNeverPanics`, `NoZombieEntry`, `ConnectingHasAttempt`, `NoRequestForgotten`, `InOrderOnSocket`, `ImplementsDelivery` |
| `EventHandler_live` | 1 peer that dials in; 1 message, 1 connect request, 2 connections | 11,640 | `EveryRequestAnswered`, `BrokenIsForgotten` |
| `EventHandler_dropped` | 1 peer that dials in | violated | `SenderNeverDropped` |
| `ChannelProtocol_open` | 2 nodes that may end once each, 2 calls of open, amounts 1 and 5 with a fee of 2, losses | 137,308 | `TypeOK`, `ClosesValidly`, `FundsRecoverable`, `FundedIsShared`, `WatchedUntilFunded`, `NeverBack`, `ImplementsLifecycle` |
| `ChannelProtocol_retry` | 2 nodes, 3 calls of open, wallets that repeat themselves, losses | 773,689 | `ClosesValidly`, `FundedIsShared`, `LiveIsFunded`, `RetryKeepsRefund` |
| `SendPath_live` | 2 nodes, 3 calls of open, queues and sockets of 1 message, no losses | 32,497 | `PendingIsAnswered`, `LockIsReleased`, `PendingIsAcked`, `FundingIsSeen` |
| `ChannelProtocol_early` | 2 nodes, 1 call of open | violated | `OpenedIsKnownToPeer` |
| `Listener_serial` | 3 clients, one of each kind; keys of 2 tokens, 2 messages | 569,551 | `TypeOK`, `LinesIntact`, `NeverDropped`, `ServedUnlessHeldUp` |
| `FundingWatch_coins` | 2 channels with one peer, 2 coins of which 1 is legacy, amounts 1 and 2, 1 outage | 256,980 | `TypeOK`, `NeverUnreachable`, `SidesAgree`, `MoneyIsThere`, `SeenByBoth` |
| `KeyAgreement_group` | 2 nodes, order 11, 16 ciphers | 4,056 | `KeyIsKnown`, `SameKeys`, `OwnKeySigns` |
| `Hex_short` | all texts of up to 5 of 8 characters, values of 2 bytes | 78,498 | `ParsesHex` |

Why the bounds are enough.  What goes wrong in the event loop goes wrong between
an old connection and the next, so two connections with one peer and a request
before, between and after them are needed; `dial` has three of each, so that a
connection is both successor and predecessor.  Two peers show that their entries
do not disturb each other; the code indexes everything by peer.  In the protocol,
two calls give two channels between the same nodes in the same or in opposite
directions; three calls with
a wallet that repeats itself give a handshake and two retries on one channel id,
so that acks, tasks and a close of each meet those of the others.  Amounts are 1
and 5 with a fee of 2 and a word of 8 values, so that one amount covers the fee and one
does not, and a wrong amount, a forgotten fee and a wrap-around differ; in the run with
retries it is 3, as a second amount makes that run too large.

In `SendPath_live` every queue and socket with a bound holds one message, so each is full
as soon as it is used: with ten places in the code the same takes ten messages, and a
larger bound only lets more proceed.  With three calls both nodes send and receive at
once, and one of them has a further message waiting behind, so that the queue of an event
loop is full while its calls, its reader and its message loop all wait.

Two processes that end once each, at any point, give a restart of either side and of
both, before, during and after a handshake.  Three clients of the listener put a
good one before, between and behind the two bad ones; a key and a line of two
tokens can be cut in the middle and at both ends, and two messages show an order.  Two
channels with one peer and two coins give two funding transactions that conflict and
two that do not, with equal and with different amounts, one of which is also that of the
change; one outage hits a poll or does not.  In a group of order 11 all 100 pairs of hashes are tried, with both parities; the
characters of `Hex_short` are the ends of the three ranges of digits and their neighbours,
and five bytes include the two wrong lengths.

Deadlock checking is off: every model may come to rest, when all requests are
answered and the bounds are used up.

Every property of a passing run can be broken by a small change of the code.  The
operators commented with `Mutant:` are such changes (a missing guard, a swapped
role, an entry that is not removed); PROJECT.json says which definition each one
replaces and which property then fails.  No specification uses them.

### Fairness

`EventHandler` assumes that the executor runs what can run: weak fairness of the
loop, of every dial (the kernel gives up at some point), of a writer with messages
(a peer that takes no bytes for ever is left out) and of a reader whose transport
is broken.  Callers, peers, dial-ins and failures of the transport have no
fairness.  `ChannelProtocol` is checked for safety only and assumes none.  `SendPath`
assumes weak fairness of the event loops, writers and readers, of the half of a call that
has only to store, and of the tasks; for the message loop, strong fairness, because it
competes for a lock that others take and release: tokio's mutex is a queue, so a
waiting task gets it.  That a send returns is not assumed: each of its steps runs when
there is room for it, and `LockIsReleased` is that there always will be.  Users, wallets
and the chain have no fairness.
`Listener` assumes that the accept loop and the streams run and that a client that runs
this code writes on; no client has to dial, to close, or, if it does not run this code,
to write.  `FundingWatch` assumes that the tasks run, that the block source works in the
end, and that a task that polls for ever is answered: it asks every ten seconds
(`monitor.rs:50`), so this is weak fairness of a poll once the source stays up.

### What the runs found

* `EventHandler_dropped`.  `Event::send_message` ends in `expect("sender can't be
  dropped")` (`p2p/event.rs:63`).  On a node whose peer also dials in, it can be:
  the `Disconnected` event of one connection removes the `Connecting` entry that a
  later request made, because the event names only the peer, and the pending
  message's notifier goes with it.  On a node that no peer dials it cannot; this is
  the theorem `NotifierAlwaysUsed`.
* `ChannelProtocol_early`.  `tests/end_to_end.rs:205-214` takes for granted that
  the peer has stored the channel when `POST /channels` replies.  The reply only
  means that the message is written.
* The bounds of the guarantees.  With a wallet that makes the same transaction
  again, `FundsRecoverable`, `NeverBack` and `ImplementsLifecycle` do not hold: a second
  `new_channel` overwrites the `Live` record, and the signature in it, with a
  `Pending` one (`channel/rs_ecdsa.rs:94`).  What remains is `RetryKeepsRefund`: as
  long as the transaction is not on chain the signature is in the database or with
  a task.  No document of the repository promises more, so this is stated as a
  hazard.
* A coin whose signature is part of the hashed transaction changes the id when the
  user signs, and nobody finds the transaction (`funder.rs:63`).  `SeenByBoth` excludes
  such coins, on which the code relies without a check.  For a coin that is spent
  elsewhere both tasks wait for ever; `MoneyIsThere` says that nobody is misled.
* A node whose process ends loses the refunds it held, and the money of channels that
  it funded.  `FundsRecoverable` is therefore about nodes that run on, whatever
  happens to their peers.
* A balance below the fee wraps around (`channel/rs_ecdsa.rs:188`).  Such a channel is
  opened, funded and closed like any other, and its commitment has valid signatures, but
  pays out more than there is and so cannot be confirmed; the money needs the peer.
  `Refunds`, in `ClosesValidly`, `FundsRecoverable` and `RetryKeepsRefund`, says that this
  happens for amounts below the fee and for no others.  No document of the repository
  promises a smallest amount, so this is stated as a hazard.

## Proofs

The theorems about `EventHandler` hold for any set of peers and any bounds, under
its `ConstantsAssumption` (who dials in and who garbles are peers, bounds are
natural numbers, `None` is none of the others).  Those about `ChannelProtocol` hold
for any nodes and amounts, any number of calls, and any of the nodes that end, with
and without losses and wallets that repeat themselves, under its `ConstantsAssumption`
(a fee and amounts that fit in the word; an amount need not cover the fee) and `NoneAssumption` (`None`
is no transaction, signature, channel or call).

`EventHandlerProofs`.  `TypeCorrect` is the type invariant.  It is not inductive:
the arms index `out`, `writer` and `reader` by what events and entries name, so
`Typed` adds that sockets named by events and held by readers have their owner
(`SocketsOwned`).  For the table, `EntryInv` gives each entry what it relies on:

* `Connected`: the socket belongs to the peer, its writer runs, and its reader runs
  or has queued `Disconnected`;
* `Connecting`: a dial runs, or its outcome is queued.

The second is the delicate one: events of *other* attempts remove or replace
entries too.  It is inductive because each such event leaves the entry absent or
Connected, and only `maybe_connect` makes a Connecting entry, with a dial of its
own.  `LoopNeverPanics`, `ZombiesLeave` and `AttemptBehindEntry` follow.

*Order.*  The argument is where a message is.  Those in the event queue are in order,
and behind everything that was taken out of it (`QueueInv`); a message that was taken
waits in one entry or with one writer (`HeldInv`) or is written and answered
(`WireInv`); what a writer still has is behind what it has written, and the messages of
an entry go to a writer that starts with an empty queue (`SocketInv`).
`OrderOnSockets` follows, and `DeliveryImplemented`: each action of the event loop
is a step of `Delivery` or a stutter, since a message that is reported as failed or
dropped was pending or queued, hence not on any wire.

*Requests.*  `NothingForgotten` is the safety half of `EveryRequestAnswered`, and unlike it
holds for any bounds: whoever waits is held by an event, an entry that is still
Connecting, or a writer that runs.  It is inductive given `EntryInv`: every action keeps
the holder of a request or hands it on, and `EntryInv` says that the writer to which it
is handed runs.

`EventHandlerDialProofs`, for `Dialer = {}`.  Every peer has one token: the dial
hands it to the event with the outcome, that event to the reader, the reader to
the `Disconnected` event.  `Phase(p)` says where the token is and what the entry
is then (Idle, Dialling, Dialled, Up, Down).  With it a `Disconnected` event always
finds the Connected entry of its own connection, where nothing is pending, so no
notifier is dropped (`NotifierAlwaysUsed`).  If moreover no peer sends anything but
messages, a reader ends only after its transport, and a working connection stays
in the table (`LiveKept`).

`OrderAcross` is the order across connections.  A new connection may take messages
while the writer of the old one still has some, so the order on each socket is not
enough.  `AcrossInv` adds that the socket in an entry is the last one made to the peer,
that an earlier socket carries (has written or still holds) only earlier messages, and
that what waits in the entry is behind what any of them carries.  With `Dialer = {}`
the entry of a peer is empty of messages whenever a connection of it is up, so
a request that goes straight to a writer overtakes nothing.

`ListenerProofs`.  A connection is in one place (`PlaceInv`), and what was read of it and
what is unread, unless a reset took it, are together a beginning of what its client
sends (`ReadInv`): the
handshake has taken `KeyLength` tokens before the first line, and line `i` ends at token
`KeyLength + 2 * i`.  So wherever the bytes are cut, a stream begins behind the key and
yields message after message (`StreamsIntact`), and a connection that works is with the
kernel, the listener or its stream (`ConnectionsKept`).  For any clients, key length and
number of messages.

`ChannelProtocolProofs`.  `LiveOnChain` and `FundersAreExpected` speak of the
databases only and are not inductive: a task or a call writes back a copy that it
read earlier, and what a user may sign depends on a message that has left the
network.  `IInv` therefore says the same of every copy, wherever it is (in a
database, with a task, under a lock, or implied by a message in `net`):

* `Role`: the funding transaction behind an id never changes and names both nodes,
  so each copy has the role, the peer and, on the acceptor's side, the amount that
  the transaction gives;
* `Shared`: the acceptor stored the channel before its ack was sent and no later
  step but the end of its process takes it out, so an ack, a copy beyond `Pending`
  and a signed transaction each prove that the peer has it or has ended;
* what is `Live`, `Closed` or `Funded` is on chain, and the chain forgets nothing.

The delicate step is a retry with the same transaction, which overwrites a channel
on either side: it is harmless here because the overwriting record has the same
role (`InsertKeepsShared`).

`ChannelUserProofs` builds on it in four steps.

* *Signatures.*  The funding transaction also determines the commitment, its
  adaptor signature and the closing transaction (`Commitment`, `Refund`, `Closing`).
  An ack is stored only if its signature verifies, and then it is this one; every
  copy therefore has the signature or closing transaction that its state calls
  for (`Signs`).  Whether the output of that commitment can be paid is arithmetic
  in the word: it is the amount less the fee exactly if that is not below zero
  (`MinusFee`, `OutputPays`).  `ClosedIsValid` and the type
  invariant `Types` follow.
* *Tasks.*  A channel that is ready is stored together with a task that waits, and the
  task goes only when the money is on chain or its process ends (`WaitInv`).  So until
  then a task has the signature, whatever overwrites the database: `RefundsAreKept`.
  Moreover the task of a channel that still waits has the channel as it is stored
  (`TasksAreThere`), since all copies in one state agree.
* *Answers*, when nothing is lost and no process ends.  Every offer and ack says what the
  funding transaction determines (`MessagesAreRight`), so the ack that an offer brings
  about is one that its initiator accepts.  Hence behind every `Pending` channel there is
  an offer or such an ack, with a call or on its way (`AnswersCome`).  This is the safety
  half of `PendingIsAcked`; a retry that overwrites the channel keeps it.
* *One at a time*, for wallets that do not repeat themselves.  A transaction that is
  new has no message, copy or task anywhere, so there is one offer at most for a
  channel, and none for one the peer has (`OfferInv`).  Hence the acceptor stores it
  once and makes one ack; and what a call or a task is about to store is the
  successor of what the database holds, since no two of them hold the same channel
  (`HandInv`).  Every store is then one move forward: `OnlyForward`, `FundsAreKept`,
  and, action by action, `LifecycleImplemented`, the refinement of
  `ChannelLifecycle`.  The assumption is needed: without it TLC shows all three wrong.

`FundingWatchProofs`.  A request carries the id of the transaction that the wallet of
its channel made, so an answer is that very transaction and is on chain.  For the
initiator the output is then where its wallet put it.  For the acceptor this needs what
it was offered: its record says the position and the amount of the initiator's
transaction (`OfferOK`), and the script that it derives for its peer, in the role of party
2, is the one that the initiator derived in the role of party 1 (`SameScript`).  So the
two decide alike by different data (`SidesDoAgree`).  The chain takes one transaction per
coin, so a channel that is relied on has its own.  For any channels, peers, coins and
amounts.  The type invariant counts requests: a task that waits has exactly one, and
`PlaceInv` follows it from the queue to the poll to the answer.

`KeyAgreementProofs`.  Node keys have an even y and are kept, so that what a peer makes
of the name is the key; the two shared secrets are `a * (b * G)` and `b * (a * G)`; the
own part of a funding key is the secret plus the same number that is added to the point.
For any group of prime order, any set of even points that has one of each pair, and any
cipher.

`HexProofs`.  The loop invariant: what was read of the text is the numeral of what was
written to the buffer.  For any length and any texts.

TLC agrees: every inductive invariant holds on the instances of the runs.

Every invariant and every safety action property that a run checks is a theorem, as are
both refinements; where a theorem needs a condition on the constants it states it.
Model-checked only is liveness, which is out of the prover's reach:
`EveryRequestAnswered`, `BrokenIsForgotten`, `LockIsReleased`, `PendingIsAcked`,
`FundingIsSeen`, `ServedUnlessHeldUp`, `SeenByBoth`.  Of the first and the fourth the
safety half is proved (`NoRequestForgotten`, `PendingIsAnswered`): the request, or the answer, is always held by something that
can go on.

## Not modelled

* Addresses: an ack is sent to the address from which the message came, which after
  a disconnect is a closed port.  The models have the outcome, a send that fails.
* HTTP routing, JSON and the formatting of replies; reading of strings that
  name peers, and serde's visitors around the hex parser; reading the configuration.
  None has a state that another step depends on.
* The hashes from which keys are made (`keychain.rs` `child`, `seed.rs`
  `channel_seed`), and the group arithmetic and the cipher themselves, which are
  libraries.
* A send under a lock over a connection that ends meanwhile: `SendPath` has full queues,
  `EventHandler` has ends of connections, with queues that are never full.
* A channel of a node with itself; peers that do not run this code, beyond their
  bytes at the listener; a chain that forgets transactions.
* One model of a whole node.  Its parts meet at few places, named under Modules, and
  their product is beyond TLC; what each relies on is a property of the other.

## Plan

Done: the event loop with `Delivery` and its refinement; the channel protocol with
processes that end, `ChannelLifecycle` and its refinement; the path of a send under a
lock; the listener; funding
transactions and the monitor; keys; the hex parser; proofs of all safety properties.
What is left, in this order:

1. Restarts in `EventHandler`: a peer whose node ends, as seen by dials to it.
2. `PUT /channels/:id` twice at once, with the chain's answer to both closes.
3. The safety halves of the remaining liveness properties as invariants with theorems:
   a step of `SendPath` is enabled while a lock is held; a funding transaction that is
   visible has a poll.
