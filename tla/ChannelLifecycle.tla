-------------------------- MODULE ChannelLifecycle --------------------------
(***************************************************************************)
(* What the channel protocol promises the two users of a channel, without  *)
(* messages, locks, tasks or wallets: which step of one side needs what of *)
(* the other, and when money moves.  ChannelProtocol.tla implements it     *)
(* (ImplementsLifecycle there) for wallets that do not repeat themselves.  *)
(***************************************************************************)
CONSTANT ChannelId

VARIABLES
  initiator,   \* the channel as the initiator shows it (GET /channels/:id)
  acceptor,    \* the channel as the acceptor shows it
  money,       \* where the money of the channel is
  lost         \* sides that have lost their memory, by the channel they had or get

vars == <<initiator, acceptor, money, lost>>

Side == {"initiator", "acceptor"}

Init ==
  /\ initiator = [id \in ChannelId |-> "none"]
  /\ acceptor = [id \in ChannelId |-> "none"]
  /\ money = [id \in ChannelId |-> "wallet"]
  /\ lost = {}

Offer(id) ==
  /\ initiator[id] = "none" /\ acceptor[id] = "none" /\ money[id] = "wallet"
  /\ <<id, "initiator">> \notin lost
  /\ initiator' = [initiator EXCEPT ![id] = "Pending"]
  /\ \E S \in SUBSET ({id} \X Side) : lost' = lost \cup S
  /\ UNCHANGED <<acceptor, money>>

\* Nobody waits for money that was not offered.
Accept(id) ==
  /\ initiator[id] # "none" \/ <<id, "initiator">> \in lost
  /\ acceptor[id] = "none"
  /\ acceptor' = [acceptor EXCEPT ![id] = "WaitingForFund"]
  /\ UNCHANGED <<initiator, money, lost>>

\* The user is not asked for money before the other side waits for it.
Ready(id) ==
  /\ initiator[id] = "Pending"
  /\ acceptor[id] # "none" \/ <<id, "acceptor">> \in lost
  /\ initiator' = [initiator EXCEPT ![id] = "ReadyToFund"]
  /\ UNCHANGED <<acceptor, money, lost>>

Sign(id) ==
  /\ initiator[id] = "ReadyToFund" /\ money[id] = "wallet"
  /\ money' = [money EXCEPT ![id] = "signed"]
  /\ UNCHANGED <<initiator, acceptor, lost>>

Confirm(id) ==
  /\ money[id] = "signed"
  /\ money' = [money EXCEPT ![id] = "on_chain"]
  /\ UNCHANGED <<initiator, acceptor, lost>>

GoLive(id) ==
  /\ initiator[id] = "ReadyToFund" /\ money[id] = "on_chain"
  /\ initiator' = [initiator EXCEPT ![id] = "Live"]
  /\ UNCHANGED <<acceptor, money, lost>>

SeeFunds(id) ==
  /\ acceptor[id] = "WaitingForFund" /\ money[id] = "on_chain"
  /\ acceptor' = [acceptor EXCEPT ![id] = "Funded"]
  /\ UNCHANGED <<initiator, money, lost>>

Close(id) ==
  /\ initiator[id] = "Live"
  /\ initiator' = [initiator EXCEPT ![id] = "Closed"]
  /\ UNCHANGED <<acceptor, money, lost>>

\* A node forgets all its channels at once, of some it is the initiator.
Forget(I, A) ==
  /\ initiator' = [id \in ChannelId |-> IF id \in I THEN "none" ELSE initiator[id]]
  /\ acceptor' = [id \in ChannelId |-> IF id \in A THEN "none" ELSE acceptor[id]]
  /\ lost' = lost \cup (I \X {"initiator"}) \cup (A \X {"acceptor"})
  /\ UNCHANGED money

Next ==
  \/ \E id \in ChannelId : \/ Offer(id) \/ Accept(id) \/ Ready(id) \/ Sign(id)
                           \/ Confirm(id) \/ GoLive(id) \/ SeeFunds(id) \/ Close(id)
  \/ \E I, A \in SUBSET ChannelId : Forget(I, A)

Spec == Init /\ [][Next]_vars
=============================================================================
