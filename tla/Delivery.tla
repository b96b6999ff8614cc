------------------------------ MODULE Delivery ------------------------------
(***************************************************************************)
(* What Event::send_message promises its callers (src/src/p2p/event.rs),   *)
(* without connections, dials or tasks.  EventHandler.tla implements it    *)
(* (ImplementsDelivery there), and ChannelProtocol.tla relies on it: its   *)
(* action Send is a request that has been answered.                        *)
(*                                                                         *)
(* A message that waits is written in one place and reported as ok; or it  *)
(* is taken by a connection that is gone already, and reported all the     *)
(* same; or it fails, alone or with others, and then is written nowhere.   *)
(***************************************************************************)
CONSTANT Message

VARIABLES result,   \* what the caller of a request knows
          copies    \* the places where a message has been written

vars == <<result, copies>>

Init ==
  /\ result = [m \in Message |-> "idle"]
  /\ copies = [m \in Message |-> {}]

Request(m) ==
  /\ result[m] = "idle"
  /\ result' = [result EXCEPT ![m] = "waiting"]
  /\ UNCHANGED copies

\* There is one place, and nobody but the network cares which.
Write(m) ==
  /\ result[m] = "waiting"
  /\ result' = [result EXCEPT ![m] = "ok"]
  /\ \E place \in copies'[m] : copies' = [copies EXCEPT ![m] = {place}]

WriteIntoVoid(m) ==
  /\ result[m] = "waiting"
  /\ result' = [result EXCEPT ![m] = "ok"]
  /\ UNCHANGED copies

\* A caller whose notifier is dropped knows no more than one that gets an error.
Fail ==
  /\ \E v \in {"err", "dropped"} :
       \E S \in SUBSET {m \in Message : result[m] = "waiting"} :
         result' = [m \in Message |-> IF m \in S THEN v ELSE result[m]]
  /\ UNCHANGED copies

Next ==
  \/ \E m \in Message : Request(m) \/ Write(m) \/ WriteIntoVoid(m)
  \/ Fail

Spec == Init /\ [][Next]_vars
=============================================================================
