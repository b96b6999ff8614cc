---------------------------- MODULE KeyAgreement ----------------------------
(***************************************************************************)
(* The keys of a node and of its channels: the node's key pair             *)
(* (src/src/seed.rs, src/src/keychain.rs), the keys as peers know one      *)
(* another by (src/src/p2p/conn.rs), and the keys that both sides of a     *)
(* channel derive by themselves (src/src/channel/rs_ecdsa.rs).  They never *)
(* exchange these keys: a difference would show when money is to be spent. *)
(*                                                                         *)
(* The group is that of a curve of prime order Q, written by exponents: a  *)
(* point is the number that G is multiplied by, 0 is the point at          *)
(* infinity, and x and Q - x are the two points with one x-coordinate, of  *)
(* which one has an even y (EvenY).  The stream cipher that makes numbers  *)
(* of a shared point is any function (Streams).                            *)
(***************************************************************************)
EXTENDS Integers

CONSTANTS Node,
          Q,            \* the order of the group
          EvenY,        \* the points with an even y-coordinate
          Streams,      \* what the cipher may be
          None

Scalar == 1 .. Q - 1
Point == 1 .. Q - 1
PointKind == {"Funding", "Balance"}

ASSUME GroupAssumption ==
  /\ Q \in Nat /\ Q > 2 /\ \A x, y \in 1 .. Q - 1 : (x * y) % Q # 0
  /\ EvenY \subseteq 1 .. Q - 1
  /\ \A x \in 1 .. Q - 1 : x \in EvenY <=> Q - x \notin EvenY
  /\ Streams \subseteq [Point \X PointKind \X (1 .. 2) -> Scalar]
  /\ None \notin [secret_key : Scalar, public_key : Point]

VARIABLES
  stream,    \* the cipher
  keypair,   \* the node key, as KeyChain keeps it
  channel    \* the keys that a node has derived for channels with a peer, by role

vars == <<stream, keypair, channel>>

Init ==
  /\ stream \in Streams
  /\ keypair = [n \in Node |-> None]
  /\ channel = [n \in Node |-> [peer \in Node |-> [role \in BOOLEAN |-> None]]]

-----------------------------------------------------------------------------
(* Points *)

\* Scalars times a point.  G is 1.
mul(s, P) == (s * P) % Q
add(P, R) == (P + R) % Q

negate(x) == Q - x

\* Mutant: the key of the point is not negated with it.
keypair_from_slice_kept(h) ==
  [secret_key |-> h, public_key |-> IF h \in EvenY THEN mul(h, 1) ELSE negate(mul(h, 1))]

\* The secret is negated if need be, so that its point has an even y.
keypair_from_slice(h) ==
  LET secret_key == IF h \in EvenY THEN h ELSE negate(h)
  IN  [secret_key |-> secret_key, public_key |-> mul(secret_key, 1)]

\* What a peer is known by: an x-coordinate ...
to_xonly(P) == {P, negate(P)}

\* ... which stands for the point with the even y.
to_point(x) == CHOOSE P \in x : P \in EvenY

-----------------------------------------------------------------------------
(* PointRandomizer *)

\* Mutant: a node takes its own key for base_1 whatever its role.
from_ecdh_own_first(local, remote, i_am_party_1) ==
  [base_1 |-> local.public_key, base_2 |-> remote, shared_secret |-> mul(local.secret_key, remote)]

from_ecdh(local, remote, i_am_party_1) ==
  [base_1 |-> IF i_am_party_1 THEN local.public_key ELSE remote,
   base_2 |-> IF i_am_party_1 THEN remote ELSE local.public_key,
   shared_secret |-> mul(local.secret_key, remote)]

\* Random numbers and points; none of the points may be infinity.
points_at(pr, kind) ==
  LET r1 == stream[<<pr.shared_secret, kind, 1>>]
      r2 == stream[<<pr.shared_secret, kind, 2>>]
  IN  [r1 |-> r1, r2 |-> r2, point1 |-> add(pr.base_1, r1), point2 |-> add(pr.base_2, r2)]

\* The key for a node's own part of the funding output.
funding_secret_key_for(local, pr, i_am_party_1) ==
  LET points == points_at(pr, "Funding")
  IN  add(local.secret_key, IF i_am_party_1 THEN points.r1 ELSE points.r2)

-----------------------------------------------------------------------------
(* Nodes *)

\* A node starts with a seed, of which the hash is h.
new(n, h) ==
  /\ keypair[n] = None
  /\ keypair' = [keypair EXCEPT ![n] = keypair_from_slice(h)]
  /\ UNCHANGED <<stream, channel>>

\* A node derives the keys of a channel with a peer that it knows by its x-coordinate.
\* The unwraps of zero scalars and points at infinity, which a large group does not
\* meet, are the last guard.
derive(n, peer, i_am_party_1) ==
  /\ n # peer /\ keypair[n] # None /\ keypair[peer] # None
  /\ channel[n][peer][i_am_party_1] = None
  /\ LET pr == from_ecdh(keypair[n], to_point(to_xonly(keypair[peer].public_key)), i_am_party_1)
         keys == [funding |-> points_at(pr, "Funding"), balance |-> points_at(pr, "Balance"),
                  funding_secret_key |-> funding_secret_key_for(keypair[n], pr, i_am_party_1)]
     IN  /\ 0 \notin {keys.funding.point1, keys.funding.point2, keys.balance.point1, keys.balance.point2}
         /\ channel' = [channel EXCEPT ![n][peer][i_am_party_1] = keys]
  /\ UNCHANGED <<stream, keypair>>

Next ==
  \/ \E n \in Node, h \in Scalar : new(n, h)
  \/ \E n, peer \in Node, i_am_party_1 \in BOOLEAN : derive(n, peer, i_am_party_1)

Spec == Init /\ [][Next]_vars

-----------------------------------------------------------------------------
(* Properties *)

\* A node's key has an even y-coordinate, so it is the one that its peers make of the
\* x-coordinate, and the secret is the secret of this one.
KeyIsKnown ==
  \A n \in Node : keypair[n] # None =>
    /\ keypair[n].secret_key \in Scalar
    /\ mul(keypair[n].secret_key, 1) = keypair[n].public_key
    /\ to_point(to_xonly(keypair[n].public_key)) = keypair[n].public_key

\* The two sides of a channel, each from its own secret and the other's name, derive
\* the same keys in the same order.
SameKeys ==
  \A n, peer \in Node :
    channel[n][peer][TRUE] # None /\ channel[peer][n][FALSE] # None =>
      /\ channel[n][peer][TRUE].funding = channel[peer][n][FALSE].funding
      /\ channel[n][peer][TRUE].balance = channel[peer][n][FALSE].balance

\* Each side can sign for its own part of the funding output.
OwnKeySigns ==
  \A n, peer \in Node, role \in BOOLEAN : channel[n][peer][role] # None =>
    mul(channel[n][peer][role].funding_secret_key, 1) =
      IF role THEN channel[n][peer][role].funding.point1 ELSE channel[n][peer][role].funding.point2
=============================================================================
