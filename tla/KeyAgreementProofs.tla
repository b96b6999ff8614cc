------------------------- MODULE KeyAgreementProofs -------------------------
(***************************************************************************)
(* The key agreement of KeyAgreement.tla for groups of prime order and any *)
(* cipher.  Node keys are kept for ever, and every key of a channel is     *)
(* what derive makes of them (IInv), so that the properties are facts      *)
(* about the arithmetic of two key pairs.                                  *)
(***************************************************************************)
EXTENDS KeyAgreement, TLAPS

KeyPair == [secret_key : Scalar, public_key : Point]

\* What a node makes of its own key pair and a peer's public key.
Randomizer(n, peer, role) ==
  from_ecdh(keypair[n], to_point(to_xonly(keypair[peer].public_key)), role)

Derived(n, peer, role) ==
  [funding |-> points_at(Randomizer(n, peer, role), "Funding"),
   balance |-> points_at(Randomizer(n, peer, role), "Balance"),
   funding_secret_key |-> funding_secret_key_for(keypair[n], Randomizer(n, peer, role), role)]

KeyPairOK(n) ==
  /\ keypair[n] \in KeyPair
  /\ keypair[n].public_key = keypair[n].secret_key
  /\ keypair[n].public_key \in EvenY

ChannelOK(n, peer, role) ==
  /\ keypair[n] # None /\ keypair[peer] # None
  /\ channel[n][peer][role] = Derived(n, peer, role)

IInv ==
  /\ stream \in Streams
  /\ DOMAIN channel = Node
  /\ \A n \in Node : DOMAIN channel[n] = Node
  /\ \A n, peer \in Node : DOMAIN channel[n][peer] = BOOLEAN
  /\ keypair \in [Node -> KeyPair \cup {None}]
  /\ \A n \in Node : keypair[n] # None => KeyPairOK(n)
  /\ \A n, peer \in Node, role \in BOOLEAN :
       channel[n][peer][role] # None => ChannelOK(n, peer, role)

-----------------------------------------------------------------------------
(* The group *)

\* Numbers below the order of the group are their own remainders.
LEMMA ModSmall == ASSUME NEW x \in 0 .. Q - 1 PROVE x % Q = x
BY GroupAssumption

\* Remainders are scalars.
LEMMA ModRange == ASSUME NEW x \in Int PROVE x % Q \in 0 .. Q - 1
BY GroupAssumption

\* G is 1, so a scalar times G is the scalar.
LEMMA TimesG == ASSUME NEW x \in 0 .. Q - 1 PROVE mul(x, 1) = x
<1>1. x * 1 = x
  BY GroupAssumption
<1> QED
  BY <1>1, ModSmall DEF mul

\* Each side has the other's secret times its own point.
LEMMA Commutes == ASSUME NEW x \in Int, NEW y \in Int PROVE mul(x, y) = mul(y, x)
<1>1. x * y = y * x
  OBVIOUS
<1> QED
  BY <1>1 DEF mul

\* The order is a prime, so no product of scalars is the point at infinity.
LEMMA TimesInGroup == ASSUME NEW x \in Scalar, NEW y \in Point PROVE mul(x, y) \in Point
<1>1. x * y \in Int /\ (x * y) % Q # 0
  BY GroupAssumption DEF Scalar, Point
<1>2. (x * y) % Q \in 0 .. Q - 1
  BY <1>1, ModRange
<1> HIDE DEF Point
<1> QED
  BY <1>1, <1>2, GroupAssumption DEF mul, Point

\* Of a point and its negation one has the even y, so its x-coordinate tells it.
LEMMA XOnlyTells ==
  ASSUME NEW P \in Point, P \in EvenY
  PROVE  to_point(to_xonly(P)) = P
<1>1. negate(P) \in Point /\ negate(P) \notin EvenY
  BY GroupAssumption DEF negate, Point
<1>2. \A R \in to_xonly(P) : R \in EvenY <=> R = P
  BY <1>1 DEF to_xonly
<1>3. P \in to_xonly(P)
  BY DEF to_xonly
<1> QED
  BY <1>2, <1>3 DEF to_point

\* A hash becomes a key pair with an even point.
LEMMA SliceOK ==
  ASSUME NEW h \in Scalar
  PROVE  LET k == keypair_from_slice(h)
         IN  k \in KeyPair /\ k.public_key = k.secret_key /\ k.public_key \in EvenY
<1> DEFINE s == IF h \in EvenY THEN h ELSE negate(h)
<1>1. s \in Scalar /\ s \in EvenY
  BY GroupAssumption DEF negate, Scalar
<1>2. mul(s, 1) = s
  BY <1>1, TimesG, GroupAssumption DEF Scalar
<1> QED
  BY <1>1, <1>2 DEF keypair_from_slice, KeyPair, Point, Scalar

-----------------------------------------------------------------------------
(* The invariant *)

\* A new node has a key with an even y, and takes no key from another.
LEMMA NewIInv == ASSUME IInv, NEW n \in Node, NEW h \in Scalar, new(n, h) PROVE IInv'
<1> DEFINE k == keypair_from_slice(h)
<1>1. /\ keypair[n] = None /\ keypair' = [keypair EXCEPT ![n] = k]
      /\ stream' = stream /\ channel' = channel
  BY DEF new
<1>2. k \in KeyPair /\ k.public_key = k.secret_key /\ k.public_key \in EvenY
  BY SliceOK
<1> HIDE DEF k
<1>3. keypair' \in [Node -> KeyPair \cup {None}] /\ keypair'[n] = k
  BY <1>1, <1>2 DEF IInv
<1>4. \A m \in Node : keypair[m] # None => keypair'[m] = keypair[m]
  BY <1>1 DEF IInv
<1>5. \A m \in Node : m # n => keypair'[m] = keypair[m]
  BY <1>1 DEF IInv
<1>6. ASSUME NEW m \in Node, keypair'[m] # None PROVE KeyPairOK(m)'
  BY <1>2, <1>3, <1>5, <1>6 DEF IInv, KeyPairOK
<1>7. ASSUME NEW m \in Node, NEW peer \in Node, NEW role \in BOOLEAN, channel'[m][peer][role] # None
      PROVE  ChannelOK(m, peer, role)'
  <2>1. ChannelOK(m, peer, role)
    BY <1>1, <1>7 DEF IInv
  <2>2. keypair'[m] = keypair[m] /\ keypair'[peer] = keypair[peer]
    BY <1>4, <2>1 DEF ChannelOK
  <2> QED
    BY <1>1, <2>1, <2>2
       DEF ChannelOK, Derived, Randomizer, points_at, funding_secret_key_for
<1> QED
  BY <1>1, <1>3, <1>6, <1>7 DEF IInv

\* Keys are derived from names that are known and never change.
LEMMA DeriveIInv ==
  ASSUME IInv, NEW n \in Node, NEW peer \in Node, NEW role \in BOOLEAN, derive(n, peer, role)
  PROVE  IInv'
<1> DEFINE keys == Derived(n, peer, role)
<1>1. /\ keypair[n] # None /\ keypair[peer] # None
      /\ channel' = [channel EXCEPT ![n][peer][role] = keys]
      /\ keypair' = keypair /\ stream' = stream
  BY DEF derive, Derived, Randomizer
<1> HIDE DEF keys
<1>2. /\ DOMAIN channel' = Node
      /\ \A m \in Node : DOMAIN channel'[m] = Node
      /\ \A m, p \in Node : DOMAIN channel'[m][p] = BOOLEAN
  BY <1>1 DEF IInv
<1>3. channel'[n][peer][role] = keys
  BY <1>1 DEF IInv
<1>4. \A m, p \in Node, r \in BOOLEAN :
        <<m, p, r>> # <<n, peer, role>> => channel'[m][p][r] = channel[m][p][r]
  BY <1>1 DEF IInv
<1>5. \A m, p \in Node, r \in BOOLEAN : Derived(m, p, r)' = Derived(m, p, r)
  BY <1>1 DEF Derived, Randomizer, points_at, funding_secret_key_for
<1>6. ASSUME NEW m \in Node, NEW p \in Node, NEW r \in BOOLEAN, channel'[m][p][r] # None
      PROVE  ChannelOK(m, p, r)'
  <2>1. CASE m = n /\ p = peer /\ r = role
    BY <1>1, <1>3, <1>5, <2>1 DEF ChannelOK, keys
  <2>2. CASE ~(m = n /\ p = peer /\ r = role)
    BY <1>1, <1>4, <1>5, <1>6, <2>2 DEF IInv, ChannelOK
  <2> QED
    BY <2>1, <2>2
<1>7. \A m \in Node : keypair'[m] # None => KeyPairOK(m)'
  BY <1>1 DEF IInv, KeyPairOK
<1> QED
  BY <1>1, <1>2, <1>6, <1>7 DEF IInv

\* The invariant holds throughout.
THEOREM Invariant == Spec => []IInv
<1>1. Init => IInv
  BY DEF Init, IInv
<1>2. IInv /\ [Next]_vars => IInv'
  <2>1. IInv /\ UNCHANGED vars => IInv'
    <3> SUFFICES ASSUME IInv, UNCHANGED vars PROVE IInv'
      OBVIOUS
    <3>1. stream' = stream /\ keypair' = keypair /\ channel' = channel
      BY DEF vars
    <3>2. \A n \in Node : KeyPairOK(n)' <=> KeyPairOK(n)
      BY <3>1 DEF KeyPairOK
    <3>3. \A n, peer \in Node, role \in BOOLEAN :
            ChannelOK(n, peer, role)' <=> ChannelOK(n, peer, role)
      BY <3>1 DEF ChannelOK, Derived, Randomizer, points_at, funding_secret_key_for
    <3> QED
      BY <3>1, <3>2, <3>3 DEF IInv
  <2> QED
    BY <2>1, NewIInv, DeriveIInv DEF Next
<1> QED
  BY <1>1, <1>2, PTL DEF Spec

-----------------------------------------------------------------------------
(* The properties *)

\* The key by which peers know a node is the point of its secret key (seed.rs:38-55).
THEOREM KeysAreKnown == Spec => []KeyIsKnown
<1>1. IInv => KeyIsKnown
  <2> SUFFICES ASSUME IInv, NEW n \in Node, keypair[n] # None
               PROVE  /\ keypair[n].secret_key \in Scalar
                      /\ mul(keypair[n].secret_key, 1) = keypair[n].public_key
                      /\ to_point(to_xonly(keypair[n].public_key)) = keypair[n].public_key
    BY DEF KeyIsKnown
  <2>1. KeyPairOK(n)
    BY DEF IInv
  <2>2. keypair[n].secret_key \in 0 .. Q - 1
    BY <2>1, GroupAssumption DEF KeyPairOK, KeyPair, Scalar
  <2> QED
    BY <2>1, <2>2, TimesG, XOnlyTells DEF KeyPairOK, KeyPair
<1> QED
  BY <1>1, Invariant, PTL

\* Both sides make the same randomizer of their own secret and the other's name.
LEMMA SameRandomizer ==
  ASSUME IInv, NEW n \in Node, NEW peer \in Node, KeyPairOK(n), KeyPairOK(peer)
  PROVE  Randomizer(n, peer, TRUE) = Randomizer(peer, n, FALSE)
<1>1. /\ to_point(to_xonly(keypair[n].public_key)) = keypair[n].public_key
      /\ to_point(to_xonly(keypair[peer].public_key)) = keypair[peer].public_key
  BY XOnlyTells DEF KeyPairOK, KeyPair
<1>2. mul(keypair[n].secret_key, keypair[peer].public_key)
        = mul(keypair[peer].secret_key, keypair[n].public_key)
  <2>1. keypair[n].public_key \in Int /\ keypair[peer].public_key \in Int
    BY GroupAssumption DEF KeyPairOK, KeyPair, Point
  <2> QED
    BY <2>1, Commutes DEF KeyPairOK
<1> QED
  BY <1>1, <1>2 DEF Randomizer, from_ecdh

\* Two nodes that never exchange the keys of their channel have the same ones
\* (rs_ecdsa.rs:523-561).
THEOREM KeysAgree == Spec => []SameKeys
<1>1. IInv => SameKeys
  <2> SUFFICES ASSUME IInv, NEW n \in Node, NEW peer \in Node,
                      channel[n][peer][TRUE] # None, channel[peer][n][FALSE] # None
               PROVE  /\ channel[n][peer][TRUE].funding = channel[peer][n][FALSE].funding
                      /\ channel[n][peer][TRUE].balance = channel[peer][n][FALSE].balance
    BY DEF SameKeys
  <2>1. ChannelOK(n, peer, TRUE) /\ ChannelOK(peer, n, FALSE)
    BY DEF IInv
  <2>2. KeyPairOK(n) /\ KeyPairOK(peer)
    BY <2>1 DEF IInv, ChannelOK
  <2>3. Randomizer(n, peer, TRUE) = Randomizer(peer, n, FALSE)
    BY <2>2, SameRandomizer
  <2>4. /\ channel[n][peer][TRUE] = Derived(n, peer, TRUE)
        /\ channel[peer][n][FALSE] = Derived(peer, n, FALSE)
    BY <2>1 DEF ChannelOK
  <2>5. /\ channel[n][peer][TRUE].funding = points_at(Randomizer(n, peer, TRUE), "Funding")
        /\ channel[n][peer][TRUE].balance = points_at(Randomizer(n, peer, TRUE), "Balance")
        /\ channel[peer][n][FALSE].funding = points_at(Randomizer(peer, n, FALSE), "Funding")
        /\ channel[peer][n][FALSE].balance = points_at(Randomizer(peer, n, FALSE), "Balance")
    BY <2>4 DEF Derived
  <2> QED
    BY <2>3, <2>5, Zenon
<1> QED
  BY <1>1, Invariant, PTL

\* Each side has the secret of its point in the funding output (rs_ecdsa.rs:138-151).
THEOREM KeysSign == Spec => []OwnKeySigns
<1>1. IInv => OwnKeySigns
  <2> SUFFICES ASSUME IInv, NEW n \in Node, NEW peer \in Node, NEW role \in BOOLEAN,
                      channel[n][peer][role] # None
               PROVE  mul(channel[n][peer][role].funding_secret_key, 1) =
                        IF role THEN channel[n][peer][role].funding.point1
                        ELSE channel[n][peer][role].funding.point2
    BY DEF OwnKeySigns
  <2> DEFINE pr == Randomizer(n, peer, role)
             r == IF role THEN points_at(pr, "Funding").r1 ELSE points_at(pr, "Funding").r2
             base == IF role THEN pr.base_1 ELSE pr.base_2
  <2>1. ChannelOK(n, peer, role) /\ KeyPairOK(n) /\ KeyPairOK(peer)
    BY DEF IInv, ChannelOK
  <2>2. base = keypair[n].secret_key /\ base \in Int
    BY <2>1, GroupAssumption DEF Randomizer, from_ecdh, KeyPairOK, KeyPair, Scalar
  <2>3. r \in Int
    <3>1. pr.shared_secret \in Point
      <4>1. pr.shared_secret = mul(keypair[n].secret_key, keypair[peer].public_key)
        BY <2>1, XOnlyTells DEF Randomizer, from_ecdh, KeyPairOK, KeyPair
      <4>2. keypair[n].secret_key \in Scalar /\ keypair[peer].public_key \in Point
        BY <2>1 DEF KeyPairOK, KeyPair
      <4> QED
        BY <4>1, <4>2, TimesInGroup
    <3>2. \A k \in {1, 2} : stream[<<pr.shared_secret, "Funding", k>>] \in Scalar
      <4>1. stream \in [Point \X PointKind \X (1 .. 2) -> Scalar]
        BY GroupAssumption DEF IInv
      <4>2. \A k \in {1, 2} : <<pr.shared_secret, "Funding", k>> \in Point \X PointKind \X (1 .. 2)
        BY <3>1 DEF PointKind
      <4> QED
        BY <4>1, <4>2
    <3> HIDE DEF pr
    <3>3. r = IF role THEN stream[<<pr.shared_secret, "Funding", 1>>]
              ELSE stream[<<pr.shared_secret, "Funding", 2>>]
      BY DEF points_at
    <3> QED
      BY <3>2, <3>3, GroupAssumption DEF Scalar
  <2>4. channel[n][peer][role].funding_secret_key = add(base, r)
    BY <2>1, <2>2 DEF ChannelOK, Derived, funding_secret_key_for
  <2>5. add(base, r) = IF role THEN channel[n][peer][role].funding.point1
                       ELSE channel[n][peer][role].funding.point2
    <3>1. channel[n][peer][role].funding = points_at(pr, "Funding")
      BY <2>1 DEF ChannelOK, Derived
    <3> HIDE DEF pr
    <3> QED
      BY <3>1 DEF points_at
  <2> HIDE DEF r, base
  <2>6. add(base, r) \in 0 .. Q - 1
    BY <2>2, <2>3, ModRange DEF add
  <2> QED
    BY <2>4, <2>5, <2>6, TimesG
<1> QED
  BY <1>1, Invariant, PTL
=============================================================================
