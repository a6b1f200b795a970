---------------------------- MODULE FieldProofs -----------------------------
(***************************************************************************)
(* The field: what is computed on shares of its elements, and what is      *)
(* proved with its polynomials.                                            *)
(*                                                                         *)
(* First, shares compute what a plain program computes, for every prime,   *)
(* every number of parties and however the shares fell: the protocols on   *)
(* bits and on field elements one by one, then the invariant of the        *)
(* parties' program.  A shared bit is the parity of a set of parties; a    *)
(* shared element is a total, and two numbers stand for the same element   *)
(* when they differ by a multiple of the prime.                            *)
(*                                                                         *)
(* Then the lookup proof, on the same arithmetic: the value of a           *)
(* polynomial, what the operations on polynomials do to it, and that the   *)
(* verifier accepts what the prover has divided without a remainder.       *)
(* Last, row by row: polynomials from their values on the domain, what the *)
(* sum of the constraints says of the columns, and that columns which are  *)
(* a lookup are divided without a remainder.                               *)
(***************************************************************************)
EXTENDS Shares, LookupProof, AlgorithmProofs

LEMMA TotalIs == \A x, k : Total(x, k) = SumTo(x, k)
BY Zenon DEF Total, SumTo

LEMMA BitsAreFinite ==
    ASSUME NEW x \in SUBSET Party
    PROVE  IsFiniteSet(x) /\ Cardinality(x) \in Nat
<1>1. IsFiniteSet(Party)
  BY FS_Interval, NAssumption DEF Party
<1> QED BY <1>1, FS_Subset, FS_CardinalityType

LEMMA KingIsParty == King \in Party /\ {King} \in SUBSET Party
BY NAssumption DEF King, Party

LEMMA Parity ==
    ASSUME NEW a \in Nat, NEW b \in Nat, NEW c \in Nat, c <= a, c <= b
    PROVE  ((a - c) + (b - c)) % 2 = 1 <=> ((a % 2 = 1) # (b % 2 = 1))
OBVIOUS

LEMMA XorIsShared ==
    ASSUME NEW x \in SUBSET Party, NEW y \in SUBSET Party
    PROVE  Xor(x, y) \in SUBSET Party
BY DEF Xor

\* Addition of shared bits is addition of what they open to.
THEOREM XorOpens ==
    ASSUME NEW x \in SUBSET Party, NEW y \in SUBSET Party
    PROVE  OpenBit(Xor(x, y)) <=> (OpenBit(x) # OpenBit(y))
<1> DEFINE a == Cardinality(x)
           b == Cardinality(y)
           c == Cardinality(x \cap y)
<1>1. /\ IsFiniteSet(x) /\ IsFiniteSet(y) /\ IsFiniteSet(x \cap y)
      /\ a \in Nat /\ b \in Nat /\ c \in Nat
  BY BitsAreFinite
<1>2. /\ IsFiniteSet(x \ y) /\ Cardinality(x \ y) = a - c
      /\ IsFiniteSet(y \ x) /\ Cardinality(y \ x) = b - c
  <2>1. Cardinality(x \ y) = a - c
    BY <1>1, FS_Difference
  <2>2. Cardinality(y \ x) = Cardinality(y) - Cardinality(y \cap x)
    BY <1>1, FS_Difference
  <2>3. y \cap x = x \cap y
    OBVIOUS
  <2> QED BY <2>1, <2>2, <2>3, <1>1, BitsAreFinite
<1>3. c <= a /\ c <= b
  <2>1. x \cap y \subseteq x /\ x \cap y \subseteq y
    OBVIOUS
  <2> QED BY <1>1, <2>1, FS_Subset
<1>4. Cardinality(Xor(x, y)) = (a - c) + (b - c)
  <2>1. (x \ y) \cap (y \ x) = {}
    OBVIOUS
  <2>2. Cardinality((x \ y) \cup (y \ x)) =
           Cardinality(x \ y) + Cardinality(y \ x) - Cardinality((x \ y) \cap (y \ x))
    BY <1>2, FS_Union
  <2>3. Cardinality((x \ y) \cap (y \ x)) = 0
    BY <2>1, FS_EmptySet
  <2> QED BY <1>1, <1>2, <2>2, <2>3 DEF Xor
<1> HIDE DEF a, b, c
<1>5. OpenBit(Xor(x, y)) <=> ((a % 2 = 1) # (b % 2 = 1))
  BY <1>1, <1>3, <1>4, Parity DEF OpenBit
<1> QED BY <1>5 DEF OpenBit, a, b

LEMMA KingsBit ==
    ASSUME NEW v \in BOOLEAN
    PROVE  If(v, {King}) \in SUBSET Party /\ (OpenBit(If(v, {King})) <=> v)
<1>1. Cardinality({King}) = 1 /\ Cardinality({}) = 0
  BY FS_Singleton, FS_EmptySet
<1> QED BY <1>1, KingIsParty DEF If, OpenBit

\* Negation: one party, the king, flips its share.
THEOREM NotOpens ==
    ASSUME NEW x \in SUBSET Party
    PROVE  OpenBit(Not(x)) <=> ~ OpenBit(x)
<1>1. OpenBit({King})
  BY KingsBit DEF If
<1>2. OpenBit(Xor(x, {King})) <=> (OpenBit(x) # OpenBit({King}))
  BY XorOpens, KingIsParty
<1> QED BY <1>1, <1>2 DEF Not, OpenBit

\* Multiplication with the dealer's triple: the product of the two openings is
\* public, and one party, the king, adds it.
THEOREM AndOpens ==
    ASSUME NEW x \in SUBSET Party, NEW y \in SUBSET Party
    PROVE  /\ And(x, y) \in SUBSET Party
           /\ OpenBit(And(x, y)) <=> OpenBit(x) /\ OpenBit(y)
<1> DEFINE d == OpenBit(Xor(x, {King}))
           e == OpenBit(Xor(y, {King}))
           u == Xor({King}, If(d, {King}))
           v == Xor(If(e, {King}), If(d /\ e, {King}))
<1>1. d \in BOOLEAN /\ e \in BOOLEAN /\ (d /\ e) \in BOOLEAN
  BY DEF OpenBit
<1>2. (d <=> ~ OpenBit(x)) /\ (e <=> ~ OpenBit(y))
  BY NotOpens DEF Not
<1>3. And(x, y) = Xor(u, v)
  BY DEF And
<1>4. OpenBit({King})
  BY KingsBit DEF If
<1> HIDE DEF d, e
<1>5. /\ If(d, {King}) \in SUBSET Party /\ (OpenBit(If(d, {King})) <=> d)
      /\ If(e, {King}) \in SUBSET Party /\ (OpenBit(If(e, {King})) <=> e)
      /\ If(d /\ e, {King}) \in SUBSET Party /\ (OpenBit(If(d /\ e, {King})) <=> (d /\ e))
  BY <1>1, KingsBit
<1>6. u \in SUBSET Party /\ (OpenBit(u) <=> (OpenBit({King}) # OpenBit(If(d, {King}))))
  BY <1>5, KingIsParty, XorIsShared, XorOpens
<1>7. v \in SUBSET Party /\ (OpenBit(v) <=> (OpenBit(If(e, {King})) # OpenBit(If(d /\ e, {King}))))
  BY <1>5, XorIsShared, XorOpens
<1> HIDE DEF u, v
<1>8. Xor(u, v) \in SUBSET Party /\ (OpenBit(Xor(u, v)) <=> (OpenBit(u) # OpenBit(v)))
  BY <1>6, <1>7, XorIsShared, XorOpens
<1>9. OpenBit(u) <=> ~ d
  BY <1>4, <1>5, <1>6 DEF OpenBit
<1>10. OpenBit(v) <=> e /\ ~ d
  BY <1>5, <1>7 DEF OpenBit
<1>11. OpenBit(Xor(u, v)) <=> ~ d /\ ~ e
  BY <1>1, <1>8, <1>9, <1>10 DEF OpenBit
<1> QED BY <1>2, <1>3, <1>8, <1>11

\* Disjunction, from one multiplication.
THEOREM OrOpens ==
    ASSUME NEW x \in SUBSET Party, NEW y \in SUBSET Party
    PROVE  /\ Or(x, y) \in SUBSET Party
           /\ OpenBit(Or(x, y)) <=> OpenBit(x) \/ OpenBit(y)
<1>1. Xor(x, y) \in SUBSET Party /\ And(x, y) \in SUBSET Party
  BY XorIsShared, AndOpens
<1>2. OpenBit(Or(x, y)) <=> (OpenBit(Xor(x, y)) # OpenBit(And(x, y)))
  BY <1>1, XorOpens DEF Or
<1>3. Or(x, y) \in SUBSET Party
  BY <1>1, XorIsShared DEF Or
<1>4. OpenBit(Xor(x, y)) <=> (OpenBit(x) # OpenBit(y))
  BY XorOpens
<1>5. OpenBit(And(x, y)) <=> OpenBit(x) /\ OpenBit(y)
  BY AndOpens
<1> QED BY <1>2, <1>3, <1>4, <1>5 DEF OpenBit

-----------------------------------------------------------------------------
(* Sharings of field elements: the values, and the MACs next to them.      *)

Sharing == [Party -> Field]

\* x is a sharing of v, and so are its MACs: the key is 1.
Opens(x, v) ==
    /\ x.val \in Sharing /\ x.mac \in Sharing
    /\ Same(SumTo(x.val, N), v) /\ Same(SumTo(x.mac, N), v)

LEMMA PartiesAre == N \in Nat \ {0} /\ Party = 0 .. N-1 /\ 0 \in Party /\ King = 0
BY NAssumption DEF Party, King

LEMMA ShareIs ==
    ASSUME NEW x \in Sharing, NEW p \in Party
    PROVE  x[p] \in Field /\ x[p] \in Int
<1>1. x[p] \in Field
  BY DEF Sharing
<1> QED BY <1>1, ModulusIs DEF Field

LEMMA SharesAreNumbers ==
    ASSUME NEW x \in Sharing
    PROVE  Summands(x, N) /\ SumTo(x, N) \in Int
<1>1. Summands(x, N)
  BY PartiesAre, ShareIs DEF Summands
<1>2. PICK u : Sums(u, x, N) /\ SumTo(x, N) = u[N]
  BY <1>1, PartiesAre, SumToIs
<1> QED BY <1>1, <1>2, PartiesAre DEF Sums

Combines(z, c, x, d, y) == \A p \in Party : Same(z[p], c * x[p] + d * y[p])

\* A linear operation on the shares is one on what they open to.
LEMMA SharingCombines ==
    ASSUME NEW x \in Sharing, NEW y \in Sharing, NEW z \in Sharing, NEW c \in Int, NEW d \in Int,
           NEW v \in Int, NEW w \in Int, Same(SumTo(x, N), v), Same(SumTo(y, N), w),
           Combines(z, c, x, d, y)
    PROVE  Same(SumTo(z, N), c * v + d * w)
<1>1. Summands(x, N) /\ Summands(y, N) /\ Summands(z, N)
  BY SharesAreNumbers
<1>2. \A i \in 0 .. N-1 : Same(z[i], c * x[i] + d * y[i])
  BY PartiesAre DEF Combines
<1>3. /\ SumTo(x, N) \in Int /\ SumTo(y, N) \in Int /\ SumTo(z, N) \in Int
      /\ Same(SumTo(z, N), c * SumTo(x, N) + d * SumTo(y, N))
  BY <1>1, <1>2, PartiesAre, SumsCombine
<1> DEFINE s == SumTo(x, N)
           t == SumTo(y, N)
           r == SumTo(z, N)
<1>4. s \in Int /\ t \in Int /\ r \in Int /\ Same(s, v) /\ Same(t, w) /\ Same(r, c * s + d * t)
  BY <1>3
<1> HIDE DEF s, t, r
<1>5. Same(c * s, c * v) /\ Same(d * t, d * w)
  BY <1>4, SameItself, SameProduct
<1>6. c * s \in Int /\ c * v \in Int /\ d * t \in Int /\ d * w \in Int
  BY <1>4
<1>7. Same(c * s + d * t, c * v + d * w)
  BY <1>5, <1>6, SameSum
<1>8. c * s + d * t \in Int /\ c * v + d * w \in Int
  BY <1>6
<1> QED BY <1>4, <1>7, <1>8, SameOn DEF r

LEMMA AddedOpens ==
    ASSUME NEW x \in Sharing, NEW y \in Sharing, NEW v \in Int, NEW w \in Int,
           Same(SumTo(x, N), v), Same(SumTo(y, N), w)
    PROVE  Added(x, y) \in Sharing /\ Same(SumTo(Added(x, y), N), v + w)
<1> DEFINE z == Added(x, y)
<1>1. \A p \in Party : x[p] \in Int /\ y[p] \in Int
  BY ShareIs
<1>2. \A p \in Party : z[p] = (x[p] + y[p]) % Modulus
  BY DEF Added
<1>3. \A p \in Party : z[p] \in Field /\ Same(z[p], 1 * x[p] + 1 * y[p])
  <2> HIDE DEF z
  <2> SUFFICES ASSUME NEW p \in Party PROVE z[p] \in Field /\ Same(z[p], 1 * x[p] + 1 * y[p])
    OBVIOUS
  <2>1. x[p] + y[p] \in Int /\ 1 * x[p] + 1 * y[p] = x[p] + y[p]
    BY <1>1
  <2> QED BY <1>2, <2>1, Remainder
<1>4. z \in Sharing
  BY <1>3 DEF Added, Sharing
<1> HIDE DEF z
<1>5. Same(SumTo(z, N), 1 * v + 1 * w)
  <2>1. Combines(z, 1, x, 1, y)
    BY <1>3 DEF Combines
  <2> QED BY <1>4, <2>1, 1 \in Int, SharingCombines, Zenon
<1>6. 1 * v + 1 * w = v + w
  OBVIOUS
<1> QED BY <1>4, <1>5, <1>6 DEF z

LEMMA SubtractedOpens ==
    ASSUME NEW x \in Sharing, NEW y \in Sharing, NEW v \in Int, NEW w \in Int,
           Same(SumTo(x, N), v), Same(SumTo(y, N), w)
    PROVE  Subtracted(x, y) \in Sharing /\ Same(SumTo(Subtracted(x, y), N), v - w)
<1> DEFINE z == Subtracted(x, y)
           d == 0 - 1
<1>1. \A p \in Party : x[p] \in Int /\ y[p] \in Int
  BY ShareIs
<1>2. \A p \in Party : z[p] = (x[p] - y[p]) % Modulus
  BY DEF Subtracted
<1>3. \A p \in Party : z[p] \in Field /\ Same(z[p], 1 * x[p] + d * y[p])
  <2> HIDE DEF z
  <2> SUFFICES ASSUME NEW p \in Party PROVE z[p] \in Field /\ Same(z[p], 1 * x[p] + d * y[p])
    OBVIOUS
  <2>1. x[p] - y[p] \in Int /\ 1 * x[p] + d * y[p] = x[p] - y[p]
    BY <1>1
  <2> QED BY <1>2, <2>1, Remainder
<1>4. z \in Sharing
  BY <1>3 DEF Subtracted, Sharing
<1> HIDE DEF z
<1>5. Same(SumTo(z, N), 1 * v + d * w)
  <2>1. d \in Int
    OBVIOUS
  <2> HIDE DEF d
  <2>2. Combines(z, 1, x, d, y)
    BY <1>3 DEF Combines
  <2> QED BY <1>4, <2>1, <2>2, 1 \in Int, SharingCombines, Zenon
<1>6. 1 * v + d * w = v - w
  OBVIOUS
<1> QED BY <1>4, <1>5, <1>6 DEF z

LEMMA ScaledOpens ==
    ASSUME NEW x \in Sharing, NEW c \in Int, NEW v \in Int, Same(SumTo(x, N), v)
    PROVE  Scaled(x, c) \in Sharing /\ Same(SumTo(Scaled(x, c), N), v * c)
<1> DEFINE z == Scaled(x, c)
<1>1. \A p \in Party : x[p] \in Int
  BY ShareIs
<1>2. \A p \in Party : z[p] = (x[p] * c) % Modulus
  BY DEF Scaled
<1>3. \A p \in Party : z[p] \in Field /\ Same(z[p], c * x[p] + 0 * x[p])
  <2> HIDE DEF z
  <2> SUFFICES ASSUME NEW p \in Party PROVE z[p] \in Field /\ Same(z[p], c * x[p] + 0 * x[p])
    OBVIOUS
  <2>1. x[p] * c \in Int /\ c * x[p] + 0 * x[p] = x[p] * c
    BY <1>1
  <2> QED BY <1>2, <2>1, Remainder
<1>4. z \in Sharing
  BY <1>3 DEF Scaled, Sharing
<1> HIDE DEF z
<1>5. Same(SumTo(z, N), c * v + 0 * v)
  <2>1. Combines(z, c, x, 0, x)
    BY <1>3 DEF Combines
  <2> QED BY <1>4, <2>1, 0 \in Int, SharingCombines, Zenon
<1>6. c * v + 0 * v = v * c
  OBVIOUS
<1> QED BY <1>4, <1>5, <1>6 DEF z

LEMMA KingHoldsOpens ==
    ASSUME NEW c \in Field
    PROVE  KingHolds(c) \in Sharing /\ SumTo(KingHolds(c), N) = c
<1> DEFINE x == KingHolds(c)
<1>1. x \in Sharing
  BY ModulusIs DEF KingHolds, Sharing
<1>2. x[0] = c /\ \A i \in 1 .. N-1 : x[i] = 0
  BY PartiesAre DEF KingHolds
<1>3. c \in Int /\ N \in Nat \ {0}
  BY ModulusIs, PartiesAre
<1> HIDE DEF x
<1>4. SumTo(x, N) = c
  BY <1>2, <1>3, SumOfFirst
<1> QED BY <1>1, <1>4 DEF x

-----------------------------------------------------------------------------
(* The protocols on shared values.                                         *)

\* A sum of sharings, values and MACs alike.
LEMMA AddOpens ==
    ASSUME NEW x, NEW y, NEW v \in Int, NEW w \in Int, Opens(x, v), Opens(y, w)
    PROVE  Opens(AddShares(x, y), v + w)
<1>1. AddShares(x, y).val = Added(x.val, y.val) /\ AddShares(x, y).mac = Added(x.mac, y.mac)
  BY DEF AddShares
<1> QED BY <1>1, AddedOpens DEF Opens

LEMMA SubtractOpens ==
    ASSUME NEW x, NEW y, NEW v \in Int, NEW w \in Int, Opens(x, v), Opens(y, w)
    PROVE  Opens(SubtractShares(x, y), v - w)
<1>1. /\ SubtractShares(x, y).val = Subtracted(x.val, y.val)
      /\ SubtractShares(x, y).mac = Subtracted(x.mac, y.mac)
  BY DEF SubtractShares
<1> QED BY <1>1, SubtractedOpens DEF Opens

LEMMA ScaleOpens ==
    ASSUME NEW x, NEW v \in Int, NEW c \in Int, Opens(x, v)
    PROVE  Opens(Scale(x, c), v * c)
<1>1. Scale(x, c).val = Scaled(x.val, c) /\ Scale(x, c).mac = Scaled(x.mac, c)
  BY DEF Scale
<1> QED BY <1>1, ScaledOpens DEF Opens

\* A constant is the king's to hold, in the value and in the MAC.
LEMMA ConstantOpens ==
    ASSUME NEW c \in Field
    PROVE  Opens([val |-> KingHolds(c), mac |-> KingHolds(c)], c)
<1>1. c \in Int
  BY ModulusIs DEF Field
<1> QED BY <1>1, KingHoldsOpens, SameItself DEF Opens

LEMMA OneOpens == Opens(One, 1)
BY ConstantOpens, ModulusIs DEF One

LEMMA ShiftOpens ==
    ASSUME NEW x, NEW v \in Int, NEW c \in Field, Opens(x, v)
    PROVE  Opens(Shift(x, c), v + c)
<1>1. c \in Int
  BY ModulusIs DEF Field
<1> QED BY <1>1, ConstantOpens, AddOpens DEF Shift

LEMMA OpensAs ==
    ASSUME NEW x, NEW v \in Int, NEW w \in Int, Opens(x, v), Same(v, w)
    PROVE  Opens(x, w)
<1>1. SumTo(x.val, N) \in Int /\ SumTo(x.mac, N) \in Int
  BY SharesAreNumbers DEF Opens
<1> QED BY <1>1, SameOn DEF Opens

LEMMA OpenIs ==
    ASSUME NEW x, NEW v \in Int, Opens(x, v)
    PROVE  Open(x) = v % Modulus /\ Open(x) \in Field /\ Same(Open(x), v)
<1>1. SumTo(x.val, N) \in Int /\ Same(SumTo(x.val, N), v)
  BY SharesAreNumbers DEF Opens
<1>2. Open(x) = SumTo(x.val, N) % Modulus
  BY TotalIs DEF Open, SumOf
<1>3. Open(x) = v % Modulus
  BY <1>1, <1>2, SameRemainder
<1> QED BY <1>3, Remainder

\* The check on the MACs passes, whenever a sharing and its MACs open to the
\* same value.
LEMMA SharingChecksOut ==
    ASSUME NEW x, NEW v \in Int, Opens(x, v)
    PROVE  ChecksOut(x)
<1> DEFINE c == Open(x)
           z == Subtracted(KingHolds(c), x.mac)
<1>1. c \in Field /\ c \in Int /\ Same(c, v)
  BY OpenIs, ModulusIs DEF Field
<1>2. KingHolds(c) \in Sharing /\ SumTo(KingHolds(c), N) = c
  BY <1>1, KingHoldsOpens
<1>3. x.mac \in Sharing /\ Same(SumTo(x.mac, N), v)
  BY DEF Opens
<1> HIDE DEF c
<1>4. Same(SumTo(KingHolds(c), N), v)
  BY <1>1, <1>2
<1>5. z \in Sharing /\ Same(SumTo(z, N), v - v)
  BY <1>2, <1>3, <1>4, SubtractedOpens
<1>6. ChecksOut(x) <=> SumTo(z, N) % Modulus = 0
  BY TotalIs DEF ChecksOut, SumOf, c
<1> HIDE DEF z
<1>7. v - v = 0 /\ SumTo(z, N) \in Int /\ 0 % Modulus = 0
  BY <1>5, SharesAreNumbers, ModulusIs
<1> QED BY <1>5, <1>6, <1>7, SameRemainder

\* Opened factors, masked by the dealer's ones, make up the product.
LEMMA Unmask ==
    ASSUME NEW v \in Int, NEW w \in Int, NEW a \in Int, NEW b \in Int,
           Same(a, v + 1), Same(b, w + 1)
    PROVE  Same(((1 - a) - b) + a * b, v * w)
<1>1. v + 1 \in Int /\ w + 1 \in Int
  OBVIOUS
<1>2. Same(a * b, (v + 1) * (w + 1))
  BY <1>1, SameProduct
<1>3. Same(1, 1)
  BY SameItself
<1>4. Same(1 - a, 1 - (v + 1))
  BY <1>1, <1>3, SameDifference
<1>5. Same((1 - a) - b, (1 - (v + 1)) - (w + 1))
  BY <1>1, <1>4, SameDifference
<1>6. Same(((1 - a) - b) + a * b, ((1 - (v + 1)) - (w + 1)) + (v + 1) * (w + 1))
  BY <1>1, <1>2, <1>5, SameSum
<1>7. ((1 - (v + 1)) - (w + 1)) + (v + 1) * (w + 1) = v * w
  <2>1. (v + 1) * (w + 1) = v * w + v + w + 1
    OBVIOUS
  <2> QED BY <2>1
<1> QED BY <1>6, <1>7

\* The product of two sharings, with the dealer's triple, opens to the product
\* of what they open to, and so do its MACs: for every number of parties, over
\* every field, and however the shares fell (FieldShare::mul).
THEOREM MulOpens ==
    ASSUME NEW s, NEW o, NEW v \in Int, NEW w \in Int, Opens(s, v), Opens(o, w)
    PROVE  Opens(Mul(s, o), v * w)
<1> DEFINE sx == Open(AddShares(s, One))
           oy == Open(AddShares(o, One))
           z1 == SubtractShares(One, Scale(One, sx))
           z  == SubtractShares(z1, Scale(One, oy))
           c  == (sx * oy) % Modulus
<1>1. Mul(s, o) = Shift(z, c)
  BY DEF Mul
<1>2. Opens(AddShares(s, One), v + 1) /\ Opens(AddShares(o, One), w + 1)
  BY OneOpens, AddOpens
<1>3. sx \in Field /\ oy \in Field /\ Same(sx, v + 1) /\ Same(oy, w + 1)
  BY <1>2, OpenIs
<1> HIDE DEF sx, oy
<1>4. sx \in Int /\ oy \in Int
  BY <1>3, ModulusIs DEF Field
<1>5. Opens(Scale(One, sx), sx) /\ Opens(Scale(One, oy), oy)
  <2>1. Opens(Scale(One, sx), 1 * sx) /\ Opens(Scale(One, oy), 1 * oy)
    BY <1>4, OneOpens, ScaleOpens
  <2> QED BY <1>4, <2>1
<1>6. Opens(z1, 1 - sx)
  BY <1>4, <1>5, OneOpens, SubtractOpens
<1> HIDE DEF z1
<1>7. Opens(z, (1 - sx) - oy)
  BY <1>4, <1>5, <1>6, SubtractOpens
<1> HIDE DEF z
<1>8. c \in Field /\ Same(c, sx * oy) /\ sx * oy \in Int
  BY <1>4, Remainder
<1> HIDE DEF c
<1>9. c \in Int
  BY <1>8, ModulusIs DEF Field
<1>10. Opens(Shift(z, c), ((1 - sx) - oy) + c)
  BY <1>4, <1>7, <1>8, ShiftOpens
<1>11. Same(((1 - sx) - oy) + c, v * w)
  <2>1. Same((1 - sx) - oy, (1 - sx) - oy)
    BY <1>4, SameItself
  <2>2. Same(((1 - sx) - oy) + c, ((1 - sx) - oy) + sx * oy)
    BY <1>4, <1>8, <1>9, <2>1, SameSum
  <2>3. Same(((1 - sx) - oy) + sx * oy, v * w)
    BY <1>3, <1>4, Unmask
  <2> QED BY <1>4, <1>8, <1>9, <2>2, <2>3, SameOn
<1>12. Opens(Shift(z, c), v * w)
  BY <1>4, <1>9, <1>10, <1>11, OpensAs
<1> QED BY <1>1, <1>12

-----------------------------------------------------------------------------
(* Inverses.                                                               *)

\* A sharing of anything but zero opens, inverted, to the inverse: the product
\* with the dealer's mask is opened, inverted in the open and unmasked.
THEOREM InvOpens ==
    ASSUME NEW s, NEW v \in Field, v # 0, Opens(s, v)
    PROVE  Opens(Inv(s), FieldInverse(v))
<1>1. v \in Int /\ v % Modulus = v
  BY ModulusIs DEF Field
<1>2. Opens(Mul(One, s), 1 * v)
  BY <1>1, OneOpens, MulOpens
<1>3. Open(Mul(One, s)) = v
  BY <1>1, <1>2, OpenIs
<1>4. FieldInverse(v) \in Int
  BY FieldInverseIs, ModulusIs DEF Field
<1>5. Opens(Scale(One, FieldInverse(v)), 1 * FieldInverse(v))
  BY <1>4, OneOpens, ScaleOpens
<1>6. 1 * FieldInverse(v) = FieldInverse(v)
  BY <1>4
<1> QED BY <1>3, <1>5, <1>6 DEF Inv

-----------------------------------------------------------------------------
(* Not equal, by the little theorem of Fermat.                             *)

\* The bits that a field element has.
LEMMA BitLengthIs ==
    /\ BitLength \in Nat \ {0}
    /\ 2 ^ (BitLength - 1) <= Modulus /\ Modulus < 2 ^ BitLength
<1> DEFINE S == {l \in Nat : Modulus < 2 ^ l}
<1>1. Modulus \in S
  BY PowerExceeds, ModulusIs
<1>2. S \in SUBSET Nat
  OBVIOUS
<1>3. PICK l \in S : \A k \in S : l <= k
  <2> HIDE DEF S
  <2> QED BY <1>1, <1>2, LeastNatural
<1>4. l # 0
  <2>1. 2 ^ 0 = 1
    BY 0 \in Nat, PowerStep
  <2> SUFFICES ASSUME l = 0 PROVE FALSE
    OBVIOUS
  <2>2. Modulus < 2 ^ 0
    BY <1>3
  <2> QED BY <2>1, <2>2, ModulusIs
<1>5. l \in 1 .. Modulus /\ l - 1 \in Nat /\ l - 1 \notin S
  BY <1>1, <1>3, <1>4, ModulusIs
<1>6. 2 ^ (l - 1) <= Modulus /\ Modulus < 2 ^ l
  BY <1>3, <1>5, PowerStep, ModulusIs
<1>7. \E k \in 1 .. Modulus : 2 ^ (k - 1) <= Modulus /\ Modulus < 2 ^ k
  BY <1>5, <1>6
<1>8. BitLength \in 1 .. Modulus /\ 2 ^ (BitLength - 1) <= Modulus /\ Modulus < 2 ^ BitLength
  BY <1>7, Zenon DEF BitLength
<1> QED BY <1>8, ModulusIs

\* One more bit of a number.
LEMMA NextBit ==
    ASSUME NEW e \in Nat, NEW d \in Nat \ {0}
    PROVE  /\ e % d \in 0 .. d - 1 /\ (e \div d) % 2 \in {0, 1}
           /\ e % (2 * d) = (e % d) + (IF (e \div d) % 2 = 1 THEN d ELSE 0)
<1> DEFINE q == e \div d
           r == e % d
<1>1. q \in Nat /\ r \in 0 .. d - 1 /\ e = d * q + r
  BY DivMod
<1> DEFINE h == q \div 2
           b == q % 2
<1> HIDE DEF q, r
<1>2. h \in Nat /\ b \in {0, 1} /\ q = 2 * h + b
  BY <1>1
<1> HIDE DEF h, b
<1> DEFINE s == r + (IF b = 1 THEN d ELSE 0)
<1>3. s \in 0 .. 2 * d - 1
  BY <1>1, <1>2
<1>4. d * b = IF b = 1 THEN d ELSE 0
  BY <1>2
<1>5. e = (2 * d) * h + s
  <2>1. d * (2 * h + b) = (2 * d) * h + d * b
    BY <1>2
  <2>2. d * (2 * h + b) \in Int /\ (2 * d) * h \in Int /\ d * b \in Int
    BY <1>2
  <2> QED BY <1>1, <1>2, <1>4, <2>1, <2>2
<1> HIDE DEF s
<1>6. e % (2 * d) = s
  <2> DEFINE w == 2 * d
  <2>1. w \in Nat \ {0} /\ s \in 0 .. w - 1
    BY <1>3
  <2>2. e = w * h + s
    BY <1>5
  <2> HIDE DEF w
  <2>3. e % w = s
    BY <1>2, <2>1, <2>2
  <2> QED BY <2>3 DEF w
<1> QED BY <1>1, <1>2, <1>6 DEF s, q, r, b

\* What a sharing with its MACs can be.
Sharings == {x \in [val : Sharing, mac : Sharing] : \E v \in Int : Opens(x, v)}

LEMMA SharingsAre ==
    ASSUME NEW x \in [val : Sharing, mac : Sharing], NEW v \in Int, Opens(x, v)
    PROVE  x \in Sharings
BY DEF Sharings

\* A product is a record like its factors.
LEMMA MulIsSharing ==
    ASSUME NEW s, NEW o, NEW v \in Int, NEW w \in Int, Opens(s, v), Opens(o, w)
    PROVE  Mul(s, o) \in Sharings
<1>1. Opens(Mul(s, o), v * w) /\ v * w \in Int
  BY MulOpens
<1>2. Mul(s, o) = [val |-> Mul(s, o).val, mac |-> Mul(s, o).mac]
  <2>1. \A x, y : AddShares(x, y) = [val |-> AddShares(x, y).val, mac |-> AddShares(x, y).mac]
    BY DEF AddShares
  <2>2. \A x, c : Shift(x, c) = [val |-> Shift(x, c).val, mac |-> Shift(x, c).mac]
    BY <2>1 DEF Shift
  <2> QED BY <2>2, Zenon DEF Mul
<1> DEFINE r == Mul(s, o)
           p == v * w
<1>3. Opens(r, p) /\ p \in Int /\ r = [val |-> r.val, mac |-> r.mac]
  BY <1>1, <1>2
<1> HIDE DEF r, p
<1>4. r \in [val : Sharing, mac : Sharing]
  <2>1. r.val \in Sharing /\ r.mac \in Sharing
    BY <1>3 DEF Opens
  <2>2. [val |-> r.val, mac |-> r.mac] \in [val : Sharing, mac : Sharing]
    BY <2>1
  <2> QED BY <1>3, <2>2
<1>5. r \in Sharings
  BY <1>3, <1>4, SharingsAre
<1> QED BY <1>5 DEF r

LEMMA OneIsSharing == One \in Sharings
<1>1. One \in [val : Sharing, mac : Sharing]
  BY KingHoldsOpens, ModulusIs DEF One
<1> QED BY <1>1, OneOpens, 1 \in Int, SharingsAre

Squares(f, s, n) == f = [k \in 0 .. n |-> IF k = 0 THEN s ELSE Mul(f[k - 1], f[k - 1])]

\* The squares of squares.
LEMMA SquaresOpen ==
    ASSUME NEW n \in Nat, NEW s \in Sharings, NEW v \in Int, Opens(s, v),
           NEW f, f = CHOOSE u : Squares(u, s, n)
    PROVE  \A k \in 0 .. n : f[k] \in Sharings /\ Opens(f[k], PowerOf(v, 2 ^ k))
<1> DEFINE g == [q \in (1 .. n) \X Sharings |-> Mul(q[2], q[2])]
<1>1. \A i \in 1 .. n : \A x \in Sharings : g[<<i, x>>] = Mul(x, x)
  OBVIOUS
<1> HIDE DEF g
<1>2. \A x \in Sharings : Mul(x, x) \in Sharings
  BY MulIsSharing DEF Sharings
<1>3. Steps(g, Sharings, n)
  BY <1>1, <1>2 DEF Steps
<1>4. PICK h \in [0 .. n -> Sharings] : Iterated(h, s, g, n)
  BY <1>3, Iterates
<1>5. Squares(h, s, n)
  <2> DEFINE e == [k \in 0 .. n |-> IF k = 0 THEN s ELSE Mul(h[k - 1], h[k - 1])]
  <2>1. \A k \in 0 .. n : h[k] = e[k]
    <3> SUFFICES ASSUME NEW k \in 0 .. n PROVE h[k] = IF k = 0 THEN s ELSE Mul(h[k - 1], h[k - 1])
      OBVIOUS
    <3>1. CASE k = 0
      BY <1>4, <3>1 DEF Iterated
    <3>2. CASE k # 0
      <4>1. k \in 1 .. n /\ h[k - 1] \in Sharings
        BY <3>2
      <4> QED BY <1>1, <1>4, <3>2, <4>1 DEF Iterated
    <3> QED BY <3>1, <3>2
  <2>2. h = [k \in 0 .. n |-> h[k]] /\ e = [k \in 0 .. n |-> e[k]]
    OBVIOUS
  <2> HIDE DEF e
  <2>3. h = e
    BY <2>1, <2>2
  <2> QED BY <2>3 DEF e, Squares
<1>6. Squares(f, s, n)
  BY <1>5, Zenon
<1>7. f[0] = s /\ \A k \in Nat : k + 1 <= n => f[k + 1] = Mul(f[k], f[k])
  <2>1. \A k \in 0 .. n : f[k] = IF k = 0 THEN s ELSE Mul(f[k - 1], f[k - 1])
    BY <1>6 DEF Squares
  <2>2. \A k \in Nat : k + 1 <= n => k + 1 \in 0 .. n /\ k + 1 # 0 /\ (k + 1) - 1 = k
    OBVIOUS
  <2> QED BY <2>1, <2>2
<1> DEFINE Q(k) == f[k] \in Sharings /\ Opens(f[k], PowerOf(v, 2 ^ k))
           S == {k \in Nat : k <= n => Q(k)}
<1>8. 0 \in S
  <2>1. 2 ^ 0 = 1 /\ PowerOf(v, 0 + 1) = 1 * v
    BY 0 \in Nat, PowerStep, PowerStarts
  <2>2. PowerOf(v, 2 ^ 0) = v
    BY <2>1
  <2> QED BY <1>7, <2>2
<1>9. \A k \in Nat : k \in S => k + 1 \in S
  <2> SUFFICES ASSUME NEW k \in Nat, k + 1 <= n, Q(k) PROVE Q(k + 1)
    OBVIOUS
  <2> DEFINE e == 2 ^ k
             w == PowerOf(v, e)
  <2>1. e \in Nat /\ 2 ^ (k + 1) = e + e
    BY PowerStep
  <2>2. w \in Int /\ PowerOf(v, e + e) = w * w
    BY <2>1, PowerStarts, PowersAdd
  <2>3. Opens(f[k], w)
    OBVIOUS
  <2> HIDE DEF e, w
  <2>4. Opens(Mul(f[k], f[k]), w * w) /\ Mul(f[k], f[k]) \in Sharings
    BY <2>2, <2>3, MulOpens, MulIsSharing
  <2> QED BY <1>7, <2>1, <2>2, <2>4
<1>10. \A k \in Nat : k \in S
  <2> HIDE DEF S
  <2> QED BY <1>8, <1>9, Reaches
<1> QED BY <1>10

Raised(r, bits, f, n) ==
    r = [k \in 0 .. n |-> IF k = 0 THEN One
                          ELSE IF bits[k] THEN Mul(r[k - 1], f[k - 1]) ELSE r[k - 1]]

BitsAre(bits, e, n) == \A k \in 1 .. n : bits[k] <=> (e \div 2 ^ (k - 1)) % 2 = 1

\* The squares that the bits of the exponent choose, multiplied up.
LEMMA RaisedOpens ==
    ASSUME NEW n \in Nat, NEW v \in Int, NEW e \in Nat, NEW bits, BitsAre(bits, e, n),
           NEW f, \A k \in 0 .. n : f[k] \in Sharings /\ Opens(f[k], PowerOf(v, 2 ^ k)),
           NEW r, r = CHOOSE u : Raised(u, bits, f, n)
    PROVE  \A k \in 0 .. n : r[k] \in Sharings /\ Opens(r[k], PowerOf(v, e % 2 ^ k))
<1> DEFINE g == [q \in (1 .. n) \X Sharings |-> IF bits[q[1]] THEN Mul(q[2], f[q[1] - 1]) ELSE q[2]]
<1>1. \A i \in 1 .. n : \A x \in Sharings : g[<<i, x>>] = IF bits[i] THEN Mul(x, f[i - 1]) ELSE x
  OBVIOUS
<1> HIDE DEF g
<1>2. \A i \in 1 .. n : \A x \in Sharings : Mul(x, f[i - 1]) \in Sharings
  <2> SUFFICES ASSUME NEW i \in 1 .. n, NEW x \in Sharings PROVE Mul(x, f[i - 1]) \in Sharings
    OBVIOUS
  <2>1. f[i - 1] \in Sharings
    <3>1. i - 1 \in 0 .. n
      OBVIOUS
    <3> QED BY <3>1
  <2> QED BY <2>1, MulIsSharing DEF Sharings
<1>3. Steps(g, Sharings, n)
  BY <1>1, <1>2 DEF Steps
<1>4. PICK h \in [0 .. n -> Sharings] : Iterated(h, One, g, n)
  BY <1>3, OneIsSharing, Iterates
<1>5. Raised(h, bits, f, n)
  <2> DEFINE d == [k \in 0 .. n |-> IF k = 0 THEN One
                                    ELSE IF bits[k] THEN Mul(h[k - 1], f[k - 1]) ELSE h[k - 1]]
  <2>1. \A k \in 0 .. n : h[k] = d[k]
    <3> SUFFICES ASSUME NEW k \in 0 .. n
                 PROVE  h[k] = IF k = 0 THEN One
                               ELSE IF bits[k] THEN Mul(h[k - 1], f[k - 1]) ELSE h[k - 1]
      OBVIOUS
    <3>1. CASE k = 0
      BY <1>4, <3>1 DEF Iterated
    <3>2. CASE k # 0
      <4>1. k \in 1 .. n /\ h[k - 1] \in Sharings
        BY <3>2
      <4>2. h[k] = g[<<k, h[k - 1]>>]
        BY <1>4, <4>1 DEF Iterated
      <4> QED BY <1>1, <3>2, <4>1, <4>2, Zenon
    <3> QED BY <3>1, <3>2
  <2>2. h = [k \in 0 .. n |-> h[k]] /\ d = [k \in 0 .. n |-> d[k]]
    OBVIOUS
  <2> HIDE DEF d
  <2>3. h = d
    BY <2>1, <2>2
  <2> QED BY <2>3 DEF d, Raised
<1>6. Raised(r, bits, f, n)
  BY <1>5, Zenon
<1>7. /\ r[0] = One
      /\ \A k \in Nat : k + 1 <= n => r[k + 1] = IF bits[k + 1] THEN Mul(r[k], f[k]) ELSE r[k]
  <2>1. \A k \in 0 .. n : r[k] = IF k = 0 THEN One
                                 ELSE IF bits[k] THEN Mul(r[k - 1], f[k - 1]) ELSE r[k - 1]
    BY <1>6 DEF Raised
  <2>2. \A k \in Nat : k + 1 <= n => k + 1 \in 0 .. n /\ k + 1 # 0 /\ (k + 1) - 1 = k
    OBVIOUS
  <2> QED BY <2>1, <2>2
<1> DEFINE Q(k) == r[k] \in Sharings /\ Opens(r[k], PowerOf(v, e % 2 ^ k))
           S == {k \in Nat : k <= n => Q(k)}
<1>8. 0 \in S
  <2>1. 2 ^ 0 = 1 /\ PowerOf(v, 0) = 1
    BY 0 \in Nat, PowerStep, PowerStarts
  <2>2. e % 2 ^ 0 = 0
    BY <2>1
  <2> QED BY <1>7, <2>1, <2>2, OneIsSharing, OneOpens
<1>9. \A k \in Nat : k \in S => k + 1 \in S
  <2> SUFFICES ASSUME NEW k \in Nat, k + 1 <= n, Q(k) PROVE Q(k + 1)
    OBVIOUS
  <2> DEFINE d == 2 ^ k
             a == e % d
             w == PowerOf(v, a)
             u == PowerOf(v, d)
             b == (e \div d) % 2
  <2>1. d \in Nat \ {0} /\ 2 ^ (k + 1) = 2 * d
    BY PowerStep
  <2>2. a \in Nat /\ e % (2 * d) = a + (IF b = 1 THEN d ELSE 0)
    <3>1. a \in 0 .. d - 1 /\ e % (2 * d) = a + (IF b = 1 THEN d ELSE 0)
      <4> HIDE DEF d
      <4> QED BY <2>1, NextBit, Zenon
    <3> HIDE DEF a, b, d
    <3> QED BY <2>1, <3>1
  <2>3. bits[k + 1] <=> b = 1
    <3>1. k + 1 \in 1 .. n /\ (k + 1) - 1 = k
      OBVIOUS
    <3> QED BY <3>1 DEF BitsAre
  <2>4. w \in Int /\ u \in Int /\ PowerOf(v, a + d) = w * u
    BY <2>1, <2>2, PowerStarts, PowersAdd
  <2>5. Opens(r[k], w) /\ r[k] \in Sharings /\ Opens(f[k], u)
    <3>1. k \in 0 .. n
      OBVIOUS
    <3> QED BY <3>1
  <2> HIDE DEF w, u, b, a, d
  <2>6. CASE b = 1
    <3>1. Opens(Mul(r[k], f[k]), w * u) /\ Mul(r[k], f[k]) \in Sharings
      BY <2>4, <2>5, MulOpens, MulIsSharing
    <3>2. PowerOf(v, e % 2 ^ (k + 1)) = w * u
      <4>1. e % (2 * d) = a + d
        BY <2>2, <2>6, Zenon
      <4> QED BY <2>1, <2>4, <4>1, Zenon
    <3> QED BY <1>7, <2>3, <2>6, <3>1, <3>2
  <2>7. CASE b # 1
    <3>1. e % 2 ^ (k + 1) = a
      <4>1. e % (2 * d) = a + 0
        BY <2>2, <2>7, Zenon
      <4>2. a + 0 = a
        BY <2>2
      <4> QED BY <2>1, <4>1, <4>2, Zenon
    <3> QED BY <1>7, <2>3, <2>5, <2>7, <3>1 DEF w
  <2> QED BY <2>6, <2>7
<1>10. \A k \in Nat : k \in S
  <2> HIDE DEF S
  <2> QED BY <1>8, <1>9, Reaches
<1> QED BY <1>10

LEMMA FermatOpens ==
    ASSUME NEW s \in Sharings, NEW v \in Int, Opens(s, v)
    PROVE  Opens(Fermat(s), PowerOf(v, Modulus - 2))
<1> DEFINE n == BitLength
           e == Modulus - 2
           bits == BitsOf(e, n)
           f == CHOOSE u : Squares(u, s, n)
           r == CHOOSE u : Raised(u, bits, f, n)
<1>1. Fermat(s) = r[n]
  BY DEF Fermat, Squares, Raised
<1>2. n \in Nat /\ e \in Nat /\ e < 2 ^ n /\ 2 ^ n \in Nat
  BY BitLengthIs, ModulusIs, PowerStep
<1>3. BitsAre(bits, e, n)
  BY DEF BitsAre, BitsOf
<1> HIDE DEF n, e, bits
<1>4. \A k \in 0 .. n : f[k] \in Sharings /\ Opens(f[k], PowerOf(v, 2 ^ k))
  BY <1>2, SquaresOpen
<1> HIDE DEF f
<1>5. \A k \in 0 .. n : r[k] \in Sharings /\ Opens(r[k], PowerOf(v, e % 2 ^ k))
  BY <1>2, <1>3, <1>4, RaisedOpens
<1>6. e % 2 ^ n = e
  <2> DEFINE d == 2 ^ n
  <2>1. d \in Nat /\ e < d
    BY <1>2
  <2> HIDE DEF d
  <2>2. e % d = e
    BY <1>2, <2>1
  <2> QED BY <2>2 DEF d
<1>7. n \in 0 .. n
  BY <1>2
<1>8. Opens(r[n], PowerOf(v, e))
  BY <1>5, <1>6, <1>7
<1> QED BY <1>1, <1>8 DEF e

\* Two shared values are compared without opening either: their difference to
\* the power of Modulus - 1 is one unless it is zero.
THEOREM NeqOpens ==
    ASSUME NEW s, NEW o, NEW v \in Field, NEW w \in Field, Opens(s, v), Opens(o, w)
    PROVE  Opens(Neq(s, o), IF v = w THEN 0 ELSE 1)
<1> DEFINE c == SubtractShares(s, o)
           d == (v - w) % Modulus
           e == Modulus - 2
<1>1. v \in Int /\ w \in Int /\ v - w \in Int /\ e \in Nat /\ e + 1 = Modulus - 1
  BY ModulusIs DEF Field
<1>2. d \in Field /\ d \in Int /\ Same(d, v - w)
  BY <1>1, Remainder, ModulusIs DEF Field
<1>3. d = 0 <=> v = w
  <2>1. ASSUME d = 0 PROVE v = w
    <3>1. Same(v - w, 0)
      BY <1>1, <1>2, <2>1, SameBack
    <3>2. Same((v - w) + w, 0 + w)
      <4>1. Same(w, w)
        BY <1>1, SameItself
      <4> QED BY <1>1, <3>1, <4>1, SameSum
    <3>3. (v - w) + w = v /\ 0 + w = w
      BY <1>1
    <3> QED BY <3>2, <3>3, SameIsEqual
  <2>2. ASSUME v = w PROVE d = 0
    <3>1. v - w = 0
      BY <1>1, <2>2
    <3> QED BY <3>1, ModulusIs
  <2> QED BY <2>1, <2>2
<1> HIDE DEF d
<1>4. Opens(c, d)
  <2>1. Opens(c, v - w)
    BY <1>1, SubtractOpens
  <2>2. Same(v - w, d)
    BY <1>1, <1>2, SameBack
  <2> QED BY <1>1, <1>2, <2>1, <2>2, OpensAs
<1>5. c \in Sharings
  <2>1. c.val \in Sharing /\ c.mac \in Sharing
    BY <1>4 DEF Opens
  <2>2. c = [val |-> c.val, mac |-> c.mac]
    BY DEF SubtractShares
  <2>3. [val |-> c.val, mac |-> c.mac] \in [val : Sharing, mac : Sharing]
    BY <2>1
  <2> HIDE DEF c
  <2> QED BY <1>2, <1>4, <2>2, <2>3, SharingsAre
<1>6. Neq(s, o) = Mul(c, Fermat(c))
  BY DEF Neq
<1> HIDE DEF c
<1> DEFINE p == PowerOf(d, e)
<1>7. p \in Int /\ PowerOf(d, e + 1) = p * d
  BY <1>1, <1>2, PowerStarts
<1>8. Opens(Fermat(c), p)
  BY <1>2, <1>4, <1>5, FermatOpens
<1> HIDE DEF p, e
<1>9. Opens(Mul(c, Fermat(c)), d * p)
  BY <1>2, <1>4, <1>7, <1>8, MulOpens
<1>10. CASE v = w
  <2>1. d * p = 0
    BY <1>3, <1>7, <1>10
  <2> QED BY <1>6, <1>9, <1>10, <2>1
<1>11. CASE v # w
  <2>1. Same(p * d, 1)
    BY <1>1, <1>2, <1>3, <1>7, <1>11, FermatsTheorem
  <2>2. d * p = p * d /\ d * p \in Int
    BY <1>2, <1>7
  <2>3. Opens(Mul(c, Fermat(c)), 1)
    BY <1>9, <2>1, <2>2, 1 \in Int, OpensAs
  <2> QED BY <1>6, <1>11, <2>3
<1> QED BY <1>10, <1>11

-----------------------------------------------------------------------------
(* Registers: what they hold and what becomes of it.                       *)

\* The register r holds the field element c, as a sharing with its MACs or as
\* a copy at every party.
Holds(r, c) ==
    /\ c \in Field /\ r.shared \in BOOLEAN
    /\ r.val \in Sharing /\ r.mac \in Sharing
    /\ r.shared => Opens(r, c)
    /\ ~ r.shared => \A p \in Party : r.val[p] = c /\ r.mac[p] = c

LEMMA HeldIs ==
    ASSUME NEW r, NEW c, Holds(r, c)
    PROVE  c \in Field /\ c \in Nat /\ c \in Int
BY FieldIs DEF Holds

LEMMA RegisterOpens ==
    ASSUME NEW r, NEW c, Holds(r, c)
    PROVE  /\ Opens(AsShare(r), c) /\ Value(r) = c
           /\ r.shared => ChecksOut(r)
<1>1. c \in Field /\ c \in Int /\ c % Modulus = c
  BY FieldIs DEF Holds
<1>2. CASE r.shared
  <2>1. Opens(r, c)
    BY <1>2 DEF Holds
  <2>2. Opens(AsShare(r), c)
    BY <1>2, <2>1 DEF AsShare, Opens
  <2>3. Value(r) = c
    BY <1>1, <1>2, <2>1, OpenIs DEF Value
  <2> QED BY <1>1, <2>1, <2>2, <2>3, SharingChecksOut
<1>3. CASE ~ r.shared
  <2>1. r.val[King] = c
    BY <1>3, PartiesAre DEF Holds
  <2>2. Opens(Scale(One, c), 1 * c)
    BY <1>1, OneOpens, 1 \in Int, ScaleOpens
  <2>3. 1 * c = c
    BY <1>1
  <2> QED BY <1>3, <2>1, <2>2, <2>3 DEF AsShare, Value
<1> QED BY <1>2, <1>3

LEMMA SharedHolds ==
    ASSUME NEW x, NEW v \in Int, NEW c \in Field, Opens(x, v), Same(v, c)
    PROVE  Holds(Shared(x), c)
<1>1. c \in Int
  BY FieldIs
<1>2. Opens(x, c)
  BY <1>1, OpensAs
<1>3. Shared(x).val = x.val /\ Shared(x).mac = x.mac /\ Shared(x).shared = TRUE
  BY DEF Shared
<1>4. Opens(Shared(x), c)
  BY <1>2, <1>3 DEF Opens
<1> QED BY <1>2, <1>3, <1>4 DEF Holds, Opens

LEMMA PublicHolds ==
    ASSUME NEW c \in Field, NEW v, v = [p \in Party |-> v[p]], \A p \in Party : v[p] = c
    PROVE  Holds(Public(v), c)
<1>1. v \in Sharing
  BY DEF Sharing
<1>2. Public(v).val = v /\ Public(v).mac = v /\ Public(v).shared = FALSE
  BY DEF Public
<1> QED BY <1>1, <1>2 DEF Holds

LEMMA ConstantHolds ==
    ASSUME NEW c \in Field
    PROVE  Holds(Constant(c), c)
<1> DEFINE v == [p \in Party |-> c]
<1>1. v = [p \in Party |-> v[p]] /\ \A p \in Party : v[p] = c
  OBVIOUS
<1> HIDE DEF v
<1>2. Holds(Public(v), c)
  BY <1>1, PublicHolds
<1> QED BY <1>2 DEF Constant, v

\* Sums and differences of public and shared registers, in every combination.
LEMMA SumHolds ==
    ASSUME NEW r, NEW s, NEW v, NEW w, Holds(r, v), Holds(s, w)
    PROVE  Holds(SumOfBoth(r, s), (v + w) % Modulus)
<1>1. v \in Int /\ w \in Int /\ v + w \in Int
  BY HeldIs
<1>2. (v + w) % Modulus \in Field /\ Same(v + w, (v + w) % Modulus)
  BY <1>1, Remainder, SameBack, ModulusIs DEF Field
<1>3. CASE r.shared \/ s.shared
  <2>1. Opens(AddShares(AsShare(r), AsShare(s)), v + w)
    BY <1>1, RegisterOpens, AddOpens
  <2>2. Holds(Shared(AddShares(AsShare(r), AsShare(s))), (v + w) % Modulus)
    BY <1>1, <1>2, <2>1, SharedHolds
  <2> QED BY <1>3, <2>2 DEF SumOfBoth
<1>4. CASE ~ (r.shared \/ s.shared)
  <2> DEFINE z == Added(r.val, s.val)
  <2>1. \A p \in Party : z[p] = (v + w) % Modulus
    BY <1>4 DEF Holds, Added
  <2>2. z = [p \in Party |-> z[p]]
    BY DEF Added
  <2> HIDE DEF z
  <2>3. Holds(Public(z), (v + w) % Modulus)
    BY <1>2, <2>1, <2>2, PublicHolds
  <2> QED BY <1>4, <2>3 DEF SumOfBoth, z
<1> QED BY <1>3, <1>4

LEMMA DifferenceHolds ==
    ASSUME NEW r, NEW s, NEW v, NEW w, Holds(r, v), Holds(s, w)
    PROVE  Holds(Difference(r, s), (v - w) % Modulus)
<1>1. v \in Int /\ w \in Int /\ v - w \in Int
  BY HeldIs
<1>2. (v - w) % Modulus \in Field /\ Same(v - w, (v - w) % Modulus)
  BY <1>1, Remainder, SameBack, ModulusIs DEF Field
<1>3. CASE r.shared \/ s.shared
  <2>1. Opens(SubtractShares(AsShare(r), AsShare(s)), v - w)
    BY <1>1, RegisterOpens, SubtractOpens
  <2>2. Holds(Shared(SubtractShares(AsShare(r), AsShare(s))), (v - w) % Modulus)
    BY <1>1, <1>2, <2>1, SharedHolds
  <2> QED BY <1>3, <2>2 DEF Difference
<1>4. CASE ~ (r.shared \/ s.shared)
  <2> DEFINE z == Subtracted(r.val, s.val)
  <2>1. \A p \in Party : z[p] = (v - w) % Modulus
    BY <1>4 DEF Holds, Subtracted
  <2>2. z = [p \in Party |-> z[p]]
    BY DEF Subtracted
  <2> HIDE DEF z
  <2>3. Holds(Public(z), (v - w) % Modulus)
    BY <1>2, <2>1, <2>2, PublicHolds
  <2> QED BY <1>4, <2>3 DEF Difference, z
<1> QED BY <1>3, <1>4

\* Every party scales its share by its copy.
LEMMA TimesCopies ==
    ASSUME NEW x \in Sharing, NEW v \in Int, Same(SumTo(x, N), v),
           NEW y, NEW c \in Int, \A p \in Party : y[p] = c
    PROVE  /\ Times(x, y) \in Sharing /\ Same(SumTo(Times(x, y), N), v * c)
           /\ Times(y, x) = Times(x, y)
<1>1. Scaled(x, c) \in Sharing /\ Same(SumTo(Scaled(x, c), N), v * c)
  BY ScaledOpens
<1>2. \A p \in Party : x[p] \in Int /\ y[p] = c
  BY ShareIs
<1>3. Times(x, y) = Scaled(x, c)
  BY <1>2 DEF Times, Scaled
<1>4. \A p \in Party : y[p] * x[p] = x[p] * y[p]
  BY <1>2
<1>5. Times(y, x) = Times(x, y)
  BY <1>4, Zenon DEF Times
<1> QED BY <1>1, <1>3, <1>5

LEMMA ProductHolds ==
    ASSUME NEW r, NEW s, NEW v, NEW w, Holds(r, v), Holds(s, w)
    PROVE  Holds(Product(r, s), (v * w) % Modulus)
<1> DEFINE c == (v * w) % Modulus
           z == Product(r, s)
<1>1. v \in Int /\ w \in Int /\ v * w \in Int /\ v * w = w * v
  <2>1. v \in Int /\ w \in Int
    BY HeldIs
  <2> QED BY <2>1
<1>2. c \in Field /\ c \in Int /\ Same(v * w, c)
  BY <1>1, Remainder, SameBack, ModulusIs DEF Field
<1>3. c = (v * w) % Modulus
  OBVIOUS
<1> HIDE DEF c
<1>4. CASE r.shared /\ s.shared
  <2>1. Opens(Mul(AsShare(r), AsShare(s)), v * w)
    BY <1>1, RegisterOpens, MulOpens
  <2>2. Holds(Shared(Mul(AsShare(r), AsShare(s))), c)
    BY <1>1, <1>2, <2>1, SharedHolds
  <2> QED BY <1>4, <2>2 DEF Product, c
<1>5. CASE ~ (r.shared /\ s.shared)
  <2>1. /\ z.shared = (r.shared \/ s.shared)
        /\ z.val = Times(r.val, s.val) /\ z.mac = Times(r.mac, s.mac)
    BY <1>5 DEF Product
  <2>2. CASE r.shared
    <3>1. /\ r.val \in Sharing /\ r.mac \in Sharing
          /\ Same(SumTo(r.val, N), v) /\ Same(SumTo(r.mac, N), v)
          /\ \A p \in Party : s.val[p] = w /\ s.mac[p] = w
      BY <1>5, <2>2 DEF Holds, Opens
    <3>2. Opens(z, v * w)
      BY <1>1, <2>1, <3>1, TimesCopies DEF Opens
    <3>3. Opens(z, c)
      BY <1>1, <1>2, <3>2, OpensAs
    <3> HIDE DEF z
    <3>4. z.shared = TRUE
      BY <2>1, <2>2
    <3>5. Holds(z, c)
      BY <1>2, <3>3, <3>4 DEF Holds, Opens
    <3> QED BY <3>5 DEF z, c
  <2>3. CASE s.shared
    <3>1. /\ s.val \in Sharing /\ s.mac \in Sharing
          /\ Same(SumTo(s.val, N), w) /\ Same(SumTo(s.mac, N), w)
          /\ \A p \in Party : r.val[p] = v /\ r.mac[p] = v
      BY <1>5, <2>3 DEF Holds, Opens
    <3>2. Opens(z, w * v)
      BY <1>1, <2>1, <3>1, TimesCopies DEF Opens
    <3>3. Opens(z, c)
      BY <1>1, <1>2, <3>2, OpensAs
    <3> HIDE DEF z
    <3>4. z.shared = TRUE
      BY <2>1, <2>3
    <3>5. Holds(z, c)
      BY <1>2, <3>3, <3>4 DEF Holds, Opens
    <3> QED BY <3>5 DEF z, c
  <2>4. CASE ~ r.shared /\ ~ s.shared
    <3>1. \A p \in Party : r.val[p] = v /\ r.mac[p] = v /\ s.val[p] = w /\ s.mac[p] = w
      BY <2>4 DEF Holds
    <3>2. \A p \in Party : z.val[p] = c /\ z.mac[p] = c
      BY <1>3, <2>1, <3>1 DEF Times
    <3>3. z.val = [p \in Party |-> z.val[p]] /\ z.mac = [p \in Party |-> z.mac[p]]
      BY <2>1 DEF Times
    <3> HIDE DEF z
    <3>4. z.val \in Sharing /\ z.mac \in Sharing
      BY <1>2, <3>2, <3>3 DEF Sharing
    <3>5. z.shared = FALSE
      BY <2>1, <2>4
    <3>6. Holds(z, c)
      BY <1>2, <3>2, <3>4, <3>5 DEF Holds
    <3> QED BY <3>6 DEF z, c
  <2> QED BY <2>2, <2>3, <2>4
<1> QED BY <1>4, <1>5

LEMMA InvertedHolds ==
    ASSUME NEW r, NEW v, v # 0, Holds(r, v)
    PROVE  Holds(Inverted(r), FieldInverse(v))
<1>1. v \in Field /\ FieldInverse(v) \in Field
  BY FieldInverseIs DEF Holds
<1>2. CASE r.shared
  <2>1. Opens(Inv(AsShare(r)), FieldInverse(v))
    BY <1>1, RegisterOpens, InvOpens
  <2>2. FieldInverse(v) \in Int
    BY <1>1, FieldIs
  <2>3. Same(FieldInverse(v), FieldInverse(v))
    BY <2>2, SameItself
  <2>4. Holds(Shared(Inv(AsShare(r))), FieldInverse(v))
    BY <1>1, <2>1, <2>2, <2>3, SharedHolds
  <2> QED BY <1>2, <2>4 DEF Inverted
<1>3. CASE ~ r.shared
  <2> DEFINE z == [p \in Party |-> FieldInverse(r.val[p])]
  <2>1. \A p \in Party : z[p] = FieldInverse(v)
    BY <1>3 DEF Holds
  <2>2. z = [p \in Party |-> z[p]]
    OBVIOUS
  <2>3. Inverted(r) = Public(z)
    BY <1>3 DEF Inverted
  <2> HIDE DEF z
  <2> QED BY <1>1, <2>1, <2>2, <2>3, PublicHolds
<1> QED BY <1>2, <1>3 DEF Holds

LEMMA DividedHolds ==
    ASSUME NEW r, NEW s, NEW v, NEW w, w # 0, Holds(r, v), Holds(s, w)
    PROVE  Holds(Quotient(r, s), (v * FieldInverse(w)) % Modulus)
BY InvertedHolds, ProductHolds, Zenon DEF Quotient

LEMMA DifferHolds ==
    ASSUME NEW r, NEW s, NEW v, NEW w, Holds(r, v), Holds(s, w)
    PROVE  Holds(Differ(r, s), IF v = w THEN 0 ELSE 1)
<1> DEFINE c == IF v = w THEN 0 ELSE 1
<1>1. v \in Field /\ w \in Field /\ c \in Field /\ c \in Int
  BY ModulusIs DEF Holds
<1>2. Same(c, c)
  BY <1>1, SameItself
<1>3. CASE r.shared \/ s.shared
  <2>1. Opens(Neq(AsShare(r), AsShare(s)), c)
    BY <1>1, RegisterOpens, NeqOpens
  <2> HIDE DEF c
  <2>2. Holds(Shared(Neq(AsShare(r), AsShare(s))), c)
    BY <1>1, <1>2, <2>1, SharedHolds
  <2>3. Holds(Differ(r, s), c)
    BY <1>3, <2>2 DEF Differ
  <2> QED BY <2>3 DEF c
<1>4. CASE ~ (r.shared \/ s.shared)
  <2> DEFINE z == [p \in Party |-> IF r.val[p] = s.val[p] THEN 0 ELSE 1]
  <2>1. \A p \in Party : z[p] = c
    BY <1>4 DEF Holds
  <2>2. z = [p \in Party |-> z[p]]
    OBVIOUS
  <2>3. Differ(r, s) = Public(z)
    BY <1>4 DEF Differ
  <2> HIDE DEF z, c
  <2>4. Holds(Differ(r, s), c)
    BY <1>1, <2>1, <2>2, <2>3, PublicHolds
  <2> QED BY <2>4 DEF c
<1> QED BY <1>3, <1>4

-----------------------------------------------------------------------------
(* The king's sharing of a value it knows.                                 *)

LEMMA KingShareHolds ==
    ASSUME NEW c \in Field, NEW random \in [0 .. N - 2 -> Field],
           NEW share, share = [p \in Party |-> IF p < N - 1 THEN random[p]
                                               ELSE (c - Total(random, N - 1)) % Modulus]
    PROVE  Holds(Shared([val |-> share, mac |-> share]), c)
<1> DEFINE k == N - 1
           t == SumTo(random, k)
           z == (c - t) % Modulus
<1>1. k \in Nat /\ k + 1 = N /\ Party = 0 .. k /\ 0 .. k-1 = 0 .. N-2
  BY PartiesAre
<1>2. \A p \in Party : share[p] = IF p < k THEN random[p] ELSE z
  BY TotalIs
<1> HIDE DEF k, z
<1>3. Summands(random, k)
  <2>1. \A i \in 0 .. k-1 : random[i] \in Field
    BY <1>1
  <2> QED BY <2>1, FieldIs DEF Summands
<1>4. t \in Int
  <2>1. PICK u : Sums(u, random, k) /\ SumTo(random, k) = u[k]
    BY <1>1, <1>3, SumToIs
  <2> QED BY <1>1, <2>1 DEF Sums
<1>5. c \in Int
  BY FieldIs
<1> HIDE DEF t
<1>6. z = (c - t) % Modulus /\ c - t \in Int
  BY <1>4, <1>5 DEF z, t, k
<1>7. z \in Field /\ z \in Int /\ Same(z, c - t)
  BY <1>6, Remainder, FieldIs
<1>8. share \in Sharing
  <2>1. \A p \in Party : p < k => random[p] \in Field
    BY <1>1
  <2>2. \A p \in Party : share[p] \in Field
    BY <1>2, <1>7, <2>1
  <2> QED BY <2>2 DEF Sharing
<1>9. SumTo(share, N) = t + z
  <2>1. Summands(share, k + 1) /\ \A i \in 0 .. k-1 : share[i] = random[i]
    BY <1>1, <1>2, <1>8, SharesAreNumbers
  <2>2. SumTo(share, k + 1) = t + share[k]
    BY <1>1, <2>1, SumOfMore DEF t
  <2>3. share[k] = z
    BY <1>1, <1>2
  <2> QED BY <1>1, <2>2, <2>3
<1>10. Same(t + z, c)
  <2>1. Same(t, t)
    BY <1>4, SameItself
  <2>2. Same(t + z, t + (c - t))
    BY <1>4, <1>6, <1>7, <2>1, SameSum
  <2>3. t + (c - t) = c
    BY <1>4, <1>5
  <2> QED BY <2>2, <2>3
<1> DEFINE x == [val |-> share, mac |-> share]
<1>11. Opens(x, c)
  BY <1>8, <1>9, <1>10 DEF Opens
<1> HIDE DEF x
<1>12. Same(c, c)
  BY <1>5, SameItself
<1>13. Holds(Shared(x), c)
  BY <1>5, <1>11, <1>12, SharedHolds
<1> QED BY <1>13 DEF x

-----------------------------------------------------------------------------
(* Partial products.                                                       *)

UpTo(u, masked, n) == u = [i \in n |-> IF i = 1 THEN masked[1] ELSE (u[i - 1] * masked[i]) % Modulus]

\* Products of the elements up to each.
LEMMA UpToAre ==
    ASSUME NEW n \in Nat, NEW v, Numbers(v, n),
           NEW masked, \A i \in 1 .. n : masked[i] \in Field /\ Same(masked[i], v[i]),
           NEW f, f = CHOOSE u : UpTo(u, masked, 1 .. n)
    PROVE  \A i \in 1 .. n : f[i] \in Field /\ Same(f[i], ProductOf(v, i))
<1> DEFINE g == [q \in (1 .. n) \X Field |-> (q[2] * masked[q[1]]) % Modulus]
<1>1. \A i \in 1 .. n : \A x \in Field : g[<<i, x>>] = (x * masked[i]) % Modulus
  OBVIOUS
<1> HIDE DEF g
<1>2. \A i \in 1 .. n : \A x \in Field : (x * masked[i]) % Modulus \in Field
  <2> SUFFICES ASSUME NEW i \in 1 .. n, NEW x \in Field PROVE (x * masked[i]) % Modulus \in Field
    OBVIOUS
  <2>1. x \in Int /\ masked[i] \in Int
    BY FieldIs
  <2>2. x * masked[i] \in Int
    BY <2>1
  <2> QED BY <2>2, Remainder
<1>3. Steps(g, Field, n)
  BY <1>1, <1>2 DEF Steps
<1>4. PICK h0 \in [0 .. n -> Field] : Iterated(h0, 1, g, n)
  BY <1>3, ModulusIs, Iterates
<1> DEFINE h == [i \in 1 .. n |-> h0[i]]
<1>5. \A i \in 1 .. n : h0[i] = (h0[i - 1] * masked[i]) % Modulus /\ h0[i - 1] \in Field /\ h0[i] \in Field
  <2> SUFFICES ASSUME NEW i \in 1 .. n
               PROVE  h0[i] = (h0[i - 1] * masked[i]) % Modulus /\ h0[i - 1] \in Field /\ h0[i] \in Field
    OBVIOUS
  <2>1. h0[i - 1] \in Field /\ h0[i] \in Field
    OBVIOUS
  <2>2. h0[i] = g[<<i, h0[i - 1]>>]
    BY <1>4 DEF Iterated
  <2> QED BY <1>1, <2>1, <2>2, Zenon
<1>6. UpTo(h, masked, 1 .. n)
  <2> DEFINE e == [i \in 1 .. n |-> IF i = 1 THEN masked[1] ELSE (h[i - 1] * masked[i]) % Modulus]
  <2>1. \A i \in 1 .. n : h[i] = e[i]
    <3> SUFFICES ASSUME NEW i \in 1 .. n
                 PROVE  h0[i] = IF i = 1 THEN masked[1] ELSE (h[i - 1] * masked[i]) % Modulus
      OBVIOUS
    <3>1. CASE i = 1
      <4>1. h0[1] = (1 * masked[1]) % Modulus /\ masked[1] \in Field
        BY <1>4, <1>5, <3>1 DEF Iterated
      <4>2. 1 * masked[1] = masked[1] /\ masked[1] % Modulus = masked[1]
        <5>1. masked[1] \in Int /\ masked[1] % Modulus = masked[1]
          BY <4>1, FieldIs
        <5> QED BY <5>1
      <4> QED BY <3>1, <4>1, <4>2
    <3>2. CASE i # 1
      <4>1. h[i - 1] = h0[i - 1]
        BY <3>2
      <4> HIDE DEF h
      <4> QED BY <1>5, <3>2, <4>1
    <3> QED BY <3>1, <3>2
  <2>2. h = [i \in 1 .. n |-> h[i]] /\ e = [i \in 1 .. n |-> e[i]]
    OBVIOUS
  <2> HIDE DEF e, h
  <2>3. h = e
    BY <2>1, <2>2
  <2> QED BY <2>3 DEF e, UpTo
<1> HIDE DEF h
<1>7. UpTo(f, masked, 1 .. n)
  BY <1>6, Zenon
<1>8. \A i \in 1 .. n : f[i] = IF i = 1 THEN masked[1] ELSE (f[i - 1] * masked[i]) % Modulus
  BY <1>7 DEF UpTo
<1>9. \A m \in Nat : m + 1 <= n => /\ ProductOf(v, m) \in Int
                                   /\ ProductOf(v, m + 1) = ProductOf(v, m) * v[m + 1]
                                   /\ ProductOf(v, 0) = 1 /\ v[m + 1] \in Int
  <2> SUFFICES ASSUME NEW m \in Nat, m + 1 <= n
               PROVE  /\ ProductOf(v, m) \in Int
                      /\ ProductOf(v, m + 1) = ProductOf(v, m) * v[m + 1]
                      /\ ProductOf(v, 0) = 1 /\ v[m + 1] \in Int
    OBVIOUS
  <2>1. Numbers(v, m + 1) /\ v[m + 1] \in Int
    BY DEF Numbers
  <2> QED BY <2>1, ProductSteps
<1> DEFINE Q(i) == f[i] \in Field /\ Same(f[i], ProductOf(v, i))
           S == {m \in Nat : m + 1 <= n => Q(m + 1)}
<1>10. 0 \in S
  <2> SUFFICES ASSUME 1 <= n PROVE Q(1)
    OBVIOUS
  <2>1. 1 \in 1 .. n /\ f[1] = masked[1] /\ masked[1] \in Field /\ Same(masked[1], v[1]) /\ v[1] \in Int
    BY <1>8, <1>9
  <2>2. ProductOf(v, 1) = v[1]
    <3>1. ProductOf(v, 0 + 1) = 1 * v[0 + 1]
      BY <1>9
    <3> QED BY <2>1, <3>1
  <2> QED BY <2>1, <2>2
<1>11. \A m \in Nat : m \in S => m + 1 \in S
  <2> SUFFICES ASSUME NEW m \in Nat, Q(m + 1), (m + 1) + 1 <= n PROVE Q((m + 1) + 1)
    <3> HIDE DEF Q
    <3> QED OBVIOUS
  <2> DEFINE k == m + 1
             i == k + 1
             a == f[k]
             b == masked[i]
             p == ProductOf(v, k)
             w == v[i]
  <2>1. k \in Nat /\ i \in 1 .. n /\ i # 1 /\ i - 1 = k /\ k + 1 = i /\ i <= n
    OBVIOUS
  <2>2. a \in Field /\ Same(a, p) /\ b \in Field /\ Same(b, w)
    BY <2>1
  <2> HIDE DEF i, k
  <2>3. f[i] = (a * b) % Modulus
    BY <1>8, <2>1
  <2>4. p \in Int /\ w \in Int /\ ProductOf(v, i) = p * w
    BY <1>9, <2>1
  <2>5. a \in Int /\ b \in Int
    BY <2>2, FieldIs
  <2> HIDE DEF a, b, p, w
  <2>6. a * b \in Int /\ p * w \in Int /\ Same(a * b, p * w)
    BY <2>2, <2>4, <2>5, SameProduct
  <2> DEFINE z == (a * b) % Modulus
  <2>7. z \in Field /\ z \in Int /\ Same(z, a * b)
    BY <2>6, Remainder, FieldIs
  <2> HIDE DEF z
  <2>8. Same(z, p * w)
    BY <2>6, <2>7, SameOn
  <2> QED BY <2>3, <2>4, <2>7, <2>8 DEF z, i, k
<1>12. \A m \in Nat : m \in S
  <2> HIDE DEF S
  <2> QED BY <1>10, <1>11, Reaches
<1> SUFFICES ASSUME NEW i \in 1 .. n PROVE Q(i)
  OBVIOUS
<1>13. i - 1 \in Nat /\ (i - 1) + 1 = i /\ i - 1 \in S
  <2>1. i - 1 \in Nat /\ (i - 1) + 1 = i
    OBVIOUS
  <2> HIDE DEF S
  <2> QED BY <1>12, <2>1
<1>14. Q((i - 1) + 1)
  <2> HIDE DEF Q
  <2> QED BY <1>13
<1> QED BY <1>13, <1>14

\* Every partial product opens to the product up to there: opening the masked
\* factors and multiplying them up in the open loses nothing.
THEOREM PartialProductsOpen ==
    ASSUME NEW n \in Nat, NEW x, DOMAIN x = 1 .. n, NEW v, Numbers(v, n),
           \A i \in 1 .. n : Opens(x[i], v[i])
    PROVE  \A i \in 1 .. n : Opens(PartialProducts(x)[i], ProductOf(v, i))
<1> DEFINE masked == [i \in DOMAIN x |-> Open(Mul(Mul(One, x[i]), One))]
           f == CHOOSE u : UpTo(u, masked, DOMAIN x)
           t == Inv(Mul(One, One))
<1>1. PartialProducts(x) = [i \in DOMAIN x |-> Scale(t, f[i])]
  BY DEF PartialProducts, UpTo
<1>2. \A i \in 1 .. n : masked[i] \in Field /\ Same(masked[i], v[i])
  <2> SUFFICES ASSUME NEW i \in 1 .. n PROVE masked[i] \in Field /\ Same(masked[i], v[i])
    OBVIOUS
  <2>1. v[i] \in Int
    BY DEF Numbers
  <2>2. Opens(Mul(One, x[i]), 1 * v[i]) /\ 1 * v[i] = v[i]
    BY <2>1, OneOpens, 1 \in Int, MulOpens
  <2>3. Opens(Mul(Mul(One, x[i]), One), v[i] * 1) /\ v[i] * 1 = v[i]
    BY <2>1, <2>2, OneOpens, 1 \in Int, MulOpens
  <2> QED BY <2>1, <2>3, OpenIs
<1> HIDE DEF masked
<1>3. \A i \in 1 .. n : f[i] \in Field /\ Same(f[i], ProductOf(v, i))
  BY <1>2, UpToAre
<1> HIDE DEF f
<1>4. Opens(t, 1)
  <2>1. Opens(Mul(One, One), 1 * 1) /\ 1 * 1 = 1
    BY OneOpens, 1 \in Int, MulOpens
  <2>2. 1 \in Field /\ 1 # 0
    BY ModulusIs
  <2> QED BY <2>1, <2>2, InvOpens, InverseOfOne
<1> HIDE DEF t
<1> SUFFICES ASSUME NEW i \in 1 .. n PROVE Opens(PartialProducts(x)[i], ProductOf(v, i))
  OBVIOUS
<1>5. f[i] \in Int /\ 1 * f[i] = f[i]
  BY <1>3, FieldIs
<1>6. Opens(Scale(t, f[i]), f[i])
  BY <1>4, <1>5, 1 \in Int, ScaleOpens
<1>7. ProductOf(v, i) \in Int
  <2>1. Numbers(v, i) /\ i \in Nat
    BY DEF Numbers
  <2> DEFINE q == CHOOSE u : Products(u, v, i)
  <2>2. Products(q, v, i) /\ ProductOf(v, i) = q[i]
    BY <2>1, ProductsExist DEF ProductOf
  <2> HIDE DEF q
  <2> QED BY <2>1, <2>2 DEF Products
<1>8. Opens(Scale(t, f[i]), ProductOf(v, i))
  BY <1>3, <1>5, <1>6, <1>7, OpensAs
<1> QED BY <1>1, <1>8

-----------------------------------------------------------------------------
(* Division of polynomials with shared coefficients.                       *)

Fit(parts, b) == \A p \in Party : Len(parts[p]) \in 0 .. b

Fitted(results, parts) ==
    \E l \in Nat : \A p \in Party : /\ Len(results[p]) = l
                                    /\ \A i \in Nat : At(results[p], i) = At(parts[p], i)

\* The parties agree on a length, and no coefficient is lost.
LEMMA SynchronizedIs ==
    ASSUME NEW b \in Nat, NEW parts, Fit(parts, b)
    PROVE  Fitted(Synchronized(parts), parts)
<1> DEFINE lengths == {1} \cup {Len(parts[p]) : p \in Party}
           l == CHOOSE m \in lengths : \A k \in lengths : k <= m
<1>1. Synchronized(parts) = [p \in Party |-> Resized(parts[p], l)]
  BY DEF Synchronized
<1>2. 1 \in lengths /\ lengths \subseteq 0 .. b + 1 /\ \A p \in Party : Len(parts[p]) \in lengths
  BY DEF Fit
<1> HIDE DEF lengths
<1>3. \E m \in lengths : \A k \in lengths : k <= m
  <2>1. b + 1 \in Nat /\ lengths # {}
    BY <1>2
  <2> QED BY <1>2, <2>1, GreatestNatural
<1>4. l \in lengths /\ \A k \in lengths : k <= l
  BY <1>3, Zenon
<1> HIDE DEF l
<1>5. l \in Nat
  BY <1>2, <1>4
<1>6. ASSUME NEW p \in Party
      PROVE  /\ Len(Synchronized(parts)[p]) = l
             /\ \A i \in Nat : At(Synchronized(parts)[p], i) = At(parts[p], i)
  <2>1. Synchronized(parts)[p] = Resized(parts[p], l)
    BY <1>1
  <2>2. Len(parts[p]) <= l /\ Len(parts[p]) \in Nat
    BY <1>2, <1>4
  <2>3. \A i \in Nat : i \notin 1 .. l => At(parts[p], i) = 0
    BY <1>5, <2>2 DEF At
  <2> QED BY <1>5, <2>1, <2>3, ResizedIs
<1> QED BY <1>5, <1>6, Zenon DEF Fitted

\* A multiple of the lowest coefficient of the vanishing polynomial taken off.
LEMMA MinusVanishing ==
    ASSUME NEW a \in Field, NEW q \in Field
    PROVE  /\ (a - q * (Modulus - 1)) % Modulus = (a + q) % Modulus
           /\ (a - q * 0) % Modulus = a /\ (a - 0) % Modulus = a
           /\ (q - q * 1) % Modulus = 0
<1>1. a \in Int /\ q \in Int /\ Modulus \in Int
  BY FieldIs, ModulusIs
<1>2. (a - q * (Modulus - 1)) % Modulus = (a + q) % Modulus
  <2> DEFINE x == a - q * (Modulus - 1)
             y == a + q
  <2>1. q * (Modulus - 1) = Modulus * q - q /\ q * (Modulus - 1) \in Int
    BY <1>1
  <2>2. x - y = Modulus * (0 - q)
    <3> DEFINE z == Modulus * q
    <3>1. z \in Int /\ Modulus * (0 - q) = 0 - z
      BY <1>1
    <3>2. x = a - (z - q)
      BY <2>1
    <3> HIDE DEF x, z
    <3> QED BY <1>1, <3>1, <3>2
  <2>3. x \in Int /\ y \in Int /\ 0 - q \in Int
    BY <1>1, <2>1
  <2> HIDE DEF x, y
  <2>4. Same(x, y)
    BY <2>2, <2>3 DEF Same
  <2>5. x % Modulus = y % Modulus
    BY <2>3, <2>4, SameRemainder
  <2> QED BY <2>5 DEF x, y
<1>3. a - q * 0 = a /\ a - 0 = a /\ q - q * 1 = 0
  BY <1>1
<1>4. a % Modulus = a /\ 0 % Modulus = 0
  BY FieldIs, ModulusIs
<1> QED BY <1>2, <1>3, <1>4

\* A polynomial with four coefficients.
FourOf(p) == Len(p) = 4 /\ p[1] \in Field /\ p[2] \in Field /\ p[3] \in Field /\ p[4] \in Field

LEMMA FourAre ==
    ASSUME NEW p
    PROVE  /\ p \in Seq(Field) /\ Len(p) = 4 => FourOf(p)
           /\ Len(p) = 4 => At(p, 1) = p[1] /\ At(p, 2) = p[2] /\ At(p, 3) = p[3] /\ At(p, 4) = p[4]
           /\ FourOf(p) /\ p = [i \in 1 .. 4 |-> p[i]] => p \in Seq(Field)
<1>1. p \in Seq(Field) /\ Len(p) = 4 => FourOf(p)
  BY DEF FourOf
<1>2. Len(p) = 4 => At(p, 1) = p[1] /\ At(p, 2) = p[2] /\ At(p, 3) = p[3] /\ At(p, 4) = p[4]
  BY DEF At
<1>3. FourOf(p) /\ p = [i \in 1 .. 4 |-> p[i]] => p \in Seq(Field)
  BY DEF FourOf
<1> QED BY <1>1, <1>2, <1>3

LEMMA MinusFour ==
    ASSUME NEW p, NEW q
    PROVE  LET m == Minus(p, q, 4)
           IN  /\ m = [i \in 1 .. 4 |-> m[i]] /\ Len(m) = 4
               /\ m[1] = (At(p, 1) - At(q, 1)) % Modulus /\ m[2] = (At(p, 2) - At(q, 2)) % Modulus
               /\ m[3] = (At(p, 3) - At(q, 3)) % Modulus /\ m[4] = (At(p, 4) - At(q, 4)) % Modulus
<1>1. /\ Minus(p, q, 4) = [i \in 1 .. 4 |-> Minus(p, q, 4)[i]]
      /\ Len(Minus(p, q, 4)) = 4
  BY 4 \in Nat, MinusIs DEF Minus
<1>2. 1 \in 1 .. 4 /\ 2 \in 1 .. 4 /\ 3 \in 1 .. 4 /\ 4 \in 1 .. 4 /\ 4 \in Nat
  OBVIOUS
<1>3. \A i \in 1 .. 4 : Minus(p, q, 4)[i] = (At(p, i) - At(q, i)) % Modulus
  BY <1>2, MinusIs
<1> QED BY <1>1, <1>2, <1>3, Zenon

\* The first and the second step of the division of four coefficients.
LEMMA HighStep ==
    ASSUME NEW p, FourOf(p)
    PROVE  LET m == Minus(p, Multiple(p[4], Vanishing, 1), 4)
           IN  /\ FourOf(m) /\ m = [i \in 1 .. 4 |-> m[i]]
               /\ m[1] = p[1] /\ m[2] = (p[2] + p[4]) % Modulus /\ m[3] = p[3] /\ m[4] = 0
<1> DEFINE q == p[4]
           u == Multiple(q, Vanishing, 1)
           m == Minus(p, u, 4)
<1>1. Len(Vanishing) = 3 /\ Vanishing[1] = Modulus - 1 /\ Vanishing[2] = 0 /\ Vanishing[3] = 1
  BY DEF Vanishing
<1>2. Len(u) = 4 /\ u[1] = 0 /\ u[2] = q * (Modulus - 1) /\ u[3] = q * 0 /\ u[4] = q * 1
  <2>1. u = [i \in 1 .. 4 |-> IF i > 1 THEN q * Vanishing[i - 1] ELSE 0]
    BY <1>1 DEF Multiple
  <2> HIDE DEF u, q
  <2> QED BY <1>1, <2>1
<1> HIDE DEF u
<1>3. /\ Len(p) = 4 /\ p[1] \in Field /\ p[2] \in Field /\ p[3] \in Field /\ p[4] \in Field
      /\ p[1] \in Int /\ p[2] \in Int /\ p[3] \in Int /\ p[4] \in Int
  BY FieldIs DEF FourOf
<1>4. /\ At(p, 1) = p[1] /\ At(p, 2) = p[2] /\ At(p, 3) = p[3] /\ At(p, 4) = p[4]
      /\ At(u, 1) = u[1] /\ At(u, 2) = u[2] /\ At(u, 3) = u[3] /\ At(u, 4) = u[4]
  BY <1>2, <1>3, FourAre
<1>5. /\ m = [i \in 1 .. 4 |-> m[i]] /\ Len(m) = 4
      /\ m[1] = (p[1] - 0) % Modulus /\ m[2] = (p[2] - q * (Modulus - 1)) % Modulus
      /\ m[3] = (p[3] - q * 0) % Modulus /\ m[4] = (q - q * 1) % Modulus
  <2>1. /\ m = [i \in 1 .. 4 |-> m[i]] /\ Len(m) = 4
        /\ m[1] = (At(p, 1) - At(u, 1)) % Modulus /\ m[2] = (At(p, 2) - At(u, 2)) % Modulus
        /\ m[3] = (At(p, 3) - At(u, 3)) % Modulus /\ m[4] = (At(p, 4) - At(u, 4)) % Modulus
    BY MinusFour
  <2> HIDE DEF m, q
  <2>2. /\ m[1] = (At(p, 1) - At(u, 1)) % Modulus /\ m[2] = (At(p, 2) - At(u, 2)) % Modulus
        /\ m[3] = (At(p, 3) - At(u, 3)) % Modulus /\ m[4] = (At(p, 4) - At(u, 4)) % Modulus
    BY <2>1
  <2>3. p[4] = q
    BY DEF q
  <2> QED BY <1>2, <1>4, <2>1, <2>2, <2>3
<1> HIDE DEF m
<1>6. (p[1] - 0) % Modulus = p[1]
  BY <1>3, MinusVanishing, Zenon
<1>7. (p[2] - q * (Modulus - 1)) % Modulus = (p[2] + q) % Modulus
  BY <1>3, MinusVanishing, Zenon
<1>8. (p[3] - q * 0) % Modulus = p[3]
  BY <1>3, MinusVanishing, Zenon
<1>9. (q - q * 1) % Modulus = 0
  BY <1>3, MinusVanishing, Zenon
<1>10. m[1] = p[1] /\ m[2] = (p[2] + q) % Modulus /\ m[3] = p[3] /\ m[4] = 0
  BY <1>5, <1>6, <1>7, <1>8, <1>9, Zenon
<1>11. (p[2] + q) % Modulus \in Field /\ 0 \in Field
  BY <1>3, Remainder, ModulusIs
<1>12. FourOf(m)
  BY <1>3, <1>5, <1>10, <1>11, Zenon DEF FourOf
<1> QED BY <1>5, <1>10, <1>12, Zenon DEF m, u, q

LEMMA LowStep ==
    ASSUME NEW p, FourOf(p)
    PROVE  LET m == Minus(p, Multiple(p[3], Vanishing, 0), 4)
           IN  /\ FourOf(m) /\ m = [i \in 1 .. 4 |-> m[i]]
               /\ m[1] = (p[1] + p[3]) % Modulus /\ m[2] = p[2] /\ m[3] = 0 /\ m[4] = p[4]
<1> DEFINE q == p[3]
           u == Multiple(q, Vanishing, 0)
           m == Minus(p, u, 4)
<1>1. Len(Vanishing) = 3 /\ Vanishing[1] = Modulus - 1 /\ Vanishing[2] = 0 /\ Vanishing[3] = 1
  BY DEF Vanishing
<1>2. Len(u) = 3 /\ u[1] = q * (Modulus - 1) /\ u[2] = q * 0 /\ u[3] = q * 1
  <2>1. u = [i \in 1 .. 3 |-> IF i > 0 THEN q * Vanishing[i - 0] ELSE 0]
    BY <1>1 DEF Multiple
  <2> HIDE DEF u, q
  <2> QED BY <1>1, <2>1
<1> HIDE DEF u
<1>3. /\ Len(p) = 4 /\ p[1] \in Field /\ p[2] \in Field /\ p[3] \in Field /\ p[4] \in Field
      /\ p[1] \in Int /\ p[2] \in Int /\ p[3] \in Int /\ p[4] \in Int
  BY FieldIs DEF FourOf
<1>4. /\ At(p, 1) = p[1] /\ At(p, 2) = p[2] /\ At(p, 3) = p[3] /\ At(p, 4) = p[4]
      /\ At(u, 1) = u[1] /\ At(u, 2) = u[2] /\ At(u, 3) = u[3] /\ At(u, 4) = 0
  <2>1. At(u, 1) = u[1] /\ At(u, 2) = u[2] /\ At(u, 3) = u[3] /\ At(u, 4) = 0
    BY <1>2 DEF At
  <2> QED BY <1>3, <2>1, FourAre
<1>5. /\ m = [i \in 1 .. 4 |-> m[i]] /\ Len(m) = 4
      /\ m[1] = (p[1] - q * (Modulus - 1)) % Modulus /\ m[2] = (p[2] - q * 0) % Modulus
      /\ m[3] = (q - q * 1) % Modulus /\ m[4] = (p[4] - 0) % Modulus
  <2>1. /\ m = [i \in 1 .. 4 |-> m[i]] /\ Len(m) = 4
        /\ m[1] = (At(p, 1) - At(u, 1)) % Modulus /\ m[2] = (At(p, 2) - At(u, 2)) % Modulus
        /\ m[3] = (At(p, 3) - At(u, 3)) % Modulus /\ m[4] = (At(p, 4) - At(u, 4)) % Modulus
    BY MinusFour
  <2> HIDE DEF m, q
  <2>2. /\ m[1] = (At(p, 1) - At(u, 1)) % Modulus /\ m[2] = (At(p, 2) - At(u, 2)) % Modulus
        /\ m[3] = (At(p, 3) - At(u, 3)) % Modulus /\ m[4] = (At(p, 4) - At(u, 4)) % Modulus
    BY <2>1
  <2>3. p[3] = q
    BY DEF q
  <2> QED BY <1>2, <1>4, <2>1, <2>2, <2>3
<1> HIDE DEF m
<1>6. (p[4] - 0) % Modulus = p[4]
  BY <1>3, MinusVanishing, Zenon
<1>7. (p[1] - q * (Modulus - 1)) % Modulus = (p[1] + q) % Modulus
  BY <1>3, MinusVanishing, Zenon
<1>8. (p[2] - q * 0) % Modulus = p[2]
  BY <1>3, MinusVanishing, Zenon
<1>9. (q - q * 1) % Modulus = 0
  BY <1>3, MinusVanishing, Zenon
<1>10. m[1] = (p[1] + q) % Modulus /\ m[2] = p[2] /\ m[3] = 0 /\ m[4] = p[4]
  BY <1>5, <1>6, <1>7, <1>8, <1>9, Zenon
<1>11. (p[1] + q) % Modulus \in Field /\ 0 \in Field
  BY <1>3, Remainder, ModulusIs
<1>12. FourOf(m)
  BY <1>3, <1>5, <1>10, <1>11, Zenon DEF FourOf
<1> QED BY <1>5, <1>10, <1>12, Zenon DEF m, u, q

\* Quotient and remainder of four coefficients by the vanishing polynomial of
\* two points.
LEMMA DivideVanishing ==
    ASSUME NEW num \in Seq(Field), Len(num) = 4
    PROVE  LET qr == DivideWithQAndR(num, Vanishing)
           IN  /\ Len(qr[1]) \in 0 .. 4 /\ Len(qr[2]) \in 0 .. 4
               /\ At(qr[1], 1) = num[3] /\ At(qr[1], 2) = num[4]
               /\ At(qr[2], 1) = (num[1] + num[3]) % Modulus
               /\ At(qr[2], 2) = (num[2] + num[4]) % Modulus
<1> DEFINE f == CHOOSE u : Left(u, num, Vanishing, 2, 1)
           t == [d \in 1 .. 2 |-> f[d - 1][2]]
           T == Trimmed(t)
           R == Trimmed(f[0][1])
<1>1. Len(Vanishing) = 3 /\ Vanishing[3] = 1 /\ FieldInverse(1) = 1
  BY InverseOfOne DEF Vanishing
<1>2. DivideWithQAndR(num, Vanishing) = IF Trimmed(num) = <<>> THEN << <<>>, <<>> >> ELSE <<T, R>>
  <2> DEFINE steps == Len(num) - Len(Vanishing) + 1
             back  == FieldInverse(Vanishing[Len(Vanishing)])
             left  == CHOOSE u : Left(u, num, Vanishing, steps, back)
  <2>1. DivideWithQAndR(num, Vanishing) =
          CASE Trimmed(num) = <<>> -> << <<>>, <<>> >>
            [] Trimmed(num) # <<>> /\ Len(num) < Len(Vanishing) -> << <<>>, num >>
            [] OTHER -> << Trimmed([d \in 1 .. steps |-> left[d - 1][2]]), Trimmed(left[0][1]) >>
    BY Zenon DEF DivideWithQAndR, Left
  <2>2. steps = 2 /\ back = 1 /\ ~ (Len(num) < Len(Vanishing))
    BY <1>1
  <2> HIDE DEF steps, back
  <2>3. left = f
    BY <2>2, Zenon
  <2> HIDE DEF left, f
  <2>4. [d \in 1 .. steps |-> left[d - 1][2]] = t /\ left[0][1] = f[0][1]
    BY <2>2, <2>3, Zenon
  <2> QED BY <2>1, <2>2, <2>4
<1>3. /\ FourOf(num) /\ num[1] \in Int /\ num[2] \in Int /\ num[3] \in Int /\ num[4] \in Int
      /\ num[3] \in Field /\ num[4] \in Field
      /\ At(num, 1) = num[1] /\ At(num, 2) = num[2] /\ At(num, 3) = num[3] /\ At(num, 4) = num[4]
  <2>1. FourOf(num)
    BY FourAre
  <2> QED BY <2>1, FourAre, FieldIs DEF FourOf
<1> DEFINE St(above, d) ==
             LET q == (At(above, d + 3) * 1) % Modulus
             IN  << Minus(above, Multiple(q, Vanishing, d), 4), q >>
           a == <<num, 0>>
           b == St(num, 1)
           c == St(b[1], 0)
           h == [d \in 0 .. 2 |-> IF d = 2 THEN a ELSE IF d = 1 THEN b ELSE c]
<1>4. \A u : Left(u, num, Vanishing, 2, 1) <=>
        u = [d \in 0 .. 2 |-> IF d = 2 THEN a ELSE St(u[d + 1][1], d)]
  BY <1>1 DEF Left, Multiple
<1> HIDE DEF St
<1>5. Left(h, num, Vanishing, 2, 1)
  <2> DEFINE e == [d \in 0 .. 2 |-> IF d = 2 THEN a ELSE St(h[d + 1][1], d)]
  <2>1. h[0] = c /\ h[1] = b /\ h[2] = a /\ a[1] = num
    OBVIOUS
  <2>2. \A d \in 0 .. 2 : d = 0 \/ d = 1 \/ d = 2
    OBVIOUS
  <2>3. h = [d \in 0 .. 2 |-> h[d]]
    OBVIOUS
  <2> HIDE DEF h, a, b
  <2>4. e[0] = c /\ e[1] = b /\ e[2] = a
    BY <2>1 DEF b
  <2>5. e = [d \in 0 .. 2 |-> e[d]]
    OBVIOUS
  <2> HIDE DEF e, c
  <2>6. \A d \in 0 .. 2 : h[d] = e[d]
    BY <2>1, <2>2, <2>4
  <2>7. h = e
    BY <2>3, <2>5, <2>6
  <2> QED BY <1>4, <2>7 DEF e
<1>6. Left(f, num, Vanishing, 2, 1)
  BY <1>5, Zenon
<1>7. f[1] = St(num, 1) /\ f[0] = St(f[1][1], 0)
  <2>1. f = [d \in 0 .. 2 |-> IF d = 2 THEN a ELSE St(f[d + 1][1], d)]
    BY <1>4, <1>6
  <2> HIDE DEF f, a
  <2>2. f[2] = a /\ f[1] = St(f[2][1], 1) /\ f[0] = St(f[1][1], 0)
    BY <2>1
  <2>3. a[1] = num
    BY DEF a
  <2> QED BY <2>2, <2>3
<1> HIDE DEF f
<1> DEFINE p == f[1][1]
           r == f[0][1]
<1>8. /\ f[1][2] = num[4] /\ FourOf(p)
      /\ p[1] = num[1] /\ p[2] = (num[2] + num[4]) % Modulus /\ p[3] = num[3] /\ p[4] = 0
  <2>1. (At(num, 1 + 3) * 1) % Modulus = num[4]
    <3>1. num[4] * 1 = num[4] /\ num[4] % Modulus = num[4] /\ 1 + 3 = 4
      BY <1>3, FieldIs
    <3> QED BY <1>3, <3>1
  <2>2. f[1] = << Minus(num, Multiple(num[4], Vanishing, 1), 4), num[4] >>
    BY <1>7, <2>1, Zenon DEF St
  <2>3. p = Minus(num, Multiple(num[4], Vanishing, 1), 4) /\ f[1][2] = num[4]
    BY <2>2
  <2> HIDE DEF p
  <2> QED BY <1>3, <2>3, HighStep, Zenon
<1> HIDE DEF p
<1>9. /\ f[0][2] = num[3] /\ FourOf(r) /\ r = [i \in 1 .. 4 |-> r[i]]
      /\ r[1] = (num[1] + num[3]) % Modulus /\ r[2] = (num[2] + num[4]) % Modulus
  <2>1. (At(p, 0 + 3) * 1) % Modulus = p[3]
    <3>1. At(p, 3) = p[3] /\ p[3] \in Int /\ p[3] % Modulus = p[3]
      BY <1>8, FourAre, FieldIs DEF FourOf
    <3>2. p[3] * 1 = p[3] /\ 0 + 3 = 3
      BY <3>1
    <3> QED BY <3>1, <3>2
  <2>2. f[0] = << Minus(p, Multiple(p[3], Vanishing, 0), 4), p[3] >>
    BY <1>7, <2>1, Zenon DEF St, p
  <2>3. r = Minus(p, Multiple(p[3], Vanishing, 0), 4) /\ f[0][2] = p[3]
    BY <2>2
  <2> HIDE DEF r
  <2> QED BY <1>8, <2>3, LowStep, Zenon
<1>10. t \in Seq(Field) /\ At(t, 1) = num[3] /\ At(t, 2) = num[4] /\ Len(t) = 2
  <2>1. Len(t) = 2 /\ t[1] = num[3] /\ t[2] = num[4]
    BY <1>8, <1>9
  <2>2. t = [i \in 1 .. 2 |-> t[i]]
    OBVIOUS
  <2> HIDE DEF t
  <2>3. t \in Seq(Field)
    BY <1>3, <2>1, <2>2
  <2> QED BY <2>1, <2>3 DEF At
<1> HIDE DEF t, r
<1>11. /\ Len(T) \in 0 .. 2 /\ At(T, 1) = num[3] /\ At(T, 2) = num[4]
  BY <1>10, TrimmedIs
<1>12. /\ Len(R) \in 0 .. 4 /\ At(R, 1) = (num[1] + num[3]) % Modulus
       /\ At(R, 2) = (num[2] + num[4]) % Modulus
  <2>1. r \in Seq(Field) /\ Len(r) = 4 /\ At(r, 1) = r[1] /\ At(r, 2) = r[2]
    BY <1>9, FourAre DEF FourOf
  <2>2. Len(R) \in 0 .. 4 /\ At(R, 1) = At(r, 1) /\ At(R, 2) = At(r, 2)
    BY <2>1, TrimmedIs DEF r
  <2> QED BY <1>9, <2>1, <2>2
<1> HIDE DEF T, R
<1>13. CASE Trimmed(num) # <<>>
  <2>1. DivideWithQAndR(num, Vanishing) = <<T, R>>
    BY <1>2, <1>13
  <2>2. <<T, R>>[1] = T /\ <<T, R>>[2] = R
    OBVIOUS
  <2> QED BY <1>11, <1>12, <2>1, <2>2
<1>14. CASE Trimmed(num) = <<>>
  <2>1. \A i \in Nat : At(num, i) = At(<<>>, i)
    BY <1>14, TrimmedIs
  <2>2. \A i \in Nat : At(<<>>, i) = 0
    BY DEF At
  <2>3. num[1] = 0 /\ num[2] = 0 /\ num[3] = 0 /\ num[4] = 0
    BY <1>3, <2>1, <2>2
  <2>4. DivideWithQAndR(num, Vanishing) = << <<>>, <<>> >>
    BY <1>2, <1>14
  <2>5. (0 + 0) % Modulus = 0
    BY ModulusIs
  <2> QED BY <2>2, <2>3, <2>4, <2>5
<1> QED BY <1>13, <1>14

\* Four sharings, as the coefficients of a polynomial.
FourSharings(num) ==
    /\ num = [k \in 1 .. 4 |-> num[k]]
    /\ num[1] \in Sharing /\ num[2] \in Sharing /\ num[3] \in Sharing /\ num[4] \in Sharing

\* The coefficient i of the part that is kept, as a sharing.
Kept(num, part, i) ==
    CASE part = 1 /\ i = 1 -> num[3]
      [] part = 1 /\ i = 2 -> num[4]
      [] part = 2 /\ i = 1 -> Added(num[1], num[3])
      [] part = 2 /\ i = 2 -> Added(num[2], num[4])

\* Every party divides its own shares, and the results fit together.
LEMMA DivideSharesIs ==
    ASSUME NEW num, FourSharings(num), NEW part \in {1, 2}
    PROVE  LET d == DivideShares(num, Vanishing)[part]
           IN  /\ \A p \in Party : Len(d[p]) = Len(d[King])
               /\ [p \in Party |-> At(d[p], 1)] = Kept(num, part, 1)
               /\ [p \in Party |-> At(d[p], 2)] = Kept(num, part, 2)
<1> DEFINE own(p) == [i \in DOMAIN num |-> num[i][p]]
           parts == [p \in Party |-> DivideWithQAndR(own(p), Vanishing)]
           q == [p \in Party |-> parts[p][1]]
           r == [p \in Party |-> parts[p][2]]
           x == [p \in Party |-> parts[p][part]]
           d == DivideShares(num, Vanishing)[part]
<1>1. d = Synchronized(x)
  <2>1. DivideShares(num, Vanishing) = <<Synchronized(q), Synchronized(r)>>
    BY DEF DivideShares
  <2>2. DivideShares(num, Vanishing)[1] = Synchronized(q) /\ DivideShares(num, Vanishing)[2] = Synchronized(r)
    BY <2>1
  <2>3. CASE part = 1
    BY <2>2, <2>3, Zenon
  <2>4. CASE part = 2
    BY <2>2, <2>4, Zenon
  <2> QED BY <2>3, <2>4
<1>2. ASSUME NEW p \in Party
      PROVE  /\ Len(x[p]) \in 0 .. 4
             /\ part = 1 => At(x[p], 1) = num[3][p] /\ At(x[p], 2) = num[4][p]
             /\ part = 2 => /\ At(x[p], 1) = (num[1][p] + num[3][p]) % Modulus
                            /\ At(x[p], 2) = (num[2][p] + num[4][p]) % Modulus
  <2> DEFINE n == own(p)
  <2>1. /\ num[1][p] \in Field /\ num[2][p] \in Field /\ num[3][p] \in Field /\ num[4][p] \in Field
    BY ShareIs DEF FourSharings
  <2>2. /\ n = [i \in 1 .. 4 |-> n[i]]
        /\ n[1] = num[1][p] /\ n[2] = num[2][p] /\ n[3] = num[3][p] /\ n[4] = num[4][p]
    <3>1. n = [i \in 1 .. 4 |-> num[i][p]]
      BY DEF FourSharings
    <3> HIDE DEF n
    <3> QED BY <3>1
  <2> HIDE DEF n
  <2>3. Len(n) = 4
    BY <2>2
  <2>4. n \in Seq(Field)
    BY <2>1, <2>2, <2>3, FourAre DEF FourOf
  <2> DEFINE qr == DivideWithQAndR(n, Vanishing)
  <2>5. /\ Len(qr[1]) \in 0 .. 4 /\ Len(qr[2]) \in 0 .. 4
        /\ At(qr[1], 1) = n[3] /\ At(qr[1], 2) = n[4]
        /\ At(qr[2], 1) = (n[1] + n[3]) % Modulus
        /\ At(qr[2], 2) = (n[2] + n[4]) % Modulus
    BY <2>3, <2>4, DivideVanishing
  <2>6. x[p] = qr[part]
    BY DEF n
  <2> HIDE DEF qr, x
  <2>7. CASE part = 1
    <3>1. x[p] = qr[1]
      BY <2>6, <2>7
    <3> QED BY <2>2, <2>5, <2>7, <3>1
  <2>8. CASE part = 2
    <3>1. x[p] = qr[2]
      BY <2>6, <2>8
    <3> QED BY <2>2, <2>5, <2>8, <3>1
  <2> QED BY <2>7, <2>8
<1> HIDE DEF x, d
<1>3. PICK l \in Nat : \A p \in Party : /\ Len(d[p]) = l
                                        /\ \A i \in Nat : At(d[p], i) = At(x[p], i)
  <2>1. \A p \in Party : Len(x[p]) \in 0 .. 4
    BY <1>2
  <2>2. PICK b \in Nat : Fit(x, b)
    BY <2>1, 4 \in Nat DEF Fit
  <2>3. Fitted(Synchronized(x), x)
    BY <2>2, SynchronizedIs
  <2> QED BY <1>1, <2>3 DEF Fitted
<1>4. \A p \in Party : Len(d[p]) = Len(d[King])
  BY <1>3, PartiesAre
<1>5. \A p \in Party : At(d[p], 1) = At(x[p], 1) /\ At(d[p], 2) = At(x[p], 2)
  BY <1>3, 1 \in Nat, 2 \in Nat
<1>6. ASSUME NEW y \in Sharing PROVE [p \in Party |-> y[p]] = y
  BY DEF Sharing
<1> DEFINE u == [p \in Party |-> At(d[p], 1)]
           v == [p \in Party |-> At(d[p], 2)]
<1>7. CASE part = 1
  <2>1. u = [p \in Party |-> num[3][p]] /\ v = [p \in Party |-> num[4][p]]
    BY <1>2, <1>5, <1>7
  <2>2. num[3] \in Sharing /\ num[4] \in Sharing
    BY DEF FourSharings
  <2>3. u = num[3] /\ v = num[4]
    BY <1>6, <2>1, <2>2
  <2>4. Kept(num, part, 1) = num[3] /\ Kept(num, part, 2) = num[4]
    BY <1>7 DEF Kept
  <2> QED BY <1>4, <2>3, <2>4 DEF d
<1>8. CASE part = 2
  <2>1. /\ u = [p \in Party |-> (num[1][p] + num[3][p]) % Modulus]
        /\ v = [p \in Party |-> (num[2][p] + num[4][p]) % Modulus]
    BY <1>2, <1>5, <1>8
  <2>2. u = Added(num[1], num[3]) /\ v = Added(num[2], num[4])
    BY <2>1 DEF Added
  <2>3. Kept(num, part, 1) = Added(num[1], num[3]) /\ Kept(num, part, 2) = Added(num[2], num[4])
    BY <1>8 DEF Kept
  <2> QED BY <1>4, <2>2, <2>3 DEF d
<1> QED BY <1>7, <1>8

\* The coefficient i of the part that is kept, of field elements.
KeptPlain(v, part, i) ==
    CASE part = 1 /\ i = 1 -> v[3]
      [] part = 1 /\ i = 2 -> v[4]
      [] part = 2 /\ i = 1 -> (v[1] + v[3]) % Modulus
      [] part = 2 /\ i = 2 -> (v[2] + v[4]) % Modulus

LEMMA DividePlain ==
    ASSUME NEW v, v = [k \in 1 .. 4 |-> v[k]], NEW part \in {1, 2},
           v[1] \in Field, v[2] \in Field, v[3] \in Field, v[4] \in Field
    PROVE  LET w == Resized(DivideWithQAndR(v, Vanishing)[part], 2)
           IN  w = [i \in 1 .. 2 |-> w[i]] /\ w[1] = KeptPlain(v, part, 1) /\ w[2] = KeptPlain(v, part, 2)
<1> DEFINE qr == DivideWithQAndR(v, Vanishing)
           d == qr[part]
           w == Resized(d, 2)
<1>1. Len(v) = 4 /\ v \in Seq(Field)
  <2>1. Len(v) = 4
    OBVIOUS
  <2> QED BY <2>1, FourAre DEF FourOf
<1>2. /\ At(qr[1], 1) = v[3] /\ At(qr[1], 2) = v[4]
      /\ At(qr[2], 1) = (v[1] + v[3]) % Modulus
      /\ At(qr[2], 2) = (v[2] + v[4]) % Modulus
  BY <1>1, DivideVanishing
<1> HIDE DEF qr
<1>3. At(d, 1) = KeptPlain(v, part, 1) /\ At(d, 2) = KeptPlain(v, part, 2)
  BY <1>2 DEF KeptPlain
<1> HIDE DEF d
<1>4. w[1] = At(d, 1) /\ w[2] = At(d, 2)
  BY 2 \in Nat, ResizedIs
<1>5. w = [i \in 1 .. 2 |-> w[i]]
  BY 2 \in Nat DEF Resized
<1> QED BY <1>3, <1>4, <1>5 DEF w, d, qr

\* What is kept of the quotient or the remainder of sharings is a sharing of
\* what is kept of that of the values.
LEMMA KeptOpens ==
    ASSUME NEW r, NEW v, NEW part \in {1, 2}, NEW i \in {1, 2},
           Holds(r[1], v[1]), Holds(r[2], v[2]), Holds(r[3], v[3]), Holds(r[4], v[4]),
           r[1].shared, r[2].shared, r[3].shared, r[4].shared,
           NEW x, x.val = Kept([k \in 1 .. 4 |-> r[k].val], part, i),
           x.mac = Kept([k \in 1 .. 4 |-> r[k].mac], part, i)
    PROVE  Holds(Shared(x), KeptPlain(v, part, i))
<1> DEFINE vals == [k \in 1 .. 4 |-> r[k].val]
           macs == [k \in 1 .. 4 |-> r[k].mac]
<1>1. /\ vals[1] = r[1].val /\ vals[2] = r[2].val /\ vals[3] = r[3].val /\ vals[4] = r[4].val
      /\ macs[1] = r[1].mac /\ macs[2] = r[2].mac /\ macs[3] = r[3].mac /\ macs[4] = r[4].mac
  OBVIOUS
<1>2. Opens(r[1], v[1]) /\ Opens(r[2], v[2]) /\ Opens(r[3], v[3]) /\ Opens(r[4], v[4])
  BY DEF Holds
<1>3. /\ v[1] \in Field /\ v[2] \in Field /\ v[3] \in Field /\ v[4] \in Field
      /\ v[1] \in Int /\ v[2] \in Int /\ v[3] \in Int /\ v[4] \in Int
  BY HeldIs
<1>4. x.val = Kept(vals, part, i) /\ x.mac = Kept(macs, part, i)
  OBVIOUS
<1> HIDE DEF vals, macs
<1>5. ASSUME NEW j \in {3, 4}, x.val = vals[j], x.mac = macs[j], KeptPlain(v, part, i) = v[j]
      PROVE  Holds(Shared(x), v[j])
  <2>1. Opens(r[j], v[j]) /\ x.val = r[j].val /\ x.mac = r[j].mac /\ v[j] \in Field /\ v[j] \in Int
    BY <1>1, <1>2, <1>3, <1>5
  <2>2. Opens(x, v[j])
    BY <2>1 DEF Opens
  <2> QED BY <2>1, <2>2, SameItself, SharedHolds
<1>6. ASSUME NEW j \in {1, 2}, NEW k \in {3, 4},
             x.val = Added(vals[j], vals[k]), x.mac = Added(macs[j], macs[k])
      PROVE  Holds(Shared(x), (v[j] + v[k]) % Modulus)
  <2>1. /\ Opens(r[j], v[j]) /\ Opens(r[k], v[k]) /\ v[j] \in Int /\ v[k] \in Int
        /\ x.val = Added(r[j].val, r[k].val) /\ x.mac = Added(r[j].mac, r[k].mac)
    BY <1>1, <1>2, <1>3, <1>6
  <2>2. Opens(x, v[j] + v[k])
    BY <2>1, AddedOpens DEF Opens
  <2> DEFINE s == v[j] + v[k]
             c == s % Modulus
  <2>3. s \in Int
    BY <2>1
  <2>4. c \in Field /\ c \in Int /\ Same(s, c)
    <3> HIDE DEF s
    <3>1. c \in Field /\ Same(c, s)
      BY <2>3, Remainder
    <3> QED BY <2>3, <3>1, SameBack, FieldIs
  <2> HIDE DEF s, c
  <2>5. Holds(Shared(x), c)
    BY <2>2, <2>3, <2>4, SharedHolds DEF s
  <2> QED BY <2>5 DEF c, s
<1>7. CASE part = 1 /\ i = 1
  BY <1>4, <1>5, <1>7 DEF Kept, KeptPlain
<1>8. CASE part = 1 /\ i = 2
  BY <1>4, <1>5, <1>8 DEF Kept, KeptPlain
<1>9. CASE part = 2 /\ i = 1
  BY <1>4, <1>6, <1>9 DEF Kept, KeptPlain
<1>10. CASE part = 2 /\ i = 2
  BY <1>4, <1>6, <1>10 DEF Kept, KeptPlain
<1> QED BY <1>7, <1>8, <1>9, <1>10

-----------------------------------------------------------------------------
(* Numbers as shared bits, and the ripple-carry adders.                    *)

Bit(a, k) == (a \div 2 ^ k) % 2 = 1

\* The carry out of the lowest k bits of a sum.
Carries(a, b, k) == (a % 2 ^ k) + (b % 2 ^ k) >= 2 ^ k

LEMMA SumOfDigits ==
    ASSUME NEW a \in Nat, NEW b \in Nat, NEW d \in Nat \ {0}
    PROVE  LET qa == (a \div d) % 2 = 1
               qb == (b \div d) % 2 = 1
               c  == (a % d) + (b % d) >= d
           IN  /\ (a % (2 * d)) + (b % (2 * d)) >= 2 * d <=> (qa /\ qb) \/ (qa /\ c) \/ (qb /\ c)
               /\ ((a + b) \div d) % 2 = 1 <=> ((qa # qb) # c)
<1> DEFINE u == a \div d
           v == b \div d
           r == a % d
           s == b % d
<1>1. /\ u \in Nat /\ v \in Nat /\ r \in 0 .. d - 1 /\ s \in 0 .. d - 1
      /\ a = d * u + r /\ b = d * v + s
  BY DivMod
<1>2. /\ a % (2 * d) = r + (IF u % 2 = 1 THEN d ELSE 0)
      /\ b % (2 * d) = s + (IF v % 2 = 1 THEN d ELSE 0)
  BY NextBit
<1>3. (a + b) \div d = (u + v) + (IF r + s >= d THEN 1 ELSE 0)
  <2> HIDE DEF u, v, r, s
  <2> DEFINE e == IF r + s >= d THEN 1 ELSE 0
             t == IF r + s >= d THEN (r + s) - d ELSE r + s
             w == (u + v) + e
  <2>1. e \in {0, 1} /\ t \in Nat /\ t < d /\ r + s = d * e + t
    BY <1>1
  <2>2. w \in Nat
    BY <1>1, <2>1
  <2>3. a + b = d * w + t
    <3>1. d * w = (d * u + d * v) + d * e
      BY <1>1, <2>1
    <3>2. d * u \in Int /\ d * v \in Int /\ d * e \in Int
      BY <1>1, <2>1
    <3> HIDE DEF e, t, w
    <3> QED BY <1>1, <2>1, <3>1, <3>2
  <2> HIDE DEF w, t, e
  <2>4. (d * w + t) \div d = w
    BY <2>1, <2>2, DivIs
  <2> QED BY <2>3, <2>4 DEF w, e
<1> HIDE DEF u, v, r, s
<1> DEFINE x == u % 2
           y == v % 2
<1>4. x \in {0, 1} /\ y \in {0, 1} /\ \A e \in {0, 1} : ((u + v) + e) % 2 = (x + y + e) % 2
  BY <1>1
<1> DEFINE e == IF r + s >= d THEN 1 ELSE 0
<1>5. ((a + b) \div d) % 2 = (x + y + e) % 2
  <2>1. e \in {0, 1}
    OBVIOUS
  <2>2. (a + b) \div d = (u + v) + e
    BY <1>3
  <2> HIDE DEF e, x, y
  <2> QED BY <1>4, <2>1, <2>2
<1>6. ((a + b) \div d) % 2 = 1 <=> (((x = 1) # (y = 1)) # (r + s >= d))
  <2> HIDE DEF x, y
  <2>1. CASE r + s >= d
    <3>1. e = 1
      BY <2>1
    <3> QED BY <1>4, <1>5, <2>1, <3>1
  <2>2. CASE ~ (r + s >= d)
    <3>1. e = 0
      BY <2>2
    <3> QED BY <1>4, <1>5, <2>2, <3>1
  <2> QED BY <2>1, <2>2
<1>7. (a % (2 * d)) + (b % (2 * d)) >= 2 * d <=>
        (x = 1 /\ y = 1) \/ (x = 1 /\ r + s >= d) \/ (y = 1 /\ r + s >= d)
  <2>1. /\ a % (2 * d) = r + (IF x = 1 THEN d ELSE 0)
        /\ b % (2 * d) = s + (IF y = 1 THEN d ELSE 0)
    BY <1>2
  <2> HIDE DEF x, y
  <2> QED BY <1>1, <1>4, <2>1
<1> QED BY <1>6, <1>7 DEF u, v, r, s, x, y

LEMMA SumOfBits ==
    ASSUME NEW a \in Nat, NEW b \in Nat, NEW k \in Nat
    PROVE  /\ Carries(a, b, k + 1) <=> \/ Bit(a, k) /\ Bit(b, k)
                                       \/ Bit(a, k) /\ Carries(a, b, k)
                                       \/ Bit(b, k) /\ Carries(a, b, k)
           /\ Bit(a + b, k) <=> ((Bit(a, k) # Bit(b, k)) # Carries(a, b, k))
           /\ ~ Carries(a, b, 0)
<1> DEFINE d == 2 ^ k
<1>1. d \in Nat \ {0} /\ 2 ^ (k + 1) = 2 * d /\ 2 ^ 0 = 1
  BY PowerStep
<1>2. ~ Carries(a, b, 0)
  BY <1>1 DEF Carries
<1> HIDE DEF d
<1>3. /\ (a % (2 * d)) + (b % (2 * d)) >= 2 * d <=>
           \/ (a \div d) % 2 = 1 /\ (b \div d) % 2 = 1
           \/ (a \div d) % 2 = 1 /\ (a % d) + (b % d) >= d
           \/ (b \div d) % 2 = 1 /\ (a % d) + (b % d) >= d
      /\ ((a + b) \div d) % 2 = 1 <=>
           ((((a \div d) % 2 = 1) # ((b \div d) % 2 = 1)) # ((a % d) + (b % d) >= d))
  BY <1>1, SumOfDigits, Zenon
<1>4. Carries(a, b, k + 1) <=> (a % (2 * d)) + (b % (2 * d)) >= 2 * d
  BY <1>1 DEF Carries
<1> QED BY <1>2, <1>3, <1>4, Zenon DEF Carries, Bit, d

\* The first n shared bits of x are those of a.
Binary(x, n, a) ==
    \A i \in 1 .. n : x[i] \in SUBSET Party /\ (OpenBit(x[i]) <=> Bit(a, i - 1))

LEMMA NoParty == {} \in SUBSET Party /\ ~ OpenBit({})
BY KingsBit DEF If

Rippled(u, x, y, n) ==
    u = [i \in 0 .. n |->
          IF i = 0 THEN {}
          ELSE LET c == u[i - 1] IN Or(Or(And(x[i], y[i]), And(x[i], c)), And(y[i], c))]

Ripple(x, y, n) == CHOOSE u : Rippled(u, x, y, n)

LEMMA MajorityOpens ==
    ASSUME NEW x \in SUBSET Party, NEW y \in SUBSET Party, NEW c \in SUBSET Party
    PROVE  LET m == Or(Or(And(x, y), And(x, c)), And(y, c))
           IN  /\ m \in SUBSET Party
               /\ OpenBit(m) <=> \/ OpenBit(x) /\ OpenBit(y)
                                 \/ OpenBit(x) /\ OpenBit(c)
                                 \/ OpenBit(y) /\ OpenBit(c)
<1> DEFINE p == And(x, y)
           q == And(x, c)
           r == And(y, c)
<1>1. /\ p \in SUBSET Party /\ (OpenBit(p) <=> OpenBit(x) /\ OpenBit(y))
      /\ q \in SUBSET Party /\ (OpenBit(q) <=> OpenBit(x) /\ OpenBit(c))
      /\ r \in SUBSET Party /\ (OpenBit(r) <=> OpenBit(y) /\ OpenBit(c))
  BY AndOpens
<1> HIDE DEF p, q, r
<1>2. Or(p, q) \in SUBSET Party /\ (OpenBit(Or(p, q)) <=> OpenBit(p) \/ OpenBit(q))
  BY <1>1, OrOpens
<1> DEFINE o == Or(p, q)
<1> HIDE DEF o
<1>3. Or(o, r) \in SUBSET Party /\ (OpenBit(Or(o, r)) <=> OpenBit(o) \/ OpenBit(r))
  BY <1>1, <1>2, OrOpens DEF o
<1> QED BY <1>1, <1>2, <1>3, Zenon DEF o, p, q, r

LEMMA SumBitOpens ==
    ASSUME NEW x \in SUBSET Party, NEW y \in SUBSET Party, NEW c \in SUBSET Party
    PROVE  /\ Xor(Xor(x, y), c) \in SUBSET Party
           /\ OpenBit(Xor(Xor(x, y), c)) <=> ((OpenBit(x) # OpenBit(y)) # OpenBit(c))
<1>1. Xor(x, y) \in SUBSET Party /\ (OpenBit(Xor(x, y)) <=> (OpenBit(x) # OpenBit(y)))
  BY XorIsShared, XorOpens
<1> DEFINE z == Xor(x, y)
<1> HIDE DEF z
<1>2. Xor(z, c) \in SUBSET Party /\ (OpenBit(Xor(z, c)) <=> (OpenBit(z) # OpenBit(c)))
  BY <1>1, XorIsShared, XorOpens DEF z
<1>3. OpenBit(z) = (OpenBit(x) # OpenBit(y))
  BY <1>1 DEF z, OpenBit
<1> QED BY <1>2, <1>3 DEF z

LEMMA RippledIs ==
    ASSUME NEW n \in Nat, NEW a \in Nat, NEW b \in Nat, NEW x, NEW y,
           Binary(x, n, a), Binary(y, n, b), NEW f, f = Ripple(x, y, n)
    PROVE  \A i \in 0 .. n : f[i] \in SUBSET Party /\ (OpenBit(f[i]) <=> Carries(a, b, i))
<1> DEFINE next(i, c) == Or(Or(And(x[i], y[i]), And(x[i], c)), And(y[i], c))
           g == [q \in (1 .. n) \X (SUBSET Party) |-> next(q[1], q[2])]
<1>1. \A i \in 1 .. n : \A c \in SUBSET Party : g[<<i, c>>] = next(i, c)
  OBVIOUS
<1>2. \A i \in 1 .. n : x[i] \in SUBSET Party /\ y[i] \in SUBSET Party
  BY DEF Binary
<1>3. \A i \in 1 .. n : \A c \in SUBSET Party :
        /\ next(i, c) \in SUBSET Party
        /\ OpenBit(next(i, c)) <=> \/ OpenBit(x[i]) /\ OpenBit(y[i])
                                   \/ OpenBit(x[i]) /\ OpenBit(c)
                                   \/ OpenBit(y[i]) /\ OpenBit(c)
  BY <1>2, MajorityOpens, Zenon
<1> HIDE DEF g, next
<1>4. Steps(g, SUBSET Party, n)
  BY <1>1, <1>3, Zenon DEF Steps
<1>5. PICK h \in [0 .. n -> SUBSET Party] : Iterated(h, {}, g, n)
  BY <1>4, NoParty, Iterates
<1>6. Rippled(h, x, y, n)
  <2> DEFINE e == [i \in 0 .. n |-> IF i = 0 THEN {} ELSE next(i, h[i - 1])]
  <2>1. \A i \in 0 .. n : h[i] = e[i]
    <3> SUFFICES ASSUME NEW i \in 0 .. n PROVE h[i] = IF i = 0 THEN {} ELSE next(i, h[i - 1])
      OBVIOUS
    <3>1. CASE i = 0
      BY <1>5, <3>1 DEF Iterated
    <3>2. CASE i # 0
      <4>1. i \in 1 .. n /\ h[i - 1] \in SUBSET Party
        BY <3>2
      <4>2. h[i] = g[<<i, h[i - 1]>>]
        BY <1>5, <4>1 DEF Iterated
      <4> QED BY <1>1, <3>2, <4>1, <4>2, Zenon
    <3> QED BY <3>1, <3>2
  <2>2. h = [i \in 0 .. n |-> h[i]] /\ e = [i \in 0 .. n |-> e[i]]
    OBVIOUS
  <2> HIDE DEF e
  <2>3. h = e
    BY <2>1, <2>2
  <2> QED BY <2>3 DEF e, Rippled, next
<1>7. Rippled(f, x, y, n)
  BY <1>6, Zenon DEF Ripple
<1>8. f[0] = {} /\ \A k \in Nat : k + 1 <= n => f[k + 1] = next(k + 1, f[k])
  <2>1. \A i \in 0 .. n : f[i] = IF i = 0 THEN {} ELSE next(i, f[i - 1])
    BY <1>7 DEF Rippled, next
  <2>2. \A k \in Nat : k + 1 <= n => k + 1 \in 0 .. n /\ k + 1 # 0 /\ (k + 1) - 1 = k
    OBVIOUS
  <2> QED BY <2>1, <2>2
<1> DEFINE Q(i) == f[i] \in SUBSET Party /\ (OpenBit(f[i]) <=> Carries(a, b, i))
           S == {i \in Nat : i <= n => Q(i)}
<1>9. 0 \in S
  <2>1. ~ Carries(a, b, 0)
    BY 0 \in Nat, SumOfBits
  <2> QED BY <1>8, <2>1, NoParty
<1>10. \A k \in Nat : k \in S => k + 1 \in S
  <2>a. \A k \in Nat : k + 1 \in Nat /\ (k + 1 <= n => k <= n)
    OBVIOUS
  <2> SUFFICES ASSUME NEW k \in Nat, k + 1 <= n, Q(k) PROVE Q(k + 1)
    BY <2>a, Zenon
  <2> DEFINE i == k + 1
             c == f[k]
  <2>1. i \in 1 .. n /\ i - 1 = k
    OBVIOUS
  <2> HIDE DEF i
  <2>2. (OpenBit(x[i]) <=> Bit(a, k)) /\ (OpenBit(y[i]) <=> Bit(b, k))
    BY <2>1 DEF Binary
  <2>3. f[i] = next(i, c)
    BY <1>8 DEF i
  <2>4. c \in SUBSET Party /\ (OpenBit(c) <=> Carries(a, b, k))
    OBVIOUS
  <2> HIDE DEF c
  <2>5. /\ next(i, c) \in SUBSET Party
        /\ OpenBit(next(i, c)) <=> \/ OpenBit(x[i]) /\ OpenBit(y[i])
                                   \/ OpenBit(x[i]) /\ OpenBit(c)
                                   \/ OpenBit(y[i]) /\ OpenBit(c)
    BY <1>3, <2>1, <2>4, Zenon
  <2>6. Carries(a, b, k + 1) <=> \/ Bit(a, k) /\ Bit(b, k)
                                 \/ Bit(a, k) /\ Carries(a, b, k)
                                 \/ Bit(b, k) /\ Carries(a, b, k)
    BY SumOfBits
  <2>7. OpenBit(f[i]) <=> Carries(a, b, k + 1)
    BY <2>2, <2>3, <2>4, <2>5, <2>6, Zenon
  <2> QED BY <2>3, <2>5, <2>7 DEF i
<1>11. \A i \in Nat : i \in S
  <2> HIDE DEF S
  <2> QED BY <1>9, <1>10, Reaches
<1> QED BY <1>11

\* The ripple-carry adder adds.
THEOREM BitsAddOpens ==
    ASSUME NEW x, NEW y, NEW n \in Nat, Len(x) = n, NEW a \in Nat, NEW b \in Nat,
           Binary(x, n, a), Binary(y, n, b)
    PROVE  /\ BitsAdd(x, y) = [i \in 1 .. n + 1 |-> BitsAdd(x, y)[i]]
           /\ Binary(BitsAdd(x, y), n, a + b)
           /\ BitsAdd(x, y)[n + 1] \in SUBSET Party
           /\ OpenBit(BitsAdd(x, y)[n + 1]) <=> Carries(a, b, n)
<1> DEFINE f == Ripple(x, y, n)
<1>1. BitsAdd(x, y) = [i \in 1 .. n + 1 |-> IF i > n THEN f[n] ELSE Xor(Xor(x[i], y[i]), f[i - 1])]
  BY DEF BitsAdd, Ripple, Rippled
<1>2. \A i \in 0 .. n : f[i] \in SUBSET Party /\ (OpenBit(f[i]) <=> Carries(a, b, i))
  BY RippledIs
<1> HIDE DEF f
<1> DEFINE z == BitsAdd(x, y)
<1>3. /\ z = [i \in 1 .. n + 1 |-> z[i]] /\ z[n + 1] = f[n]
      /\ \A i \in 1 .. n : z[i] = Xor(Xor(x[i], y[i]), f[i - 1])
  BY <1>1
<1> HIDE DEF z
<1>4. ASSUME NEW i \in 1 .. n
      PROVE  z[i] \in SUBSET Party /\ (OpenBit(z[i]) <=> Bit(a + b, i - 1))
  <2>1. /\ x[i] \in SUBSET Party /\ (OpenBit(x[i]) <=> Bit(a, i - 1))
        /\ y[i] \in SUBSET Party /\ (OpenBit(y[i]) <=> Bit(b, i - 1))
    BY DEF Binary
  <2>2. i - 1 \in 0 .. n /\ i - 1 \in Nat
    OBVIOUS
  <2> DEFINE k == i - 1
  <2>3. f[k] \in SUBSET Party /\ (OpenBit(f[k]) <=> Carries(a, b, k))
    BY <1>2, <2>2
  <2>4. z[i] = Xor(Xor(x[i], y[i]), f[k])
    BY <1>3
  <2>5. Bit(a + b, k) <=> ((Bit(a, k) # Bit(b, k)) # Carries(a, b, k))
    BY <2>2, SumOfBits
  <2>6. /\ Xor(Xor(x[i], y[i]), f[k]) \in SUBSET Party
        /\ OpenBit(Xor(Xor(x[i], y[i]), f[k])) <=> ((OpenBit(x[i]) # OpenBit(y[i])) # OpenBit(f[k]))
    BY <2>1, <2>3, SumBitOpens
  <2>7. OpenBit(x[i]) = Bit(a, k) /\ OpenBit(y[i]) = Bit(b, k) /\ OpenBit(f[k]) = Carries(a, b, k)
    BY <2>1, <2>3 DEF OpenBit, Bit, Carries
  <2> QED BY <2>4, <2>5, <2>6, <2>7
<1>5. Binary(z, n, a + b)
  BY <1>4 DEF Binary
<1>6. z[n + 1] \in SUBSET Party /\ (OpenBit(z[n + 1]) <=> Carries(a, b, n))
  <2>1. n \in 0 .. n
    OBVIOUS
  <2> QED BY <1>2, <1>3, <2>1
<1> QED BY <1>3, <1>5, <1>6 DEF z

ConstRippled(u, x, const, n) ==
    u = [i \in 0 .. n |->
          IF i = 0 THEN {}
          ELSE LET c == u[i - 1] IN IF const[i] THEN Or(x[i], c) ELSE And(x[i], c)]

ConstRipple(x, const, n) == CHOOSE u : ConstRippled(u, x, const, n)

\* The first n public bits of const are those of b.
PublicBinary(const, n, b) == \A i \in 1 .. n : const[i] <=> Bit(b, i - 1)

LEMMA BitsOfIs ==
    ASSUME NEW b \in Nat, NEW n \in Nat
    PROVE  PublicBinary(BitsOf(b, n), n, b)
BY DEF PublicBinary, BitsOf, Bit

LEMMA ConstMajorityOpens ==
    ASSUME NEW x \in SUBSET Party, NEW c \in SUBSET Party, NEW t, NEW bb, t <=> bb
    PROVE  LET m == IF t THEN Or(x, c) ELSE And(x, c)
           IN  /\ m \in SUBSET Party
               /\ OpenBit(m) <=> \/ OpenBit(x) /\ bb
                                 \/ OpenBit(x) /\ OpenBit(c)
                                 \/ bb /\ OpenBit(c)
<1>1. Or(x, c) \in SUBSET Party /\ (OpenBit(Or(x, c)) <=> OpenBit(x) \/ OpenBit(c))
  BY OrOpens
<1>2. And(x, c) \in SUBSET Party /\ (OpenBit(And(x, c)) <=> OpenBit(x) /\ OpenBit(c))
  BY AndOpens
<1>3. CASE t
  BY <1>1, <1>3, Zenon
<1>4. CASE ~ t
  BY <1>2, <1>4, Zenon
<1> QED BY <1>3, <1>4

LEMMA ConstRippledIs ==
    ASSUME NEW n \in Nat, NEW a \in Nat, NEW b \in Nat, NEW x, NEW const,
           Binary(x, n, a), PublicBinary(const, n, b), NEW f, f = ConstRipple(x, const, n)
    PROVE  \A i \in 0 .. n : f[i] \in SUBSET Party /\ (OpenBit(f[i]) <=> Carries(a, b, i))
<1> DEFINE next(i, c) == IF const[i] THEN Or(x[i], c) ELSE And(x[i], c)
           g == [q \in (1 .. n) \X (SUBSET Party) |-> next(q[1], q[2])]
<1>1. \A i \in 1 .. n : \A c \in SUBSET Party : g[<<i, c>>] = next(i, c)
  OBVIOUS
<1>2. \A i \in 1 .. n : x[i] \in SUBSET Party /\ (const[i] <=> Bit(b, i - 1))
  BY DEF Binary, PublicBinary
<1>3. \A i \in 1 .. n : \A c \in SUBSET Party :
        /\ next(i, c) \in SUBSET Party
        /\ OpenBit(next(i, c)) <=> \/ OpenBit(x[i]) /\ Bit(b, i - 1)
                                   \/ OpenBit(x[i]) /\ OpenBit(c)
                                   \/ Bit(b, i - 1) /\ OpenBit(c)
  BY <1>2, ConstMajorityOpens, Zenon
<1> HIDE DEF g, next
<1>4. Steps(g, SUBSET Party, n)
  BY <1>1, <1>3, Zenon DEF Steps
<1>5. PICK h \in [0 .. n -> SUBSET Party] : Iterated(h, {}, g, n)
  BY <1>4, NoParty, Iterates
<1>6. ConstRippled(h, x, const, n)
  <2> DEFINE e == [i \in 0 .. n |-> IF i = 0 THEN {} ELSE next(i, h[i - 1])]
  <2>1. \A i \in 0 .. n : h[i] = e[i]
    <3> SUFFICES ASSUME NEW i \in 0 .. n PROVE h[i] = IF i = 0 THEN {} ELSE next(i, h[i - 1])
      OBVIOUS
    <3>1. CASE i = 0
      BY <1>5, <3>1 DEF Iterated
    <3>2. CASE i # 0
      <4>1. i \in 1 .. n /\ h[i - 1] \in SUBSET Party
        BY <3>2
      <4>2. h[i] = g[<<i, h[i - 1]>>]
        BY <1>5, <4>1 DEF Iterated
      <4> QED BY <1>1, <3>2, <4>1, <4>2, Zenon
    <3> QED BY <3>1, <3>2
  <2>2. h = [i \in 0 .. n |-> h[i]] /\ e = [i \in 0 .. n |-> e[i]]
    OBVIOUS
  <2> HIDE DEF e
  <2>3. h = e
    BY <2>1, <2>2
  <2> QED BY <2>3 DEF e, ConstRippled, next
<1>7. ConstRippled(f, x, const, n)
  BY <1>6, Zenon DEF ConstRipple
<1>8. f[0] = {} /\ \A k \in Nat : k + 1 <= n => f[k + 1] = next(k + 1, f[k])
  <2>1. \A i \in 0 .. n : f[i] = IF i = 0 THEN {} ELSE next(i, f[i - 1])
    BY <1>7 DEF ConstRippled, next
  <2>2. \A k \in Nat : k + 1 <= n => k + 1 \in 0 .. n /\ k + 1 # 0 /\ (k + 1) - 1 = k
    OBVIOUS
  <2> QED BY <2>1, <2>2
<1> DEFINE Q(i) == f[i] \in SUBSET Party /\ (OpenBit(f[i]) <=> Carries(a, b, i))
           S == {i \in Nat : i <= n => Q(i)}
<1>9. 0 \in S
  <2>1. ~ Carries(a, b, 0)
    BY 0 \in Nat, SumOfBits
  <2> QED BY <1>8, <2>1, NoParty
<1>10. \A k \in Nat : k \in S => k + 1 \in S
  <2>a. \A k \in Nat : k + 1 \in Nat /\ (k + 1 <= n => k <= n)
    OBVIOUS
  <2> SUFFICES ASSUME NEW k \in Nat, k + 1 <= n, Q(k) PROVE Q(k + 1)
    BY <2>a, Zenon
  <2> DEFINE i == k + 1
             c == f[k]
  <2>1. i \in 1 .. n /\ i - 1 = k
    OBVIOUS
  <2> HIDE DEF i
  <2>2. OpenBit(x[i]) <=> Bit(a, k)
    BY <2>1 DEF Binary
  <2>3. f[i] = next(i, c)
    BY <1>8 DEF i
  <2>4. c \in SUBSET Party /\ (OpenBit(c) <=> Carries(a, b, k))
    OBVIOUS
  <2> HIDE DEF c
  <2>5. /\ next(i, c) \in SUBSET Party
        /\ OpenBit(next(i, c)) <=> \/ OpenBit(x[i]) /\ Bit(b, k)
                                   \/ OpenBit(x[i]) /\ OpenBit(c)
                                   \/ Bit(b, k) /\ OpenBit(c)
    BY <1>3, <2>1, <2>4, Zenon
  <2>6. Carries(a, b, k + 1) <=> \/ Bit(a, k) /\ Bit(b, k)
                                 \/ Bit(a, k) /\ Carries(a, b, k)
                                 \/ Bit(b, k) /\ Carries(a, b, k)
    BY SumOfBits
  <2>7. OpenBit(f[i]) <=> Carries(a, b, k + 1)
    BY <2>2, <2>3, <2>4, <2>5, <2>6, Zenon
  <2> QED BY <2>3, <2>5, <2>7 DEF i
<1>11. \A i \in Nat : i \in S
  <2> HIDE DEF S
  <2> QED BY <1>9, <1>10, Reaches
<1> QED BY <1>11

LEMMA IfKing ==
    ASSUME NEW t, NEW y, y = If(t, {King})
    PROVE  y \in SUBSET Party /\ (OpenBit(y) <=> t)
<1>1. {King} \in SUBSET Party /\ OpenBit({King})
  BY KingIsParty, KingsBit DEF If
<1>2. CASE t
  <2>1. y = {King}
    BY <1>2 DEF If
  <2> QED BY <1>1, <1>2, <2>1
<1>3. CASE ~ t
  <2>1. y = {}
    BY <1>3 DEF If
  <2> QED BY <1>3, <2>1, NoParty
<1> QED BY <1>2, <1>3

\* And so does the one with a public operand.
THEOREM BitsAddConstOpens ==
    ASSUME NEW x, NEW const, NEW n \in Nat, Len(x) = n, NEW a \in Nat, NEW b \in Nat,
           Binary(x, n, a), PublicBinary(const, n, b)
    PROVE  /\ BitsAddConst(x, const) = [i \in 1 .. n + 1 |-> BitsAddConst(x, const)[i]]
           /\ Binary(BitsAddConst(x, const), n, a + b)
           /\ BitsAddConst(x, const)[n + 1] \in SUBSET Party
           /\ OpenBit(BitsAddConst(x, const)[n + 1]) <=> Carries(a, b, n)
<1> DEFINE f == ConstRipple(x, const, n)
<1>1. BitsAddConst(x, const) =
        [i \in 1 .. n + 1 |-> IF i > n THEN f[n] ELSE Xor(Xor(x[i], If(const[i], {King})), f[i - 1])]
  BY DEF BitsAddConst, ConstRipple, ConstRippled
<1>2. \A i \in 0 .. n : f[i] \in SUBSET Party /\ (OpenBit(f[i]) <=> Carries(a, b, i))
  BY ConstRippledIs
<1> HIDE DEF f
<1> DEFINE z == BitsAddConst(x, const)
<1>3. /\ z = [i \in 1 .. n + 1 |-> z[i]] /\ z[n + 1] = f[n]
      /\ \A i \in 1 .. n : z[i] = Xor(Xor(x[i], If(const[i], {King})), f[i - 1])
  BY <1>1
<1> HIDE DEF z
<1>4. ASSUME NEW i \in 1 .. n
      PROVE  z[i] \in SUBSET Party /\ (OpenBit(z[i]) <=> Bit(a + b, i - 1))
  <2> DEFINE y == If(const[i], {King})
  <2>1. /\ x[i] \in SUBSET Party /\ (OpenBit(x[i]) <=> Bit(a, i - 1))
        /\ y \in SUBSET Party /\ (OpenBit(y) <=> Bit(b, i - 1))
    <3>1. x[i] \in SUBSET Party /\ (OpenBit(x[i]) <=> Bit(a, i - 1))
      BY DEF Binary
    <3>2. const[i] <=> Bit(b, i - 1)
      BY DEF PublicBinary
    <3>3. y \in SUBSET Party /\ (OpenBit(y) <=> const[i])
      BY IfKing
    <3> QED BY <3>1, <3>2, <3>3, Zenon
  <2>2. i - 1 \in 0 .. n /\ i - 1 \in Nat
    OBVIOUS
  <2> DEFINE k == i - 1
  <2>3. f[k] \in SUBSET Party /\ (OpenBit(f[k]) <=> Carries(a, b, k))
    BY <1>2, <2>2
  <2>4. z[i] = Xor(Xor(x[i], y), f[k])
    BY <1>3
  <2> HIDE DEF y
  <2>5. Bit(a + b, k) <=> ((Bit(a, k) # Bit(b, k)) # Carries(a, b, k))
    BY <2>2, SumOfBits
  <2>6. /\ Xor(Xor(x[i], y), f[k]) \in SUBSET Party
        /\ OpenBit(Xor(Xor(x[i], y), f[k])) <=> ((OpenBit(x[i]) # OpenBit(y)) # OpenBit(f[k]))
    BY <2>1, <2>3, SumBitOpens
  <2>7. OpenBit(x[i]) = Bit(a, k) /\ OpenBit(y) = Bit(b, k) /\ OpenBit(f[k]) = Carries(a, b, k)
    BY <2>1, <2>3 DEF OpenBit, Bit, Carries
  <2> QED BY <2>4, <2>5, <2>6, <2>7
<1>5. Binary(z, n, a + b)
  BY <1>4 DEF Binary
<1>6. z[n + 1] \in SUBSET Party /\ (OpenBit(z[n + 1]) <=> Carries(a, b, n))
  <2>1. n \in 0 .. n
    OBVIOUS
  <2> QED BY <1>2, <1>3, <2>1
<1> QED BY <1>3, <1>5, <1>6 DEF z

-----------------------------------------------------------------------------
(* The bits of a shared field element.                                     *)

\* The bits below a power of two are not changed by adding it.
LEMMA BitsBelow ==
    ASSUME NEW a \in Nat, NEW l \in Nat, NEW k \in Nat, k < l
    PROVE  Bit(a + 2 ^ l, k) <=> Bit(a, k)
<1> DEFINE d == 2 ^ k
           h == 2 ^ (l - (k + 1))
           w == 2 ^ l
<1>1. l - (k + 1) \in Nat /\ k + 1 \in Nat /\ (l - (k + 1)) + (k + 1) = l
  OBVIOUS
<1>2. d \in Nat \ {0} /\ h \in Nat \ {0} /\ w \in Nat \ {0} /\ 2 ^ (k + 1) = 2 * d
  BY <1>1, PowerStep
<1>3. w = h * (2 * d)
  BY <1>1, <1>2, PowerSum
<1> HIDE DEF d, h, w
<1>4. w = d * (2 * h) + 0 /\ 2 * h \in Nat
  BY <1>2, <1>3
<1>5. w \div d = 2 * h
  <2> DEFINE b == 2 * h
  <2>1. b \in Nat /\ w = d * b + 0
    BY <1>4
  <2> HIDE DEF b
  <2> QED BY <1>2, <2>1, DivIs DEF b
<1>6. w % d = 0
  <2> DEFINE q == w \div d
             r == w % d
  <2>1. q \in Nat /\ r \in Nat /\ w = d * q + r
    BY <1>2, DivMod
  <2>2. q = 2 * h
    BY <1>5
  <2> HIDE DEF q, r
  <2>3. d * q + r = d * (2 * h) + 0
    BY <1>4, <2>1
  <2> DEFINE x == d * q
  <2>4. x + r = x + 0 /\ x \in Nat
    BY <1>2, <2>1, <2>2, <2>3
  <2> HIDE DEF x
  <2> QED BY <2>1, <2>4 DEF r
<1>7. (2 * h) % 2 # 1
  BY <1>2
<1>8. ~ Bit(w, k)
  BY <1>5, <1>7 DEF Bit, d
<1>9. ~ Carries(a, w, k)
  <2>1. a % d \in 0 .. d - 1
    BY <1>2, DivMod
  <2> QED BY <1>2, <1>6, <2>1 DEF Carries, d
<1>10. Bit(a + w, k) <=> ((Bit(a, k) # Bit(w, k)) # Carries(a, w, k))
  BY <1>2, SumOfBits
<1> QED BY <1>8, <1>9, <1>10 DEF w, Bit, Carries

LEMMA BitsOfZero ==
    ASSUME NEW k \in Nat
    PROVE  ~ Bit(0, k)
<1> DEFINE d == 2 ^ k
<1>1. d \in Nat \ {0}
  BY PowerStep
<1> HIDE DEF d
<1>2. 0 \div d = 0
  BY <1>1
<1>3. ~ ((0 \div d) % 2 = 1)
  BY <1>2
<1> QED BY <1>3, Zenon DEF Bit, d

\* The highest bit of a number below twice the power.
LEMMA HighBit ==
    ASSUME NEW a \in Nat, NEW l \in Nat, a < 2 * 2 ^ l
    PROVE  Bit(a, l) <=> a >= 2 ^ l
<1> DEFINE d == 2 ^ l
<1>1. d \in Nat \ {0} /\ a < 2 * d
  BY PowerStep
<1> HIDE DEF d
<1>2. CASE a >= d
  <2>1. a = d * 1 + (a - d) /\ a - d \in Nat /\ a - d < d
    BY <1>1, <1>2
  <2>2. a \div d = 1
    BY <1>1, <2>1
  <2> QED BY <1>2, <2>2 DEF Bit, d
<1>3. CASE ~ (a >= d)
  <2>1. a \div d = 0
    BY <1>1, <1>3
  <2> QED BY <1>3, <2>1 DEF Bit, d
<1> QED BY <1>2, <1>3

LEMMA BinaryFewer ==
    ASSUME NEW x, NEW n \in Nat, NEW l \in Nat, l <= n, NEW a, Binary(x, n, a),
           NEW y, \A i \in 1 .. l : y[i] = x[i]
    PROVE  Binary(y, l, a)
<1> SUFFICES ASSUME NEW i \in 1 .. l
             PROVE  y[i] \in SUBSET Party /\ (OpenBit(y[i]) <=> Bit(a, i - 1))
  BY DEF Binary
<1>1. i \in 1 .. n /\ y[i] = x[i]
  OBVIOUS
<1> QED BY <1>1 DEF Binary

LEMMA BinarySame ==
    ASSUME NEW x, NEW n \in Nat, NEW a, NEW b, Binary(x, n, a),
           \A k \in Nat : k < n => (Bit(a, k) <=> Bit(b, k))
    PROVE  Binary(x, n, b)
<1> SUFFICES ASSUME NEW i \in 1 .. n
             PROVE  x[i] \in SUBSET Party /\ (OpenBit(x[i]) <=> Bit(b, i - 1))
  BY DEF Binary
<1>1. x[i] \in SUBSET Party /\ (OpenBit(x[i]) <=> Bit(a, i - 1))
  BY DEF Binary
<1>2. i - 1 \in Nat /\ i - 1 < n
  OBVIOUS
<1>3. Bit(a, i - 1) <=> Bit(b, i - 1)
  BY <1>2
<1> QED BY <1>1, <1>3

\* The first l of the bits.
LEMMA FirstBits ==
    ASSUME NEW x, NEW m \in Nat, x = [i \in 1 .. m |-> x[i]], \A i \in 1 .. m : x[i] \in SUBSET Party,
           NEW l \in Nat, l <= m
    PROVE  /\ SubSeq(x, 1, l) \in Seq(SUBSET Party) /\ Len(SubSeq(x, 1, l)) = l
           /\ \A i \in 1 .. l : SubSeq(x, 1, l)[i] = x[i]
<1>1. x \in Seq(SUBSET Party) /\ Len(x) = m
  <2>1. x \in [1 .. m -> SUBSET Party]
    OBVIOUS
  <2> QED BY <2>1
<1> QED BY <1>1

LEMMA FewBits ==
    ASSUME NEW x, NEW n \in Nat, x = [i \in 1 .. n + 1 |-> x[i]], NEW a,
           Binary(x, n, a), x[n + 1] \in SUBSET Party, NEW l \in Nat, l <= n
    PROVE  /\ SubSeq(x, 1, l) \in Seq(SUBSET Party) /\ Len(SubSeq(x, 1, l)) = l
           /\ Binary(SubSeq(x, 1, l), l, a)
<1>1. \A i \in 1 .. n + 1 : x[i] \in SUBSET Party
  <2> TAKE i \in 1 .. n + 1
  <2>1. CASE i \in 1 .. n
    BY <2>1 DEF Binary
  <2>2. CASE i = n + 1
    BY <2>2
  <2> QED BY <2>1, <2>2
<1>2. n + 1 \in Nat /\ l <= n + 1
  OBVIOUS
<1> DEFINE y == SubSeq(x, 1, l)
<1>3. y \in Seq(SUBSET Party) /\ Len(y) = l /\ \A i \in 1 .. l : y[i] = x[i]
  BY <1>1, <1>2, FirstBits
<1> HIDE DEF y
<1>4. Binary(y, l, a)
  BY <1>3, BinaryFewer
<1> QED BY <1>3, <1>4 DEF y

\* What is opened, and what is added to the random bits.
LEMMA MaskedValue ==
    ASSUME NEW s, NEW v \in Field, Opens(s, v), NEW r \in Field,
           NEW c, c = Open(SubtractShares(s, Scale(One, r))),
           NEW p \in Nat, Modulus < p, p <= 2 * Modulus,
           NEW e, e = (c + p - Modulus) % (2 * p)
    PROVE  /\ e \in Nat /\ e < p /\ r + e < 2 * p
           /\ (r + e) + (IF r + e >= p THEN 0 ELSE Modulus) = v + p
<1>1. v \in Int /\ r \in Int /\ v \in Nat /\ r \in Nat /\ v < Modulus /\ r < Modulus /\ Modulus \in Nat
  BY FieldIs, ModulusIs
<1>2. Opens(SubtractShares(s, Scale(One, r)), v - 1 * r)
  BY <1>1, OneOpens, 1 \in Int, 1 * r \in Int, ScaleOpens, SubtractOpens
<1>3. v - 1 * r = v - r /\ v - r \in Int
  BY <1>1
<1>4. c \in Field /\ c = (v - r) % Modulus
  BY <1>2, <1>3, OpenIs
<1>5. c \in Nat /\ c < Modulus /\ c \in Int
  BY <1>4, FieldIs
<1>6. c = IF r <= v THEN v - r ELSE (v - r) + Modulus
  <2> DEFINE d == IF r <= v THEN v - r ELSE (v - r) + Modulus
  <2>1. d \in Int /\ d \in Nat /\ d < Modulus
    BY <1>1
  <2>2. d \in Field
    <3> HIDE DEF d
    <3> QED BY <1>1, <2>1 DEF Field
  <2>3. Same(d, v - r)
    <3>1. d - (v - r) = Modulus * (IF r <= v THEN 0 ELSE 1)
      BY <1>1
    <3> QED BY <3>1 DEF Same
  <2> HIDE DEF d
  <2>4. d % Modulus = (v - r) % Modulus
    BY <1>3, <2>1, <2>3, SameRemainder
  <2>5. d = c
    BY <1>4, <2>2, <2>4, FieldIs
  <2> QED BY <2>5 DEF d
<1> DEFINE b == c + p - Modulus
<1>7. b \in Nat /\ b < p /\ b = (c + p) - Modulus
  BY <1>1, <1>5
<1>8. e = b
  <2> DEFINE w == 2 * p
  <2>1. e = b % w
    OBVIOUS
  <2>2. w \in Nat /\ b < w /\ w > 0
    <3> HIDE DEF b
    <3> QED BY <1>1, <1>7
  <2> HIDE DEF b, w
  <2>3. b % w = b
    BY <1>7, <2>2
  <2> QED BY <2>1, <2>3
<1> HIDE DEF b
<1> QED BY <1>1, <1>5, <1>6, <1>7, <1>8

LEMMA ModulusFits == Modulus < 2 ^ BitLength /\ 2 ^ BitLength <= 2 * Modulus /\ 2 ^ BitLength \in Nat
<1>1. BitLength - 1 \in Nat /\ BitLength = (BitLength - 1) + 1 /\ BitLength \in Nat
  BY BitLengthIs
<1>2. 2 ^ BitLength = 2 * 2 ^ (BitLength - 1) /\ 2 ^ (BitLength - 1) \in Nat
  BY <1>1, PowerStep
<1> QED BY <1>1, <1>2, BitLengthIs, PowerStep, ModulusIs

\* The edaBit's bits are those of r, and the highest is not set.
LEMMA RandomIs ==
    ASSUME NEW r \in Nat, NEW l \in Nat, r < 2 ^ l,
           NEW random, random = [i \in 1 .. l + 1 |-> If(i <= l /\ BitsOf(r, l + 1)[i], {King})]
    PROVE  Len(random) = l + 1 /\ Binary(random, l + 1, r)
<1>1. Len(random) = l + 1
  OBVIOUS
<1>2. ASSUME NEW i \in 1 .. l + 1
      PROVE  random[i] \in SUBSET Party /\ (OpenBit(random[i]) <=> Bit(r, i - 1))
  <2>1. random[i] = If(i <= l /\ BitsOf(r, l + 1)[i], {King})
    OBVIOUS
  <2>2. random[i] \in SUBSET Party /\ (OpenBit(random[i]) <=> i <= l /\ BitsOf(r, l + 1)[i])
    BY <2>1, IfKing
  <2>3. BitsOf(r, l + 1)[i] <=> Bit(r, i - 1)
    BY BitsOfIs, l + 1 \in Nat DEF PublicBinary
  <2>4. CASE i <= l
    BY <2>2, <2>3, <2>4
  <2>5. CASE ~ (i <= l)
    <3>1. i - 1 = l
      BY <2>5
    <3>2. ~ Bit(r, l)
      <4>1. 2 ^ l \in Nat /\ r < 2 * 2 ^ l /\ ~ (r >= 2 ^ l)
        BY PowerStep
      <4> QED BY <4>1, HighBit
    <3> QED BY <2>2, <2>5, <3>1, <3>2
  <2> QED BY <2>4, <2>5
<1> QED BY <1>1, <1>2 DEF Binary

\* The modulus, added back when the sum has not overflowed.
Back(back, m, l, x) == back = [i \in 1 .. l |-> And(If(BitsOf(m, l)[i], {King}), x)]

LEMMA BackIs ==
    ASSUME NEW m \in Nat, NEW l \in Nat, NEW x \in SUBSET Party, NEW back, Back(back, m, l, x)
    PROVE  /\ SubSeq(back, 1, l) \in Seq(SUBSET Party) /\ Len(SubSeq(back, 1, l)) = l
           /\ Binary(SubSeq(back, 1, l), l, IF OpenBit(x) THEN m ELSE 0)
<1> DEFINE a == IF OpenBit(x) THEN m ELSE 0
<1>1. ASSUME NEW i \in 1 .. l
      PROVE  back[i] \in SUBSET Party /\ (OpenBit(back[i]) <=> Bit(a, i - 1))
  <2> DEFINE y == If(BitsOf(m, l)[i], {King})
  <2>1. y \in SUBSET Party /\ (OpenBit(y) <=> BitsOf(m, l)[i])
    BY IfKing
  <2>2. BitsOf(m, l)[i] <=> Bit(m, i - 1)
    BY BitsOfIs DEF PublicBinary
  <2>3. back[i] = And(y, x)
    BY DEF Back
  <2> HIDE DEF y
  <2>4. back[i] \in SUBSET Party /\ (OpenBit(back[i]) <=> OpenBit(y) /\ OpenBit(x))
    BY <2>1, <2>3, AndOpens
  <2>5. CASE OpenBit(x)
    <3>1. a = m
      BY <2>5
    <3> QED BY <2>1, <2>2, <2>4, <2>5, <3>1, Zenon
  <2>6. CASE ~ OpenBit(x)
    <3>1. a = 0 /\ i - 1 \in Nat
      BY <2>6
    <3>2. ~ Bit(a, i - 1)
      BY <3>1, BitsOfZero
    <3> QED BY <2>4, <2>6, <3>2, Zenon
  <2> QED BY <2>5, <2>6
<1> HIDE DEF a
<1>2. Binary(back, l, a) /\ \A i \in 1 .. l : back[i] \in SUBSET Party
  BY <1>1 DEF Binary
<1>3. back = [i \in 1 .. l |-> back[i]] /\ l <= l
  BY DEF Back
<1> DEFINE y == SubSeq(back, 1, l)
<1>4. y \in Seq(SUBSET Party) /\ Len(y) = l /\ \A i \in 1 .. l : y[i] = back[i]
  BY <1>2, <1>3, FirstBits
<1> HIDE DEF y
<1>5. Binary(y, l, a)
  BY <1>2, <1>3, <1>4, BinaryFewer
<1> QED BY <1>4, <1>5 DEF y, a

\* The decomposition with an edaBit, of any random value: the bits of what the
\* share opens to.
THEOREM BitDecomposeOpens ==
    ASSUME NEW s, NEW v \in Field, Opens(s, v), NEW r \in Field
    PROVE  /\ BitDecompose(s, r) \in Seq(SUBSET Party)
           /\ Len(BitDecompose(s, r)) = BitLength
           /\ Binary(BitDecompose(s, r), BitLength, v)
<1> DEFINE l == BitLength
           p == 2 ^ l
           c == Open(SubtractShares(s, Scale(One, r)))
           e == (c + p - Modulus) % 2 ^ (l + 1)
           random == [i \in 1 .. l + 1 |-> If(i <= l /\ BitsOf(r, l + 1)[i], {King})]
           sum    == BitsAddConst(random, BitsOf(e, l + 1))
           back   == [i \in 1 .. l |-> And(If(BitsOf(Modulus, l)[i], {King}), Not(sum[l + 1]))]
           low    == SubSeq(sum, 1, l)
           kept   == SubSeq(back, 1, l)
           add    == BitsAdd(low, kept)
<1>1. BitDecompose(s, r) = SubSeq(add, 1, l)
  BY DEF BitDecompose
<1>2. l \in Nat /\ l + 1 \in Nat /\ l <= l + 1 /\ l <= l /\ p \in Nat /\ Modulus < p /\ p <= 2 * Modulus
      /\ 2 ^ (l + 1) = 2 * p
  BY BitLengthIs, ModulusFits, PowerStep
<1>3. v \in Nat /\ r \in Nat /\ r < p /\ Modulus \in Nat
  BY <1>2, FieldIs, ModulusIs
<1>4. /\ e \in Nat /\ e < p /\ r + e < 2 * p /\ r + e \in Nat
      /\ (r + e) + (IF r + e >= p THEN 0 ELSE Modulus) = v + p
  <2>1. e = (c + p - Modulus) % (2 * p)
    BY <1>2
  <2> HIDE DEF l, p, c, e
  <2>2. /\ e \in Nat /\ e < p /\ r + e < 2 * p
        /\ (r + e) + (IF r + e >= p THEN 0 ELSE Modulus) = v + p
    BY <1>2, <2>1, MaskedValue DEF c
  <2> QED BY <1>3, <2>2
<1>5. Len(random) = l + 1 /\ Binary(random, l + 1, r)
  <2> HIDE DEF l
  <2> QED BY <1>2, <1>3, RandomIs
<1> HIDE DEF l, c, e, random
<1>6. PublicBinary(BitsOf(e, l + 1), l + 1, e)
  BY <1>2, <1>4, BitsOfIs
<1>7. /\ sum = [i \in 1 .. (l + 1) + 1 |-> sum[i]] /\ Binary(sum, l + 1, r + e)
      /\ sum[(l + 1) + 1] \in SUBSET Party
  BY <1>2, <1>3, <1>4, <1>5, <1>6, BitsAddConstOpens
<1> HIDE DEF sum
<1>8. low \in Seq(SUBSET Party) /\ Len(low) = l /\ Binary(low, l, r + e)
  BY <1>2, <1>7, FewBits
<1>9. sum[l + 1] \in SUBSET Party /\ (OpenBit(sum[l + 1]) <=> r + e >= p)
  <2>1. l + 1 \in 1 .. l + 1 /\ (l + 1) - 1 = l
    BY <1>2
  <2>2. sum[l + 1] \in SUBSET Party /\ (OpenBit(sum[l + 1]) <=> Bit(r + e, l))
    BY <1>7, <2>1 DEF Binary
  <2>3. Bit(r + e, l) <=> r + e >= p
    BY <1>2, <1>4, HighBit
  <2> QED BY <2>2, <2>3, Zenon
<1> DEFINE x == Not(sum[l + 1])
<1>10. x \in SUBSET Party /\ (OpenBit(x) <=> ~ (r + e >= p))
  BY <1>9, NotOpens, KingIsParty, XorIsShared DEF Not
<1> HIDE DEF x
<1> DEFINE m == IF OpenBit(x) THEN Modulus ELSE 0
<1>11. kept \in Seq(SUBSET Party) /\ Len(kept) = l /\ Binary(kept, l, m)
  <2>1. Back(back, Modulus, l, x)
    BY DEF x, Back
  <2> HIDE DEF back
  <2> QED BY <1>2, <1>3, <1>10, <2>1, BackIs
<1>12. m \in Nat /\ (r + e) + m = v + p
  <2> HIDE DEF p
  <2> QED BY <1>2, <1>3, <1>4, <1>10
<1> HIDE DEF low, kept, m
<1>13. /\ add = [i \in 1 .. l + 1 |-> add[i]] /\ Binary(add, l, (r + e) + m)
       /\ add[l + 1] \in SUBSET Party
  BY <1>2, <1>4, <1>8, <1>11, <1>12, BitsAddOpens
<1> HIDE DEF add
<1> DEFINE z == SubSeq(add, 1, l)
<1>14. z \in Seq(SUBSET Party) /\ Len(z) = l /\ Binary(z, l, v + p)
  BY <1>2, <1>12, <1>13, FewBits
<1>15. \A k \in Nat : k < l => (Bit(v + p, k) <=> Bit(v, k))
  BY <1>2, <1>3, BitsBelow
<1> HIDE DEF z
<1>16. Binary(z, l, v)
  BY <1>2, <1>14, <1>15, BinarySame
<1> QED BY <1>1, <1>14, <1>16 DEF z, l

-----------------------------------------------------------------------------
(* The comparison of two numbers, bit by bit.                              *)

\* Recursion that starts at 1.
StepsOn(g, V, n) == \A i \in 2 .. n : \A v \in V : g[<<i, v>>] \in V

FromOne(f, b, g, n) == f[1] = b /\ \A i \in 2 .. n : f[i] = g[<<i, f[i - 1]>>]

LEMMA IteratesFromOne ==
    ASSUME NEW n \in Nat \ {0}, NEW V, NEW b \in V, NEW g, StepsOn(g, V, n)
    PROVE  \E f \in [1 .. n -> V] : FromOne(f, b, g, n)
<1> DEFINE e == [q \in (1 .. n - 1) \X V |-> g[<<q[1] + 1, q[2]>>]]
<1>1. \A i \in 1 .. n - 1 : \A v \in V : e[<<i, v>>] = g[<<i + 1, v>>]
  OBVIOUS
<1> HIDE DEF e
<1>2. Steps(e, V, n - 1)
  <2> SUFFICES ASSUME NEW i \in 1 .. n - 1, NEW v \in V PROVE e[<<i, v>>] \in V
    BY DEF Steps
  <2>1. i + 1 \in 2 .. n
    OBVIOUS
  <2> QED BY <1>1, <2>1 DEF StepsOn
<1>3. PICK f \in [0 .. n - 1 -> V] : Iterated(f, b, e, n - 1)
  BY <1>2, n - 1 \in Nat, Iterates
<1> DEFINE h == [i \in 1 .. n |-> f[i - 1]]
<1>4. h \in [1 .. n -> V] /\ h[1] = b
  BY <1>3 DEF Iterated
<1>5. ASSUME NEW i \in 2 .. n PROVE h[i] = g[<<i, h[i - 1]>>]
  <2> DEFINE j == i - 1
  <2>1. j \in 1 .. n - 1 /\ j + 1 = i /\ j - 1 \in 0 .. n - 1
    OBVIOUS
  <2>2. h[i] = f[j] /\ h[i - 1] = f[j - 1]
    OBVIOUS
  <2> HIDE DEF h, j
  <2>3. f[j] = e[<<j, f[j - 1]>>] /\ f[j - 1] \in V
    BY <1>3, <2>1 DEF Iterated
  <2> QED BY <1>1, <2>1, <2>2, <2>3
<1> HIDE DEF h
<1>6. FromOne(h, b, g, n)
  BY <1>4, <1>5 DEF FromOne
<1> QED BY <1>4, <1>6

\* The highest i of n bits of a.
Prefix(a, n, i) == a \div 2 ^ (n - i)

LEMMA PrefixIs ==
    ASSUME NEW a \in Nat, NEW n \in Nat, a < 2 ^ n
    PROVE  /\ Prefix(a, n, 0) = 0 /\ Prefix(a, n, n) = a
           /\ \A i \in 0 .. n : Prefix(a, n, i) \in Nat
           /\ \A i \in 1 .. n :
                Prefix(a, n, i) = 2 * Prefix(a, n, i - 1) + (IF Bit(a, n - i) THEN 1 ELSE 0)
<1>1. Prefix(a, n, 0) = 0
  <2> DEFINE d == 2 ^ n
  <2>1. d \in Nat \ {0} /\ a < d /\ n - 0 = n
    BY PowerStep
  <2> HIDE DEF d
  <2>2. a \div d = 0
    BY <2>1
  <2> QED BY <2>1, <2>2 DEF Prefix, d
<1>2. Prefix(a, n, n) = a
  <2>1. n - n = 0 /\ 2 ^ 0 = 1
    BY 0 \in Nat, PowerStep
  <2>2. a \div 1 = a
    OBVIOUS
  <2> QED BY <2>1, <2>2 DEF Prefix
<1>3. ASSUME NEW i \in 0 .. n PROVE Prefix(a, n, i) \in Nat
  <2> DEFINE d == 2 ^ (n - i)
  <2>1. d \in Nat \ {0}
    BY n - i \in Nat, PowerStep
  <2> HIDE DEF d
  <2> QED BY <2>1, DivMod DEF Prefix, d
<1>4. ASSUME NEW i \in 1 .. n
      PROVE  Prefix(a, n, i) = 2 * Prefix(a, n, i - 1) + (IF Bit(a, n - i) THEN 1 ELSE 0)
  <2> DEFINE k == n - i
             d == 2 ^ k
             q == a \div d
  <2>1. k \in Nat /\ n - (i - 1) = k + 1
    OBVIOUS
  <2> HIDE DEF k
  <2>2. d \in Nat \ {0} /\ 2 ^ (k + 1) = 2 * d
    BY <2>1, PowerStep
  <2> HIDE DEF d
  <2>3. q \in Nat
    BY <2>2, DivMod
  <2>4. q \div 2 = a \div (2 * d)
    BY <2>2, 2 \in Nat \ {0}, DivDiv
  <2>5. Prefix(a, n, i) = q /\ Prefix(a, n, i - 1) = q \div 2
    BY <2>1, <2>2, <2>4 DEF Prefix, k, d
  <2>6. Bit(a, n - i) <=> q % 2 = 1
    BY DEF Bit, k, d
  <2> HIDE DEF q
  <2>7. q = 2 * (q \div 2) + (IF q % 2 = 1 THEN 1 ELSE 0)
    BY <2>3
  <2> QED BY <2>5, <2>6, <2>7
<1> QED BY <1>1, <1>2, <1>3, <1>4

\* The i-th highest bit is the first where a and b differ, and b has it.
Wins(a, b, n, i) ==
    Prefix(a, n, i - 1) = Prefix(b, n, i - 1) /\ ~ Bit(a, n - i) /\ Bit(b, n - i)

LEMMA PrefixesDiffer ==
    ASSUME NEW a \in Nat, NEW b \in Nat, NEW n \in Nat, a < 2 ^ n, b < 2 ^ n, NEW i \in 1 .. n
    PROVE  /\ Prefix(a, n, i) # Prefix(b, n, i) <=>
                \/ Prefix(a, n, i - 1) # Prefix(b, n, i - 1)
                \/ Bit(a, n - i) # Bit(b, n - i)
           /\ Prefix(a, n, i) < Prefix(b, n, i) <=>
                Prefix(a, n, i - 1) < Prefix(b, n, i - 1) \/ Wins(a, b, n, i)
<1> DEFINE u == Prefix(a, n, i - 1)
           v == Prefix(b, n, i - 1)
           x == IF Bit(a, n - i) THEN 1 ELSE 0
           y == IF Bit(b, n - i) THEN 1 ELSE 0
<1>1. i - 1 \in 0 .. n
  OBVIOUS
<1>2. u \in Nat /\ v \in Nat /\ Prefix(a, n, i) = 2 * u + x /\ Prefix(b, n, i) = 2 * v + y
  BY <1>1, PrefixIs
<1>3. x \in {0, 1} /\ y \in {0, 1} /\ (Bit(a, n - i) <=> x = 1) /\ (Bit(b, n - i) <=> y = 1)
  OBVIOUS
<1>4. Bit(a, n - i) # Bit(b, n - i) <=> x # y
  BY DEF Bit
<1>5. Wins(a, b, n, i) <=> u = v /\ x = 0 /\ y = 1
  BY <1>3 DEF Wins
<1> HIDE DEF u, v, x, y
<1>6. 2 * u + x # 2 * v + y <=> u # v \/ x # y
  BY <1>2, <1>3
<1>7. 2 * u + x < 2 * v + y <=> u < v \/ (u = v /\ x = 0 /\ y = 1)
  BY <1>2, <1>3
<1> QED BY <1>2, <1>4, <1>5, <1>6, <1>7 DEF u, v

LEMMA LessIs ==
    ASSUME NEW a \in Nat, NEW b \in Nat, NEW n \in Nat, a < 2 ^ n, b < 2 ^ n
    PROVE  a < b <=> \E i \in 1 .. n : Wins(a, b, n, i)
<1> DEFINE Below(k) == Prefix(a, n, k) < Prefix(b, n, k)
           Won(k) == \E i \in 1 .. k : Wins(a, b, n, i)
           S == {k \in Nat : k <= n => (Below(k) <=> Won(k))}
<1>1. 0 \in S
  <2>1. Prefix(a, n, 0) = 0 /\ Prefix(b, n, 0) = 0
    BY PrefixIs
  <2> QED BY <2>1
<1>2. \A k \in Nat : k \in S => k + 1 \in S
  <2>a. \A k \in Nat : k + 1 \in Nat /\ (k + 1 <= n => k <= n)
    OBVIOUS
  <2> HIDE DEF Below, Won
  <2> SUFFICES ASSUME NEW k \in Nat, k + 1 <= n, Below(k) <=> Won(k)
               PROVE  Below(k + 1) <=> Won(k + 1)
    BY <2>a, Zenon
  <2>1. k + 1 \in 1 .. n /\ (k + 1) - 1 = k
    OBVIOUS
  <2>2. Below(k + 1) <=> Below(k) \/ Wins(a, b, n, k + 1)
    BY <2>1, PrefixesDiffer DEF Below
  <2>3. 1 .. k + 1 = (1 .. k) \cup {k + 1}
    OBVIOUS
  <2>4. Won(k + 1) <=> Won(k) \/ Wins(a, b, n, k + 1)
    BY <2>3, Zenon DEF Won
  <2> QED BY <2>2, <2>4
<1>3. n \in S
  <2> HIDE DEF S
  <2> QED BY <1>1, <1>2, Reaches
<1>4. Prefix(a, n, n) = a /\ Prefix(b, n, n) = b
  BY PrefixIs
<1> QED BY <1>3, <1>4

\* The shared bits, the high one first, and where they differ.
Differing(left, right, n, i) == Xor(left[n + 1 - i], right[n + 1 - i])

DiffersBy(u, left, right, n) ==
    u = [i \in 1 .. n |->
          IF i = 1 THEN Differing(left, right, n, 1)
          ELSE Or(u[i - 1], Differing(left, right, n, i))]

Before(left, right, n) == CHOOSE u : DiffersBy(u, left, right, n)

LEMMA DifferingOpens ==
    ASSUME NEW n \in Nat, NEW a \in Nat, NEW b \in Nat, NEW left, NEW right,
           Binary(left, n, a), Binary(right, n, b), NEW i \in 1 .. n
    PROVE  /\ left[n + 1 - i] \in SUBSET Party /\ (OpenBit(left[n + 1 - i]) <=> Bit(a, n - i))
           /\ right[n + 1 - i] \in SUBSET Party /\ (OpenBit(right[n + 1 - i]) <=> Bit(b, n - i))
           /\ Differing(left, right, n, i) \in SUBSET Party
           /\ OpenBit(Differing(left, right, n, i)) <=> (Bit(a, n - i) # Bit(b, n - i))
<1> DEFINE j == n + 1 - i
           x == left[j]
           y == right[j]
<1>1. j \in 1 .. n /\ j - 1 = n - i
  OBVIOUS
<1> HIDE DEF j
<1>2. /\ x \in SUBSET Party /\ (OpenBit(x) <=> Bit(a, n - i))
      /\ y \in SUBSET Party /\ (OpenBit(y) <=> Bit(b, n - i))
  BY <1>1 DEF Binary
<1> HIDE DEF x, y
<1>3. Xor(x, y) \in SUBSET Party /\ (OpenBit(Xor(x, y)) <=> (OpenBit(x) # OpenBit(y)))
  BY <1>2, XorIsShared, XorOpens
<1>4. OpenBit(x) = Bit(a, n - i) /\ OpenBit(y) = Bit(b, n - i)
  BY <1>2 DEF OpenBit, Bit
<1>5. Differing(left, right, n, i) = Xor(x, y)
  BY DEF Differing, x, y, j
<1> QED BY <1>2, <1>3, <1>4, <1>5 DEF x, y, j

LEMMA BeforeOpens ==
    ASSUME NEW n \in Nat \ {0}, NEW a \in Nat, NEW b \in Nat, a < 2 ^ n, b < 2 ^ n,
           NEW left, NEW right, Binary(left, n, a), Binary(right, n, b),
           NEW f, f = Before(left, right, n)
    PROVE  \A i \in 1 .. n : /\ f[i] \in SUBSET Party
                             /\ OpenBit(f[i]) <=> Prefix(a, n, i) # Prefix(b, n, i)
<1> DEFINE d(i) == Differing(left, right, n, i)
           g == [q \in (1 .. n) \X (SUBSET Party) |-> Or(q[2], d(q[1]))]
<1>1. \A i \in 1 .. n : \A c \in SUBSET Party : g[<<i, c>>] = Or(c, d(i))
  OBVIOUS
<1>2. \A i \in 1 .. n : d(i) \in SUBSET Party /\ (OpenBit(d(i)) <=> (Bit(a, n - i) # Bit(b, n - i)))
  BY DifferingOpens
<1> HIDE DEF g, d
<1>3. \A i \in 1 .. n : \A c \in SUBSET Party :
        /\ Or(c, d(i)) \in SUBSET Party
        /\ OpenBit(Or(c, d(i))) <=> OpenBit(c) \/ OpenBit(d(i))
  BY <1>2, OrOpens
<1>4. StepsOn(g, SUBSET Party, n)
  <2> SUFFICES ASSUME NEW i \in 2 .. n, NEW c \in SUBSET Party PROVE g[<<i, c>>] \in SUBSET Party
    BY Zenon DEF StepsOn
  <2>1. i \in 1 .. n
    OBVIOUS
  <2> QED BY <1>1, <1>3, <2>1
<1>5. PICK h \in [1 .. n -> SUBSET Party] : FromOne(h, d(1), g, n)
  <2>1. d(1) \in SUBSET Party
    BY <1>2
  <2> QED BY <1>4, <2>1, IteratesFromOne
<1>6. DiffersBy(h, left, right, n)
  <2> DEFINE e == [i \in 1 .. n |-> IF i = 1 THEN d(1) ELSE Or(h[i - 1], d(i))]
  <2>1. \A i \in 1 .. n : h[i] = e[i]
    <3> SUFFICES ASSUME NEW i \in 1 .. n PROVE h[i] = IF i = 1 THEN d(1) ELSE Or(h[i - 1], d(i))
      OBVIOUS
    <3>1. CASE i = 1
      BY <1>5, <3>1 DEF FromOne
    <3>2. CASE i # 1
      <4>1. i \in 2 .. n /\ h[i - 1] \in SUBSET Party
        BY <3>2
      <4>2. h[i] = g[<<i, h[i - 1]>>]
        BY <1>5, <4>1 DEF FromOne
      <4> QED BY <1>1, <3>2, <4>1, <4>2
    <3> QED BY <3>1, <3>2
  <2>2. h = [i \in 1 .. n |-> h[i]] /\ e = [i \in 1 .. n |-> e[i]]
    OBVIOUS
  <2> HIDE DEF e
  <2>3. h = e
    BY <2>1, <2>2
  <2> QED BY <2>3 DEF e, DiffersBy, d
<1>7. DiffersBy(f, left, right, n)
  BY <1>6, Zenon DEF Before
<1>8. \A i \in 1 .. n : f[i] = IF i = 1 THEN d(1) ELSE Or(f[i - 1], d(i))
  BY <1>7 DEF DiffersBy, d
<1> DEFINE Q(i) == /\ f[i] \in SUBSET Party
                   /\ OpenBit(f[i]) <=> Prefix(a, n, i) # Prefix(b, n, i)
           S == {m \in Nat : m + 1 <= n => Q(m + 1)}
<1>9. ASSUME NEW i \in 1 .. n
      PROVE  Prefix(a, n, i) # Prefix(b, n, i) <=>
               Prefix(a, n, i - 1) # Prefix(b, n, i - 1) \/ OpenBit(d(i))
  <2>1. OpenBit(d(i)) <=> (Bit(a, n - i) # Bit(b, n - i))
    BY <1>2
  <2> QED BY <2>1, PrefixesDiffer, Zenon
<1>10. Q(1)
  <2>1. 1 \in 1 .. n /\ 1 - 1 = 0 /\ Prefix(a, n, 0) = 0 /\ Prefix(b, n, 0) = 0
    BY PrefixIs
  <2>2. f[1] = d(1) /\ d(1) \in SUBSET Party
    BY <1>2, <1>8, <2>1
  <2>3. Prefix(a, n, 1) # Prefix(b, n, 1) <=> OpenBit(d(1))
    BY <1>9, <2>1
  <2> QED BY <2>2, <2>3
<1>11. \A m \in Nat : m \in S => m + 1 \in S
  <2>a. \A m \in Nat : m + 1 \in Nat /\ ((m + 1) + 1 <= n => m + 1 <= n)
    OBVIOUS
  <2> HIDE DEF Q
  <2> SUFFICES ASSUME NEW m \in Nat, Q(m + 1), (m + 1) + 1 <= n PROVE Q((m + 1) + 1)
    BY <2>a, Zenon
  <2> DEFINE k == m + 1
             i == k + 1
             c == f[k]
  <2>1. i \in 1 .. n /\ i # 1 /\ i - 1 = k
    OBVIOUS
  <2>2. Q(k)
    OBVIOUS
  <2> HIDE DEF k, i
  <2>3. c \in SUBSET Party /\ (OpenBit(c) <=> Prefix(a, n, k) # Prefix(b, n, k))
    BY <2>2 DEF Q
  <2>4. f[i] = Or(c, d(i))
    BY <1>8, <2>1
  <2> HIDE DEF c
  <2>5. Or(c, d(i)) \in SUBSET Party /\ (OpenBit(Or(c, d(i))) <=> OpenBit(c) \/ OpenBit(d(i)))
    BY <1>3, <2>1, <2>3
  <2>6. Prefix(a, n, i) # Prefix(b, n, i) <=> Prefix(a, n, k) # Prefix(b, n, k) \/ OpenBit(d(i))
    BY <1>9, <2>1
  <2>7. Q(i)
    BY <2>3, <2>4, <2>5, <2>6 DEF Q
  <2> QED BY <2>7 DEF i, k
<1>12. \A m \in Nat : m \in S
  <2>1. 0 \in S
    BY <1>10
  <2> HIDE DEF S
  <2> QED BY <1>11, <2>1, Reaches
<1> SUFFICES ASSUME NEW i \in 1 .. n PROVE Q(i)
  OBVIOUS
<1>13. i - 1 \in Nat /\ (i - 1) + 1 = i /\ i - 1 \in S
  <2>1. i - 1 \in Nat /\ (i - 1) + 1 = i
    OBVIOUS
  <2> HIDE DEF S
  <2> QED BY <1>12, <2>1
<1>14. Q((i - 1) + 1)
  <2> HIDE DEF Q
  <2> QED BY <1>13
<1> QED BY <1>13, <1>14

First(left, right, n, i) ==
    IF i = 1 THEN Differing(left, right, n, 1)
    ELSE And(Differing(left, right, n, i), Not(Before(left, right, n)[i - 1]))

\* The bit of right where they first differ.
LEMMA FirstOpens ==
    ASSUME NEW n \in Nat \ {0}, NEW a \in Nat, NEW b \in Nat, a < 2 ^ n, b < 2 ^ n,
           NEW left, NEW right, Binary(left, n, a), Binary(right, n, b), NEW i \in 1 .. n,
           NEW z, z = And(First(left, right, n, i), right[n + 1 - i])
    PROVE  z \in SUBSET Party /\ (OpenBit(z) <=> Wins(a, b, n, i))
<1> DEFINE d == Differing(left, right, n, i)
           w == right[n + 1 - i]
           f == Before(left, right, n)
           x == First(left, right, n, i)
           even == Prefix(a, n, i - 1) = Prefix(b, n, i - 1)
<1>1. /\ w \in SUBSET Party /\ (OpenBit(w) <=> Bit(b, n - i))
      /\ d \in SUBSET Party /\ (OpenBit(d) <=> (Bit(a, n - i) # Bit(b, n - i)))
  BY DifferingOpens
<1>2. \A j \in 1 .. n : f[j] \in SUBSET Party /\ (OpenBit(f[j]) <=> Prefix(a, n, j) # Prefix(b, n, j))
  BY BeforeOpens
<1> HIDE DEF d, w, f
<1>3. x \in SUBSET Party /\ (OpenBit(x) <=> OpenBit(d) /\ even)
  <2>1. CASE i = 1
    <3>1. x = d
      BY <2>1 DEF First, d
    <3>2. even
      <4>1. i - 1 = 0 /\ Prefix(a, n, 0) = 0 /\ Prefix(b, n, 0) = 0
        BY <2>1, PrefixIs
      <4> QED BY <4>1
    <3> QED BY <1>1, <3>1, <3>2
  <2>2. CASE i # 1
    <3> DEFINE u == f[i - 1]
    <3>1. i - 1 \in 1 .. n
      BY <2>2
    <3>2. u \in SUBSET Party /\ (OpenBit(u) <=> ~ even)
      BY <1>2, <3>1
    <3>3. x = And(d, Not(u))
      BY <2>2 DEF First, d, f
    <3> HIDE DEF u, x, even
    <3>4. Not(u) \in SUBSET Party /\ (OpenBit(Not(u)) <=> ~ OpenBit(u))
      BY <3>2, NotOpens, KingIsParty, XorIsShared DEF Not
    <3>5. And(d, Not(u)) \in SUBSET Party /\ (OpenBit(And(d, Not(u))) <=> OpenBit(d) /\ OpenBit(Not(u)))
      BY <1>1, <3>4, AndOpens
    <3> QED BY <3>2, <3>3, <3>4, <3>5
  <2> QED BY <2>1, <2>2
<1>4. z = And(x, w)
  BY DEF w
<1> HIDE DEF x
<1>5. z \in SUBSET Party /\ (OpenBit(z) <=> OpenBit(x) /\ OpenBit(w))
  BY <1>1, <1>3, <1>4, AndOpens
<1>6. (Bit(a, n - i) # Bit(b, n - i)) /\ Bit(b, n - i) <=> ~ Bit(a, n - i) /\ Bit(b, n - i)
  BY DEF Bit
<1> QED BY <1>1, <1>3, <1>5, <1>6, Zenon DEF Wins

\* A disjunction of shared bits, halved until one is left.
AnyBit(s) == \E i \in 1 .. Len(s) : OpenBit(s[i])

BitLists == {s \in Seq(SUBSET Party) : Len(s) >= 1}

LEMMA HalvedIs ==
    ASSUME NEW s \in BitLists
    PROVE  /\ Halved(s) \in BitLists /\ Len(Halved(s)) = (Len(s) + 1) \div 2
           /\ AnyBit(Halved(s)) <=> AnyBit(s)
<1> DEFINE m == Len(s)
           k == (m + 1) \div 2
           z == Halved(s)
<1>1. m \in Nat /\ m >= 1 /\ k \in Nat /\ k >= 1 /\ (2 * k = m \/ 2 * k = m + 1)
      /\ \A i \in 1 .. m : s[i] \in SUBSET Party
  BY DEF BitLists
<1>2. z = [i \in 1 .. k |-> IF 2 * i <= m THEN Or(s[2 * i - 1], s[2 * i]) ELSE s[m]]
  BY DEF Halved
<1> HIDE DEF z, k, m
<1>3. ASSUME NEW i \in 1 .. k, 2 * i <= m
      PROVE  /\ z[i] \in SUBSET Party /\ 2 * i - 1 \in 1 .. m /\ 2 * i \in 1 .. m
             /\ OpenBit(z[i]) <=> OpenBit(s[2 * i - 1]) \/ OpenBit(s[2 * i])
  <2> DEFINE x == s[2 * i - 1]
             y == s[2 * i]
  <2>1. 2 * i - 1 \in 1 .. m /\ 2 * i \in 1 .. m
    BY <1>1, <1>3
  <2>2. x \in SUBSET Party /\ y \in SUBSET Party
    BY <1>1, <2>1
  <2>3. z[i] = Or(x, y)
    BY <1>2, <1>3
  <2> HIDE DEF x, y
  <2>4. Or(x, y) \in SUBSET Party /\ (OpenBit(Or(x, y)) <=> OpenBit(x) \/ OpenBit(y))
    BY <2>2, OrOpens
  <2> QED BY <2>1, <2>3, <2>4 DEF x, y
<1>4. ASSUME NEW i \in 1 .. k, ~ (2 * i <= m)
      PROVE  z[i] \in SUBSET Party /\ z[i] = s[m] /\ m \in 1 .. m /\ i = k
  <2>1. z[i] = s[m]
    BY <1>2, <1>4
  <2>2. m \in 1 .. m /\ i = k
    BY <1>1, <1>4
  <2> QED BY <1>1, <2>1, <2>2
<1>5. \A i \in 1 .. k : z[i] \in SUBSET Party
  BY <1>3, <1>4
<1>6. z \in Seq(SUBSET Party) /\ Len(z) = k
  <2>1. z = [i \in 1 .. k |-> z[i]]
    BY <1>2
  <2>2. z \in [1 .. k -> SUBSET Party]
    BY <1>5, <2>1
  <2> QED BY <1>1, <2>1, <2>2
<1>7. ASSUME NEW i \in 1 .. k, OpenBit(z[i])
      PROVE  \E j \in 1 .. m : OpenBit(s[j])
  <2>1. CASE 2 * i <= m
    BY <1>3, <1>7, <2>1
  <2>2. CASE ~ (2 * i <= m)
    BY <1>4, <1>7, <2>2
  <2> QED BY <2>1, <2>2
<1>8. ASSUME NEW j \in 1 .. m, OpenBit(s[j])
      PROVE  \E i \in 1 .. k : OpenBit(z[i])
  <2> DEFINE i == (j + 1) \div 2
  <2>1. i \in 1 .. k /\ (j = 2 * i - 1 \/ j = 2 * i)
    BY <1>1
  <2> HIDE DEF i
  <2>2. CASE 2 * i <= m
    <3>1. OpenBit(z[i])
      BY <1>3, <1>8, <2>1, <2>2
    <3> QED BY <2>1, <3>1
  <2>3. CASE ~ (2 * i <= m)
    <3>1. j = m
      BY <1>1, <2>1, <2>3
    <3>2. z[i] = s[m]
      BY <1>4, <2>1, <2>3
    <3> QED BY <1>8, <2>1, <3>1, <3>2
  <2> QED BY <2>2, <2>3
<1>9. AnyBit(z) <=> AnyBit(s)
  BY <1>6, <1>7, <1>8 DEF AnyBit, m
<1> QED BY <1>1, <1>6, <1>9 DEF BitLists, z, k, m

Levels(u, base, n) == u = [k \in 1 .. n |-> IF k = 1 THEN base ELSE Halved(u[k - 1])]

LastLevel(base, n) == CHOOSE u : Levels(u, base, n)

LEMMA LevelsOpen ==
    ASSUME NEW n \in Nat \ {0}, NEW base \in BitLists, Len(base) = n,
           NEW f, f = LastLevel(base, n)
    PROVE  f[n][1] \in SUBSET Party /\ (OpenBit(f[n][1]) <=> AnyBit(base))
<1> DEFINE g == [q \in (1 .. n) \X BitLists |-> Halved(q[2])]
<1>1. \A i \in 1 .. n : \A s \in BitLists : g[<<i, s>>] = Halved(s)
  OBVIOUS
<1> HIDE DEF g
<1>2. StepsOn(g, BitLists, n)
  <2> SUFFICES ASSUME NEW i \in 2 .. n, NEW s \in BitLists PROVE g[<<i, s>>] \in BitLists
    BY Zenon DEF StepsOn
  <2>1. i \in 1 .. n
    OBVIOUS
  <2> QED BY <1>1, <2>1, HalvedIs
<1>3. PICK h \in [1 .. n -> BitLists] : FromOne(h, base, g, n)
  BY <1>2, IteratesFromOne
<1>4. Levels(h, base, n)
  <2> DEFINE e == [i \in 1 .. n |-> IF i = 1 THEN base ELSE Halved(h[i - 1])]
  <2>1. \A i \in 1 .. n : h[i] = e[i]
    <3> SUFFICES ASSUME NEW i \in 1 .. n PROVE h[i] = IF i = 1 THEN base ELSE Halved(h[i - 1])
      OBVIOUS
    <3>1. CASE i = 1
      BY <1>3, <3>1 DEF FromOne
    <3>2. CASE i # 1
      <4>1. i \in 2 .. n /\ h[i - 1] \in BitLists
        BY <3>2
      <4>2. h[i] = g[<<i, h[i - 1]>>]
        BY <1>3, <4>1 DEF FromOne
      <4> QED BY <1>1, <3>2, <4>1, <4>2
    <3> QED BY <3>1, <3>2
  <2>2. h = [i \in 1 .. n |-> h[i]] /\ e = [i \in 1 .. n |-> e[i]]
    OBVIOUS
  <2> HIDE DEF e
  <2>3. h = e
    BY <2>1, <2>2
  <2> QED BY <2>3 DEF e, Levels
<1>5. Levels(f, base, n)
  BY <1>4, Zenon DEF LastLevel
<1>6. \A i \in 1 .. n : f[i] = IF i = 1 THEN base ELSE Halved(f[i - 1])
  BY <1>5 DEF Levels
<1> DEFINE Q(i) == /\ f[i] \in BitLists /\ Len(f[i]) <= n + 1 - i
                   /\ AnyBit(f[i]) <=> AnyBit(base)
           S == {m \in Nat : m + 1 <= n => Q(m + 1)}
<1>7. 0 \in S
  BY <1>6
<1>8. \A m \in Nat : m \in S => m + 1 \in S
  <2>a. \A m \in Nat : m + 1 \in Nat /\ ((m + 1) + 1 <= n => m + 1 <= n)
    OBVIOUS
  <2> HIDE DEF Q
  <2> SUFFICES ASSUME NEW m \in Nat, Q(m + 1), (m + 1) + 1 <= n PROVE Q((m + 1) + 1)
    BY <2>a, Zenon
  <2> DEFINE k == m + 1
             i == k + 1
             s == f[k]
  <2>1. i \in 1 .. n /\ i # 1 /\ i - 1 = k /\ k \in Nat /\ n + 1 - i = n - k
    OBVIOUS
  <2>2. Q(k)
    OBVIOUS
  <2>3. i = k + 1
    OBVIOUS
  <2> HIDE DEF k, i
  <2>4. s \in BitLists /\ Len(s) <= n + 1 - k /\ (AnyBit(s) <=> AnyBit(base))
    BY <2>2 DEF Q
  <2>5. f[i] = Halved(s)
    BY <1>6, <2>1
  <2> HIDE DEF s
  <2>6. Halved(s) \in BitLists /\ Len(Halved(s)) = (Len(s) + 1) \div 2 /\ (AnyBit(Halved(s)) <=> AnyBit(s))
    BY <2>4, HalvedIs
  <2>7. Len(s) \in Nat /\ Len(s) >= 1
    BY <2>4 DEF BitLists
  <2>8. (Len(s) + 1) \div 2 <= n - k
    <3> DEFINE l == Len(s)
    <3>1. l \in Nat /\ l >= 1 /\ l <= n + 1 - k
      BY <2>4, <2>7
    <3> HIDE DEF l
    <3>2. (l + 1) \div 2 <= n - k
      BY <2>1, <2>3, <3>1
    <3> QED BY <3>2 DEF l
  <2>9. Q(i)
    BY <2>1, <2>4, <2>5, <2>6, <2>8 DEF Q
  <2> QED BY <2>9 DEF i, k
<1>9. n - 1 \in S /\ (n - 1) + 1 = n
  <2>1. \A m \in Nat : m \in S
    <3> HIDE DEF S
    <3> QED BY <1>7, <1>8, Reaches
  <2> HIDE DEF S
  <2> QED BY <2>1
<1>10. Q(n)
  <2>1. Q((n - 1) + 1)
    <3> HIDE DEF Q
    <3> QED BY <1>9
  <2> HIDE DEF Q
  <2> QED BY <1>9, <2>1
<1> DEFINE s == f[n]
<1>11. s \in Seq(SUBSET Party) /\ Len(s) = 1 /\ (AnyBit(s) <=> AnyBit(base))
  <2>1. s \in BitLists /\ Len(s) <= n + 1 - n /\ (AnyBit(s) <=> AnyBit(base))
    BY <1>10
  <2>2. n + 1 - n = 1
    OBVIOUS
  <2> HIDE DEF s
  <2>3. s \in Seq(SUBSET Party) /\ Len(s) >= 1 /\ Len(s) <= 1 /\ Len(s) \in Nat
    BY <2>1, <2>2 DEF BitLists
  <2>4. Len(s) = 1
    <3> HIDE DEF Q, S
    <3> DEFINE l == Len(s)
    <3>1. l \in Nat /\ l >= 1 /\ l <= 1
      BY <2>3
    <3> HIDE DEF l
    <3>2. l = 1
      BY <3>1
    <3> QED BY <3>2 DEF l
  <2> HIDE DEF Q, S
  <2> QED BY <2>1, <2>3, <2>4, Zenon
<1> HIDE DEF s
<1> HIDE DEF Q, S
<1>12. 1 .. Len(s) = {1} /\ s[1] \in SUBSET Party
  <2>1. 1 .. Len(s) = {1}
    BY <1>11
  <2>2. \A i \in 1 .. Len(s) : s[i] \in SUBSET Party
    <3>1. s \in Seq(SUBSET Party)
      BY <1>11, Zenon
    <3> DEFINE D == SUBSET Party
    <3>2. s \in Seq(D)
      BY <3>1
    <3> HIDE DEF D
    <3>3. \A i \in 1 .. Len(s) : s[i] \in D
      BY <3>2
    <3> QED BY <3>3 DEF D
  <2>3. 1 \in 1 .. Len(s)
    BY <2>1
  <2> QED BY <2>1, <2>2, <2>3, Zenon
<1>13. AnyBit(s) <=> OpenBit(s[1])
  BY <1>12 DEF AnyBit
<1> QED BY <1>11, <1>12, <1>13 DEF s

Firsts(left, right, n) ==
    SubSeq([i \in 1 .. n |-> And(First(left, right, n, i), right[n + 1 - i])], 1, n)

LEMMA FirstsOpen ==
    ASSUME NEW n \in Nat \ {0}, NEW a \in Nat, NEW b \in Nat, a < 2 ^ n, b < 2 ^ n,
           NEW left, NEW right, Binary(left, n, a), Binary(right, n, b),
           NEW base, base = Firsts(left, right, n)
    PROVE  base \in BitLists /\ Len(base) = n /\ (AnyBit(base) <=> a < b)
<1> DEFINE x == [i \in 1 .. n |-> And(First(left, right, n, i), right[n + 1 - i])]
<1>1. ASSUME NEW i \in 1 .. n
      PROVE  x[i] \in SUBSET Party /\ (OpenBit(x[i]) <=> Wins(a, b, n, i))
  <2>1. x[i] = And(First(left, right, n, i), right[n + 1 - i])
    OBVIOUS
  <2> HIDE DEF x
  <2> QED BY <2>1, FirstOpens
<1>2. x = [i \in 1 .. n |-> x[i]] /\ base = SubSeq(x, 1, n)
  BY DEF Firsts
<1> HIDE DEF x
<1>3. \A i \in 1 .. n : x[i] \in SUBSET Party
  BY <1>1
<1>4. n \in Nat /\ n <= n /\ n >= 1
  OBVIOUS
<1> DEFINE y == SubSeq(x, 1, n)
<1>5. y \in Seq(SUBSET Party) /\ Len(y) = n /\ \A i \in 1 .. n : y[i] = x[i]
  BY <1>2, <1>3, <1>4, FirstBits
<1>6. base = y
  BY <1>2
<1> HIDE DEF y
<1>7. base \in BitLists /\ Len(base) = n
  BY <1>4, <1>5, <1>6 DEF BitLists
<1>8. AnyBit(base) <=> \E i \in 1 .. n : Wins(a, b, n, i)
  BY <1>1, <1>5, <1>6 DEF AnyBit
<1>9. a < b <=> \E i \in 1 .. n : Wins(a, b, n, i)
  BY <1>4, LessIs
<1> QED BY <1>7, <1>8, <1>9, Zenon

\* The comparison of two numbers whose bits are shared.
THEOREM CompareBitsOpens ==
    ASSUME NEW left, NEW right, NEW n \in Nat \ {0}, Len(left) = n,
           NEW a \in Nat, NEW b \in Nat, a < 2 ^ n, b < 2 ^ n,
           Binary(left, n, a), Binary(right, n, b)
    PROVE  /\ CompareBits(left, right) \in SUBSET Party
           /\ OpenBit(CompareBits(left, right)) <=> a < b
<1> DEFINE base == Firsts(left, right, n)
           f == LastLevel(base, n)
<1>1. CompareBits(left, right) = f[n][1]
  BY DEF CompareBits, LastLevel, Levels, Firsts, First, Before, DiffersBy, Differing
<1>2. base \in BitLists /\ Len(base) = n /\ (AnyBit(base) <=> a < b)
  BY FirstsOpen
<1> HIDE DEF base
<1>3. f[n][1] \in SUBSET Party /\ (OpenBit(f[n][1]) <=> AnyBit(base))
  BY <1>2, LevelsOpen
<1> HIDE DEF f
<1> QED BY <1>1, <1>2, <1>3, Zenon

\* A shared bit as a field element, with a daBit of either value.
THEOREM B2AOpens ==
    ASSUME NEW x \in SUBSET Party, NEW r \in BOOLEAN
    PROVE  Opens(B2A(x, r), IF OpenBit(x) THEN 1 ELSE 0)
<1> DEFINE c == IF r THEN 1 ELSE 0
           y == If(r, {King})
           dabit == Scale(One, c)
<1>1. c \in Int /\ 1 \in Int /\ 1 * c = c
  OBVIOUS
<1>2. Opens(dabit, 1 * c)
  <2> HIDE DEF c
  <2> QED BY <1>1, OneOpens, ScaleOpens
<1>3. Opens(dabit, c)
  <2> HIDE DEF dabit, c
  <2> QED BY <1>1, <1>2
<1>4. Opens(SubtractShares(One, dabit), 1 - c)
  <2> HIDE DEF dabit, c
  <2> QED BY <1>1, <1>3, OneOpens, SubtractOpens
<1>5. y \in SUBSET Party /\ (OpenBit(y) <=> r)
  BY KingsBit
<1>6. B2A(x, r) = IF OpenBit(Xor(x, y)) THEN SubtractShares(One, dabit) ELSE dabit
  BY DEF B2A
<1> HIDE DEF y
<1>7. OpenBit(Xor(x, y)) <=> (OpenBit(x) # OpenBit(y))
  BY <1>5, XorOpens
<1>8. CASE r
  <2>1. c = 1 /\ 1 - c = 0 /\ (OpenBit(Xor(x, y)) <=> ~ OpenBit(x))
    BY <1>5, <1>7, <1>8 DEF OpenBit
  <2> HIDE DEF c, dabit
  <2> QED BY <1>3, <1>4, <1>6, <2>1
<1>9. CASE ~ r
  <2>1. c = 0 /\ 1 - c = 1 /\ (OpenBit(Xor(x, y)) <=> OpenBit(x))
    BY <1>5, <1>7, <1>9 DEF OpenBit
  <2> HIDE DEF c, dabit
  <2> QED BY <1>3, <1>4, <1>6, <2>1
<1> QED BY <1>8, <1>9

-----------------------------------------------------------------------------
(* The invariant: every register holds what the plain program has, and so  *)
(* does the bit.                                                           *)

BitHolds(b) ==
    b # <<>> => /\ b[1].share \in SUBSET Party /\ b[1].plain \in BOOLEAN
                /\ OpenBit(b[1].share) <=> b[1].plain

IInv ==
    /\ reg = [i \in Registers |-> reg[i]] /\ plain \in [Registers -> Field]
    /\ \A i \in Registers : Holds(reg[i], plain[i])
    /\ BitHolds(bit)
    /\ stopped = "" \/ (stopped = "zero" /\ \E i \in Registers : plain[i] = 0)

LEMMA InitHolds == Init => IInv
<1> SUFFICES ASSUME Init PROVE IInv
  OBVIOUS
<1>1. 0 \in Field
  BY ModulusIs
<1>2. Holds(Constant(0), 0)
  BY <1>1, ConstantHolds
<1>3. \A i \in Registers : reg[i] = Constant(0) /\ plain[i] = 0
  BY DEF Init
<1>4. \A i \in Registers : Holds(reg[i], plain[i])
  BY <1>2, <1>3
<1>5. reg = [i \in Registers |-> reg[i]] /\ plain \in [Registers -> Field]
  BY <1>1 DEF Init
<1>6. BitHolds(bit) /\ stopped = ""
  BY DEF Init, BitHolds
<1> QED BY <1>4, <1>5, <1>6 DEF IInv

\* A register is overwritten, while no bit is held.
LEMMA StoreKeeps ==
    ASSUME IInv, Idle, NEW i \in Registers, NEW r, NEW v, Holds(r, v), Store(i, r, v)
    PROVE  IInv'
<1>1. /\ reg' = [reg EXCEPT ![i] = r] /\ plain' = [plain EXCEPT ![i] = v]
      /\ bit' = bit /\ stopped' = ""
  BY DEF Store, Idle
<1>2. reg = [j \in Registers |-> reg[j]] /\ plain \in [Registers -> Field]
      /\ (\A j \in Registers : Holds(reg[j], plain[j])) /\ BitHolds(bit)
  BY DEF IInv
<1>3. v \in Field
  BY HeldIs
<1>4. reg' = [j \in Registers |-> reg'[j]] /\ plain' \in [Registers -> Field]
  BY <1>1, <1>2, <1>3
<1>5. \A j \in Registers : Holds(reg'[j], plain'[j])
  <2> SUFFICES ASSUME NEW j \in Registers PROVE Holds(reg'[j], plain'[j])
    BY Zenon
  <2>1. CASE j = i
    <3>1. reg'[j] = r /\ plain'[j] = v
      BY <1>1, <1>2, <2>1
    <3> QED BY <3>1
  <2>2. CASE j # i
    <3>1. reg'[j] = reg[j] /\ plain'[j] = plain[j]
      BY <1>1, <1>2, <2>2
    <3> QED BY <1>2, <3>1
  <2> QED BY <2>1, <2>2
<1>6. BitHolds(bit')
  BY <1>1, <1>2
<1> QED BY <1>1, <1>4, <1>5, <1>6 DEF IInv

\* A bit is taken, and the registers rest.
LEMMA HoldKeeps ==
    ASSUME IInv, NEW x \in SUBSET Party, NEW b \in BOOLEAN, OpenBit(x) <=> b, Hold(x, b)
    PROVE  IInv'
<1>1. bit' = <<[share |-> x, plain |-> b]>> /\ reg' = reg /\ plain' = plain /\ stopped' = stopped
  BY DEF Hold
<1>2. bit'[1].share = x /\ bit'[1].plain = b
  BY <1>1
<1>3. BitHolds(bit')
  BY <1>2 DEF BitHolds
<1> QED BY <1>1, <1>3 DEF IInv

LEMMA FromZero == ASSUME NEW b PROVE (1 - (IF b THEN 0 ELSE 1)) % Modulus = IF b THEN 1 ELSE 0
BY ModulusIs

\* Sums, products, quotients and comparisons of registers.
LEMMA ArithmeticKeeps ==
    ASSUME IInv, SetPublic \/ KingShare \/ Publicize \/ Add \/ Subtract \/ Multiply
                 \/ Divide \/ SecureNeq \/ SecureEq
    PROVE  IInv'
<1> USE DEF IInv
<1>0. \A i \in Registers : Holds(reg[i], plain[i])
  OBVIOUS
<1> HIDE DEF IInv
<1>1. CASE SetPublic
  <2>1. PICK i \in Registers, c \in Field : Idle /\ Store(i, Constant(c), c)
    BY <1>1 DEF SetPublic
  <2> QED BY <2>1, ConstantHolds, StoreKeeps
<1>2. CASE KingShare
  <2>1. PICK i \in Registers, c \in Field, random \in [0 .. N - 2 -> Field] :
          LET share == [p \in Party |-> IF p < N - 1 THEN random[p]
                                        ELSE (c - Total(random, N - 1)) % Modulus]
          IN  Idle /\ Store(i, Shared([val |-> share, mac |-> share]), c)
    BY <1>2 DEF KingShare
  <2> DEFINE share == [p \in Party |-> IF p < N - 1 THEN random[p]
                                       ELSE (c - Total(random, N - 1)) % Modulus]
  <2>2. Idle /\ Store(i, Shared([val |-> share, mac |-> share]), c)
    BY <2>1
  <2>3. Holds(Shared([val |-> share, mac |-> share]), c)
    BY KingShareHolds
  <2> HIDE DEF share
  <2> QED BY <2>2, <2>3, StoreKeeps
<1>3. CASE Publicize
  <2>1. PICK i \in Registers : /\ Idle /\ reg[i].shared
                               /\ Store(i, Constant(Open(reg[i])), plain[i])
    BY <1>3 DEF Publicize
  <2>2. Open(reg[i]) = plain[i]
    BY <1>0, <2>1, RegisterOpens DEF Value
  <2>3. Holds(Constant(plain[i]), plain[i])
    BY <1>0, HeldIs, ConstantHolds
  <2> QED BY <2>1, <2>2, <2>3, StoreKeeps
<1>4. CASE Add
  <2>1. PICK i \in Registers, j \in Registers :
          Idle /\ Store(i, SumOfBoth(reg[i], reg[j]), (plain[i] + plain[j]) % Modulus)
    BY <1>4 DEF Add
  <2>2. Holds(SumOfBoth(reg[i], reg[j]), (plain[i] + plain[j]) % Modulus)
    BY <1>0, SumHolds
  <2> QED BY <2>1, <2>2, StoreKeeps
<1>5. CASE Subtract
  <2>1. PICK i \in Registers, j \in Registers :
          Idle /\ Store(i, Difference(reg[i], reg[j]), (plain[i] - plain[j]) % Modulus)
    BY <1>5 DEF Subtract
  <2>2. Holds(Difference(reg[i], reg[j]), (plain[i] - plain[j]) % Modulus)
    BY <1>0, DifferenceHolds
  <2> QED BY <2>1, <2>2, StoreKeeps
<1>6. CASE Multiply
  <2>1. PICK i \in Registers, j \in Registers :
          Idle /\ Store(i, Product(reg[i], reg[j]), (plain[i] * plain[j]) % Modulus)
    BY <1>6 DEF Multiply
  <2>2. Holds(Product(reg[i], reg[j]), (plain[i] * plain[j]) % Modulus)
    BY <1>0, ProductHolds
  <2> QED BY <2>1, <2>2, StoreKeeps
<1>7. CASE Divide
  <2>1. PICK i \in Registers, j \in Registers :
          /\ Idle /\ Value(reg[j]) # 0
          /\ Store(i, Quotient(reg[i], reg[j]), (plain[i] * FieldInverse(plain[j])) % Modulus)
    BY <1>7 DEF Divide
  <2>2. plain[j] # 0
    BY <1>0, <2>1, RegisterOpens
  <2>3. Holds(Quotient(reg[i], reg[j]), (plain[i] * FieldInverse(plain[j])) % Modulus)
    BY <1>0, <2>2, DividedHolds
  <2> QED BY <2>1, <2>3, StoreKeeps
<1>8. CASE SecureNeq
  <2>1. PICK i \in Registers, j \in Registers :
          Idle /\ Store(i, Differ(reg[i], reg[j]), IF plain[i] = plain[j] THEN 0 ELSE 1)
    BY <1>8 DEF SecureNeq
  <2>2. Holds(Differ(reg[i], reg[j]), IF plain[i] = plain[j] THEN 0 ELSE 1)
    BY <1>0, DifferHolds
  <2> DEFINE c == IF plain[i] = plain[j] THEN 0 ELSE 1
  <2>3. Idle /\ Store(i, Differ(reg[i], reg[j]), c) /\ Holds(Differ(reg[i], reg[j]), c)
    BY <2>1, <2>2
  <2> HIDE DEF c
  <2> QED BY <2>3, StoreKeeps
<1>9. CASE SecureEq
  <2>1. PICK i \in Registers, j \in Registers :
          /\ Idle
          /\ Store(i, Difference(Constant(1), Differ(reg[i], reg[j])),
                   IF plain[i] = plain[j] THEN 1 ELSE 0)
    BY <1>9 DEF SecureEq
  <2> DEFINE c == IF plain[i] = plain[j] THEN 0 ELSE 1
             d == IF plain[i] = plain[j] THEN 1 ELSE 0
             r == Difference(Constant(1), Differ(reg[i], reg[j]))
  <2>2. Idle /\ Store(i, r, d)
    BY <2>1
  <2>3. Holds(Differ(reg[i], reg[j]), c)
    BY <1>0, DifferHolds
  <2>4. (1 - c) % Modulus = d
    BY FromZero
  <2>5. Holds(Constant(1), 1)
    BY ModulusIs, ConstantHolds
  <2> HIDE DEF c, d
  <2>6. Holds(r, (1 - c) % Modulus)
    BY <2>3, <2>5, DifferenceHolds
  <2> HIDE DEF r
  <2> QED BY <2>2, <2>4, <2>6, StoreKeeps
<1> QED BY <1>1, <1>2, <1>3, <1>4, <1>5, <1>6, <1>7, <1>8, <1>9

LEMMA DivideByZeroKeeps == IInv /\ DivideByZero => IInv'
<1> SUFFICES ASSUME IInv, DivideByZero PROVE IInv'
  OBVIOUS
<1>1. PICK j \in Registers : Value(reg[j]) = 0
  BY DEF DivideByZero
<1>2. plain[j] = 0
  <2>1. Holds(reg[j], plain[j])
    BY DEF IInv
  <2> QED BY <1>1, <2>1, RegisterOpens
<1>3. stopped' = "zero" /\ reg' = reg /\ plain' = plain /\ bit' = bit
  BY DEF DivideByZero
<1> QED BY <1>2, <1>3 DEF IInv

LEMMA ProductsOfTwo ==
    ASSUME NEW x, NEW y, NEW v \in Int, NEW w \in Int, Opens(x, v), Opens(y, w)
    PROVE  /\ Opens(PartialProducts(<<x, y>>)[1], v)
           /\ Opens(PartialProducts(<<x, y>>)[2], v * w)
<1> DEFINE s == <<x, y>>
           c == <<v, w>>
<1>1. /\ DOMAIN s = 1 .. 2 /\ s[1] = x /\ s[2] = y /\ c[1] = v /\ c[2] = w
      /\ \A i \in 1 .. 2 : i = 1 \/ i = 2
  OBVIOUS
<1> HIDE DEF s, c
<1>2. Numbers(c, 2) /\ Numbers(c, 1) /\ \A i \in 1 .. 2 : Opens(s[i], c[i])
  BY <1>1 DEF Numbers
<1>3. ProductOf(c, 1) = v
  <2>1. Numbers(c, 0 + 1)
    BY <1>2
  <2>2. ProductOf(c, 0) = 1 /\ ProductOf(c, 0 + 1) = ProductOf(c, 0) * c[0 + 1]
    BY <2>1, 0 \in Nat, ProductSteps
  <2> QED BY <1>1, <2>2
<1>4. ProductOf(c, 2) = v * w
  <2>1. Numbers(c, 1 + 1)
    BY <1>2
  <2>2. ProductOf(c, 1 + 1) = ProductOf(c, 1) * c[1 + 1]
    BY <2>1, 1 \in Nat, ProductSteps
  <2>3. 1 + 1 = 2
    OBVIOUS
  <2> QED BY <1>1, <1>3, <2>2, <2>3
<1>5. \A i \in 1 .. 2 : Opens(PartialProducts(s)[i], ProductOf(c, i))
  BY <1>1, <1>2, 2 \in Nat, PartialProductsOpen
<1>6. 1 \in 1 .. 2 /\ 2 \in 1 .. 2
  OBVIOUS
<1> QED BY <1>3, <1>4, <1>5, <1>6 DEF s

LEMMA MultiplyUpKeeps == IInv /\ MultiplyUp => IInv'
<1> SUFFICES ASSUME IInv, MultiplyUp PROVE IInv'
  OBVIOUS
<1> DEFINE products(i, j) == PartialProducts(<<AsShare(reg[i]), AsShare(reg[j])>>)
<1>1. PICK i \in Registers, j \in Registers :
        /\ Idle /\ i # j /\ reg[1].shared = reg[2].shared
        /\ reg' = IF reg[1].shared
                  THEN [reg EXCEPT ![i] = Shared(products(i, j)[1]), ![j] = Shared(products(i, j)[2])]
                  ELSE [reg EXCEPT ![j] = Product(reg[j], reg[i])]
        /\ plain' = [plain EXCEPT ![j] = (plain[i] * plain[j]) % Modulus]
        /\ bit' = bit /\ stopped' = stopped
  BY DEF MultiplyUp
<1>2. /\ reg = [k \in Registers |-> reg[k]] /\ plain \in [Registers -> Field]
      /\ (\A k \in Registers : Holds(reg[k], plain[k])) /\ BitHolds(bit) /\ stopped = ""
  BY <1>1 DEF IInv, Idle
<1> DEFINE v == plain[i]
           w == plain[j]
           c == (v * w) % Modulus
           x == products(i, j)[1]
           y == products(i, j)[2]
<1>3. Holds(reg[i], v) /\ Holds(reg[j], w) /\ v \in Field /\ w \in Field /\ v \in Int /\ w \in Int
  BY <1>2, HeldIs
<1>4. Opens(x, v) /\ Opens(y, v * w)
  BY <1>3, RegisterOpens, ProductsOfTwo
<1> HIDE DEF v, w, x, y, products
<1>5. v * w \in Int /\ w * v = v * w
  BY <1>3
<1>6. c \in Field /\ Same(v * w, c) /\ Same(v, v)
  BY <1>3, <1>5, Remainder, SameItself, SameBack, FieldIs
<1>7. Holds(Shared(x), v) /\ Holds(Shared(y), c)
  <2> HIDE DEF c
  <2> QED BY <1>3, <1>4, <1>5, <1>6, SharedHolds
<1>8. Holds(Product(reg[j], reg[i]), c)
  <2>1. Holds(Product(reg[j], reg[i]), (w * v) % Modulus)
    BY <1>3, ProductHolds
  <2> QED BY <1>5, <2>1
<1>9. plain' = [plain EXCEPT ![j] = c]
  BY <1>1 DEF v, w
<1> HIDE DEF c
<1>10. plain' \in [Registers -> Field] /\ plain'[j] = c
       /\ \A k \in Registers : k # j => plain'[k] = plain[k]
  BY <1>2, <1>6, <1>9
<1>11. CASE reg[1].shared
  <2>1. reg' = [reg EXCEPT ![i] = Shared(x), ![j] = Shared(y)]
    BY <1>1, <1>11 DEF x, y
  <2>2. /\ reg' = [k \in Registers |-> reg'[k]] /\ reg'[i] = Shared(x) /\ reg'[j] = Shared(y)
        /\ \A k \in Registers : k # i /\ k # j => reg'[k] = reg[k]
    BY <1>1, <1>2, <2>1
  <2>3. \A k \in Registers : Holds(reg'[k], plain'[k])
    <3> SUFFICES ASSUME NEW k \in Registers PROVE Holds(reg'[k], plain'[k])
      BY Zenon
    <3>1. CASE k = i
      <4>1. reg'[k] = Shared(x) /\ plain'[k] = v
        BY <1>1, <1>10, <2>2, <3>1 DEF v
      <4> QED BY <1>7, <4>1
    <3>2. CASE k = j
      BY <1>7, <1>10, <2>2, <3>2
    <3>3. CASE k # i /\ k # j
      BY <1>2, <1>10, <2>2, <3>3
    <3> QED BY <3>1, <3>2, <3>3
  <2> QED BY <1>1, <1>2, <1>10, <2>2, <2>3 DEF IInv
<1>12. CASE ~ reg[1].shared
  <2>1. reg' = [reg EXCEPT ![j] = Product(reg[j], reg[i])]
    BY <1>1, <1>12
  <2>2. /\ reg' = [k \in Registers |-> reg'[k]] /\ reg'[j] = Product(reg[j], reg[i])
        /\ \A k \in Registers : k # j => reg'[k] = reg[k]
    BY <1>1, <1>2, <2>1
  <2>3. \A k \in Registers : Holds(reg'[k], plain'[k])
    <3> SUFFICES ASSUME NEW k \in Registers PROVE Holds(reg'[k], plain'[k])
      BY Zenon
    <3>1. CASE k = j
      BY <1>8, <1>10, <2>2, <3>1
    <3>2. CASE k # j
      BY <1>2, <1>10, <2>2, <3>2
    <3> QED BY <3>1, <3>2
  <2> QED BY <1>1, <1>2, <1>10, <2>2, <2>3 DEF IInv
<1> QED BY <1>11, <1>12

LEMMA DividePolynomialKeeps == IInv /\ DividePolynomial => IInv'
<1> SUFFICES ASSUME IInv, DividePolynomial PROVE IInv'
  OBVIOUS
<1> DEFINE numV(pick) == [k \in 1 .. 4 |-> reg[pick[k]].val]
           numM(pick) == [k \in 1 .. 4 |-> reg[pick[k]].mac]
           numP(pick) == [k \in 1 .. 4 |-> plain[pick[k]]]
           dv(pick, part) == DivideShares(numV(pick), Vanishing)[part]
           dm(pick, part) == DivideShares(numM(pick), Vanishing)[part]
           made(pick, part, i) == [val |-> [p \in Party |-> At(dv(pick, part)[p], i)],
                                   mac |-> [p \in Party |-> At(dm(pick, part)[p], i)]]
           rest(pick, part) == Resized(DivideWithQAndR(numP(pick), Vanishing)[part], 2)
<1>1. PICK pick \in [1 .. 4 -> Registers], part \in {1, 2} :
        /\ Idle /\ \A i \in Registers : reg[i].shared
        /\ IF \A p \in Party : Len(dv(pick, part)[p]) = Len(dv(pick, part)[King])
           THEN /\ reg' = [i \in Registers |-> Shared(made(pick, part, i))]
                /\ plain' = rest(pick, part)
                /\ bit' = bit /\ stopped' = stopped
           ELSE stopped' = "uneven"
  BY DEF DividePolynomial
<1>2. /\ \A k \in Registers : Holds(reg[k], plain[k])
      /\ BitHolds(bit) /\ stopped = ""
  BY <1>1 DEF IInv, Idle
<1> DEFINE r == [k \in 1 .. 4 |-> reg[pick[k]]]
           v == numP(pick)
           x == numV(pick)
           y == numM(pick)
<1>3. /\ pick[1] \in Registers /\ pick[2] \in Registers /\ pick[3] \in Registers /\ pick[4] \in Registers
  OBVIOUS
<1>4. /\ r[1] = reg[pick[1]] /\ r[2] = reg[pick[2]] /\ r[3] = reg[pick[3]] /\ r[4] = reg[pick[4]]
      /\ v[1] = plain[pick[1]] /\ v[2] = plain[pick[2]] /\ v[3] = plain[pick[3]] /\ v[4] = plain[pick[4]]
      /\ v = [k \in 1 .. 4 |-> v[k]]
      /\ x = [k \in 1 .. 4 |-> r[k].val] /\ y = [k \in 1 .. 4 |-> r[k].mac]
  OBVIOUS
<1>5. /\ Holds(r[1], v[1]) /\ Holds(r[2], v[2]) /\ Holds(r[3], v[3]) /\ Holds(r[4], v[4])
      /\ r[1].shared /\ r[2].shared /\ r[3].shared /\ r[4].shared
  BY <1>1, <1>2, <1>3, <1>4
<1>6. /\ x[1] = r[1].val /\ x[2] = r[2].val /\ x[3] = r[3].val /\ x[4] = r[4].val
      /\ y[1] = r[1].mac /\ y[2] = r[2].mac /\ y[3] = r[3].mac /\ y[4] = r[4].mac
      /\ x = [k \in 1 .. 4 |-> x[k]] /\ y = [k \in 1 .. 4 |-> y[k]]
  BY <1>4
<1> HIDE DEF r, v, x, y
<1>7. FourSharings(x) /\ FourSharings(y)
  BY <1>5, <1>6 DEF FourSharings, Holds
<1> DEFINE d == DivideShares(x, Vanishing)[part]
           e == DivideShares(y, Vanishing)[part]
           own(i) == [val |-> [p \in Party |-> At(d[p], i)], mac |-> [p \in Party |-> At(e[p], i)]]
<1>8. /\ \A p \in Party : Len(d[p]) = Len(d[King])
      /\ [p \in Party |-> At(d[p], 1)] = Kept(x, part, 1)
      /\ [p \in Party |-> At(d[p], 2)] = Kept(x, part, 2)
      /\ [p \in Party |-> At(e[p], 1)] = Kept(y, part, 1)
      /\ [p \in Party |-> At(e[p], 2)] = Kept(y, part, 2)
  BY <1>7, DivideSharesIs
<1>9. dv(pick, part) = d /\ dm(pick, part) = e /\ rest(pick, part) = Resized(DivideWithQAndR(v, Vanishing)[part], 2)
  BY DEF x, y, v
<1>10. \A i \in Registers : made(pick, part, i) = own(i)
  BY <1>9
<1> HIDE DEF d, e, numV, numM, numP, dv, dm
<1> DEFINE w == Resized(DivideWithQAndR(v, Vanishing)[part], 2)
<1>11. /\ reg' = [i \in Registers |-> Shared(own(i))] /\ plain' = w
       /\ bit' = bit /\ stopped' = ""
  <2>1. \A p \in Party : Len(dv(pick, part)[p]) = Len(dv(pick, part)[King])
    BY <1>8, <1>9
  <2>2. reg' = [i \in Registers |-> Shared(made(pick, part, i))] /\ plain' = rest(pick, part)
        /\ bit' = bit /\ stopped' = stopped
    BY <1>1, <2>1
  <2> HIDE DEF made, own, rest
  <2> QED BY <1>2, <1>9, <1>10, <2>2
<1>12. own(1).val = Kept(x, part, 1) /\ own(1).mac = Kept(y, part, 1)
       /\ own(2).val = Kept(x, part, 2) /\ own(2).mac = Kept(y, part, 2)
  BY <1>8
<1> HIDE DEF own, made, rest
<1>13. Holds(Shared(own(1)), KeptPlain(v, part, 1)) /\ Holds(Shared(own(2)), KeptPlain(v, part, 2))
  <2>1. /\ own(1).val = Kept([k \in 1 .. 4 |-> r[k].val], part, 1)
        /\ own(1).mac = Kept([k \in 1 .. 4 |-> r[k].mac], part, 1)
        /\ own(2).val = Kept([k \in 1 .. 4 |-> r[k].val], part, 2)
        /\ own(2).mac = Kept([k \in 1 .. 4 |-> r[k].mac], part, 2)
    BY <1>4, <1>12
  <2>2. 1 \in {1, 2} /\ 2 \in {1, 2}
    OBVIOUS
  <2>3. Holds(Shared(own(1)), KeptPlain(v, part, 1))
    BY <1>5, <2>1, <2>2, KeptOpens
  <2>4. Holds(Shared(own(2)), KeptPlain(v, part, 2))
    BY <1>5, <2>1, <2>2, KeptOpens
  <2> QED BY <2>3, <2>4
<1>14. w = [i \in 1 .. 2 |-> w[i]] /\ w[1] = KeptPlain(v, part, 1) /\ w[2] = KeptPlain(v, part, 2)
  <2>1. v[1] \in Field /\ v[2] \in Field /\ v[3] \in Field /\ v[4] \in Field
    BY <1>5, HeldIs
  <2> QED BY <1>4, <2>1, DividePlain
<1> HIDE DEF w
<1>15. Holds(Shared(own(1)), w[1]) /\ Holds(Shared(own(2)), w[2]) /\ w[1] \in Field /\ w[2] \in Field
  BY <1>13, <1>14, HeldIs
<1>16. 1 \in Registers /\ 2 \in Registers /\ (\A i \in Registers : i = 1 \/ i = 2)
       /\ w = [i \in Registers |-> w[i]]
  BY <1>14 DEF Registers
<1>17. \A i \in Registers : Holds(reg'[i], plain'[i]) /\ plain'[i] \in Field
  <2> SUFFICES ASSUME NEW i \in Registers PROVE Holds(reg'[i], plain'[i]) /\ plain'[i] \in Field
    BY Zenon
  <2>1. reg'[i] = Shared(own(i)) /\ plain'[i] = w[i]
    BY <1>11
  <2>2. i = 1 \/ i = 2
    BY <1>16
  <2> QED BY <1>15, <2>1, <2>2
<1>18. plain' \in [Registers -> Field] /\ reg' = [i \in Registers |-> reg'[i]]
  BY <1>11, <1>16, <1>17
<1> QED BY <1>2, <1>11, <1>17, <1>18 DEF IInv

LEMMA BitOfRegister ==
    ASSUME NEW r, NEW c, Holds(r, c), NEW e \in Field, NEW k \in 1 .. BitLength
    PROVE  /\ BitDecompose(AsShare(r), e)[k] \in SUBSET Party
           /\ OpenBit(BitDecompose(AsShare(r), e)[k]) <=> PlainBit(c, k)
           /\ PlainBit(c, k) \in BOOLEAN
<1> DEFINE x == BitDecompose(AsShare(r), e)
<1>1. Opens(AsShare(r), c) /\ c \in Field
  BY RegisterOpens, HeldIs
<1>2. Binary(x, BitLength, c)
  BY <1>1, BitDecomposeOpens
<1> HIDE DEF x
<1>3. x[k] \in SUBSET Party /\ (OpenBit(x[k]) <=> Bit(c, k - 1))
  BY <1>2 DEF Binary
<1>4. PlainBit(c, k) = ((c \div 2 ^ (k - 1)) % 2 = 1)
  BY DEF PlainBit, BitsOf
<1> QED BY <1>3, <1>4 DEF Bit, x

LEMMA TakeBitKeeps == IInv /\ TakeBit => IInv'
<1> SUFFICES ASSUME IInv, TakeBit PROVE IInv'
  OBVIOUS
<1>1. PICK i \in Registers, k \in 1 .. BitLength, r \in Field :
        Hold(BitDecompose(AsShare(reg[i]), r)[k], PlainBit(plain[i], k))
  BY DEF TakeBit
<1> DEFINE x == BitDecompose(AsShare(reg[i]), r)[k]
           b == PlainBit(plain[i], k)
<1>2. Holds(reg[i], plain[i])
  BY DEF IInv
<1>3. x \in SUBSET Party /\ (OpenBit(x) <=> b) /\ b \in BOOLEAN
  BY <1>2, BitOfRegister
<1>4. Hold(x, b)
  BY <1>1
<1> HIDE DEF x, b
<1> QED BY <1>3, <1>4, HoldKeeps

LEMMA CompareKeeps == IInv /\ Compare => IInv'
<1> SUFFICES ASSUME IInv, Compare PROVE IInv'
  OBVIOUS
<1>1. PICK i \in Registers, j \in Registers, r \in Field, s \in Field :
        Hold(CompareBits(BitDecompose(AsShare(reg[i]), r), BitDecompose(AsShare(reg[j]), s)),
             plain[i] < plain[j])
  BY DEF Compare
<1> DEFINE x == BitDecompose(AsShare(reg[i]), r)
           y == BitDecompose(AsShare(reg[j]), s)
           a == plain[i]
           b == plain[j]
           z == CompareBits(x, y)
           t == a < b
<1>2. Holds(reg[i], a) /\ Holds(reg[j], b)
  BY DEF IInv
<1>3. Opens(AsShare(reg[i]), a) /\ Opens(AsShare(reg[j]), b) /\ a \in Field /\ b \in Field
  BY <1>2, RegisterOpens, HeldIs
<1>4. Binary(x, BitLength, a) /\ Binary(y, BitLength, b) /\ Len(x) = BitLength
  BY <1>3, BitDecomposeOpens
<1>5. /\ BitLength \in Nat \ {0} /\ a \in Nat /\ b \in Nat
      /\ a < 2 ^ BitLength /\ b < 2 ^ BitLength
  <2> DEFINE p == 2 ^ BitLength
  <2>1. Modulus < p /\ p \in Nat /\ Modulus \in Nat
    BY ModulusFits, ModulusIs
  <2>2. a \in Nat /\ b \in Nat /\ a < Modulus /\ b < Modulus
    BY <1>3, FieldIs
  <2> HIDE DEF p, a, b
  <2>3. a < p /\ b < p
    BY <2>1, <2>2
  <2> QED BY <2>2, <2>3, BitLengthIs DEF p
<1> HIDE DEF x, y, a, b
<1>6. z \in SUBSET Party /\ (OpenBit(z) <=> t)
  BY <1>4, <1>5, CompareBitsOpens
<1>7. t \in BOOLEAN
  BY <1>5
<1>8. Hold(z, t)
  BY <1>1 DEF x, y, a, b
<1> HIDE DEF z, t
<1> QED BY <1>6, <1>7, <1>8, HoldKeeps

LEMMA NegateKeeps == IInv /\ Negate => IInv'
<1> SUFFICES ASSUME IInv, Negate PROVE IInv'
  OBVIOUS
<1> DEFINE x == bit[1].share
           b == bit[1].plain
           z == Not(x)
           t == ~ b
<1>1. Hold(z, t) /\ bit # <<>>
  BY DEF Negate, Holding
<1>2. x \in SUBSET Party /\ b \in BOOLEAN /\ (OpenBit(x) <=> b)
  BY <1>1 DEF IInv, BitHolds
<1> HIDE DEF x, b
<1>3. z \in SUBSET Party /\ (OpenBit(z) <=> ~ OpenBit(x))
  BY <1>2, NotOpens, KingIsParty, XorIsShared DEF Not
<1>4. t \in BOOLEAN /\ (OpenBit(z) <=> t)
  BY <1>2, <1>3
<1> HIDE DEF z, t
<1> QED BY <1>1, <1>3, <1>4, HoldKeeps

LEMMA OneIsABit == 1 \in 1 .. BitLength /\ 1 \in Field
BY BitLengthIs, ModulusIs

LEMMA CombineKeeps == IInv /\ Combine => IInv'
<1> SUFFICES ASSUME IInv, Combine PROVE IInv'
  OBVIOUS
<1>1. PICK i \in Registers :
        LET other == BitDecompose(AsShare(reg[i]), 1)[1]
            known == PlainBit(plain[i], 1)
        IN  /\ Holding
            /\ \/ Hold(And(bit[1].share, other), bit[1].plain /\ known)
               \/ Hold(Or(bit[1].share, other), bit[1].plain \/ known)
               \/ Hold(Xor(bit[1].share, other), bit[1].plain # known)
  BY DEF Combine
<1> DEFINE x == bit[1].share
           b == bit[1].plain
           y == BitDecompose(AsShare(reg[i]), 1)[1]
           c == PlainBit(plain[i], 1)
<1>2. x \in SUBSET Party /\ b \in BOOLEAN /\ (OpenBit(x) <=> b)
  BY <1>1 DEF IInv, BitHolds, Holding
<1>3. Holds(reg[i], plain[i])
  BY DEF IInv
<1>4. y \in SUBSET Party /\ (OpenBit(y) <=> c) /\ c \in BOOLEAN
  BY <1>3, OneIsABit, BitOfRegister
<1>5. Hold(And(x, y), b /\ c) \/ Hold(Or(x, y), b \/ c) \/ Hold(Xor(x, y), b # c)
  BY <1>1
<1> HIDE DEF x, b, y, c
<1>6. ASSUME Hold(And(x, y), b /\ c) PROVE IInv'
  <2> DEFINE z == And(x, y)
             t == b /\ c
  <2>1. z \in SUBSET Party /\ (OpenBit(z) <=> t) /\ t \in BOOLEAN
    BY <1>2, <1>4, AndOpens
  <2>2. Hold(z, t)
    BY <1>6
  <2> HIDE DEF z, t
  <2> QED BY <2>1, <2>2, HoldKeeps
<1>7. ASSUME Hold(Or(x, y), b \/ c) PROVE IInv'
  <2> DEFINE z == Or(x, y)
             t == b \/ c
  <2>1. z \in SUBSET Party /\ (OpenBit(z) <=> t) /\ t \in BOOLEAN
    BY <1>2, <1>4, OrOpens
  <2>2. Hold(z, t)
    BY <1>7
  <2> HIDE DEF z, t
  <2> QED BY <2>1, <2>2, HoldKeeps
<1>8. ASSUME Hold(Xor(x, y), b # c) PROVE IInv'
  <2> DEFINE z == Xor(x, y)
             t == b # c
  <2>1. z \in SUBSET Party /\ (OpenBit(z) <=> (OpenBit(x) # OpenBit(y)))
    BY <1>2, <1>4, XorIsShared, XorOpens
  <2>2. OpenBit(x) = b /\ OpenBit(y) = c /\ t \in BOOLEAN
    BY <1>2, <1>4 DEF OpenBit
  <2>3. OpenBit(z) <=> t
    BY <2>1, <2>2
  <2>4. Hold(z, t)
    BY <1>8
  <2> HIDE DEF z, t
  <2> QED BY <2>1, <2>2, <2>3, <2>4, HoldKeeps
<1> QED BY <1>5, <1>6, <1>7, <1>8

LEMMA ToFieldKeeps == IInv /\ ToField => IInv'
<1> SUFFICES ASSUME IInv, ToField PROVE IInv'
  OBVIOUS
<1>1. PICK i \in Registers, r \in BOOLEAN :
        /\ bit # <<>> /\ stopped = ""
        /\ reg' = [reg EXCEPT ![i] = Shared(B2A(bit[1].share, r))]
        /\ plain' = [plain EXCEPT ![i] = IF bit[1].plain THEN 1 ELSE 0]
        /\ bit' = <<>> /\ stopped' = stopped
  BY DEF ToField, Holding
<1> DEFINE x == bit[1].share
           b == bit[1].plain
           z == B2A(x, r)
           c == IF b THEN 1 ELSE 0
<1>2. x \in SUBSET Party /\ b \in BOOLEAN /\ (OpenBit(x) <=> b)
  BY <1>1 DEF IInv, BitHolds
<1>3. reg' = [reg EXCEPT ![i] = Shared(z)] /\ plain' = [plain EXCEPT ![i] = c]
  BY <1>1
<1> HIDE DEF x, b
<1>4. c \in Field /\ c \in Int /\ Same(c, c)
  BY ModulusIs, SameItself
<1>5. Opens(z, c)
  <2>1. Opens(z, IF OpenBit(x) THEN 1 ELSE 0)
    BY <1>2, B2AOpens
  <2>2. (IF OpenBit(x) THEN 1 ELSE 0) = c
    BY <1>2
  <2> QED BY <2>1, <2>2
<1> HIDE DEF z, c
<1>6. Holds(Shared(z), c)
  BY <1>4, <1>5, SharedHolds
<1>7. /\ reg = [k \in Registers |-> reg[k]] /\ plain \in [Registers -> Field]
      /\ \A k \in Registers : Holds(reg[k], plain[k])
  BY DEF IInv
<1>8. reg' = [k \in Registers |-> reg'[k]] /\ plain' \in [Registers -> Field]
  BY <1>3, <1>4, <1>7
<1>9. \A k \in Registers : Holds(reg'[k], plain'[k])
  <2> SUFFICES ASSUME NEW k \in Registers PROVE Holds(reg'[k], plain'[k])
    BY Zenon
  <2>1. CASE k = i
    <3>1. reg'[k] = Shared(z) /\ plain'[k] = c
      BY <1>3, <1>7, <2>1
    <3> QED BY <1>6, <3>1
  <2>2. CASE k # i
    <3>1. reg'[k] = reg[k] /\ plain'[k] = plain[k]
      BY <1>3, <1>7, <2>2
    <3> QED BY <1>7, <3>1
  <2> QED BY <2>1, <2>2
<1>10. BitHolds(bit') /\ stopped' = ""
  BY <1>1 DEF BitHolds
<1> QED BY <1>8, <1>9, <1>10 DEF IInv

LEMMA NextKeeps == IInv /\ [Next]_vars => IInv'
<1> SUFFICES ASSUME IInv, [Next]_vars PROVE IInv'
  OBVIOUS
<1>1. CASE SetPublic \/ KingShare \/ Publicize \/ Add \/ Subtract \/ Multiply
           \/ Divide \/ SecureNeq \/ SecureEq
  BY <1>1, ArithmeticKeeps
<1>2. CASE DivideByZero
  BY <1>2, DivideByZeroKeeps
<1>3. CASE MultiplyUp
  BY <1>3, MultiplyUpKeeps
<1>4. CASE DividePolynomial
  BY <1>4, DividePolynomialKeeps
<1>5. CASE TakeBit
  BY <1>5, TakeBitKeeps
<1>6. CASE Compare
  BY <1>6, CompareKeeps
<1>7. CASE Negate
  BY <1>7, NegateKeeps
<1>8. CASE Combine
  BY <1>8, CombineKeeps
<1>9. CASE ToField
  BY <1>9, ToFieldKeeps
<1>10. CASE UNCHANGED vars
  BY <1>10 DEF vars, IInv
<1>11. CASE Stopped
  BY <1>10, <1>11 DEF Stopped
<1> QED BY <1>1, <1>2, <1>3, <1>4, <1>5, <1>6, <1>7, <1>8, <1>9, <1>10, <1>11 DEF Next

LEMMA AlwaysHolds == Spec => []IInv
BY InitHolds, NextKeeps, PTL DEF Spec

LEMMA HoldsIsTyped == IInv => TypeOK
<1> SUFFICES ASSUME IInv PROVE TypeOK
  OBVIOUS
<1>1. ASSUME NEW i \in Registers
      PROVE  /\ reg[i].val \in [Party -> Field] /\ reg[i].mac \in [Party -> Field]
             /\ ~ reg[i].shared => \A p \in Party : reg[i].val[p] = reg[i].val[King]
  <2>1. Holds(reg[i], plain[i])
    BY DEF IInv
  <2> QED BY <2>1, PartiesAre DEF Holds, Sharing
<1>2. plain \in [Registers -> Field] /\ BitHolds(bit)
  BY DEF IInv
<1>3. bit # <<>> => bit[1].share \subseteq Party /\ bit[1].plain \in BOOLEAN
  BY <1>2 DEF BitHolds
<1> QED BY <1>1, <1>2, <1>3 DEF TypeOK

LEMMA HoldsOpens == IInv => OpensToPlain
<1> SUFFICES ASSUME IInv PROVE OpensToPlain
  OBVIOUS
<1>1. \A i \in Registers : Value(reg[i]) = plain[i]
  <2> SUFFICES ASSUME NEW i \in Registers PROVE Value(reg[i]) = plain[i]
    BY Zenon
  <2>1. Holds(reg[i], plain[i])
    BY DEF IInv
  <2> QED BY <2>1, RegisterOpens
<1>2. bit # <<>> => OpenBit(bit[1].share) = bit[1].plain
  <2> SUFFICES ASSUME bit # <<>> PROVE OpenBit(bit[1].share) = bit[1].plain
    OBVIOUS
  <2>1. bit[1].plain \in BOOLEAN /\ (OpenBit(bit[1].share) <=> bit[1].plain)
    BY DEF IInv, BitHolds
  <2>2. OpenBit(bit[1].share) \in BOOLEAN
    BY DEF OpenBit
  <2> QED BY <2>1, <2>2
<1> QED BY <1>1, <1>2 DEF OpensToPlain

LEMMA HoldsChecks == IInv => ChecksPass
<1> SUFFICES ASSUME IInv PROVE ChecksPass
  OBVIOUS
<1>1. \A i \in Registers : reg[i].shared => ChecksOut(reg[i])
  <2> SUFFICES ASSUME NEW i \in Registers PROVE reg[i].shared => ChecksOut(reg[i])
    BY Zenon
  <2>1. Holds(reg[i], plain[i])
    BY DEF IInv
  <2> QED BY <2>1, RegisterOpens
<1> QED BY <1>1 DEF IInv, ChecksPass

\* The registers hold field elements, and every party has the same copy of a
\* public one.
THEOREM RegistersTyped == Spec => []TypeOK
<1>1. IInv => TypeOK
  BY HoldsIsTyped
<1> QED BY <1>1, AlwaysHolds, PTL

\* Whatever the parties compute, in whatever order and however the shares
\* fell: it opens to what the plain program has.
THEOREM ComputationsAreCorrect == Spec => []OpensToPlain
<1>1. IInv => OpensToPlain
  BY HoldsOpens
<1> QED BY <1>1, AlwaysHolds, PTL

\* No honest run is cut short: every opening passes the check of the MACs, the
\* parties' polynomials fit together, and only a division by zero stops them.
THEOREM HonestRunsGoOn == Spec => []ChecksPass
<1>1. IInv => ChecksPass
  BY HoldsChecks
<1> QED BY <1>1, AlwaysHolds, PTL

-----------------------------------------------------------------------------
(* Polynomials as sequences of coefficients.                               *)

\* Horner's scheme computes the value.
LEMMA ValueIs ==
    ASSUME NEW p \in Seq(Int), NEW x \in Int
    PROVE  ValueAt(p, x) \in Field /\ Same(ValueAt(p, x), PolyValue(p, x))
<1> DEFINE n == Len(p)
           f == CHOOSE u : Horner(u, p, x, n)
           c == Coefs(p)
           g == [q \in (1 .. n) \X Field |-> (q[2] * x + p[n + 1 - q[1]]) % Modulus]
<1>1. n \in Nat /\ \A i \in 1 .. n : p[i] \in Int
  OBVIOUS
<1>2. ValueAt(p, x) = IF p = <<>> THEN 0 ELSE f[n]
  BY DEF ValueAt, Horner
<1>3. c \in Coefficients /\ \A i \in Nat : c[i] = IF i < n THEN p[i + 1] ELSE 0
  BY CoefsAre
<1>4. PolyValue(p, x) = Evaluation(c, x, n)
  BY DEF PolyValue
<1> HIDE DEF n, c
<1>5. \A i \in 1 .. n : \A v \in Field : g[<<i, v>>] = (v * x + p[n + 1 - i]) % Modulus
  OBVIOUS
<1> HIDE DEF g
<1>6. ASSUME NEW i \in 1 .. n, NEW v \in Int
      PROVE  p[n + 1 - i] \in Int /\ v * x + p[n + 1 - i] \in Int
             /\ (v * x + p[n + 1 - i]) % Modulus \in Field
  <2>1. n + 1 - i \in 1 .. n
    BY <1>1
  <2>2. p[n + 1 - i] \in Int
    BY <1>1, <2>1
  <2>3. v * x + p[n + 1 - i] \in Int
    BY <2>2
  <2> QED BY <2>2, <2>3, Remainder
<1>7. Steps(g, Field, n)
  <2> SUFFICES ASSUME NEW i \in 1 .. n, NEW v \in Field PROVE g[<<i, v>>] \in Field
    BY DEF Steps
  <2>1. v \in Int
    BY ModulusIs
  <2> QED BY <1>5, <1>6, <2>1
<1>8. PICK h \in [0 .. n -> Field] : Iterated(h, 0, g, n)
  BY <1>1, <1>7, ModulusIs, Iterates
<1>9. Horner(h, p, x, n)
  <2> DEFINE e == [i \in 0 .. n |-> IF i = 0 THEN 0 ELSE (h[i - 1] * x + p[n + 1 - i]) % Modulus]
  <2>1. \A i \in 0 .. n : h[i] = e[i]
    <3> SUFFICES ASSUME NEW i \in 0 .. n
                 PROVE  h[i] = IF i = 0 THEN 0 ELSE (h[i - 1] * x + p[n + 1 - i]) % Modulus
      OBVIOUS
    <3>1. CASE i = 0
      BY <1>8, <3>1 DEF Iterated
    <3>2. CASE i # 0
      <4>1. i \in 1 .. n /\ h[i - 1] \in Field
        BY <1>1, <3>2
      <4>2. h[i] = g[<<i, h[i - 1]>>]
        BY <1>8, <4>1 DEF Iterated
      <4> QED BY <1>5, <3>2, <4>1, <4>2
    <3> QED BY <3>1, <3>2
  <2>2. h = [i \in 0 .. n |-> h[i]] /\ e = [i \in 0 .. n |-> e[i]]
    OBVIOUS
  <2> HIDE DEF e
  <2>3. h = e
    BY <2>1, <2>2
  <2> QED BY <2>3 DEF e, Horner
<1>10. Horner(f, p, x, n)
  BY <1>9, Zenon
<1> HIDE DEF f
<1>11. \A i \in 0 .. n : f[i] = IF i = 0 THEN 0 ELSE (f[i - 1] * x + p[n + 1 - i]) % Modulus
  BY <1>10 DEF Horner
<1> DEFINE P(i) == PowerOf(x, i)
           E(i) == Evaluation(c, x, i)
           S == {m \in Nat : m <= n => f[m] \in Field /\ Same(E(n - m) + P(n - m) * f[m], E(n))}
<1>12. \A i \in Nat : P(i) \in Int /\ P(i + 1) = P(i) * x /\ E(i) \in Int
                      /\ E(i + 1) = E(i) + c[i] * P(i)
  BY <1>3, PowerStarts, EvaluationSteps
<1> HIDE DEF P, E
<1>13. 0 \in S
  <2>1. f[0] = 0 /\ n - 0 = n
    BY <1>1, <1>11
  <2>2. E(n) + P(n) * 0 = E(n) /\ Same(E(n), E(n))
    <3>1. E(n) \in Int /\ P(n) \in Int
      BY <1>1, <1>12
    <3>2. P(n) * 0 = 0 /\ E(n) + 0 = E(n)
      BY <3>1
    <3> QED BY <3>1, <3>2, SameItself
  <2> QED BY <2>1, <2>2, ModulusIs
<1>14. \A m \in Nat : m \in S => m + 1 \in S
  <2> SUFFICES ASSUME NEW m \in Nat, m \in S, m + 1 <= n
               PROVE  f[m + 1] \in Field /\ Same(E(n - (m + 1)) + P(n - (m + 1)) * f[m + 1], E(n))
    OBVIOUS
  <2> DEFINE j == n - (m + 1)
             v == f[m]
             w == f[m + 1]
  <2>1. j \in Nat /\ n - m = j + 1 /\ n + 1 - (m + 1) = j + 1 /\ m \in 0 .. n /\ j < n
    BY <1>1
  <2>2. v \in Field /\ Same(E(j + 1) + P(j + 1) * v, E(n))
    BY <1>1, <2>1
  <2>3. v \in Int
    BY <2>2, InField
  <2>4. w = (v * x + c[j]) % Modulus
    <3>1. m + 1 \in 0 .. n /\ m + 1 # 0 /\ (m + 1) - 1 = m
      BY <1>1
    <3>2. w = (v * x + p[j + 1]) % Modulus
      BY <1>11, <2>1, <3>1
    <3> QED BY <1>3, <2>1, <3>2
  <2>5. c[j] \in Int /\ P(j) \in Int /\ E(j) \in Int /\ E(n) \in Int
    BY <1>1, <1>3, <1>12, <2>1 DEF Coefficients
  <2> HIDE DEF j, v, w
  <2> DEFINE a == v * x + c[j]
  <2>6. a \in Int
    BY <2>3, <2>5
  <2>7. w \in Field /\ Same(w, a)
    <3> HIDE DEF a
    <3>1. w = a % Modulus
      BY <2>4 DEF a
    <3> QED BY <2>6, <3>1, Remainder
  <2>8. E(j) + P(j) * a = E(j + 1) + P(j + 1) * v
    <3>1. E(j + 1) = E(j) + c[j] * P(j) /\ P(j + 1) = P(j) * x
      BY <1>12, <2>1
    <3>2. P(j) * (v * x + c[j]) = (P(j) * x) * v + c[j] * P(j)
      <4> DEFINE y == P(j)
                 d == c[j]
      <4> HIDE DEF y, d
      <4>1. y \in Int /\ d \in Int
        BY <2>5 DEF y, d
      <4>2. y * (v * x + d) = y * (v * x) + y * d /\ y * (v * x) = (y * x) * v /\ y * d = d * y
        BY <2>3, <4>1
      <4>3. y * (v * x + d) = (y * x) * v + d * y
        BY <4>2
      <4> QED BY <4>3 DEF y, d
    <3>3. (P(j) * x) * v \in Int /\ c[j] * P(j) \in Int
      BY <2>3, <2>5
    <3> QED BY <2>5, <3>1, <3>2, <3>3
  <2> HIDE DEF a
  <2>9. w \in Int
    BY <2>7, ModulusIs
  <2> DEFINE b == E(j) + P(j) * a
             d == E(j) + P(j) * w
  <2>10. Same(d, b) /\ d \in Int /\ b \in Int
    <3>1. Same(P(j) * w, P(j) * a)
      BY <2>5, <2>6, <2>7, <2>9, SameItself, SameProduct
    <3>2. P(j) * w \in Int /\ P(j) * a \in Int
      BY <2>5, <2>6, <2>9
    <3>3. Same(E(j), E(j)) /\ d \in Int /\ b \in Int
      BY <2>5, <3>2, SameItself
    <3> QED BY <2>5, <3>1, <3>2, <3>3, SameSum
  <2>11. Same(b, E(n))
    BY <2>2, <2>8
  <2> HIDE DEF b
  <2>12. Same(d, E(n))
    BY <2>5, <2>10, <2>11, SameOn
  <2> QED BY <2>7, <2>12 DEF w, j
<1>15. f[n] \in Field /\ Same(f[n], E(n))
  <2>1. n \in S
    <3> HIDE DEF S
    <3> QED BY <1>1, <1>13, <1>14, Reaches
  <2>2. f[n] \in Field /\ Same(E(0) + P(0) * f[n], E(n))
    <3>1. n - n = 0
      BY <1>1
    <3> QED BY <1>1, <2>1, <3>1
  <2>3. E(0) = 0 /\ P(0) = 1
    BY <1>3, 0 \in Nat, PowerStarts, EvaluationSteps DEF E, P
  <2>4. f[n] \in Int
    BY <2>2, InField
  <2>5. 0 + 1 * f[n] = f[n]
    BY <2>4
  <2> QED BY <2>2, <2>3, <2>5
<1>16. CASE p # <<>>
  BY <1>2, <1>4, <1>15, <1>16 DEF E
<1>17. CASE p = <<>>
  <2>1. n = 0
    BY <1>17 DEF n
  <2>2. E(0) = 0
    BY <1>3, 0 \in Nat, EvaluationSteps DEF E
  <2> QED BY <1>2, <1>4, <1>17, <2>1, <2>2, ModulusIs, SameItself DEF E
<1> QED BY <1>16, <1>17

LEMMA GreaterIs ==
    ASSUME NEW i \in Nat, NEW j \in Nat
    PROVE  Greater(i, j) \in Nat /\ i <= Greater(i, j) /\ j <= Greater(i, j)
           /\ (Greater(i, j) = i \/ Greater(i, j) = j)
BY DEF Greater

LEMMA LessValue ==
    ASSUME NEW p \in Seq(Int), NEW q \in Seq(Int), NEW x \in Int
    PROVE  /\ Less(p, q) \in Seq(Field) /\ Len(Less(p, q)) = Greater(Len(p), Len(q))
           /\ Same(PolyValue(Less(p, q), x), PolyValue(p, x) - PolyValue(q, x))
<1>1. Len(p) \in Nat /\ Len(q) \in Nat
  OBVIOUS
<1> QED BY <1>1, GreaterIs, MinusValue DEF Less

LEMMA PlusValue ==
    ASSUME NEW p \in Seq(Int), NEW q \in Seq(Int), NEW x \in Int
    PROVE  /\ Plus(p, q) \in Seq(Field) /\ Len(Plus(p, q)) = Greater(Len(p), Len(q))
           /\ Same(PolyValue(Plus(p, q), x), PolyValue(p, x) + PolyValue(q, x))
<1> DEFINE s == [i \in 1 .. Len(q) |-> -q[i]]
           n == Greater(Len(p), Len(q))
           v == PolyValue(p, x)
           w == PolyValue(q, x)
           y == PolyValue(s, x)
<1>1. Len(p) \in Nat /\ Len(q) \in Nat
  OBVIOUS
<1>2. s \in Seq(Int) /\ Len(s) = Len(q)
  OBVIOUS
<1>3. \A i \in 0 .. Len(q) - 1 : Same(Coefs(s)[i], (-1) * Coefs(q)[i] + 0 * Coefs(q)[i])
  <2> SUFFICES ASSUME NEW i \in 0 .. Len(q) - 1
               PROVE  Same(Coefs(s)[i], (-1) * Coefs(q)[i] + 0 * Coefs(q)[i])
    OBVIOUS
  <2>1. i \in Nat /\ i < Len(q) /\ i + 1 \in 1 .. Len(q)
    BY <1>1
  <2>2. Coefs(q)[i] = q[i + 1] /\ q[i + 1] \in Int
    BY <2>1, CoefsAre
  <2>3. Coefs(s)[i] = s[i + 1]
    <3> HIDE DEF s
    <3> QED BY <1>2, <2>1, CoefsAre
  <2>4. s[i + 1] = -q[i + 1]
    BY <2>1
  <2> DEFINE a == q[i + 1]
  <2> HIDE DEF a
  <2>5. (-1) * a + 0 * a = -a /\ -a \in Int
    BY <2>2 DEF a
  <2> QED BY <2>2, <2>3, <2>4, <2>5, SameItself DEF a
<1>4. Same(y, (-1) * w + 0 * w) /\ w \in Int /\ v \in Int /\ y \in Int
  <2> HIDE DEF s
  <2>1. -1 \in Int /\ 0 \in Int
    OBVIOUS
  <2>2. Coefs(s) \in Coefficients /\ Coefs(q) \in Coefficients
    BY <1>2, CoefsAre
  <2> QED BY <1>1, <1>2, <1>3, <2>1, <2>2, EvaluationCombines, PolyValueIsNumber DEF PolyValue
<1>5. Plus(p, q) = Minus(p, s, n)
  BY DEF Plus
<1> HIDE DEF s
<1>6. Minus(p, s, n) \in Seq(Field) /\ Len(Minus(p, s, n)) = n
      /\ Same(PolyValue(Minus(p, s, n), x), v - y)
  BY <1>1, <1>2, GreaterIs, MinusValue
<1> DEFINE z == PolyValue(Plus(p, q), x)
<1>7. z \in Int /\ Same(z, v - y)
  BY <1>5, <1>6, FieldsAreNumbers, PolyValueIsNumber
<1> HIDE DEF v, w, y, z
<1>8. (-1) * w + 0 * w = -w /\ v - (-w) = v + w /\ -w \in Int
  BY <1>4
<1>9. Same(v - y, v + w)
  BY <1>4, <1>8, SameItself, SameDifference
<1>10. v - y \in Int /\ v + w \in Int
  BY <1>4
<1>11. Same(z, v + w)
  BY <1>7, <1>9, <1>10, SameOn
<1> QED BY <1>5, <1>6, <1>11 DEF v, w, z

-----------------------------------------------------------------------------
(* Powers, and polynomials at a multiple of a point.                       *)

LEMMA PowerIs ==
    ASSUME NEW x \in Int, NEW k \in Nat
    PROVE  Power(x, k) \in Field /\ Power(x, k) \in Int /\ Same(Power(x, k), PowerOf(x, k))
<1> DEFINE f == CHOOSE u : Raises(u, x, k)
           g == [q \in (1 .. k) \X Field |-> (q[2] * x) % Modulus]
<1>1. Power(x, k) = f[k]
  BY DEF Power, Raises
<1>2. \A i \in 1 .. k : \A v \in Field : g[<<i, v>>] = (v * x) % Modulus
  OBVIOUS
<1> HIDE DEF g
<1>3. \A v \in Int : (v * x) % Modulus \in Field /\ Same((v * x) % Modulus, v * x)
  <2> SUFFICES ASSUME NEW v \in Int
               PROVE  (v * x) % Modulus \in Field /\ Same((v * x) % Modulus, v * x)
    OBVIOUS
  <2>1. v * x \in Int
    OBVIOUS
  <2> QED BY <2>1, Remainder
<1>4. Steps(g, Field, k)
  <2> SUFFICES ASSUME NEW i \in 1 .. k, NEW v \in Field PROVE g[<<i, v>>] \in Field
    BY DEF Steps
  <2> QED BY <1>2, <1>3, InField
<1>5. PICK h \in [0 .. k -> Field] : Iterated(h, 1, g, k)
  BY <1>4, ModulusIs, Iterates
<1>6. Raises(h, x, k)
  <2> DEFINE e == [i \in 0 .. k |-> IF i = 0 THEN 1 ELSE (h[i - 1] * x) % Modulus]
  <2>1. \A i \in 0 .. k : h[i] = e[i]
    <3> SUFFICES ASSUME NEW i \in 0 .. k
                 PROVE  h[i] = IF i = 0 THEN 1 ELSE (h[i - 1] * x) % Modulus
      OBVIOUS
    <3>1. CASE i = 0
      BY <1>5, <3>1 DEF Iterated
    <3>2. CASE i # 0
      <4>1. i \in 1 .. k /\ h[i - 1] \in Field
        BY <3>2
      <4>2. h[i] = g[<<i, h[i - 1]>>]
        BY <1>5, <4>1 DEF Iterated
      <4> QED BY <1>2, <3>2, <4>1, <4>2
    <3> QED BY <3>1, <3>2
  <2>2. h = [i \in 0 .. k |-> h[i]] /\ e = [i \in 0 .. k |-> e[i]]
    OBVIOUS
  <2> HIDE DEF e
  <2>3. h = e
    BY <2>1, <2>2
  <2> QED BY <2>3 DEF e, Raises
<1>7. Raises(f, x, k)
  BY <1>6, Zenon
<1> HIDE DEF f
<1>8. \A i \in 0 .. k : f[i] = IF i = 0 THEN 1 ELSE (f[i - 1] * x) % Modulus
  BY <1>7 DEF Raises
<1> DEFINE S == {m \in Nat : m <= k => f[m] \in Field /\ Same(f[m], PowerOf(x, m))}
<1>9. 0 \in S
  <2>1. PowerOf(x, 0) = 1
    BY PowerStarts
  <2>2. f[0] = 1
    BY <1>8
  <2>3. 1 \in Field /\ Same(1, 1)
    BY ModulusIs, InField, SameItself
  <2> QED BY <2>1, <2>2, <2>3
<1>10. \A m \in Nat : m \in S => m + 1 \in S
  <2> SUFFICES ASSUME NEW m \in Nat, m \in S, m + 1 <= k
               PROVE  f[m + 1] \in Field /\ Same(f[m + 1], PowerOf(x, m + 1))
    OBVIOUS
  <2> DEFINE v == f[m]
             p == PowerOf(x, m)
  <2>1. m + 1 \in 0 .. k /\ (m + 1) - 1 = m /\ m + 1 # 0
    OBVIOUS
  <2>2. v \in Field /\ Same(v, p)
    BY <2>1
  <2>3. f[m + 1] = (v * x) % Modulus
    BY <1>8, <2>1
  <2>4. p \in Int /\ PowerOf(x, m + 1) = p * x /\ v \in Int
    BY <2>2, InField, PowerStarts
  <2> HIDE DEF v, p
  <2>5. Same(v * x, p * x)
    BY <2>2, <2>4, SameItself, SameProduct
  <2>6. (v * x) % Modulus \in Field /\ Same((v * x) % Modulus, v * x)
    BY <1>3, <2>4
  <2>7. (v * x) % Modulus \in Int /\ v * x \in Int /\ p * x \in Int
    BY <2>4, <2>6, InField
  <2>8. Same((v * x) % Modulus, p * x)
    BY <2>5, <2>6, <2>7, SameOn
  <2> QED BY <2>3, <2>4, <2>6, <2>8
<1>11. k \in S
  <2> HIDE DEF S
  <2> QED BY <1>9, <1>10, Reaches
<1> QED BY <1>1, <1>11, InField

LEMMA ShiftedValue ==
    ASSUME NEW p \in Seq(Int), NEW a \in Int, NEW x \in Int
    PROVE  /\ Shifted(p, a) \in Seq(Field) /\ Len(Shifted(p, a)) = Len(p)
           /\ Same(PolyValue(Shifted(p, a), x), PolyValue(p, a * x))
<1> DEFINE n == Len(p)
           y == [i \in 1 .. n |-> (p[i] * Power(a, i - 1)) % Modulus]
           z == Shifted(p, a)
           c == Coefs(p)
           d == Coefs(z)
<1>1. n \in Nat /\ \A i \in 1 .. n : p[i] \in Int
  OBVIOUS
<1>2. c \in Coefficients /\ \A i \in Nat : c[i] = IF i < n THEN p[i + 1] ELSE 0
  BY CoefsAre
<1>3. z = Resized(y, n)
  BY DEF Shifted
<1> HIDE DEF n
<1>4. ASSUME NEW i \in 1 .. n
      PROVE  y[i] \in Field /\ Same(y[i], p[i] * PowerOf(a, i - 1))
  <2> DEFINE b == p[i]
             q == Power(a, i - 1)
             r == PowerOf(a, i - 1)
  <2>1. i - 1 \in Nat
    OBVIOUS
  <2>2. q \in Int /\ r \in Int /\ Same(q, r) /\ b \in Int
    BY <1>1, <2>1, PowerIs, PowerStarts
  <2>3. y[i] = (b * q) % Modulus
    OBVIOUS
  <2> HIDE DEF b, q, r, y
  <2>4. b * q \in Int /\ b * r \in Int /\ Same(b * q, b * r)
    <3>1. Same(b, b)
      BY <2>2, SameItself
    <3>2. Same(b * q, b * r)
      BY <2>2, <3>1, SameProduct
    <3> QED BY <2>2, <3>2
  <2>5. y[i] \in Field /\ Same(y[i], b * q)
    BY <2>3, <2>4, Remainder
  <2>6. Same(y[i], b * r)
    BY <2>4, <2>5, InField, SameOn
  <2> QED BY <2>5, <2>6 DEF b, r
<1>5. y \in [1 .. n -> Field]
  BY <1>4
<1> HIDE DEF y, z, c
<1>6. z \in Seq(Field) /\ Len(z) = n /\ \A i \in 1 .. n : z[i] = y[i]
  BY <1>1, <1>3, <1>5, ResizedSame
<1>7. d \in Coefficients /\ \A i \in Nat : d[i] = IF i < n THEN z[i + 1] ELSE 0
  BY <1>6, FieldsAreNumbers, CoefsAre
<1> HIDE DEF d
<1>8. \A i \in 0 .. n-1 : Same(d[i], c[i] * PowerOf(a, i))
  <2> SUFFICES ASSUME NEW i \in 0 .. n-1 PROVE Same(d[i], c[i] * PowerOf(a, i))
    OBVIOUS
  <2>1. i \in Nat /\ i + 1 \in 1 .. n /\ (i + 1) - 1 = i /\ i < n
    BY <1>1
  <2>2. d[i] = y[i + 1] /\ c[i] = p[i + 1]
    BY <1>2, <1>6, <1>7, <2>1
  <2> QED BY <1>4, <2>1, <2>2
<1>9. Same(Evaluation(d, x, n), Evaluation(c, a * x, n))
  BY <1>1, <1>2, <1>7, <1>8, EvaluationScales
<1> QED BY <1>6, <1>9 DEF PolyValue, c, d, n, z

-----------------------------------------------------------------------------
(* Polynomials from their values on the domain.                            *)

DomainFits ==
    /\ DomainSize \in Nat \ {0} /\ DomainSize < Modulus
    /\ Generator \in Field /\ Generator # 0

TransformTerms(v, k) ==
    [i \in Nat |-> v[i + 1] * Power(FieldInverse(Generator), (k * i) % DomainSize)]

Transforms(u, v, k) ==
    u = [i \in 0 .. DomainSize |->
          IF i = 0 THEN 0
          ELSE u[i - 1] + v[i] * Power(FieldInverse(Generator), (k * (i - 1)) % DomainSize)]

LEMMA TransformTermsAre ==
    ASSUME DomainFits, NEW v, \A i \in 1 .. DomainSize : v[i] \in Int, NEW k \in Nat,
           NEW i \in 1 .. DomainSize
    PROVE  LET w == v[i] * Power(FieldInverse(Generator), (k * (i - 1)) % DomainSize)
           IN  w \in Int /\ TransformTerms(v, k)[i - 1] = w
<1> DEFINE b == FieldInverse(Generator)
           j == i - 1
           e == (k * j) % DomainSize
<1>1. j \in Nat /\ j + 1 = i /\ v[i] \in Int
  BY DEF DomainFits
<1>2. e \in Nat
  <2>1. DomainSize \in Nat \ {0} /\ k * j \in Nat
    BY <1>1 DEF DomainFits
  <2> QED BY <2>1
<1>3. b \in Int
  BY FieldInverseIs, InField DEF DomainFits
<1>4. TransformTerms(v, k)[j] = v[j + 1] * Power(b, e)
  BY <1>1 DEF TransformTerms
<1> HIDE DEF b, e
<1>5. Power(b, e) \in Int
  BY <1>2, <1>3, PowerIs
<1>6. v[i] * Power(b, e) \in Int
  BY <1>1, <1>5
<1> QED BY <1>1, <1>4, <1>6 DEF b, e

LEMMA TransformIs ==
    ASSUME DomainFits, NEW v, \A i \in 1 .. DomainSize : v[i] \in Int, NEW k \in Nat,
           NEW f, f = CHOOSE u : Transforms(u, v, k)
    PROVE  f[DomainSize] = SumTo(TransformTerms(v, k), DomainSize) /\ f[DomainSize] \in Int
<1> DEFINE n == DomainSize
           b == FieldInverse(Generator)
           x == TransformTerms(v, k)
           t == [i \in 1 .. n |-> v[i] * Power(b, (k * (i - 1)) % n)]
<1>1. n \in Nat
  BY DEF DomainFits
<1>2. \A i \in 1 .. n : t[i] = v[i] * Power(b, (k * (i - 1)) % n)
  OBVIOUS
<1> HIDE DEF t, n, b, x
<1>3. \A i \in 1 .. n : t[i] \in Int /\ x[i - 1] = t[i]
  BY <1>2, TransformTermsAre DEF n, b, x
<1>4. PICK w : w = [i \in 0 .. n |-> w[i]] /\ Runs(w, t, n)
  BY <1>1, <1>3, RunExists
<1>5. Transforms(w, v, k)
  <2> DEFINE e == [i \in 0 .. n |-> IF i = 0 THEN 0 ELSE w[i - 1] + v[i] * Power(b, (k * (i - 1)) % n)]
  <2>1. \A i \in 0 .. n : w[i] = e[i]
    <3> SUFFICES ASSUME NEW i \in 0 .. n
                 PROVE  w[i] = IF i = 0 THEN 0
                               ELSE w[i - 1] + v[i] * Power(b, (k * (i - 1)) % n)
      OBVIOUS
    <3>1. i # 0 => i \in 1 .. n
      BY <1>1
    <3>2. w[i] = IF i = 0 THEN 0 ELSE w[i - 1] + t[i]
      BY <1>4 DEF Runs
    <3> QED BY <1>2, <3>1, <3>2
  <2>2. e = [i \in 0 .. n |-> e[i]]
    OBVIOUS
  <2> HIDE DEF e
  <2>3. w = e
    BY <1>4, <2>1, <2>2
  <2> QED BY <2>3 DEF e, Transforms, n, b
<1>6. Transforms(f, v, k)
  BY <1>5, Zenon
<1>7. Runs(f, t, n)
  <2> SUFFICES ASSUME NEW i \in 0 .. n PROVE f[i] = IF i = 0 THEN 0 ELSE f[i - 1] + t[i]
    BY DEF Runs
  <2>1. i # 0 => i \in 1 .. n
    BY <1>1
  <2>2. f[i] = IF i = 0 THEN 0 ELSE f[i - 1] + v[i] * Power(b, (k * (i - 1)) % n)
    BY <1>6 DEF Transforms, n, b
  <2> QED BY <1>2, <2>1, <2>2
<1>8. f[n] = SumTo(x, n) /\ f[n] \in Int
  BY <1>1, <1>3, <1>7, RunIsSum
<1> QED BY <1>8 DEF n, x

LEMMA FromValuesIs ==
    ASSUME DomainFits, NEW v, \A i \in 1 .. DomainSize : v[i] \in Int
    PROVE  /\ FromValues(v) \in Seq(Field) /\ Len(FromValues(v)) = DomainSize
           /\ FieldInverse(DomainSize) \in Field
           /\ Same(DomainSize * FieldInverse(DomainSize), 1)
           /\ \A k \in 1 .. DomainSize :
                /\ SumTo(TransformTerms(v, k - 1), DomainSize) \in Int
                /\ Same(FromValues(v)[k],
                        SumTo(TransformTerms(v, k - 1), DomainSize) * FieldInverse(DomainSize))
<1> DEFINE n == DomainSize
           i == FieldInverse(DomainSize)
           f(k) == CHOOSE u : Transforms(u, v, k)
           C(k) == (f(k)[n] * i) % Modulus
           y == [k \in 1 .. n |-> C(k - 1)]
           z == FromValues(v)
<1>1. n \in Field /\ n \in Nat /\ n # 0 /\ n % Modulus = n
  <2>1. n \in Field /\ n \in Nat /\ n # 0
    BY ModulusIs DEF DomainFits, Field
  <2> HIDE DEF n
  <2> QED BY <2>1, FieldIs
<1>2. i \in Field /\ i \in Int
  BY <1>1, FieldInverseIs, InField
<1>3. Same(n * i, 1)
  <2>1. (n * i) % Modulus = 1
    BY <1>1, FieldInverseIs
  <2> HIDE DEF n, i
  <2>2. n * i \in Int /\ 1 % Modulus = 1 /\ 1 \in Int
    BY <1>1, <1>2, ModulusIs, FieldIs
  <2> QED BY <2>1, <2>2, SameRemainder
<1>4. z = Resized(y, n)
  <2> DEFINE Y(m) == [k \in 1 .. n |-> (f(k - 1)[n] * FieldInverse(m)) % Modulus]
  <2>1. z = Resized(Y(DomainSize % Modulus), n)
    BY DEF FromValues, Transforms
  <2>2. y = Y(n)
    OBVIOUS
  <2>3. DomainSize % Modulus = n
    BY <1>1
  <2> HIDE DEF Y, y, n, z
  <2> QED BY <2>1, <2>2, <2>3
<1>5. ASSUME NEW k \in 1 .. n
      PROVE  /\ y[k] \in Field /\ SumTo(TransformTerms(v, k - 1), n) \in Int
             /\ Same(y[k], SumTo(TransformTerms(v, k - 1), n) * i)
  <2> DEFINE j == k - 1
             g == f(j)
             a == g[n]
  <2>1. j \in Nat
    BY <1>1
  <2>2. a = SumTo(TransformTerms(v, j), n) /\ a \in Int
    <3> HIDE DEF j, g
    <3>1. g = CHOOSE u : Transforms(u, v, j)
      BY DEF g
    <3> QED BY <2>1, <3>1, TransformIs
  <2>3. y[k] = (a * i) % Modulus
    OBVIOUS
  <2> HIDE DEF a, i, y
  <2>4. a * i \in Int
    BY <1>2, <2>2
  <2>5. y[k] \in Field /\ Same(y[k], a * i)
    BY <2>3, <2>4, Remainder
  <2> QED BY <2>2, <2>5
<1> HIDE DEF z, i
<1>6. y \in [1 .. n -> Field]
  <2> DEFINE m == n
  <2>1. y = [k \in 1 .. n |-> y[k]]
    OBVIOUS
  <2> HIDE DEF y
  <2> QED BY <1>5, <2>1
<1> HIDE DEF y, n
<1>7. z \in Seq(Field) /\ Len(z) = n /\ \A k \in 1 .. n : z[k] = y[k]
  BY <1>1, <1>4, <1>6, ResizedSame
<1>8. \A k \in 1 .. n : /\ SumTo(TransformTerms(v, k - 1), n) \in Int
                        /\ Same(z[k], SumTo(TransformTerms(v, k - 1), n) * i)
  BY <1>5, <1>7
<1> QED BY <1>2, <1>3, <1>7, <1>8 DEF n, i, z

-----------------------------------------------------------------------------
(* The Lagrange polynomial of the first row.                               *)

FirstRow == [i \in 1 .. DomainSize |-> IF i = 1 THEN 1 ELSE 0]

\* All its coefficients are the same.
LEMMA FirstRowPolynomial ==
    ASSUME DomainFits, NEW x \in Int
    PROVE  Same(PolyValue(FromValues(FirstRow), x),
                FieldInverse(DomainSize) * Evaluation(AllOnes, x, DomainSize))
<1> DEFINE n == DomainSize
           i == FieldInverse(DomainSize)
           v == FirstRow
           z == FromValues(FirstRow)
           c == Coefs(z)
<1>1. \A k \in 1 .. n : v[k] = (IF k = 1 THEN 1 ELSE 0) /\ v[k] \in Int
  BY DEF FirstRow
<1>2. n \in Nat \ {0}
  BY DEF DomainFits
<1>3. /\ z \in Seq(Field) /\ Len(z) = n /\ i \in Int
      /\ \A k \in 1 .. n : Same(z[k], SumTo(TransformTerms(v, k - 1), n) * i)
  BY <1>1, FromValuesIs, InField
<1>4. ASSUME NEW k \in Nat
      PROVE  SumTo(TransformTerms(v, k), n) = 1
  <2> DEFINE x1 == TransformTerms(v, k)
             P(j) == Power(FieldInverse(Generator), (k * (j - 1)) % n)
  <2>1. \A j \in 1 .. n : x1[j - 1] = v[j] * P(j)
    BY <1>1, TransformTermsAre
  <2>2. \A j \in 1 .. n : P(j) \in Int
    <3> SUFFICES ASSUME NEW j \in 1 .. n PROVE P(j) \in Int
      OBVIOUS
    <3> DEFINE e == (k * (j - 1)) % n
    <3>1. k * (j - 1) \in Nat
      BY <1>2
    <3>2. e \in Nat
      BY <1>2, <3>1
    <3>3. FieldInverse(Generator) \in Int
      BY FieldInverseIs, InField DEF DomainFits
    <3> HIDE DEF e
    <3>4. Power(FieldInverse(Generator), e) \in Int
      BY <3>2, <3>3, PowerIs
    <3> QED BY <3>4 DEF e
  <2>3. P(1) = 1
    <3>1. k * (1 - 1) = 0 /\ 0 % n = 0
      BY <1>2
    <3>2. P(1) = Power(FieldInverse(Generator), 0)
      BY <3>1
    <3>3. FieldInverse(Generator) \in Int
      BY FieldInverseIs, InField DEF DomainFits
    <3> DEFINE b == FieldInverse(Generator)
    <3> HIDE DEF b
    <3>4. Power(b, 0) \in Field /\ Same(Power(b, 0), PowerOf(b, 0))
      BY <3>3, 0 \in Nat, PowerIs DEF b
    <3>5. PowerOf(b, 0) = 1
      BY <3>3, 0 \in Nat, PowerStarts DEF b
    <3>6. Power(b, 0) = 1
      BY <3>4, <3>5, ModulusIs, SameIsEqual
    <3> QED BY <3>2, <3>6 DEF b
  <2> HIDE DEF P, x1, v, n
  <2>4. x1[0] = 1
    <3>1. 1 \in 1 .. n /\ 1 - 1 = 0
      BY <1>2
    <3>2. x1[0] = 1 * 1
      BY <1>1, <2>1, <2>3, <3>1
    <3> QED BY <3>2
  <2>5. \A j \in 1 .. n-1 : x1[j] = 0
    <3> SUFFICES ASSUME NEW j \in 1 .. n-1 PROVE x1[j] = 0
      OBVIOUS
    <3>1. j + 1 \in 1 .. n /\ (j + 1) - 1 = j /\ j + 1 # 1
      BY <1>2
    <3>2. x1[j] = 0 * P(j + 1) /\ P(j + 1) \in Int
      BY <1>1, <2>1, <2>2, <3>1
    <3> QED BY <3>2
  <2>6. SumTo(x1, n) = 1
    BY <1>2, <2>4, <2>5, 1 \in Int, SumOfFirst
  <2> QED BY <2>6 DEF x1
<1> HIDE DEF z, i, v, n, c
<1>5. c \in Coefficients /\ \A k \in Nat : c[k] = IF k < n THEN z[k + 1] ELSE 0
  BY <1>3, FieldsAreNumbers, CoefsAre DEF c
<1>6. AllOnes \in Coefficients /\ \A m \in Nat : AllOnes[m] = 1
  BY DEF AllOnes, Coefficients
<1>7. \A k \in 0 .. n-1 : Same(c[k], i * AllOnes[k] + 0 * AllOnes[k])
  <2> SUFFICES ASSUME NEW k \in 0 .. n-1 PROVE Same(c[k], i * AllOnes[k] + 0 * AllOnes[k])
    OBVIOUS
  <2>1. k \in Nat /\ k + 1 \in 1 .. n /\ (k + 1) - 1 = k /\ k < n
    BY <1>2
  <2>2. Same(c[k], 1 * i)
    BY <1>3, <1>4, <1>5, <2>1
  <2>3. i * 1 + 0 * 1 = 1 * i
    BY <1>3
  <2> QED BY <1>6, <2>1, <2>2, <2>3
<1> DEFINE e == Evaluation(AllOnes, x, n)
<1>8. Same(Evaluation(c, x, n), i * e + 0 * e)
  BY <1>2, <1>3, <1>5, <1>6, <1>7, 0 \in Int, EvaluationCombines
<1>9. e \in Int
  BY <1>2, <1>6, EvaluationSteps
<1> HIDE DEF e
<1>10. i * e + 0 * e = i * e
  BY <1>3, <1>9
<1> QED BY <1>3, <1>8, <1>10 DEF e, PolyValue, c, z, n, i

LEMMA FirstRowOpens ==
    ASSUME DomainFits, NEW x \in Field
    PROVE  /\ FirstRowAt(x) \in Field
           /\ Same(FirstRowAt(x), PolyValue(FromValues(FirstRow), x))
<1> DEFINE n == DomainSize
           i == FieldInverse(DomainSize)
           e == Evaluation(AllOnes, x, DomainSize)
           p == PowerOf(x, DomainSize)
           q == Power(x, DomainSize)
           V == PolyValue(FromValues(FirstRow), x)
<1>1. x \in Int /\ n \in Field /\ n \in Nat /\ n # 0
  BY ModulusIs, InField DEF DomainFits, Field
<1>2. \A k \in 1 .. n : FirstRow[k] \in Int
  BY DEF FirstRow
<1>3. i \in Int /\ Same(n * i, 1) /\ V \in Int
  BY <1>1, <1>2, FromValuesIs, InField, FieldsAreNumbers, PolyValueIsNumber
<1>4. Same(V, i * e) /\ e \in Int /\ (x - 1) * e = p - 1 /\ (x = 1 => e = n)
  BY <1>1, FirstRowPolynomial, GeometricSum
<1>5. p \in Int /\ q \in Int /\ Same(q, p)
  BY <1>1, PowerIs, PowerStarts
<1> DEFINE d == (n * (x - 1)) % Modulus
           j == FieldInverse((DomainSize * (x - 1)) % Modulus)
<1>6. FirstRowAt(x) = IF x = 1 THEN 1 ELSE ((q - 1) * j) % Modulus
  BY DEF FirstRowAt
<1>7. j = FieldInverse(d)
  OBVIOUS
<1> HIDE DEF n, i, e, p, q, V, j
<1>8. CASE x = 1
  <2>1. i * e = n * i /\ n * i \in Int
    BY <1>1, <1>3, <1>4, <1>8
  <2>2. Same(V, 1)
    BY <1>3, <1>4, <2>1, 1 \in Int, SameOn
  <2>3. Same(1, V)
    BY <1>3, <2>2, 1 \in Int, SameBack
  <2> QED BY <1>6, <1>8, <2>3, ModulusIs DEF V
<1>9. CASE x # 1
  <2>1. n * (x - 1) \in Int
    BY <1>1
  <2>2. d \in Field /\ Same(d, n * (x - 1)) /\ d \in Int
    <3> DEFINE a == n * (x - 1)
    <3>1. a \in Int
      BY <2>1
    <3> HIDE DEF a
    <3>2. a % Modulus \in Field /\ Same(a % Modulus, a)
      BY <3>1, Remainder
    <3> QED BY <3>2, InField DEF a
  <2>3. d # 0
    <3> SUFFICES ASSUME d = 0 PROVE FALSE
      OBVIOUS
    <3>1. Same(n * (x - 1), n * 0)
      <4>1. n * 0 = 0
        BY <1>1
      <4>2. Same(0, n * (x - 1))
        BY <2>2
      <4> QED BY <2>1, <4>1, <4>2, 0 \in Int, SameBack
    <3>2. Same(x - 1, 0)
      <4>1. x - 1 \in Int /\ 0 \in Int
        BY <1>1
      <4> QED BY <1>1, <3>1, <4>1, Cancel
    <3>3. Same((x - 1) + 1, 0 + 1)
      <4>1. x - 1 \in Int /\ 0 \in Int /\ 1 \in Int /\ Same(1, 1)
        BY <1>1, 1 \in Int, SameItself
      <4> QED BY <3>2, <4>1, SameSum
    <3>4. (x - 1) + 1 = x /\ 0 + 1 = 1
      BY <1>1
    <3>5. x = 1
      BY <3>3, <3>4, ModulusIs, SameIsEqual
    <3> QED BY <1>9, <3>5
  <2>4. j \in Int /\ Same(d * j, 1)
    <3>1. j \in Field /\ (d * j) % Modulus = 1
      BY <1>7, <2>2, <2>3, FieldInverseIs
    <3> HIDE DEF d
    <3>2. d * j \in Int /\ 1 % Modulus = 1 /\ 1 \in Int /\ j \in Int
      BY <2>2, <3>1, InField, ModulusIs, FieldIs
    <3> QED BY <3>1, <3>2, SameRemainder
  <2> HIDE DEF d
  <2> DEFINE W == (q - 1) * j
             w == W % Modulus
  <2>5. W \in Int
    BY <1>5, <2>4
  <2>6. w \in Field /\ Same(w, W) /\ w \in Int
    <3> HIDE DEF W
    <3> QED BY <2>5, Remainder, InField
  <2>7. Same(d * w, p - 1)
    <3>1. Same(d * w, d * W)
      BY <2>2, <2>5, <2>6, SameItself, SameProduct
    <3>2. d * W = (q - 1) * (d * j)
      BY <1>5, <2>2, <2>4
    <3>3. Same((q - 1) * (d * j), (p - 1) * 1)
      <4>1. Same(q - 1, p - 1)
        BY <1>5, 1 \in Int, SameItself, SameDifference
      <4>2. q - 1 \in Int /\ p - 1 \in Int /\ d * j \in Int
        BY <1>5, <2>2, <2>4
      <4> QED BY <2>4, <4>1, <4>2, 1 \in Int, SameProduct
    <3>4. (p - 1) * 1 = p - 1 /\ p - 1 \in Int /\ d * w \in Int /\ d * W \in Int
      BY <1>5, <2>2, <2>5, <2>6
    <3> HIDE DEF w, W
    <3> QED BY <3>1, <3>2, <3>3, <3>4, SameOn
  <2>8. Same(d * V, p - 1)
    <3> DEFINE a == n * (x - 1)
    <3>1. Same(d * V, a * (i * e))
      <4>1. i * e \in Int
        BY <1>3, <1>4
      <4> HIDE DEF a
      <4> QED BY <1>3, <1>4, <2>1, <2>2, <4>1, SameProduct DEF a
    <3>2. a * (i * e) = (n * i) * ((x - 1) * e)
      <4> DEFINE y == x - 1
      <4>1. y \in Int
        BY <1>1
      <4> HIDE DEF y
      <4>2. (n * y) * (i * e) = (n * i) * (y * e)
        BY <1>1, <1>3, <1>4, <4>1
      <4> QED BY <4>2 DEF y
    <3>3. Same((n * i) * (p - 1), 1 * (p - 1))
      <4>1. p - 1 \in Int /\ n * i \in Int
        BY <1>1, <1>3, <1>5
      <4> QED BY <1>3, <4>1, 1 \in Int, SameItself, SameProduct
    <3>4. 1 * (p - 1) = p - 1 /\ p - 1 \in Int /\ d * V \in Int /\ (n * i) * (p - 1) \in Int
      BY <1>1, <1>3, <1>5, <2>2
    <3>5. Same(d * V, (n * i) * (p - 1))
      BY <1>4, <3>1, <3>2
    <3> QED BY <3>3, <3>4, <3>5, SameOn
  <2>9. Same(d * w, d * V)
    <3>1. Same(p - 1, d * V)
      BY <1>3, <1>5, <2>2, <2>8, SameBack
    <3>2. d * w \in Int /\ d * V \in Int /\ p - 1 \in Int
      BY <1>3, <1>5, <2>2, <2>6
    <3> HIDE DEF w
    <3> QED BY <2>7, <3>1, <3>2, SameOn
  <2>10. Same(w, V)
    <3> HIDE DEF w
    <3> QED BY <1>3, <2>2, <2>3, <2>6, <2>9, Cancel
  <2> QED BY <1>6, <1>9, <2>6, <2>10 DEF V
<1> QED BY <1>8, <1>9

-----------------------------------------------------------------------------
(* Long division.                                                          *)

\* The vanishing polynomial of the domain.
LEMMA DomainVanishingIs ==
    ASSUME DomainFits, NEW x \in Int
    PROVE  /\ Divisor(DomainVanishing) /\ Len(DomainVanishing) = DomainSize + 1
           /\ Same(PolyValue(DomainVanishing, x), PowerOf(x, DomainSize) - 1)
<1> DEFINE n == DomainSize
           y == [i \in 1 .. n + 1 |-> IF i = 1 THEN Modulus - 1 ELSE IF i > n THEN 1 ELSE 0]
           z == DomainVanishing
           c == Coefs(z)
           E(k) == Evaluation(c, x, k)
           p == PowerOf(x, n)
<1>1. n \in Nat \ {0} /\ n + 1 \in Nat
  BY DEF DomainFits
<1>2. Modulus - 1 \in Field /\ 0 \in Field /\ 1 \in Field /\ Modulus \in Nat
  BY ModulusIs DEF Field
<1>3. y \in [1 .. n + 1 -> Field]
  BY <1>2
<1>4. z = Resized(y, n + 1)
  BY DEF DomainVanishing
<1>5. \A i \in 1 .. n + 1 : y[i] = IF i = 1 THEN Modulus - 1 ELSE IF i > n THEN 1 ELSE 0
  OBVIOUS
<1> HIDE DEF y, z, n
<1>6. z \in Seq(Field) /\ Len(z) = n + 1 /\ \A i \in 1 .. n + 1 : z[i] = y[i]
  BY <1>1, <1>3, <1>4, ResizedSame
<1>7. z[n + 1] = 1 /\ z[1] = Modulus - 1
  BY <1>1, <1>5, <1>6
<1>8. c \in Coefficients /\ \A i \in Nat : c[i] = IF i < n + 1 THEN z[i + 1] ELSE 0
  BY <1>6, FieldsAreNumbers, CoefsAre
<1> HIDE DEF c
<1>9. c[0] = Modulus - 1 /\ c[n] = 1 /\ \A i \in 1 .. n-1 : c[i] = 0
  <2>1. c[0] = Modulus - 1 /\ c[n] = 1
    BY <1>1, <1>7, <1>8
  <2>2. ASSUME NEW i \in 1 .. n-1
        PROVE  c[i] = 0
    <3>1. i \in Nat /\ i < n + 1 /\ i + 1 \in 1 .. n + 1 /\ i + 1 # 1 /\ ~ (i + 1 > n)
      BY <1>1
    <3> QED BY <1>5, <1>6, <1>8, <3>1
  <2> QED BY <2>1, <2>2
<1>10. E(0) = 0 /\ E(0 + 1) = E(0) + c[0] * PowerOf(x, 0) /\ PowerOf(x, 0) = 1
  <2>1. PowerOf(x, 0) = 1
    BY PowerStarts
  <2>2. 0 \in Nat
    OBVIOUS
  <2> QED BY <1>8, <2>1, <2>2, EvaluationSteps
<1>11. E(1) = Modulus - 1
  <2>1. 0 + 1 = 1 /\ 0 + (Modulus - 1) * 1 = Modulus - 1
    BY <1>2
  <2> QED BY <1>9, <1>10, <2>1
<1>12. E(n) = E(1)
  BY <1>1, <1>8, <1>9, EvaluationOfMore
<1>13. E(n + 1) = (Modulus - 1) + p /\ p \in Int
  <2>1. E(n + 1) = E(n) + c[n] * p /\ p \in Int
    BY <1>1, <1>8, EvaluationSteps, PowerStarts
  <2> HIDE DEF p
  <2>2. 1 * p = p
    BY <2>1
  <2> QED BY <1>9, <1>11, <1>12, <2>1, <2>2
<1> HIDE DEF p
<1>14. Same((Modulus - 1) + p, p - 1)
  <2>1. ((Modulus - 1) + p) - (p - 1) = Modulus * 1
    BY <1>2, <1>13
  <2> QED BY <2>1, 1 \in Int DEF Same
<1>15. Divisor(z)
  BY <1>1, <1>6, <1>7 DEF Divisor
<1>16. PolyValue(z, x) = E(n + 1)
  BY <1>6 DEF PolyValue, c
<1> QED BY <1>6, <1>13, <1>14, <1>15, <1>16 DEF z, p, n

-----------------------------------------------------------------------------
(* The constraints, as polynomials and as values.                          *)

LEMMA SumStands ==
    ASSUME NEW x \in Int, NEW k \in Nat, NEW p, NEW v, Stands(p, x, v, k),
           NEW q, NEW w, Stands(q, x, w, k)
    PROVE  Stands(Plus(p, q), x, v + w, k) /\ Stands(Less(p, q), x, v - w, k)
<1> DEFINE a == PolyValue(p, x)
           b == PolyValue(q, x)
           c == PolyValue(Plus(p, q), x)
           d == PolyValue(Less(p, q), x)
<1>1. /\ p \in Seq(Int) /\ Len(p) \in 1 .. k /\ v \in Int /\ Same(a, v)
      /\ q \in Seq(Int) /\ Len(q) \in 1 .. k /\ w \in Int /\ Same(b, w)
  BY FieldsAreNumbers DEF Stands
<1>2. /\ Plus(p, q) \in Seq(Field) /\ Len(Plus(p, q)) = Greater(Len(p), Len(q)) /\ Same(c, a + b)
      /\ Less(p, q) \in Seq(Field) /\ Len(Less(p, q)) = Greater(Len(p), Len(q)) /\ Same(d, a - b)
  BY <1>1, PlusValue, LessValue
<1>3. Len(Plus(p, q)) \in 1 .. k /\ Len(Less(p, q)) \in 1 .. k
  BY <1>1, <1>2 DEF Greater
<1>4. a \in Int /\ b \in Int /\ c \in Int /\ d \in Int
  BY <1>1, <1>2, FieldsAreNumbers, PolyValueIsNumber
<1> HIDE DEF a, b, c, d
<1>5. Same(a + b, v + w) /\ Same(a - b, v - w)
  BY <1>1, <1>4, SameSum, SameDifference
<1>6. a + b \in Int /\ a - b \in Int /\ v + w \in Int /\ v - w \in Int
  BY <1>1, <1>4
<1>7. Same(c, v + w) /\ Same(d, v - w)
  BY <1>2, <1>4, <1>5, <1>6, SameOn
<1> QED BY <1>2, <1>3, <1>6, <1>7 DEF Stands, c, d

\* What the prover divides and what the verifier computes are the same.
LEMMA ConstraintsAgree ==
    ASSUME DomainFits, NEW com, NEW o, NEW x \in Field, NEW beta \in Field, NEW gamma \in Field,
           Stands(com.a, x, o.a, DomainSize), Stands(com.s, x, o.s, DomainSize),
           Stands(com.aPrime, x, o.aPrime, DomainSize), Stands(com.sPrime, x, o.sPrime, DomainSize),
           Stands(com.z, x, o.z, DomainSize),
           Stands(Shifted(com.z, Generator), x, o.zNext, DomainSize),
           Stands(Shifted(com.aPrime, FieldInverse(Generator)), x, o.aPrimeBefore, DomainSize),
           Stands(FromValues(QLast), x, o.qLast, DomainSize),
           Stands(FromValues(QBlind), x, o.qBlind, DomainSize),
           Stands(FromValues(FirstRow), x, o.first, DomainSize)
    PROVE  /\ Stands(ConstraintPolynomial(com, beta, gamma), x, ConstraintValue(o, beta, gamma),
                     4 * DomainSize - 3)
           /\ ConstraintValue(o, beta, gamma) \in Field
<1> DEFINE n == DomainSize
           m == 4 * n - 3
<1>1. x \in Int /\ n \in Nat \ {0} /\ 1 \in Field /\ m \in Nat
  BY InField, ModulusIs DEF DomainFits
<1>2. \A k \in Nat \ {0} : Stands(<<1>>, x, 1, k) /\ Stands(<<beta>>, x, beta, k)
                           /\ Stands(<<gamma>>, x, gamma, k)
  BY <1>1, ConstantStands
<1> DEFINE selectorP == Less(<<1>>, Plus(FromValues(QLast), FromValues(QBlind)))
           selectorV == 1 - (o.qLast + o.qBlind)
<1>3. Stands(selectorP, x, selectorV, n)
  <2>1. Stands(Plus(FromValues(QLast), FromValues(QBlind)), x, o.qLast + o.qBlind, n)
    BY <1>1, SumStands
  <2> QED BY <1>1, <1>2, <2>1, SumStands
<1> DEFINE lhsP == PolyMul(PolyMul(Shifted(com.z, Generator), Plus(com.aPrime, <<beta>>)),
                           Plus(com.sPrime, <<gamma>>))
           lhsV == ((o.zNext * (o.aPrime + beta)) % Modulus) * (o.sPrime + gamma)
           rhsP == PolyMul(PolyMul(com.z, Plus(com.a, <<beta>>)), Plus(com.s, <<gamma>>))
           rhsV == ((o.z * (o.a + beta)) % Modulus) * (o.s + gamma)
           k == n + n - 1
           l == k + n - 1
<1>4. k \in Nat /\ l \in Nat
  BY <1>1
<1>5. Stands(lhsP, x, lhsV, l)
  <2>1. Stands(Plus(com.aPrime, <<beta>>), x, o.aPrime + beta, n)
    BY <1>1, <1>2, SumStands
  <2>2. Stands(Plus(com.sPrime, <<gamma>>), x, o.sPrime + gamma, n)
    BY <1>1, <1>2, SumStands
  <2> DEFINE p == PolyMul(Shifted(com.z, Generator), Plus(com.aPrime, <<beta>>))
             v == o.zNext * (o.aPrime + beta)
  <2>3. Stands(p, x, v, k)
    BY <1>1, <2>1, ProductStands
  <2>4. Stands(p, x, v % Modulus, k)
    <3> HIDE DEF p, v, k
    <3> QED BY <1>1, <1>4, <2>3, ReducedStands
  <2> HIDE DEF k
  <2> QED BY <1>1, <1>4, <2>2, <2>4, ProductStands
<1>6. Stands(rhsP, x, rhsV, l)
  <2>1. Stands(Plus(com.a, <<beta>>), x, o.a + beta, n)
    BY <1>1, <1>2, SumStands
  <2>2. Stands(Plus(com.s, <<gamma>>), x, o.s + gamma, n)
    BY <1>1, <1>2, SumStands
  <2> DEFINE p == PolyMul(com.z, Plus(com.a, <<beta>>))
             v == o.z * (o.a + beta)
  <2>3. Stands(p, x, v, k)
    BY <1>1, <2>1, ProductStands
  <2>4. Stands(p, x, v % Modulus, k)
    <3> HIDE DEF p, v, k
    <3> QED BY <1>1, <1>4, <2>3, ReducedStands
  <2> HIDE DEF k
  <2> QED BY <1>1, <1>4, <2>2, <2>4, ProductStands
<1> DEFINE differsP == Less(com.aPrime, com.sPrime)
           differsV == o.aPrime - o.sPrime
           changesP == Less(com.aPrime, Shifted(com.aPrime, FieldInverse(Generator)))
           changesV == o.aPrime - o.aPrimeBefore
           first    == FromValues(FirstRow)
<1>7. Stands(differsP, x, differsV, n) /\ Stands(changesP, x, changesV, n)
  BY <1>1, SumStands
<1> DEFINE permutationP == PolyMul(selectorP, Less(lhsP, rhsP))
           permutationV == selectorV * ((lhsV - rhsV) % Modulus)
           subsetP      == PolyMul(selectorP, PolyMul(differsP, changesP))
           subsetV      == selectorV * ((differsV * changesV) % Modulus)
           initialAP    == PolyMul(first, differsP)
           initialAV    == o.first * differsV
           initialZP    == PolyMul(first, Less(<<1>>, com.z))
           initialZV    == o.first * (1 - o.z)
           idempotenceP == PolyMul(FromValues(QLast), Less(PolyMul(com.z, com.z), com.z))
           idempotenceV == o.qLast * ((o.z * o.z - o.z) % Modulus)
<1>8. Stands(permutationP, x, permutationV, m)
  <2> DEFINE p == Less(lhsP, rhsP)
             v == lhsV - rhsV
  <2> HIDE DEF l, lhsP, rhsP, lhsV, rhsV, selectorP, selectorV
  <2>1. Stands(p, x, v, l)
    BY <1>1, <1>4, <1>5, <1>6, SumStands
  <2>2. Stands(p, x, v % Modulus, l)
    <3> HIDE DEF p, v
    <3> QED BY <1>1, <1>4, <2>1, ReducedStands
  <2>3. Stands(permutationP, x, permutationV, n + l - 1)
    BY <1>1, <1>3, <1>4, <2>2, ProductStands
  <2>4. n + l - 1 = m
    BY <1>1 DEF l
  <2> QED BY <2>3, <2>4
<1>9. Stands(subsetP, x, subsetV, m)
  <2> DEFINE p == PolyMul(differsP, changesP)
             v == differsV * changesV
  <2> HIDE DEF differsP, changesP, differsV, changesV, selectorP, selectorV
  <2>1. Stands(p, x, v, k)
    BY <1>1, <1>7, ProductStands
  <2>2. Stands(p, x, v % Modulus, k)
    <3> HIDE DEF p, v, k
    <3> QED BY <1>1, <1>4, <2>1, ReducedStands
  <2>3. Stands(subsetP, x, subsetV, n + k - 1)
    <3> HIDE DEF k
    <3> QED BY <1>1, <1>3, <1>4, <2>2, ProductStands
  <2>4. n + k - 1 \in Nat /\ n + k - 1 <= m
    BY <1>1
  <2> HIDE DEF subsetP, subsetV, m, k
  <2> QED BY <1>1, <2>3, <2>4, LongerStands
<1>10. Stands(initialAP, x, initialAV, m)
  <2> HIDE DEF differsP, differsV
  <2>1. Stands(initialAP, x, initialAV, n + n - 1)
    BY <1>1, <1>7, ProductStands
  <2>2. n + n - 1 \in Nat /\ n + n - 1 <= m
    BY <1>1
  <2> HIDE DEF initialAP, initialAV, m
  <2> QED BY <1>1, <2>1, <2>2, LongerStands
<1>11. Stands(initialZP, x, initialZV, m)
  <2>1. Stands(Less(<<1>>, com.z), x, 1 - o.z, n)
    BY <1>1, <1>2, SumStands
  <2>2. Stands(initialZP, x, initialZV, n + n - 1)
    BY <1>1, <2>1, ProductStands
  <2>3. n + n - 1 \in Nat /\ n + n - 1 <= m
    BY <1>1
  <2> HIDE DEF initialZP, initialZV, m
  <2> QED BY <1>1, <2>2, <2>3, LongerStands
<1>12. Stands(idempotenceP, x, idempotenceV, m)
  <2> DEFINE p == Less(PolyMul(com.z, com.z), com.z)
             v == o.z * o.z - o.z
  <2>1. Stands(PolyMul(com.z, com.z), x, o.z * o.z, k)
    BY <1>1, ProductStands
  <2>2. Stands(com.z, x, o.z, k)
    <3>1. n <= k
      BY <1>1
    <3> HIDE DEF k
    <3> QED BY <1>1, <1>4, <3>1, LongerStands
  <2> HIDE DEF k
  <2>3. Stands(p, x, v, k)
    BY <1>1, <1>4, <2>1, <2>2, SumStands
  <2>4. Stands(p, x, v % Modulus, k)
    <3> HIDE DEF p, v
    <3> QED BY <1>1, <1>4, <2>3, ReducedStands
  <2>5. Stands(idempotenceP, x, idempotenceV, n + k - 1)
    <3> HIDE DEF p
    <3>1. Stands(PolyMul(FromValues(QLast), p), x, o.qLast * (v % Modulus), n + k - 1)
      BY <1>1, <1>4, <2>4, ProductStands
    <3> QED BY <3>1 DEF p
  <2>6. n + k - 1 \in Nat /\ n + k - 1 <= m
    BY <1>1 DEF k
  <2> HIDE DEF idempotenceP, idempotenceV, m
  <2> QED BY <1>1, <2>5, <2>6, LongerStands
<1>13. ConstraintPolynomial(com, beta, gamma)
       = Plus(Plus(Plus(Plus(permutationP, subsetP), initialAP), initialZP), idempotenceP)
  BY Zenon DEF ConstraintPolynomial, FirstRow
<1>14. ConstraintValue(o, beta, gamma)
       = (permutationV + subsetV + initialAV + initialZV + idempotenceV) % Modulus
  BY Zenon DEF ConstraintValue
<1> HIDE DEF permutationP, permutationV, subsetP, subsetV, initialAP, initialAV, initialZP,
             initialZV, idempotenceP, idempotenceV, m
<1> DEFINE p1 == Plus(permutationP, subsetP)
           v1 == permutationV + subsetV
           p2 == Plus(p1, initialAP)
           v2 == v1 + initialAV
           p3 == Plus(p2, initialZP)
           v3 == v2 + initialZV
           p4 == Plus(p3, idempotenceP)
           v4 == v3 + idempotenceV
<1>15. Stands(p1, x, v1, m)
  BY <1>1, <1>8, <1>9, SumStands
<1>16. Stands(p2, x, v2, m)
  <2> HIDE DEF p1, v1
  <2> QED BY <1>1, <1>10, <1>15, SumStands
<1>17. Stands(p3, x, v3, m)
  <2> HIDE DEF p2, v2
  <2> QED BY <1>1, <1>11, <1>16, SumStands
<1>18. Stands(p4, x, v4, m)
  <2> HIDE DEF p3, v3
  <2> QED BY <1>1, <1>12, <1>17, SumStands
<1>19. Stands(p4, x, v4 % Modulus, m)
  <2> HIDE DEF p4, v4
  <2> QED BY <1>1, <1>18, ReducedStands
<1>20. v4 % Modulus \in Field
  <2>1. v4 \in Int
    BY <1>18 DEF Stands
  <2> HIDE DEF v4
  <2> QED BY <2>1, Remainder
<1> HIDE DEF v4, p4
<1>21. ConstraintPolynomial(com, beta, gamma) = p4 /\ ConstraintValue(o, beta, gamma) = v4 % Modulus
  BY <1>13, <1>14 DEF v4, p4
<1> QED BY <1>19, <1>20, <1>21 DEF m

-----------------------------------------------------------------------------
(* The verifier's check.                                                   *)

\* The polynomial of a column.
IsColumn(p) == p \in Seq(Field) /\ Len(p) = DomainSize

LEMMA ColumnStands ==
    ASSUME DomainFits, NEW p, IsColumn(p), NEW x \in Int
    PROVE  Stands(p, x, ValueAt(p, x), DomainSize)
<1> DEFINE v == ValueAt(p, x)
           w == PolyValue(p, x)
<1>1. v \in Field /\ Same(v, w) /\ w \in Int
  BY FieldsAreNumbers, ValueIs, PolyValueIsNumber DEF IsColumn
<1>2. Len(p) \in 1 .. DomainSize
  BY DEF IsColumn, DomainFits
<1>3. Same(w, v) /\ v \in Int
  <2> HIDE DEF v, w
  <2>1. v \in Int
    BY <1>1, InField
  <2> QED BY <1>1, <2>1, SameBack
<1> QED BY <1>2, <1>3 DEF Stands, IsColumn

LEMMA ShiftedStands ==
    ASSUME DomainFits, NEW p, IsColumn(p), NEW a \in Int, NEW x \in Int
    PROVE  Stands(Shifted(p, a), x, ValueAt(p, (a * x) % Modulus), DomainSize)
<1> DEFINE y == (a * x) % Modulus
           q == Shifted(p, a)
           v == ValueAt(p, y)
           u == PolyValue(q, x)
           w == PolyValue(p, a * x)
           t == PolyValue(p, y)
<1>1. p \in Seq(Int) /\ a * x \in Int
  BY FieldsAreNumbers DEF IsColumn
<1>2. y \in Int /\ Same(y, a * x)
  <2> DEFINE b == a * x
  <2>1. b \in Int
    OBVIOUS
  <2> HIDE DEF b
  <2>2. b % Modulus \in Field /\ Same(b % Modulus, b)
    BY <2>1, Remainder
  <2> QED BY <2>2, InField DEF b
<1> HIDE DEF y
<1>3. q \in Seq(Field) /\ Len(q) = Len(p) /\ Same(u, w)
  BY <1>1, ShiftedValue
<1>4. v \in Field /\ Same(v, t)
  BY <1>1, <1>2, ValueIs
<1>5. Same(t, w)
  BY <1>1, <1>2, ValuesAgree
<1>6. u \in Int /\ w \in Int /\ t \in Int /\ v \in Int
  BY <1>1, <1>2, <1>3, <1>4, InField, FieldsAreNumbers, PolyValueIsNumber
<1>7. Len(q) \in 1 .. DomainSize
  BY <1>3 DEF IsColumn, DomainFits
<1> HIDE DEF q, u, v, w, t
<1>8. Same(v, w)
  BY <1>4, <1>5, <1>6, SameOn
<1>9. Same(w, v)
  BY <1>6, <1>8, SameBack
<1>10. Same(u, v)
  BY <1>3, <1>6, <1>9, SameOn
<1> QED BY <1>3, <1>6, <1>7, <1>10 DEF Stands, q, u, v, y

LEMMA SelectorsAre ==
    ASSUME DomainFits
    PROVE  IsColumn(FromValues(QLast)) /\ IsColumn(FromValues(QBlind)) /\ IsColumn(FromValues(FirstRow))
<1>1. \A i \in 1 .. DomainSize : QLast[i] \in Int
  BY DEF QLast
<1>2. \A i \in 1 .. DomainSize : QBlind[i] \in Int
  BY DEF QBlind
<1>3. \A i \in 1 .. DomainSize : FirstRow[i] \in Int
  BY DEF FirstRow
<1>4. \A v : (\A i \in 1 .. DomainSize : v[i] \in Int) => IsColumn(FromValues(v))
  BY FromValuesIs DEF IsColumn
<1> QED BY <1>1, <1>2, <1>3, <1>4

LEMMA FirstStands ==
    ASSUME DomainFits, NEW x \in Field
    PROVE  Stands(FromValues(FirstRow), x, FirstRowAt(x), DomainSize)
<1> DEFINE p == FromValues(FirstRow)
           v == FirstRowAt(x)
           w == PolyValue(p, x)
<1>1. IsColumn(p)
  BY SelectorsAre
<1>2. p \in Seq(Field) /\ Len(p) \in 1 .. DomainSize
  BY <1>1 DEF IsColumn, DomainFits
<1>3. v \in Field /\ Same(v, w)
  BY FirstRowOpens
<1>4. v \in Int /\ w \in Int
  BY <1>2, <1>3, InField, FieldsAreNumbers, PolyValueIsNumber
<1>5. Same(w, v)
  <2> HIDE DEF v, w
  <2> QED BY <1>3, <1>4, SameBack
<1> QED BY <1>2, <1>4, <1>5 DEF Stands

\* What compute_evaluations opens.
OpenedAt(com, zeta) ==
    [a      |-> ValueAt(com.a, zeta),      s      |-> ValueAt(com.s, zeta),
     aPrime |-> ValueAt(com.aPrime, zeta), sPrime |-> ValueAt(com.sPrime, zeta),
     z      |-> ValueAt(com.z, zeta),      q      |-> ValueAt(com.q, zeta),
     zNext        |-> ValueAt(com.z, (Generator * zeta) % Modulus),
     aPrimeBefore |-> ValueAt(com.aPrime, (FieldInverse(Generator) * zeta) % Modulus),
     qBlind |-> ValueAt(FromValues(QBlind), zeta),
     qLast  |-> ValueAt(FromValues(QLast), zeta),
     first  |-> FirstRowAt(zeta)]

Committed(com) == IsColumn(com.a) /\ IsColumn(com.s) /\ IsColumn(com.aPrime) /\ IsColumn(com.sPrime)

LEMMA GeneratorIs ==
    ASSUME DomainFits
    PROVE  Generator \in Int /\ FieldInverse(Generator) \in Int
BY FieldInverseIs, InField DEF DomainFits

LEMMA ConstraintIs ==
    ASSUME DomainFits, NEW com, Committed(com), IsColumn(com.z), NEW zeta \in Field,
           NEW beta \in Field, NEW gamma \in Field
    PROVE  /\ Stands(ConstraintPolynomial(com, beta, gamma), zeta,
                     ConstraintValue(OpenedAt(com, zeta), beta, gamma), 4 * DomainSize - 3)
           /\ ConstraintValue(OpenedAt(com, zeta), beta, gamma) \in Field
<1> DEFINE o == OpenedAt(com, zeta)
           n == DomainSize
<1>1. zeta \in Int
  BY InField
<1>2. /\ o.a = ValueAt(com.a, zeta) /\ o.s = ValueAt(com.s, zeta)
      /\ o.aPrime = ValueAt(com.aPrime, zeta) /\ o.sPrime = ValueAt(com.sPrime, zeta)
      /\ o.z = ValueAt(com.z, zeta)
      /\ o.zNext = ValueAt(com.z, (Generator * zeta) % Modulus)
      /\ o.aPrimeBefore = ValueAt(com.aPrime, (FieldInverse(Generator) * zeta) % Modulus)
      /\ o.qLast = ValueAt(FromValues(QLast), zeta) /\ o.qBlind = ValueAt(FromValues(QBlind), zeta)
      /\ o.first = FirstRowAt(zeta)
  BY DEF OpenedAt
<1> HIDE DEF o
<1>3. /\ Stands(com.a, zeta, o.a, n) /\ Stands(com.s, zeta, o.s, n)
      /\ Stands(com.aPrime, zeta, o.aPrime, n) /\ Stands(com.sPrime, zeta, o.sPrime, n)
      /\ Stands(com.z, zeta, o.z, n)
  BY <1>1, <1>2, ColumnStands DEF Committed
<1>4. /\ Stands(Shifted(com.z, Generator), zeta, o.zNext, n)
      /\ Stands(Shifted(com.aPrime, FieldInverse(Generator)), zeta, o.aPrimeBefore, n)
  BY <1>1, <1>2, GeneratorIs, ShiftedStands DEF Committed
<1>5. Stands(FromValues(QLast), zeta, o.qLast, n) /\ Stands(FromValues(QBlind), zeta, o.qBlind, n)
  BY <1>1, <1>2, SelectorsAre, ColumnStands
<1>6. Stands(FromValues(FirstRow), zeta, o.first, n)
  BY <1>2, FirstStands
<1>7. /\ Stands(ConstraintPolynomial(com, beta, gamma), zeta, ConstraintValue(o, beta, gamma), 4 * n - 3)
      /\ ConstraintValue(o, beta, gamma) \in Field
  BY <1>3, <1>4, <1>5, <1>6, ConstraintsAgree
<1> QED BY <1>7 DEF o

LEMMA QuotientIs ==
    ASSUME DomainFits, NEW com, Committed(com), IsColumn(com.z), NEW beta \in Field,
           NEW gamma \in Field
    PROVE  LET c == ConstraintPolynomial(com, beta, gamma)
               q == DivideWithQAndR(c, DomainVanishing)[1]
           IN  c \in Seq(Field) /\ q \in Seq(Field) /\ Len(q) <= 3 * DomainSize + 1
<1> DEFINE c == ConstraintPolynomial(com, beta, gamma)
           q == DivideWithQAndR(c, DomainVanishing)[1]
           n == DomainSize
<1>1. c \in Seq(Field) /\ Len(c) \in 1 .. 4 * n - 3
  BY ModulusIs, ConstraintIs DEF Stands
<1>2. Divisor(DomainVanishing) /\ Len(DomainVanishing) = n + 1 /\ n \in Nat
  BY 0 \in Int, DomainVanishingIs DEF DomainFits
<1> HIDE DEF c
<1>3. q \in Seq(Field) /\ (Len(q) = 0 \/ Len(q) + (n + 1) <= Len(c) + 1)
  BY <1>1, <1>2, 0 \in Int, DivisionHolds
<1> HIDE DEF q
<1>4. Len(q) \in Nat
  BY <1>3
<1>5. Len(q) <= 3 * n + 1
  BY <1>1, <1>2, <1>3, <1>4
<1> QED BY <1>1, <1>3, <1>5 DEF c, q

\* The opened values of a quotient without a remainder pass.
LEMMA OpenedHolds ==
    ASSUME DomainFits, NEW com, Committed(com), IsColumn(com.z), NEW zeta \in Field,
           NEW beta \in Field, NEW gamma \in Field,
           DivideWithQAndR(ConstraintPolynomial(com, beta, gamma), DomainVanishing)[1] = com.q,
           DivideWithQAndR(ConstraintPolynomial(com, beta, gamma), DomainVanishing)[2] = <<>>
    PROVE  /\ QuotientHolds(OpenedAt(com, zeta), beta, gamma, zeta)
           /\ OpeningsHold(com, OpenedAt(com, zeta), zeta)
<1> DEFINE o == OpenedAt(com, zeta)
           n == DomainSize
           c == ConstraintPolynomial(com, beta, gamma)
           cv == ConstraintValue(o, beta, gamma)
           w == PolyValue(c, zeta)
           van == DomainVanishing
           u == PolyValue(van, zeta)
           q == com.q
           y == PolyValue(q, zeta)
           p == Power(zeta, n)
           oq == ValueAt(q, zeta)
<1>1. zeta \in Int /\ n \in Nat
  BY InField DEF DomainFits
<1>2. c \in Seq(Field) /\ cv \in Int /\ Same(w, cv)
  BY ConstraintIs DEF Stands
<1>3. Divisor(van) /\ Same(u, PowerOf(zeta, n) - 1) /\ u \in Int
  BY <1>1, DomainVanishingIs, FieldsAreNumbers, PolyValueIsNumber DEF Divisor
<1>4. q \in Seq(Field)
  <2>1. DivideWithQAndR(c, van)[1] = q
    OBVIOUS
  <2> HIDE DEF c, van, q
  <2> QED BY <2>1, QuotientIs DEF c, van
<1>5. Same(w, y * u)
  <2>1. DivideWithQAndR(c, van)[1] = q /\ DivideWithQAndR(c, van)[2] = <<>>
    OBVIOUS
  <2> HIDE DEF c, van, q
  <2> QED BY <1>1, <1>2, <1>3, <2>1, DividedExactly
<1>6. y \in Int /\ w \in Int /\ oq \in Field /\ oq \in Int /\ Same(oq, y)
  BY <1>1, <1>2, <1>4, InField, FieldsAreNumbers, PolyValueIsNumber, ValueIs
<1>7. p \in Int /\ PowerOf(zeta, n) \in Int /\ Same(p, PowerOf(zeta, n))
  BY <1>1, PowerIs, PowerStarts
<1>8. o.q = oq
  BY DEF OpenedAt
<1>9. cv = cv % Modulus
  <2>1. cv \in Field
    BY ConstraintIs
  <2> HIDE DEF cv
  <2> QED BY <2>1, FieldIs
<1>10. OpeningsHold(com, o, zeta)
  <2>1. zeta * FieldInverse(Generator) = FieldInverse(Generator) * zeta
    BY <1>1, GeneratorIs
  <2>2. /\ o.a = ValueAt(com.a, zeta) /\ o.s = ValueAt(com.s, zeta)
        /\ o.aPrime = ValueAt(com.aPrime, zeta) /\ o.sPrime = ValueAt(com.sPrime, zeta)
        /\ o.z = ValueAt(com.z, zeta) /\ o.q = ValueAt(com.q, zeta)
        /\ o.zNext = ValueAt(com.z, (Generator * zeta) % Modulus)
        /\ o.aPrimeBefore = ValueAt(com.aPrime, (FieldInverse(Generator) * zeta) % Modulus)
    BY DEF OpenedAt
  <2> HIDE DEF o
  <2> QED BY <2>1, <2>2 DEF OpeningsHold, BatchOpens
<1> HIDE DEF o, c, cv, w, van, u, q, y, p, oq
<1> DEFINE b == PowerOf(zeta, n) - 1
           d == p - 1
<1>11. b \in Int /\ d \in Int /\ Same(d, b)
  <2> DEFINE a == PowerOf(zeta, n)
  <2>1. 1 \in Int /\ Same(1, 1)
    BY SameItself, 1 \in Int
  <2>2. a \in Int /\ Same(p, a)
    BY <1>7
  <2> HIDE DEF a
  <2>3. Same(p - 1, a - 1)
    BY <1>7, <2>1, <2>2, SameDifference
  <2>4. p - 1 \in Int /\ a - 1 \in Int
    BY <1>7, <2>2
  <2> QED BY <2>3, <2>4 DEF a
<1>12. Same(u, b)
  BY <1>3
<1> HIDE DEF b, d
<1>13. Same(b, d) /\ Same(y, oq)
  BY <1>6, <1>11, SameBack
<1>14. Same(u, d)
  BY <1>3, <1>11, <1>12, <1>13, SameOn
<1>15. Same(y * u, oq * d)
  BY <1>3, <1>6, <1>11, <1>13, <1>14, SameProduct
<1>16. y * u \in Int /\ oq * d \in Int
  BY <1>3, <1>6, <1>11
<1>17. Same(w, oq * d)
  BY <1>5, <1>6, <1>15, <1>16, SameOn
<1>18. Same(cv, oq * d)
  <2>1. Same(cv, w)
    BY <1>2, <1>6, SameBack
  <2> QED BY <1>2, <1>6, <1>16, <1>17, <2>1, SameOn
<1>19. cv % Modulus = (oq * d) % Modulus
  BY <1>2, <1>16, <1>18, SameRemainder
<1>20. QuotientHolds(o, beta, gamma, zeta)
  BY <1>8, <1>9, <1>19 DEF QuotientHolds, cv, d, p, n
<1> QED BY <1>10, <1>20 DEF o

-----------------------------------------------------------------------------
(* The prover and the verifier, step by step.                              *)

LEMMA SameConfig ==
    ASSUME config' = config
    PROVE  /\ DomainSize' = DomainSize /\ Generator' = Generator /\ Usable' = Usable
           /\ QLast' = QLast /\ QBlind' = QBlind /\ DomainVanishing' = DomainVanishing
BY DEF DomainSize, Generator, Usable, QLast, QBlind, DomainVanishing

LEMMA SameSelectors ==
    ASSUME config' = config
    PROVE  /\ FromValues(QLast)' = FromValues(QLast) /\ FromValues(QBlind)' = FromValues(QBlind)
           /\ FromValues([i \in 1 .. DomainSize |-> IF i = 1 THEN 1 ELSE 0])'
              = FromValues([i \in 1 .. DomainSize |-> IF i = 1 THEN 1 ELSE 0])
BY DEF FromValues, DomainSize, Generator, Usable, QLast, QBlind

LEMMA SameConstraints ==
    ASSUME config' = config, NEW com, NEW beta, NEW gamma
    PROVE  ConstraintPolynomial(com, beta, gamma)' = ConstraintPolynomial(com, beta, gamma)
BY SameSelectors, SameConfig DEF ConstraintPolynomial

LEMMA SameOpened ==
    ASSUME config' = config, NEW com, NEW zeta
    PROVE  OpenedAt(com, zeta)' = OpenedAt(com, zeta)
<1>1. FirstRowAt(zeta)' = FirstRowAt(zeta)
  BY DEF FirstRowAt, DomainSize
<1> QED BY <1>1, SameSelectors, SameConfig DEF OpenedAt

\* The size of the domain is a power of two, so its generator is not zero.
LEMMA DomainFitsFor ==
    ASSUME columns \in Columns, config = ConfigFor(columns)
    PROVE  DomainFits
<1> DEFINE size == DomainSizeFor(columns)
           k == Greater(Len(columns.s), Len(columns.a)) + columns.blinding + 1
           half == size \div 2
<1>1. /\ columns.a \in Seq(Field) /\ columns.s \in Seq(Field)
      /\ Len(columns.s) = Len(columns.a) /\ Len(columns.a) > 0 /\ columns.blinding \in Nat
      /\ size < Modulus /\ \E w \in Field : Power(w, half) = Modulus - 1
  BY ColumnsAssumption
<1>2. k \in Nat /\ k >= 2
  <2> DEFINE n == Len(columns.a)
             b == columns.blinding
             g == Greater(Len(columns.s), Len(columns.a))
  <2>1. n \in Nat /\ n > 0 /\ b \in Nat
    BY <1>1
  <2>2. g = n
    BY <1>1 DEF Greater
  <2> HIDE DEF n, b, g
  <2>3. g + b + 1 \in Nat /\ g + b + 1 >= 2
    BY <2>1, <2>2
  <2> QED BY <2>3 DEF g, b
<1>3. PICK d \in Nat : size = 2 ^ d /\ 2 ^ d \in Nat /\ k <= 2 ^ d
  <2> HIDE DEF k
  <2>1. \E d \in Nat : NextPowerOfTwo(k) = 2 ^ d /\ 2 ^ d \in Nat /\ k <= 2 ^ d
    BY <1>2, NextPowerOfTwoIs
  <2>2. size = NextPowerOfTwo(k)
    BY DEF DomainSizeFor, k
  <2> HIDE DEF size
  <2> QED BY <2>1, <2>2
<1>4. config.size = size /\ config.omega = CHOOSE w \in Field : Power(w, half) = Modulus - 1
  BY Zenon DEF ConfigFor
<1> HIDE DEF k, size
<1>5. size \in Nat /\ size >= 2
  BY <1>2, <1>3
<1>6. half \in Nat \ {0}
  BY <1>5
<1>7. config.omega \in Field /\ Power(config.omega, half) = Modulus - 1
  BY <1>1, <1>4
<1>8. Power(0, half) = 0
  <2> DEFINE j == half - 1
             b == PowerOf(0, j)
             p == Power(0, half)
  <2>1. j \in Nat /\ j + 1 = half
    BY <1>6
  <2> HIDE DEF j, half
  <2>2. b \in Int /\ PowerOf(0, j + 1) = b * 0
    BY <2>1, 0 \in Int, PowerStarts
  <2>3. b * 0 = 0
    BY <2>2
  <2>4. p \in Field /\ Same(p, 0)
    BY <1>6, <2>1, <2>2, <2>3, 0 \in Int, PowerIs
  <2> HIDE DEF p
  <2> QED BY <2>4, ModulusIs, SameIsEqual DEF p
<1>9. Modulus - 1 # 0
  BY ModulusIs
<1> HIDE DEF half
<1>10. config.omega # 0
  BY <1>7, <1>8, <1>9
<1> QED BY <1>1, <1>4, <1>5, <1>7, <1>10 DEF DomainFits, DomainSize, Generator

LEMMA RowIs ==
    ASSUME columns \in Columns, NEW name \in {"a", "s", "aPrime", "sPrime"}, NEW i \in Nat
    PROVE  Row(name, i) \in Field
<1>1. columns[name] \in Seq(Field)
  BY ColumnsAssumption
<1> QED BY <1>1, ModulusIs DEF Row, At

ColumnNames == {"a", "s", "aPrime", "sPrime"}

\* What the verifier absorbs in all.
Absorbed(com) == Opening(com) \o Closing(com)

LEMMA OpeningKept ==
    ASSUME NEW com, ColumnNames \subseteq DOMAIN com, NEW name, name \notin ColumnNames, NEW v
    PROVE  Opening(With(com, name, v)) = Opening(com)
           /\ \A x \in ColumnNames : With(com, name, v)[x] = com[x]
<1>1. \A x \in ColumnNames : With(com, name, v)[x] = com[x]
  <2> TAKE x \in ColumnNames
  <2>1. x \in DOMAIN com /\ x # name
    OBVIOUS
  <2> QED BY <2>1 DEF With
<1> QED BY <1>1 DEF Opening, ColumnNames

LEMMA FourFirst ==
    ASSUME NEW a, NEW b, NEW c, NEW d, NEW e, NEW f
    PROVE  /\ <<>> \o <<a, b, c, d>> = <<a, b, c, d>>
           /\ SubSeq(<<a, b, c, d>>, 1, 4) = <<a, b, c, d>>
           /\ SubSeq(Append(<<a, b, c, d>>, e), 1, 4) = <<a, b, c, d>>
           /\ Append(Append(<<a, b, c, d>>, e), f) = <<a, b, c, d>> \o <<e, f>>
<1> DEFINE S == {a, b, c, d, e, f}
           p == <<a, b, c, d>>
           q == Append(p, e)
           r == Append(q, f)
           t == p \o <<e, f>>
<1>1. p \in Seq(S) /\ Len(p) = 4
  OBVIOUS
<1>2. q \in Seq(S) /\ Len(q) = 5 /\ \A i \in 1 .. 4 : q[i] = p[i]
  BY <1>1
<1>3. r \in Seq(S) /\ Len(r) = 6 /\ r[6] = f /\ r[5] = e /\ \A i \in 1 .. 4 : r[i] = p[i]
  BY <1>1, <1>2
<1>4. t \in Seq(S) /\ Len(t) = 6 /\ t[6] = f /\ t[5] = e /\ \A i \in 1 .. 4 : t[i] = p[i]
  BY <1>1
<1>5. SubSeq(p, 1, 4) = p
  <2> HIDE DEF p
  <2>1. SubSeq(p, 1, 4) \in Seq(S) /\ Len(SubSeq(p, 1, 4)) = 4
        /\ \A i \in 1 .. 4 : SubSeq(p, 1, 4)[i] = p[i]
    <3> HIDE DEF S
    <3>1. 4 \in Nat /\ 4 <= Len(p)
      BY <1>1
    <3> QED BY <1>1, <3>1, FirstOf
  <2> QED BY <1>1, <2>1
<1>6. SubSeq(q, 1, 4) = p
  <2> HIDE DEF p, q
  <2>1. SubSeq(q, 1, 4) \in Seq(S) /\ Len(SubSeq(q, 1, 4)) = 4
        /\ \A i \in 1 .. 4 : SubSeq(q, 1, 4)[i] = q[i]
    <3> HIDE DEF S
    <3>1. 4 \in Nat /\ 4 <= Len(q)
      BY <1>2
    <3> QED BY <1>2, <3>1, FirstOf
  <2> QED BY <1>1, <1>2, <2>1
<1>7. r = t
  <2>1. \A i \in 1 .. 6 : r[i] = t[i]
    <3> HIDE DEF p, q, r, t
    <3> QED BY <1>3, <1>4
  <2> HIDE DEF r, t
  <2> QED BY <1>3, <1>4, <2>1
<1>8. <<>> \o p = p
  BY <1>1
<1> QED BY <1>5, <1>6, <1>7, <1>8

LEMMA TranscriptIs ==
    ASSUME NEW com, NEW e
    PROVE  /\ <<>> \o Opening(com) = Opening(com)
           /\ SubSeq(Opening(com), 1, 4) = Opening(com)
           /\ SubSeq(Append(Opening(com), e), 1, 4) = Opening(com)
           /\ Append(Append(Opening(com), <<"com_z", com.z>>), <<"com_q", com.q>>) = Absorbed(com)
<1> DEFINE a == <<"com_a", com.a>>
           b == <<"com_s", com.s>>
           c == <<"com_a_prime", com.aPrime>>
           d == <<"com_s_prime", com.sPrime>>
           z == <<"com_z", com.z>>
           q == <<"com_q", com.q>>
<1>1. Opening(com) = <<a, b, c, d>> /\ Absorbed(com) = <<a, b, c, d>> \o <<z, q>>
  BY DEF Opening, Closing, Absorbed
<1> HIDE DEF a, b, c, d, z, q
<1>2. /\ <<>> \o <<a, b, c, d>> = <<a, b, c, d>>
      /\ SubSeq(<<a, b, c, d>>, 1, 4) = <<a, b, c, d>>
      /\ SubSeq(Append(<<a, b, c, d>>, e), 1, 4) = <<a, b, c, d>>
      /\ Append(Append(<<a, b, c, d>>, z), q) = <<a, b, c, d>> \o <<z, q>>
  <2>1. \A f : Append(Append(<<a, b, c, d>>, z), f) = <<a, b, c, d>> \o <<z, f>>
    BY FourFirst
  <2>2. /\ <<>> \o <<a, b, c, d>> = <<a, b, c, d>>
        /\ SubSeq(<<a, b, c, d>>, 1, 4) = <<a, b, c, d>>
        /\ SubSeq(Append(<<a, b, c, d>>, e), 1, 4) = <<a, b, c, d>>
        /\ Append(Append(<<a, b, c, d>>, e), e) = <<a, b, c, d>> \o <<e, e>>
    BY FourFirst
  <2> QED BY <2>1, <2>2, Zenon
<1>3. /\ <<>> \o Opening(com) = Opening(com)
      /\ SubSeq(Opening(com), 1, 4) = Opening(com)
      /\ SubSeq(Append(Opening(com), e), 1, 4) = Opening(com)
      /\ Append(Append(Opening(com), z), q) = Absorbed(com)
  BY <1>1, <1>2, Zenon
<1> QED BY <1>3 DEF z, q

\* What the prover has committed to, and which challenges have been drawn for it.
ColumnsIn(com, drawn) ==
    /\ ColumnNames \subseteq DOMAIN com /\ Committed(com)
    /\ <<Opening(com), 1>> \in DOMAIN drawn /\ <<Opening(com), 2>> \in DOMAIN drawn

ProductIn(com, drawn) == ColumnsIn(com, drawn) /\ "z" \in DOMAIN com /\ IsColumn(com.z)

DividedBy(com, beta, gamma) ==
    LET qr == DivideWithQAndR(ConstraintPolynomial(com, beta, gamma), DomainVanishing)
    IN  qr[1] = com.q /\ qr[2] = <<>>

QuotientIn(com, drawn) ==
    /\ ProductIn(com, drawn) /\ "q" \in DOMAIN com
    /\ <<Absorbed(com), 1>> \in DOMAIN drawn
    /\ DividedBy(com, drawn[<<Opening(com), 1>>], drawn[<<Opening(com), 2>>])

ProvedIn(com, drawn) ==
    /\ QuotientIn(com, drawn)
    /\ com.open = OpenedAt(com, drawn[<<Absorbed(com), 1>>])

\* Every commitment is to a polynomial of a degree that the parameters hold.
Fits(com) ==
    \A name \in DOMAIN com : name # "open" =>
        /\ com[name] \in Seq(Field)
        /\ Len(com[name]) <= IF name = "q" THEN 3 * DomainSize + 1 ELSE DomainSize

\* The transcript has absorbed what is committed, in the verifier's order, and
\* the challenges that the verifier will ask for have been drawn.
ProofInv ==
    /\ columns \in Columns /\ config = ConfigFor(columns)
    /\ \A q \in DOMAIN oracle : oracle[q] \in Draws
    /\ zValues = <<>> \/ zValues \in [1 .. DomainSize -> Field]
    /\ Fits(proof)
    /\ pc \in {"commit", "multiply", "product", "divide", "evaluate", "proved",
               "accepted", "panicked"}
    /\ pc = "commit" => proof = <<>> /\ transcript = <<>> /\ oracle = <<>>
    /\ pc \in {"multiply", "product"} =>
         ColumnsIn(proof, oracle) /\ transcript = Opening(proof)
    /\ pc = "product" => zValues \in [1 .. DomainSize -> Field]
    /\ pc = "divide" =>
         ProductIn(proof, oracle) /\ transcript = Append(Opening(proof), <<"com_z", proof.z>>)
    /\ pc = "evaluate" => QuotientIn(proof, oracle) /\ transcript = Absorbed(proof)
    /\ pc = "proved" => ProvedIn(proof, oracle)

LEMMA SameStages ==
    ASSUME config' = config, NEW com, NEW drawn
    PROVE  /\ IsColumn(com)' <=> IsColumn(com)
           /\ ColumnsIn(com, drawn)' <=> ColumnsIn(com, drawn)
           /\ ProductIn(com, drawn)' <=> ProductIn(com, drawn)
           /\ QuotientIn(com, drawn)' <=> QuotientIn(com, drawn)
           /\ ProvedIn(com, drawn)' <=> ProvedIn(com, drawn)
           /\ Fits(com)' <=> Fits(com)
<1>1. \A p : IsColumn(p)' <=> IsColumn(p)
  BY DEF IsColumn, DomainSize
<1>2. ColumnsIn(com, drawn)' <=> ColumnsIn(com, drawn)
  BY DEF ColumnsIn, Committed, IsColumn, DomainSize
<1>3. ProductIn(com, drawn)' <=> ProductIn(com, drawn)
  BY <1>2 DEF ProductIn, IsColumn, DomainSize
<1>4. DomainVanishing' = DomainVanishing
  BY SameConfig
<1>5. QuotientIn(com, drawn)' <=> QuotientIn(com, drawn)
  <2> DEFINE b == drawn[<<Opening(com), 1>>]
             g == drawn[<<Opening(com), 2>>]
  <2>1. ConstraintPolynomial(com, b, g)' = ConstraintPolynomial(com, b, g)
    BY SameConstraints
  <2> QED BY <1>3, <1>4, <2>1 DEF QuotientIn, DividedBy
<1>6. ProvedIn(com, drawn)' <=> ProvedIn(com, drawn)
  <2> DEFINE d == drawn[<<Absorbed(com), 1>>]
  <2>1. OpenedAt(com, d)' = OpenedAt(com, d)
    BY SameOpened
  <2> QED BY <1>5, <2>1 DEF ProvedIn
<1>7. Fits(com)' <=> Fits(com)
  BY DEF Fits, DomainSize
<1> QED BY <1>1, <1>2, <1>3, <1>5, <1>6, <1>7

LEMMA DrawnIs ==
    ASSUME ProofInv, NEW q \in DOMAIN oracle
    PROVE  oracle[q] \in Draws /\ oracle[q] \in Field
BY DrawsAssumption DEF ProofInv

LEMMA AnswersAre ==
    ASSUME NEW tr, NEW k, <<tr, k>> \in DOMAIN oracle
    PROVE  Answers(tr, k) = {oracle[<<tr, k>>]}
BY DEF Answers

LEMMA AnswersAreDraws ==
    ASSUME ProofInv, NEW tr, NEW k, NEW v \in Answers(tr, k)
    PROVE  v \in Draws
BY DEF ProofInv, Answers

\* The oracle goes on to hold draws, and what it held.
LEMMA OracleIs ==
    ASSUME NEW orc, \A q \in DOMAIN orc : orc[q] \in Draws, NEW key, NEW v \in Draws
    PROVE  /\ \A q \in DOMAIN With(orc, key, v) : With(orc, key, v)[q] \in Draws
           /\ DOMAIN orc \subseteq DOMAIN With(orc, key, v) /\ key \in DOMAIN With(orc, key, v)
           /\ key \notin DOMAIN orc => \A q \in DOMAIN orc : With(orc, key, v)[q] = orc[q]
           /\ (key \in DOMAIN orc /\ v = orc[key]) => \A q \in DOMAIN orc : With(orc, key, v)[q] = orc[q]
BY DEF With

LEMMA CommitKeeps ==
    ASSUME ProofInv, Commit
    PROVE  ProofInv'
<1> DEFINE column(name) == [i \in 1 .. DomainSize |-> Row(name, i)]
           Of(name) == FromValues(column(name))
<1>1. DomainFits
  BY DomainFitsFor DEF ProofInv
<1>2. /\ columns \in Columns /\ config = ConfigFor(columns) /\ pc = "commit"
      /\ proof = <<>> /\ transcript = <<>> /\ oracle = <<>>
      /\ zValues = <<>> \/ zValues \in [1 .. DomainSize -> Field]
  BY DEF ProofInv, Commit
<1>3. config' = config /\ columns' = columns /\ zValues' = zValues /\ pc' = "multiply"
  BY DEF Commit
<1>4. proof' = [a |-> Of("a"), s |-> Of("s"), aPrime |-> Of("aPrime"), sPrime |-> Of("sPrime")]
  BY DEF Commit
<1>5. transcript' = <<>> \o Opening(proof')
  <2>1. transcript' = transcript \o
          << <<"com_a", proof'.a>>, <<"com_s", proof'.s>>,
             <<"com_a_prime", proof'.aPrime>>, <<"com_s_prime", proof'.sPrime>> >>
    BY DEF Commit
  <2> QED BY <1>2, <2>1 DEF Opening
<1>6. PICK beta \in Answers(transcript', 1), gamma \in Answers(transcript', 2) :
        oracle' = With(With(oracle, <<transcript', 1>>, beta), <<transcript', 2>>, gamma)
  BY Zenon DEF Commit
<1>7. ASSUME NEW name \in ColumnNames
      PROVE  IsColumn(Of(name))
  <2>1. \A i \in 1 .. DomainSize : column(name)[i] \in Int
    <3> SUFFICES ASSUME NEW i \in 1 .. DomainSize PROVE Row(name, i) \in Int
      OBVIOUS
    <3>1. i \in Nat
      BY <1>1 DEF DomainFits
    <3>2. Row(name, i) \in Field
      BY <1>2, <3>1, RowIs DEF ColumnNames
    <3> QED BY <3>2, InField
  <2> HIDE DEF column
  <2> QED BY <1>1, <2>1, FromValuesIs DEF IsColumn
<1> HIDE DEF Of
<1>8. PICK com : com = proof'
  OBVIOUS
<1>9. DOMAIN com = ColumnNames /\ \A x \in ColumnNames : com[x] = Of(x)
  BY <1>4, <1>8 DEF ColumnNames
<1>10. Committed(com)
  BY <1>7, <1>9 DEF Committed, ColumnNames
<1>11. Fits(com)
  <2>1. \A x \in DOMAIN com : IsColumn(com[x]) /\ x # "q"
    BY <1>7, <1>9 DEF ColumnNames
  <2>2. DomainSize \in Nat
    BY <1>1 DEF DomainFits
  <2> QED BY <2>1, <2>2 DEF Fits, IsColumn
<1>12. PICK tr : tr = transcript'
  OBVIOUS
<1>13. tr = Opening(com)
  BY <1>5, <1>8, <1>12, TranscriptIs
<1>14. PICK drawn : drawn = oracle'
  OBVIOUS
<1>15. /\ \A q \in DOMAIN drawn : drawn[q] \in Draws
       /\ <<tr, 1>> \in DOMAIN drawn /\ <<tr, 2>> \in DOMAIN drawn
  <2> DEFINE once == With(oracle, <<tr, 1>>, beta)
  <2>1. beta \in Draws /\ gamma \in Draws
    BY <1>6, AnswersAreDraws
  <2>2. \A q \in DOMAIN oracle : oracle[q] \in Draws
    BY DEF ProofInv
  <2>3. (\A q \in DOMAIN once : once[q] \in Draws) /\ <<tr, 1>> \in DOMAIN once
    BY <2>1, <2>2, OracleIs
  <2>4. drawn = With(once, <<tr, 2>>, gamma)
    BY <1>6, <1>12, <1>14
  <2> HIDE DEF once
  <2> QED BY <2>1, <2>3, <2>4, OracleIs
<1>16. ColumnsIn(com, drawn)
  BY <1>9, <1>10, <1>13, <1>15 DEF ColumnsIn
<1>17. ColumnsIn(com, drawn)' /\ Fits(com)'
  BY <1>3, <1>11, <1>16, SameStages
<1>18. columns' \in Columns /\ config' = ConfigFor(columns')
  BY <1>2, <1>3
<1>19. zValues' = <<>> \/ zValues' \in [1 .. DomainSize' -> Field]
  BY <1>2, <1>3, SameConfig
<1> QED BY <1>3, <1>8, <1>12, <1>13, <1>14, <1>15, <1>17, <1>18, <1>19 DEF ProofInv

\* The recursion of compute_grand_product.
Multiplies(u) ==
    u = [i \in 1 .. DomainSize |->
          IF i = 1 THEN 1
          ELSE (u[i - 1] * Numerator(i - 1) * FieldInverse(Denominator(i - 1))) % Modulus]

LEMMA MultipliesIs ==
    ASSUME DomainSize \in Nat \ {0},
           \A i \in 1 .. DomainSize - 1 : Numerator(i) \in Int /\ FieldInverse(Denominator(i)) \in Int
    PROVE  LET f == CHOOSE u : Multiplies(u)
           IN  Multiplies(f) /\ f \in [1 .. DomainSize -> Field]
<1> DEFINE n == DomainSize
           x(i) == Numerator(i)
           y(i) == FieldInverse(Denominator(i))
           g == [q \in (2 .. n) \X Field |-> (q[2] * x(q[1] - 1) * y(q[1] - 1)) % Modulus]
           f == CHOOSE u : Multiplies(u)
<1>1. \A i \in 2 .. n : \A v \in Field : g[<<i, v>>] = (v * x(i - 1) * y(i - 1)) % Modulus
  OBVIOUS
<1> HIDE DEF g
<1>2. ASSUME NEW i \in 2 .. n, NEW v \in Field
      PROVE  (v * x(i - 1) * y(i - 1)) % Modulus \in Field
  <2> DEFINE a == x(i - 1)
             b == y(i - 1)
             c == v * a * b
  <2>1. v \in Int /\ a \in Int /\ b \in Int
    BY InField
  <2> HIDE DEF a, b
  <2>2. c \in Int
    BY <2>1
  <2> HIDE DEF c
  <2>3. c % Modulus \in Field
    BY <2>2, Remainder
  <2> QED BY <2>3 DEF a, b, c
<1>3. StepsOn(g, Field, n)
  BY <1>1, <1>2 DEF StepsOn
<1>4. PICK k \in [1 .. n -> Field] : FromOne(k, 1, g, n)
  BY <1>3, ModulusIs, IteratesFromOne
<1>5. Multiplies(k)
  <2> DEFINE e == [i \in 1 .. n |-> IF i = 1 THEN 1 ELSE (k[i - 1] * x(i - 1) * y(i - 1)) % Modulus]
  <2>1. ASSUME NEW i \in 1 .. n
        PROVE  k[i] = IF i = 1 THEN 1 ELSE (k[i - 1] * x(i - 1) * y(i - 1)) % Modulus
    <3>1. CASE i = 1
      BY <1>4, <3>1 DEF FromOne
    <3>2. CASE i # 1
      <4>1. i \in 2 .. n /\ k[i - 1] \in Field
        BY <3>2
      <4>2. k[i] = g[<<i, k[i - 1]>>]
        BY <1>4, <4>1 DEF FromOne
      <4> QED BY <1>1, <3>2, <4>1, <4>2
    <3> QED BY <3>1, <3>2
  <2>2. e = [i \in 1 .. n |-> e[i]] /\ k = [i \in 1 .. n |-> k[i]] /\ \A i \in 1 .. n : k[i] = e[i]
    BY <2>1
  <2> HIDE DEF e
  <2>3. k = e
    BY <2>2
  <2> QED BY <2>3 DEF Multiplies, e
<1>6. Multiplies(f)
  BY <1>5, Zenon
<1> HIDE DEF f
<1>7. f = [i \in 1 .. n |-> f[i]]
      /\ \A i \in 1 .. n : f[i] = IF i = 1 THEN 1 ELSE (f[i - 1] * x(i - 1) * y(i - 1)) % Modulus
  BY <1>6 DEF Multiplies
<1> DEFINE S == {m \in Nat : m \in 1 .. n => f[m] \in Field}
<1>8. 0 \in S
  OBVIOUS
<1>9. \A m \in Nat : m \in S => m + 1 \in S
  <2> SUFFICES ASSUME NEW m \in Nat, m \in S, m + 1 <= n PROVE f[m + 1] \in Field
    OBVIOUS
  <2>1. CASE m = 0
    <3>0. 1 \in 1 .. n
      OBVIOUS
    <3>1. f[1] = 1
      BY <1>7, <3>0
    <3> QED BY <2>1, <3>1, ModulusIs
  <2>2. CASE m # 0
    <3> DEFINE i == m + 1
    <3>1. i \in 2 .. n /\ i \in 1 .. n /\ i # 1 /\ f[i - 1] \in Field
      BY <2>2
    <3> HIDE DEF i, S
    <3>2. f[i] = (f[i - 1] * x(i - 1) * y(i - 1)) % Modulus
      BY <1>7, <3>1
    <3>3. f[i] \in Field
      BY <1>2, <3>1, <3>2
    <3> QED BY <3>3 DEF i
  <2> QED BY <2>1, <2>2
<1>10. \A m \in Nat : m \in S
  <2> HIDE DEF S
  <2> QED BY <1>8, <1>9, Reaches
<1>11. f \in [1 .. n -> Field]
  <2>1. \A i \in 1 .. n : f[i] \in Field
    <3> SUFFICES ASSUME NEW i \in 1 .. n PROVE f[i] \in Field
      OBVIOUS
    <3>1. i \in S
      BY <1>10
    <3> QED BY <3>1
  <2> HIDE DEF S
  <2> QED BY <1>7, <2>1
<1> QED BY <1>6, <1>11 DEF f

\* The challenges the prover goes on with are those of the verifier.
LEMMA BetaIs ==
    ASSUME ProofInv, pc \in {"multiply", "product", "divide"}
    PROVE  /\ SubSeq(transcript, 1, 4) = Opening(proof)
           /\ Beta = oracle[<<Opening(proof), 1>>] /\ Gamma = oracle[<<Opening(proof), 2>>]
           /\ Beta \in Field /\ Gamma \in Field
<1>1. SubSeq(transcript, 1, 4) = Opening(proof)
  <2>1. transcript = Opening(proof) \/ transcript = Append(Opening(proof), <<"com_z", proof.z>>)
    BY DEF ProofInv
  <2> QED BY <2>1, TranscriptIs
<1>2. <<Opening(proof), 1>> \in DOMAIN oracle /\ <<Opening(proof), 2>> \in DOMAIN oracle
  BY DEF ProofInv, ProductIn, ColumnsIn
<1>3. oracle[<<Opening(proof), 1>>] \in Field /\ oracle[<<Opening(proof), 2>>] \in Field
  BY <1>2, DrawnIs
<1> QED BY <1>1, <1>3 DEF Beta, Gamma

LEMMA FactorsAre ==
    ASSUME ProofInv, pc = "multiply", NEW i \in Nat
    PROVE  Numerator(i) \in Field /\ Denominator(i) \in Field
<1>1. ASSUME NEW a \in ColumnNames, NEW s \in ColumnNames
      PROVE  Factors(i, a, s) \in Field
  <2> DEFINE u == Row(a, i)
             v == Row(s, i)
             w == (u + Beta) * (v + Gamma)
  <2>1. columns \in Columns
    BY DEF ProofInv
  <2>2. u \in Field /\ v \in Field
    BY <2>1, RowIs DEF ColumnNames
  <2>3. u \in Int /\ v \in Int /\ Beta \in Int /\ Gamma \in Int
    BY <2>2, BetaIs, InField
  <2> HIDE DEF u, v
  <2>4. w \in Int
    BY <2>3
  <2> HIDE DEF w
  <2>5. w % Modulus \in Field
    BY <2>4, Remainder
  <2> QED BY <2>5 DEF Factors, w, u, v
<1> QED BY <1>1 DEF Numerator, Denominator, ColumnNames

LEMMA GrandProductKeeps ==
    ASSUME ProofInv, GrandProduct
    PROVE  ProofInv'
<1> DEFINE n == DomainSize
           f == CHOOSE u : Multiplies(u)
<1>1. DomainFits
  BY DomainFitsFor DEF ProofInv
<1>2. pc = "multiply" /\ pc' = "product" /\ config' = config /\ columns' = columns
      /\ oracle' = oracle /\ transcript' = transcript /\ proof' = proof
  BY DEF GrandProduct
<1>3. n \in Nat \ {0}
  BY <1>1 DEF DomainFits
<1>4. \A i \in 1 .. n - 1 : Numerator(i) \in Int /\ FieldInverse(Denominator(i)) \in Int
  <2> SUFFICES ASSUME NEW i \in 1 .. n - 1
               PROVE  Numerator(i) \in Int /\ FieldInverse(Denominator(i)) \in Int
    OBVIOUS
  <2>1. i \in Nat /\ Denominator(i) # 0
    BY <1>3 DEF GrandProduct
  <2>2. Numerator(i) \in Field /\ Denominator(i) \in Field
    BY <1>2, <2>1, FactorsAre
  <2>3. FieldInverse(Denominator(i)) \in Field
    BY <2>1, <2>2, FieldInverseIs
  <2> QED BY <2>2, <2>3, InField
<1>5. f \in [1 .. n -> Field]
  BY <1>3, <1>4, MultipliesIs
<1>6. zValues' = SubSeq([i \in 1 .. n |-> f[i]], 1, n)
  BY DEF GrandProduct, Multiplies
<1>7. zValues' \in [1 .. n -> Field]
  <2> DEFINE p == [i \in 1 .. n |-> f[i]]
  <2>1. p \in Seq(Field) /\ Len(p) = n
    <3>1. p \in [1 .. n -> Field]
      BY <1>5
    <3> HIDE DEF p, n
    <3> QED BY <1>3, <3>1, SequenceIs
  <2> HIDE DEF p, n
  <2>2. SubSeq(p, 1, n) \in Seq(Field) /\ Len(SubSeq(p, 1, n)) = n
    BY <1>3, <2>1, FirstOf
  <2>3. SubSeq(p, 1, n) \in [1 .. n -> Field]
    <3>1. PICK q : q = SubSeq(p, 1, n)
      OBVIOUS
    <3>2. q \in Seq(Field) /\ Len(q) = n
      BY <2>2, <3>1
    <3>3. q \in [1 .. n -> Field]
      BY <3>2
    <3> QED BY <3>1, <3>3
  <2> QED BY <1>6, <2>3 DEF p
<1>8. ColumnsIn(proof, oracle) /\ Fits(proof) /\ transcript = Opening(proof)
  BY <1>2 DEF ProofInv
<1>9. ColumnsIn(proof, oracle)' /\ Fits(proof)'
  <2>1. PICK com, drawn : com = proof /\ drawn = oracle
    OBVIOUS
  <2>2. ColumnsIn(com, drawn)' /\ Fits(com)'
    BY <1>2, <1>8, <2>1, SameStages
  <2> QED BY <1>2, <2>1, <2>2
<1>10. columns \in Columns /\ config = ConfigFor(columns) /\ \A q \in DOMAIN oracle : oracle[q] \in Draws
  BY DEF ProofInv
<1>11. zValues' \in [1 .. DomainSize' -> Field]
  BY <1>2, <1>7, SameConfig
<1>12. columns' \in Columns /\ config' = ConfigFor(columns')
       /\ (\A q \in DOMAIN oracle' : oracle'[q] \in Draws) /\ transcript' = Opening(proof')
  BY <1>2, <1>8, <1>10
<1> QED BY <1>2, <1>9, <1>11, <1>12 DEF ProofInv

LEMMA CommitProductKeeps ==
    ASSUME ProofInv, CommitProduct
    PROVE  ProofInv'
<1>1. DomainFits
  BY DomainFitsFor DEF ProofInv
<1>2. pc = "product" /\ pc' = "divide" /\ config' = config /\ columns' = columns
      /\ oracle' = oracle /\ zValues' = zValues
  BY DEF CommitProduct
<1>3. PICK z : z = FromValues(zValues)
  OBVIOUS
<1>4. PICK com, drawn, tr : com = proof' /\ drawn = oracle' /\ tr = transcript'
  OBVIOUS
<1>5. com = With(proof, "z", z) /\ tr = Append(transcript, <<"com_z", com.z>>)
  BY <1>3, <1>4 DEF CommitProduct
<1>6. /\ ColumnsIn(proof, oracle) /\ Fits(proof) /\ transcript = Opening(proof)
      /\ columns \in Columns /\ config = ConfigFor(columns)
      /\ zValues \in [1 .. DomainSize -> Field]
      /\ \A q \in DOMAIN oracle : oracle[q] \in Draws
  BY <1>2 DEF ProofInv
<1>7. IsColumn(z)
  <2>1. \A i \in 1 .. DomainSize : zValues[i] \in Int
    BY <1>6, InField
  <2> QED BY <1>1, <1>3, <2>1, FromValuesIs DEF IsColumn
<1>8. /\ DOMAIN com = DOMAIN proof \cup {"z"} /\ com.z = z
      /\ \A x \in DOMAIN proof : x # "z" => com[x] = proof[x]
  BY <1>5 DEF With
<1>9. Opening(com) = Opening(proof) /\ \A x \in ColumnNames : com[x] = proof[x]
  <2>1. ColumnNames \subseteq DOMAIN proof /\ "z" \notin ColumnNames
    BY <1>6 DEF ColumnsIn, ColumnNames
  <2> QED BY <1>5, <2>1, OpeningKept
<1>10. ProductIn(com, drawn)
  <2>1. ColumnNames \subseteq DOMAIN com
    BY <1>6, <1>8 DEF ColumnsIn
  <2>2. Committed(com)
    BY <1>6, <1>9 DEF ColumnsIn, Committed, ColumnNames
  <2>3. <<Opening(com), 1>> \in DOMAIN drawn /\ <<Opening(com), 2>> \in DOMAIN drawn
    BY <1>2, <1>4, <1>6, <1>9 DEF ColumnsIn
  <2> QED BY <1>7, <1>8, <2>1, <2>2, <2>3 DEF ProductIn, ColumnsIn
<1>11. Fits(com)
  <2> SUFFICES ASSUME NEW name \in DOMAIN com, name # "open"
               PROVE  /\ com[name] \in Seq(Field)
                      /\ Len(com[name]) <= IF name = "q" THEN 3 * DomainSize + 1 ELSE DomainSize
    BY DEF Fits
  <2>1. CASE name = "z"
    BY <1>1, <1>7, <1>8, <2>1 DEF IsColumn, DomainFits
  <2>2. CASE name # "z"
    BY <1>6, <1>8, <2>2 DEF Fits
  <2> QED BY <2>1, <2>2
<1>12. ProductIn(com, drawn)' /\ Fits(com)'
  BY <1>2, <1>10, <1>11, SameStages
<1>13. tr = Append(Opening(com), <<"com_z", com.z>>)
  BY <1>5, <1>6, <1>9
<1>14. columns' \in Columns /\ config' = ConfigFor(columns')
       /\ (\A q \in DOMAIN drawn : drawn[q] \in Draws)
       /\ zValues' \in [1 .. DomainSize' -> Field]
  BY <1>2, <1>4, <1>6, SameConfig
<1> QED BY <1>2, <1>4, <1>12, <1>13, <1>14 DEF ProofInv

LEMMA CommitQuotientKeeps ==
    ASSUME ProofInv, CommitQuotient
    PROVE  ProofInv'
<1> DEFINE c == ConstraintPolynomial(proof, Beta, Gamma)
           qr == DivideWithQAndR(c, DomainVanishing)
           zero == \A x \in Points : ValueAt(c, x) = 0
<1>1. DomainFits
  BY DomainFitsFor DEF ProofInv
<1>2. /\ pc = "divide" /\ config' = config /\ columns' = columns /\ zValues' = zValues
  BY DEF CommitQuotient
<1>3. /\ ProductIn(proof, oracle) /\ Fits(proof)
      /\ transcript = Append(Opening(proof), <<"com_z", proof.z>>)
      /\ columns \in Columns /\ config = ConfigFor(columns)
      /\ zValues = <<>> \/ zValues \in [1 .. DomainSize -> Field]
      /\ \A q \in DOMAIN oracle : oracle[q] \in Draws
  BY <1>2 DEF ProofInv
<1>4. columns' \in Columns /\ config' = ConfigFor(columns')
      /\ (zValues' = <<>> \/ zValues' \in [1 .. DomainSize' -> Field])
  BY <1>2, <1>3, SameConfig
<1>5. IF zero /\ qr[2] = <<>>
      THEN /\ proof' = With(proof, "q", qr[1])
           /\ transcript' = Append(transcript, <<"com_q", qr[1]>>)
           /\ \E zeta \in Answers(transcript', 1) : oracle' = With(oracle, <<transcript', 1>>, zeta)
           /\ pc' = "evaluate"
      ELSE pc' = "panicked" /\ proof' = proof /\ oracle' = oracle
  <2> HIDE DEF zero
  <2>1. \E k \in {c} : \E parts \in {DivideWithQAndR(k, DomainVanishing)} :
          IF (\A x \in Points : ValueAt(k, x) = 0) /\ parts[2] = <<>>
          THEN /\ proof' = With(proof, "q", parts[1])
               /\ transcript' = Append(transcript, <<"com_q", parts[1]>>)
               /\ \E zeta \in Answers(transcript', 1) :
                    oracle' = With(oracle, <<transcript', 1>>, zeta)
               /\ pc' = "evaluate"
          ELSE pc' = "panicked" /\ proof' = proof /\ oracle' = oracle
    BY DEF CommitQuotient
  <2> QED BY <2>1 DEF zero
<1>6. CASE ~ (zero /\ qr[2] = <<>>)
  <2>1. pc' = "panicked" /\ proof' = proof /\ oracle' = oracle
    BY <1>5, <1>6
  <2>2. Fits(proof)'
    <3>1. PICK com : com = proof
      OBVIOUS
    <3>2. Fits(com)'
      BY <1>2, <1>3, <3>1, SameStages
    <3> QED BY <2>1, <3>1, <3>2
  <2>3. \A q \in DOMAIN oracle' : oracle'[q] \in Draws
    BY <1>3, <2>1
  <2> QED BY <1>4, <2>1, <2>2, <2>3 DEF ProofInv
<1>7. CASE zero /\ qr[2] = <<>>
  <2>1. PICK q : q = qr[1]
    OBVIOUS
  <2>2. PICK com, drawn, tr : com = proof' /\ drawn = oracle' /\ tr = transcript'
    OBVIOUS
  <2>3. com = With(proof, "q", q) /\ tr = Append(transcript, <<"com_q", q>>) /\ pc' = "evaluate"
    BY <1>5, <1>7, <2>1, <2>2
  <2>4. PICK zeta \in Answers(tr, 1) : drawn = With(oracle, <<tr, 1>>, zeta)
    BY <1>5, <1>7, <2>2
  <2>5. Beta = oracle[<<Opening(proof), 1>>] /\ Gamma = oracle[<<Opening(proof), 2>>]
        /\ Beta \in Field /\ Gamma \in Field
    BY <1>2, BetaIs
  <2>6. q \in Seq(Field) /\ Len(q) <= 3 * DomainSize + 1
    <3>1. Committed(proof) /\ IsColumn(proof.z)
      BY <1>3 DEF ProductIn, ColumnsIn
    <3> QED BY <1>1, <2>1, <2>5, <3>1, QuotientIs
  <2> HIDE DEF zero
  <2>7. /\ DOMAIN com = DOMAIN proof \cup {"q"} /\ com.q = q
        /\ \A x \in DOMAIN proof : x # "q" => com[x] = proof[x]
    BY <2>3 DEF With
  <2>8. ColumnNames \subseteq DOMAIN proof /\ "q" \notin ColumnNames /\ "z" \in DOMAIN proof
    BY <1>3 DEF ProductIn, ColumnsIn, ColumnNames
  <2>9. Opening(com) = Opening(proof) /\ (\A x \in ColumnNames : com[x] = proof[x]) /\ com.z = proof.z
    BY <2>3, <2>7, <2>8, OpeningKept
  <2>10. tr = Absorbed(com)
    <3>1. tr = Append(Append(Opening(com), <<"com_z", com.z>>), <<"com_q", com.q>>)
      BY <1>3, <2>3, <2>7, <2>9
    <3> QED BY <3>1, TranscriptIs
  <2>11. /\ \A p \in DOMAIN drawn : drawn[p] \in Draws
         /\ DOMAIN oracle \subseteq DOMAIN drawn /\ <<tr, 1>> \in DOMAIN drawn
         /\ \A p \in DOMAIN oracle : drawn[p] = oracle[p]
    <3>1. zeta \in Draws
      BY <2>4, AnswersAreDraws
    <3>2. <<tr, 1>> \in DOMAIN oracle => zeta = oracle[<<tr, 1>>]
      BY <2>4 DEF Answers
    <3> QED BY <1>3, <2>4, <3>1, <3>2, OracleIs
  <2>12. ProductIn(com, drawn)
    <3>1. ColumnNames \subseteq DOMAIN com /\ "z" \in DOMAIN com
      BY <2>7, <2>8
    <3>2. Committed(com) /\ IsColumn(com.z)
      BY <1>3, <2>9 DEF ProductIn, ColumnsIn, Committed, ColumnNames
    <3>3. <<Opening(com), 1>> \in DOMAIN drawn /\ <<Opening(com), 2>> \in DOMAIN drawn
      BY <1>3, <2>9, <2>11 DEF ProductIn, ColumnsIn
    <3> QED BY <3>1, <3>2, <3>3 DEF ProductIn, ColumnsIn
  <2>13. DividedBy(com, drawn[<<Opening(com), 1>>], drawn[<<Opening(com), 2>>])
    <3>1. drawn[<<Opening(com), 1>>] = Beta /\ drawn[<<Opening(com), 2>>] = Gamma
      BY <1>3, <2>5, <2>9, <2>11 DEF ProductIn, ColumnsIn
    <3>2. ConstraintPolynomial(com, Beta, Gamma) = ConstraintPolynomial(proof, Beta, Gamma)
      <4>1. /\ com.a = proof.a /\ com.s = proof.s /\ com.aPrime = proof.aPrime
            /\ com.sPrime = proof.sPrime /\ com.z = proof.z
        BY <2>9 DEF ColumnNames
      <4> QED BY <4>1 DEF ConstraintPolynomial
    <3>3. qr[1] = com.q /\ qr[2] = <<>>
      BY <1>7, <2>1, <2>7
    <3> QED BY <3>1, <3>2, <3>3 DEF DividedBy
  <2>14. QuotientIn(com, drawn)
    BY <2>7, <2>10, <2>11, <2>12, <2>13 DEF QuotientIn
  <2>15. Fits(com)
    <3> SUFFICES ASSUME NEW name \in DOMAIN com, name # "open"
                 PROVE  /\ com[name] \in Seq(Field)
                        /\ Len(com[name]) <= IF name = "q" THEN 3 * DomainSize + 1 ELSE DomainSize
      BY DEF Fits
    <3>1. CASE name = "q"
      BY <2>6, <2>7, <3>1
    <3>2. CASE name # "q"
      BY <1>3, <2>7, <3>2 DEF Fits
    <3> QED BY <3>1, <3>2
  <2>16. QuotientIn(com, drawn)' /\ Fits(com)'
    BY <1>2, <2>14, <2>15, SameStages
  <2> QED BY <1>4, <2>2, <2>3, <2>10, <2>11, <2>16 DEF ProofInv
<1> QED BY <1>6, <1>7

LEMMA EvaluateKeeps ==
    ASSUME ProofInv, Evaluate
    PROVE  ProofInv'
<1>1. /\ pc = "evaluate" /\ pc' = "proved" /\ config' = config /\ columns' = columns
      /\ oracle' = oracle /\ transcript' = transcript /\ zValues' = zValues
  BY DEF Evaluate
<1>2. /\ QuotientIn(proof, oracle) /\ Fits(proof) /\ transcript = Absorbed(proof)
      /\ columns \in Columns /\ config = ConfigFor(columns)
      /\ zValues = <<>> \/ zValues \in [1 .. DomainSize -> Field]
      /\ \A q \in DOMAIN oracle : oracle[q] \in Draws
  BY <1>1 DEF ProofInv
<1>3. PICK com, drawn, open : com = proof' /\ drawn = oracle
                              /\ open = OpenedAt(proof, oracle[<<transcript, 1>>])
  OBVIOUS
<1>4. com = With(proof, "open", open)
  BY <1>3 DEF Evaluate, OpenedAt
<1>5. /\ DOMAIN com = DOMAIN proof \cup {"open"} /\ com.open = open
      /\ \A x \in DOMAIN proof : x # "open" => com[x] = proof[x]
  BY <1>4 DEF With
<1>6. ColumnNames \subseteq DOMAIN proof /\ "open" \notin ColumnNames
      /\ "z" \in DOMAIN proof /\ "q" \in DOMAIN proof
  BY <1>2 DEF QuotientIn, ProductIn, ColumnsIn, ColumnNames
<1>7. /\ com.a = proof.a /\ com.s = proof.s /\ com.aPrime = proof.aPrime
      /\ com.sPrime = proof.sPrime /\ com.z = proof.z /\ com.q = proof.q
  BY <1>5, <1>6 DEF ColumnNames
<1>8. Opening(com) = Opening(proof) /\ Absorbed(com) = Absorbed(proof)
  BY <1>7 DEF Opening, Closing, Absorbed
<1>9. QuotientIn(com, drawn)
  <2>1. ProductIn(com, drawn)
    BY <1>2, <1>3, <1>5, <1>7, <1>8 DEF QuotientIn, ProductIn, ColumnsIn, Committed
  <2>2. \A b, g : ConstraintPolynomial(com, b, g) = ConstraintPolynomial(proof, b, g)
    BY <1>7 DEF ConstraintPolynomial
  <2>3. DividedBy(com, drawn[<<Opening(com), 1>>], drawn[<<Opening(com), 2>>])
    BY <1>2, <1>3, <1>7, <1>8, <2>2 DEF QuotientIn, DividedBy
  <2> QED BY <1>2, <1>3, <1>5, <1>8, <2>1, <2>3 DEF QuotientIn
<1>10. ProvedIn(com, drawn)
  <2>1. OpenedAt(com, drawn[<<Absorbed(com), 1>>]) = OpenedAt(proof, drawn[<<Absorbed(com), 1>>])
    BY <1>7 DEF OpenedAt
  <2> QED BY <1>2, <1>3, <1>5, <1>8, <1>9, <2>1 DEF ProvedIn
<1>11. Fits(com)
  BY <1>2, <1>5 DEF Fits
<1>12. ProvedIn(com, drawn)' /\ Fits(com)'
  BY <1>1, <1>10, <1>11, SameStages
<1>13. /\ columns' \in Columns /\ config' = ConfigFor(columns')
       /\ zValues' = <<>> \/ zValues' \in [1 .. DomainSize' -> Field]
       /\ \A q \in DOMAIN oracle' : oracle'[q] \in Draws
  BY <1>1, <1>2, SameConfig
<1> QED BY <1>1, <1>3, <1>12, <1>13 DEF ProofInv

\* The verifier asks for the challenges that the prover has drawn, and what the
\* prover has opened there holds.
LEMMA VerifyKeeps ==
    ASSUME ProofInv, Verify
    PROVE  ProofInv'
<1> DEFINE start == Opening(proof)
           beta  == oracle[<<start, 1>>]
           gamma == oracle[<<start, 2>>]
           zeta  == oracle[<<Absorbed(proof), 1>>]
<1>1. DomainFits
  BY DomainFitsFor DEF ProofInv
<1>2. /\ pc = "proved" /\ config' = config /\ columns' = columns
      /\ transcript' = transcript /\ zValues' = zValues /\ proof' = proof
  BY DEF Verify
<1>3. /\ ProvedIn(proof, oracle) /\ Fits(proof)
      /\ columns \in Columns /\ config = ConfigFor(columns)
      /\ zValues = <<>> \/ zValues \in [1 .. DomainSize -> Field]
      /\ \A q \in DOMAIN oracle : oracle[q] \in Draws
  BY <1>2 DEF ProofInv
<1>4. <<start, 1>> \in DOMAIN oracle /\ <<start, 2>> \in DOMAIN oracle
      /\ <<Absorbed(proof), 1>> \in DOMAIN oracle
  BY <1>3 DEF ProvedIn, QuotientIn, ProductIn, ColumnsIn
<1>5. beta \in Field /\ gamma \in Field /\ zeta \in Field
  BY <1>4, DrawnIs
<1>6. /\ oracle' = With(With(With(oracle, <<start, 1>>, beta), <<start, 2>>, gamma),
                        <<Absorbed(proof), 1>>, zeta)
      /\ pc' = IF /\ OpeningsHold(proof, proof.open, zeta)
                  /\ QuotientHolds(proof.open, beta, gamma, zeta)
               THEN "accepted" ELSE "rejected"
  <2>1. /\ Answers(start, 1) = {beta} /\ Answers(start, 2) = {gamma}
        /\ Answers(Absorbed(proof), 1) = {zeta}
    BY <1>4, AnswersAre
  <2>2. \E b \in Answers(start, 1), g \in Answers(start, 2), d \in Answers(Absorbed(proof), 1) :
          /\ oracle' = With(With(With(oracle, <<start, 1>>, b), <<start, 2>>, g),
                            <<Absorbed(proof), 1>>, d)
          /\ pc' = IF /\ OpeningsHold(proof, proof.open, d)
                      /\ QuotientHolds(proof.open, b, g, d)
                   THEN "accepted" ELSE "rejected"
    BY Zenon DEF Verify, Absorbed
  <2> HIDE DEF beta, gamma, zeta, start
  <2> QED BY <2>1, <2>2
<1>7. OpeningsHold(proof, proof.open, zeta) /\ QuotientHolds(proof.open, beta, gamma, zeta)
  <2>1. Committed(proof) /\ IsColumn(proof.z) /\ proof.open = OpenedAt(proof, zeta)
        /\ DividedBy(proof, beta, gamma)
    BY <1>3 DEF ProvedIn, QuotientIn, ProductIn, ColumnsIn
  <2> HIDE DEF beta, gamma, zeta
  <2> QED BY <1>1, <1>5, <2>1, OpenedHolds DEF DividedBy
<1>8. pc' = "accepted"
  BY <1>6, <1>7
<1>9. \A q \in DOMAIN oracle' : oracle'[q] \in Draws
  <2> DEFINE once  == With(oracle, <<start, 1>>, beta)
             twice == With(once, <<start, 2>>, gamma)
  <2>1. beta \in Draws /\ gamma \in Draws /\ zeta \in Draws
    BY <1>3, <1>4
  <2> HIDE DEF beta, gamma, zeta, start
  <2>2. \A q \in DOMAIN once : once[q] \in Draws
    BY <1>3, <2>1, OracleIs
  <2> HIDE DEF once
  <2>3. \A q \in DOMAIN twice : twice[q] \in Draws
    BY <2>1, <2>2, OracleIs
  <2>4. oracle' = With(twice, <<Absorbed(proof), 1>>, zeta)
    BY <1>6 DEF once
  <2> HIDE DEF twice
  <2>5. PICK drawn : drawn = oracle'
    OBVIOUS
  <2>6. \A q \in DOMAIN drawn : drawn[q] \in Draws
    BY <2>1, <2>3, <2>4, <2>5, OracleIs
  <2> QED BY <2>5, <2>6
<1>10. Fits(proof)'
  <2>1. PICK com : com = proof
    OBVIOUS
  <2>2. Fits(com)'
    BY <1>2, <1>3, <2>1, SameStages
  <2> QED BY <1>2, <2>1, <2>2
<1>11. /\ columns' \in Columns /\ config' = ConfigFor(columns')
       /\ zValues' = <<>> \/ zValues' \in [1 .. DomainSize' -> Field]
  BY <1>2, <1>3, SameConfig
<1> QED BY <1>8, <1>9, <1>10, <1>11 DEF ProofInv

LEMMA ProofInvInit == PInit => ProofInv
<1> SUFFICES ASSUME PInit PROVE ProofInv
  OBVIOUS
<1>1. DOMAIN oracle = {} /\ DOMAIN proof = {}
  <2>1. DOMAIN << >> = {}
    OBVIOUS
  <2> QED BY <2>1 DEF PInit, NoProof
<1>2. Fits(proof)
  BY <1>1 DEF Fits
<1> QED BY <1>1, <1>2 DEF PInit, NoProof, ProofInv

\* Nothing but the counter moves.
LEMMA PanicKeeps ==
    ASSUME ProofInv, UNCHANGED <<columns, config, oracle, transcript, zValues, proof>>,
           pc' \in {pc, "panicked"}
    PROVE  ProofInv'
<1>1. PICK com, drawn : com = proof /\ drawn = oracle
  OBVIOUS
<1>2. /\ ColumnsIn(com, drawn)' <=> ColumnsIn(com, drawn)
      /\ ProductIn(com, drawn)' <=> ProductIn(com, drawn)
      /\ QuotientIn(com, drawn)' <=> QuotientIn(com, drawn)
      /\ ProvedIn(com, drawn)' <=> ProvedIn(com, drawn)
      /\ Fits(com)' <=> Fits(com)
  BY SameStages
<1>3. com = proof' /\ drawn = oracle'
  BY <1>1
<1> QED BY <1>1, <1>2, <1>3, SameConfig DEF ProofInv

LEMMA ProofInvNext == ProofInv /\ [PNext]_pvars => ProofInv'
<1> SUFFICES ASSUME ProofInv, [PNext]_pvars PROVE ProofInv'
  OBVIOUS
<1>1. CASE Commit
  BY <1>1, CommitKeeps
<1>2. CASE GrandProduct
  BY <1>2, GrandProductKeeps
<1>3. CASE GrandProductPanics
  BY <1>3, PanicKeeps DEF GrandProductPanics
<1>4. CASE CommitProduct
  BY <1>4, CommitProductKeeps
<1>5. CASE CommitQuotient
  BY <1>5, CommitQuotientKeeps
<1>6. CASE Evaluate
  BY <1>6, EvaluateKeeps
<1>7. CASE Verify
  BY <1>7, VerifyKeeps
<1>8. CASE Terminated
  BY <1>8, PanicKeeps DEF Terminated, pvars
<1>9. CASE UNCHANGED pvars
  BY <1>9, PanicKeeps DEF pvars
<1> QED BY <1>1, <1>2, <1>3, <1>4, <1>5, <1>6, <1>7, <1>8, <1>9 DEF PNext

\* Prover and verifier go through their phases with one transcript: what the
\* prover has absorbed and drawn is what the verifier absorbs and draws.
THEOREM ProofInvHolds == PSpec => []ProofInv
<1>1. PInit => ProofInv
  BY ProofInvInit
<1>2. ProofInv /\ [PNext]_pvars => ProofInv'
  BY ProofInvNext
<1> QED BY <1>1, <1>2, PTL DEF PSpec

\* Every polynomial committed to is of a degree that the trimmed parameters
\* hold, for every prime, table and number of blinding rows.
THEOREM ProofTyped == PSpec => []PTypeOK
<1>1. ProofInv => PTypeOK
  <2> SUFFICES ASSUME ProofInv PROVE PTypeOK
    OBVIOUS
  <2>1. ASSUME NEW name \in DOMAIN proof, name # "open"
        PROVE  /\ \A i \in DOMAIN proof[name] : proof[name][i] \in Field
               /\ Len(proof[name]) <= IF name = "q" THEN 3 * DomainSize + 1 ELSE DomainSize
    <3>1. proof[name] \in Seq(Field)
          /\ Len(proof[name]) <= IF name = "q" THEN 3 * DomainSize + 1 ELSE DomainSize
      BY <2>1 DEF ProofInv, Fits
    <3> QED BY <3>1
  <2> QED BY <2>1 DEF ProofInv, PTypeOK
<1> QED BY <1>1, ProofInvHolds, PTL

\* Whatever the columns and the challenges, a proof that prove hands out is
\* accepted by verify: a quotient without a remainder makes the two sides of
\* the verifier's check equal at every point.
THEOREM ProofsAlwaysAccepted == PSpec => []ProofsAreAccepted
<1>1. ProofInv => ProofsAreAccepted
  BY DEF ProofInv, ProofsAreAccepted
<1> QED BY <1>1, ProofInvHolds, PTL

-----------------------------------------------------------------------------
(* The order of the domain's generator.                                    *)

LEMMA DomainIs ==
    ASSUME columns \in Columns, config = ConfigFor(columns)
    PROVE  /\ \E d \in Nat : DomainSize = 2 ^ (d + 1)
           /\ DomainSize \in Nat /\ DomainSize >= 2 /\ DomainSize < Modulus
           /\ Generator \in Field /\ Power(Generator, DomainSize \div 2) = Modulus - 1
           /\ Len(columns.a) \in Nat \ {0} /\ Usable \in Nat
           /\ Len(columns.a) <= Usable /\ Usable + 1 <= DomainSize
<1> DEFINE size == DomainSizeFor(columns)
           m == Len(columns.a)
           b == columns.blinding
           k == Greater(Len(columns.s), Len(columns.a)) + columns.blinding + 1
           half == size \div 2
<1>1. /\ columns.a \in Seq(Field) /\ columns.s \in Seq(Field)
      /\ Len(columns.s) = Len(columns.a) /\ Len(columns.a) > 0 /\ columns.blinding \in Nat
      /\ size < Modulus /\ \E w \in Field : Power(w, half) = Modulus - 1
  BY ColumnsAssumption
<1>2. k \in Nat /\ k >= 2 /\ k = m + b + 1 /\ m \in Nat \ {0} /\ b \in Nat
  <2> DEFINE g == Greater(Len(columns.s), Len(columns.a))
  <2>1. m \in Nat /\ m > 0 /\ b \in Nat
    BY <1>1
  <2>2. g = m
    BY <1>1 DEF Greater
  <2> HIDE DEF m, b, g
  <2>3. g + b + 1 \in Nat /\ g + b + 1 >= 2
    BY <2>1, <2>2
  <2> QED BY <2>1, <2>2, <2>3 DEF g, b
<1>3. PICK d \in Nat : size = 2 ^ d /\ 2 ^ d \in Nat /\ k <= 2 ^ d
  <2> HIDE DEF k
  <2>1. \E d \in Nat : NextPowerOfTwo(k) = 2 ^ d /\ 2 ^ d \in Nat /\ k <= 2 ^ d
    BY <1>2, NextPowerOfTwoIs
  <2>2. size = NextPowerOfTwo(k)
    BY DEF DomainSizeFor, k
  <2> HIDE DEF size
  <2> QED BY <2>1, <2>2
<1>4. /\ config.size = size /\ config.usable = size - b - 1
      /\ config.omega = CHOOSE w \in Field : Power(w, half) = Modulus - 1
  BY Zenon DEF ConfigFor
<1> HIDE DEF k, size, m, b
<1>5. size \in Nat /\ size >= 2
  BY <1>2, <1>3
<1>6. d # 0
  <2> SUFFICES ASSUME d = 0 PROVE FALSE
    OBVIOUS
  <2>1. 2 ^ d = 1
    OBVIOUS
  <2>2. size = 1
    BY <1>3, <2>1, Zenon
  <2> QED BY <1>5, <2>2
<1>7. \E e \in Nat : size = 2 ^ (e + 1)
  <2>1. d - 1 \in Nat /\ (d - 1) + 1 = d
    BY <1>6
  <2> QED BY <1>3, <2>1
<1>8. config.omega \in Field /\ Power(config.omega, half) = Modulus - 1
  BY <1>1, <1>4
<1>9. config.usable \in Nat /\ m <= config.usable /\ config.usable + 1 <= config.size
  <2> DEFINE u == config.usable
  <2>1. u = size - b - 1 /\ k <= size
    BY <1>3, <1>4
  <2> HIDE DEF u
  <2>2. u \in Nat /\ m <= u /\ u + 1 <= size
    BY <1>2, <1>5, <2>1
  <2> QED BY <1>4, <2>2 DEF u
<1> HIDE DEF half
<1> QED BY <1>1, <1>2, <1>4, <1>5, <1>7, <1>8, <1>9
         DEF DomainSize, Generator, Usable, m, half

LEMMA GeneratorIsRoot ==
    ASSUME columns \in Columns, config = ConfigFor(columns)
    PROVE  Root(Generator, FieldInverse(Generator), DomainSize)
<1> DEFINE w == Generator
           z == FieldInverse(Generator)
           n == DomainSize
<1>1. PICK e \in Nat : n = 2 ^ (e + 1)
  BY DomainIs
<1> DEFINE half == 2 ^ e
<1>2. n \in Nat /\ n >= 2 /\ n < Modulus /\ w \in Field /\ w \in Int /\ Power(w, n \div 2) = Modulus - 1
  BY DomainIs, InField
<1>3. half \in Nat \ {0} /\ n = half + half /\ n \div 2 = half
  <2>1. half \in Nat \ {0} /\ n = 2 * half
    BY <1>1, PowerStep
  <2> HIDE DEF half, n
  <2> QED BY <2>1
<1>4. w # 0 /\ z \in Field /\ z \in Int /\ Same(z * w, 1)
  <2>1. w # 0
    BY DomainFitsFor DEF DomainFits
  <2>2. z \in Field /\ (w * z) % Modulus = 1
    BY <1>2, <2>1, FieldInverseIs
  <2> HIDE DEF w, z
  <2>3. z \in Int /\ w * z = z * w /\ w * z \in Int
    BY <1>2, <2>2, InField
  <2>4. 1 % Modulus = 1
    BY ModulusIs, FieldIs
  <2>5. Same(w * z, 1)
    BY <2>2, <2>3, <2>4, SameRemainder, 1 \in Int
  <2> QED BY <2>1, <2>2, <2>3, <2>5
<1>5. Same(PowerOf(w, half), -1) /\ PowerOf(w, half) \in Int
  <2>1. Same(Power(w, half), PowerOf(w, half)) /\ PowerOf(w, half) \in Int
    BY <1>2, <1>3, PowerIs, PowerStarts
  <2>2. Power(w, half) = Modulus - 1
    BY <1>2, <1>3, Zenon
  <2> DEFINE p == PowerOf(w, half)
             m == Modulus - 1
  <2>3. m \in Int /\ -1 \in Int /\ Same(m, -1)
    <3>1. m \in Int /\ m - (-1) = Modulus * 1
      BY ModulusIs
    <3> QED BY <3>1 DEF Same
  <2> HIDE DEF m, p
  <2>4. p \in Int /\ Same(m, p)
    BY <2>1, <2>2 DEF m, p
  <2>5. Same(p, m)
    BY <2>3, <2>4, SameBack
  <2>6. Same(p, -1)
    BY <2>3, <2>4, <2>5, SameOn
  <2> QED BY <2>4, <2>6 DEF p
<1>6. Same(PowerOf(w, n), 1)
  <2> DEFINE p == PowerOf(w, half)
  <2> HIDE DEF half, n, w
  <2>1. PowerOf(w, n) = p * p
    BY <1>2, <1>3, PowersAdd
  <2> HIDE DEF p
  <2>2. p \in Int /\ Same(p, -1) /\ -1 \in Int
    BY <1>5 DEF p
  <2>3. Same(p * p, (-1) * (-1))
    BY <2>2, SameProduct
  <2>4. (-1) * (-1) = 1
    OBVIOUS
  <2> QED BY <2>1, <2>3, <2>4
<1>7. ASSUME NEW d \in 1 .. n-1
      PROVE  ~ Same(PowerOf(w, d), 1)
  <2> SUFFICES ASSUME Same(PowerOf(w, d), 1) PROVE FALSE
    OBVIOUS
  <2>1. Modulus > 2 /\ d \in Nat \ {0} /\ d < n
    BY <1>2, ModulusIs
  <2>2. 2 ^ (e + 1) <= d
    <3> HIDE DEF w
    <3> QED BY <1>2, <1>5, <2>1, OrderIsPowerOfTwo
  <2>3. n <= d
    BY <1>1, <2>2
  <2> HIDE DEF n
  <2> QED BY <1>2, <2>1, <2>3
<1> HIDE DEF half
<1> QED BY <1>2, <1>4, <1>6, <1>7 DEF Root

-----------------------------------------------------------------------------
(* The values of the polynomials, row by row.                              *)

OnDomain == DomainFits /\ Root(Generator, FieldInverse(Generator), DomainSize)

\* A column's polynomial has the column's values: the two transforms are each
\* other's inverses.
THEOREM Interpolates ==
    ASSUME OnDomain, NEW v, \A i \in 1 .. DomainSize : v[i] \in Int, NEW j \in 0 .. DomainSize-1
    PROVE  Same(PolyValue(FromValues(v), PowerOf(Generator, j)), v[j + 1])
<1> DEFINE n == DomainSize
           w == Generator
           z == FieldInverse(Generator)
           back == FieldInverse(DomainSize)
           p == FromValues(v)
           c == Coefs(p)
           T(k) == SumTo(TransformTerms(v, k), n)
           f == [i \in Nat |-> IF i < n THEN v[i + 1] ELSE 0]
           g == [k \in Nat |-> IF k < n THEN T(k) ELSE 0]
           x == PowerOf(w, j)
<1>1. /\ DomainFits /\ n \in Nat \ {0} /\ n \in Int /\ w \in Int /\ z \in Int /\ Root(w, z, n)
      /\ Same(PowerOf(z, n), 1) /\ j \in Nat
  <2>1. DomainFits /\ Root(w, z, n)
    BY DEF OnDomain
  <2>2. Root(z, w, n)
    BY <2>1, RootBack
  <2>3. n \in Nat \ {0} /\ w \in Int /\ z \in Int /\ Same(PowerOf(z, n), 1)
    BY <2>1, <2>2 DEF Root
  <2>4. n \in Int /\ j \in Nat
    BY <2>3
  <2> QED BY <2>1, <2>3, <2>4
<1>2. /\ p \in Seq(Field) /\ Len(p) = n /\ back \in Field /\ back \in Int /\ Same(n * back, 1)
      /\ \A k \in 1 .. n : T(k - 1) \in Int /\ Same(p[k], T(k - 1) * back)
  BY <1>1, FromValuesIs, InField
<1> HIDE DEF p, back
<1>3. f \in Coefficients /\ g \in Coefficients
  <2>1. \A i \in Nat : (IF i < n THEN v[i + 1] ELSE 0) \in Int
    <3> SUFFICES ASSUME NEW i \in Nat, i < n PROVE v[i + 1] \in Int
      BY 0 \in Int
    <3>1. i + 1 \in 1 .. n
      BY <1>1
    <3> QED BY <3>1
  <2>2. \A k \in Nat : (IF k < n THEN T(k) ELSE 0) \in Int
    <3> SUFFICES ASSUME NEW k \in Nat, k < n PROVE T(k) \in Int
      BY 0 \in Int
    <3> DEFINE m == k + 1
    <3>1. m \in 1 .. n /\ m - 1 = k
      BY <1>1
    <3> HIDE DEF m
    <3>2. T(m - 1) \in Int
      BY <1>2, <3>1
    <3> QED BY <3>1, <3>2
  <2> HIDE DEF n
  <2> QED BY <2>1, <2>2 DEF Coefficients
<1>4. \A k \in 0 .. n-1 : Same(g[k], Evaluation(f, PowerOf(z, k), n))
  <2> SUFFICES ASSUME NEW k \in 0 .. n-1 PROVE Same(g[k], Evaluation(f, PowerOf(z, k), n))
    OBVIOUS
  <2>1. k \in Nat /\ k < n
    BY <1>1
  <2> DEFINE y == PowerOf(z, k)
             s == Terms(f, y)
             t == TransformTerms(v, k)
  <2>2. y \in Int
    BY <1>1, <2>1, PowerStarts
  <2>3. ASSUME NEW i \in 0 .. n-1
        PROVE  t[i] \in Int /\ Same(t[i], 1 * s[i] + 0 * s[i])
    <3>0. i \in Nat /\ i + 1 \in 1 .. n /\ (i + 1) - 1 = i /\ i < n
      BY <1>1
    <3> DEFINE a == v[i + 1]
               l == k * i
               b == Power(z, l % n)
               d == PowerOf(z, l)
    <3>1. l \in Nat
      BY <2>1, <3>0
    <3>2. a \in Int /\ t[i] = a * b
      <4> DEFINE h == i + 1
      <4>1. h \in 1 .. n /\ h - 1 = i
        BY <3>0
      <4> HIDE DEF h
      <4>2. t[h - 1] = v[h] * Power(z, (k * (h - 1)) % n) /\ v[h] \in Int
        BY <1>1, <2>1, <4>1, TransformTermsAre
      <4> HIDE DEF t
      <4> QED BY <4>1, <4>2 DEF h
    <3>3. s[i] = a * d
      <4>1. s[i] = f[i] * PowerOf(y, i)
        <5> HIDE DEF f, y
        <5> QED BY <1>3, <2>2, <3>0, 0 \in Nat, TermsAre
      <4>2. f[i] = a
        BY <3>0
      <4>3. PowerOf(y, i) = d
        BY <1>1, <2>1, <3>0, PowersOfPowers
      <4> QED BY <4>1, <4>2, <4>3
    <3>4. d \in Int /\ b \in Int /\ Same(b, d)
      <4> HIDE DEF l
      <4>1. Same(PowerOf(z, l % n), PowerOf(z, l)) /\ l % n \in Nat
        BY <1>1, <3>1, PowerWraps
      <4>2. b \in Int /\ Same(b, PowerOf(z, l % n)) /\ PowerOf(z, l % n) \in Int /\ d \in Int
        BY <1>1, <3>1, <4>1, PowerIs, PowerStarts
      <4> HIDE DEF b, d
      <4> QED BY <4>1, <4>2, SameOn DEF d
    <3> HIDE DEF a, b, d, s, t
    <3>5. Same(a * b, a * d) /\ a * b \in Int /\ a * d \in Int
      <4>1. Same(a, a)
        BY <3>2, SameItself
      <4>2. Same(a * b, a * d)
        BY <3>2, <3>4, <4>1, SameProduct
      <4>3. a * b \in Int
        BY <3>2, <3>4
      <4>4. a * d \in Int
        BY <3>2, <3>4
      <4> QED BY <4>2, <4>3, <4>4
    <3>6. 1 * (a * d) + 0 * (a * d) = a * d
      BY <3>5
    <3> QED BY <3>2, <3>3, <3>5, <3>6
  <2>4. Summands(s, n)
    <3> HIDE DEF f, y
    <3>1. n \in Nat
      BY <1>1
    <3> QED BY <1>3, <2>2, <3>1, TermsAre
  <2> HIDE DEF s, t, y, f
  <2>5. Summands(t, n)
    BY <2>3 DEF Summands
  <2>6. SumTo(s, n) \in Int /\ Same(SumTo(t, n), 1 * SumTo(s, n) + 0 * SumTo(s, n))
    <3>1. n \in Nat /\ 0 \in Int /\ 1 \in Int
      BY <1>1
    <3> QED BY <2>3, <2>4, <2>5, <3>1, SumsCombine
  <2>7. 1 * SumTo(s, n) + 0 * SumTo(s, n) = SumTo(s, n)
    BY <2>6
  <2>8. g[k] = SumTo(t, n)
    BY <2>1 DEF t
  <2>9. Evaluation(f, y, n) = SumTo(s, n)
    BY DEF Evaluation, s
  <2> HIDE DEF g
  <2> QED BY <2>6, <2>7, <2>8, <2>9 DEF y
<1>5. Same(Evaluation(g, x, n), n * f[j])
  <2> HIDE DEF g, f, z, w, n
  <2> QED BY <1>1, <1>3, <1>4, TransformedBack DEF n
<1>6. f[j] = v[j + 1] /\ f[j] \in Int
  <2>1. j < n
    BY <1>1
  <2>2. j + 1 \in 1 .. n
    BY <1>1
  <2> QED BY <1>1, <2>1, <2>2
<1>7. x \in Int
  BY <1>1, PowerStarts
<1>8. c \in Coefficients /\ \A k \in 0 .. n-1 : Same(c[k], back * g[k] + 0 * g[k])
  <2>1. p \in Seq(Int)
    BY <1>2, FieldsAreNumbers
  <2>2. c \in Coefficients /\ \A i \in Nat : c[i] = IF i < n THEN p[i + 1] ELSE 0
    BY <1>2, <2>1, CoefsAre
  <2> HIDE DEF c
  <2>3. ASSUME NEW k \in 0 .. n-1
        PROVE  Same(c[k], back * g[k] + 0 * g[k])
    <3> DEFINE m == k + 1
               s == T(k)
    <3>1. k \in Nat /\ k < n /\ m \in 1 .. n /\ m - 1 = k
      BY <1>1
    <3>2. c[k] = p[m]
      BY <2>2, <3>1
    <3>3. g[k] = s
      BY <3>1
    <3> HIDE DEF m
    <3>4. s \in Int /\ Same(p[m], s * back)
      BY <1>2, <3>1
    <3> HIDE DEF s, g
    <3>5. back * s + 0 * s = s * back
      BY <1>2, <3>4
    <3> QED BY <3>2, <3>3, <3>4, <3>5
  <2> QED BY <2>2, <2>3
<1> HIDE DEF c, g, x, f
<1> DEFINE ec == Evaluation(c, x, n)
           eg == Evaluation(g, x, n)
           u == f[j]
<1>9. ec \in Int /\ eg \in Int /\ Same(ec, back * eg + 0 * eg)
  <2>1. n \in Nat /\ 0 \in Int
    BY <1>1
  <2> QED BY <1>2, <1>3, <1>7, <1>8, <2>1, EvaluationCombines, EvaluationSteps
<1>10. Same(eg, n * u) /\ u \in Int
  BY <1>5, <1>6
<1> HIDE DEF ec, eg, u, n
<1>11. Same(ec, u)
  <2>1. back * eg + 0 * eg = back * eg /\ back * eg \in Int /\ n * u \in Int /\ back * (n * u) \in Int
    <3>1. n * u \in Int
      BY <1>1, <1>10
    <3>2. back * eg \in Int
      BY <1>2, <1>9
    <3>3. back * (n * u) \in Int
      BY <1>2, <3>1
    <3>4. 0 * eg = 0
      BY <1>9
    <3> QED BY <3>1, <3>2, <3>3, <3>4
  <2>2. Same(back * eg, back * (n * u))
    <3>1. Same(back, back)
      BY <1>2, SameItself
    <3> QED BY <1>2, <1>9, <1>10, <2>1, <3>1, SameProduct
  <2>3. back * (n * u) = (n * back) * u
    BY <1>1, <1>2, <1>10
  <2>4. Same((n * back) * u, 1 * u) /\ 1 * u = u
    <3>1. n * back \in Int
      BY <1>1, <1>2
    <3> QED BY <1>2, <1>10, <3>1, SameItself, SameProduct, 1 \in Int
  <2>5. Same(ec, back * (n * u))
    BY <1>9, <2>1, <2>2, SameOn
  <2> QED BY <1>9, <1>10, <2>1, <2>3, <2>4, <2>5, SameOn
<1>12. PolyValue(p, x) = ec
  BY <1>2 DEF PolyValue, ec, c
<1> QED BY <1>6, <1>11, <1>12 DEF u, x, p

\* x is the point of row i.
PointOf(x, i) == Same(x, PowerOf(Generator, i - 1))

LEMMA OnDomainIs ==
    ASSUME OnDomain
    PROVE  /\ DomainFits /\ DomainSize \in Nat \ {0} /\ DomainSize \in Int
           /\ Generator \in Int /\ FieldInverse(Generator) \in Int
           /\ Same(FieldInverse(Generator) * Generator, 1)
           /\ Same(PowerOf(Generator, DomainSize), 1)
BY DEF OnDomain, Root

LEMMA ValueAtRow ==
    ASSUME OnDomain, NEW v, \A k \in 1 .. DomainSize : v[k] \in Field,
           NEW i \in 1 .. DomainSize, NEW x \in Int, PointOf(x, i)
    PROVE  ValueAt(FromValues(v), x) = v[i]
<1> DEFINE j == i - 1
           p == FromValues(v)
           y == PowerOf(Generator, j)
           n == DomainSize
<1>1. j \in 0 .. n-1 /\ j \in Nat /\ j + 1 = i /\ Generator \in Int
  BY OnDomainIs
<1>2. \A k \in 1 .. n : v[k] \in Int
  BY InField
<1>3. p \in Seq(Int)
  <2>1. p \in Seq(Field)
    BY <1>2, OnDomainIs, FromValuesIs
  <2> QED BY <2>1, FieldsAreNumbers
<1>4. Same(PolyValue(p, y), v[i])
  <2> HIDE DEF j
  <2>1. Same(PolyValue(FromValues(v), PowerOf(Generator, j)), v[j + 1])
    BY <1>1, <1>2, Interpolates
  <2> QED BY <1>1, <2>1
<1>5. y \in Int /\ Same(x, y)
  <2>1. y \in Int
    BY <1>1, PowerStarts
  <2> QED BY <2>1 DEF PointOf
<1> HIDE DEF p, y, j, n
<1>6. Same(PolyValue(p, x), PolyValue(p, y)) /\ PolyValue(p, x) \in Int /\ PolyValue(p, y) \in Int
  BY <1>3, <1>5, ValuesAgree, PolyValueIsNumber
<1>7. ValueAt(p, x) \in Field /\ Same(ValueAt(p, x), PolyValue(p, x))
  BY <1>3, ValueIs
<1>8. v[i] \in Field /\ v[i] \in Int /\ ValueAt(p, x) \in Int
  BY <1>7, InField
<1>9. Same(ValueAt(p, x), PolyValue(p, y))
  BY <1>6, <1>7, <1>8, SameOn
<1>10. Same(ValueAt(p, x), v[i])
  BY <1>4, <1>6, <1>8, <1>9, SameOn
<1> QED BY <1>7, <1>8, <1>10, SameIsEqual DEF p

NextRow(i)   == IF i = DomainSize THEN 1 ELSE i + 1

RowBefore(i) == IF i = 1 THEN DomainSize ELSE i - 1

\* A step along the domain, and one back.
LEMMA PointsAround ==
    ASSUME OnDomain, NEW i \in 1 .. DomainSize, NEW x \in Int, PointOf(x, i)
    PROVE  /\ NextRow(i) \in 1 .. DomainSize /\ RowBefore(i) \in 1 .. DomainSize
           /\ (Generator * x) % Modulus \in Int /\ PointOf((Generator * x) % Modulus, NextRow(i))
           /\ (FieldInverse(Generator) * x) % Modulus \in Int
           /\ PointOf((FieldInverse(Generator) * x) % Modulus, RowBefore(i))
<1> DEFINE n == DomainSize
           w == Generator
           z == FieldInverse(Generator)
           j == i - 1
           y == PowerOf(w, j)
           up == (w * x) % Modulus
           down == (z * x) % Modulus
           k == RowBefore(i) - 1
           c == PowerOf(w, k)
<1>1. /\ n \in Nat \ {0} /\ w \in Int /\ z \in Int /\ Same(z * w, 1) /\ Same(PowerOf(w, n), 1)
      /\ j \in Nat /\ PowerOf(w, n) \in Int
  <2>1. n \in Nat \ {0} /\ w \in Int /\ z \in Int /\ Same(z * w, 1) /\ Same(PowerOf(w, n), 1)
    BY OnDomainIs
  <2>2. j \in Nat
    BY <2>1
  <2> QED BY <2>1, <2>2, PowerStarts
<1>2. y \in Int /\ Same(x, y)
  BY <1>1, PowerStarts DEF PointOf
<1>3. /\ NextRow(i) \in 1 .. n /\ RowBefore(i) \in 1 .. n /\ k \in Nat
      /\ IF i = n THEN NextRow(i) - 1 = 0 /\ j + 1 = n ELSE NextRow(i) - 1 = j + 1
      /\ IF i = 1 THEN k + 1 = n /\ j = 0 ELSE k + 1 = j
  <2> HIDE DEF n
  <2> QED BY <1>1 DEF NextRow, RowBefore, n
<1>4. w * x \in Int /\ z * x \in Int
  <2> HIDE DEF w, z
  <2> QED BY <1>1
<1>5. up \in Int /\ Same(up, w * x) /\ down \in Int /\ Same(down, z * x)
  <2> HIDE DEF w, z
  <2> QED BY <1>4, Remainder, InField
<1>6. PowerOf(w, j + 1) = y * w /\ PowerOf(w, j + 1) \in Int /\ PowerOf(w, 0) = 1
  BY <1>1, PowerStarts
<1> HIDE DEF w, z, y, up, down
<1>7. Same(up, PowerOf(w, j + 1))
  <2>1. Same(w, w)
    BY <1>1, SameItself
  <2>2. Same(w * x, w * y)
    BY <1>1, <1>2, <2>1, SameProduct
  <2>3. w * y = y * w
    BY <1>1, <1>2
  <2> QED BY <1>4, <1>5, <1>6, <2>2, <2>3, SameOn
<1>8. Same(up, PowerOf(w, NextRow(i) - 1))
  <2>1. CASE i = n
    <3>1. Same(up, PowerOf(w, n))
      BY <1>3, <1>7, <2>1
    <3>2. Same(up, 1)
      BY <1>1, <1>5, <3>1, SameOn, 1 \in Int
    <3> QED BY <1>3, <1>6, <2>1, <3>2
  <2>2. CASE i # n
    BY <1>3, <1>7, <2>2
  <2> QED BY <2>1, <2>2
<1>9. c \in Int /\ PowerOf(w, k + 1) = c * w
  BY <1>1, <1>3, PowerStarts
<1>10. Same(y, PowerOf(w, k + 1)) /\ PowerOf(w, k + 1) \in Int
  <2>1. CASE i = 1
    <3>1. y = 1 /\ PowerOf(w, k + 1) = PowerOf(w, n)
      BY <1>3, <1>6, <2>1 DEF y
    <3> QED BY <1>1, <3>1, SameBack, 1 \in Int
  <2>2. CASE i # 1
    <3>1. PowerOf(w, k + 1) = y
      BY <1>3, <2>2 DEF y
    <3> QED BY <1>2, <3>1, SameItself
  <2> QED BY <2>1, <2>2
<1> HIDE DEF c
<1>11. Same(down, c)
  <2>1. Same(x, c * w) /\ c * w \in Int
    BY <1>2, <1>9, <1>10, SameOn
  <2>2. Same(z, z)
    BY <1>1, SameItself
  <2>3. Same(z * x, z * (c * w))
    BY <1>1, <2>1, <2>2, SameProduct
  <2>4. z * (c * w) = (z * w) * c /\ z * (c * w) \in Int /\ z * w \in Int /\ 1 * c = c
    BY <1>1, <1>9
  <2>5. Same(c, c)
    BY <1>9, SameItself
  <2>6. Same((z * w) * c, 1 * c)
    BY <1>1, <1>9, <2>4, <2>5, SameProduct, 1 \in Int
  <2>7. Same(z * x, c)
    BY <1>4, <1>9, <2>3, <2>4, <2>6, SameOn
  <2> QED BY <1>4, <1>5, <1>9, <2>7, SameOn
<1> QED BY <1>3, <1>5, <1>8, <1>11 DEF PointOf, c, w, up, down, z, n

ColumnOf(name) == [i \in 1 .. DomainSize |-> Row(name, i)]

\* What is committed is the columns, and the product.
Commits(com) ==
    /\ \A name \in ColumnNames : com[name] = FromValues(ColumnOf(name))
    /\ com.z = FromValues(zValues)

RowOpen(i) ==
    [a      |-> Row("a", i),      s      |-> Row("s", i),
     aPrime |-> Row("aPrime", i), sPrime |-> Row("sPrime", i),
     z      |-> zValues[i],       zNext  |-> zValues[NextRow(i)],
     aPrimeBefore |-> Row("aPrime", RowBefore(i)),
     qBlind |-> QBlind[i], qLast |-> QLast[i], first |-> FirstRow[i]]

LEMMA OpenedAtRow ==
    ASSUME OnDomain, columns \in Columns, zValues \in [1 .. DomainSize -> Field],
           NEW com, Commits(com), NEW i \in 1 .. DomainSize, NEW x \in Field, PointOf(x, i),
           NEW beta, NEW gamma
    PROVE  ConstraintValue(OpenedAt(com, x), beta, gamma) = ConstraintValue(RowOpen(i), beta, gamma)
<1> DEFINE up == (Generator * x) % Modulus
           down == (FieldInverse(Generator) * x) % Modulus
<1>1. x \in Int
  BY InField
<1>2. /\ NextRow(i) \in 1 .. DomainSize /\ RowBefore(i) \in 1 .. DomainSize
      /\ up \in Int /\ PointOf(up, NextRow(i)) /\ down \in Int /\ PointOf(down, RowBefore(i))
  BY <1>1, PointsAround
<1> HIDE DEF up, down
<1>3. ASSUME NEW name \in ColumnNames
      PROVE  /\ com[name] = FromValues(ColumnOf(name))
             /\ \A k \in 1 .. DomainSize : ColumnOf(name)[k] = Row(name, k) /\ ColumnOf(name)[k] \in Field
  <2>1. ASSUME NEW k \in 1 .. DomainSize PROVE Row(name, k) \in Field
    <3>1. k \in Nat
      BY OnDomainIs
    <3> QED BY <3>1, RowIs DEF ColumnNames
  <2> QED BY <2>1 DEF Commits, ColumnOf
<1>4. ASSUME NEW name \in ColumnNames, NEW k \in 1 .. DomainSize, NEW y \in Int, PointOf(y, k)
      PROVE  ValueAt(com[name], y) = Row(name, k)
  BY <1>3, <1>4, ValueAtRow
<1>5. ASSUME NEW k \in 1 .. DomainSize, NEW y \in Int, PointOf(y, k)
      PROVE  ValueAt(com.z, y) = zValues[k]
  BY <1>5, ValueAtRow DEF Commits
<1>6. /\ \A k \in 1 .. DomainSize : QBlind[k] \in Field /\ QLast[k] \in Field /\ FirstRow[k] \in Field
  BY ModulusIs DEF QBlind, QLast, FirstRow
<1>7. /\ ValueAt(FromValues(QBlind), x) = QBlind[i] /\ ValueAt(FromValues(QLast), x) = QLast[i]
      /\ ValueAt(FromValues(FirstRow), x) = FirstRow[i]
  BY <1>1, <1>6, ValueAtRow
<1>8. FirstRowAt(x) = FirstRow[i]
  <2> DEFINE p == FromValues(FirstRow)
  <2>1. p \in Seq(Int)
    BY OnDomainIs, SelectorsAre, FieldsAreNumbers DEF IsColumn
  <2>2. FirstRowAt(x) \in Field /\ Same(FirstRowAt(x), PolyValue(p, x))
    BY OnDomainIs, FirstRowOpens
  <2> HIDE DEF p
  <2>3. ValueAt(p, x) \in Field /\ Same(ValueAt(p, x), PolyValue(p, x)) /\ PolyValue(p, x) \in Int
    BY <1>1, <2>1, ValueIs, PolyValueIsNumber
  <2>4. Same(FirstRowAt(x), ValueAt(p, x))
    <3>1. FirstRowAt(x) \in Int /\ ValueAt(p, x) \in Int
      BY <2>2, <2>3, InField
    <3> QED BY <2>2, <2>3, <3>1, SameBack, SameOn
  <2>5. FirstRowAt(x) = ValueAt(p, x)
    BY <2>2, <2>3, <2>4, SameIsEqual
  <2> QED BY <1>7, <2>5 DEF p
<1>9. "a" \in ColumnNames /\ "s" \in ColumnNames /\ "aPrime" \in ColumnNames /\ "sPrime" \in ColumnNames
  BY DEF ColumnNames
<1> DEFINE o == OpenedAt(com, x)
           r == RowOpen(i)
<1>10. /\ o.a = r.a /\ o.s = r.s /\ o.aPrime = r.aPrime /\ o.sPrime = r.sPrime
  BY <1>1, <1>4, <1>9 DEF OpenedAt, RowOpen
<1>11. o.z = r.z /\ o.zNext = r.zNext
  BY <1>1, <1>2, <1>5 DEF OpenedAt, RowOpen, up
<1>12. o.aPrimeBefore = r.aPrimeBefore
  BY <1>2, <1>4, <1>9 DEF OpenedAt, RowOpen, down
<1>13. o.qBlind = r.qBlind /\ o.qLast = r.qLast /\ o.first = r.first
  BY <1>7, <1>8 DEF OpenedAt, RowOpen
<1> HIDE DEF o, r
<1>14. ConstraintValue(o, beta, gamma) = ConstraintValue(r, beta, gamma)
  BY <1>10, <1>11, <1>12, <1>13, Zenon DEF ConstraintValue
<1> QED BY <1>14 DEF o, r

\* The prover's check of the constraints at a point is a check of the row.
LEMMA ConstraintAtRow ==
    ASSUME OnDomain, columns \in Columns, zValues \in [1 .. DomainSize -> Field],
           NEW com, Commits(com), Committed(com), IsColumn(com.z),
           NEW i \in 1 .. DomainSize, NEW x \in Field, PointOf(x, i),
           NEW beta \in Field, NEW gamma \in Field
    PROVE  /\ ConstraintPolynomial(com, beta, gamma) \in Seq(Field)
           /\ ValueAt(ConstraintPolynomial(com, beta, gamma), x) = ConstraintValue(RowOpen(i), beta, gamma)
<1> DEFINE c == ConstraintPolynomial(com, beta, gamma)
           v == ConstraintValue(OpenedAt(com, x), beta, gamma)
<1>1. c \in Seq(Field) /\ v \in Field /\ Same(PolyValue(c, x), v)
  BY OnDomainIs, ConstraintIs DEF Stands
<1>2. v = ConstraintValue(RowOpen(i), beta, gamma)
  BY OpenedAtRow
<1> HIDE DEF c, v
<1>3. c \in Seq(Int) /\ x \in Int /\ v \in Int
  BY <1>1, FieldsAreNumbers, InField
<1>4. ValueAt(c, x) \in Field /\ Same(ValueAt(c, x), PolyValue(c, x)) /\ PolyValue(c, x) \in Int
  BY <1>3, ValueIs, PolyValueIsNumber
<1>5. Same(ValueAt(c, x), v)
  <2>1. ValueAt(c, x) \in Int
    BY <1>4, InField
  <2> QED BY <1>1, <1>3, <1>4, <2>1, SameOn
<1>6. ValueAt(c, x) = v
  BY <1>1, <1>4, <1>5, SameIsEqual
<1> QED BY <1>1, <1>2, <1>6 DEF c

\* Every row has its point, and every point its row.
LEMMA PointsAre ==
    ASSUME OnDomain
    PROVE  /\ \A x \in Points : x \in Field /\ \E i \in 1 .. DomainSize : PointOf(x, i)
           /\ \A i \in 1 .. DomainSize : \E x \in Points : PointOf(x, i)
<1> DEFINE n == DomainSize
           w == Generator
<1>1. n \in Nat \ {0} /\ w \in Int /\ Same(PowerOf(w, n), 1) /\ PowerOf(w, n) \in Int /\ PowerOf(w, 0) = 1
  BY OnDomainIs, PowerStarts
<1>2. ASSUME NEW k \in 1 .. n
      PROVE  Power(w, k) \in Field /\ PointOf(Power(w, k), NextRow(k)) /\ NextRow(k) \in 1 .. n
  <2>1. k \in Nat /\ NextRow(k) \in 1 .. n /\ IF k = n THEN NextRow(k) - 1 = 0 ELSE NextRow(k) - 1 = k
    <3> HIDE DEF n
    <3> QED BY <1>1 DEF NextRow, n
  <2>2. /\ Power(w, k) \in Field /\ Power(w, k) \in Int /\ Same(Power(w, k), PowerOf(w, k))
        /\ PowerOf(w, k) \in Int
    BY <1>1, <2>1, PowerIs, PowerStarts
  <2>3. CASE k = n
    <3>1. Same(Power(w, k), 1)
      BY <1>1, <2>2, <2>3, SameOn, 1 \in Int
    <3> QED BY <1>1, <2>1, <2>2, <2>3, <3>1 DEF PointOf
  <2>4. CASE k # n
    BY <2>1, <2>2, <2>4 DEF PointOf
  <2> QED BY <2>3, <2>4
<1>3. ASSUME NEW x \in Points PROVE x \in Field /\ \E i \in 1 .. n : PointOf(x, i)
  <2>1. PICK k \in 1 .. n : x = Power(w, k)
    BY DEF Points
  <2> QED BY <1>2, <2>1
<1>4. ASSUME NEW i \in 1 .. n PROVE \E x \in Points : PointOf(x, i)
  <2>1. RowBefore(i) \in 1 .. n /\ NextRow(RowBefore(i)) = i
    <3> HIDE DEF n
    <3> QED BY <1>1 DEF NextRow, RowBefore, n
  <2>2. Power(w, RowBefore(i)) \in Points
    BY <2>1 DEF Points
  <2> QED BY <1>2, <2>1, <2>2
<1> QED BY <1>3, <1>4

-----------------------------------------------------------------------------
(* The constraints, row by row.                                            *)

\* The recursion of compute_grand_product, on what it has left behind.
Multiplied ==
    /\ zValues \in [1 .. DomainSize -> Field] /\ zValues[1] = 1
    /\ \A i \in 1 .. DomainSize - 1 :
         /\ Numerator(i) \in Field /\ Denominator(i) \in Field /\ Denominator(i) # 0
         /\ zValues[i + 1] = (zValues[i] * Numerator(i) * FieldInverse(Denominator(i))) % Modulus

\* The columns are committed to and multiplied up.
RowsStand ==
    /\ OnDomain /\ columns \in Columns /\ config = ConfigFor(columns)
    /\ Beta \in Field /\ Gamma \in Field
    /\ Multiplied

LEMMA Regrouped ==
    ASSUME NEW x \in Int, NEW a \in Int, NEW b \in Int
    PROVE  /\ Same(((x * a) % Modulus) * b, x * ((a * b) % Modulus))
           /\ ((x * a) % Modulus) * b \in Int /\ x * ((a * b) % Modulus) \in Int
<1> DEFINE c == x * a
           d == a * b
           r == c % Modulus
           s == d % Modulus
<1>1. c \in Int /\ d \in Int /\ c * b = x * d
  OBVIOUS
<1> HIDE DEF c, d
<1>2. r \in Field /\ Same(r, c) /\ s \in Field /\ Same(s, d)
  BY <1>1, Remainder
<1>3. r \in Int /\ s \in Int
  BY <1>2, InField
<1> HIDE DEF r, s
<1>4. r * b \in Int /\ c * b \in Int /\ x * s \in Int /\ x * d \in Int
  BY <1>1, <1>3
<1>5. Same(b, b) /\ Same(x, x)
  BY SameItself
<1>6. Same(r * b, c * b)
  BY <1>1, <1>2, <1>3, <1>5, SameProduct
<1>7. Same(x * s, x * d)
  BY <1>1, <1>2, <1>3, <1>5, SameProduct
<1>8. Same(x * d, x * s)
  BY <1>4, <1>7, SameBack
<1>9. Same(r * b, x * s)
  BY <1>1, <1>4, <1>6, <1>8, SameOn
<1> QED BY <1>4, <1>9 DEF r, s, c, d

\* From one row to the next.
LEMMA ProductStep ==
    ASSUME Multiplied, NEW i \in 1 .. DomainSize - 1, DomainSize \in Nat
    PROVE  /\ zValues[i] \in Field /\ zValues[i + 1] \in Field
           /\ Same(zValues[i + 1] * Denominator(i), zValues[i] * Numerator(i))
<1> DEFINE z == zValues[i]
           y == zValues[i + 1]
           u == Numerator(i)
           d == Denominator(i)
           b == FieldInverse(d)
           c == z * u
<1>1. i \in 1 .. DomainSize /\ i + 1 \in 1 .. DomainSize
  OBVIOUS
<1>2. /\ z \in Field /\ y \in Field /\ u \in Field /\ d \in Field /\ d # 0
      /\ y = (c * b) % Modulus
  BY <1>1 DEF Multiplied
<1>3. b \in Field /\ (d * b) % Modulus = 1
  BY <1>2, FieldInverseIs
<1>4. z \in Int /\ y \in Int /\ u \in Int /\ d \in Int /\ b \in Int
  BY <1>2, <1>3, InField
<1> HIDE DEF z, y, u, d, b
<1>5. c \in Int
  BY <1>4
<1> HIDE DEF c
<1>6. c * b \in Int /\ d * b \in Int
  BY <1>4, <1>5
<1>7. Same(y, c * b) /\ Same(1, d * b)
  BY <1>2, <1>3, <1>6, Remainder
<1>8. Same(y * d, (c * b) * d)
  BY <1>4, <1>6, <1>7, SameItself, SameProduct
<1>9. (c * b) * d = c * (d * b)
  BY <1>4, <1>5
<1>10. Same(c * 1, c * (d * b)) /\ c * 1 = c
  BY <1>5, <1>6, <1>7, SameItself, SameProduct, 1 \in Int
<1>11. Same(c * (d * b), c)
  <2>1. c * (d * b) \in Int
    BY <1>5, <1>6
  <2> QED BY <1>5, <1>10, <2>1, SameBack
<1>12. Same(y * d, c)
  <2>1. y * d \in Int /\ c * (d * b) \in Int
    <3>1. y * d \in Int
      BY <1>4
    <3>2. c * (d * b) \in Int
      BY <1>5, <1>6
    <3> QED BY <3>1, <3>2
  <2> QED BY <1>5, <1>8, <1>9, <1>11, <2>1, SameOn
<1> QED BY <1>2, <1>12 DEF c, z, y, u, d

LEMMA RowsAre ==
    ASSUME RowsStand, NEW i \in 1 .. DomainSize
    PROVE  /\ DomainSize \in Nat /\ DomainSize >= 2 /\ Usable \in Nat \ {0} /\ Usable + 1 <= DomainSize
           /\ \A name \in ColumnNames : Row(name, i) \in Field /\ Row(name, RowBefore(i)) \in Field
           /\ NextRow(i) \in 1 .. DomainSize /\ zValues[i] \in Field /\ zValues[NextRow(i)] \in Field
           /\ Beta \in Int /\ Gamma \in Int /\ zValues[1] = 1
<1>1. /\ DomainSize \in Nat /\ DomainSize >= 2 /\ Usable \in Nat /\ Usable + 1 <= DomainSize
      /\ Len(columns.a) \in Nat \ {0} /\ Len(columns.a) <= Usable
  BY DomainIs DEF RowsStand
<1>2. i \in Nat /\ RowBefore(i) \in Nat /\ NextRow(i) \in 1 .. DomainSize
  BY <1>1 DEF RowBefore, NextRow
<1>3. ASSUME NEW name \in ColumnNames PROVE Row(name, i) \in Field /\ Row(name, RowBefore(i)) \in Field
  BY <1>2, RowIs DEF RowsStand, ColumnNames
<1>4. zValues[i] \in Field /\ zValues[NextRow(i)] \in Field /\ zValues[1] = 1
  BY <1>2 DEF RowsStand, Multiplied
<1>5. Beta \in Int /\ Gamma \in Int
  BY InField DEF RowsStand
<1> QED BY <1>1, <1>2, <1>3, <1>4, <1>5

\* In a row of data the product is a step further.
LEMMA PermutationHolds ==
    ASSUME RowsStand, NEW i \in 1 .. Usable
    PROVE  LET o   == RowOpen(i)
               lhs == ((o.zNext * (o.aPrime + Beta)) % Modulus) * (o.sPrime + Gamma)
               rhs == ((o.z * (o.a + Beta)) % Modulus) * (o.s + Gamma)
           IN  (lhs - rhs) % Modulus = 0
<1>1. i \in 1 .. DomainSize /\ i \in 1 .. DomainSize - 1 /\ NextRow(i) = i + 1 /\ DomainSize \in Nat
  <2>1. DomainSize \in Nat /\ Usable \in Nat /\ Usable + 1 <= DomainSize
    BY DomainIs DEF RowsStand
  <2> QED BY <2>1 DEF NextRow
<1> DEFINE a == Row("a", i) + Beta
           s == Row("s", i) + Gamma
           p == Row("aPrime", i) + Beta
           q == Row("sPrime", i) + Gamma
           z == zValues[i]
           y == zValues[i + 1]
           lhs == ((y * p) % Modulus) * q
           rhs == ((z * a) % Modulus) * s
<1>2. /\ a \in Int /\ s \in Int /\ p \in Int /\ q \in Int /\ z \in Int /\ y \in Int
  <2>1. /\ \A name \in ColumnNames : Row(name, i) \in Int
        /\ z \in Int /\ y \in Int /\ Beta \in Int /\ Gamma \in Int
    BY <1>1, RowsAre, InField
  <2>2. /\ Row("a", i) \in Int /\ Row("s", i) \in Int /\ Row("aPrime", i) \in Int /\ Row("sPrime", i) \in Int
    BY <2>1 DEF ColumnNames
  <2> QED BY <2>1, <2>2
<1>3. Numerator(i) = (a * s) % Modulus /\ Denominator(i) = (p * q) % Modulus
  <2>1. i <= Usable
    BY DomainIs DEF RowsStand
  <2> QED BY <2>1 DEF Numerator, Denominator, Factors
<1>4. Same(y * Denominator(i), z * Numerator(i))
  BY <1>1, ProductStep DEF RowsStand
<1>5. RowOpen(i).zNext = y /\ RowOpen(i).z = z /\ RowOpen(i).aPrime + Beta = p
      /\ RowOpen(i).sPrime + Gamma = q /\ RowOpen(i).a + Beta = a /\ RowOpen(i).s + Gamma = s
  BY <1>1 DEF RowOpen
<1> HIDE DEF a, s, p, q, z, y
<1> DEFINE l == y * ((p * q) % Modulus)
           r == z * ((a * s) % Modulus)
<1>6. Same(lhs, l) /\ lhs \in Int /\ l \in Int /\ Same(rhs, r) /\ rhs \in Int /\ r \in Int
  BY <1>2, Regrouped
<1>7. Same(l, r)
  BY <1>3, <1>4
<1> HIDE DEF l, r, lhs, rhs
<1>8. Same(lhs, rhs)
  BY <1>6, <1>7, SameOn, SameBack
<1>9. Same(lhs - rhs, 0) /\ lhs - rhs \in Int
  <2>1. Same(lhs - rhs, rhs - rhs) /\ rhs - rhs = 0 /\ lhs - rhs \in Int
    BY <1>6, <1>8, SameItself, SameDifference
  <2> QED BY <2>1
<1>10. (lhs - rhs) % Modulus = 0
  BY <1>9, ZeroRemainder
<1> QED BY <1>5, <1>10 DEF lhs, rhs

\* A table's row of data, of a lookup, or the first of them is -1.
RowIsLookup(i) ==
    \/ columns.aPrime[i] = columns.sPrime[i]
    \/ i = 1 /\ columns.aPrime[1] = Modulus - 1
    \/ i > 1 /\ columns.aPrime[i] = columns.aPrime[i - 1]

RowVanishes(i) == ConstraintValue(RowOpen(i), Beta, Gamma) = 0

\* What is left of the constraints in each kind of row.
LEMMA RowValue ==
    ASSUME RowsStand, NEW i \in 1 .. DomainSize
    PROVE  LET a == Row("aPrime", i)
               d == a - Row("sPrime", i)
               b == a - Row("aPrime", RowBefore(i))
               z == zValues[i]
               v == ConstraintValue(RowOpen(i), Beta, Gamma)
           IN  /\ 1 < i /\ i <= Usable => v = ((d * b) % Modulus) % Modulus
               /\ i = 1 => v = (((d * b) % Modulus) + d) % Modulus
               /\ i = Usable + 1 => v = ((z * z - z) % Modulus) % Modulus
               /\ i > Usable + 1 => v = 0
<1> DEFINE o == RowOpen(i)
           a == Row("aPrime", i)
           d == a - Row("sPrime", i)
           b == a - Row("aPrime", RowBefore(i))
           z == zValues[i]
           p == (((o.zNext * (o.aPrime + Beta)) % Modulus) * (o.sPrime + Gamma)
                 - ((o.z * (o.a + Beta)) % Modulus) * (o.s + Gamma)) % Modulus
           e == (d * b) % Modulus
           h == (z * z - z) % Modulus
           l == QLast[i]
           k == QBlind[i]
           f == FirstRow[i]
           v == ConstraintValue(RowOpen(i), Beta, Gamma)
<1>1. v = ((1 - (l + k)) * p + (1 - (l + k)) * e + f * d + f * (1 - z) + l * h) % Modulus
  BY DEF ConstraintValue, RowOpen
<1>2. /\ DomainSize \in Nat /\ DomainSize >= 2 /\ Usable \in Nat \ {0} /\ Usable + 1 <= DomainSize
      /\ zValues[1] = 1
  BY RowsAre
<1>3. /\ l = IF i = Usable + 1 THEN 1 ELSE 0
      /\ k = IF i > Usable + 1 THEN 1 ELSE 0
      /\ f = IF i = 1 THEN 1 ELSE 0
  BY DEF QLast, QBlind, FirstRow
<1>4. d \in Int /\ b \in Int /\ z \in Int
  <2>1. /\ Row("aPrime", i) \in Field /\ Row("sPrime", i) \in Field /\ Row("aPrime", RowBefore(i)) \in Field
        /\ zValues[i] \in Field
    BY RowsAre DEF ColumnNames
  <2> QED BY <2>1, InField
<1>5. p \in Int
  <2> DEFINE x == ((o.zNext * (o.aPrime + Beta)) % Modulus) * (o.sPrime + Gamma)
             y == ((o.z * (o.a + Beta)) % Modulus) * (o.s + Gamma)
  <2>1. /\ Row("a", i) \in Int /\ Row("s", i) \in Int /\ Row("aPrime", i) \in Int /\ Row("sPrime", i) \in Int
        /\ zValues[i] \in Int /\ zValues[NextRow(i)] \in Int /\ Beta \in Int /\ Gamma \in Int
    BY RowsAre, InField DEF ColumnNames
  <2>2. /\ o.zNext \in Int /\ o.aPrime + Beta \in Int /\ o.sPrime + Gamma \in Int
        /\ o.z \in Int /\ o.a + Beta \in Int /\ o.s + Gamma \in Int
    BY <2>1 DEF RowOpen
  <2>3. x \in Int /\ y \in Int
    BY <2>2, Regrouped
  <2> HIDE DEF x, y
  <2>4. x - y \in Int
    BY <2>3
  <2>5. (x - y) % Modulus \in Int
    BY <2>4, Remainder, InField
  <2> QED BY <2>5 DEF x, y
<1>6. e \in Int /\ h \in Int
  <2>1. d * b \in Int /\ z * z - z \in Int
    BY <1>4
  <2> QED BY <2>1, Remainder, InField
<1>7. i <= Usable => p = 0
  BY PermutationHolds
<1>8. i = 1 => z = 1
  BY <1>2
<1> HIDE DEF p, e, d, z, h, b, l, k, f, v
<1>9. 1 < i /\ i <= Usable => v = e % Modulus
  <2> SUFFICES ASSUME 1 < i, i <= Usable PROVE v = e % Modulus
    OBVIOUS
  <2>1. l = 0 /\ k = 0 /\ f = 0 /\ p = 0
    BY <1>2, <1>3, <1>7
  <2>2. (1 - (l + k)) * p + (1 - (l + k)) * e + f * d + f * (1 - z) + l * h = e
    BY <1>4, <1>6, <2>1
  <2> QED BY <1>1, <2>2
<1>10. i = 1 => v = (e + d) % Modulus
  <2> SUFFICES ASSUME i = 1 PROVE v = (e + d) % Modulus
    OBVIOUS
  <2>1. l = 0 /\ k = 0 /\ f = 1 /\ p = 0 /\ z = 1
    BY <1>2, <1>3, <1>7, <1>8
  <2>2. (1 - (l + k)) * p + (1 - (l + k)) * e + f * d + f * (1 - z) + l * h = e + d
    BY <1>4, <1>6, <2>1
  <2> QED BY <1>1, <2>2
<1>11. i = Usable + 1 => v = h % Modulus
  <2> SUFFICES ASSUME i = Usable + 1 PROVE v = h % Modulus
    OBVIOUS
  <2>1. l = 1 /\ k = 0 /\ f = 0
    BY <1>2, <1>3
  <2>2. (1 - (l + k)) * p + (1 - (l + k)) * e + f * d + f * (1 - z) + l * h = h
    BY <1>4, <1>5, <1>6, <2>1
  <2> QED BY <1>1, <2>2
<1>12. i > Usable + 1 => v = 0
  <2> SUFFICES ASSUME i > Usable + 1 PROVE v = 0
    OBVIOUS
  <2>1. l = 0 /\ k = 1 /\ f = 0
    BY <1>2, <1>3
  <2>2. (1 - (l + k)) * p + (1 - (l + k)) * e + f * d + f * (1 - z) + l * h = 0
    BY <1>4, <1>5, <1>6, <2>1
  <2>3. 0 % Modulus = 0
    BY ModulusIs
  <2> QED BY <1>1, <2>2, <2>3
<1> QED BY <1>9, <1>10, <1>11, <1>12 DEF e, d, z, h, b, v

LEMMA TwiceReduced ==
    ASSUME NEW x \in Int
    PROVE  ((x % Modulus) % Modulus = 0) <=> Same(x, 0)
<1>1. x % Modulus \in Int /\ Same(x % Modulus, x)
  BY Remainder, InField
<1>2. ((x % Modulus) % Modulus = 0) <=> Same(x % Modulus, 0)
  BY <1>1, ZeroRemainder
<1>3. Same(x, x % Modulus)
  BY <1>1, SameBack
<1> QED BY <1>1, <1>2, <1>3, SameOn, 0 \in Int

\* The row above a row of data holds what the column says.
LEMMA RowAbove ==
    ASSUME RowsStand, NEW i \in 1 .. Usable
    PROVE  Row("aPrime", RowBefore(i)) = IF i = 1 THEN 0 ELSE Row("aPrime", i - 1)
<1>1. /\ DomainSize \in Nat /\ Usable + 1 <= DomainSize /\ Len(columns.a) <= Usable /\ Usable \in Nat
      /\ Len(columns.a) \in Nat
  BY DomainIs DEF RowsStand
<1>2. Len(columns["aPrime"]) = Len(columns.a)
  BY ColumnsAssumption DEF RowsStand
<1>3. DomainSize > Len(columns["aPrime"])
  BY <1>1, <1>2
<1>4. Row("aPrime", DomainSize) = 0
  BY <1>1, <1>2, <1>3 DEF Row, At
<1> QED BY <1>4 DEF RowBefore

\* Where the constraints vanish: a row of data is a row of a lookup; the boundary
\* row says that the product is zero or one; the blinding rows say nothing.
LEMMA RowSays ==
    ASSUME RowsStand, NEW i \in 1 .. DomainSize
    PROVE  LET a == Row("aPrime", i)
               s == Row("sPrime", i)
           IN  /\ 1 < i /\ i <= Usable => (RowVanishes(i) <=> a = s \/ a = Row("aPrime", i - 1))
               /\ i = 1 => (RowVanishes(i) <=> a = s \/ a = Modulus - 1)
               /\ i = Usable + 1 => (RowVanishes(i) <=> zValues[i] \in {0, 1})
               /\ i > Usable + 1 => RowVanishes(i)
<1> DEFINE a == Row("aPrime", i)
           s == Row("sPrime", i)
           c == Row("aPrime", RowBefore(i))
           z == zValues[i]
           d == a - s
           b == a - c
           v == ConstraintValue(RowOpen(i), Beta, Gamma)
<1>1. a \in Field /\ s \in Field /\ c \in Field /\ z \in Field /\ Usable \in Nat \ {0}
  BY RowsAre DEF ColumnNames
<1>2. /\ 1 < i /\ i <= Usable => v = ((d * b) % Modulus) % Modulus
      /\ i = 1 => v = (((d * b) % Modulus) + d) % Modulus
      /\ i = Usable + 1 => v = ((z * z - z) % Modulus) % Modulus
      /\ i > Usable + 1 => v = 0
  BY RowValue
<1>3. i <= Usable => c = IF i = 1 THEN 0 ELSE Row("aPrime", i - 1)
  BY RowAbove, <1>1
<1>4. a \in Int /\ s \in Int /\ c \in Int /\ z \in Int
  BY <1>1, InField
<1> HIDE DEF a, s, c, z, v
<1>5. d \in Int /\ b \in Int /\ (Same(d, 0) <=> a = s) /\ (Same(b, 0) <=> a = c)
  BY <1>1, <1>4, ZeroDifference
<1> HIDE DEF d, b
<1>6. d * b \in Int
  BY <1>5
<1>7. 1 < i /\ i <= Usable => (v = 0 <=> a = s \/ a = c)
  <2>1. (((d * b) % Modulus) % Modulus = 0) <=> Same(d * b, 0)
    BY <1>6, TwiceReduced
  <2>2. Same(d * b, 0) <=> Same(d, 0) \/ Same(b, 0)
    BY <1>5, ZeroProduct
  <2> QED BY <1>2, <1>5, <2>1, <2>2
<1>8. i = 1 => (v = 0 <=> a = s \/ a = Modulus - 1)
  <2> SUFFICES ASSUME i = 1 PROVE v = 0 <=> a = s \/ a = Modulus - 1
    OBVIOUS
  <2> DEFINE r == (d * b) % Modulus
             m == Modulus - 1
             f == a - m
  <2>1. c = 0 /\ b = a
    BY <1>1, <1>3, <1>4 DEF b
  <2>2. r \in Int /\ Same(r, d * b)
    BY <1>6, Remainder, InField
  <2>3. v = (r + d) % Modulus
    BY <1>2
  <2> HIDE DEF r
  <2>4. r + d \in Int /\ d * b + d \in Int /\ d * b + d = d * (a + 1)
    <3>1. d * b + d = d * (a + 1)
      BY <1>4, <1>5, <2>1
    <3> QED BY <1>5, <1>6, <2>2, <3>1
  <2>5. Same(r + d, d * b + d)
    BY <1>5, <1>6, <2>2, SameItself, SameSum
  <2>6. v = 0 <=> Same(r + d, 0)
    BY <2>3, <2>4, ZeroRemainder
  <2>7. Same(r + d, 0) <=> Same(d * b + d, 0)
    <3>1. Same(d * b + d, r + d)
      BY <2>4, <2>5, SameBack
    <3> QED BY <2>4, <2>5, <3>1, SameOn, 0 \in Int
  <2>8. Same(d * (a + 1), 0) <=> Same(d, 0) \/ Same(a + 1, 0)
    <3>1. a + 1 \in Int
      BY <1>4
    <3> QED BY <1>5, <3>1, ZeroProduct
  <2>9. Same(a + 1, 0) <=> Same(f, 0)
    <3>1. m \in Int /\ f \in Int /\ a + 1 = f + Modulus /\ a + 1 \in Int
      BY <1>4, ModulusIs
    <3>2. Same(a + 1, f)
      <4>1. (a + 1) - f = Modulus * 1
        BY <3>1, ModulusIs
      <4> QED BY <4>1 DEF Same
    <3>3. Same(f, a + 1)
      BY <3>1, <3>2, SameBack
    <3> HIDE DEF f
    <3> QED BY <3>1, <3>2, <3>3, SameOn, 0 \in Int
  <2>10. Same(f, 0) <=> a = m
    <3>1. m \in Field
      BY ModulusIs DEF Field
    <3> QED BY <1>1, <3>1, ZeroDifference
  <2> QED BY <1>5, <2>4, <2>6, <2>7, <2>8, <2>9, <2>10
<1>9. i = Usable + 1 => (v = 0 <=> z \in {0, 1})
  <2> DEFINE q == z - 1
             x == z * z - z
  <2>1. x \in Int /\ x = z * q /\ q \in Int
    BY <1>4
  <2>2. ((x % Modulus) % Modulus = 0) <=> Same(x, 0)
    BY <2>1, TwiceReduced
  <2>3. Same(z * q, 0) <=> Same(z, 0) \/ Same(q, 0)
    BY <1>4, <2>1, ZeroProduct
  <2>4. Same(q, 0) <=> z = 1
    BY <1>1, ModulusIs, ZeroDifference
  <2>5. Same(z, 0) <=> z = 0
    <3>1. Same(z, 0) => z = 0
      BY <1>1, ModulusIs, SameIsEqual
    <3>2. z = 0 => Same(z, 0)
      BY SameItself, 0 \in Int
    <3> QED BY <3>1, <3>2
  <2>6. x = z * q /\ (i = Usable + 1 => v = (x % Modulus) % Modulus)
    BY <1>2, <2>1
  <2> HIDE DEF x, q
  <2> QED BY <2>2, <2>3, <2>4, <2>5, <2>6
<1> QED BY <1>1, <1>2, <1>3, <1>7, <1>8, <1>9 DEF a, s, c, z, v, RowVanishes

LEMMA DataRow ==
    ASSUME columns \in Columns, NEW name \in ColumnNames, NEW i \in Nat \ {0}
    PROVE  /\ Len(columns.a) \in Nat
           /\ i <= Len(columns.a) => Row(name, i) = columns[name][i] /\ i \in Rows /\ columns[name][i] \in Field
           /\ i > Len(columns.a) => Row(name, i) = 0
<1>1. columns[name] \in Seq(Field) /\ Len(columns[name]) = Len(columns.a) /\ columns.a \in Seq(Field)
  BY ColumnsAssumption DEF ColumnNames
<1> QED BY <1>1 DEF Row, At, Rows

\* The constraints vanish on the domain when they vanish in every row.
LEMMA PointsVanish ==
    ASSUME RowsStand, NEW com, Commits(com), Committed(com), IsColumn(com.z)
    PROVE  (\A x \in Points : ValueAt(ConstraintPolynomial(com, Beta, Gamma), x) = 0)
           <=> \A i \in 1 .. DomainSize : RowVanishes(i)
<1> DEFINE C(x) == ValueAt(ConstraintPolynomial(com, Beta, Gamma), x)
<1>1. ASSUME NEW x \in Points, NEW i \in 1 .. DomainSize, PointOf(x, i)
      PROVE  C(x) = 0 <=> RowVanishes(i)
  <2>1. x \in Field /\ OnDomain
    BY PointsAre DEF RowsStand
  <2>2. C(x) = ConstraintValue(RowOpen(i), Beta, Gamma)
    BY <1>1, <2>1, ConstraintAtRow DEF RowsStand, Multiplied
  <2> QED BY <2>2 DEF RowVanishes
<1>2. /\ \A x \in Points : \E i \in 1 .. DomainSize : PointOf(x, i)
      /\ \A i \in 1 .. DomainSize : \E x \in Points : PointOf(x, i)
  BY PointsAre DEF RowsStand
<1> HIDE DEF C
<1>3. (\A x \in Points : C(x) = 0) <=> \A i \in 1 .. DomainSize : RowVanishes(i)
  BY <1>1, <1>2
<1> QED BY <1>3 DEF C

LEMMA RowsSeparate ==
    ASSUME RowsStand, \A i \in 1 .. DomainSize : RowVanishes(i)
    PROVE  (\A i \in Rows : RowIsLookup(i)) /\ zValues[Usable + 1] \in {0, 1}
<1>1. /\ DomainSize \in Nat /\ Usable \in Nat /\ Usable + 1 <= DomainSize
      /\ Len(columns.a) \in Nat /\ Len(columns.a) <= Usable
  BY DomainIs DEF RowsStand
<1>2. zValues[Usable + 1] \in {0, 1}
  <2>1. Usable + 1 \in 1 .. DomainSize
    BY <1>1
  <2> QED BY <2>1, RowSays
<1>3. ASSUME NEW i \in Rows PROVE RowIsLookup(i)
  <2>1. i \in 1 .. DomainSize /\ i \in Nat \ {0} /\ i <= Usable /\ i <= Len(columns.a)
    BY <1>1 DEF Rows
  <2>2. Row("aPrime", i) = columns.aPrime[i] /\ Row("sPrime", i) = columns.sPrime[i]
    BY <2>1, DataRow DEF RowsStand, ColumnNames
  <2>3. CASE i = 1
    BY <2>1, <2>2, <2>3, RowSays DEF RowIsLookup
  <2>4. CASE i # 1
    <3>1. i - 1 \in Nat \ {0} /\ i - 1 <= Len(columns.a) /\ 1 < i
      BY <2>1, <2>4, <1>1
    <3>2. Row("aPrime", i - 1) = columns.aPrime[i - 1]
      BY <3>1, DataRow DEF RowsStand, ColumnNames
    <3> QED BY <2>1, <2>2, <3>1, <3>2, RowSays DEF RowIsLookup
  <2> QED BY <2>3, <2>4
<1> QED BY <1>2, <1>3

LEMMA LookupVanishes ==
    ASSUME RowsStand, \A i \in Rows : NotAbove(i) => columns.aPrime[i] = columns.sPrime[i],
           zValues[Usable + 1] = 1, NEW i \in 1 .. DomainSize
    PROVE  RowVanishes(i)
<1>1. /\ DomainSize \in Nat /\ Usable \in Nat /\ Usable + 1 <= DomainSize
      /\ Len(columns.a) \in Nat \ {0} /\ Len(columns.a) <= Usable /\ i \in Nat \ {0}
  BY DomainIs DEF RowsStand
<1> DEFINE L == Len(columns.a)
<1>2. /\ i <= L => Row("aPrime", i) = columns.aPrime[i] /\ Row("sPrime", i) = columns.sPrime[i] /\ i \in Rows
      /\ i > L => Row("aPrime", i) = 0 /\ Row("sPrime", i) = 0
  BY <1>1, DataRow DEF RowsStand, ColumnNames
<1>3. CASE i > L /\ i <= Usable
  <2>1. 1 < i
    BY <1>1, <1>3
  <2> QED BY <1>2, <1>3, <2>1, RowSays
<1>4. CASE i = 1
  <2>1. columns.aPrime[i] = columns.sPrime[i] /\ i <= L
    BY <1>1, <1>2, <1>4 DEF NotAbove
  <2> QED BY <1>2, <1>4, <2>1, RowSays
<1>5. CASE 1 < i /\ i <= L
  <2>1. i - 1 \in Nat \ {0} /\ i - 1 <= L
    BY <1>1, <1>5
  <2>2. Row("aPrime", i - 1) = columns.aPrime[i - 1]
    BY <2>1, DataRow DEF RowsStand, ColumnNames
  <2>3. columns.aPrime[i] = columns.sPrime[i] \/ columns.aPrime[i] = columns.aPrime[i - 1]
    BY <1>2, <1>5 DEF NotAbove
  <2>4. i <= Usable
    BY <1>1, <1>5
  <2> QED BY <1>2, <1>5, <2>2, <2>3, <2>4, RowSays
<1>6. CASE i > Usable
  <2>1. i = Usable + 1 \/ i > Usable + 1
    BY <1>1, <1>6
  <2> QED BY <2>1, RowSays
<1> QED BY <1>1, <1>3, <1>4, <1>5, <1>6

-----------------------------------------------------------------------------
(* The product over the rows of a lookup is one.                           *)

\* A column, with a challenge added to every row.
Moved(name, c) == [i \in Nat |-> Row(name, i) + c]

LEMMA MovedAre ==
    ASSUME columns \in Columns, NEW name \in ColumnNames, NEW c \in Int, NEW k \in Nat
    PROVE  Numbers(Moved(name, c), k)
<1> SUFFICES ASSUME NEW i \in 1 .. k PROVE Moved(name, c)[i] \in Int
  BY DEF Numbers
<1>1. i \in Nat
  OBVIOUS
<1>2. Row(name, i) \in Int
  BY <1>1, RowIs, InField DEF ColumnNames
<1> QED BY <1>1, <1>2 DEF Moved

\* A column and its rearrangement have one product.
LEMMA ColumnsMultiplyAlike ==
    ASSUME columns \in Columns, NEW p \in ColumnNames, NEW q \in ColumnNames,
           Rearranged(columns[p], columns[q]), NEW c \in Int, NEW k \in Nat, Len(columns.a) <= k
    PROVE  ProductOf(Moved(p, c), k) = ProductOf(Moved(q, c), k)
<1> DEFINE L == Len(columns.a)
           F == [v \in Field |-> v + c]
           Of(name) == [i \in 1 .. L |-> F[columns[name][i]]]
<1>1. L \in Nat
  BY ColumnsAssumption
<1>2. ASSUME NEW name \in ColumnNames
      PROVE  /\ DOMAIN columns[name] = 1 .. L /\ Listed(columns[name], Field, L)
             /\ \A i \in 1 .. L : Of(name)[i] = Moved(name, c)[i]
             /\ \A i \in 1 .. k : i > L => Moved(name, c)[i] = 0 + c
  <2>1. columns[name] \in Seq(Field) /\ Len(columns[name]) = L
    BY ColumnsAssumption DEF ColumnNames
  <2>2. DOMAIN columns[name] = 1 .. L /\ Listed(columns[name], Field, L)
    BY <2>1 DEF Listed
  <2>3. ASSUME NEW i \in 1 .. L PROVE Of(name)[i] = Moved(name, c)[i]
    <3>1. i \in Nat \ {0} /\ i <= L
      BY <1>1
    <3>2. Row(name, i) = columns[name][i] /\ columns[name][i] \in Field
      BY <3>1, DataRow
    <3> QED BY <3>1, <3>2 DEF Moved
  <2>4. ASSUME NEW i \in 1 .. k, i > L PROVE Moved(name, c)[i] = 0 + c
    <3>1. i \in Nat \ {0}
      OBVIOUS
    <3>2. Row(name, i) = 0
      BY <2>4, <3>1, DataRow
    <3> QED BY <3>1, <3>2 DEF Moved
  <2> QED BY <2>2, <2>3, <2>4
<1>3. F \in [Field -> Int]
  BY InField
<1>4. Alike(columns[p], columns[q], Field, L)
  BY <1>2 DEF Alike, Rearranged
<1> HIDE DEF F, L
<1>5. ProductOf(Of(p), L) = ProductOf(Of(q), L)
  BY <1>1, <1>2, <1>3, <1>4, AlikeProducts
<1> HIDE DEF Of
<1>6. ASSUME NEW name \in ColumnNames PROVE ProductOf(Of(name), L) = ProductOf(Moved(name, c), L)
  <2>1. PICK o \in Nat : o = 0
    OBVIOUS
  <2>2. Numbers(Moved(name, c), L)
    BY <1>1, MovedAre
  <2>3. Numbers(Of(name), L)
    BY <1>2, <2>2 DEF Numbers
  <2>4. o <= L /\ (ProductOf(Of(name), o) = ProductOf(Moved(name, c), o) \/ o = 0)
        /\ \A i \in 1 .. L : i > o => Of(name)[i] = Moved(name, c)[i]
    BY <1>1, <1>2, <2>1
  <2> QED BY <1>1, <2>2, <2>3, <2>4, ProductsAlike
<1>7. ProductOf(Moved(p, c), L) = ProductOf(Moved(q, c), L) \/ L = 0
  BY <1>5, <1>6
<1>8. Numbers(Moved(p, c), k) /\ Numbers(Moved(q, c), k)
  BY MovedAre
<1>9. (\A i \in 1 .. k : i > L => Moved(p, c)[i] = Moved(q, c)[i]) /\ L <= k
  BY <1>2 DEF L
<1> HIDE DEF Moved
<1> QED BY <1>1, <1>7, <1>8, <1>9, ProductsAlike

\* The product of two columns is the product of their products.
LEMMA FactorsMultiply ==
    ASSUME RowsStand, NEW a \in ColumnNames, NEW s \in ColumnNames, NEW k \in Nat, NEW f,
           \A i \in 1 .. k : f[i] = Factors(i, a, s)
    PROVE  /\ Numbers(f, k)
           /\ Same(ProductOf(f, k), ProductOf(Moved(a, Beta), k) * ProductOf(Moved(s, Gamma), k))
<1> DEFINE x == Moved(a, Beta)
           y == Moved(s, Gamma)
<1>1. columns \in Columns /\ Beta \in Int /\ Gamma \in Int
  BY InField DEF RowsStand
<1>2. Numbers(x, k) /\ Numbers(y, k)
  BY <1>1, MovedAre
<1>3. ASSUME NEW i \in 1 .. k PROVE f[i] \in Int /\ Same(f[i], x[i] * y[i])
  <2>1. x[i] \in Int /\ y[i] \in Int
    BY <1>2 DEF Numbers
  <2>2. f[i] = (x[i] * y[i]) % Modulus
    <3>1. i \in Nat
      OBVIOUS
    <3> QED BY <3>1 DEF Moved, Factors
  <2> HIDE DEF x, y
  <2> DEFINE v == x[i] * y[i]
  <2>3. v \in Int
    BY <2>1
  <2> HIDE DEF v
  <2>4. v % Modulus \in Int /\ Same(v % Modulus, v)
    BY <2>3, Remainder, InField
  <2> QED BY <2>2, <2>4 DEF v
<1>4. Numbers(f, k)
  BY <1>3 DEF Numbers
<1> HIDE DEF x, y
<1>5. Same(ProductOf(f, k), ProductOf(x, k) * ProductOf(y, k))
  BY <1>2, <1>3, <1>4, ProductCombines
<1> QED BY <1>4, <1>5 DEF x, y

LEMMA LookupMultipliesToOne ==
    ASSUME RowsStand, IsLookup
    PROVE  zValues[Usable + 1] = 1
<1> DEFINE u == [i \in Nat |-> Numerator(i)]
           d == [i \in Nat |-> Denominator(i)]
           k == Usable
<1>1. /\ DomainSize \in Nat /\ k \in Nat /\ k + 1 <= DomainSize /\ Len(columns.a) <= k
      /\ Len(columns.a) \in Nat /\ columns \in Columns /\ Beta \in Int /\ Gamma \in Int
  BY DomainIs, InField DEF RowsStand
<1>2. \A i \in 1 .. k : u[i] = Factors(i, "a", "s") /\ d[i] = Factors(i, "aPrime", "sPrime")
  <2> SUFFICES ASSUME NEW i \in 1 .. k
               PROVE  u[i] = Factors(i, "a", "s") /\ d[i] = Factors(i, "aPrime", "sPrime")
    OBVIOUS
  <2>1. i \in Nat /\ i <= Usable
    BY <1>1
  <2> QED BY <2>1 DEF Numerator, Denominator
<1>3. "a" \in ColumnNames /\ "s" \in ColumnNames /\ "aPrime" \in ColumnNames /\ "sPrime" \in ColumnNames
  BY DEF ColumnNames
<1> DEFINE top == ProductOf(u, k)
           bottom == ProductOf(d, k)
           pa == ProductOf(Moved("a", Beta), k)
           ps == ProductOf(Moved("s", Gamma), k)
<1>4. /\ ProductOf(Moved("aPrime", Beta), k) = pa
      /\ ProductOf(Moved("sPrime", Gamma), k) = ps
  <2>1. Rearranged(columns["a"], columns["aPrime"]) /\ Rearranged(columns["s"], columns["sPrime"])
    BY DEF IsLookup
  <2> QED BY <1>1, <1>3, <2>1, ColumnsMultiplyAlike
<1> HIDE DEF u, d
<1>5. Numbers(u, k) /\ Same(top, pa * ps)
  BY <1>1, <1>2, <1>3, FactorsMultiply
<1>6. Numbers(d, k) /\ Same(bottom, pa * ps)
  <2>1. Numbers(d, k) /\ Same(bottom, ProductOf(Moved("aPrime", Beta), k) * ProductOf(Moved("sPrime", Gamma), k))
    BY <1>1, <1>2, <1>3, FactorsMultiply
  <2> QED BY <1>4, <2>1
<1>7. ASSUME NEW x, NEW j \in Nat, j <= k, Numbers(x, k) PROVE ProductOf(x, j) \in Int
  BY <1>1, <1>7, ProductIsNumber
<1>8. top \in Int /\ bottom \in Int /\ pa * ps \in Int
  <2>1. pa \in Int /\ ps \in Int
    BY <1>1, <1>3, <1>7, MovedAre
  <2> HIDE DEF pa, ps
  <2> QED BY <1>1, <1>5, <1>6, <1>7, <2>1
<1>9. Same(top, bottom)
  <2> HIDE DEF top, bottom, pa, ps
  <2> DEFINE w == pa * ps
  <2> HIDE DEF w
  <2>1. Same(w, bottom) /\ w \in Int
    BY <1>6, <1>8, SameBack DEF w
  <2> QED BY <1>5, <1>8, <2>1, SameOn DEF w
<1> DEFINE S == {m \in Nat : m <= k => /\ Same(zValues[m + 1] * ProductOf(d, m), ProductOf(u, m))
                                       /\ ~ Same(ProductOf(d, m), 0)}
<1>10. 0 \in S
  <2>1. zValues[0 + 1] = 1
    BY DEF RowsStand, Multiplied
  <2>2. ProductOf(d, 0) = 1 /\ ProductOf(u, 0) = 1
    BY <1>1, <1>5, <1>6, ProductIsNumber
  <2>3. Same(1 * 1, 1)
    BY SameItself, 1 \in Int
  <2>4. ~ Same(1, 0)
    <3> SUFFICES ASSUME Same(1, 0) PROVE FALSE
      OBVIOUS
    <3> QED BY ModulusIs, SameIsEqual
  <2> QED BY <2>1, <2>2, <2>3, <2>4
<1>11. \A m \in Nat : m \in S => m + 1 \in S
  <2> SUFFICES ASSUME NEW m \in Nat, m \in S, m + 1 <= k
               PROVE  /\ Same(zValues[(m + 1) + 1] * ProductOf(d, m + 1), ProductOf(u, m + 1))
                      /\ ~ Same(ProductOf(d, m + 1), 0)
    OBVIOUS
  <2> DEFINE i == m + 1
             z == zValues[i]
             y == zValues[i + 1]
             e == ProductOf(d, m)
             t == ProductOf(u, m)
             g == d[i]
             h == u[i]
  <2>1. i \in Nat /\ i \in 1 .. DomainSize - 1 /\ i \in 1 .. k /\ m <= k
    BY <1>1
  <2>2. Same(z * e, t) /\ ~ Same(e, 0)
    BY <2>1
  <2>3. z \in Field /\ y \in Field /\ Same(y * g, z * h)
    <3>1. Same(y * Denominator(i), z * Numerator(i)) /\ z \in Field /\ y \in Field
      BY <1>1, <2>1, ProductStep DEF RowsStand
    <3>2. g = Denominator(i) /\ h = Numerator(i)
      <4> HIDE DEF i
      <4> QED BY <2>1 DEF d, u
    <3> QED BY <3>1, <3>2
  <2>4. g \in Field /\ g # 0 /\ h \in Field
    <3>1. Denominator(i) \in Field /\ Denominator(i) # 0 /\ Numerator(i) \in Field
      BY <2>1 DEF RowsStand, Multiplied
    <3>2. g = Denominator(i) /\ h = Numerator(i)
      <4> HIDE DEF i
      <4> QED BY <2>1 DEF d, u
    <3> QED BY <3>1, <3>2
  <2>5. /\ e \in Int /\ t \in Int
        /\ ProductOf(d, i) = e * g /\ ProductOf(u, i) = t * h
    <3>1. Numbers(d, i) /\ Numbers(u, i)
      BY <1>1, <1>5, <1>6, <2>1 DEF Numbers
    <3> QED BY <3>1, ProductSteps
  <2>6. z \in Int /\ y \in Int /\ g \in Int /\ h \in Int /\ ~ Same(g, 0)
    <3>1. ~ Same(g, 0)
      BY <2>4, ModulusIs, SameIsEqual
    <3> QED BY <2>3, <2>4, <3>1, InField
  <2> HIDE DEF z, y, e, t, g, h, i, S
  <2>7. ~ Same(e * g, 0)
    BY <2>2, <2>5, <2>6, ZeroProduct
  <2>8. Same(y * (e * g), t * h)
    <3>1. Same((y * g) * e, (z * h) * e) /\ y * g \in Int /\ z * h \in Int
      <4>1. y * g \in Int /\ z * h \in Int /\ Same(e, e)
        BY <2>5, <2>6, SameItself
      <4> QED BY <2>3, <2>5, <4>1, SameProduct
    <3>2. Same((z * e) * h, t * h) /\ z * e \in Int
      <4>1. z * e \in Int /\ Same(h, h)
        BY <2>5, <2>6, SameItself
      <4> QED BY <2>2, <2>5, <2>6, <4>1, SameProduct
    <3>3. (y * g) * e = y * (e * g) /\ (z * h) * e = (z * e) * h
      BY <2>5, <2>6
    <3>4. y * (e * g) \in Int /\ (z * e) * h \in Int /\ t * h \in Int
      <4>1. e * g \in Int
        BY <2>5, <2>6
      <4>2. y * (e * g) \in Int
        BY <4>1, <2>6
      <4> QED BY <3>2, <2>5, <2>6, <4>2
    <3> QED BY <3>1, <3>2, <3>3, <3>4, SameOn
  <2> QED BY <2>5, <2>7, <2>8 DEF y, i
<1>12. k \in S
  <2> HIDE DEF S
  <2> QED BY <1>1, <1>10, <1>11, Reaches
<1> DEFINE z == zValues[k + 1]
<1>13. Same(z * bottom, top) /\ ~ Same(bottom, 0)
  BY <1>12
<1>14. z \in Field
  BY <1>1 DEF RowsStand, Multiplied
<1>15. z \in Int /\ z - 1 \in Int
  BY <1>14, InField
<1> HIDE DEF z, top, bottom
<1>16. Same(bottom * (z - 1), 0)
  <2>1. z * bottom \in Int /\ bottom * (z - 1) = z * bottom - bottom
    BY <1>8, <1>15
  <2>2. Same(z * bottom, bottom)
    BY <1>8, <1>9, <1>13, <2>1, SameOn
  <2>3. Same(z * bottom - bottom, bottom - bottom) /\ bottom - bottom = 0
    <3>1. bottom - bottom = 0
      BY <1>8
    <3> QED BY <1>8, <2>1, <2>2, <3>1, SameItself, SameDifference
  <2> QED BY <2>1, <2>3
<1>17. Same(z - 1, 0)
  BY <1>8, <1>13, <1>15, <1>16, SameFactor
<1> QED BY <1>14, <1>17, ModulusIs, ZeroDifference DEF z

-----------------------------------------------------------------------------
(* What vanishes on the domain leaves no remainder.                        *)

\* The top coefficient that is left is not zero.
LEMMA TrimmedTop ==
    ASSUME NEW p \in Seq(Field), Len(Trimmed(p)) # 0
    PROVE  p[Len(Trimmed(p))] # 0
<1> DEFINE n == Len(p)
           f == CHOOSE u : Top(u, p)
           S == {k \in Nat : k <= n => f[k] \in 0 .. k /\ (f[k] # 0 => p[f[k]] # 0)}
<1>1. n \in Nat /\ Top(f, p)
  BY TopIs
<1>2. p # <<>> /\ Trimmed(p) = SubSeq(p, 1, f[n])
  <2>1. p # <<>>
    <3> SUFFICES ASSUME p = <<>> PROVE FALSE
      OBVIOUS
    <3>1. Trimmed(p) = <<>>
      BY DEF Trimmed
    <3> QED BY <3>1
  <2> QED BY <2>1 DEF Trimmed, Top
<1> HIDE DEF f
<1>3. \A k \in 0 .. n : f[k] = IF k = 0 \/ p[k] # 0 THEN k ELSE f[k - 1]
  BY <1>1 DEF Top
<1> HIDE DEF n
<1>4. 0 \in S
  BY <1>1, <1>3
<1>5. \A k \in Nat : k \in S => k + 1 \in S
  <2> SUFFICES ASSUME NEW k \in Nat, k \in S, k + 1 <= n
               PROVE  f[k + 1] \in 0 .. k + 1 /\ (f[k + 1] # 0 => p[f[k + 1]] # 0)
    OBVIOUS
  <2> DEFINE l == k + 1
  <2>1. l \in 0 .. n /\ l # 0 /\ l - 1 = k /\ k <= n /\ l \in 0 .. l
    BY <1>1
  <2>2. f[l] = IF p[l] # 0 THEN l ELSE f[k]
    BY <1>3, <2>1, Zenon
  <2>3. f[k] \in 0 .. l /\ (f[k] # 0 => p[f[k]] # 0)
    BY <2>1
  <2> HIDE DEF l, S
  <2>4. f[l] \in 0 .. l /\ (f[l] # 0 => p[f[l]] # 0)
    BY <2>1, <2>2, <2>3
  <2> QED BY <2>4 DEF l
<1>6. n \in S
  <2> HIDE DEF S
  <2> QED BY <1>1, <1>4, <1>5, Reaches
<1> DEFINE t == f[n]
<1>7. t \in 0 .. n /\ (t # 0 => p[t] # 0)
  BY <1>1, <1>6
<1> HIDE DEF t
<1>8. Len(Trimmed(p)) = t
  <2>1. Trimmed(p) = SubSeq(p, 1, t)
    BY <1>2 DEF t
  <2>2. t \in Nat /\ t <= Len(p)
    BY <1>1, <1>7 DEF n
  <2> QED BY <2>1, <2>2, FirstOf
<1> QED BY <1>7, <1>8

LEMMA TrimmedOfZeros ==
    ASSUME NEW p \in Seq(Field), \A i \in 1 .. Len(Trimmed(p)) : Trimmed(p)[i] = 0
    PROVE  Trimmed(p) = <<>>
<1> DEFINE t == Trimmed(p)
<1>1. t \in Seq(Field) /\ Len(t) \in 0 .. Len(p) /\ \A i \in Nat : At(t, i) = At(p, i)
  BY TrimmedIs
<1> SUFFICES ASSUME Len(t) # 0 PROVE FALSE
  <2> HIDE DEF t
  <2>1. Len(t) = 0 => t = <<>>
    BY <1>1
  <2> QED BY <2>1 DEF t
<1>2. p[Len(t)] # 0
  BY TrimmedTop
<1>3. Len(t) \in 1 .. Len(t) /\ Len(t) \in 1 .. Len(p) /\ Len(t) \in Nat
  BY <1>1
<1>4. t[Len(t)] = 0
  BY <1>3
<1>5. At(t, Len(t)) = t[Len(t)] /\ At(p, Len(t)) = p[Len(t)]
  <2> HIDE DEF t
  <2> QED BY <1>3 DEF At
<1>6. At(t, Len(t)) = At(p, Len(t))
  BY <1>1, <1>3
<1> QED BY <1>2, <1>4, <1>5, <1>6

\* The coefficients from d + Len(den) on are gone when the quotient has its
\* coefficient d.
LEMMA DividedFromAbove ==
    ASSUME NEW den, Divisor(den), NEW n \in Nat, NEW num \in OfLength(n), NEW steps \in Nat,
           steps + Len(den) = n + 1, NEW back \in Field, (den[Len(den)] * back) % Modulus = 1,
           NEW f, Divides(f, num, den, n, steps, back)
    PROVE  \A i \in Len(den) .. n : f[0][1][i] = 0
<1> DEFINE k == Len(den)
           c == den[k]
           Gone(d) == f[d][1] \in OfLength(n) /\ \A i \in d + k .. n : f[d][1][i] = 0
           S == {m \in Nat : m <= steps => Gone(steps - m)}
<1>1. \A d \in 0 .. steps : f[d] = IF d = steps THEN <<num, 0>>
                                   ELSE Lowered(f[d + 1][1], den, d, back, n)
  BY DEF Divides
<1>2. k \in Nat /\ k >= 1 /\ c \in Int /\ c # 0 /\ steps + k = n + 1
  <2>1. k \in Nat /\ k >= 1 /\ c \in Field /\ c # 0
    BY DEF Divisor
  <2> QED BY <2>1, InField
<1>3. back \in Int /\ Same(c * back, 1)
  <2>1. back \in Int
    BY InField
  <2> HIDE DEF c
  <2>2. c * back \in Int /\ 1 % Modulus = 1
    BY <1>2, <2>1, ModulusIs
  <2> QED BY <2>1, <2>2, SameRemainder, 1 \in Int DEF c
<1> HIDE DEF c, k
<1>4. 0 \in S
  <2>1. f[steps][1] = num
    BY <1>1
  <2>2. \A i \in steps + k .. n : FALSE
    BY <1>2
  <2>3. Gone(steps)
    BY <2>1, <2>2
  <2>4. steps - 0 = steps
    OBVIOUS
  <2> QED BY <2>3, <2>4
<1>5. ASSUME NEW d \in 0 .. steps - 1, Gone(d + 1) PROVE Gone(d)
  <2> DEFINE above == f[d + 1][1]
             l == d + k
             q == (At(above, l) * back) % Modulus
             y == Multiple(q, den, d)
  <2>1. d \in Nat /\ d # steps /\ l \in 1 .. n /\ l <= n /\ d \in 0 .. steps /\ l > d /\ l - d = k /\ l \in Nat
    BY <1>2
  <2>2. f[d] = Lowered(above, den, d, back, n)
    BY <1>1, <2>1
  <2>3. f[d][1] \in OfLength(n)
    <3>1. d + Len(den) <= n /\ above \in OfLength(n)
      BY <1>5, <2>1 DEF k
    <3> HIDE DEF above
    <3>2. Lowered(above, den, d, back, n) \in OfLength(n) \X Field
      BY <2>1, <3>1, 0 \in Int, LoweredIs
    <3> QED BY <2>2, <3>2
  <2>4. f[d][1] = Minus(above, y, n)
    BY <2>2 DEF Lowered, k
  <2>5. above \in Seq(Field) /\ Len(above) = n /\ \A i \in (d + 1) + k .. n : above[i] = 0
    BY <1>5 DEF OfLength
  <2> HIDE DEF above, l
  <2> DEFINE a == above[l]
  <2>6. At(above, l) = a /\ a \in Field /\ a \in Int
    BY <2>1, <2>5, InField DEF At
  <2>7. q \in Int /\ Same(q, a * back)
    <3> HIDE DEF a
    <3> DEFINE w == a * back
    <3>1. w \in Int
      BY <1>3, <2>6
    <3>2. q = w % Modulus
      BY <2>6
    <3> HIDE DEF w, q
    <3>3. q \in Int /\ Same(q, w)
      BY <3>1, <3>2, Remainder, InField
    <3> QED BY <3>3 DEF w
  <2> HIDE DEF q, a
  <2>8. Same(q * c, a)
    <3>1. Same(q * c, (a * back) * c)
      <4>1. a * back \in Int /\ Same(c, c)
        BY <1>2, <1>3, <2>6, SameItself
      <4> QED BY <1>2, <2>7, <4>1, SameProduct
    <3>2. (a * back) * c = a * (c * back) /\ a * 1 = a /\ c * back \in Int
      BY <1>2, <1>3, <2>6
    <3>3. Same(a * (c * back), a * 1)
      <4>1. Same(a, a)
        BY <2>6, SameItself
      <4> QED BY <1>3, <2>6, <3>2, <4>1, SameProduct, 1 \in Int
    <3>4. q * c \in Int /\ a * (c * back) \in Int
      BY <1>2, <2>6, <2>7, <3>2
    <3> QED BY <2>6, <3>1, <3>2, <3>3, <3>4, SameOn
  <2>9. y[l] = q * c /\ Len(y) = l /\ DOMAIN y = 1 .. l
    <3>1. y = [i \in 1 .. l |-> IF i > d THEN q * den[i - d] ELSE 0]
      BY DEF Multiple, l, k
    <3>2. l \in 1 .. l
      BY <2>1
    <3>3. y[l] = q * c
      BY <2>1, <3>1, <3>2 DEF c
    <3> HIDE DEF y
    <3>4. Len(y) = l /\ DOMAIN y = 1 .. l
      BY <2>1, <3>1
    <3> QED BY <3>3, <3>4
  <2> HIDE DEF y
  <2>10. ASSUME NEW i \in d + k .. n PROVE Minus(above, y, n)[i] = 0
    <3>1. i \in 1 .. n /\ i \in Nat /\ (i # l => i \in (d + 1) + k .. n /\ i > l)
      BY <1>2, <2>1 DEF l
    <3>2. Minus(above, y, n)[i] = (At(above, i) - At(y, i)) % Modulus
      BY <3>1, MinusIs
    <3>3. CASE i = l
      <4>1. At(y, i) = q * c /\ At(above, i) = a
        BY <2>1, <2>6, <2>9, <3>3 DEF At
      <4>2. Same(a - q * c, 0) /\ a - q * c \in Int
        <5>1. q * c \in Int
          BY <1>2, <2>7
        <5> DEFINE u == q * c
        <5> HIDE DEF u
        <5>2. Same(a, u) /\ u \in Int
          BY <2>6, <2>8, <5>1, SameBack DEF u
        <5>3. Same(a - u, u - u) /\ u - u = 0 /\ a - u \in Int
          BY <2>6, <5>2, SameItself, SameDifference
        <5> QED BY <5>3 DEF u
      <4> QED BY <3>2, <4>1, <4>2, ZeroRemainder
    <3>4. CASE i # l
      <4>1. At(above, i) = 0
        BY <2>5, <3>1, <3>4 DEF At
      <4>2. At(y, i) = 0
        BY <2>1, <2>9, <3>1, <3>4 DEF At
      <4>3. 0 - 0 = 0 /\ 0 % Modulus = 0
        BY ModulusIs
      <4> QED BY <3>2, <4>1, <4>2, <4>3
    <3> QED BY <3>3, <3>4
  <2> QED BY <2>3, <2>4, <2>10
<1>6. \A m \in Nat : m \in S => m + 1 \in S
  <2> SUFFICES ASSUME NEW m \in Nat, m \in S, m + 1 <= steps PROVE Gone(steps - (m + 1))
    BY DEF S
  <2> DEFINE d == steps - (m + 1)
  <2>1. d \in 0 .. steps - 1 /\ d + 1 = steps - m /\ m <= steps
    OBVIOUS
  <2> HIDE DEF Gone
  <2>2. Gone(d + 1)
    BY <2>1
  <2> HIDE DEF d, S
  <2>3. Gone(d)
    BY <1>5, <2>1, <2>2
  <2> QED BY <2>3 DEF d
<1>7. Gone(0)
  <2> HIDE DEF Gone
  <2>1. steps \in S
    <3> HIDE DEF S
    <3> QED BY <1>4, <1>6, Reaches
  <2>2. steps - steps = 0
    OBVIOUS
  <2> QED BY <2>1, <2>2
<1> QED BY <1>2, <1>7 DEF k

\* A remainder is shorter than the divisor, and trimmed unless it is the dividend.
LEMMA RemainderIsShort ==
    ASSUME NEW num \in Seq(Field), NEW den, Divisor(den)
    PROVE  LET r == DivideWithQAndR(num, den)[2]
           IN  \/ r = <<>>
               \/ r = num /\ Trimmed(num) # <<>> /\ Len(num) < Len(den)
               \/ \E p \in Seq(Field) : r = Trimmed(p) /\ Len(Trimmed(p)) < Len(den)
<1> DEFINE n == Len(num)
           steps == Len(num) - Len(den) + 1
           back  == FieldInverse(den[Len(den)])
           f == CHOOSE u : Left(u, num, den, steps, back)
           t == [d \in 1 .. steps |-> f[d - 1][2]]
           qr == DivideWithQAndR(num, den)
           e == <<>>
<1>1. qr = CASE Trimmed(num) = <<>> -> << <<>>, <<>> >>
             [] Trimmed(num) # <<>> /\ Len(num) < Len(den) -> << <<>>, num >>
             [] OTHER -> << Trimmed(t), Trimmed(f[0][1]) >>
  BY Zenon DEF DivideWithQAndR, Left
<1>2. n \in Nat /\ Len(den) \in Nat /\ Len(den) >= 1 /\ num \in OfLength(n)
  BY DEF Divisor, OfLength
<1>3. CASE Trimmed(num) = e
  <2> HIDE DEF qr, t, f
  <2>1. qr = << <<>>, <<>> >>
    BY <1>1, <1>3
  <2>2. qr[2] = <<>>
    BY <2>1
  <2> QED BY <2>2 DEF qr
<1>4. CASE Trimmed(num) # e /\ Len(num) < Len(den)
  <2>1. qr[2] = num
    BY <1>1, <1>4
  <2> HIDE DEF qr
  <2> QED BY <1>4, <2>1 DEF qr
<1>5. CASE Trimmed(num) # e /\ ~ (Len(num) < Len(den))
  <2>1. qr[2] = Trimmed(f[0][1])
    BY <1>1, <1>5
  <2>2. steps \in Nat /\ steps + Len(den) = n + 1
    BY <1>2, <1>5
  <2>3. back \in Field /\ (den[Len(den)] * back) % Modulus = 1
    <3>1. den[Len(den)] \in Field /\ den[Len(den)] # 0
      BY <1>2 DEF Divisor
    <3> QED BY <3>1, FieldInverseIs
  <2> HIDE DEF qr, steps, back
  <2>4. Divides(f, num, den, n, steps, back)
    <3> HIDE DEF n
    <3>1. steps + Len(den) <= n + 1
      BY <1>2, <2>2
    <3>2. \E h : Divides(h, num, den, n, steps, back)
      BY <1>2, <2>2, <2>3, <3>1, DividesExists
    <3>3. \E h : Left(h, num, den, steps, back)
      BY <3>2, LeftIsDivides DEF n
    <3>4. Left(f, num, den, steps, back)
      BY <3>3, Zenon
    <3> HIDE DEF f
    <3> QED BY <3>4, LeftIsDivides DEF n
  <2> HIDE DEF f, n
  <2> DEFINE p == f[0][1]
  <2>5. p \in OfLength(n)
    <3>1. steps + Len(den) <= n + 1
      BY <1>2, <2>2
    <3> QED BY <1>2, <2>2, <2>3, <2>4, <3>1, 0 \in Int, DividesIs
  <2>6. \A i \in Len(den) .. n : p[i] = 0
    BY <1>2, <2>2, <2>3, <2>4, DividedFromAbove
  <2> HIDE DEF p
  <2>7. p \in Seq(Field) /\ Len(p) = n
    BY <2>5 DEF OfLength
  <2>8. Len(Trimmed(p)) < Len(den)
    <3> SUFFICES ASSUME Len(Trimmed(p)) >= Len(den) PROVE FALSE
      <4>1. Len(Trimmed(p)) \in Nat
        BY <1>2, <2>7, TrimmedIs
      <4> QED BY <1>2, <4>1
    <3> DEFINE l == Len(Trimmed(p))
    <3>1. l \in 0 .. n
      BY <2>7, TrimmedIs
    <3>2. l # 0 /\ l \in Len(den) .. n
      <4> HIDE DEF l
      <4>1. l >= Len(den)
        BY DEF l
      <4> QED BY <1>2, <3>1, <4>1
    <3>3. p[l] # 0
      BY <2>7, <3>2, TrimmedTop
    <3> QED BY <2>6, <3>2, <3>3
  <2>9. qr[2] = Trimmed(p)
    BY <2>1 DEF p
  <2> QED BY <2>7, <2>8, <2>9 DEF qr
<1> QED BY <1>3, <1>4, <1>5

\* A polynomial that is zero on the domain is a multiple of the vanishing one.
THEOREM NothingRemains ==
    ASSUME OnDomain, NEW c \in Seq(Field), \A x \in Points : ValueAt(c, x) = 0
    PROVE  DivideWithQAndR(c, DomainVanishing)[2] = <<>>
<1> DEFINE n == DomainSize
           w == Generator
           z == DomainVanishing
           q == DivideWithQAndR(c, z)[1]
           r == DivideWithQAndR(c, z)[2]
<1>1. /\ n \in Nat \ {0} /\ w \in Int /\ Same(PowerOf(w, n), 1) /\ DomainFits
      /\ Root(w, FieldInverse(w), n) /\ PowerOf(w, n) \in Int
  <2>1. /\ n \in Nat \ {0} /\ w \in Int /\ Same(PowerOf(w, n), 1) /\ DomainFits /\ Root(w, FieldInverse(w), n)
    BY OnDomainIs DEF OnDomain
  <2> QED BY <2>1, PowerStarts
<1>2. /\ Divisor(z) /\ Len(z) = n + 1 /\ z \in Seq(Int)
      /\ \A x \in Int : Same(PolyValue(z, x), PowerOf(x, n) - 1)
  <2>1. \A x \in Int : Divisor(z) /\ Len(z) = n + 1 /\ Same(PolyValue(z, x), PowerOf(x, n) - 1)
    BY <1>1, DomainVanishingIs
  <2>2. Divisor(z) /\ Len(z) = n + 1
    BY <2>1, 0 \in Int
  <2> QED BY <2>1, <2>2, FieldsAreNumbers DEF Divisor
<1>3. q \in Seq(Field) /\ r \in Seq(Field) /\ q \in Seq(Int) /\ r \in Seq(Int) /\ c \in Seq(Int)
      /\ \A x \in Int : Same(PolyValue(c, x), PolyValue(q, x) * PolyValue(z, x) + PolyValue(r, x))
  <2> HIDE DEF z
  <2>1. \A x \in Int : q \in Seq(Field) /\ r \in Seq(Field)
          /\ Same(PolyValue(c, x), PolyValue(q, x) * PolyValue(z, x) + PolyValue(r, x))
    BY <1>2, DivisionHolds
  <2>2. q \in Seq(Field) /\ r \in Seq(Field)
    BY <2>1, 0 \in Int
  <2> QED BY <2>1, <2>2, FieldsAreNumbers
<1>4. \/ r = <<>>
      \/ r = c /\ Trimmed(c) # <<>> /\ Len(c) < n + 1
      \/ \E p \in Seq(Field) : r = Trimmed(p) /\ Len(Trimmed(p)) < n + 1
  <2> HIDE DEF z
  <2> QED BY <1>2, RemainderIsShort
<1> HIDE DEF z, q, r
<1>5. ASSUME NEW k \in 0 .. n-1 PROVE Same(PolyValue(r, PowerOf(w, k)), 0)
  <2> DEFINE x == PowerOf(w, k)
             i == k + 1
  <2>1. k \in Nat /\ i \in 1 .. n /\ i - 1 = k
    BY <1>1
  <2>2. x \in Int /\ PowerOf(x, n) \in Int
    BY <1>1, <2>1, PowerStarts
  <2>3. Same(PowerOf(x, n), 1)
    <3>1. PowerOf(x, n) = PowerOf(w, k * n) /\ PowerOf(PowerOf(w, n), k) = PowerOf(w, n * k)
      BY <1>1, <2>1, PowersOfPowers
    <3>2. k * n = n * k
      BY <1>1, <2>1
    <3>3. Same(PowerOf(PowerOf(w, n), k), PowerOf(1, k))
      BY <1>1, <2>1, 1 \in Int, PowersAgree
    <3>4. PowerOf(1, k) = 1
      BY <2>1, OneToAny
    <3> QED BY <3>1, <3>2, <3>3, <3>4
  <2>4. PICK y \in Points : PointOf(y, i)
    BY <2>1, PointsAre
  <2> HIDE DEF i
  <2>5. y \in Int /\ Same(y, x)
    <3>1. y \in Field
      BY PointsAre
    <3> QED BY <2>1, <2>4, <3>1, InField DEF PointOf
  <2> HIDE DEF x
  <2> DEFINE a == PolyValue(c, x)
             b == PolyValue(q, x)
             d == PolyValue(z, x)
             e == PolyValue(r, x)
             g == PolyValue(c, y)
             h == PowerOf(x, n)
  <2>6. a \in Int /\ b \in Int /\ d \in Int /\ e \in Int /\ g \in Int
    BY <1>2, <1>3, <2>2, <2>5, PolyValueIsNumber
  <2>7. Same(a, 0)
    <3>1. Same(g, a)
      BY <1>3, <2>2, <2>5, ValuesAgree
    <3>2. ValueAt(c, y) = 0 /\ Same(ValueAt(c, y), g)
      BY <1>3, <2>5, ValueIs
    <3> HIDE DEF a, g
    <3>3. Same(0, g)
      BY <3>2
    <3> QED BY <2>6, <3>1, <3>3, SameOn, SameBack, 0 \in Int
  <2>8. Same(d, h - 1) /\ Same(a, b * d + e)
    BY <1>2, <1>3, <2>2
  <2>9. Same(h, 1) /\ h \in Int
    BY <2>2, <2>3
  <2> HIDE DEF a, b, d, e, g, h
  <2>10. Same(d, 0)
    <3>1. Same(h - 1, 1 - 1) /\ 1 - 1 = 0 /\ h - 1 \in Int
      BY <2>9, SameItself, SameDifference, 1 \in Int
    <3> QED BY <2>6, <2>8, <3>1, SameOn, 0 \in Int
  <2>11. Same(b * d + e, e)
    <3>1. b * d \in Int /\ Same(b * d, 0)
      <4>1. b * d \in Int
        BY <2>6
      <4>2. Same(b * d, 0)
        BY <2>6, <2>10, ZeroProduct
      <4> QED BY <4>1, <4>2
    <3>2. Same(b * d + e, 0 + e) /\ 0 + e = e
      BY <2>6, <3>1, SameItself, SameSum, 0 \in Int
    <3> QED BY <3>2
  <2>12. Same(e, 0)
    <3>1. b * d + e \in Int
      BY <2>6
    <3>2. Same(a, e)
      BY <2>6, <2>8, <2>11, <3>1, SameOn
    <3> QED BY <2>6, <2>7, <3>2, SameBack, SameOn, 0 \in Int
  <2> QED BY <2>12 DEF e, x
<1>6. ASSUME Len(r) < n + 1 PROVE \A i \in 1 .. Len(r) : r[i] = 0
  <2>1. Len(r) \in Nat
    BY <1>3
  <2>2. Len(r) <= n
    BY <1>1, <1>6, <2>1
  <2> HIDE DEF n, w
  <2> QED BY <1>1, <1>3, <1>5, <2>2, RootsOfNothing
<1>7. CASE r = c /\ Trimmed(c) # <<>> /\ Len(c) < n + 1
  <2>1. \A i \in 1 .. Len(c) : c[i] = 0
    BY <1>6, <1>7
  <2> DEFINE t == Trimmed(c)
  <2>2. t \in Seq(Field) /\ Len(t) \in 0 .. Len(c) /\ \A i \in Nat : At(t, i) = At(c, i)
    BY TrimmedIs
  <2> HIDE DEF t
  <2>3. ASSUME NEW i \in 1 .. Len(t) PROVE t[i] = 0
    <3>1. i \in Nat /\ i \in 1 .. Len(c)
      BY <2>2
    <3>2. At(t, i) = t[i] /\ At(c, i) = c[i]
      BY <3>1 DEF At
    <3> QED BY <2>1, <2>2, <3>1, <3>2
  <2>4. t = <<>>
    BY <2>3, TrimmedOfZeros DEF t
  <2> QED BY <1>7, <2>4 DEF t
<1>8. CASE \E p \in Seq(Field) : r = Trimmed(p) /\ Len(Trimmed(p)) < n + 1
  <2>1. PICK p \in Seq(Field) : r = Trimmed(p) /\ Len(Trimmed(p)) < n + 1
    BY <1>8
  <2>2. \A i \in 1 .. Len(Trimmed(p)) : Trimmed(p)[i] = 0
    BY <1>6, <2>1
  <2>3. r = <<>>
    BY <2>1, <2>2, TrimmedOfZeros
  <2> QED BY <2>3 DEF r, z
<1>9. CASE r = <<>>
  BY <1>9 DEF r, z
<1> QED BY <1>4, <1>7, <1>8, <1>9

-----------------------------------------------------------------------------
(* From the columns that are committed to, to what a proof says of them.   *)

\* The commitments are to the columns, and to their product.
RowInv ==
    /\ pc \in {"multiply", "product", "divide"} =>
         \A name \in ColumnNames : proof[name] = FromValues(ColumnOf(name))
    /\ pc \in {"product", "divide"} => Multiplied
    /\ pc = "divide" => proof.z = FromValues(zValues)
    /\ SumSeparates /\ LookupsAreProved

IsSeparated == (\A i \in Rows : RowIsLookup(i)) /\ zValues[Usable + 1] \in {0, 1}

LEMMA SeparatedIs == SumSeparates <=> (Proved => IsSeparated)
BY Zenon DEF SumSeparates, IsSeparated, RowIsLookup

LEMMA SameColumns ==
    ASSUME UNCHANGED <<columns, config>>
    PROVE  /\ \A name : FromValues(ColumnOf(name))' = FromValues(ColumnOf(name))
           /\ IsLookup' <=> IsLookup
<1>1. columns' = columns /\ config' = config
  OBVIOUS
<1>2. ASSUME NEW name PROVE FromValues(ColumnOf(name))' = FromValues(ColumnOf(name))
  BY <1>1 DEF FromValues, ColumnOf, Row, DomainSize, Generator
<1>3. IsLookup' <=> IsLookup
  BY <1>1 DEF IsLookup, NotAbove, Rows
<1> QED BY <1>2, <1>3

LEMMA SameFactors ==
    ASSUME UNCHANGED <<columns, config>>, Beta' = Beta, Gamma' = Gamma
    PROVE  \A i : Numerator(i)' = Numerator(i) /\ Denominator(i)' = Denominator(i)
<1>1. columns' = columns /\ config' = config /\ Beta' = Beta /\ Gamma' = Gamma
  OBVIOUS
<1>2. ASSUME NEW i, NEW a, NEW s PROVE Factors(i, a, s)' = Factors(i, a, s)
  BY <1>1 DEF Factors, Row
<1>3. Usable' = Usable
  BY <1>1 DEF Usable
<1> QED BY <1>2, <1>3 DEF Numerator, Denominator

LEMMA SameMultiplied ==
    ASSUME UNCHANGED <<columns, config, zValues>>, Beta' = Beta, Gamma' = Gamma
    PROVE  Multiplied' <=> Multiplied
<1>1. \A i : Numerator(i)' = Numerator(i) /\ Denominator(i)' = Denominator(i)
  BY SameFactors
<1>2. DomainSize' = DomainSize /\ zValues' = zValues
  BY DEF DomainSize
<1> QED BY <1>1, <1>2 DEF Multiplied

LEMMA SameSeparated ==
    ASSUME UNCHANGED <<columns, config, zValues>>
    PROVE  IsSeparated' <=> IsSeparated
<1>1. columns' = columns /\ config' = config /\ zValues' = zValues
  OBVIOUS
<1> QED BY <1>1 DEF IsSeparated, RowIsLookup, Rows, Usable

LEMMA RowCommit ==
    ASSUME ProofInv, RowInv, Commit
    PROVE  RowInv'
<1>1. pc' = "multiply" /\ UNCHANGED <<columns, config, zValues>>
  BY DEF Commit
<1>2. \A name \in ColumnNames : proof'[name] = FromValues(ColumnOf(name))
  <2> DEFINE Of(name) == FromValues(ColumnOf(name))
  <2>1. PICK com : com = proof'
    OBVIOUS
  <2>2. com = [a |-> Of("a"), s |-> Of("s"), aPrime |-> Of("aPrime"), sPrime |-> Of("sPrime")]
    BY <2>1, Zenon DEF Commit, ColumnOf
  <2> HIDE DEF Of
  <2>3. \A name \in ColumnNames : com[name] = Of(name)
    BY <2>2 DEF ColumnNames
  <2> QED BY <2>1, <2>3 DEF Of
<1>3. \A name \in ColumnNames : proof'[name] = FromValues(ColumnOf(name))'
  BY <1>1, <1>2, SameColumns
<1>4. SumSeparates' /\ LookupsAreProved'
  BY <1>1 DEF SumSeparates, Proved, LookupsAreProved
<1> QED BY <1>1, <1>3, <1>4 DEF RowInv

LEMMA RowGrandProduct ==
    ASSUME ProofInv, RowInv, GrandProduct
    PROVE  RowInv'
<1> DEFINE n == DomainSize
           f == CHOOSE u : Multiplies(u)
<1>1. /\ pc = "multiply" /\ pc' = "product"
      /\ UNCHANGED <<columns, config>> /\ UNCHANGED <<oracle, transcript, proof>>
  BY DEF GrandProduct
<1>2. DomainFits /\ n \in Nat \ {0}
  BY DomainFitsFor DEF ProofInv, DomainFits
<1>3. Beta' = Beta /\ Gamma' = Gamma
  BY <1>1 DEF Beta, Gamma
<1>4. ASSUME NEW i \in 1 .. n - 1
      PROVE  /\ Numerator(i) \in Field /\ Denominator(i) \in Field /\ Denominator(i) # 0
             /\ Numerator(i) \in Int /\ FieldInverse(Denominator(i)) \in Int
  <2>1. i \in Nat /\ Denominator(i) # 0
    BY <1>2 DEF GrandProduct
  <2>2. Numerator(i) \in Field /\ Denominator(i) \in Field
    BY <1>1, <2>1, FactorsAre
  <2>3. FieldInverse(Denominator(i)) \in Field
    BY <2>1, <2>2, FieldInverseIs
  <2> QED BY <2>1, <2>2, <2>3, InField
<1>5. Multiplies(f) /\ f \in [1 .. n -> Field]
  BY <1>2, <1>4, MultipliesIs
<1>6. zValues' = SubSeq([i \in 1 .. n |-> f[i]], 1, n)
  BY DEF GrandProduct, Multiplies
<1> HIDE DEF f
<1>7. zValues' \in [1 .. n -> Field] /\ \A i \in 1 .. n : zValues'[i] = f[i]
  <2> DEFINE p == [i \in 1 .. n |-> f[i]]
  <2>1. p \in Seq(Field) /\ Len(p) = n /\ \A i \in 1 .. n : p[i] = f[i]
    <3>1. p \in [1 .. n -> Field] /\ \A i \in 1 .. n : p[i] = f[i]
      BY <1>5
    <3> HIDE DEF p, n
    <3> QED BY <1>2, <3>1, SequenceIs
  <2> HIDE DEF p, n
  <2>2. PICK q : q = SubSeq(p, 1, n)
    OBVIOUS
  <2>3. q \in Seq(Field) /\ Len(q) = n /\ \A i \in 1 .. n : q[i] = p[i]
    BY <1>2, <2>1, <2>2, FirstOf
  <2>4. q \in [1 .. n -> Field]
    BY <2>3
  <2> QED BY <1>6, <2>1, <2>2, <2>3, <2>4 DEF p
<1>8. PICK z : z = zValues'
  OBVIOUS
<1>9. \A i \in 1 .. n : z[i] = IF i = 1 THEN 1
        ELSE (z[i - 1] * Numerator(i - 1) * FieldInverse(Denominator(i - 1))) % Modulus
  <2> SUFFICES ASSUME NEW i \in 1 .. n
               PROVE  z[i] = IF i = 1 THEN 1
                        ELSE (z[i - 1] * Numerator(i - 1) * FieldInverse(Denominator(i - 1))) % Modulus
    OBVIOUS
  <2>1. f[i] = IF i = 1 THEN 1
                 ELSE (f[i - 1] * Numerator(i - 1) * FieldInverse(Denominator(i - 1))) % Modulus
    BY <1>5 DEF Multiplies
  <2>2. i # 1 => i - 1 \in 1 .. n
    BY <1>2
  <2> HIDE DEF n
  <2>3. z[i] = f[i] /\ (i # 1 => z[i - 1] = f[i - 1])
    BY <1>7, <1>8, <2>2
  <2> QED BY <2>1, <2>3
<1>10. /\ z \in [1 .. n -> Field] /\ z[1] = 1
       /\ \A i \in 1 .. n - 1 :
            z[i + 1] = (z[i] * Numerator(i) * FieldInverse(Denominator(i))) % Modulus
  <2>1. z[1] = 1
    <3>1. 1 \in 1 .. n
      BY <1>2
    <3> QED BY <1>9, <3>1
  <2>2. ASSUME NEW i \in 1 .. n - 1
        PROVE  z[i + 1] = (z[i] * Numerator(i) * FieldInverse(Denominator(i))) % Modulus
    <3> DEFINE l == i + 1
    <3>1. l \in 1 .. n /\ l # 1 /\ l - 1 = i
      BY <1>2
    <3> HIDE DEF l, n
    <3> QED BY <1>9, <3>1 DEF l
  <2> QED BY <1>7, <1>8, <2>1, <2>2
<1>11. Multiplied'
  <2>1. \A i : Numerator(i)' = Numerator(i) /\ Denominator(i)' = Denominator(i)
    BY <1>1, <1>3, SameFactors
  <2>2. DomainSize' = DomainSize
    BY <1>1 DEF DomainSize
  <2> QED BY <1>4, <1>8, <1>10, <2>1, <2>2 DEF Multiplied
<1>12. \A name \in ColumnNames : proof'[name] = FromValues(ColumnOf(name))'
  <2>1. \A name \in ColumnNames : proof[name] = FromValues(ColumnOf(name))
    BY <1>1 DEF RowInv
  <2> QED BY <1>1, <2>1, SameColumns
<1>13. SumSeparates' /\ LookupsAreProved'
  BY <1>1 DEF SumSeparates, Proved, LookupsAreProved
<1> QED BY <1>1, <1>11, <1>12, <1>13 DEF RowInv

LEMMA RowCommitProduct ==
    ASSUME ProofInv, RowInv, CommitProduct
    PROVE  RowInv'
<1>1. /\ pc = "product" /\ pc' = "divide" /\ UNCHANGED <<columns, config, zValues>>
      /\ oracle' = oracle /\ transcript' = Append(transcript, <<"com_z", proof'.z>>)
  BY DEF CommitProduct
<1>2. PICK com : com = proof'
  OBVIOUS
<1>3. com = With(proof, "z", FromValues(zValues))
  BY <1>2 DEF CommitProduct
<1>4. com.z = FromValues(zValues)
  BY <1>3 DEF With
<1>5. \A x \in ColumnNames : com[x] = proof[x]
  <2>1. ColumnNames \subseteq DOMAIN proof /\ "z" \notin ColumnNames
    BY <1>1 DEF ProofInv, ColumnsIn, ColumnNames
  <2> QED BY <1>3, <2>1, OpeningKept
<1>6. Beta' = Beta /\ Gamma' = Gamma
  <2>1. transcript = Opening(proof)
    BY <1>1 DEF ProofInv
  <2>2. SubSeq(transcript', 1, 4) = SubSeq(transcript, 1, 4)
    BY <1>1, <2>1, TranscriptIs
  <2> QED BY <1>1, <2>2 DEF Beta, Gamma
<1>7. Multiplied'
  BY <1>1, <1>6, SameMultiplied DEF RowInv
<1>8. FromValues(zValues)' = FromValues(zValues)
  BY <1>1 DEF FromValues, DomainSize, Generator
<1>9. \A name \in ColumnNames : com[name] = FromValues(ColumnOf(name))'
  <2>1. \A name \in ColumnNames : proof[name] = FromValues(ColumnOf(name))
    BY <1>1 DEF RowInv
  <2> QED BY <1>1, <1>5, <2>1, SameColumns
<1>10. SumSeparates' /\ LookupsAreProved'
  BY <1>1 DEF SumSeparates, Proved, LookupsAreProved
<1> QED BY <1>1, <1>2, <1>4, <1>7, <1>8, <1>9, <1>10 DEF RowInv

\* Before the division the rows stand, and the commitments are to them.
LEMMA DivideStands ==
    ASSUME ProofInv, RowInv, pc = "divide"
    PROVE  RowsStand /\ Commits(proof) /\ Committed(proof) /\ IsColumn(proof.z)
<1>1. columns \in Columns /\ config = ConfigFor(columns) /\ ProductIn(proof, oracle)
  BY DEF ProofInv
<1>2. OnDomain
  BY <1>1, DomainFitsFor, GeneratorIsRoot DEF OnDomain
<1>3. Beta \in Field /\ Gamma \in Field
  BY BetaIs
<1>4. RowsStand
  BY <1>1, <1>2, <1>3 DEF RowsStand, RowInv
<1>5. Commits(proof)
  BY DEF RowInv, Commits
<1> QED BY <1>1, <1>4, <1>5 DEF ProductIn, ColumnsIn

\* The division leaves nothing exactly when every constraint vanishes on every
\* row: what it lets through is separated, and a lookup is let through.
LEMMA RowCommitQuotient ==
    ASSUME ProofInv, RowInv, CommitQuotient
    PROVE  RowInv'
<1> DEFINE c == ConstraintPolynomial(proof, Beta, Gamma)
           qr == DivideWithQAndR(c, DomainVanishing)
           zero == \A x \in Points : ValueAt(c, x) = 0
<1>1. pc = "divide" /\ UNCHANGED <<columns, config, zValues>>
  BY DEF CommitQuotient
<1>2. RowsStand /\ Commits(proof) /\ Committed(proof) /\ IsColumn(proof.z)
  BY <1>1, DivideStands
<1>3. zero <=> \A i \in 1 .. DomainSize : RowVanishes(i)
  BY <1>2, PointsVanish
<1>4. IF zero /\ qr[2] = <<>> THEN pc' = "evaluate" ELSE pc' = "panicked"
  <2> HIDE DEF zero
  <2>1. \E k \in {c} : \E parts \in {DivideWithQAndR(k, DomainVanishing)} :
          IF (\A x \in Points : ValueAt(k, x) = 0) /\ parts[2] = <<>>
          THEN pc' = "evaluate" ELSE pc' = "panicked"
    BY DEF CommitQuotient
  <2> QED BY <2>1 DEF zero
<1>5. c \in Seq(Field)
  <2>1. /\ OnDomain /\ columns \in Columns /\ zValues \in [1 .. DomainSize -> Field]
        /\ Beta \in Field /\ Gamma \in Field
    BY <1>2 DEF RowsStand, Multiplied
  <2>2. 1 \in 1 .. DomainSize
    BY <2>1, OnDomainIs
  <2>3. \E x \in Points : PointOf(x, 1)
    BY <2>1, <2>2, PointsAre
  <2>4. PICK x \in Field : PointOf(x, 1)
    BY <2>1, <2>3, PointsAre
  <2> QED BY <1>2, <2>1, <2>2, <2>4, ConstraintAtRow
<1>6. zero => qr[2] = <<>>
  BY <1>2, <1>5, NothingRemains DEF RowsStand
<1> HIDE DEF c, qr, zero
<1>7. SumSeparates'
  <2>1. CASE zero
    <3>1. IsSeparated
      BY <1>2, <1>3, <2>1, RowsSeparate DEF IsSeparated
    <3>2. IsSeparated'
      BY <1>1, <3>1, SameSeparated
    <3> QED BY <3>2 DEF IsSeparated, SumSeparates, RowIsLookup
  <2>2. CASE ~ zero
    <3>1. pc' = "panicked"
      BY <1>4, <2>2
    <3> QED BY <3>1 DEF SumSeparates, Proved
  <2> QED BY <2>1, <2>2
<1>8. LookupsAreProved'
  <2>1. CASE IsLookup
    <3>1. zValues[Usable + 1] = 1
      BY <1>2, <2>1, LookupMultipliesToOne
    <3>2. \A i \in Rows : NotAbove(i) => columns.aPrime[i] = columns.sPrime[i]
      BY <2>1 DEF IsLookup
    <3>3. \A i \in 1 .. DomainSize : RowVanishes(i)
      BY <1>2, <3>1, <3>2, LookupVanishes
    <3>4. pc' = "evaluate"
      BY <1>3, <1>4, <1>6, <3>3
    <3> QED BY <3>4 DEF LookupsAreProved
  <2>2. CASE ~ IsLookup
    <3>1. ~ IsLookup'
      BY <1>1, <2>2, SameColumns
    <3> QED BY <3>1 DEF LookupsAreProved
  <2> QED BY <2>1, <2>2
<1>9. pc' \in {"evaluate", "panicked"}
  BY <1>4
<1> QED BY <1>7, <1>8, <1>9 DEF RowInv

\* A step that leaves columns and product alone, after the division or from it.
LEMMA RowLater ==
    ASSUME RowInv, UNCHANGED <<columns, config, zValues>>, Proved,
           pc' \in {"proved", "accepted", "rejected"}
    PROVE  RowInv'
<1>1. IsSeparated
  BY SeparatedIs DEF RowInv
<1>2. IsSeparated'
  BY <1>1, SameSeparated
<1>3. SumSeparates'
  BY <1>2 DEF IsSeparated, SumSeparates, RowIsLookup
<1> QED BY <1>3 DEF RowInv, LookupsAreProved

LEMMA RowPanics ==
    ASSUME RowInv, GrandProductPanics
    PROVE  RowInv'
<1>1. /\ pc' = "panicked" /\ UNCHANGED <<columns, config>>
      /\ UNCHANGED <<oracle, transcript, zValues, proof>>
  BY DEF GrandProductPanics
<1>2. PICK i \in 1 .. DomainSize - 1 : Denominator(i) = 0
  BY DEF GrandProductPanics
<1>3. Beta' = Beta /\ Gamma' = Gamma
  BY <1>1 DEF Beta, Gamma
<1>4. Denominator(i)' = 0
  BY <1>1, <1>2, <1>3, SameFactors
<1>5. DomainSize' = DomainSize
  BY <1>1 DEF DomainSize
<1>6. LookupsAreProved'
  BY <1>4, <1>5 DEF LookupsAreProved
<1> QED BY <1>1, <1>6 DEF RowInv, SumSeparates, Proved

LEMMA RowStutters ==
    ASSUME RowInv, UNCHANGED pvars
    PROVE  RowInv'
<1>1. /\ pc' = pc /\ UNCHANGED <<columns, config>> /\ UNCHANGED <<columns, config, zValues>>
      /\ zValues' = zValues /\ config' = config
      /\ UNCHANGED <<oracle, transcript>> /\ proof' = proof
  BY DEF pvars
<1>2. Beta' = Beta /\ Gamma' = Gamma
  BY <1>1 DEF Beta, Gamma
<1>3. Multiplied' <=> Multiplied
  BY <1>1, <1>2, SameMultiplied
<1>4. FromValues(zValues)' = FromValues(zValues)
  BY <1>1 DEF FromValues, DomainSize, Generator
<1>5. /\ \A name : FromValues(ColumnOf(name))' = FromValues(ColumnOf(name))
      /\ IsLookup' <=> IsLookup
  BY <1>1, SameColumns
<1>6. SumSeparates'
  <2>1. IsSeparated' <=> IsSeparated
    BY <1>1, SameSeparated
  <2>2. Proved' <=> Proved
    BY <1>1 DEF Proved
  <2>3. SumSeparates' <=> (Proved' => IsSeparated')
    BY Zenon DEF SumSeparates, IsSeparated, RowIsLookup
  <2>4. Proved => IsSeparated
    BY SeparatedIs DEF RowInv
  <2> QED BY <2>1, <2>2, <2>3, <2>4
<1>7. LookupsAreProved'
  <2>1. \A i : Denominator(i)' = Denominator(i)
    BY <1>1, <1>2, SameFactors
  <2>2. DomainSize' = DomainSize
    BY <1>1 DEF DomainSize
  <2> QED BY <1>1, <1>5, <2>1, <2>2 DEF RowInv, LookupsAreProved
<1> QED BY <1>1, <1>3, <1>4, <1>5, <1>6, <1>7 DEF RowInv

LEMMA RowInvNext == ProofInv /\ RowInv /\ [PNext]_pvars => RowInv'
<1> SUFFICES ASSUME ProofInv, RowInv, [PNext]_pvars PROVE RowInv'
  OBVIOUS
<1>1. CASE Commit
  BY <1>1, RowCommit
<1>2. CASE GrandProduct
  BY <1>2, RowGrandProduct
<1>3. CASE GrandProductPanics
  BY <1>3, RowPanics
<1>4. CASE CommitProduct
  BY <1>4, RowCommitProduct
<1>5. CASE CommitQuotient
  BY <1>5, RowCommitQuotient
<1>6. CASE Evaluate
  BY <1>6, RowLater DEF Evaluate, Proved
<1>7. CASE Verify
  <2>1. UNCHANGED <<columns, config, zValues>> /\ Proved
    BY <1>7 DEF Verify, Proved
  <2>2. pc' \in {"accepted", "rejected"}
    BY <1>7 DEF Verify
  <2> QED BY <2>1, <2>2, RowLater
<1>8. CASE Terminated
  BY <1>8, RowStutters DEF Terminated
<1>9. CASE UNCHANGED pvars
  BY <1>9, RowStutters
<1> QED BY <1>1, <1>2, <1>3, <1>4, <1>5, <1>6, <1>7, <1>8, <1>9 DEF PNext

\* The commitments are to the columns and to the running product of their
\* factors, and the division decides what the two properties below say.
THEOREM RowInvHolds == PSpec => []RowInv
<1>1. PInit => RowInv
  BY DEF PInit, RowInv, SumSeparates, Proved, LookupsAreProved
<1>2. ProofInv /\ RowInv /\ [PNext]_pvars => RowInv'
  BY RowInvNext
<1> QED BY <1>1, <1>2, ProofInvHolds, PTL DEF PSpec

\* The constraints are summed and not weighted, and still no proof is handed
\* out with one of them broken: every row of A' is its row of S' or the row
\* above, but for a first row with the value -1, and the product is 0 or 1.
THEOREM SumAlwaysSeparates == PSpec => []SumSeparates
<1>1. RowInv => SumSeparates
  BY DEF RowInv
<1> QED BY <1>1, RowInvHolds, PTL

\* Columns that are a lookup are proved, whatever the challenges, unless one of
\* these is the negation of a value: the product ends in one, every constraint
\* vanishes on every row, and the division leaves nothing.
THEOREM LookupsAlwaysProved == PSpec => []LookupsAreProved
<1>1. RowInv => LookupsAreProved
  BY DEF RowInv
<1> QED BY <1>1, RowInvHolds, PTL
=============================================================================
