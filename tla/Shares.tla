------------------------------- MODULE Shares -------------------------------
(***************************************************************************)
(* Values of mpc-algebra that are public or shared (wire/field.rs), the    *)
(* shares of field elements (share/field.rs, share/add.rs, and their MACs  *)
(* of share/spdz.rs) and of bits (share/bit_ops.rs).  The parties run one  *)
(* program on a few registers.  Every opening is a collective call, so     *)
(* they are in step, and a step here is one operation of all of them.      *)
(***************************************************************************)
EXTENDS Polynomial

CONSTANT N  \* parties

ASSUME NAssumption == N \in Nat \ {0}

Party == 0 .. N - 1
King  == 0

Registers == 1 .. 2

VARIABLES
    reg,     \* what the parties hold: [shared, val, mac]
    plain,   \* what a plain program would hold
    bit,     \* a shared bit, or nothing: a sequence
    stopped  \* why the parties have stopped

vars == <<reg, plain, bit, stopped>>

-----------------------------------------------------------------------------
(* A share of a field element is a function on the parties.                *)

Added(x, y)      == [p \in Party |-> (x[p] + y[p]) % Modulus]
Subtracted(x, y) == [p \in Party |-> (x[p] - y[p]) % Modulus]
Times(x, y)      == [p \in Party |-> (x[p] * y[p]) % Modulus]
Scaled(x, c)     == [p \in Party |-> (x[p] * c) % Modulus]

\* The sum of the first k shares, one party after the other.
Total(x, k) ==
    LET upTo[i \in 0 .. k] == IF i = 0 THEN 0 ELSE upTo[i - 1] + x[i - 1]
    IN  upTo[k]

SumOf(x) == Total(x, N) % Modulus

\* A public constant is the share of the king.
KingHolds(c) == [p \in Party |-> IF p = King THEN c ELSE 0]

\* Everything the dummy source deals out.
One == [val |-> KingHolds(1), mac |-> KingHolds(1)]

\* The value and its MAC are worked on alike: the key is 1, and the king has it.
AddShares(x, y)      == [val |-> Added(x.val, y.val), mac |-> Added(x.mac, y.mac)]
SubtractShares(x, y) == [val |-> Subtracted(x.val, y.val), mac |-> Subtracted(x.mac, y.mac)]

Shift(x, c) == AddShares(x, [val |-> KingHolds(c), mac |-> KingHolds(c)])
Scale(x, c) == [val |-> Scaled(x.val, c), mac |-> Scaled(x.mac, c)]

Open(x) == SumOf(x.val)

\* The check that every SPDZ opening makes, with the MAC shares as they are.
ChecksOut(x) == SumOf(Subtracted(KingHolds(Open(x)), x.mac)) = 0

\* z - open(s + x) y - open(o + y) x + open(s + x) open(o + y)
Mul(s, o) ==
    LET sx == Open(AddShares(s, One))
        oy == Open(AddShares(o, One))
        z  == SubtractShares(SubtractShares(One, Scale(One, sx)), Scale(One, oy))
    IN  Shift(z, (sx * oy) % Modulus)

\* The inverse of a share of anything but zero.
Inv(s) == Scale(One, FieldInverse(Open(Mul(One, s))))

\* The bits of c, the low one first.
BitLength == CHOOSE l \in 1 .. Modulus : 2 ^ (l - 1) <= Modulus /\ Modulus < 2 ^ l
BitsOf(c, l) == [i \in 1 .. l |-> (c \div 2 ^ (i - 1)) % 2 = 1]

\* s ^ (Modulus - 2), by squaring: the inverse, or zero of zero.
Fermat(s) ==
    LET exponent == BitsOf(Modulus - 2, BitLength)
        square[k \in 0 .. BitLength] == IF k = 0 THEN s ELSE Mul(square[k - 1], square[k - 1])
        result[k \in 0 .. BitLength] ==
          IF k = 0 THEN One
          ELSE IF exponent[k] THEN Mul(result[k - 1], square[k - 1]) ELSE result[k - 1]
    IN  result[BitLength]

\* 0 if they are equal, 1 if not.
Neq(s, o) == LET c == SubtractShares(s, o) IN Mul(c, Fermat(c))

\* Every element times those before it: masked by the dealer's ones, opened,
\* multiplied up in the open and unmasked.
PartialProducts(x) ==
    LET masked   == [i \in DOMAIN x |-> Open(Mul(Mul(One, x[i]), One))]
        upTo[i \in DOMAIN x] == IF i = 1 THEN masked[1] ELSE (upTo[i - 1] * masked[i]) % Modulus
    IN  [i \in DOMAIN x |-> Scale(Inv(Mul(One, One)), upTo[i])]

\* Slip: every party keeps the length of its own result.
SlipSynchronized(parts) == parts

\* All the parties' results are as long as the longest, and not empty.
Synchronized(parts) ==
    LET lengths == {1} \cup {Len(parts[p]) : p \in Party}
        longest == CHOOSE l \in lengths : \A k \in lengths : k <= l
    IN  [p \in Party |-> Resized(parts[p], longest)]

\* univariate_div_qr: every party divides its own shares of the numerator.
DivideShares(num, den) ==
    LET parts == [p \in Party |-> DivideWithQAndR([i \in DOMAIN num |-> num[i][p]], den)]
    IN  << Synchronized([p \in Party |-> parts[p][1]]), Synchronized([p \in Party |-> parts[p][2]]) >>

-----------------------------------------------------------------------------
(* A shared bit is the set of the parties whose share is true.             *)

Xor(x, y)  == (x \ y) \cup (y \ x)
Not(x)     == Xor(x, {King})
OpenBit(x) == Cardinality(x) % 2 = 1

If(c, x) == IF c THEN x ELSE {}

\* Slip: every party adds the product of what has been opened.
SlipAnd(x, y) ==
    LET d == OpenBit(Xor(x, {King}))
        e == OpenBit(Xor(y, {King}))
    IN  Xor(Xor({King}, If(d, {King})), Xor(If(e, {King}), If(d /\ e, Party)))

\* With the triple of the dealer: its ones are the king's.
And(x, y) ==
    LET d == OpenBit(Xor(x, {King}))
        e == OpenBit(Xor(y, {King}))
    IN  Xor(Xor({King}, If(d, {King})), Xor(If(e, {King}), If(d /\ e, {King})))

Or(x, y) == Xor(Xor(x, y), And(x, y))

\* The sum of as many bits, the low one first, and the carry behind it.
BitsAdd(x, y) ==
    LET n == Len(x)
        carry[i \in 0 .. n] ==
          IF i = 0 THEN {}
          ELSE LET c == carry[i - 1]
               IN  Or(Or(And(x[i], y[i]), And(x[i], c)), And(y[i], c))
    IN  [i \in 1 .. n + 1 |-> IF i > n THEN carry[n] ELSE Xor(Xor(x[i], y[i]), carry[i - 1])]

\* The same with public bits.
BitsAddConst(x, const) ==
    LET n == Len(x)
        carry[i \in 0 .. n] ==
          IF i = 0 THEN {}
          ELSE LET c == carry[i - 1]
               IN  IF const[i] THEN Or(x[i], c) ELSE And(x[i], c)
    IN  [i \in 1 .. n + 1 |->
           IF i > n THEN carry[n] ELSE Xor(Xor(x[i], If(const[i], {King})), carry[i - 1])]

\* The bits of a share s, with the edaBit of r: s - r is opened and added to
\* the bits of r; a sum below the modulus has it added back.
BitDecompose(s, r) ==
    LET l == BitLength
        c == Open(SubtractShares(s, Scale(One, r)))
        e == (c + 2 ^ l - Modulus) % 2 ^ (l + 1)
        random == [i \in 1 .. l + 1 |-> If(i <= l /\ BitsOf(r, l + 1)[i], {King})]
        sum    == BitsAddConst(random, BitsOf(e, l + 1))
        back   == [i \in 1 .. l |-> And(If(BitsOf(Modulus, l)[i], {King}), Not(sum[l + 1]))]
    IN  SubSeq(BitsAdd(SubSeq(sum, 1, l), SubSeq(back, 1, l)), 1, l)

Halved(s) == [i \in 1 .. (Len(s) + 1) \div 2 |->
    IF 2 * i <= Len(s) THEN Or(s[2 * i - 1], s[2 * i]) ELSE s[Len(s)]]

\* Is left less than right?  Where they first differ, the high bit first, the
\* bit of right tells.
CompareBits(left, right) ==
    LET n == Len(left)
        high(x, i) == x[n + 1 - i]
        differ(i)  == Xor(high(left, i), high(right, i))
        before[i \in 1 .. n] == IF i = 1 THEN differ(1) ELSE Or(before[i - 1], differ(i))
        first(i)   == IF i = 1 THEN differ(1) ELSE And(differ(i), Not(before[i - 1]))
        level[k \in 1 .. n] ==
          IF k = 1 THEN SubSeq([i \in 1 .. n |-> And(first(i), high(right, i))], 1, n)
          ELSE Halved(level[k - 1])
    IN  level[n][1]

\* With the daBit r: the opened bit says if r is to be flipped.
B2A(x, r) ==
    LET dabit == Scale(One, IF r THEN 1 ELSE 0)
    IN  IF OpenBit(Xor(x, If(r, {King}))) THEN SubtractShares(One, dabit) ELSE dabit

-----------------------------------------------------------------------------
(* Registers.  Of a public one, every party has a copy.                    *)

Public(v) == [shared |-> FALSE, val |-> v, mac |-> v]
Shared(x) == [shared |-> TRUE, val |-> x.val, mac |-> x.mac]

Constant(c) == Public([p \in Party |-> c])

AsShare(r) == IF r.shared THEN [val |-> r.val, mac |-> r.mac] ELSE Scale(One, r.val[King])

\* Sums, where a public operand is the king's alone to add.
SumOfBoth(r, s) ==
    IF r.shared \/ s.shared THEN Shared(AddShares(AsShare(r), AsShare(s)))
    ELSE Public(Added(r.val, s.val))

Difference(r, s) ==
    IF r.shared \/ s.shared THEN Shared(SubtractShares(AsShare(r), AsShare(s)))
    ELSE Public(Subtracted(r.val, s.val))

\* Products, where every party scales its share by its copy.
Product(r, s) ==
    IF r.shared /\ s.shared THEN Shared(Mul(AsShare(r), AsShare(s)))
    ELSE [shared |-> r.shared \/ s.shared,
          val |-> Times(r.val, s.val), mac |-> Times(r.mac, s.mac)]

Inverted(r) ==
    IF r.shared THEN Shared(Inv(AsShare(r))) ELSE Public([p \in Party |-> FieldInverse(r.val[p])])

\* A shared quotient of shares is a product; the others scale.
Quotient(r, s) == Product(r, Inverted(s))

Differ(r, s) ==
    IF r.shared \/ s.shared THEN Shared(Neq(AsShare(r), AsShare(s)))
    ELSE Public([p \in Party |-> IF r.val[p] = s.val[p] THEN 0 ELSE 1])

Value(r) == IF r.shared THEN Open(r) ELSE r.val[King]

-----------------------------------------------------------------------------
\* The bound on bits: at most one is held, and the registers rest while it is.
Idle    == stopped = "" /\ bit = <<>>
Holding == stopped = "" /\ bit # <<>>

Init ==
    /\ reg = [i \in Registers |-> Constant(0)]
    /\ plain = [i \in Registers |-> 0]
    /\ bit = <<>>
    /\ stopped = ""

Store(i, r, v) ==
    /\ reg' = [reg EXCEPT ![i] = r]
    /\ plain' = [plain EXCEPT ![i] = v]
    /\ UNCHANGED <<bit, stopped>>

SetPublic == \E i \in Registers, c \in Field : Idle /\ Store(i, Constant(c), c)

\* king_share: the last party gets what is left.
KingShare ==
    \E i \in Registers, c \in Field, random \in [0 .. N - 2 -> Field] :
      LET share == [p \in Party |-> IF p < N - 1 THEN random[p]
                                    ELSE (c - Total(random, N - 1)) % Modulus]
      IN  /\ Idle
          /\ Store(i, Shared([val |-> share, mac |-> share]), c)

\* Slip: every party takes its own share for the value.
SlipPublicize ==
    \E i \in Registers :
      /\ Idle /\ reg[i].shared
      /\ Store(i, Public(reg[i].val), plain[i])

Publicize ==
    \E i \in Registers :
      /\ Idle /\ reg[i].shared
      /\ Store(i, Constant(Open(reg[i])), plain[i])

Add == \E i, j \in Registers :
    Idle /\ Store(i, SumOfBoth(reg[i], reg[j]), (plain[i] + plain[j]) % Modulus)

Subtract == \E i, j \in Registers :
    Idle /\ Store(i, Difference(reg[i], reg[j]), (plain[i] - plain[j]) % Modulus)

Multiply == \E i, j \in Registers :
    Idle /\ Store(i, Product(reg[i], reg[j]), (plain[i] * plain[j]) % Modulus)

Divide == \E i, j \in Registers :
    /\ Idle /\ Value(reg[j]) # 0
    /\ Store(i, Quotient(reg[i], reg[j]), (plain[i] * FieldInverse(plain[j])) % Modulus)

\* The inverse of zero is unwrapped.
DivideByZero == \E j \in Registers :
    /\ Idle /\ Value(reg[j]) = 0
    /\ stopped' = "zero"
    /\ UNCHANGED <<reg, plain, bit>>

SecureNeq == \E i, j \in Registers :
    Idle /\ Store(i, Differ(reg[i], reg[j]), IF plain[i] = plain[j] THEN 0 ELSE 1)

SecureEq == \E i, j \in Registers :
    /\ Idle
    /\ Store(i, Difference(Constant(1), Differ(reg[i], reg[j])),
             IF plain[i] = plain[j] THEN 1 ELSE 0)

\* partial_products_in_place, of the registers in either order.
MultiplyUp == \E i, j \in Registers :
    /\ Idle /\ i # j /\ reg[1].shared = reg[2].shared
    /\ LET products == PartialProducts(<<AsShare(reg[i]), AsShare(reg[j])>>)
       IN  reg' = IF reg[1].shared
                  THEN [reg EXCEPT ![i] = Shared(products[1]), ![j] = Shared(products[2])]
                  ELSE [reg EXCEPT ![j] = Product(reg[j], reg[i])]
    /\ plain' = [plain EXCEPT ![j] = (plain[i] * plain[j]) % Modulus]
    /\ UNCHANGED <<bit, stopped>>

\* The polynomial over a domain of two points that is divided by.
Vanishing == <<Modulus - 1, 0, 1>>

\* univariate_div_qr of a polynomial with the registers as coefficients; two
\* coefficients of the quotient or of the remainder are kept.  If the parties
\* had results of different lengths, their next collective calls would not fit.
DividePolynomial == \E pick \in [1 .. 4 -> Registers], part \in {1, 2} :
    /\ Idle /\ \A i \in Registers : reg[i].shared
    /\ LET vals == DivideShares([k \in 1 .. 4 |-> reg[pick[k]].val], Vanishing)[part]
           macs == DivideShares([k \in 1 .. 4 |-> reg[pick[k]].mac], Vanishing)[part]
       IN  IF \A p \in Party : Len(vals[p]) = Len(vals[King])
           THEN /\ reg' = [i \in Registers |->
                     Shared([val |-> [p \in Party |-> At(vals[p], i)],
                             mac |-> [p \in Party |-> At(macs[p], i)]])]
                /\ plain' = Resized(DivideWithQAndR([k \in 1 .. 4 |-> plain[pick[k]]], Vanishing)[part], 2)
                /\ UNCHANGED <<bit, stopped>>
           ELSE /\ stopped' = "uneven"
                /\ UNCHANGED <<reg, plain, bit>>

-----------------------------------------------------------------------------
(* Bits.                                                                   *)

PlainBit(c, k) == BitsOf(c, BitLength)[k]

Hold(x, b) ==
    /\ bit' = <<[share |-> x, plain |-> b]>>
    /\ UNCHANGED <<reg, plain, stopped>>

\* batch_bit_decompose_elems, of which one bit is kept.
TakeBit == \E i \in Registers, k \in 1 .. BitLength, r \in Field :
    Idle /\ Hold(BitDecompose(AsShare(reg[i]), r)[k], PlainBit(plain[i], k))

\* batch_compare_bits of two registers; secure_cmp is this and then ToField.
Compare == \E i, j \in Registers, r, s \in Field :
    /\ Idle /\ i # j
    /\ Hold(CompareBits(BitDecompose(AsShare(reg[i]), r), BitDecompose(AsShare(reg[j]), s)),
            plain[i] < plain[j])

Negate == Holding /\ Hold(Not(bit[1].share), ~bit[1].plain)

\* With the low bit of a register, decomposed with the edaBit of 1.
Combine == \E i \in Registers :
    /\ Holding
    /\ LET other == BitDecompose(AsShare(reg[i]), 1)[1]
           known == PlainBit(plain[i], 1)
       IN  \/ Hold(And(bit[1].share, other), bit[1].plain /\ known)
           \/ Hold(Or(bit[1].share, other), bit[1].plain \/ known)
           \/ Hold(Xor(bit[1].share, other), bit[1].plain # known)

\* b2a: the bit is used up.
ToField == \E i \in Registers, r \in BOOLEAN :
    /\ Holding
    /\ reg' = [reg EXCEPT ![i] = Shared(B2A(bit[1].share, r))]
    /\ plain' = [plain EXCEPT ![i] = IF bit[1].plain THEN 1 ELSE 0]
    /\ bit' = <<>>
    /\ UNCHANGED stopped

Stopped == stopped # "" /\ UNCHANGED vars

Next ==
    \/ SetPublic \/ KingShare \/ Publicize
    \/ Add \/ Subtract \/ Multiply \/ Divide \/ DivideByZero
    \/ SecureNeq \/ SecureEq \/ MultiplyUp \/ DividePolynomial
    \/ TakeBit \/ Compare \/ Negate \/ Combine \/ ToField \/ Stopped

Spec == Init /\ [][Next]_vars

-----------------------------------------------------------------------------
\* Registers hold field elements, and every party has the same copy of a
\* public one, which check_eq asserts.
TypeOK ==
    /\ \A i \in Registers :
         /\ reg[i].val \in [Party -> Field] /\ reg[i].mac \in [Party -> Field]
         /\ ~reg[i].shared => \A p \in Party : reg[i].val[p] = reg[i].val[King]
    /\ plain \in [Registers -> Field]
    /\ bit # <<>> => bit[1].share \subseteq Party /\ bit[1].plain \in BOOLEAN

\* Whatever the parties have computed, in whatever order, and however the
\* shares fell: a register opens to the value the plain program has, and so
\* does a bit.
OpensToPlain ==
    /\ \A i \in Registers : Value(reg[i]) = plain[i]
    /\ bit # <<>> => OpenBit(bit[1].share) = bit[1].plain

\* No honest run is cut short: every opening passes the MAC check, the parties
\* never have polynomials of different lengths, and they stop for one reason,
\* a division by zero.
ChecksPass ==
    /\ \A i \in Registers : reg[i].shared => ChecksOut(reg[i])
    /\ stopped = "" \/ (stopped = "zero" /\ \E i \in Registers : plain[i] = 0)
=============================================================================
