----------------------------- MODULE Polynomial -----------------------------
(***************************************************************************)
(* The polynomials of mpc-lookup/src/halo2_lookup/polynomial.rs, and the   *)
(* long division of algebra/poly, on sequences of coefficients modulo a    *)
(* prime, the constant one first.                                          *)
(***************************************************************************)
EXTENDS Integers, Sequences, FiniteSets

Seqs == INSTANCE SequencesExt

CONSTANT Modulus  \* of the field

ASSUME PrimeAssumption ==
    /\ Modulus \in Nat \ {0, 1}
    /\ \A d \in 2 .. Modulus - 1 : Modulus % d # 0

Field == 0 .. Modulus - 1

FieldInverse(x) == CHOOSE y \in Field : (x * y) % Modulus = 1

\* The least power of two that is not below k.
NextPowerOfTwo(k) ==
    LET least[e \in 0 .. k] == IF 2 ^ e >= k THEN 2 ^ e ELSE least[e + 1]
    IN  least[0]

\* (SubSeq has TLC evaluate a sequence once.)
At(p, i)      == IF i \in 1 .. Len(p) THEN p[i] ELSE 0
Resized(p, k) == SubSeq([i \in 1 .. k |-> At(p, i)], 1, k)
Shorter(p, k) == SubSeq(p, 1, IF Len(p) <= k THEN Len(p) ELSE k)

\* k coefficients of p - q.
Minus(p, q, k) == SubSeq([i \in 1 .. k |-> (At(p, i) - At(q, i)) % Modulus], 1, k)

\* Slip: the domain has room for the degree, not for the coefficients.
SlipPolyMul(p, q) ==
    LET size == NextPowerOfTwo(Len(p) + Len(q) - 2)
        coefficient(k) ==
          LET sum[i \in 0 .. Len(p)] ==
                IF i = 0 THEN 0 ELSE sum[i - 1] + p[i] * At(q, ((k - i) % size) + 1)
          IN  sum[Len(p)] % Modulus
    IN  IF p = <<>> \/ q = <<>> THEN <<>>
        ELSE Resized([k \in 1 .. size |-> coefficient(k)], Len(p) + Len(q) - 1)

\* The transforms over a domain of some size make the product of the two
\* values at every point, so the product of the polynomials modulo X^size - 1.
PolyMul(p, q) ==
    LET size == NextPowerOfTwo(Len(p) + Len(q) - 1)
        coefficient(k) ==
          LET sum[i \in 0 .. Len(p)] ==
                IF i = 0 THEN 0 ELSE sum[i - 1] + p[i] * At(q, ((k - i) % size) + 1)
          IN  sum[Len(p)] % Modulus
    IN  IF p = <<>> \/ q = <<>> THEN <<>>
        ELSE SubSeq([k \in 1 .. size |-> coefficient(k)], 1, Len(p) + Len(q) - 1)

\* The power series 1 / f up to degree deg - 1, by Newton's iteration: each
\* round doubles the coefficients that are right.
PolyInv(f, deg) ==
    LET g[s \in 0 .. deg] ==
          IF s = 0 THEN <<FieldInverse(f[1])>>
          ELSE LET size  == 2 ^ s
                   h     == g[s - 1]
                   once  == Shorter(PolyMul(h, Resized(f, size)), size)
                   twice == Shorter(PolyMul(h, once), size)
               IN  Minus([i \in 1 .. size |-> 2 * At(h, i)], twice, size)
        rounds == CHOOSE s \in 0 .. deg : 2 ^ s = NextPowerOfTwo(deg)
    IN  IF deg = 0 THEN <<>> ELSE SubSeq(g[rounds], 1, deg)

\* Quotient and remainder, through the inverse of the reversed divisor; the
\* remainder keeps the length of the dividend.
PolyDivMod(num, den) ==
    LET degQ == Len(num) - Len(den) + 1
        q == Seqs!Reverse(Shorter(
               PolyMul(SubSeq(Seqs!Reverse(num), 1, degQ), PolyInv(Seqs!Reverse(den), degQ)), degQ))
    IN  IF Len(num) < Len(den) THEN <<<<0>>, num>>
        ELSE <<q, Minus(num, PolyMul(q, den), Len(num))>>

\* Without the zeros on top.
Trimmed(p) ==
    LET top[k \in 0 .. Len(p)] == IF k = 0 \/ p[k] # 0 THEN k ELSE top[k - 1]
    IN  IF p = <<>> THEN <<>> ELSE SubSeq(p, 1, top[Len(p)])

\* Quotient and remainder by long division, both trimmed; a dividend that is
\* shorter than the divisor stays as it is.
DivideWithQAndR(num, den) ==
    LET steps == Len(num) - Len(den) + 1
        back  == FieldInverse(den[Len(den)])
        left[d \in 0 .. steps] ==
          IF d = steps THEN <<num, 0>>
          ELSE LET above == left[d + 1][1]
                   q     == (At(above, d + Len(den)) * back) % Modulus
               IN  << Minus(above, [i \in 1 .. d + Len(den) |->
                                      IF i > d THEN q * den[i - d] ELSE 0], Len(num)), q >>
    IN  CASE Trimmed(num) = <<>> -> << <<>>, <<>> >>
          [] Trimmed(num) # <<>> /\ Len(num) < Len(den) -> << <<>>, num >>
          [] OTHER -> << Trimmed([d \in 1 .. steps |-> left[d - 1][2]]), Trimmed(left[0][1]) >>

\* Level 1 has a root per point, filled up with ones; the last level has the
\* polynomial with all the points as roots.
SubproductTree(points) ==
    LET leaves == [i \in 1 .. NextPowerOfTwo(Len(points)) |->
                     IF i <= Len(points) THEN <<(-points[i]) % Modulus, 1>> ELSE <<1>>]
        height == CHOOSE e \in 0 .. Len(points) : 2 ^ e = Len(leaves)
        level[l \in 1 .. height + 1] ==
          IF l = 1 THEN leaves
          ELSE LET below == level[l - 1]
               IN  [i \in 1 .. Len(below) \div 2 |-> PolyMul(below[2 * i - 1], below[2 * i])]
    IN  IF points = <<>> THEN << << <<1>> >> >> ELSE level

\* The values of p at the points of a tree: down the tree, p is reduced modulo
\* every node but the root, and the constants left at the points are its values.
MultipointEval(p, tree) ==
    LET reduced[l \in 1 .. Len(tree)] ==
          IF l = Len(tree) THEN <<p>>
          ELSE LET above == reduced[l + 1]
               IN  [i \in 1 .. Len(tree[l]) |->
                      LET node   == tree[l][i]
                          parent == above[(i + 1) \div 2]
                      IN  IF Len(node) > 1
                          THEN Shorter(PolyDivMod(parent, node)[2], Len(node) - 1)
                          ELSE parent]
        points == Cardinality({i \in DOMAIN tree[1] : Len(tree[1][i]) > 1})
        leaves == reduced[1]
    IN  [i \in 1 .. points |-> At(leaves[i], 1)]
=============================================================================
