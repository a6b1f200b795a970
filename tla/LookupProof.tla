---------------------------- MODULE LookupProof -----------------------------
(***************************************************************************)
(* The lookup argument of mpc-lookup/src/halo2_lookup: prove of prover.rs, *)
(* then verify of verifier.rs, as generate_halo2_proof and                 *)
(* verify_halo2_proof of mpc-lookup/src/client.rs call them.  The parties  *)
(* prove in step and reveal the same commitments, so there is one prover,  *)
(* and the values are those the shares stand for.  A commitment binds: it  *)
(* stands for its polynomial.  A challenge depends on all that its         *)
(* transcript has absorbed, and on nothing else.                           *)
(***************************************************************************)
EXTENDS Polynomial

CONSTANTS
    Columns,  \* what is to be proved: [a, s, aPrime, sPrime, blinding]
    Draws     \* field elements that challenges are drawn from

ASSUME DrawsAssumption == Draws # {} /\ Draws \subseteq Field

VARIABLES
    columns,     \* the arguments of the prover
    config,      \* the rows and the generator of the domain
    oracle,      \* the challenges drawn so far
    transcript,  \* what the prover's transcript has absorbed
    zValues,           \* z_values
    proof,       \* the commitments, by name, and the openings
    pc

pvars == <<columns, config, oracle, transcript, zValues, proof, pc>>

-----------------------------------------------------------------------------
(* Rows and selectors.                                                     *)

\* r with one more entry.
With(r, name, v) == [x \in DOMAIN r \cup {name} |-> IF x = name THEN v ELSE r[x]]

Greater(i, j) == IF i < j THEN j ELSE i

DomainSizeFor(in) == NextPowerOfTwo(Greater(Len(in.s), Len(in.a)) + in.blinding + 1)

Power(x, k) ==
    LET power[e \in 0 .. k] == IF e = 0 THEN 1 ELSE (power[e - 1] * x) % Modulus
    IN  power[k]

\* The rows that hold data are 1 .. usable, the boundary row comes behind them,
\* and then the blinding rows.
ConfigFor(in) ==
    LET size == DomainSizeFor(in)
    IN  [size   |-> size,
         usable |-> size - in.blinding - 1,
         omega  |-> CHOOSE w \in Field : Power(w, size \div 2) = Modulus - 1]

\* The client's columns have the length of the table, which is not empty, and
\* the field has a domain for them: Radix2EvaluationDomain::new returns one.
ASSUME ColumnsAssumption ==
    \A in \in Columns :
        /\ \A column \in {in.a, in.s, in.aPrime, in.sPrime} :
             column \in Seq(Field) /\ Len(column) = Len(in.a)
        /\ Len(in.a) > 0 /\ in.blinding \in Nat
        /\ DomainSizeFor(in) < Modulus
        /\ \E w \in Field : Power(w, DomainSizeFor(in) \div 2) = Modulus - 1

DomainSize == config.size
Usable     == config.usable
Generator  == config.omega

\* Columns are filled up with zeros.
Row(name, i) == At(columns[name], i)

QBlind == [i \in 1 .. DomainSize |-> IF i > Usable + 1 THEN 1 ELSE 0]

\* Slip: the last usable row is the boundary.
SlipQLast == [i \in 1 .. DomainSize |-> IF i = Usable THEN 1 ELSE 0]

QLast == [i \in 1 .. DomainSize |-> IF i = Usable + 1 THEN 1 ELSE 0]

-----------------------------------------------------------------------------
(* Polynomials over the domain.                                            *)

\* The polynomial with these values on the domain.
FromValues(v) ==
    LET back == FieldInverse(Generator)
        coefficient(k) ==
          LET sum[i \in 0 .. DomainSize] ==
                IF i = 0 THEN 0 ELSE sum[i - 1] + v[i] * Power(back, (k * (i - 1)) % DomainSize)
          IN  (sum[DomainSize] * FieldInverse(DomainSize % Modulus)) % Modulus
    IN  Resized([k \in 1 .. DomainSize |-> coefficient(k - 1)], DomainSize)

ValueAt(p, x) ==
    LET horner[i \in 0 .. Len(p)] ==
          IF i = 0 THEN 0 ELSE (horner[i - 1] * x + p[Len(p) + 1 - i]) % Modulus
    IN  IF p = <<>> THEN 0 ELSE horner[Len(p)]

Plus(p, q)  == Minus(p, [i \in 1 .. Len(q) |-> -q[i]], Greater(Len(p), Len(q)))
Less(p, q)  == Minus(p, q, Greater(Len(p), Len(q)))

\* p(a X)
Shifted(p, a) == Resized([i \in 1 .. Len(p) |-> (p[i] * Power(a, i - 1)) % Modulus], Len(p))

\* X^DomainSize - 1, zero on the domain.
DomainVanishing == Resized([i \in 1 .. DomainSize + 1 |->
    IF i = 1 THEN Modulus - 1 ELSE IF i > DomainSize THEN 1 ELSE 0], DomainSize + 1)

\* The sum of the constraints.  The names are those of the committed columns.
ConstraintPolynomial(com, beta, gamma) ==
    LET selector == Less(<<1>>, Plus(FromValues(QLast), FromValues(QBlind)))
        first    == FromValues([i \in 1 .. DomainSize |-> IF i = 1 THEN 1 ELSE 0])
        lhs == PolyMul(PolyMul(Shifted(com.z, Generator), Plus(com.aPrime, <<beta>>)),
                       Plus(com.sPrime, <<gamma>>))
        rhs == PolyMul(PolyMul(com.z, Plus(com.a, <<beta>>)), Plus(com.s, <<gamma>>))
        differs == Less(com.aPrime, com.sPrime)
        changes == Less(com.aPrime, Shifted(com.aPrime, FieldInverse(Generator)))
        permutation == PolyMul(selector, Less(lhs, rhs))
        subset      == PolyMul(selector, PolyMul(differs, changes))
        initialA    == PolyMul(first, differs)
        initialZ    == PolyMul(first, Less(<<1>>, com.z))
        idempotence == PolyMul(FromValues(QLast), Less(PolyMul(com.z, com.z), com.z))
    IN  Plus(Plus(Plus(Plus(permutation, subset), initialA), initialZ), idempotence)

\* What the verifier makes of the opened values.
ConstraintValue(o, beta, gamma) ==
    LET selector == 1 - (o.qLast + o.qBlind)
        lhs == ((o.zNext * (o.aPrime + beta)) % Modulus) * (o.sPrime + gamma)
        rhs == ((o.z * (o.a + beta)) % Modulus) * (o.s + gamma)
        differs == o.aPrime - o.sPrime
        changes == o.aPrime - o.aPrimeBefore
    IN  ( selector * ((lhs - rhs) % Modulus)
        + selector * ((differs * changes) % Modulus)
        + o.first * differs
        + o.first * (1 - o.z)
        + o.qLast * ((o.z * o.z - o.z) % Modulus) ) % Modulus

-----------------------------------------------------------------------------
(* The transcript.                                                         *)

\* The k-th challenge after tr has been absorbed: the one drawn before, or any.
Answers(tr, k) == IF <<tr, k>> \in DOMAIN oracle THEN {oracle[<<tr, k>>]} ELSE Draws

\* What the verifier absorbs before the first challenges.
Opening(com) ==
    << <<"com_a", com.a>>, <<"com_s", com.s>>,
       <<"com_a_prime", com.aPrime>>, <<"com_s_prime", com.sPrime>> >>

\* Slip: the quotient is not absorbed.
SlipClosing(com) == << <<"com_z", com.z>> >>

\* And before the point of evaluation.
Closing(com) == << <<"com_z", com.z>>, <<"com_q", com.q>> >>

-----------------------------------------------------------------------------
NoProof == <<>>

PInit ==
    /\ columns \in Columns
    /\ config = ConfigFor(columns)
    /\ oracle = <<>>
    /\ transcript = <<>>
    /\ zValues = <<>>
    /\ proof = NoProof
    /\ pc = "commit"

\* commit_polynomials, and the challenges beta and gamma.
Commit ==
    /\ pc = "commit"
    /\ LET Of(name) == FromValues([i \in 1 .. DomainSize |-> Row(name, i)])
       IN  proof' = [a |-> Of("a"), s |-> Of("s"), aPrime |-> Of("aPrime"), sPrime |-> Of("sPrime")]
    /\ transcript' = transcript \o
         << <<"com_a", proof'.a>>, <<"com_s", proof'.s>>,
            <<"com_a_prime", proof'.aPrime>>, <<"com_s_prime", proof'.sPrime>> >>
    /\ \E beta \in Answers(transcript', 1), gamma \in Answers(transcript', 2) :
         oracle' = With(With(oracle, <<transcript', 1>>, beta), <<transcript', 2>>, gamma)
    /\ pc' = "multiply"
    /\ UNCHANGED <<columns, config, zValues>>

\* The challenges the prover goes on with.
Beta  == oracle[<<SubSeq(transcript, 1, 4), 1>>]
Gamma == oracle[<<SubSeq(transcript, 1, 4), 2>>]

Factors(i, a, s) == ((Row(a, i) + Beta) * (Row(s, i) + Gamma)) % Modulus

\* Behind the usable rows the quotient is upside down; there the columns are equal.
Numerator(i)   == IF i <= Usable THEN Factors(i, "a", "s") ELSE Factors(i, "aPrime", "sPrime")
Denominator(i) == IF i <= Usable THEN Factors(i, "aPrime", "sPrime") ELSE Factors(i, "a", "s")

\* Slip: the columns are multiplied up the wrong way round.
SlipGrandProduct ==
    /\ pc = "multiply"
    /\ \A i \in 1 .. DomainSize - 1 : Numerator(i) # 0
    /\ LET product[i \in 1 .. DomainSize] ==
             IF i = 1 THEN 1
             ELSE (product[i - 1] * Denominator(i - 1) * FieldInverse(Numerator(i - 1))) % Modulus
       IN  zValues' = SubSeq([i \in 1 .. DomainSize |-> product[i]], 1, DomainSize)
    /\ pc' = "product"
    /\ UNCHANGED <<columns, config, oracle, transcript, proof>>

\* Slip: one factor too many.
SlipGrandProductAll ==
    /\ pc = "multiply"
    /\ \A i \in 1 .. DomainSize : Denominator(i) # 0
    /\ LET product[i \in 1 .. DomainSize + 1] ==
             IF i = 1 THEN 1
             ELSE (product[i - 1] * Numerator(i - 1) * FieldInverse(Denominator(i - 1))) % Modulus
       IN  zValues' = SubSeq([i \in 1 .. DomainSize + 1 |-> product[i]], 1, DomainSize + 1)
    /\ pc' = "product"
    /\ UNCHANGED <<columns, config, oracle, transcript, proof>>

\* compute_grand_product: over every row but the last.
GrandProduct ==
    /\ pc = "multiply"
    /\ \A i \in 1 .. DomainSize - 1 : Denominator(i) # 0
    /\ LET product[i \in 1 .. DomainSize] ==
             IF i = 1 THEN 1
             ELSE (product[i - 1] * Numerator(i - 1) * FieldInverse(Denominator(i - 1))) % Modulus
       IN  zValues' = SubSeq([i \in 1 .. DomainSize |-> product[i]], 1, DomainSize)
    /\ pc' = "product"
    /\ UNCHANGED <<columns, config, oracle, transcript, proof>>

\* The inverse of zero: the prover panics, and does not draw again.
GrandProductPanics ==
    /\ pc = "multiply"
    /\ \E i \in 1 .. DomainSize - 1 : Denominator(i) = 0
    /\ pc' = "panicked"
    /\ UNCHANGED <<columns, config, oracle, transcript, zValues, proof>>

\* commit_grand_product
CommitProduct ==
    /\ pc = "product"
    /\ proof' = With(proof, "z", FromValues(zValues))
    /\ transcript' = Append(transcript, <<"com_z", proof'.z>>)
    /\ pc' = "divide"
    /\ UNCHANGED <<columns, config, oracle, zValues>>

Points == {Power(Generator, i) : i \in 1 .. DomainSize}

\* compute_and_commit_quotient, and the challenge zeta: the constraints, which
\* must vanish on the domain, divided by the vanishing polynomial.
CommitQuotient ==
    /\ pc = "divide"
    /\ \E c \in {ConstraintPolynomial(proof, Beta, Gamma)} :
       \E parts \in {DivideWithQAndR(c, DomainVanishing)} :
         IF (\A x \in Points : ValueAt(c, x) = 0) /\ parts[2] = <<>>
         THEN /\ proof' = With(proof, "q", parts[1])
              /\ transcript' = Append(transcript, <<"com_q", parts[1]>>)
              /\ \E zeta \in Answers(transcript', 1) :
                   oracle' = With(oracle, <<transcript', 1>>, zeta)
              /\ pc' = "evaluate"
         ELSE /\ pc' = "panicked"
              /\ UNCHANGED <<proof, transcript, oracle>>
    /\ UNCHANGED <<columns, config, zValues>>

\* The Lagrange polynomial of the first row, at x.
FirstRowAt(x) ==
    IF x = 1 THEN 1
    ELSE ((Power(x, DomainSize) - 1) * FieldInverse((DomainSize * (x - 1)) % Modulus)) % Modulus

\* compute_evaluations; the proof is complete.
Evaluate ==
    /\ pc = "evaluate"
    /\ LET zeta == oracle[<<transcript, 1>>]
       IN  proof' = With(proof, "open",
             [a      |-> ValueAt(proof.a, zeta),      s      |-> ValueAt(proof.s, zeta),
              aPrime |-> ValueAt(proof.aPrime, zeta), sPrime |-> ValueAt(proof.sPrime, zeta),
              z      |-> ValueAt(proof.z, zeta),      q      |-> ValueAt(proof.q, zeta),
              zNext        |-> ValueAt(proof.z, (Generator * zeta) % Modulus),
              aPrimeBefore |-> ValueAt(proof.aPrime, (FieldInverse(Generator) * zeta) % Modulus),
              qBlind |-> ValueAt(FromValues(QBlind), zeta),
              qLast  |-> ValueAt(FromValues(QLast), zeta),
              first  |-> FirstRowAt(zeta)])
    /\ pc' = "proved"
    /\ UNCHANGED <<columns, config, oracle, transcript, zValues>>

\* PC::check of a batch with the opening challenge 1: the sums agree.
BatchOpens(com, o, zeta) ==
    (o.a + o.s + o.aPrime + o.sPrime + o.z + o.q) % Modulus
    = (ValueAt(com.a, zeta) + ValueAt(com.s, zeta) + ValueAt(com.aPrime, zeta)
       + ValueAt(com.sPrime, zeta) + ValueAt(com.z, zeta) + ValueAt(com.q, zeta)) % Modulus

\* verify_openings
OpeningsHold(com, o, zeta) ==
    /\ BatchOpens(com, o, zeta)
    /\ o.zNext = ValueAt(com.z, (Generator * zeta) % Modulus)
    /\ o.aPrimeBefore = ValueAt(com.aPrime, (zeta * FieldInverse(Generator)) % Modulus)

\* check_permutation_constraint, which checks them all.
QuotientHolds(o, beta, gamma, zeta) ==
    ConstraintValue(o, beta, gamma) = (o.q * (Power(zeta, DomainSize) - 1)) % Modulus

\* verify, with a transcript of its own.
Verify ==
    /\ pc = "proved"
    /\ LET start == Opening(proof)
           whole == start \o Closing(proof)
       IN  \E beta \in Answers(start, 1), gamma \in Answers(start, 2), zeta \in Answers(whole, 1) :
             /\ oracle' = With(With(With(oracle, <<start, 1>>, beta), <<start, 2>>, gamma),
                               <<whole, 1>>, zeta)
             /\ pc' = IF /\ OpeningsHold(proof, proof.open, zeta)
                         /\ QuotientHolds(proof.open, beta, gamma, zeta)
                      THEN "accepted" ELSE "rejected"
    /\ UNCHANGED <<columns, config, transcript, zValues, proof>>

Terminated == pc \in {"accepted", "rejected", "panicked"} /\ UNCHANGED pvars

PNext ==
    \/ Commit \/ GrandProduct \/ GrandProductPanics \/ CommitProduct
    \/ CommitQuotient \/ Evaluate \/ Verify \/ Terminated

PSpec == PInit /\ [][PNext]_pvars

-----------------------------------------------------------------------------
\* Every polynomial is of a degree that the trimmed parameters can commit to:
\* below the domain size for a column, up to three times it for the quotient.
PTypeOK ==
    /\ columns \in Columns
    /\ \A q \in DOMAIN oracle : oracle[q] \in Draws
    /\ zValues # <<>> => zValues \in [1 .. DomainSize -> Field]
    /\ \A name \in DOMAIN proof :
         name # "open" =>
           /\ \A i \in DOMAIN proof[name] : proof[name][i] \in Field
           /\ Len(proof[name]) <= IF name = "q" THEN 3 * DomainSize + 1 ELSE DomainSize

Rows == 1 .. Len(columns.a)

\* Columns of the right shape: as many rows of one as of the other, the primed
\* ones rearranged, and every row of A' equal to its row of S' or the row above.
Rearranged(p, q) == \A x \in Field :
    Cardinality({i \in DOMAIN p : p[i] = x}) = Cardinality({i \in DOMAIN q : q[i] = x})

NotAbove(i) == i = 1 \/ columns.aPrime[i] # columns.aPrime[i - 1]

IsLookup ==
    /\ Rearranged(columns.a, columns.aPrime)
    /\ Rearranged(columns.s, columns.sPrime)
    /\ \A i \in Rows : NotAbove(i) => columns.aPrime[i] = columns.sPrime[i]

\* A proof that the prover hands out is accepted, whatever the columns and the
\* challenges: prover and verifier, written apart, agree on the transcript, on
\* the constraints, on the rows of the domain and on the points of evaluation.
ProofsAreAccepted == pc # "rejected"

\* A lookup is proved unless a challenge is the negation of a value: the prover
\* panics for no other reason.
LookupsAreProved ==
    IsLookup /\ pc = "panicked" =>
        \E i \in 1 .. DomainSize - 1 : Denominator(i) = 0

\* The constraints are summed and not weighted, and no two of them meet in a
\* row but two in the first one.  So a proof that is handed out has each of
\* them: a row of A' is its row of S' or the row above, but for a first row
\* with the value -1; and the product over the usable rows is 0 or 1.
Proved == pc \in {"evaluate", "proved", "accepted"}

SumSeparates ==
    Proved =>
        /\ \A i \in Rows : \/ columns.aPrime[i] = columns.sPrime[i]
                           \/ i = 1 /\ columns.aPrime[1] = Modulus - 1
                           \/ i > 1 /\ columns.aPrime[i] = columns.aPrime[i - 1]
        /\ zValues[Usable + 1] \in {0, 1}
=============================================================================
