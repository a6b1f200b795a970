# Verification of MPlookup

TLA+ modules, TLC configurations and TLAPS proofs for the programs of this
repository: an oblivious lookup argument computed by several parties that hold
shares of a table and of queries to it (`mpc-lookup`), the share algebra it
uses (`mpc-algebra`), and the network underneath (`mpc-net`).

    tlc -workers 2 -config MCConnect.cfg MCConnect     # a run
    tlapm ConnectProofs.tla                            # the proofs of a module

## The system

| part | code | state it keeps | operations |
|---|---|---|---|
| network start-up | `mpc-net/src/multi.rs`, `connect_to_all` | `peers[..].stream`, a listener per round, the kernel's backlog | connect with retry, bind, accept, drop the listener, note to the next sender, round with the king |
| collective calls | `mpc-net/src/lib.rs`, `multi.rs` | streams without message boundaries, a thread pool | `broadcast`, `send_to_king`, `recv_from_king`, `king_compute` |
| two-party channel | `mpc-net/src/two.rs` | one nonblocking stream, `talk_first` | `connect`, `exchange_bytes`, `send_slice`, `recv_vec` |
| commit and reveal | `mpc-algebra/src/channel.rs`, `com.rs` | none across calls | `atomic_broadcast`, `atomic_exchange` |
| field shares | `mpc-algebra/src/share/{add,field,spdz}.rs`, `wire/field.rs` | shares per party, Beaver triples | add, multiply, open, MAC check, division |
| bit shares | `mpc-algebra/src/share/bit_ops.rs` | XOR shares per party | AND, comparison, conversion to field shares |
| GSZ20 shares | `mpc-algebra/src/share/gsz20/` | a global queue of products to check | multiply through the king, open, check |
| oblivious sort | `mpc-lookup/src/halo2_lookup/sorting.rs` | records, the bits of their keys | `radix_sort`, `radix_sort_by_key`, `bitonic_sort...` |
| lookup permutation | `mpc-lookup/src/halo2_lookup/permutation.rs` | indicators, compacted records, writes | eleven steps; the naive variant's five |
| lookup proof | `.../prover.rs`, `verifier.rs`, `transcript.rs`, `types.rs` | columns, transcript, grand product | commit, challenge, open, verify |
| client | `mpc-lookup/src/client.rs` | the columns to prove about | padding, choice of the permutation |

The client starts the network, shares the inputs, runs the permutation (which
calls the sort four times), pads the columns and runs the proof. Sort and
permutation are the same program on every party: all their communication is
collective calls, made by everyone in the same order with messages of the same
length. `mpc-plonk`, `mpc-snarks` and the forks of arkworks (`algebra`,
`curves`, `groth16`, `marlin`, `poly-commit`, ...) are listed in PROJECT.json
with the reasons why they are not modelled.

What is hard here:

- **Start-up.** Parties run at their own pace; a listener answers whoever
  comes, in the order of arrival; dropping it resets what is pending; reads
  block for ever. Nothing names the party at the other end of a stream.
- **Collective calls.** Streams carry bytes and no messages; buffers are
  bounded; worker threads are bounded; one party may be a call ahead.
- **Oblivious algorithms.** Control flow never depends on the data, so every
  case distinction is arithmetic on indicators, and two sorts are joined by
  the places their records end up in. A wrong indicator shows in the values of
  some inputs only.

What makes each part correct: a full mesh with every stream under its name;
calls that return whole messages of the same call, and return at all; an
ordered rearrangement; `t'` and `f'` that are rearrangements of `t` and `f`
with every first occurrence in its row; columns that satisfy the lookup
argument.

## Modules

| module | models | EXTENDS / uses |
|---|---|---|
| `Connect` | start-up, all parties | |
| `ConnectProofs` | theorems about it | `Connect`, `TLAPS` |
| `Collective` | what the calls of trait `MpcNet` promise (abstract) | |
| `Rounds` | the calls over bounded streams and worker threads | implements `Collective` |
| `RoundsProofs` | theorems about both | `Rounds`, `TLAPS` |
| `TwoParty` | the two-party channel, and a process that ends | implements `Collective` |
| `TwoPartyProofs` | theorems about it | `TwoParty`, `TLAPS` |
| `Polynomial` | arithmetic of polynomials, schoolbook and fast, over a small prime field | |
| `Shares` | public and shared values, shared bits | `Polynomial` |
| `SortingNetwork` | operators of the bitonic network; the whole sort as a function | |
| `AlgorithmProofs` | theorems about the sorting network and about arithmetic of polynomials | `SortingNetwork`, `Polynomial`, `TLAPS` |
| `Sort` | what a sort promises (abstract) | `SortingNetwork` |
| `RadixSort` | the sort level by level | implements `Sort` |
| `RadixSortProofs` | theorems about it | `RadixSort`, `AlgorithmProofs` |
| `Lookup` | what the permutation promises (abstract) | `SortingNetwork` |
| `Arguments` | table and queries of both permutations | `SortingNetwork` |
| `LookupPermutation` | the compacting permutation, the client's padding | `Arguments`, `Polynomial`; implements `Lookup` |
| `LookupPermutationProofs` | theorems about it and about `TwoWays` | `TwoWays`, `NaivePermutationProofs`, `AlgorithmProofs` |
| `NaivePermutation` | the naive permutation | `Arguments`; implements `Lookup` |
| `NaivePermutationProofs` | theorems about it | `NaivePermutation`, `AlgorithmProofs` |
| `TwoWays` | both on the same input | `LookupPermutation`, an instance of `NaivePermutation` |
| `LookupProof` | prover and verifier of the lookup argument | `Polynomial` |
| `FieldProofs` | theorems about every protocol on shares and their invariant; about the lookup proof and what the verifier accepts | `Shares`, `LookupProof`, `AlgorithmProofs` |
| `MC...` | constants for TLC | |

Definitions named `Slip...` are plausible mistakes in the definition that
follows; they are not part of a model. For each property of a run, PROJECT.json
names one that the property catches.

### Connect

State per party: `pc`, the loop variables `round` and `to`, its `slot`s (the
party at the other end of `peers[q].stream`), its listener and backlog. Shared:
`pipe` (unread bytes) and `reset` (connections lost with a listener). A
connection is named by its two ends, since a sender opens at most one to each
party. One action is one system call: `ConnectOk` / `ConnectRefused` (the
retry loop), `WriteNote`, `Bind`, `Accept`, `Close` (the listener goes out of
scope), `ReadNote`, `SendToKing`, `KingRound`, `RecvFromKing`, and `ReadFails`
for a read that meets a reset, which ends the process. `KingRound` is one
step: the king's reads wait for everyone, and its writes disturb nobody's
reads. A write on a broken connection is lost or ends the process.

### Collective and Rounds

In `Collective` a call is entered and left; leaving needs the parties whose
messages it returns to have entered the same call. `Rounds` splits a call into
single reads and writes: for each peer a task writes `ToWrite` and reads
`ToRead` units, the lower party of a pair of a broadcast writing last. A unit
is tagged with its call and position, which the code cannot see: the tag is
used by the properties and, where the code reads a length header, by what the
header says. `Begin` gives a task to a worker: rayon splits the range of
peers, and a worker goes through its piece in order, so that the lowest
unfinished task has always begun.

### TwoParty

The same promise for two parties. `exchange_bytes` is a loop that writes what
fits and reads what is there on a nonblocking stream: `TryWrite` and `TryRead`
are one attempt each, which moves any part of what could be moved, in turns as
`turn` says. `SendUnit` and `RecvUnit` are the blocking calls, with the length
first. `End` is a process that ends, at any moment; bytes it has not read
reset the stream of the other, as the kernel does. What the survivor notices
differs: a write on a reset stream and a blocking read at the end of the
stream fail, and the caller unwraps the error (`Panic`); the loop of
`exchange_bytes` takes `Ok(0)` for nothing read and turns for ever.

### Polynomial

Coefficient vectors over a prime field, low coefficient first. The product is
modelled by what the transform computes, a cyclic product over a domain of a
power of two, so that a domain which is too small shows. Series inverse,
remainder, subproduct tree and multipoint evaluation follow
`polynomial.rs` step by step.

### Shares

All parties run the same operations on a few registers, as the generic
`MpcField` does, and every opening is a collective call that keeps them in
step, so one action is one operation of all parties. A field share is a
function on the parties, a shared bit the set of the parties whose share is
true. Sums, Beaver products, inverses, comparisons, partial products,
polynomial division, decomposition into bits, addition and comparison of bits
and the conversion back are the code's protocols, with the triples that its
dummy dealer deals out (ones held by the king); `plain` is what a program
without sharing would hold. `stopped` says why the parties cannot go on.

### Sort and RadixSort

A record is a key and a tag for the two values that go with it. `Level` is one
turn of the inner loop: compare all pairs by their *decomposed bits*, exchange
records and bits. `SortPublic` is the local path for public values. `radix_sort`
is the case of a record that is its own key.

### Lookup, LookupPermutation, NaivePermutation, TwoWays

`LookupPermutation` has an action per step of the code (3 to 5 in one, 8 to 10
in one), with the code's arithmetic on indicators and keys, over a small
prime field. The membership polynomial is the root of the subproduct tree of
the queries, and it is evaluated at the table by fast multipoint evaluation.
`Lookup` is what `verify_lookup_permutation_outputs_in_plaintext` asserts.
`NaivePermutation` has one action per round of its outer loops. `TwoWays` runs
the naive one and then, for a table of distinct elements, the compacting one,
on the same `input`; the naive one's variables are `nTPrime`, `nPc` and so on.

### LookupProof

One action per function of the prover (`Commit`, `GrandProduct`,
`CommitProduct`, `CommitQuotient`, `Evaluate`) and one for the verifier. `PInit`,
`PNext` and `PSpec` have names of their own because `FieldProofs` extends
`Shares` as well. The values are those the
shares stand for. A commitment stands for its polynomial; a challenge is a
function of what the transcript has absorbed, drawn when first asked for and
remembered in `oracle`, so prover and verifier agree on a challenge exactly if
they have absorbed the same. The verifier makes its own transcript and its own
formula of the constraints. Inverting zero and a quotient with a remainder end
the prover, as they do in the code.

## Runs

| run | instance | result |
|---|---|---|
| `connect` | 5 parties, patience 2 | 8901 states. Turns never overlap; slots match unless a connection was reset; whoever is done sees a full mesh; start-up ends unless a connection is reset. |
| `connect_race` | 4 parties | **violated**: `SlotsMatch`, against the comment at `multi.rs:113`. |
| `connect_patience` | 2 parties, patience 3 | **violated**: `GivesUpIn30s`, against the message at `multi.rs:94`. |
| `rounds` | 3 parties, buffers of 1, 2 workers, all programs of 1 or 2 calls with messages of 1 or 2 | 46478 states. No deadlock, nothing of one call read in another, nothing left over; implements `Collective`. |
| `rounds_pool` | 4 parties, buffers of 1, 1 worker, each call alone | 1603 states. Ends. |
| `radix_sort` | all arrays of up to 4 keys of 2 bits, all of 8 keys below 3 | 74591 states. Sorts, level by level; implements `Sort`. |
| `lookup_permutation` | tables of 1, 2, 3, 4 distinct elements with 0 to 4 queries; one table of 8 with 1, 2, 4 | Multipoint evaluation finds exactly the elements nobody asked for; keeps the promise; padded columns satisfy the argument. |
| `lookup_sizes` | the same | **violated**: `AcceptsPowersOfTwo`, against `permutation.rs:46`. |
| `two_ways` | tables of up to 4 elements, distinct or not; one of 8 | 43855 states. Both permutations keep the promise and agree. |
| `two_party` | streams of 2, all programs of 1 or 2 calls with messages of 1 or 3, partial transfers, a process that ends at any moment | 22808 states. Messages longer than the stream cross; a survivor ends, panics or is in an exchange; implements `Collective`. |
| `lookup_proof` | field of 17; columns of 1, 2 and 4 rows, right and wrong; 0, 1, 3, 5 blinding rows; challenges 0, 1, 5 | 26865 states. What is proved is accepted; lookups are proved unless a denominator is zero; wrong columns are not proved. |
| `shares` | 2 parties, field of 5, two registers, any program | 3024 states. Every value and bit opens to the plain one; no check fails. |

`connect_race`, `connect_patience` and `lookup_sizes` show where the code does
not do what a comment or a message of it says; PROJECT.json has the findings.

Bounds. *Parties:* three parties have a king, a middle party that is sender
and receiver, and a last one; four are needed for a stream filed under the
wrong peer, and five for one that is reset behind another. *Buffers:* one unit
is the smallest and the strictest: every write of a longer message waits for
the reader. *Calls:* two in a row are enough for a party to be one ahead, and
it cannot be further ahead of a party it exchanges messages with. *Keys:* the
network compares by order alone, so keys 0 and 1 already show an unsorted
result (the 0-1 principle); a third key shows ties next to differences.
*Field:* 11 stands for the modulus and 4 for its bits; `Multiplier` 16 and
`KeyBits` 6 for 2^32 and 34: positions are below the multiplier, and twice the
multiplier fits the key bits, as in the code. In `lookup_proof` the field has
17 elements so that it has domains of up to 16 rows; three challenges include
0 and values that make a denominator zero. In `shares`, two registers are
enough for any operation with two operands and the result of another in
place; with a field of 5 every share of every value is reached, the modulus
has three bits, and a sum of bits overflows it. *Streams of two parties:* 2
units under messages of 3, so that neither message fits and a part of one may
move. *Tables:* with zero inside, since
the code pads with zeros. The limit of 30 s is counted in attempts of 10 ms.

Fairness. `Connect`: every party is launched (`test.bash` starts one per line
of the hosts file) and every party that can take a step takes one in the end.
`Rounds`: each task of a worker that can read or write does so; this is fair
scheduling of threads, and the kernel's delivery of bytes. `RadixSort`: the
loop goes on. `TwoParty`: both processes are launched and take their steps;
nothing makes a process end, so what is said of a survivor holds of every end.
No fairness makes one party faster than another.

Deadlock is checked except in the runs of `Connect` and `TwoParty`, where the
system may really stop: after a reset, a party may wait for ever for a note,
and two processes may be gone.

## Proofs

`ConnectProofs` proves for **every number of parties and every patience**:

- `TypeCorrect`: `Spec => []TypeOK`
- `OneSender`: `Spec => []SendersTakeTurns`
- `StreamsFiled`: `Spec => []SlotsMatchUnlessReset`
- `EveryoneReady`: `Spec => []ReadyMeansMesh`

from the assumptions named in `Connect` (`N` and `Patience` positive, `None`
no number). None of the last three is inductive. The invariant `IInv` has layers:

1. *Types, control, slots.* Which `pc` belongs to which round; a slot is
   empty before its round, and filled by a lower party.
2. *Turns.* At most one party holds the turn or has a note on the way to the
   next; every earlier party has given its turn away. This is what keeps
   senders apart even when slots are mixed up: a note can only be lost, never
   doubled. *Filed, pending:* while nothing was reset, whoever waits in a
   backlog is the sender that the owner's round expects.
3. *Lost, kept, match.* A connection once lost leaves a party that can never
   finish its round with the king.
4. *KingKnows.* A byte that reached the king, or was read by it, came from a
   party with all its rounds behind it. When the king answers, everyone has
   finished, nobody has lost a connection, and so the slots match.

`RoundsProofs` proves for **every number of parties, every size of the buffers
and of the pools, and every program**:

- `CallsInStep`: `ASpec => []InStep`, of the abstract calls
- `RoundsTypeCorrect`: `Spec => []TypeOK`
- `NoCrossTalkHolds`: `Spec => []NoCrossTalk`
- `DrainedHolds`: `Spec => []Drained`
- `RoundsImplementsCollective`: `Spec => KeepsPromise`
- `RoundsInStep`: `Spec => []InStep`, from the refinement and `CallsInStep`

from the assumptions named in `Collective` and `Rounds`. Most of these cannot
be seen from the state of one call, since a party may be calls ahead and its
bytes wait in the same stream. The inductive invariant `IInv` speaks of the
`Units` a party ever sends to another: `Sent` are those its calls have
written, `Taken` those the other's calls have read. `LinkOK` says that a
stream holds exactly what is sent and not taken, once each and in order, and
that nothing is taken before it is sent. A read then returns the next unit of
the reader's own call (`NextIsHead`): were it a later one, the unit that is
missing would have been sent before it and be further back in the stream,
against the order. This needs the messages to be non-empty, as serialised
values are. Leaving is the step of `Collective` (`LeaveAbstract`): a call that
has read all has taken the first unit of each sender, so each has entered; all
the other steps stutter.

`TwoPartyProofs` proves, for **every size of the streams and every program**,
`TwoPartyTypeOK` and `TwoPartyKeepsPromise` (`Spec => KeepsPromise`). Its
`IInv` is like that of `RoundsProofs`, with two differences. What a party has
read in its call is kept in order in `got`, so the invariant says that it is
the beginning of this very message. And a stream may be cut: `Links` holds of
a stream only as long as its reader lives, which is all that the promise
needs, since a party that is gone leaves no call.

`AlgorithmProofs` proves `RadixSortByKeySorts`: the whole sort, as a function,
returns the records in another order and in order of the bits it compares, for
**every power of two and every width of the keys**. The argument does not go
through 0 and 1. A block is `Bitonic` when no four of its keys are, from left
to right, high, low, high, low or the other way around (`Zigzag`). One level
at distance `j` makes two bitonic blocks of `j` out of each bitonic block of
`2j` and lays all keys of one on the right side of all keys of the other
(`Separated`); at distance 1 the blocks are in order, and two neighbours in
opposite directions are bitonic again. These two facts carry
`Prepared(bits, n, k, j)` from level to level. The prover has no rule of
induction that takes a formula as a parameter, so inductions are done through
the least element of the set of counterexamples (`LeastNatural`).

The same module proves about the arithmetic of `Polynomial`, for **every prime
and polynomials of every degree**. What a polynomial is worth at a point is
`PolyValue(p, x)`, a sum of terms.

- `PolyMulValue`: the domain of the transforms is large enough, so no
  coefficient of a product wraps; `DivisionHolds`: long division, step by step.
- `PolyInvInverts`: Newton's iteration inverts a power series. One pass doubles
  the number of coefficients of `g * f` that are those of 1, and the number of
  passes, `log2` rounded up, is enough for all that are asked for. The product
  of series that it calculates with (`SeriesProduct`) is compared with the
  truncated products of the code, pass by pass.
- `PolyDivModHolds`: dividend and divisor are turned around, and the quotient
  is the product with the inverse of the divisor, cut off and turned back. It
  is cut off where its product with the divisor still agrees with all of the
  dividend that the divisor reaches, so a remainder of lower degree is left.
- `TreeVanishes`: every node of the subproduct tree `Vanishes` at the points
  below it and only there, level by level (`LevelOf`). That the product of two
  values is zero only if one of them is needs the modulus to be a prime.
- `MultipointEvaluates`: on the way down, each node's `RestOf` the polynomial
  has its value at the points below the node, since the divisor is zero there.
  At the leaves it is a constant. A single point has no division above its
  leaf, and the function returns a coefficient of its argument: hence as many
  points as a power of two, and at least two.

`RadixSortProofs` carries the argument about the network through the actions
of `RadixSort`:
`RadixSortTypeOK`, `RadixSortBitsFollowKeys`, and with the hypothesis `KeysFit`
`RadixSortBlocks`, `RadixSortHalves` and `RadixSortSorts` (`Spec => Sorts`).
`KeysFit` says that no key has more bits than are compared. The callers see to
it: field elements have at most the bits of the modulus, keys made of
positions at most 34. Without it the network orders what it sees of the keys,
and `IInv` says just that.

`NaivePermutationProofs` proves `NaiveTypeOK`, and for tables with every
element that is asked for (`QueriesInTable`) `NaiveOneForEachGap` and
`NaivePromised` (`Spec => Promised`), for **tables and queries of every
length, with repeated elements**. The gap count is not inductive; what is, is
a one-to-one pairing of the rows that have got their value (`Given`) with the
elements used up (`Used`) under which values agree. Marking a first
occurrence takes an element that no earlier row took, since first occurrences
of a sorted array differ; filling a row takes the least unused one, and there
is one, since the rows given are fewer than all.

`LookupPermutationProofs` proves, for **every field, every width of the keys,
and tables and queries of every length**:

- `LookupPermutationTypeOK`, `LookupPermutationKeysDiffer`,
  `LookupPermutationRowsWrittenOnce`, `LookupPermutationLookupHolds` and
  `LookupPermutationUnusedAreUnasked`, from `PositionsFit`, for every table,
  repeated elements included, and all queries
- `LookupPermutationValuesMeet` and `LookupPermutationPromised`
  (`Spec => Promised`), from `TablesDistinct` and `QueriesInTable` as well

`IInv` says that every array is what its step makes of the arrays before it,
and of the three sorts by key no more than `RadixSortByKeySorts` gives: the
records in another order, keys going up. Two records of a sort never have the
same key, because the key holds the position, so a sorted array is known
from the set of its keys: of the writes, the `n` valid ones have the keys 0
to `n-1`, and the record in row `i` is the one for row `i`. The compactions
meet because first occurrences of the queries and elements asked for are as
many: `Firsts` and `Asked` are paired by value.

`PositionsFit` says that a table has at most `Multiplier` (2^32) rows, as
`SORT_KEY_MULTIPLIER` takes for granted; `TablesDistinct` and `QueriesInTable`
are what a lookup is about, and what the code's own tests build. TLC evaluates
these hypotheses on the instances that the runs check (`TheoremsApply` in the
MC modules). `UnusedAreUnasked` is what the polynomial is for, and follows from
`TreeVanishes` and `MultipointEvaluates` below. Both arrays have been through
a sort by then, so their lengths are powers of two, at least two, which is
what the second of these needs.

The same module proves of `TwoWays`, from `PositionsFit` and `QueriesInTable`,
`TwoWaysSameAnswer`: the switch `--naive` changes the cost and **not the
answer**. Both sort the queries with the same sort, and both refuse the same
sizes (`RefusedOK`). Which row gets which element is the question. In both a
first occurrence has its own row; the rows left are the `Gaps`, the elements
left are those nobody asks for (`Spare`), and each is filled in increasing
order (`InOrderOnto`). For the compacting permutation that is the order of the
keys of the two compactions (`LookupFilledInOrder`). For the naive one it needs
an invariant of its loops, `OrderInv`: an element is unused until the loop has
passed a query for it (`MarkedOK`), and the elements given away so far are the
lowest ones, given to the lowest gaps (`Gives`). There is only one way to put
the elements of one set of numbers in order onto another (`OneInOrder` of
`AlgorithmProofs`), so the tables are equal. If an element that is asked for
were twice in the table, the compacting permutation would have fewer unused
values than gaps: hence `Distinct` in `BothNext`. The run has
`NaivePermutation` as an instance, so `TwoWaysNaiveTypeOK`,
`TwoWaysOneForEachGap` and `TwoWaysNaivePromised` carry the theorems of
`NaivePermutationProofs` over to it.

`FieldProofs` proves for **every prime modulus, every number of parties and
all shares** what each protocol opens to, and from that

- `RegistersTyped`: `Spec => []TypeOK`
- `ComputationsAreCorrect`: `Spec => []OpensToPlain`
- `HonestRunsGoOn`: `Spec => []ChecksPass`

from `PrimeAssumption` and the assumptions of `Shares`. `Opens(s, v)` says that
the shares of `s` add up to `v` and those of its MAC to `v` times the key, or
that `s` is public and everyone has `v`. `SumTo` adds up one party after the
other, so that sums, differences and multiples of sharings are inductions over
the parties (through `LeastNatural`, again). On these rest:

- `MulOpens`: in Beaver's product, the king alone adds the public product, and
  the MACs of the result fit the result.
- `InvOpens`, from the existence of inverses modulo a prime; `PartialProductsOpen`,
  where the masks cancel from one place to the next; the division by the
  vanishing polynomial, which every party does to its own shares and which is
  linear in them.
- `NeqOpens`: a power of the difference is 0 or 1, which is Fermat's little
  theorem, proved here by comparing the product of all residues with the
  product of their multiples.
- `XorOpens`, `NotOpens`, `AndOpens`, `OrOpens`: a shared bit is the parity of
  a set of parties. `BitsAddOpens` and `BitsAddConstOpens` follow the carry of
  the adders from bit to bit; `BitDecomposeOpens` follows the edaBit through
  both, with the wrap over the modulus; `CompareBitsOpens` finds the first bit
  that differs; `B2AOpens` goes back to a field share with a daBit.

`OpensToPlain` is not inductive: two sharings that open to the right values
with MACs that do not fit multiply to a value that the check refuses, and
equal copies of a public value are told from shares by how they are combined.
`IInv` says that every register `Holds` its plain value in one of the two
ways, MAC included, and that parties stop for an inverse of zero only.

`FieldProofs` proves of the lookup proof, for **every prime modulus, all columns
and every number of blinding rows that `ColumnsAssumption` allows, and all
challenges**

- `ProofTyped`: `PSpec => []PTypeOK`
- `ProofsAlwaysAccepted`: `PSpec => []ProofsAreAccepted`

`ColumnsAssumption` says that the client's columns have one length, and that
the field has a domain for them, which is when `Radix2EvaluationDomain::new`
returns one. `PolyValue(p, x)` is the value of a polynomial as a sum of terms,
a `SumTo`; lemmas say what each operation on coefficients does to it: `PolyMulValue`
and `DivisionHolds` of `AlgorithmProofs`, `ShiftedValue`, `ValueIs` (Horner's
rule), and `FirstRowOpens` (the closed form of the first Lagrange polynomial is
a geometric sum). `Stands(p, x, v, k)` carries them through the two formulas: a
polynomial of at most `k` coefficients has at `x` the value that the other
formula computes, so `ConstraintsAgree`: what the prover divides and what the
verifier computes from the openings are equal at every point. `ProofsAreAccepted`
is not inductive; `ProofInv` adds, phase by phase, what has been committed to
(`ColumnsIn`, `ProductIn`, `QuotientIn`, `ProvedIn`), that the transcript is what
the verifier will absorb (`Absorbed`), and that its challenges have been drawn.
That the prover's quotient has no remainder is the code's own assertion, which
`CommitQuotient` makes as the code does; when it holds is what the next two say.

- `SumAlwaysSeparates`: `PSpec => []SumSeparates`
- `LookupsAlwaysProved`: `PSpec => []LookupsAreProved`

Their invariant, `RowInv`, says that what is committed to is the columns
(`Commits`) and the running product of their factors (`Multiplied`). From
columns to polynomials and back: the generator has the order of the domain,
since half of it makes -1 (`GeneratorIsRoot`); the powers of a root of unity
add up to nothing (`Orthogonal`); so the two transforms are inverses of each
other (`Interpolates`), and the constraint polynomial has on row `i` the value
`RowOpen(i)` that the columns give it (`ConstraintAtRow`). From vanishing to
dividing: the remainder is shorter than the domain and zero on it, so it is
nothing (`RootsOfNothing`, `NothingRemains`). Row by row (`RowSays`), the
product rule holds by the way the product was made, and one constraint is left
of the sum: `(a' - s')(a' - a'_before)` in a usable row, `z(z - 1)` in the
boundary row. In the first row there are two, `(a' - s')(a' - 0)`, since the
row before it is the last of the domain and empty, and `a' - s'`: their sum is
`(a' - s')(a' + 1)`, which is where -1 comes from. That a lookup's product ends
in one is a rearrangement of its factors (`LookupMultipliesToOne`).

Only model-checked: that start-up, calls and the sort end. Liveness under
fairness is beyond the prover.

## Plan

1. Done: start-up, collective calls, two-party channel, sort, permutations,
   field and bit shares, the lookup proof; theorems about all of them.
2. To model next: a party that dies inside a call of the N-party network, and
   GSZ20's queue of products, once its sharings are random (see below).

## Where comments and code differ

The models follow the code.

- `verifier.rs:18` says that A' and S' match in the first row. The sum of the
  constraints also vanishes there when A' is -1: see `SumSeparates`.
- `prover.rs:22` and `types.rs:95` multiply by A' and S' and divide by A and S.
  `compute_grand_product` does the reverse in the usable rows
  (`prover.rs:370`), as the constraint wants it.
- `prover.rs:26` and `types.rs:33` fill the last rows of the product with
  random values. The code goes on multiplying there, the other way up
  (`prover.rs:408`), and adds no random rows.
- `types.rs:152` describes Q as the quotient of the permutation constraint
  alone; it is that of the sum of all constraints.

## Not modelled

- *GSZ20 shares* (`share/gsz20`): no lookup program uses them, and in this
  commit its dealer and its king deal out constant polynomials (`rand` is one,
  "TODO: randomize"), so that all shares of a value are equal and a model
  would only repeat plain arithmetic. The queue of products to check is listed
  as a hazard.
- *Shares of group elements and pairings*: the protocols of `Shares`, lifted.
- *Commit and reveal*: `atomic_broadcast` is two broadcasts; their order is
  `InStep`. That the data are checked against the commitment (`channel.rs:66`)
  is not modelled: honest parties pass it, and what a hash hides and binds is
  cryptography. `com.rs` is a tree of hashes.
- *Field shares*: `batch_division_in_place`, whose last branch multiplies
  (`wire/field.rs:761`), multiplicative and extension-field shares.
- *`ALLOW_CHEATING`* (`channel.rs:86`) is a `const Cell`, of which every use is
  a fresh copy; no behaviour depends on it.
- *Plonk, the SNARK provers, the forks of arkworks*: algebra on committed
  polynomials, benchmark drivers and third-party libraries. They are most of
  the repository's lines; polynomial commitments are ideal in `LookupProof`.
- *Keys longer than the sort compares*: `MCRadixSort` has keys that fit. That
  the keys made of positions fit is in `LookupPermutation`'s `TypeOK`, proved
  as `LookupPermutationTypeOK`.
- *Debugging options*: with `--debug` the parties open values that they do not
  open otherwise (`prover.rs:350`); they are started with equal options.
- *Other code of the network*: `MpcTwoNet::init_from_file`, which never
  connects (`two.rs:258`); a second initialisation; the kernel beyond bounded
  streams, backlog and reset; statistics and timers.
- *`multipoint_eval` of a single point* returns the constant coefficient
  without reducing (`polynomial.rs:130`); no state reaches it.
- The secrecy of shares: the models follow the values, not what a party
  learns.
