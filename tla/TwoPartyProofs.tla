--------------------------- MODULE TwoPartyProofs ---------------------------
(***************************************************************************)
(* The calls of two parties over one bounded stream keep the promise of    *)
(* Collective, for every size of the buffers and every program, whatever   *)
(* part of a message a read or a write moves and whoever ends when.        *)
(*                                                                         *)
(* A party's place in the program is a call and the units of it that it    *)
(* has moved.  As long as the reader lives, the stream holds, in order,    *)
(* exactly the units between the place of the writer and that of the       *)
(* reader; afterwards it holds nothing.                                    *)
(***************************************************************************)
EXTENDS TwoParty, SequenceTheorems, WellFoundedInduction, TLAPS

\* The unit of a call that is its length: exchange_bytes sends none.
Header(k) == IF prog[k].kind = "broadcast" THEN 0 ELSE 1

\* In call k, p sends to the other party.
Carries(p, k) == p \in Senders(Other(p), prog[k])

\* All that p ever sends.
Units(p) ==
    {u \in Nat \X Int : /\ u[1] \in 1 .. Len(prog)
                        /\ Carries(p, u[1])
                        /\ u[2] + Header(u[1]) \in 1 .. Len(Wire(u[1]))}

\* The units of p that come before a place: n units into call c.
Upto(p, c, n) ==
    {u \in Units(p) : u[1] < c \/ (u[1] = c /\ u[2] + Header(c) <= n)}

SentUnits(p)  == Upto(p, op[p], sent[p])
TakenUnits(p) == Upto(p, op[Other(p)], Len(got[Other(p)]))

Before(u, v) == u[1] < v[1] \/ (u[1] = v[1] /\ u[2] < v[2])

\* The stream s holds what is sent and not taken, in order.
InFlight(s, S, T) ==
    /\ \A j \in 1 .. Len(s) : s[j] \in S \ T
    /\ \A u \in S \ T : \E j \in 1 .. Len(s) : s[j] = u
    /\ \A i, j \in 1 .. Len(s) : i < j => Before(s[i], s[j])

LinkOK(p) ==
    /\ TakenUnits(p) \subseteq SentUnits(p)
    /\ IF Closed(p) THEN pipe[p] = <<>>
       ELSE InFlight(pipe[p], SentUnits(p), TakenUnits(p))

Streams == Seq(Nat \X Int)

Types ==
    /\ CTypeOK
    /\ st \in [Party -> Status]
    /\ turn \in [Party -> {"write", "read"}]
    /\ sent \in [Party -> Nat]
    /\ got \in [Party -> Streams]
    /\ pipe \in [Party -> Streams]
    /\ reset \subseteq Party

\* Outside of a call, nothing is begun.
Fresh == \A p \in Party : ~ busy[p] => sent[p] = 0 /\ got[p] = <<>>

\* What p has read in its call: the beginning of this very message.
GotOK(p) ==
    IF Carries(Other(p), op[p])
    THEN /\ Len(got[p]) <= Len(Wire(op[p]))
         /\ \A i \in 1 .. Len(got[p]) : got[p][i] = <<op[p], i - Header(op[p])>>
    ELSE got[p] = <<>>

InCall == \A p \in Party : busy[p] => sent[p] <= ToSend(p) /\ GotOK(p)

Links == \A p \in Party : LinkOK(p)

Bounded == \A p \in Party : Len(pipe[p]) <= Cap

IInv == Types /\ Fresh /\ InCall /\ Links /\ Bounded

-----------------------------------------------------------------------------
(* Numbers, parties and calls.                                             *)

LEMMA ProgramsAreSequences ==
    ASSUME CTypeOK
    PROVE  Len(prog) \in Nat
BY ProgramsAssumption DEF CTypeOK

LEMMA CTypeStep ==
    ASSUME CTypeOK, [ANext]_cvars
    PROVE  CTypeOK'
<1>1. Len(prog) \in Nat
  BY ProgramsAreSequences
<1>2. CASE UNCHANGED cvars
  BY <1>2 DEF cvars, CTypeOK
<1>3. ASSUME NEW p \in Party, AEnter(p) PROVE CTypeOK'
  BY <1>3 DEF AEnter, CTypeOK
<1>4. ASSUME NEW p \in Party, ALeave(p) PROVE CTypeOK'
  <2>1. /\ op' = [op EXCEPT ![p] = @ + 1] /\ busy' = [busy EXCEPT ![p] = FALSE]
        /\ prog' = prog /\ busy[p]
    BY <1>4 DEF ALeave
  <2>2. op[p] \in 1 .. Len(prog)
    BY <1>1, <2>1 DEF CTypeOK
  <2>3. op' \in [Party -> 1 .. Len(prog) + 1]
    BY <1>1, <2>1, <2>2 DEF CTypeOK
  <2>4. \A q \in Party : busy'[q] => op'[q] <= Len(prog)
    BY <2>1 DEF CTypeOK
  <2> QED BY <2>1, <2>3, <2>4 DEF CTypeOK
<1> QED BY <1>2, <1>3, <1>4 DEF ANext

LEMMA LeastNatural ==
    ASSUME NEW S \in SUBSET Nat, S # {}
    PROVE  \E m \in S : \A n \in S : m <= n
<1>1. PICK x \in S : \A y \in S : ~ (<<y, x>> \in OpToRel(<, Nat))
  BY NatLessThanWellFounded, WFMin
<1>2. \A y \in S : ~ (y < x)
  BY <1>1 DEF OpToRel
<1> QED BY <1>2

LEMMA TwoParties ==
    /\ Party = {0, 1} /\ King = 0
    /\ \A p \in Party : Other(p) \in Party /\ Other(p) # p /\ Other(Other(p)) = p
    /\ \A p, q \in Party : q # p => q = Other(p)
<1>1. Party = {0, 1}
  BY TwoAssumption DEF Party
<1> QED BY <1>1 DEF Other, King

LEMMA Joined ==
    ASSUME NEW s \in Streams, NEW h \in Streams
    PROVE  /\ s \o h \in Streams /\ Len(s \o h) = Len(s) + Len(h)
           /\ \A i \in 1 .. Len(s) : (s \o h)[i] = s[i]
           /\ \A i \in 1 .. Len(h) : (s \o h)[Len(s) + i] = h[i]
<1> DEFINE t == s \o h
<1>1. /\ t \in Seq(Nat \X Int) /\ Len(t) = Len(s) + Len(h)
      /\ \A i \in 1 .. Len(s) + Len(h) : t[i] = IF i <= Len(s) THEN s[i] ELSE h[i - Len(s)]
  BY ConcatProperties DEF Streams
<1>2. Len(s) \in Nat /\ Len(h) \in Nat
  BY DEF Streams
<1> HIDE DEF t
<1>3. \A i \in 1 .. Len(s) : t[i] = s[i]
  <2>1. \A i \in 1 .. Len(s) : i \in 1 .. Len(s) + Len(h) /\ i <= Len(s)
    BY <1>2
  <2> QED BY <1>1, <2>1
<1>4. \A i \in 1 .. Len(h) : t[Len(s) + i] = h[i]
  <2>1. \A i \in 1 .. Len(h) : /\ Len(s) + i \in 1 .. Len(s) + Len(h)
                               /\ ~ (Len(s) + i <= Len(s)) /\ (Len(s) + i) - Len(s) = i
    BY <1>2
  <2> QED BY <1>1, <2>1
<1> QED BY <1>1, <1>3, <1>4 DEF t, Streams

LEMMA CallType ==
    ASSUME CTypeOK, NEW k \in 1 .. Len(prog)
    PROVE  prog[k].kind \in Kind /\ prog[k].len \in Nat \ {0}
<1>1. prog \in Seq(Call)
  BY ProgramsAssumption DEF CTypeOK
<1>2. prog[k] \in Call
  BY <1>1
<1> QED BY <1>2 DEF Call

LEMMA WireShape ==
    ASSUME CTypeOK, NEW k \in 1 .. Len(prog)
    PROVE  /\ Header(k) \in {0, 1}
           /\ Len(Wire(k)) = prog[k].len + Header(k)
           /\ Len(Wire(k)) \in Nat \ {0}
           /\ \A i \in 1 .. Len(Wire(k)) : Wire(k)[i] = <<k, i - Header(k)>>
           /\ Wire(k) \in Streams
<1>1. prog[k].len \in Nat \ {0} /\ Len(prog) \in Nat /\ k \in Nat
  BY CallType, ProgramsAreSequences
<1>2. Header(k) \in {0, 1}
  BY DEF Header
<1>3. Wire(k) = [i \in 1 .. prog[k].len + Header(k) |-> <<k, i - Header(k)>>]
  BY DEF Wire, Header
<1> DEFINE n == prog[k].len + Header(k)
<1>4. n \in Nat \ {0}
  BY <1>1, <1>2
<1>5. \A i \in 1 .. n : <<k, i - Header(k)>> \in Nat \X Int
  BY <1>1, <1>2, <1>4
<1> HIDE DEF n
<1>6. Wire(k) = [i \in 1 .. n |-> <<k, i - Header(k)>>]
  BY <1>3 DEF n
<1>7. Wire(k) \in [1 .. n -> Nat \X Int]
  BY <1>5, <1>6
<1>8. Wire(k) \in Streams /\ Len(Wire(k)) = n
  BY <1>4, <1>6, <1>7 DEF Streams
<1> QED BY <1>2, <1>4, <1>6, <1>8 DEF n

LEMMA CurrentCall ==
    ASSUME CTypeOK, NEW p \in Party
    PROVE  /\ op[p] \in Nat /\ Len(prog) \in Nat
           /\ busy[p] => op[p] \in 1 .. Len(prog)
BY ProgramsAreSequences DEF CTypeOK

LEMMA ToSendIs ==
    ASSUME NEW p \in Party
    PROVE  ToSend(p) = IF Carries(p, op[p]) THEN Len(Wire(op[p])) ELSE 0
BY DEF ToSend, Carries, Current

LEMMA UnitType ==
    ASSUME CTypeOK, NEW p, NEW u \in Units(p)
    PROVE  /\ u = <<u[1], u[2]>> /\ u[1] \in Nat /\ u[2] \in Int
           /\ u[1] \in 1 .. Len(prog) /\ Carries(p, u[1])
           /\ Header(u[1]) \in {0, 1}
           /\ u[2] + Header(u[1]) \in 1 .. Len(Wire(u[1]))
BY WireShape DEF Units

LEMMA ProgramKept ==
    ASSUME prog' = prog
    PROVE  /\ \A k : Header(k)' = Header(k) /\ Wire(k)' = Wire(k) /\ Message(k)' = Message(k)
           /\ \A p, k : Carries(p, k)' = Carries(p, k)
           /\ \A p : Units(p)' = Units(p)
<1>1. \A k : Header(k)' = Header(k) /\ Wire(k)' = Wire(k) /\ Message(k)' = Message(k)
  BY DEF Header, Wire, Message
<1>2. \A p, k : Carries(p, k)' = Carries(p, k)
  BY DEF Carries, Senders
<1>3. \A p : Units(p)' = Units(p)
  BY <1>1, <1>2 DEF Units
<1> QED BY <1>1, <1>2, <1>3


-----------------------------------------------------------------------------
(* Places in what a party sends.                                           *)

\* The units of one call more.
LEMMA UptoMore ==
    ASSUME CTypeOK, NEW p \in Party, NEW c \in 1 .. Len(prog), NEW n \in Nat, NEW m \in Nat,
           n + m <= Len(Wire(c)), Carries(p, c)
    PROVE  /\ \A i \in n + 1 .. n + m : <<c, i - Header(c)>> \in Units(p)
           /\ Upto(p, c, n + m) = Upto(p, c, n) \cup {<<c, i - Header(c)>> : i \in n + 1 .. n + m}
           /\ \A i \in n + 1 .. n + m : <<c, i - Header(c)>> \notin Upto(p, c, n)
<1>1. Header(c) \in {0, 1} /\ Len(Wire(c)) \in Nat /\ c \in Nat
  BY WireShape, ProgramsAreSequences
<1>2. ASSUME NEW i \in n + 1 .. n + m
      PROVE  <<c, i - Header(c)>> \in Units(p) /\ <<c, i - Header(c)>> \notin Upto(p, c, n)
  <2>1. i \in 1 .. Len(Wire(c)) /\ i \in Nat /\ (i - Header(c)) + Header(c) = i
    BY <1>1
  <2>2. <<c, i - Header(c)>> \in Nat \X Int
    BY <1>1, <2>1
  <2>3. <<c, i - Header(c)>> \in Units(p)
    BY <1>1, <2>1, <2>2 DEF Units
  <2> QED BY <1>1, <2>1, <2>3 DEF Upto
<1>3. ASSUME NEW u \in Upto(p, c, n + m)
      PROVE  u \in Upto(p, c, n) \cup {<<c, i - Header(c)>> : i \in n + 1 .. n + m}
  <2>1. u \in Units(p) /\ (u[1] < c \/ (u[1] = c /\ u[2] + Header(c) <= n + m))
    BY DEF Upto
  <2>2. u = <<u[1], u[2]>> /\ u[1] \in Nat /\ u[2] \in Int
    BY <2>1, UnitType
  <2> DEFINE i == u[2] + Header(c)
  <2>3. i \in Int /\ u[2] = i - Header(c)
    BY <1>1, <2>2
  <2>4. CASE u[1] < c \/ i <= n
    BY <2>1, <2>4 DEF Upto
  <2>5. CASE u[1] = c /\ i > n
    <3>1. i \in n + 1 .. n + m
      BY <2>1, <2>3, <2>5
    <3> QED BY <2>2, <2>3, <2>5, <3>1
  <2> QED BY <1>1, <2>1, <2>2, <2>3, <2>4, <2>5
<1>4. ASSUME NEW u \in Upto(p, c, n) PROVE u \in Upto(p, c, n + m)
  BY <1>1, UnitType DEF Upto
<1>5. ASSUME NEW i \in n + 1 .. n + m PROVE <<c, i - Header(c)>> \in Upto(p, c, n + m)
  BY <1>1, <1>2 DEF Upto
<1> QED BY <1>2, <1>3, <1>4, <1>5

\* At the end of a call, the place is the beginning of the next one.
LEMMA UptoNext ==
    ASSUME CTypeOK, NEW p \in Party, NEW c \in 1 .. Len(prog), NEW n \in Nat,
           Carries(p, c) => n = Len(Wire(c))
    PROVE  Upto(p, c, n) = Upto(p, c + 1, 0)
<1>1. Header(c) \in {0, 1} /\ Len(Wire(c)) \in Nat /\ c \in Nat
  BY WireShape, ProgramsAreSequences
<1> SUFFICES ASSUME NEW u \in Units(p)
             PROVE  (u[1] < c \/ (u[1] = c /\ u[2] + Header(c) <= n))
                    <=> (u[1] < c + 1 \/ (u[1] = c + 1 /\ u[2] + Header(c + 1) <= 0))
  BY DEF Upto
<1>2. /\ u[1] \in Nat /\ u[2] \in Int /\ Carries(p, u[1])
      /\ Header(u[1]) \in {0, 1} /\ u[2] + Header(u[1]) \in 1 .. Len(Wire(u[1]))
  BY UnitType
<1>3. u[1] = c + 1 => ~ (u[2] + Header(c + 1) <= 0)
  BY <1>2
<1>4. u[1] = c => u[2] + Header(c) <= n
  BY <1>1, <1>2
<1> QED BY <1>1, <1>2, <1>3, <1>4

\* Nothing of a call that does not carry anything.
LEMMA UptoNothing ==
    ASSUME CTypeOK, NEW p \in Party, NEW c \in 1 .. Len(prog), NEW n \in Nat, NEW m \in Nat,
           ~ Carries(p, c)
    PROVE  Upto(p, c, n) = Upto(p, c, m)
BY UnitType DEF Upto

\* What comes before a unit of a place belongs to it as well.
LEMMA UptoInOrder ==
    ASSUME CTypeOK, NEW p \in Party, NEW c \in Nat, NEW n \in Nat,
           NEW v \in Upto(p, c, n), NEW u \in Units(p), Before(u, v)
    PROVE  u \in Upto(p, c, n)
<1>1. v \in Units(p) /\ (v[1] < c \/ (v[1] = c /\ v[2] + Header(c) <= n))
  BY DEF Upto
<1>2. /\ u[1] \in Nat /\ v[1] \in Nat /\ u[2] \in Int /\ v[2] \in Int
      /\ Header(u[1]) \in {0, 1} /\ Header(v[1]) \in {0, 1}
  BY <1>1, UnitType
<1> QED BY <1>1, <1>2 DEF Upto, Before

\* A unit that a place does not have yet comes after those it has.
LEMMA UptoBefore ==
    ASSUME CTypeOK, NEW p \in Party, NEW c \in Nat, NEW n \in Nat,
           NEW v \in Upto(p, c, n), NEW u \in Units(p) \ Upto(p, c, n)
    PROVE  Before(v, u)
<1>1. v \in Units(p) /\ (v[1] < c \/ (v[1] = c /\ v[2] + Header(c) <= n))
  BY DEF Upto
<1>2. ~ (u[1] < c \/ (u[1] = c /\ u[2] + Header(c) <= n))
  BY DEF Upto
<1>3. /\ u[1] \in Nat /\ v[1] \in Nat /\ u[2] \in Int /\ v[2] \in Int
      /\ Header(u[1]) \in {0, 1} /\ Header(v[1]) \in {0, 1}
  BY <1>1, UnitType
<1>4. CASE u[1] = c
  BY <1>1, <1>2, <1>3, <1>4 DEF Before
<1>5. CASE u[1] > c
  BY <1>1, <1>3, <1>5 DEF Before
<1> QED BY <1>2, <1>3, <1>4, <1>5


-----------------------------------------------------------------------------
(* Writing at the end of a stream and reading at its beginning.            *)

\* What is written of a call are its next units.
LEMMA NextUnits ==
    ASSUME CTypeOK, NEW c \in 1 .. Len(prog), NEW n \in Nat, NEW m \in Nat, n + m <= Len(Wire(c))
    PROVE  LET w == SubSeq(Wire(c), n + 1, n + m)
           IN  /\ w \in Streams /\ Len(w) = m
               /\ \A i \in 1 .. m : w[i] = <<c, (n + i) - Header(c)>>
<1> DEFINE w == SubSeq(Wire(c), n + 1, n + m)
           L == Len(Wire(c))
<1>1. /\ L \in Nat /\ Wire(c) \in Seq(Nat \X Int)
      /\ \A i \in 1 .. L : Wire(c)[i] = <<c, i - Header(c)>>
  BY WireShape DEF Streams
<1>2. n + 1 \in 1 .. L + 1 /\ n + m \in n .. L
  BY <1>1
<1>3. w = [i \in 1 .. m |-> Wire(c)[n + i]]
  <2>1. w = [i \in 1 .. ((n + m) - (n + 1)) + 1 |-> Wire(c)[((n + 1) + i) - 1]]
    BY <1>1, <1>2
  <2>2. ((n + m) - (n + 1)) + 1 = m
    OBVIOUS
  <2>3. \A i \in 1 .. m : ((n + 1) + i) - 1 = n + i
    OBVIOUS
  <2> QED BY <2>1, <2>2, <2>3
<1>4. \A i \in 1 .. m : n + i \in 1 .. L /\ Wire(c)[n + i] \in Nat \X Int
  <2>1. \A i \in 1 .. m : n + i \in 1 .. L
    BY <1>1
  <2> QED BY <1>1, <2>1
<1>5. w \in [1 .. m -> Nat \X Int]
  BY <1>3, <1>4
<1>7. \A i \in 1 .. m : w[i] = <<c, (n + i) - Header(c)>>
  BY <1>1, <1>3, <1>4
<1> HIDE DEF w
<1>6. w \in Streams /\ Len(w) = m
  BY <1>5 DEF Streams
<1> QED BY <1>6, <1>7 DEF w

LEMMA PutFlight ==
    ASSUME CTypeOK, NEW p \in Party, NEW c \in 1 .. Len(prog), NEW n \in Nat, NEW m \in Nat,
           n + m <= Len(Wire(c)), Carries(p, c),
           NEW s \in Streams, NEW T, T \subseteq Upto(p, c, n), InFlight(s, Upto(p, c, n), T)
    PROVE  LET t == s \o SubSeq(Wire(c), n + 1, n + m)
           IN  /\ t \in Streams /\ Len(t) = Len(s) + m
               /\ InFlight(t, Upto(p, c, n + m), T)
<1> DEFINE w == SubSeq(Wire(c), n + 1, n + m)
           t == s \o w
           New(i) == <<c, i - Header(c)>>
           S == Upto(p, c, n)
           R == Upto(p, c, n + m)
<1>1. /\ w \in Streams /\ Len(w) = m
      /\ \A i \in 1 .. m : w[i] = New(n + i)
  BY NextUnits
<1> HIDE DEF w
<1>2. /\ \A i \in n + 1 .. n + m : New(i) \in Units(p) /\ New(i) \notin S
      /\ R = S \cup {New(i) : i \in n + 1 .. n + m}
  BY UptoMore
<1>3. c \in Nat /\ Header(c) \in {0, 1}
  BY ProgramsAreSequences, WireShape
<1>4. \A i \in 1 .. m : n + i \in n + 1 .. n + m
  OBVIOUS
<1>5. \A i \in 1 .. m : w[i] \in R \ T /\ w[i] \in Units(p) \ S
  BY <1>1, <1>2, <1>4
<1>6. \A i \in 1 .. m, u \in S : Before(u, w[i])
  BY <1>3, <1>5, UptoBefore
<1>7. \A i, j \in 1 .. m : i < j => Before(w[i], w[j])
  BY <1>1, <1>3 DEF Before
<1>8. \A i \in n + 1 .. n + m : i - n \in 1 .. m /\ w[i - n] = New(i)
  BY <1>1
<1> HIDE DEF New
<1>9. /\ t \in Streams /\ Len(s) \in Nat /\ Len(t) = Len(s) + m
      /\ \A j \in 1 .. Len(s) : t[j] = s[j]
      /\ \A j \in 1 .. m : t[Len(s) + j] = w[j]
  <2>1. s \in Seq(Nat \X Int) /\ w \in Seq(Nat \X Int) /\ Len(w) = m /\ Len(s) \in Nat
    BY <1>1 DEF Streams
  <2>2. /\ t \in Seq(Nat \X Int) /\ Len(t) = Len(s) + Len(w)
        /\ \A i \in 1 .. Len(s) + Len(w) : t[i] = IF i <= Len(s) THEN s[i] ELSE w[i - Len(s)]
    BY <2>1, ConcatProperties
  <2> HIDE DEF t
  <2>3. \A j \in 1 .. Len(s) : t[j] = s[j]
    <3>1. \A j \in 1 .. Len(s) : j \in 1 .. Len(s) + Len(w) /\ j <= Len(s)
      BY <2>1
    <3> QED BY <2>2, <3>1
  <2>4. \A j \in 1 .. m : t[Len(s) + j] = w[j]
    <3>1. \A j \in 1 .. m : /\ Len(s) + j \in 1 .. Len(s) + Len(w) /\ ~ (Len(s) + j <= Len(s))
                            /\ (Len(s) + j) - Len(s) = j
      BY <2>1
    <3> QED BY <2>2, <3>1
  <2> QED BY <2>1, <2>2, <2>3, <2>4 DEF Streams
<1> HIDE DEF t, S, R
<1>10. /\ \A j \in 1 .. Len(s) : s[j] \in S \ T
       /\ \A u \in S \ T : \E j \in 1 .. Len(s) : s[j] = u
       /\ \A i, j \in 1 .. Len(s) : i < j => Before(s[i], s[j])
  BY DEF InFlight, S
<1>11. \A j \in 1 .. Len(t) :
         \/ j \in 1 .. Len(s) /\ t[j] = s[j]
         \/ j - Len(s) \in 1 .. m /\ t[j] = w[j - Len(s)]
  <2> SUFFICES ASSUME NEW j \in 1 .. Len(t)
               PROVE  \/ j \in 1 .. Len(s) /\ t[j] = s[j]
                      \/ j - Len(s) \in 1 .. m /\ t[j] = w[j - Len(s)]
    OBVIOUS
  <2>1. CASE j \in 1 .. Len(s)
    BY <1>9, <2>1
  <2>2. CASE j \notin 1 .. Len(s)
    <3>1. j - Len(s) \in 1 .. m /\ Len(s) + (j - Len(s)) = j
      BY <1>9, <2>2
    <3> QED BY <1>9, <3>1
  <2> QED BY <2>1, <2>2
<1>12. \A j \in 1 .. Len(t) : t[j] \in R \ T
  BY <1>2, <1>5, <1>10, <1>11
<1>13. \A u \in R \ T : \E j \in 1 .. Len(t) : t[j] = u
  <2> SUFFICES ASSUME NEW u \in R \ T PROVE \E j \in 1 .. Len(t) : t[j] = u
    OBVIOUS
  <2>1. CASE u \in S
    <3>1. PICK j \in 1 .. Len(s) : s[j] = u
      BY <1>10, <2>1
    <3> QED BY <1>9, <3>1
  <2>2. CASE u \notin S
    <3>1. PICK i \in n + 1 .. n + m : u = New(i)
      BY <1>2, <2>2
    <3>2. i - n \in 1 .. m /\ w[i - n] = u
      BY <1>8, <3>1
    <3>3. Len(s) + (i - n) \in 1 .. Len(t)
      BY <1>9, <3>2
    <3> QED BY <1>9, <3>2, <3>3
  <2> QED BY <2>1, <2>2
<1>14. \A i, j \in 1 .. Len(t) : i < j => Before(t[i], t[j])
  <2> SUFFICES ASSUME NEW i \in 1 .. Len(t), NEW j \in 1 .. Len(t), i < j
               PROVE  Before(t[i], t[j])
    OBVIOUS
  <2>1. CASE j \in 1 .. Len(s) /\ t[j] = s[j]
    BY <1>9, <1>10, <2>1
  <2>2. CASE j - Len(s) \in 1 .. m /\ t[j] = w[j - Len(s)]
    <3>1. CASE i \in 1 .. Len(s) /\ t[i] = s[i]
      BY <1>6, <1>10, <2>2, <3>1
    <3>2. CASE i - Len(s) \in 1 .. m /\ t[i] = w[i - Len(s)]
      BY <1>7, <1>9, <2>2, <3>2
    <3> QED BY <1>11, <3>1, <3>2
  <2> QED BY <1>11, <2>1, <2>2
<1>15. InFlight(t, R, T)
  BY <1>12, <1>13, <1>14 DEF InFlight
<1> QED BY <1>9, <1>15 DEF t, w, R


\* What is on the way begins with the next units of the call the reader is in.
LEMMA HeadsAreNext ==
    ASSUME CTypeOK, NEW p \in Party, NEW c \in 1 .. Len(prog), NEW n \in Nat, NEW m \in Nat,
           n + m <= Len(Wire(c)), Carries(p, c),
           NEW d \in Nat, NEW e \in Nat,
           NEW s \in Streams, m <= Len(s), InFlight(s, Upto(p, d, e), Upto(p, c, n))
    PROVE  \A i \in 1 .. m : s[i] = <<c, (n + i) - Header(c)>>
<1> DEFINE Next1(i) == <<c, (n + i) - Header(c)>>
           Wrong == {i \in 1 .. m : s[i] # Next1(i)}
           S == Upto(p, d, e)
           T == Upto(p, c, n)
<1>1. /\ c \in Nat /\ Header(c) \in {0, 1} /\ Len(s) \in Nat
      /\ \A i \in 1 .. m : i \in 1 .. Len(s)
  BY ProgramsAreSequences, WireShape DEF Streams
<1>2. \A i \in 1 .. m : Next1(i) \in Units(p) \ T
  <2>1. \A i \in n + 1 .. n + m : <<c, i - Header(c)>> \in Units(p)
                                  /\ <<c, i - Header(c)>> \notin Upto(p, c, n)
    BY UptoMore
  <2>2. \A i \in 1 .. m : n + i \in n + 1 .. n + m
    OBVIOUS
  <2> QED BY <2>1, <2>2
<1>3. \A i, j \in 1 .. m : i < j => Before(Next1(i), Next1(j))
  BY <1>1 DEF Before
<1>4. /\ \A j \in 1 .. Len(s) : s[j] \in S \ T
      /\ \A u \in S \ T : \E j \in 1 .. Len(s) : s[j] = u
      /\ \A i, j \in 1 .. Len(s) : i < j => Before(s[i], s[j])
  BY DEF InFlight
<1>5. \A u \in Units(p) : ~ Before(u, u)
  BY UnitType DEF Before
<1>6. \A u, v \in Units(p) : Before(u, v) => ~ Before(v, u)
  BY UnitType, SMTT(30) DEF Before
<1>7. \A j \in 1 .. Len(s) : s[j] \in Units(p)
  BY <1>4 DEF Upto
<1> SUFFICES ASSUME Wrong # {} PROVE FALSE
  OBVIOUS
<1>8. PICK i \in Wrong : \A j \in Wrong : i <= j
  <2>1. Wrong \subseteq Nat
    OBVIOUS
  <2> HIDE DEF Wrong
  <2> QED BY <2>1, LeastNatural
<1>9. i \in 1 .. m /\ s[i] # Next1(i)
  OBVIOUS
<1>10. \A j \in 1 .. m : j < i => s[j] = Next1(j)
  <2> SUFFICES ASSUME NEW j \in 1 .. m, j < i, s[j] # Next1(j) PROVE FALSE
    OBVIOUS
  <2>1. j \in Wrong
    OBVIOUS
  <2> HIDE DEF Wrong
  <2>2. i <= j
    BY <1>8, <2>1
  <2> QED BY <1>9, <2>2
<1> HIDE DEF Wrong
<1>11. s[i] \in Units(p) /\ s[i] \in S /\ s[i] \notin T /\ Next1(i) \in Units(p) \ T
  BY <1>1, <1>2, <1>4, <1>7, <1>9
<1>12. ~ Before(s[i], Next1(i))
  <2> SUFFICES ASSUME Before(s[i], Next1(i)) PROVE FALSE
    OBVIOUS
  <2> DEFINE u == s[i]
  <2>1. u \in Units(p) /\ u[1] \in Nat /\ u[2] \in Int /\ u = <<u[1], u[2]>>
    BY <1>11, UnitType
  <2>2. ~ (u[1] < c \/ (u[1] = c /\ u[2] + Header(c) <= n))
    BY <1>11 DEF Upto
  <2>3. u[1] = c /\ u[2] < (n + i) - Header(c)
    BY <1>1, <2>1, <2>2 DEF Before
  <2> DEFINE j == (u[2] + Header(c)) - n
  <2>4. j \in 1 .. m /\ j < i /\ Next1(j) = <<c, u[2]>>
    BY <1>1, <1>9, <2>1, <2>2, <2>3, SMTT(30)
  <2>5. s[j] = u
    BY <1>10, <2>1, <2>3, <2>4
  <2>6. Before(s[j], s[i])
    BY <1>1, <1>4, <1>9, <2>4
  <2> QED BY <1>5, <2>1, <2>5, <2>6
<1>13. Before(Next1(i), s[i])
  <2>1. \A u, v \in Units(p) : u = v \/ Before(u, v) \/ Before(v, u)
    <3> SUFFICES ASSUME NEW u \in Units(p), NEW v \in Units(p)
                 PROVE  u = v \/ Before(u, v) \/ Before(v, u)
      OBVIOUS
    <3>1. /\ u = <<u[1], u[2]>> /\ u[1] \in Nat /\ u[2] \in Int
          /\ v = <<v[1], v[2]>> /\ v[1] \in Nat /\ v[2] \in Int
      BY UnitType
    <3>2. CASE u[1] = v[1] /\ u[2] = v[2]
      BY <3>1, <3>2
    <3> QED BY <3>1, <3>2 DEF Before
  <2> QED BY <1>9, <1>11, <1>12, <2>1
<1>14. Next1(i) \in S \ T
  BY <1>11, <1>13, UptoInOrder
<1>15. PICK j \in 1 .. Len(s) : s[j] = Next1(i)
  BY <1>4, <1>14
<1>16. ~ (i < j)
  <2> SUFFICES ASSUME i < j PROVE FALSE
    OBVIOUS
  <2>1. Before(s[i], s[j])
    BY <1>1, <1>4, <1>9
  <2> QED BY <1>12, <1>15, <2>1
<1>17. j < i /\ j \in 1 .. m
  BY <1>1, <1>9, <1>15, <1>16
<1>18. Next1(j) = Next1(i)
  BY <1>10, <1>15, <1>17
<1>19. Before(Next1(j), Next1(i))
  BY <1>3, <1>9, <1>17
<1> QED BY <1>5, <1>11, <1>18, <1>19

LEMMA TakeFlight ==
    ASSUME CTypeOK, NEW p \in Party, NEW c \in 1 .. Len(prog), NEW n \in Nat, NEW m \in Nat,
           n + m <= Len(Wire(c)), Carries(p, c),
           NEW d \in Nat, NEW e \in Nat,
           NEW s \in Streams, m <= Len(s), InFlight(s, Upto(p, d, e), Upto(p, c, n)),
           Upto(p, c, n) \subseteq Upto(p, d, e)
    PROVE  LET t == SubSeq(s, m + 1, Len(s))
               h == SubSeq(s, 1, m)
           IN  /\ t \in Streams /\ Len(t) = Len(s) - m
               /\ h \in Streams /\ Len(h) = m
               /\ \A i \in 1 .. m : h[i] = <<c, (n + i) - Header(c)>>
               /\ Upto(p, c, n + m) \subseteq Upto(p, d, e)
               /\ InFlight(t, Upto(p, d, e), Upto(p, c, n + m))
<1> DEFINE t == SubSeq(s, m + 1, Len(s))
           h == SubSeq(s, 1, m)
           l == Len(s) - m
           New(i) == <<c, i - Header(c)>>
           S == Upto(p, d, e)
           T == Upto(p, c, n)
           R == Upto(p, c, n + m)
<1>1. \A i \in 1 .. m : s[i] = New(n + i)
  BY HeadsAreNext
<1>2. /\ \A i \in n + 1 .. n + m : New(i) \in Units(p) /\ New(i) \notin T
      /\ R = T \cup {New(i) : i \in n + 1 .. n + m}
  <2> HIDE DEF t, h, l
  <2>1. /\ \A i \in n + 1 .. n + m : <<c, i - Header(c)>> \in Units(p)
        /\ Upto(p, c, n + m) = Upto(p, c, n) \cup {<<c, i - Header(c)>> : i \in n + 1 .. n + m}
        /\ \A i \in n + 1 .. n + m : <<c, i - Header(c)>> \notin Upto(p, c, n)
    BY UptoMore, Zenon
  <2> QED BY <2>1
<1>3. /\ s \in Seq(Nat \X Int) /\ Len(s) \in Nat /\ l \in Nat
      /\ \A j \in 1 .. Len(s) : s[j] \in Nat \X Int
  BY DEF Streams
<1>4. \A i \in n + 1 .. n + m : i - n \in 1 .. m /\ s[i - n] = New(i)
  <2>1. \A i \in n + 1 .. n + m : i - n \in 1 .. m /\ n + (i - n) = i
    OBVIOUS
  <2> QED BY <1>1, <2>1
<1>5. /\ t \in Streams /\ Len(t) = l
      /\ \A j \in 1 .. l : t[j] = s[m + j] /\ m + j \in 1 .. Len(s)
  <2>1. \A j \in m + 1 .. Len(s) : s[j] \in Nat \X Int
    BY <1>3
  <2>2. m + 1 \in Int /\ Len(s) \in Int
    BY <1>3
  <2>3. /\ t \in Seq(Nat \X Int)
        /\ Len(t) = IF m + 1 <= Len(s) THEN (Len(s) - (m + 1)) + 1 ELSE 0
        /\ \A j \in 1 .. (Len(s) - (m + 1)) + 1 : t[j] = s[((m + 1) + j) - 1]
    BY <2>1, <2>2, SubSeqProperties
  <2> HIDE DEF t
  <2>4. (Len(s) - (m + 1)) + 1 = l /\ Len(t) = l
    BY <1>3, <2>3
  <2>5. \A j \in 1 .. l : ((m + 1) + j) - 1 = m + j /\ m + j \in 1 .. Len(s)
    <3>1. Len(s) \in Nat
      BY <1>3
    <3> QED BY <3>1
  <2> QED BY <2>3, <2>4, <2>5 DEF Streams
<1>6. /\ h \in Streams /\ Len(h) = m
      /\ \A j \in 1 .. m : h[j] = s[j]
  <2>1. \A j \in 1 .. m : s[j] \in Nat \X Int
    BY <1>3
  <2>2. /\ h \in Seq(Nat \X Int)
        /\ Len(h) = IF 1 <= m THEN (m - 1) + 1 ELSE 0
        /\ \A j \in 1 .. (m - 1) + 1 : h[j] = s[(1 + j) - 1]
    BY <2>1, SubSeqProperties
  <2> HIDE DEF h
  <2>3. (m - 1) + 1 = m /\ Len(h) = m /\ \A j \in 1 .. m : (1 + j) - 1 = j
    BY <2>2
  <2> QED BY <2>2, <2>3 DEF Streams
<1> HIDE DEF t, h, New
<1>7. \A i \in 1 .. m : h[i] = New(n + i)
  BY <1>1, <1>6
<1> HIDE DEF S, T, R
<1>8. /\ \A j \in 1 .. Len(s) : s[j] \in S \ T
      /\ \A u \in S \ T : \E j \in 1 .. Len(s) : s[j] = u
      /\ \A i, j \in 1 .. Len(s) : i < j => Before(s[i], s[j])
      /\ T \subseteq S
  BY DEF InFlight, S, T
<1>9. R \subseteq S
  <2>1. \A i \in 1 .. m : i \in 1 .. Len(s)
    BY <1>3
  <2>2. \A i \in n + 1 .. n + m : New(i) \in S
    BY <1>4, <1>8, <2>1
  <2> QED BY <1>2, <1>8, <2>2
<1>10. \A u \in S : ~ Before(u, u)
  <2>1. \A u \in S : u \in Units(p)
    BY DEF S, Upto
  <2> QED BY <2>1, UnitType DEF Before
<1>11. \A j \in 1 .. l : t[j] \in S \ R
  <2> SUFFICES ASSUME NEW j \in 1 .. l, t[j] \in R PROVE FALSE
    BY <1>5, <1>8
  <2>1. t[j] = s[m + j] /\ m + j \in 1 .. Len(s) /\ t[j] \in S \ T
    BY <1>5, <1>8
  <2>2. PICK i \in n + 1 .. n + m : t[j] = New(i)
    BY <1>2, <2>1
  <2>3. i - n \in 1 .. Len(s) /\ i - n < m + j /\ s[i - n] = s[m + j]
    BY <1>3, <1>4, <2>1, <2>2
  <2>4. Before(s[i - n], s[m + j])
    BY <1>8, <2>1, <2>3
  <2> QED BY <1>10, <2>1, <2>3, <2>4
<1>12. \A u \in S \ R : \E j \in 1 .. l : t[j] = u
  <2> SUFFICES ASSUME NEW u \in S \ R PROVE \E j \in 1 .. l : t[j] = u
    OBVIOUS
  <2>1. PICK j \in 1 .. Len(s) : s[j] = u
    BY <1>2, <1>8
  <2>2. ~ (j \in 1 .. m)
    <3>1. j \in 1 .. m => n + j \in n + 1 .. n + m /\ u = New(n + j)
      BY <1>1, <2>1
    <3> QED BY <1>2, <3>1
  <2>3. j - m \in 1 .. l /\ m + (j - m) = j
    BY <1>3, <2>2
  <2> QED BY <1>5, <2>1, <2>3
<1>13. \A i, j \in 1 .. l : i < j => Before(t[i], t[j])
  <2> SUFFICES ASSUME NEW i \in 1 .. l, NEW j \in 1 .. l, i < j PROVE Before(t[i], t[j])
    OBVIOUS
  <2>1. m + i < m + j /\ m + i \in 1 .. Len(s) /\ m + j \in 1 .. Len(s)
    BY <1>5
  <2>2. Before(s[m + i], s[m + j])
    BY <1>8, <2>1
  <2> QED BY <1>5, <2>2
<1>14. InFlight(t, S, R)
  BY <1>5, <1>11, <1>12, <1>13 DEF InFlight
<1> QED BY <1>5, <1>6, <1>7, <1>9, <1>14 DEF t, h, S, R, New


-----------------------------------------------------------------------------
(* What a party has to move, and what its steps leave alone.               *)

\* A reader knows when it has all: by the length it would send, or by the
\* header, which it has read by then.
LEMMA ToGetIs ==
    ASSUME Types, InCall, NEW p \in Party, busy[p]
    PROVE  /\ ToGet(p) \in Nat
           /\ Len(got[p]) \in 0 .. ToGet(p)
           /\ ~ Carries(Other(p), op[p]) => ToGet(p) = 0
           /\ Carries(Other(p), op[p]) =>
                /\ ToGet(p) <= Len(Wire(op[p]))
                /\ ReadAll(p) => Len(got[p]) = Len(Wire(op[p]))
<1> DEFINE k == op[p]
           g == got[p]
<1>1. k \in 1 .. Len(prog) /\ k \in Nat
  BY CurrentCall DEF Types
<1>2. /\ prog[k].kind \in Kind /\ prog[k].len \in Nat \ {0}
      /\ Len(Wire(k)) = prog[k].len + Header(k)
  BY <1>1, CallType, WireShape DEF Types
<1>3. g \in Streams /\ Len(g) \in Nat
  BY DEF Types, Streams
<1>4. GotOK(p)
  BY DEF InCall
<1>0. Carries(Other(p), k) <=> Other(p) \in Senders(p, prog[k])
  BY TwoParties DEF Carries
<1>5. CASE ~ Carries(Other(p), k)
  <2>1. ToGet(p) = 0 /\ g = <<>>
    BY <1>0, <1>4, <1>5 DEF ToGet, Current, GotOK
  <2> QED BY <1>5, <2>1
<1>6. CASE Carries(Other(p), k) /\ prog[k].kind = "broadcast"
  <2>1. ToGet(p) = prog[k].len /\ Header(k) = 0
    BY <1>0, <1>6 DEF ToGet, Current, Header
  <2> QED BY <1>2, <1>3, <1>4, <1>6, <2>1 DEF GotOK, ReadAll
<1>7. CASE Carries(Other(p), k) /\ prog[k].kind # "broadcast"
  <2>1. Header(k) = 1
    BY <1>7 DEF Header
  <2>2. CASE g = <<>>
    <3>1. ToGet(p) = 1
      BY <1>0, <1>7, <2>2 DEF ToGet, Current
    <3> QED BY <1>2, <1>7, <2>1, <2>2, <3>1 DEF ReadAll
  <2>3. CASE g # <<>>
    <3>1. Len(g) \in Nat \ {0} /\ Head(g) = g[1]
      BY <1>3, <2>3 DEF Streams
    <3>2. g[1] = <<k, 1 - Header(k)>>
      BY <1>4, <1>7, <3>1 DEF GotOK
    <3>3. Head(g)[1] = k /\ Head(g)[2] = 0
      BY <2>1, <3>1, <3>2
    <3>4. ToGet(p) = 1 + prog[k].len
      BY <1>0, <1>7, <2>3, <3>3 DEF ToGet, Current
    <3> QED BY <1>2, <1>3, <1>4, <1>7, <2>1, <3>4 DEF GotOK, ReadAll
  <2> QED BY <2>2, <2>3
<1> QED BY <1>5, <1>6, <1>7

\* The places of a link after a step.
LEMMA LinkAfter ==
    ASSUME NEW p \in Party, prog' = prog,
           NEW S, S = Upto(p, op'[p], sent'[p]),
           NEW T, T = Upto(p, op'[Other(p)], Len(got'[Other(p)])),
           T \subseteq S,
           IF st'[Other(p)] \in {"failed", "gone"} THEN pipe'[p] = <<>>
           ELSE InFlight(pipe'[p], S, T)
    PROVE  LinkOK(p)'
<1>1. SentUnits(p)' = S
  BY ProgramKept DEF SentUnits, Upto
<1>2. TakenUnits(p)' = T
  BY ProgramKept DEF TakenUnits, Upto
<1>3. Closed(p)' <=> st'[Other(p)] \in {"failed", "gone"}
  BY DEF Closed
<1>4. CASE st'[Other(p)] \in {"failed", "gone"}
  BY <1>1, <1>2, <1>3, <1>4 DEF LinkOK
<1>5. CASE st'[Other(p)] \notin {"failed", "gone"}
  <2>1. InFlight(pipe[p], SentUnits(p), TakenUnits(p))'
    BY <1>1, <1>2, <1>5 DEF InFlight, Before
  <2> QED BY <1>1, <1>2, <1>3, <1>5, <2>1 DEF LinkOK
<1> QED BY <1>4, <1>5

LEMMA LinkKept ==
    ASSUME NEW p \in Party, LinkOK(p), prog' = prog,
           Upto(p, op'[p], sent'[p]) = SentUnits(p),
           Upto(p, op'[Other(p)], Len(got'[Other(p)])) = TakenUnits(p),
           pipe'[p] = pipe[p],
           st'[Other(p)] \in {"failed", "gone"} <=> Closed(p)
    PROVE  LinkOK(p)'
<1> DEFINE S == SentUnits(p)
           T == TakenUnits(p)
<1>1. T \subseteq S /\ IF Closed(p) THEN pipe[p] = <<>> ELSE InFlight(pipe[p], S, T)
  BY DEF LinkOK
<1> HIDE DEF S, T
<1>2. S = Upto(p, op'[p], sent'[p]) /\ T = Upto(p, op'[Other(p)], Len(got'[Other(p)]))
  BY DEF S, T
<1> QED BY <1>1, <1>2, LinkAfter

\* A party that has not moved keeps its part.
LEMMA PartKept ==
    ASSUME NEW p \in Party, prog' = prog, op'[p] = op[p], sent'[p] = sent[p], got'[p] = got[p],
           sent[p] <= ToSend(p), GotOK(p)
    PROVE  (sent[p] <= ToSend(p))' /\ GotOK(p)'
<1>1. /\ \A k : Header(k)' = Header(k) /\ Wire(k)' = Wire(k)
      /\ Carries(p, op[p])' = Carries(p, op[p])
      /\ Carries(Other(p), op[p])' = Carries(Other(p), op[p])
  BY ProgramKept DEF Carries, Senders
<1>2. ToSend(p)' = ToSend(p)
  BY <1>1, ToSendIs DEF ToSend, Current, Senders
<1> QED BY <1>1, <1>2 DEF GotOK

-----------------------------------------------------------------------------
(* The beginning and the steps.                                            *)

LEMMA InitInv == Init => IInv
<1> SUFFICES ASSUME Init PROVE IInv
  OBVIOUS
<1>1. CTypeOK
  <2>1. Len(prog) \in Nat
    BY ProgramsAssumption DEF Init, AInit
  <2> QED BY <2>1 DEF Init, AInit, CTypeOK
<1>2. <<>> \in Streams
  BY DEF Streams
<1>3. Types
  BY <1>1, <1>2 DEF Init, Types, Status
<1>4. \A p \in Party : /\ busy[p] = FALSE /\ op[p] = 1 /\ sent[p] = 0
                       /\ got[p] = <<>> /\ pipe[p] = <<>> /\ st[p] = "off"
  BY DEF Init, AInit
<1>5. Fresh /\ InCall
  BY <1>4 DEF Fresh, InCall
<1>6. Links
  <2> SUFFICES ASSUME NEW p \in Party PROVE LinkOK(p)
    BY DEF Links
  <2>1. Other(p) \in Party /\ Len(got[Other(p)]) = 0
    BY <1>4, TwoParties
  <2>2. Upto(p, 1, 0) = {}
    BY <1>1, UnitType DEF Upto
  <2>3. SentUnits(p) = {} /\ TakenUnits(p) = {}
    BY <1>4, <2>1, <2>2 DEF SentUnits, TakenUnits
  <2>4. pipe[p] = <<>> /\ ~ Closed(p)
    BY <1>4, <2>1 DEF Closed
  <2> QED BY <2>3, <2>4 DEF LinkOK, InFlight
<1>7. Bounded
  BY <1>4, CapAssumption DEF Bounded
<1> QED BY <1>3, <1>5, <1>6, <1>7 DEF IInv

\* The parties meet: nothing but their status changes.
LEMMA StatusStep ==
    ASSUME IInv, st' \in [Party -> Status], UNCHANGED call,
           \A p \in Party : st'[p] \in {"failed", "gone"} <=> st[p] \in {"failed", "gone"}
    PROVE  IInv'
<1> USE DEF IInv
<1>1. /\ prog' = prog /\ op' = op /\ busy' = busy /\ result' = result /\ turn' = turn
      /\ sent' = sent /\ got' = got /\ pipe' = pipe /\ reset' = reset
  BY DEF call
<1>2. Types'
  BY <1>1 DEF Types, CTypeOK
<1>3. Fresh' /\ Bounded'
  BY <1>1 DEF Fresh, Bounded
<1>4. InCall'
  BY <1>1, PartKept DEF InCall
<1>5. Links'
  BY <1>1, TwoParties, LinkKept DEF Links, SentUnits, TakenUnits, Closed
<1> QED BY <1>2, <1>3, <1>4, <1>5

LEMMA MeetingStep ==
    ASSUME IInv, Listen \/ Meet
    PROVE  IInv'
<1>1. Party = {0, 1} /\ st \in [Party -> Status]
  BY TwoParties DEF IInv, Types
<1>2. CASE Meet
  BY <1>1, <1>2, StatusStep DEF Meet, Status
<1>3. CASE Listen
  <2>1. st' \in [Party -> Status] /\ st'[0] = st[0] /\ st'[1] = "listening"
    BY <1>1, <1>3 DEF Listen, Status
  <2> QED BY <1>1, <1>3, <2>1, StatusStep DEF Listen
<1> QED BY <1>2, <1>3


LEMMA EnterStep ==
    ASSUME IInv, NEW p \in Party, Enter(p)
    PROVE  IInv'
<1> USE DEF IInv
<1>1. /\ ~ busy[p] /\ busy' = [busy EXCEPT ![p] = TRUE]
      /\ prog' = prog /\ op' = op /\ result' = result /\ st' = st /\ turn' = turn
      /\ sent' = sent /\ got' = got /\ pipe' = pipe /\ reset' = reset
  BY DEF Enter, AEnter
<1>2. CTypeOK'
  <2>1. ANext
    BY DEF Enter, ANext
  <2> QED BY <2>1, CTypeStep DEF Types
<1>3. Types'
  BY <1>1, <1>2 DEF Types
<1>4. \A a \in Party : busy'[a] = (a = p \/ busy[a])
  BY <1>1 DEF Types, CTypeOK
<1>5. Fresh' /\ Bounded'
  BY <1>1, <1>4 DEF Fresh, Bounded
<1>6. sent[p] = 0 /\ got[p] = <<>>
  BY <1>1 DEF Fresh
<1>7. InCall'
  <2> SUFFICES ASSUME NEW a \in Party, busy'[a]
               PROVE  (sent[a] <= ToSend(a))' /\ GotOK(a)'
    BY DEF InCall
  <2>1. CASE a # p
    BY <1>1, <1>4, <2>1, PartKept DEF InCall
  <2>2. CASE a = p
    <3>1. op[p] \in 1 .. Len(prog)
      BY <1>1, <1>2, <1>4, CurrentCall DEF CTypeOK
    <3>2. Len(Wire(op[p])) \in Nat
      BY <3>1, WireShape DEF Types
    <3>3. sent[p] <= ToSend(p)
      BY <1>6, <3>2, ToSendIs
    <3>4. Len(got[p]) = 0
      BY <1>6
    <3>5. GotOK(p)
      BY <1>6, <3>2, <3>4 DEF GotOK
    <3> QED BY <1>1, <2>2, <3>3, <3>5, PartKept
  <2> QED BY <2>1, <2>2
<1>8. Links'
  BY <1>1, LinkKept DEF Links, SentUnits, TakenUnits, Closed
<1> QED BY <1>3, <1>5, <1>7, <1>8

\* Writing some of what is left of the message.
LEMMA PutStep ==
    ASSUME IInv, NEW p \in Party, NEW k \in Nat, busy[p], ~ Written(p),
           sent[p] + k <= ToSend(p), Len(pipe[p]) + k <= Cap, Put(p, k),
           UNCHANGED <<prog, op, busy, result, st, got>>, turn' \in [Party -> {"write", "read"}]
    PROVE  IInv'
<1> USE DEF IInv
<1> DEFINE c == op[p]
           n == sent[p]
           S == SentUnits(p)
           T == TakenUnits(p)
           R == Upto(p, c, n + k)
<1>1. /\ prog' = prog /\ op' = op /\ busy' = busy /\ result' = result /\ st' = st /\ got' = got
      /\ sent' = [sent EXCEPT ![p] = @ + k]
  BY DEF Put
<1>2. c \in 1 .. Len(prog) /\ c \in Nat /\ n \in Nat
  BY CurrentCall DEF Types
<1>3. Carries(p, c) /\ n + k <= Len(Wire(c)) /\ Len(Wire(c)) \in Nat
  BY <1>2, ToSendIs, WireShape DEF Written, Types
<1>4. /\ Other(p) \in Party /\ Other(p) # p /\ Other(Other(p)) = p
      /\ \A q \in Party : q # p => q = Other(p)
  BY TwoParties
<1>5. sent' \in [Party -> Nat] /\ sent'[p] = n + k /\ \A q \in Party : q # p => sent'[q] = sent[q]
  BY <1>1, <1>2 DEF Types
<1>6. S \subseteq R
  BY <1>2, UnitType, WireShape DEF SentUnits, Upto, Types
<1>7. T \subseteq S /\ IF Closed(p) THEN pipe[p] = <<>> ELSE InFlight(pipe[p], S, T)
  BY DEF Links, LinkOK
<1>8. pipe' \in [Party -> Streams] /\ \A q \in Party : q # p => pipe'[q] = pipe[q]
  <2>1. CASE Closed(p)
    BY <2>1 DEF Put, Types
  <2>2. CASE ~ Closed(p)
    <3> DEFINE w == SubSeq(Wire(op[p]), sent[p] + 1, sent[p] + k)
               t == pipe[p] \o w
    <3>1. pipe' = [pipe EXCEPT ![p] = t]
      BY <2>2 DEF Put
    <3>2. w \in Streams
      BY <1>2, <1>3, NextUnits DEF Types
    <3> HIDE DEF w
    <3>3. t \in Streams
      BY <3>2 DEF Types, Streams
    <3> HIDE DEF t
    <3> QED BY <3>1, <3>3 DEF Types
  <2> QED BY <2>1, <2>2
<1>9. reset' \subseteq Party
  BY DEF Put, Types
<1>10. Types'
  BY <1>1, <1>5, <1>8, <1>9 DEF Types, CTypeOK
<1>11. IF Closed(p) THEN pipe'[p] = <<>> /\ Len(pipe'[p]) <= Cap
       ELSE InFlight(pipe'[p], R, T) /\ Len(pipe'[p]) <= Cap
  <2>1. CASE Closed(p)
    BY <1>7, <2>1, CapAssumption DEF Put
  <2>2. CASE ~ Closed(p)
    <3> DEFINE s == pipe[p]
               t == s \o SubSeq(Wire(op[p]), sent[p] + 1, sent[p] + k)
    <3>1. s \in Streams
      BY DEF Types
    <3>2. InFlight(s, S, T)
      BY <1>7, <2>2
    <3>3. S = Upto(p, c, n)
      BY DEF SentUnits
    <3>4. t \in Streams /\ Len(t) = Len(s) + k /\ InFlight(t, R, T)
      <4> HIDE DEF s, T, S
      <4> QED BY <1>2, <1>3, <1>7, <3>1, <3>2, <3>3, PutFlight DEF Types
    <3>5. pipe' = [pipe EXCEPT ![p] = t]
      BY <2>2 DEF Put
    <3> HIDE DEF t, R, T
    <3>6. pipe'[p] = t
      BY <3>5 DEF Types
    <3> QED BY <2>2, <3>4, <3>6
  <2> QED BY <2>1, <2>2
<1>12. Fresh'
  BY <1>1, <1>5 DEF Fresh
<1>13. InCall'
  <2> SUFFICES ASSUME NEW a \in Party, busy[a]
               PROVE  (sent[a] <= ToSend(a))' /\ GotOK(a)'
    BY <1>1 DEF InCall
  <2>1. CASE a # p
    BY <1>1, <1>5, <2>1, PartKept DEF InCall
  <2>2. CASE a = p
    <3>1. GotOK(p)'
      <4>1. /\ Carries(Other(p), op[p])' = Carries(Other(p), op[p])
            /\ \A i : Header(i)' = Header(i) /\ Wire(i)' = Wire(i)
        BY <1>1, ProgramKept DEF Carries, Senders
      <4>2. GotOK(p)
        BY DEF InCall
      <4> QED BY <1>1, <4>1, <4>2 DEF GotOK
    <3>2. ToSend(p)' = ToSend(p)
      BY <1>1, ProgramKept DEF ToSend, Current, Senders
    <3> QED BY <1>5, <2>2, <3>1, <3>2
  <2> QED BY <2>1, <2>2
<1>14. Links'
  <2>1. LinkOK(p)'
    <3>1. T = Upto(p, op'[Other(p)], Len(got'[Other(p)])) /\ R = Upto(p, op'[p], sent'[p])
      BY <1>1, <1>5 DEF TakenUnits
    <3>2. st'[Other(p)] \in {"failed", "gone"} <=> Closed(p)
      BY <1>1 DEF Closed
    <3> HIDE DEF T, R, S
    <3> QED BY <1>1, <1>6, <1>7, <1>11, <3>1, <3>2, LinkAfter
  <2> DEFINE o == Other(p)
  <2>2. LinkOK(o)'
    <3>1. o \in Party /\ LinkOK(o) /\ o # p
      BY <1>4 DEF Links
    <3>2. op'[o] = op[o] /\ sent'[o] = sent[o] /\ pipe'[o] = pipe[o] /\ Other(o) = p
      BY <1>1, <1>4, <1>5, <1>8
    <3> HIDE DEF o
    <3>3. /\ Upto(o, op'[o], sent'[o]) = SentUnits(o)
          /\ Upto(o, op'[Other(o)], Len(got'[Other(o)])) = TakenUnits(o)
          /\ st'[Other(o)] \in {"failed", "gone"} <=> Closed(o)
      BY <1>1, <3>2 DEF SentUnits, TakenUnits, Closed
    <3> QED BY <1>1, <3>1, <3>2, <3>3, LinkKept
  <2> QED BY <1>4, <2>1, <2>2 DEF Links
<1>15. Bounded'
  BY <1>8, <1>11 DEF Bounded
<1> QED BY <1>10, <1>12, <1>13, <1>14, <1>15


\* Reading some of what is there.
LEMMA TakeStep ==
    ASSUME IInv, NEW p \in Party, NEW k \in Nat, busy[p], st[p] = "up", ~ ReadAll(p),
           Len(got[p]) + k <= ToGet(p), k <= Len(pipe[Other(p)]), Take(p, k),
           UNCHANGED <<prog, op, busy, result, st, sent, reset>>,
           turn' \in [Party -> {"write", "read"}]
    PROVE  IInv'
<1> USE DEF IInv
<1> DEFINE o == Other(p)
           c == op[p]
           n == Len(got[p])
           S == SentUnits(o)
           T == TakenUnits(o)
           R == Upto(o, c, n + k)
           h == SubSeq(pipe[Other(p)], 1, k)
           t == SubSeq(pipe[Other(p)], k + 1, Len(pipe[Other(p)]))
<1>1. /\ prog' = prog /\ op' = op /\ busy' = busy /\ result' = result /\ st' = st
      /\ sent' = sent /\ reset' = reset
      /\ got' = [got EXCEPT ![p] = @ \o h]
      /\ pipe' = [pipe EXCEPT ![o] = t]
  BY DEF Take
<1>2. c \in 1 .. Len(prog) /\ c \in Nat /\ n \in Nat /\ got[p] \in Streams /\ pipe[o] \in Streams
  BY CurrentCall, TwoParties DEF Types, Streams
<1>3. /\ o \in Party /\ o # p /\ Other(o) = p
      /\ \A q \in Party : q # p => q = o
  BY TwoParties
<1>4. Carries(o, c) /\ n + k <= Len(Wire(c)) /\ Len(Wire(c)) \in Nat
  <2>1. Carries(o, c) /\ ToGet(p) \in Nat /\ ToGet(p) <= Len(Wire(c))
    BY <1>2, ToGetIs DEF ReadAll
  <2>2. Len(Wire(c)) \in Nat
    BY <1>2, WireShape DEF Types
  <2> QED BY <1>2, <2>1, <2>2
<1>5. T \subseteq S /\ InFlight(pipe[o], S, T)
  <2>1. ~ Closed(o)
    BY <1>3 DEF Closed
  <2> QED BY <1>3, <2>1 DEF Links, LinkOK
<1>6. S = Upto(o, op[o], sent[o]) /\ T = Upto(o, c, n) /\ op[o] \in Nat /\ sent[o] \in Nat
  BY <1>3, CurrentCall DEF SentUnits, TakenUnits, Types
<1>7. /\ t \in Streams /\ Len(t) = Len(pipe[o]) - k
      /\ h \in Streams /\ Len(h) = k
      /\ \A i \in 1 .. k : h[i] = <<c, (n + i) - Header(c)>>
      /\ R \subseteq S
      /\ InFlight(t, S, R)
  <2> DEFINE s == pipe[o]
             d == op[o]
             e == sent[o]
  <2>1. InFlight(s, Upto(o, d, e), Upto(o, c, n)) /\ Upto(o, c, n) \subseteq Upto(o, d, e)
    BY <1>5, <1>6
  <2>2. s \in Streams /\ k <= Len(s) /\ d \in Nat /\ e \in Nat
    BY <1>2, <1>6
  <2>3. h = SubSeq(s, 1, k) /\ t = SubSeq(s, k + 1, Len(s)) /\ CTypeOK
    BY DEF Types
  <2>4. S = Upto(o, d, e) /\ s = pipe[o]
    BY <1>6
  <2> HIDE DEF s, d, e, c, n, o, h, t, S, T
  <2>5. /\ SubSeq(s, k + 1, Len(s)) \in Streams /\ Len(SubSeq(s, k + 1, Len(s))) = Len(s) - k
        /\ SubSeq(s, 1, k) \in Streams /\ Len(SubSeq(s, 1, k)) = k
        /\ \A i \in 1 .. k : SubSeq(s, 1, k)[i] = <<c, (n + i) - Header(c)>>
        /\ Upto(o, c, n + k) \subseteq Upto(o, d, e)
        /\ InFlight(SubSeq(s, k + 1, Len(s)), Upto(o, d, e), Upto(o, c, n + k))
    BY <1>2, <1>3, <1>4, <2>1, <2>2, <2>3, TakeFlight
  <2> QED BY <2>3, <2>4, <2>5
<1> HIDE DEF h, t
<1>8. /\ got' \in [Party -> Streams] /\ Len(got'[p]) = n + k
      /\ \A q \in Party : q # p => got'[q] = got[q]
      /\ \A i \in 1 .. n : got'[p][i] = got[p][i]
      /\ \A i \in 1 .. k : got'[p][n + i] = h[i]
  <2> DEFINE g == got[p] \o h
  <2>1. /\ g \in Streams /\ Len(g) = n + k
        /\ \A i \in 1 .. n : g[i] = got[p][i]
        /\ \A i \in 1 .. k : g[n + i] = h[i]
    <3>1. /\ g \in Streams /\ Len(g) = n + Len(h)
          /\ \A i \in 1 .. n : g[i] = got[p][i]
          /\ \A i \in 1 .. Len(h) : g[n + i] = h[i]
      BY <1>2, <1>7, Joined
    <3> HIDE DEF g, n
    <3> QED BY <1>7, <3>1
  <2>2. got' = [got EXCEPT ![p] = g]
    BY <1>1
  <2> HIDE DEF g
  <2>3. got'[p] = g /\ \A q \in Party : q # p => got'[q] = got[q]
    BY <2>2 DEF Types
  <2>4. got' \in [Party -> Streams]
    BY <2>1, <2>2 DEF Types
  <2> QED BY <2>1, <2>3, <2>4
<1>9. pipe' \in [Party -> Streams] /\ pipe'[o] = t /\ pipe'[p] = pipe[p]
  BY <1>1, <1>3, <1>7 DEF Types
<1>10. Types'
  BY <1>1, <1>8, <1>9 DEF Types, CTypeOK
<1>11. Fresh'
  BY <1>1, <1>8 DEF Fresh
<1>12. InCall'
  <2> SUFFICES ASSUME NEW a \in Party, busy[a]
               PROVE  (sent[a] <= ToSend(a))' /\ GotOK(a)'
    BY <1>1 DEF InCall
  <2>1. CASE a # p
    BY <1>1, <1>8, <2>1, PartKept DEF InCall
  <2>2. CASE a = p
    <3>1. (sent[p] <= ToSend(p))'
      <4>1. ToSend(p)' = ToSend(p)
        BY <1>1, ProgramKept DEF ToSend, Current, Senders
      <4> QED BY <1>1, <4>1 DEF InCall
    <3>2. \A i \in 1 .. n + k : got'[p][i] = <<c, i - Header(c)>>
      <4> SUFFICES ASSUME NEW i \in 1 .. n + k PROVE got'[p][i] = <<c, i - Header(c)>>
        OBVIOUS
      <4>1. CASE i <= n
        <5>1. i \in 1 .. Len(got[p])
          BY <1>2, <4>1
        <5>2. got[p][i] = <<c, i - Header(c)>>
          BY <1>4, <5>1 DEF InCall, GotOK
        <5>3. got'[p][i] = got[p][i]
          BY <1>8, <5>1, Zenon
        <5> QED BY <5>2, <5>3
      <4>2. CASE ~ (i <= n)
        <5> DEFINE j == i - n
        <5>1. j \in 1 .. k /\ n + j = i
          BY <1>2, <4>2
        <5> HIDE DEF j, n
        <5>2. got'[p][n + j] = h[j] /\ h[j] = <<c, (n + j) - Header(c)>>
          BY <1>7, <1>8, <5>1
        <5> QED BY <5>1, <5>2
      <4> QED BY <4>1, <4>2
    <3>3. GotOK(p)'
      <4>1. /\ Carries(Other(p), op[p])' = Carries(Other(p), op[p])
            /\ \A i : Header(i)' = Header(i) /\ Wire(i)' = Wire(i)
        BY <1>1, ProgramKept DEF Carries, Senders
      <4>2. Len(got'[p]) <= Len(Wire(c))
        BY <1>4, <1>8
      <4> QED BY <1>1, <1>4, <1>8, <3>2, <4>1, <4>2 DEF GotOK
    <3> QED BY <2>2, <3>1, <3>3
  <2> QED BY <2>1, <2>2
<1>13. Links'
  <2>1. LinkOK(o)'
    <3>1. S = Upto(o, op'[o], sent'[o]) /\ R = Upto(o, op'[p], Len(got'[p]))
      BY <1>1, <1>6, <1>8
    <3>2. st'[p] \notin {"failed", "gone"}
      BY <1>1
    <3> HIDE DEF R, S, o
    <3> QED BY <1>1, <1>3, <1>7, <1>9, <3>1, <3>2, LinkAfter
  <2>2. LinkOK(p)'
    <3>1. op'[o] = op[o] /\ got'[o] = got[o] /\ pipe'[p] = pipe[p] /\ LinkOK(p)
      BY <1>1, <1>3, <1>8, <1>9 DEF Links
    <3> QED BY <1>1, <3>1, LinkKept DEF SentUnits, TakenUnits, Closed
  <2> QED BY <1>3, <2>1, <2>2 DEF Links
<1>14. Bounded'
  <2>1. Len(t) <= Cap
    BY <1>2, <1>3, <1>7, CapAssumption DEF Bounded, Streams
  <2> QED BY <1>3, <1>9, <2>1 DEF Bounded
<1> QED BY <1>10, <1>11, <1>12, <1>13, <1>14

\* A party that stops takes what it has not read with it.
LEMMA HangupStep ==
    ASSUME IInv, NEW p \in Party, NEW status \in {"failed", "gone"}, Hangup(p, status)
    PROVE  IInv'
<1> USE DEF IInv
<1> DEFINE o == Other(p)
<1>1. /\ prog' = prog /\ op' = op /\ busy' = busy /\ result' = result /\ turn' = turn
      /\ sent' = sent /\ got' = got
      /\ st' = [st EXCEPT ![p] = status]
      /\ pipe' = [pipe EXCEPT ![o] = <<>>]
  BY DEF Hangup
<1>2. /\ o \in Party /\ o # p /\ Other(o) = p
      /\ \A q \in Party : q # p => q = o
  BY TwoParties
<1>3. st' \in [Party -> Status] /\ st'[p] = status /\ st'[o] = st[o]
  BY <1>1, <1>2 DEF Types, Status
<1>4. pipe' \in [Party -> Streams] /\ pipe'[o] = <<>> /\ pipe'[p] = pipe[p]
  <2>1. <<>> \in Streams
    BY DEF Streams
  <2> QED BY <1>1, <1>2, <2>1 DEF Types
<1>5. reset' \subseteq Party
  BY <1>2 DEF Hangup, Types
<1>6. Types'
  BY <1>1, <1>3, <1>4, <1>5 DEF Types, CTypeOK
<1>7. Fresh'
  BY <1>1 DEF Fresh
<1>8. InCall'
  BY <1>1, PartKept DEF InCall
<1>9. LinkOK(p)'
  BY <1>1, <1>3, <1>4, LinkKept DEF Links, SentUnits, TakenUnits, Closed
<1>10. LinkOK(o)'
  <2> DEFINE S == SentUnits(o)
             T == TakenUnits(o)
  <2>1. S = Upto(o, op'[o], sent'[o]) /\ T = Upto(o, op'[Other(o)], Len(got'[Other(o)]))
    BY <1>1 DEF SentUnits, TakenUnits
  <2>2. T \subseteq S /\ st'[Other(o)] \in {"failed", "gone"}
    BY <1>2, <1>3 DEF Links, LinkOK
  <2> HIDE DEF S, T, o
  <2> QED BY <1>1, <1>2, <1>4, <2>1, <2>2, LinkAfter
<1>11. Links'
  BY <1>2, <1>9, <1>10 DEF Links
<1>12. Bounded'
  BY <1>2, <1>4, CapAssumption DEF Bounded
<1> QED BY <1>6, <1>7, <1>8, <1>11, <1>12


LEMMA LeaveStep ==
    ASSUME IInv, NEW p \in Party, Leave(p), CTypeOK'
    PROVE  IInv'
<1> USE DEF IInv
<1> DEFINE o == Other(p)
           c == op[p]
<1>1. /\ busy[p] /\ Written(p) /\ ReadAll(p)
      /\ prog' = prog /\ st' = st /\ pipe' = pipe /\ reset' = reset
      /\ op' = [op EXCEPT ![p] = @ + 1]
      /\ busy' = [busy EXCEPT ![p] = FALSE]
      /\ turn' = [turn EXCEPT ![p] = "write"]
      /\ sent' = [sent EXCEPT ![p] = 0]
      /\ got' = [got EXCEPT ![p] = <<>>]
  BY DEF Leave
<1>2. /\ o \in Party /\ o # p /\ Other(o) = p
      /\ \A q \in Party : q # p => q = o
  BY TwoParties
<1>3. /\ op'[p] = c + 1 /\ ~ busy'[p] /\ sent'[p] = 0 /\ got'[p] = <<>> /\ Len(got'[p]) = 0
      /\ op'[o] = op[o] /\ busy'[o] = busy[o] /\ sent'[o] = sent[o] /\ got'[o] = got[o]
  <2>1. got'[p] = <<>>
    BY <1>1 DEF Types
  <2>2. Len(got'[p]) = 0
    BY <2>1
  <2> QED BY <1>1, <1>2, <2>1, <2>2 DEF Types, CTypeOK
<1>4. Types'
  <2>1. <<>> \in Streams
    BY DEF Streams
  <2> QED BY <1>1, <2>1 DEF Types
<1>5. Fresh' /\ Bounded'
  BY <1>1, <1>2, <1>3 DEF Fresh, Bounded
<1>6. InCall'
  BY <1>1, <1>2, <1>3, PartKept DEF InCall
<1>7. /\ c \in 1 .. Len(prog) /\ c \in Nat /\ sent[p] \in Nat /\ Len(got[p]) \in Nat
      /\ Len(Wire(c)) \in Nat /\ CTypeOK
  BY <1>1, CurrentCall, WireShape DEF Types, Streams
<1>8. Upto(p, c, sent[p]) = Upto(p, c + 1, 0)
  <2>1. Carries(p, c) => sent[p] = Len(Wire(c))
    BY <1>1, <1>7, ToSendIs DEF Written, InCall
  <2> QED BY <1>7, <2>1, UptoNext
<1>9. Upto(o, c, Len(got[p])) = Upto(o, c + 1, 0)
  <2>1. Carries(o, c) => Len(got[p]) = Len(Wire(c))
    BY <1>1, ToGetIs
  <2> QED BY <1>2, <1>7, <2>1, UptoNext
<1>10. LinkOK(p)'
  BY <1>1, <1>3, <1>8, LinkKept DEF Links, SentUnits, TakenUnits, Closed
<1>11. LinkOK(o)'
  <2>1. /\ Upto(o, op'[o], sent'[o]) = SentUnits(o)
        /\ Upto(o, op'[Other(o)], Len(got'[Other(o)])) = TakenUnits(o)
        /\ st'[Other(o)] \in {"failed", "gone"} <=> Closed(o)
    BY <1>1, <1>2, <1>3, <1>9 DEF SentUnits, TakenUnits, Closed
  <2>2. LinkOK(o) /\ pipe'[o] = pipe[o]
    BY <1>1, <1>2 DEF Links
  <2> HIDE DEF o
  <2> QED BY <1>1, <1>2, <2>1, <2>2, LinkKept
<1> QED BY <1>2, <1>4, <1>5, <1>6, <1>10, <1>11 DEF Links

-----------------------------------------------------------------------------
(* Leaving a call does what Collective promises.                           *)

LEMMA MessageShape ==
    ASSUME CTypeOK, NEW k \in 1 .. Len(prog)
    PROVE  LET a == Len(Wire(k)) - Len(Message(k))
           IN  /\ a \in {0, 1} /\ Len(Message(k)) \in Nat \ {0}
               /\ Message(k) \in Streams
               /\ \A i \in 1 .. Len(Message(k)) : Message(k)[i] = <<k, (i + a) - Header(k)>>
<1> DEFINE h == IF prog[k].kind = "from_king" THEN 1 ELSE 0
           n == prog[k].len + h
<1>1. /\ prog[k].len \in Nat \ {0} /\ Len(prog) \in Nat /\ k \in Nat
      /\ Header(k) \in {0, 1} /\ Len(Wire(k)) = prog[k].len + Header(k)
  BY CallType, ProgramsAreSequences, WireShape
<1>2. h \in {0, 1} /\ Header(k) - h \in {0, 1} /\ n \in Nat \ {0}
  BY <1>1 DEF Header
<1>3. Message(k) = [i \in 1 .. n |-> <<k, i - h>>]
  BY DEF Message
<1>4. \A i \in 1 .. n : <<k, i - h>> \in Nat \X Int
  BY <1>1, <1>2
<1> HIDE DEF h, n
<1>5. Message(k) \in [1 .. n -> Nat \X Int]
  BY <1>3, <1>4
<1>6. Message(k) \in Streams /\ Len(Message(k)) = n
  BY <1>2, <1>3, <1>5 DEF Streams
<1> DEFINE a == Len(Wire(k)) - Len(Message(k))
<1>7. a = Header(k) - h
  BY <1>1, <1>2, <1>6 DEF n
<1> HIDE DEF a
<1>8. \A i \in 1 .. n : i - h = (i + a) - Header(k)
  BY <1>1, <1>2, <1>7
<1>9. \A i \in 1 .. n : Message(k)[i] = <<k, (i + a) - Header(k)>>
  BY <1>3, <1>8
<1> QED BY <1>2, <1>6, <1>7, <1>9 DEF a

LEMMA BodyIs ==
    ASSUME IInv, NEW p \in Party, busy[p], ReadAll(p)
    PROVE  Body(p) = IF Carries(Other(p), op[p]) THEN Message(op[p]) ELSE <<>>
<1> USE DEF IInv
<1> DEFINE k == op[p]
           g == got[p]
           m == Message(k)
           a == Len(Wire(k)) - Len(m)
           b == SubSeq(g, a + 1, Len(g))
<1>1. CTypeOK /\ k \in 1 .. Len(prog) /\ g \in Seq(Nat \X Int) /\ GotOK(p)
  BY CurrentCall DEF Types, InCall, Streams
<1>2. /\ a \in {0, 1} /\ Len(m) \in Nat \ {0} /\ m \in Seq(Nat \X Int)
      /\ \A i \in 1 .. Len(m) : m[i] = <<k, (i + a) - Header(k)>>
      /\ Len(Wire(k)) \in Nat
  <2>1. /\ a \in {0, 1} /\ Len(m) \in Nat \ {0} /\ m \in Streams
        /\ \A i \in 1 .. Len(m) : m[i] = <<k, (i + a) - Header(k)>>
    BY <1>1, MessageShape
  <2> QED BY <1>1, <2>1, WireShape DEF Streams
<1>3. Len(g) \in Nat /\ Body(p) = b
  BY <1>1 DEF Body
<1>4. /\ b \in Seq(Nat \X Int)
      /\ Len(b) = IF a + 1 <= Len(g) THEN (Len(g) - (a + 1)) + 1 ELSE 0
      /\ \A i \in 1 .. (Len(g) - (a + 1)) + 1 : b[i] = g[((a + 1) + i) - 1]
  <2>1. a + 1 \in Int /\ Len(g) \in Int
    BY <1>2, <1>3
  <2>2. \A i \in a + 1 .. Len(g) : g[i] \in Nat \X Int
    <3>1. \A i \in a + 1 .. Len(g) : i \in 1 .. Len(g)
      BY <1>2, <1>3
    <3> QED BY <1>1, <3>1
  <2> HIDE DEF a, g
  <2> QED BY <2>1, <2>2, SubSeqProperties
<1>5. CASE ~ Carries(Other(p), k)
  <2>1. g = <<>> /\ Len(g) = 0
    BY <1>1, <1>5 DEF GotOK
  <2> HIDE DEF b, a, g
  <2>2. Len(b) = 0
    BY <1>2, <1>4, <2>1
  <2>3. b = <<>>
    BY <1>4, <2>2
  <2> QED BY <1>3, <1>5, <2>3
<1>6. CASE Carries(Other(p), k)
  <2>1. Len(g) = Len(Wire(k)) /\ Len(g) = Len(m) + a
    <3>1. Len(g) = Len(Wire(k))
      BY <1>6, ToGetIs
    <3> QED BY <1>2, <3>1
  <2>2. \A i \in 1 .. Len(g) : g[i] = <<k, i - Header(k)>>
    BY <1>1, <1>6 DEF GotOK
  <2> DEFINE l == Len(m)
  <2> HIDE DEF b, a, g, m
  <2>3. l \in Nat /\ (Len(g) - (a + 1)) + 1 = l /\ Len(b) = l
    BY <1>2, <1>4, <2>1, SMTT(30)
  <2>4. \A i \in 1 .. l : ((a + 1) + i) - 1 = i + a /\ i + a \in 1 .. Len(g)
    BY <1>2, <2>1
  <2>5. \A i \in 1 .. l : b[i] = m[i]
    BY <1>2, <1>4, <2>2, <2>3, <2>4
  <2>6. b = m
    <3>1. Len(b) = Len(m) /\ \A i \in 1 .. Len(b) : b[i] = m[i]
      BY <2>3, <2>5
    <3>2. b \in Seq(Nat \X Int) /\ m \in Seq(Nat \X Int)
      BY <1>2, <1>4
    <3> HIDE DEF l
    <3> QED BY <3>1, <3>2, SeqEqual
  <2> QED BY <1>3, <1>6, <2>6 DEF m
<1> QED BY <1>5, <1>6

LEMMA LeaveAbstract ==
    ASSUME IInv, NEW p \in Party, Leave(p)
    PROVE  ALeave(p)
<1> USE DEF IInv
<1> DEFINE o == Other(p)
           k == op[p]
<1>1. /\ busy[p] /\ ReadAll(p) /\ prog' = prog
      /\ result' = [result EXCEPT ![p] = [q \in Party |-> IF q = p THEN <<>> ELSE Body(p)]]
      /\ op' = [op EXCEPT ![p] = @ + 1]
      /\ busy' = [busy EXCEPT ![p] = FALSE]
  BY DEF Leave
<1>2. /\ o \in Party /\ o # p /\ Other(o) = p
      /\ \A q \in Party : q # p => q = o
      /\ Party = {0, 1} /\ King = 0
  BY TwoParties
<1>3. k \in 1 .. Len(prog) /\ k \in Nat /\ CTypeOK /\ prog[k].kind \in Kind
  BY <1>1, CurrentCall, CallType DEF Types
<1>4. Senders(p, prog[k]) \subseteq {o} /\ (Carries(o, k) <=> o \in Senders(p, prog[k]))
  BY <1>2, <1>3 DEF Senders, Kind, Carries
<1>5. ASSUME Carries(o, k) PROVE Entered(o, k)
  <2> DEFINE n == Len(got[p])
             u == <<k, 1 - Header(k)>>
  <2>1. n = Len(Wire(k)) /\ n \in Nat \ {0} /\ Header(k) \in {0, 1}
    BY <1>1, <1>3, <1>5, ToGetIs, WireShape
  <2>2. u \in Upto(o, k, 0 + n)
    <3>1. \A i \in 0 + 1 .. 0 + n : <<k, i - Header(k)>> \in Units(o)
      <4>1. n \in Nat /\ 0 \in Nat /\ 0 + n <= Len(Wire(k)) /\ o \in Party
        BY <1>2, <2>1
      <4> HIDE DEF n, k, o
      <4> QED BY <1>3, <1>5, <4>1, UptoMore
    <3>2. u \in Units(o) /\ u[1] = k /\ u[2] + Header(k) = 1
      BY <2>1, <3>1
    <3> QED BY <1>3, <2>1, <3>2 DEF Upto
  <2>3. u \in TakenUnits(o)
    BY <1>2, <2>1, <2>2 DEF TakenUnits
  <2>4. u \in SentUnits(o)
    BY <1>2, <2>3 DEF Links, LinkOK
  <2>5. k < op[o] \/ (k = op[o] /\ sent[o] >= 1)
    <3>1. k < op[o] \/ (k = op[o] /\ (1 - Header(k)) + Header(op[o]) <= sent[o])
      BY <2>4 DEF SentUnits, Upto
    <3>2. sent[o] \in Nat
      BY <1>2 DEF Types
    <3> QED BY <2>1, <3>1, <3>2
  <2>6. op[o] \in Nat /\ sent[o] \in Nat /\ (~ busy[o] => sent[o] = 0)
    BY <1>2, CurrentCall DEF Types, Fresh
  <2> QED BY <1>3, <2>5, <2>6 DEF Entered
<1>6. Received(p, k) = [q \in Party |-> IF q = p THEN <<>> ELSE Body(p)]
  <2>1. Body(p) = IF o \in Senders(p, prog[k]) THEN Message(k) ELSE <<>>
    BY <1>1, <1>4, BodyIs
  <2> QED BY <1>2, <1>4, <2>1, Zenon DEF Received
<1>7. \A q \in Senders(p, prog[op[p]]) : Entered(q, op[p])
  BY <1>4, <1>5
<1> QED BY <1>1, <1>6, <1>7 DEF ALeave


-----------------------------------------------------------------------------
(* All steps together.                                                     *)

LEMMA TurnKept ==
    ASSUME IInv, NEW p \in Party, NEW v \in {"write", "read"},
           turn' = [turn EXCEPT ![p] = v] \/ turn' = turn
    PROVE  turn' \in [Party -> {"write", "read"}]
BY DEF IInv, Types

LEMMA TryWriteStep ==
    ASSUME IInv, NEW p \in Party, TryWrite(p)
    PROVE  IInv'
<1> DEFINE room == Cap - Len(pipe[p])
           left == ToSend(p) - sent[p]
<1>1. /\ busy[p] /\ ~ Written(p) /\ turn' = [turn EXCEPT ![p] = "read"]
      /\ UNCHANGED <<prog, op, busy, result, st, got>>
  BY DEF TryWrite, Exchanging, WriteTurn
<1>2. PICK k \in Part(Least(room, left)) : Put(p, k)
  BY DEF TryWrite
<1>3. /\ room \in Nat /\ left \in Nat /\ Len(pipe[p]) \in Nat /\ sent[p] \in Nat
      /\ ToSend(p) \in Nat
  <2>1. Len(pipe[p]) \in Nat /\ Len(pipe[p]) <= Cap /\ sent[p] \in Nat /\ sent[p] <= ToSend(p)
    BY <1>1 DEF IInv, Types, Streams, Bounded, InCall
  <2>2. ToSend(p) \in Nat
    BY <1>1, ToSendIs, CurrentCall, WireShape DEF IInv, Types
  <2> QED BY <2>1, <2>2, CapAssumption
<1>4. k \in Nat /\ k <= room /\ k <= left
  <2> HIDE DEF room, left
  <2> QED BY <1>2, <1>3 DEF Part, Least
<1>5. sent[p] + k <= ToSend(p) /\ Len(pipe[p]) + k <= Cap
  BY <1>3, <1>4, CapAssumption
<1>6. turn' \in [Party -> {"write", "read"}]
  BY <1>1, TurnKept
<1> QED BY <1>1, <1>2, <1>4, <1>5, <1>6, PutStep

LEMMA SendUnitStep ==
    ASSUME IInv, NEW p \in Party, SendUnit(p)
    PROVE  IInv'
<1>1. /\ busy[p] /\ ~ Written(p) /\ Len(pipe[p]) < Cap /\ Put(p, 1) /\ turn' = turn
      /\ UNCHANGED <<prog, op, busy, result, st, got>>
  BY DEF SendUnit
<1>2. /\ Len(pipe[p]) \in Nat /\ sent[p] \in Nat /\ ToSend(p) \in Nat
  <2>1. Len(pipe[p]) \in Nat /\ sent[p] \in Nat
    BY DEF IInv, Types, Streams
  <2>2. ToSend(p) \in Nat
    BY <1>1, ToSendIs, CurrentCall, WireShape DEF IInv, Types
  <2> QED BY <2>1, <2>2
<1>3. sent[p] + 1 <= ToSend(p) /\ Len(pipe[p]) + 1 <= Cap
  BY <1>1, <1>2, CapAssumption DEF Written
<1>4. turn' \in [Party -> {"write", "read"}]
  BY <1>1, TurnKept
<1> QED BY <1>1, <1>3, <1>4, PutStep

LEMMA TryReadStep ==
    ASSUME IInv, NEW p \in Party, TryRead(p)
    PROVE  IInv'
<1> DEFINE there == Len(pipe[Other(p)])
           left == ToGet(p) - Len(got[p])
<1>1. /\ busy[p] /\ st[p] = "up" /\ ~ ReadAll(p) /\ turn' = [turn EXCEPT ![p] = "write"]
      /\ UNCHANGED <<prog, op, busy, result, st, sent, reset>>
  BY DEF TryRead, Exchanging, ReadTurn
<1>2. PICK k \in Part(Least(there, left)) : Take(p, k)
  BY DEF TryRead
<1>3. there \in Nat /\ left \in Nat /\ Len(got[p]) \in Nat /\ ToGet(p) \in Nat
  <2>1. there \in Nat /\ Len(got[p]) \in Nat
    BY TwoParties DEF IInv, Types, Streams
  <2>2. ToGet(p) \in Nat /\ Len(got[p]) \in 0 .. ToGet(p)
    BY <1>1, ToGetIs DEF IInv
  <2> QED BY <2>1, <2>2
<1>4. k \in Nat /\ k <= there /\ k <= left
  <2> HIDE DEF there, left
  <2> QED BY <1>2, <1>3 DEF Part, Least
<1>5. Len(got[p]) + k <= ToGet(p)
  BY <1>3, <1>4
<1>6. turn' \in [Party -> {"write", "read"}]
  BY <1>1, TurnKept
<1> QED BY <1>1, <1>2, <1>4, <1>5, <1>6, TakeStep

LEMMA RecvUnitStep ==
    ASSUME IInv, NEW p \in Party, RecvUnit(p)
    PROVE  IInv'
<1>1. /\ busy[p] /\ st[p] = "up" /\ ~ ReadAll(p) /\ pipe[Other(p)] # <<>> /\ Take(p, 1)
      /\ turn' = turn
      /\ UNCHANGED <<prog, op, busy, result, st, sent, reset>>
  BY DEF RecvUnit
<1>2. 1 <= Len(pipe[Other(p)])
  <2>1. pipe[Other(p)] \in Streams
    BY TwoParties DEF IInv, Types
  <2> QED BY <1>1, <2>1 DEF Streams
<1>3. Len(got[p]) + 1 <= ToGet(p)
  <2>1. ToGet(p) \in Nat /\ Len(got[p]) \in Nat
    BY <1>1, ToGetIs DEF IInv
  <2> QED BY <1>1, <2>1 DEF ReadAll
<1>4. turn' \in [Party -> {"write", "read"}]
  BY <1>1, TurnKept
<1> QED BY <1>1, <1>2, <1>3, <1>4, TakeStep

\* Every step keeps the invariant, and is one that Collective allows.
LEMMA StepInv ==
    ASSUME IInv, [Next]_vars
    PROVE  IInv' /\ [ANext]_cvars
<1>1. CASE UNCHANGED vars
  <2>1. /\ prog' = prog /\ op' = op /\ busy' = busy /\ result' = result /\ st' = st
        /\ turn' = turn /\ sent' = sent /\ got' = got /\ pipe' = pipe /\ reset' = reset
    BY <1>1 DEF vars
  <2>2. st' \in [Party -> Status]
    BY <2>1 DEF IInv, Types
  <2> QED BY <2>1, <2>2, StatusStep DEF call, cvars
<1>2. CASE Listen \/ Meet
  BY <1>2, MeetingStep DEF Listen, Meet, call, cvars
<1>3. ASSUME NEW p \in Party, Enter(p) PROVE IInv' /\ [ANext]_cvars
  BY <1>3, EnterStep DEF Enter, ANext
<1>4. ASSUME NEW p \in Party, TryWrite(p) PROVE IInv' /\ [ANext]_cvars
  BY <1>4, TryWriteStep DEF TryWrite, cvars
<1>5. ASSUME NEW p \in Party, TryRead(p) PROVE IInv' /\ [ANext]_cvars
  BY <1>5, TryReadStep DEF TryRead, cvars
<1>6. ASSUME NEW p \in Party, SendUnit(p) PROVE IInv' /\ [ANext]_cvars
  BY <1>6, SendUnitStep DEF SendUnit, cvars
<1>7. ASSUME NEW p \in Party, RecvUnit(p) PROVE IInv' /\ [ANext]_cvars
  BY <1>7, RecvUnitStep DEF RecvUnit, cvars
<1>8. ASSUME NEW p \in Party, NEW status \in {"failed", "gone"}, Hangup(p, status)
      PROVE  IInv' /\ [ANext]_cvars
  BY <1>8, HangupStep DEF Hangup, cvars
<1>9. ASSUME NEW p \in Party, Leave(p) PROVE IInv' /\ [ANext]_cvars
  <2>1. ANext
    BY <1>9, LeaveAbstract DEF ANext
  <2>2. CTypeOK'
    BY <2>1, CTypeStep DEF IInv, Types
  <2> QED BY <1>9, <2>1, <2>2, LeaveStep
<1>10. ASSUME NEW p \in Party, Panic(p) \/ End(p) PROVE IInv' /\ [ANext]_cvars
  BY <1>8, <1>10 DEF Panic, End
<1>11. CASE \E p \in Party : Step(p) \/ End(p)
  BY <1>3, <1>4, <1>5, <1>6, <1>7, <1>9, <1>10, <1>11 DEF Step
<1> QED BY <1>1, <1>2, <1>11 DEF Next

\* What is on the way is, in order, what the one side has written and the
\* other has not read, as long as the reader lives; no call leaves anything
\* behind for the next one.
THEOREM TwoPartyInv == Spec => []IInv
<1>1. Init => IInv
  BY InitInv
<1>2. IInv /\ [Next]_vars => IInv'
  BY StepInv
<1> QED BY <1>1, <1>2, PTL DEF Spec

\* The types, and the bounds on what is written, read and on the way.
THEOREM TwoPartyTypeOK == Spec => []TypeOK
<1>1. IInv => TypeOK
  <2> SUFFICES ASSUME IInv PROVE TypeOK
    OBVIOUS
  <2>1. ASSUME NEW p \in Party
        PROVE  /\ sent[p] \in 0 .. (IF busy[p] THEN ToSend(p) ELSE 0)
               /\ Len(got[p]) \in 0 .. (IF busy[p] THEN ToGet(p) ELSE 0)
               /\ Len(pipe[p]) \in 0 .. Cap
    <3>1. Len(pipe[p]) \in 0 .. Cap
      BY CapAssumption DEF IInv, Types, Streams, Bounded
    <3>2. CASE ~ busy[p]
      BY <3>1, <3>2 DEF IInv, Fresh
    <3>3. CASE busy[p]
      <4>1. sent[p] \in Nat /\ sent[p] <= ToSend(p)
        BY <3>3 DEF IInv, Types, InCall
      <4>2. ToSend(p) \in Nat
        BY <3>3, ToSendIs, CurrentCall, WireShape DEF IInv, Types
      <4>3. Len(got[p]) \in 0 .. ToGet(p)
        BY <3>3, ToGetIs DEF IInv
      <4> QED BY <3>1, <3>3, <4>1, <4>2, <4>3
    <3> QED BY <3>2, <3>3
  <2> QED BY <2>1 DEF IInv, Types, TypeOK
<1> QED BY <1>1, TwoPartyInv, PTL

\* The calls over the stream implement those of Collective: a call returns
\* the message of this very call, whole and without its header, and only after
\* the other party has made it, whoever ends when.
THEOREM TwoPartyKeepsPromise == Spec => KeepsPromise
<1>1. Init => AInit
  BY DEF Init
<1>2. IInv /\ [Next]_vars => [ANext]_cvars
  BY StepInv
<1> QED BY <1>1, <1>2, TwoPartyInv, PTL DEF Spec, KeepsPromise, ASpec
=============================================================================
