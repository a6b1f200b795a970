---------------------------- MODULE RoundsProofs ----------------------------
(***************************************************************************)
(* The collective calls over bounded streams and a bounded pool of workers *)
(* keep the promise of Collective, for every number of parties, every size *)
(* of the buffers and of the pool, and every program.                      *)
(*                                                                         *)
(* The streams carry no boundaries, so the invariant says what is in them: *)
(* what is on the way from p to q is, in order, exactly what the calls of  *)
(* p have written for q and the calls of q have not read.                  *)
(***************************************************************************)
EXTENDS Rounds, FiniteSetTheorems, TLAPS

-----------------------------------------------------------------------------
(* What follows from the promise of Collective alone.                      *)

CInv == CTypeOK /\ InStep

LEMMA ProgramsAreSequences ==
    ASSUME CTypeOK
    PROVE  Len(prog) \in Nat
BY ProgramsAssumption DEF CTypeOK

\* A party that has entered a call has done so for good.
LEMMA EnteredStays ==
    ASSUME CTypeOK, ANext, NEW q \in Party, NEW k \in Nat, Entered(q, k)
    PROVE  Entered(q, k)'
<1>1. PICK p \in Party : AEnter(p) \/ ALeave(p)
  BY DEF ANext
<1>2. /\ op \in [Party -> 1 .. Len(prog) + 1] /\ busy \in [Party -> BOOLEAN]
      /\ op[q] \in Nat
  BY ProgramsAreSequences DEF CTypeOK
<1>3. CASE AEnter(p)
  BY <1>2, <1>3 DEF AEnter, Entered
<1>4. CASE ALeave(p)
  <2>1. op' = [op EXCEPT ![p] = @ + 1] /\ busy' = [busy EXCEPT ![p] = FALSE]
    BY <1>4 DEF ALeave
  <2>2. CASE q = p
    <3>1. op'[q] = op[q] + 1
      BY <1>2, <2>1, <2>2
    <3>2. op[q] > k \/ op[q] = k
      BY DEF Entered
    <3> QED BY <1>2, <3>1, <3>2 DEF Entered
  <2>3. CASE q # p
    BY <1>2, <2>1, <2>3 DEF Entered
  <2> QED BY <2>2, <2>3
<1> QED BY <1>1, <1>3, <1>4

LEMMA CTypeStep ==
    ASSUME CTypeOK, [ANext]_cvars
    PROVE  CTypeOK'
<1>1. Len(prog) \in Nat
  BY ProgramsAreSequences
<1>2. CASE UNCHANGED cvars
  BY <1>2 DEF cvars, CTypeOK
<1>3. ASSUME NEW p \in Party, AEnter(p) PROVE CTypeOK'
  BY <1>3 DEF AEnter, CTypeOK
<1>4. ASSUME NEW p \in Party, ALeave(p) PROVE CTypeOK'
  <2>1. /\ op' = [op EXCEPT ![p] = @ + 1] /\ busy' = [busy EXCEPT ![p] = FALSE]
        /\ prog' = prog /\ busy[p]
    BY <1>4 DEF ALeave
  <2>2. op[p] \in 1 .. Len(prog)
    BY <1>1, <2>1 DEF CTypeOK
  <2>3. op' \in [Party -> 1 .. Len(prog) + 1]
    BY <1>1, <2>1, <2>2 DEF CTypeOK
  <2>4. \A q \in Party : busy'[q] => op'[q] <= Len(prog)
    BY <2>1 DEF CTypeOK
  <2> QED BY <2>1, <2>3, <2>4 DEF CTypeOK
<1> QED BY <1>2, <1>3, <1>4 DEF ANext

LEMMA InStepStep ==
    ASSUME CTypeOK, CTypeOK', InStep, [ANext]_cvars
    PROVE  InStep'
<1>1. CASE UNCHANGED cvars
  BY <1>1 DEF cvars, InStep, Entered, Senders
<1>2. CASE ANext
  <2>1. PICK p \in Party : AEnter(p) \/ ALeave(p)
    BY <1>2 DEF ANext
  <2>2. prog' = prog /\ op \in [Party -> 1 .. Len(prog) + 1] /\ Len(prog) \in Nat
    BY <2>1, ProgramsAreSequences DEF AEnter, ALeave, CTypeOK
  <2> SUFFICES ASSUME NEW a \in Party, NEW k \in 1 .. op'[a] - 1,
                      NEW q \in Senders(a, prog[k])
               PROVE  Entered(q, k)'
    BY <2>2 DEF InStep, Senders
  <2>3. q \in Party /\ k \in Nat
    <3>1. k \in Nat
      BY <2>2
    <3>2. prog \in Seq(Call) /\ op'[a] \in 1 .. Len(prog) + 1
      BY <2>2, ProgramsAssumption DEF CTypeOK
    <3>3. prog[k] \in Call
      BY <2>2, <3>1, <3>2
    <3>4. prog[k].kind \in Kind
      BY <3>3 DEF Call
    <3> QED BY <3>1, <3>4, NAssumption DEF Senders, Party, King, Kind
  <2>4. CASE k \in 1 .. op[a] - 1
    <3>1. Entered(q, k)
      BY <2>4 DEF InStep
    <3> QED BY <1>2, <2>3, <3>1, EnteredStays
  <2>5. CASE k \notin 1 .. op[a] - 1
    <3>1. ALeave(p) /\ a = p /\ k = op[p]
      <4>1. op'[a] # op[a]
        BY <2>5
      <4>2. ALeave(p)
        BY <2>1, <4>1 DEF AEnter
      <4>3. op' = [op EXCEPT ![p] = @ + 1]
        BY <4>2 DEF ALeave
      <4>4. a = p /\ op'[a] = op[a] + 1
        BY <2>2, <4>1, <4>3
      <4> QED BY <2>2, <2>5, <4>2, <4>4
    <3>2. Entered(q, k)
      BY <3>1 DEF ALeave
    <3> QED BY <1>2, <2>3, <3>2, EnteredStays
  <2> QED BY <2>4, <2>5
<1> QED BY <1>1, <1>2

\* A call that returned what others sent was made by all of them.
THEOREM CallsInStep == ASpec => []InStep
<1>1. AInit => CInv
  <2> SUFFICES ASSUME AInit PROVE CInv
    OBVIOUS
  <2>1. Len(prog) \in Nat
    BY ProgramsAssumption DEF AInit
  <2>2. CTypeOK
    BY <2>1 DEF AInit, CTypeOK
  <2>3. InStep
    BY DEF AInit, InStep
  <2> QED BY <2>2, <2>3 DEF CInv
<1>2. CInv /\ [ANext]_cvars => CInv'
  BY CTypeStep, InStepStep DEF CInv
<1>3. CInv => InStep
  BY DEF CInv
<1> QED BY <1>1, <1>2, <1>3, PTL DEF ASpec

-----------------------------------------------------------------------------
(* The streams and the places of their readers and writers.                *)

Header(k) == IF prog[k].kind = "from_king" THEN 1 ELSE 0

\* In call k, p sends to q.
Carries(p, q, k) == p \in Senders(q, prog[k])

\* All that p ever sends to q.
Units(p, q) ==
    {u \in Nat \X Int : /\ u[1] \in 1 .. Len(prog)
                        /\ Carries(p, q, u[1])
                        /\ u[2] + Header(u[1]) \in 1 .. Len(Message(u[1]))}

Sent(p, q, u) ==
    \/ u[1] < op[p]
    \/ u[1] = op[p] /\ busy[p] /\ u[2] + Header(u[1]) <= wrote[p][q]

Taken(p, q, u) ==
    \/ u[1] < op[q]
    \/ u[1] = op[q] /\ busy[q] /\ u[2] + Header(u[1]) <= Len(got[q][p])

Before(u, v) == u[1] < v[1] \/ (u[1] = v[1] /\ u[2] < v[2])

LinkOK(p, q) ==
    /\ \A u \in Units(p, q) : Taken(p, q, u) => Sent(p, q, u)
    /\ \A j \in 1 .. Len(pipe[p][q]) :
         /\ pipe[p][q][j] \in Units(p, q)
         /\ Sent(p, q, pipe[p][q][j]) /\ ~ Taken(p, q, pipe[p][q][j])
    /\ \A u \in Units(p, q) :
         Sent(p, q, u) /\ ~ Taken(p, q, u) =>
           \E j \in 1 .. Len(pipe[p][q]) : pipe[p][q][j] = u
    /\ \A i, j \in 1 .. Len(pipe[p][q]) :
         i < j => Before(pipe[p][q][i], pipe[p][q][j])

Streams == Seq(Nat \X Int)

Types ==
    /\ CTypeOK
    /\ started \in [Party -> SUBSET Party]
    /\ wrote \in [Party -> [Party -> Nat]]
    /\ got \in [Party -> [Party -> Streams]]
    /\ pipe \in [Party -> [Party -> Streams]]

\* Outside of a call, nothing is begun.
Fresh ==
    \A p \in Party : ~ busy[p] =>
        /\ started[p] = {}
        /\ \A q \in Party : wrote[p][q] = 0 /\ got[p][q] = <<>>

\* What p has written and read in its call: never more than the message of
\* this call, and never anything else.
GotOK(p, q) ==
    IF Carries(q, p, op[p])
    THEN /\ Len(got[p][q]) <= Len(Message(op[p]))
         /\ \A i \in 1 .. Len(got[p][q]) : got[p][q][i] = <<op[p], i - Header(op[p])>>
    ELSE got[p][q] = <<>>

InCall ==
    \A p, q \in Party : busy[p] =>
        wrote[p][q] <= ToWrite(p, q) /\ GotOK(p, q)

Links == \A p, q \in Party : LinkOK(p, q)

Bounded ==
    /\ \A p, q \in Party : Len(pipe[p][q]) <= Cap
    /\ \A p \in Party : busy[p] => Cardinality(started[p] \cap Unfinished(p)) <= Workers

IInv == Types /\ Fresh /\ InCall /\ Links /\ Bounded

-----------------------------------------------------------------------------
(* Calls and their messages.                                               *)

LEMMA CallType ==
    ASSUME CTypeOK, NEW k \in 1 .. Len(prog)
    PROVE  /\ prog[k] \in Call
           /\ prog[k].kind \in Kind /\ prog[k].len \in Nat \ {0}
<1>1. prog \in Seq(Call)
  BY ProgramsAssumption DEF CTypeOK
<1>2. prog[k] \in Call
  BY <1>1
<1> QED BY <1>2 DEF Call

LEMMA MessageShape ==
    ASSUME CTypeOK, NEW k \in 1 .. Len(prog)
    PROVE  /\ Header(k) \in {0, 1}
           /\ Len(Message(k)) = prog[k].len + Header(k)
           /\ Len(Message(k)) \in Nat \ {0}
           /\ \A i \in 1 .. Len(Message(k)) : Message(k)[i] = <<k, i - Header(k)>>
           /\ Message(k) \in Streams
<1>1. prog[k].len \in Nat \ {0} /\ Len(prog) \in Nat /\ k \in Nat
  BY CallType, ProgramsAreSequences
<1>2. Header(k) \in {0, 1}
  BY DEF Header
<1>3. Message(k) = [i \in 1 .. prog[k].len + Header(k) |-> <<k, i - Header(k)>>]
  BY DEF Message, Header
<1>4. prog[k].len + Header(k) \in Nat \ {0}
  BY <1>1, <1>2
<1> DEFINE n == prog[k].len + Header(k)
<1>5. \A i \in 1 .. n : <<k, i - Header(k)>> \in Nat \X Int
  BY <1>1, <1>2, <1>4
<1> HIDE DEF n
<1>6. n \in Nat \ {0} /\ Message(k) = [i \in 1 .. n |-> <<k, i - Header(k)>>]
  BY <1>3, <1>4 DEF n
<1>7. Message(k) \in [1 .. n -> Nat \X Int]
  BY <1>5, <1>6
<1>8. Message(k) \in Streams /\ Len(Message(k)) = n
  BY <1>6, <1>7 DEF Streams
<1> QED BY <1>2, <1>6, <1>8 DEF n

LEMMA SendersAreOthers ==
    ASSUME CTypeOK, NEW k \in 1 .. Len(prog), NEW q \in Party
    PROVE  Senders(q, prog[k]) \subseteq Party \ {q}
<1>1. prog[k].kind \in Kind
  BY CallType
<1>2. King \in Party
  BY NAssumption DEF King, Party
<1> QED BY <1>1, <1>2 DEF Senders, Kind

LEMMA CurrentCall ==
    ASSUME CTypeOK, NEW p \in Party, busy[p]
    PROVE  op[p] \in 1 .. Len(prog) /\ op[p] \in Nat /\ Len(prog) \in Nat
BY ProgramsAreSequences DEF CTypeOK

LEMMA ToWriteIs ==
    ASSUME CTypeOK, NEW p \in Party, NEW q \in Party, busy[p]
    PROVE  ToWrite(p, q) = IF Carries(p, q, op[p]) THEN Len(Message(op[p])) ELSE 0
<1>1. op[p] \in 1 .. Len(prog)
  BY CurrentCall
<1>2. Senders(q, Current(p)) \subseteq Party \ {q}
  BY <1>1, SendersAreOthers DEF Current
<1>3. q \in Receivers(p, Current(p)) <=> Carries(p, q, op[p])
  BY <1>2 DEF Receivers, Carries, Current
<1> QED BY <1>3 DEF ToWrite

\* A reader knows when it has all: by the length it would send, or by the
\* header, which it has read by then.
LEMMA ToReadIs ==
    ASSUME Types, InCall, NEW p \in Party, NEW q \in Party, busy[p]
    PROVE  /\ ToRead(p, q) \in Nat
           /\ Len(got[p][q]) \in 0 .. ToRead(p, q)
           /\ ~ Carries(q, p, op[p]) => ToRead(p, q) = 0
           /\ Carries(q, p, op[p]) =>
                (Len(got[p][q]) < ToRead(p, q) <=> Len(got[p][q]) < Len(Message(op[p])))
<1> DEFINE k == op[p]
           g == got[p][q]
<1>1. k \in 1 .. Len(prog) /\ k \in Nat
  BY CurrentCall DEF Types
<1>2. /\ prog[k].kind \in Kind /\ prog[k].len \in Nat \ {0}
      /\ Len(Message(k)) = prog[k].len + Header(k)
  BY <1>1, CallType, MessageShape DEF Types
<1>3. g \in Streams /\ Len(g) \in Nat
  BY DEF Types, Streams
<1>4. GotOK(p, q)
  BY DEF InCall
<1>5. CASE ~ Carries(q, p, k)
  BY <1>4, <1>5 DEF ToRead, Carries, Current, GotOK
<1>6. CASE Carries(q, p, k) /\ prog[k].kind # "from_king"
  <2>1. ToRead(p, q) = prog[k].len /\ Header(k) = 0
    BY <1>6 DEF ToRead, Carries, Current, Header
  <2> QED BY <1>2, <1>3, <1>4, <1>6, <2>1 DEF GotOK
<1>7. CASE Carries(q, p, k) /\ prog[k].kind = "from_king"
  <2>1. Header(k) = 1
    BY <1>7 DEF Header
  <2>2. CASE g = <<>>
    <3>1. ToRead(p, q) = 1
      BY <1>7, <2>2 DEF ToRead, Carries, Current
    <3> QED BY <1>2, <1>7, <2>1, <2>2, <3>1
  <2>3. CASE g # <<>>
    <3>1. Len(g) \in Nat \ {0} /\ Head(g) = g[1]
      BY <1>3, <2>3 DEF Streams
    <3>2. g[1] = <<k, 1 - Header(k)>>
      BY <1>4, <1>7, <3>1 DEF GotOK
    <3>3. Head(g)[1] = k /\ Head(g)[2] = 0
      BY <2>1, <3>1, <3>2
    <3>4. ToRead(p, q) = 1 + prog[k].len
      BY <1>7, <2>3, <3>3 DEF ToRead, Carries, Current
    <3> QED BY <1>2, <1>3, <1>4, <1>7, <2>1, <3>4 DEF GotOK
  <2> QED BY <2>2, <2>3
<1> QED BY <1>5, <1>6, <1>7

LEMMA UnitType ==
    ASSUME CTypeOK, NEW p, NEW q, NEW u \in Units(p, q)
    PROVE  /\ u = <<u[1], u[2]>> /\ u[1] \in Nat /\ u[2] \in Int
           /\ u[1] \in 1 .. Len(prog) /\ Carries(p, q, u[1])
           /\ Header(u[1]) \in {0, 1}
           /\ u[2] + Header(u[1]) \in 1 .. Len(Message(u[1]))
BY MessageShape DEF Units

-----------------------------------------------------------------------------
(* Steps that leave a link or a party alone.                               *)

LEMMA ProgramKept ==
    ASSUME prog' = prog
    PROVE  /\ \A k : Header(k)' = Header(k) /\ Message(k)' = Message(k)
           /\ \A p, q, k : Carries(p, q, k)' = Carries(p, q, k)
           /\ \A p, q : Units(p, q)' = Units(p, q)
<1>1. \A k : Header(k)' = Header(k) /\ Message(k)' = Message(k)
  BY DEF Header, Message
<1>2. \A p, q, k : Carries(p, q, k)' = Carries(p, q, k)
  BY DEF Carries, Senders
<1>3. \A p, q : Units(p, q)' = Units(p, q)
  BY <1>1, <1>2 DEF Units
<1> QED BY <1>1, <1>2, <1>3

LEMMA LinkKept ==
    ASSUME NEW p \in Party, NEW q \in Party, LinkOK(p, q), prog' = prog,
           pipe'[p][q] = pipe[p][q],
           \A u \in Units(p, q) : Sent(p, q, u)' <=> Sent(p, q, u),
           \A u \in Units(p, q) : Taken(p, q, u)' <=> Taken(p, q, u)
    PROVE  LinkOK(p, q)'
<1>1. Units(p, q)' = Units(p, q)
  BY ProgramKept
<1>2. \A k : Header(k)' = Header(k)
  BY ProgramKept
<1> DEFINE s == pipe[p][q]
<1>3. \A j \in 1 .. Len(s) : s[j] \in Units(p, q) /\ Sent(p, q, s[j]) /\ ~ Taken(p, q, s[j])
  BY DEF LinkOK
<1>4. \A j \in 1 .. Len(s) : LET u == s[j] IN
         /\ u[1] < op'[p] \/ (u[1] = op'[p] /\ busy'[p] /\ u[2] + Header(u[1]) <= wrote'[p][q])
         /\ ~ (u[1] < op'[q] \/ (u[1] = op'[q] /\ busy'[q] /\ u[2] + Header(u[1]) <= Len(got'[q][p])))
  BY <1>2, <1>3 DEF Sent, Taken
<1>5. \A u \in Units(p, q) : Taken(p, q, u)' => Sent(p, q, u)'
  BY DEF LinkOK
<1>6. \A u \in Units(p, q) : Sent(p, q, u)' /\ ~ Taken(p, q, u)' =>
         \E j \in 1 .. Len(s) : s[j] = u
  BY DEF LinkOK
<1>7. \A i, j \in 1 .. Len(s) : i < j => Before(s[i], s[j])
  BY DEF LinkOK
<1> HIDE DEF s
<1>8. pipe'[p][q] = s
  BY DEF s
<1>9. \A j \in 1 .. Len(s) : Sent(p, q, pipe[p][q][j])' /\ ~ Taken(p, q, pipe[p][q][j])'
  BY <1>2, <1>4, <1>8 DEF Sent, Taken
<1> QED BY <1>1, <1>3, <1>5, <1>6, <1>7, <1>8, <1>9 DEF LinkOK, Before

\* A party outside of a call, and one that has not moved, keep their part.
LEMMA InCallKept ==
    ASSUME NEW p \in Party, NEW q \in Party, prog' = prog, op'[p] = op[p],
           wrote'[p][q] = wrote[p][q], got'[p][q] = got[p][q],
           wrote[p][q] <= ToWrite(p, q), GotOK(p, q)
    PROVE  (wrote[p][q] <= ToWrite(p, q))' /\ GotOK(p, q)'
<1>1. \A k : Header(k)' = Header(k) /\ Message(k)' = Message(k)
  BY ProgramKept
<1>2. Carries(q, p, op[p])' = Carries(q, p, op[p])
  BY DEF Carries, Senders
<1>3. ToWrite(p, q)' = ToWrite(p, q)
  BY <1>1 DEF ToWrite, Receivers, Current, Senders
<1> QED BY <1>1, <1>2, <1>3 DEF GotOK

LEMMA UnfinishedKept ==
    ASSUME NEW p \in Party, prog' = prog, op'[p] = op[p],
           wrote'[p] = wrote[p], got'[p] = got[p]
    PROVE  Unfinished(p)' = Unfinished(p)
<1>1. \A k : Message(k)' = Message(k)
  BY ProgramKept
<1>2. Current(p)' = Current(p)
  BY DEF Current
<1>3. Peers(p)' = Peers(p)
  BY <1>2 DEF Peers, Receivers, Senders
<1>4. \A q : ToWrite(p, q)' = ToWrite(p, q) /\ ToRead(p, q)' = ToRead(p, q)
  BY <1>1, <1>2 DEF ToWrite, ToRead, Receivers, Senders
<1> QED BY <1>3, <1>4 DEF Unfinished, WriteDone, ReadDone

LEMMA PartsAreFinite ==
    ASSUME NEW S \in SUBSET Party
    PROVE  /\ IsFiniteSet(S) /\ Cardinality(S) \in Nat
           /\ \A T \in SUBSET S : Cardinality(T) <= Cardinality(S)
<1>1. IsFiniteSet(Party)
  BY FS_Interval, NAssumption DEF Party
<1>2. IsFiniteSet(S)
  BY <1>1, FS_Subset
<1> QED BY <1>2, FS_Subset, FS_CardinalityType

-----------------------------------------------------------------------------
(* The beginning, entering a call, and the workers.                        *)

LEMMA InitInv == Init => IInv
<1> SUFFICES ASSUME Init PROVE IInv
  OBVIOUS
<1>1. CTypeOK
  <2>1. Len(prog) \in Nat
    BY ProgramsAssumption DEF Init, AInit
  <2> QED BY <2>1 DEF Init, AInit, CTypeOK
<1>2. <<>> \in Streams
  BY DEF Streams
<1>3. Types
  BY <1>1, <1>2 DEF Init, Types
<1>4. \A p \in Party : busy[p] = FALSE /\ op[p] = 1
  BY DEF Init, AInit
<1>5. Fresh /\ InCall
  BY <1>4 DEF Init, Fresh, InCall
<1>6. Links
  <2> SUFFICES ASSUME NEW p \in Party, NEW q \in Party PROVE LinkOK(p, q)
    BY DEF Links
  <2>1. pipe[p][q] = <<>>
    BY DEF Init
  <2>2. \A u \in Units(p, q) : ~ Sent(p, q, u) /\ ~ Taken(p, q, u)
    BY <1>1, <1>4, UnitType DEF Sent, Taken
  <2> QED BY <2>1, <2>2 DEF LinkOK
<1>7. Bounded
  <2>1. \A p, q \in Party : pipe[p][q] = <<>>
    BY DEF Init
  <2> QED BY <1>4, <2>1, CapAssumption DEF Bounded
<1> QED BY <1>3, <1>5, <1>6, <1>7 DEF IInv

LEMMA EnterStep ==
    ASSUME IInv, NEW p \in Party, Enter(p)
    PROVE  IInv'
<1> USE DEF IInv
<1>1. /\ ~ busy[p] /\ busy' = [busy EXCEPT ![p] = TRUE]
      /\ prog' = prog /\ op' = op /\ result' = result
      /\ started' = started /\ wrote' = wrote /\ got' = got /\ pipe' = pipe
  BY DEF Enter, AEnter
<1>2. CTypeOK'
  <2>1. ANext
    BY DEF Enter, ANext
  <2> QED BY <2>1, CTypeStep DEF Types
<1>3. Types'
  BY <1>1, <1>2 DEF Types
<1>4. \A a \in Party : busy'[a] = (a = p \/ busy[a])
  BY <1>1 DEF Types, CTypeOK
<1>5. Fresh'
  BY <1>1, <1>4 DEF Fresh
<1>6. \A q \in Party : wrote[p][q] = 0 /\ got[p][q] = <<>> /\ started[p] = {}
  BY <1>1 DEF Fresh
<1>7. InCall'
  <2> SUFFICES ASSUME NEW a \in Party, NEW b \in Party, busy'[a]
               PROVE  (wrote[a][b] <= ToWrite(a, b))' /\ GotOK(a, b)'
    BY DEF InCall
  <2>1. CASE a # p
    BY <1>1, <1>4, <2>1, InCallKept DEF InCall
  <2>2. CASE a = p
    <3>1. op[p] \in 1 .. Len(prog)
      BY <1>1, <1>2, <1>4, CurrentCall DEF CTypeOK
    <3>2. ToWrite(p, b) \in Nat
      BY <3>1, MessageShape DEF ToWrite, Types
    <3>3. Len(got[p][b]) = 0 /\ Len(Message(op[p])) \in Nat
      BY <1>6, <3>1, MessageShape DEF Types
    <3>4. wrote[p][b] <= ToWrite(p, b)
      BY <1>6, <3>2
    <3>5. GotOK(p, b)
      BY <1>6, <3>3 DEF GotOK
    <3> QED BY <1>1, <2>2, <3>4, <3>5, InCallKept
  <2> QED BY <2>1, <2>2
<1>8. Links'
  <2> SUFFICES ASSUME NEW a \in Party, NEW b \in Party PROVE LinkOK(a, b)'
    BY DEF Links
  <2>1. \A u \in Units(a, b) : /\ u[2] + Header(u[1]) \in Nat \ {0}
                               /\ Header(u[1])' = Header(u[1])
    BY <1>1, UnitType, MessageShape, ProgramKept DEF Types
  <2>2. \A u \in Units(a, b) : Sent(a, b, u)' <=> Sent(a, b, u)
    BY <1>1, <1>4, <1>6, <2>1 DEF Sent
  <2>3. \A u \in Units(a, b) : Taken(a, b, u)' <=> Taken(a, b, u)
    <3>1. got[p][a] = <<>> => Len(got[p][a]) = 0
      OBVIOUS
    <3> QED BY <1>1, <1>4, <1>6, <2>1, <3>1 DEF Taken
  <2> QED BY <1>1, <2>2, <2>3, LinkKept DEF Links
<1>9. Bounded'
  <2>1. \A a \in Party : Unfinished(a)' = Unfinished(a)
    BY <1>1, UnfinishedKept
  <2>2. Cardinality(started[p] \cap Unfinished(p)) <= Workers
    <3>1. started[p] \cap Unfinished(p) = {}
      BY <1>6
    <3> QED BY <3>1, FS_EmptySet, WorkersAssumption
  <2> QED BY <1>1, <1>4, <2>1, <2>2 DEF Bounded
<1> QED BY <1>3, <1>5, <1>7, <1>8, <1>9

LEMMA BeginStep ==
    ASSUME IInv, NEW p \in Party, NEW q \in Party, Begin(p, q)
    PROVE  IInv'
<1> USE DEF IInv
<1>1. /\ busy[p] /\ q \in Unfinished(p) \ started[p]
      /\ Cardinality(started[p] \cap Unfinished(p)) < Workers
      /\ started' = [started EXCEPT ![p] = @ \cup {q}]
      /\ prog' = prog /\ op' = op /\ busy' = busy
      /\ wrote' = wrote /\ got' = got /\ pipe' = pipe
  BY DEF Begin
<1>2. started' \in [Party -> SUBSET Party]
  BY <1>1 DEF Types
<1>3. Types'
  BY <1>1, <1>2 DEF Types, CTypeOK
<1>4. Fresh'
  BY <1>1 DEF Fresh, Types
<1>5. InCall'
  BY <1>1, InCallKept DEF InCall
<1>6. Links'
  <2> SUFFICES ASSUME NEW a \in Party, NEW b \in Party PROVE LinkOK(a, b)'
    BY DEF Links
  <2>1. \A k : Header(k)' = Header(k)
    BY <1>1, ProgramKept
  <2> QED BY <1>1, <2>1, LinkKept DEF Links, Sent, Taken
<1>7. Bounded'
  <2>1. \A a \in Party : Unfinished(a)' = Unfinished(a)
    BY <1>1, UnfinishedKept
  <2> DEFINE S == started[p] \cap Unfinished(p)
  <2>2. S \in SUBSET Party
    BY DEF Types
  <2>3. started'[p] \cap Unfinished(p) = S \cup {q}
    BY <1>1 DEF Types
  <2>4. Cardinality(S \cup {q}) <= Workers
    <3>1. q \notin S /\ IsFiniteSet(S) /\ Cardinality(S) \in Nat
      BY <1>1, <2>2, PartsAreFinite
    <3>2. Cardinality(S \cup {q}) = Cardinality(S) + 1
      BY <3>1, FS_AddElement
    <3> QED BY <1>1, <3>1, <3>2, WorkersAssumption
  <2>5. \A a \in Party : a # p => started'[a] = started[a]
    BY <1>1 DEF Types
  <2> HIDE DEF S
  <2>6. \A a \in Party : busy[a] => Cardinality(started'[a] \cap Unfinished(a)) <= Workers
    BY <2>3, <2>4, <2>5 DEF Bounded
  <2> QED BY <1>1, <2>1, <2>6 DEF Bounded
<1> QED BY <1>3, <1>4, <1>5, <1>6, <1>7

-----------------------------------------------------------------------------
(* Writing: the next unit of the message goes behind everything sent.      *)

LEMMA WriteLink ==
    ASSUME IInv, NEW p \in Party, NEW q \in Party, Write(p, q)
    PROVE  LinkOK(p, q)' /\ Carries(p, q, op[p]) /\ p # q
           /\ wrote[p][q] < Len(Message(op[p]))
           /\ Message(op[p])[wrote[p][q] + 1] \in Nat \X Int
<1> USE DEF IInv
<1>1. /\ busy[p] /\ ~ WriteDone(p, q)
      /\ wrote' = [wrote EXCEPT ![p][q] = @ + 1]
      /\ pipe' = [pipe EXCEPT ![p][q] = Append(@, Message(op[p])[wrote[p][q] + 1])]
      /\ prog' = prog /\ op' = op /\ busy' = busy /\ got' = got
  BY DEF Write
<1> DEFINE k == op[p]
           n == wrote[p][q] + 1
           u == <<k, n - Header(k)>>
           s == pipe[p][q]
<1>2. CTypeOK /\ k \in 1 .. Len(prog) /\ k \in Nat
  BY <1>1, CurrentCall DEF Types
<1>3. n \in Nat \ {0} /\ s \in Streams /\ wrote[p][q] = n - 1 /\ wrote[p][q] \in Nat
  BY DEF Types
<1>4. Carries(p, q, k) /\ n <= Len(Message(k))
  <2>1. ToWrite(p, q) = IF Carries(p, q, k) THEN Len(Message(k)) ELSE 0
    BY <1>1, <1>2, ToWriteIs
  <2>2. Len(Message(k)) \in Nat
    BY <1>2, MessageShape
  <2>3. ~ (wrote[p][q] >= ToWrite(p, q))
    BY <1>1 DEF WriteDone
  <2> QED BY <1>3, <2>1, <2>2, <2>3
<1>5. Header(k) \in {0, 1} /\ Len(Message(k)) \in Nat /\ Message(k)[n] = u
  BY <1>2, <1>3, <1>4, MessageShape
<1>6. u \in Units(p, q) /\ u[1] = k /\ u[2] + Header(k) = n
  BY <1>2, <1>3, <1>4, <1>5 DEF Units
<1>7. p # q
  BY <1>2, <1>4, SendersAreOthers DEF Carries
<1>8. wrote'[p][q] = n /\ pipe'[p][q] = Append(s, u)
  BY <1>1, <1>5 DEF Types
<1>9. /\ Units(p, q)' = Units(p, q)
      /\ \A j : Header(j)' = Header(j)
  BY <1>1, ProgramKept
<1>10. LinkOK(p, q)
  BY DEF Links
<1> HIDE DEF s
<1>11. \A v \in Units(p, q) : Sent(p, q, v)' <=> (Sent(p, q, v) \/ v = u)
  <2> SUFFICES ASSUME NEW v \in Units(p, q)
               PROVE  Sent(p, q, v)' <=> (Sent(p, q, v) \/ v = u)
    OBVIOUS
  <2>1. v = <<v[1], v[2]>> /\ v[2] \in Int /\ v[1] \in Nat /\ Header(v[1]) \in {0, 1}
    BY <1>2, UnitType
  <2>2. Sent(p, q, v)' <=> v[1] < k \/ (v[1] = k /\ v[2] + Header(k) <= n)
    BY <1>1, <1>8, <1>9 DEF Sent
  <2>3. Sent(p, q, v) <=> v[1] < k \/ (v[1] = k /\ v[2] + Header(k) <= n - 1)
    <3>1. v[1] = k => (v[2] + Header(k) <= wrote[p][q] <=> v[2] + Header(k) <= n - 1)
      BY <1>3
    <3>2. Sent(p, q, v) <=> v[1] < k \/ (v[1] = k /\ v[2] + Header(k) <= wrote[p][q])
      BY <1>1 DEF Sent
    <3> QED BY <3>1, <3>2
  <2>4. v = u <=> v[1] = k /\ v[2] + Header(k) = n
    BY <1>3, <1>5, <2>1
  <2> QED BY <1>3, <1>5, <2>1, <2>2, <2>3, <2>4
<1>12. \A v \in Units(p, q) : Taken(p, q, v)' <=> Taken(p, q, v)
  BY <1>1, <1>9 DEF Taken
<1>13. ~ Sent(p, q, u)
  <2>1. ~ (u[1] < op[p]) /\ u[2] + Header(u[1]) = n
    BY <1>2, <1>6
  <2> QED BY <1>3, <2>1 DEF Sent
<1>14. \A v \in Units(p, q) : Sent(p, q, v) => Before(v, u)
  <2> SUFFICES ASSUME NEW v \in Units(p, q), Sent(p, q, v) PROVE Before(v, u)
    OBVIOUS
  <2>1. v[2] \in Int /\ v[1] \in Nat
    BY <1>2, UnitType
  <2>2. v[1] < k \/ (v[1] = k /\ v[2] + Header(k) <= n - 1)
    BY <1>3 DEF Sent, Types
  <2> QED BY <1>3, <1>5, <2>1, <2>2 DEF Before
<1>15. ~ Taken(p, q, u)
  BY <1>6, <1>10, <1>13 DEF LinkOK
<1> HIDE DEF u, n, k
<1> DEFINE t == Append(s, u)
<1>16. /\ s \in Streams /\ Len(s) \in Nat /\ Len(t) = Len(s) + 1
       /\ \A j \in 1 .. Len(s) : t[j] = s[j]
       /\ t[Len(s) + 1] = u
  BY <1>3, <1>6 DEF Streams, Units
<1>17. /\ \A j \in 1 .. Len(s) : s[j] \in Units(p, q) /\ Sent(p, q, s[j]) /\ ~ Taken(p, q, s[j])
       /\ \A v \in Units(p, q) : Sent(p, q, v) /\ ~ Taken(p, q, v) =>
            \E j \in 1 .. Len(s) : s[j] = v
       /\ \A i, j \in 1 .. Len(s) : i < j => Before(s[i], s[j])
       /\ \A v \in Units(p, q) : Taken(p, q, v) => Sent(p, q, v)
  BY <1>10 DEF LinkOK, s
<1> HIDE DEF t
<1>18. \A j \in 1 .. Len(t) : t[j] \in Units(p, q)
                             /\ (t[j] = u \/ Sent(p, q, t[j])) /\ ~ Taken(p, q, t[j])
  BY <1>6, <1>15, <1>16, <1>17
<1>19. \A v \in Units(p, q) : (Sent(p, q, v) \/ v = u) /\ ~ Taken(p, q, v) =>
            \E j \in 1 .. Len(t) : t[j] = v
  <2> SUFFICES ASSUME NEW v \in Units(p, q), Sent(p, q, v) \/ v = u, ~ Taken(p, q, v)
               PROVE  \E j \in 1 .. Len(t) : t[j] = v
    OBVIOUS
  <2>1. CASE v = u
    BY <1>16, <2>1
  <2>2. CASE Sent(p, q, v)
    <3>1. PICK j \in 1 .. Len(s) : s[j] = v
      BY <1>17, <2>2
    <3> QED BY <1>16, <3>1
  <2> QED BY <2>1, <2>2
<1>20. \A i, j \in 1 .. Len(t) : i < j => Before(t[i], t[j])
  BY <1>14, <1>16, <1>17
<1>21. \A j \in 1 .. Len(t) : Sent(p, q, pipe[p][q][j])' /\ ~ Taken(p, q, pipe[p][q][j])'
  <2> SUFFICES ASSUME NEW j \in 1 .. Len(t)
               PROVE  Sent(p, q, pipe[p][q][j])' /\ ~ Taken(p, q, pipe[p][q][j])'
    OBVIOUS
  <2>1. PICK v \in Units(p, q) : v = t[j]
    BY <1>18
  <2>2. Sent(p, q, v)' /\ ~ Taken(p, q, v)'
    BY <1>11, <1>12, <1>18, <2>1
  <2>3. pipe'[p][q][j] = v
    BY <1>8, <2>1 DEF t
  <2> QED BY <2>2, <2>3 DEF Sent, Taken
<1>22. pipe'[p][q] = t
  BY <1>8 DEF t
<1>23. \A v \in Units(p, q) : Taken(p, q, v)' => Sent(p, q, v)'
  BY <1>11, <1>12, <1>17
<1>24. \A v \in Units(p, q) : Sent(p, q, v)' /\ ~ Taken(p, q, v)' =>
            \E j \in 1 .. Len(t) : t[j] = v
  BY <1>11, <1>12, <1>19
<1>25. LinkOK(p, q)'
  BY <1>9, <1>18, <1>20, <1>21, <1>22, <1>23, <1>24 DEF LinkOK, Before
<1>26. u \in Nat \X Int
  BY <1>6 DEF Units
<1> QED BY <1>3, <1>4, <1>5, <1>7, <1>25, <1>26 DEF k, n, Types

LEMMA WriteStep ==
    ASSUME IInv, NEW p \in Party, NEW q \in Party, Write(p, q)
    PROVE  IInv'
<1> USE DEF IInv
<1> DEFINE n == wrote[p][q] + 1
           u == Message(op[p])[n]
<1>1. /\ busy[p] /\ ~ WriteDone(p, q) /\ Len(pipe[p][q]) < Cap
      /\ wrote' = [wrote EXCEPT ![p][q] = n]
      /\ pipe' = [pipe EXCEPT ![p][q] = Append(@, u)]
      /\ prog' = prog /\ op' = op /\ busy' = busy /\ started' = started /\ got' = got
  BY DEF Write
<1>2. /\ LinkOK(p, q)' /\ Carries(p, q, op[p]) /\ p # q
      /\ wrote[p][q] < Len(Message(op[p])) /\ u \in Nat \X Int
  BY WriteLink
<1> HIDE DEF u
<1>3. /\ n \in Nat /\ op[p] \in 1 .. Len(prog)
      /\ \A b \in Party : wrote[p][b] \in Nat
  BY <1>1, CurrentCall DEF Types
<1>4. /\ wrote'[p][q] = n
      /\ \A a, b \in Party : (a # p \/ b # q) => wrote'[a][b] = wrote[a][b]
      /\ \A a \in Party : a # p => wrote'[a] = wrote[a]
      /\ wrote' \in [Party -> [Party -> Nat]]
  BY <1>1, <1>3 DEF Types
<1>5. /\ pipe'[p][q] = Append(pipe[p][q], u)
      /\ \A a, b \in Party : (a # p \/ b # q) => pipe'[a][b] = pipe[a][b]
  BY <1>1 DEF Types
<1>6. pipe' \in [Party -> [Party -> Streams]]
  <2>1. Append(pipe[p][q], u) \in Streams
    BY <1>2 DEF Types, Streams
  <2> QED BY <1>1, <2>1 DEF Types
<1>7. Types'
  BY <1>1, <1>4, <1>6 DEF Types, CTypeOK
<1>8. Fresh'
  BY <1>1, <1>4 DEF Fresh
<1>9. InCall'
  <2> SUFFICES ASSUME NEW a \in Party, NEW b \in Party, busy'[a]
               PROVE  (wrote[a][b] <= ToWrite(a, b))' /\ GotOK(a, b)'
    BY DEF InCall
  <2>1. CASE a # p \/ b # q
    BY <1>1, <1>4, <2>1, InCallKept DEF InCall
  <2>2. CASE a = p /\ b = q
    <3>1. CTypeOK'
      BY <1>7 DEF Types
    <3>2. ToWrite(p, q)' = Len(Message(op[p]))
      <4>1. ToWrite(p, q) = Len(Message(op[p]))
        BY <1>1, <1>2, ToWriteIs DEF Types
      <4> QED BY <1>1, <4>1, ProgramKept DEF ToWrite, Receivers, Senders, Current
    <3>3. n <= Len(Message(op[p]))
      <4>1. Len(Message(op[p])) \in Nat
        BY <1>3, MessageShape DEF Types
      <4> QED BY <1>2, <1>3, <4>1
    <3>4. GotOK(p, q)'
      <4>1. GotOK(p, q)
        BY <1>1 DEF InCall
      <4> QED BY <1>1, <4>1, ProgramKept DEF GotOK, Carries, Senders
    <3> QED BY <1>4, <2>2, <3>2, <3>3, <3>4
  <2> QED BY <2>1, <2>2
<1>10. Links'
  <2> SUFFICES ASSUME NEW a \in Party, NEW b \in Party, a # p \/ b # q
               PROVE  LinkOK(a, b)'
    BY <1>2 DEF Links
  <2>1. \A k : Header(k)' = Header(k)
    BY <1>1, ProgramKept
  <2>2. pipe'[a][b] = pipe[a][b] /\ wrote'[a][b] = wrote[a][b] /\ got' = got
    BY <1>1, <1>4, <1>5
  <2> QED BY <1>1, <2>1, <2>2, LinkKept DEF Links, Sent, Taken
<1>11. Unfinished(p)' \subseteq Unfinished(p)
  <2>1. \A b \in Party : ToWrite(p, b)' = ToWrite(p, b) /\ ToRead(p, b)' = ToRead(p, b)
    BY <1>1, ProgramKept DEF ToWrite, ToRead, Receivers, Senders, Current
  <2>2. Peers(p)' = Peers(p)
    BY <1>1 DEF Peers, Receivers, Senders, Current
  <2>3. Peers(p) \subseteq Party
    BY <1>3, SendersAreOthers DEF Peers, Receivers, Current, Types
  <2>4. \A b \in Party : WriteDone(p, b) => WriteDone(p, b)'
    <3>1. \A b \in Party : wrote'[p][b] >= wrote[p][b]
      BY <1>3, <1>4
    <3>2. \A b \in Party : ToWrite(p, b) \in Nat
      BY <1>1, <1>3, ToWriteIs, MessageShape, SMTT(30) DEF Types
    <3>3. \A b \in Party : wrote'[p][b] \in Nat
      BY <1>4
    <3> QED BY <1>3, <2>1, <3>1, <3>2, <3>3 DEF WriteDone
  <2>5. \A b \in Party : ReadDone(p, b)' <=> ReadDone(p, b)
    BY <1>1, <2>1 DEF ReadDone
  <2> QED BY <2>2, <2>3, <2>4, <2>5 DEF Unfinished
<1>12. Bounded'
  <2>1. \A a, b \in Party : Len(pipe'[a][b]) <= Cap
    <3>1. Len(Append(pipe[p][q], u)) = Len(pipe[p][q]) + 1 /\ Len(pipe[p][q]) \in Nat
      BY <1>2 DEF Types, Streams
    <3> QED BY <1>1, <1>5, <3>1, CapAssumption DEF Bounded
  <2>2. \A a \in Party : busy[a] => Cardinality(started[a] \cap Unfinished(a)') <= Workers
    <3> SUFFICES ASSUME NEW a \in Party, busy[a]
                 PROVE  Cardinality(started[a] \cap Unfinished(a)') <= Workers
      OBVIOUS
    <3>1. Unfinished(a)' \subseteq Unfinished(a)
      <4>1. CASE a # p
        BY <1>1, <1>4, <4>1, UnfinishedKept
      <4> QED BY <1>11, <4>1
    <3>2. started[a] \cap Unfinished(a) \in SUBSET Party
      BY DEF Types
    <3>3. Cardinality(started[a] \cap Unfinished(a)') \in Nat
      BY PartsAreFinite DEF Types
    <3>4. /\ Cardinality(started[a] \cap Unfinished(a)) \in Nat
          /\ Cardinality(started[a] \cap Unfinished(a)') <= Cardinality(started[a] \cap Unfinished(a))
      BY <3>1, <3>2, PartsAreFinite
    <3>5. Cardinality(started[a] \cap Unfinished(a)) <= Workers
      BY DEF Bounded
    <3> QED BY <3>3, <3>4, <3>5, WorkersAssumption
  <2> QED BY <1>1, <2>1, <2>2 DEF Bounded
<1> QED BY <1>7, <1>8, <1>9, <1>10, <1>12

-----------------------------------------------------------------------------
(* Reading: the head of the stream is the next unit of the message.        *)

LEMMA WithoutHead ==
    ASSUME NEW s \in Streams, s # <<>>
    PROVE  /\ Len(s) \in Nat \ {0} /\ Head(s) = s[1]
           /\ Tail(s) \in Streams /\ Len(Tail(s)) = Len(s) - 1
           /\ \A j \in 1 .. Len(s) - 1 : Tail(s)[j] = s[j + 1]
<1>1. s \in Seq(Nat \X Int)
  BY DEF Streams
<1>2. Len(s) \in Nat \ {0} /\ Head(s) = s[1]
  BY <1>1
<1>3. Tail(s) \in Seq(Nat \X Int) /\ Len(Tail(s)) = Len(s) - 1
  BY <1>1, <1>2
<1>4. \A j \in 1 .. Len(s) - 1 : Tail(s)[j] = s[j + 1]
  BY <1>1, <1>2
<1> QED BY <1>2, <1>3, <1>4 DEF Streams

\* What is sent before a unit that was sent, was sent.
LEMMA SentInOrder ==
    ASSUME Types, NEW p \in Party, NEW q \in Party,
           NEW u \in Units(p, q), NEW v \in Units(p, q), Before(u, v), Sent(p, q, v)
    PROVE  Sent(p, q, u)
<1>1. /\ u[1] \in Nat /\ v[1] \in Nat /\ u[2] \in Int /\ v[2] \in Int
      /\ Header(u[1]) \in {0, 1} /\ Header(v[1]) \in {0, 1}
      /\ v[1] \in 1 .. Len(prog)
  BY UnitType DEF Types
<1>2. op[p] \in Nat /\ wrote[p][q] \in Nat
  BY ProgramsAreSequences DEF Types, CTypeOK
<1>3. CASE u[1] < v[1]
  BY <1>1, <1>2, <1>3 DEF Sent
<1>4. CASE u[1] = v[1] /\ u[2] < v[2]
  BY <1>1, <1>2, <1>4 DEF Sent
<1> QED BY <1>3, <1>4 DEF Before

LEMMA NextIsHead ==
    ASSUME IInv, NEW p \in Party, NEW q \in Party, Read(p, q)
    PROVE  /\ Carries(q, p, op[p]) /\ p # q
           /\ Len(got[p][q]) < Len(Message(op[p]))
           /\ Head(pipe[q][p]) = <<op[p], (Len(got[p][q]) + 1) - Header(op[p])>>
           /\ Head(pipe[q][p]) \in Units(q, p)
<1> USE DEF IInv
<1> DEFINE k == op[p]
           n == Len(got[p][q]) + 1
           u == <<k, n - Header(k)>>
           s == pipe[q][p]
           h == Head(s)
<1>1. busy[p] /\ ~ ReadDone(p, q) /\ s # <<>>
  BY DEF Read
<1>2. CTypeOK /\ k \in 1 .. Len(prog) /\ k \in Nat
  BY <1>1, CurrentCall DEF Types
<1>3. /\ n \in Nat \ {0} /\ Len(got[p][q]) = n - 1 /\ s \in Streams
      /\ Len(s) \in Nat \ {0} /\ h = s[1]
  BY <1>1, SMTT(30) DEF Types, Streams
<1>4. Carries(q, p, k) /\ Len(got[p][q]) < Len(Message(k))
  <2>1. Len(got[p][q]) < ToRead(p, q)
    BY <1>1, <1>3, ToReadIs DEF ReadDone
  <2> QED BY <1>1, <1>3, <2>1, ToReadIs
<1>5. Header(k) \in {0, 1} /\ Len(Message(k)) \in Nat
  BY <1>2, MessageShape
<1>6. u \in Units(q, p) /\ u[1] = k /\ u[2] + Header(k) = n
  <2>1. u[1] = k /\ u[2] = n - Header(k) /\ u \in Nat \X Int
    BY <1>2, <1>3, <1>5
  <2>2. n \in 1 .. Len(Message(k)) /\ (n - Header(k)) + Header(k) = n
    BY <1>3, <1>4, <1>5
  <2> HIDE DEF n, k, u
  <2> QED BY <1>2, <1>4, <2>1, <2>2 DEF Units
<1>7. p # q
  BY <1>2, <1>4, SendersAreOthers DEF Carries
<1>8. LinkOK(q, p)
  BY DEF Links
<1>9. h \in Units(q, p) /\ Sent(q, p, h) /\ ~ Taken(q, p, h)
  BY <1>3, <1>8 DEF LinkOK
<1>10. ~ Taken(q, p, u)
  <2>1. ~ (u[1] < op[p]) /\ u[2] + Header(u[1]) = n
    BY <1>2, <1>6
  <2> QED BY <1>3, <2>1 DEF Taken
<1>11. h = <<h[1], h[2]>> /\ h[1] \in Nat /\ h[2] \in Int /\ Header(h[1]) \in {0, 1}
  BY <1>2, <1>9, UnitType
<1>12. h = u \/ Before(u, h)
  <2>1. ~ (h[1] < k) /\ (h[1] = k => ~ (h[2] + Header(k) <= n - 1))
    BY <1>1, <1>3, <1>9 DEF Taken
  <2>2. h[1] = k => h[2] + Header(k) >= n
    BY <1>3, <1>5, <1>11, <2>1
  <2>3. u[2] = n - Header(k) /\ u[1] = k
    OBVIOUS
  <2>4. CASE h[1] = k /\ h[2] + Header(k) = n
    BY <1>3, <1>5, <1>11, <2>4
  <2>5. CASE h[1] = k /\ h[2] + Header(k) > n
    BY <1>3, <1>5, <1>11, <2>3, <2>5 DEF Before
  <2>6. CASE h[1] # k
    BY <1>2, <1>11, <2>1, <2>3, <2>6 DEF Before
  <2> QED BY <1>3, <1>5, <1>11, <2>2, <2>4, <2>5, <2>6
<1>0. /\ u = <<op[p], (Len(got[p][q]) + 1) - Header(op[p])>>
      /\ h = Head(pipe[q][p])
  OBVIOUS
<1> HIDE DEF h, s, u, n, k
<1>13. h = u
  <2> SUFFICES ASSUME Before(u, h) PROVE FALSE
    BY <1>12
  <2>1. Sent(q, p, u)
    BY <1>6, <1>9, SentInOrder
  <2>2. PICK j \in 1 .. Len(s) : s[j] = u
    BY <1>6, <1>8, <1>10, <2>1 DEF LinkOK, s
  <2>3. j # 1
    <3>1. ~ Before(h, h)
      BY <1>11 DEF Before
    <3> QED BY <1>3, <2>2, <3>1
  <2>4. Before(h, u)
    BY <1>3, <1>8, <2>2, <2>3 DEF LinkOK, s
  <2>5. u[1] \in Nat /\ u[2] \in Int
    BY <1>2, <1>6, UnitType
  <2> QED BY <1>11, <2>4, <2>5 DEF Before
<1>14. h = <<k, n - Header(k)>> /\ h \in Units(q, p)
  BY <1>6, <1>13 DEF u
<1>15. Carries(q, p, op[p]) /\ p # q /\ Len(got[p][q]) < Len(Message(op[p]))
  BY <1>4, <1>7 DEF k
<1>16. Head(pipe[q][p]) \in Units(q, p)
  BY <1>14 DEF h, s
<1>17. Head(pipe[q][p]) = <<op[p], (Len(got[p][q]) + 1) - Header(op[p])>>
  BY <1>0, <1>13, Zenon
<1> QED BY <1>15, <1>16, <1>17

LEMMA ReadLink ==
    ASSUME IInv, NEW p \in Party, NEW q \in Party, Read(p, q)
    PROVE  LinkOK(q, p)'
<1> USE DEF IInv
<1> DEFINE k == op[p]
           n == Len(got[p][q]) + 1
           s == pipe[q][p]
           u == Head(s)
           t == Tail(s)
<1>1. /\ busy[p] /\ s # <<>>
      /\ got' = [got EXCEPT ![p][q] = Append(@, u)]
      /\ pipe' = [pipe EXCEPT ![q][p] = t]
      /\ prog' = prog /\ op' = op /\ busy' = busy /\ wrote' = wrote
  BY DEF Read
<1>2. CTypeOK /\ k \in 1 .. Len(prog) /\ k \in Nat
  BY <1>1, CurrentCall DEF Types
<1>3. /\ u \in Units(q, p) /\ u = <<k, n - Header(k)>> /\ Header(k) \in {0, 1}
  BY <1>2, NextIsHead, MessageShape
<1>4. /\ s \in Streams /\ Len(s) \in Nat \ {0} /\ u = s[1]
      /\ Len(t) = Len(s) - 1
      /\ \A j \in 1 .. Len(t) : t[j] = s[j + 1] /\ j \in 1 .. Len(s) /\ j + 1 \in 1 .. Len(s)
      /\ Len(t) \in Nat
  <2>1. s \in Streams
    BY DEF Types
  <2> QED BY <1>1, <2>1, WithoutHead
<1>5. /\ n \in Nat \ {0} /\ got[p][q] \in Streams /\ Len(got[p][q]) = n - 1
  BY DEF Types, Streams
<1>6. pipe'[q][p] = t /\ Len(got'[p][q]) = n
  <2>1. got'[p][q] = Append(got[p][q], u)
    BY <1>1 DEF Types
  <2>2. u \in Nat \X Int
    BY <1>3 DEF Units
  <2>3. Len(Append(got[p][q], u)) = n
    BY <1>5, <2>2 DEF Streams
  <2> QED BY <1>1, <2>1, <2>3 DEF Types
<1>7. Units(q, p)' = Units(q, p) /\ \A j : Header(j)' = Header(j)
  BY <1>1, ProgramKept
<1>8. LinkOK(q, p)
  BY DEF Links
<1> HIDE DEF s, t, u
<1>9. \A v \in Units(q, p) : Taken(q, p, v)' <=> (Taken(q, p, v) \/ v = u)
  <2> SUFFICES ASSUME NEW v \in Units(q, p)
               PROVE  Taken(q, p, v)' <=> (Taken(q, p, v) \/ v = u)
    OBVIOUS
  <2>1. v = <<v[1], v[2]>> /\ v[2] \in Int /\ v[1] \in Nat /\ Header(v[1]) \in {0, 1}
    BY <1>2, UnitType
  <2>2. Taken(q, p, v)' <=> v[1] < k \/ (v[1] = k /\ v[2] + Header(k) <= n)
    BY <1>1, <1>6, <1>7 DEF Taken
  <2>3. Taken(q, p, v) <=> v[1] < k \/ (v[1] = k /\ v[2] + Header(k) <= n - 1)
    BY <1>1, <1>5 DEF Taken
  <2>4. v = u <=> v[1] = k /\ v[2] + Header(k) = n
    BY <1>3, <1>5, <2>1
  <2> QED BY <1>3, <1>5, <2>1, <2>2, <2>3, <2>4
<1>10. \A v \in Units(q, p) : Sent(q, p, v)' <=> Sent(q, p, v)
  BY <1>1, <1>7 DEF Sent
<1>11. /\ \A j \in 1 .. Len(s) : s[j] \in Units(q, p) /\ Sent(q, p, s[j]) /\ ~ Taken(q, p, s[j])
       /\ \A v \in Units(q, p) : Sent(q, p, v) /\ ~ Taken(q, p, v) =>
            \E j \in 1 .. Len(s) : s[j] = v
       /\ \A i, j \in 1 .. Len(s) : i < j => Before(s[i], s[j])
       /\ \A v \in Units(q, p) : Taken(q, p, v) => Sent(q, p, v)
  BY <1>8 DEF LinkOK, s
<1>12. \A j \in 1 .. Len(t) : t[j] # u
  <2> SUFFICES ASSUME NEW j \in 1 .. Len(t) PROVE t[j] # u
    OBVIOUS
  <2>1. Before(u, t[j])
    <3>1. 1 \in 1 .. Len(s) /\ j + 1 \in 1 .. Len(s) /\ 1 < j + 1
      BY <1>4
    <3>2. Before(s[1], s[j + 1])
      BY <1>11, <3>1
    <3> QED BY <1>4, <3>2
  <2>2. ~ Before(u, u)
    <3>1. u[1] \in Nat /\ u[2] \in Int
      BY <1>2, <1>3, UnitType
    <3> QED BY <3>1 DEF Before
  <2> QED BY <2>1, <2>2
<1>13. \A j \in 1 .. Len(t) :
         /\ t[j] \in Units(q, p) /\ Sent(q, p, t[j])
         /\ ~ (Taken(q, p, t[j]) \/ t[j] = u)
  BY <1>4, <1>11, <1>12
<1>14. \A v \in Units(q, p) : Sent(q, p, v) /\ ~ (Taken(q, p, v) \/ v = u) =>
            \E j \in 1 .. Len(t) : t[j] = v
  <2> SUFFICES ASSUME NEW v \in Units(q, p), Sent(q, p, v), ~ Taken(q, p, v), v # u
               PROVE  \E j \in 1 .. Len(t) : t[j] = v
    OBVIOUS
  <2>1. PICK j \in 1 .. Len(s) : s[j] = v
    BY <1>11
  <2>2. j - 1 \in 1 .. Len(t) /\ t[j - 1] = s[j]
    BY <1>4, <2>1
  <2> QED BY <2>1, <2>2
<1>15. \A i, j \in 1 .. Len(t) : i < j => Before(t[i], t[j])
  <2> SUFFICES ASSUME NEW i \in 1 .. Len(t), NEW j \in 1 .. Len(t), i < j
               PROVE  Before(t[i], t[j])
    OBVIOUS
  <2>1. i + 1 \in 1 .. Len(s) /\ j + 1 \in 1 .. Len(s) /\ i + 1 < j + 1
    BY <1>4
  <2>2. Before(s[i + 1], s[j + 1])
    BY <1>11, <2>1
  <2> QED BY <1>4, <2>2
<1>16. \A j \in 1 .. Len(t) : Sent(q, p, pipe[q][p][j])' /\ ~ Taken(q, p, pipe[q][p][j])'
  <2> SUFFICES ASSUME NEW j \in 1 .. Len(t)
               PROVE  Sent(q, p, pipe[q][p][j])' /\ ~ Taken(q, p, pipe[q][p][j])'
    OBVIOUS
  <2>1. PICK v \in Units(q, p) : v = t[j]
    BY <1>13
  <2>2. Sent(q, p, v)' /\ ~ Taken(q, p, v)'
    BY <1>9, <1>10, <1>13, <2>1
  <2>3. pipe'[q][p][j] = v
    BY <1>6, <2>1
  <2> QED BY <2>2, <2>3 DEF Sent, Taken
<1>17. \A v \in Units(q, p) : Taken(q, p, v)' => Sent(q, p, v)'
  <2>1. Sent(q, p, u)
    BY <1>4, <1>11
  <2> QED BY <1>9, <1>10, <1>11, <2>1
<1>18. \A v \in Units(q, p) : Sent(q, p, v)' /\ ~ Taken(q, p, v)' =>
            \E j \in 1 .. Len(t) : t[j] = v
  BY <1>9, <1>10, <1>14
<1> QED BY <1>6, <1>7, <1>13, <1>15, <1>16, <1>17, <1>18 DEF LinkOK, Before

LEMMA ReadStep ==
    ASSUME IInv, NEW p \in Party, NEW q \in Party, Read(p, q)
    PROVE  IInv'
<1> USE DEF IInv
<1> DEFINE k == op[p]
           g == got[p][q]
           u == Head(pipe[q][p])
<1>1. /\ busy[p] /\ ~ ReadDone(p, q) /\ pipe[q][p] # <<>>
      /\ got' = [got EXCEPT ![p][q] = Append(@, u)]
      /\ pipe' = [pipe EXCEPT ![q][p] = Tail(@)]
      /\ prog' = prog /\ op' = op /\ busy' = busy /\ started' = started /\ wrote' = wrote
  BY DEF Read
<1>2. /\ Carries(q, p, k) /\ p # q /\ Len(g) < Len(Message(k))
      /\ u = <<k, (Len(g) + 1) - Header(k)>> /\ u \in Nat \X Int
      /\ k \in 1 .. Len(prog)
  BY <1>1, NextIsHead, CurrentCall DEF Units, Types
<1> HIDE DEF u
<1>3. /\ g \in Streams /\ Append(g, u) \in Streams /\ Len(g) \in Nat
      /\ Len(Append(g, u)) = Len(g) + 1
      /\ \A i \in 1 .. Len(g) : Append(g, u)[i] = g[i]
      /\ Append(g, u)[Len(g) + 1] = u
  BY <1>2, SMTT(30) DEF Types, Streams
<1>4. /\ got'[p][q] = Append(g, u)
      /\ \A a, b \in Party : (a # p \/ b # q) => got'[a][b] = got[a][b]
      /\ \A a \in Party : a # p => got'[a] = got[a]
      /\ got' \in [Party -> [Party -> Streams]]
  BY <1>1, <1>3 DEF Types
<1>5. /\ Tail(pipe[q][p]) \in Streams
      /\ Len(Tail(pipe[q][p])) = Len(pipe[q][p]) - 1 /\ Len(pipe[q][p]) \in Nat
  <2>1. pipe[q][p] \in Streams
    BY DEF Types
  <2> QED BY <1>1, <2>1, WithoutHead
<1>6. /\ pipe'[q][p] = Tail(pipe[q][p])
      /\ \A a, b \in Party : (a # q \/ b # p) => pipe'[a][b] = pipe[a][b]
      /\ pipe' \in [Party -> [Party -> Streams]]
  BY <1>1, <1>5 DEF Types
<1>7. Types'
  BY <1>1, <1>4, <1>6 DEF Types, CTypeOK
<1>8. Fresh'
  BY <1>1, <1>4 DEF Fresh
<1>9. InCall'
  <2> SUFFICES ASSUME NEW a \in Party, NEW b \in Party, busy'[a]
               PROVE  (wrote[a][b] <= ToWrite(a, b))' /\ GotOK(a, b)'
    BY DEF InCall
  <2>1. CASE a # p \/ b # q
    BY <1>1, <1>4, <2>1, InCallKept DEF InCall
  <2>2. CASE a = p /\ b = q
    <3>1. (wrote[p][q] <= ToWrite(p, q))'
      <4>1. wrote[p][q] <= ToWrite(p, q)
        BY <1>1 DEF InCall
      <4> QED BY <1>1, <4>1, ProgramKept DEF ToWrite, Receivers, Senders, Current
    <3>2. GotOK(p, q)'
      <4>1. \A i \in 1 .. Len(g) : g[i] = <<k, i - Header(k)>>
        BY <1>1, <1>2 DEF InCall, GotOK
      <4>2. Len(g) + 1 <= Len(Message(k))
        <5>1. Len(Message(k)) \in Nat
          BY <1>2, MessageShape DEF Types
        <5> QED BY <1>2, <1>3, <5>1
      <4>3. \A i \in 1 .. Len(g) + 1 : Append(g, u)[i] = <<k, i - Header(k)>>
        <5> SUFFICES ASSUME NEW i \in 1 .. Len(g) + 1
                     PROVE  Append(g, u)[i] = <<k, i - Header(k)>>
          OBVIOUS
        <5>1. CASE i = Len(g) + 1
          <6>1. Append(g, u)[i] = u
            BY <1>3, <5>1
          <6>2. u = <<k, i - Header(k)>>
            BY <1>2, <5>1, Zenon
          <6> QED BY <6>1, <6>2
        <5>2. CASE i \in 1 .. Len(g)
          BY <1>3, <4>1, <5>2
        <5> QED BY <1>3, <5>1, <5>2
      <4>4. got'[p][q] = Append(g, u) /\ Len(got'[p][q]) = Len(g) + 1
        BY <1>3, <1>4
      <4>5. /\ Header(k)' = Header(k) /\ Message(k)' = Message(k)
            /\ Header(op[p])' = Header(k) /\ Message(op[p])' = Message(k)
            /\ op'[p] = k /\ Carries(q, p, op[p])'
        BY <1>1, <1>2, ProgramKept DEF Header, Message, Carries, Senders
      <4> HIDE DEF g, k
      <4> QED BY <4>2, <4>3, <4>4, <4>5 DEF GotOK
    <3> QED BY <2>2, <3>1, <3>2
  <2> QED BY <2>1, <2>2
<1>10. Links'
  <2> SUFFICES ASSUME NEW a \in Party, NEW b \in Party PROVE LinkOK(a, b)'
    BY DEF Links
  <2>1. CASE a = q /\ b = p
    BY <2>1, ReadLink
  <2>2. CASE a # q \/ b # p
    <3>1. \A i : Header(i)' = Header(i)
      BY <1>1, ProgramKept
    <3>2. pipe'[a][b] = pipe[a][b] /\ wrote' = wrote /\ got'[b][a] = got[b][a]
      BY <1>1, <1>4, <1>6, <2>2
    <3> QED BY <1>1, <3>1, <3>2, LinkKept DEF Links, Sent, Taken
  <2> QED BY <2>1, <2>2
<1>11. Unfinished(p)' \subseteq Unfinished(p)
  <2>1. \A b \in Party : b # q => ToRead(p, b)' = ToRead(p, b)
    BY <1>1, <1>4 DEF ToRead, Senders, Current
  <2>2. \A b \in Party : ToWrite(p, b)' = ToWrite(p, b)
    BY <1>1, ProgramKept DEF ToWrite, Receivers, Senders, Current
  <2>3. Peers(p)' = Peers(p)
    BY <1>1 DEF Peers, Receivers, Senders, Current
  <2>4. Peers(p) \subseteq Party
    BY <1>2, SendersAreOthers DEF Peers, Receivers, Current, Types
  <2>5. q \in Unfinished(p)
    BY <1>1, <1>2 DEF Unfinished, Peers, Carries, Current
  <2>6. \A b \in Party : b # q =>
          /\ WriteDone(p, b)' <=> WriteDone(p, b)
          /\ ReadDone(p, b)' <=> ReadDone(p, b)
    BY <1>1, <1>4, <2>1, <2>2 DEF WriteDone, ReadDone
  <2> QED BY <2>3, <2>4, <2>5, <2>6 DEF Unfinished
<1>12. Bounded'
  <2>1. \A a, b \in Party : Len(pipe'[a][b]) <= Cap
    <3>1. Len(pipe[q][p]) <= Cap /\ \A a, b \in Party : Len(pipe[a][b]) <= Cap
      BY DEF Bounded
    <3>2. Len(pipe'[q][p]) <= Cap
      BY <1>5, <1>6, <3>1, CapAssumption
    <3> QED BY <1>6, <3>1, <3>2
  <2>2. \A a \in Party : busy[a] => Cardinality(started[a] \cap Unfinished(a)') <= Workers
    <3> SUFFICES ASSUME NEW a \in Party, busy[a]
                 PROVE  Cardinality(started[a] \cap Unfinished(a)') <= Workers
      OBVIOUS
    <3>1. Unfinished(a)' \subseteq Unfinished(a)
      <4>1. CASE a # p
        BY <1>1, <1>4, <4>1, UnfinishedKept
      <4> QED BY <1>11, <4>1
    <3>2. started[a] \cap Unfinished(a) \in SUBSET Party
      BY DEF Types
    <3>3. Cardinality(started[a] \cap Unfinished(a)') \in Nat
      BY PartsAreFinite DEF Types
    <3>4. /\ Cardinality(started[a] \cap Unfinished(a)) \in Nat
          /\ Cardinality(started[a] \cap Unfinished(a)') <= Cardinality(started[a] \cap Unfinished(a))
      BY <3>1, <3>2, PartsAreFinite
    <3>5. Cardinality(started[a] \cap Unfinished(a)) <= Workers
      BY DEF Bounded
    <3> QED BY <3>3, <3>4, <3>5, WorkersAssumption
  <2> QED BY <1>1, <2>1, <2>2 DEF Bounded
<1> QED BY <1>7, <1>8, <1>9, <1>10, <1>12


-----------------------------------------------------------------------------
(* Leaving a call: everything of this call is written and read.            *)

LEMMA CallIsComplete ==
    ASSUME IInv, NEW p \in Party, NEW q \in Party, busy[p], Unfinished(p) = {}
    PROVE  /\ Carries(p, q, op[p]) => wrote[p][q] = Len(Message(op[p]))
           /\ Carries(q, p, op[p]) => Len(got[p][q]) = Len(Message(op[p]))
<1> USE DEF IInv
<1> DEFINE k == op[p]
<1>1. CTypeOK /\ k \in 1 .. Len(prog) /\ Len(Message(k)) \in Nat
  BY CurrentCall, MessageShape DEF Types
<1>2. q \notin Peers(p) \/ (WriteDone(p, q) /\ ReadDone(p, q))
  BY DEF Unfinished
<1>3. ASSUME Carries(p, q, k) PROVE wrote[p][q] = Len(Message(k))
  <2>1. p # q
    BY <1>1, <1>3, SendersAreOthers DEF Carries
  <2>2. q \in Peers(p)
    BY <1>3, <2>1 DEF Peers, Receivers, Carries, Current
  <2>3. ToWrite(p, q) = Len(Message(k))
    BY <1>1, <1>3, ToWriteIs
  <2>4. wrote[p][q] <= ToWrite(p, q) /\ wrote[p][q] >= ToWrite(p, q)
    BY <1>2, <2>2 DEF InCall, WriteDone
  <2>5. wrote[p][q] \in Nat
    BY DEF Types
  <2> QED BY <1>1, <2>3, <2>4, <2>5
<1>4. ASSUME Carries(q, p, k) PROVE Len(got[p][q]) = Len(Message(k))
  <2>1. q \in Peers(p)
    BY <1>4 DEF Peers, Carries, Current
  <2>2. Len(got[p][q]) >= ToRead(p, q)
    BY <1>2, <2>1 DEF ReadDone
  <2>3. /\ ToRead(p, q) \in Nat /\ Len(got[p][q]) \in 0 .. ToRead(p, q)
        /\ Len(got[p][q]) < ToRead(p, q) <=> Len(got[p][q]) < Len(Message(k))
    BY <1>4, ToReadIs
  <2>4. Len(got[p][q]) <= Len(Message(k))
    BY <1>4 DEF InCall, GotOK
  <2> QED BY <1>1, <2>2, <2>3, <2>4
<1> QED BY <1>3, <1>4

LEMMA LeaveAbstract ==
    ASSUME IInv, NEW p \in Party, Leave(p)
    PROVE  ALeave(p)
<1> USE DEF IInv
<1> DEFINE k == op[p]
<1>1. /\ busy[p] /\ Unfinished(p) = {}
      /\ result' = [result EXCEPT ![p] = got[p]]
      /\ op' = [op EXCEPT ![p] = @ + 1]
      /\ busy' = [busy EXCEPT ![p] = FALSE]
      /\ prog' = prog
  BY DEF Leave
<1>2. CTypeOK /\ k \in 1 .. Len(prog) /\ k \in Nat
  BY <1>1, CurrentCall DEF Types
<1>3. /\ Header(k) \in {0, 1} /\ Len(Message(k)) \in Nat \ {0}
      /\ \A i \in 1 .. Len(Message(k)) : Message(k)[i] = <<k, i - Header(k)>>
      /\ Message(k) \in Streams
  BY <1>2, MessageShape
<1>4. \A q \in Party : Carries(q, p, k) => Len(got[p][q]) = Len(Message(k))
  BY <1>1, CallIsComplete
<1>5. \A q \in Senders(p, prog[k]) : Entered(q, k)
  <2> SUFFICES ASSUME NEW q \in Senders(p, prog[k]) PROVE Entered(q, k)
    OBVIOUS
  <2>1. q \in Party /\ Carries(q, p, k)
    BY <1>2, SendersAreOthers DEF Carries
  <2> DEFINE w == <<k, 1 - Header(k)>>
  <2>2. w \in Units(q, p) /\ w[1] = k /\ w[2] + Header(k) = 1
    BY <1>2, <1>3, <2>1 DEF Units
  <2>3. Taken(q, p, w)
    BY <1>1, <1>3, <1>4, <2>1, <2>2 DEF Taken
  <2>4. Sent(q, p, w)
    BY <2>1, <2>2, <2>3 DEF Links, LinkOK
  <2>5. op[q] \in Nat
    BY <2>1, ProgramsAreSequences DEF Types, CTypeOK
  <2> QED BY <1>2, <2>2, <2>4, <2>5 DEF Sent, Entered
<1>6. \A q \in Party : got[p][q] = IF q \in Senders(p, prog[k]) THEN Message(k) ELSE <<>>
  <2> SUFFICES ASSUME NEW q \in Party
               PROVE  got[p][q] = IF q \in Senders(p, prog[k]) THEN Message(k) ELSE <<>>
    OBVIOUS
  <2>1. GotOK(p, q)
    BY <1>1 DEF InCall
  <2>2. CASE ~ Carries(q, p, k)
    BY <2>1, <2>2 DEF GotOK, Carries
  <2>3. CASE Carries(q, p, k)
    <3> DEFINE g == got[p][q]
               m == Message(k)
    <3>1. g \in Streams /\ m \in Streams /\ Len(g) = Len(m)
      BY <1>3, <1>4, <2>3 DEF Types
    <3>2. \A i \in 1 .. Len(g) : g[i] = m[i]
      BY <1>3, <1>4, <2>1, <2>3 DEF GotOK
    <3> HIDE DEF g, m
    <3>3. g = m
      <4>1. /\ g \in [1 .. Len(g) -> Nat \X Int]
            /\ m \in [1 .. Len(m) -> Nat \X Int]
        BY <3>1 DEF Streams
      <4> QED BY <3>1, <3>2, <4>1
    <3> QED BY <2>3, <3>3 DEF g, m, Carries
  <2> QED BY <2>2, <2>3
<1>7. got[p] = Received(p, k)
  <2>1. got[p] = [q \in Party |-> got[p][q]]
    BY DEF Types
  <2> QED BY <1>6, <2>1 DEF Received
<1> QED BY <1>1, <1>5, <1>7 DEF ALeave

LEMMA LeaveStep ==
    ASSUME IInv, NEW p \in Party, Leave(p)
    PROVE  IInv'
<1> USE DEF IInv
<1> DEFINE k == op[p]
<1>1. /\ busy[p] /\ Unfinished(p) = {} /\ prog' = prog /\ pipe' = pipe
      /\ op' = [op EXCEPT ![p] = @ + 1]
      /\ busy' = [busy EXCEPT ![p] = FALSE]
      /\ started' = [started EXCEPT ![p] = {}]
      /\ wrote' = [wrote EXCEPT ![p] = [q \in Party |-> 0]]
      /\ got' = [got EXCEPT ![p] = [q \in Party |-> <<>>]]
  BY DEF Leave
<1>2. CTypeOK /\ k \in 1 .. Len(prog) /\ k \in Nat
  BY <1>1, CurrentCall DEF Types
<1>3. CTypeOK'
  <2>1. ANext
    BY LeaveAbstract DEF ANext
  <2> QED BY <1>2, <2>1, CTypeStep
<1>4. /\ op'[p] = k + 1 /\ busy'[p] = FALSE /\ started'[p] = {}
      /\ \A b \in Party : wrote'[p][b] = 0 /\ got'[p][b] = <<>>
      /\ \A a \in Party : a # p => /\ op'[a] = op[a] /\ busy'[a] = busy[a]
                                   /\ started'[a] = started[a] /\ wrote'[a] = wrote[a]
                                   /\ got'[a] = got[a]
  BY <1>1 DEF Types, CTypeOK
<1>5. Types'
  <2>1. <<>> \in Streams
    BY DEF Streams
  <2>2. got' \in [Party -> [Party -> Streams]]
    BY <1>1, <2>1 DEF Types
  <2>3. wrote' \in [Party -> [Party -> Nat]] /\ started' \in [Party -> SUBSET Party]
    BY <1>1 DEF Types
  <2> QED BY <1>1, <1>3, <2>2, <2>3 DEF Types
<1>6. Fresh'
  BY <1>4 DEF Fresh
<1>7. InCall'
  BY <1>1, <1>4, InCallKept DEF InCall
<1>8. Links'
  <2> SUFFICES ASSUME NEW a \in Party, NEW b \in Party PROVE LinkOK(a, b)'
    BY DEF Links
  <2>1. \A j : Header(j)' = Header(j)
    BY <1>1, ProgramKept
  <2>2. \A u \in Units(a, b) : Sent(a, b, u)' <=> Sent(a, b, u)
    <3> SUFFICES ASSUME NEW u \in Units(a, b) PROVE Sent(a, b, u)' <=> Sent(a, b, u)
      OBVIOUS
    <3>1. CASE a # p
      BY <1>4, <2>1, <3>1 DEF Sent
    <3>2. CASE a = p
      <4>1. u[1] \in Nat /\ Carries(p, b, u[1]) /\ u[2] + Header(u[1]) \in 1 .. Len(Message(u[1]))
        BY <1>2, <3>2, UnitType
      <4>2. u[1] = k => u[2] + Header(u[1]) <= wrote[p][b]
        BY <1>1, <4>1, CallIsComplete
      <4>3. Sent(p, b, u) <=> u[1] < k \/ u[1] = k
        BY <1>1, <4>2 DEF Sent
      <4>4. Sent(p, b, u)' <=> u[1] < k + 1
        BY <1>4, <2>1 DEF Sent
      <4> QED BY <1>2, <3>2, <4>1, <4>3, <4>4
    <3> QED BY <3>1, <3>2
  <2>3. \A u \in Units(a, b) : Taken(a, b, u)' <=> Taken(a, b, u)
    <3> SUFFICES ASSUME NEW u \in Units(a, b) PROVE Taken(a, b, u)' <=> Taken(a, b, u)
      OBVIOUS
    <3>1. CASE b # p
      BY <1>4, <2>1, <3>1 DEF Taken
    <3>2. CASE b = p
      <4>1. u[1] \in Nat /\ Carries(a, p, u[1]) /\ u[2] + Header(u[1]) \in 1 .. Len(Message(u[1]))
        BY <1>2, <3>2, UnitType
      <4>2. u[1] = k => u[2] + Header(u[1]) <= Len(got[p][a])
        BY <1>1, <4>1, CallIsComplete
      <4>3. Taken(a, p, u) <=> u[1] < k \/ u[1] = k
        BY <1>1, <4>2 DEF Taken
      <4>4. Taken(a, p, u)' <=> u[1] < k + 1
        BY <1>4, <2>1 DEF Taken
      <4> QED BY <1>2, <3>2, <4>1, <4>3, <4>4
    <3> QED BY <3>1, <3>2
  <2> QED BY <1>1, <2>2, <2>3, LinkKept DEF Links
<1>9. Bounded'
  <2>1. \A a \in Party : a # p => Unfinished(a)' = Unfinished(a)
    BY <1>1, <1>4, UnfinishedKept
  <2>2. \A a \in Party : busy'[a] => a # p /\ busy[a] /\ started'[a] = started[a]
    BY <1>4
  <2> QED BY <1>1, <2>1, <2>2 DEF Bounded
<1> QED BY <1>5, <1>6, <1>7, <1>8, <1>9


-----------------------------------------------------------------------------
(* The theorems.                                                           *)

LEMMA StepInv == IInv /\ [Next]_vars => IInv'
<1> SUFFICES ASSUME IInv, [Next]_vars PROVE IInv'
  OBVIOUS
<1>1. CASE UNCHANGED vars
  <2>1. /\ prog' = prog /\ op' = op /\ busy' = busy /\ result' = result
        /\ started' = started /\ wrote' = wrote /\ got' = got /\ pipe' = pipe
    BY <1>1 DEF vars
  <2>2. Types'
    BY <2>1 DEF IInv, Types, CTypeOK
  <2>3. Fresh'
    BY <2>1 DEF IInv, Fresh
  <2>4. InCall'
    BY <2>1, InCallKept DEF IInv, InCall
  <2>5. Links'
    <3> SUFFICES ASSUME NEW p \in Party, NEW q \in Party PROVE LinkOK(p, q)'
      BY DEF Links
    <3>1. \A k : Header(k)' = Header(k)
      BY <2>1, ProgramKept
    <3> QED BY <2>1, <3>1, LinkKept DEF IInv, Links, Sent, Taken
  <2>6. Bounded'
    <3>1. \A p \in Party : Unfinished(p)' = Unfinished(p)
      BY <2>1, UnfinishedKept
    <3> QED BY <2>1, <3>1 DEF IInv, Bounded
  <2> QED BY <2>2, <2>3, <2>4, <2>5, <2>6 DEF IInv
<1>2. CASE Terminated
  BY <1>1, <1>2 DEF Terminated
<1>3. ASSUME NEW p \in Party, Step(p) PROVE IInv'
  <2>1. CASE Enter(p)
    BY <2>1, EnterStep
  <2>2. CASE Leave(p)
    BY <2>2, LeaveStep
  <2>3. CASE \E q \in Party : Begin(p, q) \/ Write(p, q) \/ Read(p, q)
    BY <2>3, BeginStep, WriteStep, ReadStep
  <2> QED BY <1>3, <2>1, <2>2, <2>3 DEF Step
<1> QED BY <1>1, <1>2, <1>3 DEF Next

\* The bookkeeping of every call and of every stream is right at all times:
\* what is on the way from p to q is, in order, exactly what the calls of p
\* have written for q and the calls of q have not read.
THEOREM RoundsInv == Spec => []IInv
<1>1. Init => IInv
  BY InitInv
<1>2. IInv /\ [Next]_vars => IInv'
  BY StepInv
<1> QED BY <1>1, <1>2, PTL DEF Spec

\* No stream holds more than its buffer, no pool runs more tasks than it has
\* workers, and no task writes or reads more than its call has for it.
THEOREM RoundsTypeCorrect == Spec => []TypeOK
<1>1. IInv => TypeOK
  <2> SUFFICES ASSUME IInv PROVE TypeOK
    OBVIOUS
  <2> USE DEF IInv
  <2>1. \A p, q \in Party : wrote[p][q] \in 0 .. (IF busy[p] THEN ToWrite(p, q) ELSE 0)
    <3> SUFFICES ASSUME NEW p \in Party, NEW q \in Party
                 PROVE  wrote[p][q] \in 0 .. (IF busy[p] THEN ToWrite(p, q) ELSE 0)
      OBVIOUS
    <3>1. wrote[p][q] \in Nat
      BY DEF Types
    <3>2. CASE ~ busy[p]
      BY <3>1, <3>2 DEF Fresh
    <3>3. CASE busy[p]
      <4>1. op[p] \in 1 .. Len(prog)
        BY <3>3, CurrentCall DEF Types
      <4>2. ToWrite(p, q) \in Nat
        BY <3>3, <4>1, ToWriteIs, MessageShape DEF Types
      <4>3. wrote[p][q] <= ToWrite(p, q)
        BY <3>3 DEF InCall
      <4> QED BY <3>1, <3>3, <4>2, <4>3
    <3> QED BY <3>2, <3>3
  <2>2. \A p, q \in Party : Len(got[p][q]) \in 0 .. (IF busy[p] THEN ToRead(p, q) ELSE 0)
    <3> SUFFICES ASSUME NEW p \in Party, NEW q \in Party
                 PROVE  Len(got[p][q]) \in 0 .. (IF busy[p] THEN ToRead(p, q) ELSE 0)
      OBVIOUS
    <3>1. CASE ~ busy[p]
      <4>1. got[p][q] = <<>>
        BY <3>1 DEF Fresh
      <4> QED BY <3>1, <4>1
    <3>2. CASE busy[p]
      BY <3>2, ToReadIs
    <3> QED BY <3>1, <3>2
  <2>3. \A p, q \in Party : Len(pipe[p][q]) \in 0 .. Cap
    <3>1. \A p, q \in Party : Len(pipe[p][q]) \in Nat
      BY DEF Types, Streams
    <3> QED BY <3>1, CapAssumption DEF Bounded
  <2> QED BY <2>1, <2>2, <2>3 DEF TypeOK, Types, Bounded
<1> QED BY <1>1, RoundsInv, PTL

\* Without message boundaries, and although a party may run ahead of another
\* by several calls, no byte of an earlier or a later call is taken for one
\* of the call a party is in.
THEOREM NoCrossTalkHolds == Spec => []NoCrossTalk
<1>1. IInv => NoCrossTalk
  <2> SUFFICES ASSUME IInv, NEW p \in Party, NEW q \in Party, busy[p],
                      q \in Senders(p, Current(p))
               PROVE  IsPrefixOf(got[p][q], Message(op[p]))
    BY DEF NoCrossTalk
  <2> DEFINE k == op[p]
             g == got[p][q]
             m == Message(k)
  <2>1. CTypeOK /\ k \in 1 .. Len(prog)
    BY CurrentCall DEF IInv, Types
  <2>2. g \in Streams /\ m \in Streams /\ \A i \in 1 .. Len(m) : m[i] = <<k, i - Header(k)>>
    BY <2>1, MessageShape DEF IInv, Types
  <2>3. Len(g) <= Len(m) /\ \A i \in 1 .. Len(g) : g[i] = <<k, i - Header(k)>>
    BY DEF IInv, InCall, GotOK, Carries, Current
  <2> HIDE DEF g, m, k
  <2>4. Len(g) \in Nat /\ Len(m) \in Nat
    BY <2>2 DEF Streams
  <2>5. \A i \in 1 .. Len(g) : g[i] = m[i]
    BY <2>2, <2>3, <2>4
  <2>6. SubSeq(m, 1, Len(g)) = [i \in 1 .. Len(g) |-> m[i]]
    BY <2>2, <2>3, <2>4 DEF Streams
  <2>7. g \in [1 .. Len(g) -> Nat \X Int]
    BY <2>2 DEF Streams
  <2>8. g = SubSeq(m, 1, Len(g))
    BY <2>5, <2>6, <2>7
  <2> QED BY <2>3, <2>8 DEF IsPrefixOf, g, m, k
<1> QED BY <1>1, RoundsInv, PTL

\* When every party is through the program, nothing is left in a stream.
THEOREM DrainedHolds == Spec => []Drained
<1>1. IInv => Drained
  <2> SUFFICES ASSUME IInv, Finished, NEW p \in Party, NEW q \in Party
               PROVE  pipe[p][q] = <<>>
    BY DEF Drained
  <2>1. \A u \in Units(p, q) : Taken(p, q, u)
    <3>1. \A u \in Units(p, q) : u[1] \in 1 .. Len(prog) /\ u[1] \in Nat
      BY UnitType DEF IInv, Types
    <3>2. op[q] > Len(prog) /\ op[q] \in Nat /\ Len(prog) \in Nat
      BY ProgramsAreSequences DEF IInv, Types, CTypeOK, Finished
    <3> QED BY <3>1, <3>2 DEF Taken
  <2>2. \A j \in 1 .. Len(pipe[p][q]) : FALSE
    BY <2>1 DEF IInv, Links, LinkOK
  <2>3. pipe[p][q] \in Streams
    BY DEF IInv, Types
  <2>4. Len(pipe[p][q]) = 0
    BY <2>2, <2>3 DEF Streams
  <2> QED BY <2>3, <2>4 DEF Streams
<1> QED BY <1>1, RoundsInv, PTL

\* The calls over bounded streams and a bounded pool of workers keep the
\* promise of Collective: a call returns whole messages of this very call,
\* and only after their senders have made the same call.
THEOREM RoundsImplementsCollective == Spec => KeepsPromise
<1>1. Init => AInit
  BY DEF Init
<1>2. IInv /\ [Next]_vars => [ANext]_cvars
  <2> SUFFICES ASSUME IInv, [Next]_vars PROVE [ANext]_cvars
    OBVIOUS
  <2>1. CASE UNCHANGED vars
    BY <2>1 DEF vars, cvars
  <2>2. CASE Terminated
    BY <2>2 DEF Terminated, vars, cvars
  <2>3. ASSUME NEW p \in Party, Step(p) PROVE [ANext]_cvars
    <3>1. CASE Enter(p)
      BY <3>1 DEF Enter, ANext
    <3>2. CASE Leave(p)
      BY <3>2, LeaveAbstract DEF ANext
    <3>3. CASE \E q \in Party : Begin(p, q) \/ Write(p, q) \/ Read(p, q)
      BY <3>3 DEF Begin, Write, Read, cvars
    <3> QED BY <2>3, <3>1, <3>2, <3>3 DEF Step
  <2> QED BY <2>1, <2>2, <2>3 DEF Next
<1> QED BY <1>1, <1>2, RoundsInv, PTL DEF Spec, ASpec, KeepsPromise

\* With bounded streams too, a call that returned what others sent was made
\* by all of them.
THEOREM RoundsInStep == Spec => []InStep
BY RoundsImplementsCollective, CallsInStep, PTL DEF KeepsPromise
=============================================================================
