---------------------------- MODULE ConnectProofs ----------------------------
(***************************************************************************)
(* The inductive invariant behind the safety properties of Connect, in     *)
(* layers: where a party is in its loops, whose turn it is, what a slot    *)
(* and a backlog may hold, where an opened connection is, and what the     *)
(* king's round tells.                                                     *)
(***************************************************************************)
EXTENDS Connect, TLAPS

BeforeTurn == {"off", "bind", "accept", "close", "await_note"}
Receiving  == {"bind", "accept", "close"}
AfterTurn  == {"to_king", "from_king", "done"}

\* Where a party is in its loops.
ControlAt(p) ==
    /\ pc[p] = "off" => round[p] = 0
    /\ pc[p] \in Receiving => round[p] < p
    /\ pc[p] = "await_note" => p > 0 /\ round[p] = p - 1
    /\ pc[p] \in BeforeTurn => to[p] = p + 1
    /\ pc[p] = "connect" => round[p] = p /\ p < to[p] /\ to[p] < N
    /\ pc[p] = "note" => round[p] = p /\ to[p] = N /\ p + 1 < N
    /\ pc[p] \in AfterTurn => to[p] = N
    /\ p < to[p]

Control == \A p \in Party : ControlAt(p)

\* The sender's half of the slots is filled up to to_id, each under its name.
SenderAt(p, q) == slot[p][q] = IF q < to[p] THEN q ELSE None

SenderSlots == \A p, q \in Party : p < q => SenderAt(p, q)

\* The receiver's half is filled up to the current round.
ReceiverAt(p, q) ==
    /\ pc[p] \in Receiving /\ q < round[p] => slot[p][q] # None
    /\ pc[p] \in Receiving /\ round[p] < q => slot[p][q] = None
    /\ pc[p] \in {"bind", "accept"} /\ q = round[p] => slot[p][q] = None
    /\ pc[p] = "close" /\ q = round[p] => slot[p][q] # None
    /\ pc[p] = "off" => slot[p][q] = None
    /\ pc[p] \notin Receiving \cup {"off", "panicked"} => slot[p][q] # None

ReceiverSlots == \A p, q \in Party : q < p => ReceiverAt(p, q)

Layer1 == TypeOK /\ Control /\ SenderSlots /\ ReceiverSlots

Begun(p) == to[p] > p + 1 \/ Sending(p)
Ended(p) == to[p] = N /\ ~ Sending(p)

\* A turn begins when all turns before it have ended; a write to a higher
\* party is made after the writer's turn.
Turns ==
    /\ \A p, q \in Party : q < p /\ Begun(p) => Ended(q)
    /\ \A p, q \in Party : p < q /\ pipe[p][q] > 0 => Ended(p)

\* What a slot may hold: connections are filed in the order they were opened,
\* and a connection can only be filed too early, under a lower sender's name.
Filed ==
    /\ \A p, q \in Party : q < p /\ slot[p][q] # None =>
         slot[p][q] < p /\ q <= slot[p][q] /\ p < to[slot[p][q]]
    /\ \A p, q, r \in Party :
         q < r /\ r < p /\ slot[p][q] # None /\ slot[p][r] # None
            => slot[p][q] + r <= slot[p][r] + q /\ slot[p][q] < slot[p][r]

\* What a backlog may hold: connections in the order they were opened, all
\* opened after those already filed.
Pending ==
    \A p \in Party :
        /\ \A i \in 1 .. Len(backlog[p]) :
             /\ backlog[p][i] < p /\ p < to[backlog[p][i]]
             /\ \A q \in Party : q < p /\ slot[p][q] # None
                                   => slot[p][q] < backlog[p][i]
        /\ \A i, j \in 1 .. Len(backlog[p]) : i < j => backlog[p][i] < backlog[p][j]

Layer2 == Turns /\ Filed /\ Pending

\* A reset connection was opened; it is neither filed nor pending.
Lost ==
    \A x, p \in Party : <<x, p>> \in reset =>
        /\ x < p /\ p < to[x]
        /\ \A q \in Party : q < p => slot[p][q] # x
        /\ \A i \in 1 .. Len(backlog[p]) : backlog[p][i] # x

\* An opened connection is filed, pending or reset.
Kept ==
    \A x, p \in Party : x < p /\ p < to[x] =>
        \/ <<x, p>> \in reset
        \/ \E q \in Party : q < p /\ slot[p][q] = x
        \/ \E i \in 1 .. Len(backlog[p]) : backlog[p][i] = x

Layer3 == Lost /\ Kept /\ SlotsMatchUnlessReset

Full(p) == \A q \in Party \ {p} : slot[p][q] # None

\* The note of a higher party's turn that is still on its way.
Unread(a, b) ==
    /\ pipe[a][b] <= 1
    /\ pipe[a][b] > 0 => b = a + 1 /\ pc[b] \in BeforeTurn \cup {"panicked"}

\* What the bytes to and from the king tell.
KingKnows ==
    /\ \A p, q \in Party : q < p /\ pc[p] \in AfterTurn => Ended(q)
    /\ \A p \in Party \ {King} : pipe[p][King] > 0 => Full(p)
    /\ \A a, b \in Party : a < b /\ (a = King => pc[King] # "done") => Unread(a, b)
    /\ pc[King] # "done" => \A p \in Party : pc[p] # "done"
    /\ pc[King] = "done" => \A p \in Party : Full(p)

IInv == Layer1 /\ Layer2 /\ Layer3 /\ KingKnows

-----------------------------------------------------------------------------
(* The first layer: types, loops and which slots are filled.               *)

\* Every constant and helper the leaves below open.
LEMMA Constants ==
    /\ N \in Nat \ {0} /\ King \in Party /\ None \notin Nat
    /\ \A p \in Party : p \in Nat /\ p < N
    /\ \A p \in Nat : p < N => p \in Party
BY NAssumption, NoneAssumption DEF Party, King

LEMMA PhaseAtValues ==
    ASSUME NEW p \in Party, NEW r \in 0 .. N
    PROVE  /\ PhaseAt(p, r) \in {"bind", "connect", "to_king"}
           /\ PhaseAt(p, r) = "bind" <=> r < p
           /\ PhaseAt(p, r) = "connect" <=> r = p /\ p + 1 < N
BY Constants DEF PhaseAt

\* A step of p leaves the rest of the parties where they are.
LEMMA Layer1Local ==
    ASSUME Layer1, NEW p \in Party, TypeOK',
           \A q \in Party \ {p} : /\ pc'[q] = pc[q] /\ round'[q] = round[q]
                                  /\ to'[q] = to[q] /\ slot'[q] = slot[q],
           ControlAt(p)',
           \A q \in Party : p < q => SenderAt(p, q)',
           \A q \in Party : q < p => ReceiverAt(p, q)'
    PROVE  Layer1'
<1>1. ASSUME NEW q \in Party PROVE ControlAt(q)'
  BY DEF Layer1, Control, ControlAt
<1>2. ASSUME NEW q \in Party, NEW r \in Party, q < r PROVE SenderAt(q, r)'
  BY <1>2 DEF Layer1, SenderSlots, SenderAt
<1>3. ASSUME NEW q \in Party, NEW r \in Party, r < q PROVE ReceiverAt(q, r)'
  BY <1>3 DEF Layer1, ReceiverSlots, ReceiverAt
<1> QED BY <1>1, <1>2, <1>3 DEF Layer1, Control, SenderSlots, ReceiverSlots

\* The types the steps below need, and what is known of p before its step.
Types ==
    /\ pc \in [Party -> PC] /\ round \in [Party -> 0 .. N] /\ to \in [Party -> 1 .. N]
    /\ slot \in [Party -> [Party -> Party \cup {None}]]

LEMMA KnownAt ==
    ASSUME Layer1, NEW p \in Party
    PROVE  /\ Types
           /\ ControlAt(p)
           /\ \A q \in Party : p < q => SenderAt(p, q)
           /\ \A q \in Party : q < p => ReceiverAt(p, q)
           /\ p \in Nat /\ p < N /\ N \in Nat /\ round[p] \in Nat /\ to[p] \in Nat
<1>1. Types
  BY DEF Types, Layer1, TypeOK
<1>2. p \in Nat /\ p < N /\ N \in Nat
  BY Constants
<1>3. round[p] \in Nat /\ to[p] \in Nat
  BY <1>1, <1>2 DEF Types
<1> QED BY <1>1, <1>2, <1>3 DEF Layer1, Control, SenderSlots, ReceiverSlots

LEMMA StartLayer1 ==
    ASSUME Layer1, NEW p \in Party, Start(p)
    PROVE  Layer1'
<1>1. /\ pc[p] = "off" /\ pc' = [pc EXCEPT ![p] = PhaseAt(p, 0)]
      /\ UNCHANGED <<round, to, slot>>
  BY DEF Start, Goto, sockets
<1>2. PhaseAt(p, 0) \in PC
  BY DEF PhaseAt, PC
<1>3. TypeOK'
  BY <1>1, <1>2 DEF Layer1, TypeOK, Start, sockets, clock
<1>4. pc'[p] = PhaseAt(p, 0) /\ round[p] = 0 /\ to[p] = p + 1
  BY <1>1, KnownAt DEF Types, ControlAt, BeforeTurn
<1>5. ControlAt(p)'
  BY <1>1, <1>4, KnownAt DEF ControlAt, BeforeTurn, Receiving, AfterTurn, PhaseAt
<1>6. \A q \in Party : p < q => SenderAt(p, q)'
  BY <1>1, KnownAt DEF SenderAt
<1>7. \A q \in Party : q < p => ReceiverAt(p, q)'
  BY <1>1, <1>4, KnownAt, Constants DEF ReceiverAt, Receiving, PhaseAt
<1> QED BY <1>1, <1>3, <1>5, <1>6, <1>7, KnownAt, Layer1Local DEF Types

LEMMA ConnectOkLayer1 ==
    ASSUME Layer1, NEW p \in Party, ConnectOk(p)
    PROVE  Layer1'
<1> DEFINE label == IF to[p] + 1 = N THEN "note" ELSE "connect"
<1>1. /\ pc[p] = "connect" /\ pc' = [pc EXCEPT ![p] = label] /\ round' = round
      /\ slot' = [slot EXCEPT ![p][to[p]] = to[p]]
      /\ to' = [to EXCEPT ![p] = @ + 1]
      /\ backlog' = [backlog EXCEPT ![to[p]] = Append(@, p)]
  BY DEF ConnectOk, Goto
<1>2. p \in Nat /\ to[p] \in Nat /\ p < to[p] /\ to[p] < N /\ round[p] = p /\ N \in Nat
  BY <1>1, KnownAt DEF ControlAt
<1>3. to[p] \in Party
  BY <1>2, Constants
<1>4. Types
  BY KnownAt
<1>5. TypeOK'
  <2>1. slot' \in [Party -> [Party -> Party \cup {None}]]
    BY <1>1, <1>3, <1>4 DEF Types
  <2>2. \A q \in Party : slot'[q][q] = None
    BY <1>1, <1>2, <1>3, <1>4 DEF Types, Layer1, TypeOK
  <2>3. backlog' \in [Party -> Seq(Party)]
    BY <1>1, <1>3 DEF Layer1, TypeOK
  <2>4. pc' \in [Party -> PC]
    BY <1>1, <1>4 DEF PC, Types
  <2>5. to' \in [Party -> 1 .. N]
    BY <1>1, <1>2, <1>4 DEF Types
  <2>6. waited' \in [Party -> 0 .. Patience + 1] /\ refused' \in [Party -> 0 .. Patience + 1]
    BY PatienceAssumption DEF Layer1, TypeOK, ConnectOk
  <2> QED BY <1>1, <2>1, <2>2, <2>3, <2>4, <2>5, <2>6 DEF Layer1, TypeOK, ConnectOk
<1>6. pc'[p] = label /\ to'[p] = to[p] + 1
  BY <1>1, <1>4 DEF Types
<1>7. ControlAt(p)'
  BY <1>1, <1>2, <1>6 DEF ControlAt, BeforeTurn, Receiving, AfterTurn
<1>8. \A q \in Party : p < q => SenderAt(p, q)'
  <2> SUFFICES ASSUME NEW q \in Party, p < q PROVE SenderAt(p, q)'
    OBVIOUS
  <2>1. SenderAt(p, q) /\ q \in Nat
    BY KnownAt, Constants
  <2>2. slot'[p][q] = IF q = to[p] THEN q ELSE slot[p][q]
    BY <1>1, <1>3, <1>4 DEF Types
  <2> QED BY <1>2, <1>6, <2>1, <2>2 DEF SenderAt
<1>9. \A q \in Party : q < p => ReceiverAt(p, q)'
  <2> SUFFICES ASSUME NEW q \in Party, q < p PROVE ReceiverAt(p, q)'
    OBVIOUS
  <2>1. ReceiverAt(p, q) /\ q \in Nat
    BY KnownAt, Constants
  <2>2. slot'[p][q] = slot[p][q]
    BY <1>1, <1>2, <1>3, <1>4, <2>1 DEF Types
  <2> QED BY <1>1, <1>6, <2>1, <2>2 DEF ReceiverAt, Receiving
<1>10. \A q \in Party \ {p} : /\ pc'[q] = pc[q] /\ round'[q] = round[q]
                              /\ to'[q] = to[q] /\ slot'[q] = slot[q]
  BY <1>1, <1>4 DEF Types
<1> QED BY <1>5, <1>7, <1>8, <1>9, <1>10, Layer1Local

LEMMA ConnectRefusedLayer1 ==
    ASSUME Layer1, NEW p \in Party, ConnectRefused(p)
    PROVE  Layer1'
<1>1. /\ waited' = [waited EXCEPT ![p] = 1]
      /\ refused' = [refused EXCEPT ![p] = IF @ > Patience THEN @ ELSE @ + 1]
      /\ UNCHANGED <<round, to, slot>>
  BY DEF ConnectRefused, Goto, sockets
<1>2. pc' = pc
  <2>1. waited'[p] = 1
    BY <1>1 DEF Layer1, TypeOK
  <2> QED BY <2>1, PatienceAssumption DEF ConnectRefused, Goto, Layer1, TypeOK
<1>3. TypeOK'
  <2>1. waited' \in [Party -> 0 .. Patience + 1]
    BY <1>1, PatienceAssumption DEF Layer1, TypeOK
  <2>2. refused' \in [Party -> 0 .. Patience + 1]
    BY <1>1, PatienceAssumption DEF Layer1, TypeOK
  <2> QED BY <1>1, <1>2, <2>1, <2>2 DEF Layer1, TypeOK, ConnectRefused, sockets
<1> QED
  BY <1>1, <1>2, <1>3 DEF Layer1, Control, ControlAt, SenderSlots, SenderAt,
                          ReceiverSlots, ReceiverAt

\* NextRound keeps Control and ReceiverSlots when the round is over.
LEMMA NextRoundAt ==
    ASSUME Layer1, NEW p \in Party, NextRound(p), UNCHANGED <<to, slot>>,
           round[p] <= p, round[p] = p => to[p] = N,
           round[p] < p => to[p] = p + 1,
           \A q \in Party : q < p => /\ q <= round[p] => slot[p][q] # None
                                     /\ round[p] < q => slot[p][q] = None
    PROVE  /\ pc' \in [Party -> PC] /\ round' \in [Party -> 0 .. N]
           /\ ControlAt(p)'
           /\ \A q \in Party : q < p => ReceiverAt(p, q)'
<1> DEFINE next == PhaseAt(p, round[p] + 1)
<1>1. Types /\ p \in Nat /\ p < N /\ N \in Nat /\ round[p] \in Nat
  BY KnownAt
<1>2. pc' = [pc EXCEPT ![p] = next] /\ round' = [round EXCEPT ![p] = @ + 1]
  BY DEF NextRound
<1>3. round'[p] = round[p] + 1 /\ pc'[p] = next /\ round[p] + 1 \in 0 .. N
  BY <1>1, <1>2 DEF Types
<1>4. next \in PC
  BY DEF PhaseAt, PC
<1>5. pc' \in [Party -> PC] /\ round' \in [Party -> 0 .. N]
  BY <1>1, <1>2, <1>3, <1>4 DEF Types
<1>6. ControlAt(p)'
  BY <1>1, <1>3 DEF ControlAt, BeforeTurn, Receiving, AfterTurn, PhaseAt
<1>7. ASSUME NEW q \in Party, q < p PROVE ReceiverAt(p, q)'
  <2>1. q \in Nat
    BY Constants
  <2>2. /\ slot' = slot
        /\ q <= round[p] => slot[p][q] # None
        /\ round[p] < q => slot[p][q] = None
    BY <1>7
  <2>3. CASE round[p] + 1 < p
    <3>1. pc'[p] = "bind"
      BY <1>3, <2>3 DEF PhaseAt
    <3> QED BY <1>1, <1>3, <2>1, <2>2, <3>1 DEF ReceiverAt, Receiving
  <2>4. CASE ~ (round[p] + 1 < p)
    <3>1. pc'[p] \in {"connect", "to_king"} /\ q <= round[p]
      BY <1>1, <1>3, <1>7, <2>1, <2>4 DEF PhaseAt
    <3> QED BY <2>2, <3>1 DEF ReceiverAt, Receiving
  <2> QED BY <2>3, <2>4
<1> QED BY <1>5, <1>6, <1>7

\* A step that only moves p to a label outside its loops, or to "panicked".
LEMMA MoveAt ==
    ASSUME Layer1, NEW p \in Party, NEW label \in PC, Goto(p, label),
           UNCHANGED <<to, slot>>,
           ControlAt(p)', \A q \in Party : q < p => ReceiverAt(p, q)', TypeOK'
    PROVE  Layer1'
<1>1. Types /\ pc' = [pc EXCEPT ![p] = label] /\ round' = round
  BY KnownAt DEF Goto
<1>2. \A q \in Party \ {p} : /\ pc'[q] = pc[q] /\ round'[q] = round[q]
                             /\ to'[q] = to[q] /\ slot'[q] = slot[q]
  BY <1>1 DEF Types
<1>3. \A q \in Party : p < q => SenderAt(p, q)'
  BY KnownAt DEF SenderAt
<1> QED BY <1>2, <1>3, Layer1Local

LEMMA PanicLayer1 ==
    ASSUME Layer1, NEW p \in Party, Goto(p, "panicked"), UNCHANGED <<to, slot>>, TypeOK'
    PROVE  Layer1'
<1>1. "panicked" \in PC
  BY DEF PC
<1>2. pc'[p] = "panicked" /\ p < to'[p]
  BY KnownAt DEF Types, Goto, ControlAt
<1>3. ControlAt(p)'
  BY <1>2 DEF ControlAt, BeforeTurn, Receiving, AfterTurn
<1>4. \A q \in Party : q < p => ReceiverAt(p, q)'
  BY <1>2 DEF ReceiverAt, Receiving
<1> QED BY <1>1, <1>3, <1>4, MoveAt

LEMMA WriteNoteLayer1 ==
    ASSUME Layer1, NEW p \in Party, WriteNote(p)
    PROVE  Layer1'
<1>1. /\ pc[p] = "note" /\ UNCHANGED <<to, slot, listening, backlog, reset, waited, refused>>
      /\ round[p] = p /\ to[p] = N /\ p + 1 < N
  BY KnownAt DEF WriteNote, sockets, clock, ControlAt
<1>2. Types /\ p \in Nat /\ p + 1 \in Party /\ slot[p][p + 1] = p + 1
  <2>1. p + 1 \in Party /\ Types /\ p \in Nat
    BY <1>1, KnownAt, Constants
  <2>2. SenderAt(p, p + 1)
    BY <2>1, KnownAt
  <2> QED BY <1>1, <2>1, <2>2 DEF SenderAt
<1>3. pipe' \in [Party -> [Party -> Nat]]
  <2>1. pipe' = pipe \/ pipe' = [pipe EXCEPT ![p][p + 1] = @ + 1]
    BY <1>2 DEF WriteNote, Write
  <2>2. pipe \in [Party -> [Party -> Nat]]
    BY DEF Layer1, TypeOK
  <2> QED BY <1>2, <2>1, <2>2
<1>4. \/ Goto(p, "panicked")
      \/ NextRound(p)
  BY DEF WriteNote, Write
<1>5. CASE Goto(p, "panicked")
  <2>1. TypeOK'
    BY <1>1, <1>3, <1>5 DEF Goto, Layer1, TypeOK, PC
  <2> QED BY <1>1, <1>5, <2>1, PanicLayer1
<1>6. CASE NextRound(p)
  <2>1. \A q \in Party : q < p => q <= round[p] /\ slot[p][q] # None /\ ~ (round[p] < q)
    BY <1>1, <1>2, KnownAt, Constants DEF ReceiverAt, Receiving
  <2>2. /\ pc' \in [Party -> PC] /\ round' \in [Party -> 0 .. N]
        /\ ControlAt(p)'
        /\ \A q \in Party : q < p => ReceiverAt(p, q)'
    BY <1>1, <1>2, <1>6, <2>1, NextRoundAt
  <2>3. TypeOK'
    BY <1>1, <1>3, <2>2 DEF Layer1, TypeOK
  <2>4. \A q \in Party \ {p} : /\ pc'[q] = pc[q] /\ round'[q] = round[q]
                               /\ to'[q] = to[q] /\ slot'[q] = slot[q]
    BY <1>1, <1>2, <1>6 DEF NextRound, Types
  <2>5. \A q \in Party : p < q => SenderAt(p, q)'
    BY <1>1, KnownAt DEF SenderAt
  <2> QED BY <2>2, <2>3, <2>4, <2>5, Layer1Local
<1> QED BY <1>4, <1>5, <1>6

\* A step that only moves p within a round, or does not move it at all, and
\* changes neither slots nor counters of the loops.
LEMMA BindLayer1 ==
    ASSUME Layer1, NEW p \in Party, Bind(p)
    PROVE  Layer1'
<1>1. /\ pc[p] = "bind" /\ Goto(p, "accept") /\ listening' = [listening EXCEPT ![p] = TRUE]
      /\ UNCHANGED <<to, slot, backlog, reset, pipe, waited, refused>>
  BY DEF Bind, clock
<1>2. pc' = [pc EXCEPT ![p] = "accept"] /\ round' = round /\ pc'[p] = "accept" /\ "accept" \in PC
  BY <1>1, KnownAt DEF Goto, Types, PC
<1>3. TypeOK'
  BY <1>1, <1>2 DEF Layer1, TypeOK
<1>4. ControlAt(p)'
  BY <1>1, <1>2, KnownAt DEF ControlAt, BeforeTurn, Receiving, AfterTurn
<1>5. \A q \in Party : q < p => ReceiverAt(p, q)'
  BY <1>1, <1>2, KnownAt DEF ReceiverAt, Receiving
<1> QED BY <1>1, <1>2, <1>3, <1>4, <1>5, MoveAt

LEMMA AcceptLayer1 ==
    ASSUME Layer1, NEW p \in Party, Accept(p)
    PROVE  Layer1'
<1>1. /\ pc[p] = "accept" /\ pc' = [pc EXCEPT ![p] = "close"] /\ round' = round
      /\ backlog[p] # <<>>
      /\ slot' = [slot EXCEPT ![p][round[p]] = Head(backlog[p])]
      /\ backlog' = [backlog EXCEPT ![p] = Tail(@)]
      /\ UNCHANGED <<to, listening, reset, pipe, waited, refused>>
  BY DEF Accept, Goto, clock
<1>2. p \in Nat /\ p < N /\ N \in Nat /\ round[p] \in Nat /\ round[p] < p /\ to[p] = p + 1
  BY <1>1, KnownAt DEF ControlAt, Receiving, BeforeTurn
<1>3. round[p] \in Party
  BY <1>2, Constants
<1>4. backlog[p] \in Seq(Party) /\ Head(backlog[p]) \in Party /\ Tail(backlog[p]) \in Seq(Party)
  BY <1>1 DEF Layer1, TypeOK
<1>5. Types
  BY KnownAt
<1>6. TypeOK'
  <2>1. slot' \in [Party -> [Party -> Party \cup {None}]]
    BY <1>1, <1>3, <1>4, <1>5 DEF Types
  <2>2. \A q \in Party : slot'[q][q] = None
    BY <1>1, <1>2, <1>3, <1>5 DEF Types, Layer1, TypeOK
  <2>3. backlog' \in [Party -> Seq(Party)]
    BY <1>1, <1>4 DEF Layer1, TypeOK
  <2>4. pc' \in [Party -> PC]
    BY <1>1, <1>5 DEF PC, Types
  <2> QED BY <1>1, <2>1, <2>2, <2>3, <2>4 DEF Layer1, TypeOK
<1>7. pc'[p] = "close"
  BY <1>1, <1>5 DEF Types
<1>8. ControlAt(p)'
  BY <1>1, <1>2, <1>7 DEF ControlAt, BeforeTurn, Receiving, AfterTurn
<1>9. \A q \in Party : p < q => SenderAt(p, q)'
  <2> SUFFICES ASSUME NEW q \in Party, p < q PROVE SenderAt(p, q)'
    OBVIOUS
  <2>1. SenderAt(p, q) /\ q \in Nat
    BY KnownAt, Constants
  <2>2. slot'[p][q] = slot[p][q]
    BY <1>1, <1>2, <1>5, <2>1 DEF Types
  <2> QED BY <1>1, <2>1, <2>2 DEF SenderAt
<1>10. \A q \in Party : q < p => ReceiverAt(p, q)'
  <2> SUFFICES ASSUME NEW q \in Party, q < p PROVE ReceiverAt(p, q)'
    OBVIOUS
  <2>1. ReceiverAt(p, q) /\ q \in Nat
    BY KnownAt, Constants
  <2>2. slot'[p][q] = IF q = round[p] THEN Head(backlog[p]) ELSE slot[p][q]
    BY <1>1, <1>3, <1>5 DEF Types
  <2>3. Head(backlog[p]) # None
    BY <1>4, Constants
  <2> QED BY <1>1, <1>7, <2>1, <2>2, <2>3 DEF ReceiverAt, Receiving
<1>11. \A q \in Party \ {p} : /\ pc'[q] = pc[q] /\ round'[q] = round[q]
                             /\ to'[q] = to[q] /\ slot'[q] = slot[q]
  BY <1>1, <1>5 DEF Types
<1> QED BY <1>6, <1>8, <1>9, <1>10, <1>11, Layer1Local

\* Moving on to the next round, for a receiver that has filled its slot.
LEMMA ReceiverNextRound ==
    ASSUME Layer1, NEW p \in Party, pc[p] \in {"close", "await_note"}, NextRound(p),
           UNCHANGED <<to, slot, waited, refused>>,
           pipe' \in [Party -> [Party -> Nat]], listening' \in [Party -> BOOLEAN],
           backlog' \in [Party -> Seq(Party)], reset' \subseteq Party \X Party
    PROVE  Layer1'
<1>1. /\ Types /\ p \in Nat /\ p < N /\ N \in Nat /\ round[p] \in Nat
      /\ round[p] < p /\ to[p] = p + 1
  <2>1. Types /\ p \in Nat /\ p < N /\ N \in Nat /\ round[p] \in Nat /\ ControlAt(p)
    BY KnownAt
  <2>2. pc[p] = "await_note" => p - 1 < p
    BY <2>1
  <2>3. round[p] < p
    BY <2>1, <2>2 DEF ControlAt, Receiving
  <2>4. to[p] = p + 1
    BY <2>1 DEF ControlAt, BeforeTurn
  <2> QED BY <2>1, <2>3, <2>4
<1>2. \A q \in Party : q < p => (q <= round[p] => slot[p][q] # None)
                              /\ (round[p] < q => slot[p][q] = None)
  <2> SUFFICES ASSUME NEW q \in Party, q < p
               PROVE  (q <= round[p] => slot[p][q] # None) /\ (round[p] < q => slot[p][q] = None)
    OBVIOUS
  <2>1. ReceiverAt(p, q) /\ ControlAt(p) /\ q \in Nat
    BY KnownAt, Constants
  <2> QED BY <1>1, <2>1 DEF ReceiverAt, ControlAt, Receiving
<1>3. /\ pc' \in [Party -> PC] /\ round' \in [Party -> 0 .. N]
      /\ ControlAt(p)'
      /\ \A q \in Party : q < p => ReceiverAt(p, q)'
  <2>1. round[p] <= p /\ round[p] # p
    BY <1>1
  <2>2. UNCHANGED <<to, slot>>
    OBVIOUS
  <2> QED BY <1>1, <1>2, <2>1, <2>2, NextRoundAt
<1>4. TypeOK'
  BY <1>3 DEF Layer1, TypeOK
<1>5. \A q \in Party \ {p} : /\ pc'[q] = pc[q] /\ round'[q] = round[q]
                            /\ to'[q] = to[q] /\ slot'[q] = slot[q]
  BY <1>1 DEF NextRound, Types
<1>6. \A q \in Party : p < q => SenderAt(p, q)'
  BY KnownAt DEF SenderAt
<1> QED BY <1>3, <1>4, <1>5, <1>6, Layer1Local

LEMMA CloseLayer1 ==
    ASSUME Layer1, NEW p \in Party, Close(p)
    PROVE  Layer1'
<1>1. /\ pc[p] = "close"
      /\ UNCHANGED <<to, slot, pipe, waited, refused>>
      /\ listening' = [listening EXCEPT ![p] = FALSE]
      /\ backlog' = [backlog EXCEPT ![p] = <<>>]
      /\ reset' = reset \cup {<<backlog[p][i], p>> : i \in 1 .. Len(backlog[p])}
  BY DEF Close, clock
<1>2. /\ pipe' \in [Party -> [Party -> Nat]] /\ listening' \in [Party -> BOOLEAN]
      /\ backlog' \in [Party -> Seq(Party)]
  BY <1>1 DEF Layer1, TypeOK
<1>3. reset' \subseteq Party \X Party
  <2>1. reset \subseteq Party \X Party /\ backlog[p] \in Seq(Party)
    BY DEF Layer1, TypeOK
  <2>2. ASSUME NEW i \in 1 .. Len(backlog[p]) PROVE backlog[p][i] \in Party
    BY <2>1
  <2>3. ASSUME NEW i \in 1 .. Len(backlog[p])
        PROVE  <<backlog[p][i], p>> \in Party \X Party
    BY <2>2
  <2> QED BY <1>1, <2>1, <2>3
<1>4. CASE p = round[p] + 1
  <2>1. Goto(p, "await_note")
    BY <1>4 DEF Close
  <2>2. /\ pc' = [pc EXCEPT ![p] = "await_note"] /\ round' = round
        /\ pc'[p] = "await_note" /\ "await_note" \in PC
    BY <2>1, KnownAt DEF Goto, Types, PC
  <2>3. TypeOK'
    BY <1>1, <1>2, <1>3, <2>2 DEF Layer1, TypeOK
  <2>4. ControlAt(p)'
    BY <1>1, <1>4, <2>2, KnownAt DEF ControlAt, BeforeTurn, Receiving, AfterTurn
  <2>5. \A q \in Party : q < p => ReceiverAt(p, q)'
    <3> SUFFICES ASSUME NEW q \in Party, q < p PROVE ReceiverAt(p, q)'
      OBVIOUS
    <3>1. ReceiverAt(p, q) /\ q \in Nat /\ p \in Nat /\ round[p] \in Nat
      BY KnownAt, Constants
    <3>2. slot[p][q] # None
      BY <1>1, <1>4, <3>1 DEF ReceiverAt, Receiving
    <3> QED BY <1>1, <2>2, <3>2 DEF ReceiverAt, Receiving
  <2> QED BY <1>1, <2>1, <2>2, <2>3, <2>4, <2>5, MoveAt
<1>5. CASE p # round[p] + 1
  <2>1. NextRound(p)
    BY <1>5 DEF Close
  <2> QED BY <1>1, <1>2, <1>3, <2>1, ReceiverNextRound
<1> QED BY <1>4, <1>5

LEMMA ReadNoteLayer1 ==
    ASSUME Layer1, NEW p \in Party, ReadNote(p)
    PROVE  Layer1'
<1>1. /\ pc[p] = "await_note" /\ NextRound(p)
      /\ pipe[slot[p][p - 1]][p] > 0
      /\ pipe' = [pipe EXCEPT ![slot[p][p - 1]][p] = @ - 1]
      /\ UNCHANGED <<to, slot, listening, backlog, reset, waited, refused>>
  BY DEF ReadNote, sockets, clock
<1>2. p > 0 /\ p - 1 \in Party /\ p - 1 < p
  BY <1>1, KnownAt, Constants DEF ControlAt
<1>3. slot[p][p - 1] \in Party
  <2>1. ReceiverAt(p, p - 1) /\ Types
    BY <1>2, KnownAt
  <2> QED BY <1>1, <1>2, <2>1 DEF ReceiverAt, Types, Receiving
<1>4. pipe' \in [Party -> [Party -> Nat]]
  <2>1. pipe \in [Party -> [Party -> Nat]]
    BY DEF Layer1, TypeOK
  <2> QED BY <1>1, <1>3, <2>1
<1>5. /\ listening' \in [Party -> BOOLEAN] /\ backlog' \in [Party -> Seq(Party)]
      /\ reset' \subseteq Party \X Party
  BY <1>1 DEF Layer1, TypeOK
<1> QED BY <1>1, <1>4, <1>5, ReceiverNextRound

\* After its turn, a party has filled its slot for the king.
LEMMA KingSlot ==
    ASSUME Layer1, NEW p \in Party \ {King}, pc[p] \in {"to_king", "from_king"}
    PROVE  slot[p][King] \in Party
<1>1. King < p /\ King \in Party /\ p \in Party
  BY Constants DEF King
<1>2. ReceiverAt(p, King) /\ Types
  BY <1>1, KnownAt
<1> QED BY <1>1, <1>2 DEF ReceiverAt, Types, Receiving

\* Moving among the labels of the king's round.
LEMMA AfterTurnMove ==
    ASSUME Layer1, NEW p \in Party, NEW label \in AfterTurn, pc[p] \in AfterTurn,
           Goto(p, label), UNCHANGED <<to, slot>>, TypeOK'
    PROVE  Layer1'
<1>1. pc'[p] = label /\ round' = round /\ label \in PC
  BY KnownAt DEF Goto, Types, AfterTurn, PC
<1>2. ControlAt(p)'
  BY <1>1, KnownAt DEF ControlAt, BeforeTurn, Receiving, AfterTurn
<1>3. \A q \in Party : q < p => ReceiverAt(p, q)'
  BY <1>1, KnownAt DEF ReceiverAt, Receiving, AfterTurn
<1> QED BY <1>1, <1>2, <1>3, MoveAt

LEMMA SendToKingLayer1 ==
    ASSUME Layer1, NEW p \in Party, SendToKing(p)
    PROVE  Layer1'
<1>1. /\ pc[p] = "to_king" /\ p # King
      /\ UNCHANGED <<to, slot, listening, backlog, reset, waited, refused>>
  BY DEF SendToKing, sockets, clock
<1>2. slot[p][King] \in Party
  BY <1>1, KingSlot
<1>3. pipe' \in [Party -> [Party -> Nat]]
  <2>1. pipe' = pipe \/ pipe' = [pipe EXCEPT ![p][slot[p][King]] = @ + 1]
    BY DEF SendToKing, Write
  <2>2. pipe \in [Party -> [Party -> Nat]]
    BY DEF Layer1, TypeOK
  <2> QED BY <1>2, <2>1, <2>2
<1>4. CASE Goto(p, "panicked")
  <2>1. TypeOK'
    BY <1>1, <1>3, <1>4 DEF Goto, Layer1, TypeOK, PC
  <2> QED BY <1>1, <1>4, <2>1, PanicLayer1
<1>5. CASE Goto(p, "from_king")
  <2>1. TypeOK'
    BY <1>1, <1>3, <1>5 DEF Goto, Layer1, TypeOK, PC
  <2>2. pc[p] \in AfterTurn /\ "from_king" \in AfterTurn
    BY <1>1 DEF AfterTurn
  <2> QED BY <1>1, <1>5, <2>1, <2>2, AfterTurnMove
<1> QED BY <1>4, <1>5 DEF SendToKing, Write

LEMMA KingRoundLayer1 ==
    ASSUME Layer1, KingRound
    PROVE  Layer1'
<1>1. /\ pc[King] = "to_king" /\ Goto(King, "done") /\ King \in Party
      /\ \A q \in Party \ {King} : pipe[q][King] > 0
      /\ UNCHANGED <<to, slot, listening, backlog, reset, waited, refused>>
  BY Constants DEF KingRound, sockets, clock
<1>2. pipe' \in [Party -> [Party -> Nat]]
  <2>1. pipe \in [Party -> [Party -> Nat]]
    BY DEF Layer1, TypeOK
  <2>2. ASSUME NEW a \in Party, NEW b \in Party
        PROVE  (IF b = King /\ a # King THEN pipe[a][b] - 1
                ELSE IF a = King /\ b # King THEN pipe[a][b] + 1 ELSE pipe[a][b]) \in Nat
    BY <1>1, <2>1
  <2> QED BY <2>2 DEF KingRound
<1>3. TypeOK'
  BY <1>1, <1>2 DEF Goto, Layer1, TypeOK, PC
<1>4. pc[King] \in AfterTurn /\ "done" \in AfterTurn
  BY <1>1 DEF AfterTurn
<1> QED BY <1>1, <1>3, <1>4, AfterTurnMove

LEMMA RecvFromKingLayer1 ==
    ASSUME Layer1, NEW p \in Party, RecvFromKing(p)
    PROVE  Layer1'
<1>1. /\ pc[p] = "from_king" /\ p # King /\ pipe[slot[p][King]][p] > 0
      /\ pipe' = [pipe EXCEPT ![slot[p][King]][p] = @ - 1]
      /\ UNCHANGED <<to, slot, listening, backlog, reset, waited, refused>>
      /\ Goto(p, "panicked") \/ Goto(p, "done")
  BY DEF RecvFromKing, sockets, clock
<1>2. slot[p][King] \in Party
  BY <1>1, KingSlot
<1>3. pipe' \in [Party -> [Party -> Nat]]
  <2>1. pipe \in [Party -> [Party -> Nat]]
    BY DEF Layer1, TypeOK
  <2> QED BY <1>1, <1>2, <2>1
<1>4. TypeOK'
  BY <1>1, <1>3 DEF Goto, Layer1, TypeOK, PC
<1>5. pc[p] \in AfterTurn /\ "done" \in AfterTurn
  BY <1>1 DEF AfterTurn
<1> QED BY <1>1, <1>4, <1>5, AfterTurnMove, PanicLayer1

LEMMA ReadFailsLayer1 ==
    ASSUME Layer1, NEW p \in Party, ReadFails(p)
    PROVE  Layer1'
<1>1. /\ Goto(p, "panicked")
      /\ UNCHANGED <<to, slot, listening, backlog, reset, pipe, waited, refused>>
  BY DEF ReadFails, sockets, clock
<1>2. TypeOK'
  BY <1>1 DEF Goto, Layer1, TypeOK, PC
<1> QED BY <1>1, <1>2, PanicLayer1

LEMMA Layer1Init == Init => Layer1
<1> SUFFICES ASSUME Init PROVE Layer1
  OBVIOUS
<1>1. TypeOK
  BY Constants, PatienceAssumption DEF Init, TypeOK, PC
<1>2. Control
  BY Constants DEF Init, Control, ControlAt, BeforeTurn, Receiving, AfterTurn
<1>3. SenderSlots
  BY Constants DEF Init, SenderSlots, SenderAt
<1>4. ReceiverSlots
  BY Constants DEF Init, ReceiverSlots, ReceiverAt, Receiving
<1> QED BY <1>1, <1>2, <1>3, <1>4 DEF Layer1

LEMMA Layer1Step == Layer1 /\ [Next]_vars => Layer1'
<1> SUFFICES ASSUME Layer1, [Next]_vars PROVE Layer1'
  OBVIOUS
<1>1. CASE UNCHANGED vars
  <2>1. TypeOK'
    BY <1>1 DEF vars, Layer1, TypeOK
  <2>2. Control'
    BY <1>1 DEF vars, Layer1, Control, ControlAt
  <2>3. SenderSlots'
    BY <1>1 DEF vars, Layer1, SenderSlots, SenderAt
  <2>4. ReceiverSlots'
    BY <1>1 DEF vars, Layer1, ReceiverSlots, ReceiverAt
  <2> QED BY <2>1, <2>2, <2>3, <2>4 DEF Layer1
<1>2. ASSUME NEW p \in Party, Start(p) \/ Step(p) PROVE Layer1'
  BY <1>2, StartLayer1, ConnectOkLayer1, ConnectRefusedLayer1, WriteNoteLayer1, BindLayer1,
     AcceptLayer1, CloseLayer1, ReadNoteLayer1, SendToKingLayer1, KingRoundLayer1,
     RecvFromKingLayer1, ReadFailsLayer1 DEF Step
<1> QED BY <1>1, <1>2 DEF Next

\* Every state has the declared types: slots and counters stay in range.
THEOREM TypeCorrect == Spec => []TypeOK
<1>1. Spec => []Layer1
  BY Layer1Init, Layer1Step, PTL DEF Spec
<1>2. Layer1 => TypeOK
  BY DEF Layer1
<1> QED BY <1>1, <1>2, PTL

-----------------------------------------------------------------------------
(* The second layer: turns, and the order of connections.                  *)

\* A step that begins no turn, moves no connection and writes to a higher
\* party only after the turn.
LEMMA TurnsQuiet ==
    ASSUME Layer1, Turns, UNCHANGED to,
           \A q \in Party : Sending(q)' => Sending(q),
           \A a, b \in Party : a < b /\ pipe'[a][b] > 0 => pipe[a][b] > 0 \/ Ended(a)'
    PROVE  Turns'
<1>1. \A q \in Party : (Begun(q)' => Begun(q)) /\ (Ended(q) => Ended(q)')
  BY DEF Begun, Ended
<1>2. \A a, b \in Party : b < a /\ Begun(a)' => Ended(b)'
  BY <1>1 DEF Turns
<1>3. \A a, b \in Party : a < b /\ pipe'[a][b] > 0 => Ended(a)'
  BY <1>1 DEF Turns
<1> QED BY <1>2, <1>3 DEF Turns

LEMMA Layer2Quiet ==
    ASSUME Layer1, Layer2, UNCHANGED <<to, slot, backlog>>, Turns'
    PROVE  Layer2'
<1>1. Filed'
  BY DEF Layer2, Filed
<1>2. Pending'
  BY DEF Layer2, Pending
<1> QED BY <1>1, <1>2 DEF Layer2

\* Only the sender of a turn is at "connect" or "note".
LEMMA StillSending ==
    ASSUME Layer1, NEW p \in Party, NEW label \in PC, Goto(p, label),
           label \notin {"connect", "note"}
    PROVE  \A q \in Party : Sending(q)' => Sending(q)
BY KnownAt DEF Goto, Types, Sending

LEMMA ConnectRefusedLayer2 ==
    ASSUME Layer1, Layer2, NEW p \in Party, ConnectRefused(p)
    PROVE  Layer2'
<1>1. UNCHANGED <<to, slot, backlog, pipe>>
  BY DEF ConnectRefused, sockets
<1>2. \A q \in Party : Sending(q)' => Sending(q)
  BY KnownAt DEF ConnectRefused, Goto, Types, Sending
<1> QED BY <1>1, <1>2, TurnsQuiet, Layer2Quiet DEF Layer2

LEMMA BindLayer2 ==
    ASSUME Layer1, Layer2, NEW p \in Party, Bind(p)
    PROVE  Layer2'
<1>1. UNCHANGED <<to, slot, backlog, pipe>> /\ Goto(p, "accept") /\ "accept" \in PC
  BY DEF Bind, PC
<1> QED BY <1>1, StillSending, TurnsQuiet, Layer2Quiet DEF Layer2

LEMMA ReadFailsLayer2 ==
    ASSUME Layer1, Layer2, NEW p \in Party, ReadFails(p)
    PROVE  Layer2'
<1>1. UNCHANGED <<to, slot, backlog, pipe>> /\ Goto(p, "panicked") /\ "panicked" \in PC
  BY DEF ReadFails, sockets, PC
<1> QED BY <1>1, StillSending, TurnsQuiet, Layer2Quiet DEF Layer2

LEMMA RecvFromKingLayer2 ==
    ASSUME Layer1, Layer2, NEW p \in Party, RecvFromKing(p)
    PROVE  Layer2'
<1>1. /\ UNCHANGED <<to, slot, backlog>>
      /\ Goto(p, "panicked") \/ Goto(p, "done")
      /\ pipe' = [pipe EXCEPT ![slot[p][King]][p] = @ - 1]
      /\ pipe[slot[p][King]][p] > 0
      /\ pc[p] = "from_king" /\ p # King
  BY DEF RecvFromKing, sockets
<1>2. slot[p][King] \in Party /\ pipe \in [Party -> [Party -> Nat]]
  BY <1>1, KingSlot DEF Layer1, TypeOK
<1>3. \A a, b \in Party : pipe'[a][b] > 0 => pipe[a][b] > 0
  BY <1>1, <1>2
<1>4. \A q \in Party : Sending(q)' => Sending(q)
  BY <1>1, StillSending DEF PC
<1> QED BY <1>1, <1>3, <1>4, TurnsQuiet, Layer2Quiet DEF Layer2

LEMMA SendToKingLayer2 ==
    ASSUME Layer1, Layer2, NEW p \in Party, SendToKing(p)
    PROVE  Layer2'
<1>1. /\ UNCHANGED <<to, slot, backlog>>
      /\ Goto(p, "panicked") \/ Goto(p, "from_king")
      /\ pipe' = pipe \/ pipe' = [pipe EXCEPT ![p][slot[p][King]] = @ + 1]
      /\ pc[p] = "to_king" /\ p # King
  BY DEF SendToKing, Write, sockets
<1>2. slot[p][King] \in Party /\ pipe \in [Party -> [Party -> Nat]]
  BY <1>1, KingSlot DEF Layer1, TypeOK
<1>3. slot[p][King] < p
  BY <1>1, <1>2, Constants DEF King, Layer2, Filed
<1>4. \A a, b \in Party : a < b => pipe'[a][b] = pipe[a][b]
  BY <1>1, <1>2, <1>3, Constants
<1>5. \A q \in Party : Sending(q)' => Sending(q)
  BY <1>1, StillSending DEF PC
<1> QED BY <1>1, <1>4, <1>5, TurnsQuiet, Layer2Quiet DEF Layer2

LEMMA KingRoundLayer2 ==
    ASSUME Layer1, Layer2, KingRound
    PROVE  Layer2'
<1>1. /\ UNCHANGED <<to, slot, backlog>> /\ Goto(King, "done") /\ King \in Party
      /\ pc[King] = "to_king" /\ "done" \in PC
  BY Constants DEF KingRound, sockets, PC
<1>2. Ended(King)'
  <2>1. to[King] = N /\ pc'[King] = "done"
    BY <1>1, KnownAt DEF ControlAt, AfterTurn, Goto, Types
  <2> QED BY <1>1, <2>1 DEF Ended, Sending
<1>3. \A a, b \in Party : a < b /\ pipe'[a][b] > 0 => pipe[a][b] > 0 \/ Ended(a)'
  BY <1>1, <1>2, Constants DEF KingRound, King
<1> QED BY <1>1, <1>3, StillSending, TurnsQuiet, Layer2Quiet DEF Layer2

LEMMA WriteNoteLayer2 ==
    ASSUME Layer1, Layer2, NEW p \in Party, WriteNote(p)
    PROVE  Layer2'
<1>1. /\ UNCHANGED <<to, slot, backlog>> /\ pc[p] = "note" /\ to[p] = N
      /\ p + 1 < N /\ round[p] = p /\ p \in Nat
  BY KnownAt DEF WriteNote, sockets, ControlAt
<1>2. p + 1 \in Party /\ slot[p][p + 1] = p + 1 /\ pipe \in [Party -> [Party -> Nat]]
  <2>1. p + 1 \in Party /\ p < p + 1 /\ p + 1 < to[p]
    BY <1>1, Constants
  <2>2. SenderAt(p, p + 1)
    BY <2>1, KnownAt
  <2> QED BY <2>1, <2>2 DEF SenderAt, Layer1, TypeOK
<1>3. pipe' = pipe \/ pipe' = [pipe EXCEPT ![p][p + 1] = @ + 1]
  BY <1>2 DEF WriteNote, Write
<1>4. pc' = [pc EXCEPT ![p] = "panicked"] \/ pc' = [pc EXCEPT ![p] = "to_king"]
  BY <1>1 DEF WriteNote, Write, Goto, NextRound, PhaseAt
<1>5. Ended(p)' /\ \A q \in Party : Sending(q)' => Sending(q)
  BY <1>1, <1>4, KnownAt DEF Ended, Sending, Types
<1>6. \A a, b \in Party : a < b /\ pipe'[a][b] > 0 => pipe[a][b] > 0 \/ Ended(a)'
  BY <1>2, <1>3, <1>5
<1> QED BY <1>1, <1>5, <1>6, TurnsQuiet, Layer2Quiet DEF Layer2

LEMMA StartLayer2 ==
    ASSUME Layer1, Layer2, NEW p \in Party, Start(p)
    PROVE  Layer2'
<1>1. /\ UNCHANGED <<to, slot, backlog, pipe>> /\ pc[p] = "off"
      /\ pc' = [pc EXCEPT ![p] = PhaseAt(p, 0)]
  BY DEF Start, Goto, sockets
<1>2. p \in Nat /\ p < N /\ N \in Nat /\ Types /\ to[p] = p + 1
  BY <1>1, KnownAt DEF ControlAt, BeforeTurn
<1>3. \A q \in Party : q # p => pc'[q] = pc[q]
  BY <1>1, <1>2 DEF Types
<1>4. pc'[p] = "connect" => p = 0
  BY <1>1, <1>2 DEF PhaseAt, Types
<1>5. pc'[p] # "note"
  BY <1>1, <1>2 DEF PhaseAt, Types
<1>6. ASSUME NEW a \in Party, NEW b \in Party, b < a, Begun(a)' PROVE Ended(b)'
  <2>1. a \in Nat /\ b \in Nat /\ a < N
    BY Constants
  <2>2. Begun(a)
    BY <1>1, <1>3, <1>4, <1>5, <1>6, <2>1 DEF Begun, Sending
  <2>3. Ended(b)
    BY <1>6, <2>2 DEF Layer2, Turns
  <2>4. b # p
    BY <1>2, <1>6, <2>1, <2>3 DEF Ended
  <2> QED BY <1>1, <1>3, <2>3, <2>4 DEF Ended, Sending
<1>7. ASSUME NEW a \in Party, NEW b \in Party, a < b, pipe'[a][b] > 0 PROVE Ended(a)'
  <2>1. a \in Nat /\ b \in Nat /\ b < N
    BY Constants
  <2>2. Ended(a)
    BY <1>1, <1>7 DEF Layer2, Turns
  <2>3. a # p
    BY <1>2, <1>7, <2>1, <2>2 DEF Ended
  <2> QED BY <1>1, <1>3, <2>2, <2>3 DEF Ended, Sending
<1> QED BY <1>1, <1>6, <1>7, Layer2Quiet DEF Turns

\* A filled slot holds a number.
LEMMA FilledSlot ==
    ASSUME Layer1, NEW p \in Party, NEW q \in Party, slot[p][q] # None
    PROVE  slot[p][q] \in Party /\ slot[p][q] \in Nat
<1>1. slot[p][q] \in Party \cup {None}
  BY KnownAt DEF Types
<1> QED BY <1>1, Constants

\* The note is read from the previous sender, whose turn is over.
LEMMA NoteSource ==
    ASSUME Layer1, Layer2, NEW p \in Party, pc[p] = "await_note"
    PROVE  p > 0 /\ p - 1 \in Party /\ slot[p][p - 1] = p - 1
<1>1. p > 0 /\ p \in Nat /\ p - 1 \in Party /\ p - 1 \in Nat /\ p - 1 < p
  BY KnownAt, Constants DEF ControlAt
<1>2. slot[p][p - 1] # None /\ slot[p][p - 1] \in Nat
  <2>1. ReceiverAt(p, p - 1)
    BY <1>1, KnownAt
  <2>2. slot[p][p - 1] # None
    BY <2>1 DEF ReceiverAt, Receiving
  <2> QED BY <1>1, <2>2, FilledSlot
<1>3. slot[p][p - 1] < p /\ p - 1 <= slot[p][p - 1]
  BY <1>1, <1>2 DEF Layer2, Filed
<1> QED BY <1>1, <1>2, <1>3, Constants

\* The reader of a note is next: every turn below it has ended.
LEMMA NoteTurn ==
    ASSUME Layer1, Layer2, NEW p \in Party, ReadNote(p)
    PROVE  \A q \in Party : q < p => Ended(q)
<1>1. pc[p] = "await_note" /\ pipe[slot[p][p - 1]][p] > 0
  BY DEF ReadNote
<1>2. /\ p > 0 /\ p - 1 \in Party /\ slot[p][p - 1] = p - 1
      /\ p \in Nat /\ p < N /\ N \in Nat
  BY <1>1, NoteSource, KnownAt
<1>3. Ended(p - 1) /\ Begun(p - 1)
  <2>1. Ended(p - 1)
    BY <1>1, <1>2 DEF Layer2, Turns
  <2> QED BY <1>2, <2>1 DEF Ended, Begun
<1> SUFFICES ASSUME NEW q \in Party, q < p PROVE Ended(q)
  OBVIOUS
<1>4. q \in Nat /\ (q = p - 1 \/ q < p - 1)
  BY <1>2, Constants
<1> QED BY <1>2, <1>3, <1>4 DEF Layer2, Turns

LEMMA ReadNoteLayer2 ==
    ASSUME Layer1, Layer2, NEW p \in Party, ReadNote(p)
    PROVE  Layer2'
<1>1. /\ UNCHANGED <<to, slot, backlog>> /\ pc[p] = "await_note"
      /\ pc' = [pc EXCEPT ![p] = PhaseAt(p, round[p] + 1)]
      /\ pipe[slot[p][p - 1]][p] > 0
      /\ pipe' = [pipe EXCEPT ![slot[p][p - 1]][p] = @ - 1]
  BY DEF ReadNote, NextRound, sockets
<1>2. /\ p > 0 /\ p - 1 \in Party /\ slot[p][p - 1] = p - 1
      /\ p \in Nat /\ p < N /\ N \in Nat /\ Types /\ to[p] = p + 1
  BY <1>1, NoteSource, KnownAt DEF ControlAt, BeforeTurn
<1>4. \A q \in Party : q < p => Ended(q)
  BY NoteTurn
<1>5. \A q \in Party : q # p => pc'[q] = pc[q]
  BY <1>1, <1>2 DEF Types
<1>6. ASSUME NEW a \in Party, NEW b \in Party, b < a, Begun(a)' PROVE Ended(b)'
  <2>1. a \in Nat /\ b \in Nat /\ a < N
    BY Constants
  <2>2. a = p \/ Begun(a)
    BY <1>1, <1>5, <1>6 DEF Begun, Sending
  <2>3. Ended(b)
    BY <1>4, <1>6, <2>2 DEF Layer2, Turns
  <2>4. CASE b # p
    BY <1>1, <1>5, <2>3, <2>4 DEF Ended, Sending
  <2>5. CASE b = p
    BY <1>2, <1>6, <2>1, <2>3, <2>5 DEF Ended
  <2> QED BY <2>4, <2>5
<1>7. ASSUME NEW a \in Party, NEW b \in Party, a < b, pipe'[a][b] > 0 PROVE Ended(a)'
  <2>1. a \in Nat /\ b \in Nat /\ b < N
    BY Constants
  <2>2. pipe[a][b] > 0
    BY <1>1, <1>2, <1>7 DEF Layer1, TypeOK
  <2>3. Ended(a)
    BY <1>7, <2>2 DEF Layer2, Turns
  <2>4. a # p
    BY <1>2, <1>7, <2>1, <2>3 DEF Ended
  <2> QED BY <1>1, <1>5, <2>3, <2>4 DEF Ended, Sending
<1> QED BY <1>1, <1>6, <1>7, Layer2Quiet DEF Turns

LEMMA CloseLayer2 ==
    ASSUME Layer1, Layer2, NEW p \in Party, Close(p)
    PROVE  Layer2'
<1>1. /\ UNCHANGED <<to, slot, pipe>> /\ pc[p] = "close" /\ round[p] < p
      /\ backlog' = [backlog EXCEPT ![p] = <<>>]
  BY KnownAt DEF Close, ControlAt, Receiving
<1>2. pc' = [pc EXCEPT ![p] = IF p = round[p] + 1 THEN "await_note" ELSE PhaseAt(p, round[p] + 1)]
  BY DEF Close, Goto, NextRound
<1>3. p \in Nat /\ round[p] \in Nat /\ Types
  BY KnownAt
<1>4. pc'[p] \notin {"connect", "note"}
  BY <1>1, <1>2, <1>3 DEF PhaseAt, Types
<1>5. \A q \in Party : Sending(q)' => Sending(q)
  BY <1>2, <1>3, <1>4 DEF Sending, Types
<1>6. Turns'
  BY <1>1, <1>5, TurnsQuiet DEF Layer2
<1>7. Filed'
  BY <1>1 DEF Layer2, Filed
<1>8. Pending'
  <2> SUFFICES ASSUME NEW b \in Party
               PROVE  /\ \A i \in 1 .. Len(backlog'[b]) :
                           /\ backlog'[b][i] < b /\ b < to'[backlog'[b][i]]
                           /\ \A q \in Party : q < b /\ slot'[b][q] # None
                                                 => slot'[b][q] < backlog'[b][i]
                      /\ \A i, j \in 1 .. Len(backlog'[b]) :
                           i < j => backlog'[b][i] < backlog'[b][j]
    BY DEF Pending
  <2>1. CASE b = p
    <3>1. backlog'[b] = <<>> /\ Len(backlog'[b]) = 0
      BY <1>1, <2>1 DEF Layer1, TypeOK
    <3> QED BY <3>1
  <2>2. CASE b # p
    BY <1>1, <2>2 DEF Layer2, Pending, Layer1, TypeOK
  <2> QED BY <2>1, <2>2
<1> QED BY <1>6, <1>7, <1>8 DEF Layer2

LEMMA AcceptLayer2 ==
    ASSUME Layer1, Layer2, NEW p \in Party, Accept(p)
    PROVE  Layer2'
<1> DEFINE x == Head(backlog[p])
           r == round[p]
<1>1. /\ UNCHANGED <<to, pipe>> /\ pc[p] = "accept" /\ Goto(p, "close")
      /\ backlog[p] # <<>>
      /\ slot' = [slot EXCEPT ![p][r] = x]
      /\ backlog' = [backlog EXCEPT ![p] = Tail(@)]
  BY DEF Accept
<1>2. /\ p \in Nat /\ p < N /\ N \in Nat /\ r \in Nat /\ r < p /\ Types
      /\ backlog \in [Party -> Seq(Party)]
  BY <1>1, KnownAt DEF ControlAt, Receiving, Layer1, TypeOK
<1>3. r \in Party
  BY <1>2, Constants
<1>4. /\ Len(backlog[p]) \in Nat /\ Len(backlog[p]) > 0 /\ x = backlog[p][1] /\ x \in Party
      /\ Len(Tail(backlog[p])) = Len(backlog[p]) - 1
      /\ \A i \in 1 .. Len(Tail(backlog[p])) : Tail(backlog[p])[i] = backlog[p][i + 1]
  BY <1>1, <1>2
<1>5. x < p /\ p < to[x] /\ x \in Nat
  <2>1. 1 \in 1 .. Len(backlog[p]) /\ x \in Nat
    BY <1>4, Constants
  <2>2. backlog[p][1] < p /\ p < to[backlog[p][1]]
    BY <2>1 DEF Layer2, Pending
  <2> QED BY <1>4, <2>1, <2>2
<1>6. \A q \in Party : q < p /\ slot[p][q] # None => slot[p][q] < x
  BY <1>4 DEF Layer2, Pending
\* The slots below r are filled, in order, with parties before x.
<1>7. r <= x /\ \A q \in Party : q < r => slot[p][q] + r <= x + q
  <2>1. \A q \in Party : q < r => /\ slot[p][q] # None /\ slot[p][q] \in Nat
                                 /\ q <= slot[p][q] /\ slot[p][q] < x
    <3> SUFFICES ASSUME NEW q \in Party, q < r
                 PROVE  /\ slot[p][q] # None /\ slot[p][q] \in Nat
                        /\ q <= slot[p][q] /\ slot[p][q] < x
      OBVIOUS
    <3>1. q \in Nat /\ q < p
      BY <1>2, Constants
    <3>2. slot[p][q] # None
      BY <1>1, <3>1, KnownAt DEF ReceiverAt, Receiving
    <3>3. slot[p][q] \in Nat
      BY <3>2, FilledSlot
    <3> QED BY <1>6, <3>1, <3>2, <3>3 DEF Layer2, Filed
  <2>2. CASE r = 0
    BY <1>5, <2>2, Constants
  <2>3. CASE r > 0
    <3>1. r - 1 \in Party /\ r - 1 < r
      BY <1>2, <2>3, Constants
    <3>2. slot[p][r - 1] \in Nat /\ r - 1 <= slot[p][r - 1] /\ slot[p][r - 1] < x
      BY <2>1, <3>1
    <3>3. r <= x
      BY <1>2, <1>5, <3>2
    <3>4. ASSUME NEW q \in Party, q < r PROVE slot[p][q] + r <= x + q
      <4>1. q \in Nat /\ slot[p][q] \in Nat /\ slot[p][q] # None
        BY <2>1, <3>4, Constants
      <4>2. CASE q = r - 1
        BY <1>2, <1>5, <3>2, <4>1, <4>2
      <4>3. CASE q < r - 1
        <5>1. slot[p][r - 1] # None /\ r - 1 < p
          BY <1>2, <2>1, <3>1
        <5>2. slot[p][q] + (r - 1) <= slot[p][r - 1] + q
          BY <3>1, <4>1, <4>3, <5>1 DEF Layer2, Filed
        <5>3. \A a, b, c, d, e \in Nat :
                a + (b - 1) <= c + d /\ c < e => a + b <= e + d
          OBVIOUS
        <5> QED BY <1>2, <1>5, <3>2, <4>1, <5>2, <5>3
      <4> QED BY <1>2, <3>4, <4>1, <4>2, <4>3
    <3> QED BY <3>3, <3>4
  <2> QED BY <1>2, <2>2, <2>3
<1>8. \A q \in Party : slot'[p][q] = IF q = r THEN x ELSE slot[p][q]
  BY <1>1, <1>2, <1>3 DEF Types
<1>9. \A a \in Party : a # p => slot'[a] = slot[a] /\ backlog'[a] = backlog[a]
  BY <1>1, <1>2 DEF Types
<1>10. Turns'
  BY <1>1, StillSending, TurnsQuiet DEF Layer2, PC
<1>11. Filed'
  <2>1. ASSUME NEW a \in Party, NEW q \in Party, q < a, slot'[a][q] # None
        PROVE  slot'[a][q] < a /\ q <= slot'[a][q] /\ a < to'[slot'[a][q]]
    BY <1>1, <1>5, <1>7, <1>8, <1>9, <2>1 DEF Layer2, Filed
  <2>2. ASSUME NEW a \in Party, NEW q \in Party, NEW s \in Party, q < s, s < a,
               slot'[a][q] # None, slot'[a][s] # None
        PROVE  slot'[a][q] + s <= slot'[a][s] + q /\ slot'[a][q] < slot'[a][s]
    <3>1. CASE a # p
      BY <1>9, <2>2, <3>1 DEF Layer2, Filed
    <3>2. CASE a = p
      <4>1. q \in Nat /\ s \in Nat /\ q < p /\ s < p
        BY <2>2, <3>2, Constants
      <4>2. r < s => slot[p][s] = None
        BY <1>1, <4>1, KnownAt DEF ReceiverAt, Receiving
      <4>3. s <= r
        BY <1>2, <1>8, <2>2, <3>2, <4>1, <4>2
      <4>4. CASE s = r
        BY <1>6, <1>7, <1>8, <2>2, <3>2, <4>1, <4>4
      <4>5. CASE s < r
        BY <1>8, <2>2, <3>2, <4>1, <4>5 DEF Layer2, Filed
      <4> QED BY <1>2, <4>1, <4>3, <4>4, <4>5
    <3> QED BY <3>1, <3>2
  <2> QED BY <2>1, <2>2 DEF Filed
<1>12. Pending'
  <2> SUFFICES ASSUME NEW b \in Party
               PROVE  /\ \A i \in 1 .. Len(backlog'[b]) :
                           /\ backlog'[b][i] < b /\ b < to'[backlog'[b][i]]
                           /\ \A q \in Party : q < b /\ slot'[b][q] # None
                                                 => slot'[b][q] < backlog'[b][i]
                      /\ \A i, j \in 1 .. Len(backlog'[b]) :
                           i < j => backlog'[b][i] < backlog'[b][j]
    BY DEF Pending
  <2>1. CASE b # p
    BY <1>1, <1>9, <2>1 DEF Layer2, Pending
  <2>2. CASE b = p
    <3>1. backlog'[b] = Tail(backlog[p])
      BY <1>1, <1>2, <2>2
    <3>2. ASSUME NEW i \in 1 .. Len(backlog'[b])
          PROVE  i + 1 \in 1 .. Len(backlog[p]) /\ backlog'[b][i] = backlog[p][i + 1]
      BY <1>4, <3>1, <3>2
    <3>3. ASSUME NEW i \in 1 .. Len(backlog'[b])
          PROVE  /\ backlog'[b][i] < b /\ b < to'[backlog'[b][i]]
                 /\ x < backlog'[b][i]
      <4>1. 1 \in 1 .. Len(backlog[p]) /\ 1 < i + 1
        BY <1>4, <3>1, <3>3
      <4> QED BY <1>1, <1>4, <2>2, <3>2, <4>1 DEF Layer2, Pending
    <3>4. ASSUME NEW i \in 1 .. Len(backlog'[b]), NEW q \in Party, q < b, slot'[b][q] # None
          PROVE  slot'[b][q] < backlog'[b][i]
      <4>1. CASE q = r
        BY <1>8, <2>2, <3>3, <4>1
      <4>2. CASE q # r
        BY <1>8, <2>2, <3>2, <3>4, <4>2 DEF Layer2, Pending
      <4> QED BY <4>1, <4>2
    <3>5. ASSUME NEW i \in 1 .. Len(backlog'[b]), NEW j \in 1 .. Len(backlog'[b]), i < j
          PROVE  backlog'[b][i] < backlog'[b][j]
      <4>1. i + 1 < j + 1
        BY <1>4, <3>1, <3>5
      <4> QED BY <3>2, <4>1 DEF Layer2, Pending
    <3> QED BY <3>3, <3>4, <3>5
  <2> QED BY <2>1, <2>2
<1> QED BY <1>10, <1>11, <1>12 DEF Layer2

\* A connection to to[p] that is already open was opened by a party below p.
LEMMA OpenedBefore ==
    ASSUME Layer1, Turns, NEW p \in Party, pc[p] = "connect",
           NEW x \in Party, x < to[p], to[p] < to[x]
    PROVE  x < p
<1>1. x \in Nat /\ p \in Nat /\ to[p] \in Nat /\ to[x] \in Nat
  BY KnownAt
<1>2. Sending(p) /\ Begun(x)
  BY <1>1 DEF Sending, Begun
<1>3. ~ (p < x)
  BY <1>2 DEF Turns, Ended
<1>4. x # p
  BY <1>1
<1> QED BY <1>1, <1>3, <1>4

LEMMA ConnectOkLayer2 ==
    ASSUME Layer1, Layer2, NEW p \in Party, ConnectOk(p)
    PROVE  Layer2'
<1> DEFINE b == to[p]
<1>1. /\ pc[p] = "connect" /\ UNCHANGED pipe
      /\ pc' = [pc EXCEPT ![p] = IF b + 1 = N THEN "note" ELSE "connect"]
      /\ slot' = [slot EXCEPT ![p][b] = b]
      /\ to' = [to EXCEPT ![p] = @ + 1]
      /\ backlog' = [backlog EXCEPT ![b] = Append(@, p)]
  BY DEF ConnectOk, Goto
<1>2. p \in Nat /\ b \in Nat /\ p < b /\ b < N /\ N \in Nat
  BY <1>1, KnownAt DEF ControlAt
<1>3. b \in Party /\ Types /\ backlog \in [Party -> Seq(Party)]
  BY <1>2, KnownAt, Constants DEF Layer1, TypeOK
<1>4. /\ \A a \in Party : to[a] \in Nat /\ to'[a] = IF a = p THEN b + 1 ELSE to[a]
      /\ \A a \in Party : a # p => pc'[a] = pc[a]
      /\ Sending(p) /\ Sending(p)'
  BY <1>1, <1>3, KnownAt DEF Types, Sending
<1>5. \A a, q \in Party : q < a => slot'[a][q] = slot[a][q]
  <2> SUFFICES ASSUME NEW a \in Party, NEW q \in Party, q < a
               PROVE  slot'[a][q] = slot[a][q]
    OBVIOUS
  <2>1. a = p => q # b
    BY <1>2, Constants
  <2> QED BY <1>1, <1>3, <2>1 DEF Types
<1>6. \A a, c \in Party : c < to[a] => c < to'[a]
  BY <1>2, <1>4, Constants
<1>7. Turns'
  <2>1. ASSUME NEW a \in Party PROVE (Begun(a)' => Begun(a)) /\ (Ended(a) => Ended(a)')
    BY <1>4 DEF Begun, Ended, Sending
  <2>2. \A a, c \in Party : c < a /\ Begun(a)' => Ended(c)'
    BY <2>1 DEF Layer2, Turns
  <2>3. \A a, c \in Party : a < c /\ pipe'[a][c] > 0 => Ended(a)'
    BY <1>1, <2>1 DEF Layer2, Turns
  <2> QED BY <2>2, <2>3 DEF Turns
<1>8. Filed'
  <2>1. ASSUME NEW a \in Party, NEW q \in Party, q < a, slot'[a][q] # None
        PROVE  slot'[a][q] < a /\ q <= slot'[a][q] /\ a < to'[slot'[a][q]]
    <3>1. slot'[a][q] = slot[a][q] /\ slot[a][q] \in Party
      BY <1>5, <2>1, FilledSlot
    <3>2. slot[a][q] < a /\ q <= slot[a][q] /\ a < to[slot[a][q]]
      BY <2>1, <3>1 DEF Layer2, Filed
    <3> QED BY <1>6, <3>1, <3>2
  <2>2. ASSUME NEW a \in Party, NEW q \in Party, NEW r \in Party, q < r, r < a,
               slot'[a][q] # None, slot'[a][r] # None
        PROVE  slot'[a][q] + r <= slot'[a][r] + q /\ slot'[a][q] < slot'[a][r]
    <3>1. q < a
      BY <2>2, Constants
    <3> QED BY <1>5, <2>2, <3>1 DEF Layer2, Filed
  <2> QED BY <2>1, <2>2 DEF Filed
<1>9. Pending'
  <2> SUFFICES ASSUME NEW a \in Party
               PROVE  /\ \A i \in 1 .. Len(backlog'[a]) :
                           /\ backlog'[a][i] < a /\ a < to'[backlog'[a][i]]
                           /\ \A q \in Party : q < a /\ slot'[a][q] # None
                                                 => slot'[a][q] < backlog'[a][i]
                      /\ \A i, j \in 1 .. Len(backlog'[a]) :
                           i < j => backlog'[a][i] < backlog'[a][j]
    BY DEF Pending
  <2>1. \A i \in 1 .. Len(backlog[a]) :
          /\ backlog[a][i] \in Party
          /\ backlog[a][i] < a /\ a < to[backlog[a][i]]
          /\ \A q \in Party : q < a /\ slot[a][q] # None => slot[a][q] < backlog[a][i]
    BY <1>3 DEF Layer2, Pending
  <2>2. \A i, j \in 1 .. Len(backlog[a]) : i < j => backlog[a][i] < backlog[a][j]
    BY DEF Layer2, Pending
  <2>3. CASE a # b
    <3>1. backlog'[a] = backlog[a]
      BY <1>1, <1>3, <2>3
    <3> QED BY <1>5, <1>6, <2>1, <2>2, <3>1
  <2>4. CASE a = b
    <3> DEFINE n == Len(backlog[b])
    <3>1. n \in Nat /\ Len(backlog'[b]) = n + 1
      BY <1>1, <1>3
    <3>2. backlog'[b][n + 1] = p /\ \A i \in 1 .. n : backlog'[b][i] = backlog[b][i]
      BY <1>1, <1>3
    <3>3. \A i \in 1 .. n : backlog[b][i] < p
      BY <1>1, <2>1, <2>4, OpenedBefore DEF Layer2
    <3>4. \A q \in Party : q < b /\ slot[b][q] # None => slot[b][q] < p
      BY <1>1, <1>3, FilledSlot, OpenedBefore DEF Layer2, Filed
    <3>5. ASSUME NEW i \in 1 .. n + 1
          PROVE  /\ backlog'[b][i] < b /\ b < to'[backlog'[b][i]]
                 /\ \A q \in Party : q < b /\ slot'[b][q] # None
                                       => slot'[b][q] < backlog'[b][i]
      <4>1. CASE i = n + 1
        <5>1. backlog'[b][i] = p /\ p < b /\ b < to'[p]
          BY <1>2, <1>4, <3>2, <4>1
        <5>2. \A q \in Party : q < b => slot'[b][q] = slot[b][q]
          BY <1>3, <1>5
        <5> HIDE DEF b
        <5> QED BY <3>4, <5>1, <5>2
      <4>2. CASE i \in 1 .. n
        BY <1>3, <1>5, <1>6, <2>1, <2>4, <3>2, <4>2
      <4> QED BY <3>1, <4>1, <4>2
    <3>6. ASSUME NEW i \in 1 .. n + 1, NEW j \in 1 .. n + 1, i < j
          PROVE  backlog'[b][i] < backlog'[b][j]
      <4>1. i \in 1 .. n
        BY <3>1, <3>6
      <4>2. CASE j = n + 1
        BY <3>2, <3>3, <4>1, <4>2
      <4>3. CASE j \in 1 .. n
        BY <2>2, <2>4, <3>2, <3>6, <4>1, <4>3
      <4> QED BY <3>1, <4>2, <4>3
    <3> QED BY <2>4, <3>1, <3>5, <3>6
  <2> QED BY <2>3, <2>4
<1> QED BY <1>7, <1>8, <1>9 DEF Layer2

LEMMA Layer2Init == Init => Layer2
<1> SUFFICES ASSUME Init PROVE Layer2
  OBVIOUS
<1>1. Turns
  BY Constants DEF Init, Turns, Begun, Ended, Sending
<1>2. Filed
  BY DEF Init, Filed
<1>3. Pending
  BY DEF Init, Pending
<1> QED BY <1>1, <1>2, <1>3 DEF Layer2

LEMMA Layer2Step == Layer1 /\ Layer2 /\ [Next]_vars => Layer2'
<1> SUFFICES ASSUME Layer1, Layer2, [Next]_vars PROVE Layer2'
  OBVIOUS
<1>1. CASE UNCHANGED vars
  <2>1. UNCHANGED <<pc, to, slot, backlog, pipe>>
    BY <1>1 DEF vars
  <2>2. \A q \in Party : Sending(q)' => Sending(q)
    BY <2>1 DEF Sending
  <2> QED BY <2>1, <2>2, TurnsQuiet, Layer2Quiet DEF Layer2
<1>2. ASSUME NEW p \in Party, Start(p) \/ Step(p) PROVE Layer2'
  BY <1>2, StartLayer2, ConnectOkLayer2, ConnectRefusedLayer2, WriteNoteLayer2, BindLayer2,
     AcceptLayer2, CloseLayer2, ReadNoteLayer2, SendToKingLayer2, KingRoundLayer2,
     RecvFromKingLayer2, ReadFailsLayer2 DEF Step
<1> QED BY <1>1, <1>2 DEF Next

\* Two parties are never sending at the same time: the note passes one turn
\* round the parties, whatever stream it is read from.
THEOREM OneSender == Spec => []SendersTakeTurns
<1>1. Init => Layer1 /\ Layer2
  BY Layer1Init, Layer2Init
<1>2. Layer1 /\ Layer2 /\ [Next]_vars => (Layer1 /\ Layer2)'
  BY Layer1Step, Layer2Step
<1>3. Layer1 /\ Layer2 => SendersTakeTurns
  <2> SUFFICES ASSUME Layer1, Layer2, NEW p \in Party, NEW q \in Party,
                      Sending(p), Sending(q), p # q
               PROVE  FALSE
    BY DEF SendersTakeTurns
  <2>1. p < q \/ q < p
    BY Constants
  <2> QED BY <2>1 DEF Layer2, Turns, Begun, Ended
<1> QED BY <1>1, <1>2, <1>3, PTL DEF Spec

-----------------------------------------------------------------------------
(* The third layer: where an opened connection is.                         *)

LEMMA Layer3Quiet ==
    ASSUME Layer3, UNCHANGED <<to, slot, backlog, reset>>
    PROVE  Layer3'
<1>1. Lost'
  BY DEF Layer3, Lost
<1>2. Kept'
  BY DEF Layer3, Kept
<1>3. SlotsMatchUnlessReset'
  BY DEF Layer3, SlotsMatchUnlessReset, SlotsMatch
<1> QED BY <1>1, <1>2, <1>3 DEF Layer3

LEMMA ConnectOkLayer3 ==
    ASSUME Layer1, Layer2, Layer3, NEW p \in Party, ConnectOk(p)
    PROVE  Layer3'
<1> DEFINE b == to[p]
           n == Len(backlog[b])
<1>1. /\ pc[p] = "connect" /\ UNCHANGED reset
      /\ slot' = [slot EXCEPT ![p][b] = b]
      /\ to' = [to EXCEPT ![p] = @ + 1]
      /\ backlog' = [backlog EXCEPT ![b] = Append(@, p)]
  BY DEF ConnectOk
<1>2. p \in Nat /\ b \in Nat /\ p < b /\ b < N /\ N \in Nat
  BY <1>1, KnownAt DEF ControlAt
<1>3. b \in Party /\ Types /\ backlog \in [Party -> Seq(Party)]
  BY <1>2, KnownAt, Constants DEF Layer1, TypeOK
<1>4. \A a \in Party : to[a] \in Nat /\ to'[a] = IF a = p THEN b + 1 ELSE to[a]
  BY <1>1, <1>3, KnownAt DEF Types
<1>5. \A a, q \in Party : q < a => slot'[a][q] = slot[a][q]
  <2> SUFFICES ASSUME NEW a \in Party, NEW q \in Party, q < a
               PROVE  slot'[a][q] = slot[a][q]
    OBVIOUS
  <2>1. a = p => q # b
    BY <1>2, Constants
  <2> QED BY <1>1, <1>3, <2>1 DEF Types
<1>6. /\ n \in Nat /\ Len(backlog'[b]) = n + 1 /\ backlog'[b][n + 1] = p
      /\ \A i \in 1 .. n : backlog'[b][i] = backlog[b][i]
      /\ \A a \in Party : a # b => backlog'[a] = backlog[a]
  BY <1>1, <1>3
<1>7. Lost'
  <2> SUFFICES ASSUME NEW x \in Party, NEW a \in Party, <<x, a>> \in reset
               PROVE  /\ x < a /\ a < to'[x]
                      /\ \A q \in Party : q < a => slot'[a][q] # x
                      /\ \A i \in 1 .. Len(backlog'[a]) : backlog'[a][i] # x
    BY <1>1 DEF Lost
  <2>1. /\ x < a /\ a < to[x]
        /\ \A q \in Party : q < a => slot[a][q] # x
        /\ \A i \in 1 .. Len(backlog[a]) : backlog[a][i] # x
    BY DEF Layer3, Lost
  <2>2. a < to'[x]
    BY <1>2, <1>4, <2>1, Constants
  <2>3. a = b => x # p
    BY <1>2, <2>1
  <2>4. \A i \in 1 .. Len(backlog'[a]) : backlog'[a][i] # x
    <3>1. CASE a = b
      <4> SUFFICES ASSUME NEW i \in 1 .. n + 1 PROVE backlog'[b][i] # x
        BY <1>6, <3>1
      <4>1. i \in 1 .. n \/ i = n + 1
        BY <1>6
      <4> QED BY <1>6, <2>1, <2>3, <3>1, <4>1
    <3>2. CASE a # b
      BY <1>6, <2>1, <3>2
    <3> QED BY <3>1, <3>2
  <2> QED BY <1>5, <2>1, <2>2, <2>4
<1>8. Kept'
  <2> SUFFICES ASSUME NEW x \in Party, NEW a \in Party, x < a, a < to'[x]
               PROVE  \/ <<x, a>> \in reset
                      \/ \E q \in Party : q < a /\ slot'[a][q] = x
                      \/ \E i \in 1 .. Len(backlog'[a]) : backlog'[a][i] = x
    BY <1>1 DEF Kept
  <2>1. CASE a < to[x]
    <3>1. CASE <<x, a>> \in reset
      BY <3>1
    <3>2. CASE \E q \in Party : q < a /\ slot[a][q] = x
      BY <1>5, <3>2
    <3>3. ASSUME NEW i \in 1 .. Len(backlog[a]), backlog[a][i] = x
          PROVE  \E j \in 1 .. Len(backlog'[a]) : backlog'[a][j] = x
      <4>1. CASE a = b
        <5>1. i \in 1 .. n /\ i \in 1 .. n + 1
          BY <1>6, <3>3, <4>1
        <5> QED BY <1>6, <3>3, <4>1, <5>1
      <4>2. CASE a # b
        BY <1>6, <3>3, <4>2
      <4> QED BY <4>1, <4>2
    <3> QED BY <2>1, <3>1, <3>2, <3>3 DEF Layer3, Kept
  <2>2. CASE ~ (a < to[x])
    <3>1. x = p /\ a = b
      BY <1>2, <1>4, <2>2, Constants
    <3>2. n + 1 \in 1 .. n + 1
      BY <1>6
    <3> QED BY <1>6, <3>1, <3>2
  <2> QED BY <2>1, <2>2
<1>9. SlotsMatchUnlessReset'
  BY <1>1, <1>3 DEF Types, Layer3, SlotsMatchUnlessReset, SlotsMatch
<1> QED BY <1>7, <1>8, <1>9 DEF Layer3

LEMMA CloseLayer3 ==
    ASSUME Layer1, Layer2, Layer3, NEW p \in Party, Close(p)
    PROVE  Layer3'
<1>1. /\ UNCHANGED <<to, slot>>
      /\ reset' = reset \cup {<<backlog[p][i], p>> : i \in 1 .. Len(backlog[p])}
      /\ backlog' = [backlog EXCEPT ![p] = <<>>]
      /\ backlog \in [Party -> Seq(Party)]
  BY DEF Close, Layer1, TypeOK
<1>2. /\ backlog'[p] = <<>> /\ Len(backlog'[p]) = 0
      /\ \A a \in Party : a # p => backlog'[a] = backlog[a]
  BY <1>1
<1>3. Lost'
  <2> SUFFICES ASSUME NEW x \in Party, NEW a \in Party, <<x, a>> \in reset'
               PROVE  /\ x < a /\ a < to[x]
                      /\ \A q \in Party : q < a => slot[a][q] # x
                      /\ \A i \in 1 .. Len(backlog'[a]) : backlog'[a][i] # x
    BY <1>1 DEF Lost
  <2>1. CASE <<x, a>> \in reset
    <3>1. /\ x < a /\ a < to[x]
          /\ \A q \in Party : q < a => slot[a][q] # x
          /\ \A i \in 1 .. Len(backlog[a]) : backlog[a][i] # x
      BY <2>1 DEF Layer3, Lost
    <3>2. \A i \in 1 .. Len(backlog'[a]) : backlog'[a][i] # x
      BY <1>2, <3>1
    <3> QED BY <3>1, <3>2
  <2>2. CASE <<x, a>> \notin reset
    <3>1. a = p
      BY <1>1, <2>2
    <3>2. PICK i \in 1 .. Len(backlog[p]) : x = backlog[p][i]
      BY <1>1, <2>2
    <3>3. /\ x < p /\ p < to[x]
          /\ \A q \in Party : q < p /\ slot[p][q] # None => slot[p][q] < x
      BY <3>2 DEF Layer2, Pending
    <3>4. ASSUME NEW q \in Party, q < p PROVE slot[p][q] # x
      <4>1. x \in Nat /\ x # None
        BY Constants
      <4>2. slot[p][q] = x => slot[p][q] < x
        BY <3>3, <3>4, <4>1
      <4> QED BY <4>1, <4>2
    <3> QED BY <1>2, <3>1, <3>3, <3>4
  <2> QED BY <2>1, <2>2
<1>4. Kept'
  <2> SUFFICES ASSUME NEW x \in Party, NEW a \in Party, x < a, a < to[x]
               PROVE  \/ <<x, a>> \in reset'
                      \/ \E q \in Party : q < a /\ slot[a][q] = x
                      \/ \E i \in 1 .. Len(backlog'[a]) : backlog'[a][i] = x
    BY <1>1 DEF Kept
  <2>1. \/ <<x, a>> \in reset
        \/ \E q \in Party : q < a /\ slot[a][q] = x
        \/ \E i \in 1 .. Len(backlog[a]) : backlog[a][i] = x
    BY DEF Layer3, Kept
  <2> QED BY <1>1, <1>2, <2>1
<1>5. SlotsMatchUnlessReset'
  BY <1>1 DEF Layer3, SlotsMatchUnlessReset, SlotsMatch
<1> QED BY <1>3, <1>4, <1>5 DEF Layer3

LEMMA AcceptLayer3 ==
    ASSUME Layer1, Layer2, Layer3, NEW p \in Party, Accept(p)
    PROVE  Layer3'
<1> DEFINE x == Head(backlog[p])
           r == round[p]
<1>1. /\ UNCHANGED <<to, reset>> /\ pc[p] = "accept" /\ backlog[p] # <<>>
      /\ slot' = [slot EXCEPT ![p][r] = x]
      /\ backlog' = [backlog EXCEPT ![p] = Tail(@)]
  BY DEF Accept
<1>2. /\ p \in Nat /\ p < N /\ N \in Nat /\ r \in Nat /\ r < p /\ Types
      /\ backlog \in [Party -> Seq(Party)]
  BY <1>1, KnownAt DEF ControlAt, Receiving, Layer1, TypeOK
<1>3. r \in Party /\ slot[p][r] = None
  <2>1. r \in Party
    BY <1>2, Constants
  <2> QED BY <1>1, <1>2, <2>1, KnownAt DEF ReceiverAt
<1>4. /\ Len(backlog[p]) \in Nat /\ 1 \in 1 .. Len(backlog[p])
      /\ x = backlog[p][1] /\ x \in Party
      /\ backlog'[p] = Tail(backlog[p]) /\ Len(backlog'[p]) = Len(backlog[p]) - 1
      /\ \A i \in 1 .. Len(backlog'[p]) :
            i + 1 \in 1 .. Len(backlog[p]) /\ backlog'[p][i] = backlog[p][i + 1]
      /\ \A i \in 1 .. Len(backlog[p]) : i # 1 =>
            i - 1 \in 1 .. Len(backlog'[p]) /\ backlog'[p][i - 1] = backlog[p][i]
  BY <1>1, <1>2
<1>5. \A q \in Party : slot'[p][q] = IF q = r THEN x ELSE slot[p][q]
  BY <1>1, <1>2, <1>3 DEF Types
<1>6. \A a \in Party : a # p => slot'[a] = slot[a] /\ backlog'[a] = backlog[a]
  BY <1>1, <1>2 DEF Types
<1>7. Lost'
  <2> SUFFICES ASSUME NEW y \in Party, NEW a \in Party, <<y, a>> \in reset
               PROVE  /\ y < a /\ a < to[y]
                      /\ \A q \in Party : q < a => slot'[a][q] # y
                      /\ \A i \in 1 .. Len(backlog'[a]) : backlog'[a][i] # y
    BY <1>1 DEF Lost
  <2>1. /\ y < a /\ a < to[y]
        /\ \A q \in Party : q < a => slot[a][q] # y
        /\ \A i \in 1 .. Len(backlog[a]) : backlog[a][i] # y
    BY DEF Layer3, Lost
  <2>2. CASE a = p
    <3>1. x # y
      BY <1>4, <2>1, <2>2
    <3>2. ASSUME NEW i \in 1 .. Len(backlog'[p]) PROVE backlog'[p][i] # y
      <4>1. i + 1 \in 1 .. Len(backlog[p]) /\ backlog'[p][i] = backlog[p][i + 1]
        BY <1>4
      <4> QED BY <2>1, <2>2, <4>1
    <3> QED BY <1>5, <2>1, <2>2, <3>1, <3>2
  <2>3. CASE a # p
    BY <1>6, <2>1, <2>3
  <2> QED BY <2>2, <2>3
<1>8. Kept'
  <2> SUFFICES ASSUME NEW y \in Party, NEW a \in Party, y < a, a < to[y]
               PROVE  \/ <<y, a>> \in reset
                      \/ \E q \in Party : q < a /\ slot'[a][q] = y
                      \/ \E i \in 1 .. Len(backlog'[a]) : backlog'[a][i] = y
    BY <1>1 DEF Kept
  <2>1. \/ <<y, a>> \in reset
        \/ \E q \in Party : q < a /\ slot[a][q] = y
        \/ \E i \in 1 .. Len(backlog[a]) : backlog[a][i] = y
    BY DEF Layer3, Kept
  <2>2. CASE a = p
    <3>1. ASSUME NEW q \in Party, q < p, slot[p][q] = y
          PROVE  \E s \in Party : s < p /\ slot'[p][s] = y
      <4>1. q # r
        BY <1>3, <3>1, Constants
      <4> QED BY <1>5, <3>1, <4>1
    <3>2. ASSUME NEW i \in 1 .. Len(backlog[p]), backlog[p][i] = y
          PROVE  \/ \E s \in Party : s < p /\ slot'[p][s] = y
                 \/ \E j \in 1 .. Len(backlog'[p]) : backlog'[p][j] = y
      <4>1. CASE i = 1
        BY <1>2, <1>3, <1>4, <1>5, <3>2, <4>1
      <4>2. CASE i # 1
        BY <1>4, <3>2, <4>2
      <4> QED BY <4>1, <4>2
    <3> QED BY <2>1, <2>2, <3>1, <3>2
  <2>3. CASE a # p
    BY <1>6, <2>1, <2>3
  <2> QED BY <2>2, <2>3
<1>9. SlotsMatchUnlessReset'
  <2> SUFFICES ASSUME reset = {} PROVE SlotsMatch'
    BY <1>1 DEF SlotsMatchUnlessReset
  <2>1. SlotsMatch
    BY DEF Layer3, SlotsMatchUnlessReset
  <2>2. x < p /\ p < to[x] /\ x \in Nat /\ x # None
    BY <1>4, Constants DEF Layer2, Pending
  <2>3. r <= x
    BY <1>2, <1>3, <1>5, <2>2, AcceptLayer2 DEF Layer2, Filed
  \* A turn after r has begun, so r has opened its connection; where is it?
  <2>4. ASSUME r < x PROVE FALSE
    <3>1. Begun(x)
      BY <1>2, <1>4, <2>2, KnownAt DEF Begun
    <3>2. to[r] = N
      BY <1>3, <1>4, <2>4, <3>1 DEF Layer2, Turns, Ended
    <3>3. \/ \E q \in Party : q < p /\ slot[p][q] = r
          \/ \E i \in 1 .. Len(backlog[p]) : backlog[p][i] = r
      BY <1>2, <1>3, <3>2 DEF Layer3, Kept
    <3>4. ASSUME NEW q \in Party, slot[p][q] = r PROVE FALSE
      BY <1>2, <1>3, <2>1, <3>4, Constants DEF SlotsMatch
    <3>5. ASSUME NEW i \in 1 .. Len(backlog[p]), backlog[p][i] = r PROVE FALSE
      <4>1. i # 1
        BY <1>2, <1>4, <2>2, <2>4, <3>5
      <4>2. x < backlog[p][i]
        BY <1>4, <4>1 DEF Layer2, Pending
      <4> QED BY <1>2, <2>2, <2>4, <3>5, <4>2
    <3> QED BY <3>3, <3>4, <3>5
  <2>5. x = r
    BY <1>2, <2>2, <2>3, <2>4
  <2> QED BY <1>5, <1>6, <2>1, <2>5 DEF SlotsMatch
<1> QED BY <1>7, <1>8, <1>9 DEF Layer3

LEMMA Layer3Init == Init => Layer3
<1> SUFFICES ASSUME Init PROVE Layer3
  OBVIOUS
<1>1. Lost
  BY DEF Init, Lost
<1>2. Kept
  <2>1. \A x, p \in Party : ~ (x < p /\ p < to[x])
    BY Constants DEF Init
  <2> QED BY <2>1 DEF Kept
<1>3. SlotsMatchUnlessReset
  BY DEF Init, SlotsMatchUnlessReset, SlotsMatch
<1> QED BY <1>1, <1>2, <1>3 DEF Layer3

LEMMA Layer3Step == Layer1 /\ Layer2 /\ Layer3 /\ [Next]_vars => Layer3'
<1> SUFFICES ASSUME Layer1, Layer2, Layer3, [Next]_vars PROVE Layer3'
  OBVIOUS
<1>1. CASE UNCHANGED vars
  BY <1>1, Layer3Quiet DEF vars
<1>2. ASSUME NEW p \in Party,
             \/ Start(p) \/ ConnectRefused(p) \/ WriteNote(p) \/ Bind(p) \/ ReadNote(p)
             \/ SendToKing(p) \/ KingRound \/ RecvFromKing(p) \/ ReadFails(p)
      PROVE  Layer3'
  <2>1. UNCHANGED <<to, slot, backlog, reset>>
    BY <1>2 DEF Start, ConnectRefused, WriteNote, Bind, ReadNote, SendToKing, KingRound,
                RecvFromKing, ReadFails, sockets
  <2> QED BY <2>1, Layer3Quiet
<1>3. ASSUME NEW p \in Party, Start(p) \/ Step(p) PROVE Layer3'
  BY <1>2, <1>3, ConnectOkLayer3, AcceptLayer3, CloseLayer3 DEF Step
<1> QED BY <1>1, <1>3 DEF Next

\* Unless a listener is dropped with a connection pending on it, every stream
\* is filed under the party it leads to: the next to connect is the round's
\* sender.
THEOREM StreamsFiled == Spec => []SlotsMatchUnlessReset
<1>1. Init => Layer1 /\ Layer2 /\ Layer3
  BY Layer1Init, Layer2Init, Layer3Init
<1>2. Layer1 /\ Layer2 /\ Layer3 /\ [Next]_vars => (Layer1 /\ Layer2 /\ Layer3)'
  BY Layer1Step, Layer2Step, Layer3Step
<1>3. Layer3 => SlotsMatchUnlessReset
  BY DEF Layer3
<1> QED BY <1>1, <1>2, <1>3, PTL DEF Spec

-----------------------------------------------------------------------------
(* The fourth layer: what the king's round tells.                          *)

\* What every step of p leaves true, besides what it does to the pipes.
StepKeeps(p) ==
    /\ \A q \in Party : to[q] <= to'[q]
    /\ \A q \in Party : q # p => pc'[q] = pc[q]
    /\ pc[p] # "done"
    /\ pc'[p] = "note" => pc[p] = "connect"
    /\ pc'[p] \in AfterTurn => pc[p] \in AfterTurn \/ \A q \in Party : q < p => Ended(q)
    /\ \A a, q \in Party : slot[a][q] # None => slot'[a][q] # None

LEMMA GotoKeeps ==
    ASSUME Layer1, NEW p \in Party, NEW label, Goto(p, label), UNCHANGED <<to, slot>>,
           pc[p] # "done", label # "note",
           label \in AfterTurn => pc[p] \in AfterTurn
    PROVE  StepKeeps(p)
<1>1. Types /\ \A q \in Party : to[q] \in Nat
  BY KnownAt
<1>2. pc'[p] = label /\ \A q \in Party : q # p => pc'[q] = pc[q]
  BY <1>1 DEF Goto, Types
<1> QED BY <1>1, <1>2 DEF StepKeeps

LEMMA NextRoundKeeps ==
    ASSUME Layer1, NEW p \in Party, NextRound(p), UNCHANGED <<to, slot>>, pc[p] # "done",
           round[p] + 1 >= p => \A q \in Party : q < p => Ended(q)
    PROVE  StepKeeps(p)
<1>1. Types /\ \A q \in Party : to[q] \in Nat /\ p \in Nat /\ round[p] \in Nat
  BY KnownAt
<1>2. /\ pc'[p] = PhaseAt(p, round[p] + 1)
      /\ \A q \in Party : q # p => pc'[q] = pc[q]
  BY <1>1 DEF NextRound, Types
<1>3. /\ pc'[p] # "note"
      /\ pc'[p] \in AfterTurn => round[p] + 1 >= p
  BY <1>1, <1>2 DEF PhaseAt, AfterTurn
<1> QED BY <1>1, <1>2, <1>3 DEF StepKeeps

LEMMA StartKeeps ==
    ASSUME Layer1, NEW p \in Party, Start(p)
    PROVE  StepKeeps(p)
<1>1. /\ pc' = [pc EXCEPT ![p] = PhaseAt(p, 0)] /\ UNCHANGED <<to, slot>> /\ pc[p] = "off"
      /\ Types /\ p \in Nat /\ \A q \in Party : to[q] \in Nat
  BY KnownAt DEF Start, Goto, sockets
<1>2. pc'[p] = PhaseAt(p, 0) /\ \A q \in Party : q # p => pc'[q] = pc[q]
  BY <1>1 DEF Types
<1>3. pc'[p] # "note" /\ (pc'[p] \in AfterTurn => p = 0)
  BY <1>1, <1>2 DEF PhaseAt, AfterTurn
<1>4. p = 0 => \A q \in Party : ~ (q < p)
  BY Constants
<1> QED BY <1>1, <1>2, <1>3, <1>4 DEF StepKeeps

LEMMA ConnectOkKeeps ==
    ASSUME Layer1, NEW p \in Party, ConnectOk(p)
    PROVE  StepKeeps(p)
<1>1. /\ pc[p] = "connect" /\ to' = [to EXCEPT ![p] = @ + 1]
      /\ pc' = [pc EXCEPT ![p] = IF to[p] + 1 = N THEN "note" ELSE "connect"]
      /\ slot' = [slot EXCEPT ![p][to[p]] = to[p]]
      /\ Types /\ \A q \in Party : to[q] \in Nat
  BY KnownAt DEF ConnectOk, Goto
<1>2. \A q \in Party : to[q] <= to'[q]
  BY <1>1 DEF Types
<1>3. /\ pc'[p] \in {"note", "connect"}
      /\ \A q \in Party : q # p => pc'[q] = pc[q]
  BY <1>1 DEF Types
<1>4. \A a, q \in Party : slot[a][q] # None => slot'[a][q] # None
  BY <1>1, Constants DEF Types
<1> QED BY <1>1, <1>2, <1>3, <1>4 DEF StepKeeps, AfterTurn

LEMMA ConnectRefusedKeeps ==
    ASSUME Layer1, NEW p \in Party, ConnectRefused(p)
    PROVE  StepKeeps(p)
<1>1. /\ pc[p] = "connect" /\ UNCHANGED <<to, slot>>
      /\ Goto(p, "panicked") \/ Goto(p, "connect")
  BY DEF ConnectRefused, sockets
<1> QED BY <1>1, GotoKeeps DEF AfterTurn

LEMMA WriteNoteKeeps ==
    ASSUME Layer1, Layer2, NEW p \in Party, WriteNote(p)
    PROVE  StepKeeps(p)
<1>1. pc[p] = "note" /\ UNCHANGED <<to, slot>> /\ (NextRound(p) \/ Goto(p, "panicked"))
  BY DEF WriteNote, Write, sockets
<1>2. \A q \in Party : q < p => Ended(q)
  BY <1>1 DEF Layer2, Turns, Begun, Sending
<1> QED BY <1>1, <1>2, GotoKeeps, NextRoundKeeps DEF AfterTurn

LEMMA BindKeeps ==
    ASSUME Layer1, NEW p \in Party, Bind(p)
    PROVE  StepKeeps(p)
BY GotoKeeps DEF Bind, AfterTurn

LEMMA AcceptKeeps ==
    ASSUME Layer1, NEW p \in Party, Accept(p)
    PROVE  StepKeeps(p)
<1>1. /\ pc[p] = "accept" /\ UNCHANGED to /\ pc' = [pc EXCEPT ![p] = "close"]
      /\ slot' = [slot EXCEPT ![p][round[p]] = Head(backlog[p])]
      /\ Types /\ \A q \in Party : to[q] \in Nat
      /\ backlog[p] # <<>> /\ backlog \in [Party -> Seq(Party)]
  BY KnownAt DEF Accept, Goto, Layer1, TypeOK
<1>2. Head(backlog[p]) \in Party /\ Head(backlog[p]) # None
  BY <1>1, Constants
<1>3. \A a, q \in Party : slot[a][q] # None => slot'[a][q] # None
  BY <1>1, <1>2 DEF Types
<1>4. pc'[p] = "close" /\ \A q \in Party : q # p => pc'[q] = pc[q]
  BY <1>1 DEF Types
<1> QED BY <1>1, <1>3, <1>4 DEF StepKeeps, AfterTurn

LEMMA CloseKeeps ==
    ASSUME Layer1, NEW p \in Party, Close(p)
    PROVE  StepKeeps(p)
<1>1. pc[p] = "close" /\ UNCHANGED <<to, slot>>
  BY DEF Close
<1>2. CASE p = round[p] + 1
  BY <1>1, <1>2, GotoKeeps DEF Close, AfterTurn
<1>3. CASE p # round[p] + 1
  <2>1. round[p] < p /\ p \in Nat /\ round[p] \in Nat
    BY <1>1, KnownAt DEF ControlAt, Receiving
  <2>2. ~ (round[p] + 1 >= p)
    BY <1>3, <2>1
  <2> QED BY <1>1, <1>3, <2>2, NextRoundKeeps DEF Close
<1> QED BY <1>2, <1>3

LEMMA ReadNoteKeeps ==
    ASSUME Layer1, Layer2, NEW p \in Party, ReadNote(p)
    PROVE  StepKeeps(p)
BY NoteTurn, NextRoundKeeps DEF ReadNote, sockets

LEMMA KingStepsKeep ==
    ASSUME Layer1, NEW p \in Party,
           SendToKing(p) \/ (p = King /\ KingRound) \/ RecvFromKing(p) \/ ReadFails(p)
    PROVE  StepKeeps(p)
<1>1. CASE SendToKing(p)
  <2>1. /\ pc[p] = "to_king" /\ UNCHANGED <<to, slot>>
        /\ Goto(p, "panicked") \/ Goto(p, "from_king")
    BY <1>1 DEF SendToKing, Write, sockets
  <2> QED BY <2>1, GotoKeeps DEF AfterTurn
<1>2. CASE p = King /\ KingRound
  BY <1>2, GotoKeeps DEF KingRound, sockets, AfterTurn
<1>3. CASE RecvFromKing(p)
  <2>1. /\ pc[p] = "from_king" /\ UNCHANGED <<to, slot>>
        /\ Goto(p, "panicked") \/ Goto(p, "done")
    BY <1>3 DEF RecvFromKing, sockets
  <2> QED BY <2>1, GotoKeeps DEF AfterTurn
<1>4. CASE ReadFails(p)
  <2>1. pc[p] # "done"
    BY <1>4 DEF ReadFails, Awaited
  <2> QED BY <1>4, <2>1, GotoKeeps DEF ReadFails, sockets, AfterTurn
<1> QED BY <1>1, <1>2, <1>3, <1>4

LEMMA StepKeepsAll ==
    ASSUME Layer1, Layer2, NEW p \in Party, Start(p) \/ Step(p)
    PROVE  StepKeeps(p)
BY StartKeeps, ConnectOkKeeps, ConnectRefusedKeeps, WriteNoteKeeps, BindKeeps, AcceptKeeps,
   CloseKeeps, ReadNoteKeeps, KingStepsKeep DEF Step

\* A turn that has ended stays so.
LEMMA EndedStays ==
    ASSUME Layer1, Layer1', NEW p \in Party, StepKeeps(p), NEW q \in Party, Ended(q)
    PROVE  Ended(q)'
<1>1. /\ to[q] = N /\ N \in Nat /\ to'[q] \in 1 .. N
  BY Constants DEF Ended, Layer1, TypeOK
<1>2. to'[q] = N
  BY <1>1 DEF StepKeeps
<1>3. pc'[q] # "connect"
  BY <1>1, <1>2 DEF Layer1, Control, ControlAt
<1>4. pc'[q] # "note"
  BY DEF StepKeeps, Ended, Sending
<1> QED BY <1>2, <1>3, <1>4 DEF Ended, Sending

\* The first and the last two conjuncts of KingKnows, from what a step does to
\* the program counters and the slots.
LEMMA KingControl ==
    ASSUME Layer1, Layer1', KingKnows, NEW p \in Party, StepKeeps(p),
           pc'[p] = "done" => (p = King \/ pc[King] = "done"),
           p = King /\ pc'[p] = "done" => \A q \in Party : Full(q)
    PROVE  /\ \A a, q \in Party : q < a /\ pc'[a] \in AfterTurn => Ended(q)'
           /\ pc'[King] # "done" => \A q \in Party : pc'[q] # "done"
           /\ pc'[King] = "done" => \A q \in Party : Full(q)'
<1>1. ASSUME NEW a \in Party, NEW q \in Party, q < a, pc'[a] \in AfterTurn
      PROVE  Ended(q)'
  <2>1. Ended(q)
    BY <1>1 DEF KingKnows, StepKeeps
  <2> QED BY <2>1, EndedStays
<1>2. ASSUME pc'[King] # "done", NEW q \in Party PROVE pc'[q] # "done"
  <2>1. pc[King] # "done"
    BY <1>2, Constants DEF StepKeeps
  <2>2. pc[q] # "done"
    BY <2>1 DEF KingKnows
  <2> QED BY <1>2, <2>1, <2>2 DEF StepKeeps
<1>3. ASSUME pc'[King] = "done" PROVE \A q \in Party : Full(q)'
  <2>1. pc[King] = "done" \/ p = King
    BY <1>3, Constants DEF StepKeeps
  <2>2. \A q \in Party : Full(q)
    BY <1>3, <2>1 DEF KingKnows
  <2> QED BY <2>2 DEF Full, StepKeeps
<1> QED BY <1>1, <1>2, <1>3

\* A byte to the king stays a promise of its sender.
LEMMA KingBytes ==
    ASSUME Layer1, KingKnows, NEW p \in Party, StepKeeps(p),
           \A q \in Party \ {King} : pipe'[q][King] > 0 => pipe[q][King] > 0 \/ Full(q)
    PROVE  \A q \in Party \ {King} : pipe'[q][King] > 0 => Full(q)'
<1> SUFFICES ASSUME NEW q \in Party \ {King}, pipe'[q][King] > 0 PROVE Full(q)'
  OBVIOUS
<1>1. Full(q)
  BY DEF KingKnows
<1> QED BY <1>1 DEF Full, StepKeeps

\* A step that adds no bytes and moves p within or up to its turn only if no
\* note to it is on its way.
LEMMA UnreadQuiet ==
    ASSUME Layer1, KingKnows, NEW p \in Party, StepKeeps(p),
           \A a, b \in Party : a < b /\ (a = King => pc'[King] # "done")
                                => pipe'[a][b] = pipe[a][b],
           pc[p] \in BeforeTurn \cup {"panicked"} => pc'[p] \in BeforeTurn \cup {"panicked"}
    PROVE  \A a, b \in Party : a < b /\ (a = King => pc'[King] # "done") => Unread(a, b)'
<1> SUFFICES ASSUME NEW a \in Party, NEW b \in Party, a < b, a = King => pc'[King] # "done"
             PROVE  Unread(a, b)'
  OBVIOUS
<1>1. a = King => pc[King] # "done"
  BY DEF StepKeeps
<1>2. Unread(a, b)
  BY <1>1 DEF KingKnows
<1>3. pipe'[a][b] = pipe[a][b]
  OBVIOUS
<1>4. pc[b] \in BeforeTurn \cup {"panicked"} => pc'[b] \in BeforeTurn \cup {"panicked"}
  BY DEF StepKeeps
<1> QED BY <1>2, <1>3, <1>4 DEF Unread

\* The steps that leave the pipes alone.
LEMMA SilentKing ==
    ASSUME Layer1, Layer1', KingKnows, NEW p \in Party, StepKeeps(p), UNCHANGED pipe,
           pc'[p] # "done",
           pc[p] \in BeforeTurn \cup {"panicked"} => pc'[p] \in BeforeTurn \cup {"panicked"}
    PROVE  KingKnows'
<1>1. /\ \A a, q \in Party : q < a /\ pc'[a] \in AfterTurn => Ended(q)'
      /\ pc'[King] # "done" => \A q \in Party : pc'[q] # "done"
      /\ pc'[King] = "done" => \A q \in Party : Full(q)'
  BY KingControl
<1>2. \A q \in Party \ {King} : pipe'[q][King] > 0 => Full(q)'
  BY KingBytes
<1>3. \A a, b \in Party : a < b /\ (a = King => pc'[King] # "done") => Unread(a, b)'
  BY UnreadQuiet
<1> QED BY <1>1, <1>2, <1>3 DEF KingKnows

LEMMA SilentSteps ==
    ASSUME Layer1, Layer1', KingKnows, NEW p \in Party, StepKeeps(p),
           \/ Start(p) \/ ConnectOk(p) \/ ConnectRefused(p) \/ Bind(p) \/ Accept(p)
           \/ Close(p) \/ ReadFails(p)
    PROVE  KingKnows'
<1>1. pc \in [Party -> PC] /\ round[p] \in Nat /\ p \in Nat
  BY KnownAt DEF Types
<1>2. UNCHANGED pipe
  BY DEF Start, ConnectOk, ConnectRefused, Bind, Accept, Close, ReadFails
<1>3. CASE Start(p)
  <2>1. pc'[p] = PhaseAt(p, 0)
    BY <1>1, <1>3 DEF Start, Goto
  <2>2. pc'[p] # "done"
    BY <2>1 DEF PhaseAt
  <2>3. CASE p = King
    \* The king's note can only be unread by a higher party.
    <3>1. ASSUME NEW a \in Party PROVE ~ (a < p)
      BY <2>3, <3>1, Constants DEF King
    <3>2. \A a, b \in Party : a < b /\ (a = King => pc'[King] # "done") => Unread(a, b)'
      <4> SUFFICES ASSUME NEW a \in Party, NEW b \in Party, a < b,
                          a = King => pc'[King] # "done"
                   PROVE  Unread(a, b)'
        OBVIOUS
      <4>1. Unread(a, b) /\ pc'[b] = pc[b]
        BY <3>1 DEF KingKnows, StepKeeps
      <4> QED BY <1>2, <4>1 DEF Unread
    <3>3. \A q \in Party \ {King} : pipe'[q][King] > 0 => Full(q)'
      BY <1>2, KingBytes
    <3> QED BY <2>2, <3>2, <3>3, KingControl DEF KingKnows
  <2>4. CASE p # King
    <3>1. pc'[p] = "bind"
      BY <1>1, <2>1, <2>4 DEF PhaseAt, King
    <3> QED BY <1>2, <2>2, <3>1, SilentKing DEF BeforeTurn
  <2> QED BY <2>3, <2>4
<1>4. CASE ConnectOk(p)
  <2>1. pc[p] = "connect" /\ pc'[p] \in {"note", "connect"}
    BY <1>1, <1>4 DEF ConnectOk, Goto
  <2> QED BY <1>2, <2>1, SilentKing DEF BeforeTurn
<1>5. CASE ConnectRefused(p)
  <2>1. pc[p] = "connect" /\ pc'[p] \in {"panicked", "connect"}
    BY <1>1, <1>5 DEF ConnectRefused, Goto
  <2> QED BY <1>2, <2>1, SilentKing DEF BeforeTurn
<1>6. CASE Bind(p) \/ Accept(p)
  <2>1. pc'[p] \in {"accept", "close"}
    BY <1>1, <1>6 DEF Bind, Accept, Goto
  <2> QED BY <1>2, <2>1, SilentKing DEF BeforeTurn
<1>7. CASE Close(p)
  <2>1. round[p] < p
    BY <1>7, KnownAt DEF Close, ControlAt, Receiving
  <2>2. pc'[p] \in {"await_note", "bind"}
    BY <1>1, <1>7, <2>1 DEF Close, Goto, NextRound, PhaseAt
  <2> QED BY <1>2, <2>2, SilentKing DEF BeforeTurn
<1>8. CASE ReadFails(p)
  <2>1. pc'[p] = "panicked"
    BY <1>1, <1>8 DEF ReadFails, Goto
  <2> QED BY <1>2, <2>1, SilentKing
<1> QED BY <1>3, <1>4, <1>5, <1>6, <1>7, <1>8

LEMMA WriteNoteKing ==
    ASSUME Layer1, Layer1', Layer2, KingKnows, NEW p \in Party, StepKeeps(p), WriteNote(p)
    PROVE  KingKnows'
<1>1. /\ pc[p] = "note" /\ to[p] = N /\ p + 1 < N /\ round[p] = p /\ p \in Nat
      /\ Types /\ pipe \in [Party -> [Party -> Nat]]
  BY KnownAt DEF WriteNote, ControlAt, Layer1, TypeOK
<1>2. p + 1 \in Party /\ slot[p][p + 1] = p + 1
  <2>1. p + 1 \in Party /\ p < p + 1 /\ p + 1 < to[p]
    BY <1>1, Constants
  <2>2. SenderAt(p, p + 1)
    BY <2>1, KnownAt
  <2> QED BY <2>1, <2>2 DEF SenderAt
<1>3. pipe' = pipe \/ pipe' = [pipe EXCEPT ![p][p + 1] = @ + 1]
  BY <1>2 DEF WriteNote, Write
<1>4. pc'[p] \in {"panicked", "to_king"}
  BY <1>1 DEF WriteNote, Write, Goto, NextRound, PhaseAt, Types
<1>5. /\ \A a, q \in Party : q < a /\ pc'[a] \in AfterTurn => Ended(q)'
      /\ pc'[King] # "done" => \A q \in Party : pc'[q] # "done"
      /\ pc'[King] = "done" => \A q \in Party : Full(q)'
  BY <1>4, KingControl
<1>6. \A q \in Party \ {King} : pipe'[q][King] > 0 => Full(q)'
  <2>1. \A q \in Party : pipe'[q][King] = pipe[q][King]
    BY <1>1, <1>2, <1>3, Constants DEF King
  <2> QED BY <2>1, KingBytes
<1>7. ASSUME NEW a \in Party, NEW b \in Party, a < b, a = King => pc'[King] # "done"
      PROVE  Unread(a, b)'
  <2>1. Unread(a, b)
    BY <1>7 DEF KingKnows, StepKeeps
  <2>2. pc[b] \in BeforeTurn \cup {"panicked"} => pc'[b] \in BeforeTurn \cup {"panicked"}
    BY <1>1, <1>4 DEF StepKeeps, BeforeTurn
  <2>3. CASE pipe'[a][b] = pipe[a][b]
    BY <2>1, <2>2, <2>3 DEF Unread
  <2>4. CASE pipe'[a][b] # pipe[a][b]
    <3>1. a = p /\ b = p + 1 /\ pipe'[a][b] = pipe[a][b] + 1
      BY <1>1, <1>2, <1>3, <2>4
    <3>2. ~ Ended(p)
      BY <1>1 DEF Ended, Sending
    <3>3. pipe[a][b] = 0
      BY <1>1, <1>7, <3>1, <3>2 DEF Layer2, Turns
    <3>4. pc[b] \in PC /\ ~ Sending(b) /\ pc[b] \notin AfterTurn
      BY <1>1, <1>7, <3>1, <3>2 DEF Layer2, Turns, Begun, KingKnows, Types
    <3>5. pc'[b] \in BeforeTurn \cup {"panicked"}
      BY <2>2, <3>4 DEF PC, Sending, AfterTurn, BeforeTurn
    <3> QED BY <3>1, <3>3, <3>5 DEF Unread
  <2> QED BY <2>3, <2>4
<1> QED BY <1>5, <1>6, <1>7 DEF KingKnows

LEMMA ReadNoteKing ==
    ASSUME Layer1, Layer1', Layer2, KingKnows, NEW p \in Party, StepKeeps(p), ReadNote(p)
    PROVE  KingKnows'
<1>1. /\ pc[p] = "await_note" /\ pipe[slot[p][p - 1]][p] > 0
      /\ pipe' = [pipe EXCEPT ![slot[p][p - 1]][p] = @ - 1]
      /\ pc' = [pc EXCEPT ![p] = PhaseAt(p, round[p] + 1)]
      /\ Types /\ pipe \in [Party -> [Party -> Nat]] /\ p \in Nat
  BY KnownAt DEF ReadNote, NextRound, Layer1, TypeOK
<1>2. p > 0 /\ p - 1 \in Party /\ slot[p][p - 1] = p - 1
  BY <1>1, NoteSource
<1>3. /\ pipe[p - 1][p] > 0 /\ pipe'[p - 1][p] = pipe[p - 1][p] - 1
      /\ \A a, b \in Party : b # p => pipe'[a][b] = pipe[a][b]
      /\ \A a \in Party : a # p - 1 => pipe'[a][p] = pipe[a][p]
  BY <1>1, <1>2
<1>4. pc'[p] # "done"
  BY <1>1 DEF PhaseAt, Types
<1>5. /\ \A a, q \in Party : q < a /\ pc'[a] \in AfterTurn => Ended(q)'
      /\ pc'[King] # "done" => \A q \in Party : pc'[q] # "done"
      /\ pc'[King] = "done" => \A q \in Party : Full(q)'
  BY <1>4, KingControl
<1>6. \A q \in Party \ {King} : pipe'[q][King] > 0 => Full(q)'
  <2>1. \A q \in Party : pipe'[q][King] = pipe[q][King]
    BY <1>2, <1>3, Constants DEF King
  <2> QED BY <2>1, KingBytes
<1>7. ASSUME NEW a \in Party, NEW b \in Party, a < b, a = King => pc'[King] # "done"
      PROVE  Unread(a, b)'
  <2>1. Unread(a, b)
    BY <1>7 DEF KingKnows, StepKeeps
  <2>2. CASE b # p
    BY <1>3, <2>1, <2>2 DEF Unread, StepKeeps
  <2>3. CASE b = p /\ a = p - 1
    <3>1. pipe[a][b] = 1
      BY <1>1, <1>3, <2>1, <2>3 DEF Unread
    <3>2. pipe'[a][b] = 0
      BY <1>3, <2>3, <3>1
    <3> QED BY <3>2 DEF Unread
  <2>4. CASE b = p /\ a # p - 1
    <3>1. a \in Nat /\ b # a + 1
      BY <1>1, <2>4, Constants
    <3>2. pipe[a][b] \in Nat /\ ~ (pipe[a][b] > 0)
      BY <1>1, <2>1, <3>1 DEF Unread
    <3>3. pipe'[a][b] = 0
      BY <1>3, <2>4, <3>2
    <3> QED BY <3>3 DEF Unread
  <2> QED BY <2>2, <2>3, <2>4
<1> QED BY <1>5, <1>6, <1>7 DEF KingKnows

\* A party in the king's round has filled every slot.
LEMMA AfterTurnFull ==
    ASSUME Layer1, NEW p \in Party, pc[p] \in AfterTurn
    PROVE  Full(p)
<1> SUFFICES ASSUME NEW q \in Party, q # p PROVE slot[p][q] # None
  BY DEF Full
<1>1. to[p] = N /\ q \in Nat /\ q < N /\ p \in Nat /\ q # None
  BY KnownAt, Constants DEF ControlAt
<1>2. CASE p < q
  BY <1>1, <1>2, KnownAt DEF SenderAt
<1>3. CASE q < p
  BY <1>3, KnownAt DEF ReceiverAt, Receiving, AfterTurn
<1> QED BY <1>1, <1>2, <1>3

LEMMA SendToKingKing ==
    ASSUME Layer1, Layer1', Layer2, KingKnows, NEW p \in Party, StepKeeps(p), SendToKing(p)
    PROVE  KingKnows'
<1>1. /\ pc[p] = "to_king" /\ p # King /\ pc'[p] \in {"panicked", "from_king"}
      /\ pipe' = pipe \/ pipe' = [pipe EXCEPT ![p][slot[p][King]] = @ + 1]
      /\ pipe \in [Party -> [Party -> Nat]]
  BY KnownAt DEF SendToKing, Write, Goto, Types, Layer1, TypeOK
<1>2. slot[p][King] \in Party /\ slot[p][King] \in Nat
  BY <1>1, KingSlot, Constants
<1>3. slot[p][King] < p
  BY <1>1, <1>2, Constants DEF King, Layer2, Filed
<1>4. \A a, b \in Party : a < b => pipe'[a][b] = pipe[a][b]
  BY <1>1, <1>2, <1>3, Constants, SMTT(30)
<1>5. \A q \in Party \ {King} : pipe'[q][King] > 0 => Full(q)'
  <2>1. Full(p)
    BY <1>1, AfterTurnFull DEF AfterTurn
  <2>2. \A q \in Party : q # p => pipe'[q][King] = pipe[q][King]
    BY <1>1, <1>2
  <2> QED BY <2>1, <2>2, KingBytes
<1>6. /\ \A a, q \in Party : q < a /\ pc'[a] \in AfterTurn => Ended(q)'
      /\ pc'[King] # "done" => \A q \in Party : pc'[q] # "done"
      /\ pc'[King] = "done" => \A q \in Party : Full(q)'
  BY <1>1, KingControl
<1>7. \A a, b \in Party : a < b /\ (a = King => pc'[King] # "done") => Unread(a, b)'
  BY <1>1, <1>4, UnreadQuiet DEF BeforeTurn
<1> QED BY <1>5, <1>6, <1>7 DEF KingKnows

LEMMA KingRoundKing ==
    ASSUME Layer1, Layer1', KingKnows, StepKeeps(King), KingRound
    PROVE  KingKnows'
<1>1. /\ pc[King] = "to_king" /\ pc'[King] = "done" /\ King \in Party
      /\ \A q \in Party \ {King} : pipe[q][King] > 0
      /\ pipe \in [Party -> [Party -> Nat]]
  BY KnownAt, Constants DEF KingRound, Goto, Types, Layer1, TypeOK
<1>2. /\ \A q \in Party \ {King} : pipe'[q][King] = pipe[q][King] - 1
      /\ \A a, b \in Party : a # King /\ b # King => pipe'[a][b] = pipe[a][b]
  BY <1>1 DEF KingRound
<1>3. \A q \in Party : Full(q)
  BY <1>1, AfterTurnFull DEF KingKnows, AfterTurn
<1>4. /\ \A a, q \in Party : q < a /\ pc'[a] \in AfterTurn => Ended(q)'
      /\ pc'[King] # "done" => \A q \in Party : pc'[q] # "done"
      /\ pc'[King] = "done" => \A q \in Party : Full(q)'
  BY <1>1, <1>3, KingControl
<1>5. \A q \in Party \ {King} : pipe'[q][King] > 0 => Full(q)'
  BY <1>1, <1>3, KingBytes
<1>6. \A a, b \in Party : a < b /\ (a = King => pc'[King] # "done") => pipe'[a][b] = pipe[a][b]
  BY <1>1, <1>2, Constants DEF King
<1>7. \A a, b \in Party : a < b /\ (a = King => pc'[King] # "done") => Unread(a, b)'
  BY <1>1, <1>6, UnreadQuiet DEF BeforeTurn
<1> QED BY <1>4, <1>5, <1>7 DEF KingKnows

\* The byte that ends the wait comes from the king.
LEMMA RecvFromKingKing ==
    ASSUME Layer1, Layer1', Layer2, KingKnows, NEW p \in Party, StepKeeps(p), RecvFromKing(p)
    PROVE  KingKnows'
<1> DEFINE s == slot[p][King]
<1>1. /\ pc[p] = "from_king" /\ p # King /\ pc'[p] \in {"panicked", "done"}
      /\ pipe[s][p] > 0 /\ pipe' = [pipe EXCEPT ![s][p] = @ - 1]
      /\ pipe \in [Party -> [Party -> Nat]]
  BY KnownAt DEF RecvFromKing, Goto, Types, Layer1, TypeOK
<1>2. s \in Party /\ s \in Nat /\ s < p
  <2>1. s \in Party /\ s \in Nat
    BY <1>1, KingSlot, Constants
  <2>2. King < p /\ King \in Party
    BY <1>1, Constants DEF King
  <2> QED BY <2>1, <2>2, Constants DEF Layer2, Filed
<1>3. s = King /\ pc[King] = "done"
  <2>1. ~ Unread(s, p)
    BY <1>1 DEF Unread, BeforeTurn
  <2> QED BY <1>2, <2>1 DEF KingKnows
<1>4. pc'[King] = "done"
  BY <1>1, <1>3, Constants DEF StepKeeps
<1>5. /\ \A a, q \in Party : q < a /\ pc'[a] \in AfterTurn => Ended(q)'
      /\ pc'[King] # "done" => \A q \in Party : pc'[q] # "done"
      /\ pc'[King] = "done" => \A q \in Party : Full(q)'
  BY <1>1, <1>3, KingControl
<1>6. \A q \in Party \ {King} : pipe'[q][King] > 0 => Full(q)'
  <2>1. \A q \in Party : pipe'[q][King] = pipe[q][King]
    BY <1>1, <1>2, Constants
  <2> QED BY <2>1, KingBytes
<1>7. \A a, b \in Party : a # King => pipe'[a][b] = pipe[a][b]
  BY <1>1, <1>2, <1>3
<1>8. \A a, b \in Party : a < b /\ (a = King => pc'[King] # "done") => Unread(a, b)'
  BY <1>1, <1>4, <1>7, UnreadQuiet DEF BeforeTurn
<1> QED BY <1>5, <1>6, <1>8 DEF KingKnows

LEMMA KingInit == Init => KingKnows
<1> SUFFICES ASSUME Init PROVE KingKnows
  OBVIOUS
<1>1. \A p \in Party : pc[p] = "off" /\ \A q \in Party : pipe[p][q] = 0
  BY DEF Init
<1> QED BY <1>1, Constants DEF KingKnows, Unread, AfterTurn

LEMMA KingStep == Layer1 /\ Layer2 /\ KingKnows /\ [Next]_vars => KingKnows'
<1> SUFFICES ASSUME Layer1, Layer2, KingKnows, [Next]_vars PROVE KingKnows'
  OBVIOUS
<1>1. Layer1'
  BY Layer1Step
<1>2. CASE UNCHANGED vars
  BY <1>2 DEF vars, KingKnows, Ended, Sending, Full, Unread
<1>3. ASSUME NEW p \in Party, Start(p) \/ Step(p) PROVE KingKnows'
  <2>1. StepKeeps(p)
    BY <1>3, StepKeepsAll
  <2> QED BY <1>1, <1>3, <2>1, SilentSteps, WriteNoteKing, ReadNoteKing, SendToKingKing,
             KingRoundKing, RecvFromKingKing DEF Step
<1> QED BY <1>2, <1>3 DEF Next

LEMMA FullMesh ==
    ASSUME IInv, NEW d \in Party, pc[d] = "done"
    PROVE  /\ \A p, q \in Party : p # q => slot[p][q] = q
           /\ reset = {}
<1>1. \A p \in Party : Full(p)
  BY DEF IInv, KingKnows
<1>2. ASSUME NEW p \in Party, NEW q \in Party, p # q PROVE slot[p][q] = q
  <2>1. slot[p][q] # None /\ p \in Nat /\ q \in Nat
    BY <1>1, <1>2, Constants DEF Full
  <2>2. CASE p < q
    BY <2>1, <2>2 DEF IInv, Layer1, SenderSlots, SenderAt
  <2>3. CASE q < p
    \* slots below p are filled in order, and the last one leads to p - 1
    <3>1. p - 1 \in Party /\ p - 1 # p /\ p - 1 < p
      BY <2>1, <2>3, Constants
    <3>2. slot[p][p - 1] # None
      BY <1>1, <3>1 DEF Full
    <3>3. slot[p][p - 1] \in Nat /\ slot[p][q] \in Nat
      BY <2>1, <3>1, <3>2, FilledSlot DEF IInv
    <3>4. slot[p][p - 1] < p /\ q <= slot[p][q]
      BY <2>1, <2>3, <3>1, <3>2 DEF IInv, Layer2, Filed
    <3>5. q = p - 1 \/ slot[p][q] + (p - 1) <= slot[p][p - 1] + q
      BY <2>1, <2>3, <3>1, <3>2 DEF IInv, Layer2, Filed
    <3> QED BY <2>1, <3>3, <3>4, <3>5
  <2> QED BY <1>2, <2>1, <2>2, <2>3
<1>3. reset = {}
  <2> SUFFICES ASSUME NEW e \in reset PROVE FALSE
    OBVIOUS
  <2>1. PICK x \in Party, p \in Party : e = <<x, p>>
    BY DEF IInv, Layer1, TypeOK
  <2>2. x < p /\ slot[p][x] # x
    BY <2>1 DEF IInv, Layer3, Lost
  <2> QED BY <1>2, <2>2, Constants
<1> QED BY <1>2, <1>3

\* Once one party returns from the king's round, all of them hold a stream to
\* each other one, under its name, and no connection was lost.
THEOREM EveryoneReady == Spec => []ReadyMeansMesh
<1>1. Init => IInv
  BY Layer1Init, Layer2Init, Layer3Init, KingInit DEF IInv
<1>2. IInv /\ [Next]_vars => IInv'
  BY Layer1Step, Layer2Step, Layer3Step, KingStep DEF IInv
<1>3. IInv => ReadyMeansMesh
  BY FullMesh DEF ReadyMeansMesh
<1> QED BY <1>1, <1>2, <1>3, PTL DEF Spec
=============================================================================
