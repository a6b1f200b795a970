----------------------------- MODULE Collective -----------------------------
(***************************************************************************)
(* What the collective operations of trait MpcNet (mpc-net/src/lib.rs)     *)
(* promise to the protocols above them.  Every party makes the same calls  *)
(* in the same order (the program).  A call returns once the parties it    *)
(* takes messages from have made the same call, and it returns their       *)
(* messages of this very call, whole.  A call that only sends returns on   *)
(* its own.                                                                *)
(***************************************************************************)
EXTENDS Naturals, Sequences

CONSTANTS
    N,        \* number of parties
    Programs  \* the sequences of calls to consider

Party == 0 .. N-1
King  == 0

Kind == {"broadcast", "to_king", "from_king"}
\* What is sent is the serialisation of a value, and never empty.
Call == [kind : Kind, len : Nat \ {0}]

ASSUME NAssumption == N \in Nat \ {0}
ASSUME ProgramsAssumption == Programs \subseteq Seq(Call)

VARIABLES
    prog,   \* the calls every party makes
    op,     \* the call each party is in, or makes next
    busy,   \* is the party inside the call?
    result  \* result[p][q]: what p's last call returned from q

cvars == <<prog, op, busy, result>>

Senders(p, call) ==
    CASE call.kind = "broadcast" -> Party \ {p}
      [] call.kind = "to_king"   -> IF p = King THEN Party \ {King} ELSE {}
      [] call.kind = "from_king" -> IF p = King THEN {} ELSE {King}

\* The bytes of call k, in units; unit 0 is the length header.
Message(k) ==
    LET header == IF prog[k].kind = "from_king" THEN 1 ELSE 0
    IN  [i \in 1 .. prog[k].len + header |-> <<k, i - header>>]

Received(p, k) ==
    [q \in Party |-> IF q \in Senders(p, prog[k]) THEN Message(k) ELSE <<>>]

Entered(p, k) == op[p] > k \/ (op[p] = k /\ busy[p])

-----------------------------------------------------------------------------
AInit ==
    /\ prog \in Programs
    /\ op = [p \in Party |-> 1]
    /\ busy = [p \in Party |-> FALSE]
    /\ result = [p \in Party |-> [q \in Party |-> <<>>]]

AEnter(p) ==
    /\ ~ busy[p] /\ op[p] <= Len(prog)
    /\ busy' = [busy EXCEPT ![p] = TRUE]
    /\ UNCHANGED <<prog, op, result>>

ALeave(p) ==
    /\ busy[p]
    /\ \A q \in Senders(p, prog[op[p]]) : Entered(q, op[p])
    /\ result' = [result EXCEPT ![p] = Received(p, op[p])]
    /\ op' = [op EXCEPT ![p] = @ + 1]
    /\ busy' = [busy EXCEPT ![p] = FALSE]
    /\ UNCHANGED prog

ANext == \E p \in Party : AEnter(p) \/ ALeave(p)

ASpec == AInit /\ [][ANext]_cvars

-----------------------------------------------------------------------------
CTypeOK ==
    /\ prog \in Programs
    /\ op \in [Party -> 1 .. Len(prog) + 1]
    /\ busy \in [Party -> BOOLEAN]
    /\ \A p \in Party : busy[p] => op[p] <= Len(prog)

\* A call that returned what others sent was made by all of them: a broadcast
\* is a barrier, and the king's answer follows its question.
InStep ==
    \A p \in Party : \A k \in 1 .. op[p] - 1 :
        \A q \in Senders(p, prog[k]) : Entered(q, k)
=============================================================================
