------------------------------- MODULE Rounds -------------------------------
(***************************************************************************)
(* The collective operations of the N-party network: broadcast,            *)
(* send_to_king and recv_from_king of mpc-net/src/multi.rs.  The streams   *)
(* between parties have bounded socket buffers and carry no message        *)
(* boundaries; the peers of one call are served by a pool of worker        *)
(* threads, each blocked on one peer at a time.                            *)
(***************************************************************************)
EXTENDS Collective, FiniteSets

CONSTANTS
    Cap,     \* units a stream holds per direction before write_all blocks
    Workers  \* threads of the rayon pool

ASSUME CapAssumption == Cap \in Nat \ {0}
ASSUME WorkersAssumption == Workers \in Nat \ {0}

VARIABLES
    started,  \* peers whose task a worker has begun
    wrote,    \* wrote[p][q]: units written in p's task for q
    got,      \* got[p][q]: units read in it
    pipe      \* pipe[p][q]: units on the way from p to q

vars == <<prog, op, busy, result, started, wrote, got, pipe>>

-----------------------------------------------------------------------------
Current(p) == prog[op[p]]

Receivers(p, call) == {q \in Party \ {p} : p \in Senders(q, call)}

Peers(p) == Senders(p, Current(p)) \cup Receivers(p, Current(p))

\* Units to write for q: the length header comes first.
ToWrite(p, q) ==
    IF q \in Receivers(p, Current(p)) THEN Len(Message(op[p])) ELSE 0

\* Slip: the receiver takes the length it expects and forgets the header.
SlipToRead(p, q) ==
    IF q \in Senders(p, Current(p)) THEN Current(p).len ELSE 0

\* Units to read from q: as many as the party itself would send, or as many
\* as the header announces.  (A byte that is no header announces nothing.)
ToRead(p, q) ==
    IF q \notin Senders(p, Current(p)) THEN 0
    ELSE IF Current(p).kind # "from_king" THEN Current(p).len
    ELSE IF got[p][q] = <<>> THEN 1
    ELSE LET k == Head(got[p][q])[1]  pos == Head(got[p][q])[2]
         IN  1 + IF pos = 0 THEN prog[k].len ELSE 0

WriteDone(p, q) == wrote[p][q] >= ToWrite(p, q)
ReadDone(p, q)  == Len(got[p][q]) >= ToRead(p, q)

Unfinished(p) == {q \in Peers(p) : ~ WriteDone(p, q) \/ ~ ReadDone(p, q)}

\* Slip: a party reads before it writes, whatever the peer does.
SlipReadsFirst(p, q) == TRUE

\* In a broadcast a party reads first from a lower one, writes first to a
\* higher one.
ReadsFirst(p, q) == q < p

-----------------------------------------------------------------------------
Init ==
    /\ AInit
    /\ started = [p \in Party |-> {}]
    /\ wrote = [p \in Party |-> [q \in Party |-> 0]]
    /\ got = [p \in Party |-> [q \in Party |-> <<>>]]
    /\ pipe = [p \in Party |-> [q \in Party |-> <<>>]]

Enter(p) == AEnter(p) /\ UNCHANGED <<started, wrote, got, pipe>>

\* A worker begins the task of one more peer.  The workers take pieces of the
\* range of peers and go through each piece in order, so the lowest task that
\* is not finished is always the first to begin.
Begin(p, q) ==
    /\ busy[p]
    /\ q \in Unfinished(p) \ started[p]
    /\ Cardinality(started[p] \cap Unfinished(p)) < Workers
    /\ \A x \in Unfinished(p) : x < q =>
         \E y \in started[p] \cap Unfinished(p) : y <= x
    /\ started' = [started EXCEPT ![p] = @ \cup {q}]
    /\ UNCHANGED <<prog, op, busy, result, wrote, got, pipe>>

Write(p, q) ==
    /\ busy[p] /\ q \in started[p]
    /\ ~ WriteDone(p, q)
    /\ ReadsFirst(p, q) => ReadDone(p, q)
    /\ Len(pipe[p][q]) < Cap
    /\ wrote' = [wrote EXCEPT ![p][q] = @ + 1]
    /\ pipe' = [pipe EXCEPT ![p][q] = Append(@, Message(op[p])[wrote[p][q] + 1])]
    /\ UNCHANGED <<prog, op, busy, result, started, got>>

Read(p, q) ==
    /\ busy[p] /\ q \in started[p]
    /\ ~ ReadDone(p, q)
    /\ ReadsFirst(p, q) \/ WriteDone(p, q)
    /\ pipe[q][p] # <<>>
    /\ got' = [got EXCEPT ![p][q] = Append(@, Head(pipe[q][p]))]
    /\ pipe' = [pipe EXCEPT ![q][p] = Tail(@)]
    /\ UNCHANGED <<prog, op, busy, result, started, wrote>>

\* Slip: the call returns once everything is written.
SlipLeaveEarly(p) ==
    /\ busy[p] /\ \A q \in Peers(p) : WriteDone(p, q)
    /\ result' = [result EXCEPT ![p] = got[p]]
    /\ op' = [op EXCEPT ![p] = @ + 1]
    /\ busy' = [busy EXCEPT ![p] = FALSE]
    /\ started' = [started EXCEPT ![p] = {}]
    /\ wrote' = [wrote EXCEPT ![p] = [q \in Party |-> 0]]
    /\ got' = [got EXCEPT ![p] = [q \in Party |-> <<>>]]
    /\ UNCHANGED <<prog, pipe>>

\* Slip: the buffers of the call are used again for the next one.
SlipLeaveKeep(p) ==
    /\ busy[p] /\ Unfinished(p) = {}
    /\ result' = [result EXCEPT ![p] = got[p]]
    /\ op' = [op EXCEPT ![p] = @ + 1]
    /\ busy' = [busy EXCEPT ![p] = FALSE]
    /\ started' = [started EXCEPT ![p] = {}]
    /\ wrote' = [wrote EXCEPT ![p] = [q \in Party |-> 0]]
    /\ UNCHANGED <<prog, got, pipe>>

Leave(p) ==
    /\ busy[p] /\ Unfinished(p) = {}
    /\ result' = [result EXCEPT ![p] = got[p]]
    /\ op' = [op EXCEPT ![p] = @ + 1]
    /\ busy' = [busy EXCEPT ![p] = FALSE]
    /\ started' = [started EXCEPT ![p] = {}]
    /\ wrote' = [wrote EXCEPT ![p] = [q \in Party |-> 0]]
    /\ got' = [got EXCEPT ![p] = [q \in Party |-> <<>>]]
    /\ UNCHANGED <<prog, pipe>>

Finished == \A p \in Party : op[p] > Len(prog)

\* The program is over; the processes go their way.
Terminated == Finished /\ UNCHANGED vars

Step(p) ==
    \/ Enter(p) \/ Leave(p)
    \/ \E q \in Party : Begin(p, q) \/ Write(p, q) \/ Read(p, q)

Next == Terminated \/ \E p \in Party : Step(p)

\* The threads of a party are scheduled fairly, the kernel moves the bytes.
Fairness ==
    \A p \in Party :
        /\ WF_vars(Enter(p)) /\ WF_vars(Leave(p))
        /\ \A q \in Party : /\ WF_vars(Begin(p, q))
                             /\ WF_vars(Write(p, q))
                             /\ WF_vars(Read(p, q))

Spec == Init /\ [][Next]_vars

FairSpec == Spec /\ Fairness

-----------------------------------------------------------------------------
TypeOK ==
    /\ CTypeOK
    /\ started \in [Party -> SUBSET Party]
    /\ \A p \in Party : busy[p] =>
         Cardinality(started[p] \cap Unfinished(p)) <= Workers
    /\ \A p, q \in Party :
         /\ wrote[p][q] \in 0 .. (IF busy[p] THEN ToWrite(p, q) ELSE 0)
         /\ Len(got[p][q]) \in 0 .. (IF busy[p] THEN ToRead(p, q) ELSE 0)
         /\ Len(pipe[p][q]) \in 0 .. Cap

IsPrefixOf(s, t) == Len(s) <= Len(t) /\ s = SubSeq(t, 1, Len(s))

\* Without message boundaries, a party still reads only bytes of the call it
\* is in: no byte of an earlier or a later call is taken for one of this.
NoCrossTalk ==
    \A p, q \in Party :
        busy[p] /\ q \in Senders(p, Current(p)) => IsPrefixOf(got[p][q], Message(op[p]))

\* When the program is over, nothing is left in a stream.
Drained == Finished => \A p, q \in Party : pipe[p][q] = <<>>

\* Every party gets through the whole program, however small the socket
\* buffers and the pool of workers are.
Finishes == <>Finished

\* The calls keep the promise of Collective.
KeepsPromise == ASpec
=============================================================================
