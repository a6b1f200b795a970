------------------------------ MODULE TwoParty ------------------------------
(***************************************************************************)
(* The two-party network of mpc-net/src/two.rs.  Both directions of one    *)
(* stream are bounded.  A broadcast is exchange_bytes: the stream is       *)
(* nonblocking, and a loop writes what fits and reads what is there, in    *)
(* turns, until both are complete.  The calls to and from the king are     *)
(* blocking and send the length first.  A process may end at any moment,   *)
(* its stream with it.                                                     *)
(***************************************************************************)
EXTENDS Collective

CONSTANT Cap  \* units a direction of the stream holds

ASSUME TwoAssumption == N = 2
ASSUME CapAssumption == Cap \in Nat \ {0}

VARIABLES
    st,    \* "off", "listening", "up", "failed" (panicked) or "gone"
    turn,  \* what the loop of exchange_bytes tries next: "write" or "read"
    sent,  \* units of the call written (bytes_out_offset)
    got,   \* units of the call read (bytes_in)
    pipe,  \* pipe[p]: units on the way from p
    reset  \* parties whose stream answers ConnectionReset

vars == <<prog, op, busy, result, st, turn, sent, got, pipe, reset>>

Status == {"off", "listening", "up", "failed", "gone"}

-----------------------------------------------------------------------------
Other(p)   == 1 - p
Current(p) == prog[op[p]]

Exchanging(p) == busy[p] /\ Current(p).kind = "broadcast"

\* The units of call k as they travel: send_slice puts the length first.
Wire(k) ==
    LET header == IF prog[k].kind = "broadcast" THEN 0 ELSE 1
    IN  [i \in 1 .. prog[k].len + header |-> <<k, i - header>>]

ToSend(p) ==
    IF p \in Senders(Other(p), Current(p)) THEN Len(Wire(op[p])) ELSE 0

\* As many as the party sends itself, or as many as the header announces.
ToGet(p) ==
    IF Other(p) \notin Senders(p, Current(p)) THEN 0
    ELSE IF Current(p).kind = "broadcast" THEN Current(p).len
    ELSE IF got[p] = <<>> THEN 1
    ELSE LET k == Head(got[p])[1]  pos == Head(got[p])[2]
         IN  1 + IF pos = 0 THEN prog[k].len ELSE 0

Written(p) == sent[p] >= ToSend(p)
ReadAll(p) == Len(got[p]) >= ToGet(p)

\* The peer's end of the stream is closed.
Closed(p) == st[Other(p)] \in {"failed", "gone"}

Least(a, b) == IF a < b THEN a ELSE b

\* How many units one attempt may move: nothing if nothing can be moved
\* (WouldBlock), else some part of it.
Part(most) == IF most = 0 THEN {0} ELSE 1 .. most

-----------------------------------------------------------------------------
Init ==
    /\ AInit
    /\ st = [p \in Party |-> "off"]
    /\ turn = [p \in Party |-> "write"]
    /\ sent = [p \in Party |-> 0]
    /\ got = [p \in Party |-> <<>>]
    /\ pipe = [p \in Party |-> <<>>]
    /\ reset = {}

call == <<prog, op, busy, result, turn, sent, got, pipe, reset>>

\* The second party binds its address and waits in accept.
Listen ==
    /\ st[1] = "off"
    /\ st' = [st EXCEPT ![1] = "listening"]
    /\ UNCHANGED call

\* The first party talks first; its attempts until the other listens are
\* refused and repeated.
Meet ==
    /\ st[0] = "off" /\ st[1] = "listening"
    /\ st' = [p \in Party |-> "up"]
    /\ UNCHANGED call

Enter(p) == st[p] = "up" /\ AEnter(p) /\ UNCHANGED <<st, turn, sent, got, pipe, reset>>

\* The attempts of an iteration: write, unless all is written; then read,
\* unless all is read.
WriteTurn(p) == ~ Written(p) /\ (turn[p] = "write" \/ ReadAll(p))

\* Slip: reads only when everything is written.
SlipReadTurn(p) == ~ ReadAll(p) /\ Written(p)

ReadTurn(p)  == ~ ReadAll(p) /\ (turn[p] = "read" \/ Written(p))

\* Units [sent, sent + k) go out, or are lost if nobody is at the other end.
Put(p, k) ==
    /\ sent' = [sent EXCEPT ![p] = @ + k]
    /\ IF Closed(p)
       THEN /\ reset' = reset \cup {p}
            /\ UNCHANGED pipe
       ELSE /\ pipe' = [pipe EXCEPT ![p] = @ \o SubSeq(Wire(op[p]), sent[p] + 1, sent[p] + k)]
            /\ UNCHANGED reset

Take(p, k) ==
    /\ got' = [got EXCEPT ![p] = @ \o SubSeq(pipe[Other(p)], 1, k)]
    /\ pipe' = [pipe EXCEPT ![Other(p)] = SubSeq(@, k + 1, Len(@))]

\* One write of the loop.
TryWrite(p) ==
    /\ st[p] = "up" /\ Exchanging(p) /\ WriteTurn(p)
    /\ p \notin reset
    /\ \E k \in Part(Least(Cap - Len(pipe[p]), ToSend(p) - sent[p])) : Put(p, k)
    /\ turn' = [turn EXCEPT ![p] = "read"]
    /\ UNCHANGED <<prog, op, busy, result, st, got>>

\* Slip: the bytes read are put at the beginning of the buffer.
SlipTryRead(p) ==
    /\ st[p] = "up" /\ Exchanging(p) /\ ReadTurn(p)
    /\ pipe[Other(p)] # <<>> \/ p \notin reset
    /\ \E k \in Part(Len(pipe[Other(p)])) : Take(p, k)
    /\ turn' = [turn EXCEPT ![p] = "write"]
    /\ UNCHANGED <<prog, op, busy, result, st, sent, reset>>

\* One read of the loop: WouldBlock if the stream is empty; at the end of the
\* stream Ok(0), which the loop does not tell from having read nothing.
TryRead(p) ==
    /\ st[p] = "up" /\ Exchanging(p) /\ ReadTurn(p)
    /\ pipe[Other(p)] # <<>> \/ p \notin reset
    /\ \E k \in Part(Least(Len(pipe[Other(p)]), ToGet(p) - Len(got[p]))) : Take(p, k)
    /\ turn' = [turn EXCEPT ![p] = "write"]
    /\ UNCHANGED <<prog, op, busy, result, st, sent, reset>>

\* send_slice: one unit of the header or the bytes.
SendUnit(p) ==
    /\ st[p] = "up" /\ busy[p] /\ ~ Exchanging(p) /\ ~ Written(p)
    /\ p \notin reset
    /\ Len(pipe[p]) < Cap
    /\ Put(p, 1)
    /\ UNCHANGED <<prog, op, busy, result, st, turn, got>>

\* recv_vec: one unit of the header or the bytes.
RecvUnit(p) ==
    /\ st[p] = "up" /\ busy[p] /\ ~ Exchanging(p) /\ ~ ReadAll(p)
    /\ pipe[Other(p)] # <<>>
    /\ Take(p, 1)
    /\ UNCHANGED <<prog, op, busy, result, st, turn, sent, reset>>

\* Slip: a read at the end of the stream is tried again, as in exchange_bytes.
SlipStreamFails(p) ==
    \/ p \in reset /\ ~ Written(p)
    \/ p \in reset /\ ~ ReadAll(p) /\ pipe[Other(p)] = <<>>

\* A reset stream fails whoever uses it; at the end of the stream, read_exact
\* fails as well.
StreamFails(p) ==
    \/ p \in reset /\ ~ Written(p)
    \/ /\ ~ ReadAll(p) /\ pipe[Other(p)] = <<>>
       /\ p \in reset \/ (Closed(p) /\ ~ Exchanging(p))

\* A party that stops with bytes unread resets the stream.
Hangup(p, status) ==
    /\ st' = [st EXCEPT ![p] = status]
    /\ reset' = IF pipe[Other(p)] # <<>> THEN reset \cup {Other(p)} ELSE reset
    /\ pipe' = [pipe EXCEPT ![Other(p)] = <<>>]
    /\ UNCHANGED <<prog, op, busy, result, turn, sent, got>>

\* The caller unwraps the error.
Panic(p) ==
    /\ st[p] = "up" /\ busy[p] /\ StreamFails(p)
    /\ Hangup(p, "failed")

\* The process ends, with its work done or by a crash.
End(p) ==
    /\ st[p] = "up"
    /\ Hangup(p, "gone")

\* What the call returns: the bytes without the length of send_slice.
Body(p) == SubSeq(got[p], Len(Wire(op[p])) - Len(Message(op[p])) + 1, Len(got[p]))

\* Slip: the exchange is over when everything is written or read.
SlipLeave(p) ==
    /\ st[p] = "up" /\ busy[p] /\ (Written(p) \/ ReadAll(p))
    /\ result' = [result EXCEPT ![p] = [q \in Party |-> IF q = p THEN <<>> ELSE Body(p)]]
    /\ op' = [op EXCEPT ![p] = @ + 1]
    /\ busy' = [busy EXCEPT ![p] = FALSE]
    /\ turn' = [turn EXCEPT ![p] = "write"]
    /\ sent' = [sent EXCEPT ![p] = 0]
    /\ got' = [got EXCEPT ![p] = <<>>]
    /\ UNCHANGED <<prog, st, pipe, reset>>

Leave(p) ==
    /\ st[p] = "up" /\ busy[p] /\ Written(p) /\ ReadAll(p)
    /\ result' = [result EXCEPT ![p] = [q \in Party |-> IF q = p THEN <<>> ELSE Body(p)]]
    /\ op' = [op EXCEPT ![p] = @ + 1]
    /\ busy' = [busy EXCEPT ![p] = FALSE]
    /\ turn' = [turn EXCEPT ![p] = "write"]
    /\ sent' = [sent EXCEPT ![p] = 0]
    /\ got' = [got EXCEPT ![p] = <<>>]
    /\ UNCHANGED <<prog, st, pipe, reset>>

Step(p) ==
    \/ Enter(p) \/ TryWrite(p) \/ TryRead(p)
    \/ SendUnit(p) \/ RecvUnit(p) \/ Panic(p) \/ Leave(p)

Next == Listen \/ Meet \/ \E p \in Party : Step(p) \/ End(p)

\* Both processes are launched and go on; nothing makes a process end.
Fairness == WF_vars(Listen) /\ WF_vars(Meet) /\ \A p \in Party : WF_vars(Step(p))

Spec == Init /\ [][Next]_vars

FairSpec == Spec /\ Fairness

-----------------------------------------------------------------------------
TypeOK ==
    /\ CTypeOK
    /\ st \in [Party -> Status]
    /\ turn \in [Party -> {"write", "read"}]
    /\ reset \subseteq Party
    /\ \A p \in Party :
         /\ sent[p] \in 0 .. (IF busy[p] THEN ToSend(p) ELSE 0)
         /\ Len(got[p]) \in 0 .. (IF busy[p] THEN ToGet(p) ELSE 0)
         /\ Len(pipe[p]) \in 0 .. Cap

Done(p) == op[p] > Len(prog)

\* Messages longer than the stream holds go both ways at once, and the calls
\* end all the same: a program comes to its end unless a process does first.
Finishes == <>(\A p \in Party : Done(p) \/ st[p] \in {"failed", "gone"})
            \/ <>(\E p \in Party : st[p] = "gone" /\ ~ Done(p))

\* Where the end of one process leaves the other.  It comes to the end of its
\* program, or panics, or it is inside an exchange: the one place where the end
\* of the stream goes unnoticed, and the loop turns for ever.
SurvivorEnds ==
    \A p \in Party :
        (st[p] = "up" /\ st[Other(p)] = "gone") ~>
            \/ Done(p)
            \/ st[p] \in {"failed", "gone"}
            \/ Exchanging(p) /\ Written(p) /\ p \notin reset

\* The calls keep the promise of Collective, whoever ends when.
KeepsPromise == ASpec
=============================================================================
