------------------------------- MODULE Connect -------------------------------
(***************************************************************************)
(* Start-up of the N-party network: Connections::connect_to_all of         *)
(* mpc-net/src/multi.rs, run by every party.  For every sender             *)
(* from_id = 0, 1, ..., N-1 in turn, the sender opens a TCP connection to  *)
(* every higher party; the receiver binds a listener for this one round,   *)
(* accepts ONE connection from whoever comes first, files it under the     *)
(* sender of the round and drops the listener.  A one-byte note passes the *)
(* turn from a sender to the next one.  A round with the king (party 0)    *)
(* ends the start-up.                                                      *)
(*                                                                         *)
(* A sender opens at most one connection to each receiver, so the pair     *)
(* names the connection: slot[p][q] is the party whose process is at the   *)
(* other end of peers[q].stream of p, which ought to be q.                 *)
(***************************************************************************)
EXTENDS Naturals, Sequences

CONSTANTS
    N,         \* number of lines of the hosts file: the parties
    Patience,  \* 30 s, counted in refused attempts of 10 ms
    None       \* Option::None

ASSUME NAssumption == N \in Nat \ {0}
ASSUME PatienceAssumption == Patience \in Nat \ {0}
ASSUME NoneAssumption == None \notin Nat

Party == 0 .. N-1
King  == 0

VARIABLES
    pc,         \* where each party is in connect_to_all
    round,      \* from_id of the outer loop
    to,         \* to_id of the sender's inner loop
    slot,       \* slot[p][q]: the party at the other end of peers[q].stream
    listening,  \* is the party's listener bound?
    backlog,    \* parties whose handshake is done, not yet accepted
    reset,      \* <<a, b>>: b dropped its listener with a's connection pending
    pipe,       \* pipe[a][b]: writes of a that b has not read yet
    waited,     \* ms_waited of the sender, in units of 10 ms
    refused     \* attempts refused since the last success, cut at Patience + 1

vars == <<pc, round, to, slot, listening, backlog, reset, pipe, waited,
          refused>>

sockets == <<slot, listening, backlog, reset>>
clock   == <<waited, refused>>

PC == {"off", "connect", "note", "bind", "accept", "close", "await_note",
       "to_king", "from_king", "done", "panicked"}

TypeOK ==
    /\ pc \in [Party -> PC]
    /\ round \in [Party -> 0 .. N]
    /\ to \in [Party -> 1 .. N]
    /\ slot \in [Party -> [Party -> Party \cup {None}]]
    /\ \A p \in Party : slot[p][p] = None
    /\ listening \in [Party -> BOOLEAN]
    /\ backlog \in [Party -> Seq(Party)]
    /\ reset \subseteq Party \X Party
    /\ pipe \in [Party -> [Party -> Nat]]
    /\ waited \in [Party -> 0 .. Patience + 1]
    /\ refused \in [Party -> 0 .. Patience + 1]

Init ==
    /\ pc = [p \in Party |-> "off"]
    /\ round = [p \in Party |-> 0]
    /\ to = [p \in Party |-> p + 1]
    /\ slot = [p \in Party |-> [q \in Party |-> None]]
    /\ listening = [p \in Party |-> FALSE]
    /\ backlog = [p \in Party |-> <<>>]
    /\ reset = {}
    /\ pipe = [p \in Party |-> [q \in Party |-> 0]]
    /\ waited = [p \in Party |-> 0]
    /\ refused = [p \in Party |-> 0]

-----------------------------------------------------------------------------
(* Helpers.                                                                *)

\* Slip: no round with the king.
SlipPhaseAtNoKing(p, r) ==
    IF r < p THEN "bind" ELSE IF r = p /\ p + 1 < N THEN "connect" ELSE "done"

\* What p does first in round r: receive below its own round, send in it
\* (the last party has nobody to send to), nothing after it.
PhaseAt(p, r) ==
    IF r < p THEN "bind" ELSE IF r = p /\ p + 1 < N THEN "connect" ELSE "to_king"

NextRound(p) ==
    /\ round' = [round EXCEPT ![p] = @ + 1]
    /\ pc' = [pc EXCEPT ![p] = PhaseAt(p, round[p] + 1)]

Goto(p, label) ==
    /\ pc' = [pc EXCEPT ![p] = label]
    /\ UNCHANGED round

\* The connection between a and b no longer works: b's kernel reset it, or a
\* process at one end of it is gone.
Broken(a, b) ==
    \/ <<a, b>> \in reset \/ <<b, a>> \in reset
    \/ pc[a] = "panicked" \/ pc[b] = "panicked"

\* write_all(..).unwrap() by p on its stream to x, and what p does next.  On a
\* broken connection the first write may still succeed locally, and is lost.
Write(p, x, after) ==
    \/ /\ pipe' = IF Broken(p, x) THEN pipe ELSE [pipe EXCEPT ![p][x] = @ + 1]
       /\ after
    \/ /\ Broken(p, x)
       /\ Goto(p, "panicked")
       /\ UNCHANGED pipe

-----------------------------------------------------------------------------
(* The steps of one party.  Definitions named Slip... are not part of the   *)
(* model: each is a plausible mistake in the definition that follows it.    *)

\* The process is launched, reads the hosts file and enters the loop.
Start(p) ==
    /\ pc[p] = "off"
    /\ Goto(p, PhaseAt(p, 0))
    /\ UNCHANGED <<to, sockets, pipe, clock>>

\* TcpStream::connect succeeds: to[p]'s kernel completes the handshake while
\* the listener is bound, whatever round its owner is in.
ConnectOk(p) ==
    /\ pc[p] = "connect"
    /\ listening[to[p]]
    /\ backlog' = [backlog EXCEPT ![to[p]] = Append(@, p)]
    /\ slot' = [slot EXCEPT ![p][to[p]] = to[p]]
    /\ to' = [to EXCEPT ![p] = @ + 1]
    /\ Goto(p, IF to[p] + 1 = N THEN "note" ELSE "connect")
    /\ waited' = [waited EXCEPT ![p] = 0]
    /\ refused' = [refused EXCEPT ![p] = 0]
    /\ UNCHANGED <<listening, reset, pipe>>

\* Nobody listens: ConnectionRefused.  ms_waited is declared inside the retry
\* loop, so every attempt counts from 0 and compares 10 ms with the limit.
ConnectRefused(p) ==
    /\ pc[p] = "connect"
    /\ ~ listening[to[p]]
    /\ waited' = [waited EXCEPT ![p] = 0 + 1]
    /\ refused' = [refused EXCEPT ![p] = IF @ > Patience THEN @ ELSE @ + 1]
    /\ Goto(p, IF waited'[p] > Patience THEN "panicked" ELSE "connect")
    /\ UNCHANGED <<to, sockets, pipe>>

\* Forgets the note.
SlipNoNote(p) ==
    /\ pc[p] = "note"
    /\ NextRound(p)
    /\ UNCHANGED <<to, sockets, pipe, clock>>

\* The sender passes the turn to the next party.
WriteNote(p) ==
    /\ pc[p] = "note"
    /\ Write(p, slot[p][p + 1], NextRound(p))
    /\ UNCHANGED <<to, sockets, clock>>

Bind(p) ==
    /\ pc[p] = "bind"
    /\ listening' = [listening EXCEPT ![p] = TRUE]
    /\ Goto(p, "accept")
    /\ UNCHANGED <<to, slot, backlog, reset, pipe, clock>>

\* Files the stream one slot too far.
SlipAcceptSlot(p) ==
    /\ pc[p] = "accept"
    /\ backlog[p] # <<>>
    /\ slot' = [slot EXCEPT ![p][round[p] + 1] = Head(backlog[p])]
    /\ backlog' = [backlog EXCEPT ![p] = Tail(@)]
    /\ Goto(p, "close")
    /\ UNCHANGED <<to, listening, reset, pipe, clock>>

\* accept() returns the oldest pending connection, whoever opened it.
Accept(p) ==
    /\ pc[p] = "accept"
    /\ backlog[p] # <<>>
    /\ slot' = [slot EXCEPT ![p][round[p]] = Head(backlog[p])]
    /\ backlog' = [backlog EXCEPT ![p] = Tail(@)]
    /\ Goto(p, "close")
    /\ UNCHANGED <<to, listening, reset, pipe, clock>>

\* Does not wait for the note.
SlipCloseNoWait(p) ==
    /\ pc[p] = "close"
    /\ listening' = [listening EXCEPT ![p] = FALSE]
    /\ reset' = reset \cup {<<backlog[p][i], p>> : i \in 1 .. Len(backlog[p])}
    /\ backlog' = [backlog EXCEPT ![p] = <<>>]
    /\ NextRound(p)
    /\ UNCHANGED <<to, slot, pipe, clock>>

\* The listener goes out of scope; its pending connections are reset.  The
\* party next to send then waits for the note.
Close(p) ==
    /\ pc[p] = "close"
    /\ listening' = [listening EXCEPT ![p] = FALSE]
    /\ reset' = reset \cup {<<backlog[p][i], p>> : i \in 1 .. Len(backlog[p])}
    /\ backlog' = [backlog EXCEPT ![p] = <<>>]
    /\ IF p = round[p] + 1 THEN Goto(p, "await_note") ELSE NextRound(p)
    /\ UNCHANGED <<to, slot, pipe, clock>>

ReadNote(p) ==
    /\ pc[p] = "await_note"
    /\ pipe[slot[p][p - 1]][p] > 0
    /\ pipe' = [pipe EXCEPT ![slot[p][p - 1]][p] = @ - 1]
    /\ NextRound(p)
    /\ UNCHANGED <<to, sockets, clock>>

-----------------------------------------------------------------------------
(* The round with the king.                                                *)

\* send_to_king(&[id]) of a party that is not the king.
SendToKing(p) ==
    /\ pc[p] = "to_king" /\ p # King
    /\ Write(p, slot[p][King], Goto(p, "from_king"))
    /\ UNCHANGED <<to, sockets, clock>>

\* The king's send_to_king and recv_from_king: read a byte from every stream,
\* then write an answer on every stream.  The king opened all of them itself.
KingRound ==
    /\ pc[King] = "to_king"
    /\ \A q \in Party \ {King} : pipe[q][King] > 0
    /\ pipe' = [a \in Party |-> [b \in Party |->
                  IF b = King /\ a # King THEN pipe[a][b] - 1
                  ELSE IF a = King /\ b # King THEN pipe[a][b] + 1
                  ELSE pipe[a][b]]]
    /\ Goto(King, "done")
    /\ UNCHANGED <<to, sockets, clock>>

\* recv_from_king, then the assertion that every other slot is filled.
RecvFromKing(p) ==
    /\ pc[p] = "from_king" /\ p # King
    /\ pipe[slot[p][King]][p] > 0
    /\ pipe' = [pipe EXCEPT ![slot[p][King]][p] = @ - 1]
    /\ Goto(p, IF \E q \in Party \ {p} : slot[p][q] = None
               THEN "panicked" ELSE "done")
    /\ UNCHANGED <<to, sockets, clock>>

\* The parties a blocking read of p is waiting for.
Awaited(p) ==
    CASE pc[p] = "await_note" -> {slot[p][p - 1]}
      [] pc[p] = "from_king"  -> {slot[p][King]}
      [] pc[p] = "to_king" /\ p = King -> Party \ {King}
      [] OTHER -> {}

\* The read meets a reset or the end of the stream: unwrap() panics, and the
\* panic ends the process.
ReadFails(p) ==
    /\ \E x \in Awaited(p) : Broken(x, p) /\ pipe[x][p] = 0
    /\ Goto(p, "panicked")
    /\ UNCHANGED <<to, sockets, pipe, clock>>

-----------------------------------------------------------------------------
Step(p) ==
    \/ ConnectOk(p) \/ ConnectRefused(p) \/ WriteNote(p)
    \/ Bind(p) \/ Accept(p) \/ Close(p) \/ ReadNote(p)
    \/ SendToKing(p) \/ (p = King /\ KingRound) \/ RecvFromKing(p)
    \/ ReadFails(p)

Next == \E p \in Party : Start(p) \/ Step(p)

\* Every launched process keeps running; every party is launched
\* (mpc-lookup/test.bash starts one client per line of the hosts file).
Fairness == \A p \in Party : WF_vars(Start(p)) /\ WF_vars(Step(p))

Spec == Init /\ [][Next]_vars

FairSpec == Spec /\ Fairness

-----------------------------------------------------------------------------
(* Properties.                                                             *)

\* A party is in its sending turn from its first connect to its note.
Sending(p) == pc[p] \in {"connect", "note"}

\* The notes pass one turn round the parties: two parties never send at the
\* same time, even after a connection was reset and slots were mixed up.
SendersTakeTurns == \A p, q \in Party : Sending(p) /\ Sending(q) => p = q

\* peers[q].stream of p leads to party q: "Sender for next round waits for
\* note from this sender to prevent race on receipt" (multi.rs:113).
SlotsMatch == \A p, q \in Party : slot[p][q] \in {None, q}

\* As long as no listener was dropped with a connection pending on it, every
\* stream is filed under the party it leads to.
SlotsMatchUnlessReset == reset = {} => SlotsMatch

\* "Do a round with the king, to be sure everyone is ready" (multi.rs:132):
\* once one party returns, all of them hold a stream to each other one, under
\* its name, and no connection was lost.
ReadyMeansMesh ==
    (\E p \in Party : pc[p] = "done") =>
        /\ \A p, q \in Party : p # q => slot[p][q] = q
        /\ reset = {}

\* If every party is launched, the start-up ends for all of them, unless a
\* connection is reset on the way.
ConnectsUnlessReset ==
    <>(reset # {} \/ \A p \in Party : pc[p] = "done")

\* "Could not find peer in 30s" (multi.rs:94): a sender whose peer refuses
\* it for longer than that does not go on trying.
GivesUpIn30s == \A p \in Party : refused[p] > Patience => pc[p] = "panicked"
=============================================================================
