---------------------------- MODULE InstrumentLine ----------------------------
(***************************************************************************)
(* A line transport (src/hal/transport/TcpScpiTransport.cpp; the serial    *)
(* one is the same) as its driver sees it: commands go out in order, the   *)
(* instrument executes them in order at its own pace, and its replies come *)
(* back in order, as late as they like.  Nothing in a reply says which     *)
(* query it answers: read() takes the oldest line there is.                *)
(*                                                                         *)
(* "replies" holds what the instrument has answered and nobody has read,   *)
(* whether it is still on its way, in the socket, or in m_buffer.          *)
(***************************************************************************)
EXTENDS Integers, Sequences, FiniteSets

VARIABLES
  connected,  \* the socket is open
  wire,       \* commands written and not yet executed
  replies     \* replies given and not yet read

line == <<connected, wire, replies>>

LineInit == connected = FALSE /\ wire = <<>> /\ replies = <<>>

\* open(): a new socket, and m_buffer is emptied.  What an earlier connection
\* had sent was executed by now or is never.
Connected(commands) == connected' = TRUE /\ wire' = commands /\ replies' = <<>>

\* ... or the connection is refused.
NotConnected == connected' = FALSE /\ wire' = <<>> /\ replies' = <<>>

\* close(): what was written may still be executed, but no reply gets through.
Closed(commands) == connected' = FALSE /\ wire' = wire \o commands /\ replies' = <<>>

Prefixes(commands) == {SubSeq(commands, 1, n) : n \in 0..Len(commands)}

\* A sequence of write() calls that all succeed, and one that stops at the first
\* failure -- which, when it is a timeout, may have sent its command.
Written(commands) == wire' = wire \o commands /\ UNCHANGED <<connected, replies>>
WriteFails(commands) ==
  /\ wire' \in {wire \o sent : sent \in Prefixes(commands)}
  /\ UNCHANGED <<connected, replies>>

\* read(): the oldest reply, whatever it answers.
OldestReply == Head(replies)
Read == replies # <<>> /\ replies' = Tail(replies) /\ UNCHANGED <<connected, wire>>

\* clear(): discards what has arrived, which need not be all there is.
Discarded == \E n \in 0..Len(replies) : replies' = SubSeq(replies, n + 1, Len(replies))
Clear == Discarded /\ UNCHANGED <<connected, wire>>

\* clear() and one write() after it.
ClearAndWrite(command, ok) ==
  /\ Discarded /\ UNCHANGED connected
  /\ wire' \in {Append(wire, command)} \cup IF ok THEN {} ELSE {wire}

\* The instrument executes its next command, and answers if it is a query.
UpNext(op) == wire # <<>> /\ Head(wire).op = op
Execute == wire' = Tail(wire) /\ UNCHANGED <<connected, replies>>
Answer(reply) ==
  /\ wire' = Tail(wire)
  /\ replies' = IF connected THEN Append(replies, reply) ELSE replies
  /\ UNCHANGED connected

\* Queries that were written and whose answers nobody has read.
Unread(queries) == Len(replies) + Cardinality({i \in 1..Len(wire) : wire[i].op \in queries})

=============================================================================
