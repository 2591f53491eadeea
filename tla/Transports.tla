----------------------------- MODULE Transports -----------------------------
(***************************************************************************)
(* The transports a driver can be given (src/hal/transport), one of them   *)
(* at a time: raw SCPI over TCP, a serial line, a VXI-11 link, a USBTMC    *)
(* interface, a VISA session.  The acquisition thread opens it, writes     *)
(* queries and reads responses; the GUI thread aborts a run by calling     *)
(* clear() beside it.                                                      *)
(*                                                                         *)
(* The response to query q comes in parts 1..Parts, of which only the last *)
(* carries the terminator or the END flag.  On a line nothing says which   *)
(* query a part answers.  VXI-11 and USBTMC fetch every part with a call   *)
(* that has a number -- the RPC transaction id, the bulk transfer's tag -- *)
(* which its answer repeats.                                               *)
(*                                                                         *)
(* The instrument is external: it executes what it is sent in order and as *)
(* late as it likes, and a query makes it forget the response nobody has   *)
(* fetched (IEEE 488.2).                                                   *)
(***************************************************************************)
EXTENDS Integers, Sequences

CONSTANTS
  Parts,      \* parts of a response, bytes of a command
  MaxId,      \* bound: the tag after which the next is 1 (255; 2^32 - 1 for VXI-11)
  MaxOpens,   \* bound: successful or failed opens
  MaxQueries, \* bound: queries
  MaxClears,  \* bound: clears
  MaxDrains   \* bound: reads behind no query

ASSUME PartsAssumption == Parts \in Nat \ {0} /\ MaxId \in Nat \ {0, 1}
ASSUME BoundsAssumption == {MaxOpens, MaxQueries, MaxClears, MaxDrains} \subseteq Nat

VARIABLES
  \* The transport.
  bus,      \* TransportDescriptor::kind
  isOpen,   \* isOpen()
  id,       \* number of the last call: m_transactionId - 1, Impl::tag
  at,       \* what the acquisition thread is in: "idle", "write", "clear", "read",
            \* or a read behind no query: "drain"
  waiting,  \* the call each thread waits for
  ready,    \* a query was written and not read
  sent,     \* bytes of the command the link has accepted
  got,      \* m_buffer of a line, the response being gathered otherwise
  result,   \* the parts the last read() returned, if it succeeded
  \* What is under way.
  calls,    \* sent and not yet executed
  inbound,  \* answers nobody has received
  output,   \* the instrument's output queue
  \* Counters, and an observer: every number has been given out.
  opens, asked, clears, drains,
  spent

client == <<id, at, waiting, ready, sent, got, result>>
medium == <<calls, inbound, output>>
counters == <<opens, asked, clears, drains>>
vars == <<bus, isOpen, client, medium, counters, spent>>

Buses == {"tcp", "serial", "vxi11", "usb", "visa"}
Line == bus \in {"tcp", "serial"}
Threads == {"worker", "gui"}

Part(q, n) == [of |-> q, part |-> n]
Response(q) == [n \in 1..Parts |-> Part(q, n)]
IsLast(p) == p.part = Parts
NoPart == Part(0, -1)

\* For a write: which command, and how much of it was left to send.
Call(number, what, q, left) == [id |-> number, what |-> what, q |-> q, left |-> left]
Request(number, what) == Call(number, what, 0, 0)
NoCall == Request(0, "none")
Answer(call, data) == [id |-> call.id, what |-> call.what, data |-> data]
\* The rest of an answer whose beginning was received and dropped.
Debris == [id |-> 0, what |-> "debris", data |-> NoPart]

Init ==
  /\ bus \in Buses /\ isOpen = FALSE
  /\ id = 0 /\ at = "idle" /\ waiting = [t \in Threads |-> NoCall]
  /\ ready = FALSE /\ sent = 0 /\ got = <<>> /\ result = <<>>
  /\ calls = <<>> /\ inbound = <<>> /\ output = <<>>
  /\ opens = 0 /\ asked = 0 /\ clears = 0 /\ drains = 0
  /\ spent = FALSE

Idle == at = "idle" /\ waiting["worker"] = NoCall

-----------------------------------------------------------------------------
(* Opening and closing.                                                    *)

\* nextTag(), which leaves out 0.  A transaction id wraps no sooner.
NextId == IF id >= MaxId THEN 1 ELSE id + 1

Suffixes(s) == {SubSeq(s, n + 1, Len(s)) : n \in 0..Len(s)}

NewMedium == calls' = <<>> /\ inbound' = <<>> /\ output' = <<>>

OpenSocket == bus = "tcp" /\ NewMedium /\ UNCHANGED id

\* A serial line still delivers what was under way.
OpenPort == bus = "serial" /\ inbound' \in Suffixes(inbound) /\ UNCHANGED <<id, calls, output>>

\* On a new socket, where create_link is the first call.
OpenLink == bus = "vxi11" /\ NewMedium /\ id' = NextId

\* A device keeps what it had; its tags start again.
OpenInterface == bus = "usb" /\ id' = 0 /\ UNCHANGED medium

OpenSession == bus = "visa" /\ NewMedium /\ UNCHANGED id

Open ==
  /\ Idle /\ ~isOpen /\ opens < MaxOpens
  /\ isOpen' = TRUE /\ opens' = opens + 1
  /\ got' = <<>> /\ result' = <<>> /\ ready' = FALSE
  /\ OpenSocket \/ OpenPort \/ OpenLink \/ OpenInterface \/ OpenSession
  /\ UNCHANGED <<bus, at, waiting, sent, asked, clears, drains>>

\* destroy_link is a call too, but whatever comes of it the socket is dropped.
Close ==
  /\ Idle /\ isOpen /\ waiting["gui"] = NoCall
  /\ isOpen' = FALSE /\ got' = <<>>
  /\ id' = IF bus = "vxi11" THEN NextId ELSE id
  /\ UNCHANGED <<bus, at, waiting, ready, sent, result, medium, counters>>

\* The peer is gone; whoever waits is told.
ConnectionDrops ==
  /\ isOpen /\ bus \in {"tcp", "vxi11"}
  /\ isOpen' = FALSE
  /\ at' = "idle" /\ waiting' = [t \in Threads |-> NoCall] /\ result' = <<>>
  /\ UNCHANGED <<bus, id, ready, sent, got, medium, counters>>

-----------------------------------------------------------------------------
(* Numbered calls.                                                         *)

\* coreCall(), or a transfer to the bulk-out endpoint.
Send(t, call) ==
  /\ id' = call.id
  /\ waiting' = [waiting EXCEPT ![t] = call]
  /\ calls' = Append(calls, call)

\* Mutant: any answer is taken for the one that is waited for.
AnyAnswer(t, a) == a.what = waiting[t].what

\* decodeReply(), parseMessageIn(): anything but the answer to the call is refused.
IsAnswer(t, a) == a.id = waiting[t].id /\ a.what = waiting[t].what

\* An answer that is refused is gone.  From a socket whatever came in behind an answer
\* is read along with it and dropped; debris is taken for a record of any length.
Consumed ==
  LET rests == IF bus = "vxi11" THEN Suffixes(Tail(inbound)) ELSE {Tail(inbound)}
      cut == IF bus = "vxi11" THEN {<<Debris>> \o Tail(s) : s \in rests \ {<<>>}} ELSE {} IN
  inbound' \in rests \cup cut

\* What a read behind no query returned is thrown away.
Done(parts) ==
  /\ at' = "idle" /\ waiting' = [waiting EXCEPT !["worker"] = NoCall]
  /\ result' = IF at = "drain" THEN <<>> ELSE parts
  /\ got' = IF Line THEN got ELSE <<>>

Fails == Done(<<>>)

-----------------------------------------------------------------------------
(* write().                                                                *)

Command(number) == Call(number, "write", asked + 1, Parts)

WriteLine == Line /\ calls' = Append(calls, Command(0)) /\ UNCHANGED <<id, output>>

WriteTransfer ==
  bus = "usb" /\ id' = NextId /\ calls' = Append(calls, Command(NextId)) /\ UNCHANGED output

\* viWrite returns when the instrument has taken the command.
WriteSession == bus = "visa" /\ output' = Response(asked + 1) /\ UNCHANGED <<id, calls>>

\* A transfer uses up its tag also when it fails.
WriteNothing ==
  /\ bus # "vxi11" /\ id' = (IF bus = "usb" THEN NextId ELSE id) /\ UNCHANGED <<calls, output>>

\* Every transport but VXI-11 hands the command over, or fails, having sent it or not.
Write(ok) ==
  /\ Idle /\ isOpen /\ asked < MaxQueries
  /\ asked' = asked + 1 /\ result' = <<>> /\ ready' = ok
  /\ WriteLine \/ WriteTransfer \/ WriteSession \/ (~ok /\ WriteNothing)
  /\ UNCHANGED <<bus, isOpen, at, waiting, sent, got, inbound, opens, clears, drains>>

\* A VXI-11 command goes in as many calls as the link's buffer requires.
WriteToLink ==
  /\ Idle /\ isOpen /\ bus = "vxi11" /\ asked < MaxQueries
  /\ asked' = asked + 1 /\ result' = <<>> /\ at' = "write" /\ sent' = 0 /\ ready' = FALSE
  /\ Send("worker", Command(NextId))
  /\ UNCHANGED <<bus, isOpen, got, inbound, output, opens, clears, drains>>

\* Mutant: a link that accepts nothing is asked forever.
AcceptedExactly(n) == sent + n

\* A link that accepts nothing is taken to have accepted a byte.
Accepted(n) == sent + (IF n = 0 THEN 1 ELSE n)

\* device_write was answered: so many bytes accepted, or an error, or another call's answer.
LinkAccepts ==
  /\ at = "write" /\ inbound # <<>> /\ Consumed
  /\ LET data == Head(inbound).data
         accepted == Accepted(data.part) IN
     IF ~IsAnswer("worker", Head(inbound)) \/ data = NoPart
     THEN Fails /\ UNCHANGED <<id, ready, sent, calls>>
     ELSE /\ sent' = accepted /\ UNCHANGED <<got, result>>
          /\ IF accepted >= Parts
             THEN /\ at' = "idle" /\ waiting' = [waiting EXCEPT !["worker"] = NoCall]
                  /\ ready' = TRUE /\ UNCHANGED <<id, calls>>
             ELSE /\ Send("worker", Call(NextId, "write", asked, Parts - accepted))
                  /\ UNCHANGED <<at, ready>>
  /\ UNCHANGED <<bus, isOpen, output, counters>>

-----------------------------------------------------------------------------
(* read().                                                                 *)

\* A read behind no query is what a driver drains a line with.
Asks ==
  /\ at' = (IF ready \/ Line THEN "read" ELSE "drain")
  /\ drains' = IF ready \/ Line THEN drains ELSE drains + 1

Reading == at \in {"read", "drain"}

\* The first part is requested where parts are requested.
Read ==
  /\ Idle /\ isOpen /\ (ready \/ Line \/ drains < MaxDrains) /\ Asks
  /\ result' = <<>> /\ ready' = FALSE
  /\ IF bus \in {"vxi11", "usb"} THEN Send("worker", Request(NextId, "read"))
                               ELSE UNCHANGED <<id, waiting, calls>>
  /\ UNCHANGED <<bus, isOpen, sent, got, inbound, output, opens, asked, clears>>

\* A line: what has arrived goes into the buffer, ...
Pump ==
  /\ at = "read" /\ Line /\ inbound # <<>>
  /\ got' = Append(got, Head(inbound).data) /\ inbound' = Tail(inbound)
  /\ UNCHANGED <<bus, isOpen, id, at, waiting, ready, sent, result, calls, output, counters>>

\* Mutant: the whole buffer is taken for the response.
TakeBuffer(end) == /\ result' = got /\ got' = <<>>

\* ... from which the oldest response is cut at its terminator.
TakeLine(end) == /\ result' = SubSeq(got, 1, end) /\ got' = SubSeq(got, end + 1, Len(got))

ReadLine ==
  /\ at = "read" /\ Line
  /\ \E end \in 1..Len(got) :
       /\ IsLast(got[end]) /\ \A n \in 1..(end - 1) : ~IsLast(got[n])
       /\ TakeLine(end)
  /\ at' = "idle"
  /\ UNCHANGED <<bus, isOpen, id, waiting, ready, sent, medium, counters>>

\* Mutant: a part is taken for the whole response.
EndsAtPart(p) == TRUE

\* ReasonEnd, endOfMessage, anything but VI_SUCCESS_MAX_CNT.
EndsResponse(p) == IsLast(p)

\* Another part, an error (no data), or an answer to something else.  Before more is
\* requested the read may find that it is timed out or cancelled.
PartAnswered ==
  /\ inbound # <<>> /\ Consumed
  /\ LET part == Head(inbound).data
         isPart == IsAnswer("worker", Head(inbound)) /\ part # NoPart IN
     \/ (isPart => ~EndsResponse(part)) /\ Fails /\ UNCHANGED <<id, calls>>
     \/ isPart /\ EndsResponse(part) /\ Done(Append(got, part)) /\ UNCHANGED <<id, calls>>
     \/ /\ isPart /\ ~EndsResponse(part)
        /\ got' = Append(got, part) /\ Send("worker", Request(NextId, "read"))
        /\ UNCHANGED <<at, result>>

\* device_read was answered, ...
ReadLink ==
  /\ Reading /\ bus = "vxi11" /\ PartAnswered
  /\ UNCHANGED <<bus, isOpen, ready, sent, output, counters>>

\* ... a bulk-in transfer arrived, ...
ReadTransfer ==
  /\ Reading /\ bus = "usb" /\ PartAnswered
  /\ UNCHANGED <<bus, isOpen, ready, sent, output, counters>>

\* ... viRead: the runtime fetches a part from the output queue.
ReadSession ==
  /\ Reading /\ bus = "visa" /\ output # <<>>
  /\ output' = Tail(output)
  /\ IF EndsResponse(Head(output)) THEN Done(Append(got, Head(output)))
     ELSE got' = Append(got, Head(output)) /\ UNCHANGED <<at, waiting, result>>
  /\ UNCHANGED <<bus, isOpen, id, ready, sent, calls, inbound, counters>>

\* Timed out or cancelled.  A buffered line keeps what it has; a VXI-11 answer of
\* which a fragment was received leaves the rest of it in the socket.
GiveUp ==
  /\ at # "idle" /\ Fails
  /\ \/ UNCHANGED inbound
     \/ bus = "vxi11" /\ inbound # <<>> /\ inbound' = <<Debris>> \o Tail(inbound)
  /\ UNCHANGED <<bus, isOpen, id, ready, sent, calls, output, counters>>

-----------------------------------------------------------------------------
(* clear(), by the acquisition thread between two operations or by the GUI *)
(* thread at any moment.                                                   *)

ClearLine ==
  /\ Line /\ got' = <<>> /\ inbound' \in Suffixes(inbound)
  /\ UNCHANGED <<id, at, waiting, calls, output>>

\* viClear, INITIATE_CLEAR: the instrument drops what it has in either direction.
ClearSession ==
  /\ bus = "visa" /\ (NewMedium \/ UNCHANGED medium) /\ UNCHANGED <<id, at, waiting, got>>

ClearInterface ==
  /\ bus = "usb" /\ (NewMedium \/ UNCHANGED medium) /\ UNCHANGED <<id, at, waiting, got>>

\* device_clear is a call like any other, on the same socket.  The two threads may
\* fetch the same transaction id.
ClearLink(t) ==
  /\ bus = "vxi11"
  /\ \E number \in {NextId} \cup IF at = "idle" THEN {} ELSE {waiting["worker"].id} :
       Send(t, Request(number, "clear"))
  /\ at' = IF t = "worker" THEN "clear" ELSE at
  /\ UNCHANGED <<got, inbound, output>>

Clear(t) ==
  /\ isOpen /\ clears < MaxClears /\ waiting[t] = NoCall /\ (t = "worker" => Idle)
  /\ clears' = clears + 1
  /\ ClearLine \/ ClearLink(t) \/ ClearSession \/ ClearInterface
  /\ UNCHANGED <<bus, isOpen, ready, sent, result, opens, asked, drains>>

\* Whatever device_clear is answered, clear() returns.
WorkerCleared ==
  /\ at = "clear" /\ inbound # <<>> /\ Consumed /\ Fails
  /\ UNCHANGED <<bus, isOpen, id, ready, sent, calls, output, counters>>

\* The GUI thread takes the next answer, whosever it is, or stops waiting.
GuiCleared ==
  /\ waiting["gui"] # NoCall
  /\ waiting' = [waiting EXCEPT !["gui"] = NoCall]
  /\ (inbound # <<>> /\ Consumed) \/ UNCHANGED inbound
  /\ UNCHANGED <<bus, isOpen, id, at, ready, sent, got, result, calls, output, counters>>

-----------------------------------------------------------------------------
(* The instrument.                                                         *)

Executes(what) == calls # <<>> /\ Head(calls).what = what /\ calls' = Tail(calls)

\* A VXI-11 instrument accepts as much as it likes, or refuses.  The command is
\* complete with the last byte of it; with the first the old response is forgotten.
ExecuteCommand(accepts) ==
  /\ Executes("write") /\ accepts <= Head(calls).left /\ (bus # "vxi11" => accepts = Parts)
  /\ LET call == Head(calls) IN
     /\ output' = CASE Line -> output
                    [] accepts = call.left -> Response(call.q)
                    [] OTHER -> <<>>
     /\ inbound' = CASE Line -> inbound \o [n \in 1..Parts |-> Answer(call, Part(call.q, n))]
                     [] bus = "vxi11" -> Append(inbound, Answer(call, Part(0, accepts)))
                     [] OTHER -> inbound
  /\ UNCHANGED <<bus, isOpen, client, counters>>

GivePart ==
  /\ Executes("read") /\ output # <<>>
  /\ inbound' = Append(inbound, Answer(Head(calls), Head(output))) /\ output' = Tail(output)
  /\ UNCHANGED <<bus, isOpen, client, counters>>

\* Nothing to give: VXI-11 answers with an error after its I/O timeout, a USB device
\* does not answer and forgets the request when something else comes.
GiveNothing ==
  /\ Executes("read") /\ output = <<>>
  /\ \/ bus = "vxi11" /\ inbound' = Append(inbound, Answer(Head(calls), NoPart))
     \/ bus = "usb" /\ Len(calls) > 1 /\ UNCHANGED inbound
  /\ UNCHANGED <<bus, isOpen, client, output, counters>>

ExecuteClear ==
  /\ Executes("clear")
  /\ output' = <<>> /\ inbound' = Append(inbound, Answer(Head(calls), NoPart))
  /\ UNCHANGED <<bus, isOpen, client, counters>>

-----------------------------------------------------------------------------
Operate ==
  \/ Open \/ Close \/ Read \/ WriteToLink
  \/ \E ok \in BOOLEAN : Write(ok)
  \/ \E t \in Threads : Clear(t)

Proceed ==
  \/ LinkAccepts \/ Pump \/ ReadLine \/ ReadLink \/ ReadTransfer \/ ReadSession \/ WorkerCleared

Instrument ==
  \/ \E n \in -1..Parts : ExecuteCommand(n)
  \/ GivePart \/ GiveNothing \/ ExecuteClear

Observe == spent' = (spent \/ id' >= MaxId)

Next ==
  /\ Operate \/ Proceed \/ GiveUp \/ GuiCleared \/ ConnectionDrops \/ Instrument
  /\ Observe

\* Every wait is bounded by a timeout.
Spec ==
  /\ Init /\ [][Next]_vars
  /\ WF_vars((Proceed \/ GiveUp) /\ Observe) /\ WF_vars(GuiCleared /\ Observe)

-----------------------------------------------------------------------------
(* Properties.                                                             *)

\* A device numbers its transfers the same way on every connection.
Renumbered == bus = "usb" /\ opens > 1

\* What read() returns is one response from its first part to its last, however
\* its parts were fetched and whatever was given up before.  Clearing a line, or
\* opening a serial one, may cut off the beginning of a response on its way.
ResponseIsWhole ==
  ~Renumbered =>
    /\ result = <<>> \/ \E q \in 1..asked, n \in 1..Parts : result = SubSeq(Response(q), n, Parts)
    /\ ~Line \/ (opens = 1 /\ clears = 0) => Len(result) \in {0, Parts}

\* Over VXI-11, and over USB until the interface is opened again, it is the
\* response to the query written last.
ResponseIsOfItsQuery ==
  bus \in {"vxi11", "usb"} /\ ~Renumbered => \A n \in 1..Len(result) : result[n].of = asked

\* Every operation returns, also one the link never accepts a byte of.
OperationEnds == at # "idle" ~> at = "idle"

=============================================================================
