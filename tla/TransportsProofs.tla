-------------------------- MODULE TransportsProofs ---------------------------
(***************************************************************************)
(* Proofs about the transports, for responses of any number of parts and   *)
(* any number of connections, queries, clears and reads behind no query,   *)
(* whatever is given up.  What they say of numbered calls holds until      *)
(* every number has been given out; what they say of lines and sessions    *)
(* always does.                                                            *)
(***************************************************************************)
EXTENDS Transports, SequenceTheorems, TLAPS

Pieces == [of : Nat, part : Int]
Kinds == {"none", "read", "write", "clear"}
Calls == [id : Nat, what : Kinds, q : Nat, left : Nat]
Answers == [id : Nat, what : Kinds \cup {"debris"}, data : Pieces]
NoCalls == [t \in Threads |-> NoCall]

\* The call the acquisition thread waits for.
Current == waiting["worker"]

TypeInv ==
  /\ bus \in Buses /\ isOpen \in BOOLEAN /\ ready \in BOOLEAN /\ id \in Nat
  /\ at \in {"idle", "write", "read", "drain", "clear"} /\ waiting \in [Threads -> Calls]
  /\ sent \in Nat /\ got \in Seq(Pieces) /\ result \in Seq(Pieces)
  /\ calls \in Seq(Calls) /\ inbound \in Seq(Answers) /\ output \in Seq(Pieces)
  /\ opens \in 0..MaxOpens /\ asked \in 0..MaxQueries /\ clears \in 0..MaxClears
  /\ drains \in 0..MaxDrains
  /\ bus = "vxi11" => \A m \in 1..Len(inbound) :
       inbound[m].what = "write" => inbound[m].data \in {Part(0, n) : n \in -1..Parts}
  /\ at = "write" => bus = "vxi11" /\ Current.what = "write"

\* What of a response was received and what is still to come.
Beginning(q, k) == SubSeq(Response(q), 1, k)
Rest(q, k) == SubSeq(Response(q), k + 1, Parts)

(* A line: the stream of what was received and not yet cut.                *)

Data(answers) == [i \in 1..Len(answers) |-> answers[i].data]

\* Every part is followed by the others of its response, the last by a first.
Chained(s, n) ==
  /\ \A i \in 1..Len(s) :
       /\ s[i].of \in 1..n /\ s[i].part \in 1..Parts
       /\ \A k \in 0..(Parts - s[i].part) :
            i + k \in 1..Len(s) /\ s[i + k] = Part(s[i].of, s[i].part + k)
  /\ \A i \in 1..(Len(s) - 1) : IsLast(s[i]) => s[i + 1].part = 1

FromStart(s) == s # <<>> => s[1].part = 1

Stream == got \o Data(inbound)

Uncut == opens <= 1 /\ clears = 0

LineQuiet ==
  /\ at \in {"idle", "read"} /\ waiting = NoCalls /\ (at = "read" => isOpen)
  /\ opens = 0 => ~isOpen /\ calls = <<>> /\ inbound = <<>> /\ got = <<>>
  /\ \A i \in 1..Len(calls) : calls[i].what = "write" /\ calls[i].q \in 1..asked

LineStream == Chained(Stream, asked) /\ (Uncut /\ isOpen => FromStart(Stream))

LineResult ==
  \/ result = <<>>
  \/ \E q \in 1..asked, n \in 1..Parts :
       result = SubSeq(Response(q), n, Parts) /\ (Uncut => n = 1)

LineInv == Line => LineQuiet /\ LineStream /\ LineResult

\* Elsewhere what read() returned is the response to the last query, or nothing.
WholeResult == result # <<>> => asked > 0 /\ result = Response(asked)

SessionInv ==
  bus = "visa" =>
    /\ at \in {"idle", "read", "drain"} /\ waiting = NoCalls /\ calls = <<>> /\ inbound = <<>>
    /\ ready => at = "idle" /\ asked > 0 /\ output \in {Response(asked), <<>>}
    /\ at = "idle" => got = <<>>
    /\ at = "read" =>
         /\ asked > 0
         /\ \E k \in 0..(Parts - 1) :
              got = Beginning(asked, k) /\ output \in {Rest(asked, k), <<>>}
    /\ WholeResult

(* Numbered calls.                                                         *)

\* The next number is a new one.
Numbered == ~spent /\ id < MaxId /\ bus \in {"vxi11", "usb"} /\ ~Renumbered

\* The calls of write() and read(), and their answers.
Transfer(x) == x.what \in {"read", "write"}
Newest == IF at = "idle" THEN id ELSE Current.id

NumberInv ==
  /\ opens = 0 => ~isOpen /\ calls = <<>> /\ inbound = <<>>
  /\ bus = "usb" => at \in {"idle", "read", "drain"} /\ \A i \in 1..Len(calls) : Transfer(calls[i])
  /\ at = "idle" => Current = NoCall
  /\ at # "idle" => isOpen /\ Current.what = (IF at = "drain" THEN "read" ELSE at) /\ Current.id <= id
  /\ at \notin {"read", "drain"} /\ isOpen => got = <<>>
  /\ \A i \in 1..Len(calls) : Transfer(calls[i]) => calls[i].id <= Newest
  /\ \A m \in 1..Len(inbound) : Transfer(inbound[m]) => inbound[m].id <= Newest

\* The current call is on its way, the last transfer, and none before it has its number.
Pending ==
  /\ \E i \in 1..Len(calls) :
       /\ calls[i] = Current
       /\ \A j \in 1..Len(calls) : j > i => ~Transfer(calls[j])
       /\ \A j \in 1..Len(calls) : j < i /\ Transfer(calls[j]) => calls[j].id < Current.id
  /\ \A m \in 1..Len(inbound) : Transfer(inbound[m]) => inbound[m].id < Current.id

\* Every transfer was executed.
AllExecuted == \A i \in 1..Len(calls) : ~Transfer(calls[i])

IsCommand(call) == call.what = "write" /\ call.q = asked

\* The command is on its way to a USB device; or was executed, and perhaps cleared.
Ordered == bus = "usb" /\ calls # <<>> /\ IsCommand(calls[Len(calls)])
Ready == AllExecuted /\ output \in {Response(asked), <<>>}

WriteInv ==
  /\ at = "write" =>
       /\ asked > 0 /\ sent < Parts /\ Current.q = asked /\ Current.left = Parts - sent
       /\ Pending \/ Ready
  /\ ready => at \in {"idle", "clear"} /\ asked > 0 /\ (Ordered \/ Ready)

\* The part that is awaited: behind a command on its way, requested, or given.
Commanded ==
  /\ bus = "usb" /\ got = <<>> /\ Pending /\ Len(calls) >= 2
  /\ calls[Len(calls)] = Current /\ IsCommand(calls[Len(calls) - 1])

Requested ==
  /\ Pending /\ \A i \in 1..Len(calls) : Transfer(calls[i]) => calls[i] = Current
  /\ output \in {Rest(asked, Len(got)), <<>>}

Given ==
  /\ AllExecuted /\ output \in {Rest(asked, Len(got) + 1), <<>>}
  /\ \A m \in 1..Len(inbound) :
       inbound[m].what = "read" /\ inbound[m].id = Current.id =>
         inbound[m].data \in {Part(asked, Len(got) + 1), NoPart}

ReadInv ==
  /\ at = "read" =>
       /\ asked > 0 /\ Len(got) < Parts /\ got = Beginning(asked, Len(got))
       /\ Commanded \/ Requested \/ Given
  /\ WholeResult

CallInv == NumberInv /\ WriteInv /\ ReadInv

Unspent == spent \in BOOLEAN /\ (~spent => id < MaxId)

TransportInv == TypeInv /\ Unspent /\ LineInv /\ SessionInv /\ (Numbered => CallInv)

-----------------------------------------------------------------------------
(* Responses and their parts.                                              *)

LEMMA PartTypes ==
  /\ \A q \in Nat, n \in Int : Part(q, n) \in Pieces
  /\ NoPart \in Pieces /\ NoCall \in Calls /\ Debris \in Answers
  /\ \A q \in Nat : Response(q) \in Seq(Pieces) /\ Len(Response(q)) = Parts
                    /\ \A n \in 1..Parts : Response(q)[n] = Part(q, n)
  /\ Parts \in Nat /\ Parts > 0
<1>1. Parts \in Nat /\ Parts > 0
  BY PartsAssumption DEF PartsAssumption
<1>2. \A q \in Nat, n \in Int : Part(q, n) \in Pieces
  BY DEF Part, Pieces
<1>3. NoPart \in Pieces /\ NoCall \in Calls /\ Debris \in Answers
  BY DEF NoPart, Part, Pieces, NoCall, Request, Call, Calls, Debris, Answers, Kinds
<1>4. ASSUME NEW q \in Nat
      PROVE  Response(q) \in Seq(Pieces) /\ Len(Response(q)) = Parts
             /\ \A n \in 1..Parts : Response(q)[n] = Part(q, n)
  <2>1. Response(q) \in [1..Parts -> Pieces]
    BY <1>2 DEF Response
  <2> QED
    BY <1>1, <2>1 DEF Response
<1> QED
  BY <1>1, <1>2, <1>3, <1>4

LEMMA RestOf ==
  ASSUME NEW q \in Nat, NEW k \in Nat, k <= Parts
  PROVE  /\ Rest(q, k) \in Seq(Pieces) /\ Beginning(q, k) \in Seq(Pieces)
         /\ Len(Rest(q, k)) = Parts - k /\ Len(Beginning(q, k)) = k
         /\ \A n \in 1..(Parts - k) : Rest(q, k)[n] = Part(q, k + n)
         /\ \A n \in 1..k : Beginning(q, k)[n] = Part(q, n)
<1> DEFINE r == Response(q)
<1>1. r \in Seq(Pieces) /\ Len(r) = Parts /\ Parts \in Nat /\ \A n \in 1..Parts : r[n] = Part(q, n)
  BY PartTypes
<1> HIDE DEF r
<1>2. \A n \in 1..Parts : r[n] \in Pieces
  BY <1>1
<1>3. SubSeq(r, k + 1, Parts) \in Seq(Pieces) /\ Len(SubSeq(r, k + 1, Parts)) = Parts - k
      /\ \A n \in 1..(Parts - k) : SubSeq(r, k + 1, Parts)[n] = r[k + n]
  BY <1>1, <1>2
<1>4. SubSeq(r, 1, k) \in Seq(Pieces) /\ Len(SubSeq(r, 1, k)) = k
      /\ \A n \in 1..k : SubSeq(r, 1, k)[n] = r[n]
  BY <1>1, <1>2
<1>5. \A n \in 1..(Parts - k) : r[k + n] = Part(q, k + n)
  BY <1>1
<1>6. \A n \in 1..k : r[n] = Part(q, n)
  BY <1>1
<1> QED
  BY <1>3, <1>4, <1>5, <1>6 DEF r, Rest, Beginning

LEMMA RestEnds ==
  ASSUME NEW q \in Nat
  PROVE  Rest(q, 0) = Response(q) /\ Beginning(q, 0) = <<>> /\ Rest(q, Parts) = <<>>
         /\ Beginning(q, Parts) = Response(q) /\ Response(q) # <<>>
<1>1. Response(q) \in Seq(Pieces) /\ Len(Response(q)) = Parts /\ Parts \in Nat /\ Parts > 0
  BY PartTypes
<1> QED
  BY <1>1, SubSeqFull, SubSeqEmpty DEF Rest, Beginning

\* The next part is the head of the rest.
LEMMA RestNext ==
  ASSUME NEW q \in Nat, NEW k \in Nat, k < Parts
  PROVE  /\ Rest(q, k) # <<>> /\ Head(Rest(q, k)) = Part(q, k + 1)
         /\ Tail(Rest(q, k)) = Rest(q, k + 1)
         /\ Append(Beginning(q, k), Part(q, k + 1)) = Beginning(q, k + 1)
         /\ Part(q, k + 1) # NoPart /\ (IsLast(Part(q, k + 1)) <=> k + 1 = Parts)
<1>0. Parts \in Nat /\ k + 1 \in Nat /\ k + 1 <= Parts
  BY PartTypes
<1>1. /\ Rest(q, k) \in Seq(Pieces) /\ Beginning(q, k) \in Seq(Pieces)
      /\ Len(Rest(q, k)) = Parts - k /\ Len(Beginning(q, k)) = k
      /\ \A n \in 1..(Parts - k) : Rest(q, k)[n] = Part(q, k + n)
      /\ \A n \in 1..k : Beginning(q, k)[n] = Part(q, n)
  BY <1>0, RestOf
<1>2. /\ Rest(q, k + 1) \in Seq(Pieces) /\ Beginning(q, k + 1) \in Seq(Pieces)
      /\ Len(Rest(q, k + 1)) = Parts - (k + 1) /\ Len(Beginning(q, k + 1)) = k + 1
      /\ \A n \in 1..(Parts - (k + 1)) : Rest(q, k + 1)[n] = Part(q, k + 1 + n)
      /\ \A n \in 1..(k + 1) : Beginning(q, k + 1)[n] = Part(q, n)
  BY <1>0, RestOf
<1>3. Part(q, k + 1) \in Pieces
  BY PartTypes
<1>4. Rest(q, k) # <<>> /\ Head(Rest(q, k)) = Part(q, k + 1)
  BY <1>0, <1>1
<1>5. Tail(Rest(q, k)) = Rest(q, k + 1)
  <2> DEFINE s == Rest(q, k)
  <2>1. Tail(s) \in Seq(Pieces) /\ Len(Tail(s)) = Len(s) - 1
        /\ \A n \in 1..(Len(s) - 1) : Tail(s)[n] = s[n + 1]
    BY <1>1, <1>4
  <2>2. \A n \in 1..(Parts - (k + 1)) : Tail(s)[n] = Part(q, k + 1 + n)
    <3> HIDE DEF s
    <3> SUFFICES ASSUME NEW n \in 1..(Parts - (k + 1))
                 PROVE  Tail(s)[n] = Part(q, k + 1 + n)
      OBVIOUS
    <3>1. n + 1 \in 1..(Parts - k) /\ n \in 1..(Len(s) - 1) /\ k + (n + 1) = k + 1 + n
      BY <1>0, <1>1 DEF s
    <3>2. Tail(s)[n] = s[n + 1]
      BY <2>1, <3>1
    <3>3. s[n + 1] = Part(q, k + (n + 1))
      BY <1>1, <3>1 DEF s
    <3> QED
      BY <3>1, <3>2, <3>3
  <2>3. Len(Tail(s)) = Len(Rest(q, k + 1)) /\ Len(Rest(q, k + 1)) = Parts - (k + 1)
    BY <1>0, <1>1, <1>2, <2>1
  <2> HIDE DEF s
  <2>4. \A n \in 1..Len(Tail(s)) : Tail(s)[n] = Rest(q, k + 1)[n]
    BY <1>2, <2>2, <2>3
  <2>5. Tail(s) = Rest(q, k + 1)
    BY <1>2, <2>1, <2>3, <2>4, SeqEqual
  <2> QED
    BY <2>5 DEF s
<1>6. Append(Beginning(q, k), Part(q, k + 1)) = Beginning(q, k + 1)
  <2> DEFINE s == Append(Beginning(q, k), Part(q, k + 1))
  <2>1. s \in Seq(Pieces) /\ Len(s) = k + 1 /\ s[k + 1] = Part(q, k + 1)
        /\ \A n \in 1..k : s[n] = Part(q, n)
    BY <1>1, <1>3
  <2> QED
    BY <1>2, <2>1, SeqEqual
<1>7. Part(q, k + 1) # NoPart /\ (IsLast(Part(q, k + 1)) <=> k + 1 = Parts)
  BY <1>0 DEF Part, NoPart, IsLast
<1> QED
  BY <1>4, <1>5, <1>6, <1>7

-----------------------------------------------------------------------------
(* Sequences.                                                              *)

LEMMA TailOf ==
  ASSUME NEW S, NEW s \in Seq(S), s # <<>>
  PROVE  /\ Tail(s) \in Seq(S) /\ Len(s) = Len(Tail(s)) + 1 /\ Len(Tail(s)) \in Nat
         /\ Head(s) = s[1] /\ s[1] \in S /\ 1 \in 1..Len(s)
         /\ \A i \in 1..Len(Tail(s)) : Tail(s)[i] = s[i + 1] /\ i + 1 \in 1..Len(s)
         /\ \A i \in 1..Len(s) : i = 1 \/ (i - 1 \in 1..Len(Tail(s)) /\ Tail(s)[i - 1] = s[i])
  OBVIOUS

LEMMA AppendOf ==
  ASSUME NEW S, NEW s \in Seq(S), NEW e \in S
  PROVE  /\ Append(s, e) \in Seq(S) /\ Len(Append(s, e)) = Len(s) + 1 /\ Len(s) \in Nat
         /\ Append(s, e)[Len(s) + 1] = e
         /\ \A i \in 1..Len(s) : Append(s, e)[i] = s[i] /\ i \in 1..Len(Append(s, e))
         /\ \A i \in 1..Len(Append(s, e)) : i \in 1..Len(s) \/ i = Len(s) + 1
  OBVIOUS

LEMMA SuffixOf ==
  ASSUME NEW S, NEW s \in Seq(S), NEW t \in Suffixes(s)
  PROVE  /\ t \in Seq(S)
         /\ \E n \in 0..Len(s) : /\ Len(t) = Len(s) - n
                                 /\ \A i \in 1..Len(t) : t[i] = s[n + i] /\ n + i \in 1..Len(s)
<1>1. PICK n \in 0..Len(s) : t = SubSeq(s, n + 1, Len(s))
  BY DEF Suffixes
<1>2. \A i \in (n + 1)..Len(s) : s[i] \in S
  OBVIOUS
<1>3. Len(s) \in Nat /\ n \in Nat /\ n <= Len(s)
  OBVIOUS
<1> DEFINE l == Len(s)
<1> HIDE DEF l
<1>4. \A i \in (n + 1)..l : s[i] \in S
  BY <1>2 DEF l
<1>5. t \in Seq(S) /\ Len(t) = l - n /\ \A i \in 1..(l - n) : t[i] = s[(n + 1) + i - 1]
  <2> DEFINE m == n + 1
  <2>1. m \in Int /\ l \in Int /\ l - m + 1 = l - n /\ (IF m <= l THEN l - m + 1 ELSE 0) = l - n
    BY <1>3 DEF l
  <2>2. t = SubSeq(s, m, l) /\ \A i \in m..l : s[i] \in S
    BY <1>1, <1>4 DEF l
  <2> HIDE DEF m
  <2>3. /\ SubSeq(s, m, l) \in Seq(S)
        /\ Len(SubSeq(s, m, l)) = IF m <= l THEN l - m + 1 ELSE 0
        /\ \A i \in 1..(l - m + 1) : SubSeq(s, m, l)[i] = s[m + i - 1]
    BY <2>1, <2>2, SubSeqProperties
  <2> QED
    BY <2>1, <2>2, <2>3 DEF m
<1>6. \A i \in 1..(l - n) : t[i] = s[n + i] /\ n + i \in 1..l
  BY <1>3, <1>5 DEF l
<1> QED
  BY <1>3, <1>5, <1>6 DEF l

\* What is left behind an answer that was received are later ones, or the rest of one.
LEMMA ConsumedIs ==
  ASSUME inbound \in Seq(Answers), inbound # <<>>, Consumed
  PROVE  /\ inbound' \in Seq(Answers)
         /\ \A m \in 1..Len(inbound') :
              inbound'[m] = Debris \/ \E n \in 1..Len(inbound) : inbound'[m] = inbound[n]
<1> DEFINE t == Tail(inbound)
           Left(s) == /\ s \in Seq(Answers)
                      /\ \A m \in 1..Len(s) : s[m] = Debris \/ \E n \in 1..Len(inbound) : s[m] = inbound[n]
<1>1. t \in Seq(Answers) /\ \A i \in 1..Len(t) : t[i] = inbound[i + 1] /\ i + 1 \in 1..Len(inbound)
  BY TailOf
<1> HIDE DEF t
<1>2. ASSUME NEW s \in Suffixes(t)
      PROVE  Left(s)
  BY <1>1, SuffixOf
<1>3. Left(t)
  BY <1>1
<1>4. ASSUME NEW s \in Suffixes(t), s # <<>>
      PROVE  Left(<<Debris>> \o Tail(s))
  <2>1. s \in Seq(Answers) /\ \A m \in 1..Len(s) : s[m] = Debris \/ \E n \in 1..Len(inbound) : s[m] = inbound[n]
    BY <1>2
  <2>2. Tail(s) \in Seq(Answers) /\ \A i \in 1..Len(Tail(s)) : Tail(s)[i] = s[i + 1] /\ i + 1 \in 1..Len(s)
    BY <1>4, <2>1, TailOf
  <2> DEFINE u == Tail(s)
  <2> HIDE DEF u
  <2>3. <<Debris>> \o u \in Seq(Answers) /\ Len(<<Debris>> \o u) = 1 + Len(u)
        /\ (<<Debris>> \o u)[1] = Debris /\ \A i \in 1..Len(u) : (<<Debris>> \o u)[i + 1] = u[i]
    BY <2>2, PartTypes DEF u
  <2>4. ASSUME NEW m \in 1..Len(<<Debris>> \o u), m # 1
        PROVE  \E n \in 1..Len(s) : (<<Debris>> \o u)[m] = s[n]
    <3>1. m - 1 \in 1..Len(u) /\ m = (m - 1) + 1
      BY <2>2, <2>3, <2>4 DEF u
    <3> QED
      BY <2>2, <2>3, <3>1 DEF u
  <2> QED
    BY <2>1, <2>3, <2>4 DEF u
<1>5. Left(inbound')
  <2>1. \/ inbound' \in Suffixes(t) \/ inbound' = t
        \/ \E s \in Suffixes(t) : s # <<>> /\ inbound' = <<Debris>> \o Tail(s)
    BY DEF Consumed, t
  <2> HIDE DEF Left
  <2> QED
    BY <1>2, <1>3, <1>4, <2>1
<1> QED
  BY <1>5

-----------------------------------------------------------------------------
(* Types.                                                                  *)

\* What the calls of the client and the answers of the instrument are made of.
LEMMA CallTypes ==
  ASSUME TypeInv
  PROVE  /\ NextId \in Nat /\ Command(0) \in Calls /\ Command(NextId) \in Calls
         /\ \A number \in Nat, what \in Kinds : Request(number, what) \in Calls
         /\ \A number \in Nat, n \in 0..Parts : Call(number, "write", asked, n) \in Calls
         /\ \A call \in Calls, data \in Pieces : Answer(call, data) \in Answers
         /\ asked \in Nat /\ asked + 1 \in Nat
<1>1. asked \in Nat /\ asked + 1 \in Nat /\ Parts \in Nat /\ MaxQueries \in Nat
  BY PartTypes, BoundsAssumption DEF TypeInv, BoundsAssumption
<1>2. NextId \in Nat
  BY DEF TypeInv, NextId
<1>3. \A number \in Nat, what \in Kinds, q \in Nat, left \in Nat : Call(number, what, q, left) \in Calls
  BY DEF Call, Calls
<1>4. Command(0) \in Calls /\ Command(NextId) \in Calls
  BY <1>1, <1>2, <1>3 DEF Command, Kinds
<1>5. \A number \in Nat, what \in Kinds : Request(number, what) \in Calls
  BY <1>3 DEF Request
<1>6. \A number \in Nat, n \in 0..Parts : Call(number, "write", asked, n) \in Calls
  BY <1>1, <1>3 DEF Kinds
<1>7. \A call \in Calls, data \in Pieces : Answer(call, data) \in Answers
  BY DEF Answer, Answers, Calls
<1> QED
  BY <1>1, <1>2, <1>4, <1>5, <1>6, <1>7

LEMMA WaitingTypes ==
  ASSUME TypeInv
  PROVE  /\ waiting \in [Threads -> Calls] /\ NoCalls \in [Threads -> Calls]
         /\ waiting["worker"] \in Calls /\ waiting["gui"] \in Calls
         /\ \A t \in Threads, call \in Calls :
              /\ [waiting EXCEPT ![t] = call] \in [Threads -> Calls]
              /\ [waiting EXCEPT ![t] = call][t] = call
              /\ \A u \in Threads : u # t => [waiting EXCEPT ![t] = call][u] = waiting[u]
<1>1. NoCall \in Calls
  BY PartTypes
<1>2. waiting \in [Threads -> Calls] /\ NoCalls \in [Threads -> Calls]
  BY <1>1 DEF TypeInv, NoCalls
<1> QED
  BY <1>2 DEF Threads

\* The answers to writes over VXI-11 carry what was accepted.
WriteAnswers ==
  bus = "vxi11" => \A m \in 1..Len(inbound) :
    inbound[m].what = "write" => inbound[m].data \in {Part(0, n) : n \in -1..Parts}

Writing == at = "write" => bus = "vxi11" /\ Current.what = "write"

LEMMA WriteAnswersStand ==
  ASSUME TypeInv, bus' = bus, inbound' \in Seq(Answers),
         \A m \in 1..Len(inbound') :
           inbound'[m].what # "write" \/ \E n \in 1..Len(inbound) : inbound'[m] = inbound[n]
  PROVE  WriteAnswers'
  BY DEF TypeInv, WriteAnswers

LEMMA TypeOpen ==
  ASSUME TypeInv, Open \/ Close \/ ConnectionDrops
  PROVE  TypeInv'
<1>1. /\ NextId \in Nat /\ waiting \in [Threads -> Calls] /\ NoCalls \in [Threads -> Calls]
      /\ \A t \in Threads, call \in Calls : [waiting EXCEPT ![t] = call] \in [Threads -> Calls]
  BY CallTypes, WaitingTypes
<1>2. <<>> \in Seq(Pieces) /\ <<>> \in Seq(Calls) /\ <<>> \in Seq(Answers)
  BY EmptySeq
<1>3. bus' = bus /\ isOpen' \in BOOLEAN /\ ready' \in BOOLEAN /\ sent' = sent
      /\ at' \in {at, "idle"} /\ got' \in {got, <<>>} /\ result' \in {result, <<>>}
      /\ asked' = asked /\ clears' = clears /\ drains' = drains
  BY DEF TypeInv, Open, Close, ConnectionDrops, counters
<1>4. id' \in Nat /\ waiting' \in [Threads -> Calls]
  BY <1>1 DEF TypeInv, Open, Close, ConnectionDrops, OpenSocket, OpenPort, OpenLink, OpenInterface,
     OpenSession, NoCalls
<1>5. opens' \in 0..MaxOpens
  BY BoundsAssumption DEF BoundsAssumption, TypeInv, Open, Close, ConnectionDrops, counters
<1>6. calls' \in {calls, <<>>} /\ output' \in {output, <<>>}
      /\ (inbound' \in {inbound, <<>>} \/ inbound' \in Suffixes(inbound))
  BY DEF Open, Close, ConnectionDrops, OpenSocket, OpenPort, OpenLink, OpenInterface,
     OpenSession, NewMedium, medium
<1>7. inbound' \in Seq(Answers)
      /\ \A m \in 1..Len(inbound') : \E n \in 1..Len(inbound) : inbound'[m] = inbound[n]
  <2>0. inbound \in Seq(Answers)
    BY DEF TypeInv
  <2>1. CASE inbound' \in Suffixes(inbound)
    <3>1. PICK n \in 0..Len(inbound) :
            \A i \in 1..Len(inbound') : inbound'[i] = inbound[n + i] /\ n + i \in 1..Len(inbound)
      BY <2>0, <2>1, SuffixOf
    <3>2. inbound' \in Seq(Answers)
      BY <2>0, <2>1, SuffixOf
    <3>3. ASSUME NEW m \in 1..Len(inbound')
          PROVE  \E k \in 1..Len(inbound) : inbound'[m] = inbound[k]
      <4>1. inbound'[m] = inbound[n + m] /\ n + m \in 1..Len(inbound)
        BY <3>1
      <4> QED
        BY <4>1
    <3> QED
      BY <3>2, <3>3
  <2>2. CASE inbound' = inbound
    BY <2>0, <2>2
  <2>3. CASE inbound' = <<>>
    <3>1. 1..Len(inbound') = {}
      BY <2>3
    <3> QED
      BY <1>2, <2>3, <3>1
  <2> QED
    BY <1>6, <2>1, <2>2, <2>3
<1>8. WriteAnswers'
  BY <1>3, <1>7, WriteAnswersStand
<1>9. Writing'
  BY DEF Idle, Open, Close, ConnectionDrops, Writing
<1> QED
  BY <1>2, <1>3, <1>4, <1>5, <1>6, <1>7, <1>8, <1>9 DEF TypeInv, WriteAnswers, Writing

LEMMA TypeClient ==
  ASSUME TypeInv, WriteToLink \/ Read \/ GiveUp \/ \E ok \in BOOLEAN : Write(ok)
  PROVE  TypeInv'
<1>1. /\ NextId \in Nat /\ waiting \in [Threads -> Calls] /\ Command(0) \in Calls /\ Command(NextId) \in Calls
      /\ Request(NextId, "read") \in Calls /\ NoCall \in Calls /\ Debris \in Answers
      /\ \A t \in Threads, call \in Calls : [waiting EXCEPT ![t] = call] \in [Threads -> Calls]
      /\ "worker" \in Threads /\ asked + 1 \in Nat /\ Response(asked + 1) \in Seq(Pieces)
  BY CallTypes, WaitingTypes, PartTypes DEF Threads, Kinds
<1>2. <<>> \in Seq(Pieces)
  BY EmptySeq
<1>3. bus' = bus /\ isOpen' = isOpen /\ ready' \in BOOLEAN /\ sent' \in {sent, 0}
      /\ at' \in {at, "idle", "read", "drain", "write"} /\ got' \in {got, <<>>} /\ result' \in {result, <<>>}
      /\ opens' = opens /\ clears' = clears
  BY DEF TypeInv, WriteToLink, Read, Asks, GiveUp, Write, Fails, Done, counters
<1>4. id' \in Nat
  BY <1>1 DEF TypeInv, WriteToLink, Read, GiveUp, Write, WriteLine, WriteTransfer, WriteSession,
     WriteNothing, Send, Command, Call, Request
<1>5. waiting' \in [Threads -> Calls]
  BY <1>1 DEF TypeInv, WriteToLink, Read, GiveUp, Write, Fails, Done, Send
<1>6. asked' \in 0..MaxQueries /\ drains' \in 0..MaxDrains
  <2>1. asked' \in 0..MaxQueries
    BY BoundsAssumption DEF BoundsAssumption, TypeInv, WriteToLink, Read, GiveUp, Write, counters
  <2>2. drains' = drains \/ (drains < MaxDrains /\ drains' = drains + 1)
    BY DEF WriteToLink, Read, Asks, GiveUp, Write, counters
  <2>3. drains \in 0..MaxDrains /\ MaxDrains \in Nat
    BY BoundsAssumption DEF BoundsAssumption, TypeInv
  <2> QED
    BY <2>1, <2>2, <2>3
<1>7. output' \in Seq(Pieces)
  BY <1>1 DEF TypeInv, WriteToLink, Read, GiveUp, Write, WriteLine, WriteTransfer, WriteSession, WriteNothing
<1>8. calls' \in Seq(Calls)
  <2>1. calls' = calls \/ \E call \in Calls : calls' = Append(calls, call)
    BY <1>1 DEF WriteToLink, Read, GiveUp, Write, WriteLine, WriteTransfer, WriteSession, WriteNothing, Send
  <2>2. calls \in Seq(Calls)
    BY DEF TypeInv
  <2> QED
    BY <2>1, <2>2, AppendOf
<1>9. inbound' \in Seq(Answers)
      /\ \A m \in 1..Len(inbound') :
           inbound'[m].what # "write" \/ \E n \in 1..Len(inbound) : inbound'[m] = inbound[n]
  <2>0. inbound \in Seq(Answers)
    BY DEF TypeInv
  <2>1. inbound' = inbound \/ (inbound # <<>> /\ inbound' = <<Debris>> \o Tail(inbound))
    BY DEF WriteToLink, Read, GiveUp, Write
  <2>2. CASE inbound # <<>> /\ inbound' = <<Debris>> \o Tail(inbound)
    <3> DEFINE t == Tail(inbound)
    <3>1. t \in Seq(Answers) /\ \A i \in 1..Len(t) : t[i] = inbound[i + 1] /\ i + 1 \in 1..Len(inbound)
      BY <2>0, <2>2, TailOf
    <3> HIDE DEF t
    <3>2. <<Debris>> \o t \in Seq(Answers) /\ Len(<<Debris>> \o t) = 1 + Len(t)
          /\ (<<Debris>> \o t)[1] = Debris /\ \A i \in 2..(1 + Len(t)) : (<<Debris>> \o t)[i] = t[i - 1]
      BY <1>1, <3>1
    <3>3. Debris.what # "write"
      BY DEF Debris
    <3>4. \A i \in 2..(1 + Len(t)) : i - 1 \in 1..Len(t) /\ i \in 1..Len(inbound) /\ t[i - 1] = inbound[i]
      BY <3>1
    <3> QED
      BY <2>2, <3>2, <3>3, <3>4 DEF t
  <2> QED
    BY <2>0, <2>1, <2>2
<1>10. WriteAnswers'
  BY <1>3, <1>9, WriteAnswersStand
<1>11. /\ bus' \in Buses /\ isOpen' \in BOOLEAN /\ sent' \in Nat
       /\ opens' \in 0..MaxOpens /\ clears' \in 0..MaxClears
  BY <1>3 DEF TypeInv
<1>12. at' \in {"idle", "write", "read", "drain", "clear"} /\ got' \in Seq(Pieces) /\ result' \in Seq(Pieces)
  BY <1>2, <1>3 DEF TypeInv
<1>13. Writing'
  BY <1>1, WaitingTypes DEF Idle, WriteToLink, Read, Asks, GiveUp, Fails, Done, Write, Writing, Current, Send, Command, Call
<1> QED
  BY <1>3, <1>4, <1>5, <1>6, <1>7, <1>8, <1>9, <1>10, <1>11, <1>12, <1>13 DEF TypeInv, WriteAnswers, Writing

LEMMA TypeAnswered ==
  ASSUME TypeInv, LinkAccepts \/ ReadLink \/ ReadTransfer \/ WorkerCleared
  PROVE  TypeInv'
<1> DEFINE a == Head(inbound)
<1>0. a \in Answers /\ inbound # <<>> /\ inbound \in Seq(Answers) /\ a = inbound[1] /\ 1 \in 1..Len(inbound)
  BY TailOf DEF TypeInv, LinkAccepts, ReadLink, ReadTransfer, WorkerCleared, PartAnswered
<1>1. /\ NextId \in Nat /\ waiting \in [Threads -> Calls] /\ NoCall \in Calls /\ "worker" \in Threads
      /\ Request(NextId, "read") \in Calls
      /\ \A n \in 0..Parts : Call(NextId, "write", asked, n) \in Calls
      /\ \A t \in Threads, call \in Calls : [waiting EXCEPT ![t] = call] \in [Threads -> Calls]
  BY CallTypes, WaitingTypes, PartTypes DEF Threads, Kinds
<1>2. <<>> \in Seq(Pieces) /\ a.data \in Pieces /\ got \in Seq(Pieces) /\ Append(got, a.data) \in Seq(Pieces)
  BY <1>0 DEF Answers, TypeInv
<1>3. bus' = bus /\ isOpen' = isOpen /\ output' = output /\ opens' = opens /\ asked' = asked /\ clears' = clears
      /\ drains' = drains
  BY DEF LinkAccepts, ReadLink, ReadTransfer, WorkerCleared, counters
<1>4. inbound' \in Seq(Answers) /\ WriteAnswers'
  <2>1. /\ inbound' \in Seq(Answers)
        /\ \A m \in 1..Len(inbound') :
             inbound'[m] = Debris \/ \E n \in 1..Len(inbound) : inbound'[m] = inbound[n]
    BY <1>0, ConsumedIs DEF LinkAccepts, ReadLink, ReadTransfer, WorkerCleared, PartAnswered
  <2>2. Debris.what # "write"
    BY DEF Debris
  <2> QED
    BY <1>3, <2>1, <2>2, WriteAnswersStand
<1> HIDE DEF a
<1>5. CASE LinkAccepts
  <2> DEFINE n == a.data.part
             accepted == Accepted(n)
  <2>0. sent \in Nat /\ result \in Seq(Pieces) /\ calls \in Seq(Calls) /\ id \in Nat /\ ready \in BOOLEAN
        /\ at = "write" /\ bus = "vxi11" /\ Current.what = "write" /\ Parts \in Nat
    BY <1>5, PartTypes DEF TypeInv, LinkAccepts
  <2>1. CASE ~IsAnswer("worker", a) \/ a.data = NoPart
    <3>1. sent' = sent /\ at' = "idle" /\ result' = <<>> /\ got' \in {got, <<>>} /\ id' = id /\ ready' = ready
          /\ calls' = calls /\ waiting' = [waiting EXCEPT !["worker"] = NoCall]
      BY <1>5, <2>1 DEF LinkAccepts, Fails, Done, a
    <3> QED
      BY <1>1, <1>2, <1>3, <1>4, <2>0, <3>1 DEF TypeInv, WriteAnswers
  <2>2. CASE ~(~IsAnswer("worker", a) \/ a.data = NoPart)
    <3>1. n \in 0..Parts
      <4>1. a.data \in {Part(0, k) : k \in -1..Parts}
        BY <1>0, <2>0, <2>2 DEF TypeInv, IsAnswer, Current
      <4>2. PICK k \in -1..Parts : a.data = Part(0, k)
        BY <4>1
      <4>3. k # -1
        BY <2>2, <4>2 DEF NoPart
      <4> QED
        BY <2>0, <4>2, <4>3 DEF Part
    <3>2. accepted \in Nat
      BY <2>0, <3>1 DEF Accepted
    <3>3. sent' = accepted /\ got' = got /\ result' = result
          /\ IF accepted >= Parts
             THEN at' = "idle" /\ waiting' = [waiting EXCEPT !["worker"] = NoCall] /\ ready' = TRUE
                  /\ id' = id /\ calls' = calls
             ELSE Send("worker", Call(NextId, "write", asked, Parts - accepted)) /\ at' = at /\ ready' = ready
      BY <1>5, <2>2 DEF LinkAccepts, a
    <3> HIDE DEF accepted, n
    <3>4. CASE accepted >= Parts
      BY <1>1, <1>2, <1>3, <1>4, <2>0, <3>2, <3>3, <3>4 DEF TypeInv, WriteAnswers
    <3>5. CASE ~(accepted >= Parts)
      <4> DEFINE call == Call(NextId, "write", asked, Parts - accepted)
      <4>1. call \in Calls /\ call.id = NextId /\ call.what = "write"
        <5>1. Parts - accepted \in 0..Parts
          BY <2>0, <3>2, <3>5
        <5> QED
          BY <1>1, <5>1 DEF Call
      <4>2. id' = NextId /\ waiting' = [waiting EXCEPT !["worker"] = call] /\ calls' = Append(calls, call)
            /\ at' = at /\ ready' = ready
        BY <3>3, <3>5, <4>1 DEF Send
      <4> HIDE DEF call
      <4>3. calls' \in Seq(Calls) /\ waiting' \in [Threads -> Calls] /\ Current'.what = "write"
        BY <1>1, <2>0, <4>1, <4>2 DEF Current
      <4> QED
        BY <1>1, <1>2, <1>3, <1>4, <2>0, <3>2, <3>3, <4>2, <4>3 DEF TypeInv, WriteAnswers
    <3> QED
      BY <3>4, <3>5
  <2> QED
    BY <2>1, <2>2
<1>6. CASE ReadLink \/ ReadTransfer
  <2>0. Reading /\ PartAnswered /\ ready' = ready /\ sent' = sent
    BY <1>6 DEF ReadLink, ReadTransfer
  <2>1. at' \in {at, "idle"} /\ result' \in {result, <<>>, Append(got, a.data)}
        /\ got' \in {got, <<>>, Append(got, a.data)} /\ id' \in {id, NextId}
    BY <2>0 DEF PartAnswered, Done, Fails, Send, Request, Call, a
  <2>2. calls' \in {calls, Append(calls, Request(NextId, "read"))}
        /\ waiting' \in {[waiting EXCEPT !["worker"] = NoCall], [waiting EXCEPT !["worker"] = Request(NextId, "read")]}
    BY <2>0 DEF PartAnswered, Done, Fails, Send
  <2>3. calls' \in Seq(Calls)
    <3>1. calls \in Seq(Calls)
      BY DEF TypeInv
    <3> QED
      BY <1>1, <2>2, <3>1, AppendOf
  <2>4. waiting' \in [Threads -> Calls]
    BY <1>1, <2>2
  <2>5. got' \in Seq(Pieces) /\ result' \in Seq(Pieces) /\ id' \in Nat
    BY <1>1, <1>2, <2>1 DEF TypeInv
  <2>6. at' \in {"idle", "read", "drain"}
    BY <2>0, <2>1 DEF Reading
  <2> QED
    BY <1>3, <1>4, <2>0, <2>3, <2>5, <2>6, <2>4 DEF TypeInv, WriteAnswers
<1>7. CASE WorkerCleared
  <2>1. at' = "idle" /\ waiting' = [waiting EXCEPT !["worker"] = NoCall] /\ result' = <<>> /\ got' \in {got, <<>>}
        /\ id' = id /\ ready' = ready /\ sent' = sent /\ calls' = calls
    BY <1>7 DEF WorkerCleared, Fails, Done
  <2> QED
    BY <1>1, <1>2, <1>3, <1>4, <2>1 DEF TypeInv, WriteAnswers
<1> QED
  BY <1>5, <1>6, <1>7

LEMMA TypeReceived ==
  ASSUME TypeInv, Pump \/ ReadLine \/ ReadSession \/ GuiCleared
  PROVE  TypeInv'
<1>1. /\ waiting \in [Threads -> Calls] /\ NoCall \in Calls /\ <<>> \in Seq(Pieces)
      /\ \A t \in Threads : [waiting EXCEPT ![t] = NoCall] \in [Threads -> Calls]
  BY WaitingTypes, PartTypes
<1>2. /\ got \in Seq(Pieces) /\ output \in Seq(Pieces) /\ inbound \in Seq(Answers)
      /\ at \in {"idle", "write", "read", "drain", "clear"}
  BY DEF TypeInv
<1>3. bus' = bus /\ isOpen' = isOpen /\ opens' = opens /\ asked' = asked /\ clears' = clears /\ drains' = drains
      /\ id' = id /\ ready' = ready /\ sent' = sent /\ calls' = calls
  BY DEF Pump, ReadLine, ReadSession, GuiCleared, counters, medium
<1>4. inbound' \in Seq(Answers) /\ WriteAnswers'
  <2>1. CASE inbound' = inbound
    BY <1>3, <2>1 DEF TypeInv, WriteAnswers
  <2>2. CASE inbound # <<>> /\ Consumed
    <3>1. /\ inbound' \in Seq(Answers)
          /\ \A m \in 1..Len(inbound') :
               inbound'[m] = Debris \/ \E n \in 1..Len(inbound) : inbound'[m] = inbound[n]
      BY <1>2, <2>2, ConsumedIs
    <3>2. Debris.what # "write"
      BY DEF Debris
    <3> QED
      BY <1>3, <3>1, <3>2, WriteAnswersStand
  <2>3. CASE Pump
    <3>1. inbound # <<>> /\ inbound' = Tail(inbound) /\ bus' # "vxi11"
      BY <1>3, <2>3 DEF Pump, Line
    <3> QED
      BY <1>2, <3>1, TailOf DEF WriteAnswers
  <2> QED
    BY <2>1, <2>2, <2>3 DEF ReadLine, ReadSession, GuiCleared, medium
<1>5. CASE Pump
  <2>1. Head(inbound).data \in Pieces
    <3>1. inbound # <<>>
      BY <1>5 DEF Pump
    <3>2. Head(inbound) \in Answers
      BY <1>2, <3>1, TailOf
    <3> QED
      BY <3>2 DEF Answers
  <2>2. got' \in Seq(Pieces)
    BY <1>2, <1>5, <2>1, AppendOf DEF Pump
  <2> QED
    BY <1>3, <1>4, <1>5, <2>2 DEF Pump, TypeInv, WriteAnswers, Current
<1>6. CASE ReadLine
  <2>1. PICK end \in 1..Len(got) : TakeLine(end)
    BY <1>6 DEF ReadLine
  <2>2. got' \in Seq(Pieces) /\ result' \in Seq(Pieces)
    <3>1. \A i \in 1..Len(got) : got[i] \in Pieces
      BY <1>2
    <3> QED
      BY <1>2, <2>1, <3>1, SubSeqProperties DEF TakeLine
  <2> QED
    BY <1>3, <1>4, <1>6, <2>2 DEF ReadLine, TypeInv, WriteAnswers, medium
<1>7. CASE ReadSession
  <2>1. output # <<>> /\ Head(output) \in Pieces /\ output' = Tail(output) /\ output' \in Seq(Pieces) /\ Reading
    BY <1>2, <1>7, TailOf DEF ReadSession
  <2>2. Append(got, Head(output)) \in Seq(Pieces)
    BY <1>2, <2>1, AppendOf
  <2>3. at' \in {"idle", "read", "drain"} /\ waiting' \in [Threads -> Calls] /\ got' \in Seq(Pieces)
        /\ result' \in Seq(Pieces)
    BY <1>1, <1>2, <1>7, <2>1, <2>2 DEF ReadSession, Reading, Done, TypeInv, Threads
  <2> QED
    BY <1>3, <1>4, <2>1, <2>3 DEF TypeInv, WriteAnswers
<1>8. CASE GuiCleared
  <2>1. at' = at /\ got' = got /\ result' = result /\ output' = output
        /\ waiting' = [waiting EXCEPT !["gui"] = NoCall]
    BY <1>8 DEF GuiCleared
  <2>2. waiting' \in [Threads -> Calls] /\ Current' = Current
    BY <1>1, <2>1 DEF Threads, Current
  <2> QED
    BY <1>3, <1>4, <2>1, <2>2 DEF TypeInv, WriteAnswers
<1> QED
  BY <1>5, <1>6, <1>7, <1>8

LEMMA TypeClear ==
  ASSUME TypeInv, NEW t \in Threads, Clear(t)
  PROVE  TypeInv'
<1>1. /\ waiting \in [Threads -> Calls] /\ <<>> \in Seq(Pieces) /\ <<>> \in Seq(Calls) /\ <<>> \in Seq(Answers)
      /\ NextId \in Nat /\ \A number \in Nat : Request(number, "clear") \in Calls
      /\ \A u \in Threads, call \in Calls :
           /\ [waiting EXCEPT ![u] = call] \in [Threads -> Calls]
           /\ \A v \in Threads : v # u => [waiting EXCEPT ![u] = call][v] = waiting[v]
  BY WaitingTypes, CallTypes DEF Kinds
<1>2. bus' = bus /\ isOpen' = isOpen /\ opens' = opens /\ asked' = asked /\ drains' = drains
      /\ ready' = ready /\ sent' = sent /\ result' = result
  BY DEF Clear
<1>3. clears' \in 0..MaxClears
  BY BoundsAssumption DEF BoundsAssumption, TypeInv, Clear
<1>4. inbound' \in Seq(Answers) /\ WriteAnswers'
  <2>1. CASE inbound' = inbound
    BY <1>2, <2>1 DEF TypeInv, WriteAnswers
  <2>2. CASE bus # "vxi11" /\ (inbound' = <<>> \/ inbound' \in Suffixes(inbound))
    BY <1>1, <1>2, <2>2, SuffixOf DEF TypeInv, WriteAnswers
  <2> QED
    BY <2>1, <2>2 DEF Clear, ClearLine, ClearLink, ClearSession, ClearInterface, Line, NewMedium, medium
<1>5. CASE ClearLink(t)
  <2>1. PICK number \in Nat : /\ id' = number
                              /\ waiting' = [waiting EXCEPT ![t] = Request(number, "clear")]
                              /\ calls' = Append(calls, Request(number, "clear"))
    <3>1. \A number : Request(number, "clear").id = number
      BY DEF Request, Call
    <3>2. waiting["worker"].id \in Nat
      BY WaitingTypes DEF Calls
    <3> QED
      BY <1>1, <1>5, <3>1, <3>2 DEF ClearLink, Send
  <2>2. calls' \in Seq(Calls)
    BY <1>1, <2>1, AppendOf DEF TypeInv
  <2>3. at' = (IF t = "worker" THEN "clear" ELSE at) /\ got' = got /\ output' = output /\ bus = "vxi11"
    BY <1>5 DEF ClearLink
  <2>4. t # "worker" => Current' = Current
    BY <1>1, <2>1 DEF Current, Threads
  <2> QED
    BY <1>1, <1>2, <1>3, <1>4, <2>1, <2>2, <2>3, <2>4 DEF TypeInv, WriteAnswers
<1>6. CASE ClearLine \/ ClearSession \/ ClearInterface
  <2>1. id' = id /\ at' = at /\ waiting' = waiting /\ got' \in {got, <<>>} /\ calls' \in {calls, <<>>}
        /\ output' \in {output, <<>>}
    BY <1>6 DEF ClearLine, ClearSession, ClearInterface, NewMedium, medium
  <2> QED
    BY <1>1, <1>2, <1>3, <1>4, <2>1 DEF TypeInv, WriteAnswers, Current
<1> QED
  BY <1>5, <1>6 DEF Clear

LEMMA TypeInstrument ==
  ASSUME TypeInv, Instrument
  PROVE  TypeInv'
<1> DEFINE call == Head(calls)
<1>0. calls \in Seq(Calls) /\ inbound \in Seq(Answers) /\ output \in Seq(Pieces) /\ Parts \in Nat /\ Parts > 0
  BY PartTypes DEF TypeInv
<1>1. calls # <<>> /\ call \in Calls /\ calls' = Tail(calls) /\ calls' \in Seq(Calls)
  <2>1. calls # <<>> /\ calls' = Tail(calls)
    BY DEF Instrument, ExecuteCommand, GivePart, GiveNothing, ExecuteClear, Executes
  <2> QED
    BY <1>0, <2>1, TailOf
<1> HIDE DEF call
<1>2. bus' = bus /\ isOpen' = isOpen /\ UNCHANGED client /\ UNCHANGED counters
  BY DEF Instrument, ExecuteCommand, GivePart, GiveNothing, ExecuteClear
<1>3. ASSUME NEW data \in Pieces, inbound' = Append(inbound, Answer(call, data)),
             call.what = "write" => data \in {Part(0, n) : n \in -1..Parts}
      PROVE  inbound' \in Seq(Answers) /\ WriteAnswers'
  <2>1. Answer(call, data) \in Answers /\ Answer(call, data).data = data /\ Answer(call, data).what = call.what
    BY <1>1, CallTypes DEF Answer
  <2> DEFINE a == Answer(call, data)
  <2> HIDE DEF a
  <2>2. /\ inbound' \in Seq(Answers) /\ inbound'[Len(inbound) + 1] = a
        /\ \A i \in 1..Len(inbound) : inbound'[i] = inbound[i]
        /\ \A i \in 1..Len(inbound') : i \in 1..Len(inbound) \/ i = Len(inbound) + 1
    BY <1>0, <1>3, <2>1, AppendOf DEF a
  <2>3. \A i \in 1..Len(inbound) : bus = "vxi11" /\ inbound[i].what = "write" =>
          inbound[i].data \in {Part(0, n) : n \in -1..Parts}
    BY DEF TypeInv
  <2>4. ASSUME NEW m \in 1..Len(inbound'), bus = "vxi11", inbound'[m].what = "write"
        PROVE  inbound'[m].data \in {Part(0, n) : n \in -1..Parts}
    <3>1. CASE m \in 1..Len(inbound)
      BY <2>2, <2>3, <2>4, <3>1
    <3>2. CASE m = Len(inbound) + 1
      BY <1>3, <2>1, <2>2, <2>4, <3>2 DEF a
    <3> QED
      BY <2>2, <3>1, <3>2
  <2> QED
    BY <1>2, <2>2, <2>4 DEF WriteAnswers
<1>4. ASSUME inbound' = inbound
      PROVE  inbound' \in Seq(Answers) /\ WriteAnswers'
  BY <1>0, <1>2, <1>4 DEF TypeInv, WriteAnswers
<1>5. ASSUME inbound' \in Seq(Answers), WriteAnswers', output' \in Seq(Pieces)
      PROVE  TypeInv'
  BY <1>1, <1>2, <1>5 DEF TypeInv, WriteAnswers, client, counters, Current
<1>6. ASSUME NEW n \in -1..Parts, ExecuteCommand(n)
      PROVE  TypeInv'
  <2>1. \A k \in Int : Part(call.q, k) \in Pieces /\ Part(0, k) \in Pieces
    BY <1>1, PartTypes DEF Calls
  <2>2. output' \in {output, <<>>, Response(call.q)}
    BY <1>6 DEF ExecuteCommand, call
  <2>3. output' \in Seq(Pieces)
    <3>1. Response(call.q) \in Seq(Pieces)
      BY <1>1, PartTypes DEF Calls
    <3>2. <<>> \in Seq(Pieces)
      BY EmptySeq
    <3> QED
      BY <1>0, <2>2, <3>1, <3>2
  <2>4. CASE Line
    <3> DEFINE f == [i \in 1..Parts |-> Answer(call, Part(call.q, i))]
    <3>1. inbound' = inbound \o f
      BY <1>6, <2>4 DEF ExecuteCommand, Line, call
    <3>2. \A i \in 1..Parts : Answer(call, Part(call.q, i)) \in Answers
      BY <1>1, <2>1, CallTypes
    <3>3. f \in Seq(Answers)
      BY <1>0, <3>2
    <3>4. inbound' \in Seq(Answers) /\ WriteAnswers'
      BY <1>0, <1>2, <2>4, <3>1, <3>3, ConcatProperties DEF Line, WriteAnswers
    <3> QED
      BY <1>5, <2>3, <3>4
  <2>5. CASE bus = "vxi11"
    <3>1. inbound' = Append(inbound, Answer(call, Part(0, n)))
      BY <1>6, <2>5 DEF ExecuteCommand, Line, call
    <3> QED
      BY <1>3, <1>5, <2>1, <2>3, <3>1
  <2>6. CASE ~Line /\ bus # "vxi11"
    <3>1. inbound' = inbound
      BY <1>6, <2>6 DEF ExecuteCommand
    <3> QED
      BY <1>4, <1>5, <2>3, <3>1
  <2> QED
    BY <2>4, <2>5, <2>6
<1>7. CASE GivePart
  <2>1. output # <<>> /\ output' = Tail(output) /\ call.what = "read"
        /\ inbound' = Append(inbound, Answer(call, Head(output)))
    BY <1>7 DEF GivePart, Executes, call
  <2>2. Head(output) \in Pieces /\ output' \in Seq(Pieces)
    BY <1>0, <2>1, TailOf
  <2> QED
    BY <1>3, <1>5, <2>1, <2>2
<1>8. CASE GiveNothing \/ ExecuteClear
  <2>1. output' \in {output, <<>>} /\ call.what # "write"
        /\ (inbound' = inbound \/ inbound' = Append(inbound, Answer(call, NoPart)))
    BY <1>8 DEF GiveNothing, ExecuteClear, Executes, call
  <2>2. output' \in Seq(Pieces)
    BY <1>0, <2>1, EmptySeq
  <2> QED
    BY <1>3, <1>4, <1>5, <2>1, <2>2, PartTypes
<1> QED
  BY <1>6, <1>7, <1>8 DEF Instrument

LEMMA TypeStep == TypeInv /\ [Next]_vars => TypeInv'
<1>1. TypeInv /\ UNCHANGED vars => TypeInv'
  BY DEF TypeInv, vars, client, medium, counters, Current
<1> QED
  BY <1>1, TypeOpen, TypeClient, TypeAnswered, TypeReceived, TypeClear, TypeInstrument
     DEF Next, Operate, Proceed

-----------------------------------------------------------------------------
(* Lines.                                                                  *)

\* The line's buffer and what has arrived behind it are one stream.
LEMMA StreamOf ==
  ASSUME NEW g \in Seq(Pieces), NEW a \in Seq(Answers)
  PROVE  /\ g \o Data(a) \in Seq(Pieces) /\ Len(g) \in Nat /\ Len(a) \in Nat
         /\ Len(g \o Data(a)) = Len(g) + Len(a)
         /\ \A i \in 1..Len(g) : (g \o Data(a))[i] = g[i]
         /\ \A i \in 1..Len(a) : (g \o Data(a))[Len(g) + i] = a[i].data
         /\ \A i \in 1..Len(g \o Data(a)) : i \in 1..Len(g) \/ i - Len(g) \in 1..Len(a)
<1> DEFINE d == Data(a)
<1>0. Len(a) \in Nat /\ \A i \in 1..Len(a) : a[i] \in Answers
  OBVIOUS
<1>1. \A i \in 1..Len(a) : a[i].data \in Pieces
  BY <1>0 DEF Answers
<1>2. d \in Seq(Pieces) /\ Len(d) = Len(a) /\ \A i \in 1..Len(a) : d[i] = a[i].data
  BY <1>0, <1>1 DEF Data
<1> HIDE DEF d
<1>3. g \o d \in Seq(Pieces) /\ Len(g \o d) = Len(g) + Len(d) /\ Len(g) \in Nat
  BY <1>2
<1>4. \A i \in 1..(Len(g) + Len(d)) : (g \o d)[i] = IF i <= Len(g) THEN g[i] ELSE d[i - Len(g)]
  BY <1>2
<1>5. \A i \in 1..Len(g) : (g \o d)[i] = g[i]
  BY <1>0, <1>2, <1>3, <1>4
<1>6. ASSUME NEW i \in 1..Len(a)
      PROVE  (g \o d)[Len(g) + i] = a[i].data
  <2>1. Len(g) + i \in 1..(Len(g) + Len(d)) /\ ~(Len(g) + i <= Len(g)) /\ (Len(g) + i) - Len(g) = i
    BY <1>0, <1>2, <1>3
  <2>2. (g \o d)[Len(g) + i] = d[(Len(g) + i) - Len(g)]
    BY <1>4, <2>1
  <2> QED
    BY <1>2, <2>1, <2>2
<1>7. \A i \in 1..Len(g \o d) : i \in 1..Len(g) \/ i - Len(g) \in 1..Len(a)
  BY <1>0, <1>2, <1>3
<1> QED
  BY <1>0, <1>2, <1>3, <1>5, <1>6, <1>7 DEF d

\* t is what is left of s without its beginning.
Left(s, t) ==
  \E m \in 0..Len(s) : /\ Len(t) = Len(s) - m
                       /\ \A i \in 1..Len(t) : t[i] = s[m + i] /\ m + i \in 1..Len(s)

LEMMA ChainedLeft ==
  ASSUME NEW s \in Seq(Pieces), NEW t \in Seq(Pieces), NEW n \in Nat, NEW n2 \in Nat, n <= n2,
         Chained(s, n), Left(s, t)
  PROVE  Chained(t, n2)
<1>0. Parts \in Nat
  BY PartTypes
<1>1. PICK m \in 0..Len(s) : /\ Len(t) = Len(s) - m
                             /\ \A i \in 1..Len(t) : t[i] = s[m + i] /\ m + i \in 1..Len(s)
  BY DEF Left
<1>2. ASSUME NEW i \in 1..Len(t)
      PROVE  /\ t[i].of \in 1..n2 /\ t[i].part \in 1..Parts
             /\ \A k \in 0..(Parts - t[i].part) :
                  i + k \in 1..Len(t) /\ t[i + k] = Part(t[i].of, t[i].part + k)
  <2>1. t[i] = s[m + i] /\ m + i \in 1..Len(s)
    BY <1>1
  <2>2. /\ s[m + i].of \in 1..n /\ s[m + i].part \in 1..Parts
        /\ \A k \in 0..(Parts - s[m + i].part) :
             (m + i) + k \in 1..Len(s) /\ s[(m + i) + k] = Part(s[m + i].of, s[m + i].part + k)
    BY <2>1 DEF Chained
  <2>3. ASSUME NEW k \in 0..(Parts - t[i].part)
        PROVE  i + k \in 1..Len(t) /\ t[i + k] = Part(t[i].of, t[i].part + k)
    <3>1. (m + i) + k \in 1..Len(s) /\ s[(m + i) + k] = Part(t[i].of, t[i].part + k)
      BY <2>1, <2>2
    <3>2. k \in Nat
      BY <1>0, <2>1, <2>2
    <3>3. i + k \in 1..Len(t) /\ m + (i + k) = (m + i) + k
      BY <1>1, <3>1, <3>2
    <3> QED
      BY <1>1, <3>1, <3>3
  <2> QED
    BY <2>1, <2>2, <2>3
<1>3. ASSUME NEW i \in 1..(Len(t) - 1), IsLast(t[i])
      PROVE  t[i + 1].part = 1
  <2>1. i \in 1..Len(t) /\ i + 1 \in 1..Len(t) /\ m + i \in 1..(Len(s) - 1) /\ m + (i + 1) = (m + i) + 1
    BY <1>1
  <2>2. IsLast(s[m + i])
    BY <1>1, <1>3, <2>1
  <2>3. s[(m + i) + 1].part = 1
    BY <2>1, <2>2 DEF Chained
  <2>4. t[i + 1] = s[m + (i + 1)]
    BY <1>1, <2>1
  <2> QED
    BY <2>1, <2>3, <2>4
<1> QED
  BY <1>2, <1>3 DEF Chained

\* A response that arrives behind the stream.
LEMMA ChainedMore ==
  ASSUME NEW s \in Seq(Pieces), NEW t \in Seq(Pieces), NEW n \in Nat, NEW q \in 1..n,
         Chained(s, n), Len(t) = Len(s) + Parts, \A i \in 1..Len(s) : t[i] = s[i],
         \A i \in 1..Parts : t[Len(s) + i] = Part(q, i)
  PROVE  Chained(t, n) /\ (FromStart(s) => FromStart(t))
<1>0. Parts \in Nat /\ Parts > 0 /\ Len(s) \in Nat
  BY PartTypes
<1>1. ASSUME NEW i \in 1..Len(t)
      PROVE  /\ t[i].of \in 1..n /\ t[i].part \in 1..Parts
             /\ \A k \in 0..(Parts - t[i].part) :
                  i + k \in 1..Len(t) /\ t[i + k] = Part(t[i].of, t[i].part + k)
  <2>1. CASE i \in 1..Len(s)
    <3>1. /\ s[i].of \in 1..n /\ s[i].part \in 1..Parts
          /\ \A k \in 0..(Parts - s[i].part) :
               i + k \in 1..Len(s) /\ s[i + k] = Part(s[i].of, s[i].part + k)
      BY <2>1 DEF Chained
    <3>2. t[i] = s[i]
      BY <2>1
    <3>3. \A k \in 0..(Parts - s[i].part) : i + k \in 1..Len(t) /\ t[i + k] = s[i + k]
      BY <1>0, <3>1
    <3> QED
      BY <3>1, <3>2, <3>3
  <2>2. CASE i \notin 1..Len(s)
    <3> DEFINE p == i - Len(s)
    <3>1. p \in 1..Parts /\ i = Len(s) + p
      BY <1>0, <2>2
    <3> HIDE DEF p
    <3>2. t[i] = Part(q, p) /\ t[i].of = q /\ t[i].part = p
      BY <3>1 DEF Part
    <3>3. ASSUME NEW k \in 0..(Parts - p)
          PROVE  i + k \in 1..Len(t) /\ t[i + k] = Part(q, p + k)
      <4>1. p + k \in 1..Parts /\ i + k = Len(s) + (p + k)
        BY <1>0, <3>1
      <4> QED
        BY <1>0, <4>1
    <3> QED
      BY <3>1, <3>2, <3>3
  <2> QED
    BY <2>1, <2>2
<1>2. ASSUME NEW i \in 1..(Len(t) - 1), IsLast(t[i])
      PROVE  t[i + 1].part = 1
  <2>1. CASE i \in 1..(Len(s) - 1)
    <3>1. i \in 1..Len(s) /\ i + 1 \in 1..Len(s)
      BY <1>0, <2>1
    <3>2. t[i] = s[i] /\ t[i + 1] = s[i + 1]
      BY <3>1
    <3> QED
      BY <1>2, <2>1, <3>2 DEF Chained
  <2>2. CASE i = Len(s)
    <3>1. 1 \in 1..Parts /\ t[Len(s) + 1] = Part(q, 1)
      BY <1>0
    <3> QED
      BY <2>2, <3>1 DEF Part
  <2>3. CASE i > Len(s)
    <3>1. i - Len(s) \in 1..(Parts - 1) /\ i = Len(s) + (i - Len(s))
      BY <1>0, <2>3
    <3>2. t[i].part = i - Len(s)
      <4> DEFINE p == i - Len(s)
      <4>1. p \in 1..Parts /\ i = Len(s) + p
        BY <1>0, <3>1
      <4> HIDE DEF p
      <4>2. t[i] = Part(q, p)
        BY <4>1
      <4> QED
        BY <4>2 DEF Part, p
    <3> QED
      BY <1>0, <1>2, <3>1, <3>2 DEF IsLast
  <2> QED
    BY <1>0, <2>1, <2>2, <2>3
<1>3. FromStart(s) => FromStart(t)
  <2>1. CASE s = <<>>
    <3>1. t[1] = Part(q, 1)
      BY <1>0, <2>1
    <3> QED
      BY <3>1 DEF FromStart, Part
  <2>2. CASE s # <<>>
    <3>1. t[1] = s[1]
      BY <1>0, <2>2
    <3> QED
      BY <2>2, <3>1 DEF FromStart
  <2> QED
    BY <2>1, <2>2
<1> QED
  BY <1>1, <1>2, <1>3 DEF Chained

\* What is cut at the first terminator is a response, and a new one follows.
LEMMA ChainedCut ==
  ASSUME NEW s \in Seq(Pieces), NEW n \in Nat, Chained(s, n), NEW end \in 1..Len(s),
         IsLast(s[end]), \A i \in 1..(end - 1) : ~IsLast(s[i])
  PROVE  /\ s[1].of \in 1..n /\ s[1].part \in 1..Parts
         /\ SubSeq(s, 1, end) = SubSeq(Response(s[1].of), s[1].part, Parts)
         /\ end < Len(s) => s[end + 1].part = 1
<1> DEFINE q == s[1].of
           p == s[1].part
<1>0. Parts \in Nat /\ Parts > 0 /\ Len(s) \in Nat /\ 1 \in 1..Len(s) /\ n \in Nat
  BY PartTypes
<1>1. /\ q \in 1..n /\ p \in 1..Parts
      /\ \A k \in 0..(Parts - p) : 1 + k \in 1..Len(s) /\ s[1 + k] = Part(q, p + k)
  BY <1>0 DEF Chained
<1>2. ASSUME end < Len(s)
      PROVE  s[end + 1].part = 1
  <2>1. end \in 1..(Len(s) - 1)
    BY <1>0, <1>2
  <2> QED
    BY <2>1 DEF Chained
<1> HIDE DEF q, p
<1>3. end = 1 + (Parts - p)
  <2>1. end >= 1 + (Parts - p)
    <3> SUFFICES ASSUME end < 1 + (Parts - p)
                 PROVE  FALSE
      BY <1>0, <1>1
    <3>1. end - 1 \in 0..(Parts - p) /\ 1 + (end - 1) = end
      BY <1>0, <1>1
    <3>2. s[end] = Part(q, p + (end - 1))
      BY <1>1, <3>1
    <3>3. s[end].part = p + (end - 1)
      BY <3>2 DEF Part
    <3> QED
      BY <1>0, <1>1, <3>3 DEF IsLast
  <2>2. Parts - p \in 0..(Parts - p) /\ p + (Parts - p) = Parts
    BY <1>0, <1>1
  <2>3. s[1 + (Parts - p)] = Part(q, Parts) /\ 1 + (Parts - p) \in 1..Len(s)
    BY <1>1, <2>2
  <2>4. IsLast(s[1 + (Parts - p)])
    BY <2>3 DEF Part, IsLast
  <2>5. ~(end > 1 + (Parts - p))
    BY <1>0, <1>1, <2>3, <2>4
  <2> QED
    BY <1>0, <1>1, <2>1, <2>5
<1>4. SubSeq(s, 1, end) = Rest(q, p - 1)
  <2>1. \A i \in 1..end : s[i] \in Pieces
    BY <1>0
  <2>2. SubSeq(s, 1, end) \in Seq(Pieces) /\ Len(SubSeq(s, 1, end)) = end
        /\ \A i \in 1..end : SubSeq(s, 1, end)[i] = s[i]
    BY <1>0, <2>1
  <2>3. q \in Nat /\ p - 1 \in Nat /\ p - 1 <= Parts /\ Parts - (p - 1) = end
    BY <1>0, <1>1, <1>3
  <2>4. /\ Rest(q, p - 1) \in Seq(Pieces) /\ Len(Rest(q, p - 1)) = end
        /\ \A i \in 1..end : Rest(q, p - 1)[i] = Part(q, (p - 1) + i)
    BY <2>3, RestOf
  <2>5. ASSUME NEW i \in 1..end
        PROVE  s[i] = Part(q, (p - 1) + i)
    <3>1. i - 1 \in 0..(Parts - p) /\ 1 + (i - 1) = i /\ p + (i - 1) = (p - 1) + i
      BY <1>0, <1>1, <1>3
    <3> QED
      BY <1>1, <3>1
  <2> QED
    BY <2>2, <2>4, <2>5, SeqEqual
<1>5. Rest(q, p - 1) = SubSeq(Response(q), p, Parts)
  <2>1. (p - 1) + 1 = p
    BY <1>1
  <2> QED
    BY <2>1 DEF Rest
<1> QED
  BY <1>1, <1>2, <1>4, <1>5 DEF q, p

LEMMA StreamSame ==
  ASSUME TypeInv, LineStream, got' = got, inbound' = inbound, asked' \in Nat, asked <= asked',
         Uncut' /\ isOpen' => Uncut /\ isOpen
  PROVE  LineStream'
<1>1. Stream' = Stream /\ Stream \in Seq(Pieces) /\ asked \in Nat
  BY StreamOf, CallTypes DEF Stream, Data, TypeInv
<1>2. Left(Stream, Stream)
  <2>1. Len(Stream) \in Nat /\ 0 \in 0..Len(Stream)
    BY <1>1
  <2> QED
    BY <2>1 DEF Left
<1>3. Chained(Stream, asked')
  BY <1>1, <1>2, ChainedLeft DEF LineStream
<1> QED
  BY <1>1, <1>3 DEF LineStream

LEMMA StreamCut ==
  ASSUME TypeInv, LineStream, got' = <<>>, inbound' \in Suffixes(inbound) \/ inbound' \in {inbound, <<>>},
         asked' = asked, Uncut' /\ isOpen' => inbound' = <<>>
  PROVE  LineStream'
<1> DEFINE s == Stream
           t == Data(inbound')
<1>0. got \in Seq(Pieces) /\ inbound \in Seq(Answers) /\ asked \in Nat /\ <<>> \in Seq(Pieces) /\ <<>> \in Seq(Answers)
  BY CallTypes DEF TypeInv
<1>1. /\ s \in Seq(Pieces) /\ Len(s) = Len(got) + Len(inbound) /\ Len(got) \in Nat /\ Len(inbound) \in Nat
      /\ \A i \in 1..Len(inbound) : s[Len(got) + i] = inbound[i].data
  BY <1>0, StreamOf DEF Stream
<1>2. PICK n \in 0..Len(inbound) :
        /\ Len(inbound') = Len(inbound) - n /\ inbound' \in Seq(Answers)
        /\ \A i \in 1..Len(inbound') : inbound'[i] = inbound[n + i] /\ n + i \in 1..Len(inbound)
  <2>1. CASE inbound' \in Suffixes(inbound)
    <3>1. inbound' \in Seq(Answers)
      BY <1>0, <2>1, SuffixOf
    <3>2. PICK n \in 0..Len(inbound) :
            /\ Len(inbound') = Len(inbound) - n
            /\ \A i \in 1..Len(inbound') : inbound'[i] = inbound[n + i] /\ n + i \in 1..Len(inbound)
      BY <1>0, <2>1, SuffixOf
    <3> QED
      BY <3>1, <3>2
  <2>2. CASE inbound' = inbound
    <3>1. 0 \in 0..Len(inbound) /\ Len(inbound') = Len(inbound) - 0
      BY <1>1, <2>2
    <3>2. \A i \in 1..Len(inbound') : inbound'[i] = inbound[0 + i] /\ 0 + i \in 1..Len(inbound)
      BY <1>1, <2>2
    <3> QED
      BY <1>0, <2>2, <3>1, <3>2
  <2>3. CASE inbound' = <<>>
    <3>1. Len(inbound') = 0 /\ 1..Len(inbound') = {} /\ Len(inbound) \in 0..Len(inbound)
      BY <1>1, <2>3
    <3> QED
      BY <1>0, <2>3, <3>1
  <2> QED
    BY <2>1, <2>2, <2>3
<1>3. Stream' = t /\ t \in Seq(Pieces) /\ Len(t) = Len(inbound') /\ \A i \in 1..Len(inbound') : t[i] = inbound'[i].data
  <2>1. \A i \in 1..Len(inbound') : inbound'[i] \in Answers
    BY <1>2
  <2>2. \A i \in 1..Len(inbound') : inbound'[i].data \in Pieces
    BY <2>1 DEF Answers
  <2>3. t \in Seq(Pieces) /\ Len(t) = Len(inbound') /\ \A i \in 1..Len(inbound') : t[i] = inbound'[i].data
    BY <1>2, <2>2 DEF Data
  <2>4. <<>> \o t = t
    BY <2>3, ConcatEmptySeq
  <2> QED
    BY <2>3, <2>4 DEF Stream, Data
<1> HIDE DEF s, t
<1>4. Left(s, t)
  <2> DEFINE m == Len(got) + n
  <2>1. m \in 0..Len(s) /\ Len(t) = Len(s) - m
    BY <1>1, <1>2, <1>3
  <2>2. ASSUME NEW i \in 1..Len(t)
        PROVE  t[i] = s[m + i] /\ m + i \in 1..Len(s)
    <3>1. n + i \in 1..Len(inbound) /\ t[i] = inbound[n + i].data /\ m + i = Len(got) + (n + i)
      BY <1>1, <1>2, <1>3
    <3>2. s[Len(got) + (n + i)] = inbound[n + i].data
      BY <1>1, <3>1
    <3> QED
      BY <1>1, <3>1, <3>2
  <2> HIDE DEF m
  <2> QED
    BY <2>1, <2>2 DEF Left
<1>5. Chained(t, asked)
  BY <1>0, <1>1, <1>3, <1>4, ChainedLeft DEF LineStream, s
<1>6. ASSUME Uncut', isOpen'
      PROVE  FromStart(t)
  <2>1. Len(inbound') = 0
    BY <1>6
  <2>2. t = <<>>
    BY <1>3, <2>1, EmptySeq
  <2> QED
    BY <2>2 DEF FromStart
<1> QED
  BY <1>3, <1>5, <1>6 DEF LineStream

LEMMA ResultStays ==
  ASSUME TypeInv, LineResult, result' \in {result, <<>>}, asked' \in Nat, asked <= asked', Uncut' => Uncut
  PROVE  LineResult'
<1>1. CASE result' = <<>>
  BY <1>1 DEF LineResult
<1>2. CASE result' = result /\ result # <<>>
  <2>1. PICK q \in 1..asked, n \in 1..Parts :
          result = SubSeq(Response(q), n, Parts) /\ (Uncut => n = 1)
    BY <1>2 DEF LineResult
  <2>2. q \in 1..asked'
    BY CallTypes
  <2> QED
    BY <1>2, <2>1, <2>2 DEF LineResult
<1> QED
  BY <1>1, <1>2

\* A response arrives on the line.
LEMMA LineExecuted ==
  ASSUME TypeInv, LineInv, Line, NEW accepts \in -1..Parts, ExecuteCommand(accepts)
  PROVE  LineInv'
<1> DEFINE call == Head(calls)
           q == call.q
           f == [n \in 1..Parts |-> Answer(call, Part(q, n))]
           s == Stream
           t == got \o Data(inbound')
<1>0. got \in Seq(Pieces) /\ inbound \in Seq(Answers) /\ calls \in Seq(Calls) /\ asked \in Nat
      /\ Parts \in Nat /\ Parts > 0
  BY CallTypes, PartTypes DEF TypeInv
<1>1. bus' = bus /\ isOpen' = isOpen /\ at' = at /\ waiting' = waiting /\ got' = got /\ result' = result
      /\ opens' = opens /\ asked' = asked /\ clears' = clears
      /\ calls # <<>> /\ calls' = Tail(calls) /\ inbound' = inbound \o f
  BY DEF ExecuteCommand, Executes, client, counters, Line
<1>2. LineQuiet /\ LineStream /\ LineResult
  BY DEF LineInv
<1>3. q \in 1..asked /\ call \in Calls
      /\ \A i \in 1..Len(calls') : i + 1 \in 1..Len(calls) /\ calls'[i] = calls[i + 1]
  <2>1. /\ call \in Calls /\ call = calls[1] /\ 1 \in 1..Len(calls)
        /\ \A i \in 1..Len(calls') : i + 1 \in 1..Len(calls) /\ calls'[i] = calls[i + 1]
    BY <1>0, <1>1, TailOf
  <2> QED
    BY <1>2, <2>1 DEF LineQuiet
<1>4. LineQuiet'
  BY <1>1, <1>2, <1>3 DEF LineQuiet, NoCalls
<1>5. LineStream'
  <2>1. \A n \in 1..Parts : Part(q, n) \in Pieces /\ Answer(call, Part(q, n)) \in Answers
                            /\ Answer(call, Part(q, n)).data = Part(q, n)
    <3>1. \A n \in 1..Parts : Part(q, n) \in Pieces
      BY <1>0, <1>3, PartTypes
    <3> QED
      BY <1>3, <3>1, CallTypes DEF Answer
  <2>2. f \in Seq(Answers) /\ Len(f) = Parts /\ \A n \in 1..Parts : f[n].data = Part(q, n)
    BY <1>0, <2>1
  <2> HIDE DEF f
  <2>3. /\ inbound' \in Seq(Answers) /\ Len(inbound') = Len(inbound) + Parts /\ Len(inbound) \in Nat
        /\ \A i \in 1..(Len(inbound) + Parts) :
             inbound'[i] = IF i <= Len(inbound) THEN inbound[i] ELSE f[i - Len(inbound)]
    <3>1. inbound' = inbound \o f
      BY <1>1 DEF f
    <3>2. Len(inbound) \in Nat
      BY <1>0
    <3>3. /\ inbound \o f \in Seq(Answers) /\ Len(inbound \o f) = Len(inbound) + Len(f)
          /\ \A i \in 1..(Len(inbound) + Len(f)) :
               (inbound \o f)[i] = IF i <= Len(inbound) THEN inbound[i] ELSE f[i - Len(inbound)]
      BY <1>0, <2>2, ConcatProperties
    <3> QED
      BY <2>2, <3>1, <3>2, <3>3
  <2>4. /\ s \in Seq(Pieces) /\ Len(s) = Len(got) + Len(inbound) /\ Len(got) \in Nat
        /\ \A i \in 1..Len(got) : s[i] = got[i]
        /\ \A i \in 1..Len(inbound) : s[Len(got) + i] = inbound[i].data
    BY <1>0, StreamOf DEF Stream
  <2>5. /\ t \in Seq(Pieces) /\ Len(t) = Len(got) + Len(inbound')
        /\ \A i \in 1..Len(got) : t[i] = got[i]
        /\ \A i \in 1..Len(inbound') : t[Len(got) + i] = inbound'[i].data
    BY <1>0, <2>3, StreamOf
  <2>6. Stream' = t
    BY <1>1 DEF Stream, Data
  <2> HIDE DEF s, t, q
  <2>7. ASSUME NEW i \in 1..Len(s)
        PROVE  t[i] = s[i]
    <3>1. CASE i \in 1..Len(got)
      BY <2>4, <2>5, <3>1
    <3>2. CASE i \notin 1..Len(got)
      <4> DEFINE k == i - Len(got)
      <4>1. k \in 1..Len(inbound) /\ k \in 1..Len(inbound') /\ i = Len(got) + k /\ k <= Len(inbound)
        BY <1>0, <2>3, <2>4, <3>2
      <4> HIDE DEF k
      <4>2. inbound'[k] = inbound[k]
        BY <2>3, <4>1
      <4> QED
        BY <2>4, <2>5, <4>1, <4>2
    <3> QED
      BY <3>1, <3>2
  <2>8. ASSUME NEW n \in 1..Parts
        PROVE  t[Len(s) + n] = Part(q, n)
    <3>1. Len(inbound) + n \in 1..Len(inbound') /\ Len(s) + n = Len(got) + (Len(inbound) + n)
          /\ ~(Len(inbound) + n <= Len(inbound)) /\ (Len(inbound) + n) - Len(inbound) = n
      BY <1>0, <2>3, <2>4
    <3>2. inbound'[Len(inbound) + n] = f[n]
      BY <2>3, <3>1
    <3> QED
      BY <2>2, <2>5, <3>1, <3>2
  <2>9. Chained(t, asked) /\ (FromStart(s) => FromStart(t))
    <3>1. Chained(s, asked)
      BY <1>2 DEF LineStream, s
    <3>2. Len(t) = Len(s) + Parts
      BY <1>0, <2>3, <2>4, <2>5
    <3>3. q \in 1..asked
      BY <1>3 DEF q
    <3> QED
      BY <1>0, <2>4, <2>5, <2>7, <2>8, <3>1, <3>2, <3>3, ChainedMore
  <2> QED
    BY <1>1, <1>2, <2>6, <2>9 DEF LineStream, Uncut, s
<1>6. LineResult'
  BY <1>0, <1>1, <1>2, ResultStays DEF Uncut
<1> QED
  BY <1>4, <1>5, <1>6 DEF LineInv

\* What has arrived goes from one half of the stream to the other.
LEMMA LinePumped ==
  ASSUME TypeInv, LineInv, Pump
  PROVE  LineInv'
<1> DEFINE p == Head(inbound).data
           rest == Tail(inbound)
           more == Append(got, p)
<1>0. got \in Seq(Pieces) /\ inbound \in Seq(Answers) /\ asked \in Nat
  BY CallTypes DEF TypeInv
<1>1. bus' = bus /\ isOpen' = isOpen /\ at' = at /\ waiting' = waiting /\ result' = result /\ calls' = calls
      /\ opens' = opens /\ asked' = asked /\ clears' = clears /\ Line
      /\ inbound # <<>> /\ got' = more /\ inbound' = rest
  BY DEF Pump, counters
<1>2. LineQuiet /\ LineStream /\ LineResult
  BY <1>1 DEF LineInv
<1>3. opens # 0
  BY <1>1, <1>2 DEF LineQuiet
<1>4. LineQuiet'
  BY <1>1, <1>2, <1>3 DEF LineQuiet, NoCalls
<1>5. /\ rest \in Seq(Answers) /\ Len(inbound) = Len(rest) + 1 /\ Len(rest) \in Nat
      /\ Head(inbound) = inbound[1] /\ inbound[1] \in Answers
      /\ \A i \in 1..Len(rest) : rest[i] = inbound[i + 1] /\ i + 1 \in 1..Len(inbound)
  BY <1>0, <1>1, TailOf
<1>6. p \in Pieces /\ p = inbound[1].data
  BY <1>5 DEF Answers
<1> HIDE DEF p, rest
<1>7. /\ more \in Seq(Pieces) /\ Len(more) = Len(got) + 1 /\ Len(got) \in Nat /\ more[Len(got) + 1] = p
      /\ \A i \in 1..Len(got) : more[i] = got[i] /\ i \in 1..Len(more)
      /\ \A i \in 1..Len(more) : i \in 1..Len(got) \/ i = Len(got) + 1
  BY <1>0, <1>6, AppendOf
<1> HIDE DEF more
<1>8. Stream' = Stream
  <2> DEFINE s == Stream
             t == more \o Data(rest)
  <2>1. /\ s \in Seq(Pieces) /\ Len(s) = Len(got) + Len(inbound)
        /\ \A i \in 1..Len(got) : s[i] = got[i]
        /\ \A i \in 1..Len(inbound) : s[Len(got) + i] = inbound[i].data
    BY <1>0, StreamOf DEF Stream
  <2>2. /\ t \in Seq(Pieces) /\ Len(t) = Len(more) + Len(rest)
        /\ \A i \in 1..Len(more) : t[i] = more[i]
        /\ \A i \in 1..Len(rest) : t[Len(more) + i] = rest[i].data
    BY <1>5, <1>7, StreamOf
  <2>3. Stream' = t
    BY <1>1 DEF Stream, Data
  <2> HIDE DEF s, t
  <2>4. ASSUME NEW i \in 1..Len(s)
        PROVE  s[i] = t[i]
    <3>1. CASE i \in 1..Len(got)
      BY <1>7, <2>1, <2>2, <3>1
    <3>2. CASE i = Len(got) + 1
      <4>1. i \in 1..Len(more) /\ 1 \in 1..Len(inbound)
        BY <1>5, <1>7, <3>2
      <4> QED
        BY <1>6, <1>7, <2>1, <2>2, <3>2, <4>1
    <3>3. CASE i > Len(got) + 1
      <4> DEFINE k == i - Len(got) - 1
      <4>1. k \in 1..Len(rest) /\ i = Len(more) + k /\ i = Len(got) + (k + 1) /\ k + 1 \in 1..Len(inbound)
        BY <1>5, <1>7, <2>1, <3>3
      <4> HIDE DEF k
      <4>2. s[i] = inbound[k + 1].data /\ t[i] = rest[k].data
        BY <2>1, <2>2, <4>1
      <4> QED
        BY <1>5, <4>1, <4>2
    <3> QED
      BY <1>7, <3>1, <3>2, <3>3
  <2>5. Len(s) = Len(t)
    BY <1>5, <1>7, <2>1, <2>2
  <2>6. s = t
    BY <2>1, <2>2, <2>4, <2>5, SeqEqual
  <2> QED
    BY <2>3, <2>6 DEF s
<1>9. LineStream'
  BY <1>1, <1>2, <1>8 DEF LineStream, Uncut
<1>10. LineResult'
  BY <1>0, <1>1, <1>2, ResultStays DEF Uncut
<1> QED
  BY <1>4, <1>9, <1>10 DEF LineInv

\* The response that is cut from the stream is whole, or its beginning was cut off before.
LEMMA LineTaken ==
  ASSUME TypeInv, LineInv, ReadLine
  PROVE  LineInv'
<1> DEFINE s == Stream
<1>0. got \in Seq(Pieces) /\ inbound \in Seq(Answers) /\ asked \in Nat /\ Len(got) \in Nat
  BY CallTypes DEF TypeInv
<1>1. bus' = bus /\ isOpen' = isOpen /\ at' = "idle" /\ waiting' = waiting /\ calls' = calls /\ inbound' = inbound
      /\ opens' = opens /\ asked' = asked /\ clears' = clears /\ Line /\ at = "read"
  BY DEF ReadLine, counters, medium
<1>2. LineQuiet /\ LineStream /\ LineResult /\ isOpen
  BY <1>1 DEF LineInv, LineQuiet
<1>3. PICK end \in 1..Len(got) :
        /\ IsLast(got[end]) /\ \A n \in 1..(end - 1) : ~IsLast(got[n])
        /\ result' = SubSeq(got, 1, end) /\ got' = SubSeq(got, end + 1, Len(got))
  BY DEF ReadLine, TakeLine
<1>4. LineQuiet'
  BY <1>0, <1>1, <1>2, <1>3 DEF LineQuiet, NoCalls
<1>5. /\ s \in Seq(Pieces) /\ Len(s) = Len(got) + Len(inbound) /\ Len(inbound) \in Nat
      /\ \A i \in 1..Len(got) : s[i] = got[i]
      /\ \A i \in 1..Len(inbound) : s[Len(got) + i] = inbound[i].data
  BY <1>0, StreamOf DEF Stream
<1>6. Chained(s, asked)
  BY <1>2 DEF LineStream
<1>7. Uncut => FromStart(s)
  BY <1>2 DEF LineStream
<1> HIDE DEF s
<1>8. end \in 1..Len(s) /\ IsLast(s[end]) /\ \A i \in 1..(end - 1) : ~IsLast(s[i])
  <2>1. end \in 1..Len(s) /\ s[end] = got[end]
    BY <1>0, <1>3, <1>5
  <2>2. ASSUME NEW i \in 1..(end - 1)
        PROVE  ~IsLast(s[i])
    <3>1. i \in 1..Len(got)
      BY <1>0, <1>3
    <3>2. s[i] = got[i] /\ ~IsLast(got[i])
      BY <1>3, <1>5, <3>1
    <3> QED
      BY <3>2
  <2> QED
    BY <1>3, <2>1, <2>2
<1>9. /\ s[1].of \in 1..asked /\ s[1].part \in 1..Parts
      /\ SubSeq(s, 1, end) = SubSeq(Response(s[1].of), s[1].part, Parts)
      /\ end < Len(s) => s[end + 1].part = 1
  BY <1>0, <1>5, <1>6, <1>8, ChainedCut
<1>10. SubSeq(got, 1, end) = SubSeq(s, 1, end)
  <2>1. \A i \in 1..end : got[i] \in Pieces /\ s[i] \in Pieces /\ got[i] = s[i]
    BY <1>0, <1>3, <1>5
  <2>2. /\ SubSeq(got, 1, end) \in Seq(Pieces) /\ Len(SubSeq(got, 1, end)) = end
        /\ \A i \in 1..end : SubSeq(got, 1, end)[i] = got[i]
    BY <1>0, <2>1
  <2>3. /\ SubSeq(s, 1, end) \in Seq(Pieces) /\ Len(SubSeq(s, 1, end)) = end
        /\ \A i \in 1..end : SubSeq(s, 1, end)[i] = s[i]
    BY <1>8, <1>5, <2>1
  <2> QED
    BY <2>1, <2>2, <2>3, SeqEqual
<1>11. LineResult'
  <2>1. Uncut' => s[1].part = 1
    <3>1. s # <<>>
      BY <1>3, <1>5
    <3> QED
      BY <1>1, <1>7, <3>1 DEF FromStart, Uncut
  <2> QED
    BY <1>1, <1>3, <1>9, <1>10, <2>1 DEF LineResult
<1>12. LineStream'
  <2> DEFINE g == SubSeq(got, end + 1, Len(got))
             t == g \o Data(inbound)
  <2>1. g \in Seq(Pieces) /\ Len(g) = Len(got) - end /\ \A i \in 1..Len(g) : g[i] = got[end + i]
    <3>1. \A i \in (end + 1)..Len(got) : got[i] \in Pieces
      BY <1>0
    <3>2. g \in Seq(Pieces) /\ Len(g) = Len(got) - end
      BY <1>0, <1>3, <3>1
    <3>3. \A i \in 1..(Len(got) - (end + 1) + 1) : g[i] = got[(end + 1) + i - 1]
      BY <1>0, <1>3, <3>1
    <3>4. \A i \in 1..Len(g) : i \in 1..(Len(got) - (end + 1) + 1) /\ (end + 1) + i - 1 = end + i
      BY <1>0, <1>3, <3>2
    <3> QED
      BY <3>2, <3>3, <3>4
  <2> HIDE DEF g
  <2>2. /\ t \in Seq(Pieces) /\ Len(t) = Len(g) + Len(inbound)
        /\ \A i \in 1..Len(g) : t[i] = g[i]
        /\ \A i \in 1..Len(inbound) : t[Len(g) + i] = inbound[i].data
    BY <1>0, <2>1, StreamOf
  <2>3. Stream' = t
    BY <1>1, <1>3 DEF Stream, Data, g
  <2> HIDE DEF t
  <2>4. Len(t) = Len(s) - end /\ end \in 0..Len(s)
    BY <1>0, <1>3, <1>5, <2>1, <2>2
  <2>5. ASSUME NEW i \in 1..Len(t)
        PROVE  t[i] = s[end + i] /\ end + i \in 1..Len(s)
    <3>1. CASE i \in 1..Len(g)
      <4>1. end + i \in 1..Len(got)
        BY <1>0, <1>3, <2>1, <3>1
      <4> QED
        BY <1>0, <1>5, <2>1, <2>2, <3>1, <4>1
    <3>2. CASE i \notin 1..Len(g)
      <4> DEFINE k == i - Len(g)
      <4>1. k \in 1..Len(inbound) /\ i = Len(g) + k /\ end + i = Len(got) + k
        BY <1>0, <1>3, <1>5, <2>1, <2>2, <3>2
      <4> HIDE DEF k
      <4> QED
        BY <1>0, <1>5, <2>2, <4>1
    <3> QED
      BY <3>1, <3>2
  <2>6. Chained(t, asked)
    <3>1. Left(s, t)
      BY <2>4, <2>5 DEF Left
    <3>2. asked <= asked /\ s \in Seq(Pieces) /\ t \in Seq(Pieces)
      BY <1>0, <1>5, <2>2
    <3> QED
      BY <1>0, <1>6, <3>1, <3>2, ChainedLeft
  <2>7. FromStart(t)
    <3> SUFFICES ASSUME t # <<>>
                 PROVE  t[1].part = 1
      BY DEF FromStart
    <3>1. 1 \in 1..Len(t) /\ end < Len(s)
      BY <1>5, <2>2, <2>4
    <3> QED
      BY <1>9, <2>5, <3>1
  <2> QED
    BY <1>1, <2>3, <2>6, <2>7 DEF LineStream
<1> QED
  BY <1>4, <1>11, <1>12 DEF LineInv

LEMMA LineStep ==
  ASSUME TypeInv, LineInv, [Next]_vars
  PROVE  LineInv'
<1> SUFFICES ASSUME Line'
             PROVE  LineInv'
  BY DEF LineInv
<1>0. bus' = bus
  BY DEF Next, Operate, Proceed, Instrument, vars, client, medium, counters, Open, Close, Read, WriteToLink,
     Write, Clear, LinkAccepts, Pump, ReadLine, ReadLink, ReadTransfer, ReadSession, WorkerCleared,
     GiveUp, GuiCleared, ConnectionDrops, ExecuteCommand, GivePart, GiveNothing, ExecuteClear
<1>1. Line /\ bus \in {"tcp", "serial"} /\ LineQuiet /\ LineStream /\ LineResult
  BY <1>0 DEF LineInv, Line
<1>2. /\ asked \in Nat /\ opens \in Nat /\ clears \in Nat /\ calls \in Seq(Calls) /\ got \in Seq(Pieces)
      /\ inbound \in Seq(Answers) /\ Parts \in Nat /\ waiting = NoCalls
      /\ [NoCalls EXCEPT !["worker"] = NoCall] = NoCalls /\ NoCalls["gui"] = NoCall /\ NoCalls["worker"] = NoCall
  <2>1. NoCalls["gui"] = NoCall /\ NoCalls["worker"] = NoCall
        /\ [NoCalls EXCEPT !["worker"] = NoCall] = NoCalls
    BY DEF NoCalls, Threads
  <2>2. asked \in Nat /\ opens \in Nat /\ clears \in Nat /\ Parts \in Nat
    BY PartTypes, BoundsAssumption DEF BoundsAssumption, TypeInv
  <2> QED
    BY <1>1, <2>1, <2>2 DEF TypeInv, LineQuiet
<1>3. ASSUME /\ at' \in {"idle", "read"} /\ waiting' = NoCalls /\ (at' = "read" => isOpen')
             /\ opens' = opens /\ isOpen' \in {isOpen, FALSE} /\ asked' = asked
             /\ calls' = calls /\ inbound' = inbound /\ got' \in {got, <<>>}
      PROVE  LineQuiet'
  BY <1>1, <1>2, <1>3 DEF LineQuiet, NoCalls
<1>4. CASE Open
  <2>1. isOpen' /\ opens' = opens + 1 /\ got' = <<>> /\ result' = <<>> /\ asked' = asked /\ clears' = clears
        /\ at' = at /\ waiting' = waiting /\ at = "idle"
        /\ calls' \in {calls, <<>>} /\ (inbound' = <<>> \/ inbound' \in Suffixes(inbound))
    BY <1>1, <1>4 DEF Open, OpenSocket, OpenPort, OpenLink, OpenInterface, OpenSession, NewMedium, Idle
  <2>2. Uncut' => inbound' = <<>>
    <3> SUFFICES ASSUME Uncut'
                 PROVE  inbound' = <<>>
      OBVIOUS
    <3>1. opens = 0
      BY <1>2, <2>1 DEF Uncut
    <3>2. inbound = <<>>
      BY <1>1, <3>1 DEF LineQuiet
    <3>3. Suffixes(<<>>) = {<<>>}
      <4>1. Len(<<>>) = 0 /\ 0..0 = {0} /\ SubSeq(<<>>, 0 + 1, 0) = <<>>
        OBVIOUS
      <4> QED
        BY <4>1 DEF Suffixes
    <3> QED
      BY <2>1, <3>2, <3>3
  <2>3. LineStream'
    BY <1>1, <2>1, <2>2, StreamCut
  <2>4. LineResult'
    BY <2>1 DEF LineResult
  <2>5. LineQuiet'
    <3>1. opens' # 0
      BY <1>2, <2>1
    <3>2. \A i \in 1..Len(calls') : calls'[i].what = "write" /\ calls'[i].q \in 1..asked'
      BY <1>1, <2>1 DEF LineQuiet
    <3> QED
      BY <1>1, <1>2, <2>1, <3>1, <3>2 DEF LineQuiet, NoCalls
  <2> QED
    BY <2>3, <2>4, <2>5 DEF LineInv
<1>5. CASE Close
  <2>1. /\ at' = "idle" /\ waiting' = NoCalls /\ ~isOpen' /\ isOpen' \in {isOpen, FALSE} /\ opens' = opens
        /\ asked' = asked /\ clears' = clears /\ got' = <<>> /\ inbound' = inbound /\ calls' = calls /\ result' = result
    BY <1>2, <1>5 DEF Close, Idle, counters, medium
  <2>2. LineStream'
    BY <1>1, <2>1, StreamCut
  <2>3. LineQuiet'
    BY <1>3, <2>1
  <2>4. LineResult'
    BY <1>1, <1>2, <2>1, ResultStays DEF Uncut
  <2> QED
    BY <2>2, <2>3, <2>4 DEF LineInv
<1>6. CASE ConnectionDrops
  <2>1. /\ at' = "idle" /\ waiting' = NoCalls /\ ~isOpen' /\ isOpen' \in {isOpen, FALSE} /\ opens' = opens
        /\ asked' = asked /\ clears' = clears /\ got' = got /\ inbound' = inbound /\ calls' = calls /\ result' = <<>>
    BY <1>2, <1>6 DEF ConnectionDrops, counters, medium, NoCalls
  <2>2. LineStream'
    BY <1>1, <1>2, <2>1, StreamSame
  <2>3. LineQuiet'
    BY <1>3, <2>1
  <2>4. LineResult'
    BY <2>1 DEF LineResult
  <2> QED
    BY <2>2, <2>3, <2>4 DEF LineInv
<1>7. CASE \E ok \in BOOLEAN : Write(ok)
  <2>1. /\ at' = at /\ waiting' = waiting /\ isOpen' = isOpen /\ isOpen /\ opens' = opens /\ clears' = clears
        /\ asked' = asked + 1 /\ got' = got /\ inbound' = inbound /\ result' = <<>>
        /\ calls' \in {calls, Append(calls, Command(0))}
    BY <1>1, <1>7 DEF Write, WriteLine, WriteTransfer, WriteSession, WriteNothing
  <2>2. LineStream'
    BY <1>1, <1>2, <2>1, StreamSame DEF Uncut
  <2>3. LineResult'
    BY <2>1 DEF LineResult
  <2>4. \A i \in 1..Len(calls') : calls'[i].what = "write" /\ calls'[i].q \in 1..asked'
    <3>1. \A i \in 1..Len(calls) : calls[i].what = "write" /\ calls[i].q \in 1..asked'
      BY <1>1, <1>2, <2>1 DEF LineQuiet
    <3>2. CASE calls' = calls
      BY <3>1, <3>2
    <3>3. CASE calls' = Append(calls, Command(0))
      <4>1. Command(0) \in Calls /\ Command(0).what = "write" /\ Command(0).q \in 1..asked'
        BY <1>2, <2>1, CallTypes DEF Command, Call
      <4>2. /\ calls'[Len(calls) + 1] = Command(0) /\ \A i \in 1..Len(calls) : calls'[i] = calls[i]
            /\ \A i \in 1..Len(calls') : i \in 1..Len(calls) \/ i = Len(calls) + 1
        BY <1>2, <3>3, <4>1, AppendOf
      <4> QED
        BY <3>1, <4>1, <4>2
    <3> QED
      BY <2>1, <3>2, <3>3
  <2>5. LineQuiet'
    BY <1>1, <1>2, <2>1, <2>4 DEF LineQuiet, NoCalls
  <2> QED
    BY <2>2, <2>3, <2>5 DEF LineInv
<1>8. CASE Read \/ GiveUp
  <2>1. /\ at' \in {"idle", "read"} /\ waiting' = NoCalls /\ isOpen' = isOpen /\ (at' = "read" => isOpen) /\ opens' = opens
        /\ asked' = asked /\ clears' = clears /\ got' = got /\ inbound' = inbound /\ calls' = calls /\ result' = <<>>
    BY <1>1, <1>2, <1>8 DEF Read, Asks, GiveUp, Fails, Done, counters
  <2>2. LineStream'
    BY <1>1, <1>2, <2>1, StreamSame DEF Uncut
  <2>3. LineQuiet'
    BY <1>3, <2>1
  <2>4. LineResult'
    BY <2>1 DEF LineResult
  <2> QED
    BY <2>2, <2>3, <2>4 DEF LineInv
<1>9. CASE \E t \in Threads : Clear(t)
  <2>1. /\ at' = at /\ waiting' = waiting /\ isOpen' = isOpen /\ isOpen /\ opens' = opens /\ asked' = asked
        /\ clears' = clears + 1 /\ got' = <<>> /\ inbound' \in Suffixes(inbound) /\ calls' = calls /\ result' = result
    BY <1>1, <1>9 DEF Clear, ClearLine, ClearLink, ClearSession, ClearInterface
  <2>2. ~Uncut'
    BY <1>2, <2>1 DEF Uncut
  <2>3. LineStream'
    BY <1>1, <2>1, <2>2, StreamCut
  <2>4. LineQuiet'
    BY <1>1, <1>2, <2>1 DEF LineQuiet, NoCalls
  <2>5. LineResult'
    BY <1>1, <1>2, <2>1, <2>2, ResultStays
  <2> QED
    BY <2>3, <2>4, <2>5 DEF LineInv
<1>10. CASE Instrument
  <2>1. calls # <<>> => Head(calls).what = "write"
    <3>1. calls # <<>> => Head(calls) = calls[1] /\ 1 \in 1..Len(calls)
      BY <1>2, TailOf
    <3> QED
      BY <1>1, <3>1 DEF LineQuiet
  <2>2. PICK n \in -1..Parts : ExecuteCommand(n)
    BY <1>10, <2>1 DEF Instrument, GivePart, GiveNothing, ExecuteClear, Executes
  <2> QED
    BY <1>1, <2>2, LineExecuted
<1>11. CASE UNCHANGED vars
  BY <1>1, <1>11 DEF LineInv, LineQuiet, LineStream, LineResult, Stream, Data, Uncut, NoCalls,
     vars, client, medium, counters
<1>12. ~(WriteToLink \/ LinkAccepts \/ ReadLink \/ ReadTransfer \/ ReadSession \/ WorkerCleared \/ GuiCleared)
  BY <1>1, <1>2 DEF WriteToLink, LinkAccepts, ReadLink, ReadTransfer, ReadSession, WorkerCleared, GuiCleared,
     LineQuiet
<1> QED
  BY <1>4, <1>5, <1>6, <1>7, <1>8, <1>9, <1>10, <1>11, <1>12, LinePumped, LineTaken DEF Next, Operate, Proceed

-----------------------------------------------------------------------------
(* Sessions.                                                               *)

LEMMA SessionStep ==
  ASSUME TypeInv, SessionInv, [Next]_vars
  PROVE  SessionInv'
<1> SUFFICES ASSUME bus' = "visa"
             PROVE  SessionInv'
  BY DEF SessionInv
<1>0. bus' = bus
  BY DEF Next, Operate, Proceed, Instrument, vars, client, medium, counters, Open, Close, Read, WriteToLink,
     Write, Clear, LinkAccepts, Pump, ReadLine, ReadLink, ReadTransfer, ReadSession, WorkerCleared,
     GiveUp, GuiCleared, ConnectionDrops, ExecuteCommand, GivePart, GiveNothing, ExecuteClear
<1>1. /\ bus = "visa" /\ ~Line /\ at \in {"idle", "read", "drain"} /\ waiting = NoCalls /\ calls = <<>> /\ inbound = <<>>
      /\ ready => at = "idle" /\ asked > 0 /\ output \in {Response(asked), <<>>}
      /\ at = "idle" => got = <<>>
      /\ at = "read" =>
           /\ asked > 0
           /\ \E k \in 0..(Parts - 1) : got = Beginning(asked, k) /\ output \in {Rest(asked, k), <<>>}
      /\ WholeResult
  BY <1>0 DEF SessionInv, Line
<1>2. /\ asked \in Nat /\ Parts \in Nat /\ Parts > 0 /\ [NoCalls EXCEPT !["worker"] = NoCall] = NoCalls
      /\ NoCalls["gui"] = NoCall /\ NoCalls["worker"] = NoCall
  <2>1. NoCalls["gui"] = NoCall /\ NoCalls["worker"] = NoCall
        /\ [NoCalls EXCEPT !["worker"] = NoCall] = NoCalls
    BY DEF NoCalls, Threads
  <2> QED
    BY <2>1, CallTypes, PartTypes
<1>3. ASSUME at' = "idle", waiting' = NoCalls, calls' = <<>>, inbound' = <<>>, got' = <<>>, WholeResult',
             ready' => asked' > 0 /\ output' \in {Response(asked'), <<>>}
      PROVE  SessionInv'
  BY <1>3 DEF SessionInv, NoCalls
<1>4. ASSUME result' \in {result, <<>>}, asked' = asked
      PROVE  WholeResult'
  BY <1>1, <1>4 DEF WholeResult, Response
<1>5. CASE Open \/ Close
  <2>1. /\ at' = "idle" /\ waiting' = NoCalls /\ calls' = <<>> /\ inbound' = <<>> /\ got' = <<>> /\ asked' = asked
        /\ result' \in {result, <<>>} /\ ready' \in {ready, FALSE} /\ (ready' => output' = output)
    BY <1>1, <1>5 DEF Open, Close, Idle, OpenSocket, OpenPort, OpenLink, OpenInterface, OpenSession,
       NewMedium, medium, counters, Line
  <2>2. WholeResult'
    BY <1>4, <2>1
  <2>3. ready' => asked' > 0 /\ output' \in {Response(asked'), <<>>}
    BY <1>1, <2>1
  <2> QED
    BY <1>3, <2>1, <2>2, <2>3
<1>6. CASE \E ok \in BOOLEAN : Write(ok)
  <2>1. /\ at' = "idle" /\ waiting' = NoCalls /\ calls' = <<>> /\ inbound' = <<>> /\ got' = <<>> /\ asked' = asked + 1
        /\ result' = <<>> /\ (ready' => output' = Response(asked + 1))
    BY <1>1, <1>6 DEF Write, WriteLine, WriteTransfer, WriteSession, WriteNothing, Idle
  <2>2. WholeResult'
    BY <2>1 DEF WholeResult
  <2> QED
    BY <1>2, <1>3, <2>1, <2>2
<1>7. CASE Read
  <2>1. /\ at = "idle" /\ waiting' = NoCalls /\ calls' = <<>> /\ inbound' = <<>> /\ got' = <<>>
        /\ asked' = asked /\ output' = output /\ result' = <<>> /\ ready' = FALSE
        /\ at' = IF ready THEN "read" ELSE "drain"
    BY <1>1, <1>7 DEF Read, Asks, Idle
  <2>2. 0 \in 0..(Parts - 1) /\ Beginning(asked, 0) = <<>> /\ Rest(asked, 0) = Response(asked)
    BY <1>2, RestEnds
  <2>3. ready => asked > 0 /\ got' = Beginning(asked', 0) /\ output' \in {Rest(asked', 0), <<>>}
    BY <1>1, <2>1, <2>2
  <2> QED
    BY <1>1, <1>4, <2>1, <2>2, <2>3 DEF SessionInv, NoCalls
<1>8. CASE ReadSession /\ at = "drain"
  <2>1. /\ asked' = asked /\ calls' = <<>> /\ inbound' = <<>> /\ ready' = ready /\ ~ready
        /\ waiting' = NoCalls /\ result' \in {result, <<>>}
        /\ at' = "drain" \/ (at' = "idle" /\ got' = <<>>)
    BY <1>1, <1>2, <1>8 DEF ReadSession, Done, counters
  <2> QED
    BY <1>3, <1>4, <2>1 DEF SessionInv, NoCalls
<1>13. CASE ReadSession /\ at # "drain"
  <2>1. at = "read" /\ output # <<>> /\ output' = Tail(output) /\ asked' = asked /\ calls' = <<>> /\ inbound' = <<>>
        /\ ready' = ready /\ ~ready
    BY <1>1, <1>13 DEF ReadSession, Reading, counters
  <2>2. PICK k \in 0..(Parts - 1) : got = Beginning(asked, k) /\ output = Rest(asked, k)
    BY <1>1, <2>1
  <2>3. /\ Head(output) = Part(asked, k + 1) /\ output' = Rest(asked, k + 1)
        /\ Append(got, Head(output)) = Beginning(asked, k + 1)
        /\ (EndsResponse(Head(output)) <=> k + 1 = Parts) /\ k \in Nat
    <3>1. k \in Nat /\ k < Parts
      BY <1>2
    <3>2. /\ Head(Rest(asked, k)) = Part(asked, k + 1) /\ Tail(Rest(asked, k)) = Rest(asked, k + 1)
          /\ Append(Beginning(asked, k), Part(asked, k + 1)) = Beginning(asked, k + 1)
          /\ IsLast(Part(asked, k + 1)) <=> k + 1 = Parts
      BY <1>2, <3>1, RestNext
    <3> QED
      BY <2>1, <2>2, <3>1, <3>2 DEF EndsResponse
  <2>4. CASE k + 1 = Parts
    <3>1. Append(got, Head(output)) = Response(asked)
      BY <1>2, <2>3, <2>4, RestEnds
    <3>2. at' = "idle" /\ waiting' = NoCalls /\ result' = Response(asked) /\ got' = <<>>
      BY <1>1, <1>2, <1>13, <2>3, <2>4, <3>1 DEF ReadSession, Done
    <3>3. WholeResult'
      BY <1>1, <2>1, <3>2 DEF WholeResult, Response
    <3> QED
      BY <1>3, <2>1, <3>2, <3>3
  <2>5. CASE k + 1 # Parts
    <3>1. at' = "read" /\ waiting' = NoCalls /\ result' = result /\ got' = Beginning(asked, k + 1)
      BY <1>1, <1>13, <2>1, <2>3, <2>5 DEF ReadSession
    <3>2. k + 1 \in 0..(Parts - 1) /\ got' = Beginning(asked', k + 1) /\ output' \in {Rest(asked', k + 1), <<>>}
      BY <1>2, <2>1, <2>3, <2>5, <3>1
    <3> QED
      BY <1>1, <1>4, <2>1, <3>1, <3>2 DEF SessionInv, NoCalls
  <2> QED
    BY <2>4, <2>5
<1>9. CASE GiveUp
  <2>1. at # "idle" /\ at' = "idle" /\ waiting' = NoCalls /\ calls' = <<>> /\ inbound' = <<>> /\ got' = <<>>
        /\ asked' = asked /\ result' = <<>> /\ ready' = ready
    BY <1>1, <1>2, <1>9 DEF GiveUp, Fails, Done, counters
  <2> QED
    BY <1>1, <1>3, <1>4, <2>1
<1>10. CASE \E t \in Threads : Clear(t)
  <2>1. at' = at /\ waiting' = NoCalls /\ calls' = <<>> /\ inbound' = <<>> /\ got' = got /\ asked' = asked
        /\ result' = result /\ ready' = ready /\ output' \in {output, <<>>}
    BY <1>1, <1>10 DEF Clear, ClearLine, ClearLink, ClearSession, ClearInterface, NewMedium, medium
  <2>2. CASE at = "idle"
    <3>1. WholeResult'
      BY <1>4, <2>1
    <3>2. ready' => asked' > 0 /\ output' \in {Response(asked'), <<>>}
      BY <1>1, <2>1
    <3> QED
      BY <1>1, <1>3, <2>1, <2>2, <3>1, <3>2
  <2>3. CASE at = "read"
    <3>1. PICK k \in 0..(Parts - 1) : got = Beginning(asked, k) /\ output \in {Rest(asked, k), <<>>}
      BY <1>1, <2>3
    <3>2. got' = Beginning(asked', k) /\ output' \in {Rest(asked', k), <<>>}
      BY <2>1, <3>1
    <3> QED
      BY <1>1, <1>4, <2>1, <2>3, <3>2 DEF SessionInv, NoCalls
  <2>4. CASE at = "drain"
    BY <1>1, <1>4, <2>1, <2>4 DEF SessionInv, NoCalls
  <2> QED
    BY <1>1, <2>2, <2>3, <2>4
<1>11. CASE UNCHANGED vars
  BY <1>1, <1>11 DEF SessionInv, WholeResult, Response, Beginning, Rest, NoCalls, vars, client, medium, counters
<1>12. ~(WriteToLink \/ LinkAccepts \/ Pump \/ ReadLine \/ ReadLink \/ ReadTransfer \/ WorkerCleared \/ GuiCleared
         \/ ConnectionDrops \/ Instrument)
  BY <1>1, <1>2 DEF WriteToLink, LinkAccepts, Pump, ReadLine, ReadLink, ReadTransfer, WorkerCleared, GuiCleared,
     ConnectionDrops, Instrument, ExecuteCommand, GivePart, GiveNothing, ExecuteClear, Executes
<1> QED
  BY <1>5, <1>6, <1>7, <1>8, <1>9, <1>10, <1>11, <1>12, <1>13 DEF Next, Operate, Proceed

-----------------------------------------------------------------------------
(* Numbered calls.                                                         *)

\* What is under way is numbered.
LEMMA UnderWay ==
  ASSUME TypeInv
  PROVE  /\ calls \in Seq(Calls) /\ inbound \in Seq(Answers)
         /\ \A i \in 1..Len(calls) : calls[i] \in Calls /\ calls[i].id \in Nat
         /\ \A m \in 1..Len(inbound) : inbound[m] \in Answers /\ inbound[m].id \in Nat
<1>1. calls \in Seq(Calls) /\ inbound \in Seq(Answers)
  BY DEF TypeInv
<1>2. \A i \in 1..Len(calls) : calls[i] \in Calls
  BY <1>1
<1>3. \A m \in 1..Len(inbound) : inbound[m] \in Answers
  BY <1>1
<1> QED
  BY <1>1, <1>2, <1>3 DEF Calls, Answers

LEMMA NumberedBefore ==
  ASSUME TypeInv, Unspent, [Next]_vars, Numbered'
  PROVE  Numbered
<1>1. bus' = bus /\ opens' \in {opens, opens + 1}
  BY DEF Next, Operate, Proceed, Instrument, vars, client, medium, counters, Open, Close, Read, WriteToLink,
     Write, Clear, LinkAccepts, Pump, ReadLine, ReadLink, ReadTransfer, ReadSession, WorkerCleared,
     GiveUp, GuiCleared, ConnectionDrops, ExecuteCommand, GivePart, GiveNothing, ExecuteClear
<1>2. opens \in Nat
  BY BoundsAssumption DEF BoundsAssumption, TypeInv
<1>3. ~spent
  BY DEF Numbered, Next, Observe, vars
<1> QED
  BY <1>1, <1>2, <1>3 DEF Numbered, Renumbered, Unspent

LEMMA NumbersLeft ==
  ASSUME TypeInv, Numbered, CallInv
  PROVE  /\ asked \in Nat /\ opens \in Nat /\ sent \in Nat /\ id \in Nat /\ Len(got) \in Nat
         /\ Parts \in Nat /\ Parts > 0 /\ NextId = id + 1
         /\ Newest \in Nat /\ Newest <= id /\ Current.id \in Nat /\ Current \in Calls
         /\ ~Line /\ bus \in {"vxi11", "usb"}
<1>1. /\ asked \in Nat /\ opens \in Nat /\ sent \in Nat /\ id \in Nat /\ Len(got) \in Nat
      /\ Parts \in Nat /\ Parts > 0 /\ MaxId \in Nat
  <2>1. Len(got) \in Nat
    BY DEF TypeInv
  <2> QED
    BY <2>1, PartTypes, PartsAssumption, BoundsAssumption DEF PartsAssumption, BoundsAssumption, TypeInv
<1>2. Current \in Calls /\ Current.id \in Nat
  BY WaitingTypes DEF Current, Calls
<1>3. Newest \in Nat /\ Newest <= id
  BY <1>1, <1>2 DEF CallInv, NumberInv, Newest
<1>4. NextId = id + 1
  BY <1>1 DEF Numbered, NextId
<1>5. ~Line /\ bus \in {"vxi11", "usb"}
  BY DEF Numbered, Line
<1> QED
  BY <1>1, <1>2, <1>3, <1>4, <1>5

\* Nothing came in but what was on its way, and debris.
Dropped ==
  \A m \in 1..Len(inbound') :
    inbound'[m] = Debris \/ \E n \in 1..Len(inbound) : inbound'[m] = inbound[n]

LEMMA TransferOf ==
  /\ ~Transfer(Debris) /\ Debris.what = "debris"
  /\ \A number, what, q, left : /\ Call(number, what, q, left).id = number
                                /\ Call(number, what, q, left).what = what
                                /\ Call(number, what, q, left).q = q
                                /\ Call(number, what, q, left).left = left
  /\ \A number, what : /\ Request(number, what).id = number /\ Request(number, what).what = what
  /\ \A call, data : /\ Answer(call, data).id = call.id /\ Answer(call, data).what = call.what
                     /\ Answer(call, data).data = data
                     /\ Transfer(Answer(call, data)) <=> Transfer(call)
  /\ NoCall.what = "none" /\ ~Transfer(NoCall)
  BY DEF Transfer, Debris, Call, Request, Answer, NoCall

\* A call that is sent with a new number is the last on its way.
LEMMA SentPending ==
  ASSUME TypeInv, NumberInv, NEW call \in Calls, call.id > Newest, Newest \in Nat,
         calls' = Append(calls, call), Current' = call, Dropped
  PROVE  /\ Pending' /\ Len(calls') = Len(calls) + 1 /\ Len(calls) \in Nat
         /\ calls'[Len(calls')] = call /\ \A i \in 1..Len(calls) : calls'[i] = calls[i]
         /\ AllExecuted => \A i \in 1..Len(calls') : Transfer(calls'[i]) => calls'[i] = call
<1>1. /\ calls \in Seq(Calls) /\ inbound \in Seq(Answers) /\ call.id \in Nat
  BY DEF TypeInv, Calls
<1>2. /\ Len(calls') = Len(calls) + 1 /\ Len(calls) \in Nat /\ calls'[Len(calls) + 1] = call
      /\ \A i \in 1..Len(calls) : calls'[i] = calls[i] /\ i \in 1..Len(calls')
      /\ \A i \in 1..Len(calls') : i \in 1..Len(calls) \/ i = Len(calls) + 1
  BY <1>1, AppendOf
<1>3. \A m \in 1..Len(inbound') : Transfer(inbound'[m]) => inbound'[m].id < Current'.id
  <2> SUFFICES ASSUME NEW m \in 1..Len(inbound'), Transfer(inbound'[m])
               PROVE  inbound'[m].id < call.id
    OBVIOUS
  <2>1. PICK n \in 1..Len(inbound) : inbound'[m] = inbound[n]
    BY TransferOf DEF Dropped
  <2>2. inbound[n].id <= Newest
    BY <2>1 DEF NumberInv
  <2>3. inbound[n].id \in Nat
    BY UnderWay
  <2> QED
    BY <1>1, <2>1, <2>2, <2>3
<1>4. \A j \in 1..Len(calls') : j < Len(calls) + 1 /\ Transfer(calls'[j]) => calls'[j].id < Current'.id
  <2> SUFFICES ASSUME NEW j \in 1..Len(calls'), j < Len(calls) + 1, Transfer(calls'[j])
               PROVE  calls'[j].id < call.id
    OBVIOUS
  <2>1. j \in 1..Len(calls) /\ calls'[j] = calls[j]
    BY <1>2
  <2>2. calls[j].id <= Newest
    BY <2>1 DEF NumberInv
  <2>3. calls[j].id \in Nat
    BY <2>1, UnderWay
  <2> QED
    BY <1>1, <2>1, <2>2, <2>3
<1>5. Len(calls) + 1 \in 1..Len(calls') /\ \A j \in 1..Len(calls') : ~(j > Len(calls) + 1)
  BY <1>2
<1>6. Pending'
  BY <1>2, <1>3, <1>4, <1>5 DEF Pending
<1>7. AllExecuted => \A i \in 1..Len(calls') : Transfer(calls'[i]) => calls'[i] = call
  BY <1>2 DEF AllExecuted
<1> QED
  BY <1>2, <1>6, <1>7

\* A call that is waited for by nobody's transfer changes nothing about those that are.
LEMMA ClearPending ==
  ASSUME TypeInv, NEW call \in Calls, ~Transfer(call), calls' = Append(calls, call),
         Current' = Current, inbound' = inbound
  PROVE  /\ Pending => Pending'
         /\ AllExecuted => AllExecuted'
         /\ \A i \in 1..Len(calls') : Transfer(calls'[i]) => i \in 1..Len(calls) /\ calls'[i] = calls[i]
<1>1. /\ Len(calls') = Len(calls) + 1 /\ Len(calls) \in Nat /\ calls'[Len(calls) + 1] = call
      /\ \A i \in 1..Len(calls) : calls'[i] = calls[i] /\ i \in 1..Len(calls')
      /\ \A i \in 1..Len(calls') : i \in 1..Len(calls) \/ i = Len(calls) + 1
  BY AppendOf DEF TypeInv
<1>2. \A i \in 1..Len(calls') : Transfer(calls'[i]) => i \in 1..Len(calls) /\ calls'[i] = calls[i]
  BY <1>1
<1>3. Pending => Pending'
  BY <1>1, <1>2 DEF Pending
<1>4. AllExecuted => AllExecuted'
  BY <1>2 DEF AllExecuted
<1> QED
  BY <1>2, <1>3, <1>4

\* Nor does what is dropped.
LEMMA DroppedPending ==
  ASSUME calls' = calls, Current' = Current, Dropped
  PROVE  /\ Pending => Pending'
         /\ AllExecuted => AllExecuted'
<1>1. \A m \in 1..Len(inbound') : Transfer(inbound'[m]) =>
        \E n \in 1..Len(inbound) : inbound'[m] = inbound[n]
  BY TransferOf DEF Dropped
<1>2. Pending => Pending'
  BY <1>1 DEF Pending
<1> QED
  BY <1>2 DEF AllExecuted

\* An operation returns, the connection is closed, or both.
LEMMA Returned ==
  ASSUME TypeInv, Numbered, CallInv, isOpen, at' = "idle", Current' = NoCall, calls' = calls, output' = output,
         Dropped, bus' = bus, opens' = opens, asked' = asked, id' \in Nat, id <= id',
         (isOpen' = isOpen /\ got' = <<>>) \/ isOpen' = FALSE,
         ready' \in BOOLEAN, ready' => asked > 0 /\ (Ordered \/ Ready), WholeResult'
  PROVE  CallInv'
<1>1. asked \in Nat /\ opens \in Nat /\ id \in Nat /\ Newest \in Nat /\ Newest <= id
  BY NumbersLeft
<1>2. NumberInv /\ WriteInv /\ ReadInv
  BY DEF CallInv
<1>3. NumberInv'
  <2>1. opens' # 0
    BY <1>2 DEF NumberInv
  <2>2. Newest' = id' /\ id' \in Nat /\ Newest <= id'
    <3>1. Newest' = id'
      BY DEF Newest
    <3> QED
      BY <1>1, <3>1
  <2>3. \A i \in 1..Len(calls') : Transfer(calls'[i]) => calls'[i].id <= Newest'
    <3> SUFFICES ASSUME NEW i \in 1..Len(calls), Transfer(calls[i])
                 PROVE  calls[i].id <= Newest'
      OBVIOUS
    <3>1. calls[i].id <= Newest
      BY <1>2 DEF NumberInv
    <3>2. calls[i].id \in Nat
      BY UnderWay
    <3> QED
      BY <1>1, <2>2, <3>1, <3>2
  <2>4. \A m \in 1..Len(inbound') : Transfer(inbound'[m]) => inbound'[m].id <= Newest'
    <3> SUFFICES ASSUME NEW m \in 1..Len(inbound'), Transfer(inbound'[m])
                 PROVE  inbound'[m].id <= Newest'
      OBVIOUS
    <3>1. PICK n \in 1..Len(inbound) : inbound'[m] = inbound[n]
      BY TransferOf DEF Dropped
    <3>2. inbound[n].id <= Newest
      BY <1>2, <3>1 DEF NumberInv
    <3>3. inbound[n].id \in Nat
      BY UnderWay
    <3> QED
      BY <1>1, <2>2, <3>1, <3>2, <3>3
  <2>5. bus = "usb" => \A i \in 1..Len(calls') : Transfer(calls'[i])
    BY <1>2 DEF NumberInv
  <2> QED
    BY <2>1, <2>3, <2>4, <2>5 DEF NumberInv
<1>4. WriteInv'
  <2>1. ready' => asked' > 0 /\ (Ordered' \/ Ready')
    BY DEF Ordered, Ready, AllExecuted, IsCommand, Response
  <2> QED
    BY <2>1 DEF WriteInv
<1>5. ReadInv'
  BY DEF ReadInv
<1> QED
  BY <1>3, <1>4, <1>5 DEF CallInv

\* The acquisition thread makes the next call.
LEMMA Sends ==
  ASSUME TypeInv, Numbered, CallInv, isOpen, isOpen' = isOpen, bus' = bus, opens' = opens,
         NEW call \in Calls, call.id = NextId, call.what \in {"read", "write"},
         at' = call.what \/ (at' = "drain" /\ call.what = "read"),
         Send("worker", call), Dropped, bus = "usb" => call.what = "read", call.what = "write" => got' = <<>>
  PROVE  /\ NumberInv' /\ Pending' /\ Current' = call
         /\ Len(calls') = Len(calls) + 1 /\ Len(calls) \in Nat
         /\ calls'[Len(calls')] = call /\ \A i \in 1..Len(calls) : calls'[i] = calls[i]
         /\ AllExecuted => \A i \in 1..Len(calls') : Transfer(calls'[i]) => calls'[i] = call
<1>1. /\ asked \in Nat /\ opens \in Nat /\ id \in Nat /\ Newest \in Nat /\ Newest <= id /\ NextId = id + 1
  BY NumbersLeft
<1>2. NumberInv
  BY DEF CallInv
<1>3. /\ id' = id + 1 /\ Current' = call /\ calls' = Append(calls, call) /\ call.id = id + 1 /\ Transfer(call)
  BY <1>1, WaitingTypes DEF Send, Current, Threads, Transfer
<1>4. /\ Pending' /\ Len(calls') = Len(calls) + 1 /\ Len(calls) \in Nat
      /\ calls'[Len(calls')] = call /\ \A i \in 1..Len(calls) : calls'[i] = calls[i]
      /\ AllExecuted => \A i \in 1..Len(calls') : Transfer(calls'[i]) => calls'[i] = call
  BY <1>1, <1>2, <1>3, SentPending
<1>5. NumberInv'
  <2>1. opens' # 0
    BY <1>2 DEF NumberInv
  <2>2. Newest' = id + 1 /\ at' # "idle" /\ Current'.id <= id'
        /\ Current'.what = IF at' = "drain" THEN "read" ELSE at'
    BY <1>1, <1>3 DEF Newest
  <2>3. \A i \in 1..Len(calls') : i \in 1..Len(calls) \/ calls'[i] = call
    BY <1>4
  <2>4. \A i \in 1..Len(calls') : Transfer(calls'[i]) => calls'[i].id <= Newest'
    <3> SUFFICES ASSUME NEW i \in 1..Len(calls'), Transfer(calls'[i])
                 PROVE  calls'[i].id <= id + 1
      BY <2>2
    <3>1. CASE calls'[i] = call
      BY <1>1, <1>3, <3>1
    <3>2. CASE i \in 1..Len(calls)
      <4>1. calls'[i] = calls[i]
        BY <1>4, <3>2
      <4>2. calls[i].id <= Newest
        BY <1>2, <3>2, <4>1 DEF NumberInv
      <4>3. calls[i].id \in Nat
        BY <3>2, UnderWay
      <4>4. calls[i].id <= id + 1
        BY <1>1, <4>2, <4>3
      <4> QED
        BY <4>1, <4>4
    <3> QED
      BY <2>3, <3>1, <3>2
  <2>5. \A m \in 1..Len(inbound') : Transfer(inbound'[m]) => inbound'[m].id <= Newest'
    <3> SUFFICES ASSUME NEW m \in 1..Len(inbound'), Transfer(inbound'[m])
                 PROVE  inbound'[m].id <= id + 1
      BY <2>2
    <3>1. PICK n \in 1..Len(inbound) : inbound'[m] = inbound[n]
      BY TransferOf DEF Dropped
    <3>2. inbound[n].id <= Newest
      BY <1>2, <3>1 DEF NumberInv
    <3>3. inbound[n].id \in Nat
      BY UnderWay
    <3> QED
      BY <1>1, <3>1, <3>2, <3>3
  <2>6. bus = "usb" => \A i \in 1..Len(calls') : Transfer(calls'[i])
    <3> SUFFICES ASSUME bus = "usb", NEW i \in 1..Len(calls')
                 PROVE  Transfer(calls'[i])
      OBVIOUS
    <3>1. CASE calls'[i] = call
      BY <1>3, <3>1
    <3>2. CASE i \in 1..Len(calls)
      BY <1>2, <1>4, <3>2 DEF NumberInv
    <3> QED
      BY <2>3, <3>1, <3>2
  <2> QED
    BY <2>1, <2>2, <2>4, <2>5, <2>6 DEF NumberInv
<1> QED
  BY <1>3, <1>4, <1>5

LEMMA ConsumedDropped ==
  ASSUME TypeInv
  PROVE  /\ inbound # <<>> /\ Consumed => Dropped /\ Head(inbound) = inbound[1] /\ 1 \in 1..Len(inbound)
         /\ inbound' = inbound => Dropped
         /\ inbound # <<>> /\ inbound' = <<Debris>> \o Tail(inbound) => Dropped
<1>0. inbound \in Seq(Answers)
  BY DEF TypeInv
<1>1. inbound # <<>> /\ Consumed => Dropped /\ Head(inbound) = inbound[1] /\ 1 \in 1..Len(inbound)
  BY <1>0, ConsumedIs, TailOf DEF Dropped
<1>2. inbound' = inbound => Dropped
  BY DEF Dropped
<1>3. ASSUME inbound # <<>>, inbound' = <<Debris>> \o Tail(inbound)
      PROVE  Dropped
  <2> DEFINE t == Tail(inbound)
  <2>1. t \in Seq(Answers) /\ \A i \in 1..Len(t) : t[i] = inbound[i + 1] /\ i + 1 \in 1..Len(inbound)
    BY <1>0, <1>3, TailOf
  <2> HIDE DEF t
  <2>2. Len(<<Debris>> \o t) = 1 + Len(t)
        /\ (<<Debris>> \o t)[1] = Debris /\ \A i \in 2..(1 + Len(t)) : (<<Debris>> \o t)[i] = t[i - 1]
    BY <2>1, PartTypes
  <2>3. \A i \in 2..(1 + Len(t)) : i - 1 \in 1..Len(t) /\ i \in 1..Len(inbound) /\ t[i - 1] = inbound[i]
    BY <2>1
  <2>4. \A i \in 1..(1 + Len(t)) : i = 1 \/ i \in 2..(1 + Len(t))
    BY <2>1
  <2> QED
    BY <1>3, <2>2, <2>3, <2>4 DEF t, Dropped
<1> QED
  BY <1>1, <1>2, <1>3

LEMMA CallReturned ==
  ASSUME TypeInv, Numbered, CallInv, GiveUp \/ WorkerCleared \/ Close \/ ConnectionDrops
  PROVE  CallInv'
<1>0. NumberInv /\ WriteInv /\ WholeResult /\ ~Line /\ bus \in {"vxi11", "usb"} /\ id \in Nat /\ NextId = id + 1
  BY NumbersLeft DEF CallInv, ReadInv
<1>1. isOpen
  BY <1>0 DEF GiveUp, WorkerCleared, Close, ConnectionDrops, NumberInv
<1>2. /\ at' = "idle" /\ calls' = calls /\ output' = output /\ bus' = bus /\ opens' = opens /\ asked' = asked
      /\ ready' = ready /\ result' \in {result, <<>>}
  BY DEF GiveUp, WorkerCleared, Close, ConnectionDrops, Idle, Fails, Done, counters, medium
<1>3. Current' = NoCall
  <2>1. [waiting EXCEPT !["worker"] = NoCall]["worker"] = NoCall
    BY WaitingTypes, PartTypes DEF Threads
  <2>2. [t \in Threads |-> NoCall]["worker"] = NoCall
    BY DEF Threads
  <2> QED
    BY <2>1, <2>2 DEF GiveUp, WorkerCleared, Close, ConnectionDrops, Idle, Fails, Done, Current
<1>4. Dropped
  BY ConsumedDropped DEF GiveUp, WorkerCleared, Close, ConnectionDrops, medium
<1>5. id' \in {id, NextId} /\ ((isOpen' = isOpen /\ got' = <<>>) \/ isOpen' = FALSE)
  BY <1>0 DEF GiveUp, WorkerCleared, Close, ConnectionDrops, Fails, Done
<1>6. id' \in Nat /\ id <= id' /\ ready' \in BOOLEAN /\ (ready' => asked > 0 /\ (Ordered \/ Ready))
  BY <1>0, <1>2, <1>5 DEF TypeInv, WriteInv
<1>7. WholeResult'
  BY <1>0, <1>2 DEF WholeResult, Response
<1> QED
  BY <1>1, <1>2, <1>3, <1>4, <1>5, <1>6, <1>7, Returned

\* A link accepts a part of the command, the rest of it, or fails.
LEMMA CallAccepted ==
  ASSUME TypeInv, TypeInv', Numbered, CallInv, LinkAccepts
  PROVE  CallInv'
<1> DEFINE a == Head(inbound)
           accepted == Accepted(a.data.part)
<1>0. /\ NumberInv /\ WriteInv /\ WholeResult /\ at = "write" /\ isOpen /\ ready \in BOOLEAN /\ ~Line
      /\ asked \in Nat /\ sent \in Nat /\ id \in Nat /\ Parts \in Nat /\ Current.id \in Nat /\ bus = "vxi11"
  BY NumbersLeft DEF CallInv, ReadInv, LinkAccepts, NumberInv, TypeInv
<1>1. /\ bus' = bus /\ isOpen' = isOpen /\ output' = output /\ opens' = opens /\ asked' = asked
      /\ inbound # <<>> /\ Dropped
  BY ConsumedDropped DEF LinkAccepts, counters
<1>2. /\ asked > 0 /\ sent < Parts /\ Current.q = asked /\ Current.left = Parts - sent /\ (Pending \/ Ready)
      /\ ~ready /\ got = <<>>
  BY <1>0 DEF WriteInv, NumberInv
<1>3. [waiting EXCEPT !["worker"] = NoCall]["worker"] = NoCall
  BY WaitingTypes, PartTypes DEF Threads
<1>4. WholeResult' \/ result' \notin {result, <<>>}
  BY <1>0, <1>1 DEF WholeResult, Response
<1>5. CASE ~IsAnswer("worker", a) \/ a.data = NoPart
  <2>1. /\ at' = "idle" /\ waiting' = [waiting EXCEPT !["worker"] = NoCall] /\ result' = <<>> /\ got' = <<>>
        /\ id' = id /\ ready' = ready /\ calls' = calls
    BY <1>0, <1>2, <1>5 DEF LinkAccepts, Fails, Done
  <2>2. Current' = NoCall
    BY <1>3, <2>1 DEF Current
  <2>3. WholeResult' /\ id' \in Nat /\ id <= id' /\ ready' \in BOOLEAN /\ ~ready'
    BY <1>0, <1>2, <1>4, <2>1
  <2> QED
    BY <1>0, <1>1, <2>1, <2>2, <2>3, Returned
<1>6. CASE ~(~IsAnswer("worker", a) \/ a.data = NoPart)
  <2>1. Ready
    <3>1. a = inbound[1] /\ 1 \in 1..Len(inbound)
      BY <1>1, TailOf DEF TypeInv
    <3>2. Transfer(a) /\ a.id = Current.id
      BY <1>0, <1>6 DEF IsAnswer, Current, NumberInv, Transfer
    <3>3. ~Pending
      BY <1>0, <3>1, <3>2 DEF Pending
    <3> QED
      BY <1>2, <3>3
  <2>2. sent' = accepted /\ sent' \in Nat /\ got' = got /\ result' = result
    BY <1>6 DEF LinkAccepts, TypeInv
  <2>3. accepted >= sent + 1
    <3>1. a.data.part \in Nat
      <4>1. a = inbound[1] /\ 1 \in 1..Len(inbound)
        BY <1>1, TailOf DEF TypeInv
      <4>2. a.data \in {Part(0, k) : k \in -1..Parts}
        BY <1>0, <1>6, <4>1 DEF TypeInv, IsAnswer, Current
      <4>3. PICK k \in -1..Parts : a.data = Part(0, k)
        BY <4>2
      <4>4. k # -1
        BY <1>6, <4>3 DEF NoPart
      <4> QED
        BY <1>0, <4>3, <4>4 DEF Part
    <3> QED
      BY <1>0, <3>1 DEF Accepted
  <2>4. IF accepted >= Parts
        THEN at' = "idle" /\ waiting' = [waiting EXCEPT !["worker"] = NoCall] /\ ready' = TRUE
             /\ id' = id /\ calls' = calls
        ELSE Send("worker", Call(NextId, "write", asked, Parts - accepted)) /\ at' = at /\ ready' = ready
    BY <1>6 DEF LinkAccepts
  <2> HIDE DEF accepted, a
  <2>5. CASE accepted >= Parts
    <3>1. Current' = NoCall
      BY <1>3, <2>4, <2>5 DEF Current
    <3>2. WholeResult' /\ id' \in Nat /\ id <= id' /\ ready' \in BOOLEAN
      BY <1>0, <1>4, <2>2, <2>4, <2>5
    <3> QED
      BY <1>0, <1>1, <1>2, <2>1, <2>2, <2>4, <2>5, <3>1, <3>2, Returned
  <2>6. CASE ~(accepted >= Parts)
    <3> DEFINE call == Call(NextId, "write", asked, Parts - accepted)
    <3>1. /\ call.id = NextId /\ call.what = "write" /\ call.q = asked /\ call.left = Parts - accepted
          /\ Parts - accepted \in 0..Parts
      BY <1>0, <2>2, <2>3, <2>6, TransferOf
    <3>2. call \in Calls
      BY <3>1, CallTypes, NumbersLeft
    <3>3. Send("worker", call) /\ at' = at /\ ready' = ready
      BY <2>4, <2>6
    <3> HIDE DEF call
    <3>4. NumberInv' /\ Pending' /\ Current' = call
      BY <1>0, <1>1, <1>2, <2>2, <3>1, <3>2, <3>3, Sends
    <3>5. WriteInv'
      BY <1>0, <1>1, <1>2, <2>2, <2>6, <3>1, <3>3, <3>4 DEF WriteInv
    <3>6. ReadInv'
      BY <1>0, <1>4, <2>2, <3>3 DEF ReadInv
    <3> QED
      BY <3>4, <3>5, <3>6 DEF CallInv
  <2> QED
    BY <2>5, <2>6
<1> QED
  BY <1>5, <1>6

\* A query is written, or its response requested.
LEMMA CallStarted ==
  ASSUME TypeInv, TypeInv', Numbered, CallInv, WriteToLink \/ Read
  PROVE  CallInv'
<1>0. /\ NumberInv /\ WriteInv /\ WholeResult /\ isOpen /\ ~Line /\ bus \in {"vxi11", "usb"} /\ at = "idle"
      /\ asked \in Nat /\ id \in Nat /\ Parts \in Nat /\ Parts > 0 /\ NextId = id + 1 /\ got = <<>>
  BY NumbersLeft DEF CallInv, ReadInv, WriteToLink, Read, Idle, NumberInv
<1>1. bus' = bus /\ isOpen' = isOpen /\ output' = output /\ opens' = opens /\ got' = <<>>
      /\ result' = <<>> /\ ready' = FALSE /\ inbound' = inbound /\ Dropped
  BY <1>0, ConsumedDropped DEF WriteToLink, Read
<1>2. WholeResult'
  BY <1>1 DEF WholeResult
<1>3. CASE WriteToLink
  <2> DEFINE call == Command(NextId)
  <2>1. call \in Calls /\ call.id = NextId /\ call.what = "write" /\ call.q = asked + 1 /\ call.left = Parts
    BY CallTypes, TransferOf DEF Command
  <2>2. at' = "write" /\ sent' = 0 /\ asked' = asked + 1 /\ Send("worker", call) /\ bus = "vxi11"
    BY <1>3 DEF WriteToLink
  <2> HIDE DEF call
  <2>3. NumberInv' /\ Pending' /\ Current' = call
    BY <1>0, <1>1, <2>1, <2>2, Sends
  <2>4. WriteInv'
    BY <1>0, <1>1, <2>1, <2>2, <2>3 DEF WriteInv
  <2>5. ReadInv'
    BY <1>2, <2>2 DEF ReadInv
  <2> QED
    BY <2>3, <2>4, <2>5 DEF CallInv
<1>4. CASE Read
  <2> DEFINE call == Request(NextId, "read")
  <2>1. call \in Calls /\ call.id = NextId /\ call.what = "read"
    BY <1>0, CallTypes, TransferOf DEF Kinds
  <2>2. at' = (IF ready THEN "read" ELSE "drain") /\ asked' = asked /\ Send("worker", call)
    BY <1>0, <1>4 DEF Read, Asks
  <2> HIDE DEF call
  <2>3. at' \in {"read", "drain"}
    BY <2>2
  <2>4. WriteInv'
    BY <1>1, <2>3 DEF WriteInv
  <2>5. /\ NumberInv' /\ Pending' /\ Current' = call
        /\ Len(calls') = Len(calls) + 1 /\ Len(calls) \in Nat
        /\ calls'[Len(calls')] = call /\ \A i \in 1..Len(calls) : calls'[i] = calls[i]
        /\ AllExecuted => \A i \in 1..Len(calls') : Transfer(calls'[i]) => calls'[i] = call
    BY <1>0, <1>1, <2>1, <2>2, <2>3, Sends
  <2>6. CASE ~ready
    <3>1. ReadInv'
      BY <1>2, <2>2, <2>6 DEF ReadInv
    <3> QED
      BY <2>4, <2>5, <3>1 DEF CallInv
  <2>7. ready => asked > 0 /\ (Ordered \/ Ready)
    BY <1>0 DEF WriteInv
  <2>8. ASSUME Ordered
        PROVE  Commanded'
    <3>1. Len(calls) \in 1..Len(calls)
      <4>1. calls # <<>> /\ calls \in Seq(Calls)
        BY <2>8 DEF Ordered, TypeInv
      <4> QED
        BY <4>1
    <3>2. Len(calls') >= 2 /\ Len(calls') - 1 = Len(calls)
      BY <2>5, <3>1
    <3>3. calls'[Len(calls') - 1].what = "write" /\ calls'[Len(calls') - 1].q = asked'
      BY <2>2, <2>5, <2>8, <3>1, <3>2 DEF Ordered, IsCommand
    <3> QED
      BY <1>1, <2>5, <2>8, <3>2, <3>3 DEF Ordered, Commanded, IsCommand
  <2>9. ASSUME Ready
        PROVE  Requested'
    <3>1. output' \in {Rest(asked', 0), <<>>}
      BY <1>0, <1>1, <2>2, <2>9, RestEnds DEF Ready
    <3>2. Len(got') = 0
      BY <1>1
    <3>3. \A i \in 1..Len(calls') : Transfer(calls'[i]) => calls'[i] = Current'
      BY <2>5, <2>9 DEF Ready
    <3> QED
      BY <2>5, <3>1, <3>2, <3>3 DEF Requested
  <2>10. Len(got') < Parts /\ got' = Beginning(asked', Len(got'))
    <3>1. Len(got') = 0 /\ Beginning(asked, 0) = <<>>
      BY <1>0, <1>1, RestEnds
    <3> QED
      BY <1>0, <1>1, <2>2, <3>1
  <2>11. CASE ready
    <3>1. Commanded' \/ Requested'
      BY <2>7, <2>8, <2>9, <2>11
    <3>2. ReadInv'
      BY <1>2, <2>2, <2>7, <2>10, <2>11, <3>1 DEF ReadInv
    <3> QED
      BY <2>4, <2>5, <3>2 DEF CallInv
  <2> QED
    BY <2>6, <2>11
<1> QED
  BY <1>3, <1>4

\* A command is handed to the USB device.
LEMMA CallHanded ==
  ASSUME TypeInv, TypeInv', Numbered, CallInv, NEW ok \in BOOLEAN, Write(ok)
  PROVE  CallInv'
<1> DEFINE call == Command(NextId)
<1>0. /\ NumberInv /\ isOpen /\ ~Line /\ bus \in {"vxi11", "usb"} /\ at = "idle"
      /\ asked \in Nat /\ id \in Nat /\ Newest \in Nat /\ Newest <= id /\ NextId = id + 1 /\ got = <<>>
  BY NumbersLeft DEF CallInv, Write, Idle, NumberInv
<1>1. /\ bus' = bus /\ isOpen' = isOpen /\ opens' = opens /\ got' = <<>> /\ at' = "idle"
      /\ result' = <<>> /\ ready' = ok /\ inbound' = inbound /\ asked' = asked + 1 /\ waiting' = waiting
      /\ bus = "usb" /\ id' = id + 1 /\ (calls' = Append(calls, call) \/ (calls' = calls /\ ok = FALSE))
  BY <1>0 DEF Write, WriteLine, WriteTransfer, WriteSession, WriteNothing
<1>2. call \in Calls /\ call.id = id + 1 /\ call.what = "write" /\ call.q = asked + 1 /\ Transfer(call)
  BY <1>0, CallTypes, TransferOf DEF Command, Transfer
<1> HIDE DEF call
<1>3. \A i \in 1..Len(calls') : (i \in 1..Len(calls) /\ calls'[i] = calls[i]) \/ calls'[i] = call
  <2>1. CASE calls' = calls
    BY <2>1
  <2>2. CASE calls' = Append(calls, call)
    <3>1. calls \in Seq(Calls)
      BY DEF TypeInv
    <3>2. /\ calls'[Len(calls) + 1] = call /\ \A i \in 1..Len(calls) : calls'[i] = calls[i]
          /\ \A i \in 1..Len(calls') : i \in 1..Len(calls) \/ i = Len(calls) + 1
      BY <1>2, <2>2, <3>1, AppendOf
    <3> QED
      BY <3>2
  <2> QED
    BY <1>1, <2>1, <2>2
<1>4. NumberInv'
  <2>1. opens' # 0 /\ Newest' = id + 1 /\ Current' = Current
    BY <1>0, <1>1 DEF NumberInv, Newest, Current
  <2>2. \A i \in 1..Len(calls') : Transfer(calls'[i]) /\ calls'[i].id <= Newest'
    <3> SUFFICES ASSUME NEW i \in 1..Len(calls')
                 PROVE  Transfer(calls'[i]) /\ calls'[i].id <= id + 1
      BY <2>1
    <3>1. CASE calls'[i] = call
      BY <1>0, <1>2, <3>1
    <3>2. CASE i \in 1..Len(calls) /\ calls'[i] = calls[i]
      <4>1. Transfer(calls[i]) /\ calls[i].id <= Newest
        BY <1>0, <1>1, <3>2 DEF NumberInv
      <4>2. calls[i].id \in Nat
        BY <3>2, UnderWay
      <4>3. calls[i].id <= id + 1
        BY <1>0, <4>1, <4>2
      <4> QED
        BY <3>2, <4>1, <4>3
    <3> QED
      BY <1>3, <3>1, <3>2
  <2>3. \A m \in 1..Len(inbound') : Transfer(inbound'[m]) => inbound'[m].id <= Newest'
    <3> SUFFICES ASSUME NEW m \in 1..Len(inbound), Transfer(inbound[m])
                 PROVE  inbound[m].id <= id + 1
      BY <1>1, <2>1
    <3>1. inbound[m].id <= Newest
      BY <1>0 DEF NumberInv
    <3>2. inbound[m] \in Answers
      <4>1. inbound \in Seq(Answers)
        BY DEF TypeInv
      <4> QED
        BY <4>1
    <3>3. inbound[m].id \in Nat
      BY <3>2 DEF Answers
    <3> QED
      BY <1>0, <3>1, <3>3
  <2> QED
    BY <1>0, <1>1, <2>1, <2>2, <2>3 DEF NumberInv
<1>5. WriteInv'
  <2>1. ready' => Ordered'
    <3> SUFFICES ASSUME ok
                 PROVE  Ordered'
      BY <1>1
    <3>1. calls' = Append(calls, call) /\ calls \in Seq(Calls)
      BY <1>1 DEF TypeInv
    <3>2. Len(calls') = Len(calls) + 1 /\ Len(calls) \in Nat /\ calls'[Len(calls) + 1] = call
      BY <1>2, <3>1, AppendOf
    <3>3. calls' # <<>>
      BY <3>2
    <3> QED
      BY <1>1, <1>2, <3>2, <3>3 DEF Ordered, IsCommand
  <2> QED
    BY <1>0, <1>1, <2>1 DEF WriteInv
<1>6. ReadInv'
  BY <1>1 DEF ReadInv, WholeResult
<1> QED
  BY <1>4, <1>5, <1>6 DEF CallInv

\* The answer to a read is a part of the response, the last one or not, or none.
LEMMA CallGiven ==
  ASSUME TypeInv, TypeInv', Numbered, CallInv, ReadLink \/ ReadTransfer
  PROVE  CallInv'
<1> DEFINE a == Head(inbound)
           k == Len(got)
           more == Append(got, a.data)
           isPart == IsAnswer("worker", a) /\ a.data # NoPart
           call == Request(NextId, "read")
<1>0. /\ NumberInv /\ WriteInv /\ ReadInv /\ WholeResult /\ at \in {"read", "drain"} /\ isOpen /\ ~Line
      /\ asked \in Nat /\ id \in Nat /\ Parts \in Nat /\ Parts > 0 /\ Current.id \in Nat /\ k \in Nat
      /\ NextId = id + 1 /\ ~ready
  BY NumbersLeft DEF CallInv, ReadInv, WriteInv, ReadLink, ReadTransfer, Reading, NumberInv, TypeInv
<1>1. /\ bus' = bus /\ isOpen' = isOpen /\ output' = output /\ opens' = opens /\ asked' = asked
      /\ ready' = ready /\ inbound # <<>> /\ Dropped /\ a = inbound[1] /\ 1 \in 1..Len(inbound) /\ PartAnswered
  BY ConsumedDropped DEF ReadLink, ReadTransfer, PartAnswered, counters
<1>2. call \in Calls /\ call.id = NextId /\ call.what = "read"
  BY <1>0, CallTypes, TransferOf DEF Kinds
<1>3. [waiting EXCEPT !["worker"] = NoCall]["worker"] = NoCall
  BY WaitingTypes, PartTypes DEF Threads
<1>4. ASSUME result' \in {result, <<>>}
      PROVE  WholeResult'
  BY <1>0, <1>1, <1>4 DEF WholeResult, Response
<1>5. ASSUME NEW parts, Done(parts), id' = id, calls' = calls, WholeResult'
      PROVE  CallInv'
  <2>1. at' = "idle" /\ got' = <<>> /\ Current' = NoCall
    BY <1>0, <1>3, <1>5 DEF Done, Current
  <2>2. id' \in Nat /\ id <= id' /\ ready' \in BOOLEAN /\ ~ready'
    BY <1>0, <1>1, <1>5 DEF TypeInv
  <2> QED
    BY <1>0, <1>1, <1>5, <2>1, <2>2, Returned
<1>6. \/ Done(<<>>) /\ id' = id /\ calls' = calls
      \/ isPart /\ EndsResponse(a.data) /\ Done(more) /\ id' = id /\ calls' = calls
      \/ isPart /\ ~EndsResponse(a.data) /\ got' = more /\ Send("worker", call) /\ at' = at /\ result' = result
  BY <1>1 DEF PartAnswered, Fails
<1> HIDE DEF call, more, isPart
<1>7. CASE Done(<<>>) /\ id' = id /\ calls' = calls
  <2>1. WholeResult'
    BY <1>4, <1>7 DEF Done
  <2> QED
    BY <1>5, <1>7, <2>1
<1>8. ASSUME got' = more, Send("worker", call), at' = at, result' = result
      PROVE  /\ NumberInv' /\ Pending' /\ Current' = call /\ WriteInv' /\ WholeResult'
             /\ AllExecuted => \A i \in 1..Len(calls') : Transfer(calls'[i]) => calls'[i] = call
  <2>1. /\ NumberInv' /\ Pending' /\ Current' = call
        /\ AllExecuted => \A i \in 1..Len(calls') : Transfer(calls'[i]) => calls'[i] = call
    BY <1>0, <1>1, <1>2, <1>8, Sends
  <2>2. WriteInv'
    BY <1>0, <1>1, <1>8 DEF WriteInv
  <2> QED
    BY <1>4, <1>8, <2>1, <2>2
<1>9. CASE at = "drain"
  <2>1. CASE Done(more) /\ id' = id /\ calls' = calls
    <3>1. WholeResult'
      BY <1>4, <1>9, <2>1 DEF Done
    <3> QED
      BY <1>5, <2>1, <3>1
  <2>2. CASE got' = more /\ Send("worker", call) /\ at' = at /\ result' = result
    <3>1. NumberInv' /\ WriteInv' /\ WholeResult'
      BY <1>8, <2>2
    <3>2. ReadInv'
      BY <1>9, <2>2, <3>1 DEF ReadInv
    <3> QED
      BY <3>1, <3>2 DEF CallInv
  <2> QED
    BY <1>6, <1>7, <2>1, <2>2
<1>10. CASE at = "read" /\ isPart
  <2>0. asked > 0 /\ k < Parts /\ got = Beginning(asked, k) /\ (Commanded \/ Requested \/ Given)
    BY <1>0, <1>10 DEF ReadInv
  <2>1. a.what = "read" /\ a.id = Current.id /\ Transfer(a)
    BY <1>0, <1>10 DEF isPart, IsAnswer, Current, NumberInv, Transfer
  <2>2. ~Pending
    BY <1>0, <1>1, <2>1 DEF Pending
  <2>3. Given
    BY <2>0, <2>2 DEF Commanded, Requested
  <2>4. a.data = Part(asked, k + 1)
    BY <1>1, <1>10, <2>1, <2>3 DEF Given, isPart
  <2>5. /\ more = Beginning(asked, k + 1) /\ (EndsResponse(a.data) <=> k + 1 = Parts)
        /\ Len(Beginning(asked, k + 1)) = k + 1
    <3> HIDE DEF k, a
    <3>1. k + 1 \in Nat /\ k + 1 <= Parts /\ k \in Nat /\ k < Parts
      BY <1>0, <2>0
    <3>2. /\ Append(Beginning(asked, k), Part(asked, k + 1)) = Beginning(asked, k + 1)
          /\ IsLast(Part(asked, k + 1)) <=> k + 1 = Parts
      BY <1>0, <3>1, RestNext
    <3>3. Len(Beginning(asked, k + 1)) = k + 1
      BY <1>0, <3>1, RestOf
    <3> QED
      BY <2>0, <2>4, <3>2, <3>3 DEF EndsResponse, more
  <2>6. CASE k + 1 = Parts /\ Done(more) /\ id' = id /\ calls' = calls
    <3>1. more = Response(asked)
      BY <1>0, <2>5, <2>6, RestEnds
    <3>2. result' = Response(asked')
      BY <1>1, <1>10, <2>6, <3>1 DEF Done
    <3>3. WholeResult'
      BY <1>1, <2>0, <3>2 DEF WholeResult
    <3> QED
      BY <1>5, <2>6, <3>3
  <2>7. CASE k + 1 # Parts /\ got' = more /\ Send("worker", call) /\ at' = at /\ result' = result
    <3>1. /\ NumberInv' /\ Pending' /\ Current' = call /\ WriteInv' /\ WholeResult'
          /\ AllExecuted => \A i \in 1..Len(calls') : Transfer(calls'[i]) => calls'[i] = call
      BY <1>8, <2>7
    <3>2. Len(got') = k + 1 /\ got' = Beginning(asked', k + 1)
      BY <1>1, <2>5, <2>7
    <3>3. Requested'
      <4>1. \A i \in 1..Len(calls') : Transfer(calls'[i]) => calls'[i] = Current'
        BY <2>3, <3>1 DEF Given
      <4>2. output' \in {Rest(asked', Len(got')), <<>>}
        BY <1>1, <2>3, <3>2 DEF Given
      <4> QED
        BY <3>1, <4>1, <4>2 DEF Requested
    <3>4. Len(got') < Parts /\ got' = Beginning(asked', Len(got'))
      BY <1>0, <2>0, <2>7, <3>2
    <3>5. ReadInv'
      BY <1>1, <2>0, <2>7, <3>1, <3>3, <3>4 DEF ReadInv
    <3> QED
      BY <3>1, <3>5 DEF CallInv
  <2> QED
    BY <1>6, <1>7, <2>5, <2>6, <2>7
<1> QED
  BY <1>0, <1>6, <1>7, <1>9, <1>10

\* A new connection, with new numbers or on behalf of a device not yet used.
LEMMA CallOpened ==
  ASSUME TypeInv, TypeInv', Numbered, Numbered', CallInv, Open
  PROVE  CallInv'
<1>0. /\ NumberInv /\ ~isOpen /\ ~Line /\ bus \in {"vxi11", "usb"} /\ at = "idle"
      /\ opens \in Nat /\ Current = NoCall
  BY NumbersLeft DEF CallInv, ReadInv, Open, Idle, NumberInv
<1>1. /\ isOpen' /\ opens' = opens + 1 /\ got' = <<>> /\ result' = <<>> /\ ready' = FALSE /\ bus' = bus
      /\ at' = "idle" /\ waiting' = waiting
  BY <1>0 DEF Open
<1>2. calls' = <<>> /\ inbound' = <<>>
  <2>1. CASE bus = "vxi11"
    BY <2>1 DEF Open, OpenSocket, OpenPort, OpenLink, OpenInterface, OpenSession, NewMedium
  <2>2. CASE bus = "usb"
    <3>1. opens = 0
      BY <1>0, <1>1, <2>2 DEF Numbered, Renumbered
    <3>2. calls' = calls /\ inbound' = inbound
      BY <2>2 DEF Open, OpenSocket, OpenPort, OpenLink, OpenInterface, OpenSession, medium
    <3> QED
      BY <1>0, <3>1, <3>2 DEF NumberInv
  <2> QED
    BY <1>0, <2>1, <2>2
<1>3. NumberInv'
  <2>1. Current' = NoCall /\ Len(calls') = 0 /\ Len(inbound') = 0 /\ 1..0 = {}
    BY <1>0, <1>1, <1>2 DEF Current
  <2> QED
    BY <1>0, <1>1, <1>2, <2>1 DEF NumberInv
<1>4. WriteInv'
  BY <1>1 DEF WriteInv
<1>5. ReadInv'
  BY <1>1 DEF ReadInv, WholeResult
<1> QED
  BY <1>3, <1>4, <1>5 DEF CallInv

\* What is asked of a step that leaves the acquisition thread where it is.
LEMMA Steady ==
  ASSUME CallInv, at' = at, Current' = Current, sent' = sent, got' = got, ready' = ready,
         result' = result, asked' = asked, NumberInv',
         at = "write" => Pending' \/ Ready',
         ready => Ordered' \/ Ready',
         at = "read" => Commanded' \/ Requested' \/ Given'
  PROVE  CallInv'
<1>1. WriteInv'
  BY DEF CallInv, WriteInv
<1>2. WholeResult'
  BY DEF CallInv, ReadInv, WholeResult, Response
<1>3. at' = "read" => /\ asked' > 0 /\ Len(got') < Parts /\ got' = Beginning(asked', Len(got'))
                      /\ Commanded' \/ Requested' \/ Given'
  BY DEF CallInv, ReadInv
<1> QED
  BY <1>1, <1>2, <1>3 DEF CallInv, ReadInv

\* The GUI thread takes an answer that is not its own, or waits no more.
LEMMA CallTaken ==
  ASSUME TypeInv, TypeInv', Numbered, CallInv, GuiCleared
  PROVE  CallInv'
<1>0. NumberInv /\ WriteInv /\ ReadInv
  BY NumbersLeft DEF CallInv
<1>1. /\ at' = at /\ sent' = sent /\ got' = got /\ ready' = ready /\ result' = result /\ asked' = asked
      /\ opens' = opens /\ isOpen' = isOpen /\ bus' = bus /\ id' = id /\ calls' = calls
      /\ output' = output /\ Dropped /\ (inbound = <<>> => inbound' = inbound)
  BY ConsumedDropped DEF GuiCleared, counters
<1>2. Current' = Current
  BY WaitingTypes, PartTypes DEF GuiCleared, Current, Threads
<1>3. NumberInv'
  <2>1. Newest' = Newest
    BY <1>1, <1>2 DEF Newest
  <2>2. \A m \in 1..Len(inbound') : Transfer(inbound'[m]) => inbound'[m].id <= Newest'
    BY <1>0, <1>1, <2>1, TransferOf DEF NumberInv, Dropped
  <2> QED
    BY <1>0, <1>1, <1>2, <2>1, <2>2 DEF NumberInv
<1>4. (Pending => Pending') /\ (AllExecuted => AllExecuted')
  BY <1>1, <1>2, DroppedPending
<1>5. (Ordered => Ordered') /\ (Ready => Ready')
  BY <1>1, <1>4 DEF Ordered, Ready, IsCommand, Response
<1>6. (Commanded => Commanded') /\ (Requested => Requested')
  BY <1>1, <1>2, <1>4 DEF Commanded, Requested, IsCommand, Rest, Response
<1>7. Given => Given'
  <2> SUFFICES ASSUME Given
               PROVE  Given'
    OBVIOUS
  <2>1. ASSUME NEW m \in 1..Len(inbound'), inbound'[m].what = "read", inbound'[m].id = Current.id
        PROVE  inbound'[m].data \in {Part(asked, Len(got) + 1), NoPart}
    <3>1. PICK n \in 1..Len(inbound) : inbound'[m] = inbound[n]
      BY <1>1, <2>1, TransferOf DEF Dropped
    <3> QED
      BY <2>1, <3>1 DEF Given
  <2>2. output' \in {Rest(asked', Len(got') + 1), <<>>}
    BY <1>1 DEF Given
  <2> QED
    BY <1>1, <1>2, <1>4, <2>1, <2>2 DEF Given
<1> QED
  BY <1>0, <1>1, <1>2, <1>3, <1>4, <1>5, <1>6, <1>7, Steady DEF WriteInv, ReadInv

\* device_clear is sent beside whatever is under way, or between two operations.
LEMMA CallCleared ==
  ASSUME TypeInv, TypeInv', Numbered, CallInv, NEW t \in Threads, Clear(t)
  PROVE  CallInv'
<1>0. /\ NumberInv /\ WriteInv /\ ReadInv /\ ~Line /\ bus \in {"vxi11", "usb"} /\ isOpen
      /\ asked \in Nat /\ opens \in Nat /\ id \in Nat /\ NextId = id + 1 /\ Newest \in Nat /\ Newest <= id /\ Current.id \in Nat
  BY NumbersLeft DEF CallInv, Clear
<1>1. /\ bus' = bus /\ isOpen' = isOpen /\ opens' = opens /\ asked' = asked
      /\ ready' = ready /\ sent' = sent /\ result' = result
  BY DEF Clear
<1>2. CASE ClearLink(t)
  <2>1. /\ bus = "vxi11" /\ got' = got /\ inbound' = inbound /\ output' = output
        /\ at' = IF t = "worker" THEN "clear" ELSE at
    BY <1>2 DEF ClearLink
  <2>2. PICK number \in Nat :
          /\ number = id + 1 \/ (at # "idle" /\ number = Current.id)
          /\ id' = number /\ waiting' = [waiting EXCEPT ![t] = Request(number, "clear")]
          /\ calls' = Append(calls, Request(number, "clear"))
    <3>1. PICK number \in {NextId} \cup IF at = "idle" THEN {} ELSE {waiting["worker"].id} :
            Send(t, Request(number, "clear"))
      BY <1>2 DEF ClearLink
    <3>2. number \in Nat /\ (number = id + 1 \/ (at # "idle" /\ number = Current.id))
      BY <1>0, <3>1 DEF Current
    <3>3. Request(number, "clear").id = number
      BY TransferOf
    <3> QED
      BY <3>1, <3>2, <3>3 DEF Send
  <2> DEFINE call == Request(number, "clear")
  <2>3. call \in Calls /\ call.id = number /\ call.what = "clear" /\ ~Transfer(call)
    BY CallTypes, TransferOf DEF Kinds, Transfer
  <2>4. IF t = "worker" THEN Current' = call ELSE Current' = Current
    BY <2>2, <2>3, WaitingTypes DEF Current, Threads
  <2> HIDE DEF call
  <2>5. /\ calls' = Append(calls, call) /\ calls \in Seq(Calls)
        /\ \A i \in 1..Len(calls') : (i \in 1..Len(calls) /\ calls'[i] = calls[i]) \/ calls'[i] = call
    <3>1. calls' = Append(calls, call) /\ calls \in Seq(Calls)
      BY <2>2 DEF call, TypeInv
    <3>2. /\ calls'[Len(calls) + 1] = call /\ \A i \in 1..Len(calls) : calls'[i] = calls[i]
          /\ \A i \in 1..Len(calls') : i \in 1..Len(calls) \/ i = Len(calls) + 1
      BY <2>3, <3>1, AppendOf
    <3> QED
      BY <3>1, <3>2
  <2>6. Newest' \in Nat /\ Newest <= Newest'
    <3>1. CASE t = "worker"
      <4>1. at = "idle" /\ at' = "clear"
        BY <2>1, <3>1 DEF Clear, Idle
      <4> QED
        BY <1>0, <2>2, <2>3, <2>4, <3>1, <4>1 DEF Newest
    <3>2. CASE t # "worker" /\ at = "idle"
      BY <1>0, <2>1, <2>2, <3>2 DEF Newest
    <3>3. CASE t # "worker" /\ at # "idle"
      BY <1>0, <2>1, <2>4, <3>3 DEF Newest
    <3> QED
      BY <3>1, <3>2, <3>3
  <2>7. \A i \in 1..Len(calls') : Transfer(calls'[i]) => calls'[i].id <= Newest'
    <3> SUFFICES ASSUME NEW i \in 1..Len(calls'), Transfer(calls'[i])
                 PROVE  calls'[i].id <= Newest'
      OBVIOUS
    <3>1. i \in 1..Len(calls) /\ calls'[i] = calls[i]
      BY <2>3, <2>5
    <3>2. calls[i].id <= Newest
      BY <1>0, <3>1 DEF NumberInv
    <3>3. calls[i].id \in Nat
      BY <3>1, UnderWay
    <3>4. calls[i].id <= Newest'
      BY <1>0, <2>6, <3>2, <3>3
    <3> QED
      BY <3>1, <3>4
  <2>8. \A m \in 1..Len(inbound') : Transfer(inbound'[m]) => inbound'[m].id <= Newest'
    <3> SUFFICES ASSUME NEW m \in 1..Len(inbound), Transfer(inbound[m])
                 PROVE  inbound[m].id <= Newest'
      BY <2>1
    <3>1. inbound[m].id <= Newest
      BY <1>0 DEF NumberInv
    <3>2. inbound[m] \in Answers
      <4>1. inbound \in Seq(Answers)
        BY DEF TypeInv
      <4> QED
        BY <4>1
    <3>3. inbound[m].id \in Nat
      BY <3>2 DEF Answers
    <3> QED
      BY <1>0, <2>6, <3>1, <3>3
  <2>9. CASE t = "worker"
    <3>1. at = "idle" /\ at' = "clear" /\ Current' = call
      BY <2>1, <2>4, <2>9 DEF Clear, Idle
    <3>2. id' = id + 1 /\ Current'.what = at' /\ Current'.id <= id' /\ got' = <<>>
      BY <1>0, <2>1, <2>2, <2>3, <3>1 DEF NumberInv
    <3>3. NumberInv'
      BY <1>0, <1>1, <2>1, <2>7, <2>8, <3>1, <3>2 DEF NumberInv
    <3>4. WriteInv'
      <4>1. ready => asked > 0 /\ AllExecuted /\ output \in {Response(asked), <<>>}
        BY <1>0, <2>1 DEF WriteInv, Ordered, Ready
      <4>2. AllExecuted => AllExecuted'
        BY <2>3, <2>5 DEF AllExecuted
      <4>3. ready' => asked' > 0 /\ Ready'
        BY <1>1, <2>1, <4>1, <4>2 DEF Ready
      <4> QED
        BY <3>1, <4>3 DEF WriteInv
    <3>5. ReadInv'
      BY <1>0, <1>1, <3>1 DEF ReadInv, WholeResult, Response
    <3> QED
      BY <3>3, <3>4, <3>5 DEF CallInv
  <2>10. CASE t # "worker"
    <3>1. at' = at /\ Current' = Current /\ (at # "idle" => Current'.id <= id')
      BY <1>0, <2>1, <2>2, <2>4, <2>10 DEF NumberInv
    <3>2. NumberInv'
      BY <1>0, <1>1, <2>1, <2>7, <2>8, <3>1 DEF NumberInv
    <3>3. (Pending => Pending') /\ (AllExecuted => AllExecuted')
      BY <2>1, <2>3, <2>5, <3>1, ClearPending
    <3>4. (Ready => Ready') /\ ~Ordered /\ ~Commanded
      BY <1>1, <2>1, <3>3 DEF Ordered, Ready, Commanded, Response
    <3>5. Requested => Requested'
      <4>1. ASSUME Requested
            PROVE  \A i \in 1..Len(calls') : Transfer(calls'[i]) => calls'[i] = Current'
        BY <2>3, <2>5, <3>1, <4>1 DEF Requested
      <4>2. output \in {Rest(asked, Len(got)), <<>>} => output' \in {Rest(asked', Len(got')), <<>>}
        BY <1>1, <2>1
      <4> QED
        BY <3>3, <4>1, <4>2 DEF Requested
    <3>6. Given => Given'
      <4>1. output \in {Rest(asked, Len(got) + 1), <<>>} => output' \in {Rest(asked', Len(got') + 1), <<>>}
        BY <1>1, <2>1
      <4> QED
        BY <1>1, <2>1, <3>1, <3>3, <4>1 DEF Given
    <3> QED
      BY <1>0, <1>1, <2>1, <3>1, <3>2, <3>3, <3>4, <3>5, <3>6, Steady DEF WriteInv, ReadInv
  <2> QED
    BY <2>9, <2>10
<1>3. CASE ClearInterface
  <2>1. /\ bus = "usb" /\ id' = id /\ at' = at /\ waiting' = waiting /\ got' = got /\ Current' = Current
        /\ \/ calls' = <<>> /\ inbound' = <<>> /\ output' = <<>>
           \/ calls' = calls /\ inbound' = inbound /\ output' = output
    BY <1>3 DEF ClearInterface, NewMedium, medium, Current
  <2>2. Newest' = Newest
    BY <1>0, <1>1, <2>1 DEF Newest
  <2>3. CASE calls' = calls /\ inbound' = inbound /\ output' = output
    <3>1. NumberInv'
      BY <1>0, <1>1, <2>1, <2>2, <2>3 DEF NumberInv
    <3>2. (Pending => Pending') /\ (AllExecuted => AllExecuted')
      BY <2>1, <2>3 DEF Pending, AllExecuted
    <3>3. (Ordered => Ordered') /\ (Ready => Ready')
      BY <1>1, <2>1, <2>3, <3>2 DEF Ordered, Ready, IsCommand, Response
    <3>4. (Commanded => Commanded') /\ (Requested => Requested') /\ (Given => Given')
      BY <1>1, <2>1, <2>3, <3>2 DEF Commanded, Requested, Given, IsCommand, Rest, Response
    <3> QED
      BY <1>0, <1>1, <2>1, <2>2, <3>1, <3>2, <3>3, <3>4, Steady DEF WriteInv, ReadInv
  <2>4. CASE calls' = <<>> /\ inbound' = <<>> /\ output' = <<>>
    <3>1. Len(calls') = 0 /\ Len(inbound') = 0 /\ 1..0 = {}
      BY <2>4
    <3>2. NumberInv'
      BY <1>0, <1>1, <2>1, <2>4, <3>1 DEF NumberInv
    <3>3. AllExecuted' /\ Ready' /\ Given'
      BY <2>4, <3>1 DEF AllExecuted, Ready, Given
    <3> QED
      BY <1>0, <1>1, <2>1, <2>2, <3>2, <3>3, Steady
  <2> QED
    BY <2>1, <2>3, <2>4
<1> QED
  BY <1>0, <1>2, <1>3 DEF Clear, ClearLine, ClearSession

\* The instrument executes the oldest call and may answer it.
Answered(data) ==
  \A m \in 1..Len(inbound') :
    inbound'[m] = Answer(Head(calls), data) \/ \E n \in 1..Len(inbound) : inbound'[m] = inbound[n]

\* What comes in when a call is executed is its answer, if anything.
LEMMA AnsweredBy ==
  ASSUME TypeInv, calls # <<>>, NEW data \in Pieces,
         inbound' = inbound \/ inbound' = Append(inbound, Answer(Head(calls), data))
  PROVE  Answered(data)
<1>1. inbound \in Seq(Answers) /\ Answer(Head(calls), data) \in Answers
  BY CallTypes, TailOf DEF TypeInv
<1>2. CASE inbound' = inbound
  BY <1>2 DEF Answered
<1>3. CASE inbound' = Append(inbound, Answer(Head(calls), data))
  <2>1. /\ inbound'[Len(inbound) + 1] = Answer(Head(calls), data) /\ \A i \in 1..Len(inbound) : inbound'[i] = inbound[i]
        /\ \A i \in 1..Len(inbound') : i \in 1..Len(inbound) \/ i = Len(inbound) + 1
    BY <1>1, <1>3, AppendOf
  <2> QED
    BY <2>1 DEF Answered
<1> QED
  BY <1>2, <1>3

LEMMA ExecutedOne ==
  ASSUME TypeInv, NumberInv, calls # <<>>, calls' = Tail(calls), Current' = Current, NEW data, Answered(data)
  PROVE  /\ Head(calls) \in Calls /\ Head(calls) = calls[1] /\ 1 \in 1..Len(calls)
         /\ Len(calls') = Len(calls) - 1 /\ Len(calls) \in Nat
         /\ \A i \in 1..Len(calls') : calls'[i] = calls[i + 1] /\ i + 1 \in 1..Len(calls)
         /\ AllExecuted => AllExecuted' /\ ~Transfer(Head(calls))
         /\ Pending => \/ /\ Head(calls) = Current /\ AllExecuted'
                          /\ \A m \in 1..Len(inbound) : Transfer(inbound[m]) => inbound[m].id < Current.id
                       \/ Pending' /\ (Transfer(Head(calls)) => Head(calls).id < Current.id)
<1> DEFINE call == Head(calls)
<1>1. /\ calls \in Seq(Calls) /\ call \in Calls /\ call = calls[1] /\ 1 \in 1..Len(calls)
      /\ Len(calls) = Len(calls') + 1 /\ Len(calls') \in Nat /\ Len(calls) \in Nat
      /\ \A i \in 1..Len(calls') : calls'[i] = calls[i + 1] /\ i + 1 \in 1..Len(calls)
      /\ \A i \in 1..Len(calls) : i = 1 \/ (i - 1 \in 1..Len(calls') /\ calls'[i - 1] = calls[i])
  <2>1. calls \in Seq(Calls)
    BY DEF TypeInv
  <2>2. Len(calls) \in Nat
    BY <2>1
  <2> QED
    BY <2>1, <2>2, TailOf
<1> HIDE DEF call
<1>2. AllExecuted => AllExecuted' /\ ~Transfer(call)
  BY <1>1 DEF AllExecuted
<1>3. ASSUME Pending
      PROVE  \/ /\ call = Current /\ AllExecuted'
                /\ \A m \in 1..Len(inbound) : Transfer(inbound[m]) => inbound[m].id < Current.id
             \/ Pending' /\ (Transfer(call) => call.id < Current.id)
  <2>1. PICK i \in 1..Len(calls) :
          /\ calls[i] = Current
          /\ \A j \in 1..Len(calls) : j > i => ~Transfer(calls[j])
          /\ \A j \in 1..Len(calls) : j < i /\ Transfer(calls[j]) => calls[j].id < Current.id
    BY <1>3 DEF Pending
  <2>2. \A m \in 1..Len(inbound) : Transfer(inbound[m]) => inbound[m].id < Current.id
    BY <1>3 DEF Pending
  <2>3. CASE i = 1
    <3>1. AllExecuted'
      <4> SUFFICES ASSUME NEW j \in 1..Len(calls')
                   PROVE  ~Transfer(calls'[j])
        BY DEF AllExecuted
      <4>1. calls'[j] = calls[j + 1] /\ j + 1 \in 1..Len(calls) /\ j + 1 > i
        BY <1>1, <2>3
      <4> QED
        BY <2>1, <4>1
    <3> QED
      BY <1>1, <2>1, <2>2, <2>3, <3>1
  <2>4. CASE i # 1
    <3>1. i - 1 \in 1..Len(calls') /\ calls'[i - 1] = Current'
      BY <1>1, <2>1, <2>4
    <3>2. Transfer(call) => call.id < Current.id
      BY <1>1, <2>1, <2>4
    <3>3. ASSUME NEW j \in 1..Len(calls')
          PROVE  /\ j > i - 1 => ~Transfer(calls'[j])
                 /\ j < i - 1 /\ Transfer(calls'[j]) => calls'[j].id < Current'.id
      <4>1. calls'[j] = calls[j + 1] /\ j + 1 \in 1..Len(calls)
            /\ (j > i - 1 => j + 1 > i) /\ (j < i - 1 => j + 1 < i)
        BY <1>1
      <4> QED
        BY <2>1, <4>1
    <3>4. ASSUME NEW m \in 1..Len(inbound'), Transfer(inbound'[m])
          PROVE  inbound'[m].id < Current'.id
      <4>1. CASE inbound'[m] = Answer(call, data)
        BY <3>2, <3>4, <4>1, TransferOf
      <4>2. CASE \E n \in 1..Len(inbound) : inbound'[m] = inbound[n]
        BY <2>2, <3>4, <4>2
      <4> QED
        BY <4>1, <4>2 DEF Answered, call
    <3>5. Pending'
      BY <3>1, <3>3, <3>4 DEF Pending
    <3> QED
      BY <3>2, <3>5
  <2> QED
    BY <2>3, <2>4
<1> QED
  BY <1>1, <1>2, <1>3 DEF call

LEMMA NumbersExecuted ==
  ASSUME TypeInv, Numbered, CallInv, Instrument
  PROVE  /\ bus' = bus /\ isOpen' = isOpen /\ opens' = opens /\ asked' = asked /\ id' = id
         /\ at' = at /\ Current' = Current /\ sent' = sent /\ got' = got /\ ready' = ready /\ result' = result
         /\ calls # <<>> /\ calls' = Tail(calls) /\ ~Line
         /\ NumberInv'
<1>0. /\ NumberInv /\ ~Line /\ bus \in {"vxi11", "usb"}
  BY NumbersLeft DEF CallInv
<1>1. /\ bus' = bus /\ isOpen' = isOpen /\ opens' = opens /\ asked' = asked /\ id' = id
      /\ at' = at /\ Current' = Current /\ sent' = sent /\ got' = got /\ ready' = ready /\ result' = result
      /\ calls # <<>> /\ calls' = Tail(calls)
  BY DEF Instrument, ExecuteCommand, GivePart, GiveNothing, ExecuteClear, Executes, client, counters, Current
<1>2. inbound' = inbound \/ \E data \in Pieces : inbound' = Append(inbound, Answer(Head(calls), data))
  <2>1. ASSUME NEW n \in -1..Parts, ExecuteCommand(n)
        PROVE  inbound' = inbound \/ \E data \in Pieces : inbound' = Append(inbound, Answer(Head(calls), data))
    <3>1. Part(0, n) \in Pieces
      BY PartTypes
    <3>2. CASE bus = "vxi11"
      <4>1. inbound' = Append(inbound, Answer(Head(calls), Part(0, n)))
        BY <1>0, <2>1, <3>2 DEF ExecuteCommand
      <4> QED
        BY <3>1, <4>1
    <3>3. CASE bus = "usb"
      BY <1>0, <2>1, <3>3 DEF ExecuteCommand
    <3> QED
      BY <1>0, <3>2, <3>3
  <2>2. CASE GivePart
    <3>1. Head(output) \in Pieces
      BY <2>2, TailOf DEF GivePart, TypeInv
    <3> QED
      BY <2>2, <3>1 DEF GivePart
  <2>3. CASE GiveNothing \/ ExecuteClear
    BY <2>3, PartTypes DEF GiveNothing, ExecuteClear
  <2> QED
    BY <2>1, <2>2, <2>3 DEF Instrument
<1>3. PICK data \in Pieces : Answered(data)
  BY <1>1, <1>2, AnsweredBy, PartTypes
<1>4. /\ Head(calls) \in Calls /\ Head(calls) = calls[1] /\ 1 \in 1..Len(calls)
      /\ Len(calls') = Len(calls) - 1 /\ Len(calls) \in Nat
      /\ \A i \in 1..Len(calls') : calls'[i] = calls[i + 1] /\ i + 1 \in 1..Len(calls)
  BY <1>0, <1>1, <1>3, ExecutedOne
<1>5. NumberInv'
  <2>1. opens' # 0 /\ Newest' = Newest
    BY <1>0, <1>1 DEF NumberInv, Newest
  <2>2. \A i \in 1..Len(calls') : Transfer(calls'[i]) => calls'[i].id <= Newest'
    BY <1>0, <1>4, <2>1 DEF NumberInv
  <2>3. \A m \in 1..Len(inbound') : Transfer(inbound'[m]) => inbound'[m].id <= Newest'
    <3> SUFFICES ASSUME NEW m \in 1..Len(inbound'), Transfer(inbound'[m])
                 PROVE  inbound'[m].id <= Newest
      BY <2>1
    <3>1. CASE inbound'[m] = Answer(Head(calls), data)
      <4>1. Transfer(calls[1]) /\ inbound'[m].id = calls[1].id
        BY <1>4, <3>1, TransferOf
      <4> QED
        BY <1>0, <1>4, <4>1 DEF NumberInv
    <3>2. CASE \E n \in 1..Len(inbound) : inbound'[m] = inbound[n]
      BY <1>0, <3>2 DEF NumberInv
    <3> QED
      BY <1>3, <3>1, <3>2 DEF Answered
  <2>4. bus = "usb" => \A i \in 1..Len(calls') : Transfer(calls'[i])
    BY <1>0, <1>4 DEF NumberInv
  <2> QED
    BY <1>0, <1>1, <2>1, <2>2, <2>3, <2>4 DEF NumberInv
<1> QED
  BY <1>0, <1>1, <1>5

\* A command is executed: with it the response becomes that of the query.
LEMMA CommandExecuted ==
  ASSUME TypeInv, TypeInv', Numbered, CallInv, NEW n \in -1..Parts, ExecuteCommand(n)
  PROVE  CallInv'
<1> DEFINE call == Head(calls)
<1>0. NumberInv /\ WriteInv /\ ReadInv /\ asked \in Nat /\ ~Line /\ bus \in {"vxi11", "usb"}
  BY NumbersLeft DEF CallInv
<1>1. /\ bus' = bus /\ isOpen' = isOpen /\ opens' = opens /\ asked' = asked /\ id' = id
      /\ at' = at /\ Current' = Current /\ sent' = sent /\ got' = got /\ ready' = ready /\ result' = result
      /\ calls # <<>> /\ calls' = Tail(calls) /\ NumberInv'
  BY NumbersExecuted DEF Instrument
<1>2. call.what = "write" /\ output' \in {Response(call.q), <<>>}
  BY <1>0 DEF ExecuteCommand, Executes
<1>3. PICK data : Answered(data)
  <2>1. inbound' = inbound \/ inbound' = Append(inbound, Answer(call, Part(0, n)))
    BY <1>0 DEF ExecuteCommand
  <2>2. Part(0, n) \in Pieces
    BY PartTypes
  <2> QED
    BY <1>1, <2>1, <2>2, AnsweredBy
<1>4. /\ call = calls[1] /\ 1 \in 1..Len(calls) /\ Len(calls') = Len(calls) - 1 /\ Len(calls) \in Nat
      /\ \A i \in 1..Len(calls') : calls'[i] = calls[i + 1] /\ i + 1 \in 1..Len(calls)
      /\ ~AllExecuted
      /\ Pending => (call = Current /\ AllExecuted') \/ Pending'
  BY <1>0, <1>1, <1>2, <1>3, ExecutedOne DEF Transfer
<1> HIDE DEF call
<1>5. ASSUME at = "write"
      PROVE  Pending' \/ Ready'
  <2>1. Pending /\ Current.q = asked
    BY <1>0, <1>4, <1>5 DEF WriteInv, Ready
  <2>2. CASE call = Current /\ AllExecuted'
    <3>1. output' \in {Response(asked'), <<>>}
      BY <1>1, <1>2, <2>1, <2>2
    <3> QED
      BY <2>2, <3>1 DEF Ready
  <2> QED
    BY <1>4, <2>1, <2>2
<1>6. ASSUME ready
      PROVE  Ordered' \/ Ready'
  <2>1. bus = "usb" /\ IsCommand(calls[Len(calls)])
    BY <1>0, <1>4, <1>6 DEF WriteInv, Ordered, Ready
  <2>2. CASE Len(calls) = 1
    <3>1. output' \in {Response(asked'), <<>>}
      BY <1>1, <1>2, <1>4, <2>1, <2>2 DEF IsCommand
    <3>2. AllExecuted'
      BY <1>4, <2>2 DEF AllExecuted
    <3> QED
      BY <3>1, <3>2 DEF Ready
  <2>3. CASE Len(calls) # 1
    <3>1. Len(calls') \in 1..Len(calls') /\ Len(calls') + 1 = Len(calls)
      BY <1>4, <2>3
    <3>2. calls'[Len(calls')] = calls[Len(calls)] /\ calls' # <<>>
      BY <1>4, <3>1
    <3> QED
      BY <1>1, <2>1, <3>2 DEF Ordered, IsCommand
  <2> QED
    BY <2>2, <2>3
<1>7. ASSUME at = "read"
      PROVE  Commanded' \/ Requested' \/ Given'
  <2>0. call # Current /\ asked > 0
    BY <1>0, <1>2, <1>7 DEF NumberInv, ReadInv
  <2>1. Commanded
    <3>1. ~Given
      BY <1>4 DEF Given
    <3>2. ~Requested
      BY <1>2, <1>4, <2>0 DEF Requested, Transfer
    <3> QED
      BY <1>0, <1>7, <3>1, <3>2 DEF ReadInv
  <2>2. Pending' /\ Len(calls) >= 2 /\ calls[Len(calls)] = Current /\ IsCommand(calls[Len(calls) - 1]) /\ got = <<>>
        /\ bus = "usb"
    BY <1>4, <2>0, <2>1 DEF Commanded
  <2>3. Len(calls') \in 1..Len(calls') /\ Len(calls') + 1 = Len(calls) /\ calls'[Len(calls')] = Current'
    BY <1>1, <1>4, <2>2
  <2>4. CASE Len(calls) = 2
    <3>1. call = calls[Len(calls) - 1]
      BY <1>4, <2>4
    <3>2. Len(got') = 0 /\ Rest(asked, 0) = Response(asked)
      BY <1>0, <1>1, <2>2, RestEnds
    <3>3. output' \in {Rest(asked', Len(got')), <<>>}
      BY <1>1, <1>2, <2>2, <3>1, <3>2 DEF IsCommand
    <3>4. \A i \in 1..Len(calls') : calls'[i] = Current'
      BY <1>4, <2>3, <2>4
    <3> QED
      BY <2>2, <3>3, <3>4 DEF Requested
  <2>5. CASE Len(calls) # 2
    <3>1. Len(calls') >= 2 /\ Len(calls') - 1 \in 1..Len(calls') /\ (Len(calls') - 1) + 1 = Len(calls) - 1
      BY <1>4, <2>2, <2>5
    <3>2. calls'[Len(calls') - 1] = calls[Len(calls) - 1]
      BY <1>4, <3>1
    <3> QED
      BY <1>1, <2>2, <2>3, <3>1, <3>2 DEF Commanded, IsCommand
  <2> QED
    BY <2>4, <2>5
<1> QED
  BY <1>1, <1>5, <1>6, <1>7, Steady

\* A request is executed: the part is given, or there is none.
LEMMA RequestExecuted ==
  ASSUME TypeInv, TypeInv', Numbered, CallInv, GivePart \/ GiveNothing
  PROVE  CallInv'
<1> DEFINE call == Head(calls)
           k == Len(got)
<1>0. NumberInv /\ WriteInv /\ ReadInv /\ asked \in Nat /\ k \in Nat /\ Current.id \in Nat
  BY NumbersLeft DEF CallInv
<1>1. /\ bus' = bus /\ isOpen' = isOpen /\ opens' = opens /\ asked' = asked /\ id' = id
      /\ at' = at /\ Current' = Current /\ sent' = sent /\ got' = got /\ ready' = ready /\ result' = result
      /\ calls # <<>> /\ calls' = Tail(calls) /\ NumberInv'
  BY NumbersExecuted DEF Instrument
<1>2. call.what = "read" /\ Transfer(call)
  BY DEF GivePart, GiveNothing, Executes, Transfer
<1>3. PICK data \in Pieces :
        /\ inbound' = inbound \/ inbound' = Append(inbound, Answer(call, data))
        /\ \/ output # <<>> /\ data = Head(output) /\ output' = Tail(output)
           \/ output = <<>> /\ data = NoPart /\ output' = <<>>
  <2>1. CASE GivePart
    <3>1. Head(output) \in Pieces
      BY <2>1, TailOf DEF GivePart, TypeInv
    <3> QED
      BY <2>1, <3>1 DEF GivePart
  <2>2. CASE GiveNothing
    BY <2>2, PartTypes DEF GiveNothing
  <2> QED
    BY <2>1, <2>2
<1>4. Answered(data)
  BY <1>1, <1>3, AnsweredBy
<1>5. /\ call = calls[1] /\ 1 \in 1..Len(calls) /\ Len(calls') = Len(calls) - 1 /\ Len(calls) \in Nat
      /\ \A i \in 1..Len(calls') : calls'[i] = calls[i + 1] /\ i + 1 \in 1..Len(calls)
      /\ ~AllExecuted
      /\ Pending => \/ /\ call = Current /\ AllExecuted'
                       /\ \A m \in 1..Len(inbound) : Transfer(inbound[m]) => inbound[m].id < Current.id
                    \/ Pending' /\ call.id < Current.id
  BY <1>0, <1>1, <1>2, <1>4, ExecutedOne
<1> HIDE DEF call, k
<1>6. ASSUME at = "write"
      PROVE  Pending' \/ Ready'
  <2>1. Pending /\ Current.what = "write"
    BY <1>0, <1>5, <1>6 DEF WriteInv, Ready, NumberInv
  <2> QED
    BY <1>2, <1>5, <2>1
<1>7. ASSUME ready
      PROVE  Ordered' \/ Ready'
  <2>1. bus = "usb" /\ IsCommand(calls[Len(calls)])
    BY <1>0, <1>5, <1>7 DEF WriteInv, Ordered, Ready
  <2>2. Len(calls) # 1
    BY <1>2, <1>5, <2>1 DEF IsCommand
  <2>3. Len(calls') \in 1..Len(calls') /\ Len(calls') + 1 = Len(calls)
    BY <1>5, <2>2
  <2>4. calls'[Len(calls')] = calls[Len(calls)] /\ calls' # <<>>
    BY <1>5, <2>3
  <2> QED
    BY <1>1, <2>1, <2>4 DEF Ordered, IsCommand
<1>8. ASSUME at = "read"
      PROVE  Commanded' \/ Requested' \/ Given'
  <2>0. Current.what = "read" /\ k < Parts /\ (Commanded \/ Requested)
    BY <1>0, <1>5, <1>8 DEF NumberInv, ReadInv, Given, k
  <2>1. CASE Commanded
    <3>1. Pending /\ Len(calls) >= 2 /\ calls[Len(calls)] = Current /\ IsCommand(calls[Len(calls) - 1]) /\ got = <<>>
          /\ bus = "usb"
      BY <2>1 DEF Commanded
    <3>2. Len(calls) # 2
      BY <1>2, <1>5, <3>1 DEF IsCommand
    <3>3. /\ Len(calls') >= 2 /\ Len(calls') \in 1..Len(calls') /\ Len(calls') + 1 = Len(calls)
          /\ Len(calls') - 1 \in 1..Len(calls') /\ (Len(calls') - 1) + 1 = Len(calls) - 1
      BY <1>5, <3>1, <3>2
    <3>4. calls'[Len(calls') - 1] = calls[Len(calls) - 1] /\ calls'[Len(calls')] = Current'
      BY <1>1, <1>5, <3>1, <3>3
    <3>5. ~AllExecuted'
      BY <1>1, <2>0, <3>3, <3>4 DEF AllExecuted, Transfer
    <3> QED
      BY <1>1, <1>5, <3>1, <3>3, <3>4, <3>5 DEF Commanded, IsCommand
  <2>2. CASE Requested
    <3>1. Pending /\ call = Current /\ output \in {Rest(asked, k), <<>>}
      BY <1>2, <1>5, <2>2 DEF Requested, k
    <3>2. AllExecuted' /\ \A m \in 1..Len(inbound) : Transfer(inbound[m]) => inbound[m].id < Current.id
      BY <1>0, <1>5, <3>1
    <3>3. data \in {Part(asked, k + 1), NoPart} /\ output' \in {Rest(asked, k + 1), <<>>}
      BY <1>0, <1>3, <2>0, <3>1, RestNext
    <3>4. ASSUME NEW m \in 1..Len(inbound'), inbound'[m].what = "read", inbound'[m].id = Current.id
          PROVE  inbound'[m].data \in {Part(asked, k + 1), NoPart}
      <4>1. CASE inbound'[m] = Answer(call, data)
        BY <3>3, <4>1, TransferOf
      <4>2. ASSUME NEW n \in 1..Len(inbound), inbound'[m] = inbound[n]
            PROVE  FALSE
        BY <1>0, <3>2, <3>4, <4>2 DEF Transfer
      <4> QED
        BY <1>4, <4>1, <4>2 DEF Answered, call
    <3> QED
      BY <1>1, <3>2, <3>3, <3>4 DEF Given, k
  <2> QED
    BY <2>0, <2>1, <2>2
<1> QED
  BY <1>1, <1>6, <1>7, <1>8, Steady

\* device_clear is executed: the response nobody has fetched is forgotten.
LEMMA ClearExecuted ==
  ASSUME TypeInv, TypeInv', Numbered, CallInv, ExecuteClear
  PROVE  CallInv'
<1> DEFINE call == Head(calls)
<1>0. NumberInv /\ WriteInv /\ ReadInv
  BY DEF CallInv
<1>1. /\ bus' = bus /\ isOpen' = isOpen /\ opens' = opens /\ asked' = asked /\ id' = id
      /\ at' = at /\ Current' = Current /\ sent' = sent /\ got' = got /\ ready' = ready /\ result' = result
      /\ calls # <<>> /\ calls' = Tail(calls) /\ NumberInv'
  BY NumbersExecuted DEF Instrument
<1>2. call.what = "clear" /\ ~Transfer(call) /\ output' = <<>>
  BY DEF ExecuteClear, Executes, Transfer
<1>3. Answered(NoPart)
  BY <1>1, AnsweredBy, PartTypes DEF ExecuteClear
<1>4. /\ call = calls[1] /\ 1 \in 1..Len(calls)
      /\ \A i \in 1..Len(calls') : calls'[i] = calls[i + 1] /\ i + 1 \in 1..Len(calls)
      /\ AllExecuted => AllExecuted'
      /\ Pending => call = Current \/ Pending'
  BY <1>0, <1>1, <1>3, ExecutedOne
<1> HIDE DEF call
<1>5. Ready => Ready'
  BY <1>2, <1>4 DEF Ready
<1>6. ASSUME at = "write"
      PROVE  Pending' \/ Ready'
  BY <1>0, <1>2, <1>4, <1>5, <1>6 DEF WriteInv, NumberInv
<1>7. ASSUME ready
      PROVE  Ordered' \/ Ready'
  <2>1. bus # "usb"
    BY <1>0, <1>2, <1>4 DEF NumberInv
  <2> QED
    BY <1>0, <1>5, <1>7, <2>1 DEF WriteInv, Ordered
<1>8. ASSUME at = "read"
      PROVE  Commanded' \/ Requested' \/ Given'
  <2>1. Current.what = "read" /\ bus # "usb"
    BY <1>0, <1>2, <1>4, <1>8 DEF NumberInv
  <2>2. CASE Requested
    BY <1>1, <1>2, <1>4, <2>1, <2>2 DEF Requested
  <2>3. CASE Given
    <3>1. ASSUME NEW m \in 1..Len(inbound'), inbound'[m].what = "read", inbound'[m].id = Current.id
          PROVE  inbound'[m].data \in {Part(asked, Len(got) + 1), NoPart}
      <4>1. PICK n \in 1..Len(inbound) : inbound'[m] = inbound[n]
        BY <1>2, <1>3, <3>1, TransferOf DEF Answered, call
      <4> QED
        BY <2>3, <3>1, <4>1 DEF Given
    <3> QED
      BY <1>1, <1>2, <1>4, <2>3, <3>1 DEF Given
  <2> QED
    BY <1>0, <1>8, <2>1, <2>2, <2>3 DEF ReadInv, Commanded
<1> QED
  BY <1>1, <1>6, <1>7, <1>8, Steady

LEMMA CallStep ==
  ASSUME TypeInv, TypeInv', Numbered, Numbered', CallInv, [Next]_vars
  PROVE  CallInv'
<1>0. ~Line /\ bus # "visa"
  BY NumbersLeft DEF Numbered
<1>1. ~Pump /\ ~ReadLine /\ ~ReadSession
  BY <1>0 DEF Pump, ReadLine, ReadSession
<1>2. CASE UNCHANGED vars
  <2>1. NumberInv'
    BY <1>2 DEF vars, client, medium, counters, CallInv, NumberInv, Newest, Current
  <2>2. WriteInv' /\ ReadInv'
    <3> USE <1>2 DEF vars, client, medium, counters, Current
    <3>1. /\ (Pending => Pending') /\ (AllExecuted => AllExecuted')
      BY DEF Pending, AllExecuted
    <3>2. (Ordered => Ordered') /\ (Ready => Ready')
      BY <3>1 DEF Ordered, Ready, IsCommand, Response
    <3>3. (Commanded => Commanded') /\ (Requested => Requested') /\ (Given => Given')
      BY <3>1 DEF Commanded, Requested, Given, IsCommand, Rest, Response
    <3>4. WriteInv'
      BY <3>1, <3>2 DEF CallInv, WriteInv
    <3>5. ReadInv'
      BY <3>3 DEF CallInv, ReadInv, WholeResult, Beginning, Response
    <3> QED
      BY <3>4, <3>5
  <2> QED
    BY <2>1, <2>2 DEF CallInv
<1>3. CASE Operate
  BY <1>3, CallOpened, CallReturned, CallStarted, CallHanded, CallCleared DEF Operate
<1>4. CASE Proceed
  BY <1>1, <1>4, CallAccepted, CallGiven, CallReturned DEF Proceed
<1>5. CASE GiveUp \/ GuiCleared \/ ConnectionDrops
  BY <1>5, CallReturned, CallTaken
<1>6. CASE Instrument
  BY <1>6, CommandExecuted, RequestExecuted, ClearExecuted DEF Instrument
<1> QED
  BY <1>2, <1>3, <1>4, <1>5, <1>6 DEF Next

-----------------------------------------------------------------------------
(* The invariant and what it says of a response.                           *)

LEMMA TransportInit == Init => TransportInv
<1> SUFFICES ASSUME Init
             PROVE  TransportInv
  OBVIOUS
<1>0. /\ bus \in Buses /\ isOpen = FALSE /\ id = 0 /\ at = "idle" /\ waiting = NoCalls /\ ready = FALSE /\ sent = 0
      /\ got = <<>> /\ result = <<>> /\ calls = <<>> /\ inbound = <<>> /\ output = <<>>
      /\ opens = 0 /\ asked = 0 /\ clears = 0 /\ drains = 0 /\ Current = NoCall
  BY DEF Init, NoCalls, Current, Threads
<1>1. Len(calls) = 0 /\ Len(inbound) = 0 /\ Len(got) = 0 /\ 1..0 = {}
  BY <1>0
<1>2. TypeInv
  <2>1. 0 \in 0..MaxOpens /\ 0 \in 0..MaxQueries /\ 0 \in 0..MaxClears /\ 0 \in 0..MaxDrains
    BY BoundsAssumption DEF BoundsAssumption
  <2>2. waiting \in [Threads -> Calls]
    BY <1>0, PartTypes DEF NoCalls
  <2>3. <<>> \in Seq(Pieces) /\ <<>> \in Seq(Calls) /\ <<>> \in Seq(Answers)
    BY EmptySeq
  <2> QED
    BY <1>0, <1>1, <2>1, <2>2, <2>3 DEF TypeInv
<1>3. LineInv
  <2>1. Stream = <<>> /\ Len(Stream) = 0
    <3>1. Data(inbound) = <<>>
      BY <1>0, <1>1 DEF Data
    <3> QED
      BY <1>0, <3>1 DEF Stream
  <2>2. LineStream
    BY <1>0, <2>1 DEF LineStream, Chained, FromStart
  <2>3. LineQuiet /\ LineResult
    BY <1>0, <1>1 DEF LineQuiet, LineResult
  <2> QED
    BY <2>2, <2>3 DEF LineInv
<1>4. SessionInv
  BY <1>0 DEF SessionInv, WholeResult
<1>5. CallInv
  <2>1. NumberInv
    BY <1>0, <1>1 DEF NumberInv
  <2>2. WriteInv /\ ReadInv
    BY <1>0 DEF WriteInv, ReadInv, WholeResult
  <2> QED
    BY <2>1, <2>2 DEF CallInv
<1>6. Unspent
  <2>1. 0 < MaxId
    BY PartsAssumption DEF PartsAssumption
  <2> QED
    BY <1>0, <2>1 DEF Init, Unspent
<1> QED
  BY <1>2, <1>3, <1>4, <1>5, <1>6 DEF TransportInv

\* What holds of a transport in every state: its types, the stream of a line, the
\* session's output queue and, as long as numbers are new, the calls under way.
THEOREM Invariant == Spec => []TransportInv
<1>1. TransportInv /\ [Next]_vars => TransportInv'
  <2> SUFFICES ASSUME TransportInv, [Next]_vars
               PROVE  TransportInv'
    OBVIOUS
  <2>1. TypeInv /\ TypeInv' /\ LineInv' /\ SessionInv'
    BY TypeStep, LineStep, SessionStep DEF TransportInv
  <2>2. ASSUME Numbered'
        PROVE  CallInv'
    <3>1. Numbered
      BY <2>1, <2>2, NumberedBefore DEF TransportInv
    <3> QED
      BY <2>1, <2>2, <3>1, CallStep DEF TransportInv
  <2>3. Unspent'
    <3>1. id' \in Nat /\ MaxId \in Nat
      BY <2>1, PartsAssumption DEF PartsAssumption, TypeInv
    <3>2. Unspent
      BY DEF TransportInv
    <3>3. CASE UNCHANGED vars
      BY <3>2, <3>3 DEF vars, client, Unspent
    <3>4. CASE Observe
      <4>1. spent' \in BOOLEAN /\ (~spent' => ~(id' >= MaxId))
        BY <3>4, Zenon DEF Observe
      <4>2. ~(id' >= MaxId) => id' < MaxId
        BY <3>1
      <4> QED
        BY <4>1, <4>2 DEF Unspent
    <3> QED
      BY <3>3, <3>4 DEF Next
  <2> QED
    BY <2>1, <2>2, <2>3 DEF TransportInv
<1> QED
  BY <1>1, TransportInit, PTL DEF Spec

\* What was read is part of one response: as a line delivers it, or as a whole.
LEMMA ResultIs ==
  ASSUME TransportInv, bus \in {"vxi11", "usb"} => ~spent, ~Renumbered
  PROVE  /\ Line => LineResult
         /\ ~Line => WholeResult
<1>1. bus \in Buses
  BY DEF TransportInv, TypeInv
<1> QED
  BY <1>1 DEF TransportInv, LineInv, SessionInv, CallInv, ReadInv, Numbered, Unspent, Line, Buses

\* What read() returns is one response from its first part to its last, over every
\* transport; over VXI-11 and USB as long as there are numbers left.
THEOREM WholeResponse == Spec => []((bus \in {"vxi11", "usb"} => ~spent) => ResponseIsWhole)
<1>1. ASSUME TransportInv, bus \in {"vxi11", "usb"} => ~spent
      PROVE  ResponseIsWhole
  <2> SUFFICES ASSUME ~Renumbered
               PROVE  /\ result = <<>> \/ \E q \in 1..asked, n \in 1..Parts : result = SubSeq(Response(q), n, Parts)
                      /\ ~Line \/ (opens = 1 /\ clears = 0) => Len(result) \in {0, Parts}
    BY DEF ResponseIsWhole
  <2>0. asked \in Nat /\ Parts \in Nat /\ Parts > 0 /\ \A q \in Nat : Len(Response(q)) = Parts
    BY <1>1, PartTypes, BoundsAssumption DEF TransportInv, TypeInv, BoundsAssumption
  <2>1. \A q \in Nat : SubSeq(Response(q), 1, Parts) = Response(q)
    BY RestEnds DEF Beginning
  <2>2. CASE result = <<>>
    BY <2>2
  <2>3. CASE result # <<>> /\ Line
    <3>1. PICK q \in 1..asked, n \in 1..Parts :
            result = SubSeq(Response(q), n, Parts) /\ (Uncut => n = 1)
      BY <1>1, <2>3, ResultIs DEF LineResult
    <3>2. ASSUME opens = 1, clears = 0
          PROVE  Len(result) = Parts
      <4>1. result = Response(q) /\ q \in Nat
        BY <2>0, <2>1, <3>1, <3>2 DEF Uncut
      <4> QED
        BY <2>0, <4>1
    <3> QED
      BY <2>3, <3>1, <3>2
  <2>4. CASE result # <<>> /\ ~Line
    <3>1. asked > 0 /\ result = Response(asked)
      BY <1>1, <2>4, ResultIs DEF WholeResult
    <3>2. asked \in 1..asked /\ 1 \in 1..Parts /\ result = SubSeq(Response(asked), 1, Parts) /\ Len(result) = Parts
      BY <2>0, <2>1, <3>1
    <3> QED
      BY <2>4, <3>2
  <2> QED
    BY <2>2, <2>3, <2>4
<1> QED
  BY <1>1, Invariant, PTL

\* Over VXI-11 and USB what read() returns is the response to the query written last,
\* whatever was given up and whoever cleared, as long as there are numbers left.
THEOREM ResponseOfItsQuery == Spec => [](~spent => ResponseIsOfItsQuery)
<1>1. ASSUME TransportInv, ~spent
      PROVE  ResponseIsOfItsQuery
  <2> SUFFICES ASSUME bus \in {"vxi11", "usb"}, ~Renumbered, NEW n \in 1..Len(result)
               PROVE  result[n].of = asked
    BY DEF ResponseIsOfItsQuery
  <2>1. result # <<>> /\ asked \in Nat
    BY <1>1, CallTypes DEF TransportInv
  <2>2. result = Response(asked)
    BY <1>1, <2>1, ResultIs DEF WholeResult, Line
  <2>3. n \in 1..Parts /\ Response(asked)[n] = Part(asked, n)
    BY <2>1, <2>2, PartTypes
  <2> QED
    BY <2>2, <2>3 DEF Part
<1> QED
  BY <1>1, Invariant, PTL

=============================================================================
