----------------------------- MODULE FscanProofs -----------------------------
(***************************************************************************)
(* Proofs about the driver of the receivers' EMI personality, for any      *)
(* number of ranges, points and connections, however far the instrument    *)
(* lags behind and whatever it drops while it is deaf.  They count the     *)
(* answers that are outstanding, and follow the commands on the wire until *)
(* the scan or the peak hold they set up has been executed.                *)
(***************************************************************************)
EXTENDS UnitrendFscanDriver, SequenceTheorems, FiniteSetTheorems, FunctionTheorems, TLAPS

Commands ==
  [op : {"range"}, arg : Ranges \cup {0}] \cup [op : {"point"}, arg : Points]
  \cup [op : {"select", "stop", "scan", "reset", "meter"} \cup Queries, arg : {0}]

Replies == [to : Queries, of : Ranges \cup Points \cup {0}, done : BOOLEAN]

\* Where the worker may stand in a scan and in a dwell, the configuration aside.
Waits == {"wait", "probe", "drain"}
Dwells == {"dwell", "dwelt", "reading"}

LineTypes == wire \in Seq(Commands) /\ replies \in Seq(Replies) /\ connected \in BOOLEAN

TypeInv ==
  /\ LineTypes
  /\ purpose \in {"open", "scan"} /\ drains \in Nat /\ emi \in BOOLEAN
  /\ busy \in {"no", "switching", "scanning"}
  /\ range \in Ranges \cup {0} /\ scanned \in Ranges \cup {0}
  /\ point \in Points \cup {0} /\ hold \in Points \cup {0}
  /\ at \in {"swept", "fetch"} \/ (at \in Waits \cup {"cut"} /\ purpose = "scan") => target \in Ranges
  /\ at \in Dwells => target \in Points
  /\ at \in Waits \cup {"configured"} => result = NoResult
  /\ result = NoResult \/ result.asked = target

\* As long as no answer was given up, at most one is outstanding while a query is
\* awaited, and none at any other time but in the wait for the instrument.
QuietInv ==
  ~dirty =>
    /\ at # "cut"
    /\ at \in {"responsive", "entered", "open", "idle", "configured", "swept", "unlabelled",
              "dwell", "dwelt"} =>
         Outstanding = 0
    /\ at \in {"mode", "fetch", "identify", "label", "reading"} => Outstanding <= 1

(* The commands on a wire w, from the next to be executed to the last.      *)

None(w, op) == \A i \in 1..Len(w) : w[i].op # op

\* The last command of its kind sets the target, or it is set and stays.
SetTo(w, op, t, now) ==
  \/ now = t /\ None(w, op)
  \/ \E i \in 1..Len(w) :
       w[i] = Command(op, t) /\ \A j \in (i + 1)..Len(w) : w[j].op # op

\* Every command of one kind comes before every one of the other.
Before(w, op, ops) == \A i, j \in 1..Len(w) : w[i].op = op /\ w[j].op \in ops => i < j

OnlyOne(w, op) == \A i, j \in 1..Len(w) : w[i].op = op /\ w[j].op = op => i = j

\* The peak hold is reset after the meter was set to the point, or has been.
HoldCleared(w, t, held) ==
  \/ held \in {0, t} /\ None(w, "point")
  \/ \E i \in 1..Len(w) :
       w[i].op = "reset" /\ \A j \in (i + 1)..Len(w) : w[j].op # "point"

\* One kind of query is under way, or has been answered.
OnlyAsked(w, what) == \A i \in 1..Len(w) : w[i].op \in Queries => w[i].op = what
Answered(answers) == \A i \in 1..Len(replies) : replies[i] \in answers

\* What is read as numbers is the trace of the target; the rest is refused.
NumbersAre(t) ==
  \A i \in 1..Len(replies) : replies[i].to \in Numeric => replies[i] = Reply("trace", t, TRUE)

\* The change of personality is over once anything was answered.
Ready == None(wire, "select") /\ busy # "switching"

ReadyInv ==
  /\ \A i \in 2..Len(wire) : wire[i].op # "select"
  /\ \/ at \notin {"closed", "broken", "wait", "probe"}
     \/ replies # <<>>
     \/ at \in {"wait", "probe"} /\ purpose = "scan"
     => Ready

Calm == busy = "no" /\ None(wire, "scan")

\* Either the scan is yet to be begun, and will be of the target, or it was.
ScanPending ==
  /\ busy = "no" /\ SetTo(wire, "range", target, range) /\ ~None(wire, "scan")
  /\ OnlyOne(wire, "scan") /\ Before(wire, "range", {"scan"})

ScanTaken == scanned = target /\ None(wire, "scan")

ScanInv ==
  ~deserted =>
    /\ at = "configured" /\ target \in Ranges => Calm /\ SetTo(wire, "range", target, range)
    /\ (at \in Waits /\ purpose = "scan") \/ at \in {"swept", "fetch"} => ScanPending \/ ScanTaken
    /\ ~stale /\ at = "swept" => ~NumericLeft
    /\ ~stale /\ at = "fetch" =>
         None(wire, "peak") /\ Before(wire, "scan", {"trace"}) /\ NumbersAre(target)
    /\ ~stale /\ result.asked \in Ranges => result.got = Reply("trace", target, TRUE)

MeterInv ==
  ~deserted =>
    /\ at = "configured" /\ target \in Points => Calm /\ SetTo(wire, "point", target, point)
    /\ at \in Dwells =>
         Calm /\ SetTo(wire, "point", target, point) /\ HoldCleared(wire, target, hold)

ReadingInv ==
  ~deserted /\ ~dirty =>
    /\ at = "reading" =>
         /\ Before(wire, "reset", Queries) /\ OnlyAsked(wire, "peak")
         /\ Answered({Reply("peak", 0, TRUE), Reply("peak", target, TRUE)})
    /\ result.asked \in Points => result.got = Reply("peak", target, TRUE)

FscanInv ==
  TypeInv /\ QuietInv /\ ReadyInv /\ ScanInv /\ MeterInv /\ ReadingInv

-----------------------------------------------------------------------------
(* Sequences: what an append, a cut and a tail leave of one.               *)

\* "r" is "w" with commands of the given kinds put behind it.
Extended(w, r, ops) ==
  /\ r \in Seq(Commands) /\ Len(w) \in Nat /\ Len(r) \in Nat /\ Len(w) <= Len(r)
  /\ \A i \in 1..Len(w) : i \in 1..Len(r) /\ r[i] = w[i]
  /\ \A i \in 1..Len(r) : i \in 1..Len(w) \/ (i > Len(w) /\ r[i].op \in ops)

LEMMA CommandTypes ==
  /\ \A op \in {"select", "stop", "scan", "reset", "meter"} \cup Queries :
       Command(op, 0) \in Commands /\ Command(op, 0).op = op
  /\ \A t \in Ranges \cup {0} : SetRange(t) \in Commands /\ SetRange(t).op = "range"
  /\ \A t \in Points : SetPoint(t) \in Commands /\ SetPoint(t).op = "point"
  /\ \A c \in Commands :
       /\ c.op = "range" => c.arg \in Ranges \cup {0}
       /\ c.op = "point" => c.arg \in Points
       /\ c.op = "scan" => c = Scan
  BY DEF Commands, Command, SetRange, SetPoint, Scan, Queries

LEMMA PutOne ==
  ASSUME NEW w \in Seq(Commands), NEW c \in Commands
  PROVE  LET r == w \o <<c>>
         IN  Extended(w, r, {c.op}) /\ Len(r) = Len(w) + 1 /\ r[Len(r)] = c
<1> DEFINE r == w \o <<c>>
<1>1. r \in Seq(Commands) /\ Len(r) = Len(w) + 1 /\ Len(w) \in Nat /\ r[Len(r)] = c
      /\ \A i \in 1..Len(w) : r[i] = w[i]
  OBVIOUS
<1> HIDE DEF r
<1>2. \A i \in 1..Len(r) : i \in 1..Len(w) \/ i = Len(r)
  BY <1>1
<1> QED
  BY <1>1, <1>2 DEF Extended, r

LEMMA PutTwo ==
  ASSUME NEW w \in Seq(Commands), NEW c \in Commands, NEW d \in Commands
  PROVE  LET r == w \o <<c, d>>
         IN  /\ Extended(w, r, {c.op, d.op}) /\ Len(r) = Len(w) + 2
             /\ r[Len(w) + 1] = c /\ r[Len(w) + 2] = d
<1> DEFINE r == w \o <<c, d>>
<1>1. r \in Seq(Commands) /\ Len(r) = Len(w) + 2 /\ Len(w) \in Nat
      /\ r[Len(w) + 1] = c /\ r[Len(w) + 2] = d
      /\ \A i \in 1..Len(w) : r[i] = w[i]
  OBVIOUS
<1> HIDE DEF r
<1>2. \A i \in 1..Len(r) : i \in 1..Len(w) \/ i = Len(w) + 1 \/ i = Len(w) + 2
  BY <1>1
<1> QED
  BY <1>1, <1>2 DEF Extended, r

LEMMA PutThree ==
  ASSUME NEW w \in Seq(Commands), NEW c \in Commands, NEW d \in Commands, NEW e \in Commands
  PROVE  LET r == w \o <<c, d, e>>
         IN  /\ Extended(w, r, {c.op, d.op, e.op}) /\ Len(r) = Len(w) + 3
             /\ r[Len(w) + 1] = c /\ r[Len(w) + 2] = d /\ r[Len(w) + 3] = e
<1> DEFINE r == w \o <<c, d, e>>
<1>1. r \in Seq(Commands) /\ Len(r) = Len(w) + 3 /\ Len(w) \in Nat
      /\ r[Len(w) + 1] = c /\ r[Len(w) + 2] = d /\ r[Len(w) + 3] = e
      /\ \A i \in 1..Len(w) : r[i] = w[i]
  OBVIOUS
<1> HIDE DEF r
<1>2. \A i \in 1..Len(r) :
        i \in 1..Len(w) \/ i = Len(w) + 1 \/ i = Len(w) + 2 \/ i = Len(w) + 3
  BY <1>1
<1> QED
  BY <1>1, <1>2 DEF Extended, r

\* A write that fails puts some first part of its commands on the wire.
LEMMA PutPrefix ==
  ASSUME NEW w \in Seq(Commands), NEW s \in Seq(Commands), NEW p \in Prefixes(s),
         NEW ops, \A i \in 1..Len(s) : s[i].op \in ops
  PROVE  LET r == w \o p IN Extended(w, r, ops) /\ Len(r) <= Len(w) + Len(s)
<1>1. PICK n \in 0..Len(s) : p = SubSeq(s, 1, n)
  BY DEF Prefixes
<1>2. p \in Seq(Commands) /\ Len(p) = n /\ \A i \in 1..n : p[i] = s[i]
  BY <1>1, SubSeqProperties
<1> DEFINE r == w \o p
<1>3. /\ r \in Seq(Commands) /\ Len(r) = Len(w) + n /\ Len(w) \in Nat /\ n \in Nat
      /\ \A i \in 1..Len(w) : r[i] = w[i]
      /\ \A i \in 1..Len(r) : i > Len(w) => r[i] = p[i - Len(w)]
  <2>1. w \in Seq(Commands) /\ p \in Seq(Commands) /\ Len(p) = n /\ Len(p) \in Nat
    BY <1>2
  <2> HIDE <1>2
  <2> QED
    BY <2>1
<1> HIDE DEF r
<1>4. \A i \in 1..Len(r) : i \in 1..Len(w) \/ (i > Len(w) /\ r[i].op \in ops)
  <2> SUFFICES ASSUME NEW i \in 1..Len(r), i > Len(w)
               PROVE  r[i].op \in ops
    BY <1>3
  <2>1. i - Len(w) \in 1..n /\ n <= Len(s) /\ Len(s) \in Nat
    BY <1>3
  <2> DEFINE k == i - Len(w)
  <2>2. r[i] = p[k]
    BY <1>3
  <2> HIDE DEF k
  <2>3. p[k] = s[k] /\ s[k].op \in ops
    <3>1. k \in 1..n /\ k \in 1..Len(s)
      BY <2>1 DEF k
    <3> QED
      BY <1>2, <3>1
  <2> QED
    BY <2>2, <2>3
<1>5. n <= Len(s)
  OBVIOUS
<1> QED
  BY <1>3, <1>4, <1>5 DEF Extended, r

LEMMA TakeOff ==
  ASSUME NEW S, NEW w \in Seq(S), w # <<>>
  PROVE  LET r == Tail(w)
         IN  /\ r \in Seq(S) /\ Len(w) = Len(r) + 1 /\ Len(r) \in Nat
             /\ Head(w) = w[1] /\ w[1] \in S
             /\ \A i \in 1..Len(r) : r[i] = w[i + 1]
             /\ \A i \in 2..Len(w) : i - 1 \in 1..Len(r) /\ w[i] = r[i - 1]
  OBVIOUS

\* clear() leaves the younger replies, or none.
LEMMA Discarding ==
  ASSUME LineTypes, Discarded
  PROVE  /\ replies' \in Seq(Replies) /\ Len(replies') \in Nat /\ Len(replies) \in Nat
         /\ Len(replies') <= Len(replies)
         /\ \A i \in 1..Len(replies') : \E j \in 1..Len(replies) : replies'[i] = replies[j]
<1>1. PICK n \in 0..Len(replies) : replies' = SubSeq(replies, n + 1, Len(replies))
  BY DEF Discarded
<1> DEFINE r == replies'  m == Len(replies)
<1>2. m \in Nat /\ n \in 0..m
  BY DEF LineTypes
<1>3. /\ r \in Seq(Replies) /\ Len(r) = IF n + 1 <= m THEN m - n ELSE 0
      /\ \A i \in 1..Len(r) : r[i] = replies[n + i]
  <2>1. \A i \in (n + 1)..m : replies[i] \in Replies
    BY <1>2 DEF LineTypes
  <2> QED
    BY <1>1, <1>2, <2>1, SubSeqProperties DEF LineTypes
<1>4. \A i \in 1..Len(r) : n + i \in 1..m
  BY <1>2, <1>3
<1> QED
  BY <1>2, <1>3, <1>4

-----------------------------------------------------------------------------
(* How many answers are outstanding.                                       *)

Asks(w) == {i \in 1..Len(w) : w[i].op \in Queries}

LEMMA AsksFinite ==
  ASSUME NEW w \in Seq(Commands)
  PROVE  /\ IsFiniteSet(Asks(w)) /\ Cardinality(Asks(w)) \in Nat
         /\ Cardinality(Asks(w)) = 0 <=> \A i \in 1..Len(w) : w[i].op \notin Queries
<1>1. IsFiniteSet(1..Len(w)) /\ Asks(w) \subseteq 1..Len(w)
  BY FS_Interval DEF Asks
<1>2. IsFiniteSet(Asks(w))
  BY <1>1, FS_Subset
<1> QED
  BY <1>2, FS_CardinalityType, FS_EmptySet DEF Asks

LEMMA AsksExtended ==
  ASSUME NEW w \in Seq(Commands), NEW r, NEW ops, Extended(w, r, ops)
  PROVE  /\ ops \cap Queries = {} => Cardinality(Asks(r)) = Cardinality(Asks(w))
         /\ Len(r) <= Len(w) + 1 => Cardinality(Asks(r)) <= Cardinality(Asks(w)) + 1
<1>1. ASSUME ops \cap Queries = {}
      PROVE  Asks(r) = Asks(w)
  BY <1>1 DEF Asks, Extended
<1>2. ASSUME Len(r) <= Len(w) + 1
      PROVE  Cardinality(Asks(r)) <= Cardinality(Asks(w)) + 1
  <2> DEFINE U == Asks(w) \cup {Len(r)}
  <2>1. Asks(r) \subseteq U
    BY <1>2 DEF Asks, Extended
  <2>2. IsFiniteSet(U) /\ Cardinality(U) <= Cardinality(Asks(w)) + 1 /\ Cardinality(U) \in Nat
    <3>1. IsFiniteSet(U) /\ (Cardinality(U) = Cardinality(Asks(w))
                             \/ Cardinality(U) = Cardinality(Asks(w)) + 1)
      BY AsksFinite, FS_AddElement
    <3> QED
      BY <3>1, AsksFinite
  <2> HIDE DEF U
  <2>3. Cardinality(Asks(r)) <= Cardinality(U) /\ Cardinality(Asks(r)) \in Nat
    BY <2>1, <2>2, FS_Subset, FS_CardinalityType
  <2> QED
    BY <2>2, <2>3, AsksFinite
<1> QED
  BY <1>1, <1>2

LEMMA AsksTail ==
  ASSUME NEW w \in Seq(Commands), w # <<>>
  PROVE  Cardinality(Asks(w)) =
           Cardinality(Asks(Tail(w))) + IF w[1].op \in Queries THEN 1 ELSE 0
<1> DEFINE r == Tail(w)  later == Asks(w) \ {1}
<1>1. /\ r \in Seq(Commands) /\ Len(w) = Len(r) + 1 /\ Len(r) \in Nat
      /\ \A i \in 1..Len(r) : r[i] = w[i + 1]
      /\ \A i \in 2..Len(w) : i - 1 \in 1..Len(r) /\ w[i] = r[i - 1]
  BY TakeOff
<1> HIDE DEF r
<1>2. Cardinality(later) = Cardinality(Asks(r))
  <2> DEFINE f == [i \in Asks(r) |-> i + 1]
  <2>1. f \in Bijection(Asks(r), later)
    <3>1. f \in [Asks(r) -> later]
      BY <1>1 DEF Asks
    <3>2. \A a, b \in Asks(r) : f[a] = f[b] => a = b
      BY <1>1 DEF Asks
    <3>3. \A b \in later : \E a \in Asks(r) : f[a] = b
      <4> SUFFICES ASSUME NEW b \in later
                   PROVE  b - 1 \in Asks(r) /\ f[b - 1] = b
        OBVIOUS
      <4>1. b \in 2..Len(w) /\ w[b].op \in Queries
        BY <1>1 DEF Asks
      <4>2. b - 1 \in Asks(r)
        BY <1>1, <4>1 DEF Asks
      <4> QED
        BY <4>1, <4>2
    <3> HIDE DEF f, later
    <3> QED
      BY <3>1, <3>2, <3>3, Fun_IsBij
  <2>2. IsFiniteSet(Asks(r))
    BY <1>1, AsksFinite
  <2> HIDE DEF f, later
  <2> QED
    BY <2>1, <2>2, FS_Bijection DEF ExistsBijection
<1>3. 1 \in Asks(w) <=> w[1].op \in Queries
  BY <1>1 DEF Asks
<1>4. Cardinality(later) = IF 1 \in Asks(w) THEN Cardinality(Asks(w)) - 1 ELSE Cardinality(Asks(w))
  BY AsksFinite, FS_RemoveElement
<1> HIDE DEF later
<1> QED
  BY <1>1, <1>2, <1>3, <1>4, AsksFinite DEF r

LEMMA OutstandingIs ==
  ASSUME LineTypes
  PROVE  /\ Outstanding = Len(replies) + Cardinality(Asks(wire)) /\ Outstanding \in Nat
         /\ Len(replies) \in Nat /\ Cardinality(Asks(wire)) \in Nat
         /\ Outstanding = 0 => replies = <<>> /\ \A i \in 1..Len(wire) : wire[i].op \notin Queries
<1>1. Outstanding = Len(replies) + Cardinality(Asks(wire))
  BY DEF Outstanding, Unread, Asks
<1>2. Cardinality(Asks(wire)) \in Nat /\ Len(replies) \in Nat
  BY AsksFinite DEF LineTypes
<1>3. Outstanding = 0 => Len(replies) = 0 /\ Cardinality(Asks(wire)) = 0
  BY <1>1, <1>2
<1> QED
  BY <1>1, <1>2, <1>3, AsksFinite DEF LineTypes

-----------------------------------------------------------------------------
(* What the driver and the instrument do to the line.                      *)

Fewer == \A i \in 1..Len(replies') : \E j \in 1..Len(replies) : replies'[i] = replies[j]

\* Commands of the given kinds are written, replies are read or discarded.
Sends(ops) == LineTypes' /\ Extended(wire, wire', ops) /\ Fewer

LEMMA SameWire ==
  ASSUME LineTypes
  PROVE  Extended(wire, wire, {})
  BY DEF LineTypes, Extended

LEMMA LineStays ==
  ASSUME LineTypes, UNCHANGED line
  PROVE  Sends({}) /\ Outstanding' = Outstanding /\ replies' = replies /\ wire' = wire
  BY SameWire DEF Sends, Fewer, LineTypes, line, Outstanding, Unread

LEMMA WriteOfOne ==
  ASSUME LineTypes, NEW c \in Commands, Written(<<c>>) \/ WriteFails(<<c>>)
  PROVE  /\ Sends({c.op}) /\ replies' = replies /\ Outstanding' <= Outstanding + 1
         /\ c.op \notin Queries => Outstanding' = Outstanding
         /\ Written(<<c>>) => Len(wire') = Len(wire) + 1 /\ wire'[Len(wire')] = c
<1> DEFINE s == <<c>>
<1>1. s \in Seq(Commands) /\ Len(s) = 1 /\ \A i \in 1..Len(s) : s[i].op \in {c.op}
  OBVIOUS
<1>2. wire \in Seq(Commands)
  BY DEF LineTypes
<1>3. Extended(wire, wire', {c.op}) /\ Len(wire') <= Len(wire) + 1
  <2>1. CASE Written(s)
    BY <1>2, <2>1, PutOne DEF Written, Extended
  <2>2. CASE WriteFails(s)
    <3>1. PICK p \in Prefixes(s) : wire' = wire \o p
      BY <2>2 DEF WriteFails
    <3> HIDE DEF s
    <3> QED
      BY <1>1, <1>2, <3>1, PutPrefix
  <2> QED
    BY <2>1, <2>2
<1>4. replies' = replies /\ connected' = connected
  BY DEF Written, WriteFails
<1>5. LineTypes' /\ Fewer
  BY <1>3, <1>4 DEF LineTypes, Extended, Fewer
<1>6. /\ Cardinality(Asks(wire')) <= Cardinality(Asks(wire)) + 1
      /\ c.op \notin Queries => Cardinality(Asks(wire')) = Cardinality(Asks(wire))
  <2> DEFINE ops == {c.op}
  <2>1. Extended(wire, wire', ops) /\ (c.op \notin Queries => ops \cap Queries = {})
    BY <1>3
  <2> HIDE DEF ops
  <2> QED
    BY <1>2, <1>3, <2>1, AsksExtended
<1>7. /\ Outstanding = Len(replies) + Cardinality(Asks(wire)) /\ Len(replies) \in Nat
      /\ Cardinality(Asks(wire)) \in Nat
  BY OutstandingIs
<1>8. Outstanding' = Len(replies') + Cardinality(Asks(wire')) /\ Cardinality(Asks(wire')) \in Nat
  <2>1. Outstanding' = Len(replies') + Cardinality(Asks(wire'))
    BY DEF Outstanding, Unread, Asks
  <2> QED
    BY <1>5, <2>1, AsksFinite DEF LineTypes
<1>9. Written(<<c>>) => Len(wire') = Len(wire) + 1 /\ wire'[Len(wire')] = c
  BY <1>2, PutOne DEF Written
<1> QED
  BY <1>3, <1>4, <1>5, <1>6, <1>7, <1>8, <1>9 DEF Sends

LEMMA ClearAndWriteOne ==
  ASSUME LineTypes, NEW c \in Commands, NEW ok \in BOOLEAN, ClearAndWrite(c, ok)
  PROVE  /\ Sends({c.op}) /\ Outstanding' <= Outstanding + 1
         /\ c.op \notin Queries => Outstanding' <= Outstanding
         /\ ok => Len(wire') = Len(wire) + 1 /\ wire'[Len(wire')] = c
<1>1. wire \in Seq(Commands)
  BY DEF LineTypes
<1>2. wire' = wire \/ wire' = wire \o <<c>>
  BY <1>1 DEF ClearAndWrite
<1>3. Extended(wire, wire', {c.op}) /\ Len(wire') <= Len(wire) + 1
  <2>1. CASE wire' = wire
    BY <1>1, <2>1 DEF Extended
  <2>2. CASE wire' = wire \o <<c>>
    BY <1>1, <2>2, PutOne DEF Extended
  <2> QED
    BY <1>2, <2>1, <2>2
<1>4. /\ replies' \in Seq(Replies) /\ Len(replies') \in Nat /\ Len(replies) \in Nat
      /\ Len(replies') <= Len(replies) /\ Fewer
  BY Discarding DEF ClearAndWrite, Fewer
<1>5. LineTypes'
  BY <1>3, <1>4 DEF LineTypes, Extended, ClearAndWrite
<1>6. /\ Cardinality(Asks(wire')) <= Cardinality(Asks(wire)) + 1
      /\ c.op \notin Queries => Cardinality(Asks(wire')) = Cardinality(Asks(wire))
  <2> DEFINE ops == {c.op}
  <2>1. Extended(wire, wire', ops) /\ (c.op \notin Queries => ops \cap Queries = {})
    BY <1>3
  <2> HIDE DEF ops
  <2> QED
    BY <1>1, <1>3, <2>1, AsksExtended
<1>7. /\ Outstanding = Len(replies) + Cardinality(Asks(wire)) /\ Len(replies) \in Nat
      /\ Cardinality(Asks(wire)) \in Nat
  BY OutstandingIs
<1>8. Outstanding' = Len(replies') + Cardinality(Asks(wire')) /\ Cardinality(Asks(wire')) \in Nat
  <2>1. Outstanding' = Len(replies') + Cardinality(Asks(wire'))
    BY DEF Outstanding, Unread, Asks
  <2> QED
    BY <1>5, <2>1, AsksFinite DEF LineTypes
<1>9. ok => Len(wire') = Len(wire) + 1 /\ wire'[Len(wire')] = c
  BY <1>1, PutOne DEF ClearAndWrite
<1> QED
  BY <1>3, <1>4, <1>5, <1>6, <1>7, <1>8, <1>9 DEF Sends

\* Several commands, none of them a query.
LEMMA WriteOfMore ==
  ASSUME LineTypes, NEW s \in Seq(Commands), Written(s) \/ WriteFails(s),
         NEW ops, ops \cap Queries = {}, \A i \in 1..Len(s) : s[i].op \in ops
  PROVE  Sends(ops) /\ replies' = replies /\ Outstanding' = Outstanding
<1>1. wire \in Seq(Commands) /\ s \in Prefixes(s)
  <2>1. Len(s) \in 0..Len(s) /\ SubSeq(s, 1, Len(s)) = s
    BY SubSeqFull
  <2> QED
    BY <2>1 DEF LineTypes, Prefixes
<1>2. PICK p \in Prefixes(s) : wire' = wire \o p
  BY <1>1 DEF Written, WriteFails
<1>3. Extended(wire, wire', ops)
  BY <1>1, <1>2, PutPrefix
<1>4. replies' = replies /\ connected' = connected
  BY DEF Written, WriteFails
<1>5. LineTypes' /\ Fewer
  BY <1>3, <1>4 DEF LineTypes, Extended, Fewer
<1>6. Cardinality(Asks(wire')) = Cardinality(Asks(wire))
  BY <1>1, <1>3, AsksExtended
<1>7. Outstanding = Len(replies) + Cardinality(Asks(wire))
      /\ Outstanding' = Len(replies') + Cardinality(Asks(wire'))
  BY DEF Outstanding, Unread, Asks
<1> QED
  BY <1>3, <1>4, <1>5, <1>6, <1>7 DEF Sends

LEMMA ReadOne ==
  ASSUME LineTypes, Read
  PROVE  /\ Sends({}) /\ wire' = wire /\ Outstanding' = Outstanding - 1 /\ Outstanding >= 1
         /\ OldestReply = replies[1] /\ OldestReply \in Replies /\ 1 \in 1..Len(replies)
<1> DEFINE r == Tail(replies)
<1>1. /\ r \in Seq(Replies) /\ Len(replies) = Len(r) + 1 /\ Len(r) \in Nat
      /\ Head(replies) = replies[1] /\ replies[1] \in Replies
      /\ \A i \in 1..Len(r) : r[i] = replies[i + 1]
  BY TakeOff DEF LineTypes, Read
<1>2. r = replies' /\ wire' = wire /\ connected' = connected
  BY DEF Read
<1> HIDE DEF r
<1>3. Fewer
  BY <1>1, <1>2 DEF Fewer
<1>4. Outstanding = Len(replies) + Cardinality(Asks(wire))
      /\ Outstanding' = Len(replies') + Cardinality(Asks(wire'))
  BY DEF Outstanding, Unread, Asks
<1>5. Cardinality(Asks(wire)) \in Nat
  BY OutstandingIs
<1> QED
  BY <1>1, <1>2, <1>3, <1>4, <1>5, SameWire DEF Sends, LineTypes, OldestReply

LEMMA ClearOne ==
  ASSUME LineTypes, Clear
  PROVE  Sends({}) /\ wire' = wire /\ Outstanding' <= Outstanding
<1>1. /\ replies' \in Seq(Replies) /\ Len(replies') \in Nat /\ Len(replies) \in Nat
      /\ Len(replies') <= Len(replies) /\ Fewer
  BY Discarding DEF Clear, Fewer
<1>2. Outstanding = Len(replies) + Cardinality(Asks(wire))
      /\ Outstanding' = Len(replies') + Cardinality(Asks(wire'))
  BY DEF Outstanding, Unread, Asks
<1>3. Cardinality(Asks(wire)) \in Nat
  BY OutstandingIs
<1> QED
  BY <1>1, <1>2, <1>3, SameWire DEF Sends, LineTypes, Clear

\* The instrument takes the next command, and may answer it.
Takes == LineTypes' /\ wire # <<>> /\ wire' = Tail(wire) /\ wire[1] \in Commands

LEMMA ExecuteOne ==
  ASSUME LineTypes, wire # <<>>, Execute
  PROVE  Takes /\ replies' = replies /\ Outstanding' <= Outstanding /\ Head(wire) = wire[1]
<1>1. Tail(wire) \in Seq(Commands) /\ wire[1] \in Commands /\ Head(wire) = wire[1]
  BY TakeOff DEF LineTypes
<1>2. Cardinality(Asks(wire')) <= Cardinality(Asks(wire))
  <2>1. Cardinality(Asks(Tail(wire))) \in Nat
    BY <1>1, AsksFinite
  <2>2. Cardinality(Asks(wire)) =
          Cardinality(Asks(Tail(wire))) + IF wire[1].op \in Queries THEN 1 ELSE 0
    BY AsksTail DEF LineTypes
  <2> QED
    BY <2>1, <2>2 DEF Execute
<1>3. Outstanding = Len(replies) + Cardinality(Asks(wire))
      /\ Outstanding' = Len(replies') + Cardinality(Asks(wire'))
  BY DEF Outstanding, Unread, Asks
<1>4. LineTypes'
  BY <1>1 DEF Execute, LineTypes
<1>5. Cardinality(Asks(wire)) \in Nat /\ Cardinality(Asks(wire')) \in Nat /\ Len(replies) \in Nat
  BY <1>4, OutstandingIs, AsksFinite DEF LineTypes
<1> QED
  BY <1>1, <1>2, <1>3, <1>4, <1>5 DEF Takes, Execute

LEMMA AnswerOne ==
  ASSUME LineTypes, wire # <<>>, Head(wire).op \in Queries, NEW a \in Replies, Answer(a)
  PROVE  /\ Takes /\ Outstanding' <= Outstanding /\ Head(wire) = wire[1]
         /\ \A i \in 1..Len(replies') :
              replies'[i] = a \/ \E j \in 1..Len(replies) : replies'[i] = replies[j]
<1>1. Tail(wire) \in Seq(Commands) /\ wire[1] \in Commands /\ Head(wire) = wire[1]
  BY TakeOff DEF LineTypes
<1>2. Cardinality(Asks(wire)) = Cardinality(Asks(wire')) + 1 /\ Cardinality(Asks(wire')) \in Nat
  <2>1. Cardinality(Asks(Tail(wire))) \in Nat
    BY <1>1, AsksFinite
  <2>2. Cardinality(Asks(wire)) =
          Cardinality(Asks(Tail(wire))) + IF wire[1].op \in Queries THEN 1 ELSE 0
    BY AsksTail DEF LineTypes
  <2> QED
    BY <1>1, <2>1, <2>2 DEF Answer
<1>3. Outstanding = Len(replies) + Cardinality(Asks(wire))
      /\ Outstanding' = Len(replies') + Cardinality(Asks(wire'))
  BY DEF Outstanding, Unread, Asks
<1>4. /\ replies' \in Seq(Replies) /\ Len(replies') <= Len(replies) + 1
      /\ Len(replies') \in Nat /\ Len(replies) \in Nat
      /\ \A i \in 1..Len(replies') :
           replies'[i] = a \/ \E j \in 1..Len(replies) : replies'[i] = replies[j]
  <2> DEFINE r == Append(replies, a)
  <2>1. /\ r \in Seq(Replies) /\ Len(r) = Len(replies) + 1 /\ Len(replies) \in Nat
        /\ r[Len(r)] = a /\ \A i \in 1..Len(replies) : r[i] = replies[i]
    BY DEF LineTypes
  <2> HIDE DEF r
  <2>2. \A i \in 1..Len(r) : i = Len(r) \/ i \in 1..Len(replies)
    BY <2>1
  <2>3. replies' = r \/ replies' = replies
    BY DEF Answer, r
  <2> QED
    BY <2>1, <2>2, <2>3 DEF LineTypes
<1>5. LineTypes'
  BY <1>1, <1>4 DEF Answer, LineTypes
<1>6. Outstanding' <= Outstanding
  BY <1>2, <1>3, <1>4
<1>7. Takes
  BY <1>1, <1>5 DEF Takes, Answer
<1> QED
  BY <1>1, <1>4, <1>6, <1>7

-----------------------------------------------------------------------------
(* What stays true of the commands on the wire while others are put behind *)
(* them, and while they are taken off one by one.                          *)

LEMMA Behind ==
  ASSUME NEW w, NEW r, NEW ops, Extended(w, r, ops)
  PROVE  /\ \A i \in 1..Len(w) : i \in 1..Len(r) /\ r[i] = w[i]
         /\ \A i \in 1..Len(w) : \A j \in (i + 1)..Len(r) :
              j \in (i + 1)..Len(w) \/ r[j].op \in ops
  BY DEF Extended

LEMMA NonePut ==
  ASSUME NEW w, NEW r, NEW ops, Extended(w, r, ops), NEW op, op \notin ops, None(w, op)
  PROVE  None(r, op)
  BY DEF None, Extended

LEMMA SetPut ==
  ASSUME NEW w, NEW r, NEW ops, Extended(w, r, ops), NEW op, op \notin ops,
         NEW t, NEW now, SetTo(w, op, t, now)
  PROVE  SetTo(r, op, t, now)
<1>1. CASE now = t /\ None(w, op)
  BY <1>1, NonePut DEF SetTo
<1>2. CASE \E i \in 1..Len(w) : w[i] = Command(op, t)
                                /\ \A j \in (i + 1)..Len(w) : w[j].op # op
  <2>1. PICK i \in 1..Len(w) : w[i] = Command(op, t)
                               /\ \A j \in (i + 1)..Len(w) : w[j].op # op
    BY <1>2
  <2>2. i \in 1..Len(r) /\ r[i] = Command(op, t) /\ \A j \in (i + 1)..Len(r) : r[j].op # op
    BY <2>1, Behind
  <2> QED
    BY <2>2 DEF SetTo
<1> QED
  BY <1>1, <1>2 DEF SetTo

LEMMA SetLast ==
  ASSUME NEW w, NEW op, NEW t, NEW i \in 1..Len(w), w[i] = Command(op, t),
         \A j \in (i + 1)..Len(w) : w[j].op # op
  PROVE  \A now : SetTo(w, op, t, now)
  BY DEF SetTo

LEMMA ClearedPut ==
  ASSUME NEW w, NEW r, NEW ops, Extended(w, r, ops), "point" \notin ops,
         NEW t, NEW held, HoldCleared(w, t, held)
  PROVE  HoldCleared(r, t, held)
<1>1. CASE held \in {0, t} /\ None(w, "point")
  BY <1>1, NonePut DEF HoldCleared
<1>2. CASE \E i \in 1..Len(w) : w[i].op = "reset"
                                /\ \A j \in (i + 1)..Len(w) : w[j].op # "point"
  <2>1. PICK i \in 1..Len(w) : w[i].op = "reset"
                               /\ \A j \in (i + 1)..Len(w) : w[j].op # "point"
    BY <1>2
  <2>2. i \in 1..Len(r) /\ r[i].op = "reset" /\ \A j \in (i + 1)..Len(r) : r[j].op # "point"
    BY <2>1, Behind
  <2> QED
    BY <2>2 DEF HoldCleared
<1> QED
  BY <1>1, <1>2 DEF HoldCleared

LEMMA OrderPut ==
  ASSUME NEW w, NEW r, NEW ops, Extended(w, r, ops)
  PROVE  /\ "scan" \notin ops /\ OnlyOne(w, "scan") => OnlyOne(r, "scan")
         /\ \A op, after : op \notin ops /\ Before(w, op, after) => Before(r, op, after)
         /\ \A what : OnlyAsked(w, what) /\ ops \cap Queries \subseteq {what} => OnlyAsked(r, what)
<1>1. "scan" \notin ops /\ OnlyOne(w, "scan") => OnlyOne(r, "scan")
  BY DEF OnlyOne, Extended
<1>2. ASSUME NEW op, NEW after, op \notin ops, Before(w, op, after)
      PROVE  Before(r, op, after)
  <2> SUFFICES ASSUME NEW i \in 1..Len(r), NEW j \in 1..Len(r), r[i].op = op, r[j].op \in after
               PROVE  i < j
    BY DEF Before
  <2>1. i \in 1..Len(w) /\ w[i].op = op
    BY <1>2 DEF Extended
  <2>2. CASE j \in 1..Len(w)
    BY <1>2, <2>1, <2>2 DEF Before, Extended
  <2>3. CASE j \notin 1..Len(w)
    BY <2>1, <2>3 DEF Extended
  <2> QED
    BY <2>2, <2>3
<1>3. ASSUME NEW what, OnlyAsked(w, what), ops \cap Queries \subseteq {what}
      PROVE  OnlyAsked(r, what)
  BY <1>3 DEF OnlyAsked, Extended
<1> QED
  BY <1>1, <1>2, <1>3

\* "r" is what is left of "w" after its first command.
Shorter(w, r) ==
  /\ Len(r) \in Nat /\ Len(w) = Len(r) + 1
  /\ \A i \in 1..Len(r) : i + 1 \in 1..Len(w) /\ r[i] = w[i + 1]
  /\ \A i \in 2..Len(w) : i - 1 \in 1..Len(r) /\ w[i] = r[i - 1]

LEMMA TailShorter ==
  ASSUME LineTypes, Takes
  PROVE  Shorter(wire, wire') /\ 1 \in 1..Len(wire)
<1> DEFINE w == wire  r == Tail(wire)
<1>1. /\ r \in Seq(Commands) /\ Len(w) = Len(r) + 1 /\ Len(r) \in Nat
      /\ \A i \in 1..Len(r) : r[i] = w[i + 1]
      /\ \A i \in 2..Len(w) : i - 1 \in 1..Len(r) /\ w[i] = r[i - 1]
  BY TakeOff DEF LineTypes, Takes
<1>2. wire' = r
  BY DEF Takes
<1> HIDE DEF w, r
<1>3. Shorter(w, r) /\ 1 \in 1..Len(w)
  BY <1>1 DEF Shorter
<1> QED
  BY <1>2, <1>3 DEF w

LEMMA AfterIt ==
  ASSUME NEW w, NEW r, Shorter(w, r), NEW i \in 1..Len(w), i # 1
  PROVE  /\ i - 1 \in 1..Len(r) /\ r[i - 1] = w[i]
         /\ \A j \in ((i - 1) + 1)..Len(r) : j + 1 \in (i + 1)..Len(w) /\ r[j] = w[j + 1]
<1>1. i \in 2..Len(w) /\ i - 1 \in 1..Len(r) /\ r[i - 1] = w[i]
  BY DEF Shorter
<1>2. ASSUME NEW j \in ((i - 1) + 1)..Len(r)
      PROVE  j + 1 \in (i + 1)..Len(w) /\ r[j] = w[j + 1]
  <2>1. j \in 1..Len(r) /\ j + 1 \in (i + 1)..Len(w)
    BY <1>1 DEF Shorter
  <2> QED
    BY <2>1 DEF Shorter
<1> QED
  BY <1>1, <1>2

LEMMA NoneTaken ==
  ASSUME NEW w, NEW r, Shorter(w, r), NEW op
  PROVE  None(w, op) => None(r, op) /\ w[1].op # op
  BY DEF None, Shorter

LEMMA SetTaken ==
  ASSUME NEW w, NEW r, Shorter(w, r), NEW op, NEW t, NEW now, SetTo(w, op, t, now)
  PROVE  /\ w[1].op # op => SetTo(r, op, t, now)
         /\ w[1].op = op => SetTo(r, op, t, w[1].arg)
<1>1. CASE now = t /\ None(w, op)
  BY <1>1, NoneTaken DEF SetTo
<1>2. CASE \E i \in 1..Len(w) : w[i] = Command(op, t)
                                /\ \A j \in (i + 1)..Len(w) : w[j].op # op
  <2>1. PICK i \in 1..Len(w) : w[i] = Command(op, t)
                               /\ \A j \in (i + 1)..Len(w) : w[j].op # op
    BY <1>2
  <2>2. CASE i = 1
    <3>1. w[1].op = op /\ w[1].arg = t
      BY <2>1, <2>2 DEF Command
    <3>2. None(r, op)
      BY <2>1, <2>2 DEF None, Shorter
    <3> QED
      BY <3>1, <3>2 DEF SetTo
  <2>3. CASE i # 1
    <3>1. i - 1 \in 1..Len(r) /\ r[i - 1] = Command(op, t)
      BY <2>1, <2>3, AfterIt
    <3>2. \A j \in ((i - 1) + 1)..Len(r) : r[j].op # op
      BY <2>1, <2>3, AfterIt
    <3> QED
      BY <3>1, <3>2 DEF SetTo
  <2> QED
    BY <2>2, <2>3
<1> QED
  BY <1>1, <1>2 DEF SetTo

LEMMA ClearedTaken ==
  ASSUME NEW w, NEW r, Shorter(w, r), NEW t, NEW held, HoldCleared(w, t, held)
  PROVE  /\ w[1].op # "reset" => HoldCleared(r, t, held)
         /\ w[1].op = "reset" => HoldCleared(r, t, 0)
<1>1. CASE held \in {0, t} /\ None(w, "point")
  BY <1>1, NoneTaken DEF HoldCleared
<1>2. CASE \E i \in 1..Len(w) : w[i].op = "reset"
                                /\ \A j \in (i + 1)..Len(w) : w[j].op # "point"
  <2>1. PICK i \in 1..Len(w) : w[i].op = "reset"
                               /\ \A j \in (i + 1)..Len(w) : w[j].op # "point"
    BY <1>2
  <2>2. CASE i = 1
    <3>1. None(r, "point")
      BY <2>1, <2>2 DEF None, Shorter
    <3> QED
      BY <2>1, <2>2, <3>1 DEF HoldCleared
  <2>3. CASE i # 1
    <3>1. i - 1 \in 1..Len(r) /\ r[i - 1].op = "reset"
      BY <2>1, <2>3, AfterIt
    <3>2. \A j \in ((i - 1) + 1)..Len(r) : r[j].op # "point"
      BY <2>1, <2>3, AfterIt
    <3> QED
      BY <3>1, <3>2 DEF HoldCleared
  <2> QED
    BY <2>2, <2>3
<1> QED
  BY <1>1, <1>2 DEF HoldCleared

LEMMA OrderTaken ==
  ASSUME NEW w, NEW r, Shorter(w, r)
  PROVE  /\ OnlyOne(w, "scan") => OnlyOne(r, "scan")
         /\ OnlyOne(w, "scan") /\ w[1].op = "scan" => None(r, "scan")
         /\ \A op, after : Before(w, op, after) => Before(r, op, after)
         /\ \A op, after : Before(w, op, after) /\ w[1].op \in after => None(w, op)
         /\ \A what : OnlyAsked(w, what) => OnlyAsked(r, what)
<1>1. OnlyOne(w, "scan") => OnlyOne(r, "scan")
  <2> SUFFICES ASSUME OnlyOne(w, "scan"), NEW i \in 1..Len(r), NEW j \in 1..Len(r),
                      r[i].op = "scan", r[j].op = "scan"
               PROVE  i = j
    BY DEF OnlyOne
  <2>1. /\ i + 1 \in 1..Len(w) /\ w[i + 1].op = "scan"
        /\ j + 1 \in 1..Len(w) /\ w[j + 1].op = "scan"
    BY DEF Shorter
  <2>2. i + 1 = j + 1
    BY <2>1 DEF OnlyOne
  <2> QED
    BY <2>2
<1>2. OnlyOne(w, "scan") /\ w[1].op = "scan" => None(r, "scan")
  BY DEF OnlyOne, Shorter, None
<1>3. ASSUME NEW op, NEW after, Before(w, op, after)
      PROVE  Before(r, op, after)
  <2> SUFFICES ASSUME NEW i \in 1..Len(r), NEW j \in 1..Len(r), r[i].op = op, r[j].op \in after
               PROVE  i < j
    BY DEF Before
  <2>1. /\ i + 1 \in 1..Len(w) /\ w[i + 1].op = op
        /\ j + 1 \in 1..Len(w) /\ w[j + 1].op \in after
    BY DEF Shorter
  <2>2. i + 1 < j + 1
    BY <1>3, <2>1 DEF Before
  <2> QED
    BY <2>2
<1>4. ASSUME NEW op, NEW after, Before(w, op, after), w[1].op \in after
      PROVE  None(w, op)
  BY <1>4 DEF Before, Shorter, None
<1>5. ASSUME NEW what, OnlyAsked(w, what)
      PROVE  OnlyAsked(r, what)
  BY <1>5 DEF OnlyAsked, Shorter
<1> QED
  BY <1>1, <1>2, <1>3, <1>4, <1>5

-----------------------------------------------------------------------------
(* The actions that write, by what they put on the line.                   *)

LEMMA QuerySends ==
  ASSUME LineTypes, NEW what \in Queries, NEW next, NEW failed, NEW ok \in BOOLEAN,
         Query(what, next, failed, ok)
  PROVE  /\ Sends({what}) /\ replies' = replies
         /\ Outstanding' <= Outstanding + 1
         /\ (at' = next /\ dirty' = dirty) \/ (at' = failed /\ dirty' = TRUE)
<1>1. Ask(what) \in Commands /\ Ask(what).op = what
  BY CommandTypes DEF Ask
<1>2. Written(<<Ask(what)>>) \/ WriteFails(<<Ask(what)>>)
  BY DEF Query
<1>3. Sends({what}) /\ replies' = replies /\ Outstanding' <= Outstanding + 1
  BY <1>1, <1>2, WriteOfOne
<1> QED
  BY <1>3 DEF Query

LEMMA IdentitySends ==
  ASSUME LineTypes, NEW next, NEW ok \in BOOLEAN, QueryIdentity(next, ok)
  PROVE  /\ Sends({"idn"}) /\ replies' = replies
         /\ Outstanding' <= Outstanding + 1
         /\ (at' = next /\ dirty' = dirty) \/ (at' = "idle" /\ dirty' = TRUE)
<1>1. Ask("idn") \in Commands /\ Ask("idn").op = "idn" /\ "idn" \in Queries
  BY CommandTypes DEF Ask, Queries
<1>2. CASE ok /\ token /\ replies = <<>>
  <2>1. Written(<<Ask("idn")>>)
    BY <1>2 DEF QueryIdentity
  <2>2. Sends({"idn"}) /\ replies' = replies /\ Outstanding' <= Outstanding + 1
    BY <1>1, <2>1, WriteOfOne
  <2> QED
    BY <1>2, <2>2 DEF QueryIdentity
<1>3. CASE ~(ok /\ token /\ replies = <<>>)
  <2>1. Query("idn", next, "idle", ok)
    BY <1>3 DEF QueryIdentity
  <2> QED
    BY <1>1, <2>1, QuerySends
<1> QED
  BY <1>2, <1>3

\* What the commands of a configuration and of its start put on the wire.
LEMMA SetUpSends ==
  ASSUME LineTypes, NEW ok \in BOOLEAN
  PROVE  /\ \A t \in Ranges : ConfigureScan(t, ok) => Sends({"stop", "range"})
         /\ \A t \in Points : ConfigureMeter(t, ok) => Sends({"stop", "point"})
         /\ ArmScan(ok) => Sends({"scan"})
         /\ ArmMeter(ok) => Sends({"reset", "meter"})
         /\ TakeControl(ok) => Sends({"stop"})
         /\ (\E t \in Ranges : ConfigureScan(t, ok)) \/ (\E t \in Points : ConfigureMeter(t, ok))
            \/ ArmScan(ok) \/ ArmMeter(ok) \/ TakeControl(ok)
            => replies' = replies /\ Outstanding' = Outstanding
<1> DEFINE Line(ops) == Sends(ops) /\ replies' = replies /\ Outstanding' = Outstanding
<1>1. ASSUME NEW t \in Ranges, ConfigureScan(t, ok)
      PROVE  Line({"stop", "range"})
  <2> DEFINE s == <<Stop, SetRange(0), SetRange(t)>>
  <2>1. s \in Seq(Commands) /\ \A i \in 1..Len(s) : s[i].op \in {"stop", "range"}
    <3>1. /\ Stop \in Commands /\ Stop.op = "stop"
          /\ SetRange(0) \in Commands /\ SetRange(0).op = "range"
          /\ SetRange(t) \in Commands /\ SetRange(t).op = "range"
      BY CommandTypes DEF Stop
    <3> QED
      BY <3>1
  <2>2. Written(s) \/ WriteFails(s)
    BY <1>1 DEF ConfigureScan
  <2>3. {"stop", "range"} \cap Queries = {}
    BY DEF Queries
  <2> HIDE DEF s
  <2> QED
    BY <2>1, <2>2, <2>3, WriteOfMore
<1>2. ASSUME NEW t \in Points, ConfigureMeter(t, ok)
      PROVE  Line({"stop", "point"})
  <2> DEFINE s == <<Stop, SetPoint(t)>>
  <2>1. s \in Seq(Commands) /\ \A i \in 1..Len(s) : s[i].op \in {"stop", "point"}
    <3>1. /\ Stop \in Commands /\ Stop.op = "stop"
          /\ SetPoint(t) \in Commands /\ SetPoint(t).op = "point"
      BY CommandTypes DEF Stop
    <3> QED
      BY <3>1
  <2>2. Written(s) \/ WriteFails(s)
    BY <1>2 DEF ConfigureMeter
  <2>3. {"stop", "point"} \cap Queries = {}
    BY DEF Queries
  <2> HIDE DEF s
  <2> QED
    BY <2>1, <2>2, <2>3, WriteOfMore
<1>3. ASSUME ArmScan(ok)
      PROVE  Line({"scan"})
  <2>1. Scan \in Commands /\ Scan.op = "scan" /\ "scan" \notin Queries
    BY CommandTypes DEF Scan, Queries
  <2>2. Written(<<Scan>>) \/ WriteFails(<<Scan>>)
    BY <1>3 DEF ArmScan
  <2> QED
    BY <2>1, <2>2, WriteOfOne
<1>4. ASSUME ArmMeter(ok)
      PROVE  Line({"reset", "meter"})
  <2> DEFINE s == <<ResetHold, Meter>>
  <2>1. s \in Seq(Commands) /\ \A i \in 1..Len(s) : s[i].op \in {"reset", "meter"}
    <3>1. /\ ResetHold \in Commands /\ ResetHold.op = "reset"
          /\ Meter \in Commands /\ Meter.op = "meter"
      BY CommandTypes DEF ResetHold, Meter
    <3> QED
      BY <3>1
  <2>2. Written(s) \/ WriteFails(s)
    BY <1>4 DEF ArmMeter
  <2>3. {"reset", "meter"} \cap Queries = {}
    BY DEF Queries
  <2> HIDE DEF s
  <2> QED
    BY <2>1, <2>2, <2>3, WriteOfMore
<1>5. ASSUME TakeControl(ok)
      PROVE  Line({"stop"})
  <2>1. Stop \in Commands /\ Stop.op = "stop" /\ "stop" \notin Queries
    BY CommandTypes DEF Stop, Queries
  <2>2. Written(<<Stop>>) \/ WriteFails(<<Stop>>)
    BY <1>5 DEF TakeControl
  <2> QED
    BY <2>1, <2>2, WriteOfOne
<1> HIDE DEF Line
<1>6. \A ops : Line(ops) => Sends(ops) /\ replies' = replies /\ Outstanding' = Outstanding
  BY DEF Line
<1> QED
  BY <1>1, <1>2, <1>3, <1>4, <1>5, <1>6

LEMMA ProbeSends ==
  ASSUME LineTypes, NEW ok \in BOOLEAN
  PROVE  /\ Probe(ok) => Sends({"idn"}) /\ Outstanding' <= Outstanding + 1
         /\ Abort(ok) => Sends({"stop"}) /\ Outstanding' <= Outstanding
<1>1. Ask("idn") \in Commands /\ Ask("idn").op = "idn"
  BY CommandTypes DEF Ask, Queries
<1>2. Stop \in Commands /\ Stop.op = "stop" /\ "stop" \notin Queries
  BY CommandTypes DEF Stop, Queries
<1>3. ASSUME Probe(ok)
      PROVE  Sends({"idn"}) /\ Outstanding' <= Outstanding + 1
  <2>1. ClearAndWrite(Ask("idn"), ok)
    BY <1>3 DEF Probe
  <2> QED
    BY <1>1, <2>1, ClearAndWriteOne
<1>4. ASSUME Abort(ok)
      PROVE  Sends({"stop"}) /\ Outstanding' <= Outstanding
  <2>1. ClearAndWrite(Stop, ok)
    BY <1>4 DEF Abort
  <2> QED
    BY <1>2, <2>1, ClearAndWriteOne
<1> QED
  BY <1>3, <1>4

LEMMA CutSends ==
  ASSUME LineTypes, QueryCut
  PROVE  Sends(Queries) /\ Outstanding' <= Outstanding + 1
<1> DEFINE what == IF purpose = "open" THEN "mode" ELSE "trace"
<1>1. what \in Queries
  BY DEF Queries
<1> HIDE DEF what
<1>2. Ask(what) \in Commands /\ Ask(what).op = what
  BY <1>1, CommandTypes DEF Ask
<1>3. WriteFails(<<Ask(what)>>)
  BY DEF QueryCut, what
<1>4. Sends({what}) /\ Outstanding' <= Outstanding + 1
  BY <1>2, <1>3, WriteOfOne
<1> QED
  BY <1>1, <1>4 DEF Sends, Extended, QueryCut

\* A new connection carries the change of personality and nothing else.
LEMMA OpenLine ==
  ASSUME NEW ok \in BOOLEAN, Open(ok)
  PROVE  /\ LineTypes' /\ replies' = <<>> /\ Outstanding' = 0
         /\ \A i \in 1..Len(wire') : i = 1
<1>1. Prefixes(<<Select>>) \subseteq {<<>>, <<Select>>}
  <2> DEFINE s == <<Select>>
  <2>1. s \in Seq(Commands) /\ Len(s) = 1 /\ 0..1 = {0, 1}
    <3>1. Select \in Commands
      BY CommandTypes DEF Select
    <3> QED
      BY <3>1
  <2> HIDE DEF s
  <2>2. Prefixes(s) = {SubSeq(s, 1, n) : n \in {0, 1}}
    BY <2>1 DEF Prefixes
  <2>3. SubSeq(s, 1, 0) = <<>> /\ SubSeq(s, 1, 1) = s
    BY <2>1, SubSeqEmpty, SubSeqFull
  <2>4. Prefixes(s) \subseteq {<<>>, s}
    BY <2>2, <2>3
  <2> QED
    BY <2>4 DEF s
<1>2. wire' \in {<<>>, <<Select>>} /\ replies' = <<>> /\ connected' \in BOOLEAN
  BY <1>1 DEF Open, Connected, NotConnected
<1>3. Select \in Commands /\ Select.op \notin Queries
  BY CommandTypes DEF Select, Queries
<1>4. wire' \in Seq(Commands) /\ \A i \in 1..Len(wire') : i = 1 /\ wire'[i].op \notin Queries
  <2>1. CASE wire' = <<>>
    BY <2>1
  <2>2. CASE wire' = <<Select>>
    BY <1>3, <2>2
  <2> QED
    BY <1>2, <2>1, <2>2
<1>5. Cardinality(Asks(wire')) = 0
  BY <1>4, AsksFinite
<1>6. Outstanding' = Len(replies') + Cardinality(Asks(wire'))
  BY DEF Outstanding, Unread, Asks
<1> QED
  BY <1>2, <1>4, <1>5, <1>6 DEF LineTypes

LEMMA CloseLine ==
  ASSUME LineTypes, NEW ok \in BOOLEAN, Close(ok)
  PROVE  Sends({"stop"}) /\ Outstanding' <= Outstanding /\ replies' = <<>>
<1>1. wire \in Seq(Commands) /\ wire \o <<>> = wire
  BY DEF LineTypes
<1>2. Stop \in Commands /\ Stop.op = "stop" /\ {"stop"} \cap Queries = {}
  BY CommandTypes DEF Stop, Queries
<1>3. Extended(wire, wire', {"stop"})
  <2>1. CASE ok
    BY <1>1, <1>2, <2>1, PutOne DEF Close, Closed
  <2>2. CASE ~ok
    BY <1>1, <2>2 DEF Close, Closed, Extended
  <2> QED
    BY <2>1, <2>2
<1>4. replies' = <<>> /\ connected' = FALSE
  BY DEF Close, Closed
<1>5. LineTypes' /\ Fewer
  <2>1. replies' \in Seq(Replies) /\ Len(replies') = 0 /\ connected' \in BOOLEAN
    BY <1>4, EmptySeq
  <2>2. wire' \in Seq(Commands)
    BY <1>3 DEF Extended
  <2> QED
    BY <2>1, <2>2 DEF LineTypes, Fewer
<1>6. Cardinality(Asks(wire')) = Cardinality(Asks(wire))
  BY <1>1, <1>2, <1>3, AsksExtended
<1>7. Outstanding = Len(replies) + Cardinality(Asks(wire)) /\ Len(replies) \in Nat
      /\ Cardinality(Asks(wire)) \in Nat
  BY OutstandingIs
<1>8. Outstanding' = Len(replies') + Cardinality(Asks(wire')) /\ Len(replies') = 0
  BY <1>4 DEF Outstanding, Unread, Asks
<1> QED
  BY <1>3, <1>4, <1>5, <1>6, <1>7, <1>8 DEF Sends

-----------------------------------------------------------------------------
(* The other actions, by what they do to the line.                         *)

LEMMA LineOfWork ==
  ASSUME LineTypes
  PROVE  /\ GiveUp \/ WaitEnds \/ ProbeUnanswered \/ DwellEnds \/ MeterStops
            \/ BusyNoMore \/ HoldPeak \/ UNCHANGED vars
            => Sends({}) /\ Outstanding' = Outstanding /\ replies' = replies /\ wire' = wire
         /\ ProbeAnswered \/ DrainRead \/ ModeRead \/ IdentityRead \/ ScanRead \/ MeterRead
            => /\ Sends({}) /\ Outstanding' = Outstanding - 1 /\ Outstanding >= 1
               /\ wire' = wire /\ replies # <<>>
               /\ OldestReply = replies[1] /\ 1 \in 1..Len(replies)
         /\ DrainEnds \/ DrainCut => Sends({}) /\ Outstanding' <= Outstanding /\ wire' = wire
<1>1. ASSUME GiveUp \/ WaitEnds \/ ProbeUnanswered \/ DwellEnds \/ MeterStops
             \/ BusyNoMore \/ HoldPeak \/ UNCHANGED vars
      PROVE  UNCHANGED line
  BY <1>1 DEF GiveUp, WaitEnds, ProbeUnanswered, DwellEnds, MeterStops, BusyNoMore, HoldPeak, vars
<1>2. ASSUME ProbeAnswered \/ DrainRead \/ ModeRead \/ IdentityRead \/ ScanRead \/ MeterRead
      PROVE  Read
  BY <1>2 DEF ProbeAnswered, DrainRead, ModeRead, IdentityRead, ScanRead, MeterRead
<1>3. ASSUME DrainEnds \/ DrainCut
      PROVE  Clear
  BY <1>3 DEF DrainEnds, DrainCut
<1>4. Read => replies # <<>>
  BY DEF Read
<1> QED
  BY <1>1, <1>2, <1>3, <1>4, LineStays, ReadOne, ClearOne

LEMMA LineOfQueries ==
  ASSUME LineTypes, NEW ok \in BOOLEAN
  PROVE  /\ AskMode(ok) \/ FetchScan(ok) \/ ReadMeter(ok) \/ AskIdentity(ok) \/ LabelTrace(ok)
            => /\ Sends(Queries) /\ replies' = replies
               /\ Outstanding' <= Outstanding + 1
         /\ AskMode(ok) => (at' = "mode" /\ dirty' = dirty) \/ (at' = "broken" /\ dirty' = TRUE)
         /\ AskIdentity(ok) => (at' = "identify" /\ dirty' = dirty) \/ (at' = "idle" /\ dirty' = TRUE)
         /\ LabelTrace(ok) => (at' = "label" /\ dirty' = dirty) \/ (at' = "idle" /\ dirty' = TRUE)
         /\ FetchScan(ok) =>
              /\ Sends({"trace"})
              /\ (at' = "fetch" /\ dirty' = dirty) \/ (at' = "idle" /\ dirty' = TRUE)
         /\ ReadMeter(ok) =>
              /\ Sends({"peak"})
              /\ (at' = "reading" /\ dirty' = dirty) \/ (at' = "idle" /\ dirty' = TRUE)
<1>1. {"mode", "trace", "peak", "idn"} \subseteq Queries
  BY DEF Queries
<1>2. \A what \in Queries : Sends({what}) => Sends(Queries)
  BY DEF Sends, Extended
<1>3. ASSUME AskMode(ok)
      PROVE  /\ Sends(Queries) /\ replies' = replies
             /\ Outstanding' <= Outstanding + 1
             /\ (at' = "mode" /\ dirty' = dirty) \/ (at' = "broken" /\ dirty' = TRUE)
  BY <1>1, <1>2, <1>3, QuerySends DEF AskMode
<1>4. ASSUME FetchScan(ok)
      PROVE  /\ Sends(Queries) /\ Sends({"trace"}) /\ replies' = replies
             /\ Outstanding' <= Outstanding + 1
             /\ (at' = "fetch" /\ dirty' = dirty) \/ (at' = "idle" /\ dirty' = TRUE)
  BY <1>1, <1>2, <1>4, QuerySends DEF FetchScan
<1>5. ASSUME ReadMeter(ok)
      PROVE  /\ Sends(Queries) /\ Sends({"peak"}) /\ replies' = replies
             /\ Outstanding' <= Outstanding + 1
             /\ (at' = "reading" /\ dirty' = dirty) \/ (at' = "idle" /\ dirty' = TRUE)
  BY <1>1, <1>2, <1>5, QuerySends DEF ReadMeter
<1>6. ASSUME AskIdentity(ok)
      PROVE  /\ Sends(Queries) /\ replies' = replies
             /\ Outstanding' <= Outstanding + 1
             /\ (at' = "identify" /\ dirty' = dirty) \/ (at' = "idle" /\ dirty' = TRUE)
  BY <1>1, <1>2, <1>6, IdentitySends DEF AskIdentity
<1>7. ASSUME LabelTrace(ok)
      PROVE  /\ Sends(Queries) /\ replies' = replies
             /\ Outstanding' <= Outstanding + 1
             /\ (at' = "label" /\ dirty' = dirty) \/ (at' = "idle" /\ dirty' = TRUE)
  BY <1>1, <1>2, <1>7, IdentitySends DEF LabelTrace
<1> QED
  BY <1>3, <1>4, <1>5, <1>6, <1>7

LEMMA LineOfInstrument ==
  ASSUME LineTypes,
         Deaf \/ Switch \/ BeStopped \/ ChangeRange \/ BeginScan
         \/ ChangePoint \/ ForgetPeak \/ BeginMeter
  PROVE  /\ Takes /\ replies' = replies /\ Outstanding' <= Outstanding /\ Head(wire) = wire[1]
         /\ Shorter(wire, wire') /\ 1 \in 1..Len(wire)
<1>1. wire # <<>> /\ Execute
  BY DEF Deaf, Switch, BeStopped, ChangeRange, BeginScan, ChangePoint, ForgetPeak, BeginMeter,
         UpNext
<1> QED
  BY <1>1, ExecuteOne, TailShorter

LEMMA LineOfAnswer ==
  ASSUME TypeInv, AnswerQuery
  PROVE  /\ Takes /\ Outstanding' <= Outstanding
         /\ Shorter(wire, wire') /\ 1 \in 1..Len(wire) /\ wire[1].op \in Queries
         /\ \A i \in 1..Len(replies') :
              \/ replies'[i] = AnswerTo(wire[1].op)
              \/ \E j \in 1..Len(replies) : replies'[i] = replies[j]
<1>1. PICK what \in Queries : UpNext(what) /\ Answer(AnswerTo(what))
  BY DEF AnswerQuery
<1>2. AnswerTo(what) \in Replies
  BY <1>1 DEF AnswerTo, Replies, Reply, TypeInv, Queries
<1>3. LineTypes /\ wire # <<>> /\ Head(wire).op = what
  BY <1>1 DEF TypeInv, UpNext
<1> QED
  BY <1>1, <1>2, <1>3, AnswerOne, TailShorter

-----------------------------------------------------------------------------
(* Types, and what the positions of the worker say of its target.          *)

LEMMA TypeInit == Init => TypeInv
<1> SUFFICES ASSUME Init
             PROVE  TypeInv
  OBVIOUS
<1>1. wire = <<>> /\ replies = <<>> /\ connected = FALSE
  BY DEF Init, LineInit
<1>2. LineTypes
  BY <1>1, EmptySeq DEF LineTypes
<1> QED
  BY <1>2 DEF Init, TypeInv, Waits, Dwells

LEMMA TypeStep ==
  ASSUME TypeInv, Next
  PROVE  TypeInv'
<1> USE DEF settled, waiting, instrument, observers, driver, Waits, Dwells
<1>0. LineTypes
  BY DEF TypeInv
<1>1. ASSUME NEW ok \in BOOLEAN, Open(ok)
      PROVE  TypeInv'
  <2>1. LineTypes'
    BY <1>1, OpenLine
  <2> QED
    BY <1>1, <2>1 DEF TypeInv, Open
<1>2. ASSUME NEW ok \in BOOLEAN, Close(ok)
      PROVE  TypeInv'
  <2>1. LineTypes'
    BY <1>0, <1>2, CloseLine DEF Sends
  <2> QED
    BY <1>2, <2>1 DEF TypeInv, Close
<1>3. ASSUME NEW ok \in BOOLEAN,
             AskMode(ok) \/ FetchScan(ok) \/ ReadMeter(ok) \/ AskIdentity(ok) \/ LabelTrace(ok)
      PROVE  TypeInv'
  <2>1. LineTypes'
    BY <1>0, <1>3, LineOfQueries DEF Sends
  <2>2. /\ UNCHANGED <<waiting, settled, instrument>>
        /\ at' \in {"mode", "identify", "label", "fetch", "reading", "idle", "broken"}
        /\ at' = "fetch" => at = "swept"
        /\ at' = "reading" => at = "dwelt"
    BY <1>0, <1>3, LineOfQueries DEF AskMode, FetchScan, ReadMeter, AskIdentity, LabelTrace
  <2> QED
    BY <2>1, <2>2 DEF TypeInv
<1>4. ASSUME NEW ok \in BOOLEAN, Probe(ok) \/ Abort(ok)
      PROVE  TypeInv'
  <2>1. LineTypes'
    BY <1>0, <1>4, ProbeSends DEF Sends
  <2>2. UNCHANGED <<waiting, target, identified, result, instrument>>
        /\ (at' = at \/ (at = "wait" /\ at' = "probe"))
    BY <1>4 DEF Probe, Abort
  <2> QED
    BY <2>1, <2>2 DEF TypeInv
<1>5. ASSUME NEW ok \in BOOLEAN, NEW t \in Ranges, ConfigureScan(t, ok)
      PROVE  TypeInv'
  <2>1. LineTypes'
    BY <1>0, <1>5, SetUpSends DEF Sends
  <2> QED
    BY <1>5, <2>1 DEF TypeInv, ConfigureScan
<1>6. ASSUME NEW ok \in BOOLEAN, NEW t \in Points, ConfigureMeter(t, ok)
      PROVE  TypeInv'
  <2>1. LineTypes'
    BY <1>0, <1>6, SetUpSends DEF Sends
  <2> QED
    BY <1>6, <2>1 DEF TypeInv, ConfigureMeter
<1>7. ASSUME NEW ok \in BOOLEAN, ArmScan(ok) \/ ArmMeter(ok) \/ TakeControl(ok)
      PROVE  TypeInv'
  <2>1. LineTypes'
    BY <1>0, <1>7, SetUpSends DEF Sends
  <2> QED
    BY <1>7, <2>1 DEF TypeInv, ArmScan, ArmMeter, TakeControl
<1>8. ASSUME GiveUp \/ WaitEnds \/ ProbeUnanswered \/ DwellEnds \/ MeterStops
             \/ BusyNoMore \/ HoldPeak
      PROVE  TypeInv'
  <2>1. LineTypes'
    BY <1>0, <1>8, LineOfWork DEF Sends
  <2> QED
    BY <1>8, <2>1
    DEF TypeInv, GiveUp, WaitEnds, ProbeUnanswered, DwellEnds, MeterStops, BusyNoMore, HoldPeak
<1>9. ASSUME ProbeAnswered \/ DrainRead \/ ModeRead \/ IdentityRead \/ ScanRead \/ MeterRead
      PROVE  TypeInv'
  <2>1. LineTypes'
    BY <1>0, <1>9, LineOfWork DEF Sends
  <2>2. CASE ScanRead \/ MeterRead
    BY <2>1, <2>2 DEF TypeInv, ScanRead, MeterRead, AfterTrace
  <2>3. CASE ProbeAnswered \/ DrainRead
    BY <2>1, <2>3 DEF TypeInv, ProbeAnswered, DrainRead
  <2>4. CASE ModeRead \/ IdentityRead
    BY <2>1, <2>4 DEF TypeInv, ModeRead, IdentityRead
  <2> QED
    BY <1>9, <2>2, <2>3, <2>4
<1>10. ASSUME DrainEnds \/ DrainCut
       PROVE  TypeInv'
  <2>1. LineTypes'
    BY <1>0, <1>10, LineOfWork DEF Sends
  <2> QED
    BY <1>10, <2>1 DEF TypeInv, DrainEnds, DrainCut, AfterWait
<1>11. ASSUME QueryCut
       PROVE  TypeInv'
  <2>1. LineTypes'
    BY <1>0, <1>11, CutSends DEF Sends
  <2> QED
    BY <1>11, <2>1 DEF TypeInv, QueryCut
<1>12. ASSUME Deaf \/ Switch \/ BeStopped \/ ChangeRange \/ BeginScan
              \/ ChangePoint \/ ForgetPeak \/ BeginMeter
       PROVE  TypeInv'
  <2>1. LineTypes' /\ Head(wire) = wire[1] /\ wire[1] \in Commands
    BY <1>0, <1>12, LineOfInstrument DEF Takes
  <2>2. /\ wire[1].op = "range" => wire[1].arg \in Ranges \cup {0}
        /\ wire[1].op = "point" => wire[1].arg \in Points
    BY <2>1, CommandTypes
  <2> QED
    BY <1>12, <2>1, <2>2
    DEF TypeInv, Deaf, Switch, BeStopped, ChangeRange, BeginScan, ChangePoint, ForgetPeak,
        BeginMeter, UpNext
<1>13. ASSUME AnswerQuery
       PROVE  TypeInv'
  <2>1. LineTypes'
    BY <1>13, LineOfAnswer DEF Takes
  <2> QED
    BY <1>13, <2>1 DEF TypeInv, AnswerQuery
<1> QED
  BY <1>1, <1>2, <1>3, <1>4, <1>5, <1>6, <1>7, <1>8, <1>9, <1>10, <1>11, <1>12, <1>13
  DEF Next, Work, Instrument

-----------------------------------------------------------------------------
(* The answers that are outstanding.                                       *)

LEMMA OutstandingNext ==
  ASSUME LineTypes'
  PROVE  Outstanding' \in Nat
<1>1. Outstanding' = Len(replies') + Cardinality(Asks(wire'))
  BY DEF Outstanding, Unread, Asks
<1>2. Cardinality(Asks(wire')) \in Nat /\ Len(replies') \in Nat
  BY AsksFinite DEF LineTypes
<1> QED
  BY <1>1, <1>2

LEMMA QuietInit == Init => QuietInv
<1> SUFFICES ASSUME Init
             PROVE  QuietInv
  OBVIOUS
<1>1. LineTypes /\ at = "closed" /\ drains = 0 /\ wire = <<>> /\ replies = <<>>
  BY TypeInit DEF Init, LineInit, TypeInv
<1>2. Asks(wire) = {} /\ Len(replies) = 0
  BY <1>1 DEF Asks
<1>3. Outstanding = 0
  <2>1. Cardinality(Asks(wire)) = 0
    BY <1>2, FS_EmptySet
  <2>2. Outstanding = Len(replies) + Cardinality(Asks(wire))
    BY <1>1, OutstandingIs
  <2> HIDE <1>1
  <2> QED
    BY <1>2, <2>1, <2>2
<1> QED
  BY <1>1, <1>3 DEF QuietInv

LEMMA QuietStep ==
  ASSUME TypeInv, QuietInv, Next
  PROVE  QuietInv'
<1> USE DEF settled, waiting, instrument, observers, driver
<1>0. LineTypes
  BY DEF TypeInv
<1>n. Outstanding \in Nat /\ Outstanding' \in Nat
  <2>1. LineTypes'
    BY TypeStep DEF TypeInv
  <2> QED
    BY <1>0, <2>1, OutstandingIs, OutstandingNext
<1> DEFINE n == Outstanding  m == Outstanding'
<1>q. /\ (QuietInv <=> (~dirty =>
             /\ at # "cut"
             /\ at \in {"responsive", "entered", "open", "idle", "configured", "swept",
                       "unlabelled", "dwell", "dwelt"} => n = 0
             /\ at \in {"mode", "fetch", "identify", "label", "reading"} => n <= 1))
      /\ (QuietInv' <=> (~dirty' =>
             /\ at' # "cut"
             /\ at' \in {"responsive", "entered", "open", "idle", "configured", "swept",
                        "unlabelled", "dwell", "dwelt"} => m = 0
             /\ at' \in {"mode", "fetch", "identify", "label", "reading"} => m <= 1))
  BY DEF QuietInv
<1>i. n \in Nat /\ m \in Nat
  BY <1>n
<1>1. ASSUME NEW ok \in BOOLEAN, Open(ok)
      PROVE  QuietInv'
  <2>1. m = 0
    BY <1>1, OpenLine
  <2> HIDE DEF n, m
  <2> QED
    BY <1>0, <1>q, <1>i, <1>1, <2>1 DEF Open
<1>2. ASSUME NEW ok \in BOOLEAN, Close(ok)
      PROVE  QuietInv'
  <2>1. m <= n
    BY <1>0, <1>2, CloseLine
  <2> HIDE DEF n, m
  <2> QED
    BY <1>0, <1>q, <1>i, <1>2, <2>1 DEF Close
<1>3. ASSUME NEW ok \in BOOLEAN,
             AskMode(ok) \/ FetchScan(ok) \/ ReadMeter(ok) \/ AskIdentity(ok) \/ LabelTrace(ok)
      PROVE  QuietInv'
  <2>1. m <= n + 1
    BY <1>0, <1>3, LineOfQueries
  <2>2. \/ /\ at' \in {"mode", "identify", "label", "reading", "fetch"} /\ dirty' = dirty
           /\ at' = "mode" => at = "responsive"
           /\ at' \in {"identify", "label"} => at \in {"open", "unlabelled"}
           /\ at' = "fetch" => at = "swept"
           /\ at' = "reading" => at = "dwelt"
        \/ at' \in {"idle", "broken"} /\ dirty' = TRUE
    BY <1>0, <1>3, LineOfQueries DEF AskMode, FetchScan, ReadMeter, AskIdentity, LabelTrace
  <2> HIDE DEF n, m
  <2> QED
    BY <1>0, <1>q, <1>i, <2>1, <2>2
<1>4. ASSUME NEW ok \in BOOLEAN, Probe(ok)
      PROVE  QuietInv'
  <2>1. m <= n + 1
    BY <1>0, <1>4, ProbeSends DEF Probe
  <2> HIDE DEF n, m
  <2> QED
    BY <1>0, <1>q, <1>i, <1>4, <2>1 DEF Probe
<1>5. ASSUME NEW ok \in BOOLEAN, Abort(ok)
      PROVE  QuietInv'
  <2>1. m <= n
    BY <1>0, <1>5, ProbeSends
  <2> HIDE DEF n, m
  <2> QED
    BY <1>0, <1>q, <1>i, <1>5, <2>1 DEF Abort
<1>6. ASSUME NEW ok \in BOOLEAN,
             \/ \E t \in Ranges : ConfigureScan(t, ok)
             \/ \E t \in Points : ConfigureMeter(t, ok)
             \/ ArmScan(ok) \/ ArmMeter(ok) \/ TakeControl(ok)
      PROVE  QuietInv'
  <2>1. m = n
    BY <1>0, <1>6, SetUpSends
  <2>2. /\ UNCHANGED dirty
        /\ at \in {"idle", "configured", "entered"}
        /\ at' \in {"idle", "configured", "wait", "dwell", "open", "broken"}
    BY <1>6 DEF ConfigureScan, ConfigureMeter, ArmScan, ArmMeter, TakeControl
  <2> HIDE DEF n, m
  <2> QED
    BY <1>0, <1>q, <1>i, <2>1, <2>2
<1>7. ASSUME GiveUp \/ WaitEnds \/ ProbeUnanswered \/ DwellEnds \/ MeterStops
             \/ BusyNoMore \/ HoldPeak
      PROVE  QuietInv'
  <2>1. m = n
    BY <1>0, <1>7, LineOfWork
  <2> HIDE DEF n, m
  <2> QED
    BY <1>0, <1>q, <1>i, <1>7, <2>1
    DEF GiveUp, WaitEnds, ProbeUnanswered, DwellEnds, MeterStops, BusyNoMore, HoldPeak
<1>8. ASSUME ProbeAnswered \/ DrainRead \/ ModeRead \/ IdentityRead \/ ScanRead \/ MeterRead
      PROVE  QuietInv'
  <2>1. m = n - 1 /\ n >= 1
    BY <1>0, <1>8, LineOfWork
  <2>2. CASE ProbeAnswered \/ DrainRead
    <3> HIDE DEF n, m
    <3> QED
      BY <1>0, <1>q, <1>i, <2>1, <2>2 DEF ProbeAnswered, DrainRead
  <2>3. CASE ModeRead \/ IdentityRead \/ ScanRead \/ MeterRead
    <3>1. /\ UNCHANGED dirty
          /\ at \in {"mode", "identify", "label", "fetch", "reading"}
          /\ at' \in {"entered", "broken", "idle", "unlabelled", "dwelt"}
      BY <2>3 DEF ModeRead, IdentityRead, ScanRead, MeterRead, AfterTrace
    <3> HIDE DEF n, m
    <3> QED
      BY <1>0, <1>q, <1>i, <2>1, <3>1
  <2> QED
    BY <1>8, <2>2, <2>3
<1>9. ASSUME DrainEnds
      PROVE  QuietInv'
  <2>1. at' \in {"responsive", "swept", "idle"} /\ (dirty' <=> m > 0)
    BY <1>9 DEF DrainEnds, AfterWait
  <2> HIDE DEF n, m
  <2>2. ~dirty' => m = 0
    BY <1>i, <2>1
  <2> QED
    BY <1>q, <2>1, <2>2
<1>10. ASSUME DrainCut
       PROVE  QuietInv'
  <2>1. m <= n
    BY <1>0, <1>10, LineOfWork
  <2>2. at' \in {"cut", "idle"} /\ dirty' = TRUE
    BY <1>10 DEF DrainCut
  <2> HIDE DEF n, m
  <2> QED
    BY <1>0, <1>q, <1>i, <2>1, <2>2
<1>11. ASSUME QueryCut
       PROVE  QuietInv'
  <2>1. m <= n + 1
    BY <1>0, <1>11, CutSends
  <2>2. at = "cut" /\ at' \in {"broken", "idle"} /\ UNCHANGED dirty
    BY <1>11 DEF QueryCut
  <2> HIDE DEF n, m
  <2> QED
    BY <1>0, <1>q, <1>i, <2>1, <2>2
<1>12. ASSUME Deaf \/ Switch \/ BeStopped \/ ChangeRange \/ BeginScan
              \/ ChangePoint \/ ForgetPeak \/ BeginMeter \/ AnswerQuery
       PROVE  QuietInv'
  <2>1. m <= n
    BY <1>0, <1>12, LineOfInstrument, LineOfAnswer
  <2>2. UNCHANGED <<at, dirty>>
    BY <1>12
    DEF Deaf, Switch, BeStopped, ChangeRange, BeginScan, ChangePoint, ForgetPeak, BeginMeter,
        AnswerQuery
  <2> HIDE DEF n, m
  <2> QED
    BY <1>0, <1>q, <1>i, <2>1, <2>2
<1> QED
  BY <1>1, <1>2, <1>3, <1>4, <1>5, <1>6, <1>7, <1>8, <1>9, <1>10, <1>11, <1>12
  DEF Next, Work, Instrument

-----------------------------------------------------------------------------
(* The change of personality.                                              *)

\* What the driver does between two connections.
Moves ==
  \/ \E ok \in BOOLEAN :
       \/ AskMode(ok) \/ FetchScan(ok) \/ ReadMeter(ok) \/ AskIdentity(ok) \/ LabelTrace(ok)
       \/ Probe(ok) \/ Abort(ok)
       \/ \E t \in Ranges : ConfigureScan(t, ok)
       \/ \E t \in Points : ConfigureMeter(t, ok)
       \/ ArmScan(ok) \/ ArmMeter(ok) \/ TakeControl(ok)
  \/ GiveUp \/ WaitEnds \/ ProbeUnanswered \/ DwellEnds \/ MeterStops
  \/ ProbeAnswered \/ DrainRead \/ ModeRead \/ IdentityRead \/ ScanRead \/ MeterRead
  \/ DrainEnds \/ DrainCut \/ QueryCut

Unready == {"closed", "broken", "wait", "probe"}

LEMMA Moving ==
  ASSUME TypeInv, Moves
  PROVE  /\ \E ops : Sends(ops) /\ "select" \notin ops
         /\ UNCHANGED instrument
         /\ at' \in {"wait", "probe"} /\ purpose' = "scan" =>
              (at \in {"wait", "probe"} /\ purpose = "scan") \/ at = "configured"
         /\ at' \notin Unready =>
              \/ at \notin Unready \/ replies # <<>>
              \/ at \in {"wait", "probe"} /\ purpose = "scan"
<1> USE DEF settled, waiting, instrument, observers, driver, Unready
<1> DEFINE Steps == at' \in {"wait", "probe"} /\ purpose' = "scan" =>
                      (at \in {"wait", "probe"} /\ purpose = "scan") \/ at = "configured"
           Leaves == at' \notin Unready =>
                       \/ at \notin Unready \/ replies # <<>>
                       \/ at \in {"wait", "probe"} /\ purpose = "scan"
           Goal == (\E ops : Sends(ops) /\ "select" \notin ops) /\ UNCHANGED instrument
                   /\ Steps /\ Leaves
<1>0. LineTypes /\ "select" \notin Queries /\ purpose \in {"open", "scan"}
  BY DEF TypeInv, Queries
<1>1. ASSUME NEW ok \in BOOLEAN,
             AskMode(ok) \/ FetchScan(ok) \/ ReadMeter(ok) \/ AskIdentity(ok) \/ LabelTrace(ok)
      PROVE  Goal
  <2>1. Sends(Queries)
    BY <1>0, <1>1, LineOfQueries
  <2>2. /\ at' \in {"mode", "identify", "label", "reading", "fetch", "idle", "broken"}
        /\ at \in {"responsive", "open", "unlabelled", "swept", "dwelt"}
        /\ UNCHANGED instrument
    BY <1>0, <1>1, LineOfQueries DEF AskMode, FetchScan, ReadMeter, AskIdentity, LabelTrace
  <2> QED
    BY <1>0, <2>1, <2>2
<1>2. ASSUME NEW ok \in BOOLEAN, Probe(ok) \/ Abort(ok)
      PROVE  Goal
  <2>1. Sends({"idn"}) \/ Sends({"stop"})
    BY <1>0, <1>2, ProbeSends
  <2>2. UNCHANGED <<instrument, purpose>> /\ (at' = at \/ (at = "wait" /\ at' = "probe"))
    BY <1>2 DEF Probe, Abort
  <2> QED
    BY <2>1, <2>2
<1>3. ASSUME NEW ok \in BOOLEAN,
             \/ \E t \in Ranges : ConfigureScan(t, ok)
             \/ \E t \in Points : ConfigureMeter(t, ok)
             \/ ArmScan(ok) \/ ArmMeter(ok) \/ TakeControl(ok)
      PROVE  Goal
  <2>1. \/ Sends({"stop", "range"}) \/ Sends({"stop", "point"}) \/ Sends({"scan"})
        \/ Sends({"reset", "meter"}) \/ Sends({"stop"})
    BY <1>0, <1>3, SetUpSends
  <2>2. /\ UNCHANGED instrument /\ at \in {"idle", "configured", "entered"}
        /\ at' \in {"idle", "configured", "wait", "dwell", "open", "broken"}
        /\ at' = "wait" => at = "configured"
    BY <1>3 DEF ConfigureScan, ConfigureMeter, ArmScan, ArmMeter, TakeControl
  <2> QED
    BY <2>1, <2>2
<1>4. ASSUME GiveUp \/ WaitEnds \/ ProbeUnanswered \/ DwellEnds \/ MeterStops
      PROVE  Goal
  <2>1. Sends({})
    BY <1>0, <1>4, LineOfWork
  <2>2. UNCHANGED instrument /\ Steps /\ Leaves
    BY <1>0, <1>4 DEF GiveUp, WaitEnds, ProbeUnanswered, DwellEnds, MeterStops
  <2> QED
    BY <2>1, <2>2
<1>5. ASSUME ProbeAnswered \/ DrainRead \/ ModeRead \/ IdentityRead \/ ScanRead \/ MeterRead
      PROVE  Goal
  <2>1. Sends({}) /\ replies # <<>>
    BY <1>0, <1>5, LineOfWork
  <2>2. UNCHANGED instrument /\ at' \notin {"wait", "probe"}
    BY <1>5 DEF ProbeAnswered, DrainRead, ModeRead, IdentityRead, ScanRead, MeterRead, AfterTrace
  <2> QED
    BY <2>1, <2>2
<1>6. ASSUME DrainEnds \/ DrainCut
      PROVE  Goal
  <2>1. Sends({})
    BY <1>0, <1>6, LineOfWork
  <2>2. UNCHANGED instrument /\ at = "drain" /\ at' \in {"responsive", "idle", "swept", "cut"}
    BY <1>6 DEF DrainEnds, DrainCut, AfterWait
  <2> QED
    BY <2>1, <2>2
<1>7. ASSUME QueryCut
      PROVE  Goal
  <2>1. Sends(Queries)
    BY <1>0, <1>7, CutSends
  <2>2. UNCHANGED instrument /\ at = "cut" /\ at' \in {"broken", "idle"}
    BY <1>7 DEF QueryCut
  <2> QED
    BY <1>0, <2>1, <2>2
<1> HIDE DEF Goal
<1>8. Goal
  BY <1>1, <1>2, <1>3, <1>4, <1>5, <1>6, <1>7 DEF Moves
<1> QED
  BY <1>8 DEF Goal

LEMMA NextMoves ==
  Next <=> \/ \E ok \in BOOLEAN : Open(ok) \/ Close(ok)
           \/ Moves \/ Instrument
  BY DEF Next, Work, Moves

LEMMA ReadyStep ==
  ASSUME TypeInv, ReadyInv, Next
  PROVE  ReadyInv'
<1> USE DEF settled, waiting, instrument, observers, driver
<1> DEFINE First(w) == \A i \in 2..Len(w) : w[i].op # "select"
           Past == \/ at \notin Unready \/ replies # <<>>
                   \/ at \in {"wait", "probe"} /\ purpose = "scan"
<1>0. LineTypes /\ First(wire) /\ (Past => Ready)
  BY DEF TypeInv, ReadyInv, Unready
<1>d. First(wire') /\ (Past' => Ready') => ReadyInv'
  BY DEF ReadyInv, Unready
<1>1. ASSUME NEW ok \in BOOLEAN, Open(ok)
      PROVE  ReadyInv'
  <2>1. replies' = <<>> /\ \A i \in 1..Len(wire') : i = 1
    BY <1>1, OpenLine
  <2>2. First(wire')
    BY <2>1
  <2>3. at' \in {"wait", "broken"} /\ purpose' = "open"
    BY <1>1 DEF Open
  <2> QED
    BY <1>d, <2>1, <2>2, <2>3 DEF Unready
<1>s. ASSUME NEW ops, Sends(ops), "select" \notin ops
      PROVE  First(wire') /\ (replies' # <<>> => replies # <<>>)
  <2>1. First(wire')
    BY <1>0, <1>s DEF Sends, Extended
  <2>2. replies' # <<>> => replies # <<>>
    <3> SUFFICES ASSUME replies = <<>>
                 PROVE  replies' = <<>>
      OBVIOUS
    <3>1. \A i \in 1..Len(replies') : FALSE
      BY <1>s DEF Sends, Fewer
    <3>2. replies' \in Seq(Replies)
      BY <1>s DEF Sends, LineTypes
    <3> QED
      BY <3>1, <3>2
  <2> QED
    BY <2>1, <2>2
<1>2. ASSUME NEW ok \in BOOLEAN, Close(ok)
      PROVE  ReadyInv'
  <2>1. Sends({"stop"}) /\ replies' = <<>>
    BY <1>0, <1>2, CloseLine
  <2>2. at' = "closed"
    BY <1>2 DEF Close
  <2> QED
    BY <1>d, <1>s, <2>1, <2>2 DEF Unready
<1>3. ASSUME Moves
      PROVE  ReadyInv'
  <2>1. PICK ops : Sends(ops) /\ "select" \notin ops
    BY <1>3, Moving
  <2>2. First(wire') /\ (replies' # <<>> => replies # <<>>)
    BY <1>s, <2>1
  <2>3. Past' => Past
    BY <1>3, <2>2, Moving DEF Unready
  <2>4. Ready => Ready'
    BY <1>3, <2>1, Moving, NonePut DEF Ready, Sends
  <2> QED
    BY <1>0, <1>d, <2>2, <2>3, <2>4
<1>t. ASSUME Shorter(wire, wire')
      PROVE  First(wire') /\ (None(wire, "select") => None(wire', "select"))
  BY <1>0, <1>t, NoneTaken DEF Shorter
<1>4. ASSUME Deaf \/ BeStopped \/ ChangeRange \/ BeginScan \/ ChangePoint \/ ForgetPeak
             \/ BeginMeter
      PROVE  ReadyInv'
  <2>1. Shorter(wire, wire') /\ replies' = replies
    BY <1>0, <1>4, LineOfInstrument
  <2>2. /\ UNCHANGED <<at, purpose>>
        /\ busy # "switching" => busy' # "switching"
    BY <1>4 DEF Deaf, BeStopped, ChangeRange, BeginScan, ChangePoint, ForgetPeak, BeginMeter
  <2> QED
    BY <1>0, <1>d, <1>t, <2>1, <2>2 DEF Ready
<1>5. ASSUME Switch
      PROVE  ReadyInv'
  <2>1. /\ Shorter(wire, wire') /\ replies' = replies /\ wire[1].op = "select"
        /\ 1 \in 1..Len(wire)
    BY <1>0, <1>5, LineOfInstrument DEF Switch, UpNext
  <2>2. UNCHANGED <<at, purpose>>
    BY <1>5 DEF Switch
  <2>3. ~Past
    BY <1>0, <2>1 DEF Ready, None
  <2> QED
    BY <1>d, <1>t, <2>1, <2>2, <2>3
<1>6. ASSUME BusyNoMore \/ HoldPeak
      PROVE  ReadyInv'
  <2>1. wire' = wire /\ replies' = replies
    BY <1>0, <1>6, LineOfWork
  <2>2. UNCHANGED <<at, purpose>> /\ (busy' = busy \/ busy' = "no")
    BY <1>6 DEF BusyNoMore, HoldPeak
  <2> QED
    BY <1>0, <1>d, <2>1, <2>2 DEF Ready
<1>7. ASSUME AnswerQuery
      PROVE  ReadyInv'
  <2>1. Shorter(wire, wire') /\ wire[1].op \in Queries
    BY <1>7, LineOfAnswer
  <2>2. busy' = "no"
    BY <1>7 DEF AnswerQuery
  <2>3. None(wire', "select")
    BY <1>0, <2>1 DEF None, Shorter
  <2> QED
    BY <1>d, <1>t, <2>1, <2>2, <2>3 DEF Ready
<1> QED
  BY <1>1, <1>2, <1>3, <1>4, <1>5, <1>6, <1>7, NextMoves DEF Instrument

-----------------------------------------------------------------------------
(* The scan.                                                               *)

LEMMA ScanKept ==
  ASSUME NEW ops, Sends(ops), "scan" \notin ops, "range" \notin ops,
         UNCHANGED <<busy, range, scanned, target>>
  PROVE  /\ Calm => Calm'
         /\ SetTo(wire, "range", target, range) => SetTo(wire', "range", target', range')
         /\ ScanPending => ScanPending'
         /\ ScanTaken => ScanTaken'
<1>1. Extended(wire, wire', ops)
  BY DEF Sends
<1>2. /\ None(wire, "scan") => None(wire', "scan")
      /\ ~None(wire, "scan") => ~None(wire', "scan")
  BY <1>1, NonePut, Behind DEF None
<1>3. SetTo(wire, "range", target, range) => SetTo(wire', "range", target', range')
  BY <1>1, SetPut
<1>4. /\ OnlyOne(wire, "scan") => OnlyOne(wire', "scan")
      /\ Before(wire, "range", {"scan"}) => Before(wire', "range", {"scan"})
  BY <1>1, OrderPut
<1> QED
  BY <1>2, <1>3, <1>4 DEF Calm, ScanPending, ScanTaken

LEMMA ScanTakes ==
  ASSUME Shorter(wire, wire'), wire[1].op \notin {"scan", "range"}, 1 \in 1..Len(wire),
         UNCHANGED <<busy, range, scanned, target>>
  PROVE  /\ Calm => Calm'
         /\ SetTo(wire, "range", target, range) => SetTo(wire', "range", target', range')
         /\ ScanPending => ScanPending'
<1>1. /\ None(wire, "scan") => None(wire', "scan")
      /\ ~None(wire, "scan") => ~None(wire', "scan")
  <2>1. ASSUME NEW i \in 1..Len(wire), wire[i].op = "scan"
        PROVE  ~None(wire', "scan")
    <3>1. i # 1 /\ i \in 2..Len(wire)
      BY <2>1 DEF Shorter
    <3> QED
      BY <2>1, <3>1 DEF None, Shorter
  <2>2. ~None(wire, "scan") => \E i \in 1..Len(wire) : wire[i].op = "scan"
    BY DEF None
  <2> QED
    BY <2>1, <2>2, NoneTaken
<1>2. SetTo(wire, "range", target, range) => SetTo(wire', "range", target', range')
  BY SetTaken
<1>3. /\ OnlyOne(wire, "scan") => OnlyOne(wire', "scan")
      /\ Before(wire, "range", {"scan"}) => Before(wire', "range", {"scan"})
  BY OrderTaken
<1> QED
  BY <1>1, <1>2, <1>3 DEF Calm, ScanPending

LEMMA NoScanInResult ==
  /\ NoResult.asked \notin Ranges /\ NoResult.asked \notin Points
  /\ \A p \in Points : p \notin Ranges
  BY TargetsAssumption DEF NoResult, TargetsAssumption

\* A configuration that does not desert a scan finds the instrument at rest.
LEMMA CalmBefore ==
  ASSUME TypeInv, ReadyInv, at = "idle", ~StillScanning
  PROVE  Calm
<1>1. busy = "no"
  BY DEF TypeInv, ReadyInv, Ready, StillScanning
<1>2. None(wire, "scan")
  <2>1. \A i \in 1..Len(wire) : wire[i] \in Commands
    BY DEF TypeInv, LineTypes
  <2> QED
    BY <2>1, CommandTypes DEF None, StillScanning
<1> QED
  BY <1>1, <1>2 DEF Calm

LEMMA ScanConfigured ==
  ASSUME TypeInv, ReadyInv, NEW ok \in BOOLEAN, NEW t \in Ranges, ConfigureScan(t, ok),
         ~StillScanning
  PROVE  Calm' /\ (ok => SetTo(wire', "range", target', range'))
<1>1. Calm
  BY CalmBefore DEF ConfigureScan
<1>2. Extended(wire, wire', {"stop", "range"})
  BY SetUpSends DEF TypeInv, Sends
<1>3. Calm'
  <2>1. None(wire', "scan")
    BY <1>1, <1>2, NonePut DEF Calm
  <2> QED
    BY <1>1, <2>1 DEF Calm, ConfigureScan, instrument
<1>4. ASSUME ok
      PROVE  SetTo(wire', "range", target', range')
  <2>1. Stop \in Commands /\ SetRange(0) \in Commands /\ SetRange(t) \in Commands
    BY CommandTypes DEF Stop
  <2>2. wire' = wire \o <<Stop, SetRange(0), SetRange(t)>> /\ target' = t
    BY <1>4 DEF ConfigureScan, Written
  <2>3. Len(wire') = Len(wire) + 3 /\ wire'[Len(wire) + 3] = SetRange(t) /\ Len(wire) \in Nat
    BY <2>1, <2>2, PutThree DEF TypeInv, LineTypes
  <2> DEFINE k == Len(wire) + 3
  <2>4. k \in 1..Len(wire') /\ \A j \in (k + 1)..Len(wire') : FALSE
    BY <2>3
  <2>5. wire'[k] = Command("range", target')
    BY <2>2, <2>3 DEF SetRange
  <2> HIDE DEF k
  <2> QED
    BY <2>4, <2>5, SetLast
<1> QED
  BY <1>3, <1>4

LEMMA ScanArmed ==
  ASSUME TypeInv, ScanInv, ~deserted, ArmScan(TRUE)
  PROVE  ScanPending'
<1>1. target \in Ranges /\ Calm /\ SetTo(wire, "range", target, range)
  BY DEF ScanInv, ArmScan
<1>2. Scan \in Commands /\ Scan.op = "scan"
  BY CommandTypes DEF Scan
<1>3. /\ Extended(wire, wire', {"scan"}) /\ Len(wire') = Len(wire) + 1
      /\ wire'[Len(wire')].op = "scan"
  <2>1. wire' = wire \o <<Scan>> /\ wire \in Seq(Commands)
    BY DEF ArmScan, Written, TypeInv, LineTypes
  <2> QED
    BY <1>2, <2>1, PutOne
<1>4. SetTo(wire', "range", target', range')
  <2>1. SetTo(wire', "range", target, range)
    BY <1>1, <1>3, SetPut
  <2>2. target' = target /\ range' = range
    BY DEF ArmScan, instrument
  <2> QED
    BY <2>1, <2>2
<1>5. \A i \in 1..Len(wire') : wire'[i].op = "scan" <=> i = Len(wire')
  BY <1>1, <1>3 DEF Calm, None, Extended
<1>6. OnlyOne(wire', "scan") /\ Before(wire', "range", {"scan"})
  BY <1>3, <1>5 DEF OnlyOne, Before, Extended
<1>7. ~None(wire', "scan")
  BY <1>3 DEF None, Extended
<1> QED
  BY <1>1, <1>4, <1>6, <1>7 DEF ScanPending, Calm, ArmScan, instrument

LEMMA NumbersFewer ==
  ASSUME Fewer, target' = target, NumbersAre(target)
  PROVE  NumbersAre(target)'
  BY DEF Fewer, NumbersAre

LEMMA ScanInit == Init => ScanInv
  BY NoScanInResult DEF Init, ScanInv, Waits

\* Where the worker stands in a scan.
Scans == Waits \cup {"configured", "swept", "fetch"}

LEMMA ScanElsewhere ==
  ASSUME ScanInv, UNCHANGED <<deserted, stale, target, result>>, at' \notin Scans
  PROVE  ScanInv'
  BY DEF ScanInv, Scans, Waits

LEMMA ScanMoves ==
  ASSUME TypeInv, ReadyInv, ScanInv, Moves
  PROVE  ScanInv'
<1> USE DEF settled, waiting, instrument, observers, driver, Waits
<1>0. LineTypes
  BY DEF TypeInv
<1>1. ASSUME NEW ok \in BOOLEAN, NEW t \in Ranges, ConfigureScan(t, ok)
      PROVE  ScanInv'
  <2>1. /\ at' \in {"configured", "idle"} /\ (at' = "configured" => ok)
        /\ result' = NoResult /\ deserted' = StillScanning
    BY <1>1 DEF ConfigureScan
  <2>2. ~StillScanning => Calm' /\ (ok => SetTo(wire', "range", target', range'))
    BY <1>1, ScanConfigured
  <2> QED
    BY <2>1, <2>2, NoScanInResult DEF ScanInv
<1>2. ASSUME NEW ok \in BOOLEAN, NEW t \in Points, ConfigureMeter(t, ok)
      PROVE  ScanInv'
  BY <1>2, NoScanInResult DEF ScanInv, ConfigureMeter
<1>3. ASSUME NEW ok \in BOOLEAN, ArmScan(ok)
      PROVE  ScanInv'
  <2>1. CASE ok = FALSE
    <3>1. at' = "idle" /\ UNCHANGED <<deserted, stale, target, result>>
      BY <1>3, <2>1 DEF ArmScan
    <3> QED
      BY <3>1, ScanElsewhere DEF Scans
  <2>2. CASE ok = TRUE
    <3>1. at' = "wait" /\ UNCHANGED <<deserted, stale, target, result>>
      BY <1>3, <2>2 DEF ArmScan
    <3>2. ~deserted => ScanPending'
      BY <1>3, <2>2, ScanArmed
    <3> QED
      BY <3>1, <3>2 DEF ScanInv
  <2> QED
    BY <2>1, <2>2
<1>4. ASSUME NEW ok \in BOOLEAN,
             ArmMeter(ok) \/ TakeControl(ok) \/ AskMode(ok) \/ ReadMeter(ok)
             \/ AskIdentity(ok) \/ LabelTrace(ok)
      PROVE  ScanInv'
  <2>1. UNCHANGED <<deserted, stale, target, result>>
    BY <1>4 DEF ArmMeter, TakeControl, AskMode, ReadMeter, AskIdentity, LabelTrace
  <2>2. at' \in {"dwell", "idle", "open", "broken", "mode", "reading", "identify", "label"}
    <3>1. CASE ArmMeter(ok) \/ TakeControl(ok)
      BY <3>1 DEF ArmMeter, TakeControl
    <3>2. CASE AskMode(ok) \/ ReadMeter(ok) \/ AskIdentity(ok) \/ LabelTrace(ok)
      BY <1>0, <3>2, LineOfQueries
    <3> QED
      BY <1>4, <3>1, <3>2
  <2> QED
    BY <2>1, <2>2, ScanElsewhere DEF Scans
<1>5. ASSUME GiveUp \/ WaitEnds \/ DwellEnds \/ MeterStops \/ ModeRead \/ IdentityRead
             \/ DrainCut \/ QueryCut
      PROVE  ScanInv'
  <2>1. UNCHANGED <<deserted, stale, target, result>> /\ at' \notin Scans
    BY <1>5
    DEF GiveUp, WaitEnds, DwellEnds, MeterStops, ModeRead, IdentityRead, DrainCut, QueryCut, Scans
  <2> QED
    BY <2>1, ScanElsewhere
<1>6. ASSUME NEW ok \in BOOLEAN, Probe(ok)
      PROVE  ScanInv'
  <2>1. Sends({"idn"})
    BY <1>0, <1>6, ProbeSends
  <2>2. /\ UNCHANGED <<instrument, deserted, stale, target, result, purpose>>
        /\ at = "wait" /\ at' = (IF ok THEN "probe" ELSE "wait")
    BY <1>6 DEF Probe
  <2>3. (ScanPending => ScanPending') /\ (ScanTaken => ScanTaken')
    BY <2>1, <2>2, ScanKept
  <2> QED
    BY <2>2, <2>3 DEF ScanInv
<1>7. ASSUME ProbeUnanswered \/ ProbeAnswered \/ DrainRead
      PROVE  ScanInv'
  <2>1. Sends({}) /\ wire' = wire
    BY <1>0, <1>7, LineOfWork
  <2>2. /\ UNCHANGED <<instrument, deserted, stale, target, result, purpose>>
        /\ at \in {"probe", "drain"} /\ at' \in Waits
    BY <1>7 DEF ProbeUnanswered, ProbeAnswered, DrainRead
  <2>3. (ScanPending => ScanPending') /\ (ScanTaken => ScanTaken')
    BY <2>1, <2>2, ScanKept
  <2> QED
    BY <2>1, <2>2, <2>3 DEF ScanInv
<1>8. ASSUME DrainEnds
      PROVE  ScanInv'
  <2>1. Sends({}) /\ wire' = wire
    BY <1>0, <1>8, LineOfWork
  <2>2. /\ UNCHANGED <<instrument, deserted, target, result>> /\ at = "drain"
        /\ at' = AfterWait /\ stale' = NumericLeft'
    BY <1>8 DEF DrainEnds
  <2>3. at' = "swept" => purpose = "scan"
    BY <2>2 DEF AfterWait, TypeInv
  <2>4. (ScanPending => ScanPending') /\ (ScanTaken => ScanTaken')
    BY <2>1, <2>2, ScanKept
  <2>5. result' = NoResult /\ at' \in {"responsive", "idle", "swept"}
    BY <2>2 DEF TypeInv, AfterWait
  <2> QED
    BY <2>2, <2>3, <2>4, <2>5, NoScanInResult DEF ScanInv
<1>9. ASSUME NEW ok \in BOOLEAN, FetchScan(ok)
      PROVE  ScanInv'
  <2>1. Sends({"trace"}) /\ replies' = replies /\ (at' = "fetch" \/ at' = "idle")
    BY <1>0, <1>9, LineOfQueries
  <2>2. UNCHANGED <<instrument, deserted, stale, target, result>> /\ at = "swept"
    BY <1>9 DEF FetchScan
  <2>3. Extended(wire, wire', {"trace"})
    BY <2>1 DEF Sends
  <2>4. ASSUME ~NumericLeft
        PROVE  None(wire', "peak") /\ Before(wire', "scan", {"trace"}) /\ NumbersAre(target)'
    <3>1. None(wire, "peak") /\ None(wire, "trace")
      BY <2>4 DEF NumericLeft, Numeric, None
    <3>2. None(wire', "peak")
      BY <2>3, <3>1, NonePut
    <3>3. Before(wire, "scan", {"trace"})
      BY <3>1 DEF Before, None
    <3>4. Before(wire', "scan", {"trace"})
      BY <2>3, <3>3, OrderPut
    <3>5. NumbersAre(target)'
      BY <2>1, <2>4 DEF NumericLeft, NumbersAre
    <3> QED
      BY <3>2, <3>4, <3>5
  <2>5. (ScanPending => ScanPending') /\ (ScanTaken => ScanTaken')
    BY <2>1, <2>2, ScanKept
  <2> QED
    BY <2>1, <2>2, <2>4, <2>5 DEF ScanInv
<1>10. ASSUME ScanRead
       PROVE  ScanInv'
  <2>1. OldestReply = replies[1] /\ 1 \in 1..Len(replies)
    BY <1>0, <1>10, LineOfWork
  <2>2. /\ UNCHANGED <<deserted, stale, target>> /\ at = "fetch" /\ at' \in {"idle", "unlabelled"}
        /\ \/ OldestReply.to \in Numeric /\ result' = [asked |-> target, got |-> OldestReply]
           \/ result' = result
    BY <1>10 DEF ScanRead, AfterTrace
  <2>3. ~deserted /\ ~stale /\ OldestReply.to \in Numeric
        => OldestReply = Reply("trace", target, TRUE)
    BY <2>1, <2>2 DEF ScanInv, NumbersAre
  <2>4. CASE result' = result
    BY <2>2, <2>4, ScanElsewhere DEF Scans
  <2>5. CASE OldestReply.to \in Numeric /\ result' = [asked |-> target, got |-> OldestReply]
    <3>1. result'.got = OldestReply
      BY <2>5
    <3>2. ~deserted' /\ ~stale' => result'.got = Reply("trace", target', TRUE)
      BY <2>2, <2>3, <2>5, <3>1
    <3> QED
      BY <2>2, <3>2 DEF ScanInv
  <2> QED
    BY <2>2, <2>4, <2>5
<1>11. ASSUME MeterRead
       PROVE  ScanInv'
  <2>1. UNCHANGED <<deserted, stale, target>> /\ at = "reading" /\ at' \in {"idle", "unlabelled", "dwelt"}
        /\ (result' = [asked |-> target, got |-> OldestReply] \/ result' = result)
    BY <1>11 DEF MeterRead, AfterTrace
  <2>2. target \notin Ranges
    BY <2>1, NoScanInResult DEF TypeInv, Dwells
  <2>3. CASE result' = result
    BY <2>1, <2>3, ScanElsewhere DEF Scans
  <2>4. CASE result' = [asked |-> target, got |-> OldestReply]
    <3>1. result'.asked \notin Ranges
      BY <2>2, <2>4
    <3> QED
      BY <2>1, <3>1 DEF ScanInv
  <2> QED
    BY <2>1, <2>3, <2>4
<1>12. ASSUME NEW ok \in BOOLEAN, Abort(ok)
       PROVE  ScanInv'
  <2>1. Sends({"stop"})
    BY <1>0, <1>12, ProbeSends
  <2>2. UNCHANGED <<instrument, deserted, stale, target, result, purpose, at>>
    BY <1>12 DEF Abort
  <2>3. /\ Calm => Calm'
        /\ SetTo(wire, "range", target, range) => SetTo(wire', "range", target', range')
        /\ ScanPending => ScanPending'
        /\ ScanTaken => ScanTaken'
    BY <2>1, <2>2, ScanKept
  <2>4. Extended(wire, wire', {"stop"}) /\ Fewer
    BY <2>1 DEF Sends
  <2>5. /\ None(wire, "peak") => None(wire', "peak")
        /\ None(wire, "trace") => None(wire', "trace")
        /\ Before(wire, "scan", {"trace"}) => Before(wire', "scan", {"trace"})
    BY <2>4, NonePut, OrderPut
  <2>6. NumbersAre(target) => NumbersAre(target)'
    BY <2>2, <2>4, NumbersFewer
  <2>7. ~NumericLeft => ~NumericLeft'
    <3>1. ~NumericLeft => None(wire, "peak") /\ None(wire, "trace")
      BY DEF NumericLeft, Numeric, None
    <3>2. None(wire', "peak") /\ None(wire', "trace")
          => \A i \in 1..Len(wire') : wire'[i].op \notin Numeric
      BY DEF Numeric, None
    <3> QED
      BY <2>4, <2>5, <3>1, <3>2 DEF NumericLeft, Fewer
  <2> QED
    BY <2>2, <2>3, <2>5, <2>6, <2>7 DEF ScanInv
<1> QED
  BY <1>1, <1>2, <1>3, <1>4, <1>5, <1>6, <1>7, <1>8, <1>9, <1>10, <1>11, <1>12 DEF Moves

\* A personality is only changed before the driver was answered.
LEMMA SwitchIsEarly ==
  ASSUME TypeInv, ReadyInv, Switch
  PROVE  at \in Unready /\ ~(at \in {"wait", "probe"} /\ purpose = "scan")
<1>1. wire[1].op = "select" /\ 1 \in 1..Len(wire)
  BY LineOfInstrument DEF Switch, UpNext, TypeInv
<1>2. ~Ready
  BY <1>1 DEF Ready, None
<1> QED
  BY <1>2 DEF ReadyInv, Unready

LEMMA ScanInstrument ==
  ASSUME TypeInv, ReadyInv, ScanInv, Instrument
  PROVE  ScanInv'
<1> USE DEF instrument, Waits
<1>0. LineTypes /\ UNCHANGED driver /\ UNCHANGED observers
  BY DEF TypeInv, Instrument, Deaf, BusyNoMore, Switch, BeStopped, ChangeRange, BeginScan,
         ChangePoint, ForgetPeak, BeginMeter, HoldPeak, AnswerQuery
<1>u. UNCHANGED <<at, purpose, target, deserted, stale, result>>
  BY <1>0 DEF driver, observers
<1> HIDE <1>0
<1>k. replies' = replies => (NumbersAre(target) => NumbersAre(target)')
  BY <1>u DEF NumbersAre
\* It is enough to follow each fact for itself.
<1>e. ASSUME at \in Scans,
             ~deserted =>
               /\ at = "configured" /\ target \in Ranges =>
                    (Calm /\ SetTo(wire, "range", target, range)
                     => Calm' /\ SetTo(wire', "range", target', range'))
               /\ (at \in Waits /\ purpose = "scan") \/ at \in {"swept", "fetch"} =>
                    (ScanPending \/ ScanTaken => ScanPending' \/ ScanTaken')
               /\ at = "swept" => (~NumericLeft => ~NumericLeft')
               /\ at = "fetch" =>
                    /\ None(wire, "peak") => None(wire', "peak")
                    /\ Before(wire, "scan", {"trace"}) => Before(wire', "scan", {"trace"})
                    /\ (ScanPending \/ ScanTaken) /\ None(wire, "peak")
                       /\ Before(wire, "scan", {"trace"}) /\ NumbersAre(target)
                       => NumbersAre(target)'
      PROVE  ScanInv'
  BY <1>e, <1>u DEF ScanInv
<1>o. ASSUME at \notin Scans
      PROVE  ScanInv'
  BY <1>o, <1>u, ScanElsewhere
<1>t. ASSUME Shorter(wire, wire')
      PROVE  /\ None(wire, "peak") => None(wire', "peak") /\ wire[1].op # "peak"
             /\ None(wire, "trace") => None(wire', "trace") /\ wire[1].op # "trace"
             /\ None(wire, "scan") => None(wire', "scan") /\ wire[1].op # "scan"
             /\ Before(wire, "scan", {"trace"}) => Before(wire', "scan", {"trace"})
  BY <1>t, OrderTaken, NoneTaken
<1>l. ASSUME Shorter(wire, wire') \/ wire' = wire, replies' = replies
      PROVE  ~NumericLeft => ~NumericLeft'
  <2>1. ~NumericLeft => None(wire, "peak") /\ None(wire, "trace")
    BY DEF NumericLeft, Numeric, None
  <2>2. None(wire', "peak") /\ None(wire', "trace")
        => \A i \in 1..Len(wire') : wire'[i].op \notin Numeric
    BY DEF Numeric, None
  <2> QED
    BY <1>t, <1>l, <2>1, <2>2 DEF NumericLeft
<1>1. ASSUME Deaf
      PROVE  ScanInv'
  <2>1. Shorter(wire, wire') /\ replies' = replies
    BY <1>0, <1>1, LineOfInstrument
  <2>2. busy # "no" /\ UNCHANGED <<busy, range, scanned>>
    BY <1>1 DEF Deaf
  <2>3. ~Calm /\ ~ScanPending
    BY <2>2 DEF Calm, ScanPending
  <2>4. ScanTaken => ScanTaken'
    BY <1>t, <1>u, <2>1, <2>2 DEF ScanTaken
  <2> QED
    BY <1>e, <1>o, <1>t, <1>k, <1>l, <2>1, <2>3, <2>4
<1>2. ASSUME BusyNoMore \/ HoldPeak
      PROVE  ScanInv'
  <2>1. wire' = wire /\ replies' = replies /\ Sends({})
    BY <1>0, <1>2, LineOfWork
  <2>2. /\ UNCHANGED <<range, scanned>> /\ (busy = "no" => busy' = busy)
    BY <1>2 DEF BusyNoMore, HoldPeak
  <2>3. (Calm => Calm') /\ (ScanPending => ScanPending') /\ (ScanTaken => ScanTaken')
    BY <1>u, <2>1, <2>2 DEF Calm, ScanPending, ScanTaken
  <2>4. SetTo(wire, "range", target, range) => SetTo(wire', "range", target', range')
    BY <1>u, <2>1, <2>2
  <2> QED
    BY <1>e, <1>o, <1>k, <1>l, <2>1, <2>3, <2>4
<1>3. ASSUME Switch
      PROVE  ScanInv'
  <2>1. at \in Unready /\ ~(at \in {"wait", "probe"} /\ purpose = "scan")
    BY <1>3, SwitchIsEarly
  <2> QED
    BY <1>u, <2>1 DEF ScanInv, Unready
<1>4. ASSUME BeStopped \/ ForgetPeak \/ BeginMeter \/ ChangePoint
      PROVE  ScanInv'
  <2>1. Shorter(wire, wire') /\ replies' = replies /\ 1 \in 1..Len(wire) /\ Head(wire) = wire[1]
    BY <1>0, <1>4, LineOfInstrument
  <2>2. wire[1].op \notin {"scan", "range"} /\ UNCHANGED <<busy, range, scanned>>
    BY <1>4, <2>1 DEF BeStopped, ForgetPeak, BeginMeter, ChangePoint, UpNext
  <2>3. /\ Calm => Calm'
        /\ SetTo(wire, "range", target, range) => SetTo(wire', "range", target', range')
        /\ ScanPending => ScanPending'
    BY <1>u, <2>1, <2>2, ScanTakes
  <2>4. ScanTaken => ScanTaken'
    BY <1>t, <1>u, <2>1, <2>2 DEF ScanTaken
  <2> QED
    BY <1>e, <1>o, <1>t, <1>k, <1>l, <2>1, <2>3, <2>4
<1>5. ASSUME ChangeRange
      PROVE  ScanInv'
  <2>1. Shorter(wire, wire') /\ replies' = replies /\ 1 \in 1..Len(wire) /\ Head(wire) = wire[1]
    BY <1>0, <1>5, LineOfInstrument
  <2>2. wire[1].op = "range" /\ range' = wire[1].arg /\ UNCHANGED <<busy, scanned>>
    BY <1>5, <2>1 DEF ChangeRange, UpNext
  <2>3. SetTo(wire, "range", target, range) => SetTo(wire', "range", target', range')
    BY <1>u, <2>1, <2>2, SetTaken
  <2>4. (Calm => Calm') /\ (ScanTaken => ScanTaken')
    BY <1>t, <1>u, <2>1, <2>2 DEF Calm, ScanTaken
  <2>5. ASSUME ScanPending
        PROVE  ScanPending'
    <3>1. /\ OnlyOne(wire, "scan") => OnlyOne(wire', "scan")
          /\ Before(wire, "range", {"scan"}) => Before(wire', "range", {"scan"})
      BY <2>1, OrderTaken
    <3>2. PICK i \in 1..Len(wire) : wire[i].op = "scan"
      BY <2>5 DEF ScanPending, None
    <3>3. i - 1 \in 1..Len(wire') /\ wire'[i - 1].op = "scan"
      BY <2>1, <2>2, <3>2 DEF Shorter
    <3> QED
      BY <2>2, <2>3, <2>5, <3>1, <3>3 DEF ScanPending, None
  <2> QED
    BY <1>e, <1>o, <1>t, <1>k, <1>l, <2>1, <2>3, <2>4, <2>5
<1>6. ASSUME BeginScan
      PROVE  ScanInv'
  <2>1. Shorter(wire, wire') /\ replies' = replies /\ 1 \in 1..Len(wire) /\ Head(wire) = wire[1]
    BY <1>0, <1>6, LineOfInstrument
  <2>2. wire[1].op = "scan" /\ scanned' = range
    BY <1>6, <2>1 DEF BeginScan, UpNext
  <2>3. ~Calm /\ ~ScanTaken
    BY <2>1, <2>2 DEF Calm, ScanTaken, None
  <2>4. ASSUME ScanPending
        PROVE  ScanTaken'
    <3>1. None(wire', "scan") /\ None(wire, "range")
      BY <2>1, <2>2, <2>4, OrderTaken DEF ScanPending
    <3>2. range = target
      BY <2>4, <3>1 DEF ScanPending, SetTo, None, Command
    <3> QED
      BY <1>u, <2>2, <3>1, <3>2 DEF ScanTaken
  <2> QED
    BY <1>e, <1>o, <1>t, <1>k, <1>l, <2>1, <2>3, <2>4
<1>7. ASSUME AnswerQuery
      PROVE  ScanInv'
  <2>1. /\ Shorter(wire, wire') /\ 1 \in 1..Len(wire) /\ wire[1].op \in Queries
        /\ \A i \in 1..Len(replies') :
             \/ replies'[i] = AnswerTo(wire[1].op)
             \/ \E j \in 1..Len(replies) : replies'[i] = replies[j]
    BY <1>7, LineOfAnswer
  <2>2. wire[1].op \notin {"scan", "range"} /\ UNCHANGED <<busy, range, scanned>>
    BY <1>7, <2>1 DEF AnswerQuery, Queries
  <2>3. /\ Calm => Calm'
        /\ SetTo(wire, "range", target, range) => SetTo(wire', "range", target', range')
        /\ ScanPending => ScanPending'
    BY <1>u, <2>1, <2>2, ScanTakes
  <2>4. ScanTaken => ScanTaken'
    BY <1>t, <1>u, <2>1, <2>2 DEF ScanTaken
  <2>5. ASSUME ~NumericLeft
        PROVE  ~NumericLeft'
    <3>1. None(wire, "peak") /\ None(wire, "trace")
      BY <2>5 DEF NumericLeft, Numeric, None
    <3>2. \A i \in 1..Len(wire') : wire'[i].op \notin Numeric
      BY <1>t, <2>1, <3>1 DEF None, Numeric
    <3>3. wire[1].op \in {"idn", "mode"}
      BY <1>t, <2>1, <3>1 DEF Queries
    <3>4. AnswerTo(wire[1].op).to \notin Numeric
      BY <3>3 DEF AnswerTo, Reply, Numeric
    <3> QED
      BY <2>1, <2>5, <3>2, <3>4 DEF NumericLeft
  <2>6. ASSUME ScanPending \/ ScanTaken, None(wire, "peak"), Before(wire, "scan", {"trace"}),
               NumbersAre(target)
        PROVE  NumbersAre(target)'
    <3>1. CASE wire[1].op = "trace"
      <4>1. None(wire, "scan")
        BY <2>1, <2>6, <3>1, OrderTaken
      <4>2. scanned = target
        BY <2>6, <4>1 DEF ScanPending, ScanTaken
      <4>3. AnswerTo(wire[1].op) = Reply("trace", target, TRUE)
        BY <3>1, <4>2 DEF AnswerTo
      <4> QED
        BY <1>u, <2>1, <2>6, <4>3 DEF NumbersAre
    <3>2. CASE wire[1].op # "trace"
      <4>1. wire[1].op \in {"idn", "mode"}
        BY <1>t, <2>1, <2>6, <3>2 DEF Queries
      <4>2. AnswerTo(wire[1].op).to \notin Numeric
        BY <4>1 DEF AnswerTo, Reply, Numeric
      <4> QED
        BY <1>u, <2>1, <2>6, <4>2 DEF NumbersAre
    <3> QED
      BY <3>1, <3>2
  <2> QED
    BY <1>e, <1>o, <1>t, <2>1, <2>3, <2>4, <2>5, <2>6
<1> QED
  BY <1>1, <1>2, <1>3, <1>4, <1>5, <1>6, <1>7 DEF Instrument

LEMMA ScanStep ==
  ASSUME TypeInv, ReadyInv, ScanInv, Next
  PROVE  ScanInv'
<1>1. ASSUME NEW ok \in BOOLEAN, Open(ok)
      PROVE  ScanInv'
  <2>1. result' = NoResult /\ at' \in {"wait", "broken"} /\ purpose' = "open"
    BY <1>1 DEF Open
  <2> QED
    BY <2>1, NoScanInResult DEF ScanInv
<1>2. ASSUME NEW ok \in BOOLEAN, Close(ok)
      PROVE  ScanInv'
  <2>1. at' \notin Scans /\ UNCHANGED <<deserted, stale, target, result>>
    BY <1>2 DEF Close, Scans, Waits, settled, observers
  <2> QED
    BY <2>1, ScanElsewhere
<1> QED
  BY <1>1, <1>2, ScanMoves, ScanInstrument, NextMoves
-----------------------------------------------------------------------------
(* The meter.                                                              *)

LEMMA MeterInit == Init => MeterInv
  BY DEF Init, MeterInv, Dwells

\* What keeps the meter's point and its peak hold as a dwell needs them.
LEMMA MeterKept ==
  ASSUME NEW ops, Sends(ops), "scan" \notin ops, "point" \notin ops,
         UNCHANGED <<busy, point, hold, target>>
  PROVE  /\ Calm => Calm'
         /\ SetTo(wire, "point", target, point) => SetTo(wire', "point", target', point')
         /\ HoldCleared(wire, target, hold) => HoldCleared(wire', target', hold')
<1>1. Extended(wire, wire', ops)
  BY DEF Sends
<1>2. None(wire, "scan") => None(wire', "scan")
  BY <1>1, NonePut
<1>3. SetTo(wire, "point", target, point) => SetTo(wire', "point", target', point')
  BY <1>1, SetPut
<1>4. HoldCleared(wire, target, hold) => HoldCleared(wire', target', hold')
  BY <1>1, ClearedPut
<1> QED
  BY <1>2, <1>3, <1>4 DEF Calm

LEMMA MeterConfigured ==
  ASSUME TypeInv, ReadyInv, NEW ok \in BOOLEAN, NEW t \in Points, ConfigureMeter(t, ok),
         ~StillScanning
  PROVE  Calm' /\ (ok => SetTo(wire', "point", target', point'))
<1>1. Calm
  BY CalmBefore DEF ConfigureMeter
<1>2. Extended(wire, wire', {"stop", "point"})
  BY SetUpSends DEF TypeInv, Sends
<1>3. Calm'
  <2>1. None(wire', "scan")
    BY <1>1, <1>2, NonePut DEF Calm
  <2> QED
    BY <1>1, <2>1 DEF Calm, ConfigureMeter, instrument
<1>4. ASSUME ok
      PROVE  SetTo(wire', "point", target', point')
  <2>1. Stop \in Commands /\ SetPoint(t) \in Commands
    BY CommandTypes DEF Stop
  <2>2. wire' = wire \o <<Stop, SetPoint(t)>> /\ target' = t
    BY <1>4 DEF ConfigureMeter, Written
  <2>3. Len(wire') = Len(wire) + 2 /\ wire'[Len(wire) + 2] = SetPoint(t) /\ Len(wire) \in Nat
    BY <2>1, <2>2, PutTwo DEF TypeInv, LineTypes
  <2> DEFINE k == Len(wire) + 2
  <2>4. k \in 1..Len(wire') /\ \A j \in (k + 1)..Len(wire') : FALSE
    BY <2>3
  <2>5. wire'[k] = Command("point", target')
    BY <2>2, <2>3 DEF SetPoint
  <2> HIDE DEF k
  <2> QED
    BY <2>4, <2>5, SetLast
<1> QED
  BY <1>3, <1>4

\* The peak hold is reset behind every change of the point.
LEMMA MeterArmed ==
  ASSUME TypeInv, ArmMeter(TRUE)
  PROVE  HoldCleared(wire', target', hold')
<1>1. ResetHold \in Commands /\ ResetHold.op = "reset" /\ Meter \in Commands /\ Meter.op = "meter"
  BY CommandTypes DEF ResetHold, Meter
<1>2. /\ Len(wire') = Len(wire) + 2 /\ Len(wire) \in Nat
      /\ wire'[Len(wire) + 1].op = "reset" /\ wire'[Len(wire) + 2].op = "meter"
  BY <1>1, PutTwo DEF ArmMeter, Written, TypeInv, LineTypes
<1> DEFINE k == Len(wire) + 1
<1>3. k \in 1..Len(wire') /\ \A j \in (k + 1)..Len(wire') : j = k + 1
  BY <1>2
<1>4. wire'[k].op = "reset" /\ wire'[k + 1].op = "meter"
  BY <1>2
<1> HIDE DEF k
<1> QED
  BY <1>3, <1>4 DEF HoldCleared

LEMMA MeterElsewhere ==
  ASSUME at' \notin Dwells, at' # "configured"
  PROVE  MeterInv'
  BY DEF MeterInv

LEMMA MeterMoves ==
  ASSUME TypeInv, ReadyInv, MeterInv, Moves
  PROVE  MeterInv'
<1> USE DEF settled, waiting, instrument, observers, Dwells
<1>0. LineTypes
  BY DEF TypeInv
<1>1. ASSUME NEW ok \in BOOLEAN, NEW t \in Ranges, ConfigureScan(t, ok)
      PROVE  MeterInv'
  <2>1. at' \in {"configured", "idle"} /\ target' \notin Points
    BY <1>1, NoScanInResult DEF ConfigureScan
  <2> QED
    BY <2>1 DEF MeterInv
<1>2. ASSUME NEW ok \in BOOLEAN, NEW t \in Points, ConfigureMeter(t, ok)
      PROVE  MeterInv'
  <2>1. /\ at' \in {"configured", "idle"} /\ (at' = "configured" => ok)
        /\ deserted' = StillScanning
    BY <1>2 DEF ConfigureMeter
  <2>2. ~StillScanning => Calm' /\ (ok => SetTo(wire', "point", target', point'))
    BY <1>2, MeterConfigured
  <2> QED
    BY <2>1, <2>2 DEF MeterInv
<1>3. ASSUME NEW ok \in BOOLEAN, ArmMeter(ok)
      PROVE  MeterInv'
  <2>1. CASE ok = FALSE
    <3>1. at' = "idle"
      BY <1>3, <2>1 DEF ArmMeter
    <3> QED
      BY <3>1, MeterElsewhere
  <2>2. CASE ok = TRUE
    <3>1. /\ at = "configured" /\ at' = "dwell" /\ target \in Points
          /\ UNCHANGED <<deserted, busy, point, hold, target>>
      BY <1>3, <2>2 DEF ArmMeter
    <3>2. HoldCleared(wire', target', hold')
      BY <1>3, <2>2, MeterArmed
    <3>3. Sends({"reset", "meter"})
      BY <1>0, <1>3, SetUpSends
    <3>4. /\ Calm => Calm'
          /\ SetTo(wire, "point", target, point) => SetTo(wire', "point", target', point')
      BY <3>1, <3>3, MeterKept
    <3> QED
      BY <3>1, <3>2, <3>4 DEF MeterInv
  <2> QED
    BY <2>1, <2>2
<1>4. ASSUME NEW ok \in BOOLEAN,
             \/ ArmScan(ok) \/ TakeControl(ok) \/ AskMode(ok) \/ FetchScan(ok)
             \/ AskIdentity(ok) \/ LabelTrace(ok) \/ Probe(ok)
      PROVE  MeterInv'
  <2>1. at' \notin Dwells /\ at' # "configured"
    <3>1. CASE ArmScan(ok) \/ TakeControl(ok) \/ Probe(ok)
      BY <3>1 DEF ArmScan, TakeControl, Probe
    <3>2. CASE AskMode(ok) \/ FetchScan(ok) \/ AskIdentity(ok) \/ LabelTrace(ok)
      BY <1>0, <3>2, LineOfQueries
    <3> QED
      BY <1>4, <3>1, <3>2
  <2> QED
    BY <2>1, MeterElsewhere
<1>5. ASSUME \/ GiveUp \/ WaitEnds \/ MeterStops \/ ProbeUnanswered \/ ProbeAnswered
             \/ DrainRead \/ ModeRead \/ IdentityRead \/ ScanRead
             \/ DrainEnds \/ DrainCut \/ QueryCut
      PROVE  MeterInv'
  <2>1. at' \notin Dwells /\ at' # "configured"
    <3>1. CASE GiveUp \/ WaitEnds \/ MeterStops \/ ProbeUnanswered \/ ProbeAnswered
               \/ DrainRead \/ ModeRead \/ IdentityRead
      BY <3>1 DEF GiveUp, WaitEnds, MeterStops, ProbeUnanswered, ProbeAnswered, DrainRead,
                  ModeRead, IdentityRead
    <3>2. CASE ScanRead \/ DrainEnds \/ DrainCut \/ QueryCut
      BY <3>2 DEF ScanRead, AfterTrace, DrainEnds, AfterWait, DrainCut, QueryCut
    <3> QED
      BY <1>5, <3>1, <3>2
  <2> QED
    BY <2>1, MeterElsewhere
\* Within a dwell nothing is set.
<1>k. ASSUME NEW ops, Sends(ops), "scan" \notin ops, "point" \notin ops,
             UNCHANGED <<instrument, deserted, target>>,
             at' \in Dwells => at \in Dwells,
             at' = "configured" => at = "configured"
      PROVE  MeterInv'
  <2>1. /\ Calm => Calm'
        /\ SetTo(wire, "point", target, point) => SetTo(wire', "point", target', point')
        /\ HoldCleared(wire, target, hold) => HoldCleared(wire', target', hold')
    BY <1>k, MeterKept
  <2>2. UNCHANGED <<deserted, target>>
    BY <1>k
  <2> HIDE DEF Dwells
  <2> QED
    BY <1>k, <2>1, <2>2 DEF MeterInv
<1>6. ASSUME DwellEnds
      PROVE  MeterInv'
  <2>1. Sends({})
    BY <1>0, <1>6, LineOfWork
  <2>2. /\ UNCHANGED <<instrument, deserted, target>> /\ at = "dwell" /\ at' # "configured"
    BY <1>6 DEF DwellEnds
  <2> QED
    BY <1>k, <2>1, <2>2
<1>7. ASSUME NEW ok \in BOOLEAN, ReadMeter(ok)
      PROVE  MeterInv'
  <2>1. Sends({"peak"}) /\ at' # "configured"
    BY <1>0, <1>7, LineOfQueries
  <2>2. UNCHANGED <<instrument, deserted, target>> /\ at = "dwelt"
    BY <1>7 DEF ReadMeter
  <2> QED
    BY <1>k, <2>1, <2>2
<1>8. ASSUME MeterRead
      PROVE  MeterInv'
  <2>1. Sends({})
    BY <1>0, <1>8, LineOfWork
  <2>2. UNCHANGED <<instrument, deserted, target>> /\ at = "reading" /\ at' # "configured"
    BY <1>8 DEF MeterRead, AfterTrace
  <2> QED
    BY <1>k, <2>1, <2>2
<1>9. ASSUME NEW ok \in BOOLEAN, Abort(ok)
      PROVE  MeterInv'
  <2>1. Sends({"stop"})
    BY <1>0, <1>9, ProbeSends
  <2>2. UNCHANGED <<instrument, deserted, target, at>>
    BY <1>9 DEF Abort
  <2> QED
    BY <1>k, <2>1, <2>2
<1> QED
  BY <1>1, <1>2, <1>3, <1>4, <1>5, <1>6, <1>7, <1>8, <1>9 DEF Moves
\* The peak hold takes the level at the point that is set.
LEMMA HoldFollows ==
  ASSUME HoldPeak, SetTo(wire, "point", target, point), HoldCleared(wire, target, hold)
  PROVE  HoldCleared(wire, target, hold')
<1>1. hold' \in {hold, point} /\ (hold' = hold \/ hold' = point)
  BY DEF HoldPeak
<1>2. CASE hold \in {0, target} /\ None(wire, "point")
  <2>1. point = target
    BY <1>2 DEF SetTo, None, Command
  <2> QED
    BY <1>1, <1>2, <2>1 DEF HoldCleared
<1>3. CASE ~(hold \in {0, target} /\ None(wire, "point"))
  BY <1>3 DEF HoldCleared
<1> QED
  BY <1>2, <1>3

LEMMA MeterInstrument ==
  ASSUME TypeInv, ReadyInv, MeterInv, Instrument
  PROVE  MeterInv'
<1> USE DEF instrument
<1>0. LineTypes /\ UNCHANGED driver /\ UNCHANGED observers
  BY DEF TypeInv, Instrument, Deaf, BusyNoMore, Switch, BeStopped, ChangeRange, BeginScan,
         ChangePoint, ForgetPeak, BeginMeter, HoldPeak, AnswerQuery
<1>u. UNCHANGED <<at, target, deserted>>
  BY <1>0 DEF driver, observers
<1>e. ASSUME Calm /\ SetTo(wire, "point", target, point)
             => /\ Calm' /\ SetTo(wire', "point", target', point')
                /\ HoldCleared(wire, target, hold) => HoldCleared(wire', target', hold')
      PROVE  MeterInv'
  BY <1>e, <1>u DEF MeterInv
<1> DEFINE Head1 == /\ Shorter(wire, wire') /\ 1 \in 1..Len(wire) /\ Head(wire) = wire[1]
<1>h. ASSUME Deaf \/ Switch \/ BeStopped \/ ChangeRange \/ BeginScan
             \/ ChangePoint \/ ForgetPeak \/ BeginMeter
      PROVE  Head1
  BY <1>0, <1>h, LineOfInstrument
<1>t. ASSUME Shorter(wire, wire'), wire[1].op \notin {"point", "reset"},
             UNCHANGED <<busy, point, hold>>
      PROVE  MeterInv'
  <2>1. None(wire, "scan") => None(wire', "scan")
    BY <1>t, NoneTaken
  <2>2. SetTo(wire, "point", target, point) => SetTo(wire', "point", target', point')
    BY <1>t, <1>u, SetTaken
  <2>3. HoldCleared(wire, target, hold) => HoldCleared(wire', target', hold')
    BY <1>t, <1>u, ClearedTaken
  <2> QED
    BY <1>e, <1>t, <2>1, <2>2, <2>3 DEF Calm
<1>1. ASSUME Deaf \/ BusyNoMore \/ BeginScan
      PROVE  MeterInv'
  <2>1. CASE Deaf \/ BusyNoMore
    BY <1>e, <2>1 DEF Calm, Deaf, BusyNoMore
  <2>2. CASE BeginScan
    <3>1. wire[1].op = "scan" /\ 1 \in 1..Len(wire)
      BY <1>h, <2>2 DEF BeginScan, UpNext
    <3> QED
      BY <1>e, <3>1 DEF Calm, None
  <2> QED
    BY <1>1, <2>1, <2>2
<1>2. ASSUME HoldPeak
      PROVE  MeterInv'
  <2>1. wire' = wire
    BY <1>0, <1>2, LineOfWork
  <2>2. UNCHANGED <<busy, point>>
    BY <1>2 DEF HoldPeak
  <2>3. SetTo(wire, "point", target, point) /\ HoldCleared(wire, target, hold)
        => HoldCleared(wire', target', hold')
    BY <1>2, <1>u, <2>1, HoldFollows
  <2> QED
    BY <1>e, <1>u, <2>1, <2>2, <2>3 DEF Calm
<1>3. ASSUME Switch
      PROVE  MeterInv'
  <2>1. at \in Unready
    BY <1>3, SwitchIsEarly
  <2> QED
    BY <1>u, <2>1, MeterElsewhere DEF Unready, Dwells
<1>4. ASSUME BeStopped \/ ChangeRange \/ BeginMeter
      PROVE  MeterInv'
  <2>1. wire[1].op \notin {"point", "reset"} /\ UNCHANGED <<busy, point, hold>>
    BY <1>4, <1>h DEF BeStopped, ChangeRange, BeginMeter, UpNext
  <2> QED
    BY <1>4, <1>h, <1>t, <2>1
<1>5. ASSUME ChangePoint
      PROVE  MeterInv'
  <2>1. /\ wire[1].op = "point" /\ point' = wire[1].arg /\ UNCHANGED <<busy, hold>>
        /\ Shorter(wire, wire')
    BY <1>5, <1>h DEF ChangePoint, UpNext
  <2>2. None(wire, "scan") => None(wire', "scan")
    BY <2>1, NoneTaken
  <2>3. SetTo(wire, "point", target, point) => SetTo(wire', "point", target', point')
    BY <1>u, <2>1, SetTaken
  <2>4. HoldCleared(wire, target, hold) => HoldCleared(wire', target', hold')
    BY <1>u, <2>1, ClearedTaken
  <2> QED
    BY <1>e, <2>1, <2>2, <2>3, <2>4 DEF Calm
<1>6. ASSUME ForgetPeak
      PROVE  MeterInv'
  <2>1. /\ wire[1].op = "reset" /\ hold' = 0 /\ UNCHANGED <<busy, point>>
        /\ Shorter(wire, wire')
    BY <1>6, <1>h DEF ForgetPeak, UpNext
  <2>2. None(wire, "scan") => None(wire', "scan")
    BY <2>1, NoneTaken
  <2>3. SetTo(wire, "point", target, point) => SetTo(wire', "point", target', point')
    BY <1>u, <2>1, SetTaken
  <2>4. HoldCleared(wire, target, hold) => HoldCleared(wire', target', hold')
    BY <1>u, <2>1, ClearedTaken
  <2> QED
    BY <1>e, <2>1, <2>2, <2>3, <2>4 DEF Calm
<1>7. ASSUME AnswerQuery
      PROVE  MeterInv'
  <2>1. Shorter(wire, wire') /\ wire[1].op \notin {"point", "reset"}
    BY <1>7, LineOfAnswer DEF Queries
  <2>2. UNCHANGED <<busy, point, hold>>
    BY <1>7 DEF AnswerQuery
  <2> QED
    BY <1>t, <2>1, <2>2
<1> QED
  BY <1>1, <1>2, <1>3, <1>4, <1>5, <1>6, <1>7 DEF Instrument

LEMMA MeterStep ==
  ASSUME TypeInv, ReadyInv, MeterInv, Next
  PROVE  MeterInv'
<1>1. ASSUME NEW ok \in BOOLEAN, Open(ok) \/ Close(ok)
      PROVE  MeterInv'
  <2>1. at' \in {"wait", "broken", "closed"}
    BY <1>1 DEF Open, Close
  <2> QED
    BY <2>1, MeterElsewhere DEF Dwells
<1> QED
  BY <1>1, MeterMoves, MeterInstrument, NextMoves

-----------------------------------------------------------------------------
(* The reading.                                                            *)

LEMMA ReadingInit == Init => ReadingInv
  BY NoScanInResult DEF Init, ReadingInv

PeakAnswers == {Reply("peak", 0, TRUE), Reply("peak", target, TRUE)}

LEMMA ReadingElsewhere ==
  ASSUME ReadingInv, UNCHANGED <<deserted, target, result>>, dirty' \/ ~dirty, at' # "reading"
  PROVE  ReadingInv'
  BY DEF ReadingInv

\* The query is put behind the reset, on a line with no other query.
LEMMA PeakAsked ==
  ASSUME TypeInv, QuietInv, at = "dwelt", ~dirty, Sends({"peak"}), replies' = replies
  PROVE  /\ Before(wire', "reset", Queries) /\ OnlyAsked(wire', "peak")
         /\ \A answers : Answered(answers)'
<1>1. replies = <<>> /\ \A i \in 1..Len(wire) : wire[i].op \notin Queries
  BY OutstandingIs DEF QuietInv, TypeInv
<1>2. Before(wire, "reset", Queries) /\ OnlyAsked(wire, "peak")
  BY <1>1 DEF Before, OnlyAsked
<1>3. Extended(wire, wire', {"peak"}) /\ "reset" \notin {"peak"} /\ {"peak"} \cap Queries \subseteq {"peak"}
  BY DEF Sends
<1>4. \A answers : Answered(answers)'
  BY <1>1 DEF Answered
<1> QED
  BY <1>2, <1>3, <1>4, OrderPut

LEMMA ReadingMoves ==
  ASSUME TypeInv, QuietInv, ReadingInv, Moves
  PROVE  ReadingInv'
<1> USE DEF settled, waiting, instrument, observers, Waits
<1>0. LineTypes
  BY DEF TypeInv
<1>1. ASSUME NEW ok \in BOOLEAN,
             \/ \E t \in Ranges : ConfigureScan(t, ok)
             \/ \E t \in Points : ConfigureMeter(t, ok)
      PROVE  ReadingInv'
  <2>1. at' # "reading" /\ result' = NoResult
    BY <1>1 DEF ConfigureScan, ConfigureMeter
  <2> QED
    BY <2>1, NoScanInResult DEF ReadingInv
<1>2. ASSUME NEW ok \in BOOLEAN,
             \/ ArmScan(ok) \/ ArmMeter(ok) \/ TakeControl(ok) \/ AskMode(ok) \/ FetchScan(ok)
             \/ AskIdentity(ok) \/ LabelTrace(ok) \/ Probe(ok)
      PROVE  ReadingInv'
  <2>1. UNCHANGED <<deserted, target, result>> /\ (dirty' \/ ~dirty) /\ at' # "reading"
    <3>1. CASE ArmScan(ok) \/ ArmMeter(ok) \/ TakeControl(ok) \/ Probe(ok)
      BY <3>1 DEF ArmScan, ArmMeter, TakeControl, Probe
    <3>2. CASE AskMode(ok) \/ FetchScan(ok) \/ AskIdentity(ok) \/ LabelTrace(ok)
      <4>1. UNCHANGED <<deserted, target, result>>
        BY <3>2 DEF AskMode, FetchScan, AskIdentity, LabelTrace
      <4> QED
        BY <1>0, <3>2, <4>1, LineOfQueries
    <3> QED
      BY <1>2, <3>1, <3>2
  <2> QED
    BY <2>1, ReadingElsewhere
<1>3. ASSUME \/ GiveUp \/ WaitEnds \/ DwellEnds \/ MeterStops \/ ProbeUnanswered \/ ProbeAnswered
             \/ DrainRead \/ ModeRead \/ IdentityRead \/ DrainCut \/ QueryCut
      PROVE  ReadingInv'
  <2>1. UNCHANGED <<deserted, target, result>> /\ (dirty' \/ ~dirty) /\ at' # "reading"
    <3>1. CASE GiveUp \/ WaitEnds \/ DrainCut
      BY <3>1 DEF GiveUp, WaitEnds, DrainCut
    <3>2. CASE DwellEnds \/ MeterStops \/ ProbeUnanswered \/ ProbeAnswered
               \/ DrainRead \/ ModeRead \/ IdentityRead \/ QueryCut
      <4>1. UNCHANGED <<deserted, target, result, dirty>>
        BY <3>2 DEF DwellEnds, MeterStops, ProbeUnanswered, ProbeAnswered, DrainRead, ModeRead,
                    IdentityRead, QueryCut
      <4>2. at' # "reading"
        BY <3>2 DEF DwellEnds, MeterStops, ProbeUnanswered, ProbeAnswered, DrainRead, ModeRead,
                    IdentityRead, QueryCut
      <4> QED
        BY <4>1, <4>2
    <3> QED
      BY <1>3, <3>1, <3>2
  <2> QED
    BY <2>1, ReadingElsewhere
<1>4. ASSUME DrainEnds
      PROVE  ReadingInv'
  <2>1. at' # "reading" /\ result' = result /\ at = "drain"
    BY <1>4 DEF DrainEnds, AfterWait
  <2>2. result = NoResult
    BY <2>1 DEF TypeInv
  <2> QED
    BY <2>1, <2>2, NoScanInResult DEF ReadingInv
<1>5. ASSUME NEW ok \in BOOLEAN, ReadMeter(ok)
      PROVE  ReadingInv'
  <2>1. /\ Sends({"peak"}) /\ replies' = replies
        /\ (at' = "reading" /\ dirty' = dirty) \/ (at' = "idle" /\ dirty' = TRUE)
    BY <1>0, <1>5, LineOfQueries
  <2>2. UNCHANGED <<deserted, target, result>> /\ at = "dwelt"
    BY <1>5 DEF ReadMeter
  <2>3. CASE dirty
    BY <2>1, <2>3 DEF ReadingInv
  <2>4. CASE ~dirty
    <3>1. /\ Before(wire', "reset", Queries) /\ OnlyAsked(wire', "peak")
          /\ \A answers : Answered(answers)'
      BY <2>1, <2>2, <2>4, PeakAsked
    <3> QED
      BY <2>2, <2>4, <3>1 DEF ReadingInv
  <2> QED
    BY <2>3, <2>4
<1>6. ASSUME ScanRead
      PROVE  ReadingInv'
  <2>1. /\ UNCHANGED <<deserted, dirty, target>> /\ at = "fetch" /\ at' \in {"idle", "unlabelled"}
        /\ (result' = [asked |-> target, got |-> OldestReply] \/ result' = result)
    BY <1>6 DEF ScanRead, AfterTrace
  <2>2. target \notin Points
    BY <2>1, NoScanInResult DEF TypeInv
  <2>3. CASE result' = result
    BY <2>1, <2>3, ReadingElsewhere
  <2>4. CASE result' = [asked |-> target, got |-> OldestReply]
    <3>1. result'.asked \notin Points
      BY <2>2, <2>4
    <3> QED
      BY <2>1, <3>1 DEF ReadingInv
  <2> QED
    BY <2>1, <2>3, <2>4
<1>7. ASSUME MeterRead
      PROVE  ReadingInv'
  <2>1. /\ UNCHANGED <<deserted, dirty, target>> /\ at = "reading"
        /\ at' \in {"idle", "unlabelled", "dwelt"}
        /\ \/ result' = [asked |-> target, got |-> OldestReply] /\ OldestReply.of # 0
           \/ result' = result
    BY <1>7 DEF MeterRead, AfterTrace
  <2>2. CASE result' = result
    BY <2>1, <2>2, ReadingElsewhere
  <2>3. CASE result' = [asked |-> target, got |-> OldestReply] /\ OldestReply.of # 0
    <3>1. OldestReply = replies[1] /\ 1 \in 1..Len(replies)
      BY <1>0, <1>7, LineOfWork
    <3>2. ~deserted /\ ~dirty => OldestReply \in PeakAnswers
      BY <2>1, <3>1 DEF ReadingInv, Answered, PeakAnswers
    <3>3. ~deserted /\ ~dirty => OldestReply = Reply("peak", target, TRUE)
      BY <2>3, <3>2 DEF PeakAnswers, Reply
    <3>4. result'.got = OldestReply
      BY <2>3
    <3>5. ~deserted' /\ ~dirty' => result'.got = Reply("peak", target', TRUE)
      BY <2>1, <3>3, <3>4
    <3> QED
      BY <2>1, <3>5 DEF ReadingInv
  <2> QED
    BY <2>1, <2>2, <2>3
<1>8. ASSUME NEW ok \in BOOLEAN, Abort(ok)
      PROVE  ReadingInv'
  <2>1. Sends({"stop"})
    BY <1>0, <1>8, ProbeSends
  <2>2. UNCHANGED <<deserted, dirty, target, result, at>>
    BY <1>8 DEF Abort
  <2>3. Extended(wire, wire', {"stop"}) /\ "reset" \notin {"stop"} /\ {"stop"} \cap Queries \subseteq {"peak"}
    BY <2>1 DEF Sends, Queries
  <2>4. /\ Before(wire, "reset", Queries) => Before(wire', "reset", Queries)
        /\ OnlyAsked(wire, "peak") => OnlyAsked(wire', "peak")
    BY <2>3, OrderPut
  <2>5. Answered(PeakAnswers) => Answered(PeakAnswers)'
    BY <2>1, <2>2 DEF Sends, Fewer, Answered, PeakAnswers
  <2> QED
    BY <2>2, <2>4, <2>5 DEF ReadingInv, PeakAnswers
<1> QED
  BY <1>1, <1>2, <1>3, <1>4, <1>5, <1>6, <1>7, <1>8 DEF Moves

LEMMA ReadingInstrument ==
  ASSUME TypeInv, ReadyInv, MeterInv, ReadingInv, Instrument
  PROVE  ReadingInv'
<1>0. LineTypes /\ UNCHANGED driver /\ UNCHANGED observers
  BY DEF TypeInv, Instrument, Deaf, BusyNoMore, Switch, BeStopped, ChangeRange, BeginScan,
         ChangePoint, ForgetPeak, BeginMeter, HoldPeak, AnswerQuery
<1>u. UNCHANGED <<at, target, deserted, dirty, result>>
  BY <1>0 DEF driver, observers
<1>e. ASSUME at = "reading" /\ ~deserted /\ ~dirty
               => (/\ Before(wire, "reset", Queries) /\ OnlyAsked(wire, "peak")
                   /\ Answered(PeakAnswers)
                   => /\ Before(wire', "reset", Queries) /\ OnlyAsked(wire', "peak")
                      /\ Answered(PeakAnswers)')
      PROVE  ReadingInv'
  BY <1>e, <1>u DEF ReadingInv, PeakAnswers
<1>k. replies' = replies => (Answered(PeakAnswers) => Answered(PeakAnswers)')
  BY <1>u DEF Answered, PeakAnswers
<1>t. Shorter(wire, wire')
      => /\ Before(wire, "reset", Queries) => Before(wire', "reset", Queries)
         /\ OnlyAsked(wire, "peak") => OnlyAsked(wire', "peak")
  BY OrderTaken
<1>1. ASSUME Deaf \/ Switch \/ BeStopped \/ ChangeRange \/ BeginScan
             \/ ChangePoint \/ ForgetPeak \/ BeginMeter
      PROVE  ReadingInv'
  <2>1. Shorter(wire, wire') /\ replies' = replies
    BY <1>0, <1>1, LineOfInstrument
  <2> QED
    BY <1>e, <1>k, <1>t, <2>1
<1>2. ASSUME BusyNoMore \/ HoldPeak
      PROVE  ReadingInv'
  <2>1. wire' = wire /\ replies' = replies
    BY <1>0, <1>2, LineOfWork
  <2> QED
    BY <1>e, <1>k, <2>1
\* The reset was executed before any query is answered.
<1>3. ASSUME AnswerQuery
      PROVE  ReadingInv'
  <2>1. /\ Shorter(wire, wire') /\ 1 \in 1..Len(wire) /\ wire[1].op \in Queries
        /\ \A i \in 1..Len(replies') :
             \/ replies'[i] = AnswerTo(wire[1].op)
             \/ \E j \in 1..Len(replies) : replies'[i] = replies[j]
    BY <1>3, LineOfAnswer
  <2>2. ASSUME at = "reading", ~deserted, Before(wire, "reset", Queries), OnlyAsked(wire, "peak"),
               Answered(PeakAnswers)
        PROVE  Answered(PeakAnswers)'
    <3>1. wire[1].op = "peak"
      BY <2>1, <2>2 DEF OnlyAsked
    <3>2. None(wire, "reset")
      BY <2>1, <2>2, OrderTaken
    <3>3. hold \in {0, target}
      BY <2>2, <3>2 DEF MeterInv, HoldCleared, None, Dwells
    <3>4. AnswerTo(wire[1].op) \in PeakAnswers
      BY <3>1, <3>3 DEF AnswerTo, PeakAnswers
    <3>5. PeakAnswers' = PeakAnswers
      BY <1>u DEF PeakAnswers
    <3> QED
      BY <2>1, <2>2, <3>4, <3>5 DEF Answered
  <2> QED
    BY <1>e, <1>t, <2>1, <2>2
<1> QED
  BY <1>1, <1>2, <1>3 DEF Instrument

LEMMA ReadingStep ==
  ASSUME TypeInv, QuietInv, ReadyInv, MeterInv, ReadingInv, Next
  PROVE  ReadingInv'
<1>1. ASSUME NEW ok \in BOOLEAN, Open(ok)
      PROVE  ReadingInv'
  <2>1. result' = NoResult /\ at' \in {"wait", "broken"}
    BY <1>1 DEF Open
  <2> QED
    BY <2>1, NoScanInResult DEF ReadingInv
<1>2. ASSUME NEW ok \in BOOLEAN, Close(ok)
      PROVE  ReadingInv'
  <2>1. at' # "reading" /\ UNCHANGED <<deserted, target, result, dirty>>
    BY <1>2 DEF Close, settled, observers
  <2> QED
    BY <2>1, ReadingElsewhere
<1> QED
  BY <1>1, <1>2, ReadingMoves, ReadingInstrument, NextMoves

-----------------------------------------------------------------------------
(* The theorems.                                                           *)

\* Whatever is sent, lost, answered late, given up or aborted, the outstanding
\* answers are counted, the change of personality is over once the instrument has
\* answered, and the wire holds what the present scan or dwell still needs.
THEOREM Invariant == Spec => []FscanInv
<1> USE DEF FscanInv
<1>1. Init => FscanInv
  <2>1. Init => ReadyInv
    BY EmptySeq DEF Init, LineInit, ReadyInv
  <2> QED
    BY <2>1, TypeInit, QuietInit, ScanInit, MeterInit, ReadingInit
<1>2. FscanInv /\ [Next]_vars => FscanInv'
  <2> SUFFICES ASSUME FscanInv, [Next]_vars
               PROVE  FscanInv'
    OBVIOUS
  <2>1. CASE Next
    BY <2>1, TypeStep, QuietStep, ReadyStep, ScanStep, MeterStep, ReadingStep
  <2>2. CASE UNCHANGED vars
    <3> USE DEF vars, line, driver, instrument, observers
    <3>1. TypeInv'
      BY <2>2 DEF TypeInv, LineTypes
    <3>2. QuietInv'
      BY <2>2 DEF QuietInv, Outstanding, Unread
    <3>3. ReadyInv'
      BY <2>2 DEF ReadyInv, Ready
    <3>4. ScanInv' /\ MeterInv' /\ ReadingInv'
      BY <2>2 DEF ScanInv, MeterInv, ReadingInv, Calm, ScanPending, ScanTaken, Answered,
                  NumbersAre, NumericLeft
    <3> QED
      BY <3>1, <3>2, <3>3, <3>4
  <2> QED
    BY <2>1, <2>2
<1> QED
  BY <1>1, <1>2, PTL DEF Spec

\* The trace of a scan is of the range that was configured last, however many probes
\* went unanswered and however few of their answers the drain read -- unless a scan
\* was still under way when it was configured, or the answer to an earlier reading
\* outlasted the drain.
THEOREM ScanOfItsRange == Spec => []ScanIsOfItsRange
<1>1. FscanInv => ScanIsOfItsRange
  <2> SUFFICES ASSUME FscanInv, result.asked \in Ranges, ~deserted, ~stale
               PROVE  result.got = Reply("trace", target, TRUE)
    BY DEF ScanIsOfItsRange
  <2> QED
    BY DEF FscanInv, ScanInv
<1> QED
  BY <1>1, Invariant, PTL

\* A reading is the level at the point that was configured last, and not what the
\* peak hold kept, unless besides an answer was given up since a drain last left the
\* line empty.
THEOREM ReadingOfItsPoint == Spec => []ReadingIsOfItsPoint
<1>1. FscanInv => ReadingIsOfItsPoint
  <2> SUFFICES ASSUME FscanInv, result.asked \in Points, ~deserted, ~dirty
               PROVE  result.got = Reply("peak", target, TRUE)
    BY DEF ReadingIsOfItsPoint
  <2> QED
    BY DEF FscanInv, ReadingInv
<1> QED
  BY <1>1, Invariant, PTL

=============================================================================
