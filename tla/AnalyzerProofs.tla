--------------------------- MODULE AnalyzerProofs ---------------------------
(***************************************************************************)
(* Proofs about the driver of the swept analyzers, for any number of       *)
(* targets, connections and queries given up, however far the instrument   *)
(* lags behind.  As long as no query of the connection was given up, where *)
(* the driver stands says what is on the line: at most one query, as the   *)
(* last of the commands under way, or its answer alone.                    *)
(***************************************************************************)
EXTENDS ScpiAnalyzerDriver, SequenceTheorems, TLAPS

Commands ==
  {Hold, Free, Single} \cup {Set(t) : t \in Targets \cup {0}} \cup {Ask(q) : q \in Queries}

\* The instrument of a connection that is set up sweeps on its own only until it
\* executes the first command.
InstrumentInv ==
  /\ lost \in Nat /\ wire \in Seq(Commands) /\ run \in {"free", "single", "held"}
  /\ at \notin {"closed", "broken"} =>
       /\ \A i \in 1..Len(wire) : wire[i] # Free
       /\ run = "free" => wire # <<>> /\ wire[1] = Hold

Silent == replies = <<>> /\ \A i \in 1..Len(wire) : wire[i].op \notin Queries

\* One query is under way, its answer is, or it was cleared.
Asking(q, answer) ==
  \/ /\ replies = <<>> /\ wire # <<>> /\ wire[Len(wire)] = Ask(q)
     /\ \A i \in 1..(Len(wire) - 1) : wire[i].op \notin Queries
  \/ /\ replies \in {<<>>, <<answer>>}
     /\ \A i \in 1..Len(wire) : wire[i].op \notin Queries

\* The sweep of the target was executed and is displayed.
Shows == wire = <<>> /\ run = "held" /\ swept = target

\* What the instrument has yet to do before it answers *OPC?.
Sweeping ==
  \/ /\ Len(wire) >= 2 /\ wire[Len(wire) - 1] = Single
     /\ wire[Len(wire)] = Ask("opc")
     /\ IF Len(wire) = 2 THEN settings = target ELSE wire[Len(wire) - 2] = Set(target)
  \/ wire = <<Ask("opc")>> /\ run # "free" /\ swept = target
  \/ Shows

Fetching ==
  \/ wire = <<Ask("trace")>> /\ replies = <<>> /\ run = "held" /\ swept = target
  \/ Shows /\ replies \in {<<>>, <<Reply("trace", target, TRUE)>>}

QuietInv ==
  /\ at \in {"open", "idle", "configured", "swept", "unlabelled"} => Silent
  /\ at \in {"identify", "label"} => Asking("idn", Reply("idn", 0, TRUE))
  /\ at = "configured" =>
       IF wire = <<>> THEN settings = target ELSE wire[Len(wire)] = Set(target)
  /\ at = "sweep" => Asking("opc", Reply("opc", 0, TRUE)) /\ Sweeping
  /\ at = "swept" => Shows
  /\ at = "fetch" => Fetching
  /\ result # NoResult => result.got = Reply("trace", result.asked, TRUE)

AnalyzerInv == InstrumentInv /\ (lost = 0 => QuietInv)

-----------------------------------------------------------------------------
(* Commands are put on the wire in pairs or alone, and taken off its head.  *)

LEMMA CommandTypes ==
  /\ Hold \in Commands /\ Free \in Commands /\ Single \in Commands
  /\ \A t \in Targets \cup {0} : Set(t) \in Commands
  /\ \A q \in Queries : Ask(q) \in Commands
  BY DEF Commands

LEMMA WriteOne ==
  ASSUME NEW w \in Seq(Commands), NEW c \in Commands
  PROVE  LET r == w \o <<c>>
         IN  /\ r \in Seq(Commands) /\ Len(r) = Len(w) + 1 /\ Len(w) \in Nat
             /\ r[Len(r)] = c
             /\ \A i \in 1..Len(w) : r[i] = w[i]
             /\ \A i \in 1..Len(r) : i = Len(r) \/ i \in 1..Len(w)
  OBVIOUS

LEMMA WriteTwo ==
  ASSUME NEW w \in Seq(Commands), NEW c \in Commands, NEW d \in Commands
  PROVE  LET r == w \o <<c, d>>
         IN  /\ r \in Seq(Commands) /\ Len(r) = Len(w) + 2 /\ Len(w) \in Nat
             /\ r[Len(w) + 1] = c /\ r[Len(w) + 2] = d
             /\ \A i \in 1..Len(w) : r[i] = w[i]
             /\ \A i \in 1..Len(r) : i \in {Len(w) + 1, Len(w) + 2} \cup 1..Len(w)
  OBVIOUS

LEMMA TakeOff ==
  ASSUME NEW w \in Seq(Commands), w # <<>>
  PROVE  LET r == Tail(w)
         IN  /\ r \in Seq(Commands) /\ Len(w) = Len(r) + 1 /\ Len(r) \in Nat
             /\ Head(w) = w[1] /\ w[1] \in Commands
             /\ \A i \in 1..Len(r) : r[i] = w[i + 1]
  OBVIOUS

LEMMA PrefixesOfOne ==
  ASSUME NEW c \in Commands
  PROVE  Prefixes(<<c>>) = {<<>>, <<c>>}
<1> DEFINE s == <<c>>
<1>1. s \in Seq(Commands) /\ Len(s) = 1 /\ 0..1 = {0, 1}
  OBVIOUS
<1> HIDE DEF s
<1>2. SubSeq(s, 1, 0) = <<>> /\ SubSeq(s, 1, 1) = s
  BY <1>1, SubSeqEmpty, SubSeqFull
<1>3. Prefixes(s) = {<<>>, s}
  <2>1. Prefixes(s) = {SubSeq(s, 1, n) : n \in {0, 1}}
    BY <1>1 DEF Prefixes
  <2> QED
    BY <1>2, <2>1
<1> QED
  BY <1>3 DEF s

LEMMA PrefixesOfTwo ==
  ASSUME NEW c \in Commands, NEW d \in Commands
  PROVE  Prefixes(<<c, d>>) = {<<>>, <<c>>, <<c, d>>}
<1> DEFINE s == <<c, d>>
<1>1. s \in Seq(Commands) /\ Len(s) = 2 /\ 0..2 = {0, 1, 2} /\ s[1] = c
  OBVIOUS
<1> HIDE DEF s
<1>2. SubSeq(s, 1, 0) = <<>> /\ SubSeq(s, 1, 2) = s
  BY <1>1, SubSeqEmpty, SubSeqFull
<1>3. SubSeq(s, 1, 1) = <<c>>
  <2> DEFINE r == SubSeq(s, 1, 1)
  <2>1. r \in Seq(Commands) /\ Len(r) = 1 /\ r[1] = c
    BY <1>1, SubSeqProperties
  <2> HIDE DEF r
  <2>2. r = <<c>>
    BY <2>1
  <2> QED
    BY <2>2 DEF r
<1>4. Prefixes(s) = {<<>>, <<c>>, s}
  <2>1. Prefixes(s) = {SubSeq(s, 1, n) : n \in {0, 1, 2}}
    BY <1>1 DEF Prefixes
  <2> QED
    BY <1>2, <1>3, <2>1
<1> QED
  BY <1>4 DEF s

\* What a write of one or of two commands may leave on the wire.
LEMMA WritesOne ==
  ASSUME InstrumentInv, NEW c \in Commands, Written(<<c>>) \/ WriteFails(<<c>>)
  PROVE  wire' \in {wire, wire \o <<c>>}
<1>1. wire \o <<>> = wire
  BY DEF InstrumentInv
<1> QED
  BY <1>1, PrefixesOfOne DEF Written, WriteFails

LEMMA WritesTwo ==
  ASSUME InstrumentInv, NEW c \in Commands, NEW d \in Commands,
         Written(<<c, d>>) \/ WriteFails(<<c, d>>)
  PROVE  wire' \in {wire, wire \o <<c>>, wire \o <<c, d>>}
<1>1. wire \o <<>> = wire
  BY DEF InstrumentInv
<1> QED
  BY <1>1, PrefixesOfTwo DEF Written, WriteFails

-----------------------------------------------------------------------------
(* The instrument's side.                                                  *)

LEMMA ExtendWire ==
  ASSUME InstrumentInv, NEW c \in Commands, NEW d \in Commands, c # Free, d # Free,
         wire' \in {wire, wire \o <<c>>, wire \o <<c, d>>},
         run' = run, lost' \in Nat, at \notin {"closed", "broken"}
  PROVE  InstrumentInv'
<1>1. CASE wire' = wire
  BY <1>1 DEF InstrumentInv
<1>2. CASE wire' = wire \o <<c>>
  <2> DEFINE r == wire \o <<c>>
  <2>1. /\ r \in Seq(Commands) /\ Len(r) = Len(wire) + 1 /\ Len(wire) \in Nat
        /\ r[Len(r)] = c /\ \A i \in 1..Len(wire) : r[i] = wire[i]
        /\ \A i \in 1..Len(r) : i = Len(r) \/ i \in 1..Len(wire)
    BY WriteOne DEF InstrumentInv
  <2>2. wire' = r
    BY <1>2
  <2> HIDE DEF r
  <2>3. \A i \in 1..Len(r) : r[i] # Free
    BY <2>1 DEF InstrumentInv
  <2>4. run = "free" => r # <<>> /\ r[1] = Hold
    BY <2>1 DEF InstrumentInv
  <2> QED
    BY <2>1, <2>2, <2>3, <2>4 DEF InstrumentInv
<1>3. CASE wire' = wire \o <<c, d>>
  <2> DEFINE r == wire \o <<c, d>>
  <2>1. /\ r \in Seq(Commands) /\ Len(r) = Len(wire) + 2 /\ Len(wire) \in Nat
        /\ r[Len(wire) + 1] = c /\ r[Len(wire) + 2] = d
        /\ \A i \in 1..Len(wire) : r[i] = wire[i]
        /\ \A i \in 1..Len(r) : i \in {Len(wire) + 1, Len(wire) + 2} \cup 1..Len(wire)
    BY WriteTwo DEF InstrumentInv
  <2>2. wire' = r
    BY <1>3
  <2> HIDE DEF r
  <2>3. \A i \in 1..Len(r) : r[i] # Free
    BY <2>1 DEF InstrumentInv
  <2>4. run = "free" => r # <<>> /\ r[1] = Hold
    BY <2>1 DEF InstrumentInv
  <2> QED
    BY <2>1, <2>2, <2>3, <2>4 DEF InstrumentInv
<1> QED
  BY <1>1, <1>2, <1>3

LEMMA ShortenWire ==
  ASSUME InstrumentInv, wire # <<>>, wire' = Tail(wire), lost' = lost, at' = at,
         run' \in {"free", "single", "held"},
         run' = "free" => wire[1] = Free \/ (run = "free" /\ wire[1] # Hold)
  PROVE  InstrumentInv'
<1> DEFINE r == Tail(wire)
<1>1. /\ r \in Seq(Commands) /\ Len(wire) = Len(r) + 1 /\ Len(r) \in Nat
      /\ \A i \in 1..Len(r) : r[i] = wire[i + 1]
  BY TakeOff DEF InstrumentInv
<1> HIDE DEF r
<1>2. 1 \in 1..Len(wire)
  BY <1>1
<1> QED
  BY <1>1, <1>2 DEF InstrumentInv, r

LEMMA InstrumentNext ==
  ASSUME InstrumentInv, [Next]_vars
  PROVE  InstrumentInv'
<1> USE CommandTypes
<1>1. CASE UNCHANGED vars
  BY <1>1 DEF InstrumentInv, vars, line, driver, instrument, observers
<1>2. ASSUME NEW ok \in BOOLEAN, Open(ok)
      PROVE  InstrumentInv'
  <2>1. wire' \in {<<>>, <<Hold>>} /\ run' = run /\ lost' = 0
        /\ ((at' = "open" /\ wire' = <<Hold>>) \/ at' = "broken")
    BY <1>2, PrefixesOfOne DEF Open, Connected, NotConnected, instrument
  <2>2. <<>> \in Seq(Commands) /\ <<Hold>> \in Seq(Commands)
    OBVIOUS
  <2>3. Hold # Free
    BY DEF Hold, Free
  <2>4. CASE at' = "broken"
    BY <2>1, <2>2, <2>4 DEF InstrumentInv
  <2>5. CASE at' = "open" /\ wire' = <<Hold>>
    <3>1. Len(wire') = 1 /\ wire'[1] = Hold
      BY <2>5
    <3>2. /\ \A i \in 1..Len(wire') : wire'[i] # Free
          /\ wire' # <<>>
      BY <2>3, <2>5, <3>1
    <3> QED
      BY <2>1, <2>2, <2>5, <3>1, <3>2 DEF InstrumentInv
  <2> QED
    BY <2>1, <2>4, <2>5
<1>3. ASSUME NEW ok \in BOOLEAN, Close(ok)
      PROVE  InstrumentInv'
  <2>1. wire' \in {wire \o <<>>, wire \o <<Free>>} /\ UNCHANGED <<run, lost>> /\ at' = "closed"
    BY <1>3 DEF Close, Closed, instrument
  <2>2. wire \o <<>> \in Seq(Commands) /\ wire \o <<Free>> \in Seq(Commands)
    BY DEF InstrumentInv
  <2> QED
    BY <2>1, <2>2 DEF InstrumentInv
<1>4. ASSUME NEW ok \in BOOLEAN, AskIdentity(ok) \/ LabelTrace(ok)
      PROVE  InstrumentInv'
  <2>1. Ask("idn") \in Commands /\ Ask("idn") # Free
    BY DEF Ask, Free, Queries
  <2>2. wire' \in {wire, wire \o <<Ask("idn")>>}
    BY <1>4, <2>1, WritesOne DEF AskIdentity, LabelTrace, QueryIdentity, Query
  <2>3. run' = run /\ lost' \in Nat /\ at \in {"open", "unlabelled"}
    BY <1>4 DEF AskIdentity, LabelTrace, QueryIdentity, Query, instrument, InstrumentInv
  <2> QED
    BY <2>1, <2>2, <2>3, ExtendWire
<1>5. ASSUME NEW ok \in BOOLEAN, NEW t \in Targets, ConfigureSweep(t, ok)
      PROVE  InstrumentInv'
  <2>1. Set(0) \in Commands /\ Set(t) \in Commands /\ Set(0) # Free /\ Set(t) # Free
    BY DEF Set, Free
  <2>2. wire' \in {wire, wire \o <<Set(0)>>, wire \o <<Set(0), Set(t)>>}
    BY <1>5, <2>1, WritesTwo DEF ConfigureSweep
  <2>3. run' = run /\ lost' = lost /\ at = "idle"
    BY <1>5 DEF ConfigureSweep, instrument, observers
  <2> QED
    BY <2>1, <2>2, <2>3, ExtendWire DEF InstrumentInv
<1>6. ASSUME NEW ok \in BOOLEAN, ArmAndTrigger(ok)
      PROVE  InstrumentInv'
  <2>1. /\ Single \in Commands /\ Ask("opc") \in Commands
        /\ Single # Free /\ Ask("opc") # Free
    BY DEF Single, Ask, Free, Queries
  <2>2. wire' \in {wire, wire \o <<Single>>, wire \o <<Single, Ask("opc")>>}
    BY <1>6, <2>1, WritesTwo DEF ArmAndTrigger, Query
  <2>3. run' = run /\ lost' \in Nat /\ at = "configured"
    BY <1>6 DEF ArmAndTrigger, Query, instrument, InstrumentInv
  <2> QED
    BY <2>1, <2>2, <2>3, ExtendWire
<1>7. ASSUME NEW ok \in BOOLEAN, FetchTrace(ok)
      PROVE  InstrumentInv'
  <2>1. Ask("trace") \in Commands /\ Ask("trace") # Free
    BY DEF Ask, Free, Queries
  <2>2. wire' \in {wire, wire \o <<Ask("trace")>>}
    BY <1>7, <2>1, WritesOne DEF FetchTrace, Query
  <2>3. run' = run /\ lost' \in Nat /\ at = "swept"
    BY <1>7 DEF FetchTrace, Query, instrument, InstrumentInv
  <2> QED
    BY <2>1, <2>2, <2>3, ExtendWire
<1>8. CASE IdentityRead \/ SweepDone \/ TraceRefused \/ TraceRead \/ GiveUp \/ Abort
  <2>1. /\ wire' = wire /\ run' = run /\ lost' \in Nat
        /\ at \notin {"closed", "broken"} \/ at' = at
    BY <1>8 DEF IdentityRead, SweepDone, TraceRefused, TraceRead, GiveUp, Abort, Read, Clear,
       line, instrument, observers, InstrumentInv, Awaiting
  <2> QED
    BY <2>1 DEF InstrumentInv
<1>9. CASE EndSweep
  BY <1>9 DEF EndSweep, line, driver, observers, InstrumentInv
<1>10. CASE \/ ChangeSettings \/ StopSweeping \/ SweepFreely \/ BeginSweep
            \/ AnswerIdentity \/ AnswerComplete \/ AnswerTrace
  <2>1. /\ wire # <<>> /\ wire' = Tail(wire) /\ UNCHANGED <<at, lost>>
        /\ \/ Head(wire).op = "hold" /\ run' # "free" /\ run' \in {run, "held"}
           \/ Head(wire).op = "free" /\ run' = "free"
           \/ Head(wire).op \notin {"hold", "free"} /\ run' \in {run, "single"}
    BY <1>10 DEF ChangeSettings, StopSweeping, SweepFreely, BeginSweep, AnswerIdentity,
       AnswerComplete, AnswerTrace, UpNext, Execute, Answer, driver, instrument, observers
  <2>2. Head(wire) = wire[1] /\ wire[1] \in Commands
    BY <2>1, TakeOff DEF InstrumentInv
  <2>3. wire[1].op = "free" => wire[1] = Free
    BY <2>2 DEF Commands, Hold, Free, Single, Set, Ask, Queries
  <2>4. wire[1].op # "hold" => wire[1] # Hold
    BY DEF Hold
  <2>5. run' \in {"free", "single", "held"}
    BY <2>1 DEF InstrumentInv
  <2>6. run' = "free" => wire[1] = Free \/ (run = "free" /\ wire[1] # Hold)
    BY <2>1, <2>2, <2>3, <2>4
  <2> QED
    BY <2>1, <2>5, <2>6, ShortenWire
<1> QED
  BY <1>1, <1>2, <1>3, <1>4, <1>5, <1>6, <1>7, <1>8, <1>9, <1>10
  DEF Next, Work, Instrument

-----------------------------------------------------------------------------
(* What is on the line, as long as no query was given up.                  *)

LEMMA TailOfOne == \A a : Tail(<<a>>) = <<>> /\ Head(<<a>>) = a
  OBVIOUS

\* A command that is no query is executed.
LEMMA Executed ==
  ASSUME InstrumentInv, wire # <<>>, wire' = Tail(wire), replies' = replies,
         wire[1].op \notin Queries
  PROVE  /\ Silent => Silent'
         /\ \A q \in Queries : \A a : Asking(q, a) => Asking(q, a)'
<1> DEFINE r == Tail(wire)
<1>1. /\ r \in Seq(Commands) /\ Len(wire) = Len(r) + 1 /\ Len(r) \in Nat
      /\ \A i \in 1..Len(r) : r[i] = wire[i + 1] /\ i + 1 \in 1..Len(wire)
  BY TakeOff DEF InstrumentInv
<1>2. wire' = r
  OBVIOUS
<1> HIDE DEF r
<1>3. Silent => Silent'
  BY <1>1, <1>2 DEF Silent
<1>4. ASSUME NEW q \in Queries, NEW a, Asking(q, a)
      PROVE  Asking(q, a)'
  <2>1. CASE /\ replies = <<>> /\ wire[Len(wire)] = Ask(q)
             /\ \A i \in 1..(Len(wire) - 1) : wire[i].op \notin Queries
    <3>1. Len(wire) # 1
      BY <2>1 DEF Ask
    <3>2. Len(r) >= 1 /\ r[Len(r)] = Ask(q) /\ r # <<>>
      BY <1>1, <2>1, <3>1
    <3>3. \A i \in 1..(Len(r) - 1) : r[i].op \notin Queries
      <4> SUFFICES ASSUME NEW i \in 1..(Len(r) - 1) PROVE r[i].op \notin Queries
        OBVIOUS
      <4>1. i + 1 \in 1..(Len(wire) - 1) /\ r[i] = wire[i + 1]
        BY <1>1
      <4> QED
        BY <2>1, <4>1
    <3> QED
      BY <1>2, <2>1, <3>2, <3>3 DEF Asking
  <2>2. CASE /\ replies \in {<<>>, <<a>>}
             /\ \A i \in 1..Len(wire) : wire[i].op \notin Queries
    BY <1>1, <1>2, <2>2 DEF Asking
  <2> QED
    BY <1>4, <2>1, <2>2 DEF Asking
<1> QED
  BY <1>3, <1>4

\* A query is answered: it was the last command, and its answer is the one awaited.
LEMMA Answered ==
  ASSUME InstrumentInv, NEW q, NEW p \in Queries, NEW a, NEW b,
         wire # <<>>, wire[1].op = p, Answer(b), Asking(q, a)
  PROVE  /\ wire = <<Ask(q)>> /\ p = q /\ wire' = <<>>
         /\ replies = <<>> /\ replies' \in {<<>>, <<b>>}
<1> DEFINE n == Len(wire)
<1>1. n \in Nat /\ n >= 1
  BY DEF InstrumentInv
<1>2. /\ replies = <<>> /\ wire[Len(wire)] = Ask(q)
      /\ \A i \in 1..(Len(wire) - 1) : wire[i].op \notin Queries
  <2>1. 1 \in 1..Len(wire)
    BY <1>1
  <2> QED
    BY <2>1 DEF Asking
<1>3. n = 1
  <2>1. 1 \notin 1..(n - 1)
    BY <1>2
  <2> HIDE DEF n
  <2> QED
    BY <1>1, <2>1
<1>4. wire = <<Ask(q)>>
  BY <1>2, <1>3 DEF InstrumentInv
<1>5. p = q
  BY <1>2, <1>3 DEF Ask
<1>6. wire' = <<>>
  BY <1>4, TailOfOne DEF Answer
<1>7. replies' \in {<<>>, <<b>>}
  BY <1>2 DEF Answer
<1> QED
  BY <1>2, <1>4, <1>5, <1>6, <1>7

\* What clear() leaves of a single reply.
LEMMA ClearedOne ==
  ASSUME NEW a, replies \in {<<>>, <<a>>}, Clear
  PROVE  replies' \in {<<>>, replies}
<1>1. PICK n \in 0..Len(replies) : replies' = SubSeq(replies, n + 1, Len(replies))
  BY DEF Clear, Discarded
<1>2. CASE replies = <<>>
  <2>1. Len(replies) = 0 /\ n = 0
    BY <1>1, <1>2
  <2>2. SubSeq(replies, 1, 0) = <<>>
    BY <1>2, SubSeqEmpty
  <2> QED
    BY <1>1, <2>1, <2>2
<1>3. CASE replies = <<a>>
  <2>1. replies \in Seq({a}) /\ Len(replies) = 1 /\ n \in {0, 1}
    BY <1>1, <1>3
  <2>2. SubSeq(replies, 1, Len(replies)) = replies
    BY <2>1, SubSeqFull
  <2>3. SubSeq(replies, 2, 1) = <<>>
    BY <2>1, SubSeqEmpty
  <2>4. CASE n = 0
    BY <1>1, <2>2, <2>4
  <2>5. CASE n = 1
    BY <1>1, <2>1, <2>3, <2>5
  <2> QED
    BY <2>1, <2>4, <2>5
<1> QED
  BY <1>2, <1>3

LEMMA QuietAbort ==
  ASSUME QuietInv, Abort
  PROVE  QuietInv'
<1>1. /\ UNCHANGED <<wire, at, target, result, settings, run, swept>> /\ Clear
  BY DEF Abort, Clear, instrument
<1>2. \A a : replies \in {<<>>, <<a>>} => replies' \in {<<>>, replies}
  BY <1>1, ClearedOne
<1>3. Silent => Silent'
  BY <1>1, <1>2 DEF Silent
<1>4. \A q, a : Asking(q, a) => Asking(q, a)'
  BY <1>1, <1>2 DEF Asking
<1>5. Fetching => Fetching'
  <2> DEFINE a == Reply("trace", target, TRUE)
  <2> HIDE DEF a
  <2>1. replies \in {<<>>, <<a>>} => replies' \in {<<>>, replies}
    BY <1>1, ClearedOne
  <2>2. a' = a
    BY <1>1 DEF Reply, a
  <2>3. replies = <<>> => replies' = <<>>
    BY <2>1
  <2>4. Fetching = (\/ wire = <<Ask("trace")>> /\ replies = <<>> /\ run = "held" /\ swept = target
                    \/ Shows /\ replies \in {<<>>, <<a>>})
    BY DEF Fetching, a
  <2>5. Fetching' = (\/ wire' = <<Ask("trace")>> /\ replies' = <<>> /\ run' = "held" /\ swept' = target'
                     \/ Shows' /\ replies' \in {<<>>, <<a'>>})
    BY DEF Fetching, a
  <2> QED
    BY <1>1, <2>1, <2>2, <2>3, <2>4, <2>5 DEF Shows
<1> QED
  BY <1>1, <1>3, <1>4, <1>5 DEF QuietInv, Sweeping, Shows

\* The worker's steps that write.
LEMMA QuietWrites ==
  ASSUME InstrumentInv, QuietInv, lost = 0, lost' = 0, NEW ok \in BOOLEAN,
         \/ AskIdentity(ok) \/ LabelTrace(ok) \/ FetchTrace(ok) \/ ArmAndTrigger(ok)
         \/ \E t \in Targets : ConfigureSweep(t, ok)
  PROVE  QuietInv'
<1> USE CommandTypes
<1>1. Silent /\ wire \in Seq(Commands)
  BY DEF QuietInv, InstrumentInv, AskIdentity, LabelTrace, FetchTrace, ArmAndTrigger,
     ConfigureSweep
<1>2. CASE AskIdentity(ok) \/ LabelTrace(ok)
  <2> DEFINE r == wire \o <<Ask("idn")>>
  <2>1. wire' = r /\ replies' = replies /\ result' = result /\ at' \in {"identify", "label"}
    BY <1>2 DEF AskIdentity, LabelTrace, QueryIdentity, Query, Written
  <2>2. Ask("idn") \in Commands
    BY DEF Queries
  <2>3. /\ Len(r) = Len(wire) + 1 /\ r[Len(r)] = Ask("idn") /\ Len(wire) \in Nat
        /\ \A i \in 1..Len(wire) : r[i] = wire[i]
    BY <1>1, <2>2, WriteOne
  <2> HIDE DEF r
  <2>4. /\ r # <<>>
        /\ \A i \in 1..(Len(r) - 1) : r[i].op \notin Queries
    BY <1>1, <2>3 DEF Silent
  <2>5. Asking("idn", Reply("idn", 0, TRUE))'
    BY <1>1, <2>1, <2>3, <2>4 DEF Asking, Silent
  <2> QED
    BY <2>1, <2>5 DEF QuietInv
<1>3. CASE FetchTrace(ok)
  <2>1. Shows
    BY <1>3 DEF FetchTrace, QuietInv
  <2>2. /\ wire' = wire \o <<Ask("trace")>> /\ replies' = replies /\ result' = result
        /\ at' = "fetch" /\ target' = target /\ run' = run /\ swept' = swept
    BY <1>3 DEF FetchTrace, Query, Written, instrument
  <2>3. wire' = <<Ask("trace")>>
    BY <2>1, <2>2 DEF Shows
  <2>4. Fetching'
    BY <1>1, <2>1, <2>2, <2>3 DEF Fetching, Shows, Silent
  <2> QED
    BY <2>2, <2>4 DEF QuietInv
<1>4. CASE ArmAndTrigger(ok)
  <2> DEFINE r == wire \o <<Single, Ask("opc")>>
  <2>1. /\ wire' = r /\ replies' = replies /\ result' = result /\ at' = "sweep"
        /\ target' = target /\ settings' = settings
        /\ IF wire = <<>> THEN settings = target ELSE wire[Len(wire)] = Set(target)
    BY <1>4 DEF ArmAndTrigger, Query, Written, instrument, QuietInv
  <2>2. Ask("opc") \in Commands /\ Single.op \notin Queries
    BY DEF Queries, Single
  <2>3. /\ Len(r) = Len(wire) + 2 /\ Len(wire) \in Nat
        /\ r[Len(wire) + 1] = Single /\ r[Len(wire) + 2] = Ask("opc")
        /\ \A i \in 1..Len(wire) : r[i] = wire[i]
    BY <1>1, <2>2, WriteTwo
  <2> HIDE DEF r
  <2>4. /\ r # <<>> /\ r[Len(r)] = Ask("opc")
        /\ \A i \in 1..(Len(r) - 1) : r[i].op \notin Queries
    <3>1. \A i \in 1..(Len(r) - 1) : i = Len(wire) + 1 \/ i \in 1..Len(wire)
      BY <2>3
    <3> QED
      BY <1>1, <2>2, <2>3, <3>1 DEF Silent
  <2>5. Asking("opc", Reply("opc", 0, TRUE))'
    BY <1>1, <2>1, <2>3, <2>4 DEF Asking, Silent
  <2>6. /\ Len(r) >= 2 /\ r[Len(r) - 1] = Single
        /\ IF Len(r) = 2 THEN settings = target ELSE r[Len(r) - 2] = Set(target)
    <3>1. Len(wire) = 0 => wire = <<>>
      BY <1>1
    <3>2. Len(r) - 1 = Len(wire) + 1 /\ Len(r) - 2 = Len(wire) /\ Len(r) >= 2
      BY <2>3
    <3>3. CASE Len(wire) = 0
      BY <2>1, <2>3, <3>1, <3>2, <3>3
    <3>4. CASE Len(wire) # 0
      <4>1. wire # <<>> /\ Len(wire) \in 1..Len(wire) /\ Len(r) # 2
        BY <2>3, <3>4
      <4> QED
        BY <2>1, <2>3, <3>2, <4>1
    <3> QED
      BY <3>3, <3>4
  <2>7. Sweeping'
    BY <2>1, <2>4, <2>6 DEF Sweeping, Ask, Set, Single
  <2> QED
    BY <2>1, <2>5, <2>7 DEF QuietInv
<1>5. ASSUME NEW t \in Targets, ConfigureSweep(t, ok)
      PROVE  QuietInv'
  <2> DEFINE r == wire \o <<Set(0), Set(t)>>
             s == wire \o <<Set(0)>>
  <2>1. /\ replies' = replies /\ result' = result /\ target' = t
        /\ \/ at' = "configured" /\ wire' = r
           \/ at' = "idle" /\ wire' \in {wire, s, r}
    BY <1>5, WritesTwo DEF ConfigureSweep, Written, WriteFails
  <2>2. Set(0) \in Commands /\ Set(t) \in Commands
    OBVIOUS
  <2>3. Set(0).op \notin Queries /\ Set(t).op \notin Queries
    BY DEF Set, Queries
  <2>4. /\ Len(r) = Len(wire) + 2 /\ Len(wire) \in Nat
        /\ r[Len(wire) + 1] = Set(0) /\ r[Len(wire) + 2] = Set(t)
        /\ \A i \in 1..Len(wire) : r[i] = wire[i]
        /\ \A i \in 1..Len(r) : i \in {Len(wire) + 1, Len(wire) + 2} \cup 1..Len(wire)
    BY <1>1, <2>2, WriteTwo
  <2>5. /\ Len(s) = Len(wire) + 1
        /\ s[Len(s)] = Set(0)
        /\ \A i \in 1..Len(wire) : s[i] = wire[i]
        /\ \A i \in 1..Len(s) : i = Len(s) \/ i \in 1..Len(wire)
    BY <1>1, <2>2, WriteOne
  <2> HIDE DEF r, s
  <2>6. \A i \in 1..Len(r) : r[i].op \notin Queries
    BY <1>1, <2>3, <2>4 DEF Silent
  <2>7. \A i \in 1..Len(s) : s[i].op \notin Queries
    BY <1>1, <2>3, <2>5 DEF Silent
  <2>8. Silent'
    BY <1>1, <2>1, <2>6, <2>7 DEF Silent
  <2>9. r # <<>> /\ r[Len(r)] = Set(t)
    BY <2>4
  <2> QED
    BY <2>1, <2>8, <2>9 DEF QuietInv
<1> QED
  BY <1>2, <1>3, <1>4, <1>5

\* The worker's steps that read.  An answer that is there is the one awaited.
LEMMA QuietReads ==
  ASSUME InstrumentInv, QuietInv, IdentityRead \/ SweepDone \/ TraceRefused \/ TraceRead
  PROVE  QuietInv'
<1>1. /\ UNCHANGED <<wire, target, run, swept, settings>>
      /\ replies # <<>> /\ replies' = Tail(replies)
  BY DEF IdentityRead, SweepDone, TraceRefused, TraceRead, Read, instrument
<1>2. ASSUME NEW q \in Queries, NEW a, Asking(q, a)
      PROVE  replies = <<a>> /\ Silent'
  <2>1. replies = <<a>> /\ \A i \in 1..Len(wire) : wire[i].op \notin Queries
    BY <1>1, <1>2 DEF Asking
  <2>2. replies' = <<>>
    BY <1>1, <2>1, TailOfOne
  <2> QED
    BY <1>1, <2>1, <2>2 DEF Silent
<1>3. CASE IdentityRead
  <2>1. Silent'
    BY <1>2, <1>3 DEF IdentityRead, QuietInv, Queries
  <2>2. at' = "idle" /\ result' = result
    BY <1>3 DEF IdentityRead
  <2> QED
    BY <2>1, <2>2 DEF QuietInv
<1>4. CASE SweepDone
  <2>1. Asking("opc", Reply("opc", 0, TRUE)) /\ Sweeping
    BY <1>4 DEF SweepDone, QuietInv
  <2>2. Silent'
    BY <1>2, <2>1 DEF Queries
  <2>3. Shows
    <3>1. wire # <<Ask("opc")>>
      <4> SUFFICES ASSUME wire = <<Ask("opc")>> PROVE FALSE
        OBVIOUS
      <4>1. Len(wire) = 1 /\ wire[1] = Ask("opc")
        OBVIOUS
      <4>2. wire[1].op \notin Queries
        BY <1>1, <2>2, <4>1 DEF Silent
      <4> QED
        BY <4>1, <4>2 DEF Ask, Queries
    <3>2. ~(Len(wire) >= 2 /\ wire[Len(wire)] = Ask("opc"))
      BY <1>1, <2>2 DEF Silent, Ask, Queries, InstrumentInv
    <3> QED
      BY <2>1, <3>1, <3>2 DEF Sweeping
  <2>4. at' \in {"idle", "swept"} /\ result' = result
    BY <1>4 DEF SweepDone
  <2> QED
    BY <1>1, <2>2, <2>3, <2>4 DEF QuietInv, Shows
<1>5. CASE TraceRefused \/ TraceRead
  <2> DEFINE a == Reply("trace", target, TRUE)
  <2>1. Shows /\ replies = <<a>>
    BY <1>1, <1>5 DEF TraceRefused, TraceRead, QuietInv, Fetching
  <2>2. replies' = <<>> /\ OldestReply = a
    BY <1>1, <2>1, TailOfOne DEF OldestReply
  <2>3. OldestReply.to = "trace"
    BY <2>2 DEF Reply
  <2>4. TraceRead
    BY <1>5, <2>3 DEF TraceRefused
  <2>5. result' = [asked |-> target, got |-> a] /\ at' \in {"idle", "unlabelled"}
    BY <2>2, <2>4 DEF TraceRead
  <2>6. Silent'
    BY <1>1, <2>1, <2>2 DEF Silent, Shows
  <2>7. result'.got = Reply("trace", result'.asked, TRUE)
    BY <2>5 DEF Reply
  <2> QED
    BY <2>5, <2>6, <2>7 DEF QuietInv
<1> QED
  BY <1>3, <1>4, <1>5

\* The instrument's steps.
LEMMA QuietInstrument ==
  ASSUME InstrumentInv, QuietInv, Instrument
  PROVE  QuietInv'
<1>1. UNCHANGED <<at, target, result>>
  BY DEF Instrument, ChangeSettings, StopSweeping, SweepFreely, BeginSweep, EndSweep,
     AnswerIdentity, AnswerComplete, AnswerTrace, driver
<1>2. CASE at \in {"closed", "broken"}
  BY <1>1, <1>2 DEF QuietInv
<1>3. CASE at \notin {"closed", "broken"} /\ EndSweep
  <2>1. UNCHANGED <<wire, replies, settings, swept>> /\ run = "single" /\ run' = "held"
    BY <1>3 DEF EndSweep, line
  <2> QED
    BY <1>1, <2>1 DEF QuietInv, Silent, Asking, Sweeping, Fetching, Shows
<1>4. CASE /\ at \notin {"closed", "broken"}
           /\ ChangeSettings \/ StopSweeping \/ SweepFreely \/ BeginSweep
  <2> DEFINE r == Tail(wire)
  <2>1. /\ wire # <<>> /\ wire' = r /\ replies' = replies
        /\ Head(wire).op \in {"set", "hold", "free", "single"}
    BY <1>4 DEF ChangeSettings, StopSweeping, SweepFreely, BeginSweep, UpNext, Execute
  <2>2. /\ r \in Seq(Commands) /\ Len(wire) = Len(r) + 1 /\ Len(r) \in Nat
        /\ Head(wire) = wire[1] /\ wire[1] \in Commands
        /\ \A i \in 1..Len(r) : r[i] = wire[i + 1]
    BY <2>1, TakeOff DEF InstrumentInv
  <2> DEFINE n == Len(wire)
             m == Len(r)
  <2>3. wire[1].op \notin Queries
    BY <2>1, <2>2 DEF Queries
  <2>4. /\ Silent => Silent'
        /\ \A q \in Queries : \A a : Asking(q, a) => Asking(q, a)'
    BY <2>1, <2>3, Executed
  <2>5. wire[1] # Free
    BY <1>4, <2>2 DEF InstrumentInv
  <2>6. wire[1].op # "free"
    BY <2>2, <2>5 DEF Commands, Hold, Free, Single, Set, Ask, Queries
  <2>7. /\ n \in Nat /\ m \in Nat /\ n = m + 1
        /\ m = 0 => r = <<>>
    BY <2>2
  <2> HIDE DEF r
  <2>8. at = "configured" => IF r = <<>> THEN settings' = target ELSE r[Len(r)] = Set(target)
    <3> SUFFICES ASSUME at = "configured"
                 PROVE  IF r = <<>> THEN settings' = target ELSE r[Len(r)] = Set(target)
      OBVIOUS
    <3>1. wire[Len(wire)] = Set(target)
      BY <2>1 DEF QuietInv
    <3>2. CASE Len(r) = 0
      <4>1. wire[1] = Set(target)
        BY <2>2, <3>1, <3>2
      <4>2. wire[1].op = "set" /\ wire[1].arg = target
        BY <4>1 DEF Set
      <4>3. ChangeSettings
        BY <1>4, <2>2, <4>2 DEF StopSweeping, SweepFreely, BeginSweep, UpNext
      <4> QED
        BY <2>2, <2>7, <3>2, <4>2, <4>3 DEF ChangeSettings
    <3>3. CASE Len(r) # 0
      BY <2>2, <3>1, <3>3
    <3> QED
      BY <3>2, <3>3
  <2>9. at = "sweep" => Sweeping'
    <3> SUFFICES ASSUME at = "sweep" PROVE Sweeping'
      OBVIOUS
    <3>1. Sweeping
      BY DEF QuietInv
    <3>2. /\ Len(wire) >= 2 /\ wire[Len(wire) - 1] = Single
          /\ wire[Len(wire)] = Ask("opc")
          /\ IF Len(wire) = 2 THEN settings = target ELSE wire[Len(wire) - 2] = Set(target)
      <4>1. wire # <<Ask("opc")>>
        <5> SUFFICES ASSUME wire = <<Ask("opc")>> PROVE FALSE
          OBVIOUS
        <5>1. wire[1] = Ask("opc")
          OBVIOUS
        <5> QED
          BY <2>3, <5>1 DEF Ask, Queries
      <4> QED
        BY <2>1, <3>1, <4>1 DEF Sweeping, Shows
    <3>3. CASE n = 2
      <4>0. Len(r) = 1 /\ Len(wire) - 1 = 1 /\ r[1] = wire[1 + 1]
        <5>1. m = 1 /\ n - 1 = 1
          <6> HIDE DEF n, m
          <6> QED
            BY <2>7, <3>3
        <5> QED
          BY <2>2, <5>1
      <4>1. Len(r) = 1 /\ r[1] = Ask("opc") /\ wire[1] = Single
        BY <3>2, <3>3, <4>0
      <4>2. r = <<Ask("opc")>>
        BY <2>2, <4>1
      <4>3. wire[1].op = "single" /\ wire[1] # Hold
        BY <4>1 DEF Single, Hold
      <4>4. BeginSweep /\ run # "free"
        BY <1>4, <2>2, <4>3
        DEF ChangeSettings, StopSweeping, SweepFreely, UpNext, InstrumentInv
      <4>5. run' = "single" /\ swept' = settings
        BY <4>4 DEF BeginSweep
      <4> QED
        BY <1>1, <2>1, <3>2, <3>3, <4>2, <4>5 DEF Sweeping
    <3>4. CASE n = 3
      <4>0. /\ Len(r) = 2 /\ Len(wire) - 1 = 2 /\ Len(wire) - 2 = 1
            /\ r[1] = wire[1 + 1] /\ r[2] = wire[2 + 1]
        <5>1. m = 2 /\ n - 1 = 2 /\ n - 2 = 1
          <6> HIDE DEF n, m
          <6> QED
            BY <2>7, <3>4
        <5> QED
          BY <2>2, <5>1
      <4>1. Len(r) = 2 /\ r[1] = Single /\ r[2] = Ask("opc") /\ wire[1] = Set(target)
        BY <3>2, <3>4, <4>0
      <4>2. wire[1].op = "set" /\ wire[1].arg = target
        BY <4>1 DEF Set
      <4>3. ChangeSettings
        BY <1>4, <2>2, <4>2 DEF StopSweeping, SweepFreely, BeginSweep, UpNext
      <4>4. settings' = target
        BY <2>2, <4>2, <4>3 DEF ChangeSettings
      <4> QED
        BY <1>1, <2>1, <4>1, <4>4 DEF Sweeping
    <3>5. CASE Len(wire) > 3
      <4>1. /\ Len(r) >= 3 /\ r[Len(r) - 1] = Single /\ r[Len(r)] = Ask("opc")
            /\ r[Len(r) - 2] = Set(target)
        BY <2>2, <3>2, <3>5
      <4> QED
        BY <1>1, <2>1, <4>1 DEF Sweeping, Set, Single, Ask
    <3> QED
      BY <2>2, <3>2, <3>3, <3>4, <3>5
  <2>10. at \notin {"swept", "fetch"}
    <3>1. wire # <<Ask("trace")>>
      <4> SUFFICES ASSUME wire = <<Ask("trace")>> PROVE FALSE
        OBVIOUS
      <4>1. wire[1] = Ask("trace")
        OBVIOUS
      <4> QED
        BY <2>3, <4>1 DEF Ask, Queries
    <3> QED
      BY <2>1, <3>1 DEF QuietInv, Fetching, Shows
  <2>11. at \in {"identify", "label"} => Asking("idn", Reply("idn", 0, TRUE))'
    <3>1. Asking("idn", Reply("idn", 0, TRUE)) => Asking("idn", Reply("idn", 0, TRUE))'
      BY <2>4 DEF Queries
    <3> QED
      BY <3>1 DEF QuietInv
  <2>12. at = "sweep" => Asking("opc", Reply("opc", 0, TRUE))'
    <3>1. Asking("opc", Reply("opc", 0, TRUE)) => Asking("opc", Reply("opc", 0, TRUE))'
      BY <2>4 DEF Queries
    <3> QED
      BY <3>1 DEF QuietInv
  <2> QED
    BY <1>1, <2>1, <2>4, <2>8, <2>9, <2>10, <2>11, <2>12 DEF QuietInv
<1>5. CASE /\ at \notin {"closed", "broken"}
           /\ AnswerIdentity \/ AnswerComplete \/ AnswerTrace
  <2>1. /\ wire # <<>> /\ Head(wire) = wire[1] /\ Len(wire) \in Nat /\ 1 \in 1..Len(wire)
        /\ wire[1].op \in Queries
    <3>1. wire # <<>> /\ Head(wire).op \in {"idn", "opc", "trace"}
      BY <1>5 DEF AnswerIdentity, AnswerComplete, AnswerTrace, UpNext
    <3> QED
      BY <3>1, TakeOff DEF InstrumentInv, Queries
  <2>2. ~Silent
    BY <2>1 DEF Silent
  <2>3. UNCHANGED <<settings, run, swept>>
    BY <1>5 DEF AnswerIdentity, AnswerComplete, AnswerTrace, instrument
  <2>4. CASE at \in {"identify", "label"}
    <3>1. Asking("idn", Reply("idn", 0, TRUE))
      BY <2>4 DEF QuietInv
    <3>2. \A p \in Queries : wire[1].op = p /\ (\E b : Answer(b)) => p = "idn"
      BY <2>1, <3>1, Answered
    <3>3. AnswerIdentity
      BY <1>5, <2>1, <3>2 DEF AnswerComplete, AnswerTrace, UpNext, Queries
    <3>4. Answer(Reply("idn", 0, TRUE)) /\ wire[1].op = "idn" /\ "idn" \in Queries
      BY <2>1, <3>3 DEF AnswerIdentity, UpNext, Queries
    <3>5. wire' = <<>> /\ replies' \in {<<>>, <<Reply("idn", 0, TRUE)>>}
      BY <2>1, <3>1, <3>4, Answered
    <3>6. Asking("idn", Reply("idn", 0, TRUE))'
      BY <3>5 DEF Asking, Reply
    <3> QED
      BY <1>1, <2>4, <3>6 DEF QuietInv
  <2>5. CASE at = "sweep"
    <3>1. Asking("opc", Reply("opc", 0, TRUE)) /\ Sweeping
      BY <2>5 DEF QuietInv
    <3>2. \A p \in Queries : wire[1].op = p /\ (\E b : Answer(b)) => p = "opc"
      BY <2>1, <3>1, Answered
    <3>3. AnswerComplete
      BY <1>5, <2>1, <3>2 DEF AnswerIdentity, AnswerTrace, UpNext, Queries
    <3>4. Answer(Reply("opc", 0, TRUE)) /\ wire[1].op = "opc" /\ "opc" \in Queries
      BY <2>1, <3>3 DEF AnswerComplete, UpNext, Queries
    <3>5. wire = <<Ask("opc")>> /\ wire' = <<>> /\ replies' \in {<<>>, <<Reply("opc", 0, TRUE)>>}
      BY <2>1, <3>1, <3>4, Answered
    <3>6. Asking("opc", Reply("opc", 0, TRUE))'
      BY <3>5 DEF Asking, Reply
    <3>7. Len(wire) = 1 /\ wire # <<>>
      BY <3>5
    <3>8. swept = target /\ run = "held"
      BY <3>1, <3>3, <3>7 DEF Sweeping, Shows, AnswerComplete, InstrumentInv
    <3>9. Sweeping'
      BY <1>1, <2>3, <3>5, <3>8 DEF Sweeping, Shows
    <3> QED
      BY <1>1, <2>5, <3>6, <3>9 DEF QuietInv
  <2>6. CASE at = "fetch"
    <3>1. wire = <<Ask("trace")>> /\ replies = <<>> /\ run = "held" /\ swept = target
      BY <2>1, <2>6 DEF QuietInv, Fetching, Shows
    <3>2. wire[1].op = "trace"
      BY <3>1 DEF Ask
    <3>3. AnswerTrace
      BY <1>5, <2>1, <3>2 DEF AnswerIdentity, AnswerComplete, UpNext
    <3>4. Answer(Reply("trace", target, TRUE))
      BY <3>1, <3>3 DEF AnswerTrace
    <3>5. wire' = <<>> /\ replies' \in {<<>>, <<Reply("trace", target, TRUE)>>}
      BY <3>1, <3>4, TailOfOne DEF Answer
    <3>6. Fetching'
      BY <1>1, <2>3, <3>1, <3>5 DEF Fetching, Shows, Reply
    <3> QED
      BY <1>1, <2>6, <3>6 DEF QuietInv
  <2>7. CASE at \notin {"identify", "label", "sweep", "fetch"}
    BY <1>1, <2>1, <2>2, <2>7 DEF QuietInv, Shows
  <2> QED
    BY <2>4, <2>5, <2>6, <2>7
<1> QED
  BY <1>2, <1>3, <1>4, <1>5 DEF Instrument

LEMMA AnalyzerInit == Init => AnalyzerInv
<1> SUFFICES ASSUME Init PROVE AnalyzerInv
  OBVIOUS
<1>1. <<>> \in Seq(Commands)
  OBVIOUS
<1> QED
  BY <1>1 DEF Init, LineInit, AnalyzerInv, InstrumentInv, QuietInv

LEMMA AnalyzerNext == AnalyzerInv /\ [Next]_vars => AnalyzerInv'
<1> SUFFICES ASSUME AnalyzerInv, [Next]_vars PROVE AnalyzerInv'
  OBVIOUS
<1>1. InstrumentInv /\ InstrumentInv'
  BY InstrumentNext DEF AnalyzerInv
<1> SUFFICES ASSUME lost' = 0 PROVE QuietInv'
  BY <1>1 DEF AnalyzerInv
<1>2. ASSUME NEW ok \in BOOLEAN, Open(ok)
      PROVE  QuietInv'
  <2>1. result' = NoResult /\ (at' = "broken" \/ (at' = "open" /\ Connected(<<Hold>>)))
    BY <1>2 DEF Open
  <2>2. CASE at' = "broken"
    BY <2>1, <2>2 DEF QuietInv
  <2>3. CASE at' = "open" /\ Connected(<<Hold>>)
    <3>1. wire' = <<Hold>> /\ replies' = <<>>
      BY <2>3 DEF Connected
    <3>2. Len(wire') = 1 /\ wire'[1] = Hold
      BY <3>1
    <3>3. Silent'
      BY <3>1, <3>2 DEF Silent, Hold, Queries
    <3> QED
      BY <2>1, <2>3, <3>3 DEF QuietInv
  <2> QED
    BY <2>1, <2>2, <2>3
<1>3. CASE \A ok \in BOOLEAN : ~Open(ok)
  <2>1. lost' = lost \/ lost' = lost + 1
    BY <1>3 DEF Next, Work, Instrument, Query, AskIdentity, QueryIdentity, IdentityRead, Close,
       ConfigureSweep, ArmAndTrigger, SweepDone, FetchTrace, TraceRefused, TraceRead,
       LabelTrace, GiveUp, Abort, ChangeSettings, StopSweeping, SweepFreely, BeginSweep,
       EndSweep, AnswerIdentity, AnswerComplete, AnswerTrace, vars, observers
  <2>2. lost = 0 /\ QuietInv
    BY <1>1, <2>1 DEF AnalyzerInv, InstrumentInv
  <2>3. CASE UNCHANGED vars
    BY <2>2, <2>3 DEF vars, line, driver, instrument, QuietInv, Silent, Asking, Sweeping,
       Fetching, Shows
  <2>4. CASE \E ok \in BOOLEAN : Close(ok)
    <3>1. at' = "closed" /\ result' = result
      BY <2>4 DEF Close
    <3> QED
      BY <2>2, <3>1 DEF QuietInv
  <2>5. ~GiveUp
    BY <2>2 DEF GiveUp
  <2> QED
    BY <1>1, <1>3, <2>2, <2>3, <2>4, <2>5, QuietWrites, QuietReads, QuietInstrument, QuietAbort
    DEF Next, Work
<1> QED
  BY <1>2, <1>3

LEMMA AnalyzerInvariant == Spec => []AnalyzerInv
  BY AnalyzerInit, AnalyzerNext, PTL DEF Spec

-----------------------------------------------------------------------------
(* Theorems.                                                               *)

\* While no query of the connection was given up, a trace handed to the engine is
\* the finished sweep of the parameters it was configured with, whatever was
\* aborted, refused or sent by halves in between.
THEOREM TraceBelongsToSweep == Spec => []TraceIsOfItsSweep
<1>1. AnalyzerInv => TraceIsOfItsSweep
  BY DEF AnalyzerInv, QuietInv, TraceIsOfItsSweep
<1> QED
  BY <1>1, AnalyzerInvariant, PTL

\* No answer is left for a query that is not its own.
THEOREM LineFallsQuiet == Spec => []LineIsQuiet
<1>1. AnalyzerInv => LineIsQuiet
  BY DEF AnalyzerInv, QuietInv, Silent, LineIsQuiet
<1> QED
  BY <1>1, AnalyzerInvariant, PTL
=============================================================================
