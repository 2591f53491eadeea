---------------------------- MODULE WindowProofs ----------------------------
(***************************************************************************)
(* Proofs about the controller inside the window, for any number of        *)
(* connections, runs, edits, files and signals under way.  What carries    *)
(* them is the order of what is under way between the threads: an Open is  *)
(* queued behind the Close of what was open, a Start right behind its      *)
(* configuration, and the points of a run before its report.               *)
(***************************************************************************)
EXTENDS MainWindow, FiniteSetTheorems, TLAPS

Events ==
  {Open(c) : c \in Connections} \cup {Close(c) : c \in Connections}
    \cup {Configure(g) : g \in Configs} \cup {Start(g) : g \in Configs}

\* The window's variables.
WindowTypes ==
  /\ dock \in Configs /\ offers \subseteq Rbws
  /\ session \in Sessions /\ table \in Levels
  /\ disk \in [Files -> Sessions \cup {None}] /\ path \in Files \cup {None}

\* What a step of the window is for the controller.
ControllerStep ==
  \/ Work \/ Arrival \/ Connect \/ Disconnect \/ Quit
  \/ \E cfg \in Configs : StartRun(cfg) \/ SetConfiguration(cfg)
  \/ UNCHANGED vars

-----------------------------------------------------------------------------
(* The order of opens and closes.                                          *)

\* Before an Open everything that is open is closed, ...
OpensOnClosed(q, o) ==
  \A i \in 1..Len(q) : q[i].kind = "open" =>
    \A x \in o : \E j \in 1..(i - 1) : q[j] = Close(x)

\* ... and everything that an earlier Open may have opened, ...
OpensAlternate(q) ==
  \A i, j \in 1..Len(q) :
    i < j /\ q[i].kind = "open" /\ q[j].kind = "open" =>
      \E k \in (i + 1)..(j - 1) : q[k] = Close(q[i].conn)

\* ... and what is open, or going to be, is the current connection or will be closed.
RestIsClosed(q, o, c) ==
  /\ \A x \in o : x = c \/ \E j \in 1..Len(q) : q[j] = Close(x)
  /\ \A i \in 1..Len(q) : q[i].kind = "open" =>
       q[i].conn = c \/ \E j \in (i + 1)..Len(q) : q[j] = Close(q[i].conn)

Orderly(q, o, c) == OpensOnClosed(q, o) /\ OpensAlternate(q) /\ RestIsClosed(q, o, c)

LEMMA AppendAt ==
  ASSUME NEW q \in Seq(Events), NEW e \in Events
  PROVE  LET r == Append(q, e)
         IN  /\ r \in Seq(Events) /\ Len(r) = Len(q) + 1
             /\ r[Len(r)] = e
             /\ \A i \in 1..Len(q) : i \in 1..Len(r) /\ r[i] = q[i]
             /\ \A i \in 1..Len(r) : i = Len(r) \/ (i \in 1..Len(q) /\ r[i] = q[i])
  OBVIOUS

LEMMA TailAt ==
  ASSUME NEW q \in Seq(Events), q # <<>>
  PROVE  LET r == Tail(q)
         IN  /\ r \in Seq(Events) /\ Len(q) = Len(r) + 1 /\ Len(r) \in Nat
             /\ Head(q) = q[1] /\ q[1] \in Events
             /\ \A i \in 1..Len(r) : i + 1 \in 1..Len(q) /\ r[i] = q[i + 1]
             /\ \A i \in 2..Len(q) : i - 1 \in 1..Len(r) /\ q[i] = r[i - 1]
  OBVIOUS

\* An event may be queued behind any others if it opens nothing, or if everything
\* is closed before it.
LEMMA Queue ==
  ASSUME NEW q \in Seq(Events), NEW e \in Events, NEW o, NEW c, NEW d,
         Orderly(q, o, c),
         \/ e.kind # "open" /\ (d = c \/ e = Close(c))
         \/ c = 0 /\ o \subseteq Connections /\ d \in Connections /\ e = Open(d)
  PROVE  Orderly(Append(q, e), o, d)
<1> DEFINE r == Append(q, e)
<1>1. /\ r \in Seq(Events) /\ Len(r) = Len(q) + 1 /\ Len(q) \in Nat
      /\ r[Len(r)] = e
      /\ \A i \in 1..Len(q) : i \in 1..Len(r) /\ r[i] = q[i]
      /\ \A i \in 1..Len(r) : i = Len(r) \/ (i \in 1..Len(q) /\ r[i] = q[i])
  BY AppendAt
<1> HIDE DEF r
<1>2. CASE e.kind # "open" /\ (d = c \/ e = Close(c))
  <2>1. OpensOnClosed(r, o)
    <3> SUFFICES ASSUME NEW i \in 1..Len(r), r[i].kind = "open", NEW x \in o
                 PROVE  \E j \in 1..(i - 1) : r[j] = Close(x)
      BY DEF OpensOnClosed
    <3>1. i \in 1..Len(q) /\ q[i].kind = "open"
      BY <1>1, <1>2
    <3>2. PICK j \in 1..(i - 1) : q[j] = Close(x)
      BY <3>1 DEF Orderly, OpensOnClosed
    <3> QED
      BY <1>1, <3>1, <3>2
  <2>2. OpensAlternate(r)
    <3> SUFFICES ASSUME NEW i \in 1..Len(r), NEW j \in 1..Len(r),
                        i < j, r[i].kind = "open", r[j].kind = "open"
                 PROVE  \E k \in (i + 1)..(j - 1) : r[k] = Close(r[i].conn)
      BY DEF OpensAlternate
    <3>1. i \in 1..Len(q) /\ j \in 1..Len(q) /\ q[i] = r[i] /\ q[j] = r[j]
      BY <1>1, <1>2
    <3>2. PICK k \in (i + 1)..(j - 1) : q[k] = Close(q[i].conn)
      BY <3>1 DEF Orderly, OpensAlternate
    <3> QED
      BY <1>1, <3>1, <3>2
  <2>3. ASSUME NEW x \in o, x # d
        PROVE  \E j \in 1..Len(r) : r[j] = Close(x)
    <3>1. CASE x = c
      BY <1>1, <1>2, <2>3, <3>1
    <3>2. CASE x # c
      <4>1. PICK j \in 1..Len(q) : q[j] = Close(x)
        BY <3>2 DEF Orderly, RestIsClosed
      <4> QED
        BY <1>1, <4>1
    <3> QED
      BY <3>1, <3>2
  <2>4. ASSUME NEW i \in 1..Len(r), r[i].kind = "open", r[i].conn # d
        PROVE  \E j \in (i + 1)..Len(r) : r[j] = Close(r[i].conn)
    <3>1. i \in 1..Len(q) /\ q[i] = r[i]
      BY <1>1, <1>2, <2>4
    <3>2. CASE r[i].conn = c
      BY <1>1, <1>2, <2>4, <3>1, <3>2
    <3>3. CASE r[i].conn # c
      <4>1. PICK j \in (i + 1)..Len(q) : q[j] = Close(q[i].conn)
        BY <2>4, <3>1, <3>3 DEF Orderly, RestIsClosed
      <4> QED
        BY <1>1, <3>1, <4>1
    <3> QED
      BY <3>2, <3>3
  <2> QED
    BY <2>1, <2>2, <2>3, <2>4 DEF Orderly, RestIsClosed, r
<1>3. CASE c = 0 /\ o \subseteq Connections /\ d \in Connections /\ e = Open(d)
  <2>1. \A x \in o : \E j \in 1..Len(q) : q[j] = Close(x)
    BY <1>3 DEF Orderly, RestIsClosed, Connections
  <2>2. \A i \in 1..Len(q) : q[i].kind = "open" =>
          q[i].conn \in Connections
    BY DEF Events, Open, Close, Configure, Start
  <2>3. \A i \in 1..Len(q) : q[i].kind = "open" =>
          \E j \in (i + 1)..Len(q) : q[j] = Close(q[i].conn)
    BY <1>3, <2>2 DEF Orderly, RestIsClosed, Connections
  <2>4. OpensOnClosed(r, o)
    <3> SUFFICES ASSUME NEW i \in 1..Len(r), r[i].kind = "open", NEW x \in o
                 PROVE  \E j \in 1..(i - 1) : r[j] = Close(x)
      BY DEF OpensOnClosed
    <3>1. CASE i = Len(r)
      <4>1. PICK j \in 1..Len(q) : q[j] = Close(x)
        BY <2>1
      <4> QED
        BY <1>1, <3>1, <4>1
    <3>2. CASE i # Len(r)
      <4>1. i \in 1..Len(q) /\ q[i].kind = "open"
        BY <1>1, <3>2
      <4>2. PICK j \in 1..(i - 1) : q[j] = Close(x)
        BY <4>1 DEF Orderly, OpensOnClosed
      <4> QED
        BY <1>1, <4>1, <4>2
    <3> QED
      BY <3>1, <3>2
  <2>5. OpensAlternate(r)
    <3> SUFFICES ASSUME NEW i \in 1..Len(r), NEW j \in 1..Len(r),
                        i < j, r[i].kind = "open", r[j].kind = "open"
                 PROVE  \E k \in (i + 1)..(j - 1) : r[k] = Close(r[i].conn)
      BY DEF OpensAlternate
    <3>1. i \in 1..Len(q) /\ q[i] = r[i]
      BY <1>1
    <3>2. CASE j = Len(r)
      <4>1. PICK k \in (i + 1)..Len(q) : q[k] = Close(q[i].conn)
        BY <2>3, <3>1
      <4> QED
        BY <1>1, <3>1, <3>2, <4>1
    <3>3. CASE j # Len(r)
      <4>1. j \in 1..Len(q) /\ q[j] = r[j]
        BY <1>1, <3>3
      <4>2. PICK k \in (i + 1)..(j - 1) : q[k] = Close(q[i].conn)
        BY <3>1, <4>1 DEF Orderly, OpensAlternate
      <4> QED
        BY <1>1, <3>1, <4>1, <4>2
    <3> QED
      BY <3>2, <3>3
  <2>6. ASSUME NEW x \in o
        PROVE  \E j \in 1..Len(r) : r[j] = Close(x)
    BY <1>1, <2>1
  <2>7. ASSUME NEW i \in 1..Len(r), r[i].kind = "open", r[i].conn # d
        PROVE  \E j \in (i + 1)..Len(r) : r[j] = Close(r[i].conn)
    <3>1. i # Len(r)
      BY <1>1, <1>3, <2>7 DEF Open
    <3>2. i \in 1..Len(q) /\ q[i] = r[i]
      BY <1>1, <3>1
    <3>3. PICK j \in (i + 1)..Len(q) : q[j] = Close(q[i].conn)
      BY <2>3, <2>7, <3>2
    <3> QED
      BY <1>1, <3>2, <3>3
  <2> QED
    BY <2>4, <2>5, <2>6, <2>7 DEF Orderly, RestIsClosed, r
<1> QED
  BY <1>2, <1>3

\* What is open after an event was open before it, or is what it opened.
LEMMA Unqueue ==
  ASSUME NEW q \in Seq(Events), q # <<>>, NEW o, NEW p, NEW c, Orderly(q, o, c),
         \A x \in p : (x \in o /\ q[1] # Close(x)) \/ q[1] = Open(x)
  PROVE  Orderly(Tail(q), p, c)
<1> DEFINE r == Tail(q)
<1>1. /\ r \in Seq(Events) /\ Len(q) = Len(r) + 1 /\ Len(r) \in Nat
      /\ \A i \in 1..Len(r) : i + 1 \in 1..Len(q) /\ r[i] = q[i + 1]
      /\ \A i \in 2..Len(q) : i - 1 \in 1..Len(r) /\ q[i] = r[i - 1]
  BY TailAt
<1> HIDE DEF r
<1>2. OpensOnClosed(r, p)
  <2> SUFFICES ASSUME NEW i \in 1..Len(r), r[i].kind = "open", NEW x \in p
               PROVE  \E j \in 1..(i - 1) : r[j] = Close(x)
    BY DEF OpensOnClosed
  <2>1. i + 1 \in 2..Len(q) /\ q[i + 1].kind = "open"
    BY <1>1
  <2>2. \E j \in 2..i : q[j] = Close(x)
    <3>1. CASE x \in o /\ q[1] # Close(x)
      <4>1. PICK j \in 1..i : q[j] = Close(x)
        BY <2>1, <3>1 DEF Orderly, OpensOnClosed
      <4> QED
        BY <3>1, <4>1
    <3>2. CASE q[1] = Open(x)
      <4>1. q[1].kind = "open" /\ q[1].conn = x
        BY <3>2 DEF Open
      <4>2. 1 \in 1..Len(q) /\ 1 < i + 1
        BY <1>1, <2>1
      <4> QED
        BY <2>1, <4>1, <4>2 DEF Orderly, OpensAlternate
    <3> QED
      BY <3>1, <3>2
  <2> QED
    BY <1>1, <2>1, <2>2
<1>3. OpensAlternate(r)
  <2> SUFFICES ASSUME NEW i \in 1..Len(r), NEW j \in 1..Len(r),
                      i < j, r[i].kind = "open", r[j].kind = "open"
               PROVE  \E k \in (i + 1)..(j - 1) : r[k] = Close(r[i].conn)
    BY DEF OpensAlternate
  <2>1. /\ i + 1 \in 1..Len(q) /\ j + 1 \in 1..Len(q) /\ i + 1 < j + 1
        /\ q[i + 1] = r[i] /\ q[j + 1] = r[j]
    BY <1>1
  <2>2. PICK k \in (i + 2)..j : q[k] = Close(q[i + 1].conn)
    BY <2>1 DEF Orderly, OpensAlternate
  <2> QED
    BY <1>1, <2>1, <2>2
<1>4. ASSUME NEW x \in p, x # c
      PROVE  \E j \in 1..Len(r) : r[j] = Close(x)
  <2>1. \E j \in 2..Len(q) : q[j] = Close(x)
    <3>1. CASE x \in o /\ q[1] # Close(x)
      <4>1. PICK j \in 1..Len(q) : q[j] = Close(x)
        BY <1>4, <3>1 DEF Orderly, RestIsClosed
      <4> QED
        BY <3>1, <4>1
    <3>2. CASE q[1] = Open(x)
      <4>1. q[1].kind = "open" /\ q[1].conn = x
        BY <3>2 DEF Open
      <4>2. 1 \in 1..Len(q)
        BY <1>1
      <4> QED
        BY <1>4, <4>1, <4>2 DEF Orderly, RestIsClosed
    <3> QED
      BY <3>1, <3>2
  <2> QED
    BY <1>1, <2>1
<1>5. ASSUME NEW i \in 1..Len(r), r[i].kind = "open", r[i].conn # c
      PROVE  \E j \in (i + 1)..Len(r) : r[j] = Close(r[i].conn)
  <2>1. i + 1 \in 1..Len(q) /\ q[i + 1] = r[i]
    BY <1>1
  <2>2. PICK j \in (i + 2)..Len(q) : q[j] = Close(q[i + 1].conn)
    BY <1>5, <2>1 DEF Orderly, RestIsClosed
  <2> QED
    BY <1>1, <2>1, <2>2
<1> QED
  BY <1>2, <1>3, <1>4, <1>5 DEF Orderly, RestIsClosed, r

\* An Open finds everything closed.
LEMMA OpenFindsNone ==
  ASSUME NEW q \in Seq(Events), q # <<>>, NEW o, NEW c, NEW n, Orderly(q, o, c),
         Head(q) = Open(n)
  PROVE  o = {}
<1>1. q[1].kind = "open" /\ 1 \in 1..Len(q)
  BY TailAt DEF Open
<1> QED
  BY <1>1 DEF Orderly, OpensOnClosed

-----------------------------------------------------------------------------
(* Connections.                                                            *)

ConnectionInv ==
  /\ queue \in Seq(Events)
  /\ made \in 0..MaxConnections /\ current \in 0..made
  /\ opened \subseteq Connections
  /\ \A x, y \in opened : x = y
  /\ worker # "gone" => driver = 0 \/ driver \in opened
  /\ Running => driver # 0 /\ touched \subseteq {driver}
  /\ Orderly(queue, opened, current)

LEMMA ConnectionInit == WindowInit => ConnectionInv
<1> SUFFICES ASSUME WindowInit PROVE ConnectionInv
  OBVIOUS
<1>1. Fresh \in Configs
  BY DEF Fresh, Configs
<1>2. Configure(Fresh) \in Events /\ Configure(Fresh).kind # "open"
  BY <1>1 DEF Events, Configure
<1>3. queue = <<Configure(Fresh)>> /\ opened = {}
  BY DEF WindowInit, Init
<1>4. Orderly(queue, opened, current)
  BY <1>2, <1>3 DEF Orderly, OpensOnClosed, OpensAlternate, RestIsClosed
<1> QED
  BY <1>2, <1>3, <1>4, BoundsAssumption
  DEF BoundsAssumption, WindowInit, Init, ConnectionInv, Running

\* What disconnectInstrument() leaves behind.
LEMMA DisconnectingOrderly ==
  ConnectionInv => Disconnecting \in Seq(Events) /\ Orderly(Disconnecting, opened, 0)
<1> SUFFICES ASSUME ConnectionInv
             PROVE  Disconnecting \in Seq(Events) /\ Orderly(Disconnecting, opened, 0)
  OBVIOUS
<1>1. CASE current = 0
  BY <1>1 DEF Disconnecting, ConnectionInv
<1>2. CASE current # 0
  <2>1. current \in Connections
    BY <1>2, BoundsAssumption DEF BoundsAssumption, ConnectionInv, Connections
  <2>2. Close(current) \in Events /\ Close(current).kind # "open"
    BY <2>1 DEF Events, Close
  <2>3. Orderly(Append(queue, Close(current)), opened, 0)
    BY <2>2, Queue DEF ConnectionInv
  <2> QED
    BY <1>2, <2>2, <2>3 DEF Disconnecting, ConnectionInv
<1> QED
  BY <1>1, <1>2

LEMMA ConnectionGui ==
  ASSUME ConnectionInv, Connect \/ Disconnect \/ Quit
  PROVE  ConnectionInv'
<1>1. Disconnecting \in Seq(Events) /\ Orderly(Disconnecting, opened, 0)
  BY DisconnectingOrderly
<1>2. CASE Connect
  <2>1. made + 1 \in Connections /\ made + 1 \in 0..MaxConnections
    BY <1>2, BoundsAssumption DEF BoundsAssumption, ConnectionInv, Connections, Connect
  <2>2. Open(made + 1) \in Events
    BY <2>1 DEF Events
  <2> DEFINE q == Append(Disconnecting, Open(made + 1))
  <2>3. q \in Seq(Events) /\ Orderly(q, opened, made + 1)
    BY <1>1, <2>1, <2>2, Queue DEF ConnectionInv
  <2>4. queue' = q /\ current' = made + 1 /\ made' = made + 1
        /\ UNCHANGED <<worker, driver, opened, touched>>
    BY <1>2 DEF Connect, observers
  <2> HIDE DEF q
  <2> QED
    BY <2>1, <2>3, <2>4 DEF ConnectionInv, Running
<1>3. CASE Disconnect \/ Quit
  <2>1. queue' = Disconnecting /\ current' = 0
        /\ UNCHANGED <<made, worker, driver, opened, touched>>
    BY <1>3 DEF Disconnect, Quit, observers
  <2> QED
    BY <1>1, <2>1 DEF ConnectionInv, Running
<1> QED
  BY <1>2, <1>3

LEMMA ConnectionConfigures ==
  ASSUME ConnectionInv, NEW cfg \in Configs, StartRun(cfg) \/ SetConfiguration(cfg)
  PROVE  ConnectionInv'
<1> DEFINE q == Append(queue, Configure(cfg))
           s == Append(q, Start(cfg))
<1>1. /\ Configure(cfg) \in Events /\ Configure(cfg).kind # "open"
      /\ Start(cfg) \in Events /\ Start(cfg).kind # "open"
  BY DEF Events, Configure, Start
<1>2. q \in Seq(Events) /\ Orderly(q, opened, current)
  BY <1>1, Queue DEF ConnectionInv
<1> HIDE DEF q
<1>3. s \in Seq(Events) /\ Orderly(s, opened, current)
  BY <1>1, <1>2, Queue
<1>4. queue \o <<Configure(cfg), Start(cfg)>> = s
  BY <1>1 DEF ConnectionInv, q
<1>5. queue' \in {q, s}
  BY <1>4 DEF StartRun, SetConfiguration, q
<1>6. UNCHANGED <<made, current, worker, driver, opened, touched>>
  BY DEF StartRun, SetConfiguration, gui, observers
<1> HIDE DEF s
<1> QED
  BY <1>2, <1>3, <1>5, <1>6 DEF ConnectionInv, Running

\* The signals are none of the worker's business.
LEMMA ConnectionArrival ==
  ASSUME ConnectionInv, Arrival \/ UNCHANGED vars
  PROVE  ConnectionInv'
<1>1. UNCHANGED <<queue, made, current, worker, driver, opened, touched>>
  BY DEF Arrival, ConnectionChanged, PhaseChanged, ResultArrives, Arrives,
         vars, gui, observers
<1> QED
  BY <1>1 DEF ConnectionInv, Running

LEMMA ConnectionEvents ==
  ASSUME ConnectionInv, NEW c \in Connections,
         OpenFails(c) \/ OpenSucceeds(c) \/ CloseDriver(c)
  PROVE  ConnectionInv'
<1> DEFINE r == Tail(queue)
<1>1. queue \in Seq(Events) /\ queue # <<>> /\ worker = "idle"
      /\ queue' = r /\ UNCHANGED <<made, current, worker>>
  BY DEF ConnectionInv, OpenFails, OpenSucceeds, CloseDriver, Deliver, gui
<1>2. r \in Seq(Events) /\ Head(queue) = queue[1]
  BY <1>1, TailAt
<1>3. CASE OpenFails(c)
  <2>1. Head(queue) = Open(c) /\ opened' \in {opened, opened \cup {c}} /\ UNCHANGED driver
    BY <1>3 DEF OpenFails, Deliver
  <2>2. opened = {}
    BY <1>1, <2>1, OpenFindsNone DEF ConnectionInv
  <2>3. opened' \subseteq {c}
    BY <2>1, <2>2
  <2>4. Orderly(r, opened', current)
    <3> DEFINE p == opened'
    <3>1. \A x \in p : queue[1] = Open(x)
      BY <1>2, <2>1, <2>3
    <3> HIDE DEF p
    <3> QED
      BY <1>1, <3>1, Unqueue DEF ConnectionInv, p
  <2> QED
    BY <1>1, <1>2, <2>1, <2>2, <2>3, <2>4 DEF ConnectionInv, Running
<1>4. CASE OpenSucceeds(c)
  <2>1. Head(queue) = Open(c) /\ opened' = opened \cup {c} /\ driver' = c
    BY <1>4 DEF OpenSucceeds, Deliver
  <2>2. opened' = {c}
    BY <1>1, <2>1, OpenFindsNone DEF ConnectionInv
  <2>3. Orderly(r, {c}, current)
    BY <1>1, <1>2, <2>1, Unqueue DEF ConnectionInv
  <2> QED
    BY <1>1, <1>2, <2>1, <2>2, <2>3 DEF ConnectionInv, Running
<1>5. CASE CloseDriver(c)
  <2>1. Head(queue) = Close(c) /\ opened' = opened \ {c} /\ driver' = 0
    BY <1>5 DEF CloseDriver, Deliver
  <2>2. \A x \in opened \ {c} : x \in opened /\ queue[1] # Close(x)
    BY <1>2, <2>1 DEF Close
  <2>3. Orderly(r, opened \ {c}, current)
    BY <1>1, <2>2, Unqueue DEF ConnectionInv
  <2> QED
    BY <1>1, <1>2, <2>1, <2>3 DEF ConnectionInv, Running
<1> QED
  BY <1>3, <1>4, <1>5

LEMMA ConnectionOrders ==
  ASSUME ConnectionInv, NEW cfg \in Configs, ConfigureEngine(cfg) \/ BeginRun(cfg)
  PROVE  ConnectionInv'
<1> DEFINE r == Tail(queue)
<1>1. queue \in Seq(Events) /\ queue # <<>> /\ worker = "idle" /\ queue' = r
      /\ Head(queue) \in {Configure(cfg), Start(cfg)}
      /\ UNCHANGED <<made, current, driver, opened>>
  BY DEF ConnectionInv, ConfigureEngine, BeginRun, Deliver, gui
<1>2. r \in Seq(Events) /\ Head(queue) = queue[1]
  BY <1>1, TailAt
<1>3. \A x \in opened : queue[1] # Close(x)
  BY <1>1, <1>2 DEF Configure, Start, Close
<1>4. Orderly(r, opened, current)
  BY <1>1, <1>3, Unqueue DEF ConnectionInv
<1>5. \/ worker' = "idle"
      \/ worker' = "startCheck" /\ driver # 0 /\ touched' = {}
  BY <1>1 DEF ConfigureEngine, BeginRun, observers
<1> QED
  BY <1>1, <1>2, <1>4, <1>5 DEF ConnectionInv, Running

\* A start command is written to an open transport that is the current one, and
\* only one is open.
LEMMA ConnectionRuns ==
  ASSUME ConnectionInv,
         \/ SenderChecks \/ SenderCrashes \/ SweepsEnd
         \/ \E p \in Levels : MeasurePass(p)
         \/ \E ok \in BOOLEAN : StartWrites(ok) \/ StopWrites(ok)
  PROVE  ConnectionInv'
<1>1. Running /\ worker' # "gone"
  BY DEF Running, SenderChecks, SenderCrashes, SweepsEnd, MeasurePass, StartWrites,
         StopWrites, EndRun
<1>2. UNCHANGED <<queue, made, current, driver, opened>>
  BY DEF SenderChecks, SenderCrashes, SweepsEnd, MeasurePass, StartWrites, StopWrites, gui
<1>3. \/ UNCHANGED touched
      \/ worker' = "idle"
      \/ touched' = touched \cup {current} /\ current \in opened
  BY DEF SenderChecks, SenderCrashes, SweepsEnd, MeasurePass, StartWrites, StopWrites,
         EndRun, observers
<1>4. driver \in opened /\ touched \subseteq {driver}
  BY <1>1 DEF ConnectionInv, Running
<1>5. Running' => touched' \subseteq {driver}
  BY <1>3, <1>4 DEF ConnectionInv, Running
<1> QED
  BY <1>1, <1>2, <1>4, <1>5 DEF ConnectionInv, Running

LEMMA ConnectionEnds ==
  ASSUME ConnectionInv, ThreadEnds
  PROVE  ConnectionInv'
<1>1. /\ queue' = <<>> /\ opened' = {} /\ worker' = "gone"
      /\ UNCHANGED <<made, current>>
  BY DEF ThreadEnds, gui
<1>2. Orderly(<<>>, {}, current)
  BY DEF Orderly, OpensOnClosed, OpensAlternate, RestIsClosed
<1> QED
  BY <1>1, <1>2 DEF ConnectionInv, Running

LEMMA ConnectionNext ==
  ASSUME ConnectionInv, ControllerStep
  PROVE  ConnectionInv'
<1>1. CASE Work
  BY <1>1, ConnectionEvents, ConnectionOrders, ConnectionRuns, ConnectionEnds DEF Work
<1>2. CASE Arrival \/ UNCHANGED vars
  BY <1>2, ConnectionArrival
<1>3. CASE Connect \/ Disconnect \/ Quit
  BY <1>3, ConnectionGui
<1>4. CASE \E cfg \in Configs : StartRun(cfg) \/ SetConfiguration(cfg)
  BY <1>4, ConnectionConfigures
<1> QED
  BY <1>1, <1>2, <1>3, <1>4 DEF ControllerStep

-----------------------------------------------------------------------------
(* Configurations.                                                         *)

\* A start is delivered right behind the configuration it was called with.
StartsConfigured(q, g) ==
  \A i \in 1..Len(q) : q[i].kind = "start" =>
    \/ i = 1 /\ g = q[i].config
    \/ i > 1 /\ q[i - 1] = Configure(q[i].config)

ConfigurationInv ==
  /\ StartsConfigured(queue, config)
  /\ Running => config = asked

LEMMA QueueNoStart ==
  ASSUME NEW q \in Seq(Events), NEW e \in Events, NEW g, e.kind # "start",
         StartsConfigured(q, g)
  PROVE  StartsConfigured(Append(q, e), g)
<1> DEFINE r == Append(q, e)
<1>1. /\ Len(r) = Len(q) + 1 /\ Len(q) \in Nat /\ r[Len(r)] = e
      /\ \A i \in 1..Len(q) : i \in 1..Len(r) /\ r[i] = q[i]
      /\ \A i \in 1..Len(r) : i = Len(r) \/ (i \in 1..Len(q) /\ r[i] = q[i])
  BY AppendAt
<1> HIDE DEF r
<1> SUFFICES ASSUME NEW i \in 1..Len(r), r[i].kind = "start"
             PROVE  \/ i = 1 /\ g = r[i].config
                    \/ i > 1 /\ r[i - 1] = Configure(r[i].config)
  BY DEF StartsConfigured, r
<1>2. i \in 1..Len(q) /\ q[i] = r[i]
  BY <1>1
<1> QED
  BY <1>1, <1>2 DEF StartsConfigured

LEMMA QueueStart ==
  ASSUME NEW q \in Seq(Events), NEW cfg \in Configs, NEW g, StartsConfigured(q, g)
  PROVE  StartsConfigured(Append(Append(q, Configure(cfg)), Start(cfg)), g)
<1> DEFINE p == Append(q, Configure(cfg))
           r == Append(p, Start(cfg))
<1>1. /\ Configure(cfg) \in Events /\ Configure(cfg).kind # "start"
      /\ Start(cfg) \in Events /\ Start(cfg).config = cfg
  BY DEF Events, Configure, Start
<1>2. /\ p \in Seq(Events) /\ StartsConfigured(p, g)
      /\ Len(p) \in Nat \ {0} /\ p[Len(p)] = Configure(cfg)
  BY <1>1, AppendAt, QueueNoStart
<1> HIDE DEF p
<1>3. /\ Len(r) = Len(p) + 1 /\ r[Len(r)] = Start(cfg)
      /\ \A i \in 1..Len(p) : i \in 1..Len(r) /\ r[i] = p[i]
      /\ \A i \in 1..Len(r) : i = Len(r) \/ (i \in 1..Len(p) /\ r[i] = p[i])
  BY <1>1, <1>2, AppendAt
<1> HIDE DEF r
<1>4. ASSUME NEW i \in 1..Len(r), r[i].kind = "start"
      PROVE  \/ i = 1 /\ g = r[i].config
             \/ i > 1 /\ r[i - 1] = Configure(r[i].config)
  <2>1. CASE i = Len(r)
    BY <1>1, <1>2, <1>3, <2>1
  <2>2. CASE i # Len(r)
    <3>1. i \in 1..Len(p) /\ r[i] = p[i]
      BY <1>3, <2>2
    <3> QED
      BY <1>2, <1>3, <1>4, <3>1 DEF StartsConfigured
  <2> QED
    BY <2>1, <2>2
<1> QED
  BY <1>4 DEF StartsConfigured, p, r

\* The event that is delivered leaves the configuration the next start was queued with.
LEMMA DeliverStarts ==
  ASSUME NEW q \in Seq(Events), q # <<>>, NEW g, NEW h, StartsConfigured(q, g),
         \/ q[1].kind # "configure"
         \/ q[1] = Configure(h)
  PROVE  StartsConfigured(Tail(q), h)
<1> DEFINE r == Tail(q)
<1>1. /\ Len(q) = Len(r) + 1 /\ Len(r) \in Nat
      /\ \A i \in 1..Len(r) : i + 1 \in 1..Len(q) /\ r[i] = q[i + 1]
      /\ \A i \in 2..Len(q) : i - 1 \in 1..Len(r) /\ q[i] = r[i - 1]
  BY TailAt
<1> HIDE DEF r
<1> SUFFICES ASSUME NEW i \in 1..Len(r), r[i].kind = "start"
             PROVE  \/ i = 1 /\ h = r[i].config
                    \/ i > 1 /\ r[i - 1] = Configure(r[i].config)
  BY DEF StartsConfigured, r
<1>2. q[i] = Configure(r[i].config)
  <2>1. i + 1 \in 1..Len(q) /\ q[i + 1] = r[i] /\ i + 1 # 1
    BY <1>1
  <2>2. (i + 1) - 1 = i
    OBVIOUS
  <2> QED
    BY <2>1, <2>2 DEF StartsConfigured
<1>3. CASE i = 1
  <2>1. q[1].kind = "configure" /\ q[1].config = r[i].config
    BY <1>2, <1>3 DEF Configure
  <2> QED
    BY <1>3, <2>1 DEF Configure
<1>4. CASE i # 1
  BY <1>1, <1>2, <1>4
<1> QED
  BY <1>3, <1>4

LEMMA ConfigurationInit == WindowInit => ConfigurationInv
<1> SUFFICES ASSUME WindowInit PROVE ConfigurationInv
  OBVIOUS
<1>1. queue = <<Configure(Fresh)>> /\ worker = "idle"
  BY DEF WindowInit, Init
<1> QED
  BY <1>1 DEF ConfigurationInv, StartsConfigured, Configure, Running

LEMMA ConfigurationCalls ==
  ASSUME ConnectionInv, ConfigurationInv,
         \/ Connect \/ Disconnect \/ Quit
         \/ \E cfg \in Configs : StartRun(cfg) \/ SetConfiguration(cfg)
  PROVE  ConfigurationInv'
<1>1. UNCHANGED <<worker, config, asked>>
  BY DEF Connect, Disconnect, Quit, StartRun, SetConfiguration, run
<1>2. /\ Disconnecting \in Seq(Events)
      /\ StartsConfigured(Disconnecting, config)
  <2>1. CASE current = 0
    BY <2>1 DEF Disconnecting, ConnectionInv, ConfigurationInv
  <2>2. CASE current # 0
    <3>1. current \in Connections
      BY <2>2, BoundsAssumption DEF BoundsAssumption, ConnectionInv, Connections
    <3>2. Close(current) \in Events /\ Close(current).kind # "start"
      BY <3>1 DEF Events, Close
    <3> QED
      BY <2>2, <3>2, QueueNoStart DEF Disconnecting, ConnectionInv, ConfigurationInv
  <2> QED
    BY <2>1, <2>2
<1>3. StartsConfigured(queue', config)
  <2>1. CASE Connect
    <3>1. made + 1 \in Connections
      BY <2>1, BoundsAssumption DEF BoundsAssumption, ConnectionInv, Connections, Connect
    <3>2. Open(made + 1) \in Events /\ Open(made + 1).kind # "start"
      BY <3>1 DEF Events, Open
    <3> QED
      BY <1>2, <2>1, <3>2, QueueNoStart DEF Connect
  <2>2. CASE Disconnect \/ Quit
    BY <1>2, <2>2 DEF Disconnect, Quit
  <2>3. ASSUME NEW cfg \in Configs, StartRun(cfg) \/ SetConfiguration(cfg)
        PROVE  StartsConfigured(queue', config)
    <3> DEFINE q == Append(queue, Configure(cfg))
    <3>1. /\ Configure(cfg) \in Events /\ Configure(cfg).kind # "start"
          /\ Start(cfg) \in Events
      BY DEF Events, Configure, Start
    <3>2. StartsConfigured(q, config)
      BY <3>1, QueueNoStart DEF ConnectionInv, ConfigurationInv
    <3>3. StartsConfigured(Append(q, Start(cfg)), config)
      BY QueueStart DEF ConnectionInv, ConfigurationInv
    <3>4. queue \o <<Configure(cfg), Start(cfg)>> = Append(q, Start(cfg))
      BY <3>1 DEF ConnectionInv
    <3> HIDE DEF q
    <3>5. queue' \in {q, Append(q, Start(cfg))}
      BY <2>3, <3>4 DEF StartRun, SetConfiguration, q
    <3> QED
      BY <3>2, <3>3, <3>5
  <2> QED
    BY <2>1, <2>2, <2>3
<1> QED
  BY <1>1, <1>3 DEF ConfigurationInv, Running

LEMMA ConfigurationEvents ==
  ASSUME ConnectionInv, ConfigurationInv,
         \/ \E c \in Connections : OpenFails(c) \/ OpenSucceeds(c) \/ CloseDriver(c)
         \/ \E cfg \in Configs : ConfigureEngine(cfg) \/ BeginRun(cfg)
  PROVE  ConfigurationInv'
<1>1. queue \in Seq(Events) /\ queue # <<>> /\ worker = "idle" /\ queue' = Tail(queue)
  BY DEF ConnectionInv, OpenFails, OpenSucceeds, CloseDriver, ConfigureEngine, BeginRun,
         Deliver
<1>2. Head(queue) = queue[1] /\ 1 \in 1..Len(queue)
  BY <1>1, TailAt
<1>3. CASE \E c \in Connections : OpenFails(c) \/ OpenSucceeds(c) \/ CloseDriver(c)
  <2>1. UNCHANGED <<worker, config, asked>>
    BY <1>3 DEF OpenFails, OpenSucceeds, CloseDriver, run
  <2>2. \E c \in Connections : queue[1] = Open(c) \/ queue[1] = Close(c)
    BY <1>2, <1>3 DEF OpenFails, OpenSucceeds, CloseDriver, Deliver
  <2>3. queue[1].kind # "configure"
    BY <2>2 DEF Open, Close
  <2> QED
    BY <1>1, <2>1, <2>3, DeliverStarts DEF ConfigurationInv, Running
<1>4. ASSUME NEW cfg \in Configs, ConfigureEngine(cfg)
      PROVE  ConfigurationInv'
  <2>1. worker' = worker /\ config' = cfg /\ queue[1] = Configure(cfg)
    BY <1>2, <1>4 DEF ConfigureEngine, Deliver
  <2>2. StartsConfigured(Tail(queue), cfg)
    BY <1>1, <2>1, DeliverStarts DEF ConfigurationInv
  <2> QED
    BY <1>1, <2>1, <2>2 DEF ConfigurationInv, Running
<1>5. ASSUME NEW cfg \in Configs, BeginRun(cfg)
      PROVE  ConfigurationInv'
  <2>1. queue[1] = Start(cfg) /\ config' = config
        /\ (worker' = worker \/ asked' = cfg)
    BY <1>2, <1>5 DEF BeginRun, Deliver
  <2>2. queue[1].kind = "start" /\ queue[1].config = cfg
    BY <2>1 DEF Start
  <2>3. config = cfg
    BY <1>2, <2>2 DEF ConfigurationInv, StartsConfigured
  <2>4. StartsConfigured(Tail(queue), config)
    BY <1>1, <2>2, DeliverStarts DEF ConfigurationInv
  <2> QED
    BY <1>1, <2>1, <2>3, <2>4 DEF ConfigurationInv, Running
<1> QED
  BY <1>3, <1>4, <1>5

LEMMA ConfigurationNext ==
  ASSUME ConnectionInv, ConfigurationInv, ControllerStep
  PROVE  ConfigurationInv'
<1>1. CASE \/ SenderChecks \/ SenderCrashes \/ SweepsEnd
           \/ \E p \in Levels : MeasurePass(p)
           \/ \E ok \in BOOLEAN : StartWrites(ok) \/ StopWrites(ok)
  <2>1. /\ Running /\ queue' = queue /\ config' = config
        /\ asked' = asked \/ worker' = "idle"
    BY <1>1 DEF Running, SenderChecks, SenderCrashes, SweepsEnd, MeasurePass, StartWrites,
         StopWrites, EndRun, run
  <2> QED
    BY <2>1 DEF ConfigurationInv, Running
<1>2. CASE ThreadEnds
  <2>1. queue' = <<>> /\ worker' = "gone"
    BY <1>2 DEF ThreadEnds
  <2> QED
    BY <2>1 DEF ConfigurationInv, StartsConfigured, Running
<1>3. CASE Arrival \/ UNCHANGED vars
  <2>1. UNCHANGED <<queue, worker, config, asked>>
    BY <1>3 DEF Arrival, ConnectionChanged, PhaseChanged, ResultArrives, Arrives, vars, run
  <2> QED
    BY <2>1 DEF ConfigurationInv, Running
<1>4. CASE Work
  BY <1>1, <1>2, <1>4, ConfigurationEvents DEF Work
<1> QED
  BY <1>3, <1>4, ConfigurationCalls DEF ControllerStep

-----------------------------------------------------------------------------
(* The window's steps.                                                     *)

\* Every configuration the window hands on is one an instrument may be given, so a
\* step of the window is a step of the controller or none.
LEMMA WindowSteps ==
  ASSUME WindowTypes, WindowNext
  PROVE  ControllerStep
<1>1. CASE Working \/ Ended
  BY <1>1 DEF Working, Ended, ControllerStep
<1>2. CASE Signals
  BY <1>2 DEF Signals, OnConnectionChanged, OnPhaseChanged, OnTraceAcquired,
     OnPointMeasured, OnRunFinished, ResultArrives, Arrival, ControllerStep
<1>3. CASE UseInstrument \/ CloseWindow
  BY <1>3 DEF UseInstrument, CloseWindow, ControllerStep
<1>4. CASE PressStart
  BY <1>4 DEF PressStart, WindowTypes, ControllerStep
<1>5. CASE EditLimits \/ EditBandwidth
  <2>1. \A limits \in SUBSET Limits : [dock EXCEPT !.limits = limits] \in Configs
    BY DEF WindowTypes, Configs
  <2>2. \A rbw \in offers \cup {0} : [dock EXCEPT !.rbw = rbw] \in Configs
    BY DEF WindowTypes, Configs
  <2>3. \E cfg \in Configs : SetConfiguration(cfg)
    BY <1>5, <2>1, <2>2 DEF EditLimits, EditBandwidth, Edited
  <2> QED
    BY <2>3 DEF ControllerStep
<1>6. CASE \/ DeclineStart \/ NewSession \/ EditSessionMetadata
           \/ ExportResults \/ ExportPdfReport
           \/ \E f \in Files : OpenSessionFile(f) \/ \E ok \in BOOLEAN : SaveSessionAs(f, ok)
           \/ \E ok \in BOOLEAN : SaveSession(ok)
  <2>1. UNCHANGED vars
    BY <1>6 DEF DeclineStart, NewSession, EditSessionMetadata, ExportResults,
       ExportPdfReport, TakeTable, OpenSessionFile, SaveSessionAs, SaveSession
  <2> QED
    BY <2>1 DEF ControllerStep
<1> QED
  BY <1>1, <1>2, <1>3, <1>4, <1>5, <1>6 DEF WindowNext, Operator

LEMMA TypesInit == WindowInit => WindowTypes
<1>1. Fresh \in Configs /\ Nothing \in Levels
  BY BoundsAssumption DEF BoundsAssumption, Fresh, Configs, Nothing, Levels
<1> QED
  BY <1>1 DEF WindowInit, WindowTypes, Sessions

LEMMA TypesSignals ==
  ASSUME WindowTypes, Signals
  PROVE  WindowTypes'
<1>1. ASSUME NEW on \in BOOLEAN, OnConnectionChanged(on)
      PROVE  WindowTypes'
  <2>1. UNCHANGED document
    BY <1>1 DEF OnConnectionChanged
  <2>2. offers' \subseteq Rbws /\ dock' \in Configs
    BY <1>1 DEF OnConnectionChanged, WindowTypes, Configs
  <2> QED
    BY <2>1, <2>2 DEF WindowTypes, document
<1>2. CASE \E on \in BOOLEAN : OnPhaseChanged(on)
  BY <1>2 DEF OnPhaseChanged, WindowTypes, window, document, widgets
<1>3. CASE OnTraceAcquired
  <2>1. session' \in Sessions
    BY <1>3 DEF OnTraceAcquired, WindowTypes, Sessions
  <2> QED
    BY <1>3, <2>1 DEF OnTraceAcquired, WindowTypes, widgets
<1>4. ASSUME NEW p \in Levels, OnPointMeasured(p)
      PROVE  WindowTypes'
  <2>1. table' \in Levels
    BY <1>4 DEF OnPointMeasured, AppendPoints, WindowTypes, Levels
  <2> QED
    BY <1>4, <2>1 DEF OnPointMeasured, WindowTypes, widgets
<1>5. ASSUME NEW p \in Levels, OnRunFinished(p)
      PROVE  WindowTypes'
  <2>1. session' \in Sessions /\ table' \in Levels
    BY <1>5 DEF OnRunFinished, WindowTypes, Sessions
  <2> QED
    BY <1>5, <2>1 DEF OnRunFinished, WindowTypes, widgets
<1> QED
  BY <1>1, <1>2, <1>3, <1>4, <1>5 DEF Signals

LEMMA TypesOperator ==
  ASSUME WindowTypes, Operator
  PROVE  WindowTypes'
<1>1. Nothing \in Levels
  BY BoundsAssumption DEF BoundsAssumption, Nothing, Levels
<1>2. CASE UseInstrument \/ CloseWindow
  BY <1>2 DEF UseInstrument, CloseWindow, WindowTypes, window, document, widgets
<1>3. CASE PressStart \/ DeclineStart
  <2>1. session' \in Sessions
    BY <1>1, <1>3 DEF PressStart, DeclineStart, WindowTypes, Sessions
  <2>2. table' \in {table, Nothing} /\ UNCHANGED <<path, disk, widgets>>
    BY <1>3 DEF PressStart, DeclineStart
  <2> QED
    BY <1>1, <2>1, <2>2 DEF WindowTypes, widgets
<1>4. CASE EditLimits \/ EditBandwidth
  <2>1. PICK cfg \in Configs : Edited(cfg)
    BY <1>4 DEF EditLimits, EditBandwidth, WindowTypes, Configs
  <2>2. session' \in Sessions
    BY <2>1 DEF Edited, WindowTypes, Sessions
  <2> QED
    BY <2>1, <2>2 DEF Edited, WindowTypes
<1>5. CASE NewSession
  <2>1. session' \in Sessions
    BY <1>1, <1>5 DEF NewSession, WindowTypes, Sessions
  <2> QED
    BY <1>1, <1>5, <2>1 DEF NewSession, WindowTypes, widgets
<1>6. ASSUME NEW f \in Files, OpenSessionFile(f)
      PROVE  WindowTypes'
  <2>1. disk[f] \in Sessions
    BY <1>6 DEF OpenSessionFile, WindowTypes
  <2>2. Shown(disk[f].config) \in Configs
    BY <2>1 DEF Shown, Sessions, WindowTypes, Configs
  <2>3. disk[f].results \in Levels
    BY <2>1 DEF Sessions
  <2> QED
    BY <1>6, <2>1, <2>2, <2>3 DEF OpenSessionFile, WindowTypes
<1>7. CASE \/ \E f \in Files, ok \in BOOLEAN : SaveSessionAs(f, ok)
           \/ \E ok \in BOOLEAN : SaveSession(ok)
  <2>1. PICK f \in Files, ok \in BOOLEAN : Store(f, ok) /\ UNCHANGED <<session, table, widgets>>
    BY <1>7 DEF SaveSessionAs, SaveSession, WindowTypes
  <2>2. disk' \in [Files -> Sessions \cup {None}]
    BY <2>1 DEF Store, WindowTypes
  <2> QED
    BY <2>1, <2>2 DEF Store, WindowTypes, widgets
<1>8. CASE EditSessionMetadata
  BY <1>8 DEF EditSessionMetadata, WindowTypes, widgets
<1>9. CASE ExportResults \/ ExportPdfReport
  <2>1. TakeTable
    BY <1>9 DEF ExportResults, ExportPdfReport
  <2>2. session' \in Sessions
    BY <2>1 DEF TakeTable, WindowTypes, Sessions
  <2> QED
    BY <2>1, <2>2 DEF TakeTable, WindowTypes, widgets
<1> QED
  BY <1>2, <1>3, <1>4, <1>5, <1>6, <1>7, <1>8, <1>9 DEF Operator

\* The widgets, the session, the table and the stored sessions are well formed.
THEOREM WindowIsTyped == WindowSpec => []WindowTypes
<1>1. WindowTypes /\ [WindowNext]_all => WindowTypes'
  <2> SUFFICES ASSUME WindowTypes, [WindowNext]_all PROVE WindowTypes'
    OBVIOUS
  <2>1. CASE Working \/ (Ended /\ UNCHANGED window) \/ UNCHANGED all
    BY <2>1 DEF Working, all, window, document, widgets, WindowTypes
  <2> QED
    BY <2>1, TypesSignals, TypesOperator DEF WindowNext
<1> QED
  BY TypesInit, <1>1, PTL DEF WindowSpec

LEMMA WindowInvariant == WindowSpec => [](ConnectionInv /\ ConfigurationInv)
<1>1. WindowTypes /\ ConnectionInv /\ ConfigurationInv /\ [WindowNext]_all
        => (ConnectionInv /\ ConfigurationInv)'
  <2> SUFFICES ASSUME WindowTypes, ConnectionInv, ConfigurationInv, [WindowNext]_all
               PROVE  (ConnectionInv /\ ConfigurationInv)'
    OBVIOUS
  <2>1. ControllerStep
    BY WindowSteps DEF all, ControllerStep
  <2> QED
    BY <2>1, ConnectionNext, ConfigurationNext
<1> QED
  BY WindowIsTyped, ConnectionInit, ConfigurationInit, <1>1, PTL DEF WindowSpec

-----------------------------------------------------------------------------
(* Signals under way.                                                      *)

SignalSet ==
  {Connected(on) : on \in BOOLEAN} \cup {Phase(on) : on \in BOOLEAN} \cup {Trace}
    \cup {Points(p) : p \in Levels} \cup {Finished(p) : p \in Levels}

\* No run is going on, nor did one end by a crash.
Concluded == ~Running /\ worker # "crashed"

NoReport == \A i \in 1..Len(inbox) : inbox[i].kind # "finished"

\* The points of a run that is over are followed by its report.
PointsReported ==
  \A i \in 1..Len(inbox) : inbox[i].kind = "points" =>
    \E j \in (i + 1)..Len(inbox) : inbox[j].kind = "finished"

InboxInv ==
  /\ inbox \in Seq(SignalSet) /\ kept \in Levels
  /\ Concluded => PointsReported

LEMMA SignalTypes ==
  /\ Nothing \in Levels
  /\ \A on \in BOOLEAN : Connected(on) \in SignalSet /\ Phase(on) \in SignalSet
  /\ Trace \in SignalSet
  /\ \A p \in Levels : Points(p) \in SignalSet /\ Finished(p) \in SignalSet
  BY BoundsAssumption DEF BoundsAssumption, Nothing, Levels, SignalSet

LEMMA SendOne ==
  ASSUME NEW q \in Seq(SignalSet), NEW e \in SignalSet
  PROVE  LET r == Append(q, e)
         IN  /\ r \in Seq(SignalSet) /\ Len(r) = Len(q) + 1 /\ Len(q) \in Nat
             /\ r[Len(q) + 1] = e
             /\ \A i \in 1..Len(q) : r[i] = q[i]
  OBVIOUS

LEMMA SendTwo ==
  ASSUME NEW q \in Seq(SignalSet), NEW d \in SignalSet, NEW e \in SignalSet
  PROVE  LET r == q \o <<d, e>>
         IN  /\ r \in Seq(SignalSet) /\ Len(r) = Len(q) + 2 /\ Len(q) \in Nat
             /\ r[Len(q) + 1] = d /\ r[Len(q) + 2] = e
             /\ \A i \in 1..Len(q) : r[i] = q[i]
  OBVIOUS

LEMMA Receive ==
  ASSUME NEW q \in Seq(SignalSet), q # <<>>
  PROVE  LET r == Tail(q)
         IN  /\ r \in Seq(SignalSet) /\ Len(q) = Len(r) + 1 /\ Len(r) \in Nat
             /\ Head(q) = q[1]
             /\ \A i \in 1..Len(r) : r[i] = q[i + 1]
             /\ \A i \in 2..Len(q) : i - 1 \in 1..Len(r) /\ q[i] = r[i - 1]
  OBVIOUS

LEMMA WorseIsLevel == \A p, q \in Levels : Worse(p, q) \in Levels
  BY DEF Worse, Levels

\* What the worker may do to the signals.
Sends(e) == inbox' = Append(inbox, e) /\ kept' = kept /\ (Concluded' => Concluded)
Reports == inbox' = inbox \o <<Finished(kept), Phase(FALSE)>> /\ kept' = Nothing
SaysNothing == inbox' = inbox /\ kept' = kept /\ (Concluded' => Concluded)
Measures == ~Concluded' /\ inbox' \in Seq(SignalSet) /\ kept' \in Levels

LEMMA WorkSends ==
  ASSUME InboxInv, Work
  PROVE  \/ \E on \in BOOLEAN : Sends(Connected(on)) \/ Sends(Phase(on))
         \/ Reports \/ SaysNothing \/ Measures
<1>1. CASE \E c \in Connections : OpenFails(c) \/ OpenSucceeds(c) \/ CloseDriver(c)
  <2>1. worker' = worker /\ kept' = kept
    BY <1>1 DEF OpenFails, OpenSucceeds, CloseDriver, run
  <2>2. inbox' \in {Append(inbox, Connected(TRUE)), Append(inbox, Connected(FALSE)), inbox}
    BY <1>1 DEF OpenFails, OpenSucceeds, CloseDriver
  <2> QED
    BY <2>1, <2>2 DEF Sends, SaysNothing, Concluded, Running
<1>2. CASE \E cfg \in Configs : ConfigureEngine(cfg) \/ BeginRun(cfg)
  <2>1. worker = "idle" /\ kept' = kept
    BY <1>2 DEF ConfigureEngine, BeginRun, Deliver
  <2>2. inbox' \in {Append(inbox, Phase(FALSE)), inbox}
    BY <1>2 DEF ConfigureEngine, BeginRun
  <2> QED
    BY <2>1, <2>2 DEF Sends, SaysNothing, Concluded, Running
<1>3. CASE SenderChecks \/ \E ok \in BOOLEAN : StopWrites(ok)
  <2>1. CASE EndRun
    BY <2>1 DEF EndRun, Reports
  <2>2. CASE ~EndRun
    <3>1. /\ UNCHANGED <<inbox, kept>> /\ worker' \in {"stopCheck", "startWrite", "stopWrite"}
      BY <1>3, <2>2 DEF SenderChecks, StopWrites, run
    <3> QED
      BY <3>1 DEF SaysNothing, Concluded, Running
  <2> QED
    BY <2>1, <2>2
<1>4. CASE SenderCrashes \/ SweepsEnd
  <2>1. UNCHANGED <<inbox, kept>> /\ worker' \in {"stopCheck", "crashed"}
    BY <1>4 DEF SenderCrashes, SweepsEnd, run
  <2> QED
    BY <2>1 DEF SaysNothing, Concluded, Running
<1>5. CASE \E ok \in BOOLEAN : StartWrites(ok)
  <2>1. kept' = kept /\ worker' \in {"sweeping", "stopCheck"}
    BY <1>5 DEF StartWrites, run
  <2>2. inbox' \in {Append(inbox, Phase(TRUE)), inbox}
    BY <1>5 DEF StartWrites
  <2> QED
    BY <2>1, <2>2 DEF Sends, SaysNothing, Concluded, Running
<1>6. ASSUME NEW p \in Levels, MeasurePass(p)
      PROVE  Measures
  <2>1. /\ worker' = "sweeping" /\ kept' = Worse(kept, p)
        /\ inbox' \in {inbox \o <<Trace>>, inbox \o <<Trace, Points(p)>>}
    BY <1>6 DEF MeasurePass
  <2>2. inbox \o <<Trace>> \in Seq(SignalSet) /\ inbox \o <<Trace, Points(p)>> \in Seq(SignalSet)
    BY SignalTypes DEF InboxInv
  <2> QED
    BY <2>1, <2>2, WorseIsLevel DEF Measures, Concluded, Running, InboxInv
<1>7. CASE ThreadEnds
  <2>1. worker = "idle" /\ UNCHANGED <<inbox, kept>>
    BY <1>7 DEF ThreadEnds, run
  <2> QED
    BY <2>1 DEF SaysNothing, Concluded, Running
<1> QED
  BY <1>1, <1>2, <1>3, <1>4, <1>5, <1>6, <1>7 DEF Work

LEMMA InboxWork ==
  ASSUME InboxInv, Work
  PROVE  InboxInv' /\ (Concluded' /\ NoReport' => Concluded /\ NoReport)
<1>1. ASSUME NEW e \in SignalSet, e.kind \in {"connected", "phase"}, Sends(e)
      PROVE  InboxInv' /\ (Concluded' /\ NoReport' => Concluded /\ NoReport)
  <2> DEFINE r == Append(inbox, e)
  <2>1. /\ r \in Seq(SignalSet) /\ Len(r) = Len(inbox) + 1 /\ Len(inbox) \in Nat
        /\ r[Len(inbox) + 1] = e
        /\ \A i \in 1..Len(inbox) : r[i] = inbox[i]
    BY SendOne DEF InboxInv
  <2>2. inbox' = r /\ kept' = kept /\ (Concluded' => Concluded)
    BY <1>1 DEF Sends
  <2> HIDE DEF r
  <2>3. PointsReported => PointsReported'
    <3> SUFFICES ASSUME PointsReported, NEW i \in 1..Len(r), r[i].kind = "points"
                 PROVE  \E j \in (i + 1)..Len(r) : r[j].kind = "finished"
      BY <2>2 DEF PointsReported
    <3>1. i \in 1..Len(inbox) /\ inbox[i].kind = "points"
      BY <1>1, <2>1
    <3>2. PICK j \in (i + 1)..Len(inbox) : inbox[j].kind = "finished"
      BY <3>1 DEF PointsReported
    <3> QED
      BY <2>1, <3>1, <3>2
  <2>4. NoReport' => NoReport
    BY <2>1, <2>2 DEF NoReport
  <2> QED
    BY <2>1, <2>2, <2>3, <2>4 DEF InboxInv
<1>2. CASE Reports
  <2> DEFINE r == inbox \o <<Finished(kept), Phase(FALSE)>>
  <2>0. Finished(kept) \in SignalSet /\ Phase(FALSE) \in SignalSet
    BY SignalTypes DEF InboxInv
  <2>1. /\ r \in Seq(SignalSet) /\ Len(r) = Len(inbox) + 2 /\ Len(inbox) \in Nat
        /\ r[Len(inbox) + 1] = Finished(kept) /\ r[Len(inbox) + 2] = Phase(FALSE)
        /\ \A i \in 1..Len(inbox) : r[i] = inbox[i]
    BY <2>0, SendTwo DEF InboxInv
  <2>2. inbox' = r /\ kept' = Nothing
    BY <1>2 DEF Reports
  <2> HIDE DEF r
  <2>3. /\ r[Len(inbox) + 1].kind = "finished" /\ Len(inbox) + 1 \in 1..Len(r)
        /\ r[Len(inbox) + 2].kind # "points"
    BY <2>1 DEF Finished, Phase
  <2>4. PointsReported'
    <3> SUFFICES ASSUME NEW i \in 1..Len(r), r[i].kind = "points"
                 PROVE  \E j \in (i + 1)..Len(r) : r[j].kind = "finished"
      BY <2>2 DEF PointsReported
    <3>1. i # Len(inbox) + 1 /\ i # Len(inbox) + 2
      BY <2>3
    <3>2. Len(inbox) + 1 \in (i + 1)..Len(r)
      BY <2>1, <3>1
    <3> QED
      BY <2>3, <3>2
  <2>5. ~NoReport'
    BY <2>2, <2>3 DEF NoReport
  <2> QED
    BY <2>1, <2>2, <2>4, <2>5, SignalTypes DEF InboxInv
<1>3. CASE SaysNothing
  BY <1>3 DEF SaysNothing, InboxInv, PointsReported, NoReport
<1>4. CASE Measures
  BY <1>4 DEF Measures, InboxInv
<1>5. \A on \in BOOLEAN : /\ Connected(on).kind \in {"connected", "phase"}
                          /\ Phase(on).kind \in {"connected", "phase"}
  BY DEF Connected, Phase
<1> QED
  BY <1>1, <1>2, <1>3, <1>4, <1>5, WorkSends, SignalTypes

\* A signal that arrives and is no report leaves the others as they were.
LEMMA InboxArrives ==
  ASSUME InboxInv, NEW e, Arrives(e)
  PROVE  /\ InboxInv' /\ (Concluded' <=> Concluded)
         /\ e.kind # "finished" => (NoReport' <=> NoReport)
         /\ e.kind = "points" /\ Concluded => ~NoReport
<1> DEFINE r == Tail(inbox)
<1>1. /\ inbox # <<>> /\ Head(inbox) = e /\ inbox' = r
      /\ UNCHANGED <<worker, kept>>
  BY DEF Arrives, run
<1>2. /\ r \in Seq(SignalSet) /\ Len(inbox) = Len(r) + 1 /\ Len(r) \in Nat
      /\ inbox[1] = e
      /\ \A i \in 1..Len(r) : r[i] = inbox[i + 1]
      /\ \A i \in 2..Len(inbox) : i - 1 \in 1..Len(r) /\ inbox[i] = r[i - 1]
  BY <1>1, Receive DEF InboxInv
<1> HIDE DEF r
<1>3. PointsReported => PointsReported'
  <2> SUFFICES ASSUME PointsReported, NEW i \in 1..Len(r), r[i].kind = "points"
               PROVE  \E j \in (i + 1)..Len(r) : r[j].kind = "finished"
    BY <1>1 DEF PointsReported
  <2>1. i + 1 \in 1..Len(inbox) /\ inbox[i + 1].kind = "points"
    BY <1>2
  <2>2. PICK j \in (i + 2)..Len(inbox) : inbox[j].kind = "finished"
    BY <2>1 DEF PointsReported
  <2> QED
    BY <1>2, <2>2
<1>4. ASSUME e.kind # "finished"
      PROVE  NoReport' <=> NoReport
  <2>1. NoReport => NoReport'
    BY <1>1, <1>2 DEF NoReport
  <2>2. ASSUME NoReport', NEW i \in 1..Len(inbox)
        PROVE  inbox[i].kind # "finished"
    <3>1. CASE i = 1
      BY <1>2, <1>4, <3>1
    <3>2. CASE i # 1
      BY <1>1, <1>2, <2>2, <3>2 DEF NoReport
    <3> QED
      BY <3>1, <3>2
  <2> QED
    BY <2>1, <2>2 DEF NoReport
<1>5. ASSUME e.kind = "points", Concluded
      PROVE  ~NoReport
  <2>1. 1 \in 1..Len(inbox) /\ inbox[1].kind = "points"
    BY <1>2, <1>5
  <2>2. PICK j \in 2..Len(inbox) : inbox[j].kind = "finished"
    BY <1>5, <2>1 DEF InboxInv, PointsReported
  <2> QED
    BY <1>2, <2>2 DEF NoReport
<1> QED
  BY <1>1, <1>2, <1>3, <1>4, <1>5 DEF InboxInv, Concluded, Running

-----------------------------------------------------------------------------
(* The table, the session and the files.                                   *)

\* The measurements of the session are in a file, or there are none.
Stored ==
  \/ session.results = Nothing /\ session.traces = 0
  \/ \E f \in Files :
       /\ disk[f] # None
       /\ session.results \in {Nothing, disk[f].results}
       /\ session.traces <= disk[f].traces

\* Once the last run was reported.
TableInv ==
  Concluded /\ NoReport => table = session.results /\ (dirty \/ Stored)

\* Nothing the controller does on its own touches the document.
LEMMA TableStays ==
  ASSUME TableInv, UNCHANGED document, Concluded' /\ NoReport' => Concluded /\ NoReport
  PROVE  TableInv'
  BY DEF TableInv, document, Stored

LEMMA TableOperator ==
  ASSUME WindowTypes, TableInv, Operator
  PROVE  TableInv'
<1>1. UNCHANGED <<worker, inbox>>
  <2>2. CASE UseInstrument \/ CloseWindow \/ PressStart
    BY <2>2 DEF UseInstrument, CloseWindow, PressStart, Connect, Disconnect, Quit, StartRun
  <2>3. CASE EditLimits \/ EditBandwidth
    BY <2>3 DEF EditLimits, EditBandwidth, Edited, SetConfiguration
  <2>4. CASE \/ DeclineStart \/ NewSession \/ EditSessionMetadata
             \/ ExportResults \/ ExportPdfReport
             \/ \E f \in Files : OpenSessionFile(f) \/ \E ok \in BOOLEAN : SaveSessionAs(f, ok)
             \/ \E ok \in BOOLEAN : SaveSession(ok)
    BY <2>4 DEF DeclineStart, NewSession, EditSessionMetadata, ExportResults,
       ExportPdfReport, TakeTable, OpenSessionFile, SaveSessionAs, SaveSession, vars
  <2> QED
    BY <2>2, <2>3, <2>4 DEF Operator
<1>2. (Concluded' <=> Concluded) /\ (NoReport' <=> NoReport)
  BY <1>1 DEF Concluded, Running, NoReport
<1> SUFFICES ASSUME Concluded, NoReport
             PROVE  (table = session.results /\ (dirty \/ Stored))'
  BY <1>2 DEF TableInv
<1>3. table = session.results /\ (dirty \/ Stored)
  BY DEF TableInv
<1>4. CASE UseInstrument \/ CloseWindow
  BY <1>3, <1>4 DEF UseInstrument, CloseWindow, window, document, Stored
<1>5. CASE PressStart \/ DeclineStart
  <2>1. /\ table' = session'.results /\ session'.traces = session.traces
        /\ session'.results \in {session.results, Nothing} /\ UNCHANGED <<disk, dirty>>
    BY <1>3, <1>5 DEF PressStart, DeclineStart, WindowTypes, Sessions
  <2> QED
    BY <1>3, <2>1 DEF Stored
<1>6. CASE EditLimits \/ EditBandwidth
  <2>1. PICK cfg : Edited(cfg)
    BY <1>6 DEF EditLimits, EditBandwidth
  <2>2. session'.results = session.results /\ table' = table /\ dirty'
    BY <2>1 DEF Edited, WindowTypes, Sessions
  <2> QED
    BY <1>3, <2>2
<1>7. CASE NewSession
  <2>1. session'.results = Nothing /\ session'.traces = 0 /\ table' = Nothing
    BY <1>7 DEF NewSession
  <2> QED
    BY <2>1 DEF Stored
<1>8. ASSUME NEW f \in Files, OpenSessionFile(f)
      PROVE  (table = session.results /\ (dirty \/ Stored))'
  <2>1. /\ disk[f] # None /\ session' = disk[f] /\ table' = disk[f].results /\ disk' = disk
    BY <1>8 DEF OpenSessionFile
  <2>2. disk[f].traces \in Nat
    BY <2>1 DEF WindowTypes, Sessions
  <2>3. disk[f].traces <= disk[f].traces
    BY <2>2
  <2> QED
    BY <2>1, <2>3 DEF Stored
<1>9. CASE \/ \E f \in Files, ok \in BOOLEAN : SaveSessionAs(f, ok)
           \/ \E ok \in BOOLEAN : SaveSession(ok)
  <2>1. PICK f \in Files, ok \in BOOLEAN : Store(f, ok) /\ UNCHANGED <<session, table>>
    BY <1>9 DEF SaveSessionAs, SaveSession, WindowTypes
  <2>2. CASE ~ok
    BY <1>3, <2>1, <2>2 DEF Store, Stored
  <2>3. CASE ok
    <3>1. disk'[f] = session /\ session # None
      BY <2>1, <2>3, FilesAssumption DEF FilesAssumption, Store, WindowTypes
    <3>2. session.traces \in Nat
      BY DEF WindowTypes, Sessions
    <3>3. session.traces <= session.traces
      BY <3>2
    <3> QED
      BY <1>3, <2>1, <3>1, <3>3 DEF Stored
  <2> QED
    BY <2>2, <2>3
<1>10. CASE EditSessionMetadata
  BY <1>3, <1>10 DEF EditSessionMetadata
<1>11. CASE ExportResults \/ ExportPdfReport
  <2>1. TakeTable
    BY <1>11 DEF ExportResults, ExportPdfReport
  <2>2. session'.results = session.results /\ session'.traces = session.traces
        /\ UNCHANGED <<table, dirty, disk>>
    BY <1>3, <2>1 DEF TakeTable, WindowTypes, Sessions
  <2> QED
    BY <1>3, <2>2 DEF Stored
<1> QED
  BY <1>4, <1>5, <1>6, <1>7, <1>8, <1>9, <1>10, <1>11 DEF Operator

LEMMA TableSignals ==
  ASSUME WindowTypes, InboxInv, TableInv, Signals
  PROVE  TableInv'
<1>1. CASE \E on \in BOOLEAN : OnConnectionChanged(on) \/ OnPhaseChanged(on)
  <2>1. PICK e : Arrives(e) /\ e.kind # "finished" /\ UNCHANGED document
    BY <1>1 DEF OnConnectionChanged, OnPhaseChanged, ConnectionChanged, PhaseChanged,
       Connected, Phase, window
  <2> QED
    BY <2>1, InboxArrives, TableStays
<1>2. CASE OnTraceAcquired
  <2>1. Arrives(Trace) /\ Trace.kind # "finished"
    BY <1>2 DEF OnTraceAcquired, Trace
  <2>2. session'.results = session.results /\ table' = table /\ dirty'
    BY <1>2 DEF OnTraceAcquired, WindowTypes, Sessions
  <2> QED
    BY <2>1, <2>2, InboxArrives DEF TableInv
<1>3. ASSUME NEW p \in Levels, OnPointMeasured(p)
      PROVE  TableInv'
  <2>1. Arrives(Points(p)) /\ Points(p).kind = "points"
    BY <1>3 DEF OnPointMeasured, Points
  <2>2. ~(Concluded' /\ NoReport')
    BY <2>1, InboxArrives
  <2> QED
    BY <2>2 DEF TableInv
<1>4. ASSUME NEW p \in Levels, OnRunFinished(p)
      PROVE  TableInv'
  <2>1. session'.results = p /\ table' = p /\ dirty'
    BY <1>4 DEF OnRunFinished, WindowTypes, Sessions
  <2> QED
    BY <2>1 DEF TableInv
<1> QED
  BY <1>1, <1>2, <1>3, <1>4 DEF Signals

LEMMA InboxNext ==
  ASSUME WindowTypes, InboxInv, [WindowNext]_all
  PROVE  InboxInv'
<1>1. CASE Work
  BY <1>1, InboxWork
<1>2. CASE Arrival
  <2>1. PICK e : Arrives(e)
    BY <1>2 DEF Arrival, ConnectionChanged, PhaseChanged, ResultArrives
  <2> QED
    BY <2>1, InboxArrives
<1>3. CASE ~Work /\ ~Arrival
  <2>1. ControllerStep
    BY WindowSteps DEF all, ControllerStep
  <2>2. UNCHANGED <<inbox, worker, kept>>
    BY <1>3, <2>1 DEF ControllerStep, Connect, Disconnect, Quit, StartRun, SetConfiguration,
       run, vars
  <2> QED
    BY <2>2 DEF InboxInv, Concluded, Running, PointsReported
<1> QED
  BY <1>1, <1>2, <1>3

LEMMA TableNext ==
  ASSUME WindowTypes, InboxInv, TableInv, [WindowNext]_all
  PROVE  TableInv'
<1>1. CASE Working
  <2>1. Work /\ UNCHANGED document
    BY <1>1 DEF Working, window
  <2> QED
    BY <2>1, InboxWork, TableStays
<1>2. CASE (Ended /\ UNCHANGED window) \/ UNCHANGED all
  <2>1. UNCHANGED <<worker, inbox, document>>
    BY <1>2 DEF Ended, all, window, vars
  <2>2. Concluded' /\ NoReport' => Concluded /\ NoReport
    BY <2>1 DEF Concluded, Running, NoReport
  <2> QED
    BY <2>1, <2>2, TableStays
<1> QED
  BY <1>1, <1>2, TableOperator, TableSignals DEF WindowNext

LEMMA TableInvariant == WindowSpec => [](InboxInv /\ TableInv)
<1>1. WindowInit => InboxInv /\ TableInv
  <2> SUFFICES ASSUME WindowInit PROVE InboxInv /\ TableInv
    OBVIOUS
  <2>1. <<>> \in Seq(SignalSet) /\ Len(<<>>) = 0
    OBVIOUS
  <2>2. inbox = <<>> /\ kept = Nothing /\ worker = "idle"
    BY DEF WindowInit, Init
  <2>3. table = Nothing /\ session.results = Nothing /\ session.traces = 0
    BY DEF WindowInit
  <2> QED
    BY <2>1, <2>2, <2>3, SignalTypes DEF InboxInv, PointsReported, TableInv, Stored
<1>2. WindowTypes /\ InboxInv /\ TableInv /\ [WindowNext]_all => (InboxInv /\ TableInv)'
  BY InboxNext, TableNext
<1> QED
  BY WindowIsTyped, <1>1, <1>2, PTL DEF WindowSpec

-----------------------------------------------------------------------------
(* Theorems.                                                               *)

\* Two drivers never talk to the same instrument, and the driver of a run is never
\* closed beneath it, whatever is connected, given up and edited meanwhile.
THEOREM OneConnectionIsOpen == WindowSpec => []OneConnection
<1>1. ConnectionInv => OneConnection
  <2> SUFFICES ASSUME ConnectionInv PROVE OneConnection
    OBVIOUS
  <2>1. Cardinality(opened) <= 1
    <3>1. CASE opened = {}
      BY <3>1, FS_EmptySet
    <3>2. CASE opened # {}
      <4>1. PICK x \in opened : opened = {x}
        BY <3>2 DEF ConnectionInv
      <4> QED
        BY <4>1, FS_Singleton
    <3> QED
      BY <3>1, <3>2
  <2>2. Running => driver \in opened
    BY DEF ConnectionInv, Running
  <2> QED
    BY <2>1, <2>2 DEF OneConnection
<1> QED
  BY <1>1, WindowInvariant, PTL

\* Once the worker has caught up the engine has the connection made last, or none.
THEOREM EngineFollows == WindowSpec => []EngineFollowsController
<1>1. ConnectionInv => EngineFollowsController
  BY DEF ConnectionInv, Orderly, RestIsClosed, EngineFollowsController
<1> QED
  BY <1>1, WindowInvariant, PTL

\* A run's commands only reach the instrument it measures with.
THEOREM CommandsStay == WindowSpec => []CommandsStayOnBus
<1>1. ConnectionInv => CommandsStayOnBus
  BY DEF ConnectionInv, CommandsStayOnBus
<1> QED
  BY <1>1, WindowInvariant, PTL

\* A run measures with the configuration it was started for.
THEOREM RunMeasuresWhatWasAsked == WindowSpec => []RunMeasuresWhatDockShows
<1>1. ConfigurationInv => RunMeasuresWhatDockShows
  BY DEF ConfigurationInv, RunMeasuresWhatDockShows
<1> QED
  BY <1>1, WindowInvariant, PTL

\* Once a run was reported the table shows what the session has, although every
\* point arrived at the level of its pass.
THEOREM TableSettles == WindowSpec => []SettledTableIsSession
<1>1. InboxInv /\ TableInv => SettledTableIsSession
  <2> SUFFICES ASSUME TableInv, AtRest PROVE table = session.results
    BY DEF SettledTableIsSession
  <2>1. Concluded /\ NoReport
    BY DEF AtRest, Concluded, Running, NoReport
  <2> QED
    BY <2>1 DEF TableInv
<1> QED
  BY <1>1, TableInvariant, PTL

\* Whoever leaves a session without being asked loses no measurement.
THEOREM LeavingLosesNothing == WindowSpec => []CleanLosesNothing
<1>1. InboxInv /\ TableInv => CleanLosesNothing
  <2> SUFFICES ASSUME TableInv, AtRest, ~dirty PROVE Stored
    BY DEF CleanLosesNothing, Stored
  <2>1. Concluded /\ NoReport
    BY DEF AtRest, Concluded, Running, NoReport
  <2> QED
    BY <2>1 DEF TableInv
<1> QED
  BY <1>1, TableInvariant, PTL
=============================================================================
