-------------------------- MODULE InstrumentsProofs --------------------------
(***************************************************************************)
(* Proofs about the list of instruments, for any endpoints, devices and    *)
(* addresses, any number of sweeps and any changes on the bus.             *)
(***************************************************************************)
EXTENDS Instruments, SequenceTheorems, FiniteSetTheorems, FunctionTheorems, TLAPS

UsbAddresses == {d.bare : d \in Devices} \cup {d.full : d \in Devices}
AllAddresses ==
  Endpoints \cup UsbAddresses \cup {"simulated"} \cup {o.address : o \in Others}
Kinds == {"simulated", "usbtmc", "tcp"} \cup {o.kind : o \in Others}
Descriptors == [kind : Kinds, address : AllAddresses]

Records == [address : UsbAddresses, strings : BOOLEAN]

Messages ==
  [signal : {"found"}, descriptor : [kind : {"tcp"}, address : Endpoints]]
  \cup [signal : {"finished"}, found : Nat, aborted : BOOLEAN]

Sweeps ==
  [at : {"idle", "clearing", "sweeping", "done"}, waiting : SUBSET Endpoints,
   probing : SUBSET Endpoints, found : Nat, aborted : BOOLEAN]

\* A list whose every row numbers an instrument with its address and category.
Sound(list) ==
  /\ list = [instruments |-> list.instruments, items |-> list.items]
  /\ list.instruments \in Seq(Descriptors) /\ IsFiniteSet(list.items)
  /\ \A i \in list.items :
       /\ i.index \in 1..Len(list.instruments)
       /\ list.instruments[i.index].address = i.address
       /\ CategoryOf(list.instruments[i.index].kind) = i.category

TypeInv ==
  /\ Sound(List)
  /\ bus \in [Devices -> {"out", "mute", "in"}] /\ known \subseteq Records
  /\ inbox \in Seq(Messages) /\ sweep \in Sweeps /\ abort \in BOOLEAN

Network == Listed(List, "network")

\* An endpoint is listed, or one of the first n signals on their way announces it.
Announced(listed, box, e, n) ==
  e \in listed \/ \E m \in 1..n : box[m].signal = "found" /\ box[m].descriptor.address = e

\* So many endpoints, none of them among "rest", are all announced.
Counts(listed, box, found, rest, n) ==
  \E F \in SUBSET (Endpoints \ rest) :
    Cardinality(F) = found /\ \A e \in F : Announced(listed, box, e, n)

SweepInv ==
  /\ sweep.waiting \cap sweep.probing = {}
  /\ sweep.at # "sweeping" => sweep.waiting = {} /\ sweep.probing = {}
  /\ sweep.at \in {"sweeping", "done"} =>
       Counts(Network, inbox, sweep.found, sweep.waiting \cup sweep.probing, Len(inbox))

InboxInv ==
  /\ \A n \in 1..Len(inbox) :
       inbox[n].signal = "finished" => Counts(Network, inbox, inbox[n].found, {}, n - 1)
  /\ \A m \in 1..Len(inbox) : inbox[m].signal = "found" =>
       sweep.at # "idle" \/ \E k \in 1..Len(inbox) : k > m /\ inbox[k].signal = "finished"

ListInv == TypeInv /\ RowsFollowBus /\ SweepInv /\ InboxInv

-----------------------------------------------------------------------------
(* The list.                                                               *)

\* Every set has an order in which its elements come once each.
LEMMA SetInOrder ==
  ASSUME NEW S, IsFiniteSet(S)
  PROVE  LET f == SetToSeq(S)
         IN  /\ f \in [1..Cardinality(S) -> S] /\ Cardinality(S) \in Nat
             /\ \A x \in S : \E k \in 1..Cardinality(S) : f[k] = x
<1>1. Cardinality(S) \in Nat /\ ExistsBijection(1..Cardinality(S), S)
  BY FS_CardinalityType
<1>2. PICK b \in Bijection(1..Cardinality(S), S) : TRUE
  BY <1>1 DEF ExistsBijection
<1>3. b \in [1..Cardinality(S) -> S] /\ IsInjective(b)
  BY <1>2 DEF Bijection, Injection
<1> DEFINE f == SetToSeq(S)
<1>4. f \in [1..Cardinality(S) -> S] /\ IsInjective(f)
  BY <1>3 DEF SetToSeq
<1> HIDE DEF f
<1>5. f \in Injection(1..Cardinality(S), S)
  BY <1>4 DEF Injection
<1>6. IsFiniteSet(1..Cardinality(S)) /\ Cardinality(1..Cardinality(S)) = Cardinality(S)
  <2>1. Cardinality(S) \in Int /\ 1 \in Int
    BY <1>1
  <2>2. IsFiniteSet(1..Cardinality(S))
        /\ Cardinality(1..Cardinality(S)) =
             IF 1 > Cardinality(S) THEN 0 ELSE Cardinality(S) - 1 + 1
    BY <2>1, FS_Interval
  <2> QED
    BY <1>1, <2>2
<1>7. f \in Surjection(1..Cardinality(S), S)
  BY <1>5, <1>6, FS_Injection
<1> QED
  BY <1>1, <1>4, <1>7 DEF Surjection, f

LEMMA AddedIsSound ==
  ASSUME NEW list, Sound(list), NEW kind \in Kinds,
         NEW addresses \in SUBSET AllAddresses, IsFiniteSet(addresses)
  PROVE  LET r == AddedAll(list, kind, addresses)
         IN  /\ Sound(r) /\ list.items \subseteq r.items
             /\ Listed(r, CategoryOf(kind)) = Listed(list, CategoryOf(kind)) \cup addresses
             /\ \A c : c # CategoryOf(kind) => Listed(r, c) = Listed(list, c)
<1> DEFINE category == CategoryOf(kind)
           S == addresses \ Listed(list, category)
           new == SetToSeq(S)
           n == Len(list.instruments)
           more == [k \in DOMAIN new |-> [kind |-> kind, address |-> new[k]]]
           row(k) == [category |-> category, address |-> new[k], index |-> n + k]
           r == AddedAll(list, kind, addresses)
<1>1. IsFiniteSet(S)
  BY FS_Subset
<1> DEFINE c == Cardinality(S)
<1>2. new \in [1..c -> S] /\ c \in Nat /\ \A x \in S : \E k \in 1..c : new[k] = x
  BY <1>1, SetInOrder
<1>3. r = [instruments |-> list.instruments \o more,
           items |-> list.items \cup {row(k) : k \in 1..c}]
  BY <1>2 DEF AddedAll
<1>4. S \subseteq addresses /\ addresses \subseteq S \cup Listed(list, category)
  OBVIOUS
<1> HIDE DEF S, new, c, r
<1>5. /\ more \in Seq(Descriptors) /\ Len(more) = c
      /\ \A k \in 1..c : more[k] = [kind |-> kind, address |-> new[k]]
  <2>1. DOMAIN new = 1..c /\ \A k \in 1..c : new[k] \in AllAddresses
    BY <1>2, <1>4
  <2>2. more \in [1..c -> Descriptors]
    BY <2>1 DEF Descriptors
  <2> QED
    BY <1>2, <2>1, <2>2
<1> HIDE DEF more
<1>6. /\ list.instruments \o more \in Seq(Descriptors) /\ n \in Nat
      /\ Len(list.instruments \o more) = n + c
      /\ \A i \in 1..n : (list.instruments \o more)[i] = list.instruments[i]
      /\ \A k \in 1..c : (list.instruments \o more)[n + k] = more[k]
  BY <1>2, <1>5 DEF Sound
<1> DEFINE whole == list.instruments \o more
<1> HIDE DEF whole
<1>7. r.instruments = whole /\ r.items = list.items \cup {row(k) : k \in 1..c}
      /\ r = [instruments |-> r.instruments, items |-> r.items]
  BY <1>3 DEF whole
<1>8. IsFiniteSet({row(k) : k \in 1..c})
  <2> DEFINE f == [k \in 1..c |-> row(k)]
             T == {row(k) : k \in 1..c}
  <2>1. f \in [1..c -> T] /\ \A t \in T : \E k \in 1..c : f[k] = t
    OBVIOUS
  <2>2. IsFiniteSet(1..c)
    BY <1>2, FS_Interval
  <2> HIDE DEF f, T
  <2>3. f \in Surjection(1..c, T)
    BY <2>1, Fun_IsSurj
  <2>4. IsFiniteSet(T)
    BY <2>2, <2>3, FS_Surjection
  <2> QED
    BY <2>4 DEF T
<1>9. ASSUME NEW i \in r.items
      PROVE  /\ i.index \in 1..Len(whole) /\ whole[i.index].address = i.address
             /\ CategoryOf(whole[i.index].kind) = i.category
  <2>1. CASE i \in list.items
    BY <1>2, <1>6, <2>1 DEF Sound, whole
  <2>2. ASSUME NEW k \in 1..c, i = row(k)
        PROVE  /\ i.index \in 1..Len(whole) /\ whole[i.index].address = i.address
               /\ CategoryOf(whole[i.index].kind) = i.category
    <3>1. i.index = n + k /\ i.address = new[k] /\ i.category = category
      BY <2>2
    <3>2. whole[n + k] = [kind |-> kind, address |-> new[k]]
      BY <1>5, <1>6 DEF whole
    <3> QED
      BY <1>2, <1>6, <3>1, <3>2 DEF whole
  <2> QED
    BY <1>7, <2>1, <2>2
<1>10. Sound(r)
  <2>1. IsFiniteSet(r.items)
    <3>1. IsFiniteSet(list.items)
      BY DEF Sound
    <3> DEFINE T == {row(k) : k \in 1..c}
    <3>2. IsFiniteSet(T)
      BY <1>8
    <3> HIDE DEF T
    <3>3. IsFiniteSet(list.items \cup T)
      BY <3>1, <3>2, FS_Union
    <3> QED
      BY <1>7, <3>3 DEF T
  <2> QED
    BY <1>6, <1>7, <1>9, <2>1 DEF Sound, whole
<1>11. Listed(r, category) = Listed(list, category) \cup addresses
  <2>1. ASSUME NEW x \in S
        PROVE  x \in Listed(r, category)
    <3>1. PICK k \in 1..c : new[k] = x
      BY <1>2
    <3>2. row(k) \in r.items /\ row(k).category = category /\ row(k).address = x
      BY <1>7, <3>1
    <3> QED
      BY <3>2 DEF Listed
  <2>2. Listed(list, category) \subseteq Listed(r, category)
    BY <1>7 DEF Listed
  <2>3. ASSUME NEW i \in r.items, i.category = category
        PROVE  i.address \in Listed(list, category) \cup addresses
    <3>1. CASE i \in list.items
      BY <2>3, <3>1 DEF Listed
    <3>2. ASSUME NEW k \in 1..c, i = row(k)
          PROVE  i.address \in addresses
      BY <1>2, <1>4, <3>2
    <3> QED
      BY <1>7, <3>1, <3>2
  <2>4. Listed(r, category) \subseteq Listed(list, category) \cup addresses
    BY <2>3 DEF Listed
  <2> QED
    BY <1>4, <2>1, <2>2, <2>4
<1>12. ASSUME NEW d, d # category
       PROVE  Listed(r, d) = Listed(list, d)
  <2>1. \A k \in 1..c : row(k).category # d
    BY <1>12
  <2> QED
    BY <1>7, <2>1 DEF Listed
<1> QED
  BY <1>7, <1>10, <1>11, <1>12 DEF r

LEMMA RemovedIsSound ==
  ASSUME NEW list, Sound(list), NEW addresses
  PROVE  LET r == Removed(list, addresses)
         IN  /\ Sound(r) /\ r.items \subseteq list.items
             /\ \A c : Listed(r, c) = Listed(list, c) \ addresses
<1> DEFINE r == Removed(list, addresses)
           a == list.instruments
           b == list.items
<1>0. list = [instruments |-> a, items |-> b]
  BY DEF Sound
<1>1. r = [instruments |-> list.instruments,
           items |-> {i \in list.items : i.address \notin addresses}]
  <2>1. r = [list EXCEPT !.items = {i \in b : i.address \notin addresses}]
    BY DEF Removed
  <2> HIDE DEF r, a, b
  <2>2. r = [instruments |-> a, items |-> {i \in b : i.address \notin addresses}]
    BY <1>0, <2>1
  <2> QED
    BY <2>2 DEF a, b
<1> HIDE DEF r, a, b
<1>2. Sound(r)
  <2>1. IsFiniteSet(r.items)
    BY <1>1, FS_Subset DEF Sound
  <2> QED
    BY <1>1, <2>1 DEF Sound
<1> QED
  BY <1>1, <1>2 DEF Listed, r

LEMMA Relisted ==
  ASSUME NEW list, Sound(list), Relist(list)
  PROVE  List' = list
  BY DEF Sound, Relist, List

\* Rows of endpoints stay, whatever goes with the devices.
LEMMA Apart ==
  UsbAddresses \cap Endpoints = {} /\ UsbAddresses \subseteq AllAddresses
  BY EndpointsAssumption DEF EndpointsAssumption, UsbAddresses, AllAddresses

LEMMA EnumeratedIs ==
  /\ Enumerated \subseteq Records /\ IsFiniteSet(Enumerated)
  /\ \A R \in SUBSET Records : Addresses(R) \subseteq UsbAddresses
  /\ \A R \in SUBSET Enumerated : IsFiniteSet(Addresses(R))
<1> DEFINE here == {x \in Devices : bus[x] # "out"}
           record(d) == IF bus[d] = "in" THEN [address |-> d.full, strings |-> TRUE]
                                         ELSE [address |-> d.bare, strings |-> FALSE]
<1>1. Enumerated = {record(d) : d \in here}
  BY DEF Enumerated
<1>2. Enumerated \subseteq Records
  <2>1. \A d \in here : record(d) \in Records
    BY DEF Records, UsbAddresses
  <2> HIDE DEF record, here
  <2> QED
    BY <1>1, <2>1
<1>3. IsFiniteSet(here)
  BY DevicesAssumption, FS_Subset DEF DevicesAssumption
<1> DEFINE f == [d \in here |-> record(d)]
<1>4. f \in [here -> Enumerated] /\ \A t \in Enumerated : \E d \in here : f[d] = t
  BY <1>1
<1> HIDE DEF f, here
<1>5. IsFiniteSet(Enumerated)
  <2>1. f \in Surjection(here, Enumerated)
    BY <1>4, Fun_IsSurj
  <2> QED
    BY <1>3, <2>1, FS_Surjection
<1>6. \A R \in SUBSET Records : Addresses(R) \subseteq UsbAddresses
  BY DEF Records, Addresses
<1>7. ASSUME NEW R \in SUBSET Enumerated
      PROVE  IsFiniteSet(Addresses(R))
  <2> DEFINE g == [r \in R |-> r.address]
  <2>1. IsFiniteSet(R)
    BY <1>5, FS_Subset
  <2>2. g \in [R -> Addresses(R)] /\ \A t \in Addresses(R) : \E r \in R : g[r] = t
    BY DEF Addresses
  <2> HIDE DEF g
  <2>3. g \in Surjection(R, Addresses(R))
    BY <2>2, Fun_IsSurj
  <2> QED
    BY <2>1, <2>3, FS_Surjection
<1> QED
  BY <1>2, <1>5, <1>6, <1>7

\* What a listing of the bus does to the rows.
LEMMA RescanLists ==
  ASSUME TypeInv, NEW ok \in BOOLEAN, Rescan(ok)
  PROVE  /\ Sound(List') /\ known' \subseteq Records
         /\ Network \cap Endpoints \subseteq Network'
         /\ RowsFollowBus => RowsFollowBus'
<1>1. CASE ~ok
  <2>1. UNCHANGED <<instruments, items, known, hidden>>
    BY <1>1 DEF Rescan, dock
  <2>2. List' = List /\ Network' = Network /\ Addresses(known)' = Addresses(known)
    BY <2>1 DEF List, Network
  <2> QED
    BY <2>1, <2>2 DEF TypeInv, RowsFollowBus
<1>2. CASE ok
  <2> DEFINE new == Addresses(Enumerated \ known)
             gone == Addresses(known \ Enumerated)
             more == AddedAll(List, "usbtmc", new)
             rest == Removed(more, gone)
  <2>1. /\ Relist(rest) /\ known' = Enumerated
        /\ hidden' = (gone \cup (hidden \ new)) \cap Addresses(Enumerated)
    BY <1>2 DEF Rescan, Published
  <2>2. new \subseteq UsbAddresses /\ gone \subseteq UsbAddresses /\ IsFiniteSet(new)
        /\ Enumerated \subseteq Records
    <3>1. Enumerated \ known \subseteq Records /\ known \ Enumerated \subseteq Records
          /\ Enumerated \subseteq Records
      BY EnumeratedIs DEF TypeInv
    <3> QED
      BY <3>1, EnumeratedIs
  <2>3. new \in SUBSET AllAddresses /\ "usbtmc" \in Kinds /\ Sound(List)
    BY <2>2, Apart DEF Kinds, TypeInv
  <2> HIDE DEF new, gone
  <2>4. CategoryOf("usbtmc") = "usbtmc"
    BY DEF CategoryOf
  <2>5. /\ Sound(more)
        /\ Listed(more, "usbtmc") = Listed(List, "usbtmc") \cup new
        /\ Listed(more, "network") = Listed(List, "network")
    BY <2>2, <2>3, <2>4, AddedIsSound
  <2> HIDE DEF more
  <2>6. Sound(rest) /\ \A c : Listed(rest, c) = Listed(more, c) \ gone
    BY <2>5, RemovedIsSound
  <2> HIDE DEF rest
  <2>7. List' = rest
    BY <2>1, <2>6, Relisted
  <2>8. Network' = Network \ gone
    BY <2>5, <2>6, <2>7 DEF Network
  <2>9. Network \cap Endpoints \subseteq Network'
    BY <2>2, <2>8, Apart
  <2>10. ASSUME RowsFollowBus
         PROVE  RowsFollowBus'
    <3>1. Listed(List', "usbtmc") = ((Addresses(known) \ hidden) \cup new) \ gone
      BY <2>5, <2>6, <2>7, <2>10 DEF RowsFollowBus
    <3>2. ((Addresses(known) \ hidden) \cup new) \ gone = Addresses(Enumerated) \ hidden'
      <4>1. /\ \A a \in new : a \in Addresses(Enumerated)
            /\ \A a \in Addresses(known) : a \in gone \/ a \in Addresses(Enumerated)
            /\ \A a \in Addresses(Enumerated) : a \in new \/ a \in Addresses(known)
        BY DEF Addresses, new, gone
      <4> QED
        BY <2>1, <4>1
    <3> QED
      BY <2>1, <3>1, <3>2 DEF RowsFollowBus
  <2> QED
    BY <2>1, <2>2, <2>6, <2>7, <2>9, <2>10
<1> QED
  BY <1>1, <1>2

\* What an instrument found or typed in does to the rows.
LEMMA AddedLists ==
  ASSUME TypeInv, NEW descriptor, descriptor.kind \in Kinds \ {"usbtmc"},
         descriptor.address \in AllAddresses, Relist(Added(List, descriptor)),
         UNCHANGED <<known, hidden>>
  PROVE  /\ Sound(List') /\ Network \subseteq Network'
         /\ descriptor.kind = "tcp" => descriptor.address \in Network'
         /\ RowsFollowBus => RowsFollowBus'
<1> DEFINE kind == descriptor.kind  addresses == {descriptor.address}
           more == AddedAll(List, kind, addresses)
<1>1. kind \in Kinds /\ addresses \in SUBSET AllAddresses /\ IsFiniteSet(addresses) /\ Sound(List)
  BY FS_Singleton DEF TypeInv
<1>2. Relist(more)
  BY DEF Added
<1>3. kind # "usbtmc" /\ descriptor.address \in addresses
  OBVIOUS
<1> HIDE DEF kind, addresses
<1>4. /\ Sound(more)
      /\ Listed(more, CategoryOf(kind)) = Listed(List, CategoryOf(kind)) \cup addresses
      /\ \A c : c # CategoryOf(kind) => Listed(more, c) = Listed(List, c)
  BY <1>1, AddedIsSound
<1> HIDE DEF more
<1>5. List' = more
  BY <1>2, <1>4, Relisted
<1>6. "usbtmc" # CategoryOf(kind) /\ (kind = "tcp" => CategoryOf(kind) = "network")
  BY <1>3 DEF CategoryOf
<1>7. Network \subseteq Network'
  <2>1. CASE CategoryOf(kind) = "network"
    BY <1>4, <1>5, <2>1 DEF Network
  <2>2. CASE CategoryOf(kind) # "network"
    BY <1>4, <1>5, <2>2 DEF Network
  <2> QED
    BY <2>1, <2>2
<1>8. RowsFollowBus => RowsFollowBus'
  <2>1. Listed(List', "usbtmc") = Listed(List, "usbtmc")
    BY <1>4, <1>5, <1>6
  <2> QED
    BY <2>1 DEF RowsFollowBus, Addresses
<1>9. kind = "tcp" => descriptor.address \in Network'
  BY <1>3, <1>4, <1>5, <1>6 DEF Network
<1> QED
  BY <1>4, <1>5, <1>7, <1>8, <1>9 DEF kind

-----------------------------------------------------------------------------
(* The signals on their way.                                               *)

LEMMA CountsGrow ==
  ASSUME NEW listed, NEW more, NEW box, NEW longer, NEW found, NEW rest, NEW less,
         NEW n \in Nat, NEW k \in Nat, n <= k,
         listed \cap Endpoints \subseteq more, \A i \in 1..n : longer[i] = box[i],
         less \subseteq rest, Counts(listed, box, found, rest, n)
  PROVE  Counts(more, longer, found, less, k)
<1>1. PICK F \in SUBSET (Endpoints \ rest) :
        Cardinality(F) = found /\ \A e \in F : Announced(listed, box, e, n)
  BY DEF Counts
<1>2. ASSUME NEW e \in F
      PROVE  Announced(more, longer, e, k)
  <2>1. CASE e \in listed
    BY <1>1, <2>1 DEF Announced
  <2>2. CASE e \notin listed
    <3>1. PICK m \in 1..n : box[m].signal = "found" /\ box[m].descriptor.address = e
      BY <1>1, <1>2, <2>2 DEF Announced
    <3>2. m \in 1..k /\ longer[m] = box[m]
      OBVIOUS
    <3> QED
      BY <3>1, <3>2 DEF Announced
  <2> QED
    BY <2>1, <2>2
<1>3. F \in SUBSET (Endpoints \ less)
  BY <1>1
<1> QED
  BY <1>1, <1>2, <1>3 DEF Counts

LEMMA TailOfBox ==
  ASSUME NEW box \in Seq(Messages), box # <<>>
  PROVE  /\ Tail(box) \in Seq(Messages) /\ Len(box) = Len(Tail(box)) + 1 /\ Len(Tail(box)) \in Nat
         /\ Head(box) = box[1] /\ box[1] \in Messages
         /\ \A i \in 2..Len(box) : i - 1 \in 1..Len(Tail(box)) /\ Tail(box)[i - 1] = box[i]
         /\ \A i \in 1..Len(Tail(box)) : i + 1 \in 2..Len(box) /\ Tail(box)[i] = box[i + 1]
  OBVIOUS

\* What the first signal announced is listed when it is delivered.
LEMMA CountsDelivered ==
  ASSUME NEW listed, NEW more, NEW box \in Seq(Messages), box # <<>>, NEW found, NEW rest,
         NEW n \in 1..Len(box), listed \subseteq more,
         box[1].signal = "found" => box[1].descriptor.address \in more,
         Counts(listed, box, found, rest, n)
  PROVE  Counts(more, Tail(box), found, rest, n - 1)
<1>1. PICK F \in SUBSET (Endpoints \ rest) :
        Cardinality(F) = found /\ \A e \in F : Announced(listed, box, e, n)
  BY DEF Counts
<1>2. ASSUME NEW e \in F
      PROVE  Announced(more, Tail(box), e, n - 1)
  <2>1. CASE e \in more
    BY <2>1 DEF Announced
  <2>2. CASE e \notin more
    <3>1. PICK m \in 1..n : box[m].signal = "found" /\ box[m].descriptor.address = e
      BY <1>1, <1>2, <2>2 DEF Announced
    <3>2. m # 1 /\ Len(box) \in Nat
      BY <2>2, <3>1
    <3> DEFINE k == m - 1
    <3>3. k \in 1..(n - 1) /\ m \in 2..Len(box)
      BY <3>2
    <3>4. Tail(box)[k] = box[m]
      BY <3>3, TailOfBox
    <3> HIDE DEF k
    <3> QED
      BY <3>1, <3>3, <3>4 DEF Announced
  <2> QED
    BY <2>1, <2>2
<1> QED
  BY <1>1, <1>2 DEF Counts

LEMMA CountsOneMore ==
  ASSUME NEW listed, NEW box, NEW longer, NEW n \in Nat, NEW found \in Nat, NEW rest, NEW e \in rest,
         e \in Endpoints, \A i \in 1..n : longer[i] = box[i],
         longer[n + 1].signal = "found", longer[n + 1].descriptor.address = e,
         Counts(listed, box, found, rest, n)
  PROVE  Counts(listed, longer, found + 1, rest \ {e}, n + 1)
<1>1. PICK F \in SUBSET (Endpoints \ rest) :
        Cardinality(F) = found /\ \A x \in F : Announced(listed, box, x, n)
  BY DEF Counts
<1> DEFINE G == F \cup {e}
<1>2. G \in SUBSET (Endpoints \ (rest \ {e}))
  BY <1>1
<1>3. Cardinality(G) = found + 1
  <2>1. IsFiniteSet(F) /\ e \notin F
    BY <1>1, EndpointsAssumption, FS_Subset DEF EndpointsAssumption
  <2> QED
    BY <1>1, <2>1, FS_AddElement
<1>4. ASSUME NEW x \in G
      PROVE  Announced(listed, longer, x, n + 1)
  <2>1. CASE x = e
    <3>1. n + 1 \in 1..(n + 1)
      OBVIOUS
    <3> QED
      BY <2>1, <3>1 DEF Announced
  <2>2. CASE x \in listed
    BY <2>2 DEF Announced
  <2>3. CASE x # e /\ x \notin listed
    <3>1. PICK m \in 1..n : box[m].signal = "found" /\ box[m].descriptor.address = x
      BY <1>1, <1>4, <2>3 DEF Announced
    <3>2. m \in 1..(n + 1) /\ longer[m] = box[m]
      OBVIOUS
    <3> QED
      BY <3>1, <3>2 DEF Announced
  <2> QED
    BY <2>1, <2>2, <2>3
<1> HIDE DEF G
<1> QED
  BY <1>2, <1>3, <1>4 DEF Counts

LEMMA CountsNone ==
  ASSUME NEW listed, NEW box, NEW rest, NEW n
  PROVE  Counts(listed, box, 0, rest, n)
<1>1. {} \in SUBSET (Endpoints \ rest) /\ Cardinality({}) = 0
  BY FS_EmptySet
<1> QED
  BY <1>1 DEF Counts

LEMMA ToldBox ==
  ASSUME inbox \in Seq(Messages), NEW message \in Messages, Tell(message)
  PROVE  /\ inbox' \in Seq(Messages) /\ Len(inbox') = Len(inbox) + 1 /\ Len(inbox) \in Nat
         /\ inbox'[Len(inbox) + 1] = message
         /\ \A i \in 1..Len(inbox) : inbox'[i] = inbox[i]
         /\ \A i \in 1..Len(inbox') : i \in 1..Len(inbox) \/ i = Len(inbox) + 1
<1> DEFINE r == Append(inbox, message)  n == Len(inbox)
<1>1. /\ r \in Seq(Messages) /\ Len(r) = n + 1 /\ n \in Nat /\ r[n + 1] = message
      /\ \A i \in 1..n : r[i] = inbox[i]
  OBVIOUS
<1>2. inbox' = r
  BY DEF Tell
<1> HIDE DEF r, n
<1>3. \A i \in 1..Len(r) : i \in 1..n \/ i = n + 1
  BY <1>1
<1> QED
  BY <1>1, <1>2, <1>3 DEF n

-----------------------------------------------------------------------------
(* The steps.                                                              *)

LEMMA ListStands ==
  ASSUME TypeInv, UNCHANGED <<dock, known, hidden>>
  PROVE  /\ Sound(List') /\ known' \subseteq Records
         /\ Network \cap Endpoints \subseteq Network' /\ Network' = Network
         /\ RowsFollowBus => RowsFollowBus'
<1>1. UNCHANGED <<instruments, items, known, hidden>>
  BY DEF dock
<1>2. List' = List /\ Network' = Network /\ Addresses(known)' = Addresses(known)
  BY <1>1 DEF List, Network
<1> QED
  BY <1>1, <1>2 DEF TypeInv, RowsFollowBus

\* Whatever step is taken, an endpoint that is listed stays listed.
LEMMA StepLists ==
  ASSUME TypeInv, [Next]_vars
  PROVE  /\ Sound(List') /\ known' \subseteq Records
         /\ Network \cap Endpoints \subseteq Network'
         /\ RowsFollowBus => RowsFollowBus'
<1>1. ASSUME NEW ok \in BOOLEAN, TimerPolls(ok) \/ QueuedRescan(ok)
      PROVE  /\ Sound(List') /\ known' \subseteq Records
             /\ Network \cap Endpoints \subseteq Network'
             /\ RowsFollowBus => RowsFollowBus'
  <2>1. Rescan(ok)
    BY <1>1 DEF TimerPolls, QueuedRescan
  <2> QED
    BY <2>1, RescanLists
<1>2. ASSUME NEW descriptor \in Others, Add(descriptor)
      PROVE  /\ Sound(List') /\ known' \subseteq Records
             /\ Network \cap Endpoints \subseteq Network'
             /\ RowsFollowBus => RowsFollowBus'
  <2>1. descriptor.kind \in Kinds \ {"usbtmc"} /\ descriptor.address \in AllAddresses
    BY OthersAssumption DEF OthersAssumption, Kinds, AllAddresses
  <2>2. Relist(Added(List, descriptor)) /\ UNCHANGED <<known, hidden>>
    BY <1>2 DEF Add, usb
  <2>3. known' \subseteq Records
    BY <2>2 DEF TypeInv
  <2> QED
    BY <2>1, <2>2, <2>3, AddedLists
<1>3. ASSUME Deliver
      PROVE  /\ Sound(List') /\ known' \subseteq Records
             /\ Network \cap Endpoints \subseteq Network'
             /\ RowsFollowBus => RowsFollowBus'
  <2>1. UNCHANGED <<known, hidden>> /\ inbox # <<>>
    BY <1>3 DEF Deliver, usb
  <2>2. known' \subseteq Records
    BY <2>1 DEF TypeInv
  <2>3. CASE Head(inbox).signal = "found"
    <3>1. Head(inbox) \in Messages
      BY <2>1, TailOfBox DEF TypeInv
    <3> DEFINE descriptor == Head(inbox).descriptor
    <3>2. descriptor.kind \in Kinds \ {"usbtmc"} /\ descriptor.address \in AllAddresses
      BY <2>3, <3>1 DEF Messages, Kinds, AllAddresses
    <3>3. Relist(Added(List, descriptor))
      BY <1>3, <2>3 DEF Deliver
    <3> QED
      BY <2>1, <2>2, <3>2, <3>3, AddedLists
  <2>4. CASE Head(inbox).signal # "found"
    <3>1. UNCHANGED <<dock, known, hidden>>
      BY <1>3, <2>1, <2>4 DEF Deliver
    <3> QED
      BY <3>1, ListStands
  <2> QED
    BY <2>3, <2>4
<1>4. ASSUME UNCHANGED <<dock, known, hidden>>
      PROVE  /\ Sound(List') /\ known' \subseteq Records
             /\ Network \cap Endpoints \subseteq Network'
             /\ RowsFollowBus => RowsFollowBus'
  BY <1>4, ListStands
<1>5. PressScan \/ AcceptScan \/ DeclineScan \/ Close \/ TimerDispatches
        => UNCHANGED <<dock, known, hidden>>
  BY DEF PressScan, AcceptScan, DeclineScan, Close, TimerDispatches, usb
<1>6. Worker => UNCHANGED <<dock, known, hidden>>
  BY DEF Worker, ScanBegins, ScanClearsAbort, PoolCleared, SweepDone, ScanFinishes, ThreadEnds,
         ProbeBegins, ProbeEnds, usb
<1>7. Bus => UNCHANGED <<dock, known, hidden>>
  BY DEF Bus, BusChanges
<1>8. UNCHANGED vars => UNCHANGED <<dock, known, hidden>>
  BY DEF vars, usb
<1> QED
  BY <1>1, <1>2, <1>3, <1>4, <1>5, <1>6, <1>7, <1>8 DEF Next

LEMMA StepTypes ==
  ASSUME TypeInv, [Next]_vars
  PROVE  TypeInv'
<1>1. Sound(List') /\ known' \subseteq Records
  BY StepLists
<1>2. bus' \in [Devices -> {"out", "mute", "in"}]
  <2>1. CASE Bus
    <3>1. PICK d \in Devices, state \in {"out", "mute", "in"} : bus' = [bus EXCEPT ![d] = state]
      BY <2>1 DEF Bus, BusChanges
    <3> QED
      BY <3>1 DEF TypeInv
  <2>2. CASE ~Bus
    <3>1. UNCHANGED bus
      BY <2>2 DEF Next, Worker, PressScan, AcceptScan, DeclineScan, Deliver, Close, TimerDispatches,
             TimerPolls, QueuedRescan, Add, ScanBegins, ScanClearsAbort, PoolCleared, SweepDone,
             ScanFinishes, ThreadEnds, ProbeBegins, ProbeEnds, usb, vars
    <3> QED
      BY <3>1 DEF TypeInv
  <2> QED
    BY <2>1, <2>2
<1>3. inbox' \in Seq(Messages)
  <2>0. inbox \in Seq(Messages) /\ sweep \in Sweeps
    BY DEF TypeInv
  <2>1. CASE Deliver
    BY <2>0, <2>1, TailOfBox DEF Deliver
  <2>2. CASE ScanFinishes
    <3>1. [signal |-> "finished", found |-> sweep.found, aborted |-> sweep.aborted] \in Messages
      BY <2>0 DEF Messages, Sweeps
    <3> QED
      BY <2>0, <2>2, <3>1, ToldBox DEF ScanFinishes
  <2>3. ASSUME NEW e \in Endpoints, NEW answered \in BOOLEAN, ProbeEnds(e, answered)
        PROVE  inbox' \in Seq(Messages)
    <3>1. [signal |-> "found", descriptor |-> [kind |-> "tcp", address |-> e]] \in Messages
      BY DEF Messages
    <3> QED
      BY <2>0, <2>3, <3>1, ToldBox DEF ProbeEnds
  <2>4. CASE UNCHANGED inbox
    BY <2>0, <2>4
  <2> QED
    BY <2>1, <2>2, <2>3, <2>4 DEF Next, Worker, Bus, PressScan, AcceptScan, DeclineScan, Close,
       TimerDispatches, TimerPolls, QueuedRescan, Add, ScanBegins, ScanClearsAbort, PoolCleared,
       SweepDone, ThreadEnds, ProbeBegins, BusChanges, lan, vars
<1>4. abort' \in BOOLEAN
  BY DEF TypeInv, Next, Worker, Bus, PressScan, AcceptScan, DeclineScan, Deliver, Close, TimerDispatches,
     TimerPolls, QueuedRescan, Add, ScanBegins, ScanClearsAbort, PoolCleared, SweepDone,
     ScanFinishes, ThreadEnds, ProbeBegins, ProbeEnds, BusChanges, lan, vars
<1>5. sweep' \in Sweeps
  <2>0. sweep \in Sweeps /\ abort \in BOOLEAN
    BY DEF TypeInv
  <2>1. CASE UNCHANGED sweep
    BY <2>0, <2>1
  <2>2. CASE ScanBegins
    BY <2>0, <2>2 DEF ScanBegins, Sweeps
  <2>3. CASE ScanClearsAbort
    BY <2>0, <2>3 DEF ScanClearsAbort, Sweeps
  <2>4. ASSUME NEW e \in Endpoints, ProbeBegins(e)
        PROVE  sweep' \in Sweeps
    <3> DEFINE waiting == sweep.waiting \ {e}
               probing == IF abort THEN sweep.probing ELSE sweep.probing \cup {e}
    <3>1. waiting \in SUBSET Endpoints /\ probing \in SUBSET Endpoints
      BY <2>0 DEF Sweeps
    <3>2. sweep' = [sweep EXCEPT !.waiting = waiting, !.probing = probing]
      BY <2>4 DEF ProbeBegins
    <3> HIDE DEF waiting, probing
    <3> QED
      BY <2>0, <3>1, <3>2 DEF Sweeps
  <2>5. ASSUME NEW e \in Endpoints, NEW answered \in BOOLEAN, ProbeEnds(e, answered)
        PROVE  sweep' \in Sweeps
    <3> DEFINE probing == sweep.probing \ {e}
               found == IF answered THEN sweep.found + 1 ELSE sweep.found
    <3>1. probing \in SUBSET Endpoints /\ found \in Nat
      BY <2>0 DEF Sweeps
    <3>2. sweep' = [sweep EXCEPT !.probing = probing, !.found = found]
      BY <2>5 DEF ProbeEnds
    <3> HIDE DEF probing, found
    <3> QED
      BY <2>0, <3>1, <3>2 DEF Sweeps
  <2>6. CASE PoolCleared \/ SweepDone \/ ScanFinishes
    BY <2>0, <2>6 DEF PoolCleared, SweepDone, ScanFinishes, Sweeps
  <2> QED
    BY <2>1, <2>2, <2>3, <2>4, <2>5, <2>6 DEF Next, Worker, Bus, PressScan, AcceptScan, DeclineScan,
       Deliver, Close, TimerDispatches, TimerPolls, QueuedRescan, Add, ThreadEnds, BusChanges, lan, vars
<1> QED
  BY <1>1, <1>2, <1>3, <1>4, <1>5 DEF TypeInv

\* Steps that neither send nor deliver a signal keep what the signals say.
LEMMA SignalsStand ==
  ASSUME ListInv, [Next]_vars, UNCHANGED inbox,
         sweep'.at = sweep.at \/ sweep'.at # "idle"
  PROVE  InboxInv'
<1>1. Network \cap Endpoints \subseteq Network' /\ Len(inbox) \in Nat
  BY StepLists DEF ListInv, TypeInv
<1>2. ASSUME NEW n \in 1..Len(inbox), inbox[n].signal = "finished"
      PROVE  Counts(Network', inbox, inbox[n].found, {}, n - 1)
  <2>1. Counts(Network, inbox, inbox[n].found, {}, n - 1) /\ n - 1 \in Nat
    BY <1>1, <1>2 DEF ListInv, InboxInv
  <2> QED
    BY <1>1, <2>1, CountsGrow
<1> QED
  BY <1>2 DEF ListInv, InboxInv

LEMMA SweepStands ==
  ASSUME ListInv, [Next]_vars, UNCHANGED inbox,
         sweep'.at # "sweeping" => sweep'.waiting = {} /\ sweep'.probing = {},
         sweep'.waiting \cap sweep'.probing = {},
         sweep'.at \in {"sweeping", "done"} =>
           /\ sweep.at \in {"sweeping", "done"} /\ sweep'.found = sweep.found
           /\ sweep'.waiting \cup sweep'.probing \subseteq sweep.waiting \cup sweep.probing
  PROVE  SweepInv'
<1>1. Network \cap Endpoints \subseteq Network' /\ Len(inbox) \in Nat
  BY StepLists DEF ListInv, TypeInv
<1>2. ASSUME sweep'.at \in {"sweeping", "done"}
      PROVE  Counts(Network', inbox, sweep'.found, sweep'.waiting \cup sweep'.probing, Len(inbox))
  <2>1. Counts(Network, inbox, sweep.found, sweep.waiting \cup sweep.probing, Len(inbox))
    BY <1>2 DEF ListInv, SweepInv
  <2> QED
    BY <1>1, <1>2, <2>1, CountsGrow
<1> QED
  BY <1>2 DEF SweepInv

LEMMA DeliverKeeps ==
  ASSUME ListInv, Deliver
  PROVE  SweepInv' /\ InboxInv'
<1>0. [Next]_vars /\ TypeInv /\ inbox \in Seq(Messages) /\ inbox # <<>> /\ inbox' = Tail(inbox)
      /\ UNCHANGED sweep
  BY DEF Next, ListInv, TypeInv, Deliver
<1> DEFINE box == inbox
<1>1. Network \subseteq Network' /\ (box[1].signal = "found" => box[1].descriptor.address \in Network')
  <2>1. UNCHANGED <<known, hidden>>
    BY DEF Deliver, usb
  <2>2. Head(inbox) = inbox[1] /\ inbox[1] \in Messages
    BY <1>0, TailOfBox
  <2>3. CASE Head(inbox).signal = "found"
    <3> DEFINE descriptor == Head(inbox).descriptor
    <3>1. descriptor.kind \in Kinds \ {"usbtmc"} /\ descriptor.address \in AllAddresses
          /\ descriptor.kind = "tcp"
      BY <2>2, <2>3 DEF Messages, Kinds, AllAddresses
    <3>2. Relist(Added(List, descriptor))
      BY <2>3 DEF Deliver
    <3> QED
      BY <1>0, <2>1, <2>2, <3>1, <3>2, AddedLists
  <2>4. CASE Head(inbox).signal # "found"
    <3>1. UNCHANGED <<dock, known, hidden>>
      BY <2>1, <2>4 DEF Deliver
    <3> QED
      BY <1>0, <2>2, <2>4, <3>1, ListStands
  <2> QED
    BY <2>3, <2>4
<1>2. /\ Len(box) = Len(Tail(box)) + 1 /\ Len(Tail(box)) \in Nat
      /\ \A i \in 2..Len(box) : i - 1 \in 1..Len(Tail(box)) /\ Tail(box)[i - 1] = box[i]
      /\ \A i \in 1..Len(Tail(box)) : i + 1 \in 2..Len(box) /\ Tail(box)[i] = box[i + 1]
  BY <1>0, TailOfBox
<1>3. SweepInv'
  <2>1. ASSUME sweep.at \in {"sweeping", "done"}
        PROVE  Counts(Network', Tail(box), sweep.found, sweep.waiting \cup sweep.probing, Len(Tail(box)))
    <3>1. Counts(Network, box, sweep.found, sweep.waiting \cup sweep.probing, Len(box))
      BY <2>1 DEF ListInv, SweepInv
    <3>2. Len(box) \in 1..Len(box) /\ Len(box) - 1 = Len(Tail(box))
      BY <1>2
    <3>3. Counts(Network', Tail(box), sweep.found, sweep.waiting \cup sweep.probing, Len(box) - 1)
      BY <1>0, <1>1, <3>1, <3>2, CountsDelivered
    <3> QED
      BY <3>2, <3>3
  <2> QED
    BY <1>0, <2>1 DEF SweepInv, ListInv
<1>4. ASSUME NEW n \in 1..Len(Tail(box)), Tail(box)[n].signal = "finished"
      PROVE  Counts(Network', Tail(box), Tail(box)[n].found, {}, n - 1)
  <2>1. n + 1 \in 1..Len(box) /\ box[n + 1] = Tail(box)[n]
    BY <1>2
  <2>2. Counts(Network, box, box[n + 1].found, {}, n)
    <3>1. Counts(Network, box, box[n + 1].found, {}, (n + 1) - 1) /\ (n + 1) - 1 = n
      BY <1>4, <2>1 DEF ListInv, InboxInv
    <3> QED
      BY <3>1
  <2>3. n \in 1..Len(box)
    BY <1>2
  <2> QED
    BY <1>0, <1>1, <2>1, <2>2, <2>3, CountsDelivered
<1>5. ASSUME NEW m \in 1..Len(Tail(box)), Tail(box)[m].signal = "found", sweep.at = "idle"
      PROVE  \E k \in 1..Len(Tail(box)) : k > m /\ Tail(box)[k].signal = "finished"
  <2>1. m + 1 \in 1..Len(box) /\ box[m + 1] = Tail(box)[m]
    BY <1>2
  <2>2. PICK k \in 1..Len(box) : k > m + 1 /\ box[k].signal = "finished"
    BY <1>5, <2>1 DEF ListInv, InboxInv
  <2>3. k \in 2..Len(box) /\ k - 1 > m
    BY <1>2, <2>2
  <2> QED
    BY <1>2, <2>2, <2>3
<1> QED
  BY <1>0, <1>3, <1>4, <1>5 DEF InboxInv

LEMMA ScanBeginsKeeps ==
  ASSUME ListInv, ScanBegins
  PROVE  SweepInv' /\ InboxInv'
<1>0. [Next]_vars /\ sweep \in Sweeps /\ UNCHANGED inbox
  BY DEF Next, Worker, ListInv, TypeInv, ScanBegins
<1>1. CASE UNCHANGED sweep
  BY <1>0, <1>1, SignalsStand, SweepStands DEF ListInv, SweepInv
<1>2. CASE sweep' = [sweep EXCEPT !.at = "clearing"]
  <2>1. sweep.waiting = {} /\ sweep.probing = {}
    BY DEF ScanBegins, ListInv, SweepInv
  <2>2. sweep'.at = "clearing" /\ sweep'.waiting = sweep.waiting /\ sweep'.probing = sweep.probing
    BY <1>0, <1>2 DEF Sweeps
  <2> QED
    BY <1>0, <2>1, <2>2, SignalsStand, SweepStands
<1> QED
  BY <1>1, <1>2 DEF ScanBegins

LEMMA ScanClearsAbortKeeps ==
  ASSUME ListInv, ScanClearsAbort
  PROVE  SweepInv' /\ InboxInv'
<1>0. [Next]_vars /\ sweep \in Sweeps /\ UNCHANGED inbox
  BY DEF Next, Worker, ListInv, TypeInv, ScanClearsAbort
<1>1. sweep.probing = {}
  BY DEF ScanClearsAbort, ListInv, SweepInv
<1>2. sweep'.at = "sweeping" /\ sweep'.probing = sweep.probing /\ sweep'.found = 0
  BY <1>0 DEF ScanClearsAbort, Sweeps
<1>3. Counts(Network', inbox, 0, sweep'.waiting \cup sweep'.probing, Len(inbox))
  BY CountsNone
<1> QED
  BY <1>0, <1>1, <1>2, <1>3, SignalsStand DEF SweepInv

LEMMA PoolKeeps ==
  ASSUME ListInv, PoolCleared \/ SweepDone \/ \E e \in Endpoints : ProbeBegins(e)
  PROVE  SweepInv' /\ InboxInv'
<1>0. [Next]_vars /\ sweep \in Sweeps /\ UNCHANGED inbox
  BY DEF Next, Worker, ListInv, TypeInv, ProbeBegins, PoolCleared, SweepDone
<1>1. sweep.waiting \cap sweep.probing = {}
      /\ (sweep.at # "sweeping" => sweep.waiting = {} /\ sweep.probing = {})
  BY DEF ListInv, SweepInv
<1>2. ASSUME NEW e \in Endpoints, ProbeBegins(e)
      PROVE  SweepInv' /\ InboxInv'
  <2>1. PICK probing \in {sweep.probing, sweep.probing \cup {e}} :
          sweep' = [sweep EXCEPT !.waiting = @ \ {e}, !.probing = probing]
    BY <1>2 DEF ProbeBegins
  <2>2. sweep'.at = sweep.at /\ sweep'.waiting = sweep.waiting \ {e} /\ sweep'.probing = probing
        /\ sweep'.found = sweep.found /\ e \in sweep.waiting
    BY <1>0, <1>2, <2>1 DEF ProbeBegins, Sweeps
  <2>3. sweep.at = "sweeping"
    BY <1>1, <2>2
  <2>4. sweep'.waiting \cap sweep'.probing = {}
        /\ sweep'.waiting \cup sweep'.probing \subseteq sweep.waiting \cup sweep.probing
    BY <1>1, <2>2
  <2> QED
    BY <1>0, <2>2, <2>3, <2>4, SignalsStand, SweepStands
<1>3. CASE PoolCleared
  <2>1. sweep'.at = sweep.at /\ sweep'.waiting = {} /\ sweep'.probing = sweep.probing
        /\ sweep'.found = sweep.found /\ sweep.at = "sweeping"
    BY <1>0, <1>3 DEF PoolCleared, Sweeps
  <2> QED
    BY <1>0, <2>1, SignalsStand, SweepStands
<1>4. CASE SweepDone
  <2>1. sweep'.at = "done" /\ sweep'.waiting = sweep.waiting /\ sweep'.probing = sweep.probing
        /\ sweep'.found = sweep.found /\ sweep.at = "sweeping"
        /\ sweep.waiting = {} /\ sweep.probing = {}
    BY <1>0, <1>4 DEF SweepDone, PoolDone, Sweeps
  <2> QED
    BY <1>0, <2>1, SignalsStand, SweepStands
<1> QED
  BY <1>2, <1>3, <1>4

\* The answer is announced in the step that counts it.
LEMMA ProbeEndsKeeps ==
  ASSUME ListInv, NEW e \in Endpoints, NEW answered \in BOOLEAN, ProbeEnds(e, answered)
  PROVE  SweepInv' /\ InboxInv'
<1>0. [Next]_vars /\ sweep \in Sweeps /\ TypeInv /\ inbox \in Seq(Messages) /\ e \in sweep.probing
  BY DEF Next, Worker, ListInv, TypeInv, ProbeEnds
<1>1. sweep.at = "sweeping" /\ sweep.waiting \cap sweep.probing = {}
  BY <1>0 DEF ListInv, SweepInv
<1>2. sweep'.at = "sweeping" /\ sweep'.waiting = sweep.waiting /\ sweep'.probing = sweep.probing \ {e}
      /\ sweep'.found = IF answered THEN sweep.found + 1 ELSE sweep.found
  BY <1>0, <1>1 DEF ProbeEnds, Sweeps
<1>3. CASE ~answered
  <2>1. UNCHANGED inbox /\ sweep'.found = sweep.found
    BY <1>2, <1>3 DEF ProbeEnds
  <2> QED
    BY <1>0, <1>1, <1>2, <2>1, SignalsStand, SweepStands
<1>4. CASE answered
  <2> DEFINE message == [signal |-> "found", descriptor |-> [kind |-> "tcp", address |-> e]]
  <2>1. message \in Messages /\ Tell(message) /\ message.signal = "found"
        /\ message.descriptor.address = e
    BY <1>4 DEF ProbeEnds, Messages
  <2> HIDE DEF message
  <2>2. /\ Len(inbox') = Len(inbox) + 1 /\ Len(inbox) \in Nat
        /\ inbox'[Len(inbox) + 1] = message
        /\ \A i \in 1..Len(inbox) : inbox'[i] = inbox[i]
        /\ \A i \in 1..Len(inbox') : i \in 1..Len(inbox) \/ i = Len(inbox) + 1
    BY <1>0, <2>1, ToldBox
  <2>3. Network' = Network
    <3>1. UNCHANGED <<dock, known, hidden>>
      BY DEF ProbeEnds, usb
    <3> QED
      BY <1>0, <3>1, ListStands
  <2>4. Counts(Network', inbox', sweep'.found, sweep'.waiting \cup sweep'.probing, Len(inbox'))
    <3> DEFINE rest == sweep.waiting \cup sweep.probing
    <3>1. Counts(Network, inbox, sweep.found, rest, Len(inbox)) /\ sweep.found \in Nat
      BY <1>0, <1>1 DEF ListInv, SweepInv, Sweeps
    <3>2. e \in rest /\ sweep'.waiting \cup sweep'.probing = rest \ {e} /\ sweep'.found = sweep.found + 1
      BY <1>0, <1>1, <1>2, <1>4
    <3> HIDE DEF rest
    <3>3. inbox'[Len(inbox) + 1].signal = "found"
          /\ inbox'[Len(inbox) + 1].descriptor.address = e
      BY <2>1, <2>2
    <3>4. Counts(Network, inbox', sweep.found + 1, rest \ {e}, Len(inbox) + 1)
      BY <2>2, <3>1, <3>2, <3>3, CountsOneMore
    <3> QED
      BY <2>2, <2>3, <3>2, <3>4
  <2>5. ASSUME NEW n \in 1..Len(inbox'), inbox'[n].signal = "finished"
        PROVE  Counts(Network', inbox', inbox'[n].found, {}, n - 1)
    <3>1. n \in 1..Len(inbox) /\ inbox'[n] = inbox[n]
      BY <2>1, <2>2, <2>5
    <3>2. Counts(Network, inbox, inbox[n].found, {}, n - 1) /\ n - 1 \in Nat
      BY <2>2, <2>5, <3>1 DEF ListInv, InboxInv
    <3>3. \A i \in 1..(n - 1) : inbox'[i] = inbox[i]
      BY <2>2, <3>1
    <3>4. Network \cap Endpoints \subseteq Network'
      BY <2>3
    <3>5. Counts(Network', inbox', inbox[n].found, {}, n - 1)
      BY <3>2, <3>3, <3>4, CountsGrow
    <3> QED
      BY <3>1, <3>5
  <2> QED
    BY <1>1, <1>2, <2>4, <2>5 DEF SweepInv, InboxInv
<1> QED
  BY <1>3, <1>4

\* The end of a sweep carries the count, after every signal it counts.
LEMMA ScanFinishesKeeps ==
  ASSUME ListInv, ScanFinishes
  PROVE  SweepInv' /\ InboxInv'
<1>0. [Next]_vars /\ sweep \in Sweeps /\ TypeInv /\ inbox \in Seq(Messages) /\ sweep.at = "done"
  BY DEF Next, Worker, ListInv, TypeInv, ScanFinishes
<1> DEFINE message == [signal |-> "finished", found |-> sweep.found, aborted |-> sweep.aborted]
<1>1. message \in Messages /\ Tell(message) /\ message.signal = "finished" /\ message.found = sweep.found
  BY <1>0 DEF ScanFinishes, Messages, Sweeps
<1> HIDE DEF message
<1>2. /\ Len(inbox') = Len(inbox) + 1 /\ Len(inbox) \in Nat
      /\ inbox'[Len(inbox) + 1] = message
      /\ \A i \in 1..Len(inbox) : inbox'[i] = inbox[i]
      /\ \A i \in 1..Len(inbox') : i \in 1..Len(inbox) \/ i = Len(inbox) + 1
  BY <1>0, <1>1, ToldBox
<1>3. Network' = Network
  <2>1. UNCHANGED <<dock, known, hidden>>
    BY DEF ScanFinishes, usb
  <2> QED
    BY <1>0, <2>1, ListStands
<1>4. sweep'.at = "idle" /\ sweep'.waiting = {} /\ sweep'.probing = {}
  <2>1. sweep.waiting = {} /\ sweep.probing = {}
    BY <1>0 DEF ListInv, SweepInv
  <2> QED
    BY <1>0, <2>1 DEF ScanFinishes, Sweeps
<1>5. ASSUME NEW n \in 1..Len(inbox'), inbox'[n].signal = "finished"
      PROVE  Counts(Network', inbox', inbox'[n].found, {}, n - 1)
  <2>0. Network \cap Endpoints \subseteq Network'
    BY <1>3
  <2>1. CASE n \in 1..Len(inbox)
    <3>1. inbox'[n] = inbox[n]
      BY <1>2, <2>1
    <3>2. Counts(Network, inbox, inbox[n].found, {}, n - 1) /\ n - 1 \in Nat
      BY <1>2, <1>5, <2>1, <3>1 DEF ListInv, InboxInv
    <3>3. \A i \in 1..(n - 1) : inbox'[i] = inbox[i]
      BY <1>2, <2>1
    <3>4. Counts(Network', inbox', inbox[n].found, {}, n - 1)
      BY <2>0, <3>2, <3>3, CountsGrow
    <3> QED
      BY <3>1, <3>4
  <2>2. CASE n = Len(inbox) + 1
    <3>1. Counts(Network, inbox, sweep.found, sweep.waiting \cup sweep.probing, Len(inbox))
      BY <1>0 DEF ListInv, SweepInv
    <3>2. Counts(Network', inbox', sweep.found, {}, Len(inbox))
      BY <1>2, <2>0, <3>1, CountsGrow
    <3>3. n - 1 = Len(inbox) /\ inbox'[n].found = sweep.found
      BY <1>1, <1>2, <2>2
    <3> QED
      BY <3>2, <3>3
  <2> QED
    BY <1>2, <2>1, <2>2
<1>6. \A m \in 1..Len(inbox') : inbox'[m].signal = "found" =>
        \E k \in 1..Len(inbox') : k > m /\ inbox'[k].signal = "finished"
  BY <1>1, <1>2
<1> QED
  BY <1>4, <1>5, <1>6 DEF SweepInv, InboxInv

LEMMA StepCounts ==
  ASSUME ListInv, [Next]_vars
  PROVE  SweepInv' /\ InboxInv'
<1>1. CASE UNCHANGED <<inbox, sweep>>
  BY <1>1, SignalsStand, SweepStands DEF ListInv, SweepInv
<1>2. CASE ~UNCHANGED <<inbox, sweep>>
  <2>1. \/ Deliver \/ ScanBegins \/ ScanClearsAbort \/ PoolCleared \/ SweepDone \/ ScanFinishes
        \/ \E e \in Endpoints : ProbeBegins(e) \/ \E answered \in BOOLEAN : ProbeEnds(e, answered)
    BY <1>2 DEF Next, Worker, Bus, PressScan, AcceptScan, DeclineScan, Close, TimerDispatches,
       TimerPolls, QueuedRescan, Add, ThreadEnds, BusChanges, lan, vars
  <2>2. CASE \E e \in Endpoints : ProbeBegins(e)
    BY <2>2, PoolKeeps
  <2>3. CASE \E e \in Endpoints, answered \in BOOLEAN : ProbeEnds(e, answered)
    BY <2>3, ProbeEndsKeeps
  <2> QED
    BY <2>1, <2>2, <2>3, DeliverKeeps, ScanBeginsKeeps, ScanClearsAbortKeeps, PoolKeeps, ScanFinishesKeeps
<1> QED
  BY <1>1, <1>2

LEMMA InitList ==
  ASSUME Init
  PROVE  ListInv
<1> DEFINE none == [instruments |-> <<>>, items |-> {}]
<1>1. Sound(none) /\ \A c : Listed(none, c) = {}
  <2>1. IsFiniteSet({}) /\ <<>> \in Seq(Descriptors)
    BY FS_EmptySet
  <2> QED
    BY <2>1 DEF Sound, Listed
<1>2. PICK listed \in BOOLEAN :
        LET now == IF listed THEN Enumerated ELSE {}
            list == Added(Published(none, {}, now), [kind |-> "simulated", address |-> "simulated"])
        IN  known = now /\ instruments = list.instruments /\ items = list.items
  BY DEF Init
<1> DEFINE now == IF listed THEN Enumerated ELSE {}
           devices == Addresses(now)
           watched == AddedAll(none, "usbtmc", devices)
           kept == Removed(watched, {})
           list == AddedAll(kept, "simulated", {"simulated"})
<1>3. known = now /\ instruments = list.instruments /\ items = list.items
  <2>1. now \ {} = now /\ Addresses({} \ now) = {}
    BY DEF Addresses
  <2>2. Published(none, {}, now) = kept
    BY <2>1 DEF Published
  <2> QED
    BY <1>2, <2>2 DEF Added
<1>4. now \in SUBSET Enumerated /\ now \subseteq Records
  BY EnumeratedIs
<1> HIDE DEF none, now
<1>5. devices \subseteq UsbAddresses /\ IsFiniteSet(devices)
  BY <1>4, EnumeratedIs
<1>6. devices \in SUBSET AllAddresses /\ "usbtmc" \in Kinds /\ "simulated" \in Kinds
      /\ {"simulated"} \in SUBSET AllAddresses /\ IsFiniteSet({"simulated"})
  BY <1>5, Apart, FS_Singleton DEF Kinds, AllAddresses
<1>7. CategoryOf("usbtmc") = "usbtmc" /\ CategoryOf("simulated") = "simulated"
  BY DEF CategoryOf
<1> HIDE DEF devices
<1>8. Sound(watched) /\ Listed(watched, "usbtmc") = devices
  <2>1. Sound(watched) /\ Listed(watched, "usbtmc") = Listed(none, "usbtmc") \cup devices
    BY <1>1, <1>5, <1>6, <1>7, AddedIsSound
  <2> QED
    BY <1>1, <2>1
<1> HIDE DEF watched
<1>9. Sound(kept) /\ Listed(kept, "usbtmc") = devices
  <2>1. Sound(kept) /\ Listed(kept, "usbtmc") = Listed(watched, "usbtmc") \ {}
    BY <1>8, RemovedIsSound
  <2> QED
    BY <1>8, <2>1
<1> HIDE DEF kept
<1>10. Sound(list) /\ Listed(list, "usbtmc") = devices
  BY <1>6, <1>7, <1>9, AddedIsSound
<1> HIDE DEF list
<1>11. List = list
  BY <1>3, <1>10 DEF Sound, List
<1>12. TypeInv
  <2>1. bus \in [Devices -> {"out", "mute", "in"}]
    BY DevicesAssumption DEF Init, DevicesAssumption
  <2>2. inbox = <<>> /\ sweep \in Sweeps /\ abort \in BOOLEAN
    BY DEF Init, Sweeps
  <2>3. inbox \in Seq(Messages)
    BY <2>2
  <2> QED
    BY <1>3, <1>4, <1>10, <1>11, <2>1, <2>2, <2>3 DEF TypeInv
<1>13. RowsFollowBus
  BY <1>3, <1>10, <1>11 DEF Init, RowsFollowBus, devices
<1>14. SweepInv /\ InboxInv
  BY DEF Init, SweepInv, InboxInv
<1> QED
  BY <1>12, <1>13, <1>14 DEF ListInv

-----------------------------------------------------------------------------
(* The theorems.                                                           *)

\* In every reachable state each row numbers an instrument of its address and category,
\* the rows of USB devices are those last listed, and whatever the sweep has counted is
\* listed or announced by a signal on its way before the one that carries the count.
THEOREM Invariant == Spec => []ListInv
<1>1. Init => ListInv
  BY InitList
<1>2. ListInv /\ [Next]_vars => ListInv'
  <2> SUFFICES ASSUME ListInv, [Next]_vars
               PROVE  ListInv'
    OBVIOUS
  <2>1. TypeInv'
    BY StepTypes DEF ListInv
  <2>2. RowsFollowBus'
    BY StepLists DEF ListInv
  <2>3. SweepInv' /\ InboxInv'
    BY StepCounts
  <2> QED
    BY <2>1, <2>2, <2>3 DEF ListInv
<1> QED
  BY <1>1, <1>2, PTL DEF Spec

\* Whatever comes and goes while a row is selected, the instrument that is connected is
\* the one the row shows (addInstrument, removeInstrument, connectSelected).
THEOREM SelectedConnected == Spec => []SelectedIsConnected
<1>1. ListInv => SelectedIsConnected
  <2> SUFFICES ASSUME ListInv, NEW item \in items
               PROVE  /\ item.index \in DOMAIN instruments
                      /\ ConnectSelected(item).address = item.address
                      /\ CategoryOf(ConnectSelected(item).kind) = item.category
    BY DEF SelectedIsConnected
  <2>1. Sound(List) /\ List.instruments = instruments /\ List.items = items
    BY DEF ListInv, TypeInv, List
  <2>2. DOMAIN instruments = 1..Len(instruments)
    BY <2>1 DEF Sound
  <2> QED
    BY <2>1, <2>2 DEF Sound, ConnectSelected
<1> QED
  BY <1>1, Invariant, PTL

\* After every listing of the bus the rows of USB devices are the devices it found, but
\* for those a publication struck although they are there (UsbDiscoveryWorker::publish).
THEOREM RowsOfBus == Spec => []RowsFollowBus
<1>1. ListInv => RowsFollowBus
  BY DEF ListInv
<1> QED
  BY <1>1, Invariant, PTL

LEMMA ImageCount ==
  ASSUME NEW S, IsFiniteSet(S), NEW T, NEW f \in [S -> T], \A t \in T : \E s \in S : f[s] = t
  PROVE  IsFiniteSet(T) /\ Cardinality(T) \in Nat /\ Cardinality(S) \in Nat
         /\ Cardinality(T) <= Cardinality(S)
<1>1. f \in Surjection(S, T)
  BY Fun_IsSurj
<1> QED
  BY <1>1, FS_Surjection, FS_CardinalityType

\* When the sweep reports its end, every instrument it counts is listed or announced by a
\* signal delivered before, and none it found is still to come unannounced: scan() waits
\* for the pool before it emits scanFinished, on the queued connection of the others.
THEOREM FoundFirst == Spec => []FoundBeforeFinished
<1>1. ListInv => FoundBeforeFinished
  <2> SUFFICES ASSUME ListInv
               PROVE  FoundBeforeFinished
    OBVIOUS
  <2>0. DOMAIN inbox = 1..Len(inbox) /\ Len(inbox) \in Nat
    BY DEF ListInv, TypeInv
  <2>1. ASSUME NEW n \in 1..Len(inbox), inbox[n].signal = "finished"
        PROVE  inbox[n].found <= Cardinality({i \in items : i.category = "network"})
                 + Cardinality({m \in 1..(n - 1) : inbox[m].signal = "found"})
    <3> DEFINE R == {i \in items : i.category = "network"}
               M == {m \in 1..(n - 1) : inbox[m].signal = "found"}
               B == {inbox[m].descriptor.address : m \in M}
    <3>1. PICK F \in SUBSET Endpoints :
            /\ Cardinality(F) = inbox[n].found
            /\ \A e \in F : Announced(Network, inbox, e, n - 1)
      BY <2>1 DEF ListInv, InboxInv, Counts
    <3>2. F \subseteq Network \cup B
      BY <3>1 DEF Announced
    <3>3. IsFiniteSet(Network) /\ Cardinality(Network) \in Nat /\ Cardinality(R) \in Nat
          /\ Cardinality(Network) <= Cardinality(R)
      <4> DEFINE f == [i \in R |-> i.address]
      <4>1. IsFiniteSet(R)
        <5>1. IsFiniteSet(items)
          BY DEF ListInv, TypeInv, Sound, List
        <5> QED
          BY <5>1, FS_Subset
      <4>2. f \in [R -> Network] /\ \A t \in Network : \E i \in R : f[i] = t
        BY DEF Network, Listed, List
      <4> HIDE DEF f, R
      <4> QED
        BY <4>1, <4>2, ImageCount
    <3>4. IsFiniteSet(B) /\ Cardinality(B) \in Nat /\ Cardinality(M) \in Nat
          /\ Cardinality(B) <= Cardinality(M)
      <4> DEFINE f == [m \in M |-> inbox[m].descriptor.address]
      <4>1. IsFiniteSet(M)
        <5>1. n - 1 \in Int /\ 1 \in Int
          BY <2>0
        <5>2. IsFiniteSet(1..(n - 1))
          BY <5>1, FS_Interval
        <5> QED
          BY <5>2, FS_Subset
      <4>2. f \in [M -> B] /\ \A t \in B : \E m \in M : f[m] = t
        OBVIOUS
      <4> HIDE DEF f, M, B
      <4> QED
        BY <4>1, <4>2, ImageCount
    <3> HIDE DEF R, M, B
    <3> DEFINE A == Network
    <3>5. IsFiniteSet(A \cup B) /\ Cardinality(A \cup B) <= Cardinality(A) + Cardinality(B)
          /\ Cardinality(A \cup B) \in Nat
      <4>1. IsFiniteSet(A \cup B)
            /\ Cardinality(A \cup B) = Cardinality(A) + Cardinality(B) - Cardinality(A \cap B)
        BY <3>3, <3>4, FS_Union
      <4>2. IsFiniteSet(A \cap B)
        BY <3>3, FS_Subset
      <4>3. Cardinality(A \cap B) \in Nat /\ Cardinality(A \cup B) \in Nat
        BY <4>1, <4>2, FS_CardinalityType
      <4> QED
        BY <3>3, <3>4, <4>1, <4>3
    <3>6. Cardinality(F) <= Cardinality(A \cup B) /\ Cardinality(F) \in Nat
      <4>1. IsFiniteSet(F) /\ Cardinality(F) <= Cardinality(A \cup B)
        BY <3>2, <3>5, FS_Subset
      <4> QED
        BY <4>1, FS_CardinalityType
    <3>7. Cardinality(F) <= Cardinality(R) + Cardinality(M)
      BY <3>3, <3>4, <3>5, <3>6
    <3> QED
      BY <3>1, <3>7 DEF R, M
  <2>2. \A m \in 1..Len(inbox) : inbox[m].signal = "found" =>
          sweep.at # "idle" \/ \E k \in 1..Len(inbox) : k > m /\ inbox[k].signal = "finished"
    BY DEF ListInv, InboxInv
  <2> QED
    BY <2>0, <2>1, <2>2 DEF FoundBeforeFinished
<1> QED
  BY <1>1, Invariant, PTL

=============================================================================
