--------------------------- MODULE GiaSpaceProofs ---------------------------
(***************************************************************************)
(* Every command of the &-space leaves each AIG with one owner and each    *)
(* vector of names with one AIG, for any designs, sizes and addresses, and *)
(* to the user the AIGs are values.                                        *)
(***************************************************************************)
EXTENDS GiaSpace, TLAPS

\* A heap in which every vector of names has exactly one AIG.
Heap(h) ==
    /\ h = [gia |-> h.gia, names |-> h.names]
    /\ h.gia \in [DOMAIN h.gia -> Gia]
    /\ h.names \in [DOMAIN h.names -> Designs]
    /\ DOMAIN h.gia \subseteq Gias /\ DOMAIN h.names \subseteq Vecs
    /\ \A g \in DOMAIN h.gia : h.gia[g].vNames \in DOMAIN h.names \cup {NULL}
    /\ \A g, k \in DOMAIN h.gia : h.gia[g].vNames = h.gia[k].vNames => g = k \/ h.gia[g].vNames = NULL
    /\ \A v \in DOMAIN h.names : \E g \in DOMAIN h.gia : h.gia[g].vNames = v

\* Two heaps agree on an AIG but for the names.
SameLogic(h, h2, g) == Logic(h2.gia[g]) = Logic(h.gia[g])

HeapOf(h, gias, names) == h = [gia |-> gias, names |-> names]

LEMMA AddressesNotNull == NULL \notin Gias /\ NULL \notin Vecs
BY GiaAssumption

\* Stopping an AIG frees it and its names, and leaves the others.
LEMMA StoppedHeap ==
  ASSUME NEW h, Heap(h), NEW g \in DOMAIN h.gia \cup {NULL}
  PROVE  /\ Heap(Stopped(h, g))
         /\ DOMAIN Stopped(h, g).gia = DOMAIN h.gia \ {g}
         /\ \A x \in DOMAIN h.gia \ {g} : SameLogic(h, Stopped(h, g), x)
<1>1. CASE g = NULL
  <2>1. g \notin DOMAIN h.gia
    BY <1>1, AddressesNotNull DEF Heap
  <2> QED BY <1>1, <2>1 DEF Stopped, SameLogic
<1>2. CASE g # NULL
  <2> DEFINE q == [gia |-> Remove(h.gia, g), names |-> Remove(h.names, h.gia[g].vNames)]
  <2>1. Stopped(h, g) = q /\ g \in DOMAIN h.gia
    BY <1>2 DEF Stopped
  <2>2. /\ DOMAIN q.gia = DOMAIN h.gia \ {g} /\ DOMAIN q.names = DOMAIN h.names \ {h.gia[g].vNames}
        /\ \A x \in DOMAIN q.gia : q.gia[x] = h.gia[x]
        /\ \A x \in DOMAIN q.names : q.names[x] = h.names[x]
    BY DEF Remove
  <2>3. q.gia \in [DOMAIN q.gia -> Gia] /\ q.names \in [DOMAIN q.names -> Designs]
    BY <2>2 DEF Heap, Remove
  <2>4. DOMAIN h.gia \subseteq Gias /\ DOMAIN h.names \subseteq Vecs
    BY DEF Heap
  <2>5. \A x \in DOMAIN q.gia : q.gia[x].vNames \in DOMAIN q.names \cup {NULL}
    BY <2>1, <2>2, <2>4, AddressesNotNull DEF Heap
  <2>6. \A x, y \in DOMAIN q.gia : q.gia[x].vNames = q.gia[y].vNames => x = y \/ q.gia[x].vNames = NULL
    BY <2>2 DEF Heap
  <2>7. \A v \in DOMAIN q.names : \E x \in DOMAIN q.gia : q.gia[x].vNames = v
    BY <2>1, <2>2 DEF Heap
  <2>8. q = [gia |-> q.gia, names |-> q.names]
    OBVIOUS
  <2>9. Heap(q)
    BY <2>2, <2>3, <2>4, <2>5, <2>6, <2>7, <2>8 DEF Heap
  <2> QED BY <2>1, <2>2, <2>9 DEF SameLogic
<1> QED BY <1>1, <1>2

\* A new AIG without names.
LEMMA AddedHeap ==
  ASSUME NEW h, Heap(h), NEW new \in Gias \ DOMAIN h.gia,
         NEW a \in Gia, a.vNames = NULL,
         NEW q, HeapOf(q, Add(h.gia, new, a), h.names)
  PROVE  /\ Heap(q)
         /\ DOMAIN q.gia = DOMAIN h.gia \cup {new}
         /\ q.gia[new] = a
         /\ \A x \in DOMAIN h.gia : q.gia[x] = h.gia[x]
<1>1. q = [gia |-> Add(h.gia, new, a), names |-> h.names]
  BY DEF HeapOf
<1>2. /\ DOMAIN q.gia = DOMAIN h.gia \cup {new} /\ q.gia[new] = a /\ q.names = h.names
      /\ \A x \in DOMAIN h.gia : q.gia[x] = h.gia[x]
  BY <1>1 DEF Add
<1>3. q.gia \in [DOMAIN q.gia -> Gia]
  BY <1>1, <1>2 DEF Heap, Add
<1>4. \A x \in DOMAIN q.gia : q.gia[x].vNames \in DOMAIN q.names \cup {NULL}
  BY <1>2 DEF Heap
<1>5. \A x, y \in DOMAIN q.gia : q.gia[x].vNames = q.gia[y].vNames => x = y \/ q.gia[x].vNames = NULL
  BY <1>2 DEF Heap
<1>6. \A v \in DOMAIN q.names : \E x \in DOMAIN q.gia : q.gia[x].vNames = v
  BY <1>2 DEF Heap
<1>7. Heap(q)
  BY <1>1, <1>2, <1>3, <1>4, <1>5, <1>6 DEF Heap
<1> QED BY <1>2, <1>7

\* A new AIG with names of its own.
LEMMA AddedNamedHeap ==
  ASSUME NEW h, Heap(h), NEW new \in Gias \ DOMAIN h.gia, NEW v \in Vecs \ DOMAIN h.names,
         NEW d \in Designs, NEW a \in Gia, a.vNames = v,
         NEW q, HeapOf(q, Add(h.gia, new, a), Add(h.names, v, d))
  PROVE  /\ Heap(q)
         /\ DOMAIN q.gia = DOMAIN h.gia \cup {new}
         /\ q.gia[new] = a
         /\ \A x \in DOMAIN h.gia : q.gia[x] = h.gia[x]
<1>1. /\ DOMAIN q.gia = DOMAIN h.gia \cup {new} /\ q.gia[new] = a
      /\ DOMAIN q.names = DOMAIN h.names \cup {v}
      /\ \A x \in DOMAIN h.gia : q.gia[x] = h.gia[x]
  BY DEF Add, HeapOf
<1>2. q.gia \in [DOMAIN q.gia -> Gia] /\ q.names \in [DOMAIN q.names -> Designs]
  BY <1>1 DEF Heap, HeapOf, Add
<1>3. \A x \in DOMAIN q.gia : q.gia[x].vNames \in DOMAIN q.names \cup {NULL}
  BY <1>1 DEF Heap
<1>4. \A x, y \in DOMAIN q.gia : q.gia[x].vNames = q.gia[y].vNames => x = y \/ q.gia[x].vNames = NULL
  BY <1>1, AddressesNotNull DEF Heap
<1>5. \A w \in DOMAIN q.names : \E x \in DOMAIN q.gia : q.gia[x].vNames = w
  BY <1>1 DEF Heap
<1>6. Heap(q)
  BY <1>1, <1>2, <1>3, <1>4, <1>5 DEF Heap, HeapOf
<1> QED BY <1>1, <1>6

\* The names that move have one AIG before and after.
LEMMA MovedHeap ==
  ASSUME NEW h, Heap(h), NEW new \in DOMAIN h.gia, NEW old \in DOMAIN h.gia \cup {NULL}, old # new
  PROVE  /\ Heap(NamesMoved(h, old, new))
         /\ DOMAIN NamesMoved(h, old, new).gia = DOMAIN h.gia
         /\ \A x \in DOMAIN h.gia : SameLogic(h, NamesMoved(h, old, new), x)
<1> DEFINE q == NamesMoved(h, old, new)
<1>1. CASE q = h
  BY <1>1 DEF SameLogic
<1>2. CASE q # h
  <2>1. old \in DOMAIN h.gia /\ h.gia[old].vNames # NULL /\ h.gia[new].vNames = NULL
    BY <1>2 DEF NamesMoved
  <2>2. q = [gia |-> [h.gia EXCEPT ![new] = [@ EXCEPT !.vNames = h.gia[old].vNames],
                                   ![old] = [@ EXCEPT !.vNames = NULL]],
             names |-> h.names]
    BY <1>2, <2>1 DEF NamesMoved, Heap
  <2> HIDE DEF q
  <2>3. h.gia[old] \in Gia /\ h.gia[new] \in Gia
    BY <2>1 DEF Heap
  <2>4. /\ DOMAIN q.gia = DOMAIN h.gia /\ q.names = h.names
        /\ q.gia[new] = [h.gia[new] EXCEPT !.vNames = h.gia[old].vNames]
        /\ q.gia[old] = [h.gia[old] EXCEPT !.vNames = NULL]
        /\ \A x \in DOMAIN h.gia \ {old, new} : q.gia[x] = h.gia[x]
    BY <2>1, <2>2 DEF Heap
  <2>5. q.gia[new].vNames = h.gia[old].vNames /\ q.gia[old].vNames = NULL
    BY <2>3, <2>4 DEF Gia
  <2>6. q.gia[new] \in Gia /\ q.gia[old] \in Gia
    BY <2>3, <2>4 DEF Gia
  <2>7. q.gia \in [DOMAIN q.gia -> Gia]
    <3>1. \A x \in DOMAIN q.gia : q.gia[x] \in Gia
      BY <2>4, <2>6 DEF Heap
    <3> QED BY <2>2, <3>1
  <2>8. \A x \in DOMAIN q.gia : q.gia[x].vNames \in DOMAIN q.names \cup {NULL}
    BY <2>1, <2>4, <2>5 DEF Heap
  <2>9. \A x, y \in DOMAIN q.gia : q.gia[x].vNames = q.gia[y].vNames => x = y \/ q.gia[x].vNames = NULL
    <3> SUFFICES ASSUME NEW x \in DOMAIN h.gia, NEW y \in DOMAIN h.gia,
                        q.gia[x].vNames = q.gia[y].vNames, x # y
                 PROVE  q.gia[x].vNames = NULL
      BY <2>4
    <3>1. CASE old \in {x, y}
      BY <2>5, <3>1
    <3>2. CASE old \notin {x, y} /\ new \in {x, y}
      <4>1. \A z \in DOMAIN h.gia \ {old} : h.gia[z].vNames # h.gia[old].vNames
        BY <2>1 DEF Heap
      <4>2. CASE x = new
        <5>1. q.gia[y] = h.gia[y] /\ y \in DOMAIN h.gia \ {old}
          BY <2>4, <3>2, <4>2
        <5>2. h.gia[y].vNames = h.gia[old].vNames
          BY <2>5, <4>2, <5>1
        <5> QED BY <4>1, <5>1, <5>2
      <4>3. CASE y = new
        <5>1. q.gia[x] = h.gia[x] /\ x \in DOMAIN h.gia \ {old}
          BY <2>4, <3>2, <4>3
        <5>2. h.gia[x].vNames = h.gia[old].vNames
          BY <2>5, <4>3, <5>1
        <5> QED BY <4>1, <5>1, <5>2
      <4> QED BY <3>2, <4>2, <4>3
    <3>3. CASE old \notin {x, y} /\ new \notin {x, y}
      BY <2>4, <3>3 DEF Heap
    <3> QED BY <3>1, <3>2, <3>3
  <2>10. \A v \in DOMAIN q.names : \E x \in DOMAIN q.gia : q.gia[x].vNames = v
    <3> SUFFICES ASSUME NEW v \in DOMAIN h.names
                 PROVE  \E x \in DOMAIN q.gia : q.gia[x].vNames = v
      BY <2>4
    <3>1. PICK x \in DOMAIN h.gia : h.gia[x].vNames = v
      BY DEF Heap
    <3>2. v # NULL
      BY AddressesNotNull DEF Heap
    <3> QED BY <2>1, <2>4, <2>5, <3>1, <3>2
  <2>11. Heap(q)
    BY <2>2, <2>4, <2>7, <2>8, <2>9, <2>10 DEF Heap
  <2>12. \A x \in DOMAIN h.gia : SameLogic(h, q, x)
    BY <2>3, <2>4 DEF SameLogic, Logic, Gia
  <2> QED BY <2>4, <2>11, <2>12 DEF q
<1> QED BY <1>1, <1>2

LEMMA DupedHeap ==
  ASSUME NEW h, Heap(h), NEW new \in Gias \ DOMAIN h.gia, NEW g \in DOMAIN h.gia
  PROVE  /\ Heap(Duped(h, g, new))
         /\ DOMAIN Duped(h, g, new).gia = DOMAIN h.gia \cup {new}
         /\ Logic(Duped(h, g, new).gia[new]) = Logic(h.gia[g])
         /\ \A x \in DOMAIN h.gia : SameLogic(h, Duped(h, g, new), x)
<1>1. h.gia[g] \in Gia
  BY DEF Heap
<1> DEFINE a == [h.gia[g] EXCEPT !.vNames = NULL]
<1>2. a \in Gia /\ a.vNames = NULL /\ Logic(a) = Logic(h.gia[g])
  BY <1>1 DEF Gia, Logic
<1>3. HeapOf(Duped(h, g, new), Add(h.gia, new, a), h.names)
  BY DEF Duped, Heap, HeapOf
<1> HIDE DEF a
<1> QED BY <1>2, <1>3, AddedHeap DEF SameLogic

-----------------------------------------------------------------------------
(* The pointers *)

Pointers(h, s) ==
    /\ s \in [Slots -> DOMAIN h.gia \cup {NULL}]
    /\ \A k, l \in Slots : s[k] = s[l] => k = l \/ s[k] = NULL
    /\ \A g \in DOMAIN h.gia : \E k \in Slots : s[k] = g

\* Every AIG of a well-formed heap is held by one pointer.
Held(h, s) == Heap(h) /\ Pointers(h, s)

\* s2 is s but for some pointers.
Except(s, s2, K) == s2 \in [Slots -> Gias \cup {NULL}] /\ \A j \in Slots \ K : s2[j] = s[j]

ValueIn(h, s, k) == IF s[k] = NULL THEN NULL ELSE Logic(h.gia[s[k]])

LEMMA ValueNull ==
  ASSUME NEW h, NEW s, Held(h, s), NEW k \in Slots
  PROVE  /\ ValueIn(h, s, k) = NULL <=> s[k] = NULL
         /\ ValueIn(h, s, k) \in Store!Values \cup {NULL}
<1>1. CASE s[k] = NULL
  BY <1>1 DEF ValueIn
<1>2. CASE s[k] # NULL
  <2>1. h.gia[s[k]] \in Gia
    BY <1>2 DEF Held, Heap, Pointers
  <2>2. Logic(h.gia[s[k]]) \in Store!Values
    BY <2>1 DEF Gia, Logic, Store!Values
  <2> QED BY <1>2, <2>2, GiaAssumption DEF ValueIn, Store!Values
<1> QED BY <1>1, <1>2

\* The AIG of a pointer is stopped.
Releases(h, s, k, h2, s2) ==
    /\ Held(h, s) /\ k \in Slots
    /\ h2 = Stopped(h, s[k]) /\ Except(s, s2, {k}) /\ s2[k] = NULL

LEMMA ReleaseHeld ==
  ASSUME NEW h, NEW s, NEW k, NEW h2, NEW s2, Releases(h, s, k, h2, s2)
  PROVE  /\ Held(h2, s2)
         /\ DOMAIN h2.gia \subseteq DOMAIN h.gia
         /\ \A j \in Slots \ {k} : s2[j] = s[j] /\ ValueIn(h2, s2, j) = ValueIn(h, s, j)
<1> USE DEF Releases
<1>1. /\ Heap(h2) /\ DOMAIN h2.gia = DOMAIN h.gia \ {s[k]}
      /\ \A x \in DOMAIN h.gia \ {s[k]} : SameLogic(h, h2, x)
  BY StoppedHeap DEF Held, Pointers
<1>2. \A j \in Slots \ {k} : s2[j] = s[j]
  BY DEF Except
<1>3. \A j \in Slots \ {k} : s[j] # NULL => s[j] \in DOMAIN h.gia \ {s[k]}
  BY DEF Held, Pointers
<1>4. Pointers(h2, s2)
  <2>1. s2 \in [Slots -> DOMAIN h2.gia \cup {NULL}]
    BY <1>1, <1>2, <1>3 DEF Except
  <2>2. \A j, l \in Slots : s2[j] = s2[l] => j = l \/ s2[j] = NULL
    BY <1>2 DEF Held, Pointers
  <2>3. \A g \in DOMAIN h2.gia : \E j \in Slots : s2[j] = g
    BY <1>1, <1>2 DEF Held, Pointers
  <2> QED BY <2>1, <2>2, <2>3 DEF Pointers
<1> QED BY <1>1, <1>2, <1>3, <1>4 DEF Held, ValueIn, SameLogic

\* A pointer without an AIG gets a new one, which is already in the heap h2.
Acquires(h, s, k, new, h2, s2) ==
    /\ Held(h, s) /\ k \in Slots /\ s[k] = NULL
    /\ new \in Gias \ DOMAIN h.gia
    /\ Heap(h2) /\ DOMAIN h2.gia = DOMAIN h.gia \cup {new}
    /\ \A x \in DOMAIN h.gia : SameLogic(h, h2, x)
    /\ Except(s, s2, {k}) /\ s2[k] = new

LEMMA AcquireHeld ==
  ASSUME NEW h, NEW s, NEW k, NEW new, NEW h2, NEW s2, Acquires(h, s, k, new, h2, s2)
  PROVE  /\ Held(h2, s2) /\ ValueIn(h2, s2, k) = Logic(h2.gia[new])
         /\ \A j \in Slots \ {k} : ValueIn(h2, s2, j) = ValueIn(h, s, j)
<1> USE DEF Acquires
<1>1. s2[k] = new /\ \A j \in Slots \ {k} : s2[j] = s[j]
  BY DEF Except
<1>2. new # NULL /\ \A j \in Slots : s[j] # new
  BY AddressesNotNull DEF Held, Pointers
<1>3. Pointers(h2, s2)
  <2>1. s2 \in [Slots -> DOMAIN h2.gia \cup {NULL}]
    BY <1>1 DEF Held, Pointers, Except
  <2>2. \A j, l \in Slots : s2[j] = s2[l] => j = l \/ s2[j] = NULL
    BY <1>1, <1>2 DEF Held, Pointers
  <2>3. \A g \in DOMAIN h2.gia : \E j \in Slots : s2[j] = g
    <3> SUFFICES ASSUME NEW g \in DOMAIN h2.gia PROVE \E j \in Slots : s2[j] = g
      OBVIOUS
    <3>1. CASE g = new
      BY <1>1, <3>1
    <3>2. CASE g # new
      <4>1. PICK j \in Slots : s[j] = g
        BY <3>2 DEF Held, Pointers
      <4>2. j # k
        BY <3>2, <4>1, AddressesNotNull DEF Held, Heap
      <4> QED BY <1>1, <4>1, <4>2
    <3> QED BY <3>1, <3>2
  <2> QED BY <2>1, <2>2, <2>3 DEF Pointers
<1>4. \A j \in Slots \ {k} : s[j] # NULL => s[j] \in DOMAIN h.gia
  BY DEF Held, Pointers
<1> QED BY <1>1, <1>2, <1>3, <1>4 DEF Held, ValueIn, SameLogic

\* A pointer without an AIG takes that of another.
Moves(h, s, k, l, s2) ==
    /\ Held(h, s) /\ k \in Slots /\ s[k] = NULL /\ l \in Slots \ {k}
    /\ Except(s, s2, {k, l}) /\ s2[k] = s[l] /\ s2[l] = NULL

LEMMA MoveHeld ==
  ASSUME NEW h, NEW s, NEW k, NEW l, NEW s2, Moves(h, s, k, l, s2)
  PROVE  /\ Held(h, s2) /\ ValueIn(h, s2, k) = ValueIn(h, s, l)
         /\ \A j \in Slots \ {k, l} : ValueIn(h, s2, j) = ValueIn(h, s, j)
<1> USE DEF Moves
<1>1. s2[k] = s[l] /\ s2[l] = NULL /\ \A j \in Slots \ {k, l} : s2[j] = s[j]
  BY DEF Except
<1>2. Pointers(h, s2)
  <2>1. s2 \in [Slots -> DOMAIN h.gia \cup {NULL}]
    BY <1>1 DEF Held, Pointers, Except
  <2>2. \A i, j \in Slots : s2[i] = s2[j] => i = j \/ s2[i] = NULL
    BY <1>1 DEF Held, Pointers
  <2>3. \A g \in DOMAIN h.gia : \E j \in Slots : s2[j] = g
    <3> SUFFICES ASSUME NEW g \in DOMAIN h.gia PROVE \E j \in Slots : s2[j] = g
      OBVIOUS
    <3>1. PICK j \in Slots : s[j] = g
      BY DEF Held, Pointers
    <3>2. j # k
      BY <3>1, AddressesNotNull DEF Held, Heap
    <3>3. CASE j = l
      BY <1>1, <3>1, <3>3
    <3>4. CASE j # l
      BY <1>1, <3>1, <3>2, <3>4
    <3> QED BY <3>3, <3>4
  <2> QED BY <2>1, <2>2, <2>3 DEF Pointers
<1>3. \A j \in Slots \ {k, l} : ValueIn(h, s2, j) = ValueIn(h, s, j)
  BY <1>1 DEF ValueIn
<1>4. ValueIn(h, s2, k) = ValueIn(h, s, l)
  BY <1>1 DEF ValueIn
<1> QED BY <1>1, <1>2, <1>3, <1>4 DEF Held

-----------------------------------------------------------------------------
(* The inductive invariant, in terms of the values that the pointers show.  *)

\* The order of the offers of a store.
Less(k, fArea, z, p) ==
    IF k \in Mapped THEN Store!LessMapped(fArea, z, p) ELSE Store!LessAig(fArea, z, p)

Counters(size) == [luts |-> size.luts, edges |-> size.edges, lutLevels |-> size.lutLevels]

\* The counters of a store are those of what it holds, which is the least of
\* what it was offered.
Kept(k, v, n, o) ==
    v # NULL =>
        /\ k \in Mapped => v.mapped /\ n[k] = Counters(v.size)
        /\ \A z \in o[k].sizes : ~Less(k, o[k].fArea, z, v.size)

Histories ==
    /\ nBest \in [Mapped -> [luts : Nat, edges : Nat, lutLevels : Nat]]
    /\ offered \in [Stores -> [fArea : BOOLEAN, sizes : SUBSET Sizes]]

IndInv ==
    /\ Held(heap, slot)
    /\ net \in Store!Networks \cup {NULL}
    /\ steps \in 0 .. MaxSteps
    /\ Histories
    /\ \A k \in Stores : Kept(k, Value(k), nBest, offered)

LEMMA ValueIs == \A k \in Slots : Value(k) = ValueIn(heap, slot, k)
BY DEF Value, ValueIn

LEMMA ValueIsPrime == \A k \in Slots : Value(k)' = ValueIn(heap', slot', k)
BY DEF Value, ValueIn

\* A command that leaves the stores alone, or makes some of them empty.
LEMMA StoresKept ==
  ASSUME IndInv, Held(heap', slot'), net' \in Store!Networks \cup {NULL}, Command,
         Histories', offered' = offered,
         \A k \in Stores : Value(k)' # NULL =>
             Value(k)' = Value(k) /\ (k \in Mapped => nBest'[k] = nBest[k])
  PROVE  IndInv'
<1>1. steps' \in 0 .. MaxSteps
  BY GiaAssumption DEF IndInv, Command
<1>2. ASSUME NEW k \in Stores
      PROVE  Kept(k, Value(k), nBest, offered)'
  BY <1>2 DEF IndInv, Kept
<1> QED BY <1>1, <1>2 DEF IndInv

LEMMA Fresh ==
  ASSUME Command
  PROVE  FreeGia \in Gias \ DOMAIN heap.gia /\ FreeVec \in Vecs \ DOMAIN heap.names
BY DEF Command, HasRoom, FreeGia, FreeVec

LEMMA InitIndInv == Init => IndInv
<1> SUFFICES ASSUME Init PROVE IndInv
  OBVIOUS
<1>1. Heap(heap) /\ DOMAIN heap.gia = {}
  BY DEF Init, Heap
<1>2. Held(heap, slot) /\ \A k \in Slots : Value(k) = NULL
  BY <1>1 DEF Init, Held, Pointers, Value
<1>3. Histories
  BY DEF Init, Histories
<1>4. net \in Store!Networks /\ steps \in 0 .. MaxSteps
  <2>1. net \in Store!Networks
    BY DEF Init, Store!Networks
  <2>2. steps \in 0 .. MaxSteps
    BY GiaAssumption DEF Init
  <2> QED BY <2>1, <2>2
<1>5. \A k \in Stores : Kept(k, Value(k), nBest, offered)
  BY <1>2 DEF Kept, Slots
<1> QED BY <1>2, <1>3, <1>4, <1>5 DEF IndInv

\* The new AIG is in h, and no pointer holds it yet.
LEMMA UpdateGiaStep ==
  ASSUME IndInv, Command, NEW new \in Gias \ DOMAIN heap.gia,
         NEW h, Heap(h), DOMAIN h.gia = DOMAIN heap.gia \cup {new},
         \A x \in DOMAIN heap.gia : SameLogic(heap, h, x),
         UpdateGia(h, new), UNCHANGED <<net, nBest, offered>>
  PROVE  /\ IndInv'
         /\ Value("pGia")' = Logic(h.gia[new]) /\ Value("pGia2")' = Value("pGia")
         /\ \A k \in Stores : Value(k)' = Value(k)
<1> DEFINE old == slot["pGia"]
           moved == NamesMoved(h, old, new)
           s1 == [slot EXCEPT !["pGia2"] = NULL]
           h1 == Stopped(heap, slot["pGia2"])
           s2 == [slot EXCEPT !["pGia2"] = old, !["pGia"] = NULL]
<1>1. old \in DOMAIN heap.gia \cup {NULL} /\ slot["pGia2"] \in DOMAIN heap.gia \cup {NULL}
  BY DEF IndInv, Held, Pointers, Slots
<1>2. old # new /\ slot["pGia2"] # new
  BY <1>1, AddressesNotNull
<1>3. /\ Heap(moved) /\ DOMAIN moved.gia = DOMAIN h.gia
      /\ \A x \in DOMAIN h.gia : SameLogic(h, moved, x)
  BY <1>1, <1>2, MovedHeap
<1>4. /\ Heap(heap') /\ DOMAIN heap'.gia = (DOMAIN heap.gia \cup {new}) \ {slot["pGia2"]}
      /\ \A x \in (DOMAIN heap.gia \cup {new}) \ {slot["pGia2"]} : SameLogic(h, heap', x)
  <2>1. heap' = Stopped(moved, slot["pGia2"])
    BY DEF UpdateGia
  <2> HIDE DEF moved
  <2>2. slot["pGia2"] \in DOMAIN moved.gia \cup {NULL}
    BY <1>1, <1>3
  <2> QED BY <1>3, <2>1, <2>2, StoppedHeap DEF SameLogic
<1>5. "pGia" \in Slots /\ "pGia2" \in Slots /\ Stores \subseteq Slots \ {"pGia", "pGia2"}
  BY DEF Slots, Stores, Mapped
<1>6. slot \in [Slots -> Gias \cup {NULL}]
  BY DEF IndInv, Held, Heap, Pointers
<1>7. h1 = Stopped(heap, slot["pGia2"])
  OBVIOUS
<1>8. Except(slot, s1, {"pGia2"}) /\ s1["pGia2"] = NULL
  BY <1>5, <1>6 DEF Except
<1>9. Except(s1, s2, {"pGia2", "pGia"}) /\ s2["pGia2"] = s1["pGia"] /\ s2["pGia"] = NULL
  BY <1>5, <1>6 DEF Except
<1>10. Except(s2, slot', {"pGia"}) /\ slot'["pGia"] = new
  BY <1>5, <1>6 DEF Except, UpdateGia
<1> HIDE DEF h1, s1, s2
<1>11. /\ Held(h1, s1) /\ s1["pGia2"] = NULL
      /\ \A j \in Slots \ {"pGia2"} : s1[j] = slot[j] /\ ValueIn(h1, s1, j) = ValueIn(heap, slot, j)
  <2>1. Releases(heap, slot, "pGia2", h1, s1)
    BY <1>5, <1>7, <1>8 DEF IndInv, Releases
  <2> QED BY <1>5, <1>8, <2>1, ReleaseHeld
<1>12. /\ DOMAIN h1.gia = DOMAIN heap.gia \ {slot["pGia2"]}
      /\ \A x \in DOMAIN h1.gia : SameLogic(heap, h1, x)
  BY <1>1, <1>7, StoppedHeap DEF IndInv, Held
<1>13. /\ Held(h1, s2) /\ s2["pGia"] = NULL /\ ValueIn(h1, s2, "pGia2") = ValueIn(h1, s1, "pGia")
      /\ \A j \in Slots \ {"pGia2", "pGia"} : ValueIn(h1, s2, j) = ValueIn(h1, s1, j)
  <2>1. Moves(h1, s1, "pGia2", "pGia", s2)
    BY <1>5, <1>9, <1>11 DEF Moves
  <2> QED BY <1>9, <2>1, MoveHeld
<1>14. \A x \in DOMAIN h1.gia : SameLogic(h1, heap', x)
  BY <1>1, <1>4, <1>12 DEF SameLogic
<1>15. DOMAIN heap'.gia = DOMAIN h1.gia \cup {new} /\ new \in Gias \ DOMAIN h1.gia
  BY <1>2, <1>4, <1>12
<1>16. /\ Held(heap', slot') /\ ValueIn(heap', slot', "pGia") = Logic(heap'.gia[new])
       /\ \A j \in Slots \ {"pGia"} : ValueIn(heap', slot', j) = ValueIn(h1, s2, j)
  <2>1. Acquires(h1, s2, "pGia", new, heap', slot')
    BY <1>4, <1>5, <1>10, <1>13, <1>14, <1>15 DEF Acquires
  <2> QED BY <2>1, AcquireHeld
<1>17. Logic(heap'.gia[new]) = Logic(h.gia[new])
  BY <1>2, <1>4 DEF SameLogic
<1>18. /\ Value("pGia")' = Logic(h.gia[new]) /\ Value("pGia2")' = Value("pGia")
       /\ \A k \in Stores : Value(k)' = Value(k)
  BY <1>5, <1>11, <1>13, <1>16, <1>17, ValueIs, ValueIsPrime
<1>19. Histories' /\ net' \in Store!Networks \cup {NULL}
  BY DEF IndInv, Histories
<1> QED BY <1>16, <1>18, <1>19, StoresKept

\* A pointer gives up its AIG for a copy of that of another.
LEMMA CopyStep ==
  ASSUME IndInv, Command, NEW k \in Slots, NEW l \in Slots, k # l, slot[l] # NULL,
         NEW new \in Gias \ DOMAIN heap.gia,
         heap' = Duped(Stopped(heap, slot[k]), slot[l], new),
         Except(slot, slot', {k}), slot'[k] = new
  PROVE  /\ Held(heap', slot') /\ Value(k)' = Value(l)
         /\ \A j \in Slots \ {k} : Value(j)' = Value(j)
<1> DEFINE h1 == Stopped(heap, slot[k])
           s1 == [slot EXCEPT ![k] = NULL]
<1>1. slot \in [Slots -> Gias \cup {NULL}]
  BY DEF IndInv, Held, Heap, Pointers
<1>2. heap' = Duped(h1, slot[l], new) /\ h1 = Stopped(heap, slot[k])
  OBVIOUS
<1>3. Except(slot, s1, {k}) /\ s1[k] = NULL
  BY <1>1 DEF Except
<1>4. Except(s1, slot', {k})
  BY <1>1 DEF Except
<1> HIDE DEF h1, s1
<1>5. /\ Held(h1, s1) /\ DOMAIN h1.gia \subseteq DOMAIN heap.gia
      /\ \A j \in Slots \ {k} : s1[j] = slot[j] /\ ValueIn(h1, s1, j) = ValueIn(heap, slot, j)
  <2>1. Releases(heap, slot, k, h1, s1)
    BY <1>2, <1>3 DEF IndInv, Releases
  <2> QED BY <1>3, <2>1, ReleaseHeld DEF Except
<1>6. slot[l] \in DOMAIN h1.gia /\ new \in Gias \ DOMAIN h1.gia
  BY <1>1, <1>5 DEF Held, Pointers
<1>7. /\ Heap(heap') /\ DOMAIN heap'.gia = DOMAIN h1.gia \cup {new}
      /\ Logic(heap'.gia[new]) = Logic(h1.gia[slot[l]])
      /\ \A x \in DOMAIN h1.gia : SameLogic(h1, heap', x)
  BY <1>2, <1>5, <1>6, DupedHeap DEF Held
<1>8. /\ Held(heap', slot') /\ ValueIn(heap', slot', k) = Logic(heap'.gia[new])
      /\ \A j \in Slots \ {k} : ValueIn(heap', slot', j) = ValueIn(h1, s1, j)
  <2>1. Acquires(h1, s1, k, new, heap', slot')
    BY <1>3, <1>4, <1>5, <1>6, <1>7 DEF Acquires
  <2> QED BY <2>1, AcquireHeld
<1>9. ValueIn(h1, s1, l) = Logic(h1.gia[slot[l]])
  BY <1>5 DEF ValueIn
<1>10. Value(k)' = Value(l)
  BY <1>5, <1>7, <1>8, <1>9, ValueIs, ValueIsPrime
<1>11. \A j \in Slots \ {k} : Value(j)' = Value(j)
  BY <1>5, <1>8, ValueIs, ValueIsPrime
<1> QED BY <1>8, <1>10, <1>11

\* A pointer gives up its AIG for that of another, which becomes NULL.
LEMMA TakeStep ==
  ASSUME IndInv, NEW k \in Slots, NEW l \in Slots, k # l,
         heap' = Stopped(heap, slot[k]),
         Except(slot, slot', {k, l}), slot'[k] = slot[l], slot'[l] = NULL
  PROVE  /\ Held(heap', slot') /\ Value(k)' = Value(l) /\ Value(l)' = NULL
         /\ \A j \in Slots \ {k, l} : Value(j)' = Value(j)
<1> DEFINE s1 == [slot EXCEPT ![k] = NULL]
<1>1. slot \in [Slots -> Gias \cup {NULL}]
  BY DEF IndInv, Held, Heap, Pointers
<1>2. Except(slot, s1, {k}) /\ s1[k] = NULL
  BY <1>1 DEF Except
<1>3. Except(s1, slot', {k, l}) /\ slot'[k] = s1[l]
  BY <1>1 DEF Except
<1> HIDE DEF s1
<1>4. /\ Held(heap', s1)
      /\ \A j \in Slots \ {k} : ValueIn(heap', s1, j) = ValueIn(heap, slot, j)
  <2>1. Releases(heap, slot, k, heap', s1)
    BY <1>2 DEF IndInv, Releases
  <2> QED BY <2>1, ReleaseHeld
<1>5. /\ Held(heap', slot') /\ ValueIn(heap', slot', k) = ValueIn(heap', s1, l)
      /\ \A j \in Slots \ {k, l} : ValueIn(heap', slot', j) = ValueIn(heap', s1, j)
  <2>1. Moves(heap', s1, k, l, slot')
    BY <1>2, <1>3, <1>4 DEF Moves
  <2> QED BY <2>1, MoveHeld
<1>6. Value(l)' = NULL
  BY DEF Value
<1> QED BY <1>4, <1>5, <1>6, ValueIs, ValueIsPrime

-----------------------------------------------------------------------------
(* The orders of the offers *)

LEMMA LessOrder ==
  ASSUME NEW k, NEW f \in BOOLEAN, NEW x \in Sizes, NEW y \in Sizes, NEW z \in Sizes
  PROVE  /\ ~Less(k, f, x, x)
         /\ Less(k, f, x, y) /\ Less(k, f, y, z) => Less(k, f, x, z)
         /\ Store!LessMapped(f, x, Counters(y)) = Store!LessMapped(f, x, y)
<1>1. /\ x \in [luts : Nat, edges : Nat, lutLevels : Nat, ands : Nat, levels : Nat]
      /\ y \in [luts : Nat, edges : Nat, lutLevels : Nat, ands : Nat, levels : Nat]
      /\ z \in [luts : Nat, edges : Nat, lutLevels : Nat, ands : Nat, levels : Nat]
  BY GiaAssumption
<1>2. ~Less(k, f, x, x)
  BY <1>1 DEF Less, Store!LessMapped, Store!LessAig
<1>3. Less(k, f, x, y) /\ Less(k, f, y, z) => Less(k, f, x, z)
  BY <1>1 DEF Less, Store!LessMapped, Store!LessAig
<1>4. Store!LessMapped(f, x, Counters(y)) = Store!LessMapped(f, x, y)
  BY DEF Counters, Store!LessMapped
<1> QED BY <1>2, <1>3, <1>4

-----------------------------------------------------------------------------
(* One lemma for each command: it keeps the invariant and does to the values *)
(* what the abstract command says, or nothing.                              *)

StoreStep == [Store!Next]_(Store!vars)

LEMMA Pointed ==
  ASSUME IndInv, NEW k \in Slots
  PROVE  /\ Value(k) = NULL <=> slot[k] = NULL
         /\ Value(k) \in Store!Values \cup {NULL}
         /\ slot[k] # NULL => /\ slot[k] \in DOMAIN heap.gia
                              /\ heap.gia[slot[k]] \in Gia
                              /\ Value(k) = Logic(heap.gia[slot[k]])
<1>1. (Value(k) = NULL <=> slot[k] = NULL) /\ Value(k) \in Store!Values \cup {NULL}
  BY ValueNull, ValueIs DEF IndInv
<1>2. ASSUME slot[k] # NULL
      PROVE  /\ slot[k] \in DOMAIN heap.gia /\ heap.gia[slot[k]] \in Gia
             /\ Value(k) = Logic(heap.gia[slot[k]])
  BY <1>2 DEF IndInv, Held, Heap, Pointers, Value
<1> QED BY <1>1, <1>2

LEMMA SlotNames ==
  /\ "pGia" \in Slots /\ "pGia2" \in Slots /\ Stores \subseteq Slots \ {"pGia", "pGia2"}
  /\ "pGiaBest" \in Mapped /\ "pGiaBest2" \in Mapped /\ "pGiaSaved" \in Stores \ Mapped
  /\ Mapped \subseteq Stores
BY DEF Slots, Stores, Mapped

\* Nothing the user sees changes.
LEMMA UnchangedStep ==
  ASSUME UNCHANGED net, \A k \in Slots : Value(k)' = Value(k)
  PROVE  StoreStep
BY SlotNames DEF StoreStep, Store!vars, Stores, Mapped, Slots

LEMMA ReadStep == IndInv /\ Read => IndInv' /\ StoreStep
<1> SUFFICES ASSUME IndInv, Read PROVE IndInv' /\ StoreStep
  OBVIOUS
<1>1. \A k \in Slots : Value(k)' = Value(k)
  BY DEF Read, Value
<1>2. net' \in Store!Networks
  BY DEF Read, Store!Networks
<1>3. Held(heap', slot') /\ Histories' /\ offered' = offered /\ Command
  BY DEF Read, IndInv, Histories
<1>4. nBest' = nBest
  BY DEF Read
<1>5. IndInv'
  BY <1>1, <1>2, <1>3, <1>4, StoresKept, SlotNames
<1>6. Store!Read
  BY <1>1, SlotNames DEF Read, Store!Read, Stores, Mapped, Slots
<1> QED BY <1>5, <1>6 DEF StoreStep, Store!Next

\* After UpdateGia the abstract state has a new AIG of the design given.
LEMMA NewAigStep ==
  ASSUME IndInv, UNCHANGED net, NEW a \in Gia,
         \/ net # NULL /\ a.design = net.design
         \/ slot["pGia"] # NULL /\ a.design = heap.gia[slot["pGia"]].design,
         Value("pGia")' = Logic(a), Value("pGia2")' = Value("pGia"),
         \A k \in Stores : Value(k)' = Value(k)
  PROVE  StoreStep
<1>1. Logic(a) \in Store!Values /\ Logic(a).design = a.design
  BY DEF Logic, Gia, Store!Values
<1>2. ASSUME slot["pGia"] # NULL
      PROVE  Value("pGia") # NULL /\ Value("pGia").design = heap.gia[slot["pGia"]].design
  <2>1. Value("pGia") # NULL /\ Value("pGia") = Logic(heap.gia[slot["pGia"]])
    BY <1>2, Pointed, SlotNames
  <2> QED BY <2>1 DEF Logic
<1>3. Store!NewAig
  BY <1>1, <1>2 DEF Store!NewAig, Stores, Mapped
<1> QED BY <1>3 DEF StoreStep, Store!Next

LEMMA GetStep == IndInv /\ Get => IndInv' /\ StoreStep
<1> SUFFICES ASSUME IndInv, Get PROVE IndInv' /\ StoreStep
  OBVIOUS
<1>1. PICK size \in Sizes, fNames \in BOOLEAN, mapped \in {FALSE, net.logic} :
         LET names == IF fNames THEN Add(heap.names, FreeVec, net.design) ELSE heap.names
             new == [design |-> net.design, size |-> size, mapped |-> mapped,
                     vNames |-> IF fNames THEN FreeVec ELSE NULL]
         IN  UpdateGia([gia |-> Add(heap.gia, FreeGia, new), names |-> names], FreeGia)
  BY DEF Get
<1>2. Command /\ net # NULL /\ UNCHANGED <<net, nBest, offered>>
  BY DEF Get
<1>3. PICK new \in Gias \ DOMAIN heap.gia : new = FreeGia
  BY <1>2, Fresh
<1>4. PICK v \in Vecs \ DOMAIN heap.names : v = FreeVec
  BY <1>2, Fresh
<1>5. net.design \in Designs /\ net.logic \in BOOLEAN
  BY <1>2 DEF IndInv, Store!Networks
<1> DEFINE a == [design |-> net.design, size |-> size, mapped |-> mapped,
                 vNames |-> IF fNames THEN v ELSE NULL]
           h == [gia |-> Add(heap.gia, new, a),
                 names |-> IF fNames THEN Add(heap.names, v, net.design) ELSE heap.names]
<1>6. a \in Gia /\ a.vNames = (IF fNames THEN v ELSE NULL) /\ a.design = net.design
  BY <1>5 DEF Gia
<1>7. UpdateGia(h, new)
  BY <1>1, <1>3, <1>4
<1> HIDE DEF a, h
<1>8. /\ Heap(h) /\ DOMAIN h.gia = DOMAIN heap.gia \cup {new} /\ h.gia[new] = a
      /\ \A x \in DOMAIN heap.gia : h.gia[x] = heap.gia[x]
  <2>1. CASE fNames
    <3>1. HeapOf(h, Add(heap.gia, new, a), Add(heap.names, v, net.design))
      BY <2>1 DEF h, HeapOf
    <3> QED BY <1>5, <1>6, <2>1, <3>1, AddedNamedHeap DEF IndInv, Held
  <2>2. CASE ~fNames
    <3>1. HeapOf(h, Add(heap.gia, new, a), heap.names)
      BY <2>2 DEF h, HeapOf
    <3> QED BY <1>6, <2>2, <3>1, AddedHeap DEF IndInv, Held
  <2> QED BY <2>1, <2>2
<1>9. \A x \in DOMAIN heap.gia : SameLogic(heap, h, x)
  BY <1>8 DEF SameLogic
<1>10. /\ IndInv' /\ Value("pGia")' = Logic(a) /\ Value("pGia2")' = Value("pGia")
       /\ \A k \in Stores : Value(k)' = Value(k)
  BY <1>2, <1>7, <1>8, <1>9, UpdateGiaStep
<1> QED BY <1>2, <1>6, <1>10, NewAigStep

LEMMA TransformStep == IndInv /\ Transform => IndInv' /\ StoreStep
<1> SUFFICES ASSUME IndInv, Transform PROVE IndInv' /\ StoreStep
  OBVIOUS
<1> DEFINE g == heap.gia[slot["pGia"]]
<1>1. PICK size \in Sizes, mapped \in BOOLEAN :
         LET new == [design |-> g.design, size |-> size, mapped |-> mapped, vNames |-> NULL]
         IN  UpdateGia([heap EXCEPT !.gia = Add(@, FreeGia, new)], FreeGia)
  BY DEF Transform
<1>2. Command /\ slot["pGia"] # NULL /\ UNCHANGED <<net, nBest, offered>>
  BY DEF Transform
<1>3. PICK new \in Gias \ DOMAIN heap.gia : new = FreeGia
  BY <1>2, Fresh
<1> DEFINE a == [design |-> g.design, size |-> size, mapped |-> mapped, vNames |-> NULL]
           h == [gia |-> Add(heap.gia, new, a), names |-> heap.names]
<1>4. g \in Gia
  BY <1>2, Pointed, SlotNames
<1>5. a \in Gia /\ a.vNames = NULL /\ a.design = g.design
  BY <1>4 DEF Gia
<1>6. h = [heap EXCEPT !.gia = Add(@, new, a)]
  BY DEF IndInv, Held, Heap
<1>7. UpdateGia(h, new)
  BY <1>1, <1>3, <1>6
<1> HIDE DEF a, h
<1>8. /\ Heap(h) /\ DOMAIN h.gia = DOMAIN heap.gia \cup {new} /\ h.gia[new] = a
      /\ \A x \in DOMAIN heap.gia : h.gia[x] = heap.gia[x]
  <2>1. HeapOf(h, Add(heap.gia, new, a), heap.names)
    BY DEF h, HeapOf
  <2> QED BY <1>5, <2>1, AddedHeap DEF IndInv, Held
<1>9. \A x \in DOMAIN heap.gia : SameLogic(heap, h, x)
  BY <1>8 DEF SameLogic
<1>10. /\ IndInv' /\ Value("pGia")' = Logic(a) /\ Value("pGia2")' = Value("pGia")
       /\ \A k \in Stores : Value(k)' = Value(k)
  BY <1>2, <1>7, <1>8, <1>9, UpdateGiaStep
<1> QED BY <1>2, <1>5, <1>10, NewAigStep

\* The pointers stay, and so do the AIGs of all but one of them.
LEMMA InPlaceStep ==
  ASSUME IndInv, NEW k \in Slots, slot[k] # NULL, slot' = slot, Heap(heap'),
         DOMAIN heap'.gia = DOMAIN heap.gia,
         \A x \in DOMAIN heap.gia \ {slot[k]} : SameLogic(heap, heap', x)
  PROVE  /\ Held(heap', slot') /\ Value(k)' = Logic(heap'.gia[slot[k]])
         /\ \A j \in Slots \ {k} : Value(j)' = Value(j)
<1>1. Held(heap', slot')
  BY DEF IndInv, Held, Pointers
<1>2. Value(k)' = Logic(heap'.gia[slot[k]])
  BY DEF Value
<1>3. ASSUME NEW j \in Slots \ {k}
      PROVE  Value(j)' = Value(j)
  <2>1. slot[j] # NULL => slot[j] \in DOMAIN heap.gia \ {slot[k]}
    BY <1>3 DEF IndInv, Held, Pointers
  <2> QED BY <2>1 DEF Value, SameLogic
<1> QED BY <1>1, <1>2, <1>3

LEMMA UnmapStep == IndInv /\ Unmap => IndInv' /\ StoreStep
<1> SUFFICES ASSUME IndInv, Unmap PROVE IndInv' /\ StoreStep
  OBVIOUS
<1> DEFINE g == slot["pGia"]
<1>1. Command /\ g # NULL /\ UNCHANGED <<net, slot, nBest, offered>>
  BY DEF Unmap
<1>2. g \in DOMAIN heap.gia /\ heap.gia[g] \in Gia /\ Value("pGia") = Logic(heap.gia[g])
  BY <1>1, Pointed, SlotNames
<1>3. PICK a : a = [heap.gia[g] EXCEPT !.mapped = FALSE]
  OBVIOUS
<1>4. /\ a \in Gia /\ a.vNames = heap.gia[g].vNames
      /\ Logic(a) = [Logic(heap.gia[g]) EXCEPT !.mapped = FALSE]
  <2>1. PICK b \in Gia : b = heap.gia[g]
    BY <1>2
  <2>2. a = [design |-> b.design, size |-> b.size, mapped |-> FALSE, vNames |-> b.vNames]
    BY <1>3, <2>1 DEF Gia
  <2>3. [Logic(b) EXCEPT !.mapped = FALSE] = [design |-> b.design, size |-> b.size, mapped |-> FALSE]
    <3>1. PICK r \in [design : Designs, size : Sizes, mapped : BOOLEAN] : r = Logic(b)
      BY <2>1 DEF Logic, Gia
    <3>2. r.design = b.design /\ r.size = b.size
      BY <3>1 DEF Logic
    <3>3. PICK e : e = [r EXCEPT !.mapped = FALSE]
      OBVIOUS
    <3>4. e = [design |-> r.design, size |-> r.size, mapped |-> FALSE]
      BY <3>3
    <3> QED BY <3>1, <3>2, <3>3, <3>4
  <2>4. a \in Gia /\ a.vNames = b.vNames
    BY <2>1, <2>2 DEF Gia
  <2>5. Logic(a) = [design |-> b.design, size |-> b.size, mapped |-> FALSE]
    BY <2>2 DEF Logic
  <2> QED BY <2>1, <2>3, <2>4, <2>5
<1>5. heap' = [gia |-> [heap.gia EXCEPT ![g] = a], names |-> heap.names]
  BY <1>2, <1>3 DEF Unmap, IndInv, Held, Heap
<1>6. /\ DOMAIN heap'.gia = DOMAIN heap.gia /\ heap'.names = heap.names /\ heap'.gia[g] = a
      /\ \A x \in DOMAIN heap.gia \ {g} : heap'.gia[x] = heap.gia[x]
  BY <1>2, <1>5 DEF IndInv, Held, Heap
<1>7. \A x \in DOMAIN heap.gia : heap'.gia[x].vNames = heap.gia[x].vNames
  BY <1>2, <1>4, <1>6
<1>8. Heap(heap')
  <2>1. heap'.gia \in [DOMAIN heap'.gia -> Gia]
    BY <1>4, <1>5 DEF IndInv, Held, Heap
  <2>2. heap' = [gia |-> heap'.gia, names |-> heap'.names]
    BY <1>5
  <2>3. \A x \in DOMAIN heap'.gia : heap'.gia[x].vNames \in DOMAIN heap'.names \cup {NULL}
    BY <1>6, <1>7 DEF IndInv, Held, Heap
  <2>4. \A x, y \in DOMAIN heap'.gia :
           heap'.gia[x].vNames = heap'.gia[y].vNames => x = y \/ heap'.gia[x].vNames = NULL
    BY <1>6, <1>7 DEF IndInv, Held, Heap
  <2>5. \A v \in DOMAIN heap'.names : \E x \in DOMAIN heap'.gia : heap'.gia[x].vNames = v
    BY <1>6, <1>7 DEF IndInv, Held, Heap
  <2> QED BY <1>6, <2>1, <2>2, <2>3, <2>4, <2>5 DEF IndInv, Held, Heap
<1>9. /\ Held(heap', slot') /\ Value("pGia")' = [Value("pGia") EXCEPT !.mapped = FALSE]
      /\ \A j \in Slots \ {"pGia"} : Value(j)' = Value(j)
  <2>1. \A x \in DOMAIN heap.gia \ {g} : SameLogic(heap, heap', x)
    BY <1>6 DEF SameLogic
  <2>2. slot["pGia"] # NULL /\ slot' = slot
    BY <1>1
  <2>3. Value("pGia")' = Logic(a) /\ Held(heap', slot') /\ \A j \in Slots \ {"pGia"} : Value(j)' = Value(j)
    BY <1>6, <1>8, <2>1, <2>2, InPlaceStep, SlotNames
  <2> QED BY <1>2, <1>4, <2>3
<1>10. IndInv'
  BY <1>1, <1>9, StoresKept, SlotNames DEF IndInv, Histories
<1>11. Store!Unmap
  <2>1. Value("pGia") # NULL
    BY <1>1, Pointed, SlotNames
  <2> QED BY <1>1, <1>9, <2>1, SlotNames DEF Store!Unmap
<1> QED BY <1>10, <1>11 DEF StoreStep, Store!Next

LEMMA MoveNamesStep == IndInv /\ MoveNames => IndInv' /\ StoreStep
<1> SUFFICES ASSUME IndInv, MoveNames PROVE IndInv' /\ StoreStep
  OBVIOUS
<1> DEFINE g == slot["pGia"]
           old == heap.gia[g].vNames
<1>1. Command /\ net # NULL /\ g # NULL /\ UNCHANGED <<net, slot, nBest, offered>>
  BY DEF MoveNames
<1>2. g \in DOMAIN heap.gia /\ heap.gia[g] \in Gia /\ Value("pGia") = Logic(heap.gia[g])
  BY <1>1, Pointed, SlotNames
<1>3. PICK v \in Vecs \ DOMAIN heap.names : v = FreeVec
  BY <1>1, Fresh
<1>4. PICK a : a = [heap.gia[g] EXCEPT !.vNames = v]
  OBVIOUS
<1>5. a \in Gia /\ a.vNames = v /\ Logic(a) = Logic(heap.gia[g])
  BY <1>2, <1>4 DEF Gia, Logic
<1>6. heap' = [gia |-> [heap.gia EXCEPT ![g] = a],
               names |-> Add(Remove(heap.names, old), v, net.design)]
  BY <1>2, <1>3, <1>4 DEF MoveNames, IndInv, Held, Heap
<1>7. net.design \in Designs
  BY <1>1 DEF IndInv, Store!Networks
<1>8. /\ DOMAIN heap'.gia = DOMAIN heap.gia /\ heap'.gia[g] = a
      /\ \A x \in DOMAIN heap.gia \ {g} : heap'.gia[x] = heap.gia[x]
      /\ DOMAIN heap'.names = (DOMAIN heap.names \ {old}) \cup {v}
  BY <1>2, <1>6 DEF IndInv, Held, Heap, Add, Remove
<1>9. Heap(heap')
  <2>1. heap'.gia \in [DOMAIN heap'.gia -> Gia]
    BY <1>5, <1>6 DEF IndInv, Held, Heap
  <2>2. heap'.names \in [DOMAIN heap'.names -> Designs]
    BY <1>6, <1>7 DEF IndInv, Held, Heap, Add, Remove
  <2>3. heap' = [gia |-> heap'.gia, names |-> heap'.names]
    BY <1>6
  <2>4. \A x \in DOMAIN heap.gia \ {g} : heap.gia[x].vNames # old \/ heap.gia[x].vNames = NULL
    BY <1>2 DEF IndInv, Held, Heap
  <2>5. \A x \in DOMAIN heap'.gia : heap'.gia[x].vNames \in DOMAIN heap'.names \cup {NULL}
    BY <1>5, <1>8, <2>4 DEF IndInv, Held, Heap
  <2>6. \A x \in DOMAIN heap.gia : heap.gia[x].vNames # v
    BY AddressesNotNull DEF IndInv, Held, Heap
  <2>7. \A x, y \in DOMAIN heap'.gia :
           heap'.gia[x].vNames = heap'.gia[y].vNames => x = y \/ heap'.gia[x].vNames = NULL
    BY <1>5, <1>8, <2>6 DEF IndInv, Held, Heap
  <2>8. \A w \in DOMAIN heap'.names : \E x \in DOMAIN heap'.gia : heap'.gia[x].vNames = w
    <3> SUFFICES ASSUME NEW w \in DOMAIN heap'.names
                 PROVE  \E x \in DOMAIN heap'.gia : heap'.gia[x].vNames = w
      OBVIOUS
    <3>1. CASE w = v
      BY <1>2, <1>5, <1>8, <3>1
    <3>2. CASE w # v
      <4>1. PICK x \in DOMAIN heap.gia : heap.gia[x].vNames = w
        BY <1>8, <3>2 DEF IndInv, Held, Heap
      <4>2. x # g
        BY <1>8, <3>2, <4>1
      <4> QED BY <1>8, <4>1, <4>2
    <3> QED BY <3>1, <3>2
  <2> QED BY <1>8, <2>1, <2>2, <2>3, <2>5, <2>7, <2>8 DEF IndInv, Held, Heap
<1>10. Held(heap', slot') /\ \A j \in Slots : Value(j)' = Value(j)
  <2>1. \A x \in DOMAIN heap.gia \ {g} : SameLogic(heap, heap', x)
    BY <1>8 DEF SameLogic
  <2>2. slot["pGia"] # NULL /\ slot' = slot
    BY <1>1
  <2>3. Value("pGia")' = Logic(a) /\ Held(heap', slot') /\ \A j \in Slots \ {"pGia"} : Value(j)' = Value(j)
    BY <1>8, <1>9, <2>1, <2>2, InPlaceStep, SlotNames
  <2> QED BY <1>2, <1>5, <2>3
<1>11. IndInv'
  BY <1>1, <1>10, StoresKept, SlotNames DEF IndInv, Histories
<1> QED BY <1>1, <1>10, <1>11, UnchangedStep

LEMMA PutStep == IndInv /\ Put => IndInv' /\ StoreStep
<1> SUFFICES ASSUME IndInv, Put PROVE IndInv' /\ StoreStep
  OBVIOUS
<1>1. Command /\ slot["pGia"] # NULL /\ UNCHANGED <<heap, slot, nBest, offered>>
  BY DEF Put
<1>2. /\ Value("pGia") # NULL /\ Value("pGia") = Logic(heap.gia[slot["pGia"]])
      /\ heap.gia[slot["pGia"]] \in Gia
  BY <1>1, Pointed, SlotNames
<1>3. \A k \in Slots : Value(k)' = Value(k)
  BY <1>1 DEF Value
<1>4. net' = [design |-> Value("pGia").design, logic |-> Value("pGia").mapped]
  BY <1>2 DEF Put, Logic
<1>5. net' \in Store!Networks
  BY <1>2 DEF Put, Gia, Store!Networks
<1>6. Held(heap', slot') /\ Histories'
  BY <1>1 DEF IndInv, Histories
<1>7. IndInv'
  BY <1>1, <1>3, <1>5, <1>6, StoresKept, SlotNames
<1>8. Store!Put
  BY <1>2, <1>3, <1>4, SlotNames DEF Store!Put
<1> QED BY <1>7, <1>8 DEF StoreStep, Store!Next

LEMMA UndoStep == IndInv /\ Undo => IndInv' /\ StoreStep
<1> SUFFICES ASSUME IndInv, Undo PROVE IndInv' /\ StoreStep
  OBVIOUS
<1>1. /\ Command /\ slot["pGia"] # NULL /\ slot["pGia2"] # NULL
      /\ heap' = Stopped(heap, slot["pGia"]) /\ UNCHANGED <<net, nBest, offered>>
  BY DEF Undo
<1>2. slot \in [Slots -> Gias \cup {NULL}]
  BY DEF IndInv, Held, Heap, Pointers
<1>3. /\ Except(slot, slot', {"pGia", "pGia2"})
      /\ slot'["pGia"] = slot["pGia2"] /\ slot'["pGia2"] = NULL
  BY <1>2, SlotNames DEF Undo, Except
<1>4. /\ Held(heap', slot') /\ Value("pGia")' = Value("pGia2") /\ Value("pGia2")' = NULL
      /\ \A j \in Slots \ {"pGia", "pGia2"} : Value(j)' = Value(j)
  BY <1>1, <1>3, TakeStep, SlotNames
<1>5. IndInv'
  BY <1>1, <1>4, StoresKept, SlotNames DEF IndInv, Histories
<1>6. Value("pGia") # NULL /\ Value("pGia2") # NULL
  BY <1>1, Pointed, SlotNames
<1>7. Store!Undo
  BY <1>1, <1>4, <1>6, SlotNames DEF Store!Undo
<1> QED BY <1>5, <1>7 DEF StoreStep, Store!Next

LEMMA Load2Step == IndInv /\ Load2 => IndInv' /\ StoreStep
<1> SUFFICES ASSUME IndInv, Load2 PROVE IndInv' /\ StoreStep
  OBVIOUS
<1>1. /\ Command /\ slot["pGiaBest2"] # NULL
      /\ heap' = Stopped(heap, slot["pGia"]) /\ UNCHANGED <<net, offered>>
  BY DEF Load2
<1>2. slot \in [Slots -> Gias \cup {NULL}]
  BY DEF IndInv, Held, Heap, Pointers
<1>3. /\ Except(slot, slot', {"pGia", "pGiaBest2"})
      /\ slot'["pGia"] = slot["pGiaBest2"] /\ slot'["pGiaBest2"] = NULL
  BY <1>2, SlotNames DEF Load2, Except
<1>4. /\ Held(heap', slot') /\ Value("pGia")' = Value("pGiaBest2") /\ Value("pGiaBest2")' = NULL
      /\ \A j \in Slots \ {"pGia", "pGiaBest2"} : Value(j)' = Value(j)
  BY <1>1, <1>3, TakeStep, SlotNames
<1>5. Histories' /\ \A k \in Mapped \ {"pGiaBest2"} : nBest'[k] = nBest[k]
  BY DEF Load2, IndInv, Histories
<1>6. IndInv'
  BY <1>1, <1>4, <1>5, StoresKept, SlotNames DEF IndInv
<1>7. Value("pGiaBest2") # NULL
  BY <1>1, Pointed, SlotNames
<1>8. Store!Load2
  <2>1. {"pGia2", "pGiaBest", "pGiaSaved"} \subseteq Slots \ {"pGia", "pGiaBest2"}
    BY DEF Slots, Stores, Mapped
  <2> QED BY <1>1, <1>4, <1>7, <2>1 DEF Store!Load2
<1> QED BY <1>6, <1>8 DEF StoreStep, Store!Next

LEMMA ClearSavedStep == IndInv /\ ClearSaved => IndInv' /\ StoreStep
<1> SUFFICES ASSUME IndInv, ClearSaved PROVE IndInv' /\ StoreStep
  OBVIOUS
<1>1. /\ Command /\ slot["pGiaSaved"] # NULL
      /\ heap' = Stopped(heap, slot["pGiaSaved"]) /\ UNCHANGED <<net, nBest, offered>>
  BY DEF ClearSaved
<1>2. slot \in [Slots -> Gias \cup {NULL}]
  BY DEF IndInv, Held, Heap, Pointers
<1>3. Except(slot, slot', {"pGiaSaved"}) /\ slot'["pGiaSaved"] = NULL
  BY <1>2, SlotNames DEF ClearSaved, Except
<1>4. /\ Held(heap', slot')
      /\ \A j \in Slots \ {"pGiaSaved"} : ValueIn(heap', slot', j) = ValueIn(heap, slot, j)
  <2>1. Releases(heap, slot, "pGiaSaved", heap', slot')
    BY <1>1, <1>3, SlotNames DEF IndInv, Releases
  <2> QED BY <2>1, ReleaseHeld
<1>5. Value("pGiaSaved")' = NULL /\ \A j \in Slots \ {"pGiaSaved"} : Value(j)' = Value(j)
  BY <1>3, <1>4, ValueIs, ValueIsPrime, SlotNames DEF Value
<1>6. IndInv'
  BY <1>1, <1>4, <1>5, StoresKept, SlotNames DEF IndInv, Histories
<1>7. Value("pGiaSaved") # NULL
  BY <1>1, Pointed, SlotNames
<1>8. Store!ClearSaved
  BY <1>1, <1>5, <1>7, SlotNames DEF Store!ClearSaved
<1> QED BY <1>6, <1>8 DEF StoreStep, Store!Next

LEMMA LoadCopyStep ==
  ASSUME IndInv, NEW k \in {"pGiaBest", "pGiaSaved"}, LoadCopy(k)
  PROVE  IndInv' /\ StoreStep
<1>1. /\ Command /\ slot[k] # NULL /\ UNCHANGED <<net, nBest, offered>>
      /\ heap' = Duped(Stopped(heap, slot["pGia"]), slot[k], FreeGia)
  BY DEF LoadCopy
<1>2. PICK new \in Gias \ DOMAIN heap.gia : new = FreeGia
  BY <1>1, Fresh
<1>3. k \in Slots /\ k # "pGia"
  BY SlotNames
<1>4. slot \in [Slots -> Gias \cup {NULL}]
  BY DEF IndInv, Held, Heap, Pointers
<1>5. Except(slot, slot', {"pGia"}) /\ slot'["pGia"] = new
  BY <1>2, <1>4, SlotNames DEF LoadCopy, Except
<1>6. heap' = Duped(Stopped(heap, slot["pGia"]), slot[k], new)
  BY <1>1, <1>2
<1>7. /\ Held(heap', slot') /\ Value("pGia")' = Value(k)
      /\ \A j \in Slots \ {"pGia"} : Value(j)' = Value(j)
  BY <1>1, <1>3, <1>5, <1>6, CopyStep, SlotNames
<1>8. IndInv'
  BY <1>1, <1>7, StoresKept, SlotNames DEF IndInv, Histories
<1>9. Value(k) # NULL
  BY <1>1, <1>3, Pointed
<1>10. Store!Load \/ Store!LoadAig
  BY <1>1, <1>7, <1>9, SlotNames DEF Store!Load, Store!LoadAig
<1> QED BY <1>8, <1>10 DEF StoreStep, Store!Next

\* What a store holds is the least of its offers, whether it takes the last one
\* or not; S are the offers that still count.
LEMMA OfferKept ==
  ASSUME IndInv, NEW k \in Stores, NEW f \in BOOLEAN, NEW c \in Store!Values,
         k \in Mapped => c.mapped,
         NEW S \in SUBSET Sizes, NEW o, NEW n,
         o[k].fArea = f, o[k].sizes = S \cup {c.size},
         \/ S = {}
         \/ Value(k) # NULL /\ offered[k].fArea = f /\ S = offered[k].sizes
         \/ Value(k) # NULL /\ S = {Value(k).size}
  PROVE  /\ /\ S = {} \/ Less(k, f, c.size, Value(k).size)
            /\ k \in Mapped => n[k] = Counters(c.size)
            => Kept(k, c, n, o)
         /\ /\ Value(k) # NULL => ~Less(k, f, c.size, Value(k).size)
            /\ n[k] = nBest[k]
            => Kept(k, Value(k), n, o)
<1>1. c.size \in Sizes /\ (Value(k) # NULL => Value(k).size \in Sizes)
  BY Pointed, SlotNames DEF Store!Values
<1>2. Kept(k, Value(k), nBest, offered)
  BY DEF IndInv
<1>3. ~Less(k, f, c.size, c.size) /\ (Value(k) # NULL => ~Less(k, f, Value(k).size, Value(k).size))
  BY <1>1, LessOrder
<1>4. Value(k) # NULL => \A z \in S : ~Less(k, f, z, Value(k).size)
  BY <1>2, <1>3 DEF Kept
<1>5. ASSUME S = {} \/ Less(k, f, c.size, Value(k).size),
             k \in Mapped => n[k] = Counters(c.size)
      PROVE  Kept(k, c, n, o)
  <2>1. ASSUME NEW z \in S
        PROVE  ~Less(k, f, z, c.size)
    BY <1>1, <1>4, <1>5, <2>1, LessOrder
  <2> QED BY <1>3, <1>5, <2>1 DEF Kept
<1>6. ASSUME Value(k) # NULL => ~Less(k, f, c.size, Value(k).size), n[k] = nBest[k]
      PROVE  Kept(k, Value(k), n, o)
  BY <1>2, <1>4, <1>6 DEF Kept
<1> QED BY <1>5, <1>6

\* The other stores keep what they have.
LEMMA OneStore ==
  ASSUME IndInv, Command, Held(heap', slot'), net' = net, Histories', NEW k \in Stores,
         Kept(k, Value(k), nBest, offered)',
         \A j \in Stores \ {k} : /\ Value(j)' = Value(j) /\ offered'[j] = offered[j]
                                 /\ j \in Mapped => nBest'[j] = nBest[j]
  PROVE  IndInv'
<1>1. steps' \in 0 .. MaxSteps
  BY GiaAssumption DEF IndInv, Command
<1>2. ASSUME NEW j \in Stores
      PROVE  Kept(j, Value(j), nBest, offered)'
  <2>1. CASE j = k
    BY <2>1
  <2>2. CASE j # k
    <3>1. Kept(j, Value(j), nBest, offered)
      BY <1>2 DEF IndInv
    <3>2. Value(j)' = Value(j) /\ offered'[j] = offered[j] /\ (j \in Mapped => nBest'[j] = nBest[j])
      BY <1>2, <2>2
    <3> QED BY <3>1, <3>2 DEF Kept
  <2> QED BY <2>1, <2>2
<1> QED BY <1>1, <1>2 DEF IndInv

LEMMA ReplaceStep ==
  ASSUME IndInv, Command, slot["pGia"] # NULL, NEW k \in Stores, Replace(k)
  PROVE  /\ Held(heap', slot') /\ Value(k)' = Value("pGia")
         /\ \A j \in Slots \ {k} : Value(j)' = Value(j)
<1>1. PICK new \in Gias \ DOMAIN heap.gia : new = FreeGia
  BY Fresh
<1>2. heap' = Duped(Stopped(heap, slot[k]), slot["pGia"], new)
  BY <1>1 DEF Replace
<1>3. slot \in [Slots -> Gias \cup {NULL}]
  BY DEF IndInv, Held, Heap, Pointers
<1>4. Except(slot, slot', {k}) /\ slot'[k] = new
  BY <1>1, <1>3, SlotNames DEF Replace, Except
<1>5. k \in Slots /\ "pGia" \in Slots /\ k # "pGia"
  BY SlotNames
<1> QED BY <1>2, <1>4, <1>5, CopyStep

LEMMA SaveAigStep == IndInv /\ SaveAig => IndInv' /\ StoreStep
<1> SUFFICES ASSUME IndInv, SaveAig PROVE IndInv' /\ StoreStep
  OBVIOUS
<1> DEFINE k == "pGiaSaved"
           g == heap.gia[slot["pGia"]]
           c == Value("pGia")
<1>1. Command /\ slot["pGia"] # NULL /\ UNCHANGED <<net, nBest>>
  BY DEF SaveAig
<1>2. PICK f \in BOOLEAN :
         /\ IF ImprovesSaved(g, f) THEN Replace(k) ELSE UNCHANGED <<heap, slot>>
         /\ offered' = Offered(k, g, f)
  BY DEF SaveAig
<1>3. c # NULL /\ c \in Store!Values /\ c.size = g.size /\ g.size \in Sizes
  <2>1. c # NULL /\ c \in Store!Values \cup {NULL} /\ c = Logic(g) /\ g \in Gia
    BY <1>1, Pointed, SlotNames
  <2> QED BY <2>1 DEF Logic, Gia
<1>4. k \in Stores \ Mapped /\ k \in Slots
  BY SlotNames
<1>5. /\ slot[k] = NULL <=> Value(k) = NULL
      /\ slot[k] # NULL => Value(k).size = heap.gia[slot[k]].size /\ Value(k).size \in Sizes
  <2>1. slot[k] = NULL <=> Value(k) = NULL
    BY <1>4, Pointed
  <2>2. ASSUME slot[k] # NULL
        PROVE  Value(k) = Logic(heap.gia[slot[k]]) /\ heap.gia[slot[k]] \in Gia
    BY <1>4, <2>2, Pointed
  <2> QED BY <2>1, <2>2 DEF Logic, Gia
<1>6. ImprovesSaved(g, f) <=> Value(k) = NULL \/ Less(k, f, c.size, Value(k).size)
  BY <1>3, <1>4, <1>5 DEF ImprovesSaved, Less
<1>7. /\ Held(heap', slot') /\ \A j \in Slots \ {k} : Value(j)' = Value(j)
      /\ Value(k)' = IF ImprovesSaved(g, f) THEN c ELSE Value(k)
  <2>1. CASE ImprovesSaved(g, f)
    BY <1>1, <1>2, <1>4, <2>1, ReplaceStep
  <2>2. CASE ~ImprovesSaved(g, f)
    BY <1>2, <2>2 DEF IndInv, Value
  <2> QED BY <2>1, <2>2
<1> DEFINE S == IF slot[k] = NULL THEN {}
                ELSE IF offered[k].fArea = f THEN offered[k].sizes ELSE {heap.gia[slot[k]].size}
<1>8. /\ S \in SUBSET Sizes
      /\ \/ S = {}
         \/ Value(k) # NULL /\ offered[k].fArea = f /\ S = offered[k].sizes
         \/ Value(k) # NULL /\ S = {Value(k).size}
  <2>1. CASE slot[k] = NULL
    BY <2>1
  <2>2. CASE slot[k] # NULL /\ offered[k].fArea = f
    <3>1. S = offered[k].sizes
      BY <2>2
    <3> QED BY <1>4, <1>5, <2>2, <3>1 DEF IndInv, Histories
  <2>3. CASE slot[k] # NULL /\ offered[k].fArea # f
    <3>1. S = {heap.gia[slot[k]].size}
      BY <2>3
    <3> QED BY <1>5, <2>3, <3>1
  <2> QED BY <2>1, <2>2, <2>3
<1>9. Value(k) = NULL => S = {}
  <2>1. slot[k] = NULL => S = {}
    OBVIOUS
  <2> QED BY <1>5, <2>1
<1> HIDE DEF S
<1>10. /\ offered'[k].fArea = f /\ offered'[k].sizes = S \cup {c.size}
       /\ \A j \in Stores \ {k} : offered'[j] = offered[j]
       /\ offered' \in [Stores -> [fArea : BOOLEAN, sizes : SUBSET Sizes]]
  <2>1. offered' = [offered EXCEPT ![k] = [fArea |-> f, sizes |-> S \cup {c.size}]]
    BY <1>2, <1>3, <1>4 DEF S, Offered
  <2> QED BY <1>3, <1>4, <1>8, <2>1 DEF IndInv, Histories
<1>11. Kept(k, Value(k), nBest, offered)'
  <2>1. CASE ImprovesSaved(g, f)
    <3>1. Kept(k, c, nBest', offered')
      BY <1>3, <1>4, <1>6, <1>8, <1>9, <1>10, <2>1, OfferKept
    <3> QED BY <1>7, <2>1, <3>1
  <2>2. CASE ~ImprovesSaved(g, f)
    <3>1. Kept(k, Value(k), nBest', offered')
      BY <1>1, <1>3, <1>4, <1>6, <1>8, <1>10, <2>2, OfferKept
    <3> QED BY <1>7, <2>2, <3>1
  <2> QED BY <2>1, <2>2
<1>12. IndInv'
  <2>1. Histories'
    BY <1>1, <1>10 DEF IndInv, Histories
  <2> QED BY <1>1, <1>4, <1>7, <1>10, <1>11, <2>1, OneStore, SlotNames
<1>13. CASE ImprovesSaved(g, f)
  <2>1. Value(k) = NULL \/ Store!LessAig(f, c.size, Value(k).size)
    BY <1>4, <1>6, <1>13 DEF Less
  <2>2. Store!SaveAig
    BY <1>1, <1>3, <1>7, <1>13, <2>1, SlotNames DEF Store!SaveAig
  <2> QED BY <1>12, <2>2 DEF StoreStep, Store!Next
<1>14. CASE ~ImprovesSaved(g, f)
  <2>1. \A j \in Slots : Value(j)' = Value(j)
    BY <1>7, <1>14
  <2> QED BY <1>1, <1>12, <2>1, UnchangedStep
<1> QED BY <1>13, <1>14

LEMMA SaveStep ==
  ASSUME IndInv, NEW k \in Mapped, Save(k)
  PROVE  IndInv' /\ StoreStep
<1> DEFINE g == heap.gia[slot["pGia"]]
           c == Value("pGia")
           other == ~Store!SameInterface(g.design, heap.gia[slot[k]].design)
<1>1. Command /\ slot["pGia"] # NULL /\ g.mapped /\ UNCHANGED net
  BY DEF Save, HasMapping
<1>2. PICK f \in BOOLEAN :
         /\ IF ImprovesBest(k, g, f) THEN Replace(k) /\ nBest' = Counted(k, g)
            ELSE UNCHANGED <<heap, slot, nBest>>
         /\ offered' = Offered(k, g, f)
  BY DEF Save
<1>3. /\ c # NULL /\ c \in Store!Values /\ c.size = g.size /\ g.size \in Sizes
      /\ c.mapped /\ c.design = g.design
  <2>1. c # NULL /\ c \in Store!Values \cup {NULL} /\ c = Logic(g) /\ g \in Gia
    BY <1>1, Pointed, SlotNames
  <2> QED BY <1>1, <2>1 DEF Logic, Gia
<1>4. k \in Stores /\ k \in Slots
  BY SlotNames
<1>5. /\ slot[k] = NULL <=> Value(k) = NULL
      /\ slot[k] # NULL => /\ Value(k).size = heap.gia[slot[k]].size /\ Value(k).size \in Sizes
                           /\ Value(k).design = heap.gia[slot[k]].design
  <2>1. slot[k] = NULL <=> Value(k) = NULL
    BY <1>4, Pointed
  <2>2. ASSUME slot[k] # NULL
        PROVE  Value(k) = Logic(heap.gia[slot[k]]) /\ heap.gia[slot[k]] \in Gia
    BY <1>4, <2>2, Pointed
  <2> QED BY <2>1, <2>2 DEF Logic, Gia
<1>6. Value(k) # NULL =>
         (Store!LessMapped(f, c.size, nBest[k]) <=> Less(k, f, c.size, Value(k).size))
  <2> SUFFICES ASSUME Value(k) # NULL
               PROVE  Store!LessMapped(f, c.size, nBest[k]) <=> Less(k, f, c.size, Value(k).size)
    OBVIOUS
  <2>1. nBest[k] = Counters(Value(k).size)
    BY <1>4 DEF IndInv, Kept
  <2> QED BY <1>3, <1>5, <2>1, LessOrder DEF Less
<1> DEFINE S == IF slot[k] = NULL \/ other THEN {}
                ELSE IF offered[k].fArea = f THEN offered[k].sizes ELSE {heap.gia[slot[k]].size}
<1>7. /\ S \in SUBSET Sizes
      /\ \/ S = {}
         \/ Value(k) # NULL /\ offered[k].fArea = f /\ S = offered[k].sizes
         \/ Value(k) # NULL /\ S = {Value(k).size}
  <2>1. CASE slot[k] = NULL \/ other
    BY <2>1
  <2>2. CASE ~(slot[k] = NULL \/ other) /\ offered[k].fArea = f
    <3>1. S = offered[k].sizes
      BY <2>2
    <3> QED BY <1>4, <1>5, <2>2, <3>1 DEF IndInv, Histories
  <2>3. CASE ~(slot[k] = NULL \/ other) /\ offered[k].fArea # f
    <3>1. S = {heap.gia[slot[k]].size}
      BY <2>3
    <3> QED BY <1>5, <2>3, <3>1
  <2> QED BY <2>1, <2>2, <2>3
<1>8. ImprovesBest(k, g, f) <=> Value(k) = NULL \/ other \/ Less(k, f, c.size, Value(k).size)
  BY <1>3, <1>5, <1>6 DEF ImprovesBest
<1>9. Value(k) = NULL \/ other => S = {}
  BY <1>5
<1> HIDE DEF S
<1>10. /\ offered'[k].fArea = f /\ offered'[k].sizes = S \cup {c.size}
       /\ \A j \in Stores \ {k} : offered'[j] = offered[j]
       /\ offered' \in [Stores -> [fArea : BOOLEAN, sizes : SUBSET Sizes]]
  <2>1. offered' = [offered EXCEPT ![k] = [fArea |-> f, sizes |-> S \cup {c.size}]]
    BY <1>2, <1>3 DEF S, Offered
  <2> QED BY <1>3, <1>4, <1>7, <2>1 DEF IndInv, Histories
<1>11. CASE ImprovesBest(k, g, f)
  <2>1. /\ Held(heap', slot') /\ Value(k)' = c /\ \A j \in Slots \ {k} : Value(j)' = Value(j)
    BY <1>1, <1>2, <1>4, <1>11, ReplaceStep
  <2>2. /\ nBest'[k] = Counters(c.size) /\ \A j \in Mapped \ {k} : nBest'[j] = nBest[j]
        /\ nBest' \in [Mapped -> [luts : Nat, edges : Nat, lutLevels : Nat]]
    <3>1. g.size.luts \in Nat /\ g.size.edges \in Nat /\ g.size.lutLevels \in Nat
      BY <1>3, GiaAssumption
    <3> QED BY <1>2, <1>3, <1>11, <3>1 DEF Counted, Counters, IndInv, Histories
  <2>3. Kept(k, c, nBest', offered')
    BY <1>3, <1>4, <1>7, <1>8, <1>9, <1>10, <1>11, <2>2, OfferKept
  <2>4. Kept(k, Value(k), nBest, offered)'
    BY <2>1, <2>3
  <2>5. Histories'
    BY <1>10, <2>2 DEF Histories
  <2>6. IndInv'
    BY <1>1, <1>4, <1>10, <2>1, <2>2, <2>4, <2>5, OneStore, SlotNames
  <2>7. Store!Improves(f, c, Value(k))
    BY <1>3, <1>5, <1>8, <1>11 DEF Store!Improves, Less
  <2>8. Store!Save \/ Store!Save2
    <3>1. CASE k = "pGiaBest"
      <4>1. {"pGia", "pGia2", "pGiaBest2", "pGiaSaved"} \subseteq Slots \ {k}
        BY <3>1 DEF Slots, Stores, Mapped
      <4> QED BY <1>1, <1>3, <2>1, <2>7, <3>1, <4>1 DEF Store!Save
    <3>2. CASE k = "pGiaBest2"
      <4>1. {"pGia", "pGia2", "pGiaBest", "pGiaSaved"} \subseteq Slots \ {k}
        BY <3>2 DEF Slots, Stores, Mapped
      <4> QED BY <1>1, <1>3, <2>1, <2>7, <3>2, <4>1 DEF Store!Save2
    <3> QED BY <3>1, <3>2 DEF Mapped
  <2> QED BY <2>6, <2>8 DEF StoreStep, Store!Next
<1>12. CASE ~ImprovesBest(k, g, f)
  <2>1. UNCHANGED <<heap, slot, nBest>>
    BY <1>2, <1>12
  <2>2. Held(heap', slot') /\ \A j \in Slots : Value(j)' = Value(j)
    BY <2>1 DEF IndInv, Value
  <2>3. Kept(k, Value(k), nBest', offered')
    BY <1>3, <1>4, <1>7, <1>8, <1>10, <1>12, <2>1, OfferKept
  <2>4. Kept(k, Value(k), nBest, offered)'
    BY <1>4, <2>2, <2>3
  <2>5. Histories'
    BY <1>10, <2>1 DEF IndInv, Histories
  <2>6. IndInv'
    BY <1>1, <1>4, <1>10, <2>1, <2>2, <2>4, <2>5, OneStore, SlotNames
  <2> QED BY <1>1, <2>2, <2>6, UnchangedStep
<1> QED BY <1>11, <1>12

\* Stopping one after the other leaves nothing.
LEMMA EmptyAllStep == IndInv /\ EmptyAll => IndInv' /\ StoreStep
<1> SUFFICES ASSUME IndInv, EmptyAll PROVE IndInv' /\ StoreStep
  OBVIOUS
<1>1. /\ Command /\ net' = NULL /\ slot' = [k \in Slots |-> NULL]
      /\ UNCHANGED <<nBest, offered>>
  BY DEF EmptyAll
<1>2. slot \in [Slots -> Gias \cup {NULL}]
  BY DEF IndInv, Held, Heap, Pointers
<1> DEFINE without(K) == [k \in Slots |-> IF k \in K THEN NULL ELSE slot[k]]
<1>3. ASSUME NEW h, NEW K \in SUBSET Slots, Held(h, without(K)), NEW k \in Slots \ K
      PROVE  Held(Stopped(h, slot[k]), without(K \cup {k}))
  <2> DEFINE s == without(K)
             s2 == without(K \cup {k})
             q == Stopped(h, slot[k])
  <2>1. s[k] = slot[k] /\ k \in Slots
    BY <1>3
  <2>2. Except(s, s2, {k}) /\ s2[k] = NULL
    BY <1>2 DEF Except
  <2> HIDE DEF without
  <2>3. Held(h, s) /\ q = Stopped(h, s[k])
    BY <1>3, <2>1
  <2> HIDE DEF s, s2, q
  <2>4. Held(q, s2)
    <3>1. Releases(h, s, k, q, s2)
      BY <2>1, <2>2, <2>3 DEF Releases
    <3> QED BY <3>1, ReleaseHeld
  <2> QED BY <2>4 DEF s2, q
<1> DEFINE h1 == Stopped(heap, slot["pGia"])
           h2 == Stopped(h1, slot["pGia2"])
           h3 == Stopped(h2, slot["pGiaBest"])
           h4 == Stopped(h3, slot["pGiaBest2"])
<1>4. Held(heap, without({}))
  <2>1. without({}) = slot
    BY <1>2
  <2> QED BY <2>1 DEF IndInv
<1>5. heap' = Stopped(h4, slot["pGiaSaved"])
  BY DEF EmptyAll
<1>6. slot' = without(Slots)
  BY <1>1
<1> HIDE DEF without
<1>7. Held(h1, without({"pGia"}))
  <2>1. "pGia" \in Slots \ {} /\ {} \cup {"pGia"} = {"pGia"}
    BY SlotNames
  <2> QED BY <1>3, <1>4, <2>1
<1> HIDE DEF h1
<1>8. Held(h2, without({"pGia", "pGia2"}))
  <2>1. /\ {"pGia"} \in SUBSET Slots /\ "pGia2" \in Slots \ {"pGia"}
        /\ {"pGia"} \cup {"pGia2"} = {"pGia", "pGia2"}
    BY SlotNames
  <2> QED BY <1>3, <1>7, <2>1
<1> HIDE DEF h2
<1>9. Held(h3, without({"pGia", "pGia2", "pGiaBest"}))
  <2>1. /\ {"pGia", "pGia2"} \in SUBSET Slots /\ "pGiaBest" \in Slots \ {"pGia", "pGia2"}
        /\ {"pGia", "pGia2"} \cup {"pGiaBest"} = {"pGia", "pGia2", "pGiaBest"}
    BY SlotNames
  <2> QED BY <1>3, <1>8, <2>1
<1> HIDE DEF h3
<1>10. Held(h4, without({"pGia", "pGia2", "pGiaBest", "pGiaBest2"}))
  <2> DEFINE K == {"pGia", "pGia2", "pGiaBest"}
  <2>1. /\ K \in SUBSET Slots /\ "pGiaBest2" \in Slots \ K
        /\ K \cup {"pGiaBest2"} = {"pGia", "pGia2", "pGiaBest", "pGiaBest2"}
    BY DEF Slots, Stores, Mapped
  <2> HIDE DEF K
  <2>2. Held(h3, without(K))
    BY <1>9 DEF K
  <2> QED BY <1>3, <2>1, <2>2
<1> HIDE DEF h4
<1>11. Held(heap', slot')
  <2> DEFINE K == {"pGia", "pGia2", "pGiaBest", "pGiaBest2"}
  <2>1. /\ K \in SUBSET Slots /\ "pGiaSaved" \in Slots \ K /\ K \cup {"pGiaSaved"} = Slots
    BY DEF Slots, Stores, Mapped
  <2> HIDE DEF K
  <2>2. Held(h4, without(K))
    BY <1>10 DEF K
  <2>3. Held(Stopped(h4, slot["pGiaSaved"]), without(Slots))
    BY <1>3, <2>1, <2>2
  <2> QED BY <1>5, <1>6, <2>3
<1>12. \A k \in Slots : Value(k)' = NULL
  BY <1>1 DEF Value
<1>13. IndInv'
  BY <1>1, <1>11, <1>12, StoresKept, SlotNames DEF IndInv, Histories
<1>14. Store!EmptyAll
  BY <1>1, <1>12, SlotNames DEF Store!EmptyAll
<1> QED BY <1>13, <1>14 DEF StoreStep, Store!Next

-----------------------------------------------------------------------------
(* The theorems *)

LEMMA NextStep == IndInv /\ Next => IndInv' /\ StoreStep
BY ReadStep, GetStep, TransformStep, UnmapStep, MoveNamesStep, PutStep, UndoStep, SaveStep,
   ClearSavedStep, SaveAigStep, LoadCopyStep, Load2Step, EmptyAllStep DEF Next

LEMMA StutterStep == IndInv /\ UNCHANGED vars => IndInv' /\ StoreStep
<1> SUFFICES ASSUME IndInv, UNCHANGED vars PROVE IndInv' /\ StoreStep
  OBVIOUS
<1>1. \A k \in Slots : Value(k)' = Value(k)
  BY DEF vars, Value
<1>2. IndInv'
  <2>1. \A k \in Stores : Kept(k, Value(k), nBest, offered)'
    BY <1>1, SlotNames DEF vars, IndInv, Kept
  <2> QED BY <2>1 DEF vars, IndInv, Histories
<1> QED BY <1>1, <1>2, UnchangedStep DEF vars

LEMMA SpecIndInv == Spec => []IndInv
<1>1. IndInv /\ [Next]_vars => IndInv'
  BY NextStep, StutterStep
<1> QED BY <1>1, InitIndInv, PTL DEF Spec

\* In every session every AIG has one pointer (mainInt.h:115): nothing that a
\* command moves, copies or replaces is lost, or stopped twice.
THEOREM SessionSlotsOwned == Spec => []SlotsOwned
<1>1. IndInv => SlotsOwned
  BY DEF IndInv, Held, Pointers, SlotsOwned
<1> QED BY <1>1, SpecIndInv, PTL

\* The vectors of names that Abc_FrameUpdateGia moves from AIG to AIG
\* (abc.c:790-805) have one AIG.
THEOREM SessionNamesOwned == Spec => []NamesOwned
<1>1. IndInv => NamesOwned
  BY DEF IndInv, Held, Heap, NamesOwned
<1> QED BY <1>1, SpecIndInv, PTL

\* The pointers, the AIGs and the names have their types, and pGiaBest and
\* pGiaBest2 a mapping.
THEOREM SpaceTypeOK == Spec => []TypeOK
<1>1. ASSUME IndInv PROVE TypeOK
  <2>1. /\ DOMAIN heap.gia \subseteq Gias /\ DOMAIN heap.names \subseteq Vecs
        /\ \A g \in DOMAIN heap.gia : heap.gia[g] \in Gia
        /\ \A v \in DOMAIN heap.names : heap.names[v] \in Designs
        /\ slot \in [Slots -> Gias \cup {NULL}]
    BY <1>1 DEF IndInv, Held, Heap, Pointers
  <2>2. net \in [design : Designs, logic : BOOLEAN] \cup {NULL}
    BY <1>1 DEF IndInv, Store!Networks
  <2>3. ASSUME NEW k \in Mapped, slot[k] \in DOMAIN heap.gia
        PROVE  heap.gia[slot[k]].mapped
    <3>1. slot[k] # NULL
      BY <2>1, <2>3, AddressesNotNull
    <3>2. Value(k) # NULL /\ Value(k) = Logic(heap.gia[slot[k]])
      BY <1>1, <2>3, <3>1, Pointed, SlotNames
    <3>3. Value(k).mapped
      BY <1>1, <2>3, <3>2, SlotNames DEF IndInv, Kept
    <3> QED BY <3>2, <3>3 DEF Logic
  <2> QED BY <1>1, <2>1, <2>2, <2>3 DEF IndInv, TypeOK
<1> QED BY <1>1, SpecIndInv, PTL

\* What &load, &load2 and &loadaig bring back is the least of what the store was
\* offered.
THEOREM SessionBestSmallest == Spec => []BestSmallest
<1>1. ASSUME IndInv PROVE BestSmallest
  <2> SUFFICES ASSUME NEW k \in Stores, slot[k] # NULL, NEW z \in offered[k].sizes
               PROVE  ~Less(k, offered[k].fArea, z, heap.gia[slot[k]].size)
    BY DEF BestSmallest, Less
  <2>1. Value(k) # NULL /\ Value(k) = Logic(heap.gia[slot[k]])
    BY <1>1, Pointed, SlotNames
  <2>2. ~Less(k, offered[k].fArea, z, Value(k).size)
    BY <1>1, <2>1 DEF IndInv, Kept
  <2> QED BY <2>1, <2>2 DEF Logic
<1> QED BY <1>1, SpecIndInv, PTL

\* The &-space implements the store of values: sharing, moving and stopping the
\* AIGs never shows.
THEOREM SessionImplementsGiaStore == Spec => ImplementsGiaStore
<1>1. Init => Store!Init
  <2> SUFFICES ASSUME Init PROVE Store!Init
    OBVIOUS
  <2>1. \A k \in Slots : Value(k) = NULL
    BY DEF Init, Value
  <2> QED BY <2>1, SlotNames DEF Init, Store!Init
<1>2. IndInv /\ [Next]_vars => [Store!Next]_(Store!vars)
  BY NextStep, StutterStep DEF StoreStep
<1> QED BY <1>1, <1>2, SpecIndInv, PTL DEF Spec, Store!Spec, ImplementsGiaStore
=============================================================================
