--------------------------- MODULE BddReorderProofs ---------------------------
(***************************************************************************)
(* Proofs about BddReorder: the table stays canonical, its counts exact    *)
(* and the edges of the network the same functions, whatever exchanges the *)
(* heuristics choose; and window2 does not enlarge it.                     *)
(***************************************************************************)
EXTENDS BddReorder, FiniteSetTheorems, TLAPS

-----------------------------------------------------------------------------
(***************************************************************************)
(* Lemmas about the node tables, as pure operators on them: what one       *)
(* lookup, one child and one re-expressed node do to a table, and what     *)
(* stays true of a table in the middle of an exchange.                     *)
(***************************************************************************)

Known(d) == Live(d) \cup {ONE}
KnownEdges(d) == Known(d) \X BOOLEAN

\* A table in the middle of an exchange: a count may be anything.
Table(d) == /\ d \in [Pool -> Records(Int) \cup {NULL}]
            /\ \A n \in Live(d) : Children(d, n) \subseteq Live(d)

RefsIn(d, n) == Cardinality({f \in Live(d) : d[f].T = n})
                  + Cardinality({f \in Live(d) : d[f].E[1] = n})

\* The references a count has beyond those of the table itself.
Excess(d, n) == d[n].ref - RefsIn(d, n)

If1(b) == IF b THEN 1 ELSE 0

\* Every node of d is a node of d2, over the same variable, with the same children.
Extends(d, d2) == \A n \in Live(d) : /\ n \in Live(d2) /\ d2[n].index = d[n].index
                                     /\ d2[n].T = d[n].T /\ d2[n].E = d[n].E

LEMMA LiveType ==
  ASSUME NEW d, Table(d), NEW n \in Live(d)
  PROVE  /\ n \in Pool /\ d[n] \in Records(Int) /\ n # ONE /\ n # NULL
         /\ d[n].index \in Vars /\ d[n].T \in Known(d) /\ d[n].E \in KnownEdges(d)
         /\ d[n].E[1] \in Known(d) /\ d[n].E[2] \in BOOLEAN /\ d[n].ref \in Int
         /\ d[n].E = <<d[n].E[1], d[n].E[2]>>
<1>1. n \in Pool /\ d[n] \in Records(Int) /\ n # ONE /\ n # NULL
  BY BddAssumption DEF Table, Live
<1>2. Children(d, n) \subseteq Live(d)
  BY DEF Table
<1>3. d[n].E \in (Pool \cup {ONE}) \X BOOLEAN /\ d[n].index \in Vars /\ d[n].ref \in Int
  BY <1>1 DEF Records, Edges
<1>4. d[n].T \in Known(d) /\ d[n].E[1] \in Known(d)
  BY <1>2 DEF Children, Known
<1> QED BY <1>1, <1>3, <1>4 DEF KnownEdges

LEMMA LiveFinite ==
  ASSUME NEW d
  PROVE  IsFiniteSet(Live(d)) /\ Live(d) \subseteq Pool
<1>1. Live(d) \subseteq Pool
  BY DEF Live
<1> QED BY <1>1, BddAssumption, FS_Subset

LEMMA RefsInNat ==
  ASSUME NEW d, NEW n
  PROVE  /\ RefsIn(d, n) \in Nat
         /\ RefsIn(d, n) > 0 <=> \E p \in Live(d) : d[p].T = n \/ d[p].E[1] = n
<1> DEFINE P == {f \in Live(d) : d[f].T = n}
           Q == {f \in Live(d) : d[f].E[1] = n}
<1>1. IsFiniteSet(P) /\ IsFiniteSet(Q)
  <2>1. P \subseteq Live(d) /\ Q \subseteq Live(d)
    OBVIOUS
  <2> QED BY <2>1, LiveFinite, FS_Subset
<1>2. /\ Cardinality(P) \in Nat /\ (Cardinality(P) = 0 <=> P = {})
      /\ Cardinality(Q) \in Nat /\ (Cardinality(Q) = 0 <=> Q = {})
  BY <1>1, FS_CardinalityType, FS_EmptySet
<1>3. RefsIn(d, n) = Cardinality(P) + Cardinality(Q)
  BY DEF RefsIn
<1>4. P # {} \/ Q # {} <=> \E p \in Live(d) : d[p].T = n \/ d[p].E[1] = n
  OBVIOUS
<1> HIDE DEF P, Q
<1> QED BY <1>2, <1>3, <1>4

\* The references are the same in a table with the same nodes and children.
LEMMA SameRefs ==
  ASSUME NEW d, NEW d2, Extends(d, d2), Live(d2) = Live(d), NEW n
  PROVE  RefsIn(d2, n) = RefsIn(d, n)
<1>1. /\ {f \in Live(d2) : d2[f].T = n} = {f \in Live(d) : d[f].T = n}
      /\ {f \in Live(d2) : d2[f].E[1] = n} = {f \in Live(d) : d[f].E[1] = n}
  BY DEF Extends
<1> QED BY <1>1 DEF RefsIn

LEMMA AddedRefs ==
  ASSUME NEW d, NEW d2, Extends(d, d2), NEW new, new \notin Live(d),
         Live(d2) = Live(d) \cup {new}, NEW n
  PROVE  RefsIn(d2, n) = RefsIn(d, n) + If1(d2[new].T = n) + If1(d2[new].E[1] = n)
<1> DEFINE P == {f \in Live(d) : d[f].T = n}
           Q == {f \in Live(d) : d[f].E[1] = n}
<1>1. /\ {f \in Live(d2) : d2[f].T = n} = IF d2[new].T = n THEN P \cup {new} ELSE P
      /\ {f \in Live(d2) : d2[f].E[1] = n} = IF d2[new].E[1] = n THEN Q \cup {new} ELSE Q
  BY DEF Extends
<1>2. IsFiniteSet(P) /\ IsFiniteSet(Q) /\ new \notin P /\ new \notin Q
  <2>1. P \subseteq Live(d) /\ Q \subseteq Live(d)
    OBVIOUS
  <2> QED BY <2>1, LiveFinite, FS_Subset
<1>3. /\ Cardinality(P \cup {new}) = Cardinality(P) + 1 /\ Cardinality(P) \in Nat
      /\ Cardinality(Q \cup {new}) = Cardinality(Q) + 1 /\ Cardinality(Q) \in Nat
  BY <1>2, FS_AddElement, FS_CardinalityType
<1>4. RefsIn(d, n) = Cardinality(P) + Cardinality(Q)
  BY DEF RefsIn
<1>5. RefsIn(d2, n) = Cardinality(IF d2[new].T = n THEN P \cup {new} ELSE P)
                        + Cardinality(IF d2[new].E[1] = n THEN Q \cup {new} ELSE Q)
  BY <1>1 DEF RefsIn
<1> HIDE DEF P, Q
<1> QED BY <1>3, <1>4, <1>5 DEF If1

LEMMA RefEffect ==
  ASSUME NEW d, Table(d), NEW n \in Known(d), NEW k \in Int
  PROVE  /\ Table(Ref(d, n, k)) /\ Live(Ref(d, n, k)) = Live(d)
         /\ Extends(d, Ref(d, n, k))
         /\ \A m \in Live(d) : Ref(d, n, k)[m].ref = d[m].ref + IF m = n THEN k ELSE 0
         /\ \A m \in Live(d) : Excess(Ref(d, n, k), m) = Excess(d, m) + IF m = n THEN k ELSE 0
<1> DEFINE r == Ref(d, n, k)
<1>1. CASE n = ONE
  <2>1. Ref(d, n, k) = d
    BY <1>1 DEF Ref
  <2>2. \A m \in Live(d) : m # n /\ d[m].ref \in Int /\ Excess(d, m) \in Int
    BY <1>1, LiveType, RefsInNat DEF Excess
  <2>3. Extends(d, d)
    BY DEF Extends
  <2>4. \A m \in Live(d) : /\ d[m].ref = d[m].ref + IF m = n THEN k ELSE 0
                           /\ Excess(d, m) = Excess(d, m) + IF m = n THEN k ELSE 0
    BY <2>2
  <2> QED BY <2>1, <2>3, <2>4
<1>2. CASE n # ONE
  <2>1. n \in Live(d) /\ r = [d EXCEPT ![n].ref = @ + k]
    BY <1>2 DEF Ref, Known
  <2>2. n \in Pool /\ d[n] \in Records(Int) /\ d \in [Pool -> Records(Int) \cup {NULL}]
    BY <2>1, LiveType DEF Table
  <2>3. r[n] = [d[n] EXCEPT !.ref = d[n].ref + k] /\ \A m \in Pool \ {n} : r[m] = d[m]
    BY <2>1, <2>2
  <2>4. r[n] \in Records(Int) /\ r[n].ref = d[n].ref + k
        /\ r[n].index = d[n].index /\ r[n].T = d[n].T /\ r[n].E = d[n].E
    BY <2>2, <2>3 DEF Records
  <2>5. r \in [Pool -> Records(Int) \cup {NULL}]
    BY <2>1, <2>2, <2>4
  <2>6. Live(r) = Live(d)
    BY <2>1, <2>2, <2>3, <2>4, BddAssumption DEF Live
  <2>7. /\ Extends(d, r)
        /\ \A m \in Live(d) : r[m].ref = d[m].ref + IF m = n THEN k ELSE 0
    <3> SUFFICES ASSUME NEW m \in Live(d)
                 PROVE  /\ r[m].index = d[m].index /\ r[m].T = d[m].T /\ r[m].E = d[m].E
                        /\ r[m].ref = d[m].ref + IF m = n THEN k ELSE 0
      BY <2>6 DEF Extends
    <3>1. m \in Pool /\ d[m].ref \in Int
      BY LiveType
    <3>2. m # n => r[m] = d[m]
      BY <2>3, <3>1
    <3> HIDE DEF r
    <3>3. CASE m = n
      BY <2>4, <3>3
    <3>4. CASE m # n
      BY <3>1, <3>2, <3>4
    <3> QED BY <3>3, <3>4
  <2>8. Table(r)
    <3>1. \A m \in Live(d) : Children(r, m) = Children(d, m)
      BY <2>7 DEF Extends, Children
    <3> QED BY <2>5, <2>6, <3>1 DEF Table
  <2>9. \A m \in Live(d) : Excess(r, m) = Excess(d, m) + IF m = n THEN k ELSE 0
    <3> SUFFICES ASSUME NEW m \in Live(d)
                 PROVE  Excess(r, m) = Excess(d, m) + IF m = n THEN k ELSE 0
      OBVIOUS
    <3>1. RefsIn(r, m) = RefsIn(d, m)
      BY <2>6, <2>7, SameRefs
    <3>2. RefsIn(d, m) \in Nat /\ d[m].ref \in Int
      BY RefsInNat, LiveType
    <3>3. r[m].ref = d[m].ref + IF m = n THEN k ELSE 0
      BY <2>7
    <3> HIDE DEF r
    <3> QED BY <3>1, <3>2, <3>3 DEF Excess
  <2> QED BY <2>6, <2>7, <2>8, <2>9
<1> QED BY <1>1, <1>2

-----------------------------------------------------------------------------
(* Edges *)

LEMMA EdgeForm ==
  ASSUME NEW S, NEW e \in S \X BOOLEAN
  PROVE  \E n \in S : e = <<n, FALSE>> \/ e = <<n, TRUE>>
<1>1. PICK n \in S, b \in BOOLEAN : e = <<n, b>>
  OBVIOUS
<1>2. CASE b = TRUE
  BY <1>1, <1>2
<1>3. CASE b = FALSE
  BY <1>1, <1>3
<1> QED BY <1>2, <1>3

\* The provers read TRUE in a tuple as another thing than the formula TRUE, so
\* edges are compared by cases.
LEMMA EdgeNot ==
  ASSUME NEW S, NEW e \in S \X BOOLEAN
  PROVE  /\ Not(e) \in S \X BOOLEAN /\ Not(e)[1] = e[1] /\ Not(Not(e)) = e
         /\ NotIf(e, FALSE) = e /\ NotIf(e, TRUE) = Not(e) /\ Not(e) # e
         /\ e[2] = TRUE => Not(e)[2] = FALSE
         /\ e[2] = FALSE => Not(e)[2] = TRUE
<1>1. PICK n \in S : e = <<n, FALSE>> \/ e = <<n, TRUE>>
  BY EdgeForm
<1>2. /\ Not(<<n, FALSE>>) = <<n, TRUE>> /\ Not(<<n, TRUE>>) = <<n, FALSE>>
      /\ NotIf(<<n, FALSE>>, FALSE) = <<n, FALSE>> /\ NotIf(<<n, TRUE>>, FALSE) = <<n, TRUE>>
      /\ NotIf(<<n, FALSE>>, TRUE) = <<n, TRUE>> /\ NotIf(<<n, TRUE>>, TRUE) = <<n, FALSE>>
  BY DEF Not, NotIf
<1>3. /\ <<n, TRUE>> \in S \X BOOLEAN /\ <<n, FALSE>> \in S \X BOOLEAN
      /\ <<n, TRUE>> # <<n, FALSE>>
  OBVIOUS
<1>4. /\ <<n, TRUE>>[2] = TRUE /\ <<n, FALSE>>[2] = FALSE
      /\ <<n, TRUE>>[1] = n /\ <<n, FALSE>>[1] = n
  OBVIOUS
<1>5. ~(TRUE = FALSE)
  OBVIOUS
<1>6. CASE e = <<n, FALSE>>
  BY <1>2, <1>3, <1>4, <1>5, <1>6, Zenon
<1>7. CASE e = <<n, TRUE>>
  BY <1>2, <1>3, <1>4, <1>5, <1>7, Zenon
<1> QED BY <1>1, <1>6, <1>7

LEMMA EdgeNotIf ==
  ASSUME NEW S, NEW e \in S \X BOOLEAN, NEW b \in BOOLEAN
  PROVE  NotIf(e, b) \in S \X BOOLEAN /\ NotIf(e, b)[1] = e[1]
<1>1. /\ Not(e) \in S \X BOOLEAN /\ Not(e)[1] = e[1]
      /\ NotIf(e, FALSE) = e /\ NotIf(e, TRUE) = Not(e)
  BY EdgeNot
<1>2. b = TRUE \/ b = FALSE
  OBVIOUS
<1> QED BY <1>1, <1>2, Zenon

LEMMA EdgeRegular ==
  ASSUME NEW S, NEW e \in S \X BOOLEAN, e[2] = FALSE
  PROVE  \A j : <<j, FALSE>> = e <=> j = e[1]
<1>1. PICK n \in S : e = <<n, FALSE>> \/ e = <<n, TRUE>>
  BY EdgeForm
<1>2. <<n, TRUE>>[2] = TRUE /\ ~(TRUE = FALSE)
  OBVIOUS
<1>3. e = <<n, FALSE>>
  BY <1>1, <1>2, Zenon
<1> QED BY <1>3

-----------------------------------------------------------------------------
(* FindOrAdd and Child *)

\* What a lookup does: node n of d2 is (i, t, e), made only if there was none,
\* and has one reference more than the table gives it.
Looked(d, d2, n, i, t, e) ==
    /\ Table(d2) /\ Extends(d, d2) /\ Live(d2) = Live(d) \cup {n}
    /\ d2[n].index = i /\ d2[n].T = t[1] /\ d2[n].E = e
    /\ n \notin Live(d) => \A m \in Live(d) :
                              ~(d[m].index = i /\ d[m].T = t[1] /\ d[m].E = e)
    /\ \A m \in Live(d) : Excess(d2, m) = Excess(d, m) + If1(m = n)
    /\ n \notin Live(d) => Excess(d2, n) = 1

LEMMA FoundEffect ==
  ASSUME NEW d, Table(d), NEW i \in Vars, NEW t \in KnownEdges(d), NEW e \in KnownEdges(d),
         NEW n \in Live(d), d[n].index = i, d[n].T = t[1], d[n].E = e
  PROVE  Looked(d, Ref(d, n, 1), n, i, t, e)
<1>1. n \in Known(d)
  BY DEF Known
<1> DEFINE r == Ref(d, n, 1)
<1>2. /\ Table(r) /\ Live(r) = Live(d) /\ Extends(d, r)
      /\ \A m \in Live(d) : Excess(r, m) = Excess(d, m) + IF m = n THEN 1 ELSE 0
  BY <1>1, RefEffect
<1> HIDE DEF r
<1>3. r[n].index = i /\ r[n].T = t[1] /\ r[n].E = e
  BY <1>2 DEF Extends
<1>4. Looked(d, r, n, i, t, e)
  BY <1>2, <1>3 DEF Looked, If1
<1> QED BY <1>4 DEF r

LEMMA AddEffect ==
  ASSUME NEW d, Table(d), NEW i \in Vars, NEW t \in KnownEdges(d), NEW e \in KnownEdges(d),
         NEW new \in Pool, d[new] = NULL,
         \A m \in Live(d) : ~(d[m].index = i /\ d[m].T = t[1] /\ d[m].E = e)
  PROVE  LET added == [d EXCEPT ![new] = [index |-> i, T |-> t[1], E |-> e, ref |-> 1]]
         IN  Looked(d, Ref(Ref(added, t[1], 1), e[1], 1), new, i, t, e)
<1> DEFINE rec == [index |-> i, T |-> t[1], E |-> e, ref |-> 1]
           added == [d EXCEPT ![new] = rec]
<1>1. /\ d \in [Pool -> Records(Int) \cup {NULL}] /\ new \notin Live(d)
      /\ t[1] \in Known(d) /\ e[1] \in Known(d) /\ e \in Edges /\ t[1] \in Pool \cup {ONE}
  BY LiveFinite DEF Table, Live, Known, KnownEdges, Edges
<1>2. rec \in Records(Int) /\ rec # NULL
  BY <1>1, BddAssumption DEF Records
<1>3. added \in [Pool -> Records(Int) \cup {NULL}] /\ added[new] = rec
      /\ \A m \in Pool \ {new} : added[m] = d[m]
  BY <1>1, <1>2
<1> HIDE DEF added
<1>4. added[new].index = i /\ added[new].T = t[1] /\ added[new].E = e /\ added[new].ref = 1
  BY <1>3
<1> HIDE DEF rec
<1>5. Live(added) = Live(d) \cup {new}
  BY <1>2, <1>3 DEF Live
<1>6. \A m \in Live(d) : added[m] = d[m]
  BY <1>1, <1>3, LiveFinite
<1>7. Extends(d, added)
  BY <1>5, <1>6 DEF Extends
<1>8. Table(added)
  <2>1. \A m \in Live(d) : Children(added, m) = Children(d, m)
    BY <1>6 DEF Children
  <2>2. Children(added, new) \subseteq Live(d)
    BY <1>1, <1>4 DEF Children, Known
  <2> QED BY <1>3, <1>5, <2>1, <2>2 DEF Table
<1>9. /\ t[1] \in Known(added) /\ t[1] # new
      /\ e[1] \in Known(added) /\ e[1] # new
  BY <1>1, <1>5, BddAssumption DEF Known
<1> DEFINE r1 == Ref(added, t[1], 1)
           r2 == Ref(r1, e[1], 1)
<1>10. /\ Table(r1) /\ Live(r1) = Live(added) /\ Extends(added, r1)
       /\ \A m \in Live(added) : Excess(r1, m) = Excess(added, m) + IF m = t[1] THEN 1 ELSE 0
  BY <1>8, <1>9, RefEffect
<1>11. e[1] \in Known(r1)
  BY <1>9, <1>10 DEF Known
<1> HIDE DEF r1
<1>12. /\ Table(r2) /\ Live(r2) = Live(added) /\ Extends(r1, r2)
       /\ \A m \in Live(added) : Excess(r2, m) = Excess(r1, m) + IF m = e[1] THEN 1 ELSE 0
  BY <1>10, <1>11, RefEffect
<1> HIDE DEF r2
<1>13. Extends(added, r2)
  BY <1>10, <1>12 DEF Extends
<1>14. /\ Extends(d, r2)
       /\ r2[new].index = i /\ r2[new].T = t[1] /\ r2[new].E = e
  BY <1>4, <1>5, <1>7, <1>13 DEF Extends
<1>15. ASSUME NEW m \in Live(added)
       PROVE  /\ Excess(added, m) \in Int
              /\ Excess(r2, m) = Excess(added, m) + If1(m = t[1]) + If1(m = e[1])
  <2>1. RefsIn(added, m) \in Nat /\ added[m].ref \in Int
    BY <1>8, RefsInNat, LiveType
  <2>2. Excess(added, m) \in Int
    BY <2>1 DEF Excess
  <2>3. /\ Excess(r1, m) = Excess(added, m) + If1(m = t[1])
        /\ Excess(r2, m) = Excess(r1, m) + If1(m = e[1])
    BY <1>10, <1>12 DEF If1
  <2> QED BY <2>2, <2>3 DEF If1
<1>16. ASSUME NEW m
       PROVE  RefsIn(added, m) = RefsIn(d, m) + If1(t[1] = m) + If1(e[1] = m)
  <2>1. RefsIn(added, m) = RefsIn(d, m) + If1(added[new].T = m) + If1(added[new].E[1] = m)
    BY <1>1, <1>5, <1>7, AddedRefs
  <2> QED BY <2>1, <1>4
<1>17. ASSUME NEW m \in Live(d) PROVE Excess(r2, m) = Excess(d, m) + If1(m = new)
  <2>1. m \in Live(added) /\ m # new /\ added[m].ref = d[m].ref
    BY <1>1, <1>5, <1>6
  <2>2. RefsIn(d, m) \in Nat /\ d[m].ref \in Int
    BY RefsInNat, LiveType
  <2> QED BY <2>1, <2>2, <1>15, <1>16 DEF Excess, If1
<1>18. Excess(r2, new) = 1
  <2>1. new \in Live(added)
    BY <1>5
  <2>2. RefsIn(d, new) = 0
    <3>1. \A p \in Live(d) : d[p].T # new /\ d[p].E[1] # new
      <4> SUFFICES ASSUME NEW p \in Live(d) PROVE d[p].T # new /\ d[p].E[1] # new
        OBVIOUS
      <4>1. d[p].T \in Known(d) /\ d[p].E[1] \in Known(d)
        BY LiveType
      <4> QED BY <4>1, <1>1, BddAssumption DEF Known
    <3> QED BY <3>1, RefsInNat
  <2>3. RefsIn(added, new) = 0
    BY <2>2, <1>9, <1>16 DEF If1
  <2>4. Excess(added, new) = 1
    BY <2>3, <1>4 DEF Excess
  <2> QED BY <2>1, <2>4, <1>9, <1>15 DEF If1
<1>19. Looked(d, r2, new, i, t, e)
  BY <1>5, <1>12, <1>14, <1>17, <1>18 DEF Looked
<1> QED BY <1>19 DEF r2, r1, added, rec

LEMMA FindOrAddEffect ==
  ASSUME NEW d, Table(d), NEW i \in Vars, NEW t \in KnownEdges(d), NEW e \in KnownEdges(d),
         t[2] = FALSE, \E m \in Pool : d[m] = NULL
  PROVE  \E n \in Pool : /\ FindOrAdd(d, i, t, e).e = <<n, FALSE>>
                         /\ Looked(d, FindOrAdd(d, i, t, e).d, n, i, t, e)
<1> DEFINE same == {n \in Layer(d, i) : <<d[n].T, FALSE>> = t /\ d[n].E = e}
           c == FindOrAdd(d, i, t, e)
<1>1. \A j : <<j, FALSE>> = t <=> j = t[1]
  BY EdgeRegular DEF KnownEdges
<1>2. \A n \in Live(d) : n \in same <=> d[n].index = i /\ d[n].T = t[1] /\ d[n].E = e
  <2>2. \A n : n \in same <=> n \in Live(d) /\ d[n].index = i
                                /\ <<d[n].T, FALSE>> = t /\ d[n].E = e
    BY Zenon DEF Layer
  <2> HIDE DEF same
  <2> QED BY <1>1, <2>2, Zenon
<1>3. CASE same # {}
  <2> DEFINE n == CHOOSE n \in same : TRUE
  <2>1. n \in same /\ n \in Live(d)
    BY <1>3 DEF Layer
  <2>2. d[n].index = i /\ d[n].T = t[1] /\ d[n].E = e
    BY <2>1, <1>2
  <2>3. c = [d |-> Ref(d, n, 1), e |-> <<n, FALSE>>]
    BY <1>3 DEF FindOrAdd
  <2> HIDE DEF n, c
  <2>4. Looked(d, Ref(d, n, 1), n, i, t, e)
    BY <2>1, <2>2, FoundEffect
  <2>5. n \in Pool
    BY <2>1, LiveType
  <2>6. c.e = <<n, FALSE>> /\ c.d = Ref(d, n, 1)
    BY <2>3
  <2>7. \E m \in Pool : c.e = <<m, FALSE>> /\ Looked(d, c.d, m, i, t, e)
    BY <2>4, <2>5, <2>6
  <2> QED BY <2>7 DEF c
<1>4. CASE same = {}
  <2> DEFINE new == FreeNode(d)
             added == [d EXCEPT ![new] = [index |-> i, T |-> t[1], E |-> e, ref |-> 1]]
  <2>1. new \in Pool /\ d[new] = NULL
    BY DEF FreeNode
  <2>2. \A m \in Live(d) : ~(d[m].index = i /\ d[m].T = t[1] /\ d[m].E = e)
    BY <1>2, <1>4
  <2>3. c = [d |-> Ref(Ref(added, t[1], 1), e[1], 1), e |-> <<new, FALSE>>]
    BY <1>4 DEF FindOrAdd
  <2> HIDE DEF new, c
  <2>4. Looked(d, Ref(Ref(added, t[1], 1), e[1], 1), new, i, t, e)
    BY <2>1, <2>2, AddEffect
  <2> HIDE DEF added
  <2>6. c.e = <<new, FALSE>> /\ c.d = Ref(Ref(added, t[1], 1), e[1], 1)
    BY <2>3
  <2>7. \E m \in Pool : c.e = <<m, FALSE>> /\ Looked(d, c.d, m, i, t, e)
    BY <2>1, <2>4, <2>6
  <2> QED BY <2>7 DEF c
<1> QED BY <1>3, <1>4

LEMMA KnownIndex ==
  ASSUME NEW d, Table(d), NEW n \in Known(d), NEW d2, Extends(d, d2)
  PROVE  /\ index(d2, n) = index(d, n) /\ n \in Known(d2)
         /\ n = ONE => index(d, n) \notin Vars
         /\ n # ONE => n \in Live(d) /\ index(d, n) = d[n].index
<1>1. N \notin Vars
  BY BddAssumption DEF Vars
<1> QED BY <1>1 DEF Known, index, Extends

LEMMA CofactorsExtend ==
  ASSUME NEW d, Table(d), NEW d2, Extends(d, d2), NEW e \in KnownEdges(d), NEW i \in Vars
  PROVE  Cofactors(d2, e, i) = Cofactors(d, e, i)
<1>1. e[1] \in Known(d)
  BY DEF KnownEdges
<1>2. index(d2, e[1]) = index(d, e[1])
  BY <1>1, KnownIndex
<1>3. CASE index(d, e[1]) # i
  BY <1>2, <1>3 DEF Cofactors
<1>4. CASE index(d, e[1]) = i
  <2>1. e[1] \in Live(d)
    BY <1>1, <1>4, KnownIndex DEF Extends
  <2>2. d2[e[1]].T = d[e[1]].T /\ d2[e[1]].E = d[e[1]].E
    BY <2>1 DEF Extends
  <2> QED BY <2>2, <1>2, <1>4, Zenon DEF Cofactors
<1> QED BY <1>3, <1>4

\* The edge c of d2 with the cofactors t and e by i, found or made.
Made(d, d2, c, i, t, e) ==
    /\ Table(d2) /\ Extends(d, d2) /\ c \in KnownEdges(d2)
    /\ Live(d2) \subseteq Live(d) \cup {c[1]}
    /\ Cofactors(d2, c, i) = <<t, e>>
    /\ t = e => c = t /\ Live(d2) = Live(d)
    /\ t # e => c[1] \in Live(d2) /\ d2[c[1]].index = i
    /\ t[2] = FALSE => c[2] = FALSE
    /\ c[1] \notin Known(d) =>
          /\ c[1] \in Live(d2) /\ d2[c[1]].index = i
          /\ d2[c[1]].T = t[1] /\ d2[c[1]].E[1] = e[1]
          /\ <<d2[c[1]].T, FALSE>> # d2[c[1]].E
          /\ \A m \in Live(d) :
                ~(d[m].index = i /\ d[m].T = d2[c[1]].T /\ d[m].E = d2[c[1]].E)
          /\ Excess(d2, c[1]) = 1
    /\ \A m \in Live(d) : Excess(d2, m) = Excess(d, m) + If1(m = c[1])

LEMMA SameCofactors ==
  ASSUME NEW d, Table(d), NEW i \in Vars, NEW t \in KnownEdges(d), index(d, t[1]) # i
  PROVE  Made(d, Ref(d, t[1], 1), t, i, t, t)
<1> DEFINE r == Ref(d, t[1], 1)
<1>1. t[1] \in Known(d)
  BY DEF KnownEdges
<1>2. /\ Table(r) /\ Live(r) = Live(d) /\ Extends(d, r)
      /\ \A m \in Live(d) : Excess(r, m) = Excess(d, m) + IF m = t[1] THEN 1 ELSE 0
  BY <1>1, RefEffect
<1> HIDE DEF r
<1>3. Cofactors(r, t, i) = <<t, t>>
  BY <1>1, <1>2, KnownIndex DEF Cofactors
<1>4. t \in KnownEdges(r)
  BY <1>2 DEF KnownEdges, Known
<1>5. Made(d, r, t, i, t, t)
  BY <1>1, <1>2, <1>3, <1>4 DEF Made, If1
<1> QED BY <1>5 DEF r

LEMMA LookedMade ==
  ASSUME NEW d, Table(d), NEW i \in Vars, NEW t \in KnownEdges(d), NEW e \in KnownEdges(d),
         t # e, NEW n \in Pool, NEW d2,
         NEW c, \/ t[2] = FALSE /\ c = <<n, FALSE>> /\ Looked(d, d2, n, i, t, e)
                \/ t[2] = TRUE /\ c = <<n, TRUE>> /\ Looked(d, d2, n, i, Not(t), Not(e))
  PROVE  Made(d, d2, c, i, t, e)
<1>1. /\ Table(d2) /\ Extends(d, d2) /\ n \in Live(d2) /\ d2[n].index = i
      /\ Live(d2) \subseteq Live(d) \cup {n}
      /\ \A m \in Live(d) : Excess(d2, m) = Excess(d, m) + If1(m = n)
      /\ n \notin Live(d) => Excess(d2, n) = 1
  BY DEF Looked
<1>2. /\ n # ONE /\ index(d2, n) = i /\ (n \in Known(d) <=> n \in Live(d))
  BY <1>1, BddAssumption DEF index, Known
<1>3. c[1] = n /\ c \in KnownEdges(d2)
  <2>1. /\ <<n, FALSE>>[1] = n /\ <<n, FALSE>> \in KnownEdges(d2)
        /\ <<n, TRUE>>[1] = n /\ <<n, TRUE>> \in KnownEdges(d2)
    BY <1>1 DEF KnownEdges, Known
  <2> QED BY <2>1, Zenon
<1>4. Not(t)[1] = t[1] /\ Not(e)[1] = e[1] /\ Not(Not(e)) = e
      /\ Not(t) \in KnownEdges(d) /\ Not(e) \in KnownEdges(d)
  BY EdgeNot DEF KnownEdges
<1>5. d2[n].T = t[1] /\ d2[n].E[1] = e[1]
  BY <1>4 DEF Looked
<1>6. n \notin Live(d) => \A m \in Live(d) :
         ~(d[m].index = i /\ d[m].T = d2[n].T /\ d[m].E = d2[n].E)
  BY DEF Looked
<1>7. /\ Cofactors(d2, c, i) = <<t, e>> /\ <<d2[n].T, FALSE>> # d2[n].E
      /\ (t[2] = FALSE => c[2] = FALSE)
  <2>1. CASE t[2] = FALSE /\ c = <<n, FALSE>> /\ Looked(d, d2, n, i, t, e)
    <3>1. d2[n].T = t[1] /\ d2[n].E = e
      BY <2>1 DEF Looked
    <3>2. <<t[1], FALSE>> = t
      BY <2>1, EdgeRegular DEF KnownEdges
    <3>3. NotIf(e, FALSE) = e
      BY EdgeNot DEF KnownEdges
    <3>4. /\ <<n, FALSE>>[1] = n /\ <<n, FALSE>>[2] = FALSE
      OBVIOUS
    <3>5. Cofactors(d2, <<n, FALSE>>, i) = << <<d2[n].T, FALSE>>, NotIf(d2[n].E, FALSE)>>
      BY <1>2 DEF Cofactors
    <3>6. Cofactors(d2, c, i) = <<t, e>>
      BY <2>1, <3>1, <3>2, <3>3, <3>5, Zenon
    <3>7. <<d2[n].T, FALSE>> # d2[n].E
      BY <3>1, <3>2, Zenon
    <3> QED BY <2>1, <3>4, <3>6, <3>7, Zenon
  <2>2. CASE t[2] = TRUE /\ c = <<n, TRUE>> /\ Looked(d, d2, n, i, Not(t), Not(e))
    <3>1. d2[n].T = t[1] /\ d2[n].E = Not(e)
      BY <1>4, <2>2 DEF Looked
    <3>2. <<t[1], FALSE>> = Not(t) /\ <<t[1], TRUE>> = t
      <4>1. Not(t)[2] = FALSE
        BY <2>2, EdgeNot DEF KnownEdges
      <4>2. <<t[1], FALSE>> = Not(t)
        BY <4>1, <1>4, EdgeRegular DEF KnownEdges
      <4>3. Not(<<t[1], FALSE>>) = <<t[1], TRUE>>
        BY DEF Not
      <4>4. Not(Not(t)) = t
        BY EdgeNot DEF KnownEdges
      <4> QED BY <4>2, <4>3, <4>4, Zenon
    <3>3. NotIf(Not(e), TRUE) = e
      <4>1. NotIf(Not(e), TRUE) = Not(Not(e))
        BY <1>4, EdgeNot, ZenonT(30) DEF KnownEdges
      <4> QED BY <4>1, <1>4
    <3>5. Cofactors(d2, <<n, TRUE>>, i) = << <<d2[n].T, TRUE>>, NotIf(d2[n].E, TRUE)>>
      BY <1>2 DEF Cofactors
    <3>6. Cofactors(d2, c, i) = <<t, e>>
      BY <2>2, <3>1, <3>2, <3>3, <3>5, Zenon
    <3>7. <<d2[n].T, FALSE>> # d2[n].E
      <4>1. Not(t) # Not(e)
        <5>1. Not(Not(t)) = t
          BY EdgeNot DEF KnownEdges
        <5> QED BY <5>1, <1>4, Zenon
      <4> QED BY <3>1, <3>2, <4>1, Zenon
    <3>8. ~(t[2] = FALSE)
      BY <2>2
    <3> QED BY <3>6, <3>7, <3>8, Zenon
  <2> QED BY <2>1, <2>2
<1> QED BY <1>1, <1>2, <1>3, <1>5, <1>6, <1>7, Zenon DEF Made

LEMMA ChildEffect ==
  ASSUME NEW d, Table(d), NEW i \in Vars, NEW t \in KnownEdges(d), NEW e \in KnownEdges(d),
         index(d, t[1]) # i, \E m \in Pool : d[m] = NULL
  PROVE  Made(d, Child(d, i, t, e).d, Child(d, i, t, e).e, i, t, e)
<1>1. CASE t = e
  <2>1. Child(d, i, t, e) = [d |-> Ref(d, t[1], 1), e |-> t]
    BY <1>1 DEF Child
  <2>2. Child(d, i, t, e).d = Ref(d, t[1], 1) /\ Child(d, i, t, e).e = t
    BY <2>1
  <2> QED BY <1>1, <2>2, SameCofactors
<1>2. CASE t # e /\ t[2] = FALSE
  <2>1. Child(d, i, t, e) = FindOrAdd(d, i, t, e)
    BY <1>2 DEF Child
  <2>2. PICK n \in Pool : /\ FindOrAdd(d, i, t, e).e = <<n, FALSE>>
                         /\ Looked(d, FindOrAdd(d, i, t, e).d, n, i, t, e)
    BY <1>2, FindOrAddEffect
  <2> QED BY <1>2, <2>1, <2>2, LookedMade
<1>3. CASE t # e /\ t[2] = TRUE
  <2> DEFINE c == FindOrAdd(d, i, Not(t), Not(e))
  <2>1. Child(d, i, t, e) = [d |-> c.d, e |-> Not(c.e)]
    BY <1>3 DEF Child
  <2>2. /\ Not(t) \in KnownEdges(d) /\ Not(e) \in KnownEdges(d) /\ Not(t)[2] = FALSE
    BY <1>3, EdgeNot DEF KnownEdges
  <2>3. PICK n \in Pool : c.e = <<n, FALSE>> /\ Looked(d, c.d, n, i, Not(t), Not(e))
    BY <2>2, FindOrAddEffect
  <2> HIDE DEF c
  <2>4. Child(d, i, t, e).d = c.d /\ Child(d, i, t, e).e = Not(c.e)
    BY <2>1
  <2>5. Not(<<n, FALSE>>) = <<n, TRUE>>
    BY DEF Not
  <2>6. Child(d, i, t, e).e = <<n, TRUE>>
    BY <2>3, <2>4, <2>5, Zenon
  <2>7. Made(d, c.d, <<n, TRUE>>, i, t, e)
    BY <1>3, <2>3, LookedMade
  <2> QED BY <2>4, <2>6, <2>7, Zenon
<1>4. t[2] = FALSE \/ t[2] = TRUE
  <2>1. t[2] \in BOOLEAN
    BY DEF KnownEdges
  <2> QED BY <2>1
<1> QED BY <1>1, <1>2, <1>3, <1>4

-----------------------------------------------------------------------------
(* One node of the chain *)

\* The cofactors of the children of f by the variable of the lower level.
Then(d, f, yi) == Cofactors(d, <<d[f].T, FALSE>>, yi)
Else(d, f, yi) == Cofactors(d, d[f].E, yi)

\* d2 is d with f rebuilt over the edges c1 and c0, nodes of which may be new.
Rebuilt(d, d2, f, xi, yi, c1, c0) ==
    /\ Table(d2) /\ c1 \in KnownEdges(d2) /\ c0 \in KnownEdges(d2) /\ c1[2] = FALSE
    /\ Live(d2) \subseteq Live(d) \cup {c1[1], c0[1]}
    /\ \A n \in Live(d) : /\ n \in Live(d2) /\ d2[n].index = d[n].index
                          /\ n # f => d2[n].T = d[n].T /\ d2[n].E = d[n].E
    /\ d2[f].T = c1[1] /\ d2[f].E = c0
    /\ Cofactors(d2, c1, xi) = <<Then(d, f, yi)[1], Else(d, f, yi)[1]>>
    /\ Cofactors(d2, c0, xi) = <<Then(d, f, yi)[2], Else(d, f, yi)[2]>>
    /\ IF Then(d, f, yi)[1] = Else(d, f, yi)[1] THEN c1 = Then(d, f, yi)[1]
       ELSE c1[1] \in Live(d2) /\ d2[c1[1]].index = xi
    /\ IF Then(d, f, yi)[2] = Else(d, f, yi)[2] THEN c0 = Then(d, f, yi)[2]
       ELSE c0[1] \in Live(d2) /\ d2[c0[1]].index = xi
    /\ \A n \in Live(d2) \ Live(d) :
          /\ d2[n].index = xi /\ <<d2[n].T, FALSE>> # d2[n].E
          /\ \/ n = c1[1] /\ d2[n].T = Then(d, f, yi)[1][1] /\ d2[n].E[1] = Else(d, f, yi)[1][1]
             \/ n = c0[1] /\ d2[n].T = Then(d, f, yi)[2][1] /\ d2[n].E[1] = Else(d, f, yi)[2][1]
          /\ \A m \in Live(d2) \ {n} :
                ~(d2[m].index = xi /\ d2[m].T = d2[n].T /\ d2[m].E = d2[n].E)
          /\ Excess(d2, n) = 0
    /\ \A n \in Live(d) : Excess(d2, n) = Excess(d, n)

LEMMA ExtendsTransitive ==
  ASSUME NEW d, NEW d1, NEW d2, Extends(d, d1), Extends(d1, d2)
  PROVE  Extends(d, d2)
BY DEF Extends

\* The references when f gets other children.
LEMMA MovedRefs ==
  ASSUME NEW d, NEW d2, NEW f \in Live(d), Live(d2) = Live(d),
         \A n \in Live(d) \ {f} : d2[n].T = d[n].T /\ d2[n].E = d[n].E, NEW n
  PROVE  RefsIn(d2, n) = RefsIn(d, n) - If1(d[f].T = n) - If1(d[f].E[1] = n)
                           + If1(d2[f].T = n) + If1(d2[f].E[1] = n)
<1> DEFINE P == {p \in Live(d) \ {f} : d[p].T = n}
           Q == {p \in Live(d) \ {f} : d[p].E[1] = n}
<1>1. /\ {p \in Live(d) : d[p].T = n} = IF d[f].T = n THEN P \cup {f} ELSE P
      /\ {p \in Live(d) : d[p].E[1] = n} = IF d[f].E[1] = n THEN Q \cup {f} ELSE Q
      /\ {p \in Live(d2) : d2[p].T = n} = IF d2[f].T = n THEN P \cup {f} ELSE P
      /\ {p \in Live(d2) : d2[p].E[1] = n} = IF d2[f].E[1] = n THEN Q \cup {f} ELSE Q
  OBVIOUS
<1>2. IsFiniteSet(P) /\ IsFiniteSet(Q) /\ f \notin P /\ f \notin Q
  <2>1. P \subseteq Live(d) /\ Q \subseteq Live(d)
    OBVIOUS
  <2> QED BY <2>1, LiveFinite, FS_Subset
<1>3. /\ Cardinality(P \cup {f}) = Cardinality(P) + 1 /\ Cardinality(P) \in Nat
      /\ Cardinality(Q \cup {f}) = Cardinality(Q) + 1 /\ Cardinality(Q) \in Nat
  BY <1>2, FS_AddElement, FS_CardinalityType
<1>4. RefsIn(d, n) = Cardinality(IF d[f].T = n THEN P \cup {f} ELSE P)
                       + Cardinality(IF d[f].E[1] = n THEN Q \cup {f} ELSE Q)
  BY <1>1 DEF RefsIn
<1>5. RefsIn(d2, n) = Cardinality(IF d2[f].T = n THEN P \cup {f} ELSE P)
                        + Cardinality(IF d2[f].E[1] = n THEN Q \cup {f} ELSE Q)
  BY <1>1 DEF RefsIn
<1> HIDE DEF P, Q
<1>6. /\ RefsIn(d, n) = Cardinality(P) + If1(d[f].T = n) + Cardinality(Q) + If1(d[f].E[1] = n)
      /\ RefsIn(d2, n) = Cardinality(P) + If1(d2[f].T = n) + Cardinality(Q) + If1(d2[f].E[1] = n)
  BY <1>3, <1>4, <1>5 DEF If1
<1> QED BY <1>3, <1>6 DEF If1

LEMMA SetChildren ==
  ASSUME NEW d, Table(d), NEW f \in Live(d), NEW t \in Known(d), NEW e \in KnownEdges(d),
         NEW d2 \in [Pool -> Records(Int) \cup {NULL}], \A n \in Pool \ {f} : d2[n] = d[n],
         d2[f] # NULL, d2[f].T = t, d2[f].E = e
  PROVE  /\ Table(d2) /\ Live(d2) = Live(d)
         /\ \A n \in Live(d) : n # f => d2[n] = d[n]
<1>1. f \in Pool /\ e[1] \in Known(d)
  BY LiveFinite DEF KnownEdges
<1>2. Live(d2) = Live(d)
  BY <1>1 DEF Live
<1>3. \A n \in Live(d) : n # f => d2[n] = d[n]
  BY LiveFinite
<1>4. Children(d2, f) \subseteq Live(d)
  BY <1>1 DEF Children, Known
<1>5. \A n \in Live(d) : n # f => Children(d2, n) = Children(d, n)
  BY <1>3 DEF Children
<1> QED BY <1>2, <1>3, <1>4, <1>5 DEF Table

LEMMA CofactorsKnown ==
  ASSUME NEW d, Table(d), NEW e \in KnownEdges(d), NEW i \in Vars
  PROVE  /\ Cofactors(d, e, i)[1] \in KnownEdges(d) /\ Cofactors(d, e, i)[2] \in KnownEdges(d)
         /\ index(d, e[1]) # i => Cofactors(d, e, i)[1] = e /\ Cofactors(d, e, i)[2] = e
         /\ index(d, e[1]) = i => /\ e[1] \in Live(d) /\ d[e[1]].index = i
                                  /\ Cofactors(d, e, i)[1][1] = d[e[1]].T
                                  /\ Cofactors(d, e, i)[2][1] = d[e[1]].E[1]
<1>1. e[1] \in Known(d) /\ e[2] \in BOOLEAN
  BY DEF KnownEdges
<1>2. CASE index(d, e[1]) # i
  BY <1>2 DEF Cofactors
<1>3. CASE index(d, e[1]) = i
  <2>1. e[1] \in Live(d) /\ d[e[1]].index = i
    BY <1>1, <1>3, KnownIndex DEF Extends
  <2>2. d[e[1]].T \in Known(d) /\ d[e[1]].E \in KnownEdges(d)
    BY <2>1, LiveType
  <2>3. Cofactors(d, e, i) = << <<d[e[1]].T, e[2]>>, NotIf(d[e[1]].E, e[2])>>
    BY <1>3 DEF Cofactors
  <2>4. NotIf(d[e[1]].E, e[2]) \in KnownEdges(d) /\ NotIf(d[e[1]].E, e[2])[1] = d[e[1]].E[1]
    <3> DEFINE g == d[e[1]].E
               b == e[2]
    <3>1. g \in Known(d) \X BOOLEAN /\ b \in BOOLEAN
      BY <1>1, <2>2 DEF KnownEdges
    <3> HIDE DEF g, b
    <3>2. NotIf(g, b) \in Known(d) \X BOOLEAN /\ NotIf(g, b)[1] = g[1]
      BY <3>1, EdgeNotIf
    <3> QED BY <3>2 DEF g, b, KnownEdges
  <2>5. <<d[e[1]].T, e[2]>> \in KnownEdges(d)
    BY <1>1, <2>2 DEF KnownEdges
  <2>6. <<d[e[1]].T, e[2]>>[1] = d[e[1]].T /\ <<d[e[1]].T, e[2]>>[2] = e[2]
    OBVIOUS
  <2>7. /\ Cofactors(d, e, i)[1] = <<d[e[1]].T, e[2]>>
        /\ Cofactors(d, e, i)[2] = NotIf(d[e[1]].E, e[2])
    BY <2>3
  <2> QED BY <1>3, <2>1, <2>3, <2>4, <2>5, <2>6, <2>7, Zenon
<1> QED BY <1>2, <1>3

LEMMA CofactorsRegular ==
  ASSUME NEW d, NEW e, NEW i, e[2] = FALSE
  PROVE  Cofactors(d, e, i)[1][2] = FALSE
<1>1. CASE index(d, e[1]) # i
  BY <1>1 DEF Cofactors
<1>2. CASE index(d, e[1]) = i
  BY <1>2 DEF Cofactors
<1> QED BY <1>1, <1>2

LEMMA TwoFree ==
  ASSUME NEW d, Cardinality({n \in Pool : d[n] = NULL}) >= 2
  PROVE  \E m, n \in Pool : m # n /\ d[m] = NULL /\ d[n] = NULL
<1> DEFINE F == {n \in Pool : d[n] = NULL}
<1>1. IsFiniteSet(F)
  BY BddAssumption, FS_Subset
<1>2. F # {}
  BY FS_EmptySet
<1>3. PICK m \in F : TRUE
  BY <1>2
<1>4. F # {m}
  <2>1. Cardinality({m}) = 1
    BY FS_Singleton
  <2> QED BY <2>1
<1>5. PICK n \in F : n # m
  BY <1>3, <1>4
<1> QED BY <1>3, <1>5

\* f is over the lower variable already, its children are as they were.
Chained(d, f, xi, yi) ==
    /\ f \in Live(d) /\ d[f].index = yi /\ f \notin Children(d, f)
    /\ \A c \in Children(d, f) :
          /\ d[c].index # xi
          /\ d[c].index = yi => \A k \in Children(d, c) : d[k].index # xi

LEMMA ChainedCofactors ==
  ASSUME NEW d, Table(d), NEW xi \in Vars, NEW yi \in Vars, xi # yi, NEW f, Chained(d, f, xi, yi)
  PROVE  /\ Then(d, f, yi)[1] \in KnownEdges(d) /\ Then(d, f, yi)[2] \in KnownEdges(d)
         /\ Else(d, f, yi)[1] \in KnownEdges(d) /\ Else(d, f, yi)[2] \in KnownEdges(d)
         /\ index(d, Then(d, f, yi)[1][1]) # xi /\ index(d, Then(d, f, yi)[2][1]) # xi
         /\ index(d, Else(d, f, yi)[1][1]) # xi /\ index(d, Else(d, f, yi)[2][1]) # xi
         /\ <<d[f].T, FALSE>> \in KnownEdges(d) /\ d[f].E \in KnownEdges(d)
<1>1. f \in Live(d)
  BY DEF Chained
<1>2. /\ d[f].T \in Known(d) /\ d[f].E \in KnownEdges(d) /\ d[f].E[1] \in Known(d)
  BY <1>1, LiveType
<1>3. <<d[f].T, FALSE>> \in KnownEdges(d) /\ <<d[f].T, FALSE>>[1] = d[f].T
  BY <1>2 DEF KnownEdges
<1>4. ASSUME NEW e \in KnownEdges(d), e[1] \in {d[f].T, d[f].E[1]}
      PROVE  /\ index(d, Cofactors(d, e, yi)[1][1]) # xi
             /\ index(d, Cofactors(d, e, yi)[2][1]) # xi
  <2>1. ASSUME NEW n \in Known(d), n # ONE => d[n].index # xi PROVE index(d, n) # xi
    BY <2>1, KnownIndex DEF Extends
  <2>2. e[1] \in Known(d) /\ (e[1] # ONE => e[1] \in Children(d, f))
    BY <1>4 DEF KnownEdges, Children
  <2>3. CASE index(d, e[1]) # yi
    <3>1. Cofactors(d, e, yi)[1] = e /\ Cofactors(d, e, yi)[2] = e
      BY <2>3, CofactorsKnown
    <3> QED BY <2>1, <2>2, <3>1 DEF Chained
  <2>4. CASE index(d, e[1]) = yi
    <3>1. /\ Cofactors(d, e, yi)[1][1] = d[e[1]].T /\ Cofactors(d, e, yi)[2][1] = d[e[1]].E[1]
          /\ e[1] \in Live(d)
      BY <2>4, CofactorsKnown
    <3>2. e[1] # ONE /\ d[e[1]].index = yi
      BY <3>1, <2>4, LiveType DEF index
    <3>3. /\ d[e[1]].T \in Known(d) /\ d[e[1]].E[1] \in Known(d)
      BY <3>1, LiveType
    <3>4. \A k \in Children(d, e[1]) : d[k].index # xi
      BY <2>2, <3>2 DEF Chained
    <3> QED BY <2>1, <3>1, <3>3, <3>4 DEF Children
  <2> QED BY <2>3, <2>4
<1>6. /\ Then(d, f, yi)[1] \in KnownEdges(d) /\ Then(d, f, yi)[2] \in KnownEdges(d)
      /\ Else(d, f, yi)[1] \in KnownEdges(d) /\ Else(d, f, yi)[2] \in KnownEdges(d)
  BY <1>2, <1>3, CofactorsKnown DEF Then, Else
<1>7. /\ index(d, Then(d, f, yi)[1][1]) # xi /\ index(d, Then(d, f, yi)[2][1]) # xi
      /\ index(d, Else(d, f, yi)[1][1]) # xi /\ index(d, Else(d, f, yi)[2][1]) # xi
  BY <1>2, <1>3, <1>4 DEF Then, Else
<1> QED BY <1>2, <1>3, <1>6, <1>7

LEMMA KnownExtends ==
  ASSUME NEW d, NEW d2, Extends(d, d2)
  PROVE  /\ Known(d) \subseteq Known(d2) /\ KnownEdges(d) \subseteq KnownEdges(d2)
         /\ Live(d) \subseteq Live(d2)
BY DEF Extends, Known, KnownEdges

LEMMA ReExpressedEffect ==
  ASSUME NEW d, Table(d), NEW xi \in Vars, NEW yi \in Vars, xi # yi, NEW f, Chained(d, f, xi, yi),
         Cardinality({n \in Pool : d[n] = NULL}) >= 2
  PROVE  \E c1, c0 : Rebuilt(d, ReExpressed(d, f, xi, yi), f, xi, yi, c1, c0)
<1> DEFINE t1 == Then(d, f, yi)[1]
           t0 == Then(d, f, yi)[2]
           e1 == Else(d, f, yi)[1]
           e0 == Else(d, f, yi)[2]
           n1 == d[f].T
           n0 == d[f].E[1]
           d1 == Ref(d, n1, -1)
           A  == Child(d1, xi, t1, e1)
           d2 == Ref(A.d, n0, -1)
           B  == Child(d2, xi, t0, e0)
           d3 == [B.d EXCEPT ![f].T = A.e[1], ![f].E = B.e]
<1>1. ReExpressed(d, f, xi, yi) = d3
  <2>1. <<n1, FALSE>>[1] = n1
    OBVIOUS
  <2> QED BY <2>1 DEF ReExpressed, Then, Else
<1>2. /\ t1 \in KnownEdges(d) /\ t0 \in KnownEdges(d) /\ e1 \in KnownEdges(d) /\ e0 \in KnownEdges(d)
      /\ index(d, t1[1]) # xi /\ index(d, t0[1]) # xi
  BY ChainedCofactors
<1>3. t1[2] = FALSE
  BY CofactorsRegular DEF Then
<1>4. /\ f \in Live(d) /\ n1 \in Known(d) /\ n0 \in Known(d) /\ d[f].index = yi
      /\ n1 # f /\ n0 # f /\ f # ONE /\ f \in Pool
  BY LiveType DEF Chained, Children
<1> HIDE DEF t1, t0, e1, e0, n1, n0
<1>5. /\ Table(d1) /\ Live(d1) = Live(d) /\ Extends(d, d1)
      /\ \A m \in Live(d) : Excess(d1, m) = Excess(d, m) + IF m = n1 THEN -1 ELSE 0
  BY <1>4, RefEffect
<1> HIDE DEF d1
<1>6. PICK p \in Pool, q \in Pool : p # q /\ p \notin Live(d) /\ q \notin Live(d)
  BY TwoFree DEF Live
<1>7. Made(d1, A.d, A.e, xi, t1, e1)
  <2>1. t1 \in KnownEdges(d1) /\ e1 \in KnownEdges(d1)
    BY <1>2, <1>5, KnownExtends
  <2>2. index(d1, t1[1]) # xi
    <3>1. t1[1] \in Known(d)
      BY <1>2 DEF KnownEdges
    <3> QED BY <1>2, <1>5, <3>1, KnownIndex
  <2>3. \E m \in Pool : d1[m] = NULL
    BY <1>5, <1>6 DEF Live
  <2> QED BY <1>5, <2>1, <2>2, <2>3, ChildEffect
<1> HIDE DEF A
<1> DEFINE a == A.d
           c1 == A.e
<1> HIDE DEF a, c1
<1>8. Made(d1, a, c1, xi, t1, e1)
  BY <1>7 DEF a, c1
<1>9. /\ Table(a) /\ Extends(d, a) /\ c1 \in KnownEdges(a) /\ Live(a) \subseteq Live(d) \cup {c1[1]}
      /\ \A m \in Live(d) : Excess(a, m) = Excess(d1, m) + If1(m = c1[1])
      /\ \A m \in Live(a) \ Live(d) :
            /\ m = c1[1] /\ a[m].index = xi /\ a[m].T = t1[1] /\ a[m].E[1] = e1[1]
            /\ <<a[m].T, FALSE>> # a[m].E /\ Excess(a, m) = 1
            /\ \A k \in Live(d) : ~(d[k].index = xi /\ d[k].T = a[m].T /\ d[k].E = a[m].E)
  <2>1. /\ Table(a) /\ Extends(d1, a) /\ c1 \in KnownEdges(a) /\ Live(a) \subseteq Live(d1) \cup {c1[1]}
        /\ \A m \in Live(d1) : Excess(a, m) = Excess(d1, m) + If1(m = c1[1])
        /\ c1[1] \notin Known(d1) =>
             /\ c1[1] \in Live(a) /\ a[c1[1]].index = xi
             /\ a[c1[1]].T = t1[1] /\ a[c1[1]].E[1] = e1[1]
             /\ <<a[c1[1]].T, FALSE>> # a[c1[1]].E
             /\ \A m \in Live(d1) :
                   ~(d1[m].index = xi /\ d1[m].T = a[c1[1]].T /\ d1[m].E = a[c1[1]].E)
             /\ Excess(a, c1[1]) = 1
    BY <1>8, Zenon DEF Made
  <2>2. Extends(d, a)
    BY <1>5, <2>1, ExtendsTransitive
  <2>3. \A m \in Live(a) \ Live(d) : m = c1[1] /\ m \notin Known(d1)
    BY <1>5, <2>1, LiveType DEF Known
  <2>4. \A k \in Live(d) : d1[k].index = d[k].index /\ d1[k].T = d[k].T /\ d1[k].E = d[k].E
    BY <1>5 DEF Extends
  <2> HIDE DEF n1
  <2> QED BY <1>5, <2>1, <2>2, <2>3, <2>4, Zenon
<1>10. /\ Cofactors(a, c1, xi) = <<t1, e1>> /\ c1[2] = FALSE
       /\ t1 = e1 => c1 = t1 /\ Live(a) = Live(d)
       /\ t1 # e1 => c1[1] \in Live(a) /\ a[c1[1]].index = xi
  BY <1>3, <1>5, <1>8, Zenon DEF Made
<1>11. n0 \in Known(a)
  BY <1>4, <1>9, KnownExtends
<1> DEFINE r == Ref(a, n0, -1)
<1>12. /\ Table(r) /\ Live(r) = Live(a) /\ Extends(a, r)
       /\ \A m \in Live(a) : Excess(r, m) = Excess(a, m) + IF m = n0 THEN -1 ELSE 0
  BY <1>9, <1>11, RefEffect
<1>13. d2 = r
  BY DEF a
<1> HIDE DEF d2, r
<1>14. Made(r, B.d, B.e, xi, t0, e0)
  <2>1. Extends(d, r)
    BY <1>9, <1>12, ExtendsTransitive
  <2>2. t0 \in KnownEdges(r) /\ e0 \in KnownEdges(r)
    BY <1>2, <2>1, KnownExtends
  <2>3. index(r, t0[1]) # xi
    <3>1. t0[1] \in Known(d)
      BY <1>2 DEF KnownEdges
    <3> QED BY <1>2, <2>1, <3>1, KnownIndex
  <2>4. \E m \in Pool : r[m] = NULL
    <3>1. p \notin Live(r) \/ q \notin Live(r)
      BY <1>6, <1>9, <1>12
    <3> QED BY <3>1 DEF Live
  <2>5. B = Child(r, xi, t0, e0)
    BY <1>13
  <2> HIDE DEF B
  <2> QED BY <1>12, <2>2, <2>3, <2>4, <2>5, ChildEffect
<1> HIDE DEF B
<1> DEFINE b == B.d
           c0 == B.e
<1> HIDE DEF b, c0
<1>15. Made(r, b, c0, xi, t0, e0)
  BY <1>14 DEF b, c0
<1>16. d3 = [b EXCEPT ![f].T = c1[1], ![f].E = c0]
  BY DEF b, c0, c1
<1>17. /\ Table(b) /\ Extends(r, b) /\ c0 \in KnownEdges(b) /\ Live(b) \subseteq Live(a) \cup {c0[1]}
       /\ \A m \in Live(a) : Excess(b, m) = Excess(r, m) + If1(m = c0[1])
       /\ \A m \in Live(b) \ Live(a) :
             /\ m = c0[1] /\ b[m].index = xi /\ b[m].T = t0[1] /\ b[m].E[1] = e0[1]
             /\ <<b[m].T, FALSE>> # b[m].E /\ Excess(b, m) = 1
             /\ \A k \in Live(a) : ~(b[k].index = xi /\ b[k].T = b[m].T /\ b[k].E = b[m].E)
  <2>1. /\ Table(b) /\ Extends(r, b) /\ c0 \in KnownEdges(b) /\ Live(b) \subseteq Live(r) \cup {c0[1]}
        /\ \A m \in Live(r) : Excess(b, m) = Excess(r, m) + If1(m = c0[1])
        /\ c0[1] \notin Known(r) =>
             /\ c0[1] \in Live(b) /\ b[c0[1]].index = xi
             /\ b[c0[1]].T = t0[1] /\ b[c0[1]].E[1] = e0[1]
             /\ <<b[c0[1]].T, FALSE>> # b[c0[1]].E
             /\ \A m \in Live(r) :
                   ~(r[m].index = xi /\ r[m].T = b[c0[1]].T /\ r[m].E = b[c0[1]].E)
             /\ Excess(b, c0[1]) = 1
    BY <1>15, Zenon DEF Made
  <2>3. \A m \in Live(b) \ Live(a) : m = c0[1] /\ m \notin Known(r)
    BY <1>12, <2>1, LiveType DEF Known
  <2>4. \A k \in Live(a) : r[k].index = b[k].index /\ r[k].T = b[k].T /\ r[k].E = b[k].E
    BY <1>12, <2>1 DEF Extends
  <2> QED BY <1>12, <2>1, <2>3, <2>4, Zenon
<1>18. /\ Cofactors(b, c0, xi) = <<t0, e0>>
       /\ t0 = e0 => c0 = t0
       /\ t0 # e0 => c0[1] \in Live(b) /\ b[c0[1]].index = xi
  BY <1>15, Zenon DEF Made
<1> HIDE DEF d3
<1>19. /\ Extends(a, b) /\ Extends(d, b) /\ c1 \in KnownEdges(b) /\ c1[1] \in Known(b)
       /\ f \in Live(b) /\ Cofactors(b, c1, xi) = <<t1, e1>>
  <2>1. Extends(a, b) /\ Extends(d, b)
    BY <1>9, <1>12, <1>17, ExtendsTransitive
  <2>2. c1 \in KnownEdges(b)
    BY <2>1, <1>9, KnownExtends
  <2>3. Cofactors(b, c1, xi) = Cofactors(a, c1, xi)
    BY <2>1, <1>9, CofactorsExtend
  <2> QED BY <1>4, <1>10, <2>1, <2>2, <2>3, KnownExtends DEF KnownEdges
<1>20. /\ Table(d3) /\ Live(d3) = Live(b)
       /\ \A n \in Live(b) : /\ d3[n].index = b[n].index /\ d3[n].ref = b[n].ref
                             /\ n # f => d3[n] = b[n]
       /\ d3[f].T = c1[1] /\ d3[f].E = c0
  <2>1. /\ b \in [Pool -> Records(Int) \cup {NULL}] /\ b[f] \in Records(Int)
        /\ c1[1] \in Pool \cup {ONE} /\ c0 \in Edges
    BY <1>17, <1>19, LiveType, LiveFinite DEF Table, Known, KnownEdges, Edges
  <2>2. d3[f] = [b[f] EXCEPT !.T = c1[1], !.E = c0] /\ \A n \in Pool \ {f} : d3[n] = b[n]
    BY <1>4, <1>16, <2>1
  <2>3. /\ d3[f] \in Records(Int) /\ d3[f].index = b[f].index /\ d3[f].ref = b[f].ref
        /\ d3[f].T = c1[1] /\ d3[f].E = c0
    BY <2>1, <2>2 DEF Records
  <2>4. d3 \in [Pool -> Records(Int) \cup {NULL}]
    BY <1>4, <1>16, <2>1, <2>3
  <2>5. d3[f] # NULL
    BY <2>3, BddAssumption
  <2>6. /\ Table(d3) /\ Live(d3) = Live(b)
        /\ \A n \in Live(b) : n # f => d3[n] = b[n]
    <3>1. /\ Table(b) /\ f \in Live(b) /\ c1[1] \in Known(b) /\ c0 \in KnownEdges(b)
          /\ \A n \in Pool \ {f} : d3[n] = b[n]
          /\ d3[f].T = c1[1] /\ d3[f].E = c0
      BY <1>17, <1>19, <2>2, <2>3
    <3> QED BY <3>1, <2>4, <2>5, SetChildren
  <2> QED BY <2>3, <2>6
<1>21. \A n : RefsIn(d3, n) = RefsIn(b, n) - If1(n1 = n) - If1(n0 = n)
                                  + If1(c1[1] = n) + If1(c0[1] = n)
  <2>1. b[f].T = n1 /\ b[f].E[1] = n0
    BY <1>4, <1>19 DEF Extends, n1, n0
  <2>2. \A n \in Live(b) \ {f} : d3[n].T = b[n].T /\ d3[n].E = b[n].E
    BY <1>20
  <2> QED BY <1>19, <1>20, <2>1, <2>2, MovedRefs
<1>22. \A n \in Live(b) : /\ Excess(b, n) \in Int
                          /\ Excess(d3, n) = Excess(b, n) + If1(n1 = n) + If1(n0 = n)
                                                - If1(c1[1] = n) - If1(c0[1] = n)
  <2> SUFFICES ASSUME NEW n \in Live(b)
               PROVE  /\ Excess(b, n) \in Int
                      /\ Excess(d3, n) = Excess(b, n) + If1(n1 = n) + If1(n0 = n)
                                            - If1(c1[1] = n) - If1(c0[1] = n)
    OBVIOUS
  <2>1. d3[n].ref = b[n].ref /\ b[n].ref \in Int /\ RefsIn(b, n) \in Nat
    BY <1>17, <1>20, LiveType, RefsInNat
  <2> QED BY <2>1, <1>21 DEF Excess, If1
<1>23. \A n \in Live(d) : Excess(d3, n) = Excess(d, n)
  <2> SUFFICES ASSUME NEW n \in Live(d) PROVE Excess(d3, n) = Excess(d, n)
    OBVIOUS
  <2>1. n \in Live(a) /\ n \in Live(b)
    BY <1>9, <1>19 DEF Extends
  <2>2. Excess(d, n) \in Int
    <3>1. d[n].ref \in Int /\ RefsIn(d, n) \in Nat
      BY LiveType, RefsInNat
    <3> QED BY <3>1 DEF Excess
  <2>3. /\ Excess(d1, n) = Excess(d, n) - If1(n1 = n)
        /\ Excess(a, n) = Excess(d1, n) + If1(c1[1] = n)
        /\ Excess(r, n) = Excess(a, n) - If1(n0 = n)
        /\ Excess(b, n) = Excess(r, n) + If1(c0[1] = n)
    BY <2>1, <2>2, <1>5, <1>9, <1>12, <1>17 DEF If1
  <2> QED BY <2>1, <2>2, <2>3, <1>22 DEF If1
<1>24. ASSUME NEW n \in Live(d3) \ Live(d) PROVE Excess(d3, n) = 0
  <2>1. n \in Live(b) /\ n # n1 /\ n # n0
    <3>1. n \in Live(b)
      BY <1>20
    <3>2. n # ONE
      BY <3>1, <1>17, LiveType
    <3> QED BY <1>4, <3>1, <3>2 DEF Known
  <2>2. CASE n \in Live(a)
    <3>1. n = c1[1] /\ Excess(a, n) = 1
      BY <2>2, <1>9
    <3>2. Excess(r, n) = 1
      BY <2>1, <2>2, <3>1, <1>12
    <3>3. Excess(b, n) = 1 + If1(c0[1] = n)
      BY <2>2, <3>2, <1>17 DEF If1
    <3> QED BY <2>1, <3>1, <3>3, <1>22 DEF If1
  <2>3. CASE n \notin Live(a)
    <3>1. n = c0[1] /\ Excess(b, n) = 1
      BY <2>1, <2>3, <1>17
    <3>2. n # c1[1]
      <4>1. c1[1] \in Known(a) /\ n # ONE
        BY <2>1, <1>9, <1>17, LiveType DEF KnownEdges
      <4> QED BY <2>3, <4>1 DEF Known
    <3> QED BY <2>1, <3>1, <3>2, <1>22 DEF If1
  <2> QED BY <2>2, <2>3
<1>25. /\ c1 \in KnownEdges(d3) /\ c0 \in KnownEdges(d3)
       /\ Live(d3) \subseteq Live(d) \cup {c1[1], c0[1]}
  BY <1>9, <1>17, <1>19, <1>20 DEF KnownEdges, Known
<1>26. \A n \in Live(d) : /\ n \in Live(d3) /\ d3[n].index = d[n].index
                          /\ n # f => d3[n].T = d[n].T /\ d3[n].E = d[n].E
  BY <1>19, <1>20 DEF Extends
<1>27. ASSUME NEW c \in KnownEdges(b) PROVE Cofactors(d3, c, xi) = Cofactors(b, c, xi)
  <2>1. c[1] \in Known(b)
    BY DEF KnownEdges
  <2>2. index(d3, c[1]) = index(b, c[1])
    BY <2>1, <1>20 DEF index, Known
  <2>3. CASE index(b, c[1]) # xi
    BY <2>2, <2>3 DEF Cofactors
  <2>4. CASE index(b, c[1]) = xi
    <3>1. c[1] # ONE /\ c[1] # f
      <4>1. index(b, ONE) # xi
        BY BddAssumption DEF index, Vars
      <4>2. index(b, f) = yi
        BY <1>4, <1>19 DEF index, Extends
      <4> QED BY <2>4, <4>1, <4>2
    <3>2. d3[c[1]] = b[c[1]]
      BY <2>1, <3>1, <1>20 DEF Known
    <3> QED BY <2>2, <3>2, Zenon DEF Cofactors
  <2> QED BY <2>3, <2>4
<1>29. /\ Cofactors(d3, c1, xi) = <<t1, e1>> /\ Cofactors(d3, c0, xi) = <<t0, e0>>
  BY <1>17, <1>18, <1>19, <1>27
<1>30. /\ t1 = e1 => c1 = t1
       /\ t1 # e1 => c1[1] \in Live(d3) /\ d3[c1[1]].index = xi
       /\ t0 = e0 => c0 = t0
       /\ t0 # e0 => c0[1] \in Live(d3) /\ d3[c0[1]].index = xi
  BY <1>10, <1>18, <1>19, <1>20 DEF Extends
\* A new node is over xi, as no old node is, or is made when a is there already.
<1>31. \A n \in Live(d3) \ Live(d) :
          /\ n # f /\ d3[n] = b[n] /\ n \in Live(b)
          /\ n \in Live(a) => b[n].index = a[n].index /\ b[n].T = a[n].T /\ b[n].E = a[n].E
  BY <1>4, <1>19, <1>20 DEF Extends
<1>32. ASSUME NEW n \in Live(d3) \ Live(d)
       PROVE  /\ d3[n].index = xi /\ <<d3[n].T, FALSE>> # d3[n].E
              /\ \/ n = c1[1] /\ d3[n].T = t1[1] /\ d3[n].E[1] = e1[1]
                 \/ n = c0[1] /\ d3[n].T = t0[1] /\ d3[n].E[1] = e0[1]
  <2>1. CASE n \in Live(a)
    <3>1. /\ n = c1[1] /\ a[n].index = xi /\ a[n].T = t1[1] /\ a[n].E[1] = e1[1]
          /\ <<a[n].T, FALSE>> # a[n].E
      BY <2>1, <1>9
    <3>2. d3[n].index = a[n].index /\ d3[n].T = a[n].T /\ d3[n].E = a[n].E
      BY <2>1, <1>31
    <3> QED BY <3>1, <3>2, Zenon
  <2>2. CASE n \notin Live(a)
    <3>1. /\ n = c0[1] /\ b[n].index = xi /\ b[n].T = t0[1] /\ b[n].E[1] = e0[1]
          /\ <<b[n].T, FALSE>> # b[n].E
      BY <2>2, <1>17, <1>31
    <3>2. d3[n] = b[n]
      BY <1>31
    <3> QED BY <3>1, <3>2, Zenon
  <2> QED BY <2>1, <2>2
<1>33. ASSUME NEW n \in Live(d3) \ Live(d), NEW m \in Live(d3) \ {n}
       PROVE  ~(d3[m].index = xi /\ d3[m].T = d3[n].T /\ d3[m].E = d3[n].E)
  <2>1. CASE m = f
    BY <2>1, <1>4, <1>26
  <2> SUFFICES ASSUME m # f
               PROVE  ~(b[m].index = xi /\ b[m].T = b[n].T /\ b[m].E = b[n].E)
    <3>1. m # f => d3[m] = b[m] /\ d3[n] = b[n]
      BY <1>20, <1>31
    <3> QED BY <2>1, <3>1, Zenon
  <2>2. m \in Live(b) /\ n \in Live(b)
    BY <1>20, <1>31
  <2>3. CASE n \notin Live(a) /\ m \in Live(a)
    BY <2>2, <2>3, <1>17
  <2>4. CASE m \notin Live(a) /\ n \in Live(a)
    <3>1. ~(b[n].index = xi /\ b[n].T = b[m].T /\ b[n].E = b[m].E)
      BY <2>2, <2>4, <1>17
    <3>2. b[n].index = xi
      BY <2>4, <1>9, <1>31, ZenonT(30)
    <3> QED BY <3>1, <3>2, Zenon
  <2>5. CASE m \notin Live(a) /\ n \notin Live(a)
    BY <2>2, <2>5, <1>17
  <2>6. CASE m \in Live(a) /\ n \in Live(a)
    <3>1. m \in Live(d)
      BY <2>6, <1>9
    <3>2. /\ b[m].index = d[m].index /\ b[m].T = d[m].T /\ b[m].E = d[m].E
      BY <3>1, <1>19 DEF Extends
    <3>3. ~(d[m].index = xi /\ d[m].T = a[n].T /\ d[m].E = a[n].E)
      BY <2>6, <3>1, <1>9
    <3> QED BY <2>6, <3>2, <3>3, <1>31
  <2> QED BY <2>3, <2>4, <2>5, <2>6
<1>34. Rebuilt(d, d3, f, xi, yi, c1, c0)
  BY <1>10, <1>20, <1>23, <1>24, <1>25, <1>26, <1>29, <1>30, <1>32, <1>33, Zenon
     DEF Rebuilt, t1, t0, e1, e0
<1> QED BY <1>1, <1>34

-----------------------------------------------------------------------------
(* The table in the middle of an exchange: g is what is left of the chain, lev
   the order after the exchange, xi the variable that goes down and yi the one
   that comes up.                                                            *)

Crosses(d, p, xi) == d[p].index = xi \/ \E c \in Children(d, p) : d[c].index = xi

\* The nodes outside the chain are ordered already.
Ordered(d, g, lev) ==
    \A n \in Live(d) \ g : \A c \in Children(d, n) : lev[d[n].index] < lev[d[c].index]

\* A node of the chain is over yi, but has children over yi still.
Waiting(d, g, lev, xi, yi) ==
    \A f \in g : /\ f \in Live(d) /\ d[f].index = yi
                 /\ \E c \in Children(d, f) : d[c].index = yi
                 /\ \A c \in Children(d, f) :
                       /\ c \notin g
                       /\ d[c].index = yi => ~Crosses(d, c, xi)
                       /\ d[c].index # yi => lev[xi] < lev[d[c].index]

\* No two nodes are the same, and none has two equal children.
Reduced(d, g) ==
    /\ \A m, n \in Live(d) : d[m].index = d[n].index /\ (m \in g <=> n \in g)
                             /\ d[m].T = d[n].T /\ d[m].E = d[n].E => m = n
    /\ \A n \in Live(d) : <<d[n].T, FALSE>> # d[n].E

\* No node over yi is what a node of the chain will become.
NoClash(d, g, xi, yi) ==
    \A n \in Live(d) \ g, f \in g :
       d[n].index = yi =>
         ~ /\ Cofactors(d, <<d[n].T, FALSE>>, xi) = <<Then(d, f, yi)[1], Else(d, f, yi)[1]>>
           /\ Cofactors(d, d[n].E, xi) = <<Then(d, f, yi)[2], Else(d, f, yi)[2]>>

Order(lev, xi, yi) == /\ lev \in [Vars -> Vars] /\ xi \in Vars /\ yi \in Vars
                      /\ \A i, j \in Vars : lev[i] = lev[j] => i = j
                      /\ lev[xi] = lev[yi] + 1

Exchange(d, g, lev, xi, yi) ==
    /\ Table(d) /\ Order(lev, xi, yi)
    /\ Ordered(d, g, lev) /\ Waiting(d, g, lev, xi, yi)
    /\ Reduced(d, g) /\ NoClash(d, g, xi, yi)

-----------------------------------------------------------------------------
(* Cofactors *)

LEMMA ChildType ==
  ASSUME NEW d, Table(d), NEW n \in Live(d), NEW c \in Children(d, n)
  PROVE  c \in Live(d) /\ c \in Pool /\ c # ONE /\ d[c].index \in Vars /\ index(d, c) = d[c].index
<1>1. c \in Live(d)
  BY DEF Table
<1> QED BY <1>1, LiveType DEF index

LEMMA CofactorsOf ==
  ASSUME NEW d, Table(d), NEW n \in Live(d), NEW i, d[n].index = i
  PROVE  /\ Cofactors(d, <<n, FALSE>>, i)[1] = <<d[n].T, FALSE>>
         /\ Cofactors(d, <<n, FALSE>>, i)[2] = d[n].E
         /\ Cofactors(d, <<n, TRUE>>, i)[1] = <<d[n].T, TRUE>>
         /\ Cofactors(d, <<n, TRUE>>, i)[2] = Not(d[n].E)
<1>1. index(d, n) = i /\ d[n].E \in Known(d) \X BOOLEAN
  BY LiveType DEF index, KnownEdges
<1>2. NotIf(d[n].E, FALSE) = d[n].E /\ NotIf(d[n].E, TRUE) = Not(d[n].E)
  BY <1>1, EdgeNot
<1>3. /\ Cofactors(d, <<n, FALSE>>, i) = << <<d[n].T, FALSE>>, NotIf(d[n].E, FALSE)>>
      /\ Cofactors(d, <<n, TRUE>>, i) = << <<d[n].T, TRUE>>, NotIf(d[n].E, TRUE)>>
  BY <1>1 DEF Cofactors
<1> DEFINE p == Cofactors(d, <<n, FALSE>>, i)
           q == Cofactors(d, <<n, TRUE>>, i)
           t == <<d[n].T, FALSE>>
           u == <<d[n].T, TRUE>>
<1>4. p = <<t, d[n].E>> /\ q = <<u, Not(d[n].E)>>
  BY <1>2, <1>3, Zenon
<1> HIDE DEF p, q, t, u
<1>5. p[1] = t /\ p[2] = d[n].E /\ q[1] = u /\ q[2] = Not(d[n].E)
  BY <1>4
<1> QED BY <1>5 DEF p, q, t, u

\* The cofactors of an edge by the variable of its node differ.
LEMMA CofactorsDiffer ==
  ASSUME NEW d, Table(d), NEW g, Reduced(d, g), NEW i \in Vars, NEW e \in KnownEdges(d),
         index(d, e[1]) = i
  PROVE  Cofactors(d, e, i)[1] # Cofactors(d, e, i)[2]
<1>1. PICK n \in Known(d) : e = <<n, FALSE>> \/ e = <<n, TRUE>>
  BY EdgeForm DEF KnownEdges
<1>2. <<n, FALSE>>[1] = n /\ <<n, TRUE>>[1] = n
  OBVIOUS
<1>3. e[1] = n
  BY <1>1, <1>2, Zenon
<1>4. n \in Live(d) /\ d[n].index = i
  BY <1>3, KnownIndex DEF Extends
<1>5. <<d[n].T, FALSE>> # d[n].E /\ d[n].E \in Known(d) \X BOOLEAN /\ d[n].T \in Known(d)
  BY <1>4, LiveType DEF Reduced, KnownEdges
<1>6. Not(d[n].E) # <<d[n].T, TRUE>>
  <2>1. Not(Not(d[n].E)) = d[n].E
    BY <1>5, EdgeNot
  <2>2. Not(<<d[n].T, TRUE>>) = <<d[n].T, FALSE>>
    BY DEF Not
  <2> QED BY <1>5, <2>1, <2>2, Zenon
<1>7. /\ Cofactors(d, <<n, FALSE>>, i)[1] # Cofactors(d, <<n, FALSE>>, i)[2]
      /\ Cofactors(d, <<n, TRUE>>, i)[1] # Cofactors(d, <<n, TRUE>>, i)[2]
  <2>1. /\ Cofactors(d, <<n, FALSE>>, i)[1] = <<d[n].T, FALSE>>
        /\ Cofactors(d, <<n, FALSE>>, i)[2] = d[n].E
        /\ Cofactors(d, <<n, TRUE>>, i)[1] = <<d[n].T, TRUE>>
        /\ Cofactors(d, <<n, TRUE>>, i)[2] = Not(d[n].E)
    BY <1>4, CofactorsOf, Zenon
  <2> QED BY <1>5, <1>6, <2>1, Zenon
<1> QED BY <1>1, <1>7, Zenon

\* An edge is determined by its cofactors.
LEMMA CofactorsInjective ==
  ASSUME NEW d, Table(d), NEW g, Reduced(d, g), NEW i \in Vars,
         NEW e \in KnownEdges(d), NEW h \in KnownEdges(d), e[1] \notin g, h[1] \notin g,
         Cofactors(d, e, i)[1] = Cofactors(d, h, i)[1],
         Cofactors(d, e, i)[2] = Cofactors(d, h, i)[2]
  PROVE  e = h
<1>1. CASE index(d, e[1]) # i /\ index(d, h[1]) # i
  BY <1>1 DEF Cofactors
<1>2. CASE index(d, e[1]) # i /\ index(d, h[1]) = i
  <2>1. Cofactors(d, e, i)[1] = Cofactors(d, e, i)[2]
    BY <1>2 DEF Cofactors
  <2>2. Cofactors(d, h, i)[1] # Cofactors(d, h, i)[2]
    BY <1>2, CofactorsDiffer
  <2> QED BY <2>1, <2>2
<1>3. CASE index(d, e[1]) = i /\ index(d, h[1]) # i
  <2>1. Cofactors(d, h, i)[1] = Cofactors(d, h, i)[2]
    BY <1>3 DEF Cofactors
  <2>2. Cofactors(d, e, i)[1] # Cofactors(d, e, i)[2]
    BY <1>3, CofactorsDiffer
  <2> QED BY <2>1, <2>2
<1>4. CASE index(d, e[1]) = i /\ index(d, h[1]) = i
  <2>1. PICK n \in Known(d) : e = <<n, FALSE>> \/ e = <<n, TRUE>>
    BY EdgeForm DEF KnownEdges
  <2>2. PICK m \in Known(d) : h = <<m, FALSE>> \/ h = <<m, TRUE>>
    BY EdgeForm DEF KnownEdges
  <2>3. /\ <<n, FALSE>>[1] = n /\ <<n, TRUE>>[1] = n
        /\ <<m, FALSE>>[1] = m /\ <<m, TRUE>>[1] = m
    OBVIOUS
  <2>4. e[1] = n /\ h[1] = m
    BY <2>1, <2>2, <2>3, Zenon
  <2>5. n \in Live(d) /\ d[n].index = i /\ m \in Live(d) /\ d[m].index = i
    BY <1>4, <2>4, KnownIndex DEF Extends
  <2>6. /\ d[n].E \in Known(d) \X BOOLEAN /\ d[m].E \in Known(d) \X BOOLEAN
    BY <2>5, LiveType DEF KnownEdges
  <2>7. d[n].T = d[m].T /\ d[n].E = d[m].E => n = m
    BY <2>4, <2>5 DEF Reduced
  <2> DEFINE tn == d[n].T
             tm == d[m].T
             en == d[n].E
             em == d[m].E
  <2>8. /\ Cofactors(d, <<n, FALSE>>, i)[1] = <<tn, FALSE>>
        /\ Cofactors(d, <<n, FALSE>>, i)[2] = en
        /\ Cofactors(d, <<n, TRUE>>, i)[1] = <<tn, TRUE>>
        /\ Cofactors(d, <<n, TRUE>>, i)[2] = Not(en)
    BY <2>5, CofactorsOf, Zenon DEF tn, en
  <2>9. /\ Cofactors(d, <<m, FALSE>>, i)[1] = <<tm, FALSE>>
        /\ Cofactors(d, <<m, FALSE>>, i)[2] = em
        /\ Cofactors(d, <<m, TRUE>>, i)[1] = <<tm, TRUE>>
        /\ Cofactors(d, <<m, TRUE>>, i)[2] = Not(em)
    BY <2>5, CofactorsOf, ZenonT(30) DEF tm, em
  <2>10. /\ <<tn, FALSE>> # <<tm, TRUE>> /\ <<tn, TRUE>> # <<tm, FALSE>>
         /\ <<tn, FALSE>> = <<tm, FALSE>> => tn = tm
         /\ <<tn, TRUE>> = <<tm, TRUE>> => tn = tm
    OBVIOUS
  <2>11. Not(en) = Not(em) => en = em
    <3>1. Not(Not(en)) = en /\ Not(Not(em)) = em
      BY <2>6, EdgeNot
    <3> QED BY <3>1, Zenon
  <2> HIDE DEF tn, tm, en, em
  <2>12. CASE e = <<n, FALSE>> /\ h = <<m, FALSE>>
    <3>1. tn = tm /\ en = em
      BY <2>8, <2>9, <2>10, <2>12, Zenon
    <3> QED BY <2>7, <2>12, <3>1, Zenon DEF tn, tm, en, em
  <2>13. CASE e = <<n, TRUE>> /\ h = <<m, TRUE>>
    <3>1. tn = tm /\ en = em
      BY <2>8, <2>9, <2>10, <2>11, <2>13, Zenon
    <3> QED BY <2>7, <2>13, <3>1, Zenon DEF tn, tm, en, em
  <2>14. CASE e = <<n, FALSE>> /\ h = <<m, TRUE>>
    BY <2>8, <2>9, <2>10, <2>14, Zenon
  <2>15. CASE e = <<n, TRUE>> /\ h = <<m, FALSE>>
    BY <2>8, <2>9, <2>10, <2>15, Zenon
  <2> QED BY <2>1, <2>2, <2>12, <2>13, <2>14, <2>15, Zenon
<1> QED BY <1>1, <1>2, <1>3, <1>4

-----------------------------------------------------------------------------
(* A node of the chain *)

\* The nodes of the cofactors f is rebuilt from.
Below(d, f, yi) == {Then(d, f, yi)[1][1], Then(d, f, yi)[2][1],
                    Else(d, f, yi)[1][1], Else(d, f, yi)[2][1]} \ {ONE}

LEMMA ChainNode ==
  ASSUME NEW d, NEW g, NEW lev, NEW xi, NEW yi, Exchange(d, g, lev, xi, yi), NEW f \in g
  PROVE  /\ xi # yi /\ f \in Live(d) /\ d[f].index = yi /\ Chained(d, f, xi, yi)
         /\ \A c \in Children(d, f) : c \notin g /\ d[c].index # xi
<1>1. /\ f \in Live(d) /\ d[f].index = yi /\ lev[xi] = lev[yi] + 1 /\ lev[yi] \in Int
      /\ Table(d)
  BY DEF Exchange, Waiting, Order, Vars
<1>2. xi # yi
  BY <1>1
<1>3. ASSUME NEW c \in Children(d, f) PROVE c \notin g /\ d[c].index # xi
  <2>1. c \notin g /\ (d[c].index # yi => lev[xi] < lev[d[c].index])
    BY DEF Exchange, Waiting
  <2>2. lev[xi] \in Int
    BY <1>1
  <2> QED BY <1>2, <2>1, <2>2
<1>4. ASSUME NEW c \in Children(d, f), d[c].index = yi, NEW k \in Children(d, c)
      PROVE  d[k].index # xi
  <2>1. ~Crosses(d, c, xi)
    BY <1>4 DEF Exchange, Waiting
  <2> QED BY <2>1 DEF Crosses
<1> QED BY <1>1, <1>2, <1>3, <1>4 DEF Chained

LEMMA BelowChain ==
  ASSUME NEW d, NEW g, NEW lev, NEW xi, NEW yi, Exchange(d, g, lev, xi, yi), NEW f \in g,
         NEW u \in Below(d, f, yi)
  PROVE  /\ u \in Live(d) /\ u \notin g /\ d[u].index \in Vars
         /\ d[u].index # xi /\ d[u].index # yi
         /\ lev[yi] < lev[d[u].index] /\ lev[xi] < lev[d[u].index]
         /\ \E p \in Live(d) : u \in Children(d, p) /\ (p = f \/ p \in Children(d, f))
<1>1. /\ Table(d) /\ xi \in Vars /\ yi \in Vars /\ f \in Live(d) /\ xi # yi
      /\ lev \in [Vars -> Int] /\ lev[xi] = lev[yi] + 1
      /\ \A i, j \in Vars : lev[i] = lev[j] => i = j
  <2>1. f \in Live(d) /\ xi # yi
    BY ChainNode
  <2>2. Table(d) /\ Order(lev, xi, yi) /\ Vars \subseteq Int
    BY DEF Exchange, Vars
  <2> QED BY <2>1, <2>2 DEF Order
<1>2. /\ d[f].T \in Known(d) /\ d[f].E \in KnownEdges(d) /\ d[f].E[1] \in Known(d)
      /\ <<d[f].T, FALSE>> \in KnownEdges(d) /\ <<d[f].T, FALSE>>[1] = d[f].T
  <2>1. /\ d[f].T \in Known(d) /\ d[f].E \in KnownEdges(d) /\ d[f].E[1] \in Known(d)
    BY <1>1, LiveType
  <2> QED BY <2>1 DEF KnownEdges
<1>3. ASSUME NEW e \in KnownEdges(d), e[1] \in {d[f].T, d[f].E[1]},
             u \in {Cofactors(d, e, yi)[1][1], Cofactors(d, e, yi)[2][1]}
      PROVE  /\ u \in Live(d) /\ d[u].index \in Vars /\ d[u].index # yi
             /\ lev[xi] < lev[d[u].index]
             /\ \E p \in Live(d) : u \in Children(d, p) /\ (p = f \/ p \in Children(d, f))
  <2>1. u # ONE
    BY DEF Below
  <2>2. CASE index(d, e[1]) # yi
    <3>1. u = e[1]
      BY <1>1, <1>3, <2>2, CofactorsKnown
    <3>2. u \in Children(d, f)
      BY <1>3, <2>1, <3>1 DEF Children
    <3>3. u \in Live(d) /\ d[u].index \in Vars /\ index(d, u) = d[u].index
      BY <1>1, <3>2, ChildType
    <3>4. lev[xi] < lev[d[u].index]
      BY <2>2, <3>1, <3>2, <3>3 DEF Exchange, Waiting
    <3> QED BY <1>1, <2>2, <3>1, <3>2, <3>3, <3>4
  <2>3. CASE index(d, e[1]) = yi
    <3>1. /\ e[1] \in Live(d) /\ d[e[1]].index = yi
          /\ Cofactors(d, e, yi)[1][1] = d[e[1]].T /\ Cofactors(d, e, yi)[2][1] = d[e[1]].E[1]
      BY <1>1, <2>3, CofactorsKnown
    <3>2. e[1] \in Children(d, f) /\ u \in Children(d, e[1])
      <4>1. e[1] # ONE
        BY <1>1, <3>1, LiveType
      <4> QED BY <1>3, <2>1, <3>1, <4>1 DEF Children
    <3>3. u \in Live(d) /\ d[u].index \in Vars
      BY <1>1, <3>1, <3>2, ChildType
    <3>4. e[1] \notin g /\ ~Crosses(d, e[1], xi)
      BY <3>1, <3>2 DEF Exchange, Waiting
    <3>5. lev[yi] < lev[d[u].index]
      BY <3>1, <3>2, <3>4 DEF Exchange, Ordered
    <3>6. d[u].index # xi
      BY <3>2, <3>4 DEF Crosses
    <3>7. lev[yi] \in Int /\ lev[d[u].index] \in Int /\ lev[d[u].index] # lev[xi]
      BY <1>1, <3>3, <3>6
    <3>8. lev[xi] < lev[d[u].index] /\ d[u].index # yi
      BY <1>1, <3>5, <3>7
    <3> QED BY <3>1, <3>2, <3>3, <3>8
  <2> QED BY <2>2, <2>3
<1>4. /\ u \in Live(d) /\ d[u].index \in Vars /\ d[u].index # yi
      /\ lev[xi] < lev[d[u].index]
      /\ \E p \in Live(d) : u \in Children(d, p) /\ (p = f \/ p \in Children(d, f))
  BY <1>2, <1>3 DEF Below, Then, Else
<1>5. lev[xi] \in Int /\ lev[yi] \in Int /\ lev[d[u].index] \in Int
  BY <1>1, <1>4
<1>6. lev[yi] < lev[d[u].index] /\ d[u].index # xi
  BY <1>1, <1>4, <1>5
<1>7. u \notin g
  BY <1>4 DEF Exchange, Waiting
<1> QED BY <1>4, <1>6, <1>7

LEMMA RebuiltOld ==
  ASSUME NEW d, NEW g, NEW lev, NEW xi, NEW yi, Exchange(d, g, lev, xi, yi), NEW f \in g,
         NEW d2, NEW c1, NEW c0, Rebuilt(d, d2, f, xi, yi, c1, c0)
  PROVE  /\ Table(d2) /\ Live(d) \subseteq Live(d2)
         /\ \A n \in Live(d) : d2[n].index = d[n].index
         /\ \A n \in Live(d) \ {f} : /\ d2[n].T = d[n].T /\ d2[n].E = d[n].E
                                     /\ Children(d2, n) = Children(d, n)
         /\ Children(d2, f) = {c1[1], c0[1]} \ {ONE}
         /\ Known(d) \subseteq Known(d2) /\ KnownEdges(d) \subseteq KnownEdges(d2)
<1>1. /\ Table(d2) /\ Live(d) \subseteq Live(d2)
      /\ \A n \in Live(d) : d2[n].index = d[n].index
      /\ \A n \in Live(d) \ {f} : d2[n].T = d[n].T /\ d2[n].E = d[n].E
      /\ d2[f].T = c1[1] /\ d2[f].E = c0
  BY Zenon DEF Rebuilt
<1> QED BY <1>1 DEF Children, Known, KnownEdges

LEMMA RebuiltCofactors ==
  ASSUME NEW d, NEW g, NEW lev, NEW xi, NEW yi, Exchange(d, g, lev, xi, yi), NEW f \in g,
         NEW d2, NEW c1, NEW c0, Rebuilt(d, d2, f, xi, yi, c1, c0), NEW e \in KnownEdges(d)
  PROVE  /\ Cofactors(d2, e, xi) = Cofactors(d, e, xi)
         /\ e[1] # f => Cofactors(d2, e, yi) = Cofactors(d, e, yi)
<1>1. e[1] \in Known(d)
  BY DEF KnownEdges
<1>2. /\ Table(d) /\ xi \in Vars /\ yi \in Vars /\ xi # yi /\ f \in Live(d) /\ d[f].index = yi
  BY ChainNode DEF Exchange, Order
<1>3. index(d2, e[1]) = index(d, e[1])
  BY <1>1, RebuiltOld DEF index, Known
<1>4. ASSUME NEW i \in Vars, e[1] # f \/ i = xi
      PROVE  Cofactors(d2, e, i) = Cofactors(d, e, i)
  <2>1. CASE index(d, e[1]) # i
    BY <1>3, <2>1 DEF Cofactors
  <2>2. CASE index(d, e[1]) = i
    <3>1. e[1] \in Live(d) /\ d[e[1]].index = i
      BY <1>1, <1>2, <2>2, KnownIndex DEF Extends
    <3>2. e[1] # f
      BY <1>2, <1>4, <3>1
    <3>3. d2[e[1]].T = d[e[1]].T /\ d2[e[1]].E = d[e[1]].E
      BY <3>1, <3>2, RebuiltOld
    <3> QED BY <1>3, <2>2, <3>3, Zenon DEF Cofactors
  <2> QED BY <2>1, <2>2
<1> QED BY <1>2, <1>4

LEMMA ThenElse ==
  ASSUME NEW d, NEW g, NEW lev, NEW xi, NEW yi, Exchange(d, g, lev, xi, yi), NEW f \in g
  PROVE  /\ <<d[f].T, FALSE>> \in KnownEdges(d) /\ <<d[f].T, FALSE>>[1] \notin g
         /\ d[f].E \in KnownEdges(d) /\ d[f].E[1] \notin g
         /\ <<d[f].T, FALSE>>[1] # f /\ d[f].E[1] # f
         /\ Then(d, f, yi)[1] \in KnownEdges(d) /\ Then(d, f, yi)[2] \in KnownEdges(d)
         /\ Else(d, f, yi)[1] \in KnownEdges(d) /\ Else(d, f, yi)[2] \in KnownEdges(d)
<1>1. /\ Table(d) /\ xi \in Vars /\ yi \in Vars /\ xi # yi /\ Chained(d, f, xi, yi)
      /\ f \in Live(d)
  BY ChainNode DEF Exchange, Order
<1>2. ONE \notin g
  BY LiveType, <1>1 DEF Exchange, Waiting
<1>3. <<d[f].T, FALSE>>[1] = d[f].T
  OBVIOUS
<1>4. d[f].T \notin g /\ d[f].E[1] \notin g
  BY <1>2, ChainNode DEF Children
<1> QED BY <1>1, <1>3, <1>4, ChainedCofactors

\* The two children of f in the rebuilt table differ, and one is over xi.
LEMMA RebuiltDiffer ==
  ASSUME NEW d, NEW g, NEW lev, NEW xi, NEW yi, Exchange(d, g, lev, xi, yi), NEW f \in g
  PROVE  /\ ~(Then(d, f, yi)[1] = Then(d, f, yi)[2] /\ Else(d, f, yi)[1] = Else(d, f, yi)[2])
         /\ ~(Then(d, f, yi)[1] = Else(d, f, yi)[1] /\ Then(d, f, yi)[2] = Else(d, f, yi)[2])
<1>1. /\ Table(d) /\ xi \in Vars /\ yi \in Vars /\ f \in Live(d) /\ Reduced(d, g)
  BY ChainNode DEF Exchange, Order
<1> DEFINE t == <<d[f].T, FALSE>>
           e == d[f].E
<1>2. /\ t \in KnownEdges(d) /\ t[1] \notin g /\ t[1] = d[f].T
      /\ e \in KnownEdges(d) /\ e[1] \notin g
  BY ThenElse
<1>3. t # e
  BY <1>1 DEF Reduced
<1>4. index(d, t[1]) = yi \/ index(d, e[1]) = yi
  <2>1. PICK c \in Children(d, f) : d[c].index = yi
    BY DEF Exchange, Waiting
  <2>2. index(d, c) = yi
    BY <1>1, <2>1, ChildType
  <2> QED BY <1>2, <2>2 DEF Children
<1>5. Then(d, f, yi) = Cofactors(d, t, yi) /\ Else(d, f, yi) = Cofactors(d, e, yi)
  BY DEF Then, Else
<1> HIDE DEF t, e
<1>6. /\ index(d, t[1]) = yi => Cofactors(d, t, yi)[1] # Cofactors(d, t, yi)[2]
      /\ index(d, e[1]) = yi => Cofactors(d, e, yi)[1] # Cofactors(d, e, yi)[2]
  BY <1>1, <1>2, CofactorsDiffer
<1>7. ~(Cofactors(d, t, yi)[1] = Cofactors(d, e, yi)[1]
        /\ Cofactors(d, t, yi)[2] = Cofactors(d, e, yi)[2])
  BY <1>1, <1>2, <1>3, CofactorsInjective
<1> QED BY <1>4, <1>5, <1>6, <1>7

LEMMA RebuiltChildren ==
  ASSUME NEW d, NEW g, NEW lev, NEW xi, NEW yi, Exchange(d, g, lev, xi, yi), NEW f \in g,
         NEW d2, NEW c1, NEW c0, Rebuilt(d, d2, f, xi, yi, c1, c0)
  PROVE  /\ c1 # c0
         /\ \A c \in Children(d2, f) :
               /\ c \in Live(d2) /\ c \notin g /\ lev[yi] < lev[d2[c].index]
               /\ d2[c].index # yi /\ (c \in Below(d, f, yi) \/ d2[c].index = xi)
         /\ Crosses(d2, f, xi)
<1> DEFINE t1 == Then(d, f, yi)[1]
           t0 == Then(d, f, yi)[2]
           e1 == Else(d, f, yi)[1]
           e0 == Else(d, f, yi)[2]
<1>1. /\ Cofactors(d2, c1, xi) = <<t1, e1>> /\ Cofactors(d2, c0, xi) = <<t0, e0>>
      /\ t1 = e1 => c1 = t1
      /\ t1 # e1 => c1[1] \in Live(d2) /\ d2[c1[1]].index = xi
      /\ t0 = e0 => c0 = t0
      /\ t0 # e0 => c0[1] \in Live(d2) /\ d2[c0[1]].index = xi
  BY Zenon DEF Rebuilt
<1>2. /\ Table(d) /\ xi \in Vars /\ yi \in Vars /\ xi # yi /\ f \in Live(d) /\ d[f].index = yi
      /\ lev[yi] < lev[xi]
  <2>1. lev[xi] = lev[yi] + 1 /\ lev[yi] \in Int
    BY DEF Exchange, Order, Vars
  <2> QED BY <2>1, ChainNode DEF Exchange, Order
<1>3. c1 # c0
  <2> SUFFICES ASSUME c1 = c0 PROVE FALSE
    OBVIOUS
  <2>1. t1 = t0 /\ e1 = e0
    BY <1>1
  <2> QED BY <2>1, RebuiltDiffer
<1>4. \A c \in Below(d, f, yi) : /\ c \in Live(d2) /\ c \notin g /\ lev[yi] < lev[d2[c].index]
                                /\ d2[c].index # yi
  <2> SUFFICES ASSUME NEW c \in Below(d, f, yi)
               PROVE  /\ c \in Live(d2) /\ c \notin g /\ lev[yi] < lev[d2[c].index]
                      /\ d2[c].index # yi
    OBVIOUS
  <2>1. /\ c \in Live(d) /\ c \notin g /\ d[c].index # yi /\ lev[yi] < lev[d[c].index]
    BY BelowChain
  <2>2. c \in Live(d2) /\ d2[c].index = d[c].index
    BY <2>1, RebuiltOld
  <2> QED BY <2>1, <2>2
<1>5. ASSUME NEW c \in Live(d2), d2[c].index = xi PROVE c \notin g
  <2>1. \A k \in g : k \in Live(d) /\ d[k].index = yi
    BY DEF Exchange, Waiting
  <2> QED BY <1>2, <1>5, <2>1, RebuiltOld
<1>6. Children(d2, f) = {c1[1], c0[1]} \ {ONE}
  BY RebuiltOld
<1>7. \A c \in Children(d2, f) : c \in Below(d, f, yi) \/ (c \in Live(d2) /\ d2[c].index = xi)
  <2>1. Below(d, f, yi) = {t1[1], t0[1], e1[1], e0[1]} \ {ONE}
    BY DEF Below
  <2> HIDE DEF t1, t0, e1, e0
  <2>2. /\ c1[1] = t1[1] \/ (c1[1] \in Live(d2) /\ d2[c1[1]].index = xi)
        /\ c0[1] = t0[1] \/ (c0[1] \in Live(d2) /\ d2[c0[1]].index = xi)
    BY <1>1
  <2> QED BY <1>6, <2>1, <2>2
<1>8. Crosses(d2, f, xi)
  <2>1. t1 # e1 \/ t0 # e0
    BY RebuiltDiffer
  <2>2. \A c \in Live(d2) : c # ONE
    BY RebuiltOld, LiveType
  <2> QED BY <1>1, <1>6, <2>1, <2>2 DEF Crosses
<1> HIDE DEF t1, t0, e1, e0
<1> QED BY <1>2, <1>3, <1>4, <1>5, <1>7, <1>8

\* What f was rebuilt from keeps a parent that is over xi or above it.
LEMMA BelowKept ==
  ASSUME NEW d, NEW g, NEW lev, NEW xi, NEW yi, Exchange(d, g, lev, xi, yi), NEW f \in g,
         NEW d2, NEW c1, NEW c0, Rebuilt(d, d2, f, xi, yi, c1, c0), NEW u \in Below(d, f, yi)
  PROVE  \E p \in Live(d2) : /\ u \in Children(d2, p) /\ Crosses(d2, p, xi)
                             /\ p = f \/ p \in Children(d2, f)
<1> DEFINE t1 == Then(d, f, yi)[1]
           t0 == Then(d, f, yi)[2]
           e1 == Else(d, f, yi)[1]
           e0 == Else(d, f, yi)[2]
<1>1. /\ Cofactors(d2, c1, xi) = <<t1, e1>> /\ Cofactors(d2, c0, xi) = <<t0, e0>>
      /\ t1 = e1 => c1 = t1
      /\ t1 # e1 => c1[1] \in Live(d2) /\ d2[c1[1]].index = xi
      /\ t0 = e0 => c0 = t0
      /\ t0 # e0 => c0[1] \in Live(d2) /\ d2[c0[1]].index = xi
      /\ Table(d2) /\ c1 \in KnownEdges(d2) /\ c0 \in KnownEdges(d2)
  BY Zenon DEF Rebuilt
<1>2. u # ONE /\ u \in {t1[1], t0[1], e1[1], e0[1]}
  BY DEF Below
<1>3. f \in Live(d2) /\ Children(d2, f) = {c1[1], c0[1]} \ {ONE} /\ Crosses(d2, f, xi)
  BY ChainNode, RebuiltOld, RebuiltChildren
<1>4. xi \in Vars
  BY DEF Exchange, Order
<1> HIDE DEF t1, t0, e1, e0
<1>5. ASSUME NEW c \in KnownEdges(d2), NEW t, NEW e, Cofactors(d2, c, xi) = <<t, e>>,
             c[1] \in Live(d2), d2[c[1]].index = xi, u \in {t[1], e[1]}
      PROVE  u \in Children(d2, c[1]) /\ Crosses(d2, c[1], xi) /\ c[1] # ONE
  <2>1. index(d2, c[1]) = xi
    BY <1>1, <1>5, LiveType DEF index
  <2>2. /\ Cofactors(d2, c, xi)[1][1] = d2[c[1]].T /\ Cofactors(d2, c, xi)[2][1] = d2[c[1]].E[1]
    BY <1>1, <1>4, <2>1, CofactorsKnown
  <2>3. Cofactors(d2, c, xi)[1] = t /\ Cofactors(d2, c, xi)[2] = e
    BY <1>5
  <2>4. c[1] # ONE
    BY <1>1, <1>5, LiveType
  <2> QED BY <1>2, <1>5, <2>2, <2>3, <2>4 DEF Children, Crosses
<1>6. CASE u \in {t1[1], e1[1]}
  <2>1. CASE t1 = e1
    BY <1>1, <1>2, <1>3, <1>6, <2>1
  <2>2. CASE t1 # e1
    BY <1>1, <1>3, <1>5, <1>6, <2>2
  <2> QED BY <2>1, <2>2
<1>7. CASE u \in {t0[1], e0[1]}
  <2>1. CASE t0 = e0
    BY <1>1, <1>2, <1>3, <1>7, <2>1
  <2>2. CASE t0 # e0
    BY <1>1, <1>3, <1>5, <1>7, <2>2
  <2> QED BY <2>1, <2>2
<1> QED BY <1>2, <1>6, <1>7

LEMMA RebuiltNew ==
  ASSUME NEW d, NEW g, NEW lev, NEW xi, NEW yi, Exchange(d, g, lev, xi, yi), NEW f \in g,
         NEW d2, NEW c1, NEW c0, Rebuilt(d, d2, f, xi, yi, c1, c0), NEW n \in Live(d2), n \notin Live(d)
  PROVE  /\ n \notin g /\ n # f /\ d2[n].index = xi /\ n \in Children(d2, f)
         /\ Children(d2, n) \subseteq Below(d, f, yi) /\ Excess(d2, n) = 0
         /\ \A m \in Live(d2) \ {n} :
               ~(d2[m].index = xi /\ d2[m].T = d2[n].T /\ d2[m].E = d2[n].E)
<1>1. \A k \in g : k \in Live(d)
  BY DEF Exchange, Waiting
<1>2. /\ d2[n].index = xi
      /\ \/ /\ n = c1[1] /\ d2[n].T = Then(d, f, yi)[1][1]
            /\ d2[n].E[1] = Else(d, f, yi)[1][1]
         \/ /\ n = c0[1] /\ d2[n].T = Then(d, f, yi)[2][1]
            /\ d2[n].E[1] = Else(d, f, yi)[2][1]
      /\ \A m \in Live(d2) \ {n} :
            ~(d2[m].index = xi /\ d2[m].T = d2[n].T /\ d2[m].E = d2[n].E)
      /\ Excess(d2, n) = 0
  <2>1. n \in Live(d2) \ Live(d)
    OBVIOUS
  <2> QED BY <2>1, Zenon DEF Rebuilt
<1>3. n # ONE
  BY RebuiltOld, LiveType
<1>4. n \in Children(d2, f)
  BY <1>2, <1>3, RebuiltOld
<1>5. Children(d2, n) \subseteq Below(d, f, yi)
  BY <1>2 DEF Children, Below
<1> QED BY <1>1, <1>2, <1>4, <1>5

LEMMA RebuiltNewReduced ==
  ASSUME NEW d, NEW xi, NEW yi, NEW f, NEW d2, NEW c1, NEW c0,
         Rebuilt(d, d2, f, xi, yi, c1, c0), NEW n \in Live(d2), n \notin Live(d)
  PROVE  <<d2[n].T, FALSE>> # d2[n].E
<1>1. n \in Live(d2) \ Live(d)
  OBVIOUS
<1> QED BY <1>1, Zenon DEF Rebuilt

LEMMA RebuiltOrdered ==
  ASSUME NEW d, NEW g, NEW lev, NEW xi, NEW yi, Exchange(d, g, lev, xi, yi), NEW f \in g,
         NEW d2, NEW c1, NEW c0, Rebuilt(d, d2, f, xi, yi, c1, c0)
  PROVE  Ordered(d2, g \ {f}, lev) /\ Waiting(d2, g \ {f}, lev, xi, yi)
<1>1. ASSUME NEW n \in Live(d2) \ (g \ {f}), NEW c \in Children(d2, n)
      PROVE  lev[d2[n].index] < lev[d2[c].index]
  <2>1. CASE n = f
    <3>1. d2[f].index = yi
      BY ChainNode, RebuiltOld
    <3> QED BY <2>1, <3>1, <1>1, RebuiltChildren
  <2>2. CASE n # f /\ n \in Live(d)
    <3>1. n \notin g /\ c \in Children(d, n)
      BY <1>1, <2>2, RebuiltOld
    <3>2. c \in Live(d)
      BY <2>2, <3>1, ChildType DEF Exchange
    <3>3. lev[d[n].index] < lev[d[c].index]
      BY <2>2, <3>1 DEF Exchange, Ordered
    <3> QED BY <2>2, <3>2, <3>3, RebuiltOld
  <2>3. CASE n \notin Live(d)
    <3>1. d2[n].index = xi /\ c \in Below(d, f, yi)
      BY <2>3, <1>1, RebuiltNew
    <3>2. c \in Live(d) /\ lev[xi] < lev[d[c].index]
      BY <3>1, BelowChain
    <3> QED BY <3>1, <3>2, RebuiltOld
  <2> QED BY <2>1, <2>2, <2>3
<1>2. ASSUME NEW h \in g \ {f}
      PROVE  /\ h \in Live(d2) /\ d2[h].index = yi
             /\ \E c \in Children(d2, h) : d2[c].index = yi
             /\ \A c \in Children(d2, h) :
                   /\ c \notin g \ {f}
                   /\ d2[c].index = yi => ~Crosses(d2, c, xi)
                   /\ d2[c].index # yi => lev[xi] < lev[d2[c].index]
  <2>1. h \in Live(d) /\ h \in g /\ h # f /\ Table(d)
    BY DEF Exchange, Waiting
  <2>2. Children(d2, h) = Children(d, h) /\ d2[h].index = d[h].index
    BY <2>1, RebuiltOld
  <2>3. \A c \in Children(d, h) : c \in Live(d) /\ d2[c].index = d[c].index
    BY <2>1, RebuiltOld, ChildType
  <2>4. /\ d[h].index = yi /\ \E c \in Children(d, h) : d[c].index = yi
        /\ \A c \in Children(d, h) : /\ c \notin g
                                     /\ d[c].index = yi => ~Crosses(d, c, xi)
                                     /\ d[c].index # yi => lev[xi] < lev[d[c].index]
    BY <2>1 DEF Exchange, Waiting
  <2>5. ASSUME NEW c \in Children(d, h), d[c].index = yi PROVE ~Crosses(d2, c, xi)
    <3>1. c \in Live(d) /\ c # f /\ ~Crosses(d, c, xi)
      BY <2>3, <2>4, <2>5
    <3>2. Children(d2, c) = Children(d, c) /\ d2[c].index = d[c].index
      BY <3>1, RebuiltOld
    <3>3. \A k \in Children(d, c) : d2[k].index = d[k].index
      BY <2>1, <3>1, RebuiltOld, ChildType
    <3> QED BY <3>1, <3>2, <3>3 DEF Crosses
  <2> QED BY <2>1, <2>2, <2>3, <2>4, <2>5, RebuiltOld
<1> QED BY <1>1, <1>2 DEF Ordered, Waiting

LEMMA RebuiltReduced ==
  ASSUME NEW d, NEW g, NEW lev, NEW xi, NEW yi, Exchange(d, g, lev, xi, yi), NEW f \in g,
         NEW d2, NEW c1, NEW c0, Rebuilt(d, d2, f, xi, yi, c1, c0)
  PROVE  Reduced(d2, g \ {f})
<1>1. /\ f \in Live(d) /\ d[f].index = yi /\ xi # yi /\ Reduced(d, g)
  BY ChainNode DEF Exchange
<1>2. /\ c1 \in KnownEdges(d2) /\ c1[2] = FALSE /\ d2[f].T = c1[1] /\ d2[f].E = c0
      /\ Cofactors(d2, c1, xi) = <<Then(d, f, yi)[1], Else(d, f, yi)[1]>>
      /\ Cofactors(d2, c0, xi) = <<Then(d, f, yi)[2], Else(d, f, yi)[2]>>
  BY Zenon DEF Rebuilt
<1>3. <<d2[f].T, FALSE>> = c1
  BY <1>2, EdgeRegular DEF KnownEdges
<1>4. ASSUME NEW n \in Live(d) \ g, d[n].index = yi
      PROVE  ~(d[n].T = d2[f].T /\ d[n].E = d2[f].E)
  <2> SUFFICES ASSUME d[n].T = d2[f].T, d[n].E = d2[f].E PROVE FALSE
    OBVIOUS
  <2>1. <<d[n].T, FALSE>> \in KnownEdges(d) /\ d[n].E \in KnownEdges(d)
    BY LiveType DEF Exchange, KnownEdges
  <2>2. /\ Cofactors(d2, <<d[n].T, FALSE>>, xi) = Cofactors(d, <<d[n].T, FALSE>>, xi)
        /\ Cofactors(d2, d[n].E, xi) = Cofactors(d, d[n].E, xi)
    BY <2>1, RebuiltCofactors
  <2>3. <<d[n].T, FALSE>> = c1 /\ d[n].E = c0
    BY <1>2, <1>3, Zenon
  <2>4. ~ /\ Cofactors(d, <<d[n].T, FALSE>>, xi) = <<Then(d, f, yi)[1], Else(d, f, yi)[1]>>
          /\ Cofactors(d, d[n].E, xi) = <<Then(d, f, yi)[2], Else(d, f, yi)[2]>>
    BY <1>4 DEF Exchange, NoClash
  <2> QED BY <1>2, <2>2, <2>3, <2>4, Zenon
<1>5. ASSUME NEW m \in Live(d2), NEW n \in Live(d2), m # n, d2[m].index = d2[n].index,
             m \in g \ {f} <=> n \in g \ {f}, d2[m].T = d2[n].T, d2[m].E = d2[n].E
      PROVE  FALSE
  <2>1. m \in Live(d) /\ n \in Live(d)
    <3>1. CASE m \notin Live(d)
      BY <1>5, <3>1, RebuiltNew
    <3>2. CASE n \notin Live(d)
      BY <1>5, <3>2, RebuiltNew
    <3> QED BY <3>1, <3>2
  <2>2. CASE m # f /\ n # f
    <3>1. /\ d[m].index = d[n].index /\ d[m].T = d[n].T /\ d[m].E = d[n].E
          /\ (m \in g <=> n \in g)
      BY <1>5, <2>1, <2>2, RebuiltOld
    <3> QED BY <1>1, <1>5, <2>1, <3>1 DEF Reduced
  <2>3. CASE m = f
    <3>1. n # f /\ n \notin g /\ d[n].index = yi /\ d[n].T = d2[f].T /\ d[n].E = d2[f].E
      BY <1>1, <1>5, <2>1, <2>3, RebuiltOld
    <3> QED BY <1>4, <2>1, <3>1
  <2>4. CASE n = f
    <3>1. m # f /\ m \notin g /\ d[m].index = yi /\ d[m].T = d2[f].T /\ d[m].E = d2[f].E
      BY <1>1, <1>5, <2>1, <2>4, RebuiltOld
    <3> QED BY <1>4, <2>1, <3>1
  <2> QED BY <2>2, <2>3, <2>4
<1>6. ASSUME NEW n \in Live(d2) PROVE <<d2[n].T, FALSE>> # d2[n].E
  <2>1. CASE n = f
    <3>1. c1 # c0
      BY RebuiltChildren
    <3> QED BY <1>2, <1>3, <2>1, <3>1, Zenon
  <2>2. CASE n # f /\ n \in Live(d)
    <3>1. d2[n].T = d[n].T /\ d2[n].E = d[n].E
      BY <2>2, RebuiltOld
    <3>2. <<d[n].T, FALSE>> # d[n].E
      BY <1>1, <2>2 DEF Reduced
    <3> QED BY <3>1, <3>2, Zenon
  <2>3. CASE n \notin Live(d)
    BY <2>3, RebuiltNewReduced
  <2> QED BY <2>1, <2>2, <2>3
<1> QED BY <1>5, <1>6, Zenon DEF Reduced

LEMMA RebuiltNoClash ==
  ASSUME NEW d, NEW g, NEW lev, NEW xi, NEW yi, Exchange(d, g, lev, xi, yi), NEW f \in g,
         NEW d2, NEW c1, NEW c0, Rebuilt(d, d2, f, xi, yi, c1, c0)
  PROVE  NoClash(d2, g \ {f}, xi, yi)
<1> SUFFICES ASSUME NEW n \in Live(d2) \ (g \ {f}), NEW h \in g \ {f}, d2[n].index = yi,
                    Cofactors(d2, <<d2[n].T, FALSE>>, xi)
                      = <<Then(d2, h, yi)[1], Else(d2, h, yi)[1]>>,
                    Cofactors(d2, d2[n].E, xi) = <<Then(d2, h, yi)[2], Else(d2, h, yi)[2]>>
             PROVE  FALSE
  BY Zenon DEF NoClash
<1>1. /\ Table(d) /\ Reduced(d, g) /\ f \in Live(d) /\ d[f].index = yi /\ xi # yi
      /\ yi \in Vars
  BY ChainNode DEF Exchange, Order
<1>2. h \in g /\ h # f /\ h \in Live(d) /\ d[h].index = yi
  BY DEF Exchange, Waiting
<1>3. /\ <<d[h].T, FALSE>> \in KnownEdges(d) /\ <<d[h].T, FALSE>>[1] \notin g
      /\ d[h].E \in KnownEdges(d) /\ d[h].E[1] \notin g
  BY <1>2, ThenElse
<1>4. Then(d2, h, yi) = Then(d, h, yi) /\ Else(d2, h, yi) = Else(d, h, yi)
  <2>1. d2[h].T = d[h].T /\ d2[h].E = d[h].E
    BY <1>2, RebuiltOld
  <2>2. /\ Cofactors(d2, <<d[h].T, FALSE>>, yi) = Cofactors(d, <<d[h].T, FALSE>>, yi)
        /\ Cofactors(d2, d[h].E, yi) = Cofactors(d, d[h].E, yi)
    BY <1>3, RebuiltCofactors
  <2> QED BY <2>1, <2>2, Zenon DEF Then, Else
<1>5. n \in Live(d)
  BY <1>1, RebuiltNew
<1>6. CASE n # f
  <2>1. n \notin g /\ d2[n].T = d[n].T /\ d2[n].E = d[n].E /\ d[n].index = yi
    BY <1>5, <1>6, RebuiltOld
  <2>2. <<d[n].T, FALSE>> \in KnownEdges(d) /\ d[n].E \in KnownEdges(d)
    BY <1>1, <1>5, LiveType DEF KnownEdges
  <2>3. /\ Cofactors(d2, <<d[n].T, FALSE>>, xi) = Cofactors(d, <<d[n].T, FALSE>>, xi)
        /\ Cofactors(d2, d[n].E, xi) = Cofactors(d, d[n].E, xi)
    BY <2>2, RebuiltCofactors
  <2>4. ~ /\ Cofactors(d, <<d[n].T, FALSE>>, xi) = <<Then(d, h, yi)[1], Else(d, h, yi)[1]>>
          /\ Cofactors(d, d[n].E, xi) = <<Then(d, h, yi)[2], Else(d, h, yi)[2]>>
    BY <1>2, <1>5, <2>1 DEF Exchange, NoClash
  <2> QED BY <1>4, <2>1, <2>3, <2>4, Zenon
<1>7. CASE n = f
  <2>1. /\ c1 \in KnownEdges(d2) /\ c1[2] = FALSE /\ d2[f].T = c1[1] /\ d2[f].E = c0
        /\ Cofactors(d2, c1, xi) = <<Then(d, f, yi)[1], Else(d, f, yi)[1]>>
        /\ Cofactors(d2, c0, xi) = <<Then(d, f, yi)[2], Else(d, f, yi)[2]>>
    BY Zenon DEF Rebuilt
  <2>2. <<d2[f].T, FALSE>> = c1
    BY <2>1, EdgeRegular DEF KnownEdges
  <2>3. /\ <<Then(d, f, yi)[1], Else(d, f, yi)[1]>> = <<Then(d, h, yi)[1], Else(d, h, yi)[1]>>
        /\ <<Then(d, f, yi)[2], Else(d, f, yi)[2]>> = <<Then(d, h, yi)[2], Else(d, h, yi)[2]>>
    BY <1>4, <1>7, <2>1, <2>2, Zenon
  <2>4. /\ Then(d, f, yi)[1] = Then(d, h, yi)[1] /\ Then(d, f, yi)[2] = Then(d, h, yi)[2]
        /\ Else(d, f, yi)[1] = Else(d, h, yi)[1] /\ Else(d, f, yi)[2] = Else(d, h, yi)[2]
    BY <2>3
  <2>5. /\ <<d[f].T, FALSE>> \in KnownEdges(d) /\ <<d[f].T, FALSE>>[1] \notin g
        /\ d[f].E \in KnownEdges(d) /\ d[f].E[1] \notin g
    BY ThenElse
  <2>6. d[f].E = d[h].E
    BY <1>1, <1>3, <2>4, <2>5, CofactorsInjective DEF Else
  <2>7. <<d[f].T, FALSE>> = <<d[h].T, FALSE>>
    <3> DEFINE u == <<d[f].T, FALSE>>
               v == <<d[h].T, FALSE>>
    <3>1. /\ u \in KnownEdges(d) /\ u[1] \notin g /\ v \in KnownEdges(d) /\ v[1] \notin g
          /\ Cofactors(d, u, yi) = Then(d, f, yi) /\ Cofactors(d, v, yi) = Then(d, h, yi)
      BY <1>3, <2>5, Zenon DEF Then
    <3> HIDE DEF u, v
    <3>2. u = v
      BY <1>1, <2>4, <3>1, CofactorsInjective
    <3> QED BY <3>2 DEF u, v
  <2>8. d[f].T = d[h].T
    BY <2>7
  <2> QED BY <1>1, <1>2, <2>6, <2>8 DEF Reduced
<1> QED BY <1>6, <1>7

LEMMA RebuiltExchange ==
  ASSUME NEW d, NEW g, NEW lev, NEW xi, NEW yi, Exchange(d, g, lev, xi, yi), NEW f \in g,
         NEW d2, NEW c1, NEW c0, Rebuilt(d, d2, f, xi, yi, c1, c0)
  PROVE  Exchange(d2, g \ {f}, lev, xi, yi)
BY RebuiltOld, RebuiltOrdered, RebuiltReduced, RebuiltNoClash DEF Exchange

-----------------------------------------------------------------------------
(* Nodes without references *)

HasParent(d, n) == \E p \in Live(d) : n \in Children(d, p)

\* A node left without references is over yi, and each of its children has a
\* parent that stays.
Kept(d, g, xi, yi) ==
    \A n \in Live(d) :
       \/ Excess(d, n) > 0 \/ HasParent(d, n)
       \/ /\ d[n].index = yi /\ n \notin g /\ ~Crosses(d, n, xi)
          /\ \A c \in Children(d, n) :
                \E p \in Live(d) : c \in Children(d, p) /\ Crosses(d, p, xi)

\* The children of f, or theirs when they are over yi, are what f is rebuilt from.
LEMMA ChainChildren ==
  ASSUME NEW d, NEW g, NEW lev, NEW xi, NEW yi, Exchange(d, g, lev, xi, yi), NEW f \in g,
         NEW n \in Children(d, f)
  PROVE  /\ d[n].index # yi => n \in Below(d, f, yi)
         /\ d[n].index = yi => Children(d, n) \subseteq Below(d, f, yi)
<1>1. /\ Table(d) /\ yi \in Vars /\ f \in Live(d)
  BY ChainNode DEF Exchange, Order
<1>2. n \in Live(d) /\ n # ONE /\ index(d, n) = d[n].index
  BY <1>1, ChildType
<1>3. /\ <<d[f].T, FALSE>> \in KnownEdges(d) /\ d[f].E \in KnownEdges(d)
      /\ <<d[f].T, FALSE>>[1] = d[f].T
  BY ThenElse
<1>4. ASSUME NEW e \in KnownEdges(d), e[1] = n
      PROVE  /\ d[n].index # yi => /\ Cofactors(d, e, yi)[1][1] = n
                                   /\ Cofactors(d, e, yi)[2][1] = n
             /\ d[n].index = yi => /\ Cofactors(d, e, yi)[1][1] = d[n].T
                                   /\ Cofactors(d, e, yi)[2][1] = d[n].E[1]
  BY <1>1, <1>2, <1>4, CofactorsKnown
<1>5. CASE n = d[f].T
  <2>1. /\ d[n].index # yi => Then(d, f, yi)[1][1] = n
        /\ d[n].index = yi => /\ Then(d, f, yi)[1][1] = d[n].T
                              /\ Then(d, f, yi)[2][1] = d[n].E[1]
    BY <1>3, <1>4, <1>5 DEF Then
  <2> QED BY <1>2, <2>1 DEF Below, Children
<1>6. CASE n = d[f].E[1]
  <2>1. /\ d[n].index # yi => Else(d, f, yi)[1][1] = n
        /\ d[n].index = yi => /\ Else(d, f, yi)[1][1] = d[n].T
                              /\ Else(d, f, yi)[2][1] = d[n].E[1]
    BY <1>3, <1>4, <1>6 DEF Else
  <2> QED BY <1>2, <2>1 DEF Below, Children
<1> QED BY <1>5, <1>6 DEF Children

LEMMA RebuiltExcess ==
  ASSUME NEW d, NEW xi, NEW yi, NEW f, NEW d2, NEW c1, NEW c0,
         Rebuilt(d, d2, f, xi, yi, c1, c0), NEW n \in Live(d)
  PROVE  Excess(d2, n) = Excess(d, n)
BY Zenon DEF Rebuilt

LEMMA RebuiltParents ==
  ASSUME NEW d, NEW g, NEW lev, NEW xi, NEW yi, Exchange(d, g, lev, xi, yi), NEW f \in g,
         NEW d2, NEW c1, NEW c0, Rebuilt(d, d2, f, xi, yi, c1, c0), NEW n \in Live(d)
  PROVE  /\ d[n].index # yi /\ HasParent(d, n) => HasParent(d2, n)
         /\ d[n].index \notin {xi, yi} /\ HasParent(d2, n) => HasParent(d, n)
<1>1. ASSUME NEW u \in Below(d, f, yi) PROVE HasParent(d2, u) /\ HasParent(d, u)
  BY BelowKept, BelowChain DEF HasParent
<1>2. ASSUME NEW p \in Live(d), n \in Children(d, p), d[n].index # yi PROVE HasParent(d2, n)
  <2>1. CASE p = f
    BY <1>1, <1>2, <2>1, ChainChildren
  <2>2. CASE p # f
    <3>1. p \in Live(d2) /\ Children(d2, p) = Children(d, p)
      BY <2>2, RebuiltOld
    <3> QED BY <1>2, <3>1 DEF HasParent
  <2> QED BY <2>1, <2>2
<1>3. ASSUME NEW p \in Live(d2), n \in Children(d2, p), d[n].index \notin {xi, yi}
      PROVE  HasParent(d, n)
  <2>1. d2[n].index = d[n].index
    BY RebuiltOld
  <2>2. CASE p = f
    BY <1>1, <1>3, <2>1, <2>2, RebuiltChildren
  <2>3. CASE p # f /\ p \in Live(d)
    <3>1. Children(d2, p) = Children(d, p)
      BY <2>3, RebuiltOld
    <3> QED BY <1>3, <2>3, <3>1 DEF HasParent
  <2>4. CASE p \notin Live(d)
    <3>1. n \in Below(d, f, yi)
      BY <1>3, <2>4, RebuiltNew
    <3> QED BY <1>1, <3>1
  <2> QED BY <2>2, <2>3, <2>4
<1> QED BY <1>2, <1>3 DEF HasParent

LEMMA RebuiltKept ==
  ASSUME NEW d, NEW g, NEW lev, NEW xi, NEW yi, Exchange(d, g, lev, xi, yi), NEW f \in g,
         NEW d2, NEW c1, NEW c0, Rebuilt(d, d2, f, xi, yi, c1, c0), Kept(d, g, xi, yi)
  PROVE  Kept(d2, g \ {f}, xi, yi)
<1> DEFINE Dead(b, h, n) ==
             /\ b[n].index = yi /\ n \notin h /\ ~Crosses(b, n, xi)
             /\ \A c \in Children(b, n) :
                   \E p \in Live(b) : c \in Children(b, p) /\ Crosses(b, p, xi)
<1>1. /\ Table(d) /\ f \in Live(d) /\ d[f].index = yi /\ xi # yi
  BY ChainNode DEF Exchange
<1>2. ASSUME NEW n \in Live(d) \ {f}
      PROVE  /\ n \in Live(d2) /\ Children(d2, n) = Children(d, n)
             /\ d2[n].index = d[n].index /\ (Crosses(d2, n, xi) <=> Crosses(d, n, xi))
             /\ \A c \in Children(d, n) : c \in Live(d)
  <2>1. n \in Live(d2) /\ Children(d2, n) = Children(d, n) /\ d2[n].index = d[n].index
    BY RebuiltOld
  <2>2. \A c \in Children(d, n) : c \in Live(d) /\ d2[c].index = d[c].index
    BY <1>1, ChildType, RebuiltOld
  <2> QED BY <2>1, <2>2 DEF Crosses
<1>3. ASSUME NEW n \in Live(d2)
      PROVE  Excess(d2, n) > 0 \/ HasParent(d2, n) \/ Dead(d2, g \ {f}, n)
  <2>1. CASE n \notin Live(d)
    <3>1. n \in Children(d2, f) /\ f \in Live(d2)
      BY <2>1, <1>1, RebuiltNew, RebuiltOld
    <3> QED BY <3>1 DEF HasParent
  <2>2. CASE n \in Live(d) /\ Excess(d, n) > 0
    BY <2>2, RebuiltExcess
  <2>3. CASE n \in Live(d) /\ HasParent(d, n)
    <3>1. CASE d[n].index # yi
      BY <2>3, <3>1, RebuiltParents
    <3>2. CASE d[n].index = yi
      <4>1. PICK p \in Live(d) : n \in Children(d, p)
        BY <2>3 DEF HasParent
      <4>2. CASE p # f
        <5>1. p \in Live(d2) /\ Children(d2, p) = Children(d, p)
          BY <1>2, <4>2
        <5> QED BY <4>1, <5>1 DEF HasParent
      <4>3. CASE p = f
        <5>1. n \notin g /\ ~Crosses(d, n, xi)
          BY <3>2, <4>1, <4>3 DEF Exchange, Waiting
        <5>2. n # f
          BY <5>1
        <5>3. Children(d, n) \subseteq Below(d, f, yi)
          BY <3>2, <4>1, <4>3, ChainChildren
        <5>4. d2[n].index = yi /\ Children(d2, n) = Children(d, n) /\ ~Crosses(d2, n, xi)
          BY <1>2, <2>3, <3>2, <5>1, <5>2
        <5>5. \A u \in Below(d, f, yi) :
                 \E k \in Live(d2) : u \in Children(d2, k) /\ Crosses(d2, k, xi)
          BY BelowKept
        <5>6. Dead(d2, g \ {f}, n)
          BY <5>1, <5>3, <5>4, <5>5
        <5> QED BY <5>6
      <4> QED BY <4>2, <4>3
    <3> QED BY <3>1, <3>2
  <2>4. CASE n \in Live(d) /\ Dead(d, g, n)
    <3>1. n # f
      BY <2>4
    <3>2. d2[n].index = yi /\ n \notin g /\ Children(d2, n) = Children(d, n)
          /\ ~Crosses(d2, n, xi)
      BY <1>2, <2>4, <3>1
    <3>3. ASSUME NEW c \in Children(d, n)
          PROVE  \E p \in Live(d2) : c \in Children(d2, p) /\ Crosses(d2, p, xi)
      <4>1. PICK p \in Live(d) : c \in Children(d, p) /\ Crosses(d, p, xi)
        BY <2>4
      <4>2. ~Crosses(d, f, xi)
        BY <1>1, ChainNode DEF Crosses
      <4>3. p # f
        BY <4>1, <4>2
      <4>4. p \in Live(d2) /\ Children(d2, p) = Children(d, p) /\ Crosses(d2, p, xi)
        BY <1>2, <4>1, <4>3
      <4> QED BY <4>1, <4>4
    <3>4. Dead(d2, g \ {f}, n)
      BY <3>2, <3>3
    <3> QED BY <3>4
  <2>5. n \in Live(d) => Excess(d, n) > 0 \/ HasParent(d, n) \/ Dead(d, g, n)
    BY DEF Kept
  <2> HIDE DEF Dead
  <2> QED BY <2>1, <2>2, <2>3, <2>4, <2>5
<1> QED BY <1>3 DEF Kept

-----------------------------------------------------------------------------
(* The supports of the nodes, and the functions they denote *)

\* W gives every node the variables its function depends on.
Supports(d, g, xi, W) ==
    \A n \in Live(d), i \in Vars :
       i \in W[n] <=> \/ i = d[n].index \/ (n \in g /\ i = xi)
                      \/ \E c \in Children(d, n) : i \in W[c]

Interacts(d, g, xi, pairs) ==
    \E W \in [Pool -> SUBSET Vars] :
       Supports(d, g, xi, W) /\ \A n \in Live(d) : W[n] \X W[n] \subseteq pairs

\* A child of f over xi is the one the cofactors of f call for.
LEMMA RebuiltGrandchildren ==
  ASSUME NEW d, NEW g, NEW lev, NEW xi, NEW yi, Exchange(d, g, lev, xi, yi), NEW f \in g,
         NEW d2, NEW c1, NEW c0, Rebuilt(d, d2, f, xi, yi, c1, c0),
         NEW c \in Children(d2, f), d2[c].index = xi
  PROVE  Children(d2, c) \subseteq Below(d, f, yi)
<1> DEFINE t1 == Then(d, f, yi)[1]
           t0 == Then(d, f, yi)[2]
           e1 == Else(d, f, yi)[1]
           e0 == Else(d, f, yi)[2]
<1>1. /\ Cofactors(d2, c1, xi) = <<t1, e1>> /\ Cofactors(d2, c0, xi) = <<t0, e0>>
      /\ Table(d2) /\ c1 \in KnownEdges(d2) /\ c0 \in KnownEdges(d2)
  BY Zenon DEF Rebuilt
<1>2. Below(d, f, yi) = {t1[1], t0[1], e1[1], e0[1]} \ {ONE}
  BY DEF Below
<1>3. xi \in Vars /\ c # ONE /\ c \in {c1[1], c0[1]} /\ index(d2, c) = xi
  BY RebuiltOld DEF Exchange, Order, index
<1> HIDE DEF t1, t0, e1, e0
<1>4. ASSUME NEW h \in KnownEdges(d2), NEW t, NEW e, Cofactors(d2, h, xi) = <<t, e>>, h[1] = c
      PROVE  d2[c].T = t[1] /\ d2[c].E[1] = e[1]
  <2>1. /\ Cofactors(d2, h, xi)[1][1] = d2[c].T /\ Cofactors(d2, h, xi)[2][1] = d2[c].E[1]
    BY <1>1, <1>3, <1>4, CofactorsKnown
  <2>2. Cofactors(d2, h, xi)[1] = t /\ Cofactors(d2, h, xi)[2] = e
    BY <1>4
  <2> QED BY <2>1, <2>2
<1>5. \/ d2[c].T = t1[1] /\ d2[c].E[1] = e1[1]
      \/ d2[c].T = t0[1] /\ d2[c].E[1] = e0[1]
  BY <1>1, <1>3, <1>4
<1> QED BY <1>2, <1>5 DEF Children

LEMMA RebuiltInteracts ==
  ASSUME NEW d, NEW g, NEW lev, NEW xi, NEW yi, Exchange(d, g, lev, xi, yi), NEW f \in g,
         NEW d2, NEW c1, NEW c0, Rebuilt(d, d2, f, xi, yi, c1, c0),
         NEW pairs, Interacts(d, g, xi, pairs)
  PROVE  Interacts(d2, g \ {f}, xi, pairs)
<1>1. PICK W \in [Pool -> SUBSET Vars] :
         Supports(d, g, xi, W) /\ \A n \in Live(d) : W[n] \X W[n] \subseteq pairs
  BY DEF Interacts
<1>2. /\ Table(d) /\ f \in Live(d) /\ d[f].index = yi /\ xi # yi /\ xi \in Vars /\ yi \in Vars
      /\ f \in Pool /\ Table(d2) /\ f \in Live(d2) /\ d2[f].index = yi
  BY ChainNode, RebuiltOld, LiveFinite DEF Exchange, Order
<1>3. \A u \in Below(d, f, yi) : u \in Live(d) /\ u \in Pool
  BY BelowChain, LiveFinite
<1>4. \A n \in Live(d2) : n \in Pool
  BY LiveFinite
<1>5. \A n \in Live(d2) : n \notin Live(d) => Children(d2, n) \subseteq Live(d)
  BY <1>3, RebuiltNew
<1> DEFINE w(n) == IF n \in Live(d) THEN W[n]
                   ELSE {i \in Vars : i = xi \/ \E c \in Children(d2, n) : i \in W[c]}
           W2 == [n \in Pool |-> w(n)]
<1>6. W2 \in [Pool -> SUBSET Vars]
  <2>1. \A n \in Pool : w(n) \in SUBSET Vars
    OBVIOUS
  <2> QED BY <2>1
<1>7. /\ \A n \in Live(d) : W2[n] = W[n]
      /\ \A n \in Live(d2), i \in Vars :
            n \notin Live(d) => (i \in W2[n] <=> \/ i = xi
                                                \/ \E c \in Children(d2, n) : i \in W2[c])
  <2>1. \A n \in Live(d) : n \in Pool
    BY LiveFinite
  <2>2. \A n \in Live(d) : W2[n] = W[n]
    BY <2>1
  <2>3. ASSUME NEW n \in Live(d2), n \notin Live(d)
        PROVE  W2[n] = {i \in Vars : i = xi \/ \E c \in Children(d2, n) : i \in W2[c]}
    <3>1. \A c \in Children(d2, n) : W2[c] = W[c]
      BY <1>5, <2>2, <2>3
    <3>2. W2[n] = {i \in Vars : i = xi \/ \E c \in Children(d2, n) : i \in W[c]}
      BY <1>4, <2>3
    <3> HIDE DEF W2
    <3> QED BY <3>1, <3>2
  <2> HIDE DEF W2
  <2> QED BY <2>2, <2>3
<1> HIDE DEF W2
<1>8. ASSUME NEW n \in Live(d), NEW i \in Vars
      PROVE  i \in W[n] <=> \/ i = d[n].index \/ (n \in g /\ i = xi)
                            \/ \E c \in Children(d, n) : i \in W[c]
  BY <1>1 DEF Supports
<1>9. \A n \in Live(d) : W[n] \subseteq Vars
  BY <1>4, LiveFinite
<1>10. ASSUME NEW u \in Below(d, f, yi), NEW i \in W[u] PROVE i \in W[f]
  <2>1. i \in Vars
    BY <1>3, <1>9
  <2>2. PICK p \in Live(d) : u \in Children(d, p) /\ (p = f \/ p \in Children(d, f))
    BY BelowChain
  <2>3. i \in W[p]
    BY <1>8, <1>10, <2>1, <2>2
  <2> QED BY <1>2, <1>8, <2>1, <2>2, <2>3
<1>11. ASSUME NEW i \in W[f] PROVE i \in {xi, yi} \/ \E u \in Below(d, f, yi) : i \in W[u]
  <2>1. i \in Vars
    BY <1>2, <1>9
  <2> SUFFICES ASSUME i \notin {xi, yi} PROVE \E u \in Below(d, f, yi) : i \in W[u]
    OBVIOUS
  <2>2. PICK c \in Children(d, f) : i \in W[c]
    BY <1>2, <1>8, <2>1
  <2>3. CASE d[c].index # yi
    BY <2>2, <2>3, ChainChildren
  <2>4. CASE d[c].index = yi
    <3>1. c \in Live(d)
      BY <1>2, ChildType
    <3>2. PICK k \in Children(d, c) : i \in W[k]
      BY <1>8, <2>1, <2>2, <2>4, <3>1
    <3> QED BY <2>4, <3>2, ChainChildren
  <2> QED BY <2>3, <2>4
<1>12. ASSUME NEW u \in Below(d, f, yi), NEW i \in W[u]
       PROVE  \E c \in Children(d2, f) : i \in W2[c]
  <2>1. i \in Vars
    BY <1>3, <1>9
  <2>2. PICK p \in Live(d2) : u \in Children(d2, p) /\ (p = f \/ p \in Children(d2, f))
    BY BelowKept
  <2>3. W2[u] = W[u]
    BY <1>3, <1>7
  <2>4. CASE p = f
    BY <2>2, <2>3, <2>4, <1>12
  <2>5. CASE p # f /\ p \in Live(d)
    <3>1. u \in Children(d, p)
      BY <2>2, <2>5, RebuiltOld
    <3>2. i \in W[p]
      BY <1>8, <1>12, <2>1, <2>5, <3>1
    <3> QED BY <1>7, <2>2, <2>5, <3>2
  <2>6. CASE p \notin Live(d)
    <3>1. i \in W2[p]
      BY <1>7, <1>12, <2>1, <2>2, <2>3, <2>6
    <3> QED BY <1>2, <2>2, <2>6, <3>1
  <2> QED BY <2>4, <2>5, <2>6
<1>13. ASSUME NEW c \in Children(d2, f), NEW i \in W2[c], i \in Vars PROVE i \in W[f]
  <2>1. c \in Live(d2) /\ (c \in Below(d, f, yi) \/ d2[c].index = xi)
    BY RebuiltChildren
  <2>2. CASE c \in Below(d, f, yi)
    BY <1>3, <1>7, <1>10, <1>13, <2>2
  <2>3. xi \in W[f]
    BY <1>2, <1>8
  <2>4. CASE c \notin Live(d)
    <3>1. i = xi \/ \E k \in Children(d2, c) : i \in W2[k]
      BY <1>7, <1>13, <2>1, <2>4
    <3>2. Children(d2, c) \subseteq Below(d, f, yi)
      BY <2>1, <2>4, RebuiltNew
    <3> QED BY <1>3, <1>7, <1>10, <2>3, <3>1, <3>2
  <2>5. CASE c \in Live(d) /\ d2[c].index = xi
    <3>1. c # f /\ c \notin g /\ d[c].index = xi /\ Children(d2, c) = Children(d, c)
      <4>1. c \notin g
        BY RebuiltChildren
      <4> QED BY <1>2, <2>5, <4>1, RebuiltOld
    <3>2. Children(d2, c) \subseteq Below(d, f, yi)
      BY <2>5, RebuiltGrandchildren
    <3>3. i \in W[c]
      BY <1>7, <1>13, <2>5
    <3>4. i = xi \/ \E k \in Children(d, c) : i \in W[k]
      BY <1>8, <1>13, <2>5, <3>1, <3>3
    <3> QED BY <1>10, <2>3, <3>1, <3>2, <3>4
  <2> QED BY <2>1, <2>2, <2>4, <2>5
<1>14. ASSUME NEW n \in Live(d2), NEW i \in Vars
       PROVE  i \in W2[n] <=> \/ i = d2[n].index \/ (n \in g \ {f} /\ i = xi)
                              \/ \E c \in Children(d2, n) : i \in W2[c]
  <2>1. CASE n = f
    <3>1. W2[f] = W[f]
      BY <1>2, <1>7
    <3>2. yi \in W[f]
      BY <1>2, <1>8
    <3>3. \E c \in Children(d2, f) : xi \in W2[c]
      <4>1. PICK c \in Children(d2, f) : d2[c].index = xi
        BY <1>2, RebuiltChildren DEF Crosses
      <4>2. c \in Live(d2)
        BY RebuiltChildren
      <4>3. CASE c \in Live(d)
        BY <1>2, <1>7, <1>8, <4>1, <4>3, RebuiltOld
      <4>4. CASE c \notin Live(d)
        BY <1>2, <1>7, <4>2, <4>4
      <4> QED BY <4>3, <4>4
    <3>4. i \in W[f] => i = yi \/ \E c \in Children(d2, f) : i \in W2[c]
      BY <1>11, <1>12, <3>3
    <3>5. i = yi \/ (\E c \in Children(d2, f) : i \in W2[c]) => i \in W[f]
      BY <1>13, <3>2
    <3> QED BY <1>2, <2>1, <3>1, <3>4, <3>5
  <2>2. CASE n # f /\ n \in Live(d)
    <3>1. Children(d2, n) = Children(d, n) /\ d2[n].index = d[n].index
      BY <2>2, RebuiltOld
    <3>2. \A c \in Children(d, n) : W2[c] = W[c]
      BY <1>2, <1>7, <2>2, ChildType
    <3>3. W2[n] = W[n] /\ (n \in g <=> n \in g \ {f})
      BY <1>7, <2>2
    <3> QED BY <1>8, <2>2, <3>1, <3>2, <3>3
  <2>3. CASE n \notin Live(d)
    <3>1. n \notin g /\ d2[n].index = xi
      BY <2>3, RebuiltNew
    <3> QED BY <1>7, <2>3, <3>1
  <2> QED BY <2>1, <2>2, <2>3
<1>15. ASSUME NEW n \in Live(d2) PROVE W2[n] \X W2[n] \subseteq pairs
  <2>1. CASE n \in Live(d)
    BY <1>1, <1>7, <2>1
  <2>2. CASE n \notin Live(d)
    <3>1. n \in Children(d2, f)
      BY <2>2, RebuiltNew
    <3>2. W2[n] \subseteq W[f]
      BY <1>4, <1>6, <1>13, <3>1
    <3>3. W[f] \X W[f] \subseteq pairs
      BY <1>1, <1>2
    <3> QED BY <3>2, <3>3
  <2> QED BY <2>1, <2>2
<1>16. Supports(d2, g \ {f}, xi, W2)
  BY <1>14 DEF Supports
<1> QED BY <1>6, <1>15, <1>16 DEF Interacts

\* Whether the edge e denotes truth, v being the nodes that do.
Holds(v, e) == e[1] \in v \cup {ONE} <=> e[2] = FALSE

\* Node n chooses between its children by the variable i.
Chooses(d, a, v, n, i) ==
    n \in v <=> IF a[i] THEN Holds(v, <<d[n].T, FALSE>>) ELSE Holds(v, d[n].E)

\* v is the nodes that denote truth under the assignment a: a node of the chain
\* still has its children by xi.
Follows(d, g, xi, a, v) ==
    \A n \in Live(d) : Chooses(d, a, v, n, IF n \in g THEN xi ELSE d[n].index)

LEMMA HoldsNot ==
  ASSUME NEW v, NEW n
  PROVE  /\ Holds(v, <<n, FALSE>>) <=> n \in v \cup {ONE}
         /\ Holds(v, <<n, TRUE>>) <=> n \notin v \cup {ONE}
<1>1. /\ <<n, FALSE>>[1] = n /\ <<n, TRUE>>[1] = n
      /\ <<n, FALSE>>[2] = FALSE /\ <<n, TRUE>>[2] = TRUE
  OBVIOUS
<1>2. ~(TRUE = FALSE)
  OBVIOUS
<1> QED BY <1>1, <1>2, Zenon DEF Holds

LEMMA HoldsNegated ==
  ASSUME NEW S, NEW e \in S \X BOOLEAN, NEW v
  PROVE  Holds(v, Not(e)) <=> ~Holds(v, e)
<1>1. PICK n \in S : e = <<n, FALSE>> \/ e = <<n, TRUE>>
  BY EdgeForm
<1>2. Not(<<n, FALSE>>) = <<n, TRUE>> /\ Not(<<n, TRUE>>) = <<n, FALSE>>
  BY DEF Not
<1>3. /\ Holds(v, <<n, FALSE>>) <=> n \in v \cup {ONE}
      /\ Holds(v, <<n, TRUE>>) <=> n \notin v \cup {ONE}
  BY HoldsNot
<1> QED BY <1>1, <1>2, <1>3, Zenon

LEMMA HoldsSame ==
  ASSUME NEW v, NEW w, NEW e, e[1] \in v \cup {ONE} <=> e[1] \in w \cup {ONE}
  PROVE  Holds(v, e) <=> Holds(w, e)
BY Zenon DEF Holds

\* An edge holds when its cofactor does.
LEMMA HoldsCofactor ==
  ASSUME NEW d, Table(d), NEW a \in Asgs, NEW v, NEW e \in KnownEdges(d),
         e[1] \in Live(d) => Chooses(d, a, v, e[1], d[e[1]].index), NEW i \in Vars
  PROVE  Holds(v, e) <=> IF a[i] THEN Holds(v, Cofactors(d, e, i)[1])
                         ELSE Holds(v, Cofactors(d, e, i)[2])
<1>1. CASE index(d, e[1]) # i
  <2>1. Cofactors(d, e, i)[1] = e /\ Cofactors(d, e, i)[2] = e
    BY <1>1, CofactorsKnown
  <2> QED BY <2>1, Zenon
<1>2. CASE index(d, e[1]) = i
  <2>1. PICK n \in Known(d) : e = <<n, FALSE>> \/ e = <<n, TRUE>>
    BY EdgeForm DEF KnownEdges
  <2>2. <<n, FALSE>>[1] = n /\ <<n, TRUE>>[1] = n
    OBVIOUS
  <2>3. e[1] = n
    BY <2>1, <2>2, Zenon
  <2>4. n \in Live(d) /\ d[n].index = i /\ n # ONE
    BY <1>2, <2>3, KnownIndex, LiveType DEF Extends
  <2>5. d[n].E \in Known(d) \X BOOLEAN
    BY <2>4, LiveType DEF KnownEdges
  <2>6. /\ Cofactors(d, <<n, FALSE>>, i)[1] = <<d[n].T, FALSE>>
        /\ Cofactors(d, <<n, FALSE>>, i)[2] = d[n].E
        /\ Cofactors(d, <<n, TRUE>>, i)[1] = <<d[n].T, TRUE>>
        /\ Cofactors(d, <<n, TRUE>>, i)[2] = Not(d[n].E)
    BY <2>4, CofactorsOf, Zenon
  <2>7. n \in v <=> IF a[i] THEN Holds(v, <<d[n].T, FALSE>>) ELSE Holds(v, d[n].E)
    BY <2>3, <2>4, Zenon DEF Chooses
  <2>8. Holds(v, Not(d[n].E)) <=> ~Holds(v, d[n].E)
    BY <2>5, HoldsNegated
  <2>9. Holds(v, <<d[n].T, TRUE>>) <=> ~Holds(v, <<d[n].T, FALSE>>)
    BY HoldsNot
  <2>10. /\ Holds(v, <<n, FALSE>>) <=> n \in v
         /\ Holds(v, <<n, TRUE>>) <=> n \notin v
    <3>1. n \in v \cup {ONE} <=> n \in v
      BY <2>4
    <3>2. /\ Holds(v, <<n, FALSE>>) <=> n \in v \cup {ONE}
          /\ Holds(v, <<n, TRUE>>) <=> n \notin v \cup {ONE}
      BY HoldsNot
    <3> QED BY <3>1, <3>2, Zenon
  <2>11. CASE a[i]
    BY <2>1, <2>6, <2>7, <2>9, <2>10, <2>11, Zenon
  <2>12. CASE ~a[i]
    BY <2>1, <2>6, <2>7, <2>8, <2>10, <2>12, Zenon
  <2> QED BY <2>11, <2>12
<1> QED BY <1>1, <1>2

LEMMA RebuiltFollows ==
  ASSUME NEW d, NEW g, NEW lev, NEW xi, NEW yi, Exchange(d, g, lev, xi, yi), NEW f \in g,
         NEW d2, NEW c1, NEW c0, Rebuilt(d, d2, f, xi, yi, c1, c0),
         NEW a \in Asgs, NEW v, Follows(d, g, xi, a, v)
  PROVE  \E w \in SUBSET Pool : /\ Follows(d2, g \ {f}, xi, a, w)
                                /\ \A e \in KnownEdges(d) : Holds(w, e) <=> Holds(v, e)
<1> DEFINE new == {n \in Live(d2) \ Live(d) :
                     IF a[xi] THEN Holds(v, <<d2[n].T, FALSE>>) ELSE Holds(v, d2[n].E)}
           w == (v \cap Live(d)) \cup new
<1>1. /\ Table(d) /\ Table(d2) /\ f \in Live(d) /\ f \in Live(d2) /\ d[f].index = yi /\ xi # yi
      /\ d2[f].index = yi /\ xi \in Vars /\ yi \in Vars /\ Live(d) \subseteq Live(d2)
      /\ f \notin g \ {f}
  BY ChainNode, RebuiltOld DEF Exchange, Order
<1>2. w \in SUBSET Pool
  BY LiveFinite
<1>3. /\ \A n \in Known(d) : n \in w \cup {ONE} <=> n \in v \cup {ONE}
      /\ \A n \in Live(d) : n \in w <=> n \in v
      /\ \A n \in Live(d2) \ Live(d) :
            n \in w <=> IF a[xi] THEN Holds(v, <<d2[n].T, FALSE>>) ELSE Holds(v, d2[n].E)
  BY Zenon DEF Known
<1> HIDE DEF w, new
<1>4. ASSUME NEW e \in KnownEdges(d) PROVE Holds(w, e) <=> Holds(v, e)
  <2>1. e[1] \in Known(d)
    BY DEF KnownEdges
  <2> QED BY <1>3, <2>1, HoldsSame
<1>5. ASSUME NEW n \in Live(d), NEW b \in BOOLEAN
      PROVE  <<d[n].T, FALSE>> \in KnownEdges(d) /\ d[n].E \in KnownEdges(d)
  BY <1>1, LiveType DEF KnownEdges
<1>6. ASSUME NEW n \in Live(d2), n \notin Live(d)
      PROVE  Chooses(d2, a, w, n, IF n \in g \ {f} THEN xi ELSE d2[n].index)
  <2>1. (IF n \in g \ {f} THEN xi ELSE d2[n].index) = xi
    BY <1>6, RebuiltNew
  <2>2. d2[n].T \in Known(d) /\ d2[n].E \in KnownEdges(d)
    <3>1. Children(d2, n) \subseteq Known(d)
      BY <1>6, RebuiltNew, BelowChain DEF Known
    <3>2. d2[n].E \in KnownEdges(d2) /\ ONE \in Known(d)
      BY <1>1, LiveType DEF Known
    <3>3. d2[n].T \in Known(d) /\ d2[n].E[1] \in Known(d)
      BY <3>1, <3>2 DEF Children
    <3> QED BY <3>2, <3>3 DEF KnownEdges
  <2>3. <<d2[n].T, FALSE>> \in KnownEdges(d)
    BY <2>2 DEF KnownEdges
  <2>4. /\ Holds(w, <<d2[n].T, FALSE>>) <=> Holds(v, <<d2[n].T, FALSE>>)
        /\ Holds(w, d2[n].E) <=> Holds(v, d2[n].E)
    BY <1>4, <2>2, <2>3
  <2>5. n \in w <=> IF a[xi] THEN Holds(v, <<d2[n].T, FALSE>>) ELSE Holds(v, d2[n].E)
    BY <1>3, <1>6, Zenon
  <2> QED BY <2>1, <2>4, <2>5, Zenon DEF Chooses
<1>7. ASSUME NEW n \in Live(d) \ {f}
      PROVE  Chooses(d2, a, w, n, IF n \in g \ {f} THEN xi ELSE d2[n].index)
  <2>1. d2[n].T = d[n].T /\ d2[n].E = d[n].E /\ d2[n].index = d[n].index
    BY RebuiltOld
  <2>2. (IF n \in g \ {f} THEN xi ELSE d2[n].index) = (IF n \in g THEN xi ELSE d[n].index)
    BY <2>1
  <2>3. /\ Holds(w, <<d[n].T, FALSE>>) <=> Holds(v, <<d[n].T, FALSE>>)
        /\ Holds(w, d[n].E) <=> Holds(v, d[n].E)
    BY <1>4, <1>5
  <2>4. Chooses(d, a, v, n, IF n \in g THEN xi ELSE d[n].index)
    BY Zenon DEF Follows
  <2>5. n \in w <=> n \in v
    BY <1>3
  <2> QED BY <2>1, <2>2, <2>3, <2>4, <2>5, Zenon DEF Chooses
<1> DEFINE t1 == Then(d, f, yi)[1]
           t0 == Then(d, f, yi)[2]
           e1 == Else(d, f, yi)[1]
           e0 == Else(d, f, yi)[2]
<1>8. /\ c1 \in KnownEdges(d2) /\ c0 \in KnownEdges(d2) /\ c1[2] = FALSE
      /\ d2[f].T = c1[1] /\ d2[f].E = c0
      /\ Cofactors(d2, c1, xi) = <<t1, e1>> /\ Cofactors(d2, c0, xi) = <<t0, e0>>
  BY Zenon DEF Rebuilt
<1>9. <<d2[f].T, FALSE>> = c1
  BY <1>8, EdgeRegular DEF KnownEdges
<1>10. ASSUME NEW c \in KnownEdges(d2), c[1] \in {c1[1], c0[1]}, c[1] \in Live(d2)
       PROVE  Chooses(d2, a, w, c[1], d2[c[1]].index)
  <2>1. c[1] # ONE
    BY <1>1, <1>10, LiveType
  <2>2. c[1] \notin g
    BY <1>10, <2>1, RebuiltOld, RebuiltChildren
  <2>3. (IF c[1] \in g \ {f} THEN xi ELSE d2[c[1]].index) = d2[c[1]].index
    BY <2>2
  <2>4. Chooses(d2, a, w, c[1], IF c[1] \in g \ {f} THEN xi ELSE d2[c[1]].index)
    BY <1>6, <1>7, <1>10, <2>2
  <2> QED BY <2>3, <2>4
<1>11. /\ Holds(w, c1) <=> IF a[xi] THEN Holds(w, Cofactors(d2, c1, xi)[1])
                           ELSE Holds(w, Cofactors(d2, c1, xi)[2])
       /\ Holds(w, c0) <=> IF a[xi] THEN Holds(w, Cofactors(d2, c0, xi)[1])
                           ELSE Holds(w, Cofactors(d2, c0, xi)[2])
  BY <1>1, <1>8, <1>10, HoldsCofactor
<1>12. /\ t1 \in KnownEdges(d) /\ t0 \in KnownEdges(d)
       /\ e1 \in KnownEdges(d) /\ e0 \in KnownEdges(d)
       /\ <<d[f].T, FALSE>> \in KnownEdges(d) /\ <<d[f].T, FALSE>>[1] \notin g
       /\ d[f].E \in KnownEdges(d) /\ d[f].E[1] \notin g
  BY ThenElse
<1>13. ASSUME NEW e \in KnownEdges(d), e[1] \notin g
       PROVE  Holds(v, e) <=> IF a[yi] THEN Holds(v, Cofactors(d, e, yi)[1])
                              ELSE Holds(v, Cofactors(d, e, yi)[2])
  <2>1. e[1] \in Live(d) => Chooses(d, a, v, e[1], d[e[1]].index)
    <3>1. (IF e[1] \in g THEN xi ELSE d[e[1]].index) = d[e[1]].index
      BY <1>13
    <3> QED BY <3>1, Zenon DEF Follows
  <2> QED BY <1>1, <2>1, HoldsCofactor
<1>14. /\ Holds(v, <<d[f].T, FALSE>>) <=> IF a[yi] THEN Holds(v, t1) ELSE Holds(v, t0)
       /\ Holds(v, d[f].E) <=> IF a[yi] THEN Holds(v, e1) ELSE Holds(v, e0)
  BY <1>12, <1>13, Zenon DEF Then, Else
<1>15. f \in v <=> IF a[xi] THEN Holds(v, <<d[f].T, FALSE>>) ELSE Holds(v, d[f].E)
  <2>1. (IF f \in g THEN xi ELSE d[f].index) = xi
    OBVIOUS
  <2> QED BY <1>1, <2>1, Zenon DEF Follows, Chooses
<1> HIDE DEF t1, t0, e1, e0
<1>16. /\ Cofactors(d2, c1, xi)[1] = t1 /\ Cofactors(d2, c1, xi)[2] = e1
       /\ Cofactors(d2, c0, xi)[1] = t0 /\ Cofactors(d2, c0, xi)[2] = e0
  BY <1>8
<1>17. /\ Holds(w, c1) <=> IF a[xi] THEN Holds(v, t1) ELSE Holds(v, e1)
       /\ Holds(w, c0) <=> IF a[xi] THEN Holds(v, t0) ELSE Holds(v, e0)
  BY <1>4, <1>11, <1>12, <1>16, Zenon
<1>18. Chooses(d2, a, w, f, IF f \in g \ {f} THEN xi ELSE d2[f].index)
  <2>1. (IF f \in g \ {f} THEN xi ELSE d2[f].index) = yi
    BY <1>1
  <2>2. f \in w <=> f \in v
    BY <1>1, <1>3
  <2>3. f \in w <=> IF a[yi] THEN Holds(w, c1) ELSE Holds(w, c0)
    BY <1>14, <1>15, <1>17, <2>2, Zenon
  <2> QED BY <1>8, <1>9, <2>1, <2>3, Zenon DEF Chooses
<1>19. Follows(d2, g \ {f}, xi, a, w)
  BY <1>6, <1>7, <1>18 DEF Follows
<1> QED BY <1>2, <1>4, <1>19

-----------------------------------------------------------------------------
(***************************************************************************)
(* The two ends of an exchange.                                            *)
(***************************************************************************)

Swapped(p, xi, yi) == [p EXCEPT ![xi] = p[yi], ![yi] = p[xi]]

Permutes(p) == p \in [Vars -> Vars] /\ \A i, j \in Vars : p[i] = p[j] => i = j

LEMMA SwappedOrder ==
  ASSUME NEW p, Permutes(p), NEW xi \in Vars, NEW yi \in Vars, p[yi] = p[xi] + 1
  PROVE  /\ xi # yi /\ Order(Swapped(p, xi, yi), xi, yi)
         /\ Swapped(p, xi, yi)[xi] = p[yi] /\ Swapped(p, xi, yi)[yi] = p[xi]
         /\ \A i \in Vars \ {xi, yi} : Swapped(p, xi, yi)[i] = p[i]
<1> DEFINE q == Swapped(p, xi, yi)
<1>1. p \in [Vars -> Vars] /\ p[xi] \in Vars /\ p[yi] \in Vars /\ p[xi] \in Int
  BY DEF Permutes, Vars
<1>2. xi # yi
  BY <1>1
<1>3. /\ q \in [Vars -> Vars] /\ q[xi] = p[yi] /\ q[yi] = p[xi]
      /\ \A i \in Vars \ {xi, yi} : q[i] = p[i]
  BY <1>1, <1>2 DEF Swapped
<1> HIDE DEF q
<1>4. \A i, j \in Vars : q[i] = q[j] => i = j
  BY <1>2, <1>3 DEF Permutes
<1>5. q[xi] = q[yi] + 1
  BY <1>3
<1>6. Order(q, xi, yi)
  BY <1>3, <1>4, <1>5 DEF Order
<1> QED BY <1>2, <1>3, <1>6 DEF q

\* d2 is d with the nodes of the chain over yi.
Moved(d, d2, g, yi) ==
    /\ Table(d2) /\ Live(d2) = Live(d)
    /\ \A n \in Live(d) : /\ d2[n].T = d[n].T /\ d2[n].E = d[n].E /\ d2[n].ref = d[n].ref
                          /\ d2[n].index = IF n \in g THEN yi ELSE d[n].index

LEMMA ChainForm ==
  ASSUME NEW d, Table(d), NEW xi \in Vars, NEW yi \in Vars, NEW f
  PROVE  f \in Chain(d, xi, yi) <=> /\ f \in Live(d) /\ d[f].index = xi
                                   /\ \E c \in Children(d, f) : d[c].index = yi
<1>1. ASSUME NEW n \in Known(d)
      PROVE  index(d, n) = yi <=> n # ONE /\ d[n].index = yi
  BY <1>1, KnownIndex DEF Extends
<1>2. f \in Live(d) => d[f].T \in Known(d) /\ d[f].E[1] \in Known(d)
  BY LiveType
<1> QED BY <1>1, <1>2 DEF Chain, Layer, Children

LEMMA MovedEffect ==
  ASSUME NEW d, Table(d), NEW yi \in Vars, NEW g \in SUBSET Live(d),
         NEW d2, d2 = [n \in Pool |-> IF n \in g THEN [d[n] EXCEPT !.index = yi] ELSE d[n]]
  PROVE  Moved(d, d2, g, yi)
<1>1. d \in [Pool -> Records(Int) \cup {NULL}] /\ \A n \in Live(d) : n \in Pool /\ d[n] \in Records(Int)
  BY LiveType DEF Table
<1>2. \A n \in Pool : d2[n] = IF n \in g THEN [d[n] EXCEPT !.index = yi] ELSE d[n]
  OBVIOUS
<1>3. ASSUME NEW n \in g
      PROVE  /\ d2[n] \in Records(Int) /\ d2[n].T = d[n].T /\ d2[n].E = d[n].E
             /\ d2[n].ref = d[n].ref /\ d2[n].index = yi
  <2>1. d2[n] = [d[n] EXCEPT !.index = yi] /\ d[n] \in Records(Int)
    BY <1>1, <1>2
  <2> QED BY <2>1 DEF Records
<1>4. \A n \in Pool : d2[n] \in Records(Int) \cup {NULL}
  BY <1>1, <1>2, <1>3
<1>5. d2 \in [Pool -> Records(Int) \cup {NULL}]
  BY <1>4
<1>6. Live(d2) = Live(d)
  BY <1>1, <1>2, <1>3, BddAssumption DEF Live
<1>7. \A n \in Live(d) : /\ d2[n].T = d[n].T /\ d2[n].E = d[n].E /\ d2[n].ref = d[n].ref
                         /\ d2[n].index = IF n \in g THEN yi ELSE d[n].index
  BY <1>1, <1>2, <1>3
<1>8. \A n \in Live(d) : Children(d2, n) = Children(d, n)
  BY <1>7 DEF Children
<1>9. Table(d2)
  BY <1>5, <1>6, <1>8 DEF Table
<1> QED BY <1>6, <1>7, <1>9, Zenon DEF Moved

LEMMA MovedSame ==
  ASSUME NEW d, Table(d), NEW yi, NEW g, NEW d2, Moved(d, d2, g, yi)
  PROVE  /\ Table(d2) /\ Live(d2) = Live(d)
         /\ \A n \in Live(d) : /\ d2[n].T = d[n].T /\ d2[n].E = d[n].E
                               /\ Children(d2, n) = Children(d, n) /\ d2[n].ref = d[n].ref
                               /\ RefsIn(d2, n) = RefsIn(d, n) /\ Excess(d2, n) = Excess(d, n)
                               /\ n \notin g => d2[n].index = d[n].index
                               /\ n \in g => d2[n].index = yi
<1>1. /\ Table(d2) /\ Live(d2) = Live(d)
      /\ \A n \in Live(d) : /\ d2[n].T = d[n].T /\ d2[n].E = d[n].E /\ d2[n].ref = d[n].ref
                            /\ n \notin g => d2[n].index = d[n].index
                            /\ n \in g => d2[n].index = yi
  BY DEF Moved
<1>2. ASSUME NEW n PROVE RefsIn(d2, n) = RefsIn(d, n)
  <2>1. /\ {f \in Live(d2) : d2[f].T = n} = {f \in Live(d) : d[f].T = n}
        /\ {f \in Live(d2) : d2[f].E[1] = n} = {f \in Live(d) : d[f].E[1] = n}
    BY <1>1
  <2> QED BY <2>1 DEF RefsIn
<1> QED BY <1>1, <1>2 DEF Excess, Children

\* Setting off on an exchange: the order becomes the one it leads to.
LEMMA MovedExchange ==
  ASSUME NEW d, Table(d), NEW p, Permutes(p), NEW xi \in Vars, NEW yi \in Vars,
         p[yi] = p[xi] + 1, Ordered(d, {}, p), Reduced(d, {}),
         NEW d2, Moved(d, d2, Chain(d, xi, yi), yi)
  PROVE  Exchange(d2, Chain(d, xi, yi), Swapped(p, xi, yi), xi, yi)
<1> DEFINE g == Chain(d, xi, yi)
           lev == Swapped(p, xi, yi)
<1>1. /\ xi # yi /\ Order(lev, xi, yi) /\ lev[xi] = p[yi] /\ lev[yi] = p[xi]
      /\ \A i \in Vars \ {xi, yi} : lev[i] = p[i]
  BY SwappedOrder
<1>2. /\ Table(d2) /\ Live(d2) = Live(d)
      /\ \A n \in Live(d) : /\ d2[n].T = d[n].T /\ d2[n].E = d[n].E
                            /\ Children(d2, n) = Children(d, n)
                            /\ n \notin g => d2[n].index = d[n].index
                            /\ n \in g => d2[n].index = yi
  BY MovedSame
<1>3. \A f : f \in g <=> /\ f \in Live(d) /\ d[f].index = xi
                         /\ \E c \in Children(d, f) : d[c].index = yi
  BY ChainForm
<1>4. \A n \in Live(d) : d[n].index \in Vars
  BY LiveType
<1>5. \A n \in Live(d) : \A c \in Children(d, n) : c \in Live(d) /\ p[d[n].index] < p[d[c].index]
  BY DEF Ordered, Table
<1>6. p \in [Vars -> Int] /\ \A i, j \in Vars : p[i] = p[j] => i = j
  BY DEF Permutes, Vars
<1> HIDE DEF g, lev
<1>7. ASSUME NEW n \in Live(d2) \ g, NEW c \in Children(d2, n)
      PROVE  lev[d2[n].index] < lev[d2[c].index]
  <2>1. n \in Live(d) /\ c \in Children(d, n) /\ c \in Live(d) /\ d2[n].index = d[n].index
        /\ p[d[n].index] < p[d[c].index]
    BY <1>2, <1>5, <1>7
  <2>2. d[n].index \in Vars /\ d[c].index \in Vars
    BY <1>4, <2>1
  <2>3. ~(d[n].index = xi /\ d[c].index = yi)
    BY <1>3, <1>7, <2>1
  <2>4. c \in g => d[c].index = xi /\ d2[c].index = yi
    BY <1>2, <1>3, <2>1
  <2>5. c \notin g => d2[c].index = d[c].index
    BY <1>2, <2>1
  <2> DEFINE i == d[n].index
             j == d[c].index
  <2>6. i \in Vars /\ j \in Vars /\ p[i] < p[j] /\ ~(i = xi /\ j = yi) /\ p[i] \in Int
        /\ p[j] \in Int /\ p[xi] \in Int
    BY <1>6, <2>1, <2>2, <2>3
  <2>7. \/ d2[c].index = j
        \/ j = xi /\ d2[c].index = yi
    BY <2>4, <2>5
  <2> HIDE DEF i, j
  <2>8. lev[i] < lev[d2[c].index]
    <3>1. CASE j = xi /\ d2[c].index = yi
      BY <1>1, <2>6, <3>1
    <3>2. CASE d2[c].index = j /\ j = xi
      BY <1>1, <2>6, <3>2
    <3>3. CASE d2[c].index = j /\ j = yi
      <4>1. i # xi /\ i # yi
        BY <2>6, <3>3
      <4>2. p[i] # p[xi]
        BY <1>6, <2>6, <4>1
      <4> QED BY <1>1, <2>6, <3>3, <4>1, <4>2
    <3>4. CASE d2[c].index = j /\ j \notin {xi, yi}
      <4>1. p[j] # p[yi] /\ p[j] # p[xi]
        BY <1>6, <2>6, <3>4
      <4> QED BY <1>1, <2>6, <3>4, <4>1
    <3> QED BY <2>7, <3>1, <3>2, <3>3, <3>4
  <2> QED BY <2>1, <2>8 DEF i
<1>8. ASSUME NEW f \in g
      PROVE  /\ f \in Live(d2) /\ d2[f].index = yi
             /\ \E c \in Children(d2, f) : d2[c].index = yi
             /\ \A c \in Children(d2, f) :
                   /\ c \notin g
                   /\ d2[c].index = yi => ~Crosses(d2, c, xi)
                   /\ d2[c].index # yi => lev[xi] < lev[d2[c].index]
  <2>1. f \in Live(d) /\ d[f].index = xi /\ \E c \in Children(d, f) : d[c].index = yi
    BY <1>3
  <2>2. d2[f].index = yi /\ Children(d2, f) = Children(d, f)
    BY <1>2, <2>1
  <2>3. ASSUME NEW c \in Children(d, f)
        PROVE  /\ c \in Live(d) /\ c \notin g /\ d2[c].index = d[c].index
               /\ p[xi] < p[d[c].index] /\ d[c].index \in Vars
    <3>1. c \in Live(d) /\ p[xi] < p[d[c].index]
      BY <1>5, <2>1
    <3>2. d[c].index # xi /\ d[c].index \in Vars
      BY <1>4, <1>6, <3>1
    <3> QED BY <1>2, <1>3, <3>1, <3>2
  <2>4. ASSUME NEW c \in Children(d, f), d[c].index = yi PROVE ~Crosses(d2, c, xi)
    <3>1. c \in Live(d) /\ d2[c].index = yi /\ Children(d2, c) = Children(d, c)
      BY <1>2, <2>3, <2>4
    <3>2. ASSUME NEW k \in Children(d, c) PROVE d2[k].index # xi
      <4>1. k \in Live(d) /\ p[yi] < p[d[k].index]
        BY <1>5, <2>4, <3>1
      <4>2. d[k].index # xi /\ (k \in g => d2[k].index = yi) /\ (k \notin g => d2[k].index = d[k].index)
        BY <1>2, <1>6, <4>1
      <4> QED BY <1>1, <4>2
    <3> QED BY <1>1, <3>1, <3>2 DEF Crosses
  <2>5. ASSUME NEW c \in Children(d, f), d[c].index # yi PROVE lev[xi] < lev[d[c].index]
    <3>1. p[xi] < p[d[c].index] /\ d[c].index \in Vars /\ d[c].index # xi
      BY <2>3, <1>6
    <3>2. p[d[c].index] # p[yi] /\ p[d[c].index] \in Int /\ p[xi] \in Int
      BY <1>6, <2>5, <3>1
    <3>3. lev[d[c].index] = p[d[c].index]
      BY <1>1, <2>5, <3>1
    <3> QED BY <1>1, <3>1, <3>2, <3>3
  <2> QED BY <1>2, <2>1, <2>2, <2>3, <2>4, <2>5
<1>9. Reduced(d2, g)
  <2>1. ASSUME NEW m \in Live(d2), NEW n \in Live(d2), d2[m].index = d2[n].index,
               m \in g <=> n \in g, d2[m].T = d2[n].T, d2[m].E = d2[n].E
        PROVE  m = n
    <3>1. /\ m \in Live(d) /\ n \in Live(d) /\ d[m].T = d[n].T /\ d[m].E = d[n].E
          /\ d[m].index = d[n].index
      BY <1>2, <1>3, <2>1
    <3> QED BY <3>1 DEF Reduced
  <2>2. ASSUME NEW n \in Live(d2) PROVE <<d2[n].T, FALSE>> # d2[n].E
    <3>1. <<d[n].T, FALSE>> # d[n].E
      BY <1>2 DEF Reduced
    <3> QED BY <1>2, <3>1, Zenon
  <2> QED BY <2>1, <2>2, Zenon DEF Reduced
<1>10. NoClash(d2, g, xi, yi)
  <2> SUFFICES ASSUME NEW n \in Live(d2) \ g, NEW f \in g, d2[n].index = yi,
                      Cofactors(d2, <<d2[n].T, FALSE>>, xi)
                        = <<Then(d2, f, yi)[1], Else(d2, f, yi)[1]>>,
                      Cofactors(d2, d2[n].E, xi) = <<Then(d2, f, yi)[2], Else(d2, f, yi)[2]>>
               PROVE  FALSE
    BY Zenon DEF NoClash
  <2>1. n \in Live(d) /\ d[n].index = yi /\ f \in Live(d)
    BY <1>2, <1>3
  <2> DEFINE u == <<d2[n].T, FALSE>>
             e == d2[n].E
             h == <<d2[f].T, FALSE>>
             k == d2[f].E
  <2>2. /\ u \in KnownEdges(d2) /\ e \in KnownEdges(d2) /\ h \in KnownEdges(d2)
        /\ k \in KnownEdges(d2) /\ u[1] = d2[n].T /\ h[1] = d2[f].T
    BY <1>2, <2>1, LiveType DEF KnownEdges
  <2>3. ASSUME NEW c \in KnownEdges(d2), c[1] \in {d2[n].T, d2[n].E[1]}
        PROVE  Cofactors(d2, c, xi)[1] = c /\ Cofactors(d2, c, xi)[2] = c
    <3>1. CASE c[1] = ONE
      <4>1. index(d2, c[1]) # xi
        BY <3>1, BddAssumption DEF index, Vars
      <4> QED BY <1>2, <2>3, <4>1, CofactorsKnown
    <3>2. CASE c[1] # ONE
      <4>1. c[1] \in Children(d, n)
        BY <1>2, <2>1, <2>3, <3>2 DEF Children
      <4>2. c[1] \in Live(d) /\ p[yi] < p[d[c[1]].index]
        BY <1>5, <2>1, <4>1
      <4>3. d[c[1]].index # xi
        BY <1>6, <4>2
      <4>4. index(d2, c[1]) # xi
        BY <1>1, <1>2, <1>3, <3>2, <4>2, <4>3 DEF index
      <4> QED BY <1>2, <2>3, <4>4, CofactorsKnown
    <3> QED BY <3>1, <3>2
  <2>4. /\ Cofactors(d2, u, xi)[1] = u /\ Cofactors(d2, u, xi)[2] = u
        /\ Cofactors(d2, e, xi)[1] = e /\ Cofactors(d2, e, xi)[2] = e
    BY <2>2, <2>3
  <2>5. h[1] \notin g /\ k[1] \notin g
    <3>1. ONE \notin g
      BY <1>3, LiveType
    <3>2. h[1] \in Children(d2, f) \cup {ONE} /\ k[1] \in Children(d2, f) \cup {ONE}
      BY <2>2 DEF Children
    <3> QED BY <1>8, <3>1, <3>2
  <2>6. /\ Cofactors(d2, u, xi) = <<Cofactors(d2, h, yi)[1], Cofactors(d2, k, yi)[1]>>
        /\ Cofactors(d2, e, xi) = <<Cofactors(d2, h, yi)[2], Cofactors(d2, k, yi)[2]>>
    BY Zenon DEF Then, Else
  <2>7. h # k
    BY <1>2, <1>9, <2>1, Zenon DEF Reduced
  <2> HIDE DEF u, e, h, k
  <2>8. /\ Cofactors(d2, h, yi)[1] = u /\ Cofactors(d2, k, yi)[1] = u
        /\ Cofactors(d2, h, yi)[2] = e /\ Cofactors(d2, k, yi)[2] = e
    BY <2>4, <2>6
  <2> QED BY <1>2, <1>9, <2>2, <2>5, <2>7, <2>8, CofactorsInjective
<1>11. Exchange(d2, g, lev, xi, yi)
  BY <1>1, <1>2, <1>7, <1>8, <1>9, <1>10, Zenon DEF Exchange, Ordered, Waiting
<1> QED BY <1>11 DEF g, lev

LEMMA MovedInteracts ==
  ASSUME NEW d, Table(d), NEW xi \in Vars, NEW yi \in Vars, NEW xo,
         NEW d2, Moved(d, d2, Chain(d, xi, yi), yi), NEW pairs, Interacts(d, {}, xo, pairs)
  PROVE  Interacts(d2, Chain(d, xi, yi), xi, pairs)
<1> DEFINE g == Chain(d, xi, yi)
<1>1. PICK W \in [Pool -> SUBSET Vars] :
         Supports(d, {}, xo, W) /\ \A n \in Live(d) : W[n] \X W[n] \subseteq pairs
  BY DEF Interacts
<1>2. /\ Live(d2) = Live(d)
      /\ \A n \in Live(d) : /\ Children(d2, n) = Children(d, n)
                            /\ n \notin g => d2[n].index = d[n].index
                            /\ n \in g => d2[n].index = yi
  BY MovedSame
<1>3. \A f : f \in g <=> /\ f \in Live(d) /\ d[f].index = xi
                         /\ \E c \in Children(d, f) : d[c].index = yi
  BY ChainForm
<1> HIDE DEF g
<1>4. \A n \in Live(d), i \in Vars :
         i \in W[n] <=> i = d[n].index \/ \E c \in Children(d, n) : i \in W[c]
  BY <1>1 DEF Supports
<1>5. ASSUME NEW n \in Live(d2), NEW i \in Vars
      PROVE  i \in W[n] <=> \/ i = d2[n].index \/ (n \in g /\ i = xi)
                            \/ \E c \in Children(d2, n) : i \in W[c]
  <2>1. CASE n \notin g
    BY <1>2, <1>4, <2>1
  <2>2. CASE n \in g
    <3>1. PICK c \in Children(d, n) : d[c].index = yi
      BY <1>3, <2>2
    <3>2. c \in Live(d)
      BY <1>2, ChildType
    <3>3. yi \in W[c]
      BY <1>4, <3>1, <3>2
    <3>4. \E k \in Children(d, n) : yi \in W[k]
      BY <3>3
    <3>5. d[n].index = xi /\ d2[n].index = yi /\ Children(d2, n) = Children(d, n)
      BY <1>2, <1>3, <2>2
    <3>6. i \in W[n] <=> i = xi \/ \E k \in Children(d, n) : i \in W[k]
      BY <1>2, <1>4, <3>5
    <3> QED BY <2>2, <3>4, <3>5, <3>6
  <2> QED BY <2>1, <2>2
<1>6. Supports(d2, g, xi, W)
  BY <1>5 DEF Supports
<1>7. Interacts(d2, g, xi, pairs)
  BY <1>1, <1>2, <1>6 DEF Interacts
<1> QED BY <1>7 DEF g

LEMMA MovedFollows ==
  ASSUME NEW d, Table(d), NEW xi \in Vars, NEW yi \in Vars, NEW xo,
         NEW d2, Moved(d, d2, Chain(d, xi, yi), yi), NEW a, NEW v, Follows(d, {}, xo, a, v)
  PROVE  Follows(d2, Chain(d, xi, yi), xi, a, v)
<1> DEFINE g == Chain(d, xi, yi)
<1>1. \A f : f \in g => d[f].index = xi
  BY ChainForm
<1> HIDE DEF g
<1>2. ASSUME NEW n \in Live(d2)
      PROVE  Chooses(d2, a, v, n, IF n \in g THEN xi ELSE d2[n].index)
  <2>1. /\ n \in Live(d) /\ d2[n].T = d[n].T /\ d2[n].E = d[n].E
        /\ (IF n \in g THEN xi ELSE d2[n].index) = d[n].index
    BY <1>1, MovedSame DEF g
  <2>2. (IF n \in {} THEN xo ELSE d[n].index) = d[n].index
    OBVIOUS
  <2>3. Chooses(d, a, v, n, d[n].index)
    BY <2>1, <2>2, Zenon DEF Follows
  <2> QED BY <2>1, <2>3, Zenon DEF Chooses
<1>3. Follows(d2, g, xi, a, v)
  BY <1>2 DEF Follows
<1> QED BY <1>3 DEF g

LEMMA ParentRefs ==
  ASSUME NEW d, NEW n, n # ONE
  PROVE  RefsIn(d, n) \in Nat /\ (RefsIn(d, n) > 0 <=> HasParent(d, n))
<1>1. RefsIn(d, n) \in Nat /\ (RefsIn(d, n) > 0 <=> \E p \in Live(d) : d[p].T = n \/ d[p].E[1] = n)
  BY RefsInNat
<1> QED BY <1>1 DEF HasParent, Children

LEMMA CountedKept ==
  ASSUME NEW d, Table(d), \A n \in Live(d) : d[n].ref > 0, NEW g, NEW xi, NEW yi
  PROVE  Kept(d, g, xi, yi)
<1>1. ASSUME NEW n \in Live(d) PROVE Excess(d, n) > 0 \/ HasParent(d, n)
  <2>1. d[n].ref \in Int /\ n # ONE
    BY LiveType
  <2>2. RefsIn(d, n) \in Nat /\ (RefsIn(d, n) > 0 <=> HasParent(d, n))
    BY <2>1, ParentRefs
  <2> QED BY <2>1, <2>2 DEF Excess
<1> QED BY <1>1 DEF Kept

-----------------------------------------------------------------------------
(* The collection of the nodes over yi without references. *)

LEMMA DisjointUnion ==
  ASSUME NEW S, NEW T, IsFiniteSet(S), IsFiniteSet(T), S \cap T = {}
  PROVE  /\ IsFiniteSet(S \cup T) /\ Cardinality(S) \in Nat /\ Cardinality(T) \in Nat
         /\ Cardinality(S \cup T) = Cardinality(S) + Cardinality(T)
<1>1. /\ IsFiniteSet(S \cup T)
      /\ Cardinality(S \cup T) = Cardinality(S) + Cardinality(T) - Cardinality(S \cap T)
  BY FS_Union
<1>2. Cardinality(S \cap T) = 0
  BY FS_EmptySet
<1>3. Cardinality(S) \in Nat /\ Cardinality(T) \in Nat
  BY FS_CardinalityType
<1> QED BY <1>1, <1>2, <1>3

Cleared(d, d2, dead) ==
    /\ d2 \in [Pool -> Records(Int) \cup {NULL}] /\ Live(d2) = Live(d) \ dead
    /\ \A n \in Live(d2) :
          /\ d2[n].index = d[n].index /\ d2[n].T = d[n].T /\ d2[n].E = d[n].E
          /\ d2[n].ref = d[n].ref - (Cardinality({f \in dead : d[f].T = n})
                                       + Cardinality({f \in dead : d[f].E[1] = n}))

LEMMA ClearedEffect ==
  ASSUME NEW d, NEW d2, NEW xi, NEW yi, NEW lev, Exchange(d, {}, lev, xi, yi),
         Kept(d, {}, xi, yi), \A n \in Live(d) : Excess(d, n) >= 0,
         NEW dead, dead = {f \in Layer(d, yi) : d[f].ref = 0}, Cleared(d, d2, dead)
  PROVE  /\ Table(d2) /\ Ordered(d2, {}, lev) /\ Reduced(d2, {})
         /\ \A n \in Live(d2) : /\ n \in Live(d) /\ Children(d2, n) = Children(d, n)
                                /\ d2[n].index = d[n].index
                                /\ Excess(d2, n) = Excess(d, n) /\ d2[n].ref > 0
                                /\ HasParent(d2, n) <=> HasParent(d, n)
<1>1. Table(d) /\ dead \subseteq Live(d)
  BY DEF Exchange, Layer
<1>2. /\ d2 \in [Pool -> Records(Int) \cup {NULL}] /\ Live(d2) = Live(d) \ dead
      /\ \A n \in Live(d2) : /\ d2[n].index = d[n].index /\ d2[n].T = d[n].T /\ d2[n].E = d[n].E
                             /\ Children(d2, n) = Children(d, n)
  BY DEF Cleared, Children
<1>3. ASSUME NEW n \in dead PROVE ~HasParent(d, n) /\ Excess(d, n) = 0
  <2>1. d[n].ref = 0 /\ n \in Live(d) /\ n # ONE
    BY <1>1, LiveType
  <2>2. Excess(d, n) >= 0 /\ RefsIn(d, n) \in Nat /\ (RefsIn(d, n) > 0 <=> HasParent(d, n))
    BY <2>1, ParentRefs
  <2> QED BY <2>1, <2>2 DEF Excess
<1>4. ASSUME NEW n \in dead
      PROVE  /\ ~Crosses(d, n, xi)
             /\ \A c \in Children(d, n) :
                   \E p \in Live(d) : c \in Children(d, p) /\ Crosses(d, p, xi)
  <2>1. n \in Live(d)
    BY <1>1
  <2> QED BY <1>3, <2>1 DEF Kept
<1>5. ASSUME NEW n \in Live(d), HasParent(d, n) PROVE HasParent(d2, n)
  <2>1. PICK p \in Live(d) : n \in Children(d, p)
    BY <1>5 DEF HasParent
  <2>2. PICK q \in Live(d) : n \in Children(d, q) /\ q \notin dead
    BY <1>4, <2>1
  <2>3. q \in Live(d2)
    BY <1>2, <2>2
  <2> QED BY <1>2, <2>2, <2>3 DEF HasParent
<1>6. ASSUME NEW n, HasParent(d2, n) PROVE HasParent(d, n)
  BY <1>2, <1>6 DEF HasParent
<1>7. Table(d2)
  <2>1. ASSUME NEW n \in Live(d2), NEW c \in Children(d2, n) PROVE c \in Live(d2)
    <3>1. n \in Live(d) /\ c \in Children(d, n)
      BY <1>2, <2>1
    <3>2. c \in Live(d) /\ HasParent(d, c)
      BY <1>1, <3>1 DEF Table, HasParent
    <3> QED BY <1>2, <1>3, <3>2
  <2> QED BY <1>2, <2>1 DEF Table
<1>8. Ordered(d2, {}, lev)
  <2>1. \A n \in Live(d) : \A c \in Children(d, n) : lev[d[n].index] < lev[d[c].index]
    BY DEF Exchange, Ordered
  <2>2. \A n \in Live(d2) : \A c \in Children(d2, n) : c \in Live(d2)
    BY <1>7 DEF Table
  <2> QED BY <1>2, <2>1, <2>2 DEF Ordered
<1>9. Reduced(d2, {})
  <2>1. ASSUME NEW m \in Live(d2), NEW n \in Live(d2), d2[m].index = d2[n].index,
               d2[m].T = d2[n].T, d2[m].E = d2[n].E
        PROVE  m = n
    <3>1. /\ m \in Live(d) /\ n \in Live(d) /\ d[m].T = d[n].T /\ d[m].E = d[n].E
          /\ d[m].index = d[n].index
      BY <1>2, <2>1
    <3>2. Reduced(d, {})
      BY DEF Exchange
    <3> QED BY <3>1, <3>2 DEF Reduced
  <2>2. ASSUME NEW n \in Live(d2) PROVE <<d2[n].T, FALSE>> # d2[n].E
    <3>1. n \in Live(d) /\ d2[n].T = d[n].T /\ d2[n].E = d[n].E
      BY <1>2
    <3>2. <<d[n].T, FALSE>> # d[n].E
      BY <3>1 DEF Exchange, Reduced
    <3> QED BY <3>1, <3>2, Zenon
  <2> QED BY <2>1, <2>2, Zenon DEF Reduced
<1>10. ASSUME NEW n \in Live(d2) PROVE Excess(d2, n) = Excess(d, n)
  <2> DEFINE P == {f \in Live(d2) : d[f].T = n}
             Q == {f \in Live(d2) : d[f].E[1] = n}
             P2 == {f \in dead : d[f].T = n}
             Q2 == {f \in dead : d[f].E[1] = n}
  <2>1. /\ {f \in Live(d) : d[f].T = n} = P \cup P2 /\ P \cap P2 = {}
        /\ {f \in Live(d) : d[f].E[1] = n} = Q \cup Q2 /\ Q \cap Q2 = {}
        /\ {f \in Live(d2) : d2[f].T = n} = P
        /\ {f \in Live(d2) : d2[f].E[1] = n} = Q
    BY <1>1, <1>2
  <2>2. IsFiniteSet(P) /\ IsFiniteSet(P2) /\ IsFiniteSet(Q) /\ IsFiniteSet(Q2)
    <3>1. P \subseteq Live(d2) /\ Q \subseteq Live(d2) /\ P2 \subseteq Live(d) /\ Q2 \subseteq Live(d)
      BY <1>1
    <3> QED BY <3>1, LiveFinite, FS_Subset
  <2>3. d2[n].ref = d[n].ref - (Cardinality(P2) + Cardinality(Q2)) /\ d[n].ref \in Int
    <3>1. d[n].ref \in Int
      BY <1>1, <1>2, LiveType
    <3> QED BY <3>1, Zenon DEF Cleared
  <2>4. RefsIn(d2, n) = Cardinality(P) + Cardinality(Q)
    BY <2>1 DEF RefsIn
  <2>5. RefsIn(d, n) = Cardinality(P \cup P2) + Cardinality(Q \cup Q2)
    BY <2>1 DEF RefsIn
  <2> HIDE DEF P, Q, P2, Q2
  <2>6. /\ Cardinality(P \cup P2) = Cardinality(P) + Cardinality(P2)
        /\ Cardinality(Q \cup Q2) = Cardinality(Q) + Cardinality(Q2)
    BY <2>1, <2>2, DisjointUnion
  <2>7. /\ Cardinality(P) \in Nat /\ Cardinality(P2) \in Nat
        /\ Cardinality(Q) \in Nat /\ Cardinality(Q2) \in Nat
    BY <2>2, FS_CardinalityType
  <2> QED BY <2>3, <2>4, <2>5, <2>6, <2>7 DEF Excess
<1>11. ASSUME NEW n \in Live(d2) PROVE d2[n].ref > 0
  <2>1. n \in Live(d) /\ n \notin dead /\ n # ONE /\ d[n].ref \in Int
    BY <1>1, <1>2, LiveType
  <2>2. /\ Excess(d, n) >= 0 /\ RefsIn(d, n) \in Nat /\ (RefsIn(d, n) > 0 <=> HasParent(d, n))
        /\ RefsIn(d2, n) \in Nat /\ (RefsIn(d2, n) > 0 <=> HasParent(d2, n))
    BY <2>1, ParentRefs
  <2>3. d2[n].ref \in Int
    BY <1>7, LiveType
  <2>4. Excess(d, n) > 0 \/ HasParent(d, n)
    <3> SUFFICES ASSUME ~(Excess(d, n) > 0), ~HasParent(d, n) PROVE FALSE
      OBVIOUS
    <3>1. d[n].ref = 0
      BY <2>1, <2>2 DEF Excess
    <3>2. d[n].index = yi
      BY <2>1 DEF Kept
    <3> QED BY <2>1, <3>1, <3>2 DEF Layer
  <2>5. Excess(d2, n) > 0 \/ RefsIn(d2, n) > 0
    BY <1>5, <1>10, <2>1, <2>2, <2>4
  <2>6. d2[n].ref = Excess(d2, n) + RefsIn(d2, n) /\ Excess(d2, n) >= 0
    BY <1>10, <2>2, <2>3 DEF Excess
  <2> QED BY <2>2, <2>3, <2>5, <2>6 DEF Excess
<1> QED BY <1>2, <1>5, <1>6, <1>7, <1>8, <1>9, <1>10, <1>11

-----------------------------------------------------------------------------
(* Recursion over 0 .. M, as Support and Denotes use it. *)

LEMMA SmallestOf ==
  ASSUME NEW T \in SUBSET Nat, T # {}
  PROVE  \E k \in T : \A j \in T : k <= j
<1>1. PICK m \in T : TRUE
  OBVIOUS
<1> DEFINE F == {0 .. n : n \in {k \in T : k <= m}}
<1>2. IsWellFoundedOn(StrictSubsetOrdering(0 .. m), FiniteSubsetsOf(0 .. m))
  BY FS_StrictSubsetOrderingWellFounded
<1>3. \A n \in {k \in T : k <= m} : IsFiniteSet(0 .. n) /\ 0 .. n \in SUBSET (0 .. m)
  <2> SUFFICES ASSUME NEW n \in T, n <= m PROVE IsFiniteSet(0 .. n) /\ 0 .. n \in SUBSET (0 .. m)
    OBVIOUS
  <2>1. IsFiniteSet(0 .. n)
    BY FS_Interval
  <2> QED BY <2>1
<1>4. F \subseteq FiniteSubsetsOf(0 .. m)
  BY <1>3 DEF FiniteSubsetsOf
<1>5. F # {}
  BY <1>1
<1>6. PICK s \in F : \A r \in F : ~ (<<r, s>> \in StrictSubsetOrdering(0 .. m))
  <2> HIDE DEF F
  <2> QED BY <1>2, <1>4, <1>5, WFMin
<1>7. PICK k \in T : k <= m /\ s = 0 .. k
  OBVIOUS
<1>8. ASSUME NEW j \in T, j < k PROVE FALSE
  <2>1. 0 .. j \in F
    BY <1>7, <1>8
  <2>2. 0 .. j \in SUBSET (0 .. m) /\ 0 .. k \in SUBSET (0 .. m) /\ 0 .. j \subseteq 0 .. k
    BY <1>7, <1>8
  <2>3. 0 .. j # 0 .. k
    <3>1. k \in 0 .. k /\ k \notin 0 .. j
      BY <1>8
    <3> QED BY <3>1
  <2> QED BY <1>6, <1>7, <2>1, <2>2, <2>3 DEF StrictSubsetOrdering
<1> QED BY <1>8

LEMMA UpTo ==
  ASSUME NEW M \in Nat, NEW S, 0 \in S, \A k \in 0 .. M : k # M /\ k \in S => k + 1 \in S
  PROVE  \A k \in 0 .. M : k \in S
<1> DEFINE T == {k \in 0 .. M : k \notin S}
<1> SUFFICES ASSUME T # {} PROVE FALSE
  OBVIOUS
<1>1. PICK k \in T : \A j \in T : k <= j
  <2>1. T \in SUBSET Nat
    OBVIOUS
  <2> HIDE DEF T
  <2> QED BY <2>1, SmallestOf
<1>2. k # 0 /\ k - 1 \in 0 .. M /\ k - 1 # M /\ k - 1 + 1 = k
  OBVIOUS
<1>3. k - 1 \in S
  BY <1>1, <1>2
<1> QED BY <1>2, <1>3

Iterated(h, M, s, step) == h = [k \in 0 .. M |-> IF k = 0 THEN s ELSE step[h[k - 1]]]

LEMMA Iterates ==
  ASSUME NEW S, NEW s \in S, NEW step \in [S -> S], NEW M \in Nat
  PROVE  \E h \in [0 .. M -> S] : Iterated(h, M, s, step)
<1> DEFINE Up(m) == \E h \in [0 .. m -> S] : /\ h[0] = s
                                            /\ \A k \in 1 .. m : h[k] = step[h[k - 1]]
           T == {m \in 0 .. M : Up(m)}
<1>1. Up(0)
  <2> DEFINE h == [k \in 0 .. 0 |-> s]
  <2>1. h \in [0 .. 0 -> S] /\ h[0] = s /\ \A k \in 1 .. 0 : h[k] = step[h[k - 1]]
    OBVIOUS
  <2> QED BY <2>1
<1>2. ASSUME NEW m \in 0 .. M, m # M, Up(m) PROVE Up(m + 1)
  <2>1. PICK h \in [0 .. m -> S] : h[0] = s /\ \A k \in 1 .. m : h[k] = step[h[k - 1]]
    BY <1>2
  <2> DEFINE j == [k \in 0 .. m + 1 |-> IF k = m + 1 THEN step[h[m]] ELSE h[k]]
  <2>2. j \in [0 .. m + 1 -> S]
    BY <2>1
  <2>3. /\ j[0] = s /\ \A k \in 0 .. m : j[k] = h[k]
        /\ j[m + 1] = step[h[m]]
    BY <2>1
  <2> HIDE DEF j
  <2>4. \A k \in 1 .. m + 1 : j[k] = step[j[k - 1]]
    <3> SUFFICES ASSUME NEW k \in 1 .. m + 1 PROVE j[k] = step[j[k - 1]]
      OBVIOUS
    <3>1. CASE k = m + 1
      BY <2>3, <3>1
    <3>2. CASE k # m + 1
      BY <2>1, <2>3, <3>2
    <3> QED BY <3>1, <3>2
  <2> QED BY <2>2, <2>3, <2>4
<1> HIDE DEF Up
<1>3. 0 \in T
  BY <1>1
<1>4. \A m \in 0 .. M : m # M /\ m \in T => m + 1 \in T
  BY <1>2
<1>5. M \in T
  <2> HIDE DEF T
  <2>1. \A m \in 0 .. M : m \in T
    BY <1>3, <1>4, UpTo
  <2> QED BY <2>1
<1>6. PICK h \in [0 .. M -> S] : h[0] = s /\ \A k \in 1 .. M : h[k] = step[h[k - 1]]
  BY <1>5 DEF Up
<1>7. h = [k \in 0 .. M |-> IF k = 0 THEN s ELSE step[h[k - 1]]]
  <2>1. ASSUME NEW k \in 0 .. M PROVE h[k] = IF k = 0 THEN s ELSE step[h[k - 1]]
    BY <1>6
  <2> QED BY <2>1
<1> QED BY <1>7 DEF Iterated

-----------------------------------------------------------------------------
(* The support of a node: the variables of the nodes under it. *)

Closed(d, S) == \A n \in S : Children(d, n) \subseteq S

\* The nodes from n downwards.
Reached(d, n, R) ==
    /\ R \subseteq Live(d) /\ n \in R /\ Closed(d, R)
    /\ Support(d, n) = {d[m].index : m \in R}
    /\ \A S : n \in S /\ Closed(d, S) => R \subseteq S

\* Support finds the smallest set of nodes with n and the children of each.
LEMMA SupportReach ==
  ASSUME NEW d, Table(d), NEW p \in [Vars -> Vars], Ordered(d, {}, p), NEW n \in Live(d)
  PROVE  \E R : Reached(d, n, R)
<1> DEFINE next(S) == S \cup ((UNION {{d[m].T, d[m].E[1]} : m \in S}) \ {ONE})
           met[k \in 0 .. N] == IF k = 0 THEN {n} \ {ONE} ELSE
              met[k - 1] \cup ((UNION {{d[m].T, d[m].E[1]} : m \in met[k - 1]}) \ {ONE})
           step == [S \in SUBSET Live(d) |-> next(S)]
<1>1. Support(d, n) = {d[m].index : m \in met[N]}
  BY DEF Support
<1> HIDE DEF met, next, step
<1>2. ASSUME NEW S \in SUBSET Live(d)
      PROVE  /\ next(S) \in SUBSET Live(d)
             /\ \A m : m \in next(S) <=> m \in S \/ \E k \in S : m \in Children(d, k)
  <2>1. \A k \in S : Children(d, k) \subseteq Live(d)
    BY DEF Table
  <2>2. \A k \in S : Children(d, k) = {d[k].T, d[k].E[1]} \ {ONE}
    BY DEF Children
  <2>3. \A m : m \in next(S) <=> m \in S \/ \E k \in S : m \in {d[k].T, d[k].E[1]} \ {ONE}
    BY DEF next
  <2> QED BY <2>1, <2>2, <2>3
<1>3. {n} \ {ONE} = {n}
  BY LiveType
<1>4. step \in [SUBSET Live(d) -> SUBSET Live(d)]
      /\ {n} \ {ONE} \in SUBSET Live(d) /\ \A S \in SUBSET Live(d) : step[S] = next(S)
  BY <1>2, <1>3 DEF step
<1>5. PICK h \in [0 .. N -> SUBSET Live(d)] :
         h = [k \in 0 .. N |-> IF k = 0 THEN {n} \ {ONE} ELSE step[h[k - 1]]]
  <2>1. N \in Nat
    BY BddAssumption
  <2> DEFINE S == SUBSET Live(d)
             s == {n} \ {ONE}
  <2>2. s \in S /\ step \in [S -> S]
    BY <1>4
  <2> HIDE DEF S, s
  <2>3. \E h \in [0 .. N -> S] : Iterated(h, N, s, step)
    BY <2>1, <2>2, Iterates
  <2> QED BY <2>3, Zenon DEF S, s, Iterated
<1>6. h = [k \in 0 .. N |-> IF k = 0 THEN {n} \ {ONE} ELSE next(h[k - 1])]
  <2>1. \A k \in 0 .. N : k # 0 => h[k - 1] \in SUBSET Live(d)
    BY BddAssumption
  <2>2. \A k \in 0 .. N : k # 0 => step[h[k - 1]] = next(h[k - 1])
    BY <1>4, <2>1
  <2>3. [k \in 0 .. N |-> IF k = 0 THEN {n} \ {ONE} ELSE step[h[k - 1]]]
          = [k \in 0 .. N |-> IF k = 0 THEN {n} \ {ONE} ELSE next(h[k - 1])]
    BY <2>2
  <2> QED BY <1>5, <2>3, Zenon
<1>7. met = [k \in 0 .. N |-> IF k = 0 THEN {n} \ {ONE} ELSE next(met[k - 1])]
  <2>1. h = [k \in 0 .. N |-> IF k = 0 THEN {n} \ {ONE} ELSE
              h[k - 1] \cup ((UNION {{d[m].T, d[m].E[1]} : m \in h[k - 1]}) \ {ONE})]
    BY <1>6 DEF next
  <2>2. met = [k \in 0 .. N |-> IF k = 0 THEN {n} \ {ONE} ELSE
              met[k - 1] \cup ((UNION {{d[m].T, d[m].E[1]} : m \in met[k - 1]}) \ {ONE})]
    BY <2>1 DEF met
  <2> QED BY <2>2 DEF next
<1>8. met[0] = {n} /\ \A k \in 0 .. N : k # N => k + 1 \in 0 .. N /\ met[k + 1] = next(met[k])
  <2>1. \A k \in 0 .. N : met[k] = IF k = 0 THEN {n} \ {ONE} ELSE next(met[k - 1])
    BY <1>7, Zenon
  <2>2. N \in Nat
    BY BddAssumption
  <2>3. met[0] = {n}
    BY <1>3, <2>1, <2>2
  <2>4. \A k \in 0 .. N : k # N => k + 1 \in 0 .. N /\ k + 1 # 0 /\ (k + 1) - 1 = k
    BY <2>2
  <2> QED BY <2>1, <2>3, <2>4, Zenon
<1>9. \A k \in 0 .. N : met[k] \in SUBSET Live(d)
  <2> DEFINE T == {k \in 0 .. N : met[k] \in SUBSET Live(d)}
  <2>1. 0 \in T
    BY <1>4, <1>8, BddAssumption
  <2>2. \A k \in 0 .. N : k # N /\ k \in T => k + 1 \in T
    BY <1>2, <1>8
  <2>3. N \in Nat
    BY BddAssumption
  <2> HIDE DEF T
  <2>4. \A k \in 0 .. N : k \in T
    BY <2>1, <2>2, <2>3, UpTo
  <2> QED BY <2>4 DEF T
<1>10. \A k \in 0 .. N : k # N =>
          /\ met[k] \subseteq met[k + 1]
          /\ \A m : m \in met[k + 1] <=> m \in met[k] \/ \E j \in met[k] : m \in Children(d, j)
  BY <1>2, <1>8, <1>9
<1>11. \A k \in 0 .. N : \A j \in 0 .. k : met[j] \subseteq met[k]
  <2> DEFINE T == {k \in 0 .. N : \A j \in 0 .. k : met[j] \subseteq met[k]}
  <2>1. 0 \in T
    BY BddAssumption
  <2>2. \A k \in 0 .. N : k # N /\ k \in T => k + 1 \in T
    <3> SUFFICES ASSUME NEW k \in 0 .. N, k # N, k \in T, NEW j \in 0 .. k + 1
                 PROVE  k + 1 \in 0 .. N /\ met[j] \subseteq met[k + 1]
      OBVIOUS
    <3>1. j = k + 1 \/ j \in 0 .. k
      OBVIOUS
    <3> QED BY <1>8, <1>10, <3>1
  <2>3. N \in Nat
    BY BddAssumption
  <2> HIDE DEF T
  <2>4. \A k \in 0 .. N : k \in T
    BY <2>1, <2>2, <2>3, UpTo
  <2> QED BY <2>4 DEF T
<1>12. \A m \in Live(d) : p[d[m].index] \in 0 .. N - 1
  <2>1. \A m \in Live(d) : d[m].index \in Vars
    BY LiveType
  <2> QED BY <2>1 DEF Vars
\* A node is met as soon as the levels in between allow.
<1>13. \A k \in 0 .. N : \A m \in met[k] : /\ p[d[n].index] <= p[d[m].index]
                                          /\ m \in met[p[d[m].index] - p[d[n].index]]
  <2> DEFINE T == {k \in 0 .. N : \A m \in met[k] :
                     /\ p[d[n].index] <= p[d[m].index]
                     /\ m \in met[p[d[m].index] - p[d[n].index]]}
  <2>1. 0 \in T
    BY <1>8, <1>12, BddAssumption
  <2>2. ASSUME NEW k \in 0 .. N, k # N, k \in T, NEW m \in met[k + 1]
        PROVE  /\ p[d[n].index] <= p[d[m].index]
               /\ m \in met[p[d[m].index] - p[d[n].index]]
    <3>1. CASE m \in met[k]
      BY <2>2, <3>1
    <3>2. CASE m \notin met[k]
      <4>1. PICK j \in met[k] : m \in Children(d, j)
        BY <1>10, <2>2, <3>2
      <4>2. j \in Live(d) /\ m \in Live(d)
        BY <1>9, <4>1 DEF Table
      <4> DEFINE a == p[d[n].index]
                 b == p[d[j].index]
                 c == p[d[m].index]
      <4>3. b < c
        BY <4>1, <4>2 DEF Ordered
      <4>4. a \in 0 .. N - 1 /\ b \in 0 .. N - 1 /\ c \in 0 .. N - 1 /\ N \in Int
        BY <1>12, <4>2, BddAssumption
      <4>5. a <= b /\ j \in met[b - a]
        BY <2>2, <4>1
      <4> HIDE DEF a, b, c
      <4>6. b - a \in 0 .. N /\ b - a # N
        BY <4>3, <4>4, <4>5
      <4>7. m \in met[b - a + 1]
        BY <1>10, <4>1, <4>5, <4>6
      <4>8. c - a \in 0 .. N /\ b - a + 1 \in 0 .. c - a
        BY <4>3, <4>4, <4>5
      <4>9. met[b - a + 1] \subseteq met[c - a]
        BY <1>11, <4>8
      <4>10. m \in met[c - a] /\ a <= c
        BY <4>3, <4>4, <4>5, <4>7, <4>9
      <4> QED BY <4>10 DEF a, c
    <3> QED BY <3>1, <3>2
  <2>3. N \in Nat
    BY BddAssumption
  <2>4. \A k \in 0 .. N : k # N /\ k \in T => k + 1 \in T
    BY <1>8, <2>2
  <2> HIDE DEF T
  <2>5. \A k \in 0 .. N : k \in T
    BY <2>1, <2>3, <2>4, UpTo
  <2> QED BY <2>5 DEF T
<1>14. Closed(d, met[N])
  <2> SUFFICES ASSUME NEW m \in met[N], NEW c \in Children(d, m) PROVE c \in met[N]
    BY DEF Closed
  <2>1. m \in Live(d) /\ c \in Live(d) /\ N \in 0 .. N
    BY <1>9, BddAssumption DEF Table
  <2> DEFINE a == p[d[n].index]
             b == p[d[m].index]
  <2>2. a \in 0 .. N - 1 /\ b \in 0 .. N - 1 /\ N \in Int
    BY <1>12, <2>1, BddAssumption
  <2>3. a <= b /\ m \in met[b - a]
    BY <1>13, <2>1
  <2> HIDE DEF a, b
  <2>4. b - a \in 0 .. N /\ b - a # N /\ b - a + 1 \in 0 .. N
    BY <2>2, <2>3
  <2>5. c \in met[b - a + 1]
    BY <1>10, <2>3, <2>4
  <2> QED BY <1>11, <2>1, <2>4, <2>5
<1>15. ASSUME NEW S, n \in S, Closed(d, S) PROVE met[N] \subseteq S
  <2> DEFINE T == {k \in 0 .. N : met[k] \subseteq S}
  <2>1. 0 \in T
    BY <1>8, <1>15, BddAssumption
  <2>2. \A k \in 0 .. N : k # N /\ k \in T => k + 1 \in T
    BY <1>8, <1>10, <1>15 DEF Closed
  <2>3. N \in Nat
    BY BddAssumption
  <2> HIDE DEF T
  <2>4. \A k \in 0 .. N : k \in T
    BY <2>1, <2>2, <2>3, UpTo
  <2> QED BY <2>3, <2>4 DEF T
<1>16. n \in met[N] /\ met[N] \in SUBSET Live(d)
  <2>1. N \in 0 .. N /\ 0 \in 0 .. N
    BY BddAssumption
  <2> QED BY <1>8, <1>9, <1>11, <2>1
<1> HIDE DEF met
<1>17. Reached(d, n, met[N])
  BY <1>1, <1>14, <1>15, <1>16 DEF Reached
<1> QED BY <1>17

Under(d, n) == CHOOSE R : Reached(d, n, R)

LEMMA UnderReached ==
  ASSUME NEW d, Table(d), NEW p \in [Vars -> Vars], Ordered(d, {}, p), NEW n \in Live(d)
  PROVE  Reached(d, n, Under(d, n))
<1>1. \E R : Reached(d, n, R)
  BY SupportReach
<1> QED BY <1>1, Zenon DEF Under

\* What is recorded of a node for the matrix covers its support.
LEMMA SupportSound ==
  ASSUME NEW d, Table(d), NEW p \in [Vars -> Vars], Ordered(d, {}, p), NEW xo,
         NEW W \in [Pool -> SUBSET Vars], Supports(d, {}, xo, W), NEW n \in Live(d)
  PROVE  Support(d, n) \subseteq W[n]
<1> DEFINE S == {m \in Live(d) : W[m] \subseteq W[n]}
<1>1. ASSUME NEW m \in Live(d) PROVE d[m].index \in W[m] /\ W[m] \subseteq Vars
  <2>1. m \in Pool /\ d[m].index \in Vars
    BY LiveType
  <2> QED BY <2>1 DEF Supports
<1>2. ASSUME NEW m \in Live(d), NEW c \in Children(d, m)
      PROVE  c \in Live(d) /\ W[c] \subseteq W[m]
  <2>1. c \in Live(d)
    BY DEF Table
  <2> QED BY <1>1, <2>1 DEF Supports
<1>3. n \in S /\ Closed(d, S)
  BY <1>2 DEF Closed
<1>4. Reached(d, n, Under(d, n))
  BY UnderReached
<1> HIDE DEF S
<1>5. Under(d, n) \subseteq S /\ Support(d, n) = {d[m].index : m \in Under(d, n)}
  BY <1>3, <1>4 DEF Reached
<1> QED BY <1>1, <1>5 DEF S

\* The supports themselves are such a record, so the matrix just computed is good.
LEMMA InteractingGood ==
  ASSUME NEW d, Table(d), NEW p \in [Vars -> Vars], Ordered(d, {}, p), NEW xo
  PROVE  Interacts(d, {}, xo, Interacting(d))
<1> DEFINE W == [n \in Pool |-> IF n \in Live(d) THEN Support(d, n) ELSE {}]
<1>1. ASSUME NEW n \in Live(d)
      PROVE  /\ Under(d, n) \subseteq Live(d) /\ n \in Under(d, n) /\ Closed(d, Under(d, n))
             /\ Support(d, n) = {d[m].index : m \in Under(d, n)}
             /\ \A S : n \in S /\ Closed(d, S) => Under(d, n) \subseteq S
  BY UnderReached DEF Reached
<1>2. ASSUME NEW n \in Live(d) PROVE n \in Pool /\ Support(d, n) \subseteq Vars
  <2>1. \A m \in Live(d) : m \in Pool /\ d[m].index \in Vars
    BY LiveType
  <2> QED BY <1>1, <2>1
<1>3. W \in [Pool -> SUBSET Vars] /\ \A n \in Live(d) : W[n] = Support(d, n)
  <2>1. \A n \in Pool : (IF n \in Live(d) THEN Support(d, n) ELSE {}) \in SUBSET Vars
    BY <1>2
  <2>2. \A n \in Live(d) : n \in Pool
    BY <1>2
  <2> QED BY <2>1, <2>2
<1>4. ASSUME NEW n \in Live(d), NEW c \in Children(d, n)
      PROVE  c \in Live(d) /\ Under(d, c) \subseteq Under(d, n)
  <2>1. c \in Live(d)
    BY DEF Table
  <2>2. c \in Under(d, n)
    BY <1>1 DEF Closed
  <2> QED BY <1>1, <2>1, <2>2
<1>5. ASSUME NEW n \in Live(d)
      PROVE  \A m \in Under(d, n) : m = n \/ \E c \in Children(d, n) : m \in Under(d, c)
  <2> DEFINE S == {m \in Live(d) : m = n \/ \E c \in Children(d, n) : m \in Under(d, c)}
  <2>1. ASSUME NEW m \in S, NEW k \in Children(d, m) PROVE k \in S
    <3>1. k \in Live(d)
      BY <2>1 DEF Table
    <3>2. CASE m = n
      <4>1. k \in Under(d, k)
        BY <1>1, <3>1
      <4> QED BY <3>1, <3>2, <4>1
    <3>3. CASE m # n
      <4>1. PICK c \in Children(d, n) : m \in Under(d, c)
        BY <3>3
      <4>2. k \in Under(d, c)
        BY <1>1, <1>4, <4>1 DEF Closed
      <4> QED BY <3>1, <4>2
    <3> QED BY <3>2, <3>3
  <2>2. n \in S /\ Closed(d, S)
    BY <2>1 DEF Closed
  <2> HIDE DEF S
  <2>3. Under(d, n) \subseteq S
    BY <1>1, <2>2
  <2> QED BY <2>3 DEF S
<1> HIDE DEF W
<1>6. ASSUME NEW n \in Live(d), NEW i \in Vars
      PROVE  i \in W[n] <=> \/ i = d[n].index \/ (n \in {} /\ i = xo)
                            \/ \E c \in Children(d, n) : i \in W[c]
  <2>1. i \in W[n] <=> \E m \in Under(d, n) : i = d[m].index
    BY <1>1, <1>3
  <2>2. \A c \in Children(d, n) : i \in W[c] <=> \E m \in Under(d, c) : i = d[m].index
    BY <1>1, <1>3, <1>4
  <2> QED BY <1>1, <1>4, <1>5, <2>1, <2>2
<1>7. Supports(d, {}, xo, W)
  BY <1>6 DEF Supports
<1>8. ASSUME NEW n \in Live(d), NEW q \in W[n] \X W[n] PROVE q \in Interacting(d)
  <2>1. W[n] \subseteq Vars /\ W[n] = Support(d, n)
    BY <1>2, <1>3
  <2>2. q \in Vars \X Vars /\ q[1] \in Support(d, n) /\ q[2] \in Support(d, n)
    BY <2>1
  <2> QED BY <2>2 DEF Interacting
<1> QED BY <1>3, <1>7, <1>8 DEF Interacts

-----------------------------------------------------------------------------
(* What an edge denotes, seen from one assignment: the set v of the nodes   *)
(* under which a leads to ONE with an even number of marks says it of every *)
(* edge, and v can be found from the lowest level upwards.                  *)

LEMMA DownEffect ==
  ASSUME NEW d, Table(d), NEW a \in Asgs, NEW v, NEW xo, Follows(d, {}, xo, a, v),
         NEW u \in KnownEdges(d)
  PROVE  /\ Down(d, a, u) \in KnownEdges(d) /\ (Holds(v, Down(d, a, u)) <=> Holds(v, u))
         /\ u[1] = ONE => Down(d, a, u) = u
         /\ u[1] # ONE => /\ u[1] \in Live(d)
                          /\ Down(d, a, u)[1] \in Children(d, u[1]) \cup {ONE}
<1>1. PICK n \in Known(d) : u = <<n, FALSE>> \/ u = <<n, TRUE>>
  BY EdgeForm DEF KnownEdges
<1>2. u[1] = n
  <2>1. <<n, FALSE>>[1] = n /\ <<n, TRUE>>[1] = n
    OBVIOUS
  <2> QED BY <1>1, <2>1, Zenon
<1>3. CASE n = ONE
  BY <1>2, <1>3 DEF Down
<1>4. CASE n # ONE
  <2>1. n \in Live(d)
    BY <1>4 DEF Known
  <2> DEFINE t == <<d[n].T, FALSE>>
             e == d[n].E
             i == d[n].index
  <2>2. /\ t \in Known(d) \X BOOLEAN /\ e \in Known(d) \X BOOLEAN
        /\ t[1] = d[n].T /\ d[n].T \in Known(d) /\ e[1] \in Known(d) /\ i \in Vars
    BY <2>1, LiveType DEF KnownEdges
  <2>3. Children(d, n) = {d[n].T, e[1]} \ {ONE}
    BY DEF Children
  <2>4. n \in v <=> IF a[i] THEN Holds(v, t) ELSE Holds(v, e)
    BY <2>1, Zenon DEF Follows, Chooses
  <2>5. /\ Holds(v, <<n, FALSE>>) <=> n \in v \cup {ONE}
        /\ Holds(v, <<n, TRUE>>) <=> n \notin v \cup {ONE}
    BY HoldsNot
  <2>6. Not(t) = <<d[n].T, TRUE>>
    BY DEF Not
  <2>7. /\ Holds(v, Not(t)) <=> ~Holds(v, t)
        /\ Holds(v, Not(e)) <=> ~Holds(v, e)
    BY <2>2, HoldsNegated
  <2>8. /\ NotIf(e, FALSE) = e /\ NotIf(e, TRUE) = Not(e)
        /\ Not(e) \in Known(d) \X BOOLEAN /\ Not(e)[1] = e[1]
        /\ Not(t) \in Known(d) \X BOOLEAN /\ Not(t)[1] = t[1]
    <3> HIDE DEF t, e
    <3>1. t \in Known(d) \X BOOLEAN /\ e \in Known(d) \X BOOLEAN
      BY <2>2
    <3>2. Not(t) \in Known(d) \X BOOLEAN /\ Not(t)[1] = t[1]
      BY <3>1, EdgeNot
    <3>3. /\ NotIf(e, FALSE) = e /\ NotIf(e, TRUE) = Not(e)
          /\ Not(e) \in Known(d) \X BOOLEAN /\ Not(e)[1] = e[1]
      BY <3>1, EdgeNot
    <3> QED BY <3>2, <3>3
  <2>9. Down(d, a, <<n, FALSE>>) = IF a[i] THEN t ELSE NotIf(e, FALSE)
    BY <1>4 DEF Down
  <2>10. Down(d, a, <<n, TRUE>>) = IF a[i] THEN <<d[n].T, TRUE>> ELSE NotIf(e, TRUE)
    BY <1>4 DEF Down
  <2>11. d[n].T \in Children(d, n) \cup {ONE} /\ e[1] \in Children(d, n) \cup {ONE}
    BY <2>3
  <2> HIDE DEF t, e, i
  <2>12. CASE u = <<n, FALSE>>
    <3>1. Down(d, a, u) = IF a[i] THEN t ELSE e
      BY <2>8, <2>9, <2>12
    <3>2. Holds(v, u) <=> n \in v
      BY <1>4, <2>5, <2>12
    <3>3. Holds(v, Down(d, a, u)) <=> n \in v
      BY <2>4, <3>1
    <3>4. Down(d, a, u) \in Known(d) \X BOOLEAN /\ Down(d, a, u)[1] \in Children(d, n) \cup {ONE}
      BY <2>2, <2>11, <3>1
    <3> QED BY <1>2, <1>4, <2>1, <3>2, <3>3, <3>4 DEF KnownEdges
  <2>13. CASE u = <<n, TRUE>>
    <3>1. Down(d, a, u) = IF a[i] THEN Not(t) ELSE Not(e)
      BY <2>6, <2>8, <2>10, <2>13
    <3>2. Holds(v, u) <=> n \notin v
      BY <1>4, <2>5, <2>13
    <3>3. Holds(v, Down(d, a, u)) <=> n \notin v
      BY <2>4, <2>7, <3>1
    <3>4. Down(d, a, u) \in Known(d) \X BOOLEAN /\ Down(d, a, u)[1] \in Children(d, n) \cup {ONE}
      BY <2>2, <2>8, <2>11, <3>1
    <3> QED BY <1>2, <1>4, <2>1, <3>2, <3>3, <3>4 DEF KnownEdges
  <2> QED BY <1>1, <2>12, <2>13
<1> QED BY <1>3, <1>4

LEMMA DenotesHolds ==
  ASSUME NEW d, Table(d), NEW p \in [Vars -> Vars], Ordered(d, {}, p),
         NEW a \in Asgs, NEW v, NEW xo, Follows(d, {}, xo, a, v), NEW e \in KnownEdges(d)
  PROVE  a \in Denotes(d, e) <=> Holds(v, e)
<1> DEFINE S == KnownEdges(d)
           step == [u \in S |-> Down(d, a, u)]
           walk[k \in 0 .. N] == IF k = 0 THEN e ELSE Down(d, a, walk[k - 1])
<1>1. a \in Denotes(d, e) <=> walk[N] = <<ONE, FALSE>>
  BY DEF Denotes
<1> HIDE DEF walk, step
<1>2. ASSUME NEW u \in S
      PROVE  /\ Down(d, a, u) \in S /\ (Holds(v, Down(d, a, u)) <=> Holds(v, u))
             /\ u[1] = ONE => Down(d, a, u) = u
             /\ u[1] # ONE => /\ u[1] \in Live(d)
                              /\ Down(d, a, u)[1] \in Children(d, u[1]) \cup {ONE}
  BY DownEffect
<1>3. N \in Nat
  BY BddAssumption
<1>4. PICK h \in [0 .. N -> S] : Iterated(h, N, e, step)
  <2>1. step \in [S -> S] /\ e \in S
    BY <1>2 DEF step
  <2> HIDE DEF S
  <2> QED BY <1>3, <2>1, Iterates
<1>5. walk = [k \in 0 .. N |-> IF k = 0 THEN e ELSE Down(d, a, walk[k - 1])]
  <2>1. h = [k \in 0 .. N |-> IF k = 0 THEN e ELSE step[h[k - 1]]]
    BY <1>4 DEF Iterated
  <2> HIDE DEF S
  <2>2. \A k \in 0 .. N : k # 0 => h[k - 1] \in S
    BY <1>3
  <2>3. \A k \in 0 .. N : k # 0 => step[h[k - 1]] = Down(d, a, h[k - 1])
    BY <2>2 DEF step
  <2>4. [k \in 0 .. N |-> IF k = 0 THEN e ELSE step[h[k - 1]]]
          = [k \in 0 .. N |-> IF k = 0 THEN e ELSE Down(d, a, h[k - 1])]
    BY <2>3
  <2>5. h = [k \in 0 .. N |-> IF k = 0 THEN e ELSE Down(d, a, h[k - 1])]
    BY <2>1, <2>4, Zenon
  <2> QED BY <2>5 DEF walk
<1>6. /\ walk[0] = e
      /\ \A k \in 0 .. N : k # N => k + 1 \in 0 .. N /\ walk[k + 1] = Down(d, a, walk[k])
  <2>1. \A k \in 0 .. N : walk[k] = IF k = 0 THEN e ELSE Down(d, a, walk[k - 1])
    BY <1>5, Zenon
  <2>2. \A k \in 0 .. N : k # N => k + 1 \in 0 .. N /\ k + 1 # 0 /\ (k + 1) - 1 = k
    BY <1>3
  <2>3. 0 \in 0 .. N
    BY <1>3
  <2> QED BY <2>1, <2>2, <2>3, Zenon
<1> DEFINE level(u) == p[d[u[1]].index]
           Good(k) == /\ walk[k] \in S /\ (Holds(v, walk[k]) <=> Holds(v, e))
                      /\ walk[k][1] # ONE => level(walk[k]) >= k
<1>7. \A u \in S : u[1] # ONE => level(u) \in 0 .. N - 1
  <2>1. \A n \in Live(d) : p[d[n].index] \in 0 .. N - 1
    BY LiveType DEF Vars
  <2> QED BY <1>2, <2>1
<1>8. Good(0)
  BY <1>6, <1>7
<1>9. ASSUME NEW k \in 0 .. N, k # N, Good(k) PROVE Good(k + 1)
  <2> DEFINE u == walk[k]
             w == walk[k + 1]
  <2>1. u \in S /\ w = Down(d, a, u)
    BY <1>6, <1>9
  <2>2. w \in S /\ (Holds(v, w) <=> Holds(v, e))
    BY <1>2, <1>9, <2>1
  <2>3. ASSUME w[1] # ONE PROVE level(w) >= k + 1
    <3>1. u[1] # ONE
      BY <1>2, <2>1, <2>3
    <3>2. u[1] \in Live(d) /\ w[1] \in Children(d, u[1])
      BY <1>2, <2>1, <2>3, <3>1
    <3>3. level(u) < level(w)
      BY <3>2 DEF Ordered
    <3>4. level(u) \in 0 .. N - 1 /\ level(w) \in 0 .. N - 1 /\ level(u) >= k
      BY <1>7, <1>9, <2>1, <2>2, <2>3, <3>1
    <3> HIDE DEF level, u, w
    <3> QED BY <3>3, <3>4
  <2> QED BY <2>2, <2>3
<1>10. Good(N)
  <2> DEFINE T == {k \in 0 .. N : Good(k)}
  <2> HIDE DEF Good
  <2>1. 0 \in T
    BY <1>3, <1>8
  <2>2. \A k \in 0 .. N : k # N /\ k \in T => k + 1 \in T
    BY <1>6, <1>9
  <2> HIDE DEF T
  <2>3. \A k \in 0 .. N : k \in T
    BY <1>3, <2>1, <2>2, UpTo
  <2> QED BY <1>3, <2>3 DEF T
<1>11. walk[N] \in S /\ walk[N][1] = ONE
  BY <1>3, <1>7, <1>10
<1>12. PICK n \in Known(d) : walk[N] = <<n, FALSE>> \/ walk[N] = <<n, TRUE>>
  BY <1>11, EdgeForm DEF KnownEdges
<1>13. Holds(v, <<ONE, FALSE>>) /\ ~Holds(v, <<ONE, TRUE>>)
  BY HoldsNot
<1>14. n = ONE /\ <<ONE, FALSE>> # <<ONE, TRUE>>
  <2>1. /\ <<n, FALSE>>[1] = n /\ <<n, TRUE>>[1] = n
        /\ <<ONE, FALSE>>[2] = FALSE /\ <<ONE, TRUE>>[2] = TRUE
    OBVIOUS
  <2>2. n = ONE
    BY <1>11, <1>12, <2>1, Zenon
  <2> QED BY <2>1, <2>2
<1> QED BY <1>1, <1>10, <1>12, <1>13, <1>14

LEMMA FollowsExists ==
  ASSUME NEW d, Table(d), NEW p \in [Vars -> Vars], Ordered(d, {}, p), NEW a \in Asgs, NEW xo
  PROVE  \E v \in SUBSET Pool : Follows(d, {}, xo, a, v)
<1> DEFINE Choice(v, n) == IF a[d[n].index] THEN Holds(v, <<d[n].T, FALSE>>) ELSE Holds(v, d[n].E)
           level(n) == p[d[n].index]
           Upto(k, v) == \A n \in Live(d) : level(n) >= N - k => (n \in v <=> Choice(v, n))
           S == {k \in 0 .. N : \E v \in SUBSET Pool : Upto(k, v)}
<1>1. N \in Nat
  BY BddAssumption
<1>2. \A n \in Live(d) : level(n) \in 0 .. N - 1
  BY LiveType DEF Vars
<1>3. 0 \in S
  <2>1. Upto(0, {})
    BY <1>1, <1>2
  <2> HIDE DEF Upto
  <2> QED BY <1>1, <2>1
<1>4. ASSUME NEW k \in 0 .. N, k # N, k \in S PROVE k + 1 \in S
  <2>1. PICK v \in SUBSET Pool : Upto(k, v)
    BY <1>4
  <2> DEFINE w == {n \in Live(d) : \/ level(n) >= N - k /\ n \in v
                                   \/ level(n) = N - k - 1 /\ Choice(v, n)}
  <2>2. ASSUME NEW n \in Live(d), level(n) >= N - k - 1
        PROVE  Choice(w, n) <=> Choice(v, n)
    <3>1. ASSUME NEW c \in Children(d, n) PROVE c \in w <=> c \in v
      <4>1. c \in Live(d) /\ level(n) < level(c)
        BY DEF Table, Ordered
      <4>2. level(n) \in Int /\ level(c) \in Int
        BY <1>2, <4>1
      <4> HIDE DEF level, Choice
      <4>3. level(c) >= N - k /\ level(c) # N - k - 1
        BY <1>1, <2>2, <4>1, <4>2
      <4> QED BY <4>1, <4>3
    <3>2. /\ d[n].T \in w \cup {ONE} <=> d[n].T \in v \cup {ONE}
          /\ d[n].E[1] \in w \cup {ONE} <=> d[n].E[1] \in v \cup {ONE}
      BY <3>1 DEF Children
    <3>3. <<d[n].T, FALSE>>[1] = d[n].T
      OBVIOUS
    <3> HIDE DEF w
    <3>4. Holds(w, <<d[n].T, FALSE>>) <=> Holds(v, <<d[n].T, FALSE>>)
      BY <3>2, <3>3, HoldsSame
    <3>5. Holds(w, d[n].E) <=> Holds(v, d[n].E)
      BY <3>2, HoldsSame
    <3> QED BY <3>4, <3>5
  <2>3. Upto(k + 1, w)
    <3> SUFFICES ASSUME NEW n \in Live(d), level(n) >= N - (k + 1)
                 PROVE  n \in w <=> Choice(w, n)
      OBVIOUS
    <3>1. Choice(w, n) <=> Choice(v, n)
      <4>1. level(n) >= N - k - 1
        <5>1. level(n) \in Int /\ N - (k + 1) = N - k - 1
          BY <1>1, <1>2
        <5> HIDE DEF level
        <5> QED BY <5>1
      <4> HIDE DEF level, Choice, w
      <4> QED BY <2>2, <4>1
    <3>2. level(n) >= N - k => (n \in v <=> Choice(v, n))
      BY <2>1
    <3>3. level(n) \in Int
      BY <1>2
    <3> HIDE DEF level, Choice
    <3>4. level(n) >= N - k \/ level(n) = N - k - 1
      BY <1>1, <3>3
    <3>5. ~(level(n) >= N - k /\ level(n) = N - k - 1)
      BY <1>1, <3>3
    <3> QED BY <3>1, <3>2, <3>4, <3>5
  <2>4. w \in SUBSET Pool
    BY LiveFinite
  <2> HIDE DEF w, Upto
  <2> QED BY <1>1, <1>4, <2>3, <2>4
<1>5. N \in S
  <2> HIDE DEF S
  <2>1. \A k \in 0 .. N : k # N /\ k \in S => k + 1 \in S
    BY <1>4
  <2> QED BY <1>1, <1>3, <2>1, UpTo
<1>6. PICK v \in SUBSET Pool : Upto(N, v)
  BY <1>5
<1>7. \A n \in Live(d) : n \in v <=> Choice(v, n)
  <2>1. \A n \in Live(d) : level(n) >= N - N
    BY <1>1, <1>2
  <2> QED BY <1>6, <2>1
<1>8. Follows(d, {}, xo, a, v)
  BY <1>7, Zenon DEF Follows, Chooses
<1> QED BY <1>8

-----------------------------------------------------------------------------
(* The references of the network and of the manager, and the counters.      *)

Outer(n) == Cardinality({e \in roots : e[1] = n}) + Cardinality({i \in Vars : vars[i] = n})

\* The network holds nodes of the table, the projection functions are what they
\* are, and the count of a node is right.
HeldIn(d) ==
    /\ roots \subseteq KnownEdges(d) /\ vars \in [Vars -> Live(d)]
    /\ \A i \in Vars : d[vars[i]].index = i /\ Children(d, vars[i]) = {}
    /\ \A n \in Live(d) : Excess(d, n) = Outer(n)

LEMMA VarsFinite == IsFiniteSet(Vars) /\ Cardinality(Vars) = N
<1>1. N \in Nat
  BY BddAssumption
<1>2. 0 \in Int /\ N - 1 \in Int
  BY <1>1
<1>3. /\ IsFiniteSet(0 .. N - 1)
      /\ Cardinality(0 .. N - 1) = IF 0 > N - 1 THEN 0 ELSE (N - 1) - 0 + 1
  BY <1>2, FS_Interval
<1> QED BY <1>1, <1>3 DEF Vars

LEMMA KnownFinite ==
  ASSUME NEW d
  PROVE  IsFiniteSet(Known(d) \X BOOLEAN)
<1>1. IsFiniteSet(Live(d)) /\ IsFiniteSet({ONE}) /\ IsFiniteSet({TRUE}) /\ IsFiniteSet({FALSE})
  BY LiveFinite, FS_Singleton
<1>2. IsFiniteSet(Known(d))
  BY <1>1, FS_Union DEF Known
<1>3. IsFiniteSet({TRUE} \cup {FALSE}) /\ BOOLEAN = {TRUE} \cup {FALSE}
  BY <1>1, FS_Union
<1> QED BY <1>2, <1>3, FS_Product

LEMMA OuterNat ==
  ASSUME NEW d, HeldIn(d), NEW n
  PROVE  /\ Outer(n) \in Nat
         /\ Outer(n) > 0 <=> (\E e \in roots : e[1] = n) \/ (\E i \in Vars : vars[i] = n)
<1> DEFINE P == {e \in roots : e[1] = n}
           Q == {i \in Vars : vars[i] = n}
<1>1. IsFiniteSet(P) /\ IsFiniteSet(Q)
  <2>1. IsFiniteSet(Known(d) \X BOOLEAN)
    BY KnownFinite
  <2>2. P \subseteq Known(d) \X BOOLEAN /\ Q \subseteq Vars
    BY DEF HeldIn, KnownEdges
  <2> QED BY <2>1, <2>2, VarsFinite, FS_Subset
<1>2. /\ Cardinality(P) \in Nat /\ (Cardinality(P) = 0 <=> P = {})
      /\ Cardinality(Q) \in Nat /\ (Cardinality(Q) = 0 <=> Q = {})
  BY <1>1, FS_CardinalityType, FS_EmptySet
<1>3. Outer(n) = Cardinality(P) + Cardinality(Q)
  BY DEF Outer
<1>4. P # {} \/ Q # {} <=> (\E e \in roots : e[1] = n) \/ (\E i \in Vars : vars[i] = n)
  OBVIOUS
<1> HIDE DEF P, Q
<1> QED BY <1>2, <1>3, <1>4

\* A projection function is isolated when no node and only one edge holds it.
LEMMA IsolatedForm ==
  ASSUME NEW d, Table(d), HeldIn(d), NEW i \in Vars
  PROVE  /\ Isolated(d, i) \in {0, 1}
         /\ Isolated(d, i) = 1 <=> Outer(vars[i]) = 1 /\ ~HasParent(d, vars[i])
<1> DEFINE n == vars[i]
<1>1. n \in Live(d) /\ Excess(d, n) = Outer(n)
  BY DEF HeldIn
<1>2. n # ONE /\ d[n].ref \in Int
  BY <1>1, LiveType
<1>3. RefsIn(d, n) \in Nat /\ (RefsIn(d, n) > 0 <=> HasParent(d, n))
  BY <1>2, ParentRefs
<1>4. Outer(n) \in Nat /\ Outer(n) > 0
  BY OuterNat
<1>5. ref(d, n) = d[n].ref /\ d[n].ref - RefsIn(d, n) = Outer(n)
  BY <1>1, <1>2 DEF ref, Excess
<1>6. Isolated(d, i) = IF ref(d, n) = 1 THEN 1 ELSE 0
  BY DEF Isolated
<1> HIDE DEF n
<1>7. ref(d, n) = 1 <=> Outer(n) = 1 /\ ~HasParent(d, n)
  BY <1>2, <1>3, <1>4, <1>5
<1>8. Isolated(d, i) \in {0, 1} /\ (Isolated(d, i) = 1 <=> ref(d, n) = 1)
  BY <1>6
<1> QED BY <1>7, <1>8 DEF n

IsolatedOf(d, S) == Cardinality({i \in S : Isolated(d, i) = 1})

LEMMA IsolatedSplit ==
  ASSUME NEW d, Table(d), HeldIn(d), NEW xi \in Vars, NEW yi \in Vars, xi # yi
  PROVE  /\ IsolatedOf(d, Vars \ {xi, yi}) \in Nat
         /\ IsolatedCount(d) = IsolatedOf(d, Vars \ {xi, yi}) + Isolated(d, xi) + Isolated(d, yi)
<1> DEFINE P == {i \in Vars \ {xi, yi} : Isolated(d, i) = 1}
           Q(i) == IF Isolated(d, i) = 1 THEN {i} ELSE {}
<1>1. ASSUME NEW i \in Vars
      PROVE  /\ Isolated(d, i) \in Nat /\ IsFiniteSet(Q(i)) /\ Cardinality(Q(i)) = Isolated(d, i)
             /\ \A j : j \in Q(i) <=> j = i /\ Isolated(d, i) = 1
  <2>1. Isolated(d, i) = 0 \/ Isolated(d, i) = 1
    BY IsolatedForm
  <2>2. /\ IsFiniteSet({}) /\ Cardinality({}) = 0
        /\ IsFiniteSet({i}) /\ Cardinality({i}) = 1
    BY FS_EmptySet, FS_Singleton
  <2> QED BY <2>1, <2>2
<1>2. IsFiniteSet(P)
  <2>1. P \subseteq Vars
    OBVIOUS
  <2> QED BY <2>1, VarsFinite, FS_Subset
<1> HIDE DEF Q
<1>3. /\ {i \in Vars : Isolated(d, i) = 1} = (P \cup Q(xi)) \cup Q(yi)
      /\ P \cap Q(xi) = {} /\ (P \cup Q(xi)) \cap Q(yi) = {}
  BY <1>1
<1> HIDE DEF P
<1>4. /\ IsFiniteSet(P \cup Q(xi)) /\ Cardinality(P) \in Nat
      /\ Cardinality(P \cup Q(xi)) = Cardinality(P) + Cardinality(Q(xi))
  BY <1>1, <1>2, <1>3, DisjointUnion
<1>5. Cardinality((P \cup Q(xi)) \cup Q(yi)) = Cardinality(P \cup Q(xi)) + Cardinality(Q(yi))
  BY <1>1, <1>3, <1>4, DisjointUnion
<1>6. /\ IsolatedCount(d) = Cardinality((P \cup Q(xi)) \cup Q(yi))
      /\ IsolatedOf(d, Vars \ {xi, yi}) = Cardinality(P)
  BY <1>3 DEF IsolatedCount, IsolatedOf, P
<1> QED BY <1>1, <1>4, <1>5, <1>6

Others(d, xi, yi) == {n \in Live(d) : d[n].index \notin {xi, yi}}

LEMMA LiveSplit ==
  ASSUME NEW d, NEW xi, NEW yi, xi # yi
  PROVE  /\ Cardinality(Layer(d, xi)) \in Nat /\ Cardinality(Layer(d, yi)) \in Nat
         /\ Cardinality(Others(d, xi, yi)) \in Nat
         /\ Cardinality(Live(d)) = Cardinality(Layer(d, xi)) + Cardinality(Layer(d, yi))
                                     + Cardinality(Others(d, xi, yi))
<1> DEFINE P == Layer(d, xi)
           Q == Layer(d, yi)
           R == Others(d, xi, yi)
<1>1. IsFiniteSet(P) /\ IsFiniteSet(Q) /\ IsFiniteSet(R)
  <2>1. P \subseteq Live(d) /\ Q \subseteq Live(d) /\ R \subseteq Live(d)
    BY DEF Layer, Others
  <2> QED BY <2>1, LiveFinite, FS_Subset
<1>2. Live(d) = (P \cup Q) \cup R /\ P \cap Q = {} /\ (P \cup Q) \cap R = {}
  BY DEF Layer, Others
<1> HIDE DEF P, Q, R
<1>3. /\ IsFiniteSet(P \cup Q) /\ Cardinality(P) \in Nat /\ Cardinality(Q) \in Nat
      /\ Cardinality(P \cup Q) = Cardinality(P) + Cardinality(Q)
  BY <1>1, <1>2, DisjointUnion
<1>4. /\ Cardinality(R) \in Nat
      /\ Cardinality((P \cup Q) \cup R) = Cardinality(P \cup Q) + Cardinality(R)
  BY <1>1, <1>2, <1>3, DisjointUnion
<1> QED BY <1>2, <1>3, <1>4 DEF P, Q, R

LEMMA LayerFinite ==
  ASSUME NEW d, NEW i
  PROVE  IsFiniteSet(Layer(d, i)) /\ Cardinality(Layer(d, i)) \in Nat
<1>1. Layer(d, i) \subseteq Live(d)
  BY DEF Layer
<1> QED BY <1>1, LiveFinite, FS_Subset, FS_CardinalityType

-----------------------------------------------------------------------------
(* What each step of an exchange does to them.                              *)

LEMMA MovedHeld ==
  ASSUME NEW d, Table(d), HeldIn(d), NEW yi, NEW xi \in Vars, yi \in Vars,
         NEW d2, Moved(d, d2, Chain(d, xi, yi), yi)
  PROVE  /\ HeldIn(d2)
         /\ \A i \in Vars : Isolated(d2, i) = Isolated(d, i)
<1> DEFINE g == Chain(d, xi, yi)
<1>1. /\ Table(d2) /\ Live(d2) = Live(d)
      /\ \A n \in Live(d) : /\ Children(d2, n) = Children(d, n) /\ d2[n].ref = d[n].ref
                            /\ Excess(d2, n) = Excess(d, n)
                            /\ n \notin g => d2[n].index = d[n].index
  BY MovedSame
<1>2. \A i \in Vars : vars[i] \in Live(d) /\ vars[i] \notin g
  BY ChainForm DEF HeldIn
<1> HIDE DEF g
<1>3. Known(d2) = Known(d) /\ KnownEdges(d2) = KnownEdges(d)
  BY <1>1 DEF Known, KnownEdges
<1>4. HeldIn(d2)
  BY <1>1, <1>2, <1>3 DEF HeldIn
<1>5. \A i \in Vars : ref(d2, vars[i]) = ref(d, vars[i])
  BY <1>1, <1>2 DEF ref
<1> QED BY <1>4, <1>5 DEF Isolated

LEMMA RebuiltHeld ==
  ASSUME NEW d, NEW g, NEW lev, NEW xi, NEW yi, Exchange(d, g, lev, xi, yi), NEW f \in g,
         NEW d2, NEW c1, NEW c0, Rebuilt(d, d2, f, xi, yi, c1, c0), HeldIn(d)
  PROVE  /\ HeldIn(d2)
         /\ \A i \in Vars \ {xi, yi} : Isolated(d2, i) = 1 <=> Isolated(d, i) = 1
<1>1. /\ Table(d2) /\ Live(d) \subseteq Live(d2) /\ KnownEdges(d) \subseteq KnownEdges(d2)
      /\ \A n \in Live(d) : d2[n].index = d[n].index
      /\ \A n \in Live(d) \ {f} : Children(d2, n) = Children(d, n)
  BY RebuiltOld
<1>2. \A i \in Vars : vars[i] \in Live(d) /\ vars[i] # f
  <2>1. Children(d, f) # {}
    BY DEF Exchange, Waiting
  <2> QED BY <2>1 DEF HeldIn
<1>3. ASSUME NEW n \in Live(d2), n \notin Live(d) PROVE Excess(d2, n) = Outer(n)
  <2>1. Excess(d2, n) = 0
    BY <1>3, RebuiltNew
  <2>2. n # ONE
    BY <1>1, LiveType
  <2>3. \A e \in roots : e[1] \in Known(d)
    BY DEF HeldIn, KnownEdges
  <2>4. n \notin Known(d)
    BY <1>3, <2>2 DEF Known
  <2>5. Outer(n) \in Nat /\ ~(Outer(n) > 0)
    BY <1>2, <1>3, <2>3, <2>4, OuterNat
  <2> QED BY <2>1, <2>5
<1>4. \A n \in Live(d) : Excess(d2, n) = Excess(d, n)
  BY RebuiltExcess
<1>5. HeldIn(d2)
  <2>1. roots \subseteq KnownEdges(d2) /\ vars \in [Vars -> Live(d2)]
    BY <1>1 DEF HeldIn
  <2>2. \A i \in Vars : d2[vars[i]].index = i /\ Children(d2, vars[i]) = {}
    BY <1>1, <1>2 DEF HeldIn
  <2>3. \A n \in Live(d2) : Excess(d2, n) = Outer(n)
    BY <1>3, <1>4 DEF HeldIn
  <2> QED BY <2>1, <2>2, <2>3 DEF HeldIn
<1>6. ASSUME NEW i \in Vars \ {xi, yi} PROVE Isolated(d2, i) = 1 <=> Isolated(d, i) = 1
  <2>1. /\ Isolated(d2, i) = 1 <=> Outer(vars[i]) = 1 /\ ~HasParent(d2, vars[i])
        /\ Isolated(d, i) = 1 <=> Outer(vars[i]) = 1 /\ ~HasParent(d, vars[i])
    BY <1>1, <1>5, IsolatedForm DEF Exchange
  <2>2. d[vars[i]].index = i /\ vars[i] \in Live(d)
    BY DEF HeldIn
  <2>3. HasParent(d2, vars[i]) <=> HasParent(d, vars[i])
    BY <2>2, RebuiltParents
  <2> QED BY <2>1, <2>3
<1> QED BY <1>5, <1>6

LEMMA ClearedHeld ==
  ASSUME NEW d, NEW d2, NEW xi, NEW yi, NEW lev, Exchange(d, {}, lev, xi, yi),
         Kept(d, {}, xi, yi), HeldIn(d),
         NEW dead, dead = {f \in Layer(d, yi) : d[f].ref = 0}, Cleared(d, d2, dead)
  PROVE  /\ Table(d2) /\ Ordered(d2, {}, lev) /\ Reduced(d2, {}) /\ HeldIn(d2)
         /\ \A n \in Live(d2) : d2[n].ref > 0
         /\ \A e \in External : e \in KnownEdges(d2)
         /\ \A i \in Vars : Isolated(d2, i) = 1 <=> Isolated(d, i) = 1
<1>1. \A n \in Live(d) : Excess(d, n) = Outer(n) /\ Outer(n) \in Nat
  BY OuterNat DEF HeldIn
<1>2. \A n \in Live(d) : Excess(d, n) >= 0
  BY <1>1
<1>3. /\ Table(d2) /\ Ordered(d2, {}, lev) /\ Reduced(d2, {})
      /\ \A n \in Live(d2) : /\ n \in Live(d) /\ Children(d2, n) = Children(d, n)
                             /\ d2[n].index = d[n].index
                             /\ Excess(d2, n) = Excess(d, n) /\ d2[n].ref > 0
                             /\ HasParent(d2, n) <=> HasParent(d, n)
  BY <1>2, ClearedEffect
<1>4. Table(d) /\ Live(d2) = Live(d) \ dead
  BY DEF Exchange, Cleared
<1>5. ASSUME NEW n \in dead PROVE n \in Live(d) /\ Outer(n) = 0
  <2>1. n \in Live(d) /\ d[n].ref = 0
    BY DEF Layer
  <2>2. RefsIn(d, n) \in Nat /\ Excess(d, n) = 0 - RefsIn(d, n)
    BY <2>1, RefsInNat DEF Excess
  <2> QED BY <1>1, <2>1, <2>2
<1>6. ASSUME NEW n \in Known(d), (\E e \in roots : e[1] = n) \/ (\E i \in Vars : vars[i] = n)
      PROVE  n \in Known(d2)
  <2>1. Outer(n) > 0
    BY <1>6, OuterNat
  <2>2. n \notin dead
    BY <1>5, <2>1
  <2> QED BY <1>4, <2>2 DEF Known
<1>7. roots \subseteq KnownEdges(d2)
  <2> SUFFICES ASSUME NEW e \in roots PROVE e \in KnownEdges(d2)
    OBVIOUS
  <2>1. e \in Known(d) \X BOOLEAN
    BY DEF HeldIn, KnownEdges
  <2>2. e[1] \in Known(d2)
    BY <1>6, <2>1
  <2> QED BY <2>1, <2>2 DEF KnownEdges
<1>8. ASSUME NEW i \in Vars PROVE vars[i] \in Live(d2) /\ vars[i] \in Live(d)
  <2>1. vars[i] \in Live(d)
    BY DEF HeldIn
  <2>2. vars[i] # ONE /\ vars[i] \in Known(d)
    BY <1>4, <2>1, LiveType DEF Known
  <2>3. vars[i] \in Known(d2)
    BY <1>6, <2>2
  <2> QED BY <2>1, <2>2, <2>3 DEF Known
<1>9. HeldIn(d2)
  <2>1. vars \in [Vars -> Live(d2)]
    BY <1>8 DEF HeldIn
  <2>2. \A i \in Vars : d2[vars[i]].index = i /\ Children(d2, vars[i]) = {}
    BY <1>3, <1>8 DEF HeldIn
  <2>3. \A n \in Live(d2) : Excess(d2, n) = Outer(n)
    BY <1>1, <1>3
  <2> QED BY <1>7, <2>1, <2>2, <2>3 DEF HeldIn
<1>10. \A e \in External : e \in KnownEdges(d2)
  <2>1. \A i \in Vars : <<vars[i], FALSE>> \in KnownEdges(d2)
    BY <1>8 DEF KnownEdges, Known
  <2> QED BY <1>7, <2>1 DEF External
<1>11. ASSUME NEW i \in Vars PROVE Isolated(d2, i) = 1 <=> Isolated(d, i) = 1
  <2>1. /\ Isolated(d2, i) = 1 <=> Outer(vars[i]) = 1 /\ ~HasParent(d2, vars[i])
        /\ Isolated(d, i) = 1 <=> Outer(vars[i]) = 1 /\ ~HasParent(d, vars[i])
    BY <1>3, <1>4, <1>9, IsolatedForm
  <2> QED BY <1>3, <1>8, <2>1
<1> QED BY <1>3, <1>9, <1>10, <1>11

LEMMA MovedLayers ==
  ASSUME NEW d, Table(d), NEW xi \in Vars, NEW yi \in Vars, xi # yi,
         NEW g, g = Chain(d, xi, yi), NEW d2, Moved(d, d2, g, yi)
  PROVE  /\ Layer(d2, xi) = Layer(d, xi) \ g /\ Layer(d2, yi) \ g = Layer(d, yi)
         /\ Others(d2, xi, yi) = Others(d, xi, yi)
         /\ \A i \in Vars \ {xi, yi} : Layer(d2, i) = Layer(d, i)
<1>1. /\ Live(d2) = Live(d)
      /\ \A n \in Live(d) : /\ n \notin g => d2[n].index = d[n].index
                            /\ n \in g => d2[n].index = yi
  BY MovedSame
<1>2. \A n \in g : n \in Live(d) /\ d[n].index = xi
  BY ChainForm
<1> QED BY <1>1, <1>2 DEF Layer, Others

LayersRebuilt(d, d2, g, f, xi, yi) ==
    /\ Cardinality(Layer(d2, yi) \ (g \ {f})) = Cardinality(Layer(d, yi) \ g) + 1
    /\ Cardinality(Layer(d2, xi)) = Cardinality(Layer(d, xi)) + Cardinality(Live(d2))
                                        - Cardinality(Live(d))
    /\ Others(d2, xi, yi) = Others(d, xi, yi)
    /\ \A i \in Vars \ {xi, yi} : Layer(d2, i) = Layer(d, i)

LEMMA RebuiltLayers ==
  ASSUME NEW d, NEW g, NEW lev, NEW xi, NEW yi, Exchange(d, g, lev, xi, yi), NEW f \in g,
         NEW d2, NEW c1, NEW c0, Rebuilt(d, d2, f, xi, yi, c1, c0)
  PROVE  LayersRebuilt(d, d2, g, f, xi, yi)
<1>1. /\ Live(d) \subseteq Live(d2) /\ \A n \in Live(d) : d2[n].index = d[n].index
  BY RebuiltOld
<1>2. \A n \in Live(d2) : n \notin Live(d) => d2[n].index = xi
  BY RebuiltNew
<1>3. f \in Live(d) /\ d[f].index = yi /\ xi # yi /\ \A n \in g : n \in Live(d)
  BY ChainNode
<1>4. /\ Others(d2, xi, yi) = Others(d, xi, yi)
      /\ \A i \in Vars \ {xi, yi} : Layer(d2, i) = Layer(d, i)
  BY <1>1, <1>2 DEF Layer, Others
<1>5. Cardinality(Layer(d2, yi) \ (g \ {f})) = Cardinality(Layer(d, yi) \ g) + 1
  <2> DEFINE P == Layer(d, yi) \ g
  <2>1. Layer(d2, yi) \ (g \ {f}) = P \cup {f} /\ f \notin P
    BY <1>1, <1>2, <1>3 DEF Layer
  <2>2. IsFiniteSet(P)
    <3>1. P \subseteq Layer(d, yi)
      OBVIOUS
    <3> QED BY <3>1, LayerFinite, FS_Subset
  <2> HIDE DEF P
  <2>3. Cardinality(P \cup {f}) = Cardinality(P) + 1
    BY <2>1, <2>2, FS_AddElement
  <2> QED BY <2>1, <2>3 DEF P
<1>6. Cardinality(Layer(d2, xi)) = Cardinality(Layer(d, xi)) + Cardinality(Live(d2))
                                      - Cardinality(Live(d))
  <2> DEFINE P == Live(d2) \ Live(d)
             L == Layer(d, xi)
             V == Live(d)
  <2>1. Layer(d2, xi) = L \cup P /\ L \cap P = {} /\ Live(d2) = V \cup P /\ V \cap P = {}
    BY <1>1, <1>2 DEF Layer
  <2>2. IsFiniteSet(P) /\ IsFiniteSet(L) /\ IsFiniteSet(V)
    <3>1. P \subseteq Live(d2)
      OBVIOUS
    <3> QED BY <3>1, LiveFinite, LayerFinite, FS_Subset
  <2> HIDE DEF P, L, V
  <2>3. /\ Cardinality(L \cup P) = Cardinality(L) + Cardinality(P)
        /\ Cardinality(L) \in Nat /\ Cardinality(P) \in Nat
    BY <2>1, <2>2, DisjointUnion
  <2>4. Cardinality(V \cup P) = Cardinality(V) + Cardinality(P) /\ Cardinality(V) \in Nat
    BY <2>1, <2>2, DisjointUnion
  <2>5. Cardinality(Layer(d2, xi)) = Cardinality(L) + Cardinality(Live(d2)) - Cardinality(V)
    BY <2>1, <2>3, <2>4
  <2> QED BY <2>5 DEF L, V
<1> QED BY <1>4, <1>5, <1>6 DEF LayersRebuilt

LayersCleared(d, d2, dead, xi, yi) ==
    /\ Layer(d2, xi) = Layer(d, xi) /\ Others(d2, xi, yi) = Others(d, xi, yi)
    /\ Cardinality(Layer(d2, yi)) = Cardinality(Layer(d, yi)) - Cardinality(dead)
    /\ \A i \in Vars \ {xi, yi} : Layer(d2, i) = Layer(d, i)

LEMMA ClearedLayers ==
  ASSUME NEW d, NEW d2, NEW xi, NEW yi, xi # yi,
         NEW dead \in SUBSET Layer(d, yi), Cleared(d, d2, dead)
  PROVE  LayersCleared(d, d2, dead, xi, yi)
<1>1. Live(d2) = Live(d) \ dead /\ \A n \in Live(d2) : d2[n].index = d[n].index
  BY DEF Cleared
<1>2. \A n \in dead : n \in Live(d) /\ d[n].index = yi
  BY DEF Layer
<1>3. /\ Layer(d2, xi) = Layer(d, xi) /\ Others(d2, xi, yi) = Others(d, xi, yi)
      /\ \A i \in Vars \ {xi, yi} : Layer(d2, i) = Layer(d, i)
  BY <1>1, <1>2 DEF Layer, Others
<1> DEFINE P == Layer(d2, yi)
<1>4. Layer(d, yi) = P \cup dead /\ P \cap dead = {}
  BY <1>1, <1>2 DEF Layer
<1>5. IsFiniteSet(P) /\ IsFiniteSet(dead)
  <2>1. dead \subseteq Layer(d, yi)
    OBVIOUS
  <2> QED BY <2>1, LayerFinite, FS_Subset
<1> HIDE DEF P
<1>6. /\ Cardinality(P \cup dead) = Cardinality(P) + Cardinality(dead)
      /\ Cardinality(P) \in Nat /\ Cardinality(dead) \in Nat
  BY <1>4, <1>5, DisjointUnion
<1>7. Cardinality(P) = Cardinality(Layer(d, yi)) - Cardinality(dead)
  BY <1>4, <1>6
<1> QED BY <1>3, <1>7 DEF P, LayersCleared

\* Without an entry in the matrix no node of the upper layer has a child in the
\* lower one.
LEMMA UntouchedChain ==
  ASSUME NEW d, Table(d), NEW xo, NEW pairs, Interacts(d, {}, xo, pairs),
         NEW xi \in Vars, NEW yi \in Vars, <<xi, yi>> \notin pairs
  PROVE  Chain(d, xi, yi) = {}
<1> SUFFICES ASSUME NEW f \in Chain(d, xi, yi) PROVE FALSE
  OBVIOUS
<1>1. PICK c \in Children(d, f) : d[c].index = yi
  BY ChainForm
<1>2. f \in Live(d) /\ d[f].index = xi /\ c \in Live(d)
  BY ChainForm DEF Table
<1>3. PICK W \in [Pool -> SUBSET Vars] :
         Supports(d, {}, xo, W) /\ \A n \in Live(d) : W[n] \X W[n] \subseteq pairs
  BY DEF Interacts
<1>4. yi \in W[c]
  BY <1>1, <1>2, <1>3 DEF Supports
<1>5. xi \in W[f] /\ yi \in W[f]
  BY <1>1, <1>2, <1>3, <1>4 DEF Supports
<1> QED BY <1>2, <1>3, <1>5

\* A collection takes nothing from what the remaining edges denote and depend on.
LEMMA ClearedInteracts ==
  ASSUME NEW d, NEW d2, NEW dead, Table(d), Table(d2), Cleared(d, d2, dead),
         NEW xo, NEW x2, NEW pairs, Interacts(d, {}, xo, pairs)
  PROVE  Interacts(d2, {}, x2, pairs)
<1>1. PICK W \in [Pool -> SUBSET Vars] :
         Supports(d, {}, xo, W) /\ \A n \in Live(d) : W[n] \X W[n] \subseteq pairs
  BY DEF Interacts
<1>2. \A n \in Live(d2) : /\ n \in Live(d) /\ d2[n].index = d[n].index
                          /\ Children(d2, n) = Children(d, n)
  BY DEF Cleared, Children
<1>3. Supports(d2, {}, x2, W)
  BY <1>1, <1>2 DEF Supports
<1> QED BY <1>1, <1>2, <1>3 DEF Interacts

LEMMA ClearedFollows ==
  ASSUME NEW d, NEW d2, NEW dead, Cleared(d, d2, dead),
         NEW xo, NEW x2, NEW a, NEW v, Follows(d, {}, xo, a, v)
  PROVE  Follows(d2, {}, x2, a, v)
<1>1. \A n \in Live(d2) : /\ n \in Live(d) /\ d2[n].index = d[n].index
                          /\ d2[n].T = d[n].T /\ d2[n].E = d[n].E
  BY DEF Cleared
<1>2. \A n \in Live(d) : Chooses(d, a, v, n, d[n].index)
  BY DEF Follows
<1>3. \A n \in Live(d2) : Chooses(d2, a, v, n, d2[n].index)
  BY <1>1, <1>2, Zenon DEF Chooses
<1> QED BY <1>3 DEF Follows

-----------------------------------------------------------------------------
(* The inductive invariant.                                                 *)

Control ==
    /\ pc \in {"call", "move", "judge", "undone", "swap", "done"}
    /\ perm \in [Vars -> Vars] /\ invperm \in [Vars -> Vars]
    /\ \A l \in Vars : perm[invperm[l]] = l /\ invperm[perm[l]] = l
    /\ subkeys \in [Vars -> Nat] /\ interact \subseteq Vars \X Vars
    /\ x \in 0 .. High /\ pass \in 0 .. Passes /\ moves \in 0 .. Moves
    /\ pc \notin {"call", "done"} => pass < Passes
    /\ pc \in {"judge", "undone"} => x < High
    /\ sw \in [xi : Vars, yi : Vars, g : SUBSET Pool, newxkeys : Int, newykeys : Int,
               back : {"move", "judge", "undone"}]
    /\ pc = "swap" => perm[sw.yi] = perm[sw.xi] + 1 /\ (sw.back # "move" => x < High)
    /\ pc # "swap" => sw = NoSwap

Settled(d, p) == /\ Table(d) /\ Ordered(d, {}, p) /\ Reduced(d, {})
                 /\ \A n \in Live(d) : d[n].ref > 0

\* In the middle of an exchange; without an entry in the matrix nothing is done.
Exchanging(d, g, xi, yi) ==
    /\ Exchange(d, g, Swapped(perm, xi, yi), xi, yi) /\ Kept(d, g, xi, yi)
    /\ <<xi, yi>> \notin interact => g = {} /\ \A n \in Live(d) : d[n].ref > 0

Tables == /\ pc = "swap" => Exchanging(dd, sw.g, sw.xi, sw.yi)
          /\ pc # "swap" => Settled(dd, perm)

\* For each assignment there is a set of nodes that follows it and gives the
\* edges from outside the values they had before the command.
Valued(d, g, xo) ==
    \A a \in Asgs : \E v \in SUBSET Pool :
       /\ Follows(d, g, xo, a, v)
       /\ \A e \in External : a \in start.roots[e] <=> Holds(v, e)

Meaning == /\ HeldIn(dd) /\ Valued(dd, sw.g, sw.xi)
           /\ \A e \in External : start.roots[e] \subseteq Asgs

Matrix == pc \notin {"call", "done"} => Interacts(dd, sw.g, sw.xi, interact)

RestCounts(d, p) ==
    /\ keys = Cardinality(Live(d)) + 1 /\ isolated = IsolatedCount(d)
    /\ \A i \in Vars : subkeys[p[i]] = Cardinality(Layer(d, i))

SwapCounts(d, g, xi, yi) ==
    /\ sw.newxkeys = Cardinality(Layer(d, xi)) /\ sw.newykeys = Cardinality(Layer(d, yi) \ g)
    /\ \A i \in Vars \ {xi, yi} : subkeys[perm[i]] = Cardinality(Layer(d, i))
    /\ keys = subkeys[perm[xi]] + subkeys[perm[yi]] + Cardinality(Others(d, xi, yi)) + 1
    /\ isolated = IF <<xi, yi>> \in interact THEN IsolatedOf(d, Vars \ {xi, yi})
                  ELSE IsolatedCount(d)

Counts == /\ pc = "swap" => SwapCounts(dd, sw.g, sw.xi, sw.yi)
          /\ pc # "swap" => RestCounts(dd, perm)

IInv == Control /\ Tables /\ Meaning /\ Matrix /\ Counts

LEMMA PermutesPerm ==
  ASSUME Control
  PROVE  Permutes(perm)
<1>1. ASSUME NEW i \in Vars, NEW j \in Vars, perm[i] = perm[j] PROVE i = j
  BY <1>1 DEF Control
<1> QED BY <1>1 DEF Permutes, Control

LEMMA LevelNumbers ==
  ASSUME NEW l \in 0 .. High - 1
  PROVE  l \in Vars /\ l + 1 \in Vars /\ l # l + 1 /\ High \in Nat /\ High = N - 1
BY BddAssumption DEF Vars, High

CollapsedTable(d, R, V) ==
    /\ d \in [Pool -> Records(Nat) \cup {NULL}]
    /\ R \subseteq (Live(d) \cup {ONE}) \X BOOLEAN /\ V \in [Vars -> Live(d)]
    /\ \A i \in Vars : /\ d[V[i]].index = i /\ d[V[i]].T = ONE
                       /\ d[V[i]].E = <<ONE, TRUE>>
    /\ \A n \in Live(d) :
          /\ \A c \in Children(d, n) : c \in Live(d) /\ d[n].index < d[c].index
          /\ <<d[n].T, FALSE>> # d[n].E
          /\ \A k \in Live(d) : d[k].index = d[n].index /\ d[k].T = d[n].T
                                /\ d[k].E = d[n].E => k = n
          /\ d[n].ref > 0
          /\ d[n].ref = Cardinality({f \in Live(d) : d[f].T = n})
                          + Cardinality({f \in Live(d) : d[f].E[1] = n})
                          + Cardinality({e \in R : e[1] = n})
                          + Cardinality({i \in Vars : V[i] = n})

LEMMA InitInv ==
  ASSUME Init
  PROVE  IInv
<1>1. PICK m \in Managers : dd = m.dd /\ roots = m.roots /\ vars = m.vars
  BY DEF Init
<1>2. Collapsed(m)
  BY <1>1, ManagersAssumption
<1>3. /\ dd \in [Pool -> Records(Nat) \cup {NULL}]
      /\ roots \subseteq (Live(dd) \cup {ONE}) \X BOOLEAN /\ vars \in [Vars -> Live(dd)]
      /\ \A i \in Vars : /\ dd[vars[i]].index = i /\ dd[vars[i]].T = ONE
                         /\ dd[vars[i]].E = <<ONE, TRUE>>
      /\ \A n \in Live(dd) :
            /\ \A c \in Children(dd, n) : c \in Live(dd) /\ dd[n].index < dd[c].index
            /\ <<dd[n].T, FALSE>> # dd[n].E
            /\ \A k \in Live(dd) : dd[k].index = dd[n].index /\ dd[k].T = dd[n].T
                                   /\ dd[k].E = dd[n].E => k = n
            /\ dd[n].ref > 0
            /\ dd[n].ref = Cardinality({f \in Live(dd) : dd[f].T = n})
                             + Cardinality({f \in Live(dd) : dd[f].E[1] = n})
                             + Cardinality({e \in roots : e[1] = n})
                             + Cardinality({i \in Vars : vars[i] = n})
  <2>1. CollapsedTable(m.dd, m.roots, m.vars)
    BY <1>2, Zenon DEF Collapsed, CollapsedTable
  <2>2. CollapsedTable(dd, roots, vars)
    BY <1>1, <2>1
  <2> QED BY <2>2, Zenon DEF CollapsedTable
<1>4. /\ perm = [i \in Vars |-> i] /\ invperm = perm /\ pc = "call" /\ sw = NoSwap
      /\ subkeys = [l \in Vars |-> Cardinality(Layer(dd, invperm[l]))]
      /\ keys = Cardinality(Live(dd)) + 1 /\ isolated = IsolatedCount(dd) /\ interact = {}
      /\ x = 0 /\ pass = 0 /\ moves = 0
      /\ start.roots = [e \in External |-> Denotes(dd, e)]
  BY DEF Init
<1>5. perm \in [Vars -> Vars] /\ \A i \in Vars : perm[i] = i /\ invperm[i] = i
  BY <1>4
<1>6. Table(dd)
  <2>1. Records(Nat) \subseteq Records(Int)
    BY DEF Records
  <2>2. dd \in [Pool -> Records(Int) \cup {NULL}]
    BY <1>3, <2>1
  <2> QED BY <1>3, <2>2 DEF Table
<1>7. Settled(dd, perm)
  <2>1. Ordered(dd, {}, perm)
    <3> SUFFICES ASSUME NEW n \in Live(dd), NEW c \in Children(dd, n)
                 PROVE  perm[dd[n].index] < perm[dd[c].index]
      BY DEF Ordered
    <3>1. c \in Live(dd) /\ dd[n].index < dd[c].index
      BY <1>3
    <3>2. dd[n].index \in Vars /\ dd[c].index \in Vars
      BY <1>6, <3>1, LiveType
    <3> QED BY <1>5, <3>1, <3>2
  <2>2. Reduced(dd, {})
    BY <1>3 DEF Reduced
  <2> QED BY <1>3, <1>6, <2>1, <2>2 DEF Settled
<1>8. HeldIn(dd)
  <2>1. \A i \in Vars : Children(dd, vars[i]) = {}
    <3>1. <<ONE, TRUE>>[1] = ONE
      OBVIOUS
    <3>2. \A i \in Vars : dd[vars[i]].T = ONE /\ dd[vars[i]].E[1] = ONE
      BY <1>3, <3>1
    <3> QED BY <3>2 DEF Children
  <2>2. ASSUME NEW n \in Live(dd) PROVE Excess(dd, n) = Outer(n)
    <3> DEFINE P == {f \in Live(dd) : dd[f].T = n}
               Q == {f \in Live(dd) : dd[f].E[1] = n}
               R == {e \in roots : e[1] = n}
               U == {i \in Vars : vars[i] = n}
    <3>1. IsFiniteSet(P) /\ IsFiniteSet(Q) /\ IsFiniteSet(R) /\ IsFiniteSet(U)
      <4>1. P \subseteq Live(dd) /\ Q \subseteq Live(dd) /\ U \subseteq Vars
            /\ R \subseteq (Live(dd) \cup {ONE}) \X BOOLEAN
        BY <1>3
      <4>2. IsFiniteSet((Live(dd) \cup {ONE}) \X BOOLEAN) /\ IsFiniteSet(Live(dd))
        BY KnownFinite, LiveFinite DEF Known
      <4> HIDE DEF P, Q, R, U
      <4> QED BY <4>1, <4>2, VarsFinite, FS_Subset
    <3>2. /\ Cardinality(P) \in Nat /\ Cardinality(Q) \in Nat
          /\ Cardinality(R) \in Nat /\ Cardinality(U) \in Nat
      BY <3>1, FS_CardinalityType
    <3>3. dd[n].ref = Cardinality(P) + Cardinality(Q) + Cardinality(R) + Cardinality(U)
      BY <1>3
    <3>4. RefsIn(dd, n) = Cardinality(P) + Cardinality(Q)
      BY DEF RefsIn
    <3>5. Outer(n) = Cardinality(R) + Cardinality(U)
      BY DEF Outer
    <3> HIDE DEF P, Q, R, U
    <3> QED BY <3>2, <3>3, <3>4, <3>5 DEF Excess
  <2>3. roots \subseteq KnownEdges(dd)
    BY <1>3 DEF KnownEdges, Known
  <2> QED BY <1>3, <2>1, <2>2, <2>3 DEF HeldIn
<1>9. \A e \in External : e \in KnownEdges(dd)
  <2>1. \A i \in Vars : <<vars[i], FALSE>> \in KnownEdges(dd)
    BY <1>3 DEF KnownEdges, Known
  <2>2. roots \subseteq KnownEdges(dd)
    BY <1>3 DEF KnownEdges, Known
  <2> QED BY <2>1, <2>2 DEF External
<1>10. Meaning
  <2>1. ASSUME NEW a \in Asgs
        PROVE  \E v \in SUBSET Pool : /\ Follows(dd, sw.g, sw.xi, a, v)
                                      /\ \A e \in External : a \in start.roots[e] <=> Holds(v, e)
    <3>1. sw.g = {}
      BY <1>4 DEF NoSwap
    <3>2. PICK v \in SUBSET Pool : Follows(dd, {}, sw.xi, a, v)
      BY <1>5, <1>7, FollowsExists DEF Settled
    <3>3. ASSUME NEW e \in External PROVE a \in start.roots[e] <=> Holds(v, e)
      <4>1. a \in Denotes(dd, e) <=> Holds(v, e)
        BY <1>5, <1>7, <1>9, <3>2, DenotesHolds DEF Settled
      <4> QED BY <1>4, <4>1
    <3> QED BY <3>1, <3>2, <3>3
  <2>2. \A e \in External : start.roots[e] \subseteq Asgs
    BY <1>4 DEF Denotes
  <2> QED BY <1>8, <2>1, <2>2 DEF Meaning, Valued
<1>11. Control
  <2>1. N \in Nat \ {0, 1} /\ Passes \in Nat /\ Moves \in Nat
    BY BddAssumption
  <2>2. 0 \in Vars /\ High \in Nat
    BY <2>1 DEF Vars, High
  <2>3. \A l \in Vars : Cardinality(Layer(dd, invperm[l])) \in Nat
    BY LayerFinite
  <2>4. subkeys \in [Vars -> Nat]
    BY <1>4, <2>3
  <2>5. sw \in [xi : Vars, yi : Vars, g : SUBSET Pool, newxkeys : Int, newykeys : Int,
                back : {"move", "judge", "undone"}]
    BY <1>4, <2>2 DEF NoSwap
  <2> QED BY <1>4, <1>5, <2>1, <2>2, <2>4, <2>5 DEF Control
<1>12. RestCounts(dd, perm)
  <2>1. \A i \in Vars : subkeys[perm[i]] = Cardinality(Layer(dd, i))
    BY <1>4, <1>5
  <2> QED BY <1>4, <2>1 DEF RestCounts
<1> QED BY <1>4, <1>7, <1>10, <1>11, <1>12 DEF IInv, Tables, Matrix, Counts

\* Between two exchanges only the loops move.
LEMMA RestStep ==
  ASSUME IInv, pc # "swap", pc' # "swap", UNCHANGED <<table, sw, fixed>>, Control', Matrix'
  PROVE  IInv'
<1>1. /\ dd' = dd /\ perm' = perm /\ invperm' = invperm /\ subkeys' = subkeys /\ keys' = keys
      /\ isolated' = isolated /\ sw' = sw /\ roots' = roots /\ vars' = vars /\ start' = start
  BY DEF table, fixed
<1>2. Tables'
  BY <1>1 DEF IInv, Tables, Settled
<1>3. Meaning'
  <2>1. HeldIn(dd)' /\ External' = External
    BY <1>1 DEF IInv, Meaning, HeldIn, Outer, External
  <2>2. Valued(dd, sw.g, sw.xi)'
    BY <1>1, <2>1 DEF IInv, Meaning, Valued
  <2> QED BY <1>1, <2>1, <2>2 DEF IInv, Meaning
<1>4. Counts'
  <2>1. RestCounts(dd, perm)
    BY DEF IInv, Counts
  <2>2. IsolatedCount(dd)' = IsolatedCount(dd)
    BY <1>1 DEF IsolatedCount, Isolated
  <2> QED BY <1>1, <2>1, <2>2 DEF Counts, RestCounts
<1> QED BY <1>2, <1>3, <1>4 DEF IInv

LEMMA ReduceHeapStep ==
  ASSUME IInv, ReduceHeap
  PROVE  IInv'
<1>1. /\ pc = "call" /\ pass < Passes /\ isolated' = IsolatedCount(dd)
      /\ interact' = Interacting(dd) /\ x' = 0 /\ moves' = 0 /\ pc' = "move"
      /\ UNCHANGED <<dd, perm, invperm, subkeys, keys, pass, sw, fixed>>
  BY DEF ReduceHeap
<1>2. isolated' = isolated
  BY <1>1 DEF IInv, Counts, RestCounts
<1>3. Table(dd) /\ Ordered(dd, {}, perm) /\ perm \in [Vars -> Vars] /\ sw = NoSwap
  BY <1>1 DEF IInv, Tables, Settled, Control
<1>4. Matrix'
  <2>1. Interacts(dd, {}, sw.xi, Interacting(dd)) /\ sw.g = {}
    BY <1>3, InteractingGood DEF NoSwap
  <2> QED BY <1>1, <2>1 DEF Matrix
<1>5. Control'
  <2>1. Interacting(dd) \subseteq Vars \X Vars
    BY DEF Interacting
  <2>2. 0 \in 0 .. High /\ 0 \in 0 .. Moves
    BY BddAssumption DEF High
  <2> QED BY <1>1, <2>1, <2>2 DEF IInv, Control
<1> QED BY <1>1, <1>2, <1>4, <1>5, RestStep DEF table, fixed

LEMMA NextWindowStep ==
  ASSUME IInv, NextWindow
  PROVE  IInv'
<1>1. /\ pc \in {"undone", "judge"} /\ x' = x + 1 /\ pc' = "move"
      /\ UNCHANGED <<table, interact, sw, pass, moves, fixed>>
  BY DEF NextWindow
<1>2. dd' = dd /\ perm' = perm /\ invperm' = invperm /\ subkeys' = subkeys
  BY <1>1 DEF table
<1>3. Control'
  <2>1. x \in 0 .. High /\ x < High /\ High \in Nat
    BY <1>1, BddAssumption DEF IInv, Control, High
  <2>2. x' \in 0 .. High
    BY <1>1, <2>1
  <2> QED BY <1>1, <1>2, <2>2 DEF IInv, Control
<1>4. Matrix'
  BY <1>1, <1>2 DEF IInv, Matrix
<1> QED BY <1>1, <1>3, <1>4, RestStep

LEMMA EndPassStep ==
  ASSUME IInv, EndPass
  PROVE  IInv'
<1>1. /\ pc = "move" /\ pass' = pass + 1 /\ pc' = "call"
      /\ UNCHANGED <<table, interact, sw, x, moves, fixed>>
  BY DEF EndPass
<1>2. dd' = dd /\ perm' = perm /\ invperm' = invperm /\ subkeys' = subkeys
  BY <1>1 DEF table
<1>3. Control'
  <2>1. pass \in 0 .. Passes /\ pass < Passes /\ Passes \in Nat
    BY <1>1, BddAssumption DEF IInv, Control
  <2>2. pass' \in 0 .. Passes
    BY <1>1, <2>1
  <2> QED BY <1>1, <1>2, <2>2 DEF IInv, Control
<1>4. Matrix'
  BY <1>1 DEF Matrix
<1> QED BY <1>1, <1>3, <1>4, RestStep

LEMMA ReturnStep ==
  ASSUME IInv, Return
  PROVE  IInv'
<1>1. /\ pc = "call" /\ pc' = "done"
      /\ UNCHANGED <<table, interact, sw, x, pass, moves, fixed>>
  BY DEF Return, loop
<1>2. dd' = dd /\ perm' = perm /\ invperm' = invperm /\ subkeys' = subkeys
  BY <1>1 DEF table
<1>3. Control'
  BY <1>1, <1>2 DEF IInv, Control
<1>4. Matrix'
  BY <1>1 DEF Matrix
<1> QED BY <1>1, <1>3, <1>4, RestStep

LEMMA StutterStep ==
  ASSUME IInv, UNCHANGED bddvars
  PROVE  IInv'
<1>1. UNCHANGED <<dd, perm, invperm, subkeys, keys, isolated, roots, vars, start, sw, pc,
                  interact, x, pass, moves>>
  BY DEF bddvars, table, loop, fixed
<1>2. Control' /\ Matrix'
  BY <1>1 DEF IInv, Control, Matrix
<1>3. Tables'
  BY <1>1 DEF IInv, Tables, Settled, Exchanging
<1>4. Meaning'
  <2>1. HeldIn(dd)' /\ External' = External
    BY <1>1 DEF IInv, Meaning, HeldIn, Outer, External
  <2>2. Valued(dd, sw.g, sw.xi)'
    BY <1>1, <2>1 DEF IInv, Meaning, Valued
  <2> QED BY <1>1, <2>1, <2>2 DEF IInv, Meaning
<1>5. Counts'
  <2>1. /\ IsolatedCount(dd)' = IsolatedCount(dd)
        /\ IsolatedOf(dd, Vars \ {sw.xi, sw.yi})' = IsolatedOf(dd, Vars \ {sw.xi, sw.yi})
    BY <1>1 DEF IsolatedCount, IsolatedOf, Isolated
  <2> QED BY <1>1, <2>1 DEF IInv, Counts, RestCounts, SwapCounts
<1> QED BY <1>2, <1>3, <1>4, <1>5 DEF IInv

LEMMA BeginSwapStep ==
  ASSUME IInv, pc \in {"move", "judge"}, NEW l \in 0 .. High - 1,
         NEW back \in {"move", "judge", "undone"}, back # "move" => x < High,
         BeginSwap(l, back), x' = x, pass' = pass, moves' \in 0 .. Moves
  PROVE  IInv'
<1> DEFINE xi == invperm[l]
           yi == invperm[l + 1]
           g  == Chain(dd, xi, yi)
<1>1. Control /\ Settled(dd, perm) /\ HeldIn(dd) /\ sw = NoSwap
  BY DEF IInv, Tables, Meaning, Control
<1>2. /\ xi \in Vars /\ yi \in Vars /\ perm[xi] = l /\ perm[yi] = l + 1 /\ xi # yi
      /\ l \in Vars /\ l + 1 \in Vars /\ l # l + 1
  <2>1. l \in Vars /\ l + 1 \in Vars /\ l # l + 1
    BY LevelNumbers
  <2> QED BY <1>1, <2>1 DEF Control
<1>3. Interacts(dd, {}, sw.xi, interact)
  BY <1>1 DEF IInv, Matrix, NoSwap
<1>4. Table(dd) /\ Ordered(dd, {}, perm) /\ Reduced(dd, {}) /\ \A n \in Live(dd) : dd[n].ref > 0
  BY <1>1 DEF Settled
<1> HIDE DEF xi, yi
<1>5. (IF <<xi, yi>> \in interact THEN Chain(dd, xi, yi) ELSE {}) = g
  BY <1>2, <1>3, <1>4, UntouchedChain
<1>6. /\ sw' = [xi |-> xi, yi |-> yi, g |-> g, back |-> back,
                newxkeys |-> IF <<xi, yi>> \in interact
                             THEN Cardinality(Layer(dd, xi) \ g) ELSE subkeys[l],
                newykeys |-> subkeys[l + 1]]
      /\ dd' = [n \in Pool |-> IF n \in g THEN [dd[n] EXCEPT !.index = yi] ELSE dd[n]]
      /\ isolated' = IF <<xi, yi>> \in interact
                     THEN isolated - Isolated(dd, xi) - Isolated(dd, yi) ELSE isolated
      /\ pc' = "swap"
      /\ UNCHANGED <<perm, invperm, subkeys, keys, interact, fixed>>
  BY <1>5, Zenon DEF BeginSwap, xi, yi
<1>7. g \in SUBSET Live(dd)
  BY <1>2, <1>4, ChainForm
<1> DEFINE newx == IF <<xi, yi>> \in interact
                   THEN Cardinality(Layer(dd, xi) \ g) ELSE subkeys[l]
<1>8. /\ sw'.xi = xi /\ sw'.yi = yi /\ sw'.g = g /\ sw'.back = back
      /\ sw'.newxkeys = newx /\ sw'.newykeys = subkeys[l + 1]
  BY <1>6
<1>9. /\ perm' = perm /\ invperm' = invperm /\ subkeys' = subkeys /\ keys' = keys
      /\ interact' = interact /\ roots' = roots /\ vars' = vars /\ start' = start
  BY <1>6 DEF fixed
<1>10. Moved(dd, dd', g, yi)
  <2> HIDE DEF g
  <2> QED BY <1>2, <1>4, <1>6, <1>7, MovedEffect
<1>11. subkeys[l] = Cardinality(Layer(dd, xi)) /\ subkeys[l + 1] = Cardinality(Layer(dd, yi))
       /\ subkeys \in [Vars -> Nat]
  <2>1. RestCounts(dd, perm)
    BY DEF IInv, Counts
  <2> QED BY <1>1, <1>2, <2>1 DEF RestCounts, Control
<1>12. /\ Layer(dd', xi) = Layer(dd, xi) \ g /\ Layer(dd', yi) \ g = Layer(dd, yi)
       /\ Others(dd', xi, yi) = Others(dd, xi, yi)
       /\ \A i \in Vars \ {xi, yi} : Layer(dd', i) = Layer(dd, i)
  BY <1>2, <1>4, <1>10, MovedLayers
<1>13. Control'
  <2>1. newx \in Int
    <3>1. IsFiniteSet(Layer(dd, xi) \ g)
      <4>1. Layer(dd, xi) \ g \subseteq Layer(dd, xi)
        OBVIOUS
      <4> QED BY <4>1, LayerFinite, FS_Subset
    <3>2. Cardinality(Layer(dd, xi) \ g) \in Nat
      BY <3>1, FS_CardinalityType
    <3> QED BY <1>2, <1>11, <3>2
  <2>2. subkeys[l + 1] \in Int /\ g \subseteq Pool
    BY <1>2, <1>7, <1>11, LiveFinite
  <2> HIDE DEF newx, g
  <2>3. sw' \in [xi : Vars, yi : Vars, g : SUBSET Pool, newxkeys : Int, newykeys : Int,
                 back : {"move", "judge", "undone"}]
    <3>1. sw' = [xi |-> xi, yi |-> yi, g |-> g, back |-> back,
                 newxkeys |-> newx, newykeys |-> subkeys[l + 1]]
      BY <1>6 DEF newx
    <3> QED BY <1>2, <2>1, <2>2, <3>1
  <2> QED BY <1>1, <1>2, <1>6, <1>8, <1>9, <2>3 DEF Control
<1>14. Tables'
  <2>1. Exchange(dd', g, Swapped(perm, xi, yi), xi, yi)
    BY <1>1, <1>2, <1>4, <1>10, MovedExchange, PermutesPerm
  <2>2. Table(dd') /\ \A n \in Live(dd') : dd'[n].ref > 0
    <3> HIDE DEF g
    <3> QED BY <1>4, <1>10, MovedSame
  <2>3. Kept(dd', g, xi, yi)
    BY <2>2, CountedKept
  <2>4. <<xi, yi>> \notin interact => g = {}
    BY <1>5
  <2> HIDE DEF g
  <2>5. Exchange(dd', sw'.g, Swapped(perm', sw'.xi, sw'.yi), sw'.xi, sw'.yi)
    BY <1>8, <1>9, <2>1
  <2>6. Kept(dd', sw'.g, sw'.xi, sw'.yi)
    BY <1>8, <2>3
  <2>7. <<sw'.xi, sw'.yi>> \notin interact' =>
           sw'.g = {} /\ \A n \in Live(dd') : dd'[n].ref > 0
    BY <1>8, <1>9, <2>2, <2>4
  <2> QED BY <1>6, <2>5, <2>6, <2>7 DEF Tables, Exchanging
<1>15. HeldIn(dd') /\ \A i \in Vars : Isolated(dd', i) = Isolated(dd, i)
  BY <1>1, <1>2, <1>4, <1>10, MovedHeld
<1>16. Meaning'
  <2>1. Valued(dd', g, xi)
    <3> SUFFICES ASSUME NEW a \in Asgs
                 PROVE  \E v \in SUBSET Pool :
                           /\ Follows(dd', g, xi, a, v)
                           /\ \A e \in External : a \in start.roots[e] <=> Holds(v, e)
      BY DEF Valued
    <3>1. PICK v \in SUBSET Pool :
             /\ Follows(dd, {}, sw.xi, a, v)
             /\ \A e \in External : a \in start.roots[e] <=> Holds(v, e)
      BY <1>1 DEF IInv, Meaning, Valued, NoSwap
    <3>2. Follows(dd', g, xi, a, v)
      BY <1>2, <1>4, <1>10, <3>1, MovedFollows
    <3> QED BY <3>1, <3>2
  <2> HIDE DEF g
  <2>2. HeldIn(dd)'
    BY <1>9, <1>15 DEF HeldIn, Outer
  <2>3. External' = External
    BY <1>9 DEF External
  <2>4. Valued(dd, sw.g, sw.xi)'
    BY <1>8, <1>9, <2>1, <2>3 DEF Valued
  <2> QED BY <1>9, <2>2, <2>3, <2>4 DEF IInv, Meaning
<1>17. Matrix'
  <2>1. Interacts(dd', g, xi, interact)
    BY <1>2, <1>3, <1>4, <1>10, MovedInteracts
  <2> HIDE DEF g
  <2> QED BY <1>8, <1>9, <2>1 DEF Matrix
<1>18. Counts'
  <2>1. RestCounts(dd, perm)
    BY DEF IInv, Counts
  <2>2. newx = Cardinality(Layer(dd', xi))
    <3>1. CASE <<xi, yi>> \in interact
      BY <1>12, <3>1
    <3>2. CASE <<xi, yi>> \notin interact
      <4>1. Layer(dd, xi) \ g = Layer(dd, xi)
        BY <1>5, <3>2
      <4> QED BY <1>11, <1>12, <3>2, <4>1
    <3> QED BY <3>1, <3>2
  <2> HIDE DEF g, newx
  <2>3. sw'.newxkeys = Cardinality(Layer(dd', xi))
        /\ sw'.newykeys = Cardinality(Layer(dd', yi) \ g)
    BY <1>8, <1>11, <1>12, <2>2
  <2>4. \A i \in Vars \ {xi, yi} : subkeys[perm[i]] = Cardinality(Layer(dd', i))
    BY <1>12, <2>1 DEF RestCounts
  <2>5. keys = subkeys[perm[xi]] + subkeys[perm[yi]] + Cardinality(Others(dd', xi, yi)) + 1
    <3>1. /\ Cardinality(Layer(dd, xi)) \in Nat /\ Cardinality(Layer(dd, yi)) \in Nat
          /\ Cardinality(Others(dd, xi, yi)) \in Nat
          /\ Cardinality(Live(dd)) = Cardinality(Layer(dd, xi)) + Cardinality(Layer(dd, yi))
                                       + Cardinality(Others(dd, xi, yi))
      BY <1>2, LiveSplit
    <3>2. keys = Cardinality(Live(dd)) + 1
      BY <2>1 DEF RestCounts
    <3> QED BY <1>2, <1>11, <1>12, <3>1, <3>2
  <2>6. isolated' = IF <<xi, yi>> \in interact THEN IsolatedOf(dd', Vars \ {xi, yi})
                    ELSE IsolatedCount(dd')
    <3>1. isolated = IsolatedCount(dd)
      BY <2>1 DEF RestCounts
    <3>2. /\ IsolatedOf(dd, Vars \ {xi, yi}) \in Nat
          /\ IsolatedCount(dd) = IsolatedOf(dd, Vars \ {xi, yi})
                                   + Isolated(dd, xi) + Isolated(dd, yi)
      BY <1>1, <1>2, <1>4, IsolatedSplit
    <3>3. Isolated(dd, xi) \in Int /\ Isolated(dd, yi) \in Int
      BY <1>1, <1>2, <1>4, IsolatedForm
    <3>4. /\ IsolatedOf(dd', Vars \ {xi, yi}) = IsolatedOf(dd, Vars \ {xi, yi})
          /\ IsolatedCount(dd') = IsolatedCount(dd)
      BY <1>15 DEF IsolatedOf, IsolatedCount
    <3> QED BY <1>6, <3>1, <3>2, <3>3, <3>4
  <2>7. /\ IsolatedOf(dd, Vars \ {sw.xi, sw.yi})' = IsolatedOf(dd', Vars \ {xi, yi})
        /\ IsolatedCount(dd)' = IsolatedCount(dd')
    BY <1>8, <1>9 DEF IsolatedOf, IsolatedCount, Isolated
  <2>8. SwapCounts(dd, sw.g, sw.xi, sw.yi)'
    BY <1>8, <1>9, <2>3, <2>4, <2>5, <2>6, <2>7 DEF SwapCounts
  <2> QED BY <1>6, <2>8 DEF Counts
<1> QED BY <1>13, <1>14, <1>16, <1>17, <1>18 DEF IInv

LEMMA ReExpressStep ==
  ASSUME IInv, ReExpress
  PROVE  IInv'
<1>1. PICK f \in sw.g :
         /\ dd' = ReExpressed(dd, f, sw.xi, sw.yi)
         /\ sw' = [sw EXCEPT !.g = @ \ {f}, !.newykeys = @ + 1,
                      !.newxkeys = @ + Cardinality(Live(dd')) - Cardinality(Live(dd))]
  BY DEF ReExpress
<1>2. /\ pc = "swap" /\ MemoryLeft
      /\ UNCHANGED <<perm, invperm, subkeys, keys, isolated, interact, loop, pc, fixed>>
  BY DEF ReExpress
<1>3. /\ perm' = perm /\ invperm' = invperm /\ subkeys' = subkeys /\ keys' = keys
      /\ isolated' = isolated /\ interact' = interact /\ pc' = pc
      /\ roots' = roots /\ vars' = vars /\ start' = start
      /\ x' = x /\ pass' = pass /\ moves' = moves
  BY <1>2 DEF fixed, loop
<1> DEFINE xi == sw.xi
           yi == sw.yi
           g  == sw.g
           lev == Swapped(perm, xi, yi)
<1>4. /\ Control /\ Exchanging(dd, g, xi, yi) /\ HeldIn(dd) /\ xi \in Vars /\ yi \in Vars
      /\ SwapCounts(dd, g, xi, yi) /\ Interacts(dd, g, xi, interact)
  BY <1>2 DEF IInv, Tables, Meaning, Matrix, Counts, Control
<1>5. Exchange(dd, g, lev, xi, yi) /\ Kept(dd, g, xi, yi) /\ <<xi, yi>> \in interact
  BY <1>4 DEF Exchanging
<1>6. /\ sw' \in [xi : Vars, yi : Vars, g : SUBSET Pool, newxkeys : Int, newykeys : Int,
                  back : {"move", "judge", "undone"}]
      /\ sw'.xi = xi /\ sw'.yi = yi /\ sw'.g = g \ {f} /\ sw'.back = sw.back
      /\ sw'.newykeys = sw.newykeys + 1
      /\ sw'.newxkeys = sw.newxkeys + Cardinality(Live(dd')) - Cardinality(Live(dd))
  <2>1. Cardinality(Live(dd')) \in Nat /\ Cardinality(Live(dd)) \in Nat
    BY LiveFinite, FS_CardinalityType
  <2>2. sw \in [xi : Vars, yi : Vars, g : SUBSET Pool, newxkeys : Int, newykeys : Int,
                back : {"move", "judge", "undone"}]
    BY <1>4 DEF Control
  <2> DEFINE newx == sw.newxkeys + Cardinality(Live(dd')) - Cardinality(Live(dd))
  <2>3. newx \in Int /\ sw.newykeys + 1 \in Int /\ g \ {f} \in SUBSET Pool
    BY <2>1, <2>2
  <2>4. sw' = [sw EXCEPT !.g = g \ {f}, !.newykeys = sw.newykeys + 1, !.newxkeys = newx]
    BY <1>1
  <2> HIDE DEF newx
  <2>5. sw' = [xi |-> sw.xi, yi |-> sw.yi, g |-> g \ {f}, newxkeys |-> newx,
               newykeys |-> sw.newykeys + 1, back |-> sw.back]
    BY <2>2, <2>4
  <2>6. /\ sw'.xi = xi /\ sw'.yi = yi /\ sw'.g = g \ {f} /\ sw'.back = sw.back
        /\ sw'.newykeys = sw.newykeys + 1 /\ sw'.newxkeys = newx
    BY <2>5
  <2>7. sw' \in [xi : Vars, yi : Vars, g : SUBSET Pool, newxkeys : Int, newykeys : Int,
                 back : {"move", "judge", "undone"}]
    BY <2>2, <2>3, <2>5
  <2> QED BY <2>6, <2>7 DEF newx
<1> HIDE DEF xi, yi, g, lev
<1>7. f \in g
  BY DEF g
<1>8. PICK c1, c0 : Rebuilt(dd, dd', f, xi, yi, c1, c0)
  <2>1. xi # yi /\ Chained(dd, f, xi, yi) /\ Table(dd)
    BY <1>5, <1>7, ChainNode DEF Exchange
  <2>2. Cardinality({n \in Pool : dd[n] = NULL}) >= 2
    BY <1>2 DEF MemoryLeft
  <2>3. \E c1, c0 : Rebuilt(dd, ReExpressed(dd, f, xi, yi), f, xi, yi, c1, c0)
    BY <1>4, <2>1, <2>2, ReExpressedEffect
  <2> QED BY <1>1, <2>3 DEF xi, yi
<1>9. Exchange(dd', g \ {f}, lev, xi, yi)
  BY <1>5, <1>7, <1>8, RebuiltExchange
<1>10. Control'
  BY <1>2, <1>3, <1>4, <1>6 DEF Control, xi, yi
<1>11. Tables'
  <2>1. Kept(dd', g \ {f}, xi, yi)
    BY <1>5, <1>7, <1>8, RebuiltKept
  <2>2. Swapped(perm', sw'.xi, sw'.yi) = lev
    BY <1>3, <1>6 DEF lev
  <2>3. Exchange(dd', sw'.g, Swapped(perm', sw'.xi, sw'.yi), sw'.xi, sw'.yi)
    BY <1>6, <1>9, <2>2
  <2>4. Kept(dd', sw'.g, sw'.xi, sw'.yi) /\ <<sw'.xi, sw'.yi>> \in interact'
    BY <1>3, <1>5, <1>6, <2>1
  <2> QED BY <1>2, <1>3, <2>3, <2>4 DEF Tables, Exchanging
<1>12. /\ HeldIn(dd')
       /\ \A i \in Vars \ {xi, yi} : Isolated(dd', i) = 1 <=> Isolated(dd, i) = 1
  BY <1>4, <1>5, <1>7, <1>8, RebuiltHeld
<1>13. Meaning'
  <2>1. \A e \in External : e \in KnownEdges(dd)
    <3>1. \A i \in Vars : <<vars[i], FALSE>> \in KnownEdges(dd)
      BY <1>4 DEF HeldIn, KnownEdges, Known
    <3> QED BY <1>4, <3>1 DEF External, HeldIn
  <2>2. Valued(dd', g \ {f}, xi)
    <3> SUFFICES ASSUME NEW a \in Asgs
                 PROVE  \E v \in SUBSET Pool :
                           /\ Follows(dd', g \ {f}, xi, a, v)
                           /\ \A e \in External : a \in start.roots[e] <=> Holds(v, e)
      BY DEF Valued
    <3>1. PICK v \in SUBSET Pool :
             /\ Follows(dd, g, xi, a, v)
             /\ \A e \in External : a \in start.roots[e] <=> Holds(v, e)
      BY DEF IInv, Meaning, Valued, g, xi
    <3>2. PICK w \in SUBSET Pool : /\ Follows(dd', g \ {f}, xi, a, w)
                                   /\ \A e \in KnownEdges(dd) : Holds(w, e) <=> Holds(v, e)
      BY <1>5, <1>7, <1>8, <3>1, RebuiltFollows
    <3> QED BY <2>1, <3>1, <3>2
  <2>3. HeldIn(dd)'
    BY <1>3, <1>12 DEF HeldIn, Outer
  <2>4. External' = External
    BY <1>3 DEF External
  <2>5. Valued(dd, sw.g, sw.xi)'
    BY <1>3, <1>6, <2>2, <2>4 DEF Valued
  <2> QED BY <1>3, <2>3, <2>4, <2>5 DEF IInv, Meaning
<1>14. Matrix'
  <2>1. Interacts(dd', g \ {f}, xi, interact)
    BY <1>4, <1>5, <1>7, <1>8, RebuiltInteracts
  <2> QED BY <1>3, <1>6, <2>1 DEF Matrix
<1>15. Counts'
  <2>1. /\ Cardinality(Layer(dd', yi) \ (g \ {f})) = Cardinality(Layer(dd, yi) \ g) + 1
        /\ Cardinality(Layer(dd', xi)) = Cardinality(Layer(dd, xi)) + Cardinality(Live(dd'))
                                            - Cardinality(Live(dd))
        /\ Others(dd', xi, yi) = Others(dd, xi, yi)
        /\ \A i \in Vars \ {xi, yi} : Layer(dd', i) = Layer(dd, i)
    <3>1. LayersRebuilt(dd, dd', g, f, xi, yi)
      BY <1>5, <1>7, <1>8, RebuiltLayers
    <3> QED BY <3>1 DEF LayersRebuilt
  <2>2. /\ sw.newxkeys = Cardinality(Layer(dd, xi))
        /\ sw.newykeys = Cardinality(Layer(dd, yi) \ g)
        /\ \A i \in Vars \ {xi, yi} : subkeys[perm[i]] = Cardinality(Layer(dd, i))
        /\ keys = subkeys[perm[xi]] + subkeys[perm[yi]]
                    + Cardinality(Others(dd, xi, yi)) + 1
        /\ isolated = IsolatedOf(dd, Vars \ {xi, yi})
    BY <1>4, <1>5 DEF SwapCounts
  <2>3. IsolatedOf(dd', Vars \ {xi, yi}) = IsolatedOf(dd, Vars \ {xi, yi})
    <3>1. {i \in Vars \ {xi, yi} : Isolated(dd', i) = 1}
             = {i \in Vars \ {xi, yi} : Isolated(dd, i) = 1}
      BY <1>12
    <3> QED BY <3>1 DEF IsolatedOf
  <2>4. IsolatedOf(dd, Vars \ {sw.xi, sw.yi})' = IsolatedOf(dd', Vars \ {xi, yi})
    <3>1. sw'.xi = xi /\ sw'.yi = yi /\ vars' = vars
      BY <1>3, <1>6
    <3> QED BY <3>1 DEF IsolatedOf, Isolated
  <2>5. /\ sw'.newxkeys = Cardinality(Layer(dd', xi))
        /\ sw'.newykeys = Cardinality(Layer(dd', yi) \ (g \ {f}))
    BY <1>6, <2>1, <2>2
  <2>6. SwapCounts(dd, sw.g, sw.xi, sw.yi)'
    BY <1>3, <1>5, <1>6, <2>1, <2>2, <2>3, <2>4, <2>5 DEF SwapCounts
  <2> QED BY <1>2, <1>3, <2>6 DEF Counts
<1> QED BY <1>10, <1>11, <1>13, <1>14, <1>15 DEF IInv

LEMMA CollectedCleared ==
  ASSUME Table(dd), NEW dead \in SUBSET Live(dd)
  PROVE  Cleared(dd, Collected(dead), dead)
<1> DEFINE d2 == Collected(dead)
<1>1. ASSUME NEW n PROVE RefsFrom(dead, n) \in Nat
  <2> DEFINE P == {f \in dead : dd[f].T = n}
             Q == {f \in dead : dd[f].E[1] = n}
  <2>1. P \subseteq Live(dd) /\ Q \subseteq Live(dd)
    OBVIOUS
  <2>2. Cardinality(P) \in Nat /\ Cardinality(Q) \in Nat
    <3> HIDE DEF P, Q
    <3> QED BY <2>1, LiveFinite, FS_Subset, FS_CardinalityType
  <2>3. RefsFrom(dead, n) = Cardinality(P) + Cardinality(Q)
    BY DEF RefsFrom
  <2> HIDE DEF P, Q
  <2> QED BY <2>2, <2>3
<1>2. dd \in [Pool -> Records(Int) \cup {NULL}] /\ NULL \notin Records(Int)
  BY BddAssumption DEF Table
<1> DEFINE rec(n) == [dd[n] EXCEPT !.ref = @ - RefsFrom(dead, n)]
<1>3. ASSUME NEW n \in Live(dd)
      PROVE  /\ rec(n) \in Records(Int) /\ rec(n) # NULL
             /\ rec(n).index = dd[n].index /\ rec(n).T = dd[n].T /\ rec(n).E = dd[n].E
             /\ rec(n).ref = dd[n].ref - RefsFrom(dead, n)
  <2>1. n \in Pool /\ dd[n] \in Records(Int) /\ RefsFrom(dead, n) \in Int
    BY <1>1, LiveType
  <2> DEFINE k == RefsFrom(dead, n)
  <2> HIDE DEF k
  <2>2. [dd[n] EXCEPT !.ref = @ - k] = [index |-> dd[n].index, T |-> dd[n].T, E |-> dd[n].E,
                                        ref |-> dd[n].ref - k]
        /\ dd[n].ref - k \in Int
    BY <2>1 DEF Records, k
  <2>3. [dd[n] EXCEPT !.ref = @ - k] \in Records(Int)
    BY <2>1, <2>2 DEF Records
  <2>4. /\ [dd[n] EXCEPT !.ref = @ - k].index = dd[n].index
        /\ [dd[n] EXCEPT !.ref = @ - k].T = dd[n].T /\ [dd[n] EXCEPT !.ref = @ - k].E = dd[n].E
        /\ [dd[n] EXCEPT !.ref = @ - k].ref = dd[n].ref - k
    BY <2>2
  <2> QED BY <1>2, <2>3, <2>4 DEF k
<1>4. d2 = [n \in Pool |-> IF n \in dead \/ dd[n] = NULL THEN NULL ELSE rec(n)]
  BY DEF Collected
<1> HIDE DEF rec, d2
<1>5. \A n \in Pool : IF n \in Live(dd) \ dead THEN d2[n] = rec(n) ELSE d2[n] = NULL
  BY <1>4 DEF Live
<1>6. Live(d2) = Live(dd) \ dead
  BY <1>3, <1>5 DEF Live
<1>7. d2 \in [Pool -> Records(Int) \cup {NULL}]
  <2>1. \A n \in Pool : (IF n \in dead \/ dd[n] = NULL THEN NULL ELSE rec(n))
                           \in Records(Int) \cup {NULL}
    BY <1>3 DEF Live
  <2> QED BY <1>4, <2>1
<1>8. ASSUME NEW n \in Live(d2)
      PROVE  /\ d2[n].index = dd[n].index /\ d2[n].T = dd[n].T /\ d2[n].E = dd[n].E
             /\ d2[n].ref = dd[n].ref - (Cardinality({f \in dead : dd[f].T = n})
                                           + Cardinality({f \in dead : dd[f].E[1] = n}))
  <2>1. n \in Live(dd) /\ n \in Pool /\ d2[n] = rec(n)
    BY <1>5, <1>6, LiveFinite
  <2> QED BY <1>3, <2>1 DEF RefsFrom
<1> QED BY <1>6, <1>7, <1>8 DEF Cleared, d2

\* The two levels change places in both arrays.
ArraysSwapped(p, q, xi, yi, l) ==
    /\ [perm EXCEPT ![xi] = l + 1, ![yi] = l] = p /\ p \in [Vars -> Vars]
    /\ [invperm EXCEPT ![l] = yi, ![l + 1] = xi] = q /\ q \in [Vars -> Vars]
    /\ l \in Vars /\ l + 1 \in Vars /\ l # l + 1
    /\ \A k \in Vars : p[q[k]] = k /\ q[p[k]] = k

LEMMA SwappedInverse ==
  ASSUME Control, NEW xi \in Vars, NEW yi \in Vars, perm[yi] = perm[xi] + 1, NEW l, l = perm[xi]
  PROVE  \E q : ArraysSwapped(Swapped(perm, xi, yi), q, xi, yi, l)
<1>1. /\ perm \in [Vars -> Vars] /\ invperm \in [Vars -> Vars]
      /\ \A k \in Vars : perm[invperm[k]] = k /\ invperm[perm[k]] = k
  BY DEF Control
<1>2. l \in Vars /\ l + 1 \in Vars /\ l # l + 1 /\ perm[yi] = l + 1 /\ xi # yi
  BY <1>1 DEF Vars
<1> DEFINE p == Swapped(perm, xi, yi)
           q == [invperm EXCEPT ![l] = yi, ![l + 1] = xi]
<1>3. p = [perm EXCEPT ![xi] = l + 1, ![yi] = l] /\ p \in [Vars -> Vars]
  BY <1>1, <1>2 DEF Swapped
<1>4. p[xi] = l + 1 /\ p[yi] = l /\ \A i \in Vars : i # xi /\ i # yi => p[i] = perm[i]
  BY <1>1, <1>2 DEF Swapped
<1>5. q \in [Vars -> Vars] /\ q[l] = yi /\ q[l + 1] = xi
      /\ \A k \in Vars : k # l /\ k # l + 1 => q[k] = invperm[k]
  BY <1>1, <1>2
<1> HIDE DEF p, q
<1>6. ASSUME NEW k \in Vars PROVE p[q[k]] = k
  <2>1. CASE k = l \/ k = l + 1
    BY <1>2, <1>4, <1>5, <2>1
  <2>2. CASE k # l /\ k # l + 1
    <3>1. q[k] = invperm[k] /\ invperm[k] # xi /\ invperm[k] # yi
      BY <1>1, <1>2, <1>5, <2>2
    <3> QED BY <1>1, <1>4, <3>1
  <2> QED BY <2>1, <2>2
<1>7. ASSUME NEW k \in Vars PROVE q[p[k]] = k
  <2>1. CASE k = xi \/ k = yi
    BY <1>2, <1>4, <1>5, <2>1
  <2>2. CASE k # xi /\ k # yi
    <3>1. p[k] = perm[k] /\ perm[k] \in Vars /\ perm[k] # l /\ perm[k] # l + 1
      BY <1>1, <1>2, <1>4, <2>2
    <3> QED BY <1>1, <1>5, <3>1
  <2> QED BY <2>1, <2>2
<1>8. ArraysSwapped(p, q, xi, yi, l)
  BY <1>2, <1>3, <1>5, <1>6, <1>7 DEF ArraysSwapped, q
<1> QED BY <1>8 DEF p

LEMMA EndSwapStep ==
  ASSUME IInv, EndSwap
  PROVE  IInv'
<1> DEFINE xi == sw.xi
           yi == sw.yi
           l  == perm[xi]
           lev == Swapped(perm, xi, yi)
           touched == <<xi, yi>> \in interact
           dead == IF touched THEN {f \in Layer(dd, yi) : dd[f].ref = 0} ELSE {}
           newy == sw.newykeys - Cardinality(dead)
<1>1. /\ pc = "swap" /\ sw.g = {} /\ dd' = Collected(dead)
      /\ isolated' = IF touched THEN isolated + Isolated(dd', xi) + Isolated(dd', yi)
                     ELSE isolated
      /\ perm' = [perm EXCEPT ![xi] = l + 1, ![yi] = l]
      /\ invperm' = [invperm EXCEPT ![l] = yi, ![l + 1] = xi]
      /\ subkeys' = [subkeys EXCEPT ![l] = newy, ![l + 1] = sw.newxkeys]
      /\ keys' = keys + sw.newxkeys + newy - subkeys[l] - subkeys[l + 1]
      /\ pc' = sw.back /\ sw' = NoSwap
      /\ UNCHANGED <<x, pass, moves, interact, fixed>>
  BY DEF EndSwap
<1>2. /\ interact' = interact /\ roots' = roots /\ vars' = vars /\ start' = start
      /\ x' = x /\ pass' = pass /\ moves' = moves
  BY <1>1 DEF fixed
<1>3. /\ Control /\ HeldIn(dd) /\ xi \in Vars /\ yi \in Vars /\ perm[yi] = perm[xi] + 1
      /\ sw.back \in {"move", "judge", "undone"} /\ (sw.back # "move" => x < High)
  BY <1>1 DEF IInv, Meaning, Control
<1>4. /\ Exchanging(dd, {}, xi, yi) /\ SwapCounts(dd, {}, xi, yi)
      /\ Interacts(dd, {}, xi, interact) /\ Valued(dd, {}, xi)
  BY <1>1 DEF IInv, Tables, Matrix, Counts, Meaning
<1> HIDE DEF xi, yi, lev
<1>5. Exchange(dd, {}, lev, xi, yi) /\ Kept(dd, {}, xi, yi) /\ Table(dd)
  BY <1>4 DEF Exchanging, Exchange, lev
<1>6. dead = {f \in Layer(dd, yi) : dd[f].ref = 0}
  <2>1. CASE touched
    BY <2>1
  <2>2. CASE ~touched
    <3>1. \A f \in Layer(dd, yi) : dd[f].ref > 0
      BY <1>4, <2>2 DEF Exchanging, Layer
    <3> QED BY <2>2, <3>1
  <2> QED BY <2>1, <2>2
<1>7. dead \in SUBSET Layer(dd, yi) /\ dead \in SUBSET Live(dd)
  BY <1>6 DEF Layer
<1> HIDE DEF dead
<1>8. Cleared(dd, dd', dead)
  BY <1>1, <1>5, <1>7, CollectedCleared
<1>9. /\ Table(dd') /\ Ordered(dd', {}, lev) /\ Reduced(dd', {}) /\ HeldIn(dd')
      /\ \A n \in Live(dd') : dd'[n].ref > 0
      /\ \A i \in Vars : Isolated(dd', i) = 1 <=> Isolated(dd, i) = 1
  BY <1>3, <1>5, <1>6, <1>8, ClearedHeld
<1>10. /\ perm' = lev /\ lev \in [Vars -> Vars] /\ invperm' \in [Vars -> Vars]
       /\ \A k \in Vars : lev[invperm'[k]] = k /\ invperm'[lev[k]] = k
       /\ l \in Vars /\ l + 1 \in Vars /\ l # l + 1
  <2>1. PICK q : ArraysSwapped(lev, q, xi, yi, l)
    BY <1>3, SwappedInverse DEF lev
  <2>2. perm' = lev /\ invperm' = q
    BY <1>1, <2>1 DEF ArraysSwapped
  <2> HIDE DEF l
  <2> QED BY <2>1, <2>2 DEF ArraysSwapped
<1>11. xi # yi /\ lev[xi] = l + 1 /\ lev[yi] = l
       /\ \A i \in Vars \ {xi, yi} : lev[i] = perm[i]
  BY <1>3, PermutesPerm, SwappedOrder DEF lev
<1>12. /\ Layer(dd', xi) = Layer(dd, xi) /\ Others(dd', xi, yi) = Others(dd, xi, yi)
       /\ Cardinality(Layer(dd', yi)) = Cardinality(Layer(dd, yi)) - Cardinality(dead)
       /\ \A i \in Vars \ {xi, yi} : Layer(dd', i) = Layer(dd, i)
  <2>1. LayersCleared(dd, dd', dead, xi, yi)
    BY <1>7, <1>8, <1>11, ClearedLayers
  <2> QED BY <2>1 DEF LayersCleared
<1>13. /\ sw.newxkeys = Cardinality(Layer(dd, xi))
       /\ sw.newykeys = Cardinality(Layer(dd, yi))
       /\ \A i \in Vars \ {xi, yi} : subkeys[perm[i]] = Cardinality(Layer(dd, i))
       /\ keys = subkeys[perm[xi]] + subkeys[perm[yi]]
                   + Cardinality(Others(dd, xi, yi)) + 1
       /\ isolated = IF touched THEN IsolatedOf(dd, Vars \ {xi, yi}) ELSE IsolatedCount(dd)
  <2>1. Layer(dd, yi) \ {} = Layer(dd, yi)
    OBVIOUS
  <2> QED BY <1>4, <2>1 DEF SwapCounts
<1>14. sw.newxkeys = Cardinality(Layer(dd', xi)) /\ newy = Cardinality(Layer(dd', yi))
  BY <1>12, <1>13
<1>15. subkeys' \in [Vars -> Nat] /\ subkeys'[l] = newy /\ subkeys'[l + 1] = sw.newxkeys
       /\ \A k \in Vars : k # l /\ k # l + 1 => subkeys'[k] = subkeys[k]
  <2>1. newy \in Nat /\ sw.newxkeys \in Nat
    BY <1>14, LayerFinite
  <2>2. subkeys \in [Vars -> Nat]
    BY <1>3 DEF Control
  <2> HIDE DEF newy, l
  <2> QED BY <1>1, <1>10, <2>1, <2>2
<1> HIDE DEF newy, l
<1>16. Control'
  <2>1. /\ perm' \in [Vars -> Vars] /\ invperm' \in [Vars -> Vars]
        /\ \A k \in Vars : perm'[invperm'[k]] = k /\ invperm'[perm'[k]] = k
    BY <1>10
  <2>2. sw' \in [xi : Vars, yi : Vars, g : SUBSET Pool, newxkeys : Int, newykeys : Int,
                 back : {"move", "judge", "undone"}]
    <3>1. 0 \in Vars
      BY BddAssumption DEF Vars
    <3> QED BY <1>1, <3>1 DEF NoSwap
  <2>3. pass < Passes
    BY <1>1, <1>3 DEF Control
  <2> QED BY <1>1, <1>2, <1>3, <1>15, <2>1, <2>2, <2>3, SMTT(30) DEF Control
<1>17. pc' # "swap" /\ pc' \notin {"call", "done"}
  BY <1>1, <1>3
<1>18. Tables'
  BY <1>9, <1>10, <1>17 DEF Tables, Settled
<1>19. Meaning'
  <2>1. Valued(dd', {}, sw'.xi)
    <3> SUFFICES ASSUME NEW a \in Asgs
                 PROVE  \E v \in SUBSET Pool :
                           /\ Follows(dd', {}, sw'.xi, a, v)
                           /\ \A e \in External : a \in start.roots[e] <=> Holds(v, e)
      BY DEF Valued
    <3>1. PICK v \in SUBSET Pool :
             /\ Follows(dd, {}, xi, a, v)
             /\ \A e \in External : a \in start.roots[e] <=> Holds(v, e)
      BY <1>4 DEF Valued
    <3>2. Follows(dd', {}, sw'.xi, a, v)
      BY <1>8, <3>1, ClearedFollows
    <3> QED BY <3>1, <3>2
  <2>2. HeldIn(dd)'
    BY <1>2, <1>9 DEF HeldIn, Outer
  <2>3. External' = External
    BY <1>2 DEF External
  <2>4. sw'.g = {}
    BY <1>1 DEF NoSwap
  <2>5. Valued(dd, sw.g, sw.xi)'
    BY <1>2, <2>1, <2>3, <2>4 DEF Valued
  <2> QED BY <1>2, <2>2, <2>3, <2>5 DEF IInv, Meaning
<1>20. Matrix'
  <2>1. Interacts(dd', {}, sw'.xi, interact)
    BY <1>4, <1>5, <1>8, <1>9, ClearedInteracts
  <2>2. sw'.g = {}
    BY <1>1 DEF NoSwap
  <2> QED BY <1>2, <2>1, <2>2 DEF Matrix
<1>21. Counts'
  <2>1. ASSUME NEW i \in Vars PROVE subkeys'[lev[i]] = Cardinality(Layer(dd', i))
    <3>1. CASE i = xi
      BY <1>11, <1>14, <1>15, <3>1
    <3>2. CASE i = yi
      BY <1>11, <1>14, <1>15, <3>2
    <3>3. CASE i # xi /\ i # yi
      <4>1. perm[i] \in Vars /\ lev[i] = perm[i] /\ lev[i] # lev[xi] /\ lev[i] # lev[yi]
        BY <1>3, <1>10, <1>11, <3>3 DEF Control
      <4>2. subkeys'[lev[i]] = subkeys[perm[i]]
        BY <1>11, <1>15, <4>1
      <4> QED BY <1>12, <1>13, <3>3, <4>2
    <3> QED BY <3>1, <3>2, <3>3
  <2>2. keys' = Cardinality(Live(dd')) + 1
    <3>1. /\ Cardinality(Layer(dd', xi)) \in Nat /\ Cardinality(Layer(dd', yi)) \in Nat
          /\ Cardinality(Others(dd', xi, yi)) \in Nat
          /\ Cardinality(Live(dd')) = Cardinality(Layer(dd', xi)) + Cardinality(Layer(dd', yi))
                                        + Cardinality(Others(dd', xi, yi))
      BY <1>11, LiveSplit
    <3>2. keys = subkeys[l] + subkeys[l + 1] + Cardinality(Others(dd', xi, yi)) + 1
      BY <1>3, <1>12, <1>13 DEF l
    <3>3. subkeys[l] \in Int /\ subkeys[l + 1] \in Int
      BY <1>3, <1>10 DEF Control
    <3> QED BY <1>1, <1>14, <3>1, <3>2, <3>3
  <2>3. isolated' = IsolatedCount(dd')
    <3>1. {i \in Vars : Isolated(dd', i) = 1} = {i \in Vars : Isolated(dd, i) = 1}
          /\ {i \in Vars \ {xi, yi} : Isolated(dd', i) = 1}
                = {i \in Vars \ {xi, yi} : Isolated(dd, i) = 1}
      BY <1>9
    <3>2. /\ IsolatedCount(dd') = IsolatedCount(dd)
          /\ IsolatedOf(dd', Vars \ {xi, yi}) = IsolatedOf(dd, Vars \ {xi, yi})
      BY <3>1 DEF IsolatedCount, IsolatedOf
    <3>3. IsolatedCount(dd') = IsolatedOf(dd', Vars \ {xi, yi})
                                 + Isolated(dd', xi) + Isolated(dd', yi)
      BY <1>3, <1>9, <1>11, IsolatedSplit
    <3>4. CASE touched
      BY <1>1, <1>13, <3>2, <3>3, <3>4
    <3>5. CASE ~touched
      BY <1>1, <1>13, <3>2, <3>5
    <3> QED BY <3>4, <3>5
  <2>4. IsolatedCount(dd)' = IsolatedCount(dd')
    BY <1>2 DEF IsolatedCount, Isolated
  <2>5. RestCounts(dd, perm)'
    BY <1>10, <2>1, <2>2, <2>3, <2>4 DEF RestCounts
  <2> QED BY <1>17, <2>5 DEF Counts
<1> QED BY <1>16, <1>18, <1>19, <1>20, <1>21 DEF IInv

LEMMA NextInv ==
  ASSUME IInv, [Next]_bddvars
  PROVE  IInv'
<1>1. CASE ReduceHeap
  BY <1>1, ReduceHeapStep
<1>2. CASE ReExpress
  BY <1>2, ReExpressStep
<1>3. CASE EndSwap
  BY <1>3, EndSwapStep
<1> USE BddAssumption DEF High
<1>4. CASE TryWindow
  <2>1. pc = "move" /\ x < High /\ BeginSwap(x, "judge") /\ UNCHANGED <<x, pass, moves>>
    BY <1>4 DEF TryWindow
  <2>2. x \in 0 .. High - 1 /\ moves' \in 0 .. Moves
    BY <2>1 DEF IInv, Control
  <2> QED BY <2>1, <2>2, BeginSwapStep
<1>5. CASE UndoWindow
  <2>1. pc = "judge" /\ BeginSwap(x, "undone") /\ UNCHANGED <<x, pass, moves>>
    BY <1>5 DEF UndoWindow, loop
  <2>2. x \in 0 .. High - 1 /\ moves' \in 0 .. Moves /\ x < High
    BY <2>1 DEF IInv, Control
  <2> QED BY <2>1, <2>2, BeginSwapStep
<1>6. CASE NextWindow
  BY <1>6, NextWindowStep
<1>7. CASE OtherMove
  <2>1. PICK l \in 0 .. High - 1 : BeginSwap(l, "move")
    BY <1>7 DEF OtherMove
  <2>2. pc = "move" /\ moves < Moves /\ moves' = moves + 1 /\ UNCHANGED <<x, pass>>
    BY <1>7 DEF OtherMove
  <2>3. moves' \in 0 .. Moves
    BY <2>2 DEF IInv, Control
  <2> QED BY <2>1, <2>2, <2>3, BeginSwapStep
<1>8. CASE EndPass
  BY <1>8, EndPassStep
<1>9. CASE Return
  BY <1>9, ReturnStep
<1>10. CASE UNCHANGED bddvars
  BY <1>10, StutterStep
<1> QED BY <1>1, <1>2, <1>3, <1>4, <1>5, <1>6, <1>7, <1>8, <1>9, <1>10 DEF Next

LEMMA SpecInv == Spec => []IInv
BY InitInv, NextInv, PTL DEF Spec

-----------------------------------------------------------------------------
(* Theorems.                                                                *)

LEMMA TableNow ==
  ASSUME IInv
  PROVE  /\ Table(dd) /\ HeldIn(dd) /\ Reduced(dd, sw.g)
         /\ pc # "swap" => sw.g = {} /\ Ordered(dd, {}, perm) /\ perm \in [Vars -> Vars]
                           /\ \A n \in Live(dd) : dd[n].ref > 0
<1>1. HeldIn(dd)
  BY DEF IInv, Meaning
<1>2. CASE pc = "swap"
  BY <1>1, <1>2 DEF IInv, Tables, Exchanging, Exchange
<1>3. CASE pc # "swap"
  BY <1>1, <1>3 DEF IInv, Tables, Settled, Control, NoSwap
<1> QED BY <1>2, <1>3

\* The variables hold what the code declares for them, whatever tables the command
\* starts from, through every exchange: no count goes below zero, and no counter
\* of levels, of passes or of exchanges leaves its range (cuddSwapInPlace).
THEOREM ReorderTypeOK == Spec => []TypeOK
<1>1. ASSUME IInv PROVE TypeOK
  <2>1. Table(dd) /\ HeldIn(dd) /\ Control
    BY <1>1, TableNow DEF IInv
  <2>2. dd \in [Pool -> Records(Nat) \cup {NULL}]
    <3>1. dd \in [Pool -> Records(Int) \cup {NULL}]
      BY <2>1 DEF Table
    <3>2. ASSUME NEW n \in Pool, dd[n] # NULL PROVE dd[n] \in Records(Nat)
      <4>1. n \in Live(dd) /\ dd[n] \in Records(Int)
        BY <3>1, <3>2 DEF Live
      <4>2. RefsIn(dd, n) \in Nat /\ Outer(n) \in Nat /\ Excess(dd, n) = Outer(n)
        BY <2>1, <4>1, RefsInNat, OuterNat DEF HeldIn
      <4>3. dd[n].ref \in Int /\ dd[n].ref - RefsIn(dd, n) = Outer(n)
        BY <4>1, <4>2 DEF Records, Excess
      <4>4. dd[n].ref \in Nat
        BY <4>2, <4>3
      <4> QED BY <4>1, <4>4 DEF Records
    <3> QED BY <3>1, <3>2
  <2>3. roots \subseteq Edges /\ vars \in [Vars -> Pool]
    <3>1. Live(dd) \subseteq Pool
      BY LiveFinite
    <3>2. KnownEdges(dd) \subseteq Edges
      BY <3>1 DEF KnownEdges, Known, Edges
    <3> QED BY <2>1, <3>1, <3>2 DEF HeldIn
  <2>4. ASSUME NEW S \in SUBSET Vars PROVE IsolatedOf(dd, S) \in 0 .. N
    <3> DEFINE P == {i \in S : Isolated(dd, i) = 1}
    <3>1. P \in SUBSET Vars /\ N \in Nat
      BY BddAssumption
    <3> HIDE DEF P
    <3>2. IsFiniteSet(P) /\ Cardinality(P) <= Cardinality(Vars)
      BY <3>1, VarsFinite, FS_Subset
    <3>3. Cardinality(P) \in 0 .. N
      BY <3>1, <3>2, VarsFinite, FS_CardinalityType
    <3> QED BY <3>3 DEF IsolatedOf, P
  <2>5. keys \in Nat /\ isolated \in 0 .. N
    <3>1. IsolatedCount(dd) = IsolatedOf(dd, Vars)
      BY DEF IsolatedCount, IsolatedOf
    <3>2. CASE pc = "swap"
      <4>1. SwapCounts(dd, sw.g, sw.xi, sw.yi)
        BY <1>1, <3>2 DEF IInv, Counts
      <4>2. /\ subkeys[perm[sw.xi]] \in Nat /\ subkeys[perm[sw.yi]] \in Nat
            /\ sw.xi # sw.yi
        <5>1. /\ sw.xi \in Vars /\ sw.yi \in Vars /\ perm[sw.yi] = perm[sw.xi] + 1
              /\ perm \in [Vars -> Vars] /\ subkeys \in [Vars -> Nat]
          BY <2>1, <3>2 DEF Control
        <5>2. perm[sw.xi] \in Int
          BY <5>1 DEF Vars
        <5> QED BY <5>1, <5>2
      <4>3. Cardinality(Others(dd, sw.xi, sw.yi)) \in Nat
        BY <4>2, LiveSplit
      <4>4. keys = subkeys[perm[sw.xi]] + subkeys[perm[sw.yi]]
                     + Cardinality(Others(dd, sw.xi, sw.yi)) + 1
        BY <4>1 DEF SwapCounts
      <4>5. isolated \in 0 .. N
        BY <2>4, <3>1, <4>1 DEF SwapCounts
      <4> QED BY <4>2, <4>3, <4>4, <4>5
    <3>3. CASE pc # "swap"
      <4>1. keys = Cardinality(Live(dd)) + 1 /\ isolated = IsolatedCount(dd)
        BY <1>1, <3>3 DEF IInv, Counts, RestCounts
      <4>2. Cardinality(Live(dd)) \in Nat
        BY LiveFinite, FS_CardinalityType
      <4> QED BY <2>4, <3>1, <4>1, <4>2
    <3> QED BY <3>2, <3>3
  <2> QED BY <2>1, <2>2, <2>3, <2>5 DEF Control, TypeOK
<1> QED BY <1>1, SpecInv, PTL

\* Exchanging levels never loses or leaks a reference: in every state, the middle
\* of an exchange included, the count of each node is that of the edges which lead
\* to it, and between exchanges no dead node is left (cuddReorder.c:754).
THEOREM ReorderRefsExact == Spec => []RefsExact
<1>1. ASSUME IInv PROVE RefsExact
  <2> SUFFICES ASSUME NEW n \in Live(dd)
               PROVE  /\ dd[n].ref = RefsFrom(Live(dd), n)
                                       + Cardinality({e \in roots : e[1] = n})
                                       + Cardinality({i \in Vars : vars[i] = n})
                      /\ AtRest => dd[n].ref > 0
    BY DEF RefsExact
  <2>1. Table(dd) /\ HeldIn(dd)
    BY <1>1, TableNow
  <2>2. AtRest => dd[n].ref > 0
    BY <1>1, TableNow DEF AtRest
  <2> DEFINE P == Cardinality({e \in roots : e[1] = n})
             Q == Cardinality({i \in Vars : vars[i] = n})
  <2>3. RefsFrom(Live(dd), n) = RefsIn(dd, n) /\ Outer(n) = P + Q
    BY DEF RefsFrom, RefsIn, Outer
  <2>4. P \in Nat /\ Q \in Nat
    <3> DEFINE R == {e \in roots : e[1] = n}
               U == {i \in Vars : vars[i] = n}
    <3>1. R \subseteq Known(dd) \X BOOLEAN /\ U \subseteq Vars
      BY <2>1 DEF HeldIn, KnownEdges
    <3>2. IsFiniteSet(Known(dd) \X BOOLEAN)
      BY KnownFinite
    <3> HIDE DEF R, U
    <3>3. Cardinality(R) \in Nat /\ Cardinality(U) \in Nat
      BY <3>1, <3>2, VarsFinite, FS_Subset, FS_CardinalityType
    <3> QED BY <3>3 DEF R, U
  <2>5. Excess(dd, n) = Outer(n) /\ dd[n].ref \in Int /\ RefsIn(dd, n) \in Nat
    BY <2>1, LiveType, RefsInNat DEF HeldIn
  <2> HIDE DEF P, Q
  <2>6. dd[n].ref = RefsIn(dd, n) + P + Q
    BY <2>3, <2>4, <2>5 DEF Excess
  <2> QED BY <2>2, <2>3, <2>6 DEF P, Q
<1> QED BY <1>1, SpecInv, PTL

\* The comment the exchange relies on to insert nodes without looking them up
\* ("Because of the uniqueness of the cofactors", cuddReorder.c:1089) is right: no
\* two nodes of the table are ever the same function in two places, and between
\* exchanges the order is that of the levels.
THEOREM ReorderCanonical == Spec => []Canonical
<1>1. ASSUME IInv PROVE Canonical
  <2>1. Table(dd) /\ Reduced(dd, sw.g)
    BY <1>1, TableNow
  <2>2. AtRest => /\ sw.g = {}
                  /\ \A n \in Live(dd) : \A c \in Children(dd, n) :
                        c \in Live(dd) /\ perm[dd[n].index] < perm[dd[c].index]
    <3>1. AtRest => sw.g = {} /\ Ordered(dd, {}, perm)
      BY <1>1, TableNow DEF AtRest
    <3> QED BY <2>1, <3>1 DEF Table, Ordered
  <2> QED BY <2>1, <2>2 DEF Canonical, Reduced
<1> QED BY <1>1, SpecInv, PTL

\* window2 decides by keys and isolated, which every exchange only corrects by
\* what it did to the two levels: between exchanges they are those of the table.
THEOREM ReorderCountsExact == Spec => []CountsExact
<1>1. ASSUME IInv PROVE CountsExact
  <2> SUFFICES ASSUME AtRest
               PROVE  /\ keys = Cardinality(Live(dd)) + 1 /\ isolated = IsolatedCount(dd)
                      /\ \A l \in Vars : /\ subkeys[l] = Cardinality(Layer(dd, invperm[l]))
                                         /\ perm[invperm[l]] = l
    BY DEF CountsExact
  <2>1. RestCounts(dd, perm) /\ Control
    BY <1>1 DEF IInv, Counts, AtRest
  <2>2. \A l \in Vars : perm[invperm[l]] = l /\ invperm[l] \in Vars
    BY <2>1 DEF Control
  <2> QED BY <2>1, <2>2 DEF RestCounts
<1> QED BY <1>1, SpecInv, PTL

\* The interaction matrix is computed once a pass, and the tables change under it:
\* still no node ever depends on two variables it calls independent, which is what
\* lets cuddSwapInPlace leave such levels alone.
THEOREM ReorderInteractSound == Spec => []InteractSound
<1>1. ASSUME IInv PROVE InteractSound
  <2> SUFFICES ASSUME pc \in {"move", "judge", "undone"}, NEW n \in Live(dd)
               PROVE  Support(dd, n) \X Support(dd, n) \subseteq interact
    BY DEF InteractSound
  <2>1. Table(dd) /\ Ordered(dd, {}, perm) /\ perm \in [Vars -> Vars] /\ sw.g = {}
    BY <1>1, TableNow
  <2>2. Interacts(dd, {}, sw.xi, interact)
    BY <1>1, <2>1 DEF IInv, Matrix
  <2>3. PICK W \in [Pool -> SUBSET Vars] :
           Supports(dd, {}, sw.xi, W) /\ W[n] \X W[n] \subseteq interact
    BY <2>2 DEF Interacts
  <2>4. Support(dd, n) \subseteq W[n]
    BY <2>1, <2>3, SupportSound
  <2> QED BY <2>3, <2>4
<1> QED BY <1>1, SpecInv, PTL

\* The purpose of the command: whatever heuristics move the variables, and however
\* often, the edges the network holds denote after every exchange the functions
\* they denoted before the command, at the same addresses.
THEOREM ReorderEdgesKept == Spec => []EdgesKept
<1>1. ASSUME IInv PROVE EdgesKept
  <2> SUFFICES ASSUME pc # "swap", NEW e \in External PROVE Denotes(dd, e) = start.roots[e]
    BY DEF EdgesKept, AtRest
  <2>1. /\ Table(dd) /\ Ordered(dd, {}, perm) /\ perm \in [Vars -> Vars] /\ sw.g = {}
        /\ HeldIn(dd)
    BY <1>1, TableNow
  <2>2. e \in KnownEdges(dd)
    <3>1. \A i \in Vars : <<vars[i], FALSE>> \in KnownEdges(dd)
      BY <2>1 DEF HeldIn, KnownEdges, Known
    <3> QED BY <2>1, <3>1 DEF External, HeldIn
  <2>3. ASSUME NEW a \in Asgs PROVE a \in Denotes(dd, e) <=> a \in start.roots[e]
    <3>1. PICK v \in SUBSET Pool : /\ Follows(dd, {}, sw.xi, a, v)
                                   /\ a \in start.roots[e] <=> Holds(v, e)
      BY <1>1, <2>1 DEF IInv, Meaning, Valued
    <3>2. a \in Denotes(dd, e) <=> Holds(v, e)
      BY <2>1, <2>2, <3>1, DenotesHolds
    <3> QED BY <3>1, <3>2
  <2>4. start.roots[e] \subseteq Asgs /\ Denotes(dd, e) \subseteq Asgs
    BY <1>1 DEF IInv, Meaning, Denotes
  <2> QED BY <2>3, <2>4
<1> QED BY <1>1, SpecInv, PTL

-----------------------------------------------------------------------------
(***************************************************************************)
(* Why undoing a permutation brings the size back (ddWindow2, bdd/cudd/    *)
(* cuddWindow.c): a reduced table with complement marks on else-edges only *)
(* is determined by its order and by the functions it holds, up to the     *)
(* addresses of its nodes. So the size is that of the order, and window2   *)
(* compares orders when it compares sizes.                                 *)
(***************************************************************************)

Diagram(d, p) == /\ Table(d) /\ Permutes(p)
                 /\ Ordered(d, {}, p) /\ Reduced(d, {})

\* V gives for every assignment the nodes that denote truth under it.
Truths(d, V) == \A a \in Asgs : \A n \in Live(d) : Chooses(d, a, V[a], n, d[n].index)

On(v, n) == n \in v \cup {ONE}

Same(V, m, W, n)     == \A a \in Asgs : On(V[a], m) <=> On(W[a], n)
SameEdge(V, e, W, f) == \A a \in Asgs : Holds(V[a], e) <=> Holds(W[a], f)

Level(d, p, n) == IF n = ONE THEN N ELSE p[d[n].index]

Ones == [i \in Vars |-> TRUE]

-----------------------------------------------------------------------------
(* Levels *)

LEMMA LevelType ==
  ASSUME NEW d, NEW p, Diagram(d, p), NEW n \in Known(d)
  PROVE  /\ Level(d, p, n) \in 0 .. N /\ N \in Nat
         /\ n = ONE => Level(d, p, n) = N
         /\ n # ONE => n \in Live(d) /\ Level(d, p, n) < N /\ Level(d, p, n) = p[d[n].index]
<1>1. N \in Nat
  BY BddAssumption
<1>2. CASE n = ONE
  BY <1>1, <1>2 DEF Level
<1>3. CASE n # ONE
  <2>1. n \in Live(d)
    BY <1>3 DEF Known
  <2>2. d[n].index \in Vars
    BY <2>1, LiveType DEF Diagram
  <2>3. p[d[n].index] \in 0 .. N - 1
    BY <2>2 DEF Diagram, Permutes, Vars
  <2> QED BY <1>1, <1>3, <2>1, <2>3 DEF Level
<1> QED BY <1>2, <1>3

LEMMA LevelBelow ==
  ASSUME NEW d, NEW p, Diagram(d, p), NEW n \in Live(d)
  PROVE  /\ n \in Known(d) /\ n # ONE
         /\ d[n].T \in Known(d) /\ d[n].E[1] \in Known(d)
         /\ Level(d, p, n) < Level(d, p, d[n].T) /\ Level(d, p, n) < Level(d, p, d[n].E[1])
<1>1. Table(d) /\ Ordered(d, {}, p)
  BY DEF Diagram
<1>2. n # ONE /\ d[n].T \in Known(d) /\ d[n].E[1] \in Known(d) /\ n \in Known(d)
  BY <1>1, LiveType DEF Known
<1>3. ASSUME NEW c \in {d[n].T, d[n].E[1]} PROVE Level(d, p, n) < Level(d, p, c)
  <2>1. c \in Known(d)
    BY <1>2
  <2>2. CASE c = ONE
    BY <1>2, <2>1, <2>2, LevelType
  <2>3. CASE c # ONE
    <3>1. c \in Children(d, n)
      BY <2>3 DEF Children
    <3>2. p[d[n].index] < p[d[c].index]
      BY <1>1, <3>1 DEF Ordered
    <3> QED BY <1>2, <2>3, <3>2 DEF Level
  <2> QED BY <2>2, <2>3
<1> QED BY <1>2, <1>3

\* From the constant upwards.
LEMMA FromBelow ==
  ASSUME NEW d, NEW p, Diagram(d, p), NEW S, ONE \in S,
         \A n \in Live(d) : d[n].T \in S /\ d[n].E[1] \in S => n \in S
  PROVE  Known(d) \subseteq S
<1> SUFFICES ASSUME NEW m \in Known(d), m \notin S PROVE FALSE
  OBVIOUS
<1> DEFINE depth(n) == N - Level(d, p, n)
           T == {depth(n) : n \in Known(d) \ S}
<1>1. \A n \in Known(d) : depth(n) \in Nat
  BY LevelType
<1>2. PICK k \in T : \A j \in T : k <= j
  <2>1. T \in SUBSET Nat /\ T # {}
    BY <1>1
  <2> HIDE DEF T
  <2> QED BY <2>1, SmallestOf
<1>3. PICK n \in Known(d) \ S : k = depth(n)
  BY <1>2
<1>4. \A c \in Known(d) : c \notin S => depth(n) <= depth(c)
  BY <1>2, <1>3
<1>5. n \in Live(d)
  BY <1>3 DEF Known
<1>6. ASSUME NEW c \in Known(d), Level(d, p, n) < Level(d, p, c) PROVE c \in S
  <2>1. Level(d, p, n) \in 0 .. N /\ Level(d, p, c) \in 0 .. N /\ N \in Nat
    BY <1>3, LevelType
  <2> QED BY <1>4, <1>6, <2>1
<1> QED BY <1>3, <1>5, <1>6, LevelBelow

\* From the nodes without parents downwards.
LEMMA FromAbove ==
  ASSUME NEW d, NEW p, Diagram(d, p), NEW S,
         \A n \in Live(d) : (\A m \in Live(d) : n \in Children(d, m) => m \in S) => n \in S
  PROVE  Live(d) \subseteq S
<1> SUFFICES ASSUME NEW m \in Live(d), m \notin S PROVE FALSE
  OBVIOUS
<1> DEFINE T == {Level(d, p, n) : n \in Live(d) \ S}
<1>1. \A n \in Live(d) : Level(d, p, n) \in Nat
  BY LevelType, LevelBelow
<1>2. PICK k \in T : \A j \in T : k <= j
  <2>1. T \in SUBSET Nat /\ T # {}
    BY <1>1
  <2> HIDE DEF T
  <2> QED BY <2>1, SmallestOf
<1>3. PICK n \in Live(d) \ S : k = Level(d, p, n)
  BY <1>2
<1>4. PICK q \in Live(d) : n \in Children(d, q) /\ q \notin S
  BY <1>3
<1>5. Level(d, p, q) < Level(d, p, n)
  BY <1>4, LevelBelow DEF Children
<1>6. Level(d, p, n) <= Level(d, p, q)
  BY <1>2, <1>3, <1>4
<1>7. Level(d, p, q) \in Nat /\ Level(d, p, n) \in Nat
  BY <1>1, <1>3, <1>4
<1> HIDE DEF T
<1> QED BY <1>5, <1>6, <1>7

-----------------------------------------------------------------------------
(* Nodes as functions *)

LEMMA HoldsOn ==
  ASSUME NEW v, NEW e
  PROVE  Holds(v, e) <=> (On(v, e[1]) <=> e[2] = FALSE)
BY Zenon DEF Holds, On

LEMMA HoldsRegular ==
  ASSUME NEW v, NEW n
  PROVE  Holds(v, <<n, FALSE>>) <=> On(v, n)
BY HoldsNot DEF On

LEMMA OnNode ==
  ASSUME NEW v, NEW d, NEW p, Diagram(d, p), NEW n \in Live(d)
  PROVE  On(v, n) <=> n \in v
BY LevelBelow DEF On

LEMMA OnChoice ==
  ASSUME NEW d, NEW p, Diagram(d, p), NEW V, Truths(d, V), NEW n \in Live(d), NEW a \in Asgs
  PROVE  On(V[a], n) <=> IF a[d[n].index] THEN On(V[a], d[n].T) ELSE Holds(V[a], d[n].E)
<1>1. n \in V[a] <=> IF a[d[n].index] THEN Holds(V[a], <<d[n].T, FALSE>>) ELSE Holds(V[a], d[n].E)
  BY Zenon DEF Truths, Chooses
<1> QED BY <1>1, OnNode, HoldsRegular

\* Every regular edge is true when all variables are: no mark is met.
LEMMA OnesOn ==
  ASSUME NEW d, NEW p, Diagram(d, p), NEW V, Truths(d, V), NEW n \in Known(d)
  PROVE  On(V[Ones], n)
<1> DEFINE S == {m \in Known(d) : On(V[Ones], m)}
<1>1. ONE \in S
  BY DEF On, Known
<1>2. ASSUME NEW m \in Live(d), d[m].T \in S PROVE m \in S
  <2>1. d[m].index \in Vars /\ Ones \in Asgs /\ m \in Known(d)
    BY LiveType, LevelBelow DEF Diagram, Ones, Asgs
  <2>2. Ones[d[m].index]
    BY <2>1 DEF Ones
  <2>3. On(V[Ones], d[m].T)
    BY <1>2
  <2>4. On(V[Ones], m)
    BY <2>1, <2>2, <2>3, OnChoice
  <2> QED BY <2>1, <2>4
<1> HIDE DEF S
<1>3. Known(d) \subseteq S
  BY <1>1, <1>2, FromBelow
<1> QED BY <1>3 DEF S

\* So two edges are the same function only if their marks and nodes agree.
LEMMA EdgesApart ==
  ASSUME NEW d, NEW p, Diagram(d, p), NEW V, Truths(d, V), NEW e \in KnownEdges(d),
         NEW c, NEW q, Diagram(c, q), NEW W, Truths(c, W), NEW f \in KnownEdges(c),
         SameEdge(V, e, W, f)
  PROVE  e[2] = f[2] /\ Same(V, e[1], W, f[1])
<1>1. /\ e[1] \in Known(d) /\ e[2] \in BOOLEAN
      /\ f[1] \in Known(c) /\ f[2] \in BOOLEAN
  BY DEF KnownEdges
<1>2. Ones \in Asgs
  BY DEF Ones, Asgs
<1>3. On(V[Ones], e[1]) /\ On(W[Ones], f[1])
  BY <1>1, OnesOn
<1>4. \A a \in Asgs : (On(V[a], e[1]) <=> e[2] = FALSE) <=> (On(W[a], f[1]) <=> f[2] = FALSE)
  BY HoldsOn DEF SameEdge
<1>5. e[2] = FALSE <=> f[2] = FALSE
  BY <1>2, <1>3, <1>4
<1>6. e[2] = f[2]
  BY <1>1, <1>5
<1>7. \A a \in Asgs : On(V[a], e[1]) <=> On(W[a], f[1])
  BY <1>4, <1>5
<1> QED BY <1>6, <1>7 DEF Same

\* A node does not depend on a variable above it.
LEMMA Independent ==
  ASSUME NEW d, NEW p, Diagram(d, p), NEW V, Truths(d, V), NEW n \in Known(d),
         NEW i \in Vars, p[i] < Level(d, p, n),
         NEW a \in Asgs, NEW b \in Asgs, \A j \in Vars : j # i => a[j] = b[j]
  PROVE  On(V[a], n) <=> On(V[b], n)
<1> DEFINE S == {m \in Known(d) : p[i] < Level(d, p, m) => (On(V[a], m) <=> On(V[b], m))}
<1>1. ONE \in S
  BY DEF On, Known
<1>2. ASSUME NEW m \in Live(d), d[m].T \in S, d[m].E[1] \in S PROVE m \in S
  <2>1. /\ m \in Known(d) /\ d[m].T \in Known(d) /\ d[m].E[1] \in Known(d) /\ m # ONE
        /\ Level(d, p, m) < Level(d, p, d[m].T) /\ Level(d, p, m) < Level(d, p, d[m].E[1])
    BY LevelBelow
  <2>2. d[m].index \in Vars
    BY LiveType DEF Diagram
  <2> SUFFICES ASSUME p[i] < Level(d, p, m) PROVE On(V[a], m) <=> On(V[b], m)
    BY <2>1
  <2>3. /\ p[i] \in Int /\ Level(d, p, m) \in Int
        /\ Level(d, p, d[m].T) \in Int /\ Level(d, p, d[m].E[1]) \in Int
    <3>1. p[i] \in Int
      BY DEF Diagram, Permutes, Vars
    <3>2. \A k \in Known(d) : Level(d, p, k) \in Int
      BY LevelType
    <3> QED BY <2>1, <3>1, <3>2
  <2>4. /\ On(V[a], d[m].T) <=> On(V[b], d[m].T)
        /\ On(V[a], d[m].E[1]) <=> On(V[b], d[m].E[1])
    BY <1>2, <2>1, <2>3
  <2>5. Holds(V[a], d[m].E) <=> Holds(V[b], d[m].E)
    BY <2>4, HoldsOn
  <2>6. d[m].index # i
    BY <2>1, <2>3 DEF Level
  <2>7. a[d[m].index] = b[d[m].index]
    BY <2>2, <2>6
  <2> QED BY <2>4, <2>5, <2>7, OnChoice
<1> HIDE DEF S
<1>3. n \in S
  BY <1>1, <1>2, FromBelow
<1> QED BY <1>3 DEF S

Set(a, i, b) == [a EXCEPT ![i] = b]

LEMMA SetAsg ==
  ASSUME NEW a \in Asgs, NEW i \in Vars, NEW b \in BOOLEAN
  PROVE  /\ Set(a, i, b) \in Asgs /\ Set(a, i, b)[i] = b
         /\ \A j \in Vars : j # i => Set(a, i, b)[j] = a[j]
BY DEF Asgs, Set

\* The children of a node are its cofactors.
LEMMA Cofactored ==
  ASSUME NEW d, NEW p, Diagram(d, p), NEW V, Truths(d, V), NEW n \in Live(d), NEW a \in Asgs
  PROVE  /\ On(V[Set(a, d[n].index, TRUE)], n) <=> On(V[a], d[n].T)
         /\ On(V[Set(a, d[n].index, FALSE)], n) <=> Holds(V[a], d[n].E)
<1> DEFINE i == d[n].index
           a1 == Set(a, i, TRUE)
           a0 == Set(a, i, FALSE)
<1>1. i \in Vars
  BY LiveType DEF Diagram
<1>2. /\ a1 \in Asgs /\ a1[i] = TRUE /\ \A j \in Vars : j # i => a1[j] = a[j]
      /\ a0 \in Asgs /\ a0[i] = FALSE /\ \A j \in Vars : j # i => a0[j] = a[j]
  BY <1>1, SetAsg
<1>3. /\ d[n].T \in Known(d) /\ d[n].E[1] \in Known(d)
      /\ p[i] < Level(d, p, d[n].T) /\ p[i] < Level(d, p, d[n].E[1])
  BY LevelBelow, LevelType
<1> HIDE DEF i, a1, a0
<1>4. On(V[a1], d[n].T) <=> On(V[a], d[n].T)
  BY <1>1, <1>2, <1>3, Independent
<1>5. On(V[a0], d[n].E[1]) <=> On(V[a], d[n].E[1])
  BY <1>1, <1>2, <1>3, Independent
<1>6. Holds(V[a0], d[n].E) <=> Holds(V[a], d[n].E)
  BY <1>5, HoldsOn
<1>7. /\ On(V[a1], n) <=> IF a1[i] THEN On(V[a1], d[n].T) ELSE Holds(V[a1], d[n].E)
      /\ On(V[a0], n) <=> IF a0[i] THEN On(V[a0], d[n].T) ELSE Holds(V[a0], d[n].E)
  BY <1>2, OnChoice DEF i
<1> QED BY <1>2, <1>4, <1>6, <1>7 DEF i, a1, a0

\* A node depends on its variable, when its children are told apart by what
\* they denote.
LEMMA Depends ==
  ASSUME NEW d, NEW p, Diagram(d, p), NEW V, Truths(d, V), NEW n \in Live(d),
         Same(V, d[n].T, V, d[n].E[1]) => d[n].T = d[n].E[1]
  PROVE  \E a \in Asgs : ~(On(V[Set(a, d[n].index, TRUE)], n)
                            <=> On(V[Set(a, d[n].index, FALSE)], n))
<1> SUFFICES ASSUME \A a \in Asgs : On(V[Set(a, d[n].index, TRUE)], n)
                                     <=> On(V[Set(a, d[n].index, FALSE)], n)
             PROVE  FALSE
  OBVIOUS
<1> DEFINE t == <<d[n].T, FALSE>>
<1>1. \A a \in Asgs : Holds(V[a], t) <=> Holds(V[a], d[n].E)
  BY Cofactored, HoldsRegular
<1>2. t \in KnownEdges(d) /\ d[n].E \in KnownEdges(d) /\ t[1] = d[n].T /\ t[2] = FALSE
  BY LiveType DEF Diagram, KnownEdges
<1>3. SameEdge(V, t, V, d[n].E)
  BY <1>1 DEF SameEdge
<1> HIDE DEF t
<1>4. t[2] = d[n].E[2] /\ Same(V, t[1], V, d[n].E[1])
  BY <1>2, <1>3, EdgesApart
<1>5. d[n].E[2] = FALSE /\ d[n].T = d[n].E[1]
  BY <1>2, <1>4
<1>6. d[n].E = <<d[n].T, FALSE>>
  <2>1. PICK c \in Known(d) : d[n].E = <<c, FALSE>> \/ d[n].E = <<c, TRUE>>
    BY <1>2, EdgeForm DEF KnownEdges
  <2>2. /\ <<c, FALSE>>[1] = c /\ <<c, TRUE>>[1] = c
        /\ <<c, FALSE>>[2] = FALSE /\ <<c, TRUE>>[2] = TRUE
    OBVIOUS
  <2> QED BY <1>5, <2>1, <2>2
<1> QED BY <1>6 DEF Diagram, Reduced

\* Two nodes over the same variable that are the same function have the same
\* cofactors.
LEMMA SameChildren ==
  ASSUME NEW d, NEW p, Diagram(d, p), NEW V, Truths(d, V), NEW n \in Live(d),
         NEW c, NEW q, Diagram(c, q), NEW W, Truths(c, W), NEW m \in Live(c),
         d[n].index = c[m].index, Same(V, n, W, m)
  PROVE  /\ Same(V, d[n].T, W, c[m].T)
         /\ d[n].E[2] = c[m].E[2] /\ Same(V, d[n].E[1], W, c[m].E[1])
<1>1. d[n].index \in Vars
  BY LiveType DEF Diagram
<1>2. ASSUME NEW a \in Asgs
      PROVE  /\ On(V[a], d[n].T) <=> On(W[a], c[m].T)
             /\ Holds(V[a], d[n].E) <=> Holds(W[a], c[m].E)
  <2>1. Set(a, d[n].index, TRUE) \in Asgs /\ Set(a, d[n].index, FALSE) \in Asgs
    BY <1>1, SetAsg
  <2>2. /\ On(V[Set(a, d[n].index, TRUE)], n) <=> On(W[Set(a, d[n].index, TRUE)], m)
        /\ On(V[Set(a, d[n].index, FALSE)], n) <=> On(W[Set(a, d[n].index, FALSE)], m)
    BY <2>1 DEF Same
  <2>3. /\ On(V[Set(a, d[n].index, TRUE)], n) <=> On(V[a], d[n].T)
        /\ On(V[Set(a, d[n].index, FALSE)], n) <=> Holds(V[a], d[n].E)
    BY Cofactored
  <2>4. /\ On(W[Set(a, c[m].index, TRUE)], m) <=> On(W[a], c[m].T)
        /\ On(W[Set(a, c[m].index, FALSE)], m) <=> Holds(W[a], c[m].E)
    BY Cofactored
  <2> QED BY <2>2, <2>3, <2>4
<1>3. Same(V, d[n].T, W, c[m].T) /\ SameEdge(V, d[n].E, W, c[m].E)
  BY <1>2 DEF Same, SameEdge
<1>4. d[n].E \in KnownEdges(d) /\ c[m].E \in KnownEdges(c)
  BY LiveType DEF Diagram
<1> QED BY <1>3, <1>4, EdgesApart

\* What one node is cannot be at a level further down.
LEMMA NotBelow ==
  ASSUME NEW d, NEW p, Diagram(d, p), NEW V, Truths(d, V), NEW n \in Live(d),
         Same(V, d[n].T, V, d[n].E[1]) => d[n].T = d[n].E[1],
         NEW c, Diagram(c, p), NEW W, Truths(c, W), NEW m \in Known(c), Same(V, n, W, m)
  PROVE  ~(Level(d, p, n) < Level(c, p, m))
<1> SUFFICES ASSUME Level(d, p, n) < Level(c, p, m) PROVE FALSE
  OBVIOUS
<1> DEFINE i == d[n].index
<1>1. i \in Vars /\ p[i] = Level(d, p, n)
  BY LiveType, LevelBelow, LevelType DEF Diagram
<1>2. PICK a \in Asgs : ~(On(V[Set(a, i, TRUE)], n) <=> On(V[Set(a, i, FALSE)], n))
  BY Depends
<1> DEFINE a1 == Set(a, i, TRUE)
           a0 == Set(a, i, FALSE)
<1> HIDE DEF i
<1>3. /\ a1 \in Asgs /\ \A j \in Vars : j # i => a1[j] = a[j]
      /\ a0 \in Asgs /\ \A j \in Vars : j # i => a0[j] = a[j]
  BY <1>1, SetAsg
<1>4. ~(On(V[a1], n) <=> On(V[a0], n))
  BY <1>2
<1> HIDE DEF a1, a0
<1>5. On(W[a1], m) <=> On(W[a0], m)
  <2>1. \A j \in Vars : j # i => a1[j] = a0[j]
    BY <1>3
  <2>2. p[i] < Level(c, p, m)
    BY <1>1
  <2> QED BY <1>1, <1>3, <2>1, <2>2, Independent
<1> QED BY <1>3, <1>4, <1>5 DEF Same

LEMMA SameSymmetric ==
  ASSUME NEW V, NEW m, NEW W, NEW n, Same(V, m, W, n)
  PROVE  Same(W, n, V, m)
BY DEF Same

LEMMA SameTransitive ==
  ASSUME NEW V, NEW m, NEW W, NEW n, NEW U, NEW k, Same(V, m, W, n), Same(W, n, U, k)
  PROVE  Same(V, m, U, k)
BY DEF Same

\* No two nodes of a table are the same function.
LEMMA NodesDiffer ==
  ASSUME NEW d, NEW p, Diagram(d, p), NEW V, Truths(d, V),
         NEW m \in Known(d), NEW n \in Known(d), Same(V, m, V, n)
  PROVE  m = n
<1> SUFFICES ASSUME m # n PROVE FALSE
  OBVIOUS
<1> DEFINE Clash(u, w) == /\ u # w /\ Same(V, u, V, w)
                          /\ Level(d, p, u) <= Level(d, p, w)
           T == {k \in Nat : \E u, w \in Known(d) : Clash(u, w) /\ k = N - Level(d, p, u)}
<1>1. \A u \in Known(d) : Level(d, p, u) \in 0 .. N /\ N \in Nat
  BY LevelType
<1>2. T # {}
  <2>1. Level(d, p, m) \in 0 .. N /\ Level(d, p, n) \in 0 .. N /\ N \in Nat
    BY <1>1
  <2>2. CASE Level(d, p, m) <= Level(d, p, n)
    <3>1. N - Level(d, p, m) \in Nat
      BY <2>1
    <3> QED BY <2>2, <3>1
  <2>3. CASE Level(d, p, n) <= Level(d, p, m)
    <3>1. N - Level(d, p, n) \in Nat /\ Same(V, n, V, m)
      BY <2>1, SameSymmetric
    <3> QED BY <2>3, <3>1
  <2> QED BY <2>1, <2>2, <2>3
<1>3. PICK k \in T : \A j \in T : k <= j
  <2>1. T \in SUBSET Nat
    OBVIOUS
  <2> HIDE DEF T
  <2> QED BY <1>2, <2>1, SmallestOf
<1>4. PICK u \in Known(d), w \in Known(d) : Clash(u, w) /\ k = N - Level(d, p, u)
  BY <1>3
<1>5. u # ONE
  <2>1. ASSUME u = ONE PROVE FALSE
    <3>1. Level(d, p, w) = N
      BY <1>1, <1>4, <2>1, LevelType
    <3>2. w = ONE
      BY <3>1, LevelType
    <3> QED BY <1>4, <2>1, <3>2
  <2> QED BY <2>1
<1>6. u \in Live(d)
  BY <1>5 DEF Known
\* Further down there is no such pair.
<1>7. ASSUME NEW s \in Known(d), NEW t \in Known(d), Same(V, s, V, t),
             Level(d, p, u) < Level(d, p, s), Level(d, p, u) < Level(d, p, t)
      PROVE  s = t
  <2>1. /\ Level(d, p, s) \in 0 .. N /\ Level(d, p, t) \in 0 .. N /\ N \in Nat
        /\ Level(d, p, u) \in 0 .. N
    BY <1>1
  <2>2. ASSUME NEW y \in Known(d), Level(d, p, u) < Level(d, p, y) PROVE N - Level(d, p, y) \notin T
    <3>1. Level(d, p, y) \in 0 .. N
      BY <1>1
    <3>2. ~(k <= N - Level(d, p, y))
      BY <1>4, <2>1, <2>2, <3>1
    <3> HIDE DEF T
    <3> QED BY <1>3, <3>2
  <2>3. ~Clash(s, t)
    <3>1. N - Level(d, p, s) \in Nat /\ N - Level(d, p, s) \notin T
      BY <1>7, <2>1, <2>2
    <3> HIDE DEF Clash
    <3> QED BY <3>1
  <2>4. ~Clash(t, s)
    <3>1. N - Level(d, p, t) \in Nat /\ N - Level(d, p, t) \notin T
      BY <1>7, <2>1, <2>2
    <3> HIDE DEF Clash
    <3> QED BY <3>1
  <2>5. Same(V, t, V, s)
    BY <1>7, SameSymmetric
  <2> QED BY <1>7, <2>1, <2>3, <2>4, <2>5
<1>8. Same(V, u, V, w) /\ u # w /\ Level(d, p, u) <= Level(d, p, w)
  BY <1>4
<1> HIDE DEF T, Clash
<1>9. \A y \in Live(d) : Level(d, p, u) <= Level(d, p, y) =>
        /\ d[y].T \in Known(d) /\ d[y].E[1] \in Known(d)
        /\ Level(d, p, u) < Level(d, p, d[y].T) /\ Level(d, p, u) < Level(d, p, d[y].E[1])
  <2> SUFFICES ASSUME NEW y \in Live(d), Level(d, p, u) <= Level(d, p, y)
               PROVE  /\ d[y].T \in Known(d) /\ d[y].E[1] \in Known(d)
                      /\ Level(d, p, u) < Level(d, p, d[y].T)
                      /\ Level(d, p, u) < Level(d, p, d[y].E[1])
    OBVIOUS
  <2>1. /\ y \in Known(d) /\ d[y].T \in Known(d) /\ d[y].E[1] \in Known(d)
        /\ Level(d, p, y) < Level(d, p, d[y].T) /\ Level(d, p, y) < Level(d, p, d[y].E[1])
    BY LevelBelow
  <2>2. /\ Level(d, p, u) \in 0 .. N /\ Level(d, p, y) \in 0 .. N
        /\ Level(d, p, d[y].T) \in 0 .. N /\ Level(d, p, d[y].E[1]) \in 0 .. N
    BY <1>1, <2>1
  <2> QED BY <2>1, <2>2
<1>10. Level(d, p, u) = Level(d, p, w)
  <2>1. Same(V, d[u].T, V, d[u].E[1]) => d[u].T = d[u].E[1]
    <3>1. Level(d, p, u) <= Level(d, p, u)
      BY <1>1, <1>4
    <3> QED BY <1>6, <1>7, <1>9, <3>1
  <2>2. ~(Level(d, p, u) < Level(d, p, w))
    BY <1>6, <1>8, <2>1, NotBelow
  <2>3. Level(d, p, u) \in 0 .. N /\ Level(d, p, w) \in 0 .. N
    BY <1>1
  <2> QED BY <1>8, <2>2, <2>3
<1>11. w \in Live(d) /\ d[u].index = d[w].index
  <2>1. Level(d, p, u) < N /\ Level(d, p, u) = p[d[u].index]
    BY <1>4, <1>5, LevelType
  <2>2. w # ONE
    <3>1. w = ONE => Level(d, p, w) = N
      BY LevelType
    <3>2. N \in Nat
      BY <1>1, <1>4
    <3> QED BY <1>10, <2>1, <3>1, <3>2
  <2>3. w \in Live(d) /\ Level(d, p, w) = p[d[w].index]
    BY <2>2, LevelType
  <2>4. d[u].index \in Vars /\ d[w].index \in Vars
    BY <1>6, <2>3, LiveType DEF Diagram
  <2> QED BY <1>10, <2>1, <2>3, <2>4 DEF Diagram, Permutes
<1>12. /\ Same(V, d[u].T, V, d[w].T)
       /\ d[u].E[2] = d[w].E[2] /\ Same(V, d[u].E[1], V, d[w].E[1])
  BY <1>6, <1>8, <1>11, SameChildren
<1>13. d[u].T = d[w].T /\ d[u].E[1] = d[w].E[1]
  BY <1>6, <1>7, <1>8, <1>9, <1>10, <1>11, <1>12
<1>14. d[u].E = d[w].E
  <2>1. d[u].E \in KnownEdges(d) /\ d[w].E \in KnownEdges(d)
    BY <1>6, <1>11, LiveType DEF Diagram
  <2> QED BY <1>12, <1>13, <2>1 DEF KnownEdges
<1> QED BY <1>6, <1>8, <1>11, <1>13, <1>14 DEF Diagram, Reduced

-----------------------------------------------------------------------------
(* Two tables of one order that hold the same functions *)

Counted(d) == HeldIn(d) /\ \A n \in Live(d) : d[n].ref > 0

Twins(d, V, c, W, p) == /\ Diagram(d, p) /\ Truths(d, V) /\ Counted(d)
                        /\ Diagram(c, p) /\ Truths(c, W) /\ Counted(c)
                        /\ \A e \in External : SameEdge(V, e, W, e)

LEMMA TwinsSymmetric ==
  ASSUME NEW d, NEW V, NEW c, NEW W, NEW p, Twins(d, V, c, W, p)
  PROVE  Twins(c, W, d, V, p)
<1>1. \A e \in External : SameEdge(W, e, V, e)
  BY DEF Twins, SameEdge
<1> QED BY <1>1 DEF Twins

\* Nodes of both that are the same function have the same variable and children.
LEMMA TwinNodes ==
  ASSUME NEW d, NEW V, NEW c, NEW W, NEW p, Twins(d, V, c, W, p),
         NEW n \in Live(d), NEW m \in Known(c), Same(V, n, W, m)
  PROVE  /\ m \in Live(c) /\ d[n].index = c[m].index
         /\ Same(V, d[n].T, W, c[m].T)
         /\ d[n].E[2] = c[m].E[2] /\ Same(V, d[n].E[1], W, c[m].E[1])
<1>1. /\ Diagram(d, p) /\ Truths(d, V) /\ Diagram(c, p) /\ Truths(c, W)
  BY DEF Twins
<1>2. Same(V, d[n].T, V, d[n].E[1]) => d[n].T = d[n].E[1]
  BY <1>1, LevelBelow, NodesDiffer
<1>3. ~(Level(d, p, n) < Level(c, p, m))
  BY <1>1, <1>2, NotBelow
<1>4. n \in Known(d) /\ n # ONE
  BY <1>1, LevelBelow
<1>5. /\ Level(d, p, n) \in 0 .. N /\ N \in Nat /\ Level(d, p, n) < N
      /\ Level(d, p, n) = p[d[n].index]
  BY <1>1, <1>4, LevelType
<1>6. Level(c, p, m) \in 0 .. N /\ (m = ONE => Level(c, p, m) = N)
  BY <1>1, LevelType
<1>7. m # ONE
  BY <1>3, <1>5, <1>6
<1>8. m \in Live(c) /\ Level(c, p, m) = p[c[m].index]
  BY <1>1, <1>7, LevelType
<1>9. Same(W, c[m].T, W, c[m].E[1]) => c[m].T = c[m].E[1]
  BY <1>1, <1>8, LevelBelow, NodesDiffer
<1>10. ~(Level(c, p, m) < Level(d, p, n))
  BY <1>1, <1>4, <1>8, <1>9, SameSymmetric, NotBelow
<1>11. p[d[n].index] = p[c[m].index]
  BY <1>3, <1>5, <1>6, <1>8, <1>10
<1>12. d[n].index \in Vars /\ c[m].index \in Vars
  BY <1>1, <1>8, LiveType DEF Diagram
<1>13. d[n].index = c[m].index
  BY <1>1, <1>11, <1>12 DEF Diagram, Permutes
<1> QED BY <1>1, <1>8, <1>13, SameChildren

\* A node held from outside the table is the same function in both.
LEMMA TwinOuter ==
  ASSUME NEW d, NEW V, NEW c, NEW W, NEW p, Twins(d, V, c, W, p),
         NEW n \in Live(d), Outer(n) > 0
  PROVE  n \in Live(c) /\ Same(V, n, W, n)
<1>1. Diagram(d, p) /\ Diagram(c, p) /\ HeldIn(d) /\ HeldIn(c) /\ Truths(d, V) /\ Truths(c, W)
  BY DEF Twins, Counted
<1>2. n # ONE
  BY <1>1, LevelBelow
<1>3. \E e \in External : e[1] = n /\ e \in KnownEdges(d) /\ e \in KnownEdges(c)
  <2>1. (\E e \in roots : e[1] = n) \/ (\E i \in Vars : vars[i] = n)
    BY <1>1, OuterNat
  <2>2. CASE \E e \in roots : e[1] = n
    BY <1>1, <2>2 DEF HeldIn, External
  <2>3. ASSUME NEW i \in Vars, vars[i] = n
        PROVE  \E e \in External : e[1] = n /\ e \in KnownEdges(d) /\ e \in KnownEdges(c)
    <3>1. <<n, FALSE>> \in External
      BY <2>3 DEF External
    <3>2. n \in Live(d) /\ n \in Live(c)
      BY <1>1, <2>3 DEF HeldIn
    <3>3. <<n, FALSE>>[1] = n /\ <<n, FALSE>> \in KnownEdges(d) /\ <<n, FALSE>> \in KnownEdges(c)
      BY <3>2 DEF KnownEdges, Known
    <3> QED BY <3>1, <3>3
  <2> QED BY <2>1, <2>2, <2>3
<1>4. PICK e \in External : e[1] = n /\ e \in KnownEdges(d) /\ e \in KnownEdges(c)
  BY <1>3
<1>5. SameEdge(V, e, W, e)
  BY DEF Twins
<1>6. Same(V, e[1], W, e[1])
  BY <1>1, <1>4, <1>5, EdgesApart
<1>7. n \in Known(c)
  BY <1>4 DEF KnownEdges
<1> QED BY <1>2, <1>4, <1>6, <1>7 DEF Known

\* What nothing in the table refers to is held from outside.
LEMMA TopOuter ==
  ASSUME NEW d, NEW p, Diagram(d, p), Counted(d), NEW n \in Live(d), ~HasParent(d, n)
  PROVE  Outer(n) > 0
<1>1. n # ONE /\ d[n].ref \in Int /\ d[n].ref > 0
  BY LiveType DEF Diagram, Counted
<1>2. RefsIn(d, n) \in Nat /\ ~(RefsIn(d, n) > 0)
  BY <1>1, ParentRefs
<1>3. d[n].ref - RefsIn(d, n) = Outer(n)
  BY DEF Counted, HeldIn, Excess
<1> QED BY <1>1, <1>2, <1>3

\* A child of a node is found as a child of its twin.
LEMMA TwinChild ==
  ASSUME NEW d, NEW V, NEW c, NEW W, NEW p, Twins(d, V, c, W, p),
         NEW n \in Live(d), NEW m \in Live(c), Same(V, n, W, m), NEW k \in Children(d, n)
  PROVE  \E l \in Children(c, m) : l \in Live(c) /\ Same(V, k, W, l)
<1>1. Diagram(d, p) /\ Diagram(c, p)
  BY DEF Twins
<1>2. k \in Live(d) /\ (k = d[n].T \/ k = d[n].E[1])
  BY <1>1 DEF Diagram, Table, Children
<1>3. m \in Known(c) /\ c[m].T \in Known(c) /\ c[m].E[1] \in Known(c)
  BY <1>1, LevelBelow
<1>4. Same(V, d[n].T, W, c[m].T) /\ Same(V, d[n].E[1], W, c[m].E[1])
  BY <1>3, TwinNodes
<1>5. PICK l \in {c[m].T, c[m].E[1]} : Same(V, k, W, l)
  BY <1>2, <1>4
<1>6. l \in Live(c)
  BY <1>2, <1>3, <1>5, TwinNodes
<1>7. l # ONE
  BY <1>1, <1>6, LevelBelow
<1> QED BY <1>5, <1>6, <1>7 DEF Children

LEMMA TwinExists ==
  ASSUME NEW d, NEW V, NEW c, NEW W, NEW p, Twins(d, V, c, W, p), NEW n \in Live(d)
  PROVE  \E m \in Live(c) : Same(V, n, W, m)
<1> DEFINE S == {k \in Live(d) : \E m \in Live(c) : Same(V, k, W, m)}
<1>1. Diagram(d, p) /\ Counted(d)
  BY DEF Twins
<1>2. ASSUME NEW k \in Live(d), \A q \in Live(d) : k \in Children(d, q) => q \in S
      PROVE  k \in S
  <2>1. CASE HasParent(d, k)
    <3>1. PICK q \in Live(d) : k \in Children(d, q)
      BY <2>1 DEF HasParent
    <3>2. PICK m \in Live(c) : Same(V, q, W, m)
      BY <1>2, <3>1
    <3>3. \E l \in Children(c, m) : l \in Live(c) /\ Same(V, k, W, l)
      BY <3>1, <3>2, TwinChild
    <3> QED BY <3>3
  <2>2. CASE ~HasParent(d, k)
    <3>1. Outer(k) > 0
      BY <1>1, <2>2, TopOuter
    <3> QED BY <3>1, TwinOuter
  <2> QED BY <2>1, <2>2
<1> HIDE DEF S
<1>3. Live(d) \subseteq S
  BY <1>1, <1>2, FromAbove
<1> QED BY <1>3 DEF S

LEMMA TwinNotMore ==
  ASSUME NEW d, NEW V, NEW c, NEW W, NEW p, Twins(d, V, c, W, p)
  PROVE  Cardinality(Live(d)) <= Cardinality(Live(c))
<1> DEFINE twin == [n \in Live(d) |-> CHOOSE m \in Live(c) : Same(V, n, W, m)]
<1>1. ASSUME NEW n \in Live(d) PROVE twin[n] \in Live(c) /\ Same(V, n, W, twin[n])
  BY TwinExists
<1>2. twin \in [Live(d) -> Live(c)]
  BY <1>1
<1> HIDE DEF twin
<1>3. ASSUME NEW n \in Live(d), NEW k \in Live(d), twin[n] = twin[k] PROVE n = k
  <2>1. Same(V, n, W, twin[n]) /\ Same(W, twin[n], V, k)
    BY <1>1, <1>3, SameSymmetric
  <2>2. Same(V, n, V, k)
    BY <2>1, SameTransitive
  <2>3. Diagram(d, p) /\ Truths(d, V) /\ n \in Known(d) /\ k \in Known(d)
    BY DEF Twins, Known
  <2> QED BY <2>2, <2>3, NodesDiffer
<1>4. twin \in Injection(Live(d), Live(c))
  BY <1>2, <1>3 DEF Injection, IsInjective
<1> QED BY <1>4, LiveFinite, FS_Injection

LEMMA TwinParent ==
  ASSUME NEW d, NEW V, NEW c, NEW W, NEW p, Twins(d, V, c, W, p),
         NEW n \in Live(d), Outer(n) > 0, HasParent(d, n)
  PROVE  HasParent(c, n)
<1>1. PICK q \in Live(d) : n \in Children(d, q)
  BY DEF HasParent
<1>2. PICK m \in Live(c) : Same(V, q, W, m)
  BY TwinExists
<1>3. PICK l \in Children(c, m) : l \in Live(c) /\ Same(V, n, W, l)
  BY <1>1, <1>2, TwinChild
<1>4. n \in Live(c) /\ Same(V, n, W, n)
  BY TwinOuter
<1>5. Same(W, l, W, n)
  BY <1>3, <1>4, SameSymmetric, SameTransitive
<1>6. l = n
  <2>1. Diagram(c, p) /\ Truths(c, W) /\ n \in Known(c) /\ l \in Known(c)
    BY <1>3, <1>4 DEF Twins, Known
  <2> QED BY <1>5, <2>1, NodesDiffer
<1> QED BY <1>2, <1>3, <1>6 DEF HasParent

\* What ddWindow2 compares: keys - isolated, of the table.
Size(d) == Cardinality(Live(d)) + 1 - IsolatedCount(d)

LEMMA TwinSize ==
  ASSUME NEW d, NEW V, NEW c, NEW W, NEW p, Twins(d, V, c, W, p)
  PROVE  Size(d) = Size(c)
<1>1. Twins(c, W, d, V, p)
  BY TwinsSymmetric
<1>2. Cardinality(Live(d)) = Cardinality(Live(c))
  <2>1. Cardinality(Live(d)) \in Nat /\ Cardinality(Live(c)) \in Nat
    BY LiveFinite, FS_CardinalityType
  <2>2. /\ Cardinality(Live(d)) <= Cardinality(Live(c))
        /\ Cardinality(Live(c)) <= Cardinality(Live(d))
    BY <1>1, TwinNotMore
  <2> QED BY <2>1, <2>2
<1>3. Table(d) /\ HeldIn(d) /\ Table(c) /\ HeldIn(c)
  BY DEF Twins, Diagram, Counted
<1>4. ASSUME NEW i \in Vars PROVE Isolated(d, i) = 1 <=> Isolated(c, i) = 1
  <2>1. vars[i] \in Live(d) /\ vars[i] \in Live(c)
    BY <1>3 DEF HeldIn
  <2>2. Outer(vars[i]) > 0
    BY <1>3, OuterNat
  <2>3. HasParent(d, vars[i]) <=> HasParent(c, vars[i])
    BY <1>1, <2>1, <2>2, TwinParent
  <2> QED BY <1>3, <2>3, IsolatedForm
<1>5. IsolatedCount(d) = IsolatedCount(c)
  <2>1. {i \in Vars : Isolated(d, i) = 1} = {i \in Vars : Isolated(c, i) = 1}
    BY <1>4
  <2> QED BY <2>1 DEF IsolatedCount
<1> QED BY <1>2, <1>5 DEF Size

-----------------------------------------------------------------------------
(* The sizes window2 compares. While it tries a permutation, the table it   *)
(* had before is still determined: by the order before and by what the      *)
(* edges of the network denote.                                             *)

Past(d, lev, s) == /\ Settled(d, lev) /\ Permutes(lev) /\ HeldIn(d)
                   /\ Valued(d, {}, ONE) /\ s = Size(d)

LEMMA PastTruths ==
  ASSUME NEW d, NEW lev, NEW s, Past(d, lev, s)
  PROVE  \E V : /\ Diagram(d, lev) /\ Truths(d, V) /\ Counted(d)
                /\ \A a \in Asgs, e \in External : a \in start.roots[e] <=> Holds(V[a], e)
<1> DEFINE Fits(a, v) == /\ Follows(d, {}, ONE, a, v)
                         /\ \A e \in External : a \in start.roots[e] <=> Holds(v, e)
           V == [a \in Asgs |-> CHOOSE v \in SUBSET Pool : Fits(a, v)]
<1>1. \A a \in Asgs : \E v \in SUBSET Pool : Fits(a, v)
  BY DEF Past, Valued
<1>2. \A a \in Asgs : Fits(a, V[a])
  <2> HIDE DEF Fits
  <2> QED BY <1>1
<1>3. \A a \in Asgs : Follows(d, {}, ONE, a, V[a])
  BY <1>2
<1> HIDE DEF V
<1>4. Truths(d, V)
  BY <1>3 DEF Truths, Follows
<1>5. Diagram(d, lev) /\ Counted(d)
  BY DEF Past, Settled, Diagram, Counted
<1> QED BY <1>2, <1>4, <1>5

\* Of two tables of one order and the same functions, both have the same size.
LEMMA PastSize ==
  ASSUME NEW d, NEW c, NEW lev, NEW s, NEW t, Past(d, lev, s), Past(c, lev, t)
  PROVE  s = t
<1>1. PICK V : /\ Diagram(d, lev) /\ Truths(d, V) /\ Counted(d)
               /\ \A a \in Asgs, e \in External : a \in start.roots[e] <=> Holds(V[a], e)
  BY PastTruths
<1>2. PICK W : /\ Diagram(c, lev) /\ Truths(c, W) /\ Counted(c)
               /\ \A a \in Asgs, e \in External : a \in start.roots[e] <=> Holds(W[a], e)
  BY PastTruths
<1>3. \A e \in External : SameEdge(V, e, W, e)
  BY <1>1, <1>2 DEF SameEdge
<1>4. Twins(d, V, c, W, lev)
  BY <1>1, <1>2, <1>3 DEF Twins
<1> QED BY <1>4, TwinSize DEF Past

LEMMA SizeType ==
  ASSUME NEW d
  PROVE  /\ Cardinality(Live(d)) \in Nat /\ IsolatedCount(d) \in Nat
         /\ Size(d) \in Int
<1>1. Cardinality(Live(d)) \in Nat
  BY LiveFinite, FS_CardinalityType
<1>2. IsolatedCount(d) \in Nat
  <2>1. {i \in Vars : Isolated(d, i) = 1} \subseteq Vars
    OBVIOUS
  <2> QED BY <2>1, VarsFinite, FS_Subset, FS_CardinalityType DEF IsolatedCount
<1> QED BY <1>1, <1>2 DEF Size

LEMMA PastKept ==
  ASSUME UNCHANGED <<roots, vars, start>>, NEW d, NEW lev, NEW s, Past(d, lev, s)
  PROVE  Past(d, lev, s)'
<1>1. roots' = roots /\ vars' = vars /\ start' = start
  OBVIOUS
<1>2. HeldIn(d)' /\ External' = External
  BY <1>1 DEF Past, HeldIn, Outer, External
<1>3. Valued(d, {}, ONE)'
  BY <1>1, <1>2 DEF Past, Valued
<1>4. Size(d)' = Size(d)
  BY <1>1 DEF Size, IsolatedCount, Isolated
<1> QED BY <1>2, <1>3, <1>4 DEF Past

LEMMA PastNow ==
  ASSUME IInv, pc # "swap"
  PROVE  Past(dd, perm, Size(dd)) /\ keys - isolated = Size(dd) /\ isolated = IsolatedCount(dd)
<1>1. Settled(dd, perm) /\ HeldIn(dd) /\ Permutes(perm) /\ sw.g = {}
  BY PermutesPerm DEF IInv, Tables, Meaning, Control, NoSwap
<1>2. Valued(dd, {}, ONE)
  <2>1. Valued(dd, {}, sw.xi)
    BY <1>1 DEF IInv, Meaning
  <2>2. \A a, v : Follows(dd, {}, sw.xi, a, v) => Follows(dd, {}, ONE, a, v)
    BY DEF Follows
  <2> QED BY <2>1, <2>2 DEF Valued
<1>3. keys = Cardinality(Live(dd)) + 1 /\ isolated = IsolatedCount(dd)
  BY DEF IInv, Counts, RestCounts
<1>4. keys - isolated = Size(dd)
  <2>1. Cardinality(Live(dd)) \in Nat /\ IsolatedCount(dd) \in Nat
    BY SizeType
  <2> QED BY <1>3, <2>1 DEF Size
<1> QED BY <1>1, <1>2, <1>3, <1>4 DEF Past

\* The order before the permutation that is tried or undone.
Before == IF pc = "judge" THEN Swapped(perm, invperm[x], invperm[x + 1])
          ELSE IF pc = "swap" /\ sw.back = "undone" THEN Swapped(perm, sw.xi, sw.yi)
          ELSE perm

Trying == pc \in {"judge", "undone", "swap"}

Windows ==
    /\ Trying => \E d, lev, s : Past(d, lev, s) /\ lev = Before /\ s = size
    /\ Trying => size <= start.size
    /\ pc = "swap" => sw.back # "move" /\ perm[sw.xi] = x
    /\ pc \in {"call", "move", "done"} => Size(dd) <= start.size
    /\ pc \in {"move", "judge", "undone"} => res = Size(dd)

Shrinking == /\ start.size \in Int
             /\ pc \in {"judge", "undone"} \/ sw.back # "move" => method = "window2"
             /\ method = "window2" => Windows

LEMMA InitShrinking == Init => Shrinking
<1> SUFFICES ASSUME Init PROVE Shrinking
  OBVIOUS
<1>1. /\ pc = "call" /\ sw.back = "move" /\ start.size = keys - isolated
  BY DEF Init, NoSwap
<1>2. keys - isolated = Size(dd)
  BY <1>1, InitInv, PastNow
<1>3. Size(dd) \in Int
  BY SizeType
<1> QED BY <1>1, <1>2, <1>3 DEF Shrinking, Windows, Trying

\* A step that only moves the loop.
LEMMA LoopShrinking ==
  ASSUME IInv, Shrinking, ReduceHeap \/ NextWindow \/ EndPass \/ Return
  PROVE  Shrinking'
<1>1. /\ pc \in {"call", "judge", "undone", "move"} /\ dd' = dd /\ vars' = vars /\ start' = start
      /\ sw' = sw /\ method' = method /\ pc' \in {"call", "move", "done"}
  BY DEF ReduceHeap, NextWindow, EndPass, Return, table, loop, fixed
<1>2. Size(dd)' = Size(dd) /\ Size(dd) \in Int
  BY <1>1, SizeType DEF Size, IsolatedCount, Isolated
<1>3. sw.back = "move"
  BY <1>1 DEF IInv, Control, NoSwap
<1> SUFFICES ASSUME method = "window2" PROVE Windows'
  BY <1>1, <1>3 DEF Shrinking
<1>4. Windows /\ start.size \in Int
  BY DEF Shrinking
<1>5. Size(dd) <= start.size
  <2>1. CASE pc \in {"call", "move"}
    BY <1>4, <2>1 DEF Windows
  <2>2. CASE pc \in {"judge", "undone"}
    <3>1. NextWindow
      BY <2>2 DEF ReduceHeap, EndPass, Return
    <3>2. size <= start.size /\ res = Size(dd)
      BY <1>4, <2>2 DEF Windows, Trying
    <3>3. PICK d, lev, s : Past(d, lev, s) /\ lev = Before /\ s = size
      BY <1>4, <2>2 DEF Windows, Trying
    <3>4. size \in Int
      BY <3>3, SizeType DEF Past
    <3>5. CASE pc = "undone"
      <4>1. Past(d, perm, s) /\ Past(dd, perm, Size(dd))
        BY <3>3, <3>5, PastNow DEF Before
      <4>2. s = Size(dd)
        BY <4>1, PastSize
      <4> QED BY <3>2, <3>3, <4>2
    <3>6. CASE pc = "judge"
      <4>1. res < size
        BY <3>1, <3>6 DEF NextWindow
      <4> QED BY <1>2, <1>4, <3>2, <3>4, <4>1
    <3> QED BY <2>2, <3>5, <3>6
  <2> QED BY <1>1, <2>1, <2>2
<1>6. pc' = "move" => res' = Size(dd)
  <2>1. CASE ReduceHeap
    <3>1. res' = keys - IsolatedCount(dd) /\ pc # "swap"
      BY <2>1 DEF ReduceHeap
    <3> QED BY <3>1, PastNow
  <2>2. CASE NextWindow
    <3>1. pc \in {"judge", "undone"} /\ res' = res
      BY <2>2 DEF NextWindow
    <3> QED BY <1>4, <3>1 DEF Windows
  <2>3. CASE EndPass \/ Return
    BY <2>3 DEF EndPass, Return
  <2> QED BY <2>1, <2>2, <2>3
<1> QED BY <1>1, <1>2, <1>5, <1>6 DEF Windows, Trying

\* A permutation begins.
LEMMA BeginShrinking ==
  ASSUME IInv, Shrinking, TryWindow \/ UndoWindow \/ OtherMove
  PROVE  Shrinking'
<1>1. /\ pc \in {"move", "judge"} /\ pc' = "swap" /\ perm' = perm /\ method' = method
      /\ UNCHANGED <<roots, vars, start>>
  BY DEF TryWindow, UndoWindow, OtherMove, BeginSwap, loop, fixed
<1>2. start.size \in Int /\ start' = start
  BY <1>1 DEF Shrinking
<1>3. sw'.back # "move" => method = "window2"
  <2>1. CASE TryWindow \/ UndoWindow
    BY <2>1 DEF TryWindow, UndoWindow, Shrinking
  <2>2. CASE OtherMove
    BY <2>2 DEF OtherMove, BeginSwap
  <2> QED BY <2>1, <2>2
<1> SUFFICES ASSUME method = "window2" PROVE Windows'
  BY <1>1, <1>2, <1>3 DEF Shrinking
<1>4. Windows
  BY DEF Shrinking
<1>5. x \in Vars /\ perm[invperm[x]] = x
  BY BddAssumption DEF IInv, Control, High, Vars
<1>6. CASE TryWindow
  <2>1. /\ pc = "move" /\ size' = res /\ x' = x /\ sw'.back = "judge" /\ sw'.xi = invperm[x]
    BY <1>6 DEF TryWindow, BeginSwap
  <2>2. res = Size(dd) /\ Size(dd) <= start.size
    BY <1>4, <2>1 DEF Windows
  <2>3. PICK d, lev, s : Past(d, lev, s) /\ d = dd /\ lev = perm /\ s = Size(dd)
    BY <2>1, PastNow
  <2>4. Past(d, lev, s)'
    BY <1>1, <2>3, PastKept
  <2>5. lev = Before' /\ s = size'
    BY <1>1, <2>1, <2>2, <2>3 DEF Before
  <2> QED BY <1>1, <1>2, <1>5, <2>1, <2>2, <2>4, <2>5 DEF Windows, Trying
<1>7. CASE UndoWindow
  <2>1. /\ pc = "judge" /\ size' = size /\ x' = x /\ sw'.back = "undone"
        /\ sw'.xi = invperm[x] /\ sw'.yi = invperm[x + 1]
    BY <1>7 DEF UndoWindow, BeginSwap, loop
  <2>2. size <= start.size
    BY <1>4, <2>1 DEF Windows, Trying
  <2>3. PICK d, lev, s : Past(d, lev, s) /\ lev = Before /\ s = size
    BY <1>4, <2>1 DEF Windows, Trying
  <2>4. Past(d, lev, s)'
    BY <1>1, <2>3, PastKept
  <2>5. lev = Before' /\ s = size'
    BY <1>1, <2>1, <2>3 DEF Before
  <2> QED BY <1>1, <1>2, <1>5, <2>1, <2>2, <2>4, <2>5 DEF Windows, Trying
<1>8. CASE OtherMove
  BY <1>8 DEF OtherMove
<1> QED BY <1>6, <1>7, <1>8

\* A node of the chain is re-expressed.
LEMMA ReExpressShrinking ==
  ASSUME IInv, Shrinking, ReExpress
  PROVE  Shrinking'
<1>1. /\ pc = "swap" /\ pc' = "swap" /\ perm' = perm /\ invperm' = invperm
      /\ method' = method /\ x' = x /\ size' = size /\ UNCHANGED <<roots, vars, start>>
  BY DEF ReExpress, loop, fixed
<1>2. sw'.back = sw.back /\ sw'.xi = sw.xi /\ sw'.yi = sw.yi
  BY DEF ReExpress, IInv, Control
<1> SUFFICES ASSUME method = "window2" PROVE Windows'
  BY <1>1, <1>2 DEF Shrinking
<1>3. Windows
  BY DEF Shrinking
<1>4. PICK d, lev, s : Past(d, lev, s) /\ lev = Before /\ s = size
  BY <1>1, <1>3 DEF Windows, Trying
<1>5. Past(d, lev, s)'
  BY <1>1, <1>4, PastKept
<1>6. lev = Before' /\ s = size'
  BY <1>1, <1>2, <1>4 DEF Before
<1> QED BY <1>1, <1>2, <1>3, <1>5, <1>6 DEF Windows, Trying

\* A permutation ends.
LEMMA EndShrinking ==
  ASSUME IInv, IInv', Shrinking, EndSwap
  PROVE  Shrinking'
<1> DEFINE xi == sw.xi
           yi == sw.yi
<1>1. /\ pc = "swap" /\ pc' = sw.back /\ sw' = NoSwap /\ method' = method /\ x' = x
      /\ size' = size /\ res' = keys' - isolated' /\ UNCHANGED <<roots, vars, start>>
      /\ perm' = [perm EXCEPT ![xi] = perm[xi] + 1, ![yi] = perm[xi]]
      /\ invperm' = [invperm EXCEPT ![perm[xi]] = yi, ![perm[xi] + 1] = xi]
  BY DEF EndSwap, fixed
<1>2. /\ sw.back \in {"move", "judge", "undone"} /\ sw'.back = "move"
      /\ xi \in Vars /\ yi \in Vars /\ perm \in [Vars -> Vars] /\ invperm \in [Vars -> Vars]
      /\ perm[yi] = perm[xi] + 1
  BY <1>1 DEF IInv, Control, NoSwap
<1> SUFFICES ASSUME method = "window2" PROVE Windows'
  BY <1>1, <1>2 DEF Shrinking
<1>3. Windows /\ sw.back # "move" /\ perm[xi] = x
  BY <1>1 DEF Shrinking, Windows
<1>4. PICK d, lev, s : Past(d, lev, s) /\ lev = Before /\ s = size
  BY <1>1, <1>3 DEF Windows, Trying
<1>5. Past(d, lev, s)'
  BY <1>1, <1>4, PastKept
<1>6. xi # yi /\ perm[xi] \in Int /\ perm[xi] \in Vars /\ perm[xi] + 1 \in Vars
  BY <1>2 DEF Vars
<1> HIDE DEF xi, yi
<1>7. lev = Before'
  <2>1. CASE sw.back = "undone"
    <3>1. lev = Swapped(perm, xi, yi)
      BY <1>1, <1>4, <2>1 DEF Before, xi, yi
    <3>2. perm' = [perm EXCEPT ![xi] = perm[yi], ![yi] = perm[xi]]
      BY <1>1, <1>2
    <3>3. lev = perm'
      BY <3>1, <3>2 DEF Swapped
    <3> QED BY <1>1, <2>1, <3>3 DEF Before
  <2>2. CASE sw.back = "judge"
    <3>1. lev = perm
      BY <1>1, <1>4, <2>2 DEF Before
    <3>2. invperm'[x'] = yi /\ invperm'[x' + 1] = xi
      BY <1>1, <1>2, <1>3, <1>6
    <3>3. Before' = [perm' EXCEPT ![yi] = perm'[xi], ![xi] = perm'[yi]]
      BY <1>1, <2>2, <3>2 DEF Before, Swapped
    <3>4. /\ perm' \in [Vars -> Vars] /\ perm'[xi] = perm[yi] /\ perm'[yi] = perm[xi]
          /\ \A i \in Vars : i # xi /\ i # yi => perm'[i] = perm[i]
      BY <1>1, <1>2, <1>6
    <3>5. [perm' EXCEPT ![yi] = perm'[xi], ![xi] = perm'[yi]] = perm
      <4> DEFINE back == [perm' EXCEPT ![yi] = perm'[xi], ![xi] = perm'[yi]]
      <4>1. back \in [Vars -> Vars]
        BY <1>2, <3>4
      <4>2. ASSUME NEW i \in Vars PROVE back[i] = perm[i]
        BY <1>2, <1>6, <3>4
      <4> HIDE DEF back
      <4>3. back = perm
        BY <1>2, <4>1, <4>2
      <4> QED BY <4>3 DEF back
    <3> QED BY <3>1, <3>3, <3>5
  <2> QED BY <1>2, <1>3, <2>1, <2>2
<1>8. res' = Size(dd)'
  <2>1. pc' # "swap"
    BY <1>1, <1>2
  <2>2. (keys - isolated = Size(dd))'
    <3>1. keys' = Cardinality(Live(dd')) + 1 /\ isolated' = IsolatedCount(dd)'
      BY <2>1 DEF IInv, Counts, RestCounts
    <3>2. Cardinality(Live(dd')) \in Nat /\ IsolatedCount(dd)' \in Nat
      <4>1. \A d2 : Cardinality(Live(d2)) \in Nat
        BY SizeType
      <4>2. IsolatedCount(dd)' \in Nat
        <5>1. {i \in Vars : Isolated(dd, i)' = 1} \subseteq Vars
          OBVIOUS
        <5> QED BY <5>1, VarsFinite, FS_Subset, FS_CardinalityType DEF IsolatedCount
      <4> QED BY <4>1, <4>2
    <3> QED BY <3>1, <3>2 DEF Size
  <2> QED BY <1>1, <2>2
<1>9. size' <= start'.size
  BY <1>1, <1>3 DEF Windows, Trying
<1> QED BY <1>1, <1>2, <1>3, <1>4, <1>5, <1>7, <1>8, <1>9 DEF Windows, Trying

LEMMA NextShrinking ==
  ASSUME IInv, IInv', Shrinking, [Next]_bddvars
  PROVE  Shrinking'
<1>1. CASE UNCHANGED bddvars
  <2>1. /\ UNCHANGED <<roots, vars, start>> /\ dd' = dd /\ perm' = perm /\ invperm' = invperm
        /\ pc' = pc /\ sw' = sw /\ method' = method /\ x' = x /\ size' = size /\ res' = res
    BY <1>1 DEF bddvars, table, loop, fixed
  <2> SUFFICES ASSUME method = "window2" PROVE Windows'
    BY <2>1 DEF Shrinking
  <2>2. Windows /\ Size(dd)' = Size(dd) /\ Before' = Before
    BY <2>1 DEF Shrinking, Size, IsolatedCount, Isolated, Before
  <2>3. Trying => \E d, lev, s : Past(d, lev, s)' /\ lev = Before /\ s = size
    <3> SUFFICES ASSUME Trying PROVE \E d, lev, s : Past(d, lev, s)' /\ lev = Before /\ s = size
      OBVIOUS
    <3>1. PICK d, lev, s : Past(d, lev, s) /\ lev = Before /\ s = size
      BY <2>2 DEF Windows
    <3> QED BY <2>1, <3>1, PastKept
  <2> QED BY <2>1, <2>2, <2>3 DEF Windows, Trying
<1> QED BY <1>1, LoopShrinking, BeginShrinking, ReExpressShrinking, EndShrinking DEF Next

\* window2 never leaves the table larger than the command found it, because
\* exchanging two levels twice gives back the size exactly (cuddWindow.c:235),
\* whatever nodes were freed and made on the way.
THEOREM ReorderWindowShrinks == Spec => []WindowShrinks
<1>1. ASSUME IInv, Shrinking PROVE WindowShrinks
  <2> SUFFICES ASSUME method = "window2", pc \in {"undone", "call", "move", "done"}
               PROVE  /\ pc = "undone" => res = size
                      /\ pc # "undone" => keys - isolated <= start.size
    BY DEF WindowShrinks
  <2>1. Past(dd, perm, Size(dd)) /\ keys - isolated = Size(dd)
    BY <1>1, PastNow
  <2>2. Windows
    BY <1>1 DEF Shrinking
  <2>3. ASSUME pc = "undone" PROVE res = size
    <3>1. res = Size(dd)
      BY <2>2, <2>3 DEF Windows
    <3>2. PICK d, lev, s : Past(d, lev, s) /\ lev = perm /\ s = size
      BY <2>2, <2>3 DEF Windows, Trying, Before
    <3>3. s = Size(dd)
      BY <2>1, <3>2, PastSize
    <3> QED BY <3>1, <3>2, <3>3
  <2>4. ASSUME pc # "undone" PROVE keys - isolated <= start.size
    BY <2>1, <2>2, <2>4 DEF Windows
  <2> QED BY <2>3, <2>4
<1> QED BY <1>1, SpecInv, InitShrinking, NextShrinking, PTL DEF Spec
================================================================================
