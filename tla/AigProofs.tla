------------------------------- MODULE AigProofs -------------------------------
(***************************************************************************)
(* The invariants of Aig, for any number of inputs and any networks.       *)
(*                                                                         *)
(* Network says what a graph is at every turn of every loop: the two ends  *)
(* of its edges agree, objects have the fanins of their type, the table    *)
(* holds the ANDs under ordered children that no two share, the EXOR       *)
(* status is that of the fanins.  Manager adds that the stack and the two  *)
(* lists lead to objects that are there, at the level they have.  Each     *)
(* procedure of abcAig.c has a lemma that it keeps these; a loop keeps     *)
(* what its body keeps, by the theorem of Folding.                         *)
(*                                                                         *)
(* The last part is about what the nodes compute: a Model says for each    *)
(* node whether it is true, and steps keep the models.                     *)
(***************************************************************************)
EXTENDS Aig, SequenceTheorems, FiniteSetTheorems, TLAPS

\* The facts of Folding that are about no loop.
Numbers == INSTANCE Folding WITH Op <- LAMBDA e, m, x : m, Inv <- LAMBDA e, k, m : TRUE

-----------------------------------------------------------------------------
(* Sequences, of members of any set. *)

IsSeq(s) == \E S : s \in Seq(S)

\* A sequence of whatever members.
LEMMA SeqIs == ASSUME NEW S, NEW s \in Seq(S) PROVE IsSeq(s)
BY DEF IsSeq

\* Its length and domain; it is empty when it has no members.
LEMMA SeqShape ==
  ASSUME NEW s, IsSeq(s)
  PROVE  /\ Len(s) \in Nat /\ DOMAIN s = 1 .. Len(s)
         /\ s = <<>> <=> Len(s) = 0
         /\ s = <<>> <=> ToSet(s) = {}
<1>1. PICK S : s \in Seq(S)
  BY DEF IsSeq
<1>2. Len(s) \in Nat /\ DOMAIN s = 1 .. Len(s)
  BY <1>1
<1>3. s = <<>> <=> Len(s) = 0
  BY <1>1
<1>4. s # <<>> => s[1] \in ToSet(s)
  BY <1>2, <1>3 DEF ToSet
<1>5. s = <<>> => ToSet(s) = {}
  BY <1>2, <1>3 DEF ToSet
<1> QED BY <1>2, <1>3, <1>4, <1>5

\* What Append leaves where it was, and adds.
LEMMA AppendShape ==
  ASSUME NEW s, IsSeq(s), NEW x
  PROVE  /\ IsSeq(Append(s, x)) /\ Len(Append(s, x)) = Len(s) + 1
         /\ \A i \in 1 .. Len(s) : Append(s, x)[i] = s[i]
         /\ Append(s, x)[Len(s) + 1] = x
         /\ ToSet(Append(s, x)) = ToSet(s) \cup {x}
<1>1. PICK S : s \in Seq(S)
  BY DEF IsSeq
<1>2. s \in Seq(S \cup {x})
  BY <1>1, SeqMonotonic
<1>3. /\ Append(s, x) \in Seq(S \cup {x}) /\ Len(Append(s, x)) = Len(s) + 1
      /\ \A i \in 1 .. Len(s) : Append(s, x)[i] = s[i]
      /\ Append(s, x)[Len(s) + 1] = x
  BY <1>2, AppendProperties
<1>4. DOMAIN Append(s, x) = 1 .. Len(s) + 1 /\ DOMAIN s = 1 .. Len(s) /\ Len(s) \in Nat
  BY <1>2, <1>3, LenProperties
<1>5. ToSet(Append(s, x)) = ToSet(s) \cup {x}
  BY <1>3, <1>4 DEF ToSet
<1> QED BY <1>3, <1>5 DEF IsSeq

\* A fanout that is not in a list yet does not make it repeat one.
LEMMA AppendInjective1 ==
  ASSUME NEW s, IsSeq(s), IsInjective(s), NEW x, x \notin ToSet(s)
  PROVE  IsInjective(Append(s, x))
<1>1. /\ Len(s) \in Nat /\ DOMAIN s = 1 .. Len(s)
      /\ DOMAIN Append(s, x) = 1 .. Len(s) + 1
      /\ \A i \in 1 .. Len(s) : Append(s, x)[i] = s[i]
      /\ Append(s, x)[Len(s) + 1] = x
  BY SeqShape, AppendShape
<1>2. \A i \in 1 .. Len(s) : s[i] # x
  BY <1>1 DEF ToSet
<1> QED BY <1>1, <1>2 DEF IsInjective

\* RemoveAt, and RemoveFirst where there is something to remove.
Without(s, i) == [j \in 1 .. Len(s) - 1 |-> IF j < i THEN s[j] ELSE s[j + 1]]

\* What is left when one place of a sequence is taken out.
LEMMA RemoveAtShape ==
  ASSUME NEW S, NEW s \in Seq(S), NEW i \in 1 .. Len(s)
  PROVE  RemoveAt(s, i) \in Seq(S) /\ RemoveAt(s, i) = Without(s, i)
<1> DEFINE a == SubSeq(s, 1, i - 1)
           b == SubSeq(s, i + 1, Len(s))
<1>1. Len(s) \in Nat /\ \A j \in 1 .. Len(s) : s[j] \in S
  BY ElementOfSeq, LenProperties
<1>2. a \in Seq(S) /\ Len(a) = i - 1 /\ \A j \in 1 .. i - 1 : a[j] = s[j]
  <2>1. i - 1 \in Int /\ \A j \in 1 .. i - 1 : s[j] \in S
    BY <1>1
  <2>2. /\ a \in Seq(S) /\ Len(a) = IF 1 <= i - 1 THEN i - 1 - 1 + 1 ELSE 0
        /\ \A j \in 1 .. i - 1 - 1 + 1 : a[j] = s[1 + j - 1]
    BY <2>1, SubSeqProperties
  <2>3. \A j \in 1 .. i - 1 : j \in 1 .. i - 1 - 1 + 1 /\ 1 + j - 1 = j
    OBVIOUS
  <2> QED BY <2>2, <2>3
<1>3. b \in Seq(S) /\ Len(b) = Len(s) - i /\ \A j \in 1 .. Len(s) - i : b[j] = s[i + j]
  <2>1. i + 1 \in Int /\ Len(s) \in Int /\ \A j \in i + 1 .. Len(s) : s[j] \in S
    BY <1>1
  <2>2. /\ b \in Seq(S) /\ Len(b) = IF i + 1 <= Len(s) THEN Len(s) - (i + 1) + 1 ELSE 0
        /\ \A j \in 1 .. Len(s) - (i + 1) + 1 : b[j] = s[i + 1 + j - 1]
    BY <2>1, SubSeqProperties
  <2>3. \A j \in 1 .. Len(s) - i : j \in 1 .. Len(s) - (i + 1) + 1 /\ i + 1 + j - 1 = i + j
    BY <1>1
  <2> QED BY <1>1, <2>2, <2>3
<1>4. RemoveAt(s, i) = a \o b
  BY DEF RemoveAt
<1>5. /\ a \o b \in Seq(S) /\ Len(a \o b) = Len(s) - 1
      /\ \A j \in 1 .. Len(s) - 1 : (a \o b)[j] = IF j <= i - 1 THEN a[j] ELSE b[j - (i - 1)]
  <2> HIDE DEF a, b
  <2>1. /\ a \o b \in Seq(S) /\ Len(a \o b) = Len(a) + Len(b)
        /\ \A j \in 1 .. Len(a) + Len(b) : (a \o b)[j] = IF j <= Len(a) THEN a[j] ELSE b[j - Len(a)]
    BY <1>2, <1>3, ConcatProperties
  <2>2. Len(a) + Len(b) = Len(s) - 1
    BY <1>1, <1>2, <1>3
  <2> QED BY <2>1, <2>2, <1>2
<1>6. \A j \in 1 .. Len(s) - 1 : (a \o b)[j] = IF j < i THEN s[j] ELSE s[j + 1]
  <2> SUFFICES ASSUME NEW j \in 1 .. Len(s) - 1
               PROVE  (a \o b)[j] = IF j < i THEN s[j] ELSE s[j + 1]
    OBVIOUS
  <2> HIDE DEF a, b
  <2>1. CASE j < i
    BY <2>1, <1>1, <1>2, <1>5
  <2>2. CASE ~(j < i)
    <3>1. j - (i - 1) \in 1 .. Len(s) - i /\ i + (j - (i - 1)) = j + 1
      BY <2>2, <1>1
    <3> QED BY <2>2, <3>1, <1>1, <1>3, <1>5
  <2> QED BY <2>1, <2>2
<1>7. DOMAIN (a \o b) = 1 .. Len(s) - 1 /\ a \o b = [j \in DOMAIN (a \o b) |-> (a \o b)[j]]
  <2> HIDE DEF a, b
  <2>1. a \o b \in [1 .. Len(a \o b) -> S]
    BY <1>5, LenProperties
  <2> QED BY <2>1, <1>5
<1> HIDE DEF a, b
<1> QED BY <1>4, <1>5, <1>6, <1>7 DEF Without

\* Removing a member of a list without repetitions takes out just that one.
LEMMA RemoveFirstShape ==
  ASSUME NEW s, IsSeq(s), NEW x
  PROVE  /\ x \notin ToSet(s) => RemoveFirst(s, x) = s
         /\ x \in ToSet(s) => /\ IsSeq(RemoveFirst(s, x))
                              /\ \E i \in 1 .. Len(s) : s[i] = x /\ RemoveFirst(s, x) = Without(s, i)
         /\ IsSeq(RemoveFirst(s, x))
<1>1. PICK S : s \in Seq(S)
  BY DEF IsSeq
<1> DEFINE I == {i \in 1 .. Len(s) : s[i] = x}
<1>2. Len(s) \in Nat /\ DOMAIN s = 1 .. Len(s) /\ x \in ToSet(s) <=> I # {}
  BY <1>1, LenProperties DEF ToSet
<1>3. I # {} => Min(I) \in I
  <2> SUFFICES ASSUME I # {} PROVE Min(I) \in I
    OBVIOUS
  <2>1. I \in SUBSET Nat
    BY <1>2
  <2>2. PICK k \in I : \A j \in I : k <= j
    <3> HIDE DEF I
    <3> QED BY <2>1, Numbers!SmallestIn
  <2>3. \E n \in I : \A j \in I : n =< j
    BY <2>2
  <2> HIDE DEF I
  <2> QED BY <2>3 DEF Min
<1>4. RemoveFirst(s, x) = IF I # {} THEN RemoveAt(s, Min(I)) ELSE s
  <2>1. SelectInSeq(s, LAMBDA v : v = x) = IF I # {} THEN Min(I) ELSE 0
    BY DEF SelectInSeq
  <2>2. (\E i \in 1 .. Len(s) : s[i] = x) <=> I # {}
    OBVIOUS
  <2> HIDE DEF I
  <2> QED BY <2>1, <2>2 DEF RemoveFirst
<1>5. ASSUME I # {}
      PROVE  /\ IsSeq(RemoveFirst(s, x))
             /\ \E i \in 1 .. Len(s) : s[i] = x /\ RemoveFirst(s, x) = Without(s, i)
  <2>1. Min(I) \in 1 .. Len(s) /\ s[Min(I)] = x
    BY <1>3, <1>5
  <2>2. RemoveFirst(s, x) = RemoveAt(s, Min(I))
    BY <1>4, <1>5
  <2> HIDE DEF I
  <2> QED BY <1>1, <2>1, <2>2, RemoveAtShape DEF IsSeq
<1> HIDE DEF I
<1> QED BY <1>2, <1>4, <1>5

\* A sequence without repetitions loses just the one member.
LEMMA RemoveFirstOnce ==
  ASSUME NEW s, IsSeq(s), IsInjective(s), NEW x
  PROVE  /\ IsSeq(RemoveFirst(s, x)) /\ IsInjective(RemoveFirst(s, x))
         /\ ToSet(RemoveFirst(s, x)) = ToSet(s) \ {x}
<1>1. CASE x \notin ToSet(s)
  BY <1>1, RemoveFirstShape
<1>2. CASE x \in ToSet(s)
  <2>1. PICK i \in 1 .. Len(s) : s[i] = x /\ RemoveFirst(s, x) = Without(s, i)
    BY <1>2, RemoveFirstShape
  <2>2. Len(s) \in Nat /\ DOMAIN s = 1 .. Len(s)
    BY SeqShape
  <2> DEFINE r == Without(s, i)
  <2>3. DOMAIN r = 1 .. Len(s) - 1 /\ \A j \in 1 .. Len(s) - 1 : r[j] = s[IF j < i THEN j ELSE j + 1]
    BY DEF Without
  <2>4. IsInjective(r)
    <3> HIDE DEF r
    <3> SUFFICES ASSUME NEW a \in 1 .. Len(s) - 1, NEW b \in 1 .. Len(s) - 1, r[a] = r[b]
                 PROVE  a = b
      BY <2>3 DEF IsInjective
    <3>1. (IF a < i THEN a ELSE a + 1) \in 1 .. Len(s) /\ (IF b < i THEN b ELSE b + 1) \in 1 .. Len(s)
      BY <2>2
    <3>2. (IF a < i THEN a ELSE a + 1) = IF b < i THEN b ELSE b + 1
      BY <2>2, <2>3, <3>1 DEF IsInjective
    <3> QED BY <3>2, <2>2
  <2>5. ASSUME NEW y \in ToSet(r) PROVE y \in ToSet(s) /\ y # x
    <3> HIDE DEF r
    <3>1. PICK j \in 1 .. Len(s) - 1 : y = r[j]
      BY <2>3, <2>5 DEF ToSet
    <3>2. (IF j < i THEN j ELSE j + 1) \in 1 .. Len(s) /\ (IF j < i THEN j ELSE j + 1) # i
      BY <2>2
    <3> QED BY <2>1, <2>2, <2>3, <3>1, <3>2 DEF ToSet, IsInjective
  <2>6. ASSUME NEW y \in ToSet(s), y # x PROVE y \in ToSet(r)
    <3> HIDE DEF r
    <3>1. PICK j \in 1 .. Len(s) : y = s[j]
      BY <2>2, <2>6 DEF ToSet
    <3>2. j # i
      BY <2>1, <2>6, <3>1
    <3>3. CASE j < i
      <4>1. j \in 1 .. Len(s) - 1 /\ r[j] = y
        BY <2>2, <2>3, <3>1, <3>3
      <4> QED BY <4>1, <2>3 DEF ToSet
    <3>4. CASE j > i
      <4>1. j - 1 \in 1 .. Len(s) - 1 /\ ~(j - 1 < i) /\ j - 1 + 1 = j
        BY <2>2, <3>4
      <4>2. r[j - 1] = y
        BY <4>1, <2>3, <3>1
      <4> QED BY <4>1, <4>2, <2>3 DEF ToSet
    <3> QED BY <3>2, <3>3, <3>4
  <2>7. ToSet(r) = ToSet(s) \ {x}
    <3> HIDE DEF r
    <3> QED BY <2>5, <2>6
  <2>8. RemoveFirst(s, x) = r /\ IsSeq(RemoveFirst(s, x))
    BY <2>1, <1>2, RemoveFirstShape
  <2> HIDE DEF r
  <2> QED BY <2>4, <2>7, <2>8
<1> QED BY <1>1, <1>2

\* RemoveFirst leaves a sequence of members that were there.
LEMMA RemoveFirstSeq ==
  ASSUME NEW S, NEW s \in Seq(S), NEW x
  PROVE  RemoveFirst(s, x) \in Seq(S)
<1>1. CASE x \notin ToSet(s)
  BY <1>1, SeqIs, RemoveFirstShape
<1>2. CASE x \in ToSet(s)
  <2>1. PICK i \in 1 .. Len(s) : RemoveFirst(s, x) = Without(s, i)
    BY <1>2, SeqIs, RemoveFirstShape
  <2> QED BY <2>1, RemoveAtShape
<1> QED BY <1>1, <1>2

-----------------------------------------------------------------------------
(* Managers and their edges. *)

IsObject(o) ==
    /\ DOMAIN o = {"type", "fanins", "fanouts", "level", "rlevel", "exor"}
    /\ o.type \in {"const1", "pi", "po", "and", "none"}
    /\ o.fanins \in Seq(Nat) /\ o.fanouts \in Seq(Nat) /\ o.exor \in BOOLEAN

Shape(m) ==
    /\ DOMAIN m = {"obj", "table", "stack", "vLevels", "vLevelsR"}
    /\ Size(m) \in Nat /\ DOMAIN m.obj = 0 .. Size(m) - 1
    /\ \A n \in DOMAIN m.obj : IsObject(m.obj[n])

Wired(m) ==
    \A n \in DOMAIN m.obj :
        /\ IsInjective(m.obj[n].fanouts)
        /\ ToSet(m.obj[n].fanouts) = {k \in DOMAIN m.obj : n \in Fanins(m, k)}
        /\ Fanins(m, n) \subseteq Objs(m)

\* The other parts of the manager are as they were.
SameLists(m, q) == /\ q.table = m.table /\ q.stack = m.stack
                   /\ q.vLevels = m.vLevels /\ q.vLevelsR = m.vLevelsR

\* What is not an edge of object k.
SameData(m, q, k) == /\ q.obj[k].type = m.obj[k].type /\ q.obj[k].level = m.obj[k].level
                     /\ q.obj[k].rlevel = m.obj[k].rlevel /\ q.obj[k].exor = m.obj[k].exor

\* Literals: node, complement and their combinations (Abc_ObjRegular, Abc_ObjNotCond).
LEMMA Regulars ==
  ASSUME NEW n \in Nat, NEW c \in {0, 1}, NEW l \in Nat
  PROVE  /\ Regular(l) \in Nat /\ Compl(l) \in {0, 1} /\ l = Lit(Regular(l), Compl(l))
         /\ Lit(n, c) \in Nat /\ Regular(Lit(n, c)) = n /\ Compl(Lit(n, c)) = c
         /\ NotCond(l, c) \in Nat /\ Regular(NotCond(l, c)) = Regular(l)
         /\ Compl(NotCond(l, c)) = (Compl(l) + c) % 2
BY DEF Regular, Compl, Lit, NotCond

\* The number of objects is one more than the largest Id.
LEMMA SizeOf ==
  ASSUME NEW m, NEW N \in Nat, DOMAIN m.obj = 0 .. N - 1
  PROVE  Size(m) = N
<1>1. Cardinality(0 .. N - 1) = N
  BY FS_Interval
<1> QED BY <1>1 DEF Size

\* Each object has the fields of an object.
LEMMA ShapeObject ==
  ASSUME NEW m, Shape(m), NEW n \in DOMAIN m.obj
  PROVE  /\ n \in Nat /\ IsObject(m.obj[n])
         /\ m.obj[n].fanins \in Seq(Nat) /\ m.obj[n].fanouts \in Seq(Nat)
         /\ IsSeq(m.obj[n].fanins) /\ IsSeq(m.obj[n].fanouts)
         /\ Fanins(m, n) \in SUBSET Nat
<1>1. n \in Nat /\ IsObject(m.obj[n])
  BY DEF Shape
<1>2. m.obj[n].fanins \in Seq(Nat) /\ m.obj[n].fanouts \in Seq(Nat)
  BY <1>1 DEF IsObject
<1>3. IsSeq(m.obj[n].fanins) /\ IsSeq(m.obj[n].fanouts)
  BY <1>2, SeqIs
<1>4. \A l \in ToSet(m.obj[n].fanins) : Regular(l) \in Nat
  <2>1. \A i \in DOMAIN m.obj[n].fanins : m.obj[n].fanins[i] \in Nat
    BY <1>2
  <2>2. \A l \in Nat : Regular(l) \in Nat
    BY DEF Regular
  <2> QED BY <2>1, <2>2 DEF ToSet
<1> QED BY <1>1, <1>2, <1>3, <1>4 DEF Fanins

\* Abc_ObjAddFanin keeps the two ends of the edges in agreement.
LEMMA AddFaninEdges ==
  ASSUME NEW m, Shape(m), Wired(m), NEW n \in DOMAIN m.obj, NEW l \in Nat,
         Regular(l) \in Objs(m), Regular(l) \notin Fanins(m, n)
  PROVE  LET q == AddFanin(m, n, l)
         IN  /\ Shape(q) /\ Wired(q) /\ DOMAIN q.obj = DOMAIN m.obj /\ SameLists(m, q)
             /\ \A k \in DOMAIN m.obj : SameData(m, q, k)
             /\ \A k \in DOMAIN m.obj \ {n} : q.obj[k].fanins = m.obj[k].fanins
             /\ q.obj[n].fanins = Append(m.obj[n].fanins, l)
<1> DEFINE q == AddFanin(m, n, l)
           r == Regular(l)
<1>1. r \in DOMAIN m.obj
  BY DEF Objs
<1>2. /\ DOMAIN q = DOMAIN m /\ SameLists(m, q) /\ DOMAIN q.obj = DOMAIN m.obj
      /\ \A k \in DOMAIN m.obj :
            /\ DOMAIN q.obj[k] = DOMAIN m.obj[k] /\ SameData(m, q, k)
            /\ q.obj[k].fanins = IF k = n THEN Append(m.obj[k].fanins, l) ELSE m.obj[k].fanins
            /\ q.obj[k].fanouts = IF k = r THEN Append(m.obj[k].fanouts, n) ELSE m.obj[k].fanouts
  <2> DEFINE a == Append(m.obj[n].fanins, l)
             b == Append(m.obj[r].fanouts, n)
             mid == [m EXCEPT !.obj[n].fanins = a]
  <2>1. /\ DOMAIN mid = DOMAIN m /\ SameLists(m, mid) /\ DOMAIN mid.obj = DOMAIN m.obj
        /\ \A k \in DOMAIN m.obj :
              /\ DOMAIN mid.obj[k] = DOMAIN m.obj[k] /\ SameData(m, mid, k)
              /\ mid.obj[k].fanins = IF k = n THEN a ELSE m.obj[k].fanins
              /\ mid.obj[k].fanouts = m.obj[k].fanouts
    <3> HIDE DEF a
    <3> QED BY ShapeObject DEF Shape, IsObject, SameLists, SameData
  <2>2. q = [mid EXCEPT !.obj[r].fanouts = b]
    <3> HIDE DEF a
    <3>1. mid.obj[r].fanouts = m.obj[r].fanouts
      BY <1>1, <2>1
    <3> QED BY <3>1 DEF AddFanin, a
  <2> HIDE DEF mid, q, a
  <2>3. /\ DOMAIN q = DOMAIN mid /\ SameLists(mid, q) /\ DOMAIN q.obj = DOMAIN mid.obj
        /\ \A k \in DOMAIN mid.obj :
              /\ DOMAIN q.obj[k] = DOMAIN mid.obj[k] /\ SameData(mid, q, k)
              /\ q.obj[k].fanins = mid.obj[k].fanins
              /\ q.obj[k].fanouts = IF k = r THEN b ELSE mid.obj[k].fanouts
    <3> HIDE DEF b
    <3> QED BY <1>1, <2>1, <2>2, ShapeObject DEF Shape, IsObject, SameLists, SameData
  <2> QED BY <2>1, <2>3 DEF SameLists, SameData, a
<1> HIDE DEF q
<1>3. ASSUME NEW k \in DOMAIN m.obj PROVE IsObject(q.obj[k])
  <2>1. IsObject(m.obj[k])
    BY ShapeObject
  <2>2. /\ Append(m.obj[k].fanins, l) \in Seq(Nat) /\ m.obj[k].fanins \in Seq(Nat)
        /\ Append(m.obj[k].fanouts, n) \in Seq(Nat) /\ m.obj[k].fanouts \in Seq(Nat)
    BY ShapeObject, AppendProperties
  <2>3. q.obj[k].fanins \in Seq(Nat) /\ q.obj[k].fanouts \in Seq(Nat)
    BY <1>2, <2>2
  <2>4. DOMAIN q.obj[k] = DOMAIN m.obj[k] /\ q.obj[k].type = m.obj[k].type
        /\ q.obj[k].exor = m.obj[k].exor
    BY <1>2 DEF SameData
  <2> QED BY <2>1, <2>3, <2>4 DEF IsObject
<1>4. Shape(q)
  <2>1. Size(q) = Size(m)
    BY <1>2 DEF Size
  <2> QED BY <1>2, <1>3, <2>1 DEF Shape
<1>5. \A k \in DOMAIN m.obj : Fanins(q, k) = IF k = n THEN Fanins(m, k) \cup {r} ELSE Fanins(m, k)
  <2> SUFFICES ASSUME NEW k \in DOMAIN m.obj
               PROVE  Fanins(q, k) = IF k = n THEN Fanins(m, k) \cup {r} ELSE Fanins(m, k)
    OBVIOUS
  <2>1. ToSet(q.obj[k].fanins) = IF k = n THEN ToSet(m.obj[k].fanins) \cup {l} ELSE ToSet(m.obj[k].fanins)
    <3>1. IsSeq(m.obj[k].fanins)
      BY ShapeObject
    <3>2. ToSet(Append(m.obj[k].fanins, l)) = ToSet(m.obj[k].fanins) \cup {l}
      BY <3>1, AppendShape
    <3> QED BY <1>2, <3>2
  <2> QED BY <2>1 DEF Fanins
<1>6. Objs(q) = Objs(m)
  BY <1>2 DEF Objs, SameData
<1>7. ASSUME NEW k \in DOMAIN m.obj
      PROVE  /\ IsInjective(q.obj[k].fanouts)
             /\ ToSet(q.obj[k].fanouts) = {j \in DOMAIN q.obj : k \in Fanins(q, j)}
             /\ Fanins(q, k) \subseteq Objs(q)
  <2>1. /\ IsInjective(m.obj[k].fanouts) /\ IsSeq(m.obj[k].fanouts)
        /\ ToSet(m.obj[k].fanouts) = {j \in DOMAIN m.obj : k \in Fanins(m, j)}
        /\ Fanins(m, k) \subseteq Objs(m)
    BY ShapeObject DEF Wired
  <2>2. k = r => n \notin ToSet(m.obj[k].fanouts)
    BY <2>1
  <2>3. IsInjective(q.obj[k].fanouts)
    BY <1>2, <2>1, <2>2, AppendInjective1
  <2>4. ToSet(q.obj[k].fanouts) = IF k = r THEN ToSet(m.obj[k].fanouts) \cup {n} ELSE ToSet(m.obj[k].fanouts)
    BY <1>2, <2>1, AppendShape
  <2>5. ToSet(q.obj[k].fanouts) = {j \in DOMAIN q.obj : k \in Fanins(q, j)}
    BY <1>2, <1>5, <2>1, <2>4
  <2> QED BY <1>5, <1>6, <2>1, <2>3, <2>5
<1>8. Wired(q)
  BY <1>2, <1>7 DEF Wired
<1> QED BY <1>2, <1>4, <1>8 DEF q

\* Abc_ObjRemoveFanins keeps the two ends of the edges in agreement.
LEMMA RemoveFaninsEdges ==
  ASSUME NEW m, Shape(m), Wired(m), NEW n \in DOMAIN m.obj
  PROVE  LET q == RemoveFanins(m, n)
         IN  /\ Shape(q) /\ Wired(q) /\ DOMAIN q.obj = DOMAIN m.obj /\ SameLists(m, q)
             /\ \A k \in DOMAIN m.obj : SameData(m, q, k)
             /\ \A k \in DOMAIN m.obj \ {n} : q.obj[k].fanins = m.obj[k].fanins
             /\ q.obj[n].fanins = <<>>
<1> DEFINE q == RemoveFanins(m, n)
<1>2. /\ DOMAIN q = DOMAIN m /\ SameLists(m, q) /\ DOMAIN q.obj = DOMAIN m.obj
      /\ \A k \in DOMAIN m.obj :
            /\ DOMAIN q.obj[k] = DOMAIN m.obj[k] /\ SameData(m, q, k)
            /\ q.obj[k].fanins = IF k = n THEN <<>> ELSE m.obj[k].fanins
            /\ q.obj[k].fanouts = IF k \in Fanins(m, n) THEN RemoveFirst(m.obj[k].fanouts, n)
                                  ELSE m.obj[k].fanouts
  <2> DEFINE left == [k \in DOMAIN m.obj |->
                        IF k \in Fanins(m, n)
                        THEN [m.obj[k] EXCEPT !.fanouts = RemoveFirst(m.obj[k].fanouts, n)]
                        ELSE m.obj[k]]
             moved == [left EXCEPT ![n].fanins = <<>>]
  <2>1. /\ DOMAIN left = DOMAIN m.obj
        /\ \A k \in DOMAIN m.obj :
              /\ DOMAIN left[k] = DOMAIN m.obj[k] /\ left[k].fanins = m.obj[k].fanins
              /\ left[k].type = m.obj[k].type /\ left[k].exor = m.obj[k].exor
              /\ left[k].level = m.obj[k].level /\ left[k].rlevel = m.obj[k].rlevel
              /\ left[k].fanouts = IF k \in Fanins(m, n) THEN RemoveFirst(m.obj[k].fanouts, n)
                                   ELSE m.obj[k].fanouts
    BY ShapeObject DEF IsObject
  <2> HIDE DEF left
  <2>2. /\ DOMAIN moved = DOMAIN m.obj
        /\ \A k \in DOMAIN m.obj :
              /\ DOMAIN moved[k] = DOMAIN m.obj[k]
              /\ moved[k].fanins = IF k = n THEN <<>> ELSE m.obj[k].fanins
              /\ moved[k].type = m.obj[k].type /\ moved[k].exor = m.obj[k].exor
              /\ moved[k].level = m.obj[k].level /\ moved[k].rlevel = m.obj[k].rlevel
              /\ moved[k].fanouts = left[k].fanouts
    BY <2>1, ShapeObject DEF IsObject
  <2> HIDE DEF moved
  <2>3. q = [m EXCEPT !.obj = moved]
    BY DEF RemoveFanins, moved, left
  <2> QED BY <2>1, <2>2, <2>3 DEF Shape, SameLists, SameData
<1> HIDE DEF q
<1>3. ASSUME NEW k \in DOMAIN m.obj PROVE IsObject(q.obj[k])
  <2>1. IsObject(m.obj[k])
    BY ShapeObject
  <2>2. q.obj[k].fanouts \in Seq(Nat)
    BY <1>2, ShapeObject, RemoveFirstSeq, SMTT(30)
  <2>3. q.obj[k].fanins \in Seq(Nat)
    BY <1>2, ShapeObject, EmptySeq
  <2> QED BY <1>2, <2>1, <2>2, <2>3 DEF IsObject, SameData
<1>4. Shape(q)
  <2>1. Size(q) = Size(m)
    BY <1>2 DEF Size
  <2> QED BY <1>2, <1>3, <2>1 DEF Shape
<1>5. \A k \in DOMAIN m.obj : Fanins(q, k) = IF k = n THEN {} ELSE Fanins(m, k)
  <2>1. ToSet(<<>>) = {}
    BY DEF ToSet
  <2> QED BY <1>2, <2>1 DEF Fanins
<1>6. Objs(q) = Objs(m)
  BY <1>2 DEF Objs, SameData
<1>7. ASSUME NEW k \in DOMAIN m.obj
      PROVE  /\ IsInjective(q.obj[k].fanouts)
             /\ ToSet(q.obj[k].fanouts) = {j \in DOMAIN q.obj : k \in Fanins(q, j)}
             /\ Fanins(q, k) \subseteq Objs(q)
  <2>1. /\ IsInjective(m.obj[k].fanouts) /\ IsSeq(m.obj[k].fanouts)
        /\ ToSet(m.obj[k].fanouts) = {j \in DOMAIN m.obj : k \in Fanins(m, j)}
        /\ Fanins(m, k) \subseteq Objs(m)
    BY ShapeObject DEF Wired
  <2>2. k \notin Fanins(m, n) => n \notin ToSet(m.obj[k].fanouts)
    BY <2>1
  <2>3. /\ IsInjective(q.obj[k].fanouts)
        /\ ToSet(q.obj[k].fanouts) = ToSet(m.obj[k].fanouts) \ {n}
    BY <1>2, <2>1, <2>2, RemoveFirstOnce
  <2>5. ToSet(q.obj[k].fanouts) = {j \in DOMAIN q.obj : k \in Fanins(q, j)}
    BY <1>2, <1>5, <2>1, <2>3
  <2> QED BY <1>5, <1>6, <2>1, <2>3, <2>5
<1>8. Wired(q)
  BY <1>2, <1>7 DEF Wired
<1> QED BY <1>2, <1>4, <1>8 DEF q

-----------------------------------------------------------------------------
(* The network: types, the table, the EXOR status. *)

Typed(m) ==
    /\ NumPi < Size(m)
    /\ \A n \in DOMAIN m.obj :
          /\ m.obj[n].type = "const1" <=> n = 0
          /\ m.obj[n].type = "pi" <=> n \in 1 .. NumPi
          /\ m.obj[n].type = "and" => Len(m.obj[n].fanins) = 2
          /\ m.obj[n].type = "po" => Len(m.obj[n].fanins) = 1
          /\ m.obj[n].type \notin {"and", "po"} => Len(m.obj[n].fanins) = 0

\* With as many fanins as arity says for the outputs: none before they are connected.
TypedAs(m, arity) ==
    /\ NumPi < Size(m)
    /\ \A n \in DOMAIN m.obj :
          /\ m.obj[n].type = "const1" <=> n = 0
          /\ m.obj[n].type = "pi" <=> n \in 1 .. NumPi
          /\ m.obj[n].type = "and" => Len(m.obj[n].fanins) = 2
          /\ m.obj[n].type = "po" => Len(m.obj[n].fanins) = arity
          /\ m.obj[n].type \notin {"and", "po"} => Len(m.obj[n].fanins) = 0

Canonical(m) ==
    /\ m.table = Ands(m)
    /\ \A n \in m.table : /\ Regular(m.obj[n].fanins[1]) > 0
                          /\ Regular(m.obj[n].fanins[1]) < Regular(m.obj[n].fanins[2])
    /\ \A n, k \in m.table : m.obj[n].fanins = m.obj[k].fanins => n = k

ExorOK(m) == \A n \in Ands(m) : m.obj[n].exor = IsExorType(m, n)

NetworkAs(m, arity) == Shape(m) /\ Wired(m) /\ TypedAs(m, arity) /\ Canonical(m) /\ ExorOK(m)

Network(m) == Shape(m) /\ Wired(m) /\ Typed(m) /\ Canonical(m) /\ ExorOK(m)

\* A sequence of length two is the pair of its members.
LEMMA PairSeq ==
  ASSUME NEW S, NEW c \in Seq(S), Len(c) = 2
  PROVE  DOMAIN c = 1 .. 2 /\ c[1] \in S /\ c[2] \in S /\ c = <<c[1], c[2]>> /\ ToSet(c) = {c[1], c[2]}
<1>1. DOMAIN c = 1 .. 2 /\ c[1] \in S /\ c[2] \in S
  OBVIOUS
<1>2. <<c[1], c[2]>> \in Seq(S) /\ Len(<<c[1], c[2]>>) = 2
  BY <1>1
<1>3. \A i \in 1 .. Len(c) : c[i] = <<c[1], c[2]>>[i]
  OBVIOUS
<1>4. c = <<c[1], c[2]>>
  BY <1>2, <1>3, SeqEqual
<1>5. ToSet(c) = {c[1], c[2]}
  BY <1>1 DEF ToSet
<1> QED BY <1>1, <1>4, <1>5

\* The second fanin appended to the first.
LEMMA PairAppend ==
  ASSUME NEW S, NEW a \in S, NEW b \in S
  PROVE  Append(<<a>>, b) = <<a, b>>
<1>1. <<a>> \in Seq(S) /\ <<a, b>> \in Seq(S)
  OBVIOUS
<1>2. /\ Append(<<a>>, b) \in Seq(S) /\ Len(Append(<<a>>, b)) = 2
      /\ Append(<<a>>, b)[1] = a /\ Append(<<a>>, b)[2] = b
  BY <1>1, AppendProperties
<1> QED BY <1>2, PairSeq

\* The EXOR status depends on the fanins of a node and of its fanins only.
LEMMA ExorSame ==
  ASSUME NEW m, NEW q, NEW n, q.obj[n].type = m.obj[n].type, q.obj[n].fanins = m.obj[n].fanins,
         q.obj[Regular(m.obj[n].fanins[1])].fanins = m.obj[Regular(m.obj[n].fanins[1])].fanins,
         q.obj[Regular(m.obj[n].fanins[2])].fanins = m.obj[Regular(m.obj[n].fanins[2])].fanins
  PROVE  IsExorType(q, n) = IsExorType(m, n)
BY DEF IsExorType

\* The EXOR status is true or false.
LEMMA ExorBoolean == ASSUME NEW m, NEW n PROVE IsExorType(m, n) \in BOOLEAN
BY DEF IsExorType

\* The two fanins of an AND, and the one of an output.
LEMMA ChildrenAs ==
  ASSUME NEW m, NEW arity, Shape(m), Wired(m), TypedAs(m, arity), NEW n \in Ands(m)
  PROVE  /\ n \in DOMAIN m.obj /\ DOMAIN m.obj[n].fanins = 1 .. 2
         /\ \A i \in 1 .. 2 : /\ m.obj[n].fanins[i] \in Nat
                              /\ Regular(m.obj[n].fanins[i]) \in Objs(m)
         /\ Fanins(m, n) = {Regular(m.obj[n].fanins[1]), Regular(m.obj[n].fanins[2])}
         /\ m.obj[n].fanins = <<m.obj[n].fanins[1], m.obj[n].fanins[2]>>
<1> DEFINE c == m.obj[n].fanins
<1>1. n \in DOMAIN m.obj /\ c \in Seq(Nat) /\ Len(c) = 2
  BY ShapeObject DEF Ands, TypedAs
<1>2. /\ DOMAIN c = 1 .. 2 /\ c[1] \in Nat /\ c[2] \in Nat /\ c = <<c[1], c[2]>>
      /\ ToSet(c) = {c[1], c[2]}
  <2> HIDE DEF c
  <2> QED BY <1>1, PairSeq
<1>3. Fanins(m, n) = {Regular(c[1]), Regular(c[2])}
  BY <1>2 DEF Fanins
<1>4. Fanins(m, n) \subseteq Objs(m)
  BY <1>1 DEF Wired
<1> QED BY <1>1, <1>2, <1>3, <1>4

\* The two children of an AND of a network.
LEMMA Children ==
  ASSUME NEW m, Shape(m), Wired(m), Typed(m), NEW n \in Ands(m)
  PROVE  /\ n \in DOMAIN m.obj /\ DOMAIN m.obj[n].fanins = 1 .. 2
         /\ \A i \in 1 .. 2 : /\ m.obj[n].fanins[i] \in Nat
                              /\ Regular(m.obj[n].fanins[i]) \in Objs(m)
         /\ Fanins(m, n) = {Regular(m.obj[n].fanins[1]), Regular(m.obj[n].fanins[2])}
         /\ m.obj[n].fanins = <<m.obj[n].fanins[1], m.obj[n].fanins[2]>>
BY ChildrenAs DEF Typed, TypedAs

\* Ordered puts two literals of different nodes in the order of their Ids.
LEMMA OrderedPair ==
  ASSUME NEW a \in Nat, NEW b \in Nat, Regular(a) # Regular(b)
  PROVE  LET p == Ordered(a, b)
         IN  /\ p \in Seq(Nat) /\ Len(p) = 2 /\ p = <<p[1], p[2]>>
             /\ {p[1], p[2]} = {a, b} /\ p[1] \in Nat /\ p[2] \in Nat
             /\ Regular(p[1]) < Regular(p[2])
             /\ p = Ordered(b, a)
BY DEF Ordered, Regular

\* Abc_AigAndCreateFrom connects the node, and leaves all else as it was.
LEMMA AndCreateFromNetwork ==
  ASSUME NEW m, Shape(m), Wired(m), NEW n \in DOMAIN m.obj, m.obj[n].fanins = <<>>,
         NEW l0 \in Nat, NEW l1 \in Nat, Regular(l0) \in Objs(m), Regular(l1) \in Objs(m),
         Regular(l0) # Regular(l1)
  PROVE  LET q == AndCreateFrom(m, l0, l1, n)
         IN  /\ Shape(q) /\ Wired(q) /\ DOMAIN q.obj = DOMAIN m.obj
             /\ q.table = m.table \cup {n} /\ q.stack = m.stack
             /\ q.vLevels = m.vLevels /\ q.vLevelsR = m.vLevelsR
             /\ \A k \in DOMAIN m.obj \ {n} : SameData(m, q, k) /\ q.obj[k].fanins = m.obj[k].fanins
             /\ q.obj[n].type = m.obj[n].type /\ q.obj[n].rlevel = m.obj[n].rlevel
             /\ q.obj[n].fanins = Ordered(l0, l1)
             /\ q.obj[n].exor = IsExorType(q, n)
<1> DEFINE p == Ordered(l0, l1)
           a == AddFanin(m, n, p[1])
           b == AddFanin(a, n, p[2])
           lev == LevelNew(b, n)
           ex == IsExorType(b, n)
           q == AndCreateFrom(m, l0, l1, n)
<1>1. /\ {p[1], p[2]} = {l0, l1} /\ p[1] \in Nat /\ p[2] \in Nat /\ p = <<p[1], p[2]>>
      /\ Regular(p[1]) # Regular(p[2]) /\ Regular(p[1]) \in Objs(m) /\ Regular(p[2]) \in Objs(m)
  <2>1. /\ {p[1], p[2]} = {l0, l1} /\ p[1] \in Nat /\ p[2] \in Nat /\ p = <<p[1], p[2]>>
        /\ Regular(p[1]) < Regular(p[2])
    BY OrderedPair
  <2>2. Regular(p[1]) \in Objs(m) /\ Regular(p[2]) \in Objs(m)
    <3> HIDE DEF p
    <3> QED BY <2>1
  <2>3. Regular(p[1]) \in Nat
    BY <2>1 DEF Regular
  <2>4. Regular(p[1]) # Regular(p[2])
    <3> HIDE DEF p
    <3> QED BY <2>1, <2>3
  <2> HIDE DEF p
  <2> QED BY <2>1, <2>2, <2>4
<1> HIDE DEF p
<1>2. Fanins(m, n) = {}
  BY DEF Fanins, ToSet
<1>3. /\ Shape(a) /\ Wired(a) /\ DOMAIN a.obj = DOMAIN m.obj /\ SameLists(m, a)
      /\ \A k \in DOMAIN m.obj : SameData(m, a, k)
      /\ \A k \in DOMAIN m.obj \ {n} : a.obj[k].fanins = m.obj[k].fanins
      /\ a.obj[n].fanins = <<p[1]>>
  BY <1>1, <1>2, AddFaninEdges
<1> HIDE DEF a
<1>4. Regular(p[2]) \in Objs(a) /\ Regular(p[2]) \notin Fanins(a, n) /\ n \in DOMAIN a.obj
  <2>1. Objs(a) = Objs(m)
    BY <1>3 DEF Objs, SameData
  <2>2. ToSet(<<p[1]>>) = {p[1]}
    BY DEF ToSet
  <2>3. Fanins(a, n) = {Regular(p[1])}
    BY <1>3, <2>2 DEF Fanins
  <2> QED BY <1>1, <1>3, <2>1, <2>3
<1>5. /\ Shape(b) /\ Wired(b) /\ DOMAIN b.obj = DOMAIN a.obj /\ SameLists(a, b)
      /\ \A k \in DOMAIN a.obj : SameData(a, b, k)
      /\ \A k \in DOMAIN a.obj \ {n} : b.obj[k].fanins = a.obj[k].fanins
      /\ b.obj[n].fanins = Append(a.obj[n].fanins, p[2])
  <2>1. Shape(a) /\ Wired(a)
    BY <1>3
  <2>2. p[2] \in Nat /\ Regular(p[2]) \in Objs(a) /\ Regular(p[2]) \notin Fanins(a, n) /\ n \in DOMAIN a.obj
    BY <1>1, <1>4
  <2> QED BY <2>1, <2>2, AddFaninEdges
<1> HIDE DEF b
<1>6. /\ Shape(b) /\ Wired(b) /\ DOMAIN b.obj = DOMAIN m.obj /\ SameLists(m, b)
      /\ \A k \in DOMAIN m.obj : SameData(m, b, k)
      /\ \A k \in DOMAIN m.obj \ {n} : b.obj[k].fanins = m.obj[k].fanins
      /\ b.obj[n].fanins = p
  <2>1. Append(<<p[1]>>, p[2]) = <<p[1], p[2]>>
    BY <1>1, PairAppend
  <2>2. b.obj[n].fanins = p
    BY <1>1, <1>3, <1>5, <2>1
  <2>3. SameLists(m, b)
    BY <1>3, <1>5 DEF SameLists
  <2>4. \A k \in DOMAIN m.obj : SameData(m, b, k)
    BY <1>3, <1>5 DEF SameData
  <2> QED BY <1>3, <1>5, <2>2, <2>3, <2>4
<1>7. q = [b EXCEPT !.obj[n].level = lev, !.obj[n].exor = ex, !.table = b.table \cup {n}]
  BY DEF AndCreateFrom, p, a, b
<1>8. ex \in BOOLEAN
  BY ExorBoolean
<1> HIDE DEF q, lev, ex
<1>9. /\ DOMAIN q = DOMAIN b /\ DOMAIN q.obj = DOMAIN b.obj
      /\ q.table = b.table \cup {n} /\ q.stack = b.stack
      /\ q.vLevels = b.vLevels /\ q.vLevelsR = b.vLevelsR
      /\ \A k \in DOMAIN b.obj :
            /\ DOMAIN q.obj[k] = DOMAIN b.obj[k] /\ (k # n => SameData(b, q, k))
            /\ q.obj[k].fanins = b.obj[k].fanins /\ q.obj[k].fanouts = b.obj[k].fanouts
            /\ q.obj[k].type = b.obj[k].type /\ q.obj[k].rlevel = b.obj[k].rlevel
            /\ q.obj[k].exor = IF k = n THEN ex ELSE b.obj[k].exor
  <2>1. \A k \in DOMAIN b.obj : DOMAIN b.obj[k] = {"type", "fanins", "fanouts", "level", "rlevel", "exor"}
    BY <1>6 DEF Shape, IsObject
  <2>2. DOMAIN b = {"obj", "table", "stack", "vLevels", "vLevelsR"}
    BY <1>6 DEF Shape
  <2> DEFINE u == [b EXCEPT !.obj[n].level = lev]
             v == [u EXCEPT !.obj[n].exor = ex]
             w == [v EXCEPT !.table = b.table \cup {n}]
  <2>3. q = w
    BY <1>7
  <2>4. /\ DOMAIN u = DOMAIN b /\ DOMAIN u.obj = DOMAIN b.obj /\ SameLists(b, u)
        /\ \A k \in DOMAIN b.obj :
            /\ DOMAIN u.obj[k] = DOMAIN b.obj[k] /\ (k # n => SameData(b, u, k))
            /\ u.obj[k].fanins = b.obj[k].fanins /\ u.obj[k].fanouts = b.obj[k].fanouts
            /\ u.obj[k].type = b.obj[k].type /\ u.obj[k].rlevel = b.obj[k].rlevel
            /\ u.obj[k].exor = b.obj[k].exor
    BY <1>6, <2>1, <2>2 DEF SameData, SameLists
  <2> HIDE DEF u
  <2>5. /\ DOMAIN v = DOMAIN u /\ DOMAIN v.obj = DOMAIN u.obj /\ SameLists(u, v)
        /\ \A k \in DOMAIN u.obj :
            /\ DOMAIN v.obj[k] = DOMAIN u.obj[k] /\ (k # n => SameData(u, v, k))
            /\ v.obj[k].fanins = u.obj[k].fanins /\ v.obj[k].fanouts = u.obj[k].fanouts
            /\ v.obj[k].type = u.obj[k].type /\ v.obj[k].rlevel = u.obj[k].rlevel
            /\ v.obj[k].exor = IF k = n THEN ex ELSE u.obj[k].exor
    BY <1>6, <2>1, <2>2, <2>4 DEF SameData, SameLists
  <2> HIDE DEF v
  <2>6. /\ DOMAIN w = DOMAIN v /\ w.obj = v.obj
        /\ w.table = b.table \cup {n} /\ w.stack = v.stack
        /\ w.vLevels = v.vLevels /\ w.vLevelsR = v.vLevelsR
    BY <2>2, <2>4, <2>5
  <2> HIDE DEF w
  <2>7. \A k \in DOMAIN b.obj : k # n => SameData(b, q, k)
    BY <2>3, <2>4, <2>5, <2>6 DEF SameData
  <2> QED BY <2>3, <2>4, <2>5, <2>6, <2>7 DEF SameLists
<1>10. Shape(q)
  <2>1. Size(q) = Size(b)
    BY <1>9 DEF Size
  <2>2. ASSUME NEW k \in DOMAIN b.obj PROVE IsObject(q.obj[k])
    <3>1. IsObject(b.obj[k])
      BY <1>6, ShapeObject
    <3>2. /\ DOMAIN q.obj[k] = DOMAIN b.obj[k] /\ q.obj[k].type = b.obj[k].type
          /\ q.obj[k].fanins = b.obj[k].fanins /\ q.obj[k].fanouts = b.obj[k].fanouts
          /\ q.obj[k].exor \in BOOLEAN
      BY <1>8, <1>9, <3>1 DEF IsObject
    <3> QED BY <3>1, <3>2 DEF IsObject
  <2> QED BY <1>6, <1>9, <2>1, <2>2 DEF Shape
<1>11. Wired(q)
  <2>1. \A k \in DOMAIN b.obj : Fanins(q, k) = Fanins(b, k)
    BY <1>9 DEF Fanins
  <2>2. Objs(q) = Objs(b)
    BY <1>9 DEF Objs
  <2> QED BY <1>6, <1>9, <2>1, <2>2 DEF Wired
<1>12. IsExorType(q, n) = ex
  <2>1. Regular(b.obj[n].fanins[1]) \in DOMAIN b.obj /\ Regular(b.obj[n].fanins[2]) \in DOMAIN b.obj
    BY <1>1, <1>6 DEF Objs
  <2> QED BY <1>6, <1>9, <2>1, ExorSame DEF ex
<1> QED
  <2>1. \A k \in DOMAIN m.obj \ {n} : SameData(m, q, k) /\ q.obj[k].fanins = m.obj[k].fanins
    BY <1>6, <1>9 DEF SameData
  <2>2. q.obj[n].type = m.obj[n].type /\ q.obj[n].rlevel = m.obj[n].rlevel
    BY <1>6, <1>9 DEF SameData
  <2> QED BY <1>6, <1>9, <1>10, <1>11, <1>12, <2>1, <2>2 DEF q, p, SameLists

Alive(m, l) == l \in Nat /\ Regular(l) \in Objs(m)

\* Everything but the levels, the stack and the lists.
SameGraph(m, q) ==
    /\ DOMAIN q = DOMAIN m /\ q.table = m.table /\ DOMAIN q.obj = DOMAIN m.obj
    /\ \A k \in DOMAIN m.obj :
          /\ DOMAIN q.obj[k] = DOMAIN m.obj[k] /\ q.obj[k].type = m.obj[k].type
          /\ q.obj[k].fanins = m.obj[k].fanins /\ q.obj[k].fanouts = m.obj[k].fanouts
          /\ q.obj[k].exor = m.obj[k].exor

\* Managers of the same graph have the same objects.
LEMMA SameGraphSets ==
  ASSUME NEW m, NEW q, SameGraph(m, q)
  PROVE  /\ Ands(q) = Ands(m) /\ Objs(q) = Objs(m) /\ Size(q) = Size(m)
         /\ \A k \in DOMAIN m.obj : Fanins(q, k) = Fanins(m, k)
         /\ \A l : Alive(q, l) <=> Alive(m, l)
<1>1. Ands(q) = Ands(m) /\ Objs(q) = Objs(m) /\ Size(q) = Size(m)
  BY DEF SameGraph, Ands, Objs, Size
<1>2. \A k \in DOMAIN m.obj : Fanins(q, k) = Fanins(m, k)
  BY DEF SameGraph, Fanins
<1> QED BY <1>1, <1>2 DEF Alive

\* What a network is does not depend on its levels.
LEMMA SameGraphNetwork ==
  ASSUME NEW m, NEW q, SameGraph(m, q), Network(m)
  PROVE  Network(q)
<1>1. Shape(q)
  <2>1. \A k \in DOMAIN m.obj : IsObject(m.obj[k]) => IsObject(q.obj[k])
    BY DEF SameGraph, IsObject
  <2> QED BY <2>1, SameGraphSets DEF Shape, SameGraph, Network
<1>2. Wired(q)
  <2>1. /\ Objs(q) = Objs(m) /\ \A k \in DOMAIN m.obj : Fanins(q, k) = Fanins(m, k)
        /\ DOMAIN q.obj = DOMAIN m.obj
        /\ \A k \in DOMAIN m.obj : q.obj[k].fanouts = m.obj[k].fanouts
    BY SameGraphSets DEF SameGraph
  <2> QED BY <2>1 DEF Wired, Network
<1>3. Typed(q)
  BY SameGraphSets DEF Typed, SameGraph, Network
<1>4. Canonical(q)
  BY SameGraphSets DEF Canonical, SameGraph, Network, Ands
<1>5. ExorOK(q)
  <2> SUFFICES ASSUME NEW n \in Ands(m) PROVE q.obj[n].exor = IsExorType(q, n)
    BY SameGraphSets DEF ExorOK
  <2>1. /\ n \in DOMAIN m.obj
        /\ Regular(m.obj[n].fanins[1]) \in DOMAIN m.obj /\ Regular(m.obj[n].fanins[2]) \in DOMAIN m.obj
    BY Children DEF Network, Objs
  <2>2. IsExorType(q, n) = IsExorType(m, n)
    BY <2>1, ExorSame DEF SameGraph
  <2> QED BY <2>1, <2>2 DEF SameGraph, Network, ExorOK
<1> QED BY <1>1, <1>2, <1>3, <1>4, <1>5 DEF Network

\* Only ANDs and outputs have fanins, and no AND is among the inputs.
LEMMA TypedObjectAs ==
  ASSUME NEW m, NEW arity, Shape(m), TypedAs(m, arity), NEW n \in DOMAIN m.obj
  PROVE  /\ m.obj[n].type = "and" => n > NumPi
         /\ m.obj[n].fanins # <<>> => m.obj[n].type \in {"and", "po"}
         /\ 0 \in Objs(m) /\ \A k \in 0 .. NumPi : k \in DOMAIN m.obj
<1>1. NumPi \in Nat
  BY AigAssumption
<1>2. \A k \in 0 .. NumPi : k \in DOMAIN m.obj
  BY <1>1 DEF Shape, TypedAs
<1>3. 0 \in Objs(m)
  BY <1>1, <1>2 DEF TypedAs, Objs
<1>4. m.obj[n].type = "and" => n > NumPi
  BY <1>1, ShapeObject DEF TypedAs
<1>5. m.obj[n].fanins # <<>> => m.obj[n].type \in {"and", "po"}
  <2>1. m.obj[n].fanins # <<>> => Len(m.obj[n].fanins) # 0
    BY ShapeObject, SeqShape
  <2> QED BY <2>1 DEF TypedAs
<1> QED BY <1>2, <1>3, <1>4, <1>5

\* The same when the outputs are connected.
LEMMA TypedObject ==
  ASSUME NEW m, Shape(m), Typed(m), NEW n \in DOMAIN m.obj
  PROVE  /\ m.obj[n].type = "and" => n > NumPi
         /\ m.obj[n].fanins # <<>> => m.obj[n].type \in {"and", "po"}
         /\ 0 \in Objs(m) /\ \A k \in 0 .. NumPi : k \in DOMAIN m.obj
BY TypedObjectAs DEF Typed, TypedAs

\* What is looked up is there, or it can be made.
LEMMA LookupResultAs ==
  ASSUME NEW m, NEW arity, NetworkAs(m, arity), NEW l0, NEW l1, Alive(m, l0), Alive(m, l1)
  PROVE  LET r == AndLookup(m, l0, l1)
         IN  \/ Alive(m, r)
             \/ /\ r = NULL /\ Regular(l0) # Regular(l1) /\ Regular(l0) > 0 /\ Regular(l1) > 0
                /\ \A n \in Ands(m) : m.obj[n].fanins # Ordered(l0, l1)
<1> DEFINE r == AndLookup(m, l0, l1)
<1>1. /\ l0 \in Nat /\ l1 \in Nat /\ Regular(l0) \in Objs(m) /\ Regular(l1) \in Objs(m)
      /\ Regular(l0) \in Nat /\ Regular(l1) \in Nat
  BY DEF Alive, Regular
<1>2. Alive(m, Const1) /\ Alive(m, NotCond(Const1, 1)) /\ Const1 = 0 /\ NotCond(Const1, 1) = 1
  <2>1. Const1 = 0 /\ NotCond(Const1, 1) = 1 /\ Regular(0) = 0 /\ Regular(1) = 0
    BY DEF Const1, NotCond, Lit, Regular, Compl
  <2>2. 0 \in Objs(m)
    BY <1>1, TypedObjectAs DEF NetworkAs, Objs
  <2> QED BY <2>1, <2>2 DEF Alive
<1>3. \/ r \in {l0, l1, Const1, NotCond(Const1, 1)}
      \/ /\ l0 # l1 /\ l0 # NotCond(l1, 1) /\ l0 # Const1 /\ l1 # Const1
         /\ l0 # NotCond(Const1, 1) /\ l1 # NotCond(Const1, 1)
         /\ r = IF \E l \in {l0, l1} : m.obj[Regular(l)].fanouts = <<>>
                THEN NULL ELSE Hashed(m, l0, l1)
  BY DEF AndLookup
<1>4. CASE r \in {l0, l1, Const1, NotCond(Const1, 1)}
  BY <1>2, <1>4
<1>5. CASE /\ l0 # l1 /\ l0 # NotCond(l1, 1) /\ l0 # Const1 /\ l1 # Const1
           /\ l0 # NotCond(Const1, 1) /\ l1 # NotCond(Const1, 1)
           /\ r = IF \E l \in {l0, l1} : m.obj[Regular(l)].fanouts = <<>>
                  THEN NULL ELSE Hashed(m, l0, l1)
  <2>1. Regular(l0) # Regular(l1) /\ Regular(l0) > 0 /\ Regular(l1) > 0
    <3>1. Regular(l0) # Regular(l1)
      BY <1>1, <1>5 DEF NotCond, Lit, Regular, Compl
    <3>2. Regular(l0) > 0 /\ Regular(l1) > 0
      BY <1>1, <1>2, <1>5 DEF Regular
    <3> QED BY <3>1, <3>2
  <2> DEFINE p == Ordered(l0, l1)
             same == {n \in m.table : m.obj[n].fanins = p}
  <2>2. p \in Seq(Nat) /\ Len(p) = 2 /\ {p[1], p[2]} = {l0, l1}
    BY <1>1, <2>1, OrderedPair
  <2>3. CASE \E l \in {l0, l1} : m.obj[Regular(l)].fanouts = <<>>
    <3>1. r = NULL
      BY <1>5, <2>3
    <3>2. ASSUME NEW n \in Ands(m), m.obj[n].fanins = p PROVE FALSE
      <4>1. PICK l \in {l0, l1} : m.obj[Regular(l)].fanouts = <<>>
        BY <2>3
      <4>2. Regular(l) \in Fanins(m, n)
        <5>1. ToSet(p) = {l0, l1}
          <6> HIDE DEF p
          <6> QED BY <2>2, PairSeq
        <5> QED BY <3>2, <4>1, <5>1 DEF Fanins
      <4>3. n \in ToSet(m.obj[Regular(l)].fanouts)
        BY <1>1, <4>2 DEF NetworkAs, Wired, Objs, Ands
      <4> QED BY <4>1, <4>3 DEF ToSet
    <3> QED BY <2>1, <3>1, <3>2
  <2>4. CASE ~ \E l \in {l0, l1} : m.obj[Regular(l)].fanouts = <<>>
    <3>1. r = Hashed(m, l0, l1)
      BY <1>5, <2>4
    <3>2. Hashed(m, l0, l1) = IF same = {} THEN NULL ELSE Lit(CHOOSE n \in same : TRUE, 0)
      BY DEF Hashed
    <3>3. CASE same = {}
      BY <2>1, <3>1, <3>2, <3>3 DEF NetworkAs, Canonical
    <3>4. CASE same # {}
      <4> DEFINE n == CHOOSE n \in same : TRUE
      <4>1. n \in same
        BY <3>4
      <4> HIDE DEF n
      <4>2. n \in Ands(m)
        BY <4>1 DEF NetworkAs, Canonical
      <4>3. n \in Nat /\ n \in Objs(m)
        BY <4>2, ShapeObject DEF NetworkAs, Ands, Objs
      <4>4. r = Lit(n, 0)
        BY <3>1, <3>2, <3>4 DEF n
      <4>5. Lit(n, 0) \in Nat /\ Regular(Lit(n, 0)) = n
        BY <4>3 DEF Lit, Regular
      <4> QED BY <4>3, <4>4, <4>5 DEF Alive
    <3> QED BY <3>3, <3>4
  <2> QED BY <2>3, <2>4
<1> HIDE DEF r
<1> QED BY <1>3, <1>4, <1>5 DEF r

\* The same for a network.
LEMMA LookupResult ==
  ASSUME NEW m, Network(m), NEW l0, NEW l1, Alive(m, l0), Alive(m, l1)
  PROVE  LET r == AndLookup(m, l0, l1)
         IN  \/ Alive(m, r)
             \/ /\ r = NULL /\ Regular(l0) # Regular(l1) /\ Regular(l0) > 0 /\ Regular(l1) > 0
                /\ \A n \in Ands(m) : m.obj[n].fanins # Ordered(l0, l1)
BY LookupResultAs DEF Network, NetworkAs, Typed, TypedAs

-----------------------------------------------------------------------------
(* A node under new children. *)

\* Making n, an AND without fanins, of two literals that have no node.
LEMMA NewChildrenAs ==
  ASSUME NEW m, NEW arity, Shape(m), Wired(m), NEW n \in DOMAIN m.obj,
         m.obj[n].type = "and", m.obj[n].fanins = <<>>,
         NumPi < Size(m),
         \A k \in DOMAIN m.obj :
            /\ m.obj[k].type = "const1" <=> k = 0
            /\ m.obj[k].type = "pi" <=> k \in 1 .. NumPi
            /\ m.obj[k].type = "and" /\ k # n => Len(m.obj[k].fanins) = 2
            /\ m.obj[k].type = "po" => Len(m.obj[k].fanins) = arity
            /\ m.obj[k].type \notin {"and", "po"} => Len(m.obj[k].fanins) = 0,
         m.table = Ands(m) \ {n},
         \A k \in m.table : /\ Regular(m.obj[k].fanins[1]) > 0
                             /\ Regular(m.obj[k].fanins[1]) < Regular(m.obj[k].fanins[2]),
         \A j, k \in m.table : m.obj[j].fanins = m.obj[k].fanins => j = k,
         NEW l0, NEW l1, Alive(m, l0), Alive(m, l1),
         Regular(l0) # Regular(l1), Regular(l0) > 0, Regular(l1) > 0,
         \A k \in m.table : m.obj[k].fanins # Ordered(l0, l1)
  PROVE  LET q == AndCreateFrom(m, l0, l1, n)
         IN  Shape(q) /\ Wired(q) /\ TypedAs(q, arity) /\ Canonical(q) /\ Ands(q) = Ands(m) /\ Objs(q) = Objs(m)
<1> DEFINE q == AndCreateFrom(m, l0, l1, n)
           p == Ordered(l0, l1)
<1>1. l0 \in Nat /\ l1 \in Nat /\ Regular(l0) \in Objs(m) /\ Regular(l1) \in Objs(m)
  BY DEF Alive
<1>2. /\ Shape(q) /\ Wired(q) /\ DOMAIN q.obj = DOMAIN m.obj
      /\ q.table = m.table \cup {n}
      /\ \A k \in DOMAIN m.obj \ {n} : SameData(m, q, k) /\ q.obj[k].fanins = m.obj[k].fanins
      /\ q.obj[n].type = m.obj[n].type /\ q.obj[n].fanins = p
  BY <1>1, AndCreateFromNetwork
<1>3. /\ p \in Seq(Nat) /\ Len(p) = 2 /\ {p[1], p[2]} = {l0, l1}
      /\ Regular(p[1]) < Regular(p[2])
  BY <1>1, OrderedPair, ZenonT(40)
<1>4. Regular(p[1]) > 0
  <2> HIDE DEF p
  <2> QED BY <1>3
<1> HIDE DEF q, p
<1>5. \A k \in DOMAIN m.obj : /\ q.obj[k].type = m.obj[k].type
                              /\ q.obj[k].fanins = IF k = n THEN p ELSE m.obj[k].fanins
  BY <1>2 DEF SameData
<1>6. Size(q) = Size(m) /\ Ands(q) = Ands(m) /\ Objs(q) = Objs(m)
  BY <1>2, <1>5 DEF Size, Ands, Objs
<1>7. TypedAs(q, arity)
  BY <1>2, <1>3, <1>5, <1>6 DEF TypedAs
<1>8. q.table = Ands(q)
  BY <1>2, <1>6 DEF Ands
<1>9. \A k \in m.table : k # n /\ k \in DOMAIN m.obj
  BY DEF Ands
<1>10. Canonical(q)
  <2>1. ASSUME NEW k \in q.table
        PROVE  /\ Regular(q.obj[k].fanins[1]) > 0
               /\ Regular(q.obj[k].fanins[1]) < Regular(q.obj[k].fanins[2])
    <3>1. CASE k = n
      BY <1>3, <1>4, <1>5, <3>1
    <3>2. CASE k # n
      BY <1>2, <1>5, <1>9, <3>2
    <3> QED BY <3>1, <3>2
  <2>2. ASSUME NEW j \in q.table, NEW k \in q.table, q.obj[j].fanins = q.obj[k].fanins
        PROVE  j = k
    BY <1>2, <1>5, <1>9, <2>2 DEF p
  <2> QED BY <1>8, <2>1, <2>2 DEF Canonical
<1> QED BY <1>2, <1>6, <1>7, <1>10 DEF q

\* Abc_NtkCreateObj adds one object, without edges.
LEMMA CreateObjShape ==
  ASSUME NEW m, Shape(m), Wired(m)
  PROVE  LET q == CreateObj(m, "and")
             n == Size(m)
         IN  /\ Shape(q) /\ Wired(q) /\ DOMAIN q.obj = DOMAIN m.obj \cup {n} /\ SameLists(m, q)
             /\ n \notin DOMAIN m.obj /\ n \in Nat /\ Size(q) = n + 1
             /\ \A k \in DOMAIN m.obj : q.obj[k] = m.obj[k]
             /\ q.obj[n].type = "and" /\ q.obj[n].fanins = <<>> /\ q.obj[n].fanouts = <<>>
<1> DEFINE q == CreateObj(m, "and")
           n == Size(m)
<1>1. n \in Nat /\ DOMAIN m.obj = 0 .. n - 1 /\ n \notin DOMAIN m.obj
  BY DEF Shape
<1>2. /\ DOMAIN q = DOMAIN m /\ DOMAIN q.obj = 0 .. n /\ SameLists(m, q)
      /\ q.obj[n] = NewObj("and") /\ \A k \in DOMAIN m.obj : q.obj[k] = m.obj[k]
  BY <1>1 DEF CreateObj, Shape, SameLists
<1> HIDE DEF q
<1>3. 0 .. n = DOMAIN m.obj \cup {n}
  BY <1>1
<1>4. IsObject(NewObj("and"))
  BY EmptySeq DEF NewObj, IsObject
<1>5. /\ NewObj("and").type = "and" /\ NewObj("and").fanins = <<>>
      /\ NewObj("and").fanouts = <<>>
  BY DEF NewObj
<1>6. Size(q) = n + 1
  <2>1. n + 1 \in Nat /\ DOMAIN q.obj = 0 .. (n + 1) - 1
    BY <1>1, <1>2
  <2> QED BY <2>1, SizeOf
<1>7. Shape(q)
  <2>1. \A k \in DOMAIN q.obj : IsObject(q.obj[k])
    BY <1>2, <1>3, <1>4, ShapeObject
  <2>2. DOMAIN q.obj = 0 .. Size(q) - 1 /\ Size(q) \in Nat
    BY <1>1, <1>2, <1>6
  <2> QED BY <1>2, <2>1, <2>2 DEF Shape
<1>8. Fanins(q, n) = {} /\ \A k \in DOMAIN m.obj : Fanins(q, k) = Fanins(m, k)
  BY <1>2, <1>5 DEF Fanins, ToSet
<1>9. Objs(q) = Objs(m) \cup {n}
  BY <1>2, <1>3, <1>5 DEF Objs
<1>10. Wired(q)
  <2> SUFFICES ASSUME NEW k \in DOMAIN q.obj
               PROVE  /\ IsInjective(q.obj[k].fanouts)
                      /\ ToSet(q.obj[k].fanouts) = {j \in DOMAIN q.obj : k \in Fanins(q, j)}
                      /\ Fanins(q, k) \subseteq Objs(q)
    BY DEF Wired
  <2>1. CASE k \in DOMAIN m.obj
    BY <1>2, <1>3, <1>8, <1>9, <2>1 DEF Wired
  <2>2. CASE k = n
    <3>1. \A j \in DOMAIN m.obj : n \notin Fanins(m, j)
      BY <1>1 DEF Wired, Objs
    <3>2. IsInjective(<<>>) /\ ToSet(<<>>) = {}
      BY DEF IsInjective, ToSet
    <3> QED BY <1>2, <1>3, <1>5, <1>8, <2>2, <3>1, <3>2
  <2> QED BY <1>2, <1>3, <2>1, <2>2
<1> QED BY <1>1, <1>2, <1>3, <1>5, <1>6, <1>7, <1>10 DEF q

-----------------------------------------------------------------------------
(* The stack and the lists. *)

Queue(m) ==
    /\ IsSeq(m.stack)
    /\ \A e \in ToSet(m.stack) : e.old \in DOMAIN m.obj /\ Alive(m, e.new)

\* A list of pairs in which no node comes twice.
ListOK(s) ==
    /\ IsSeq(s) /\ IsInjective(s)
    /\ \A e \in ToSet(s) : e = <<e[1], e[2]>>
    /\ \A d, e \in ToSet(s) : d[2] = e[2] => d = e

LevelsOK(m) ==
    /\ ListOK(m.vLevels)
    /\ \A e \in ToSet(m.vLevels) : e[2] \in Ands(m) /\ e[1] = m.obj[e[2]].level

LevelsROK(m) ==
    /\ ListOK(m.vLevelsR)
    /\ \A e \in ToSet(m.vLevelsR) : e[2] \in Objs(m) /\ e[1] = m.obj[e[2]].rlevel

Manager(m) == Network(m) /\ Queue(m) /\ LevelsOK(m) /\ LevelsROK(m)

\* New nodes, and nothing else.
Grown(m, q) ==
    /\ DOMAIN m.obj \subseteq DOMAIN q.obj
    /\ q.stack = m.stack /\ q.vLevels = m.vLevels /\ q.vLevelsR = m.vLevelsR
    /\ \A k \in DOMAIN m.obj : SameData(m, q, k) /\ q.obj[k].fanins = m.obj[k].fanins
    /\ \A k \in DOMAIN q.obj \ DOMAIN m.obj : q.obj[k].type = "and"

\* What was there stays, with its place in the stack and the lists.
LEMMA GrownManager ==
  ASSUME NEW m, NEW q, Grown(m, q)
  PROVE  /\ \A l : Alive(m, l) => Alive(q, l)
         /\ Queue(m) => Queue(q)
         /\ LevelsOK(m) => LevelsOK(q)
         /\ LevelsROK(m) => LevelsROK(q)
<1>1. Objs(m) \subseteq Objs(q) /\ Ands(m) \subseteq Ands(q) /\ DOMAIN m.obj \subseteq DOMAIN q.obj
  BY DEF Grown, SameData, Objs, Ands
<1>2. \A l : Alive(m, l) => Alive(q, l)
  BY <1>1 DEF Alive
<1>3. /\ q.stack = m.stack /\ q.vLevels = m.vLevels /\ q.vLevelsR = m.vLevelsR
      /\ \A k \in DOMAIN m.obj : q.obj[k].level = m.obj[k].level /\ q.obj[k].rlevel = m.obj[k].rlevel
  BY DEF Grown, SameData
<1>4. Queue(m) => Queue(q)
  BY <1>1, <1>2, <1>3 DEF Queue
<1>5. LevelsOK(m) => LevelsOK(q)
  BY <1>1, <1>3 DEF LevelsOK, Ands
<1>6. LevelsROK(m) => LevelsROK(q)
  BY <1>1, <1>3 DEF LevelsROK, Objs
<1> QED BY <1>2, <1>4, <1>5, <1>6

\* Abc_AigAnd
LEMMA AndKeepsAs ==
  ASSUME NEW m, NEW arity, NetworkAs(m, arity), NEW l0, NEW l1, Alive(m, l0), Alive(m, l1)
  PROVE  LET r == And(m, l0, l1)
         IN  NetworkAs(r.man, arity) /\ Alive(r.man, r.lit) /\ Grown(m, r.man)
<1> DEFINE r == And(m, l0, l1)
           found == AndLookup(m, l0, l1)
           n == Size(m)
           b == CreateObj(m, "and")
           q == AndCreateFrom(b, l0, l1, n)
<1>1. r = IF found # NULL THEN [lit |-> found, man |-> m] ELSE [lit |-> Lit(n, 0), man |-> q]
  BY DEF And
<1>2. \/ Alive(m, found)
      \/ /\ found = NULL /\ Regular(l0) # Regular(l1) /\ Regular(l0) > 0 /\ Regular(l1) > 0
         /\ \A k \in Ands(m) : m.obj[k].fanins # Ordered(l0, l1)
  BY LookupResultAs
<1>3. Grown(m, m)
  BY DEF Grown, SameData
<1>4. CASE found # NULL
  <2>1. Alive(m, found)
    BY <1>2, <1>4
  <2> HIDE DEF found
  <2> QED BY <1>1, <1>3, <1>4, <2>1
<1>5. CASE found = NULL
  <2>1. /\ Regular(l0) # Regular(l1) /\ Regular(l0) > 0 /\ Regular(l1) > 0
        /\ \A k \in Ands(m) : m.obj[k].fanins # Ordered(l0, l1)
    BY <1>2, <1>5 DEF Alive, NULL
  <2>2. /\ Shape(b) /\ Wired(b) /\ DOMAIN b.obj = DOMAIN m.obj \cup {n} /\ SameLists(m, b)
        /\ n \notin DOMAIN m.obj /\ n \in Nat /\ Size(b) = n + 1
        /\ \A k \in DOMAIN m.obj : b.obj[k] = m.obj[k]
        /\ b.obj[n].type = "and" /\ b.obj[n].fanins = <<>> /\ b.obj[n].fanouts = <<>>
    BY CreateObjShape DEF NetworkAs
  <2> HIDE DEF b
  <2>3. Ands(b) = Ands(m) \cup {n} /\ Objs(b) = Objs(m) \cup {n}
    BY <2>2 DEF Ands, Objs
  <2>4. Alive(b, l0) /\ Alive(b, l1) /\ l0 \in Nat /\ l1 \in Nat
    BY <2>3 DEF Alive
  <2>5. NumPi < n /\ NumPi \in Nat
    BY AigAssumption DEF NetworkAs, TypedAs
  <2>6. \A k \in DOMAIN b.obj :
            /\ b.obj[k].type = "const1" <=> k = 0
            /\ b.obj[k].type = "pi" <=> k \in 1 .. NumPi
            /\ b.obj[k].type = "and" /\ k # n => Len(b.obj[k].fanins) = 2
            /\ b.obj[k].type = "po" => Len(b.obj[k].fanins) = arity
            /\ b.obj[k].type \notin {"and", "po"} => Len(b.obj[k].fanins) = 0
    BY <2>2, <2>5 DEF NetworkAs, TypedAs
  <2>7. b.table = Ands(m) /\ b.table = Ands(b) \ {n} /\ n \notin Ands(m)
    BY <2>2, <2>3 DEF NetworkAs, Canonical, SameLists, Ands
  <2>8. \A k \in Ands(m) : b.obj[k] = m.obj[k]
    BY <2>2 DEF Ands
  <2>9. /\ \A k \in b.table : /\ Regular(b.obj[k].fanins[1]) > 0
                              /\ Regular(b.obj[k].fanins[1]) < Regular(b.obj[k].fanins[2])
        /\ \A j, k \in b.table : b.obj[j].fanins = b.obj[k].fanins => j = k
        /\ \A k \in b.table : b.obj[k].fanins # Ordered(l0, l1)
    BY <2>1, <2>7, <2>8 DEF NetworkAs, Canonical
  <2>10. n \in DOMAIN b.obj /\ NumPi < Size(b)
    BY <2>2, <2>5
  <2>11. Shape(q) /\ Wired(q) /\ TypedAs(q, arity) /\ Canonical(q) /\ Ands(q) = Ands(b) /\ Objs(q) = Objs(b)
    BY <2>1, <2>2, <2>4, <2>6, <2>7, <2>9, <2>10, NewChildrenAs
  <2>12. /\ DOMAIN q.obj = DOMAIN b.obj /\ q.stack = b.stack
         /\ q.vLevels = b.vLevels /\ q.vLevelsR = b.vLevelsR
         /\ \A k \in DOMAIN b.obj \ {n} : SameData(b, q, k) /\ q.obj[k].fanins = b.obj[k].fanins
         /\ q.obj[n].exor = IsExorType(q, n)
    BY <2>1, <2>2, <2>4, <2>10, AndCreateFromNetwork DEF Alive
  <2> HIDE DEF q
  <2>13. Grown(m, q)
    <3>1. \A k \in DOMAIN m.obj : k # n /\ k \in DOMAIN b.obj
      BY <2>2
    <3>2. \A k \in DOMAIN q.obj \ DOMAIN m.obj : k \in Ands(q)
      BY <2>2, <2>3, <2>11, <2>12
    <3> QED BY <2>2, <2>12, <3>1, <3>2 DEF Grown, SameLists, SameData, Ands
  <2>14. ASSUME NEW k \in Ands(m) PROVE q.obj[k].exor = IsExorType(q, k)
    <3>1. /\ k \in DOMAIN m.obj
          /\ Regular(m.obj[k].fanins[1]) \in DOMAIN m.obj /\ Regular(m.obj[k].fanins[2]) \in DOMAIN m.obj
      BY ChildrenAs DEF NetworkAs, Objs
    <3>2. IsExorType(q, k) = IsExorType(m, k)
      BY <2>13, <3>1, ExorSame DEF Grown, SameData
    <3> QED BY <2>13, <3>1, <3>2 DEF Grown, SameData, NetworkAs, ExorOK
  <2>15. ExorOK(q)
    BY <2>3, <2>11, <2>12, <2>14 DEF ExorOK
  <2>16. Alive(q, Lit(n, 0))
    BY <2>2, <2>3, <2>11 DEF Alive, Lit, Regular
  <2> HIDE DEF found
  <2> QED BY <1>1, <1>5, <2>11, <2>13, <2>15, <2>16 DEF NetworkAs
<1> QED BY <1>4, <1>5

\* The same for a network.
LEMMA AndKeeps ==
  ASSUME NEW m, Network(m), NEW l0, NEW l1, Alive(m, l0), Alive(m, l1)
  PROVE  LET r == And(m, l0, l1)
         IN  Network(r.man) /\ Alive(r.man, r.lit) /\ Grown(m, r.man)
BY AndKeepsAs DEF Network, NetworkAs, Typed, TypedAs

-----------------------------------------------------------------------------
(* Nodes taken out of the lists and put in. *)

\* A list without the entry of one node.
LEMMA Unlist ==
  ASSUME NEW s, ListOK(s), NEW lev, NEW n, \A e \in ToSet(s) : e[2] = n => e[1] = lev
  PROVE  LET t == IF Marked(s, n) THEN Unmarked(s, lev, n) ELSE s
         IN  ListOK(t) /\ ToSet(t) = {e \in ToSet(s) : e[2] # n}
<1>1. Marked(s, n) <=> \E e \in ToSet(s) : e[2] = n
  BY DEF Marked, ToSet
<1>2. CASE ~ Marked(s, n)
  BY <1>1, <1>2
<1>3. CASE Marked(s, n)
  <2>1. PICK e \in ToSet(s) : e[2] = n
    BY <1>1, <1>3
  <2>2. e = <<lev, n>>
    BY <2>1 DEF ListOK
  <2> DEFINE t == RemoveFirst(s, <<lev, n>>)
  <2>3. IsSeq(t) /\ IsInjective(t) /\ ToSet(t) = ToSet(s) \ {<<lev, n>>}
    BY RemoveFirstOnce DEF ListOK
  <2> HIDE DEF t
  <2>4. ToSet(t) = {d \in ToSet(s) : d[2] # n}
    BY <2>1, <2>2, <2>3 DEF ListOK
  <2>5. ListOK(t)
    BY <2>3 DEF ListOK
  <2> QED BY <1>3, <2>4, <2>5 DEF Unmarked, t
<1> QED BY <1>2, <1>3

\* A list with an entry for a node that had none.
LEMMA Enlist ==
  ASSUME NEW s, ListOK(s), NEW lev, NEW n, \A e \in ToSet(s) : e[2] # n
  PROVE  LET t == Append(s, <<lev, n>>)
         IN  ListOK(t) /\ ToSet(t) = ToSet(s) \cup {<<lev, n>>}
<1> DEFINE p == <<lev, n>>
           t == Append(s, p)
<1>1. p[1] = lev /\ p[2] = n /\ p = <<p[1], p[2]>>
  OBVIOUS
<1> HIDE DEF p
<1>2. p \notin ToSet(s)
  BY <1>1
<1>3. IsSeq(t) /\ ToSet(t) = ToSet(s) \cup {p}
  BY AppendShape DEF ListOK
<1>4. IsInjective(t)
  BY <1>2, AppendInjective1 DEF ListOK
<1> HIDE DEF t
<1>5. ListOK(t)
  BY <1>1, <1>3, <1>4 DEF ListOK
<1> QED BY <1>3, <1>5 DEF t, p

\* n is in no list.

\* Abc_AigRemoveFromLevelStructure takes out the entry of the node, when it is marked.
LEMMA FromLevelsEffect ==
  ASSUME NEW m, Shape(m), LevelsOK(m), NEW n
  PROVE  LET q == FromLevels(m, n)
         IN  /\ DOMAIN q = DOMAIN m /\ q.obj = m.obj /\ q.table = m.table /\ q.stack = m.stack
             /\ q.vLevelsR = m.vLevelsR /\ LevelsOK(q)
             /\ ToSet(q.vLevels) = {e \in ToSet(m.vLevels) : e[2] # n}
<1> DEFINE q == FromLevels(m, n)
           s == m.vLevels
           t == IF Marked(s, n) THEN Unmarked(s, m.obj[n].level, n) ELSE s
<1>1. ListOK(t) /\ ToSet(t) = {e \in ToSet(s) : e[2] # n}
  BY Unlist DEF LevelsOK
<1>2. q = IF Marked(s, n) THEN [m EXCEPT !.vLevels = t] ELSE m
  BY DEF FromLevels
<1>3. /\ DOMAIN q = DOMAIN m /\ q.obj = m.obj /\ q.table = m.table /\ q.stack = m.stack
      /\ q.vLevelsR = m.vLevelsR /\ q.vLevels = t
  <2>1. ~ Marked(s, n) => t = s
    OBVIOUS
  <2> HIDE DEF t, q
  <2> QED BY <1>2, <2>1 DEF Shape
<1> HIDE DEF q, t
<1>4. LevelsOK(q)
  BY <1>1, <1>3 DEF LevelsOK, Ands
<1> QED BY <1>1, <1>3, <1>4 DEF q

\* Abc_AigRemoveFromLevelStructureR takes out the entry of the node, when it is marked.
LEMMA FromLevelsREffect ==
  ASSUME NEW m, Shape(m), LevelsROK(m), NEW n
  PROVE  LET q == FromLevelsR(m, n)
         IN  /\ DOMAIN q = DOMAIN m /\ q.obj = m.obj /\ q.table = m.table /\ q.stack = m.stack
             /\ q.vLevels = m.vLevels /\ LevelsROK(q)
             /\ ToSet(q.vLevelsR) = {e \in ToSet(m.vLevelsR) : e[2] # n}
<1> DEFINE q == FromLevelsR(m, n)
           s == m.vLevelsR
           t == IF Marked(s, n) THEN Unmarked(s, m.obj[n].rlevel, n) ELSE s
<1>1. ListOK(t) /\ ToSet(t) = {e \in ToSet(s) : e[2] # n}
  BY Unlist DEF LevelsROK
<1>2. q = IF Marked(s, n) THEN [m EXCEPT !.vLevelsR = t] ELSE m
  BY DEF FromLevelsR
<1>3. /\ DOMAIN q = DOMAIN m /\ q.obj = m.obj /\ q.table = m.table /\ q.stack = m.stack
      /\ q.vLevels = m.vLevels /\ q.vLevelsR = t
  <2>1. ~ Marked(s, n) => t = s
    OBVIOUS
  <2> HIDE DEF t, q
  <2> QED BY <1>2, <2>1 DEF Shape
<1> HIDE DEF q, t
<1>4. LevelsROK(q)
  BY <1>1, <1>3 DEF LevelsROK, Objs
<1> QED BY <1>1, <1>3, <1>4 DEF q

\* A node that is marked enters the list of its level.
LEMMA ToLevelsEffect ==
  ASSUME NEW m, Shape(m), LevelsOK(m), NEW n \in Ands(m), \A e \in ToSet(m.vLevels) : e[2] # n
  PROVE  LET q == ToLevels(m, n)
         IN  /\ DOMAIN q = DOMAIN m /\ q.obj = m.obj /\ q.table = m.table /\ q.stack = m.stack
             /\ q.vLevelsR = m.vLevelsR /\ LevelsOK(q)
             /\ ToSet(q.vLevels) = ToSet(m.vLevels) \cup {<<m.obj[n].level, n>>}
<1> DEFINE q == ToLevels(m, n)
           t == Append(m.vLevels, <<m.obj[n].level, n>>)
<1>1. ListOK(t) /\ ToSet(t) = ToSet(m.vLevels) \cup {<<m.obj[n].level, n>>}
  BY Enlist DEF LevelsOK
<1>2. q = [m EXCEPT !.vLevels = t]
  BY DEF ToLevels
<1> HIDE DEF q, t
<1>3. /\ DOMAIN q = DOMAIN m /\ q.obj = m.obj /\ q.table = m.table /\ q.stack = m.stack
      /\ q.vLevelsR = m.vLevelsR /\ q.vLevels = t
  BY <1>2 DEF Shape
<1>4. LevelsOK(q)
  BY <1>1, <1>3 DEF LevelsOK, Ands
<1> QED BY <1>1, <1>3, <1>4 DEF q

\* A node that is marked enters the list of its reverse level.
LEMMA ToLevelsREffect ==
  ASSUME NEW m, Shape(m), LevelsROK(m), NEW n \in Objs(m), \A e \in ToSet(m.vLevelsR) : e[2] # n
  PROVE  LET q == ToLevelsR(m, n)
         IN  /\ DOMAIN q = DOMAIN m /\ q.obj = m.obj /\ q.table = m.table /\ q.stack = m.stack
             /\ q.vLevels = m.vLevels /\ LevelsROK(q)
             /\ ToSet(q.vLevelsR) = ToSet(m.vLevelsR) \cup {<<m.obj[n].rlevel, n>>}
<1> DEFINE q == ToLevelsR(m, n)
           t == Append(m.vLevelsR, <<m.obj[n].rlevel, n>>)
<1>1. ListOK(t) /\ ToSet(t) = ToSet(m.vLevelsR) \cup {<<m.obj[n].rlevel, n>>}
  BY Enlist DEF LevelsROK
<1>2. q = [m EXCEPT !.vLevelsR = t]
  BY DEF ToLevelsR
<1> HIDE DEF q, t
<1>3. /\ DOMAIN q = DOMAIN m /\ q.obj = m.obj /\ q.table = m.table /\ q.stack = m.stack
      /\ q.vLevels = m.vLevels /\ q.vLevelsR = t
  BY <1>2 DEF Shape
<1>4. LevelsROK(q)
  BY <1>1, <1>3 DEF LevelsROK, Objs
<1> QED BY <1>1, <1>3, <1>4 DEF q

\* The same objects under other lists.
LEMMA SameObjects ==
  ASSUME NEW m, NEW q, DOMAIN q = DOMAIN m, q.obj = m.obj
  PROVE  /\ Shape(m) => Shape(q)
         /\ Wired(m) => Wired(q)
         /\ Ands(q) = Ands(m) /\ Objs(q) = Objs(m) /\ Size(q) = Size(m)
         /\ \A l : Alive(q, l) <=> Alive(m, l)
         /\ \A k : Fanins(q, k) = Fanins(m, k)
         /\ Typed(m) => Typed(q)
         /\ q.table = m.table => (Network(m) => Network(q)) /\ SameGraph(m, q)
<1>1. Ands(q) = Ands(m) /\ Objs(q) = Objs(m) /\ Size(q) = Size(m) /\ \A k : Fanins(q, k) = Fanins(m, k)
  BY DEF Ands, Objs, Size, Fanins
<1>2. Shape(m) => Shape(q)
  BY <1>1 DEF Shape
<1>3. Wired(m) => Wired(q)
  BY <1>1 DEF Wired
<1>4. Typed(m) => Typed(q)
  BY <1>1 DEF Typed
<1>5. \A l : Alive(q, l) <=> Alive(m, l)
  BY <1>1 DEF Alive
<1>6. q.table = m.table => SameGraph(m, q)
  BY DEF SameGraph
<1>7. q.table = m.table => (Network(m) => Network(q))
  BY <1>6, SameGraphNetwork
<1> QED BY <1>1, <1>2, <1>3, <1>4, <1>5, <1>6, <1>7

-----------------------------------------------------------------------------
(* One fanout of a replaced node. *)

\* Types stay; the fanins of f may change.
Patched(m, q, f) ==
    /\ DOMAIN q = DOMAIN m /\ DOMAIN q.obj = DOMAIN m.obj
    /\ \A k \in DOMAIN m.obj : q.obj[k].type = m.obj[k].type
    /\ \A k \in DOMAIN m.obj \ {f} : q.obj[k].fanins = m.obj[k].fanins

\* Where only one object got other fanins, the objects are the same.
LEMMA PatchedSets ==
  ASSUME NEW m, NEW q, NEW f, Patched(m, q, f)
  PROVE  /\ Ands(q) = Ands(m) /\ Objs(q) = Objs(m) /\ Size(q) = Size(m)
         /\ \A l : Alive(q, l) <=> Alive(m, l)
<1>1. Ands(q) = Ands(m) /\ Objs(q) = Objs(m) /\ Size(q) = Size(m)
  BY DEF Patched, Ands, Objs, Size
<1> QED BY <1>1 DEF Alive

\* The status of every node whose children are other than f is right, and that
\* of f: what is left is the fanouts of f.
LEMMA ExorUpdatedEffect ==
  ASSUME NEW m, Shape(m), Wired(m), Typed(m), Canonical(m), NEW f \in Ands(m),
         \A k \in Ands(m) : f \notin Fanins(m, k) => m.obj[k].exor = IsExorType(m, k)
  PROVE  LET q == ExorUpdated(m, f)
         IN  /\ Network(q) /\ DOMAIN q = DOMAIN m /\ DOMAIN q.obj = DOMAIN m.obj
             /\ q.stack = m.stack /\ q.vLevels = m.vLevels /\ q.vLevelsR = m.vLevelsR
             /\ \A k \in DOMAIN m.obj :
                   /\ q.obj[k].type = m.obj[k].type /\ q.obj[k].fanins = m.obj[k].fanins
                   /\ q.obj[k].level = m.obj[k].level /\ q.obj[k].rlevel = m.obj[k].rlevel
<1> DEFINE q == ExorUpdated(m, f)
           S == ToSet(m.obj[f].fanouts)
           ex(k) == IsExorType(m, k)
<1>1. /\ DOMAIN q = DOMAIN m /\ DOMAIN q.obj = DOMAIN m.obj /\ SameLists(m, q)
      /\ \A k \in DOMAIN m.obj :
            /\ DOMAIN q.obj[k] = DOMAIN m.obj[k]
            /\ q.obj[k].type = m.obj[k].type /\ q.obj[k].fanins = m.obj[k].fanins
            /\ q.obj[k].fanouts = m.obj[k].fanouts
            /\ q.obj[k].level = m.obj[k].level /\ q.obj[k].rlevel = m.obj[k].rlevel
            /\ q.obj[k].exor = IF k \in S THEN ex(k) ELSE m.obj[k].exor
  <2> DEFINE g == [k \in DOMAIN m.obj |-> IF k \in S THEN [m.obj[k] EXCEPT !.exor = ex(k)] ELSE m.obj[k]]
  <2>1. q = [m EXCEPT !.obj = g]
    BY DEF ExorUpdated
  <2> HIDE DEF ex, S
  <2>2. /\ DOMAIN g = DOMAIN m.obj
        /\ \A k \in DOMAIN m.obj :
            /\ DOMAIN g[k] = DOMAIN m.obj[k]
            /\ g[k].type = m.obj[k].type /\ g[k].fanins = m.obj[k].fanins
            /\ g[k].fanouts = m.obj[k].fanouts
            /\ g[k].level = m.obj[k].level /\ g[k].rlevel = m.obj[k].rlevel
            /\ g[k].exor = IF k \in S THEN ex(k) ELSE m.obj[k].exor
    BY ShapeObject DEF IsObject
  <2> HIDE DEF g
  <2>3. /\ DOMAIN q = DOMAIN m /\ q.obj = g /\ SameLists(m, q)
    BY <2>1 DEF Shape, SameLists
  <2> QED BY <2>2, <2>3
<1> HIDE DEF q
<1>2. Shape(q)
  <2>1. Size(q) = Size(m)
    BY <1>1 DEF Size
  <2>2. ASSUME NEW k \in DOMAIN m.obj PROVE IsObject(q.obj[k])
    <3>1. IsObject(m.obj[k])
      BY ShapeObject
    <3>2. ex(k) \in BOOLEAN
      BY ExorBoolean
    <3>3. q.obj[k].exor \in BOOLEAN
      <4> HIDE DEF ex, S
      <4> QED BY <1>1, <3>1, <3>2 DEF IsObject
    <3> QED BY <1>1, <3>1, <3>3 DEF IsObject
  <2> QED BY <1>1, <2>1, <2>2 DEF Shape
<1>3. Ands(q) = Ands(m) /\ Objs(q) = Objs(m) /\ Size(q) = Size(m) /\ \A k \in DOMAIN m.obj : Fanins(q, k) = Fanins(m, k)
  BY <1>1 DEF Ands, Objs, Size, Fanins
<1>4. Wired(q)
  <2>1. DOMAIN q.obj = DOMAIN m.obj /\ \A k \in DOMAIN m.obj : q.obj[k].fanouts = m.obj[k].fanouts
    BY <1>1
  <2> QED BY <1>3, <2>1 DEF Wired
<1>5. Typed(q)
  <2>1. DOMAIN q.obj = DOMAIN m.obj
        /\ \A k \in DOMAIN m.obj : q.obj[k].type = m.obj[k].type /\ q.obj[k].fanins = m.obj[k].fanins
    BY <1>1
  <2> QED BY <1>3, <2>1 DEF Typed
<1>6. Canonical(q)
  <2>1. q.table = m.table /\ \A k \in Ands(m) : q.obj[k].fanins = m.obj[k].fanins
    BY <1>1 DEF SameLists, Ands
  <2> QED BY <1>3, <2>1 DEF Canonical
<1>7. ASSUME NEW k \in Ands(m) PROVE q.obj[k].exor = IsExorType(q, k)
  <2>1. /\ k \in DOMAIN m.obj
        /\ Regular(m.obj[k].fanins[1]) \in DOMAIN m.obj /\ Regular(m.obj[k].fanins[2]) \in DOMAIN m.obj
    BY Children DEF Objs
  <2>2. IsExorType(q, k) = IsExorType(m, k)
    BY <1>1, <2>1, ExorSame
  <2>3. k \in S <=> f \in Fanins(m, k)
    BY <2>1 DEF Wired, Ands
  <2>4. q.obj[k].exor = IF k \in S THEN ex(k) ELSE m.obj[k].exor
    BY <1>1, <2>1
  <2> HIDE DEF S
  <2> QED BY <2>2, <2>3, <2>4
<1>8. ExorOK(q)
  BY <1>3, <1>7 DEF ExorOK
<1> QED BY <1>1, <1>2, <1>4, <1>5, <1>6, <1>8 DEF q, Network, SameLists

\* The node of Abc_AigReplace_int that keeps its Id under new children (abcAig.c:934).
LEMMA RecreatedKeeps ==
  ASSUME NEW m, Manager(m), NEW f \in Ands(m), NEW l1, NEW l2, Alive(m, l1), Alive(m, l2),
         AndLookup(m, l1, l2) = NULL
  PROVE  LET q == Recreated(m, f, l1, l2)
         IN  /\ Manager(q) /\ Patched(m, q, f) /\ q.stack = m.stack
             /\ q.obj[f].fanins = Ordered(l1, l2)
             /\ ~ fUpdateLevel => /\ ToSet(q.vLevels) \subseteq ToSet(m.vLevels)
                                  /\ ToSet(q.vLevelsR) \subseteq ToSet(m.vLevelsR)
<1> DEFINE a == FromLevels(m, f)
           b == FromLevelsR(a, f)
           c == AndDelete(b, f)
           d == RemoveFanins(c, f)
           r == AndCreateFrom(d, l1, l2, f)
           s == ToLevels(r, f)
           t == ToLevelsR(s, f)
           u == IF fUpdateLevel THEN t ELSE r
           q == ExorUpdated(u, f)
<1>0. q = Recreated(m, f, l1, l2)
  BY DEF Recreated
<1> HIDE DEF q
<1>1. /\ f \in DOMAIN m.obj /\ Network(m) /\ Shape(m) /\ Wired(m) /\ Typed(m) /\ Canonical(m)
      /\ LevelsOK(m) /\ LevelsROK(m) /\ Queue(m)
  BY DEF Manager, Network, Ands
<1>2. /\ DOMAIN a = DOMAIN m /\ a.obj = m.obj /\ a.table = m.table /\ a.stack = m.stack
      /\ a.vLevelsR = m.vLevelsR /\ LevelsOK(a)
      /\ ToSet(a.vLevels) = {e \in ToSet(m.vLevels) : e[2] # f}
  BY <1>1, FromLevelsEffect
<1> HIDE DEF a
<1>3. Shape(a) /\ LevelsROK(a)
  BY <1>1, <1>2, SameObjects DEF LevelsROK, Objs
<1>4. /\ DOMAIN b = DOMAIN a /\ b.obj = a.obj /\ b.table = a.table /\ b.stack = a.stack
      /\ b.vLevels = a.vLevels /\ LevelsROK(b)
      /\ ToSet(b.vLevelsR) = {e \in ToSet(a.vLevelsR) : e[2] # f}
  BY <1>3, FromLevelsREffect
<1> HIDE DEF b
<1>5. /\ DOMAIN c = DOMAIN b /\ c.obj = b.obj /\ c.table = b.table \ {f} /\ c.stack = b.stack
      /\ c.vLevels = b.vLevels /\ c.vLevelsR = b.vLevelsR
  BY <1>1, <1>2, <1>4 DEF AndDelete, Shape
<1> HIDE DEF c
<1>6. /\ DOMAIN c = DOMAIN m /\ c.obj = m.obj /\ c.table = m.table \ {f} /\ c.stack = m.stack
      /\ ToSet(c.vLevels) = {e \in ToSet(m.vLevels) : e[2] # f} /\ ListOK(c.vLevels)
      /\ ToSet(c.vLevelsR) = {e \in ToSet(m.vLevelsR) : e[2] # f} /\ ListOK(c.vLevelsR)
  BY <1>2, <1>4, <1>5 DEF LevelsOK, LevelsROK
<1>7. Shape(c) /\ Wired(c) /\ f \in DOMAIN c.obj
  BY <1>1, <1>6, SameObjects
<1>8. /\ Shape(d) /\ Wired(d) /\ DOMAIN d.obj = DOMAIN c.obj /\ SameLists(c, d)
      /\ \A k \in DOMAIN c.obj : SameData(c, d, k)
      /\ \A k \in DOMAIN c.obj \ {f} : d.obj[k].fanins = c.obj[k].fanins
      /\ d.obj[f].fanins = <<>>
  BY <1>7, RemoveFaninsEdges
<1> HIDE DEF d
<1>9. /\ DOMAIN d.obj = DOMAIN m.obj
      /\ \A k \in DOMAIN m.obj : SameData(m, d, k)
      /\ \A k \in DOMAIN m.obj \ {f} : d.obj[k].fanins = m.obj[k].fanins
  BY <1>6, <1>8 DEF SameData
<1>10. Ands(d) = Ands(m) /\ Objs(d) = Objs(m) /\ Size(d) = Size(m)
  BY <1>9 DEF Ands, Objs, Size, SameData
<1>11. Alive(d, l1) /\ Alive(d, l2)
  BY <1>10 DEF Alive
<1>12. /\ Regular(l1) # Regular(l2) /\ Regular(l1) > 0 /\ Regular(l2) > 0
       /\ \A n \in Ands(m) : m.obj[n].fanins # Ordered(l1, l2)
  BY <1>1, LookupResult DEF Alive, NULL
<1>13. /\ d.table = Ands(d) \ {f} /\ f \in DOMAIN d.obj /\ d.obj[f].type = "and"
       /\ \A k \in d.table : k \in Ands(m) /\ d.obj[k].fanins = m.obj[k].fanins
  BY <1>1, <1>6, <1>8, <1>9, <1>10 DEF Canonical, SameLists, SameData, Ands
<1>14. /\ \A k \in d.table : /\ Regular(d.obj[k].fanins[1]) > 0
                             /\ Regular(d.obj[k].fanins[1]) < Regular(d.obj[k].fanins[2])
       /\ \A j, k \in d.table : d.obj[j].fanins = d.obj[k].fanins => j = k
       /\ \A k \in d.table : d.obj[k].fanins # Ordered(l1, l2)
  BY <1>1, <1>12, <1>13 DEF Canonical
<1>15. \A k \in DOMAIN d.obj :
            /\ d.obj[k].type = "const1" <=> k = 0
            /\ d.obj[k].type = "pi" <=> k \in 1 .. NumPi
            /\ d.obj[k].type = "and" /\ k # f => Len(d.obj[k].fanins) = 2
            /\ d.obj[k].type = "po" => Len(d.obj[k].fanins) = 1
            /\ d.obj[k].type \notin {"and", "po"} => Len(d.obj[k].fanins) = 0
  BY <1>1, <1>9, <1>13 DEF Typed, SameData
<1>16. NumPi < Size(d)
  BY <1>1, <1>10 DEF Typed
<1>17. Shape(r) /\ Wired(r) /\ Typed(r) /\ Canonical(r) /\ Ands(r) = Ands(d) /\ Objs(r) = Objs(d)
  <2>1. PICK arity : arity = 1
    OBVIOUS
  <2>2. \A k \in DOMAIN d.obj :
            /\ d.obj[k].type = "const1" <=> k = 0
            /\ d.obj[k].type = "pi" <=> k \in 1 .. NumPi
            /\ d.obj[k].type = "and" /\ k # f => Len(d.obj[k].fanins) = 2
            /\ d.obj[k].type = "po" => Len(d.obj[k].fanins) = arity
            /\ d.obj[k].type \notin {"and", "po"} => Len(d.obj[k].fanins) = 0
    BY <1>15, <2>1
  <2>3. Shape(r) /\ Wired(r) /\ TypedAs(r, arity) /\ Canonical(r) /\ Ands(r) = Ands(d) /\ Objs(r) = Objs(d)
    BY <1>8, <1>11, <1>12, <1>13, <1>14, <1>16, <2>2, NewChildrenAs
  <2> QED BY <2>1, <2>3 DEF Typed, TypedAs
<1>18. /\ DOMAIN r.obj = DOMAIN d.obj /\ r.stack = d.stack
       /\ r.vLevels = d.vLevels /\ r.vLevelsR = d.vLevelsR
       /\ \A k \in DOMAIN d.obj \ {f} : SameData(d, r, k) /\ r.obj[k].fanins = d.obj[k].fanins
       /\ r.obj[f].type = d.obj[f].type /\ r.obj[f].fanins = Ordered(l1, l2)
       /\ r.obj[f].exor = IsExorType(r, f)
  BY <1>8, <1>11, <1>12, <1>13, AndCreateFromNetwork DEF Alive
<1> HIDE DEF r
<1>19. /\ DOMAIN r.obj = DOMAIN m.obj /\ r.stack = m.stack
       /\ r.vLevels = c.vLevels /\ r.vLevelsR = c.vLevelsR
       /\ \A k \in DOMAIN m.obj \ {f} : SameData(m, r, k) /\ r.obj[k].fanins = m.obj[k].fanins
       /\ r.obj[f].type = m.obj[f].type
       /\ Ands(r) = Ands(m) /\ Objs(r) = Objs(m)
  BY <1>1, <1>6, <1>8, <1>9, <1>10, <1>17, <1>18 DEF SameLists, SameData
<1>20. LevelsOK(r) /\ \A e \in ToSet(r.vLevels) : e[2] # f
  <2>1. \A e \in ToSet(r.vLevels) : e \in ToSet(m.vLevels) /\ e[2] # f
    BY <1>6, <1>19
  <2>2. \A e \in ToSet(r.vLevels) : e[2] \in Ands(m) /\ e[1] = m.obj[e[2]].level
    BY <1>1, <2>1 DEF LevelsOK
  <2>3. \A e \in ToSet(r.vLevels) : r.obj[e[2]].level = m.obj[e[2]].level
    BY <1>19, <2>1, <2>2 DEF Ands, SameData
  <2> QED BY <1>6, <1>19, <2>1, <2>2, <2>3 DEF LevelsOK
<1>21. LevelsROK(r) /\ \A e \in ToSet(r.vLevelsR) : e[2] # f
  <2>1. \A e \in ToSet(r.vLevelsR) : e \in ToSet(m.vLevelsR) /\ e[2] # f
    BY <1>6, <1>19
  <2>2. \A e \in ToSet(r.vLevelsR) : e[2] \in Objs(m) /\ e[1] = m.obj[e[2]].rlevel
    BY <1>1, <2>1 DEF LevelsROK
  <2>3. \A e \in ToSet(r.vLevelsR) : r.obj[e[2]].rlevel = m.obj[e[2]].rlevel
    BY <1>19, <2>1, <2>2 DEF Objs, SameData
  <2> QED BY <1>6, <1>19, <2>1, <2>2, <2>3 DEF LevelsROK
<1>22. f \in Ands(r) /\ f \in Objs(r)
  BY <1>19 DEF Ands, Objs
<1>23. /\ DOMAIN s = DOMAIN r /\ s.obj = r.obj /\ s.table = r.table /\ s.stack = r.stack
       /\ s.vLevelsR = r.vLevelsR /\ LevelsOK(s)
  BY <1>17, <1>20, <1>22, ToLevelsEffect
<1> HIDE DEF s
<1>24. Shape(s) /\ LevelsROK(s) /\ f \in Objs(s) /\ \A e \in ToSet(s.vLevelsR) : e[2] # f
  <2>1. Shape(s) /\ Objs(s) = Objs(r)
    BY <1>17, <1>23, SameObjects
  <2> QED BY <1>21, <1>22, <1>23, <2>1 DEF LevelsROK
<1>25. /\ DOMAIN t = DOMAIN s /\ t.obj = s.obj /\ t.table = s.table /\ t.stack = s.stack
       /\ t.vLevels = s.vLevels /\ LevelsROK(t)
  BY <1>24, ToLevelsREffect
<1> HIDE DEF t
<1>26. /\ DOMAIN u = DOMAIN r /\ u.obj = r.obj /\ u.table = r.table /\ u.stack = r.stack
       /\ LevelsOK(u) /\ LevelsROK(u)
       /\ ~ fUpdateLevel => u = r
  <2>1. LevelsOK(t)
    BY <1>23, <1>25 DEF LevelsOK, Ands
  <2> QED BY <1>20, <1>21, <1>23, <1>25, <2>1
<1> HIDE DEF u
<1>27. /\ Shape(u) /\ Wired(u) /\ Typed(u) /\ Ands(u) = Ands(r) /\ Objs(u) = Objs(r)
       /\ \A k : Fanins(u, k) = Fanins(r, k)
  BY <1>17, <1>26, SameObjects
<1>28. Canonical(u)
  BY <1>17, <1>26, <1>27 DEF Canonical
<1>29. ASSUME NEW k \in Ands(u), f \notin Fanins(u, k) PROVE u.obj[k].exor = IsExorType(u, k)
  <2>1. CASE k = f
    <3>1. IsExorType(u, f) = IsExorType(r, f)
      BY <1>26, ExorSame
    <3> QED BY <1>18, <1>26, <2>1, <3>1
  <2>2. CASE k # f
    <3>1. /\ k \in Ands(m) /\ k \in DOMAIN m.obj /\ k \in Ands(u)
      BY <1>19, <1>27 DEF Ands
    <3>2. u.obj[k].fanins = m.obj[k].fanins /\ u.obj[k].type = m.obj[k].type /\ u.obj[k].exor = m.obj[k].exor
      BY <1>19, <1>26, <2>2, <3>1 DEF SameData
    <3>3. /\ Regular(m.obj[k].fanins[1]) \in DOMAIN m.obj /\ Regular(m.obj[k].fanins[2]) \in DOMAIN m.obj
      BY <1>1, <3>1, Children DEF Objs
    <3>4. Fanins(u, k) = {Regular(u.obj[k].fanins[1]), Regular(u.obj[k].fanins[2])}
      BY <1>27, Children
    <3>5. Regular(m.obj[k].fanins[1]) # f /\ Regular(m.obj[k].fanins[2]) # f
      BY <1>29, <3>2, <3>4, SMTT(30)
    <3>6. IsExorType(u, k) = IsExorType(m, k)
      BY <1>19, <1>26, <3>2, <3>3, <3>5, ExorSame
    <3> QED BY <1>1, <3>1, <3>2, <3>6 DEF Network, ExorOK
  <2> QED BY <2>1, <2>2
<1>30. /\ Network(q) /\ DOMAIN q = DOMAIN u /\ DOMAIN q.obj = DOMAIN u.obj
       /\ q.stack = u.stack /\ q.vLevels = u.vLevels /\ q.vLevelsR = u.vLevelsR
       /\ \A k \in DOMAIN u.obj :
             /\ q.obj[k].type = u.obj[k].type /\ q.obj[k].fanins = u.obj[k].fanins
             /\ q.obj[k].level = u.obj[k].level /\ q.obj[k].rlevel = u.obj[k].rlevel
  <2>1. f \in Ands(u)
    BY <1>22, <1>27
  <2> QED BY <1>27, <1>28, <1>29, <2>1, ExorUpdatedEffect DEF q
<1>31. Ands(q) = Ands(u) /\ Objs(q) = Objs(u)
  BY <1>30 DEF Ands, Objs
<1>32. LevelsOK(q)
  BY <1>26, <1>30, <1>31 DEF LevelsOK, Ands
<1>33. LevelsROK(q)
  BY <1>26, <1>30, <1>31 DEF LevelsROK, Objs
<1>34. Patched(m, q, f)
  <2>1. DOMAIN q = DOMAIN m
    BY <1>1, <1>30 DEF Network, Shape
  <2>2. DOMAIN q.obj = DOMAIN m.obj
    BY <1>19, <1>26, <1>30
  <2>3. \A k \in DOMAIN m.obj : q.obj[k].type = m.obj[k].type
    BY <1>19, <1>26, <1>30 DEF SameData
  <2>4. \A k \in DOMAIN m.obj \ {f} : q.obj[k].fanins = m.obj[k].fanins
    BY <1>19, <1>26, <1>30
  <2> QED BY <2>1, <2>2, <2>3, <2>4 DEF Patched
<1>35. q.stack = m.stack
  BY <1>19, <1>26, <1>30
<1>36. Queue(q)
  BY <1>1, <1>34, <1>35, PatchedSets DEF Queue, Patched
<1>37. q.obj[f].fanins = Ordered(l1, l2)
  BY <1>1, <1>18, <1>19, <1>26, <1>30
<1>38. ~ fUpdateLevel => /\ ToSet(q.vLevels) \subseteq ToSet(m.vLevels)
                         /\ ToSet(q.vLevelsR) \subseteq ToSet(m.vLevelsR)
  BY <1>6, <1>19, <1>26, <1>30
<1> QED BY <1>0, <1>30, <1>32, <1>33, <1>34, <1>35, <1>36, <1>37, <1>38 DEF Manager

\* A change of the data that the network does not depend on.
LEMMA SetRLevel ==
  ASSUME NEW m, Shape(m), NEW n \in DOMAIN m.obj, NEW v
  PROVE  LET q == [m EXCEPT !.obj[n].rlevel = v]
         IN  /\ SameGraph(m, q) /\ q.stack = m.stack
             /\ q.vLevels = m.vLevels /\ q.vLevelsR = m.vLevelsR
             /\ \A k \in DOMAIN m.obj : /\ q.obj[k].level = m.obj[k].level
                                        /\ q.obj[k].rlevel = IF k = n THEN v ELSE m.obj[k].rlevel
BY ShapeObject DEF Shape, IsObject, SameGraph

\* Writing a level or a reverse level changes nothing else.
LEMMA SetLevel ==
  ASSUME NEW m, Shape(m), NEW n \in DOMAIN m.obj, NEW v
  PROVE  LET q == [m EXCEPT !.obj[n].level = v]
         IN  /\ SameGraph(m, q) /\ q.stack = m.stack
             /\ q.vLevels = m.vLevels /\ q.vLevelsR = m.vLevelsR
             /\ \A k \in DOMAIN m.obj : /\ q.obj[k].rlevel = m.obj[k].rlevel
                                        /\ q.obj[k].level = IF k = n THEN v ELSE m.obj[k].level
BY ShapeObject DEF Shape, IsObject, SameGraph

\* Having the same graph is transitive.
LEMMA SameGraphTransitive ==
  ASSUME NEW m, NEW p, NEW q, SameGraph(m, p), SameGraph(p, q)
  PROVE  SameGraph(m, q)
BY DEF SameGraph

\* A node that is in no list gets another reverse level.
LEMMA ChangeRLevel ==
  ASSUME NEW m, Shape(m), LevelsOK(m), LevelsROK(m), NEW n \in DOMAIN m.obj, NEW v,
         \A e \in ToSet(m.vLevelsR) : e[2] # n
  PROVE  LET q == [m EXCEPT !.obj[n].rlevel = v]
         IN  /\ SameGraph(m, q) /\ q.stack = m.stack /\ LevelsOK(q) /\ LevelsROK(q)
             /\ q.vLevels = m.vLevels /\ q.vLevelsR = m.vLevelsR
             /\ \A k \in DOMAIN m.obj : /\ q.obj[k].level = m.obj[k].level
                                        /\ q.obj[k].rlevel = IF k = n THEN v ELSE m.obj[k].rlevel
<1> DEFINE q == [m EXCEPT !.obj[n].rlevel = v]
<1>1. /\ SameGraph(m, q) /\ q.stack = m.stack
      /\ q.vLevels = m.vLevels /\ q.vLevelsR = m.vLevelsR
      /\ \A k \in DOMAIN m.obj : /\ q.obj[k].level = m.obj[k].level
                                 /\ q.obj[k].rlevel = IF k = n THEN v ELSE m.obj[k].rlevel
  BY SetRLevel
<1> HIDE DEF q
<1>2. Ands(q) = Ands(m) /\ Objs(q) = Objs(m)
  BY <1>1, SameGraphSets
<1>3. LevelsOK(q)
  BY <1>1, <1>2 DEF LevelsOK, Ands
<1>4. LevelsROK(q)
  BY <1>1, <1>2 DEF LevelsROK, Objs
<1> QED BY <1>1, <1>3, <1>4 DEF q

\* A node that is in no list may change its levels.
LEMMA ChangeLevel ==
  ASSUME NEW m, Shape(m), LevelsOK(m), LevelsROK(m), NEW n \in DOMAIN m.obj, NEW v,
         \A e \in ToSet(m.vLevels) : e[2] # n
  PROVE  LET q == [m EXCEPT !.obj[n].level = v]
         IN  /\ SameGraph(m, q) /\ q.stack = m.stack /\ LevelsOK(q) /\ LevelsROK(q)
             /\ q.vLevels = m.vLevels /\ q.vLevelsR = m.vLevelsR
             /\ \A k \in DOMAIN m.obj : /\ q.obj[k].rlevel = m.obj[k].rlevel
                                        /\ q.obj[k].level = IF k = n THEN v ELSE m.obj[k].level
<1> DEFINE q == [m EXCEPT !.obj[n].level = v]
<1>1. /\ SameGraph(m, q) /\ q.stack = m.stack
      /\ q.vLevels = m.vLevels /\ q.vLevelsR = m.vLevelsR
      /\ \A k \in DOMAIN m.obj : /\ q.obj[k].rlevel = m.obj[k].rlevel
                                 /\ q.obj[k].level = IF k = n THEN v ELSE m.obj[k].level
  BY SetLevel
<1> HIDE DEF q
<1>2. Ands(q) = Ands(m) /\ Objs(q) = Objs(m)
  BY <1>1, SameGraphSets
<1>3. LevelsOK(q)
  BY <1>1, <1>2 DEF LevelsOK, Ands
<1>4. LevelsROK(q)
  BY <1>1, <1>2 DEF LevelsROK, Objs
<1> QED BY <1>1, <1>3, <1>4 DEF q

\* The driver of an output gives way to another.
LEMMA PatchFaninKeeps ==
  ASSUME NEW m, Network(m), NEW f \in DOMAIN m.obj, m.obj[f].type = "po", NEW new, Alive(m, new)
  PROVE  LET q == PatchFanin(m, f, new)
         IN  /\ Network(q) /\ Patched(m, q, f) /\ SameLists(m, q)
             /\ q.obj[f].fanins = <<NotCond(new, Compl(m.obj[f].fanins[1]))>>
             /\ \A k \in DOMAIN m.obj : SameData(m, q, k)
<1> DEFINE l == NotCond(new, Compl(m.obj[f].fanins[1]))
           d == RemoveFanins(m, f)
           q == AddFanin(d, f, l)
<1>0. q = PatchFanin(m, f, new)
  BY DEF PatchFanin
<1> HIDE DEF q
<1>1. Shape(m) /\ Wired(m) /\ Typed(m) /\ Canonical(m) /\ ExorOK(m)
  BY DEF Network
<1>2. l \in Nat /\ Regular(l) \in Objs(m)
  <2>1. m.obj[f].fanins \in Seq(Nat) /\ Len(m.obj[f].fanins) = 1
    BY <1>1, ShapeObject DEF Typed
  <2>2. m.obj[f].fanins[1] \in Nat
    BY <2>1
  <2>3. Compl(m.obj[f].fanins[1]) \in {0, 1}
    BY <2>2 DEF Compl
  <2>4. new \in Nat /\ Regular(new) \in Objs(m)
    BY DEF Alive
  <2>5. l \in Nat /\ Regular(l) = Regular(new)
    BY <2>3, <2>4 DEF NotCond, Lit, Regular, Compl
  <2> QED BY <2>4, <2>5
<1> HIDE DEF l
<1>3. /\ Shape(d) /\ Wired(d) /\ DOMAIN d.obj = DOMAIN m.obj /\ SameLists(m, d)
      /\ \A k \in DOMAIN m.obj : SameData(m, d, k)
      /\ \A k \in DOMAIN m.obj \ {f} : d.obj[k].fanins = m.obj[k].fanins
      /\ d.obj[f].fanins = <<>>
  BY <1>1, RemoveFaninsEdges
<1> HIDE DEF d
<1>4. Objs(d) = Objs(m) /\ Fanins(d, f) = {}
  BY <1>3 DEF Objs, SameData, Fanins, ToSet
<1>5. /\ Shape(q) /\ Wired(q) /\ DOMAIN q.obj = DOMAIN d.obj /\ SameLists(d, q)
      /\ \A k \in DOMAIN d.obj : SameData(d, q, k)
      /\ \A k \in DOMAIN d.obj \ {f} : q.obj[k].fanins = d.obj[k].fanins
      /\ q.obj[f].fanins = <<l>>
  BY <1>2, <1>3, <1>4, AddFaninEdges DEF q
<1>6. /\ DOMAIN q.obj = DOMAIN m.obj /\ SameLists(m, q)
      /\ \A k \in DOMAIN m.obj : SameData(m, q, k)
      /\ \A k \in DOMAIN m.obj \ {f} : q.obj[k].fanins = m.obj[k].fanins
      /\ q.obj[f].fanins = <<l>>
  BY <1>3, <1>5 DEF SameLists, SameData
<1>7. Patched(m, q, f)
  BY <1>1, <1>5, <1>6 DEF Patched, Shape, SameData
<1>8. Ands(q) = Ands(m) /\ Objs(q) = Objs(m) /\ Size(q) = Size(m)
  BY <1>7, PatchedSets
<1>9. Typed(q)
  <2>1. Len(<<l>>) = 1
    OBVIOUS
  <2>2. \A k \in DOMAIN m.obj :
           /\ q.obj[k].type = m.obj[k].type
           /\ q.obj[k].fanins = IF k = f THEN <<l>> ELSE m.obj[k].fanins
    BY <1>6 DEF SameData
  <2>3. \A k \in DOMAIN m.obj :
           /\ q.obj[k].type = "and" => Len(q.obj[k].fanins) = 2
           /\ q.obj[k].type = "po" => Len(q.obj[k].fanins) = 1
           /\ q.obj[k].type \notin {"and", "po"} => Len(q.obj[k].fanins) = 0
    BY <1>1, <2>1, <2>2 DEF Typed
  <2> QED BY <1>1, <1>6, <1>8, <2>2, <2>3 DEF Typed
<1>10. \A k \in Ands(m) : k # f /\ q.obj[k].fanins = m.obj[k].fanins
  BY <1>6 DEF Ands
<1>11. Canonical(q)
  BY <1>1, <1>6, <1>8, <1>10 DEF Canonical, SameLists
<1>12. ASSUME NEW k \in Ands(m) PROVE q.obj[k].exor = IsExorType(q, k)
  <2> DEFINE c == m.obj[k].fanins
  <2>1. /\ k \in DOMAIN m.obj /\ q.obj[k].fanins = c
        /\ Regular(c[1]) \in DOMAIN m.obj /\ Regular(c[2]) \in DOMAIN m.obj
    BY <1>1, <1>10, Children DEF Objs, Ands
  <2>2. IsExorType(q, k) = IsExorType(m, k)
    <3>1. CASE Regular(c[1]) # f /\ Regular(c[2]) # f
      BY <1>6, <2>1, <3>1, ExorSame DEF SameData
    <3>2. CASE Regular(c[1]) = f \/ Regular(c[2]) = f
      <4>1. Len(m.obj[f].fanins) = 1 /\ Len(q.obj[f].fanins) = 1
        BY <1>1, <1>6 DEF Typed
      <4>2. ~ IsExorType(m, k)
        BY <3>2, <4>1, SMTT(30) DEF IsExorType
      <4>3. ~ IsExorType(q, k)
        BY <2>1, <3>2, <4>1 DEF IsExorType
      <4> QED BY <4>2, <4>3, ExorBoolean
    <3> QED BY <3>1, <3>2
  <2> QED BY <1>1, <1>6, <2>1, <2>2 DEF ExorOK, SameData
<1>13. ExorOK(q)
  BY <1>8, <1>12 DEF ExorOK
<1> QED BY <1>0, <1>5, <1>6, <1>7, <1>9, <1>11, <1>13 DEF Network, l

\* Abc_AigReplace_int for an output (abcAig.c:899).
LEMMA PatchOutputKeeps ==
  ASSUME NEW m, Manager(m), NEW f \in DOMAIN m.obj, m.obj[f].type = "po",
         NEW old, NEW new, Alive(m, new)
  PROVE  LET q == PatchOutput(m, f, old, new)
         IN  /\ Manager(q) /\ Patched(m, q, f) /\ q.stack = m.stack
             /\ q.obj[f].fanins = <<NotCond(new, Compl(m.obj[f].fanins[1]))>>
             /\ ~ fUpdateLevel => q.vLevels = m.vLevels /\ q.vLevelsR = m.vLevelsR
<1> DEFINE d == Regular(new)
           v == m.obj[old].rlevel
           a == FromLevelsR(m, d)
           b == [a EXCEPT !.obj[d].rlevel = v]
           c == IF fUpdateLevel THEN b ELSE m
           t == ToLevelsR(c, d)
           r == IF fUpdateLevel /\ m.obj[d].type # "pi" THEN t ELSE c
           q == PatchFanin(r, f, new)
<1>0. q = PatchOutput(m, f, old, new)
  BY DEF PatchOutput
<1> HIDE DEF q
<1>1. d \in Objs(m) /\ d \in DOMAIN m.obj /\ Network(m) /\ Shape(m) /\ LevelsOK(m) /\ LevelsROK(m) /\ Queue(m)
  BY DEF Alive, Objs, Manager, Network
<1> HIDE DEF d, v
<1>2. /\ DOMAIN a = DOMAIN m /\ a.obj = m.obj /\ a.table = m.table /\ a.stack = m.stack
      /\ a.vLevels = m.vLevels /\ LevelsROK(a)
      /\ ToSet(a.vLevelsR) = {e \in ToSet(m.vLevelsR) : e[2] # d}
  BY <1>1, FromLevelsREffect
<1> HIDE DEF a
<1>3. SameGraph(m, a) /\ Shape(a) /\ LevelsOK(a) /\ d \in DOMAIN a.obj /\ \A e \in ToSet(a.vLevelsR) : e[2] # d
  <2>1. SameGraph(m, a) /\ Shape(a) /\ Ands(a) = Ands(m)
    BY <1>1, <1>2, SameObjects
  <2> QED BY <1>1, <1>2, <2>1 DEF LevelsOK, Ands
<1>4. /\ SameGraph(a, b) /\ b.stack = a.stack /\ LevelsOK(b) /\ LevelsROK(b)
      /\ b.vLevels = a.vLevels /\ b.vLevelsR = a.vLevelsR
  BY <1>2, <1>3, ChangeRLevel
<1> HIDE DEF b
<1>5. /\ SameGraph(m, c) /\ c.stack = m.stack /\ LevelsOK(c) /\ LevelsROK(c)
      /\ fUpdateLevel => \A e \in ToSet(c.vLevelsR) : e[2] # d
      /\ ~ fUpdateLevel => c = m
  <2>1. SameGraph(m, b)
    BY <1>3, <1>4, SameGraphTransitive
  <2>2. SameGraph(m, m)
    BY DEF SameGraph
  <2> QED BY <1>1, <1>2, <1>3, <1>4, <2>1, <2>2
<1> HIDE DEF c
<1>6. Network(c) /\ Shape(c) /\ d \in Objs(c)
  BY <1>1, <1>5, SameGraphNetwork, SameGraphSets DEF Network
<1>7. fUpdateLevel =>
         /\ DOMAIN t = DOMAIN c /\ t.obj = c.obj /\ t.table = c.table /\ t.stack = c.stack
         /\ t.vLevels = c.vLevels /\ LevelsROK(t)
  BY <1>5, <1>6, ToLevelsREffect
<1> HIDE DEF t
<1>8. fUpdateLevel => SameGraph(c, t) /\ LevelsOK(t)
  <2> SUFFICES ASSUME fUpdateLevel PROVE SameGraph(c, t) /\ LevelsOK(t)
    OBVIOUS
  <2>1. SameGraph(c, t) /\ Ands(t) = Ands(c)
    BY <1>7, SameObjects
  <2> QED BY <1>5, <1>7, <2>1 DEF LevelsOK, Ands
<1>9. /\ SameGraph(m, r) /\ r.stack = m.stack /\ LevelsOK(r) /\ LevelsROK(r)
      /\ ~ fUpdateLevel => r = m
  <2>1. fUpdateLevel => SameGraph(m, t)
    BY <1>5, <1>8, SameGraphTransitive
  <2> QED BY <1>5, <1>7, <1>8, <2>1
<1> HIDE DEF r
<1>10. /\ Network(r) /\ Alive(r, new) /\ f \in DOMAIN r.obj /\ r.obj[f].type = "po"
       /\ r.obj[f].fanins = m.obj[f].fanins
  BY <1>1, <1>9, SameGraphNetwork, SameGraphSets DEF SameGraph
<1>11. /\ Network(q) /\ Patched(r, q, f) /\ SameLists(r, q)
       /\ q.obj[f].fanins = <<NotCond(new, Compl(r.obj[f].fanins[1]))>>
       /\ \A k \in DOMAIN r.obj : SameData(r, q, k)
  BY <1>10, PatchFaninKeeps DEF q
<1>12. Patched(m, q, f)
  BY <1>9, <1>11 DEF Patched, SameGraph
<1>13. Ands(q) = Ands(r) /\ Objs(q) = Objs(r)
  BY <1>11, PatchedSets
<1>14. LevelsOK(q)
  BY <1>9, <1>11, <1>13 DEF LevelsOK, SameLists, SameData, Ands
<1>15. LevelsROK(q)
  BY <1>9, <1>11, <1>13 DEF LevelsROK, SameLists, SameData, Objs
<1>16. q.stack = m.stack
  BY <1>9, <1>11 DEF SameLists
<1>17. Queue(q)
  BY <1>1, <1>12, <1>16, PatchedSets DEF Queue, Patched
<1>18. ~ fUpdateLevel => q.vLevels = m.vLevels /\ q.vLevelsR = m.vLevelsR
  BY <1>9, <1>11 DEF SameLists
<1> QED BY <1>0, <1>10, <1>11, <1>12, <1>14, <1>15, <1>16, <1>17, <1>18 DEF Manager

\* Without level updates nothing is in the lists.
Quiet(m) == fUpdateLevel \/ (m.vLevels = <<>> /\ m.vLevelsR = <<>>)

\* Without level updates the lists stay empty.
LEMMA QuietKept ==
  ASSUME NEW m, LevelsOK(m), LevelsROK(m), NEW q, LevelsOK(q), LevelsROK(q), Quiet(m),
         ~ fUpdateLevel => /\ ToSet(q.vLevels) \subseteq ToSet(m.vLevels)
                           /\ ToSet(q.vLevelsR) \subseteq ToSet(m.vLevelsR)
  PROVE  Quiet(q)
<1> SUFFICES ASSUME ~ fUpdateLevel PROVE q.vLevels = <<>> /\ q.vLevelsR = <<>>
  BY DEF Quiet
<1>1. IsSeq(m.vLevels) /\ IsSeq(m.vLevelsR) /\ IsSeq(q.vLevels) /\ IsSeq(q.vLevelsR)
  BY DEF LevelsOK, LevelsROK, ListOK
<1>2. ToSet(m.vLevels) = {} /\ ToSet(m.vLevelsR) = {}
  BY <1>1, SeqShape DEF Quiet
<1>3. ToSet(q.vLevels) = {} /\ ToSet(q.vLevelsR) = {}
  BY <1>2
<1> QED BY <1>1, <1>3, SeqShape

\* Abc_AigReplace_int for one fanout, with each of its cases.
LEMMA ReplaceInKeeps ==
  ASSUME NEW m, Manager(m), Quiet(m), NEW f \in DOMAIN m.obj, NEW old, old \in Fanins(m, f),
         NEW new, Alive(m, new)
  PROVE  LET q == ReplaceIn(m, f, old, new)
         IN  Manager(q) /\ Quiet(q) /\ Patched(m, q, f)
<1> DEFINE q == ReplaceIn(m, f, old, new)
           c == m.obj[f].fanins
<1>1. /\ Network(m) /\ Shape(m) /\ Wired(m) /\ Typed(m) /\ LevelsOK(m) /\ LevelsROK(m) /\ Queue(m)
  BY DEF Manager, Network
<1>2. m.obj[f].type \in {"and", "po"}
  <2>1. c # <<>>
    BY DEF Fanins, ToSet
  <2> QED BY <1>1, <2>1, TypedObject
<1>3. CASE m.obj[f].type = "po"
  <2>1. q = PatchOutput(m, f, old, new)
    BY <1>3 DEF ReplaceIn
  <2>2. /\ Manager(q) /\ Patched(m, q, f)
        /\ ~ fUpdateLevel => q.vLevels = m.vLevels /\ q.vLevelsR = m.vLevelsR
    BY <1>3, <2>1, PatchOutputKeeps
  <2>3. Quiet(q)
    BY <2>2 DEF Quiet
  <2> QED BY <2>2, <2>3
<1>4. CASE m.obj[f].type = "and"
  <2> DEFINE i == CHOOSE j \in 1 .. 2 : Regular(c[j]) = old
             l1 == NotCond(new, Compl(c[i]))
             l2 == c[3 - i]
             found == AndLookup(m, l1, l2)
             pushed == [m EXCEPT !.stack = Append(m.stack, [old |-> f, new |-> found])]
  <2>1. f \in Ands(m)
    BY <1>4 DEF Ands
  <2>2. /\ \A j \in 1 .. 2 : c[j] \in Nat /\ Regular(c[j]) \in Objs(m)
        /\ old \in {Regular(c[1]), Regular(c[2])}
    BY <1>1, <2>1, Children
  <2>3. i \in 1 .. 2 /\ Regular(c[i]) = old
    <3>1. \E j \in 1 .. 2 : Regular(c[j]) = old
      BY <2>2
    <3> QED BY <3>1
  <2> HIDE DEF i
  <2>4. Alive(m, l1) /\ Alive(m, l2)
    <3>1. Compl(c[i]) \in {0, 1}
      BY <2>2, <2>3 DEF Compl
    <3>2. l1 \in Nat /\ Regular(l1) = Regular(new)
      BY <3>1, Regulars DEF Alive
    <3>3. 3 - i \in 1 .. 2
      BY <2>3
    <3>4. Alive(m, l2)
      BY <2>2, <3>3 DEF Alive
    <3> QED BY <3>2, <3>4 DEF Alive
  <2>5. q = IF found # NULL THEN pushed ELSE Recreated(m, f, l1, l2)
    BY <1>4 DEF ReplaceIn, i
  <2> HIDE DEF l1, l2, q
  <2>6. CASE found = NULL
    <3>1. q = Recreated(m, f, l1, l2)
      BY <2>5, <2>6
    <3>2. /\ Manager(q) /\ Patched(m, q, f)
          /\ ~ fUpdateLevel => /\ ToSet(q.vLevels) \subseteq ToSet(m.vLevels)
                               /\ ToSet(q.vLevelsR) \subseteq ToSet(m.vLevelsR)
      BY <2>1, <2>4, <2>6, <3>1, RecreatedKeeps
    <3>3. Quiet(q)
      BY <1>1, <3>2, QuietKept DEF Manager
    <3> QED BY <3>2, <3>3 DEF q
  <2>7. CASE found # NULL
    <3>1. Alive(m, found)
      BY <1>1, <2>4, <2>7, LookupResult
    <3> HIDE DEF found
    <3>2. q = pushed
      BY <2>5, <2>7
    <3> DEFINE e == [old |-> f, new |-> found]
    <3>3. e.old = f /\ e.new = found
      OBVIOUS
    <3> HIDE DEF e
    <3>4. IsSeq(Append(m.stack, e)) /\ ToSet(Append(m.stack, e)) = ToSet(m.stack) \cup {e}
      BY <1>1, AppendShape DEF Queue
    <3>5. /\ DOMAIN q = DOMAIN m /\ q.obj = m.obj /\ q.table = m.table /\ q.stack = Append(m.stack, e)
          /\ q.vLevels = m.vLevels /\ q.vLevelsR = m.vLevelsR
      BY <1>1, <3>2 DEF Shape, e
    <3>6. Network(q) /\ Ands(q) = Ands(m) /\ Objs(q) = Objs(m) /\ \A l : Alive(q, l) <=> Alive(m, l)
      BY <1>1, <3>5, SameObjects
    <3>7. Queue(q)
      BY <1>1, <3>1, <3>3, <3>4, <3>5, <3>6 DEF Queue
    <3>8. LevelsOK(q) /\ LevelsROK(q) /\ Quiet(q)
      BY <1>1, <3>5, <3>6 DEF LevelsOK, LevelsROK, Quiet
    <3>9. Patched(m, q, f)
      BY <3>5 DEF Patched
    <3> QED BY <3>6, <3>7, <3>8, <3>9 DEF Manager, q
  <2> QED BY <2>6, <2>7
<1> QED BY <1>2, <1>3, <1>4

\* The fanouts of a node, one after the other.
MoveStep(e, q, f) == ReplaceIn(q, f, e.old, e.new)
MoveInv(e, k, q) ==
    /\ Manager(q) /\ Quiet(q) /\ Alive(q, e.new) /\ e.old \in DOMAIN q.obj
    /\ \A j \in 1 .. Len(e.left) : k < j => e.left[j] \in DOMAIN q.obj /\ e.old \in Fanins(q, e.left[j])
MoveFold == INSTANCE Folding WITH Op <- MoveStep, Inv <- MoveInv

\* One fanout, and the others are still to come.
LEMMA MoveStepKeeps ==
  ASSUME NEW e, Len(e.left) \in Nat, DOMAIN e.left = 1 .. Len(e.left), IsInjective(e.left),
         NEW k \in 0 .. Len(e.left) - 1, NEW p, MoveInv(e, k, p)
  PROVE  LET f == e.left[k + 1]
             r == MoveStep(e, p, f)
         IN  MoveInv(e, k + 1, r) /\ f \in DOMAIN p.obj /\ e.old \in Fanins(p, f) /\ Patched(p, r, f)
<1> DEFINE f == e.left[k + 1]
           r == MoveStep(e, p, f)
<1>1. k + 1 \in 1 .. Len(e.left) /\ k < k + 1
  OBVIOUS
<1>2. /\ Manager(p) /\ Quiet(p) /\ Alive(p, e.new) /\ e.old \in DOMAIN p.obj
      /\ \A j \in 1 .. Len(e.left) : k < j => e.left[j] \in DOMAIN p.obj /\ e.old \in Fanins(p, e.left[j])
  BY DEF MoveInv
<1>3. f \in DOMAIN p.obj /\ e.old \in Fanins(p, f)
  BY <1>1, <1>2
<1>4. r = ReplaceIn(p, f, e.old, e.new)
  BY DEF MoveStep
<1> HIDE DEF r
<1>5. Manager(r) /\ Quiet(r) /\ Patched(p, r, f)
  BY <1>2, <1>3, <1>4, ReplaceInKeeps
<1>6. Alive(r, e.new) /\ e.old \in DOMAIN r.obj
  BY <1>2, <1>5, PatchedSets DEF Patched
<1>7. ASSUME NEW j \in 1 .. Len(e.left), k + 1 < j
      PROVE  e.left[j] \in DOMAIN r.obj /\ e.old \in Fanins(r, e.left[j])
  <2>1. e.left[j] # f
    BY <1>1, <1>7 DEF IsInjective
  <2>2. k < j
    BY <1>7
  <2> QED BY <1>2, <1>5, <2>1, <2>2 DEF Patched, Fanins
<1> QED BY <1>3, <1>5, <1>6, <1>7 DEF MoveInv, r

\* Its loop over the fanouts of the old node.
LEMMA MovedKeeps ==
  ASSUME NEW m, Manager(m), Quiet(m), NEW old \in DOMAIN m.obj, NEW new, Alive(m, new)
  PROVE  LET q == Each(LAMBDA p, f : ReplaceIn(p, f, old, new), m, m.obj[old].fanouts)
         IN  Manager(q) /\ Quiet(q) /\ old \in DOMAIN q.obj
<1> DEFINE s == m.obj[old].fanouts
           e == [old |-> old, new |-> new, left |-> s]
           q == Each(LAMBDA p, f : ReplaceIn(p, f, old, new), m, s)
<1>1. e.old = old /\ e.new = new /\ e.left = s
  OBVIOUS
<1> HIDE DEF e
<1>2. Shape(m) /\ Wired(m)
  BY DEF Manager, Network
<1>3. /\ IsSeq(s) /\ IsInjective(s) /\ Len(s) \in Nat /\ DOMAIN s = 1 .. Len(s)
      /\ \A f \in ToSet(s) : f \in DOMAIN m.obj /\ old \in Fanins(m, f)
  BY <1>2, ShapeObject, SeqShape DEF Wired
<1>4. q = MoveFold!Result(e, m, s)[Len(s)]
  BY <1>1 DEF Each, Runs, MoveFold!Result, MoveStep
<1> HIDE DEF q, s
<1>5. MoveInv(e, 0, m)
  BY <1>1, <1>3 DEF MoveInv, ToSet
<1>6. ASSUME NEW k \in 0 .. Len(s) - 1, NEW p, MoveInv(e, k, p)
      PROVE  MoveInv(e, k + 1, MoveStep(e, p, s[k + 1]))
  <2>1. MoveInv(e, k + 1, MoveStep(e, p, e.left[k + 1]))
    BY <1>1, <1>3, <1>6, MoveStepKeeps
  <2> QED BY <1>1, <2>1
<1>7. \A k \in 0 .. Len(s) : MoveInv(e, k, MoveFold!Result(e, m, s)[k])
  BY <1>3, <1>5, <1>6, MoveFold!Kept
<1>8. MoveInv(e, Len(s), q)
  BY <1>3, <1>4, <1>7
<1> QED BY <1>1, <1>8 DEF MoveInv, q, s

-----------------------------------------------------------------------------
(* Deleting. *)

\* The sequence of the numbers from 1.
LEMMA UpToSeq ==
  ASSUME NEW N \in Nat
  PROVE  Len(UpTo(N)) = N /\ \A i \in 1 .. N : UpTo(N)[i] = i
BY DEF UpTo

\* Tuples of one and two members as sequences.
LEMMA TupleSeq ==
  ASSUME NEW S, NEW a \in S, NEW b \in S
  PROVE  <<a>> \in Seq(S) /\ <<a, b>> \in Seq(S)
OBVIOUS

UnqueuedStep(e, t, i) == IF i <= Len(t) /\ t[i].old = e.node THEN RemoveAt(t, i) ELSE t
UnqueuedInv(e, k, t) == IsSeq(t) /\ ToSet(t) \subseteq ToSet(e.stack)
UnqueuedFold == INSTANCE Folding WITH Op <- UnqueuedStep, Inv <- UnqueuedInv

\* Entries go, and none come.
LEMMA UnqueuedKeeps ==
  ASSUME NEW s, IsSeq(s), NEW n
  PROVE  IsSeq(Unqueued(s, n)) /\ ToSet(Unqueued(s, n)) \subseteq ToSet(s)
<1> DEFINE w == UpTo(Len(s))
           e == [node |-> n, stack |-> s]
<1>1. Len(s) \in Nat /\ Len(w) = Len(s) /\ \A i \in 1 .. Len(s) : w[i] = i
  BY SeqShape, UpToSeq
<1>2. e.node = n /\ e.stack = s
  OBVIOUS
<1>3. Unqueued(s, n) = UnqueuedFold!Result(e, s, w)[Len(w)]
  BY <1>2 DEF Unqueued, Each, Runs, UnqueuedStep, UnqueuedFold!Result
<1> HIDE DEF w, e
<1>4. UnqueuedInv(e, 0, s)
  BY <1>2 DEF UnqueuedInv
<1>5. ASSUME NEW k \in 0 .. Len(w) - 1, NEW t, UnqueuedInv(e, k, t)
      PROVE  UnqueuedInv(e, k + 1, UnqueuedStep(e, t, w[k + 1]))
  <2>1. PICK S : t \in Seq(S)
    BY <1>5 DEF UnqueuedInv, IsSeq
  <2>2. w[k + 1] = k + 1 /\ k + 1 \in Nat /\ k + 1 >= 1
    BY <1>1
  <2>3. CASE k + 1 <= Len(t) /\ t[k + 1].old = n
    <3>1. k + 1 \in 1 .. Len(t)
      BY <2>1, <2>2, <2>3
    <3>2. RemoveAt(t, k + 1) \in Seq(S) /\ RemoveAt(t, k + 1) = Without(t, k + 1)
      BY <2>1, <3>1, RemoveAtShape
    <3>3. ToSet(Without(t, k + 1)) \subseteq ToSet(t)
      <4>1. DOMAIN t = 1 .. Len(t) /\ Len(t) \in Nat
        BY <2>1
      <4> QED BY <3>1, <4>1 DEF ToSet, Without
    <3>4. UnqueuedStep(e, t, w[k + 1]) = RemoveAt(t, k + 1)
      BY <1>2, <2>2, <2>3 DEF UnqueuedStep
    <3> QED BY <1>5, <3>2, <3>3, <3>4, SeqIs DEF UnqueuedInv
  <2>4. CASE ~ (k + 1 <= Len(t) /\ t[k + 1].old = n)
    BY <1>2, <1>5, <2>2, <2>4 DEF UnqueuedStep, UnqueuedInv
  <2> QED BY <2>3, <2>4
<1>6. \A k \in 0 .. Len(w) : UnqueuedInv(e, k, UnqueuedFold!Result(e, s, w)[k])
  BY <1>1, <1>4, <1>5, UnqueuedFold!Kept
<1> QED BY <1>1, <1>2, <1>3, <1>6 DEF UnqueuedInv

\* A node without fanouts that takes no other's place is cleared.
LEMMA DeletedKeeps ==
  ASSUME NEW m, Manager(m), NEW n \in Ands(m), m.obj[n].fanouts = <<>>, ~ Protected(m, n)
  PROVE  LET q == DeleteObj(FromLevelsR(FromLevels(AndDelete(m, n), n), n), n)
         IN  /\ Manager(q) /\ DOMAIN q.obj = DOMAIN m.obj /\ q.stack = m.stack
             /\ ToSet(q.vLevels) \subseteq ToSet(m.vLevels)
             /\ ToSet(q.vLevelsR) \subseteq ToSet(m.vLevelsR)
             /\ q.obj[n].type = "none"
             /\ \A k \in DOMAIN m.obj \ {n} : SameData(m, q, k) /\ q.obj[k].fanins = m.obj[k].fanins
<1> DEFINE a == AndDelete(m, n)
           b == FromLevels(a, n)
           c == FromLevelsR(b, n)
           d == RemoveFanins(c, n)
           q == [d EXCEPT !.obj[n] = NewObj("none")]
<1>0. q = DeleteObj(FromLevelsR(FromLevels(AndDelete(m, n), n), n), n)
  BY DEF DeleteObj
<1> HIDE DEF q
<1>1. /\ n \in DOMAIN m.obj /\ Network(m) /\ Shape(m) /\ Wired(m) /\ Typed(m) /\ Canonical(m) /\ ExorOK(m)
      /\ LevelsOK(m) /\ LevelsROK(m) /\ Queue(m)
  BY DEF Manager, Network, Ands
<1>2. /\ DOMAIN a = DOMAIN m /\ a.obj = m.obj /\ a.table = m.table \ {n} /\ a.stack = m.stack
      /\ a.vLevels = m.vLevels /\ a.vLevelsR = m.vLevelsR
  BY <1>1 DEF AndDelete, Shape
<1> HIDE DEF a
<1>3. Shape(a) /\ Wired(a) /\ LevelsOK(a) /\ LevelsROK(a)
  BY <1>1, <1>2, SameObjects DEF LevelsOK, LevelsROK, Ands, Objs
<1>4. /\ DOMAIN b = DOMAIN a /\ b.obj = a.obj /\ b.table = a.table /\ b.stack = a.stack
      /\ b.vLevelsR = a.vLevelsR /\ LevelsOK(b)
      /\ ToSet(b.vLevels) = {e \in ToSet(a.vLevels) : e[2] # n}
  BY <1>3, FromLevelsEffect
<1> HIDE DEF b
<1>5. Shape(b) /\ Wired(b) /\ LevelsROK(b)
  BY <1>3, <1>4, SameObjects DEF LevelsROK, Objs
<1>6. /\ DOMAIN c = DOMAIN b /\ c.obj = b.obj /\ c.table = b.table /\ c.stack = b.stack
      /\ c.vLevels = b.vLevels /\ LevelsROK(c)
      /\ ToSet(c.vLevelsR) = {e \in ToSet(b.vLevelsR) : e[2] # n}
  BY <1>5, FromLevelsREffect
<1> HIDE DEF c
<1>7. /\ DOMAIN c = DOMAIN m /\ c.obj = m.obj /\ c.table = m.table \ {n} /\ c.stack = m.stack
      /\ ToSet(c.vLevels) = {e \in ToSet(m.vLevels) : e[2] # n} /\ ListOK(c.vLevels)
      /\ ToSet(c.vLevelsR) = {e \in ToSet(m.vLevelsR) : e[2] # n} /\ ListOK(c.vLevelsR)
  BY <1>2, <1>4, <1>6 DEF LevelsOK, LevelsROK
<1>8. Shape(c) /\ Wired(c) /\ n \in DOMAIN c.obj
  BY <1>1, <1>7, SameObjects
<1>9. /\ Shape(d) /\ Wired(d) /\ DOMAIN d.obj = DOMAIN c.obj /\ SameLists(c, d)
      /\ \A k \in DOMAIN c.obj : SameData(c, d, k)
      /\ \A k \in DOMAIN c.obj \ {n} : d.obj[k].fanins = c.obj[k].fanins
      /\ d.obj[n].fanins = <<>>
  BY <1>8, RemoveFaninsEdges
<1> HIDE DEF d
<1>10. /\ DOMAIN q = DOMAIN d /\ DOMAIN q.obj = DOMAIN m.obj /\ SameLists(d, q)
       /\ q.obj[n] = NewObj("none") /\ \A k \in DOMAIN m.obj \ {n} : q.obj[k] = d.obj[k]
  BY <1>1, <1>7, <1>9 DEF q, Shape, SameLists
<1>11. /\ IsObject(NewObj("none")) /\ NewObj("none").type = "none"
       /\ NewObj("none").fanins = <<>> /\ NewObj("none").fanouts = <<>>
  BY EmptySeq DEF NewObj, IsObject
<1>12. \A k \in DOMAIN m.obj \ {n} : SameData(m, q, k) /\ q.obj[k].fanins = m.obj[k].fanins
  BY <1>7, <1>9, <1>10 DEF SameData
<1>13. Size(q) = Size(m)
  BY <1>10 DEF Size
<1>14. Shape(q)
  <2>1. \A k \in DOMAIN q.obj : IsObject(q.obj[k])
    BY <1>7, <1>9, <1>10, <1>11, ShapeObject
  <2> QED BY <1>1, <1>7, <1>9, <1>10, <1>13, <2>1 DEF Shape
<1>15. \A k \in DOMAIN m.obj : n \notin Fanins(m, k)
  <2>1. ToSet(m.obj[n].fanouts) = {}
    BY DEF ToSet
  <2> QED BY <1>1, <2>1 DEF Wired
<1>16. Objs(q) = Objs(m) \ {n} /\ Ands(q) = Ands(m) \ {n}
  BY <1>10, <1>11, <1>12 DEF Objs, Ands, SameData
<1>17. Fanins(q, n) = {} /\ \A k \in DOMAIN m.obj \ {n} : Fanins(q, k) = Fanins(m, k)
  BY <1>10, <1>11, <1>12 DEF Fanins, ToSet
<1>18. Fanins(d, n) = {} /\ \A k \in DOMAIN m.obj \ {n} : Fanins(d, k) = Fanins(m, k)
  BY <1>7, <1>9 DEF Fanins, ToSet
<1>19. Wired(q)
  <2> SUFFICES ASSUME NEW k \in DOMAIN m.obj
               PROVE  /\ IsInjective(q.obj[k].fanouts)
                      /\ ToSet(q.obj[k].fanouts) = {j \in DOMAIN m.obj : k \in Fanins(q, j)}
                      /\ Fanins(q, k) \subseteq Objs(q)
    BY <1>10 DEF Wired
  <2>1. Fanins(q, k) \subseteq Objs(q)
    BY <1>1, <1>15, <1>16, <1>17 DEF Wired
  <2>2. CASE k = n
    <3>1. IsInjective(<<>>) /\ ToSet(<<>>) = {}
      BY DEF IsInjective, ToSet
    <3> QED BY <1>10, <1>11, <1>15, <1>17, <2>1, <2>2, <3>1
  <2>3. CASE k # n
    <3>1. /\ IsInjective(d.obj[k].fanouts)
          /\ ToSet(d.obj[k].fanouts) = {j \in DOMAIN m.obj : k \in Fanins(d, j)}
      BY <1>7, <1>9 DEF Wired
    <3>2. {j \in DOMAIN m.obj : k \in Fanins(d, j)} = {j \in DOMAIN m.obj : k \in Fanins(q, j)}
      BY <1>17, <1>18
    <3> QED BY <1>10, <2>1, <2>3, <3>1, <3>2
  <2> QED BY <2>2, <2>3
<1>20. Typed(q)
  <2>1. n > NumPi /\ NumPi \in Nat
    BY <1>1, TypedObject, AigAssumption DEF Ands
  <2>2. Len(<<>>) = 0
    OBVIOUS
  <2>3. \A k \in DOMAIN m.obj :
          /\ q.obj[k].type = "const1" <=> k = 0
          /\ q.obj[k].type = "pi" <=> k \in 1 .. NumPi
    BY <1>1, <1>10, <1>11, <1>12, <2>1 DEF Typed, SameData
  <2>4. \A k \in DOMAIN m.obj :
          /\ q.obj[k].type = "and" => Len(q.obj[k].fanins) = 2
          /\ q.obj[k].type = "po" => Len(q.obj[k].fanins) = 1
          /\ q.obj[k].type \notin {"and", "po"} => Len(q.obj[k].fanins) = 0
    BY <1>1, <1>10, <1>11, <1>12, <2>2 DEF Typed, SameData
  <2> QED BY <1>1, <1>10, <1>13, <2>3, <2>4 DEF Typed
<1>21. q.table = m.table \ {n} /\ q.stack = m.stack /\ q.vLevels = c.vLevels /\ q.vLevelsR = c.vLevelsR
  BY <1>7, <1>9, <1>10 DEF SameLists
<1>22. Canonical(q)
  <2>1. \A k \in Ands(q) : k \in Ands(m) /\ q.obj[k].fanins = m.obj[k].fanins
    BY <1>12, <1>16 DEF Ands
  <2> QED BY <1>1, <1>16, <1>21, <2>1 DEF Canonical
<1>23. ExorOK(q)
  <2> SUFFICES ASSUME NEW k \in Ands(q) PROVE q.obj[k].exor = IsExorType(q, k)
    BY DEF ExorOK
  <2>1. k \in Ands(m) /\ k # n /\ k \in DOMAIN m.obj
    BY <1>16 DEF Ands
  <2>2. /\ Regular(m.obj[k].fanins[1]) \in DOMAIN m.obj /\ Regular(m.obj[k].fanins[2]) \in DOMAIN m.obj
        /\ Regular(m.obj[k].fanins[1]) # n /\ Regular(m.obj[k].fanins[2]) # n
    BY <1>1, <1>15, <2>1, Children DEF Objs
  <2>3. IsExorType(q, k) = IsExorType(m, k)
    BY <1>12, <2>1, <2>2, ExorSame DEF SameData
  <2> QED BY <1>1, <1>12, <2>1, <2>3 DEF ExorOK, SameData
<1>24. Queue(q)
  <2>1. ASSUME NEW e \in ToSet(m.stack) PROVE e.old \in DOMAIN q.obj /\ Alive(q, e.new)
    <3>1. e.old \in DOMAIN m.obj /\ Alive(m, e.new)
      BY <1>1 DEF Queue
    <3>2. Regular(e.new) # n
      BY <2>1 DEF Protected, ToSet
    <3> QED BY <1>10, <1>16, <3>1, <3>2 DEF Alive
  <2> QED BY <1>1, <1>21, <2>1 DEF Queue
<1>25. LevelsOK(q)
  <2>1. \A e \in ToSet(q.vLevels) : e[2] \in Ands(m) /\ e[1] = m.obj[e[2]].level /\ e[2] # n
    BY <1>1, <1>7, <1>21 DEF LevelsOK
  <2> QED BY <1>7, <1>12, <1>16, <1>21, <2>1 DEF LevelsOK, Ands, SameData
<1>26. LevelsROK(q)
  <2>1. \A e \in ToSet(q.vLevelsR) : e[2] \in Objs(m) /\ e[1] = m.obj[e[2]].rlevel /\ e[2] # n
    BY <1>1, <1>7, <1>21 DEF LevelsROK
  <2> QED BY <1>7, <1>12, <1>16, <1>21, <2>1 DEF LevelsROK, Objs, SameData
<1>27. ToSet(q.vLevels) \subseteq ToSet(m.vLevels) /\ ToSet(q.vLevelsR) \subseteq ToSet(m.vLevelsR)
  BY <1>7, <1>21
<1> QED BY <1>0, <1>10, <1>11, <1>12, <1>14, <1>19, <1>20, <1>21, <1>22, <1>23, <1>24, <1>25, <1>26, <1>27
           DEF Manager, Network

\* Some ANDs are deleted, the other objects keep their fanins.
Thinned(m, q) ==
    /\ DOMAIN q.obj = DOMAIN m.obj
    /\ \A k \in DOMAIN m.obj :
          \/ m.obj[k].type = "and" /\ q.obj[k].type = "none"
          \/ q.obj[k].type = m.obj[k].type /\ q.obj[k].fanins = m.obj[k].fanins

\* Nothing comes onto the stack or into the lists.
Fewer(m, q) ==
    /\ Thinned(m, q)
    /\ ToSet(q.stack) \subseteq ToSet(m.stack)
    /\ ToSet(q.vLevels) \subseteq ToSet(m.vLevels)
    /\ ToSet(q.vLevelsR) \subseteq ToSet(m.vLevelsR)

\* One deletion after the other.
LEMMA ThinnedTransitive ==
  ASSUME NEW m, NEW p, NEW q, Thinned(m, p), Thinned(p, q)
  PROVE  Thinned(m, q)
<1>1. DOMAIN q.obj = DOMAIN m.obj /\ DOMAIN p.obj = DOMAIN m.obj
  BY DEF Thinned
<1>2. ASSUME NEW k \in DOMAIN m.obj
      PROVE  \/ m.obj[k].type = "and" /\ q.obj[k].type = "none"
             \/ q.obj[k].type = m.obj[k].type /\ q.obj[k].fanins = m.obj[k].fanins
  <2>1. \/ m.obj[k].type = "and" /\ p.obj[k].type = "none"
        \/ p.obj[k].type = m.obj[k].type /\ p.obj[k].fanins = m.obj[k].fanins
    BY DEF Thinned
  <2>2. \/ p.obj[k].type = "and" /\ q.obj[k].type = "none"
        \/ q.obj[k].type = p.obj[k].type /\ q.obj[k].fanins = p.obj[k].fanins
    BY <1>1 DEF Thinned
  <2> QED BY <2>1, <2>2
<1> QED BY <1>1, <1>2 DEF Thinned

\* Nothing is queued or marked.
Idle(m) == m.stack = <<>> /\ m.vLevels = <<>> /\ m.vLevelsR = <<>>

\* Lists that were empty stay empty when nothing comes into them.
LEMMA FewerKept ==
  ASSUME NEW m, Manager(m), NEW q, Manager(q), Fewer(m, q)
  PROVE  (Quiet(m) => Quiet(q)) /\ (Idle(m) => Idle(q))
<1>1. Quiet(m) => Quiet(q)
  BY QuietKept DEF Fewer, Manager
<1>2. Idle(m) => Idle(q)
  <2> SUFFICES ASSUME Idle(m) PROVE Idle(q)
    OBVIOUS
  <2>1. /\ IsSeq(m.stack) /\ IsSeq(m.vLevels) /\ IsSeq(m.vLevelsR)
        /\ IsSeq(q.stack) /\ IsSeq(q.vLevels) /\ IsSeq(q.vLevelsR)
    BY DEF Manager, Queue, LevelsOK, LevelsROK, ListOK
  <2>2. ToSet(m.stack) = {} /\ ToSet(m.vLevels) = {} /\ ToSet(m.vLevelsR) = {}
    BY <2>1, SeqShape DEF Idle
  <2>3. ToSet(q.stack) = {} /\ ToSet(q.vLevels) = {} /\ ToSet(q.vLevelsR) = {}
    BY <2>2 DEF Fewer
  <2> QED BY <2>1, <2>3, SeqShape DEF Idle
<1> QED BY <1>1, <1>2

\* The calls of Abc_AigDeleteNode that wait are about objects.
Deleting(e, r) ==
    /\ DOMAIN r = {"man", "calls"} /\ Manager(r.man) /\ Fewer(e.man, r.man)
    /\ DOMAIN r.man.obj = e.ids /\ r.calls \in Seq(e.ids)

\* One call of Abc_AigDeleteNode, with all its conditions.
LEMMA DeleteNextKeeps ==
  ASSUME NEW e, NEW r, Deleting(e, r), r.calls # <<>>
  PROVE  Deleting(e, DeleteNext(r))
<1> DEFINE m == r.man
           n == Head(r.calls)
           c == m.obj[n].fanins
           q == [m EXCEPT !.stack = Unqueued(m.stack, n)]
           d == DeleteObj(FromLevelsR(FromLevels(AndDelete(q, n), n), n), n)
           rest == Tail(r.calls)
           more == <<Regular(c[1]), Regular(c[2])>> \o rest
           s == DeleteNext(r)
<1>1. /\ Manager(m) /\ Fewer(e.man, m) /\ DOMAIN m.obj = e.ids /\ DOMAIN r = {"man", "calls"}
      /\ n \in DOMAIN m.obj /\ rest \in Seq(e.ids)
  BY HeadTailProperties DEF Deleting
<1>2. s = IF m.obj[n].type # "and" \/ m.obj[n].fanouts # <<>> THEN [r EXCEPT !.calls = rest]
          ELSE IF Protected(q, n) THEN [man |-> q, calls |-> rest]
          ELSE [man |-> d, calls |-> more]
  BY DEF DeleteNext
<1>3. /\ Network(m) /\ Shape(m) /\ Wired(m) /\ Typed(m) /\ LevelsOK(m) /\ LevelsROK(m) /\ Queue(m)
  BY <1>1 DEF Manager, Network
<1>4. CASE m.obj[n].type # "and" \/ m.obj[n].fanouts # <<>>
  <2>1. s = [r EXCEPT !.calls = rest]
    BY <1>2, <1>4, Zenon
  <2> HIDE DEF s, rest
  <2>2. DOMAIN s = {"man", "calls"} /\ s.man = m /\ s.calls = rest
    BY <1>1, <2>1
  <2> QED BY <1>1, <2>2, SMTT(30) DEF Deleting, s
<1>5. CASE ~ (m.obj[n].type # "and" \/ m.obj[n].fanouts # <<>>)
  <2>1. IsSeq(Unqueued(m.stack, n)) /\ ToSet(Unqueued(m.stack, n)) \subseteq ToSet(m.stack)
    BY <1>3, UnqueuedKeeps DEF Queue
  <2>2. /\ DOMAIN q = DOMAIN m /\ q.obj = m.obj /\ q.table = m.table /\ q.stack = Unqueued(m.stack, n)
        /\ q.vLevels = m.vLevels /\ q.vLevelsR = m.vLevelsR
    BY <1>3 DEF Shape
  <2> HIDE DEF q
  <2>3. Network(q) /\ Ands(q) = Ands(m) /\ Objs(q) = Objs(m) /\ \A l : Alive(q, l) <=> Alive(m, l)
    BY <1>3, <2>2, SameObjects
  <2>4. Queue(q)
    BY <1>3, <2>1, <2>2, <2>3 DEF Queue
  <2>5. LevelsOK(q) /\ LevelsROK(q) /\ Fewer(e.man, q)
    BY <1>1, <1>3, <2>1, <2>2, <2>3 DEF LevelsOK, LevelsROK, Fewer, Thinned
  <2>6. Manager(q)
    BY <2>3, <2>4, <2>5 DEF Manager
  <2>7. CASE Protected(q, n)
    <3>1. s = [man |-> q, calls |-> rest]
      BY <1>2, <1>5, <2>7
    <3> HIDE DEF s, rest
    <3>2. DOMAIN s = {"man", "calls"} /\ s.man = q /\ s.calls = rest
      BY <3>1
    <3> QED BY <1>1, <2>2, <2>5, <2>6, <3>2 DEF Deleting, s
  <2>8. CASE ~ Protected(q, n)
    <3>1. n \in Ands(q) /\ q.obj[n].fanouts = <<>>
      BY <1>1, <1>5, <2>2 DEF Ands
    <3>2. /\ Manager(d) /\ DOMAIN d.obj = DOMAIN q.obj /\ d.stack = q.stack
          /\ ToSet(d.vLevels) \subseteq ToSet(q.vLevels) /\ ToSet(d.vLevelsR) \subseteq ToSet(q.vLevelsR)
          /\ d.obj[n].type = "none"
          /\ \A k \in DOMAIN q.obj \ {n} : SameData(q, d, k) /\ d.obj[k].fanins = q.obj[k].fanins
      BY <2>6, <2>8, <3>1, DeletedKeeps
    <3>3. s = [man |-> d, calls |-> more]
      BY <1>2, <1>5, <2>8
    <3> HIDE DEF d
    <3>4. Fewer(e.man, d)
      <4>1. Thinned(q, d)
        BY <3>1, <3>2 DEF Thinned, SameData, Ands
      <4> QED BY <2>5, <3>2, <4>1, ThinnedTransitive DEF Fewer
    <3>5. more \in Seq(e.ids)
      <4>1. Regular(c[1]) \in e.ids /\ Regular(c[2]) \in e.ids
        BY <1>1, <1>3, <2>3, <3>1, Children DEF Objs
      <4>2. <<Regular(c[1]), Regular(c[2])>> \in Seq(e.ids)
        BY <4>1, TupleSeq
      <4> HIDE DEF rest
      <4> QED BY <1>1, <4>2, ConcatProperties
    <3> HIDE DEF s, more
    <3>6. DOMAIN s = {"man", "calls"} /\ s.man = d /\ s.calls = more
      BY <3>3
    <3> QED BY <1>1, <2>2, <3>2, <3>4, <3>5, <3>6 DEF Deleting, s
  <2> QED BY <2>7, <2>8
<1> QED BY <1>4, <1>5

DeleteStep(e, r, i) == IF r.calls = <<>> THEN r ELSE DeleteNext(r)
DeleteInv(e, k, r) == Deleting(e, r)
DeleteFold == INSTANCE Folding WITH Op <- DeleteStep, Inv <- DeleteInv

\* Abc_AigDeleteNode with the calls it makes for the fanins.
LEMMA DeleteNodeKeeps ==
  ASSUME NEW m, Manager(m), NEW n \in DOMAIN m.obj
  PROVE  LET q == DeleteNode(m, n)
         IN  Manager(q) /\ Fewer(m, q) /\ DOMAIN q.obj = DOMAIN m.obj
<1> DEFINE e == [ids |-> DOMAIN m.obj, man |-> m]
           r == [man |-> m, calls |-> <<n>>]
           w == UpTo(1 + 2 * Size(m))
           q == DeleteNode(m, n)
<1>1. e.ids = DOMAIN m.obj /\ e.man = m
  OBVIOUS
<1>2. DOMAIN r = {"man", "calls"} /\ r.man = m /\ r.calls = <<n>>
  OBVIOUS
<1>3. Len(w) \in Nat
  <2>1. 1 + 2 * Size(m) \in Nat
    BY DEF Manager, Network, Shape
  <2> QED BY <2>1, UpToSeq
<1>4. q = DeleteFold!Result(e, r, w)[Len(w)].man
  BY DEF DeleteNode, Each, Runs, DeleteFold!Result, DeleteStep
<1> HIDE DEF e, r, w, q
<1>5. DeleteInv(e, 0, r)
  <2>1. <<n>> \in Seq(e.ids)
    BY <1>1, TupleSeq
  <2> QED BY <1>1, <1>2, <2>1 DEF DeleteInv, Deleting, Fewer, Thinned
<1>6. \A k \in 0 .. Len(w) - 1 : \A p : DeleteInv(e, k, p) => DeleteInv(e, k + 1, DeleteStep(e, p, w[k + 1]))
  BY DeleteNextKeeps DEF DeleteInv, DeleteStep
<1>7. \A k \in 0 .. Len(w) : DeleteInv(e, k, DeleteFold!Result(e, r, w)[k])
  BY <1>3, <1>5, <1>6, DeleteFold!Kept
<1> QED BY <1>1, <1>3, <1>4, <1>7 DEF DeleteInv, Deleting, q

\* Abc_AigReplace_int
LEMMA Replace_intKeeps ==
  ASSUME NEW m, Manager(m), Quiet(m), NEW old \in DOMAIN m.obj, NEW new, Alive(m, new)
  PROVE  Manager(Replace_int(m, old, new)) /\ Quiet(Replace_int(m, old, new))
<1> DEFINE q == Each(LAMBDA p, f : ReplaceIn(p, f, old, new), m, m.obj[old].fanouts)
<1>1. Manager(q) /\ Quiet(q) /\ old \in DOMAIN q.obj
  BY MovedKeeps DEF Each, Runs
<1>2. Replace_int(m, old, new) = IF q.obj[old].fanouts = <<>> THEN DeleteNode(q, old) ELSE q
  BY DEF Replace_int
<1> HIDE DEF q
<1> QED BY <1>1, <1>2, DeleteNodeKeeps, FewerKept

\* The entry on top of the stack, and the ones below it.
LEMMA StackTop ==
  ASSUME NEW s, IsSeq(s), s # <<>>
  PROVE  Last(s) \in ToSet(s) /\ IsSeq(Front(s)) /\ ToSet(Front(s)) \subseteq ToSet(s)
<1>1. PICK S : s \in Seq(S)
  BY DEF IsSeq
<1>2. Len(s) \in Nat /\ DOMAIN s = 1 .. Len(s) /\ Len(s) > 0
  BY <1>1
<1>3. Last(s) = s[Len(s)]
  BY DEF Last
<1>4. Front(s) \in Seq(S) /\ \A i \in DOMAIN Front(s) : i \in DOMAIN s /\ Front(s)[i] = s[i]
  BY <1>1, <1>2 DEF Front
<1> QED BY <1>2, <1>3, <1>4 DEF ToSet, IsSeq

\* Taking entries off the stack leaves a manager.
LEMMA PoppedManager ==
  ASSUME NEW m, Manager(m), Quiet(m), NEW q, DOMAIN q = DOMAIN m, q.obj = m.obj, q.table = m.table,
         IsSeq(q.stack), ToSet(q.stack) \subseteq ToSet(m.stack),
         q.vLevels = m.vLevels, q.vLevelsR = m.vLevelsR
  PROVE  Manager(q) /\ Quiet(q)
<1>1. Network(m) /\ LevelsOK(m) /\ LevelsROK(m) /\ Queue(m)
  BY DEF Manager
<1>2. Network(q) /\ Ands(q) = Ands(m) /\ Objs(q) = Objs(m) /\ \A l : Alive(q, l) <=> Alive(m, l)
  BY <1>1, SameObjects
<1>3. Queue(q)
  BY <1>1, <1>2 DEF Queue
<1>4. LevelsOK(q) /\ LevelsROK(q) /\ Quiet(q)
  BY <1>1, <1>2 DEF LevelsOK, LevelsROK, Quiet
<1> QED BY <1>2, <1>3, <1>4 DEF Manager

\* One turn of the loop of Abc_AigReplace.
LEMMA TurnKeeps ==
  ASSUME NEW m, Manager(m), Quiet(m), m.stack # <<>>
  PROVE  Manager(Turn(m)) /\ Quiet(Turn(m))
<1> DEFINE top == Last(m.stack)
           q == [m EXCEPT !.stack = Front(m.stack)]
<1>1. Shape(m) /\ Queue(m)
  BY DEF Manager, Network
<1>2. top \in ToSet(m.stack) /\ IsSeq(Front(m.stack)) /\ ToSet(Front(m.stack)) \subseteq ToSet(m.stack)
  BY <1>1, StackTop DEF Queue
<1>3. top.old \in DOMAIN m.obj /\ Alive(m, top.new)
  BY <1>1, <1>2 DEF Queue
<1>4. /\ DOMAIN q = DOMAIN m /\ q.obj = m.obj /\ q.table = m.table /\ q.stack = Front(m.stack)
      /\ q.vLevels = m.vLevels /\ q.vLevelsR = m.vLevelsR
  BY <1>1 DEF Shape
<1>5. Turn(m) = IF q.obj[top.old].fanouts = <<>> THEN q ELSE Replace_int(q, top.old, top.new)
  BY DEF Turn
<1> HIDE DEF q, top
<1>6. Manager(q) /\ Quiet(q)
  BY <1>2, <1>4, PoppedManager
<1>7. top.old \in DOMAIN q.obj /\ Alive(q, top.new)
  BY <1>3, <1>4 DEF Alive, Objs
<1> QED BY <1>5, <1>6, <1>7, Replace_intKeeps

-----------------------------------------------------------------------------
(* Objects in the order of their Ids. *)

IdsStep(S, s, i) == IF i - 1 \in S THEN Append(s, i - 1) ELSE s
IdsInv(S, k, s) == s \in Seq(Nat) /\ IsInjective(s) /\ ToSet(s) = {i \in S : i < k}
IdsFold == INSTANCE Folding WITH Op <- IdsStep, Inv <- IdsInv

\* Each object of a set comes once in the order of the Ids.
LEMMA IdsShape ==
  ASSUME NEW m, Shape(m), NEW S \in SUBSET DOMAIN m.obj
  PROVE  Ids(m, S) \in Seq(Nat) /\ IsInjective(Ids(m, S)) /\ ToSet(Ids(m, S)) = S
<1> DEFINE w == UpTo(Size(m))
           s == Ids(m, S)
<1>1. Size(m) \in Nat /\ DOMAIN m.obj = 0 .. Size(m) - 1 /\ S \in SUBSET Nat
  BY DEF Shape
<1>2. Len(w) = Size(m) /\ \A i \in 1 .. Size(m) : w[i] = i
  BY <1>1, UpToSeq
<1>3. s = IdsFold!Result(S, <<>>, w)[Len(w)]
  BY DEF Ids, Each, Runs, IdsFold!Result, IdsStep
<1> HIDE DEF w, s
<1>4. IdsInv(S, 0, <<>>)
  <2>1. {i \in S : i < 0} = {}
    BY <1>1
  <2>2. <<>> \in Seq(Nat) /\ IsInjective(<<>>) /\ ToSet(<<>>) = {}
    BY DEF IsInjective, ToSet
  <2> QED BY <2>1, <2>2 DEF IdsInv
<1>5. ASSUME NEW k \in 0 .. Len(w) - 1, NEW t, IdsInv(S, k, t)
      PROVE  IdsInv(S, k + 1, IdsStep(S, t, w[k + 1]))
  <2>1. k \in Nat /\ k + 1 \in 1 .. Size(m) /\ w[k + 1] - 1 = k
    BY <1>1, <1>2
  <2>2. t \in Seq(Nat) /\ IsInjective(t) /\ ToSet(t) = {i \in S : i < k}
    BY <1>5 DEF IdsInv
  <2>3. CASE k \in S
    <3>1. IdsStep(S, t, w[k + 1]) = Append(t, k)
      BY <2>1, <2>3 DEF IdsStep
    <3>2. Append(t, k) \in Seq(Nat)
      BY <2>1, <2>2
    <3>3. IsSeq(t)
      BY <2>2, SeqIs
    <3>4. ToSet(Append(t, k)) = ToSet(t) \cup {k}
      BY <3>3, AppendShape
    <3>5. k \notin ToSet(t)
      BY <2>1, <2>2
    <3>6. IsInjective(Append(t, k))
      BY <2>2, <3>3, <3>5, AppendInjective1
    <3>7. {i \in S : i < k + 1} = {i \in S : i < k} \cup {k}
      BY <1>1, <2>1, <2>3
    <3> QED BY <2>2, <3>1, <3>2, <3>4, <3>6, <3>7 DEF IdsInv
  <2>4. CASE k \notin S
    <3>1. {i \in S : i < k + 1} = {i \in S : i < k}
      BY <1>1, <2>1, <2>4
    <3> QED BY <2>1, <2>2, <2>4, <3>1 DEF IdsInv, IdsStep
  <2> QED BY <2>3, <2>4
<1>6. \A k \in 0 .. Len(w) : IdsInv(S, k, IdsFold!Result(S, <<>>, w)[k])
  BY <1>1, <1>2, <1>4, <1>5, IdsFold!Kept
<1>7. IdsInv(S, Size(m), s)
  BY <1>1, <1>2, <1>3, <1>6
<1>8. {i \in S : i < Size(m)} = S
  BY <1>1
<1> QED BY <1>7, <1>8 DEF IdsInv, s

CleanupStep(e, q, n) == DeleteNode(q, n)
CleanupInv(e, k, q) == Manager(q) /\ Fewer(e, q) /\ DOMAIN q.obj = DOMAIN e.obj
CleanupFold == INSTANCE Folding WITH Op <- CleanupStep, Inv <- CleanupInv

\* Abc_AigCleanup.
LEMMA CleanupKeeps ==
  ASSUME NEW m, Manager(m)
  PROVE  Manager(Cleanup(m)) /\ Fewer(m, Cleanup(m))
<1> DEFINE S == {n \in m.table : m.obj[n].fanouts = <<>>}
           s == Ids(m, S)
           q == Cleanup(m)
<1>1. Shape(m) /\ S \in SUBSET DOMAIN m.obj
  BY DEF Manager, Network, Canonical, Ands
<1>2. s \in Seq(Nat) /\ ToSet(s) = S
  BY <1>1, IdsShape
<1>3. Len(s) \in Nat /\ \A i \in 1 .. Len(s) : s[i] \in DOMAIN m.obj
  <2> HIDE DEF s, S
  <2>1. Len(s) \in Nat /\ DOMAIN s = 1 .. Len(s)
    BY <1>2
  <2> QED BY <1>1, <1>2, <2>1 DEF ToSet
<1>4. q = CleanupFold!Result(m, m, s)[Len(s)]
  BY DEF Cleanup, Each, Runs, CleanupFold!Result, CleanupStep
<1> HIDE DEF q, s
<1>5. CleanupInv(m, 0, m)
  BY DEF CleanupInv, Fewer, Thinned
<1>6. ASSUME NEW k \in 0 .. Len(s) - 1, NEW p, CleanupInv(m, k, p)
      PROVE  CleanupInv(m, k + 1, CleanupStep(m, p, s[k + 1]))
  <2>1. k + 1 \in 1 .. Len(s)
    BY <1>3
  <2>2. Manager(p) /\ Fewer(m, p) /\ s[k + 1] \in DOMAIN p.obj /\ DOMAIN p.obj = DOMAIN m.obj
    BY <1>3, <1>6, <2>1 DEF CleanupInv
  <2> DEFINE r == DeleteNode(p, s[k + 1])
  <2>3. Manager(r) /\ Fewer(p, r) /\ DOMAIN r.obj = DOMAIN p.obj
    BY <2>2, DeleteNodeKeeps
  <2> HIDE DEF r
  <2>4. Fewer(m, r)
    BY <2>2, <2>3, ThinnedTransitive DEF Fewer
  <2> QED BY <2>2, <2>3, <2>4 DEF CleanupInv, CleanupStep, r
<1>7. \A k \in 0 .. Len(s) : CleanupInv(m, k, CleanupFold!Result(m, m, s)[k])
  BY <1>3, <1>5, <1>6, CleanupFold!Kept
<1> QED BY <1>3, <1>4, <1>7 DEF CleanupInv, q

-----------------------------------------------------------------------------
(* Levels. *)

\* Levels of objects that are in no list are free.
LEMMA LevelsFree ==
  ASSUME NEW m, Manager(m), Idle(m), NEW q, SameGraph(m, q), q.stack = m.stack,
         q.vLevels = m.vLevels, q.vLevelsR = m.vLevelsR
  PROVE  Manager(q) /\ Idle(q)
<1>1. Network(q) /\ Objs(q) = Objs(m) /\ DOMAIN q.obj = DOMAIN m.obj /\ \A l : Alive(q, l) <=> Alive(m, l)
  BY SameGraphNetwork, SameGraphSets DEF Manager, SameGraph
<1>2. Idle(q)
  BY DEF Idle
<1>3. ToSet(<<>>) = {}
  BY DEF ToSet
<1>4. Queue(q)
  BY <1>1 DEF Manager, Queue
<1>5. LevelsOK(q) /\ LevelsROK(q)
  BY <1>3 DEF Manager, LevelsOK, LevelsROK, Idle
<1> QED BY <1>1, <1>2, <1>4, <1>5 DEF Manager

\* Abc_NtkLevel writes levels only.
LEMMA LevelledSame ==
  ASSUME NEW m, Shape(m)
  PROVE  LET q == Levelled(m)
         IN  /\ SameGraph(m, q) /\ q.stack = m.stack /\ q.vLevels = m.vLevels /\ q.vLevelsR = m.vLevelsR
             /\ \A k \in DOMAIN m.obj :
                   q.obj[k].level = IF k \in Ands(m) THEN Depth(m, k) ELSE m.obj[k].level
<1> DEFINE D(k) == IF k \in Ands(m) THEN Depth(m, k) ELSE m.obj[k].level
           g == [k \in DOMAIN m.obj |-> [m.obj[k] EXCEPT !.level = D(k)]]
           q == Levelled(m)
<1>1. q = [m EXCEPT !.obj = g]
  BY DEF Levelled
<1> HIDE DEF D, q
<1>2. /\ DOMAIN g = DOMAIN m.obj
      /\ \A k \in DOMAIN m.obj :
            /\ DOMAIN g[k] = DOMAIN m.obj[k] /\ g[k].type = m.obj[k].type
            /\ g[k].fanins = m.obj[k].fanins /\ g[k].fanouts = m.obj[k].fanouts
            /\ g[k].exor = m.obj[k].exor /\ g[k].level = D(k)
  BY ShapeObject DEF IsObject
<1> HIDE DEF g
<1>3. /\ DOMAIN q = DOMAIN m /\ q.table = m.table /\ q.obj = g /\ q.stack = m.stack
      /\ q.vLevels = m.vLevels /\ q.vLevelsR = m.vLevelsR
  BY <1>1 DEF Shape
<1> QED BY <1>2, <1>3 DEF SameGraph, D, q

\* Abc_NtkStartReverseLevels writes reverse levels only.
LEMMA ReverseLevelledSame ==
  ASSUME NEW m, Shape(m)
  PROVE  LET q == ReverseLevelled(m)
         IN  /\ SameGraph(m, q) /\ q.stack = m.stack /\ q.vLevels = m.vLevels /\ q.vLevelsR = m.vLevelsR
             /\ \A k \in DOMAIN m.obj : q.obj[k].level = m.obj[k].level
<1> DEFINE D(k) == IF k \in Ands(m) THEN Height(m, k) ELSE 0
           g == [k \in DOMAIN m.obj |-> [m.obj[k] EXCEPT !.rlevel = D(k)]]
           q == ReverseLevelled(m)
<1>1. q = [m EXCEPT !.obj = g]
  BY DEF ReverseLevelled
<1> HIDE DEF D, q
<1>2. /\ DOMAIN g = DOMAIN m.obj
      /\ \A k \in DOMAIN m.obj :
            /\ DOMAIN g[k] = DOMAIN m.obj[k] /\ g[k].type = m.obj[k].type
            /\ g[k].fanins = m.obj[k].fanins /\ g[k].fanouts = m.obj[k].fanouts
            /\ g[k].exor = m.obj[k].exor /\ g[k].level = m.obj[k].level
  BY ShapeObject DEF IsObject
<1> HIDE DEF g
<1>3. /\ DOMAIN q = DOMAIN m /\ q.table = m.table /\ q.obj = g /\ q.stack = m.stack
      /\ q.vLevels = m.vLevels /\ q.vLevelsR = m.vLevelsR
  BY <1>1 DEF Shape
<1> QED BY <1>2, <1>3 DEF SameGraph, q

\* Levels change, and the nodes that are marked.
Relevelled(m, q) == SameGraph(m, q) /\ q.stack = m.stack

\* One fanout in the loop of Abc_AigUpdateLevel_int.
LEMMA RaiseFanoutKeeps ==
  ASSUME NEW m, Manager(m), NEW f \in DOMAIN m.obj, m.obj[f].fanins # <<>>
  PROVE  LET q == RaiseFanout(m, f)
         IN  /\ Manager(q) /\ Relevelled(m, q) /\ q.vLevelsR = m.vLevelsR
<1> DEFINE lev == LevelNew(m, f)
           a == FromLevels(m, f)
           b == [a EXCEPT !.obj[f].level = lev]
           t == ToLevels(b, f)
           q == RaiseFanout(m, f)
<1>1. /\ Network(m) /\ Shape(m) /\ Typed(m) /\ LevelsOK(m) /\ LevelsROK(m) /\ Queue(m)
  BY DEF Manager, Network
<1>2. q = IF m.obj[f].type = "po" \/ m.obj[f].level = lev THEN m ELSE t
  BY DEF RaiseFanout
<1> HIDE DEF lev, q
<1>3. CASE m.obj[f].type = "po" \/ m.obj[f].level = lev
  <2>1. q = m
    BY <1>2, <1>3
  <2> QED BY <2>1 DEF Relevelled, SameGraph, q
<1>4. CASE ~ (m.obj[f].type = "po" \/ m.obj[f].level = lev)
  <2>1. q = t
    BY <1>2, <1>4
  <2>2. f \in Ands(m)
    BY <1>1, <1>4, TypedObject DEF Ands
  <2>3. /\ DOMAIN a = DOMAIN m /\ a.obj = m.obj /\ a.table = m.table /\ a.stack = m.stack
        /\ a.vLevelsR = m.vLevelsR /\ LevelsOK(a)
        /\ ToSet(a.vLevels) = {e \in ToSet(m.vLevels) : e[2] # f}
    BY <1>1, FromLevelsEffect
  <2> HIDE DEF a
  <2>4. SameGraph(m, a) /\ Shape(a) /\ LevelsROK(a) /\ f \in DOMAIN a.obj /\ \A e \in ToSet(a.vLevels) : e[2] # f
    BY <1>1, <2>3, SameObjects DEF LevelsROK, Objs
  <2>5. /\ SameGraph(a, b) /\ b.stack = a.stack /\ LevelsOK(b) /\ LevelsROK(b)
        /\ b.vLevels = a.vLevels /\ b.vLevelsR = a.vLevelsR
    <3>1. Shape(a) /\ LevelsOK(a) /\ LevelsROK(a) /\ f \in DOMAIN a.obj /\ \A e \in ToSet(a.vLevels) : e[2] # f
      BY <2>3, <2>4
    <3> QED BY ONLY <3>1, ChangeLevel
  <2> HIDE DEF b
  <2>6. SameGraph(m, b)
    BY <2>4, <2>5, SameGraphTransitive
  <2>7. Network(b) /\ Shape(b) /\ f \in Ands(b) /\ \A e \in ToSet(b.vLevels) : e[2] # f
    BY <1>1, <2>2, <2>4, <2>5, <2>6, SameGraphNetwork, SameGraphSets DEF Network
  <2>8. /\ DOMAIN t = DOMAIN b /\ t.obj = b.obj /\ t.table = b.table /\ t.stack = b.stack
        /\ t.vLevelsR = b.vLevelsR /\ LevelsOK(t)
    BY <2>5, <2>7, ToLevelsEffect
  <2> HIDE DEF t
  <2>9. Network(t) /\ SameGraph(b, t) /\ Objs(t) = Objs(b)
    BY <2>7, <2>8, SameObjects
  <2>10. LevelsROK(t)
    BY <2>5, <2>8, <2>9 DEF LevelsROK
  <2>11. SameGraph(m, t) /\ t.stack = m.stack /\ t.vLevelsR = m.vLevelsR
    BY <2>3, <2>5, <2>6, <2>8, <2>9, SameGraphTransitive
  <2>12. Queue(t)
    BY <1>1, <2>11, SameGraphSets DEF Queue, SameGraph
  <2> QED BY <2>1, <2>8, <2>9, <2>10, <2>11, <2>12 DEF Manager, Relevelled, q
<1> QED BY <1>3, <1>4

\* One fanin in the loop of Abc_AigUpdateLevelR_int.
LEMMA RaiseFaninKeeps ==
  ASSUME NEW m, Manager(m), NEW l, Regular(l) \in Objs(m)
  PROVE  LET q == RaiseFanin(m, l)
         IN  /\ Manager(q) /\ Relevelled(m, q) /\ q.vLevels = m.vLevels
             /\ \A k \in DOMAIN m.obj : q.obj[k].level = m.obj[k].level
<1> DEFINE f == Regular(l)
           lev == RLevelNew(m, f)
           a == FromLevelsR(m, f)
           b == [a EXCEPT !.obj[f].rlevel = lev]
           t == ToLevelsR(b, f)
           q == RaiseFanin(m, l)
<1>1. /\ Network(m) /\ Shape(m) /\ Typed(m) /\ LevelsOK(m) /\ LevelsROK(m) /\ Queue(m)
      /\ f \in Objs(m) /\ f \in DOMAIN m.obj
  BY DEF Manager, Network, Objs
<1>2. q = IF m.obj[f].type = "pi" \/ m.obj[f].rlevel = lev THEN m ELSE t
  BY DEF RaiseFanin
<1> HIDE DEF lev, q, f
<1>3. CASE m.obj[f].type = "pi" \/ m.obj[f].rlevel = lev
  <2>1. q = m
    BY <1>2, <1>3
  <2> QED BY <2>1 DEF Relevelled, SameGraph, q
<1>4. CASE ~ (m.obj[f].type = "pi" \/ m.obj[f].rlevel = lev)
  <2>1. q = t
    BY <1>2, <1>4
  <2>3. /\ DOMAIN a = DOMAIN m /\ a.obj = m.obj /\ a.table = m.table /\ a.stack = m.stack
        /\ a.vLevels = m.vLevels /\ LevelsROK(a)
        /\ ToSet(a.vLevelsR) = {e \in ToSet(m.vLevelsR) : e[2] # f}
    BY <1>1, FromLevelsREffect
  <2> HIDE DEF a
  <2>4. SameGraph(m, a) /\ Shape(a) /\ LevelsOK(a) /\ f \in DOMAIN a.obj /\ \A e \in ToSet(a.vLevelsR) : e[2] # f
    BY <1>1, <2>3, SameObjects DEF LevelsOK, Ands
  <2>5. /\ SameGraph(a, b) /\ b.stack = a.stack /\ LevelsOK(b) /\ LevelsROK(b)
        /\ b.vLevels = a.vLevels /\ b.vLevelsR = a.vLevelsR
        /\ \A k \in DOMAIN a.obj : b.obj[k].level = a.obj[k].level
    BY <2>3, <2>4, ChangeRLevel
  <2> HIDE DEF b
  <2>6. SameGraph(m, b)
    BY <2>4, <2>5, SameGraphTransitive
  <2>7. Network(b) /\ Shape(b) /\ f \in Objs(b) /\ \A e \in ToSet(b.vLevelsR) : e[2] # f
    BY <1>1, <2>4, <2>5, <2>6, SameGraphNetwork, SameGraphSets DEF Network
  <2>8. /\ DOMAIN t = DOMAIN b /\ t.obj = b.obj /\ t.table = b.table /\ t.stack = b.stack
        /\ t.vLevels = b.vLevels /\ LevelsROK(t)
    BY <2>5, <2>7, ToLevelsREffect
  <2> HIDE DEF t
  <2>9. Network(t) /\ SameGraph(b, t) /\ Ands(t) = Ands(b)
    BY <2>7, <2>8, SameObjects
  <2>10. LevelsOK(t)
    BY <2>5, <2>8, <2>9 DEF LevelsOK
  <2>11. SameGraph(m, t) /\ t.stack = m.stack /\ t.vLevels = m.vLevels
    BY <2>3, <2>5, <2>6, <2>8, <2>9, SameGraphTransitive
  <2>12. Queue(t)
    BY <1>1, <2>11, SameGraphSets DEF Queue, SameGraph
  <2>13. \A k \in DOMAIN m.obj : t.obj[k].level = m.obj[k].level
    BY <2>3, <2>5, <2>8
  <2> QED BY <2>1, <2>8, <2>9, <2>10, <2>11, <2>12, <2>13 DEF Manager, Relevelled, q
<1> QED BY <1>3, <1>4

\* One change of levels after another is a change of levels.
LEMMA RelevelledTransitive ==
  ASSUME NEW m, NEW p, NEW q, Relevelled(m, p), Relevelled(p, q)
  PROVE  Relevelled(m, q)
BY SameGraphTransitive DEF Relevelled

FanoutsStep(e, q, f) == RaiseFanout(q, f)
FanoutsInv(e, k, q) == Manager(q) /\ Relevelled(e, q) /\ q.vLevelsR = e.vLevelsR
FanoutsFold == INSTANCE Folding WITH Op <- FanoutsStep, Inv <- FanoutsInv

\* One node of Abc_AigUpdateLevel_int.
LEMMA UpdateNodeKeeps ==
  ASSUME NEW m, Manager(m), NEW e \in ToSet(m.vLevels)
  PROVE  LET q == UpdateNode(m, e)
         IN  Manager(q) /\ Relevelled(m, q) /\ q.vLevelsR = m.vLevelsR
<1> DEFINE v == RemoveFirst(m.vLevels, e)
           a == [m EXCEPT !.vLevels = v]
           s == m.obj[e[2]].fanouts
           q == UpdateNode(m, e)
<1>1. /\ Network(m) /\ Shape(m) /\ Wired(m) /\ LevelsOK(m) /\ LevelsROK(m) /\ Queue(m)
      /\ e[2] \in DOMAIN m.obj
  BY DEF Manager, Network, LevelsOK, Ands
<1>2. IsSeq(v) /\ IsInjective(v) /\ ToSet(v) = ToSet(m.vLevels) \ {e}
  BY <1>1, RemoveFirstOnce DEF LevelsOK, ListOK
<1> HIDE DEF v
<1>3. /\ DOMAIN a = DOMAIN m /\ a.obj = m.obj /\ a.table = m.table /\ a.stack = m.stack
      /\ a.vLevels = v /\ a.vLevelsR = m.vLevelsR
  BY <1>1 DEF Shape
<1>4. q = FanoutsFold!Result(a, a, s)[Len(s)]
  BY DEF UpdateNode, Each, Runs, FanoutsFold!Result, FanoutsStep, v
<1> HIDE DEF a, q
<1>5. Network(a) /\ SameGraph(m, a) /\ Ands(a) = Ands(m) /\ Objs(a) = Objs(m) /\ \A l : Alive(a, l) <=> Alive(m, l)
  BY <1>1, <1>3, SameObjects
<1>6. LevelsOK(a) /\ LevelsROK(a) /\ Queue(a)
  BY <1>1, <1>2, <1>3, <1>5 DEF LevelsOK, LevelsROK, Queue, ListOK
<1>7. Manager(a) /\ Relevelled(m, a)
  BY <1>3, <1>5, <1>6 DEF Manager, Relevelled
<1>8. /\ IsSeq(s) /\ Len(s) \in Nat /\ DOMAIN s = 1 .. Len(s)
      /\ \A f \in ToSet(s) : f \in DOMAIN a.obj /\ a.obj[f].fanins # <<>>
  <2>1. IsSeq(s) /\ Len(s) \in Nat /\ DOMAIN s = 1 .. Len(s)
    BY <1>1, ShapeObject, SeqShape
  <2>2. \A f \in ToSet(s) : f \in DOMAIN m.obj /\ e[2] \in Fanins(m, f)
    BY <1>1 DEF Wired
  <2>3. \A f \in ToSet(s) : m.obj[f].fanins # <<>>
    BY <2>2 DEF Fanins, ToSet
  <2> QED BY <1>3, <2>1, <2>2, <2>3
<1> HIDE DEF s
<1>9. FanoutsInv(a, 0, a)
  BY <1>7 DEF FanoutsInv, Relevelled, SameGraph
<1>10. ASSUME NEW k \in 0 .. Len(s) - 1, NEW p, FanoutsInv(a, k, p)
       PROVE  FanoutsInv(a, k + 1, FanoutsStep(a, p, s[k + 1]))
  <2> DEFINE f == s[k + 1]
             r == RaiseFanout(p, f)
  <2>1. k + 1 \in 1 .. Len(s)
    BY <1>8
  <2>2. Manager(p) /\ Relevelled(a, p) /\ p.vLevelsR = a.vLevelsR
    BY <1>10 DEF FanoutsInv
  <2>3. f \in DOMAIN p.obj /\ p.obj[f].fanins # <<>>
    BY <1>8, <2>1, <2>2 DEF ToSet, Relevelled, SameGraph
  <2>4. Manager(r) /\ Relevelled(p, r) /\ r.vLevelsR = p.vLevelsR
    BY <2>2, <2>3, RaiseFanoutKeeps
  <2> HIDE DEF r
  <2>5. Relevelled(a, r)
    BY <2>2, <2>4, RelevelledTransitive
  <2> QED BY <2>2, <2>4, <2>5 DEF FanoutsInv, FanoutsStep, r
<1>11. \A k \in 0 .. Len(s) : FanoutsInv(a, k, FanoutsFold!Result(a, a, s)[k])
  BY <1>8, <1>9, <1>10, FanoutsFold!Kept
<1>12. FanoutsInv(a, Len(s), q)
  BY <1>4, <1>8, <1>11
<1>13. Manager(q) /\ Relevelled(m, q) /\ q.vLevelsR = m.vLevelsR
  BY <1>3, <1>7, <1>12, RelevelledTransitive DEF FanoutsInv
<1> QED BY <1>13 DEF q

FaninsStep(e, q, l) == RaiseFanin(q, l)
FaninsInv(e, k, q) ==
    /\ Manager(q) /\ Relevelled(e, q) /\ q.vLevels = e.vLevels
    /\ \A n \in DOMAIN e.obj : q.obj[n].level = e.obj[n].level
FaninsFold == INSTANCE Folding WITH Op <- FaninsStep, Inv <- FaninsInv

\* One node of Abc_AigUpdateLevelR_int.
LEMMA UpdateNodeRKeeps ==
  ASSUME NEW m, Manager(m), NEW e \in ToSet(m.vLevelsR)
  PROVE  LET q == UpdateNodeR(m, e)
         IN  /\ Manager(q) /\ Relevelled(m, q) /\ q.vLevels = m.vLevels
             /\ \A n \in DOMAIN m.obj : q.obj[n].level = m.obj[n].level
<1> DEFINE v == RemoveFirst(m.vLevelsR, e)
           a == [m EXCEPT !.vLevelsR = v]
           s == m.obj[e[2]].fanins
           q == UpdateNodeR(m, e)
<1>1. /\ Network(m) /\ Shape(m) /\ Wired(m) /\ LevelsOK(m) /\ LevelsROK(m) /\ Queue(m)
      /\ e[2] \in DOMAIN m.obj
  BY DEF Manager, Network, LevelsROK, Objs
<1>2. IsSeq(v) /\ IsInjective(v) /\ ToSet(v) = ToSet(m.vLevelsR) \ {e}
  BY <1>1, RemoveFirstOnce DEF LevelsROK, ListOK
<1> HIDE DEF v
<1>3. /\ DOMAIN a = DOMAIN m /\ a.obj = m.obj /\ a.table = m.table /\ a.stack = m.stack
      /\ a.vLevelsR = v /\ a.vLevels = m.vLevels
  BY <1>1 DEF Shape
<1>4. q = FaninsFold!Result(a, a, s)[Len(s)]
  BY DEF UpdateNodeR, Each, Runs, FaninsFold!Result, FaninsStep, v
<1> HIDE DEF a, q
<1>5. Network(a) /\ SameGraph(m, a) /\ Ands(a) = Ands(m) /\ Objs(a) = Objs(m) /\ \A l : Alive(a, l) <=> Alive(m, l)
  BY <1>1, <1>3, SameObjects
<1>6. LevelsOK(a) /\ LevelsROK(a) /\ Queue(a)
  BY <1>1, <1>2, <1>3, <1>5 DEF LevelsOK, LevelsROK, Queue, ListOK
<1>7. Manager(a) /\ Relevelled(m, a)
  BY <1>3, <1>5, <1>6 DEF Manager, Relevelled
<1>8. /\ Len(s) \in Nat /\ DOMAIN s = 1 .. Len(s)
      /\ \A l \in ToSet(s) : Regular(l) \in Objs(a)
  <2>1. IsSeq(s) /\ Len(s) \in Nat /\ DOMAIN s = 1 .. Len(s)
    BY <1>1, ShapeObject, SeqShape
  <2>2. Fanins(m, e[2]) \subseteq Objs(m)
    BY <1>1 DEF Wired
  <2> QED BY <1>5, <2>1, <2>2 DEF Fanins
<1> HIDE DEF s
<1>9. FaninsInv(a, 0, a)
  BY <1>7 DEF FaninsInv, Relevelled, SameGraph
<1>10. ASSUME NEW k \in 0 .. Len(s) - 1, NEW p, FaninsInv(a, k, p)
       PROVE  FaninsInv(a, k + 1, FaninsStep(a, p, s[k + 1]))
  <2> DEFINE l == s[k + 1]
             r == RaiseFanin(p, l)
  <2>1. k + 1 \in 1 .. Len(s)
    BY <1>8
  <2>2. /\ Manager(p) /\ Relevelled(a, p) /\ p.vLevels = a.vLevels
        /\ \A n \in DOMAIN a.obj : p.obj[n].level = a.obj[n].level
    BY <1>10 DEF FaninsInv
  <2>3. Regular(l) \in Objs(p)
    BY <1>8, <2>1, <2>2, SameGraphSets DEF ToSet, Relevelled
  <2>4. /\ Manager(r) /\ Relevelled(p, r) /\ r.vLevels = p.vLevels
        /\ \A n \in DOMAIN p.obj : r.obj[n].level = p.obj[n].level
    BY <2>2, <2>3, RaiseFaninKeeps
  <2> HIDE DEF r
  <2>5. Relevelled(a, r)
    BY <2>2, <2>4, RelevelledTransitive
  <2>6. \A n \in DOMAIN a.obj : r.obj[n].level = a.obj[n].level
    BY <2>2, <2>4 DEF Relevelled, SameGraph
  <2> QED BY <2>2, <2>4, <2>5, <2>6 DEF FaninsInv, FaninsStep, r
<1>11. \A k \in 0 .. Len(s) : FaninsInv(a, k, FaninsFold!Result(a, a, s)[k])
  BY <1>8, <1>9, <1>10, FaninsFold!Kept
<1>12. FaninsInv(a, Len(s), q)
  BY <1>4, <1>8, <1>11
<1>13. Manager(q) /\ Relevelled(m, q) /\ q.vLevels = m.vLevels
  BY <1>3, <1>7, <1>12, RelevelledTransitive DEF FaninsInv
<1>14. \A n \in DOMAIN m.obj : q.obj[n].level = m.obj[n].level
  BY <1>3, <1>12 DEF FaninsInv
<1> QED BY <1>13, <1>14 DEF q

-----------------------------------------------------------------------------
(* The depth-first order. *)

\* As long as all are in S, the Ids come one after the other.
FirstStep(e, s, i) == IdsStep(e.ids, s, i)
FirstInv(e, k, s) ==
    /\ s \in Seq(Nat)
    /\ k <= e.last + 1 => Len(s) = k
    /\ \A i \in 0 .. e.last : i < k => i + 1 \in 1 .. Len(s) /\ s[i + 1] = i
FirstFold == INSTANCE Folding WITH Op <- FirstStep, Inv <- FirstInv

\* The objects up to K, if all are among them, come first.
LEMMA IdsFirst ==
  ASSUME NEW m, Shape(m), NEW S \in SUBSET DOMAIN m.obj, NEW K \in Nat, 0 .. K \subseteq S
  PROVE  \A i \in 0 .. K : i + 1 \in 1 .. Len(Ids(m, S)) /\ Ids(m, S)[i + 1] = i
<1> DEFINE w == UpTo(Size(m))
           s == Ids(m, S)
           e == [ids |-> S, last |-> K]
<1>0. e.ids = S /\ e.last = K
  OBVIOUS
<1> HIDE DEF e
<1>1. /\ Size(m) \in Nat /\ DOMAIN m.obj = 0 .. Size(m) - 1 /\ S \in SUBSET Nat /\ e.last \in Nat
      /\ 0 .. e.last \subseteq S
  BY <1>0 DEF Shape
<1>2. Len(w) = Size(m) /\ \A i \in 1 .. Size(m) : w[i] = i
  BY <1>1, UpToSeq
<1>3. s = FirstFold!Result(e, <<>>, w)[Len(w)]
  BY <1>0 DEF Ids, Each, Runs, FirstFold!Result, FirstStep, IdsStep
<1> HIDE DEF w, s
<1>4. FirstInv(e, 0, <<>>)
  BY <1>1 DEF FirstInv
<1>5. ASSUME NEW k \in 0 .. Len(w) - 1, NEW t, FirstInv(e, k, t)
      PROVE  FirstInv(e, k + 1, FirstStep(e, t, w[k + 1]))
  <2>1. k \in Nat /\ k + 1 \in 1 .. Size(m) /\ w[k + 1] - 1 = k
    BY <1>1, <1>2
  <2>2. /\ t \in Seq(Nat) /\ Len(t) \in Nat
        /\ k <= e.last + 1 => Len(t) = k
        /\ \A i \in 0 .. e.last : i < k => i + 1 \in 1 .. Len(t) /\ t[i + 1] = i
    BY <1>5 DEF FirstInv
  <2>3. CASE k \in S
    <3> DEFINE a == Append(t, k)
    <3>1. FirstStep(e, t, w[k + 1]) = a
      BY <1>0, <2>1, <2>3 DEF FirstStep, IdsStep
    <3>2. /\ a \in Seq(Nat) /\ Len(a) = Len(t) + 1 /\ a[Len(t) + 1] = k
          /\ \A i \in 1 .. Len(t) : a[i] = t[i]
      BY <2>1, <2>2, AppendProperties
    <3> HIDE DEF a
    <3>3. k + 1 <= e.last + 1 => Len(a) = k + 1
      BY <1>1, <2>1, <2>2, <3>2
    <3>4. ASSUME NEW i \in 0 .. e.last, i < k + 1 PROVE i + 1 \in 1 .. Len(a) /\ a[i + 1] = i
      <4>1. CASE i < k
        <5>1. i + 1 \in 1 .. Len(t) /\ t[i + 1] = i
          BY <2>2, <4>1
        <5>2. a[i + 1] = t[i + 1] /\ i + 1 \in 1 .. Len(t) + 1
          BY <2>2, <3>2, <5>1
        <5> QED BY <3>2, <5>1, <5>2
      <4>2. CASE i = k
        <5>1. Len(t) = k
          BY <1>1, <2>1, <2>2, <4>2
        <5> QED BY <2>1, <3>2, <4>2, <5>1
      <4> QED BY <2>1, <3>4, <4>1, <4>2
    <3> QED BY <3>1, <3>2, <3>3, <3>4 DEF FirstInv
  <2>4. CASE k \notin S
    <3>1. k > e.last
      BY <1>1, <2>1, <2>4
    <3>2. FirstStep(e, t, w[k + 1]) = t
      BY <1>0, <2>1, <2>4 DEF FirstStep, IdsStep
    <3>3. ~ (k + 1 <= e.last + 1)
      BY <1>1, <2>1, <3>1
    <3>4. \A i \in 0 .. e.last : i < k
      BY <1>1, <2>1, <3>1
    <3> QED BY <2>2, <3>2, <3>3, <3>4 DEF FirstInv
  <2> QED BY <2>3, <2>4
<1>6. \A k \in 0 .. Len(w) : FirstInv(e, k, FirstFold!Result(e, <<>>, w)[k])
  BY <1>1, <1>2, <1>4, <1>5, FirstFold!Kept
<1>7. FirstInv(e, Size(m), s)
  BY <1>1, <1>2, <1>3, <1>6
<1>8. \A i \in 0 .. e.last : i < Size(m)
  BY <1>1
<1> QED BY <1>0, <1>7, <1>8 DEF FirstInv, s

\* A sequence without repetitions is as long as the set of its members.
LEMMA CountInjective ==
  ASSUME NEW s, IsSeq(s), IsInjective(s)
  PROVE  IsFiniteSet(ToSet(s)) /\ Cardinality(ToSet(s)) = Len(s)
<1>1. Len(s) \in Nat /\ DOMAIN s = 1 .. Len(s)
  BY SeqShape
<1>2. s \in [1 .. Len(s) -> ToSet(s)]
  <2>1. PICK S : s \in Seq(S)
    BY DEF IsSeq
  <2>2. s \in [1 .. Len(s) -> S]
    BY <2>1
  <2> QED BY <2>2 DEF ToSet
<1>3. s \in Bijection(1 .. Len(s), ToSet(s))
  BY <1>1, <1>2 DEF Bijection, Injection, Surjection, IsInjective, ToSet
<1>4. ExistsBijection(1 .. Len(s), ToSet(s))
  BY <1>3 DEF ExistsBijection
<1>5. Cardinality(ToSet(s)) = Len(s)
  BY <1>1, <1>4, FS_CountingElements
<1>6. IsFiniteSet(1 .. Len(s))
  BY <1>1, FS_Interval
<1>7. IsFiniteSet(ToSet(s))
  BY <1>4, <1>6, FS_Bijection
<1> QED BY <1>5, <1>7

\* What waits in the depth-first search: every node is in the order, has its end
\* waiting, or has a call waiting.
Searching(m, w) ==
    /\ DOMAIN w = {"order", "seen", "calls"}
    /\ w.order \in Seq(Nat) /\ IsInjective(w.order)
    /\ w.calls \in Seq([node : DOMAIN m.obj, done : BOOLEAN])
    /\ ToSet(w.order) \subseteq w.seen /\ w.seen \subseteq Ands(m)
    /\ \A n \in w.seen : \/ n \in ToSet(w.order)
                         \/ \E i \in DOMAIN w.calls : w.calls[i].done /\ w.calls[i].node = n
    /\ \A i \in DOMAIN w.calls : w.calls[i].done => w.calls[i].node \in w.seen \ ToSet(w.order)
    /\ \A i, j \in DOMAIN w.calls :
          w.calls[i].done /\ w.calls[j].done /\ w.calls[i].node = w.calls[j].node => i = j
    /\ \A n \in Ands(m) : \/ n \in w.seen
                          \/ \E i \in DOMAIN w.calls : ~ w.calls[i].done /\ w.calls[i].node = n

\* The calls that are left to make.
Left(m, w) == Len(w.calls) + 3 * Cardinality(Ands(m) \ w.seen)

\* One call of Abc_AigDfs_rec, or the end of one: it brings the search nearer to its end.
LEMMA DfsNextKeeps ==
  ASSUME NEW m, Network(m), NEW w, Searching(m, w), w.calls # <<>>, IsFiniteSet(Ands(m))
  PROVE  Searching(m, DfsNext(m, w)) /\ Left(m, DfsNext(m, w)) = Left(m, w) - 1 /\ Left(m, w) \in Nat
<1> DEFINE C == [node : DOMAIN m.obj, done : BOOLEAN]
           h == Head(w.calls)
           t == Tail(w.calls)
           n == h.node
           q == DfsNext(m, w)
<1>1. /\ h \in C /\ t \in Seq(C) /\ Len(t) = Len(w.calls) - 1 /\ Len(w.calls) \in Nat
      /\ \A i \in 1 .. Len(t) : t[i] = w.calls[i + 1]
      /\ w.calls[1] = h /\ DOMAIN w.calls = 1 .. Len(w.calls) /\ DOMAIN t = 1 .. Len(t)
      /\ Len(t) \in Nat
  <2>1. w.calls \in Seq(C) /\ w.calls # <<>>
    BY DEF Searching
  <2> HIDE DEF C
  <2> QED BY <2>1, HeadTailProperties
<1>2. Cardinality(Ands(m) \ w.seen) \in Nat /\ IsFiniteSet(Ands(m) \ w.seen) /\ Left(m, w) \in Nat
  <2>1. IsFiniteSet(Ands(m) \ w.seen)
    BY FS_Subset
  <2>2. Cardinality(Ands(m) \ w.seen) \in Nat
    BY <2>1, FS_CardinalityType
  <2> QED BY <1>1, <2>1, <2>2 DEF Left
<1>3. n \in DOMAIN m.obj /\ n \in Nat
  BY <1>1 DEF Network, Shape
<1> HIDE DEF h, t
<1>4. CASE h.done
  <2> DEFINE a == Append(w.order, n)
  <2>1. q = [w EXCEPT !.calls = t, !.order = a]
    BY <1>4 DEF DfsNext, h, t
  <2>2. n \in w.seen \ ToSet(w.order)
    <3>1. 1 \in DOMAIN w.calls
      BY <1>1
    <3>2. w.calls[1].done => w.calls[1].node \in w.seen \ ToSet(w.order)
      BY <3>1 DEF Searching
    <3> QED BY <1>1, <1>4, <3>2
  <2>3. a \in Seq(Nat) /\ IsInjective(a) /\ ToSet(a) = ToSet(w.order) \cup {n}
    <3>1. w.order \in Seq(Nat) /\ IsInjective(w.order) /\ IsSeq(w.order)
      BY SeqIs DEF Searching
    <3>2. a \in Seq(Nat)
      BY <1>3, <3>1, AppendProperties
    <3> QED BY <2>2, <3>1, <3>2, AppendShape, AppendInjective1
  <2> HIDE DEF a, n
  <2>4. DOMAIN q = {"order", "seen", "calls"} /\ q.order = a /\ q.seen = w.seen /\ q.calls = t
    BY <2>1 DEF Searching
  <2> HIDE DEF q
  <2>5. \A i \in DOMAIN q.calls : q.calls[i] = w.calls[i + 1] /\ i + 1 \in DOMAIN w.calls
    BY <1>1, <2>4
  <2>6. \A i \in DOMAIN w.calls : i # 1 => i - 1 \in DOMAIN q.calls /\ q.calls[i - 1] = w.calls[i]
    BY <1>1, <2>4
  <2>7. \A k \in q.seen : \/ k \in ToSet(q.order)
                         \/ \E i \in DOMAIN q.calls : q.calls[i].done /\ q.calls[i].node = k
    <3> SUFFICES ASSUME NEW k \in w.seen, k \notin ToSet(w.order), k # n
                 PROVE  \E i \in DOMAIN q.calls : q.calls[i].done /\ q.calls[i].node = k
      BY <2>3, <2>4
    <3>1. PICK i \in DOMAIN w.calls : w.calls[i].done /\ w.calls[i].node = k
      BY DEF Searching
    <3>2. i # 1
      BY <1>1, <3>1 DEF n
    <3> QED BY <2>6, <3>1, <3>2
  <2>8. \A i, j \in DOMAIN q.calls :
            q.calls[i].done /\ q.calls[j].done /\ q.calls[i].node = q.calls[j].node => i = j
    <3> SUFFICES ASSUME NEW i \in DOMAIN q.calls, NEW j \in DOMAIN q.calls,
                        q.calls[i].done, q.calls[j].done, q.calls[i].node = q.calls[j].node
                 PROVE  i = j
      OBVIOUS
    <3>1. i + 1 = j + 1
      BY <2>5 DEF Searching
    <3> QED BY <1>1, <2>4, <3>1
  <2>9. \A i \in DOMAIN q.calls : q.calls[i].done => q.calls[i].node \in q.seen \ ToSet(q.order)
    <3> SUFFICES ASSUME NEW i \in DOMAIN q.calls, q.calls[i].done
                 PROVE  q.calls[i].node \in w.seen \ ToSet(w.order) /\ q.calls[i].node # n
      BY <2>3, <2>4
    <3>1. q.calls[i].node \in w.seen \ ToSet(w.order)
      BY <2>5 DEF Searching
    <3>2. i + 1 # 1
      BY <1>1, <2>4
    <3>3. 1 \in DOMAIN w.calls /\ w.calls[1].done /\ w.calls[1].node = n
      BY <1>1, <1>4, <2>5 DEF n
    <3>4. q.calls[i].node # n
      BY <2>5, <3>2, <3>3 DEF Searching
    <3> QED BY <3>1, <3>4
  <2>10. \A k \in Ands(m) : \/ k \in q.seen
                            \/ \E i \in DOMAIN q.calls : ~ q.calls[i].done /\ q.calls[i].node = k
    <3> SUFFICES ASSUME NEW k \in Ands(m), k \notin w.seen
                 PROVE  \E i \in DOMAIN q.calls : ~ q.calls[i].done /\ q.calls[i].node = k
      BY <2>4
    <3>1. PICK i \in DOMAIN w.calls : ~ w.calls[i].done /\ w.calls[i].node = k
      BY DEF Searching
    <3>2. i # 1
      BY <1>1, <1>4, <3>1
    <3> QED BY <2>6, <3>1, <3>2
  <2>11. Searching(m, q)
    BY <1>1, <2>2, <2>3, <2>4, <2>7, <2>8, <2>9, <2>10 DEF Searching
  <2>12. Left(m, q) = Left(m, w) - 1
    BY <1>1, <1>2, <2>4 DEF Left
  <2> QED BY <1>2, <2>11, <2>12 DEF q
<1>5. CASE ~ h.done /\ (n \in w.seen \/ m.obj[n].type # "and")
  <2>1. q = [w EXCEPT !.calls = t]
    BY <1>5 DEF DfsNext, h, t
  <2> HIDE DEF n
  <2>4. DOMAIN q = {"order", "seen", "calls"} /\ q.order = w.order /\ q.seen = w.seen /\ q.calls = t
    BY <2>1 DEF Searching
  <2> HIDE DEF q
  <2>5. \A i \in DOMAIN q.calls : q.calls[i] = w.calls[i + 1] /\ i + 1 \in DOMAIN w.calls
    BY <1>1, <2>4
  <2>6. \A i \in DOMAIN w.calls : i # 1 => i - 1 \in DOMAIN q.calls /\ q.calls[i - 1] = w.calls[i]
    BY <1>1, <2>4
  <2>7. \A k \in q.seen : \/ k \in ToSet(q.order)
                         \/ \E i \in DOMAIN q.calls : q.calls[i].done /\ q.calls[i].node = k
    <3> SUFFICES ASSUME NEW k \in w.seen, k \notin ToSet(w.order)
                 PROVE  \E i \in DOMAIN q.calls : q.calls[i].done /\ q.calls[i].node = k
      BY <2>4
    <3>1. PICK i \in DOMAIN w.calls : w.calls[i].done /\ w.calls[i].node = k
      BY DEF Searching
    <3>2. i # 1
      BY <1>1, <1>5, <3>1
    <3> QED BY <2>6, <3>1, <3>2
  <2>8. \A i, j \in DOMAIN q.calls :
            q.calls[i].done /\ q.calls[j].done /\ q.calls[i].node = q.calls[j].node => i = j
    <3> SUFFICES ASSUME NEW i \in DOMAIN q.calls, NEW j \in DOMAIN q.calls,
                        q.calls[i].done, q.calls[j].done, q.calls[i].node = q.calls[j].node
                 PROVE  i = j
      OBVIOUS
    <3>1. i + 1 = j + 1
      BY <2>5 DEF Searching
    <3> QED BY <1>1, <2>4, <3>1
  <2>9. \A i \in DOMAIN q.calls : q.calls[i].done => q.calls[i].node \in q.seen \ ToSet(q.order)
    BY <2>4, <2>5 DEF Searching
  <2>10. \A k \in Ands(m) : \/ k \in q.seen
                            \/ \E i \in DOMAIN q.calls : ~ q.calls[i].done /\ q.calls[i].node = k
    <3> SUFFICES ASSUME NEW k \in Ands(m), k \notin w.seen
                 PROVE  \E i \in DOMAIN q.calls : ~ q.calls[i].done /\ q.calls[i].node = k
      BY <2>4
    <3>1. PICK i \in DOMAIN w.calls : ~ w.calls[i].done /\ w.calls[i].node = k
      BY DEF Searching
    <3>2. i # 1
      BY <1>1, <1>5, <3>1 DEF n, Ands
    <3> QED BY <2>6, <3>1, <3>2
  <2>11. Searching(m, q)
    BY <1>1, <2>4, <2>7, <2>8, <2>9, <2>10 DEF Searching
  <2>12. Left(m, q) = Left(m, w) - 1
    BY <1>1, <1>2, <2>4 DEF Left
  <2> QED BY <1>2, <2>11, <2>12 DEF q
<1>6. CASE ~ h.done /\ ~ (n \in w.seen \/ m.obj[n].type # "and")
  <2> DEFINE c == m.obj[n].fanins
             x == [node |-> Regular(c[1]), done |-> FALSE]
             y == [node |-> Regular(c[2]), done |-> FALSE]
             z == [node |-> n, done |-> TRUE]
             s == <<x, y, z>> \o t
             S == w.seen \cup {n}
  <2>1. q = [w EXCEPT !.seen = S, !.calls = s]
    BY <1>6 DEF DfsNext, h, t
  <2>2. n \in Ands(m) /\ n \notin w.seen
    BY <1>3, <1>6 DEF Ands
  <2>3. x \in C /\ y \in C /\ z \in C
    <3>1. Regular(c[1]) \in DOMAIN m.obj /\ Regular(c[2]) \in DOMAIN m.obj
      BY <2>2, Children DEF Network, Objs
    <3> QED BY <1>3, <3>1
  <2>4. ~ x.done /\ ~ y.done /\ z.done /\ z.node = n
    OBVIOUS
  <2> HIDE DEF x, y, z, C
  <2>5. /\ s \in Seq(C) /\ Len(s) = Len(t) + 3 /\ s[1] = x /\ s[2] = y /\ s[3] = z
        /\ \A i \in 1 .. Len(t) + 3 : i > 3 => s[i] = t[i - 3]
    <3> DEFINE u == <<x, y, z>>
    <3>1. u \in Seq(C) /\ Len(u) = 3 /\ u[1] = x /\ u[2] = y /\ u[3] = z
      BY <2>3
    <3> HIDE DEF u
    <3>0. t \in Seq(C) /\ u \in Seq(C)
      BY <1>1, <3>1
    <3>4. /\ u \o t \in Seq(C) /\ Len(u \o t) = Len(u) + Len(t)
          /\ \A i \in 1 .. Len(u) + Len(t) : (u \o t)[i] = IF i <= Len(u) THEN u[i] ELSE t[i - Len(u)]
      BY <3>0, ConcatProperties
    <3>2. /\ u \o t \in Seq(C) /\ Len(u \o t) = 3 + Len(t)
          /\ \A i \in 1 .. 3 + Len(t) : (u \o t)[i] = IF i <= 3 THEN u[i] ELSE t[i - 3]
      BY <3>1, <3>4
    <3>3. s = u \o t
      BY DEF u
    <3> HIDE DEF s
    <3> QED BY <1>1, <3>1, <3>2, <3>3
  <2> HIDE DEF s, n, S
  <2>6. DOMAIN q = {"order", "seen", "calls"} /\ q.order = w.order /\ q.seen = S /\ q.calls = s
    BY <2>1 DEF Searching
  <2> HIDE DEF q
  <2>7. DOMAIN s = 1 .. Len(t) + 3
    BY <2>5
  <2>8. \A i \in DOMAIN s : i > 3 => s[i] = w.calls[i - 2] /\ i - 2 \in DOMAIN w.calls /\ i - 2 # 1
    BY <1>1, <2>5, <2>7, SMTT(30)
  <2>9. \A i \in DOMAIN w.calls : i # 1 => i + 2 \in DOMAIN s /\ s[i + 2] = w.calls[i]
    <3> SUFFICES ASSUME NEW i \in DOMAIN w.calls, i # 1 PROVE i + 2 \in DOMAIN s /\ s[i + 2] = w.calls[i]
      OBVIOUS
    <3> DEFINE j == i + 2
    <3>1. j \in DOMAIN s /\ j > 3 /\ j - 2 = i
      BY <1>1, <2>7
    <3> HIDE DEF j
    <3>2. s[j] = w.calls[j - 2]
      BY <2>8, <3>1
    <3> QED BY <3>1, <3>2 DEF j
  <2>10. \A i \in DOMAIN s : s[i].done => i = 3 \/ i > 3
    BY <2>4, <2>5, <2>7
  <2>11. 3 \in DOMAIN s
    BY <1>1, <2>7
  <2>12. \A i \in DOMAIN s : i > 3 /\ s[i].done => s[i].node \in w.seen \ ToSet(w.order)
    BY <2>8 DEF Searching
  <2>13. \A k \in S : \/ k \in ToSet(w.order)
                      \/ \E i \in DOMAIN s : s[i].done /\ s[i].node = k
    <3> SUFFICES ASSUME NEW k \in S, k \notin ToSet(w.order)
                 PROVE  \E i \in DOMAIN s : s[i].done /\ s[i].node = k
      OBVIOUS
    <3>1. CASE k = n
      BY <2>4, <2>5, <2>11, <3>1
    <3>2. CASE k \in w.seen
      <4>1. PICK i \in DOMAIN w.calls : w.calls[i].done /\ w.calls[i].node = k
        BY <3>2 DEF Searching
      <4>2. i # 1
        BY <1>1, <1>6, <4>1
      <4> QED BY <2>9, <4>1, <4>2
    <3> QED BY <3>1, <3>2 DEF S
  <2>14. \A i, j \in DOMAIN s : s[i].done /\ s[j].done /\ s[i].node = s[j].node => i = j
    <3> SUFFICES ASSUME NEW i \in DOMAIN s, NEW j \in DOMAIN s,
                        s[i].done, s[j].done, s[i].node = s[j].node
                 PROVE  i = j
      OBVIOUS
    <3>1. CASE i = 3 /\ j > 3
      BY <2>2, <2>4, <2>5, <2>12, <3>1
    <3>2. CASE j = 3 /\ i > 3
      BY <2>2, <2>4, <2>5, <2>12, <3>2
    <3>3. CASE i > 3 /\ j > 3
      <4>1. i - 2 = j - 2
        BY <2>8, <3>3 DEF Searching
      <4> QED BY <2>7, <4>1
    <3> QED BY <2>10, <3>1, <3>2, <3>3
  <2>15. \A i \in DOMAIN s : s[i].done => s[i].node \in S \ ToSet(w.order)
    <3>1. ToSet(w.order) \subseteq w.seen
      BY DEF Searching
    <3> QED BY <2>2, <2>4, <2>5, <2>10, <2>12, <3>1 DEF S
  <2>16. \A k \in Ands(m) : \/ k \in S
                            \/ \E i \in DOMAIN s : ~ s[i].done /\ s[i].node = k
    <3> SUFFICES ASSUME NEW k \in Ands(m), k \notin S
                 PROVE  \E i \in DOMAIN s : ~ s[i].done /\ s[i].node = k
      OBVIOUS
    <3>1. PICK i \in DOMAIN w.calls : ~ w.calls[i].done /\ w.calls[i].node = k
      BY DEF Searching, S
    <3>2. i # 1
      BY <1>1, <3>1 DEF S, n
    <3> QED BY <2>9, <3>1, <3>2
  <2>17. Searching(m, q)
    <3>1. ToSet(w.order) \subseteq S /\ S \subseteq Ands(m)
      BY <2>2 DEF Searching, S
    <3> QED BY <2>5, <2>6, <2>13, <2>14, <2>15, <2>16, <3>1 DEF Searching, C
  <2>18. Left(m, q) = Left(m, w) - 1
    <3>1. Ands(m) \ S = (Ands(m) \ w.seen) \ {n}
      BY DEF S
    <3>2. Cardinality(Ands(m) \ S) = Cardinality(Ands(m) \ w.seen) - 1
      <4> DEFINE R == Ands(m) \ w.seen
      <4>1. IsFiniteSet(R) /\ n \in R
        BY <1>2, <2>2
      <4> HIDE DEF R
      <4>2. Cardinality(R \ {n}) = Cardinality(R) - 1
        BY <4>1, FS_RemoveElement
      <4> QED BY <3>1, <4>2 DEF R
    <3>3. Len(w.calls) = Len(t) + 1 /\ Len(s) = Len(t) + 3
      BY <1>1, <2>5
    <3>4. Cardinality(Ands(m) \ w.seen) \in Nat /\ Len(t) \in Nat
      BY <1>1, <1>2
    <3>5. Left(m, q) = Len(s) + 3 * Cardinality(Ands(m) \ S)
      BY <2>6 DEF Left
    <3>6. Left(m, w) = Len(w.calls) + 3 * Cardinality(Ands(m) \ w.seen)
      BY DEF Left
    <3> HIDE DEF S
    <3> QED BY <3>2, <3>3, <3>4, <3>5, <3>6
  <2> QED BY <1>2, <2>17, <2>18 DEF q
<1> QED BY <1>4, <1>5, <1>6

DfsStep(e, w, i) == IF w.calls = <<>> THEN w ELSE DfsNext(e.man, w)
DfsInv(e, k, w) == Searching(e.man, w) /\ (w.calls # <<>> => Left(e.man, w) <= e.total - k)
DfsFold == INSTANCE Folding WITH Op <- DfsStep, Inv <- DfsInv

\* The search comes to its end with every node in the order, once.
LEMMA DfsOrderShape ==
  ASSUME NEW m, Network(m)
  PROVE  DfsOrder(m) \in Seq(Nat) /\ IsInjective(DfsOrder(m)) /\ ToSet(DfsOrder(m)) = Ands(m)
<1> DEFINE pos == Ids(m, Pos(m))
           ands == Ids(m, Ands(m))
           C == [node : DOMAIN m.obj, done : BOOLEAN]
           g == [i \in DOMAIN pos |-> [node |-> Regular(m.obj[pos[i]].fanins[1]), done |-> FALSE]]
           h == [i \in DOMAIN ands |-> [node |-> ands[i], done |-> FALSE]]
           calls == g \o h
           N == Len(calls) + 3 * Len(ands)
           e == [man |-> m, total |-> N]
           w == UpTo(N)
           start == [order |-> <<>>, seen |-> {}, calls |-> calls]
           q == DfsOrder(m)
<1>1. q = DfsFold!Result(e, start, w)[Len(w)].order
  BY ZenonT(40) DEF DfsOrder, Each, Runs, DfsFold!Result, DfsStep
<1>2. e.man = m /\ e.total = N
  OBVIOUS
<1>3. DOMAIN start = {"order", "seen", "calls"} /\ start.order = <<>> /\ start.seen = {} /\ start.calls = calls
  BY Zenon
<1> HIDE DEF e, start, q
<1>4. /\ pos \in Seq(Nat) /\ ToSet(pos) = Pos(m) /\ Len(pos) \in Nat /\ DOMAIN pos = 1 .. Len(pos)
      /\ ands \in Seq(Nat) /\ IsInjective(ands) /\ ToSet(ands) = Ands(m)
      /\ Len(ands) \in Nat /\ DOMAIN ands = 1 .. Len(ands)
  <2>1. Pos(m) \in SUBSET DOMAIN m.obj /\ Ands(m) \in SUBSET DOMAIN m.obj /\ Shape(m)
    BY DEF Pos, Ands, Network
  <2>2. /\ pos \in Seq(Nat) /\ ToSet(pos) = Pos(m)
        /\ ands \in Seq(Nat) /\ IsInjective(ands) /\ ToSet(ands) = Ands(m)
    BY <2>1, IdsShape
  <2> HIDE DEF pos, ands
  <2> QED BY <2>2
<1>5. IsFiniteSet(Ands(m)) /\ Cardinality(Ands(m)) = Len(ands)
  BY <1>4, CountInjective, SeqIs
<1> HIDE DEF pos, ands
<1>6. \A i \in DOMAIN pos : Regular(m.obj[pos[i]].fanins[1]) \in DOMAIN m.obj
  <2> SUFFICES ASSUME NEW i \in DOMAIN pos PROVE Regular(m.obj[pos[i]].fanins[1]) \in DOMAIN m.obj
    OBVIOUS
  <2>1. pos[i] \in Pos(m)
    BY <1>4 DEF ToSet
  <2>2. pos[i] \in DOMAIN m.obj /\ Len(m.obj[pos[i]].fanins) = 1 /\ m.obj[pos[i]].fanins \in Seq(Nat)
    BY <2>1, ShapeObject DEF Pos, Network, Typed
  <2>3. m.obj[pos[i]].fanins[1] \in ToSet(m.obj[pos[i]].fanins)
    BY <2>2 DEF ToSet
  <2>4. Regular(m.obj[pos[i]].fanins[1]) \in Fanins(m, pos[i])
    BY <2>3 DEF Fanins
  <2> QED BY <2>2, <2>4 DEF Network, Wired, Objs
<1>7. \A i \in DOMAIN ands : ands[i] \in DOMAIN m.obj
  BY <1>4 DEF ToSet, Ands
<1>8. g \in Seq(C) /\ Len(g) = Len(pos) /\ \A i \in 1 .. Len(g) : ~ g[i].done
  BY <1>4, <1>6
<1>9. /\ h \in Seq(C) /\ Len(h) = Len(ands) /\ \A i \in 1 .. Len(h) : ~ h[i].done /\ h[i].node = ands[i]
  BY <1>4, <1>7
<1> HIDE DEF g, h, C
<1>10. /\ calls \in Seq(C) /\ Len(calls) = Len(g) + Len(h) /\ DOMAIN calls = 1 .. Len(calls)
       /\ \A i \in 1 .. Len(g) + Len(h) : calls[i] = IF i <= Len(g) THEN g[i] ELSE h[i - Len(g)]
  <2>1. g \in Seq(C) /\ h \in Seq(C)
    BY <1>8, <1>9
  <2>2. /\ calls \in Seq(C) /\ Len(calls) = Len(g) + Len(h)
        /\ \A i \in 1 .. Len(g) + Len(h) : calls[i] = IF i <= Len(g) THEN g[i] ELSE h[i - Len(g)]
    BY <2>1, ConcatProperties
  <2> HIDE DEF calls
  <2> QED BY <2>2
<1>11. Len(g) \in Nat /\ Len(h) \in Nat /\ Len(calls) \in Nat
  BY <1>4, <1>8, <1>9, <1>10
<1> HIDE DEF calls
<1>12. \A i \in DOMAIN calls : ~ calls[i].done
  <2> SUFFICES ASSUME NEW i \in DOMAIN calls PROVE ~ calls[i].done
    OBVIOUS
  <2>1. CASE i <= Len(g)
    BY <1>8, <1>10, <1>11, <2>1
  <2>2. CASE i > Len(g)
    <3>1. i - Len(g) \in 1 .. Len(h) /\ calls[i] = h[i - Len(g)]
      BY <1>10, <1>11, <2>2
    <3> QED BY <1>9, <3>1
  <2> QED BY <1>10, <1>11, <2>1, <2>2
<1>13. \A n \in Ands(m) : \E i \in DOMAIN calls : ~ calls[i].done /\ calls[i].node = n
  <2> SUFFICES ASSUME NEW n \in Ands(m) PROVE \E i \in DOMAIN calls : calls[i].node = n
    BY <1>12
  <2>1. PICK j \in DOMAIN ands : ands[j] = n
    BY <1>4 DEF ToSet
  <2> DEFINE i == j + Len(g)
  <2>2. i \in 1 .. Len(g) + Len(h) /\ ~ (i <= Len(g)) /\ i - Len(g) = j
    BY <1>4, <1>9, <1>11
  <2> HIDE DEF i
  <2>3. calls[i] = h[i - Len(g)]
    BY <1>10, <2>2
  <2> QED BY <1>4, <1>9, <1>10, <2>1, <2>2, <2>3
<1>14. N \in Nat
  BY <1>4, <1>11
<1>15. Len(w) = N
  BY <1>14, UpToSeq
<1>16. DfsInv(e, 0, start)
  <2>1. <<>> \in Seq(Nat) /\ IsInjective(<<>>) /\ ToSet(<<>>) = {}
    BY DEF IsInjective, ToSet
  <2>2. Searching(m, start)
    BY <1>3, <1>10, <1>12, <1>13, <2>1 DEF Searching, C
  <2>3. Left(m, start) = N
    <3>1. Ands(m) \ {} = Ands(m)
      OBVIOUS
    <3> QED BY <1>3, <1>5, <3>1 DEF Left
  <2> QED BY <1>2, <1>14, <2>2, <2>3 DEF DfsInv
<1> HIDE DEF N, w
<1>17. ASSUME NEW k \in 0 .. Len(w) - 1, NEW p, DfsInv(e, k, p)
       PROVE  DfsInv(e, k + 1, DfsStep(e, p, w[k + 1]))
  <2>1. Searching(m, p) /\ (p.calls # <<>> => Left(m, p) <= N - k)
    BY <1>2, <1>17 DEF DfsInv
  <2>2. CASE p.calls = <<>>
    BY <1>2, <2>1, <2>2 DEF DfsInv, DfsStep
  <2>3. CASE p.calls # <<>>
    <3> DEFINE r == DfsNext(m, p)
    <3>1. Searching(m, r) /\ Left(m, r) = Left(m, p) - 1 /\ Left(m, p) \in Nat
      BY <1>5, <2>1, <2>3, DfsNextKeeps
    <3>2. DfsStep(e, p, w[k + 1]) = r
      BY <1>2, <2>3 DEF DfsStep
    <3> HIDE DEF r
    <3>3. Left(m, r) <= N - (k + 1)
      BY <1>14, <2>1, <2>3, <3>1
    <3> QED BY <1>2, <3>1, <3>2, <3>3 DEF DfsInv
  <2> QED BY <2>2, <2>3
<1>18. \A k \in 0 .. Len(w) : DfsInv(e, k, DfsFold!Result(e, start, w)[k])
  BY <1>14, <1>15, <1>16, <1>17, DfsFold!Kept
<1> DEFINE z == DfsFold!Result(e, start, w)[Len(w)]
<1>19. Searching(m, z) /\ (z.calls # <<>> => Left(m, z) <= 0)
  BY <1>2, <1>14, <1>15, <1>18 DEF DfsInv
<1> HIDE DEF z
<1>20. z.calls = <<>>
  <2> SUFFICES ASSUME z.calls # <<>> PROVE FALSE
    OBVIOUS
  <2>1. z.calls \in Seq([node : DOMAIN m.obj, done : BOOLEAN]) /\ Len(z.calls) \in Nat /\ Len(z.calls) > 0
    BY <1>19, EmptySeq DEF Searching
  <2>2. Cardinality(Ands(m) \ z.seen) \in Nat
    <3>1. IsFiniteSet(Ands(m) \ z.seen)
      BY <1>5, FS_Subset
    <3> QED BY <3>1, FS_CardinalityType
  <2> QED BY <1>19, <2>1, <2>2 DEF Left
<1>21. DOMAIN z.calls = {}
  BY <1>20
<1>22. z.seen = Ands(m) /\ ToSet(z.order) = z.seen
  BY <1>19, <1>21 DEF Searching
<1> QED BY <1>1, <1>19, <1>22, SMTT(30) DEF Searching, q, z

-----------------------------------------------------------------------------
(* New Ids. *)

Renamed(id, l) == Lit(id[Regular(l)], Compl(l))

\* q is m with object n under the Id id[n], the children of its ANDs in order.
Renumbered(m, q, id) ==
    /\ DOMAIN id = Objs(m)
    /\ \A n \in Objs(m) : id[n] \in Nat
    /\ \A n, k \in Objs(m) : id[n] = id[k] => n = k
    /\ \A k \in 0 .. NumPi : k \in Objs(m) /\ id[k] = k
    /\ DOMAIN q.obj = {id[n] : n \in Objs(m)}
    /\ q.table = {id[n] : n \in m.table}
    /\ \A n \in Objs(m) :
          /\ q.obj[id[n]].type = m.obj[n].type
          /\ q.obj[id[n]].exor = m.obj[n].exor
          /\ Len(q.obj[id[n]].fanins) = Len(m.obj[n].fanins)
          /\ IF n \in m.table
             THEN q.obj[id[n]].fanins = Ordered(Renamed(id, m.obj[n].fanins[1]), Renamed(id, m.obj[n].fanins[2]))
             ELSE \A i \in DOMAIN m.obj[n].fanins : q.obj[id[n]].fanins[i] = Renamed(id, m.obj[n].fanins[i])
          /\ Len(q.obj[id[n]].fanouts) = Len(m.obj[n].fanouts)
          /\ \A i \in DOMAIN m.obj[n].fanouts : q.obj[id[n]].fanouts[i] = id[m.obj[n].fanouts[i]]

\* A literal under the new Id of its node.
LEMMA RenamedLiteral ==
  ASSUME NEW m, NEW id, \A n \in Objs(m) : id[n] \in Nat,
         \A n, k \in Objs(m) : id[n] = id[k] => n = k,
         NEW l, Alive(m, l)
  PROVE  /\ Renamed(id, l) \in Nat /\ Regular(Renamed(id, l)) = id[Regular(l)]
         /\ Compl(Renamed(id, l)) = Compl(l)
         /\ Renamed(id, NotCond(l, 1)) = NotCond(Renamed(id, l), 1)
         /\ \A k : Alive(m, k) /\ Renamed(id, k) = Renamed(id, l) => k = l
<1>1. l \in Nat /\ Regular(l) \in Objs(m) /\ id[Regular(l)] \in Nat /\ Compl(l) \in {0, 1}
  BY Regulars DEF Alive
<1>2. /\ Renamed(id, l) \in Nat /\ Regular(Renamed(id, l)) = id[Regular(l)]
      /\ Compl(Renamed(id, l)) = Compl(l)
  <2> DEFINE x == id[Regular(l)]
             y == Compl(l)
  <2>1. x \in Nat /\ y \in {0, 1} /\ Renamed(id, l) = Lit(x, y)
    BY <1>1 DEF Renamed
  <2>2. Lit(x, y) \in Nat /\ Regular(Lit(x, y)) = x /\ Compl(Lit(x, y)) = y
    <3> HIDE DEF x, y
    <3> QED BY <2>1, Regulars
  <2> QED BY <2>1, <2>2
<1>3. /\ Regular(NotCond(l, 1)) = Regular(l) /\ Compl(NotCond(l, 1)) = (Compl(l) + 1) % 2
  BY <1>1, Regulars
<1>4. Renamed(id, NotCond(l, 1)) = Lit(id[Regular(l)], (Compl(l) + 1) % 2)
  BY <1>3 DEF Renamed
<1>5. NotCond(Renamed(id, l), 1) = Lit(id[Regular(l)], (Compl(l) + 1) % 2)
  BY <1>2 DEF NotCond
<1>6. ASSUME NEW k, Alive(m, k), Renamed(id, k) = Renamed(id, l) PROVE k = l
  <2>1. k \in Nat /\ Regular(k) \in Objs(m) /\ id[Regular(k)] \in Nat /\ Compl(k) \in {0, 1}
    BY <1>6, Regulars DEF Alive
  <2>2. Regular(Renamed(id, k)) = id[Regular(k)] /\ Compl(Renamed(id, k)) = Compl(k)
    <3> DEFINE x == id[Regular(k)]
               y == Compl(k)
    <3>1. x \in Nat /\ y \in {0, 1} /\ Renamed(id, k) = Lit(x, y)
      BY <2>1 DEF Renamed
    <3>2. Regular(Lit(x, y)) = x /\ Compl(Lit(x, y)) = y
      <4> HIDE DEF x, y
      <4> QED BY <3>1, Regulars
    <3> QED BY <3>1, <3>2
  <2>3. Regular(k) = Regular(l) /\ Compl(k) = Compl(l)
    BY <1>1, <1>2, <1>6, <2>1, <2>2
  <2> QED BY <1>1, <2>1, <2>3, Regulars
<1> QED BY <1>2, <1>4, <1>5, <1>6

\* The children of an AND, in one order or the other.
LEMMA RenumberedAnd ==
  ASSUME NEW m, Network(m), NEW q, NEW id, Renumbered(m, q, id), NEW n \in Ands(m)
  PROVE  LET c == m.obj[n].fanins
             d == q.obj[id[n]].fanins
         IN  /\ n \in Objs(m) /\ Alive(m, c[1]) /\ Alive(m, c[2]) /\ Regular(c[1]) < Regular(c[2])
             /\ Regular(c[1]) > 0
             /\ d = <<d[1], d[2]>> /\ DOMAIN d = 1 .. 2 /\ d[1] \in Nat /\ d[2] \in Nat
             /\ d = Ordered(Renamed(id, c[1]), Renamed(id, c[2]))
             /\ \/ /\ id[Regular(c[1])] < id[Regular(c[2])]
                   /\ d[1] = Renamed(id, c[1]) /\ d[2] = Renamed(id, c[2])
                \/ /\ id[Regular(c[2])] < id[Regular(c[1])]
                   /\ d[1] = Renamed(id, c[2]) /\ d[2] = Renamed(id, c[1])
<1> DEFINE c == m.obj[n].fanins
           d == q.obj[id[n]].fanins
           a == Renamed(id, c[1])
           b == Renamed(id, c[2])
<1>1. n \in Objs(m) /\ n \in m.table
  BY DEF Network, Canonical, Ands, Objs
<1>2. Alive(m, c[1]) /\ Alive(m, c[2]) /\ Regular(c[1]) < Regular(c[2]) /\ Regular(c[1]) > 0
  BY <1>1, Children DEF Network, Canonical, Alive
<1>3. \A k \in Objs(m) : id[k] \in Nat
  BY DEF Renumbered
<1>4. \A k, j \in Objs(m) : id[k] = id[j] => k = j
  BY DEF Renumbered
<1>5. a \in Nat /\ Regular(a) = id[Regular(c[1])] /\ b \in Nat /\ Regular(b) = id[Regular(c[2])]
  BY <1>2, <1>3, <1>4, RenamedLiteral
<1>6. d = Ordered(a, b)
  BY <1>1 DEF Renumbered
<1> HIDE DEF a, b, c
<1>7. Regular(c[1]) \in Objs(m) /\ Regular(c[2]) \in Objs(m) /\ Regular(c[1]) \in Nat /\ Regular(c[2]) \in Nat
  BY <1>2, Regulars DEF Alive
<1>8. id[Regular(c[1])] # id[Regular(c[2])] /\ id[Regular(c[1])] \in Nat /\ id[Regular(c[2])] \in Nat
  BY <1>2, <1>3, <1>4, <1>7
<1>9. \/ id[Regular(c[1])] < id[Regular(c[2])] /\ d = <<a, b>>
      \/ id[Regular(c[2])] < id[Regular(c[1])] /\ d = <<b, a>>
  BY <1>5, <1>6, <1>8 DEF Ordered
<1> HIDE DEF d
<1>10. d = <<d[1], d[2]>> /\ DOMAIN d = 1 .. 2 /\ d[1] \in Nat /\ d[2] \in Nat
  BY <1>5, <1>9
<1>11. \/ id[Regular(c[1])] < id[Regular(c[2])] /\ d[1] = a /\ d[2] = b
       \/ id[Regular(c[2])] < id[Regular(c[1])] /\ d[1] = b /\ d[2] = a
  BY <1>9
<1> QED BY <1>1, <1>2, <1>6, <1>10, <1>11 DEF a, b, c, d

\* The fanins of an object are the new Ids of its old ones.
LEMMA RenumberedFanins ==
  ASSUME NEW m, Network(m), NEW q, Shape(q), NEW id, Renumbered(m, q, id), NEW n \in Objs(m)
  PROVE  Fanins(q, id[n]) = {id[k] : k \in Fanins(m, n)}
<1> DEFINE c == m.obj[n].fanins
           d == q.obj[id[n]].fanins
<1>1. \A k \in Objs(m) : id[k] \in Nat
  BY DEF Renumbered
<1>2. \A k, j \in Objs(m) : id[k] = id[j] => k = j
  BY DEF Renumbered
<1>3. n \in DOMAIN m.obj /\ id[n] \in DOMAIN q.obj
  BY DEF Objs, Renumbered
<1>4. \A l \in ToSet(c) : Alive(m, l)
  <2>1. c \in Seq(Nat) /\ Fanins(m, n) \subseteq Objs(m)
    BY <1>3, ShapeObject DEF Network, Wired
  <2>2. ToSet(c) \subseteq Nat
    BY <2>1 DEF ToSet
  <2> QED BY <2>1, <2>2 DEF Fanins, Alive
<1>5. ToSet(d) = {Renamed(id, l) : l \in ToSet(c)}
  <2>1. CASE n \in m.table
    <3>1. n \in Ands(m)
      BY <2>1 DEF Network, Canonical
    <3>2. ToSet(c) = {c[1], c[2]}
      BY <1>3, <3>1, PairSeq, ShapeObject DEF Network, Typed, Ands
    <3>5. /\ DOMAIN d = 1 .. 2
          /\ \/ d[1] = Renamed(id, c[1]) /\ d[2] = Renamed(id, c[2])
             \/ d[1] = Renamed(id, c[2]) /\ d[2] = Renamed(id, c[1])
      BY <3>1, RenumberedAnd
    <3>3. DOMAIN d = 1 .. 2 /\ {d[1], d[2]} = {Renamed(id, c[1]), Renamed(id, c[2])}
      <4> HIDE DEF c, d
      <4> QED BY <3>5
    <3> HIDE DEF c, d
    <3>4. ToSet(d) = {d[1], d[2]}
      BY <3>3 DEF ToSet
    <3> QED BY <3>2, <3>3, <3>4
  <2>2. CASE n \notin m.table
    <3>1. Len(d) = Len(c) /\ \A i \in DOMAIN c : d[i] = Renamed(id, c[i])
      BY <2>2 DEF Renumbered
    <3>2. DOMAIN d = DOMAIN c
      BY <1>3, <3>1, ShapeObject, SeqShape DEF Network
    <3> HIDE DEF c, d
    <3> QED BY <3>1, <3>2 DEF ToSet
  <2> QED BY <2>1, <2>2
<1>6. Fanins(q, id[n]) = {Regular(l) : l \in ToSet(d)} /\ Fanins(m, n) = {Regular(l) : l \in ToSet(c)}
  BY DEF Fanins
<1> HIDE DEF c, d
<1>7. \A l \in ToSet(c) : Regular(Renamed(id, l)) = id[Regular(l)]
  BY <1>1, <1>2, <1>4, RenamedLiteral
<1> QED BY <1>5, <1>6, <1>7

\* New Ids keep the two ends of the edges in agreement.
LEMMA RenumberedWired ==
  ASSUME NEW m, Network(m), NEW q, Shape(q), NEW id, Renumbered(m, q, id)
  PROVE  Wired(q) /\ Objs(q) = DOMAIN q.obj /\ Ands(q) = {id[n] : n \in Ands(m)}
<1>1. \A n, k \in Objs(m) : id[n] = id[k] => n = k
  BY DEF Renumbered
<1>2. DOMAIN q.obj = {id[n] : n \in Objs(m)} /\ \A n \in Objs(m) : q.obj[id[n]].type = m.obj[n].type
  BY DEF Renumbered
<1>3. Objs(q) = DOMAIN q.obj /\ Ands(q) = {id[n] : n \in Ands(m)}
  BY <1>2 DEF Objs, Ands
<1>4. \A n \in Objs(m) : Fanins(q, id[n]) = {id[k] : k \in Fanins(m, n)} /\ Fanins(m, n) \subseteq Objs(m)
  <2>1. \A n \in Objs(m) : Fanins(m, n) \subseteq Objs(m)
    BY DEF Network, Wired, Objs
  <2> QED BY <2>1, RenumberedFanins
<1>5. ASSUME NEW n \in Objs(m)
      PROVE  /\ IsInjective(q.obj[id[n]].fanouts)
             /\ ToSet(q.obj[id[n]].fanouts) = {j \in DOMAIN q.obj : id[n] \in Fanins(q, j)}
             /\ Fanins(q, id[n]) \subseteq Objs(q)
  <2> DEFINE c == m.obj[n].fanouts
             d == q.obj[id[n]].fanouts
  <2>1. n \in DOMAIN m.obj /\ id[n] \in DOMAIN q.obj
    BY <1>2 DEF Objs
  <2>2. /\ IsInjective(c) /\ ToSet(c) = {j \in DOMAIN m.obj : n \in Fanins(m, j)}
        /\ Shape(m)
    BY <2>1 DEF Network, Wired
  <2>3. Len(d) = Len(c) /\ \A i \in DOMAIN c : d[i] = id[c[i]]
    BY DEF Renumbered
  <2>4. DOMAIN d = DOMAIN c
    BY <2>1, <2>2, <2>3, ShapeObject, SeqShape
  <2>5. \A j \in ToSet(c) : j \in Objs(m)
    <3> SUFFICES ASSUME NEW j \in DOMAIN m.obj, n \in Fanins(m, j) PROVE j \in Objs(m)
      BY <2>2
    <3>1. m.obj[j].fanins # <<>>
      BY DEF Fanins, ToSet
    <3> QED BY <2>2, <3>1, TypedObject DEF Network, Objs
  <2> HIDE DEF c, d
  <2>6. ToSet(d) = {id[j] : j \in ToSet(c)}
    BY <2>3, <2>4 DEF ToSet
  <2>7. IsInjective(d)
    BY <1>1, <2>2, <2>3, <2>4, <2>5 DEF IsInjective, ToSet
  <2>8. \A j \in Objs(m) : id[n] \in Fanins(q, id[j]) <=> n \in Fanins(m, j)
    BY <1>1, <1>4
  <2>9. ToSet(d) = {j \in DOMAIN q.obj : id[n] \in Fanins(q, j)}
    <3>1. \A j \in ToSet(c) : j \in Objs(m) /\ n \in Fanins(m, j)
      BY <2>2, <2>5
    <3>2. \A j \in Objs(m) : n \in Fanins(m, j) => j \in ToSet(c)
      BY <2>2 DEF Objs
    <3> QED BY <1>2, <2>6, <2>8, <3>1, <3>2
  <2>10. Fanins(q, id[n]) \subseteq Objs(q)
    BY <1>2, <1>3, <1>4
  <2> QED BY <2>7, <2>9, <2>10 DEF d
<1>6. Wired(q)
  BY <1>2, <1>5 DEF Wired
<1> QED BY <1>3, <1>6

\* Two nodes are fed by complements of the same two.
Opposite(a, b) == Len(a) = 2 /\ Len(b) = 2 /\ \A i \in 1 .. 2 : b[i] = NotCond(a[i], 1)

\* Two complements cancel.
LEMMA NotCondTwice ==
  ASSUME NEW l \in Nat
  PROVE  NotCond(l, 1) \in Nat /\ NotCond(NotCond(l, 1), 1) = l /\ Regular(NotCond(l, 1)) = Regular(l)
<1>1. NotCond(l, 1) \in Nat /\ Regular(NotCond(l, 1)) = Regular(l) /\ Compl(NotCond(l, 1)) = (Compl(l) + 1) % 2
      /\ Compl(l) \in {0, 1} /\ l = Lit(Regular(l), Compl(l))
  BY Regulars
<1>2. (((Compl(l) + 1) % 2) + 1) % 2 = Compl(l)
  BY <1>1
<1> QED BY <1>1, <1>2 DEF NotCond

\* That two fanin lists are complements of each other does not depend on their order.
LEMMA OppositeSymmetric ==
  ASSUME NEW a \in Seq(Nat), NEW b \in Seq(Nat)
  PROVE  Opposite(a, b) <=> Opposite(b, a)
<1>1. ASSUME NEW x \in Seq(Nat), NEW y \in Seq(Nat), Opposite(x, y) PROVE Opposite(y, x)
  <2> SUFFICES ASSUME NEW i \in 1 .. 2 PROVE x[i] = NotCond(y[i], 1)
    BY <1>1 DEF Opposite
  <2>0. Len(x) = 2 /\ y[i] = NotCond(x[i], 1)
    BY <1>1 DEF Opposite
  <2>1. x[i] \in Nat /\ y[i] = NotCond(x[i], 1)
    <3>1. x[1] \in Nat /\ x[2] \in Nat
      BY <2>0, PairSeq
    <3>2. i = 1 \/ i = 2
      OBVIOUS
    <3> QED BY <2>0, <3>1, <3>2
  <2> QED BY <2>1, NotCondTwice
<1> QED BY <1>1

\* New Ids keep which fanin lists are complements of each other.
LEMMA RenumberedOpposite ==
  ASSUME NEW m, Network(m), NEW q, Shape(q), NEW id, Renumbered(m, q, id),
         NEW n \in Objs(m), NEW k \in Objs(m)
  PROVE  Opposite(q.obj[id[n]].fanins, q.obj[id[k]].fanins) <=> Opposite(m.obj[n].fanins, m.obj[k].fanins)
<1> DEFINE a == m.obj[n].fanins
           b == m.obj[k].fanins
           c == q.obj[id[n]].fanins
           d == q.obj[id[k]].fanins
<1>1. Len(c) = Len(a) /\ Len(d) = Len(b)
  BY DEF Renumbered
<1>2. \A j \in Objs(m) : Len(m.obj[j].fanins) = 2 => j \in Ands(m)
  BY DEF Network, Typed, Objs, Ands
<1>3. CASE ~ (n \in Ands(m) /\ k \in Ands(m))
  BY <1>1, <1>2, <1>3 DEF Opposite
<1>4. CASE n \in Ands(m) /\ k \in Ands(m)
  <2> DEFINE T(l) == Renamed(id, l)
  <2>1. Len(a) = 2 /\ Len(b) = 2
    BY <1>4 DEF Network, Typed, Ands
  <2>2. \A j \in Objs(m) : id[j] \in Nat
    BY DEF Renumbered
  <2>3. \A j, h \in Objs(m) : id[j] = id[h] => j = h
    BY DEF Renumbered
  <2>4. /\ Alive(m, a[1]) /\ Alive(m, a[2]) /\ Regular(a[1]) < Regular(a[2])
        /\ \/ id[Regular(a[1])] < id[Regular(a[2])] /\ c[1] = T(a[1]) /\ c[2] = T(a[2])
           \/ id[Regular(a[2])] < id[Regular(a[1])] /\ c[1] = T(a[2]) /\ c[2] = T(a[1])
    BY <1>4, RenumberedAnd
  <2>5. /\ Alive(m, b[1]) /\ Alive(m, b[2]) /\ Regular(b[1]) < Regular(b[2])
        /\ \/ id[Regular(b[1])] < id[Regular(b[2])] /\ d[1] = T(b[1]) /\ d[2] = T(b[2])
           \/ id[Regular(b[2])] < id[Regular(b[1])] /\ d[1] = T(b[2]) /\ d[2] = T(b[1])
    BY <1>4, RenumberedAnd
  <2>6. \A l : Alive(m, l) => /\ l \in Nat /\ Regular(l) \in Nat /\ Regular(l) \in Objs(m)
                              /\ id[Regular(l)] \in Nat /\ T(l) \in Nat
                              /\ Regular(T(l)) = id[Regular(l)]
                              /\ T(NotCond(l, 1)) = NotCond(T(l), 1) /\ Alive(m, NotCond(l, 1))
                              /\ Regular(NotCond(T(l), 1)) = Regular(T(l))
                              /\ Regular(NotCond(l, 1)) = Regular(l)
    <3> SUFFICES ASSUME NEW l, Alive(m, l)
                 PROVE  /\ l \in Nat /\ Regular(l) \in Nat /\ Regular(l) \in Objs(m)
                              /\ id[Regular(l)] \in Nat /\ T(l) \in Nat
                              /\ Regular(T(l)) = id[Regular(l)]
                              /\ T(NotCond(l, 1)) = NotCond(T(l), 1) /\ Alive(m, NotCond(l, 1))
                              /\ Regular(NotCond(T(l), 1)) = Regular(T(l))
                              /\ Regular(NotCond(l, 1)) = Regular(l)
      OBVIOUS
    <3>1. l \in Nat /\ Regular(l) \in Nat /\ Regular(l) \in Objs(m) /\ id[Regular(l)] \in Nat
      BY <2>2, Regulars DEF Alive
    <3>2. T(l) \in Nat /\ Regular(T(l)) = id[Regular(l)] /\ T(NotCond(l, 1)) = NotCond(T(l), 1)
      BY <2>2, <2>3, RenamedLiteral
    <3> HIDE DEF T
    <3>3. Regular(NotCond(T(l), 1)) = Regular(T(l)) /\ Regular(NotCond(l, 1)) = Regular(l) /\ NotCond(l, 1) \in Nat
      BY <3>1, <3>2, NotCondTwice
    <3> QED BY <3>1, <3>2, <3>3 DEF Alive
  <2>7. \A l, h : Alive(m, l) /\ Alive(m, h) /\ T(l) = T(h) => l = h
    BY <2>2, <2>3, RenamedLiteral
  <2> HIDE DEF T
  <2>8. \A l, h : Alive(m, l) /\ Alive(m, h) => (T(l) = NotCond(T(h), 1) <=> l = NotCond(h, 1))
    <3> SUFFICES ASSUME NEW l, NEW h, Alive(m, l), Alive(m, h)
                 PROVE  T(l) = NotCond(T(h), 1) <=> l = NotCond(h, 1)
      OBVIOUS
    <3>1. T(NotCond(h, 1)) = NotCond(T(h), 1) /\ Alive(m, NotCond(h, 1))
      BY <2>6
    <3> QED BY <2>7, <3>1
  <2>9. Opposite(a, b) <=> b[1] = NotCond(a[1], 1) /\ b[2] = NotCond(a[2], 1)
    <3> HIDE DEF a, b
    <3> QED BY <2>1 DEF Opposite
  <2>10. Opposite(c, d) <=> d[1] = NotCond(c[1], 1) /\ d[2] = NotCond(c[2], 1)
    <3>1. Len(c) = 2 /\ Len(d) = 2
      BY <1>1, <2>1, SMTT(30)
    <3> HIDE DEF c, d
    <3> QED BY <3>1 DEF Opposite
  <2> DEFINE r1 == Regular(a[1])
             r2 == Regular(a[2])
             s1 == Regular(b[1])
             s2 == Regular(b[2])
  <2>11. /\ r1 \in Objs(m) /\ r2 \in Objs(m) /\ s1 \in Objs(m) /\ s2 \in Objs(m)
         /\ r1 \in Nat /\ r2 \in Nat /\ s1 \in Nat /\ s2 \in Nat
         /\ id[r1] \in Nat /\ id[r2] \in Nat /\ id[s1] \in Nat /\ id[s2] \in Nat
         /\ Regular(T(a[1])) = id[r1] /\ Regular(T(a[2])) = id[r2]
         /\ Regular(T(b[1])) = id[s1] /\ Regular(T(b[2])) = id[s2]
    BY <2>4, <2>5, <2>6
  <2>12. ASSUME Opposite(a, b) PROVE Opposite(c, d)
    <3>1. s1 = r1 /\ s2 = r2 /\ b[1] = NotCond(a[1], 1) /\ b[2] = NotCond(a[2], 1)
      BY <2>4, <2>6, <2>9, <2>12, SMTT(30)
    <3>2. T(b[1]) = NotCond(T(a[1]), 1) /\ T(b[2]) = NotCond(T(a[2]), 1)
      BY <2>4, <2>5, <2>8, <3>1
    <3> HIDE DEF a, b, c, d
    <3>3. CASE id[r1] < id[r2]
      <4>1. c[1] = T(a[1]) /\ c[2] = T(a[2]) /\ d[1] = T(b[1]) /\ d[2] = T(b[2])
        BY <2>4, <2>5, <2>11, <3>1, <3>3
      <4> QED BY <2>10, <3>2, <4>1
    <3>4. CASE ~ (id[r1] < id[r2])
      <4>1. c[1] = T(a[2]) /\ c[2] = T(a[1]) /\ d[1] = T(b[2]) /\ d[2] = T(b[1])
        BY <2>4, <2>5, <2>11, <3>1, <3>4
      <4> QED BY <2>10, <3>2, <4>1
    <3> QED BY <3>3, <3>4
  <2>13. ASSUME Opposite(c, d) PROVE Opposite(a, b)
    <3>1. d[1] = NotCond(c[1], 1) /\ d[2] = NotCond(c[2], 1)
      BY <2>10, <2>13
    <3> HIDE DEF a, b, c, d, r1, r2, s1, s2
    <3>2. CASE c[1] = T(a[1]) /\ c[2] = T(a[2]) /\ d[1] = T(b[1]) /\ d[2] = T(b[2])
      BY <2>4, <2>5, <2>8, <2>9, <3>1, <3>2
    <3>3. CASE c[1] = T(a[2]) /\ c[2] = T(a[1]) /\ d[1] = T(b[2]) /\ d[2] = T(b[1])
      BY <2>4, <2>5, <2>8, <2>9, <3>1, <3>3
    <3>4. CASE c[1] = T(a[1]) /\ c[2] = T(a[2]) /\ d[1] = T(b[2]) /\ d[2] = T(b[1])
      <4>1. b[2] = NotCond(a[1], 1) /\ b[1] = NotCond(a[2], 1)
        BY <2>4, <2>5, <2>8, <3>1, <3>4
      <4>2. Regular(b[2]) = Regular(a[1]) /\ Regular(b[1]) = Regular(a[2])
        BY <2>4, <2>6, <4>1
      <4> QED BY <2>4, <2>5, <2>6, <4>2
    <3>5. CASE c[1] = T(a[2]) /\ c[2] = T(a[1]) /\ d[1] = T(b[1]) /\ d[2] = T(b[2])
      <4>1. b[1] = NotCond(a[2], 1) /\ b[2] = NotCond(a[1], 1)
        BY <2>4, <2>5, <2>8, <3>1, <3>5
      <4>2. Regular(b[2]) = Regular(a[1]) /\ Regular(b[1]) = Regular(a[2])
        BY <2>4, <2>6, <4>1
      <4> QED BY <2>4, <2>5, <2>6, <4>2
    <3> QED BY <2>4, <2>5, <3>2, <3>3, <3>4, <3>5
  <2> QED BY <2>12, <2>13
<1> QED BY <1>3, <1>4

\* The EXOR status in terms of complementary fanin lists.
LEMMA ExorOpposite ==
  ASSUME NEW m, NEW n, m.obj[n].type = "and"
  PROVE  IsExorType(m, n) <=> /\ Compl(m.obj[n].fanins[1]) = 1 /\ Compl(m.obj[n].fanins[2]) = 1
                              /\ Opposite(m.obj[Regular(m.obj[n].fanins[1])].fanins,
                                          m.obj[Regular(m.obj[n].fanins[2])].fanins)
BY DEF IsExorType, Opposite

\* A network under new Ids is a network, with the children of its ANDs in their new order.
LEMMA RenumberedNetwork ==
  ASSUME NEW m, Network(m), NEW q, Shape(q), NEW id, Renumbered(m, q, id)
  PROVE  Network(q)
<1>1. Wired(q) /\ Objs(q) = DOMAIN q.obj /\ Ands(q) = {id[n] : n \in Ands(m)}
  BY RenumberedWired
<1>2. /\ \A n \in Objs(m) : id[n] \in Nat
      /\ \A n, k \in Objs(m) : id[n] = id[k] => n = k
      /\ \A k \in 0 .. NumPi : k \in Objs(m) /\ id[k] = k
      /\ DOMAIN q.obj = {id[n] : n \in Objs(m)}
      /\ q.table = {id[n] : n \in m.table}
  BY DEF Renumbered
<1>3. \A n \in Objs(m) : q.obj[id[n]].type = m.obj[n].type /\ Len(q.obj[id[n]].fanins) = Len(m.obj[n].fanins)
                         /\ q.obj[id[n]].exor = m.obj[n].exor
  BY DEF Renumbered
<1>4. NumPi \in Nat
  BY AigAssumption
<1>5. Typed(q)
  <2>1. NumPi < Size(q)
    <3>1. NumPi \in Objs(m) /\ id[NumPi] = NumPi
      BY <1>2, <1>4
    <3>2. NumPi \in DOMAIN q.obj
      BY <1>2, <3>1
    <3> QED BY <1>4, <3>2 DEF Shape
  <2>2. \A j \in DOMAIN q.obj :
          /\ q.obj[j].type = "and" => Len(q.obj[j].fanins) = 2
          /\ q.obj[j].type = "po" => Len(q.obj[j].fanins) = 1
          /\ q.obj[j].type \notin {"and", "po"} => Len(q.obj[j].fanins) = 0
    BY <1>2, <1>3 DEF Network, Typed, Objs
  <2>3. ASSUME NEW n \in Objs(m)
        PROVE  /\ q.obj[id[n]].type = "const1" <=> id[n] = 0
               /\ q.obj[id[n]].type = "pi" <=> id[n] \in 1 .. NumPi
    <3>1. n \in DOMAIN m.obj /\ n \in Nat
      BY ShapeObject DEF Objs, Network
    <3>2. /\ m.obj[n].type = "const1" <=> n = 0
          /\ m.obj[n].type = "pi" <=> n \in 1 .. NumPi
      BY <3>1 DEF Network, Typed
    <3>3. 0 \in 0 .. NumPi /\ \A k \in 1 .. NumPi : k \in 0 .. NumPi
      BY <1>4
    <3>4. n = 0 <=> id[n] = 0
      BY <1>2, <3>3
    <3>5. n \in 1 .. NumPi => id[n] \in 1 .. NumPi
      BY <1>2, <3>3
    <3>6. ASSUME id[n] \in 1 .. NumPi PROVE n \in 1 .. NumPi
      <4>1. id[id[n]] = id[n] /\ id[n] \in Objs(m)
        BY <1>2, <3>3, <3>6
      <4>2. id[n] = n
        BY <1>2, <4>1
      <4> QED BY <3>6, <4>2
    <3> QED BY <1>3, <3>2, <3>4, <3>5, <3>6
  <2>4. \A j \in DOMAIN q.obj :
          /\ q.obj[j].type = "const1" <=> j = 0
          /\ q.obj[j].type = "pi" <=> j \in 1 .. NumPi
    BY <1>2, <2>3
  <2> QED BY <2>1, <2>2, <2>4 DEF Typed
<1>6. m.table = Ands(m) /\ Ands(m) \subseteq Objs(m)
  BY DEF Network, Canonical, Ands, Objs
<1>7. \A l : Alive(m, l) => /\ Regular(l) \in Objs(m) /\ Regular(l) \in Nat
                            /\ Regular(Renamed(id, l)) = id[Regular(l)]
                            /\ Compl(Renamed(id, l)) = Compl(l)
                            /\ \A k : Alive(m, k) /\ Renamed(id, k) = Renamed(id, l) => k = l
  <2>1. \A n \in Objs(m) : id[n] \in Nat
    BY <1>2
  <2>2. \A n, k \in Objs(m) : id[n] = id[k] => n = k
    BY <1>2
  <2> SUFFICES ASSUME NEW l, Alive(m, l)
               PROVE  /\ Regular(l) \in Objs(m) /\ Regular(l) \in Nat
                      /\ Regular(Renamed(id, l)) = id[Regular(l)]
                      /\ Compl(Renamed(id, l)) = Compl(l)
                      /\ \A k : Alive(m, k) /\ Renamed(id, k) = Renamed(id, l) => k = l
    OBVIOUS
  <2>3. l \in Nat /\ Regular(l) \in Objs(m)
    BY DEF Alive
  <2>4. Regular(l) \in Nat
    BY <2>3, Regulars
  <2>5. /\ Regular(Renamed(id, l)) = id[Regular(l)]
        /\ Compl(Renamed(id, l)) = Compl(l)
        /\ \A k : Alive(m, k) /\ Renamed(id, k) = Renamed(id, l) => k = l
    BY <2>1, <2>2, RenamedLiteral
  <2> QED BY <2>3, <2>4, <2>5
<1>8. \A n \in Ands(m) :
        LET c == m.obj[n].fanins
            d == q.obj[id[n]].fanins
        IN  /\ n \in Objs(m) /\ Alive(m, c[1]) /\ Alive(m, c[2]) /\ Regular(c[1]) < Regular(c[2])
            /\ Regular(c[1]) > 0
            /\ \/ /\ id[Regular(c[1])] < id[Regular(c[2])]
                  /\ d[1] = Renamed(id, c[1]) /\ d[2] = Renamed(id, c[2])
               \/ /\ id[Regular(c[2])] < id[Regular(c[1])]
                  /\ d[1] = Renamed(id, c[2]) /\ d[2] = Renamed(id, c[1])
  BY RenumberedAnd
<1>9. Canonical(q)
  <2>1. q.table = Ands(q)
    BY <1>1, <1>2, <1>6
  <2>2. ASSUME NEW n \in Ands(m)
        PROVE  /\ Regular(q.obj[id[n]].fanins[1]) > 0
               /\ Regular(q.obj[id[n]].fanins[1]) < Regular(q.obj[id[n]].fanins[2])
    <3> DEFINE c1 == m.obj[n].fanins[1]
               c2 == m.obj[n].fanins[2]
               d == q.obj[id[n]].fanins
    <3>1. /\ Alive(m, c1) /\ Alive(m, c2) /\ Regular(c1) < Regular(c2) /\ Regular(c1) > 0
          /\ \/ /\ id[Regular(c1)] < id[Regular(c2)]
                /\ d[1] = Renamed(id, c1) /\ d[2] = Renamed(id, c2)
             \/ /\ id[Regular(c2)] < id[Regular(c1)]
                /\ d[1] = Renamed(id, c2) /\ d[2] = Renamed(id, c1)
      BY <1>8
    <3> HIDE DEF c1, c2, d
    <3>2. /\ Regular(c1) \in Objs(m) /\ Regular(c2) \in Objs(m) /\ Regular(c1) \in Nat /\ Regular(c2) \in Nat
          /\ Regular(Renamed(id, c1)) = id[Regular(c1)] /\ Regular(Renamed(id, c2)) = id[Regular(c2)]
      BY <1>7, <3>1
    <3>3. 0 \in Objs(m) /\ id[0] = 0
      BY <1>2, <1>4
    <3>4. Regular(c1) # 0 /\ Regular(c2) # 0
      BY <3>1, <3>2
    <3>5. id[Regular(c1)] # 0 /\ id[Regular(c2)] # 0 /\ id[Regular(c1)] \in Nat /\ id[Regular(c2)] \in Nat
      BY <1>2, <3>2, <3>3, <3>4
    <3>6. Regular(d[1]) > 0 /\ Regular(d[1]) < Regular(d[2])
      BY <3>1, <3>2, <3>5
    <3> QED BY <3>6 DEF d
  <2>3. ASSUME NEW n \in Ands(m), NEW k \in Ands(m), q.obj[id[n]].fanins = q.obj[id[k]].fanins
        PROVE  n = k
    <3> DEFINE a1 == m.obj[n].fanins[1]
               a2 == m.obj[n].fanins[2]
               b1 == m.obj[k].fanins[1]
               b2 == m.obj[k].fanins[2]
               d == q.obj[id[n]].fanins
    <3>1. /\ Alive(m, a1) /\ Alive(m, a2) /\ Regular(a1) < Regular(a2)
          /\ \/ d[1] = Renamed(id, a1) /\ d[2] = Renamed(id, a2)
             \/ d[1] = Renamed(id, a2) /\ d[2] = Renamed(id, a1)
      BY <1>8
    <3>2. /\ Alive(m, b1) /\ Alive(m, b2) /\ Regular(b1) < Regular(b2)
          /\ \/ d[1] = Renamed(id, b1) /\ d[2] = Renamed(id, b2)
             \/ d[1] = Renamed(id, b2) /\ d[2] = Renamed(id, b1)
      BY <1>8, <2>3
    <3> HIDE DEF a1, a2, b1, b2, d
    <3>3. (a1 = b1 /\ a2 = b2) \/ (a1 = b2 /\ a2 = b1)
      BY <1>7, <3>1, <3>2
    <3>4. Regular(a1) \in Nat /\ Regular(a2) \in Nat /\ Regular(b1) \in Nat /\ Regular(b2) \in Nat
      BY <1>7, <3>1, <3>2
    <3>5. a1 = b1 /\ a2 = b2
      BY <3>1, <3>2, <3>3, <3>4
    <3>6. m.obj[n].fanins = <<a1, a2>> /\ m.obj[k].fanins = <<b1, b2>>
      BY Children DEF Network, a1, a2, b1, b2
    <3> QED BY <1>6, <3>5, <3>6 DEF Network, Canonical
  <2>4. \A j \in q.table : \E n \in Ands(m) : j = id[n]
    BY <1>2, <1>6
  <2>5. \A j \in q.table : /\ Regular(q.obj[j].fanins[1]) > 0
                           /\ Regular(q.obj[j].fanins[1]) < Regular(q.obj[j].fanins[2])
    BY <2>2, <2>4
  <2>6. \A i, j \in q.table : q.obj[i].fanins = q.obj[j].fanins => i = j
    BY <2>3, <2>4
  <2> QED BY <2>1, <2>5, <2>6 DEF Canonical
<1>10. ExorOK(q)
  <2>1. ASSUME NEW n \in Ands(m)
        PROVE  IsExorType(q, id[n]) <=> IsExorType(m, n)
    <3> DEFINE c1 == m.obj[n].fanins[1]
               c2 == m.obj[n].fanins[2]
               d1 == q.obj[id[n]].fanins[1]
               d2 == q.obj[id[n]].fanins[2]
    <3>1. /\ Alive(m, c1) /\ Alive(m, c2)
          /\ \/ d1 = Renamed(id, c1) /\ d2 = Renamed(id, c2)
             \/ d1 = Renamed(id, c2) /\ d2 = Renamed(id, c1)
      BY <1>8
    <3>2. m.obj[n].type = "and" /\ q.obj[id[n]].type = "and"
      BY <1>3, <1>6 DEF Ands
    <3>3. IsExorType(m, n) <=> /\ Compl(c1) = 1 /\ Compl(c2) = 1
                               /\ Opposite(m.obj[Regular(c1)].fanins, m.obj[Regular(c2)].fanins)
      BY <3>2, ExorOpposite
    <3>4. IsExorType(q, id[n]) <=> /\ Compl(d1) = 1 /\ Compl(d2) = 1
                               /\ Opposite(q.obj[Regular(d1)].fanins, q.obj[Regular(d2)].fanins)
      BY <3>2, ExorOpposite
    <3> HIDE DEF c1, c2, d1, d2
    <3>5. /\ Regular(c1) \in Objs(m) /\ Regular(c2) \in Objs(m)
          /\ Regular(Renamed(id, c1)) = id[Regular(c1)] /\ Regular(Renamed(id, c2)) = id[Regular(c2)]
          /\ Compl(Renamed(id, c1)) = Compl(c1) /\ Compl(Renamed(id, c2)) = Compl(c2)
      BY <1>7, <3>1
    <3> DEFINE a == m.obj[Regular(c1)].fanins
               b == m.obj[Regular(c2)].fanins
               x == q.obj[id[Regular(c1)]].fanins
               y == q.obj[id[Regular(c2)]].fanins
    <3>6. (Opposite(x, y) <=> Opposite(a, b)) /\ (Opposite(y, x) <=> Opposite(b, a))
      BY <3>5, RenumberedOpposite
    <3>7. Opposite(a, b) <=> Opposite(b, a)
      <4>1. a \in Seq(Nat) /\ b \in Seq(Nat)
        BY <3>5, ShapeObject DEF Objs, Network
      <4> QED BY <4>1, OppositeSymmetric
    <3>8. CASE d1 = Renamed(id, c1) /\ d2 = Renamed(id, c2)
      BY <3>3, <3>4, <3>5, <3>6, <3>8
    <3>9. CASE d1 = Renamed(id, c2) /\ d2 = Renamed(id, c1)
      BY <3>3, <3>4, <3>5, <3>6, <3>7, <3>9
    <3> QED BY <3>1, <3>8, <3>9
  <2>2. \A n \in Ands(m) : q.obj[id[n]].exor = IsExorType(m, n)
    BY <1>3, <1>6 DEF Network, ExorOK
  <2>3. \A n \in Ands(m) : IsExorType(q, id[n]) = IsExorType(m, n)
    <3> SUFFICES ASSUME NEW n \in Ands(m) PROVE IsExorType(q, id[n]) = IsExorType(m, n)
      OBVIOUS
    <3>1. IsExorType(q, id[n]) \in BOOLEAN /\ IsExorType(m, n) \in BOOLEAN
      BY ExorBoolean
    <3> QED BY <2>1, <3>1
  <2> QED BY <1>1, <2>2, <2>3 DEF ExorOK
<1> QED BY <1>1, <1>5, <1>9, <1>10 DEF Network

\* The objects that stay, in the order of their new Ids.
NewOrder(m) == Ids(m, Objs(m) \ Ands(m)) \o DfsOrder(m)

\* Abc_NtkReassignIds numbers each object once, and as before those that come before all ANDs.
LEMMA NewOrderShape ==
  ASSUME NEW m, Network(m)
  PROVE  LET s == NewOrder(m)
         IN  /\ s \in Seq(Nat) /\ IsInjective(s) /\ ToSet(s) = Objs(m)
             /\ \A K \in Nat : 0 .. K \subseteq Objs(m) \ Ands(m) =>
                   \A k \in 0 .. K : k + 1 \in 1 .. Len(s) /\ s[k + 1] = k
<1> DEFINE S == Objs(m) \ Ands(m)
           a == Ids(m, S)
           b == DfsOrder(m)
           s == a \o b
<1>1. Shape(m) /\ S \in SUBSET DOMAIN m.obj /\ Ands(m) \subseteq Objs(m)
  BY DEF Network, Objs, Ands
<1>2. a \in Seq(Nat) /\ IsInjective(a) /\ ToSet(a) = S
  BY <1>1, IdsShape
<1>3. \A K \in Nat : 0 .. K \subseteq S => \A k \in 0 .. K : k + 1 \in 1 .. Len(a) /\ a[k + 1] = k
  BY <1>1, IdsFirst
<1>4. b \in Seq(Nat) /\ IsInjective(b) /\ ToSet(b) = Ands(m)
  BY DfsOrderShape
<1> HIDE DEF a, b, S
<1>5. /\ Len(a) \in Nat /\ DOMAIN a = 1 .. Len(a) /\ Len(b) \in Nat /\ DOMAIN b = 1 .. Len(b)
  BY <1>2, <1>4
<1>6. /\ s \in Seq(Nat) /\ Len(s) = Len(a) + Len(b)
      /\ \A i \in 1 .. Len(a) + Len(b) : s[i] = IF i <= Len(a) THEN a[i] ELSE b[i - Len(a)]
  <2>1. a \in Seq(Nat) /\ b \in Seq(Nat)
    BY <1>2, <1>4
  <2> QED BY <2>1, ConcatProperties
<1>7. s = NewOrder(m)
  BY DEF NewOrder, a, b, S
<1> HIDE DEF s
<1>8. DOMAIN s = 1 .. Len(a) + Len(b)
  BY <1>6
<1>9. \A i \in DOMAIN s : \/ i \in DOMAIN a /\ s[i] = a[i] /\ s[i] \in S
                          \/ i - Len(a) \in DOMAIN b /\ s[i] = b[i - Len(a)] /\ s[i] \in Ands(m)
  <2> SUFFICES ASSUME NEW i \in DOMAIN s
               PROVE  \/ i \in DOMAIN a /\ s[i] = a[i] /\ s[i] \in S
                      \/ i - Len(a) \in DOMAIN b /\ s[i] = b[i - Len(a)] /\ s[i] \in Ands(m)
    OBVIOUS
  <2>1. CASE i <= Len(a)
    BY <1>2, <1>5, <1>6, <1>8, <2>1 DEF ToSet
  <2>2. CASE ~ (i <= Len(a))
    <3>1. i - Len(a) \in DOMAIN b /\ s[i] = b[i - Len(a)]
      BY <1>5, <1>6, <1>8, <2>2
    <3> QED BY <1>4, <3>1 DEF ToSet
  <2> QED BY <2>1, <2>2
<1>10. S \cap Ands(m) = {} /\ S \cup Ands(m) = Objs(m)
  BY <1>1 DEF S
<1>11. IsInjective(s)
  <2> SUFFICES ASSUME NEW i \in DOMAIN s, NEW j \in DOMAIN s, s[i] = s[j] PROVE i = j
    BY DEF IsInjective
  <2>1. CASE s[i] \in S
    <3>1. i \in DOMAIN a /\ j \in DOMAIN a /\ a[i] = a[j]
      BY <1>9, <1>10, <2>1
    <3> QED BY <1>2, <3>1 DEF IsInjective
  <2>2. CASE s[i] \notin S
    <3>1. i - Len(a) \in DOMAIN b /\ j - Len(a) \in DOMAIN b /\ b[i - Len(a)] = b[j - Len(a)]
      BY <1>9, <2>2
    <3>2. i - Len(a) = j - Len(a)
      BY <1>4, <3>1 DEF IsInjective
    <3> QED BY <1>5, <1>8, <3>2
  <2> QED BY <2>1, <2>2
<1>12. ToSet(s) = Objs(m)
  <2>1. ToSet(s) \subseteq Objs(m)
    BY <1>9, <1>10 DEF ToSet
  <2>2. ASSUME NEW n \in S PROVE n \in ToSet(s)
    <3>1. PICK i \in DOMAIN a : a[i] = n
      BY <1>2 DEF ToSet
    <3>2. i \in DOMAIN s /\ s[i] = n
      BY <1>5, <1>6, <1>8, <3>1
    <3> QED BY <3>2 DEF ToSet
  <2>3. ASSUME NEW n \in Ands(m) PROVE n \in ToSet(s)
    <3>1. PICK j \in DOMAIN b : b[j] = n
      BY <1>4 DEF ToSet
    <3> DEFINE i == j + Len(a)
    <3>2. i \in 1 .. Len(a) + Len(b) /\ ~ (i <= Len(a)) /\ i - Len(a) = j
      BY <1>5
    <3> HIDE DEF i
    <3>3. i \in DOMAIN s /\ s[i] = n
      BY <1>6, <1>8, <3>1, <3>2
    <3> QED BY <3>3 DEF ToSet
  <2> QED BY <1>10, <2>1, <2>2, <2>3
<1>13. ASSUME NEW K \in Nat, 0 .. K \subseteq S, NEW k \in 0 .. K
       PROVE  k + 1 \in 1 .. Len(s) /\ s[k + 1] = k
  <2>1. k + 1 \in 1 .. Len(a) /\ a[k + 1] = k
    BY <1>3, <1>13
  <2>2. k + 1 \in 1 .. Len(a) + Len(b) /\ k + 1 <= Len(a)
    BY <1>5, <2>1
  <2> QED BY <1>6, <2>1, <2>2
<1> QED BY <1>6, <1>7, <1>11, <1>12, <1>13 DEF S

\* Abc_AigRehash reorders the children of the nodes in the table, and nothing else.
LEMMA RehashedEffect ==
  ASSUME NEW m, DOMAIN m = {"obj", "table", "stack", "vLevels", "vLevelsR"},
         \A n \in DOMAIN m.obj :
            DOMAIN m.obj[n] = {"type", "fanins", "fanouts", "level", "rlevel", "exor"}
  PROVE  LET q == Rehashed(m)
         IN  /\ DOMAIN q = DOMAIN m /\ DOMAIN q.obj = DOMAIN m.obj /\ SameLists(m, q)
             /\ \A n \in DOMAIN m.obj :
                   /\ DOMAIN q.obj[n] = DOMAIN m.obj[n] /\ SameData(m, q, n)
                   /\ q.obj[n].fanouts = m.obj[n].fanouts
                   /\ q.obj[n].fanins = IF n \in m.table
                                        THEN Ordered(m.obj[n].fanins[1], m.obj[n].fanins[2])
                                        ELSE m.obj[n].fanins
<1> DEFINE c(n) == Ordered(m.obj[n].fanins[1], m.obj[n].fanins[2])
           g == [n \in DOMAIN m.obj |->
                    IF n \in m.table THEN [m.obj[n] EXCEPT !.fanins = c(n)] ELSE m.obj[n]]
           q == Rehashed(m)
<1>1. q = [m EXCEPT !.obj = g]
  BY DEF Rehashed
<1> HIDE DEF c, q
<1>2. /\ DOMAIN g = DOMAIN m.obj
      /\ \A n \in DOMAIN m.obj :
            /\ DOMAIN g[n] = DOMAIN m.obj[n]
            /\ g[n].type = m.obj[n].type /\ g[n].level = m.obj[n].level
            /\ g[n].rlevel = m.obj[n].rlevel /\ g[n].exor = m.obj[n].exor
            /\ g[n].fanouts = m.obj[n].fanouts
            /\ g[n].fanins = IF n \in m.table THEN c(n) ELSE m.obj[n].fanins
  OBVIOUS
<1> HIDE DEF g
<1>3. DOMAIN q = DOMAIN m /\ q.obj = g /\ SameLists(m, q)
  BY <1>1 DEF SameLists
<1> QED BY <1>2, <1>3 DEF SameData, q, c

\* Abc_NtkReassignIds
LEMMA ReassignIdsKeeps ==
  ASSUME NEW m, Network(m)
  PROVE  LET q == ReassignIds(m)
         IN  /\ Network(q)
             /\ q.stack = m.stack /\ q.vLevels = m.vLevels /\ q.vLevelsR = m.vLevelsR
             /\ \E id : /\ Renumbered(m, q, id)
                        /\ \A K \in Nat : 0 .. K \subseteq Objs(m) \ Ands(m) => \A k \in 0 .. K : id[k] = k
<1> DEFINE s == NewOrder(m)
           L == Len(s)
           id == [n \in ToSet(s) |-> (CHOOSE i \in DOMAIN s : s[i] = n) - 1]
           Moved(o) == [o EXCEPT !.fanins = [i \in DOMAIN o.fanins |->
                                                Lit(id[Regular(o.fanins[i])], Compl(o.fanins[i]))],
                                 !.fanouts = [i \in DOMAIN o.fanouts |-> id[o.fanouts[i]]]]
           obj == [k \in 0 .. L - 1 |-> Moved(m.obj[s[k + 1]])]
           tab == {id[n] : n \in m.table}
           p == [m EXCEPT !.obj = obj, !.table = tab]
           q == ReassignIds(m)
<1>1. q = Rehashed(p)
  BY DEF ReassignIds, NewOrder
<1>2. /\ s \in Seq(Nat) /\ IsInjective(s) /\ ToSet(s) = Objs(m)
      /\ \A K \in Nat : 0 .. K \subseteq Objs(m) \ Ands(m) =>
            \A k \in 0 .. K : k + 1 \in 1 .. Len(s) /\ s[k + 1] = k
  BY NewOrderShape
<1> HIDE DEF q, s
<1>3. L \in Nat /\ DOMAIN s = 1 .. L
  BY <1>2
<1> DEFINE at(n) == CHOOSE i \in DOMAIN s : s[i] = n
<1>4. \A n \in Objs(m) : at(n) \in DOMAIN s /\ s[at(n)] = n
  BY <1>2 DEF ToSet
<1>5. DOMAIN id = Objs(m) /\ \A n \in Objs(m) : id[n] = at(n) - 1
  BY <1>2
<1> HIDE DEF at, id
<1>6. \A n \in Objs(m) : id[n] \in Nat /\ id[n] \in 0 .. L - 1 /\ id[n] + 1 = at(n) /\ s[id[n] + 1] = n
  <2> SUFFICES ASSUME NEW n \in Objs(m)
               PROVE  id[n] \in Nat /\ id[n] \in 0 .. L - 1 /\ id[n] + 1 = at(n) /\ s[id[n] + 1] = n
    OBVIOUS
  <2>1. at(n) \in 1 .. L /\ s[at(n)] = n /\ id[n] = at(n) - 1
    BY <1>3, <1>4, <1>5
  <2>2. id[n] + 1 = at(n)
    BY <1>3, <2>1
  <2> QED BY <1>3, <2>1, <2>2
<1>7. \A n, k \in Objs(m) : id[n] = id[k] => n = k
  BY <1>6
<1>8. \A k \in 0 .. L - 1 : s[k + 1] \in Objs(m) /\ id[s[k + 1]] = k
  <2> SUFFICES ASSUME NEW k \in 0 .. L - 1 PROVE s[k + 1] \in Objs(m) /\ id[s[k + 1]] = k
    OBVIOUS
  <2>1. k + 1 \in DOMAIN s
    BY <1>3
  <2>2. s[k + 1] \in Objs(m)
    BY <1>2, <2>1 DEF ToSet
  <2>3. id[s[k + 1]] + 1 \in DOMAIN s /\ s[id[s[k + 1]] + 1] = s[k + 1] /\ id[s[k + 1]] \in Nat
    BY <1>4, <1>6, <2>2
  <2>4. id[s[k + 1]] + 1 = k + 1
    BY <1>2, <2>1, <2>3 DEF IsInjective
  <2> QED BY <2>2, <2>3, <2>4
<1>9. ASSUME NEW K \in Nat, 0 .. K \subseteq Objs(m) \ Ands(m), NEW k \in 0 .. K
      PROVE  k \in Objs(m) /\ id[k] = k
  <2>1. k + 1 \in 1 .. L /\ s[k + 1] = k
    BY <1>2, <1>9
  <2>2. k \in 0 .. L - 1
    BY <1>3, <2>1
  <2> QED BY <1>8, <2>1, <2>2
<1>10. 0 .. L - 1 = {id[n] : n \in Objs(m)}
  BY <1>6, <1>8
<1>11. \A o : IsObject(o) =>
          /\ DOMAIN Moved(o) = DOMAIN o /\ Moved(o).type = o.type /\ Moved(o).exor = o.exor
          /\ Moved(o).fanins = [i \in DOMAIN o.fanins |-> Renamed(id, o.fanins[i])]
          /\ Moved(o).fanouts = [i \in DOMAIN o.fanouts |-> id[o.fanouts[i]]]
  <2> SUFFICES ASSUME NEW o, IsObject(o)
               PROVE  /\ DOMAIN Moved(o) = DOMAIN o /\ Moved(o).type = o.type /\ Moved(o).exor = o.exor
                      /\ Moved(o).fanins = [i \in DOMAIN o.fanins |-> Renamed(id, o.fanins[i])]
                      /\ Moved(o).fanouts = [i \in DOMAIN o.fanouts |-> id[o.fanouts[i]]]
    OBVIOUS
  <2> DEFINE f == [i \in DOMAIN o.fanins |-> Lit(id[Regular(o.fanins[i])], Compl(o.fanins[i]))]
             g == [i \in DOMAIN o.fanouts |-> id[o.fanouts[i]]]
  <2>1. f = [i \in DOMAIN o.fanins |-> Renamed(id, o.fanins[i])]
    BY DEF Renamed
  <2> HIDE DEF f, g
  <2>2. Moved(o) = [o EXCEPT !.fanins = f, !.fanouts = g]
    BY DEF f, g
  <2> HIDE DEF Moved
  <2>3. /\ DOMAIN Moved(o) = DOMAIN o /\ Moved(o).type = o.type /\ Moved(o).exor = o.exor
        /\ Moved(o).fanins = f /\ Moved(o).fanouts = g
    BY <2>2 DEF IsObject
  <2> QED BY <2>1, <2>3 DEF g
<1> HIDE DEF Moved
<1>12. /\ Shape(m) /\ Wired(m) /\ Typed(m) /\ m.table = Ands(m) /\ Ands(m) \subseteq Objs(m)
       /\ Objs(m) \subseteq DOMAIN m.obj
  BY DEF Network, Canonical, Ands, Objs
<1>13. /\ DOMAIN obj = 0 .. L - 1
       /\ \A n \in Objs(m) :
             /\ IsObject(m.obj[n])
             /\ DOMAIN obj[id[n]] = DOMAIN m.obj[n]
             /\ obj[id[n]].type = m.obj[n].type /\ obj[id[n]].exor = m.obj[n].exor
             /\ obj[id[n]].fanins = [i \in DOMAIN m.obj[n].fanins |-> Renamed(id, m.obj[n].fanins[i])]
             /\ obj[id[n]].fanouts = [i \in DOMAIN m.obj[n].fanouts |-> id[m.obj[n].fanouts[i]]]
  <2>1. \A n \in Objs(m) : IsObject(m.obj[n]) /\ obj[id[n]] = Moved(m.obj[n])
    BY <1>6, <1>12, ShapeObject
  <2>2. DOMAIN obj = 0 .. L - 1
    OBVIOUS
  <2> HIDE DEF obj
  <2>3. ASSUME NEW n \in Objs(m)
        PROVE  /\ DOMAIN obj[id[n]] = DOMAIN m.obj[n]
               /\ obj[id[n]].type = m.obj[n].type /\ obj[id[n]].exor = m.obj[n].exor
               /\ obj[id[n]].fanins = [i \in DOMAIN m.obj[n].fanins |-> Renamed(id, m.obj[n].fanins[i])]
               /\ obj[id[n]].fanouts = [i \in DOMAIN m.obj[n].fanouts |-> id[m.obj[n].fanouts[i]]]
    <3> DEFINE o == m.obj[n]
    <3>1. IsObject(o) /\ obj[id[n]] = Moved(o)
      BY <2>1
    <3> HIDE DEF o
    <3>2. /\ DOMAIN obj[id[n]] = DOMAIN o
          /\ obj[id[n]].type = o.type /\ obj[id[n]].exor = o.exor
          /\ obj[id[n]].fanins = [i \in DOMAIN o.fanins |-> Renamed(id, o.fanins[i])]
          /\ obj[id[n]].fanouts = [i \in DOMAIN o.fanouts |-> id[o.fanouts[i]]]
      BY <1>11, <3>1
    <3> QED BY <3>2 DEF o
  <2> QED BY <2>1, <2>2, <2>3
<1> HIDE DEF obj, tab, L
<1>14. DOMAIN p = DOMAIN m /\ p.obj = obj /\ p.table = tab
       /\ p.stack = m.stack /\ p.vLevels = m.vLevels /\ p.vLevelsR = m.vLevelsR
  BY <1>12 DEF Shape
<1> HIDE DEF p
<1>15. \A n \in DOMAIN p.obj :
            DOMAIN p.obj[n] = {"type", "fanins", "fanouts", "level", "rlevel", "exor"}
  <2>1. \A n \in Objs(m) : DOMAIN p.obj[id[n]] = DOMAIN m.obj[n] /\ IsObject(m.obj[n])
    BY <1>13, <1>14
  <2>2. DOMAIN p.obj = {id[n] : n \in Objs(m)}
    BY <1>10, <1>13, <1>14
  <2> QED BY <2>1, <2>2 DEF IsObject
<1>16. /\ DOMAIN q = DOMAIN m /\ DOMAIN q.obj = 0 .. L - 1 /\ SameLists(p, q)
       /\ \A n \in DOMAIN p.obj :
             /\ DOMAIN q.obj[n] = DOMAIN p.obj[n] /\ SameData(p, q, n)
             /\ q.obj[n].fanouts = p.obj[n].fanouts
             /\ q.obj[n].fanins = IF n \in p.table
                                  THEN Ordered(p.obj[n].fanins[1], p.obj[n].fanins[2])
                                  ELSE p.obj[n].fanins
  <2>1. DOMAIN p = {"obj", "table", "stack", "vLevels", "vLevelsR"}
    BY <1>12, <1>14 DEF Shape
  <2> DEFINE z == Rehashed(p)
  <2>2. /\ DOMAIN z = DOMAIN p /\ DOMAIN z.obj = DOMAIN p.obj /\ SameLists(p, z)
        /\ \A n \in DOMAIN p.obj :
             /\ DOMAIN z.obj[n] = DOMAIN p.obj[n] /\ SameData(p, z, n)
             /\ z.obj[n].fanouts = p.obj[n].fanouts
             /\ z.obj[n].fanins = IF n \in p.table
                                  THEN Ordered(p.obj[n].fanins[1], p.obj[n].fanins[2])
                                  ELSE p.obj[n].fanins
    BY <1>15, <2>1, RehashedEffect
  <2> HIDE DEF z
  <2>3. q = z
    BY <1>1 DEF z
  <2>4. DOMAIN p = DOMAIN m /\ DOMAIN p.obj = 0 .. L - 1
    BY <1>13, <1>14
  <2> QED BY <2>2, <2>3, <2>4
<1>17. \A n \in Objs(m) : id[n] \in tab <=> n \in m.table
  BY <1>7, <1>12 DEF tab
<1>18. ASSUME NEW n \in Objs(m)
       PROVE  LET d == q.obj[id[n]]
                  o == m.obj[n]
              IN  /\ DOMAIN d = {"type", "fanins", "fanouts", "level", "rlevel", "exor"}
                  /\ d.type = o.type /\ d.exor = o.exor
                  /\ d.fanins \in Seq(Nat) /\ Len(d.fanins) = Len(o.fanins)
                  /\ IF n \in m.table
                     THEN d.fanins = Ordered(Renamed(id, o.fanins[1]), Renamed(id, o.fanins[2]))
                     ELSE \A i \in DOMAIN o.fanins : d.fanins[i] = Renamed(id, o.fanins[i])
                  /\ d.fanouts \in Seq(Nat) /\ Len(d.fanouts) = Len(o.fanouts)
                  /\ \A i \in DOMAIN o.fanouts : d.fanouts[i] = id[o.fanouts[i]]
  <2> DEFINE d == q.obj[id[n]]
             o == m.obj[n]
             c == o.fanins
             u == o.fanouts
             f == [i \in DOMAIN c |-> Renamed(id, c[i])]
             g == [i \in DOMAIN u |-> id[u[i]]]
  <2>1. id[n] \in DOMAIN p.obj /\ n \in DOMAIN m.obj /\ IsObject(o)
    BY <1>10, <1>12, <1>13, <1>14
  <2>2. /\ DOMAIN d = {"type", "fanins", "fanouts", "level", "rlevel", "exor"}
        /\ d.type = o.type /\ d.exor = o.exor /\ d.fanouts = g
        /\ d.fanins = IF n \in m.table THEN Ordered(f[1], f[2]) ELSE f
    BY <1>13, <1>14, <1>15, <1>16, <1>17, <2>1 DEF SameData
  <2>3. c \in Seq(Nat) /\ u \in Seq(Nat) /\ Len(c) \in Nat /\ Len(u) \in Nat
        /\ DOMAIN c = 1 .. Len(c) /\ DOMAIN u = 1 .. Len(u)
    BY <2>1 DEF IsObject
  <2>4. \A i \in DOMAIN c : Alive(m, c[i])
    <3>1. Fanins(m, n) \subseteq Objs(m)
      BY <1>12, <2>1 DEF Wired
    <3>2. \A i \in DOMAIN c : c[i] \in ToSet(c) /\ c[i] \in Nat
      <4> HIDE DEF c
      <4> QED BY <2>3 DEF ToSet
    <3> QED BY <3>1, <3>2 DEF Fanins, Alive
  <2>5. \A i \in DOMAIN u : u[i] \in Objs(m)
    <3> SUFFICES ASSUME NEW i \in DOMAIN u PROVE u[i] \in Objs(m)
      OBVIOUS
    <3>1. u[i] \in DOMAIN m.obj /\ n \in Fanins(m, u[i])
      BY <1>12, <2>1 DEF Wired, ToSet
    <3>2. m.obj[u[i]].fanins # <<>>
      BY <3>1 DEF Fanins, ToSet
    <3> QED BY <1>12, <3>1, <3>2, TypedObject DEF Objs
  <2> HIDE DEF d, o, c, u
  <2>6. \A i \in DOMAIN c : Renamed(id, c[i]) \in Nat
    BY <1>6, <1>7, <2>4, RenamedLiteral
  <2>7. f \in Seq(Nat) /\ Len(f) = Len(c) /\ DOMAIN f = DOMAIN c
    BY <2>3, <2>6
  <2>8. g \in Seq(Nat) /\ Len(g) = Len(u) /\ \A i \in DOMAIN u : g[i] = id[u[i]]
    BY <1>6, <2>3, <2>5
  <2>9. CASE n \in m.table
    <3>1. Len(c) = 2 /\ n \in Ands(m)
      BY <1>12, <2>9 DEF Typed, Ands, c, o
    <3>2. f[1] = Renamed(id, c[1]) /\ f[2] = Renamed(id, c[2]) /\ f[1] \in Nat /\ f[2] \in Nat
      BY <2>3, <2>6, <3>1
    <3>3. Ordered(f[1], f[2]) \in Seq(Nat) /\ Len(Ordered(f[1], f[2])) = 2
      <4> HIDE DEF f
      <4>1. <<f[1], f[2]>> \in Seq(Nat) /\ <<f[2], f[1]>> \in Seq(Nat)
        BY <3>2, TupleSeq
      <4> QED BY <4>1 DEF Ordered
    <3> HIDE DEF f, g
    <3> QED BY <2>2, <2>8, <2>9, <3>1, <3>2, <3>3 DEF d, o, c, u
  <2>10. CASE n \notin m.table
    <3>1. \A i \in DOMAIN c : f[i] = Renamed(id, c[i])
      OBVIOUS
    <3> HIDE DEF f, g
    <3> QED BY <2>2, <2>7, <2>8, <2>10, <3>1 DEF d, o, c, u
  <2> QED BY <2>9, <2>10
<1>19. Renumbered(m, q, id)
  <2>1. q.table = {id[n] : n \in m.table}
    BY <1>14, <1>16 DEF SameLists, tab
  <2>2. NumPi \in Nat /\ NumPi < Size(m) /\ DOMAIN m.obj = 0 .. Size(m) - 1 /\ Size(m) \in Nat
    BY <1>12, AigAssumption DEF Typed, Shape
  <2>3. ASSUME NEW k \in 0 .. NumPi PROVE k \in Objs(m) \ Ands(m)
    <3>1. k \in DOMAIN m.obj /\ (k = 0 \/ k \in 1 .. NumPi)
      BY <2>2
    <3>2. m.obj[k].type \in {"const1", "pi"}
      BY <1>12, <3>1 DEF Typed
    <3> QED BY <3>1, <3>2 DEF Objs, Ands
  <2>4. \A k \in 0 .. NumPi : k \in Objs(m) /\ id[k] = k
    BY <1>9, <2>2, <2>3
  <2> QED BY <1>5, <1>6, <1>7, <1>10, <1>16, <1>18, <2>1, <2>4 DEF Renumbered
<1>20. Shape(q)
  <2>1. \A n \in Objs(m) : IsObject(q.obj[id[n]])
    <3> SUFFICES ASSUME NEW n \in Objs(m) PROVE IsObject(q.obj[id[n]])
      OBVIOUS
    <3>1. IsObject(m.obj[n])
      BY <1>13
    <3> QED BY <1>18, <3>1 DEF IsObject
  <2>2. \A k \in DOMAIN q.obj : IsObject(q.obj[k])
    BY <1>10, <1>16, <2>1
  <2>3. Size(q) = L
    BY <1>3, <1>16, SizeOf DEF L
  <2> QED BY <1>3, <1>12, <1>16, <2>2, <2>3 DEF Shape, L
<1>21. Network(q)
  BY <1>19, <1>20, RenumberedNetwork
<1>22. q.stack = m.stack /\ q.vLevels = m.vLevels /\ q.vLevelsR = m.vLevelsR
  BY <1>14, <1>16 DEF SameLists
<1> HIDE DEF at
<1> QED BY <1>9, <1>19, <1>21, <1>22 DEF q

-----------------------------------------------------------------------------
(* A network from its netlist. *)

StartObjs(net) ==
    [n \in 0 .. NumPi + Len(net.pos) |->
        NewObj(IF n = 0 THEN "const1" ELSE IF n <= NumPi THEN "pi" ELSE "po")]

StartMan(net) == [obj |-> StartObjs(net), table |-> {}, stack |-> <<>>,
                  vLevels |-> <<>>, vLevelsR |-> <<>>]

\* A manager before any node is made: constant, inputs and outputs.
LEMMA StartNetwork ==
  ASSUME NEW net \in Netlists
  PROVE  LET m == StartMan(net)
         IN  /\ NetworkAs(m, 0) /\ Idle(m) /\ DOMAIN m.obj = 0 .. NumPi + Len(net.pos)
             /\ \A n \in DOMAIN m.obj : m.obj[n].type = IF n = 0 THEN "const1"
                                                        ELSE IF n <= NumPi THEN "pi" ELSE "po"
<1> DEFINE m == StartMan(net)
           N == NumPi + Len(net.pos)
           T(n) == IF n = 0 THEN "const1" ELSE IF n <= NumPi THEN "pi" ELSE "po"
<1>1. N \in Nat /\ NumPi \in Nat /\ NumPi <= N
  BY AigAssumption, NetlistsAssumption
<1>2. /\ DOMAIN m = {"obj", "table", "stack", "vLevels", "vLevelsR"}
      /\ m.table = {} /\ m.stack = <<>> /\ m.vLevels = <<>> /\ m.vLevelsR = <<>>
      /\ DOMAIN m.obj = 0 .. N /\ \A n \in 0 .. N : m.obj[n] = NewObj(T(n))
  BY DEF StartMan, StartObjs
<1> HIDE DEF m
<1>3. ASSUME NEW n \in 0 .. N
      PROVE  IsObject(m.obj[n]) /\ m.obj[n].type = T(n) /\ m.obj[n].fanins = <<>> /\ m.obj[n].fanouts = <<>>
  <2>1. T(n) \in {"const1", "pi", "po"}
    OBVIOUS
  <2>2. m.obj[n] = NewObj(T(n))
    BY <1>2
  <2> HIDE DEF T
  <2> QED BY <2>1, <2>2, EmptySeq DEF NewObj, IsObject
<1>4. Size(m) = N + 1
  <2>1. DOMAIN m.obj = 0 .. (N + 1) - 1 /\ N + 1 \in Nat
    BY <1>1, <1>2
  <2> QED BY <2>1, SizeOf
<1>5. Shape(m)
  <2>1. DOMAIN m.obj = 0 .. Size(m) - 1 /\ Size(m) \in Nat
    BY <1>1, <1>2, <1>4
  <2> QED BY <1>2, <1>3, <2>1 DEF Shape
<1>6. Wired(m)
  <2>1. IsInjective(<<>>) /\ ToSet(<<>>) = {}
    BY DEF IsInjective, ToSet
  <2>2. \A n \in 0 .. N : Fanins(m, n) = {}
    BY <1>3, <2>1 DEF Fanins
  <2> QED BY <1>2, <1>3, <2>1, <2>2 DEF Wired
<1>7. TypedAs(m, 0)
  <2>1. Len(<<>>) = 0
    OBVIOUS
  <2> QED BY <1>1, <1>2, <1>3, <1>4, <2>1 DEF TypedAs
<1>8. Ands(m) = {}
  BY <1>2, <1>3 DEF Ands
<1>9. Canonical(m) /\ ExorOK(m)
  BY <1>2, <1>8 DEF Canonical, ExorOK
<1> QED BY <1>2, <1>3, <1>5, <1>6, <1>7, <1>9 DEF NetworkAs, Idle, m

\* An operand of a pair or an output is a literal of an object that is there.
LEMMA OperandAlive ==
  ASSUME NEW m, NEW results \in Seq(Nat), NumPi \in Nat, \A n \in 0 .. NumPi : n \in Objs(m),
         \A i \in DOMAIN results : Alive(m, results[i]),
         NEW l \in Nat, Regular(l) <= NumPi + Len(results)
  PROVE  Alive(m, Operand(results, l))
<1>1. Regular(l) \in Nat /\ Compl(l) \in {0, 1}
  BY Regulars
<1>2. CASE Regular(l) <= NumPi
  BY <1>1, <1>2 DEF Operand, Alive
<1>3. CASE Regular(l) > NumPi
  <2> DEFINE i == Regular(l) - NumPi
  <2>1. i \in DOMAIN results /\ Operand(results, l) = NotCond(results[i], Compl(l))
    BY <1>1, <1>3 DEF Operand
  <2> HIDE DEF i
  <2>2. results[i] \in Nat /\ Regular(results[i]) \in Objs(m)
    BY <2>1 DEF Alive
  <2>3. NotCond(results[i], Compl(l)) \in Nat
        /\ Regular(NotCond(results[i], Compl(l))) = Regular(results[i])
    BY <1>1, <2>2, Regulars
  <2> QED BY <2>1, <2>2, <2>3 DEF Alive
<1> QED BY <1>1, <1>2, <1>3

BuildStep(e, b, p) ==
    LET new == And(b.man, Operand(b.results, p[1]), Operand(b.results, p[2]))
    IN  [man |-> new.man, results |-> Append(b.results, new.lit)]
BuildInv(e, k, b) ==
    /\ NetworkAs(b.man, 0) /\ Grown(e, b.man)
    /\ b.results \in Seq(Nat) /\ Len(b.results) = k
    /\ \A i \in DOMAIN b.results : Alive(b.man, b.results[i])
BuildFold == INSTANCE Folding WITH Op <- BuildStep, Inv <- BuildInv

\* Nodes added to nodes added.
LEMMA GrownTransitive ==
  ASSUME NEW m, NEW p, NEW q, Grown(m, p), Grown(p, q)
  PROVE  Grown(m, q)
BY DEF Grown, SameData

\* One pair of a netlist.
LEMMA BuildKeeps ==
  ASSUME NEW net \in Netlists, NEW k \in 0 .. Len(net.ands) - 1, NEW b, BuildInv(StartMan(net), k, b)
  PROVE  BuildInv(StartMan(net), k + 1, BuildStep(StartMan(net), b, net.ands[k + 1]))
<1> DEFINE m == StartMan(net)
           p == net.ands[k + 1]
           l0 == Operand(b.results, p[1])
           l1 == Operand(b.results, p[2])
           new == And(b.man, l0, l1)
           q == BuildStep(m, b, p)
<1>1. /\ NetworkAs(b.man, 0) /\ Grown(m, b.man) /\ b.results \in Seq(Nat) /\ Len(b.results) = k
      /\ \A i \in DOMAIN b.results : Alive(b.man, b.results[i])
  BY DEF BuildInv
<1>2. /\ NumPi \in Nat /\ p[1] \in Nat /\ p[2] \in Nat
      /\ Regular(p[1]) < NumPi + k + 1 /\ Regular(p[2]) < NumPi + k + 1
  <2>1. NumPi \in Nat
    BY AigAssumption
  <2>2. /\ net.ands \in Seq(Nat \X Nat)
        /\ \A j \in DOMAIN net.ands : \A i \in 1 .. 2 : Regular(net.ands[j][i]) < NumPi + j
    BY NetlistsAssumption
  <2>3. k + 1 \in DOMAIN net.ands /\ p \in Nat \X Nat
    BY <2>2
  <2>4. p[1] \in Nat /\ p[2] \in Nat
    <3> HIDE DEF p
    <3> QED BY <2>3
  <2>5. Regular(p[1]) < NumPi + (k + 1) /\ Regular(p[2]) < NumPi + (k + 1)
    BY <2>2, <2>3
  <2> QED BY <2>1, <2>4, <2>5
<1>3. \A n \in 0 .. NumPi : n \in Objs(b.man)
  <2>1. NumPi < Size(b.man) /\ Shape(b.man) /\ TypedAs(b.man, 0)
    BY <1>1 DEF NetworkAs, TypedAs
  <2> QED BY <1>2, <2>1, SMTT(30) DEF TypedAs, Shape, Objs
<1>4. Regular(p[1]) \in Nat /\ Regular(p[2]) \in Nat
  BY <1>2 DEF Regular
<1>5. Regular(p[1]) <= NumPi + Len(b.results) /\ Regular(p[2]) <= NumPi + Len(b.results)
  BY <1>1, <1>2, <1>4
<1> HIDE DEF p
<1>6. Alive(b.man, l0) /\ Alive(b.man, l1)
  BY <1>1, <1>2, <1>3, <1>5, OperandAlive
<1> HIDE DEF l0, l1
<1>7. NetworkAs(new.man, 0) /\ Alive(new.man, new.lit) /\ Grown(b.man, new.man)
  BY <1>1, <1>6, AndKeepsAs
<1>8. q.man = new.man /\ q.results = Append(b.results, new.lit)
  BY DEF BuildStep, l0, l1
<1> HIDE DEF new, q
<1>9. Grown(m, q.man)
  BY <1>1, <1>7, <1>8, GrownTransitive
<1>10. new.lit \in Nat /\ \A l : Alive(b.man, l) => Alive(q.man, l)
  BY <1>7, <1>8, GrownManager DEF Alive
<1>11. /\ q.results \in Seq(Nat) /\ Len(q.results) = k + 1
       /\ \A i \in DOMAIN q.results : \/ (i \in DOMAIN b.results /\ q.results[i] = b.results[i])
                                       \/ q.results[i] = new.lit
  BY <1>1, <1>8, <1>10, AppendProperties
<1>12. \A i \in DOMAIN q.results : Alive(q.man, q.results[i])
  BY <1>1, <1>7, <1>8, <1>10, <1>11
<1> QED BY <1>7, <1>8, <1>9, <1>11, <1>12 DEF BuildInv, q, p

\* The manager with its nodes, and the literals of the pairs.
Built(net) == BuildFold!Result(StartMan(net), [man |-> StartMan(net), results |-> <<>>], net.ands)[Len(net.ands)]

\* The driver of output NumPi + i.
Driver(e, i) == Operand(Built(e).results, e.pos[i])

ConnectStep(e, m, i) == AddFanin(m, NumPi + i, Driver(e, i))
ConnectInv(e, k, m) ==
    /\ Shape(m) /\ Wired(m) /\ DOMAIN m.obj = DOMAIN Built(e).man.obj /\ SameLists(Built(e).man, m)
    /\ \A n \in DOMAIN m.obj :
          /\ SameData(Built(e).man, m, n)
          /\ m.obj[n].fanins = IF n \in NumPi + 1 .. NumPi + k THEN <<Driver(e, n - NumPi)>>
                               ELSE Built(e).man.obj[n].fanins
ConnectFold == INSTANCE Folding WITH Op <- ConnectStep, Inv <- ConnectInv

\* The outputs are objects without fanins, and there are drivers for them.
Open(e) ==
    /\ NumPi \in Nat /\ NetworkAs(Built(e).man, 0) /\ IsSeq(e.pos)
    /\ Pos(Built(e).man) = NumPi + 1 .. NumPi + Len(e.pos)
    /\ \A i \in DOMAIN e.pos : Alive(Built(e).man, Driver(e, i))

\* One output of a netlist.
LEMMA ConnectKeeps ==
  ASSUME NEW e, Open(e), NEW k \in 0 .. Len(e.pos) - 1, NEW m, ConnectInv(e, k, m)
  PROVE  ConnectInv(e, k + 1, ConnectStep(e, m, k + 1))
<1> DEFINE n == NumPi + (k + 1)
           l == Driver(e, k + 1)
           q == ConnectStep(e, m, k + 1)
<1>1. /\ NumPi \in Nat /\ k + 1 \in DOMAIN e.pos /\ n \in Pos(Built(e).man) /\ n \in Nat
      /\ Len(e.pos) \in Nat
  BY SeqShape DEF Open
<1>2. /\ Shape(m) /\ Wired(m) /\ DOMAIN m.obj = DOMAIN Built(e).man.obj /\ SameLists(Built(e).man, m)
      /\ \A j \in DOMAIN m.obj :
            /\ SameData(Built(e).man, m, j)
            /\ m.obj[j].fanins = IF j \in NumPi + 1 .. NumPi + k THEN <<Driver(e, j - NumPi)>>
                                 ELSE Built(e).man.obj[j].fanins
  BY DEF ConnectInv
<1>3. n \in DOMAIN m.obj /\ n \notin NumPi + 1 .. NumPi + k
  BY <1>1, <1>2 DEF Pos
<1>4. Built(e).man.obj[n].fanins = <<>>
  <2>1. Shape(Built(e).man) /\ TypedAs(Built(e).man, 0) /\ n \in DOMAIN Built(e).man.obj /\ Built(e).man.obj[n].type = "po"
    BY <1>1 DEF Open, NetworkAs, Pos
  <2>2. Len(Built(e).man.obj[n].fanins) = 0 /\ IsSeq(Built(e).man.obj[n].fanins)
    BY <2>1, ShapeObject DEF TypedAs
  <2> QED BY <2>2, SeqShape
<1>5. m.obj[n].fanins = <<>> /\ Fanins(m, n) = {}
  <2>1. m.obj[n].fanins = <<>>
    BY <1>2, <1>3, <1>4
  <2> QED BY <2>1 DEF Fanins, ToSet
<1>6. l \in Nat /\ Regular(l) \in Objs(m)
  <2>1. Objs(m) = Objs(Built(e).man)
    BY <1>2 DEF Objs, SameData
  <2> QED BY <1>1, <2>1 DEF Open, Alive
<1> HIDE DEF l
<1>7. /\ Shape(q) /\ Wired(q) /\ DOMAIN q.obj = DOMAIN m.obj /\ SameLists(m, q)
      /\ \A j \in DOMAIN m.obj : SameData(m, q, j)
      /\ \A j \in DOMAIN m.obj \ {n} : q.obj[j].fanins = m.obj[j].fanins
      /\ q.obj[n].fanins = Append(m.obj[n].fanins, l)
  <2>1. q = AddFanin(m, n, l)
    BY DEF ConnectStep, l
  <2> HIDE DEF q, n
  <2> QED BY <1>2, <1>3, <1>5, <1>6, <2>1, AddFaninEdges
<1> HIDE DEF q
<1>8. q.obj[n].fanins = <<l>>
  <2>1. Append(<<>>, l) = <<l>>
    OBVIOUS
  <2> QED BY <1>5, <1>7, <2>1
<1>9. l = Driver(e, n - NumPi)
  BY <1>1 DEF l
<1>10. ASSUME NEW j \in DOMAIN q.obj
       PROVE  /\ SameData(Built(e).man, q, j)
              /\ q.obj[j].fanins = IF j \in NumPi + 1 .. NumPi + (k + 1) THEN <<Driver(e, j - NumPi)>>
                                   ELSE Built(e).man.obj[j].fanins
  <2>1. SameData(Built(e).man, q, j)
    BY <1>2, <1>7 DEF SameData
  <2>2. CASE j = n
    <3>1. n \in NumPi + 1 .. NumPi + (k + 1)
      BY <1>1
    <3> HIDE DEF n
    <3> QED BY <1>8, <1>9, <2>1, <2>2, <3>1
  <2>3. CASE j # n
    <3>1. j \in NumPi + 1 .. NumPi + (k + 1) <=> j \in NumPi + 1 .. NumPi + k
      BY <1>1, <2>3
    <3> HIDE DEF n
    <3> QED BY <1>2, <1>7, <2>1, <2>3, <3>1
  <2> QED BY <2>2, <2>3
<1>11. SameLists(Built(e).man, q)
  BY <1>2, <1>7 DEF SameLists
<1> QED BY <1>2, <1>7, <1>10, <1>11 DEF ConnectInv, q

\* With its outputs connected, the manager is a network.
LEMMA ConnectedNetwork ==
  ASSUME NEW e, Open(e), NEW m, ConnectInv(e, Len(e.pos), m)
  PROVE  Network(m)
<1>1. /\ Shape(m) /\ Wired(m) /\ DOMAIN m.obj = DOMAIN Built(e).man.obj /\ SameLists(Built(e).man, m)
      /\ \A n \in DOMAIN m.obj :
            /\ SameData(Built(e).man, m, n)
            /\ m.obj[n].fanins = IF n \in Pos(Built(e).man) THEN <<Driver(e, n - NumPi)>>
                                 ELSE Built(e).man.obj[n].fanins
  BY DEF ConnectInv, Open
<1>2. NetworkAs(Built(e).man, 0) /\ Shape(Built(e).man) /\ Wired(Built(e).man) /\ TypedAs(Built(e).man, 0)
  BY DEF Open, NetworkAs
<1>3. Ands(m) = Ands(Built(e).man) /\ Size(m) = Size(Built(e).man)
  BY <1>1 DEF Ands, Size, SameData
<1>4. \A n \in Ands(m) : n \notin Pos(Built(e).man) /\ n \in DOMAIN m.obj /\ m.obj[n].fanins = Built(e).man.obj[n].fanins
  BY <1>1, <1>3 DEF Ands, Pos
<1>5. Typed(m)
  <2>1. ASSUME NEW n \in DOMAIN m.obj
        PROVE  /\ m.obj[n].type = "const1" <=> n = 0
               /\ m.obj[n].type = "pi" <=> n \in 1 .. NumPi
               /\ m.obj[n].type = "and" => Len(m.obj[n].fanins) = 2
               /\ m.obj[n].type = "po" => Len(m.obj[n].fanins) = 1
               /\ m.obj[n].type \notin {"and", "po"} => Len(m.obj[n].fanins) = 0
    <3>1. m.obj[n].type = Built(e).man.obj[n].type /\ n \in DOMAIN Built(e).man.obj
      BY <1>1 DEF SameData
    <3>2. CASE n \in Pos(Built(e).man)
      <4>1. m.obj[n].type = "po" /\ m.obj[n].fanins = <<Driver(e, n - NumPi)>>
        BY <1>1, <3>1, <3>2 DEF Pos
      <4>2. Len(m.obj[n].fanins) = 1
        BY <4>1
      <4> QED BY <1>2, <3>1, <4>1, <4>2 DEF TypedAs
    <3>3. CASE n \notin Pos(Built(e).man)
      BY <1>1, <1>2, <3>1, <3>3 DEF TypedAs, Pos
    <3> QED BY <3>2, <3>3
  <2> QED BY <1>2, <1>3, <2>1 DEF Typed, TypedAs
<1>6. Canonical(m)
  <2>1. m.table = Ands(m)
    BY <1>1, <1>2, <1>3 DEF NetworkAs, Canonical, SameLists
  <2> QED BY <1>2, <1>3, <1>4, <2>1 DEF NetworkAs, Canonical
<1>7. ASSUME NEW n \in Ands(m) PROVE m.obj[n].exor = IsExorType(m, n)
  <2> DEFINE c == m.obj[n].fanins
             a == m.obj[Regular(c[1])].fanins
             b == m.obj[Regular(c[2])].fanins
             a0 == Built(e).man.obj[Regular(c[1])].fanins
             b0 == Built(e).man.obj[Regular(c[2])].fanins
  <2>1. /\ c = Built(e).man.obj[n].fanins /\ m.obj[n].type = Built(e).man.obj[n].type
        /\ m.obj[n].exor = Built(e).man.obj[n].exor /\ n \in Ands(Built(e).man) /\ n \in DOMAIN m.obj
    BY <1>1, <1>3, <1>4 DEF SameData
  <2>2. Regular(c[1]) \in DOMAIN m.obj /\ Regular(c[2]) \in DOMAIN m.obj
    BY <1>1, <1>2, <2>1, ChildrenAs DEF Objs
  <2>3. ASSUME NEW k \in DOMAIN m.obj
        PROVE  m.obj[k].fanins = Built(e).man.obj[k].fanins
               \/ (Len(m.obj[k].fanins) # 2 /\ Len(Built(e).man.obj[k].fanins) # 2)
    <3>1. CASE k \in Pos(Built(e).man)
      <4>0. m.obj[k].fanins = <<Driver(e, k - NumPi)>>
        BY <1>1, <3>1
      <4>1. Len(m.obj[k].fanins) = 1
        BY <4>0
      <4>2. Len(Built(e).man.obj[k].fanins) = 0
        BY <1>2, <3>1 DEF Pos, TypedAs
      <4> QED BY <4>1, <4>2
    <3>2. CASE k \notin Pos(Built(e).man)
      BY <1>1, <3>2
    <3> QED BY <3>1, <3>2
  <2>4. /\ a = a0 \/ (Len(a) # 2 /\ Len(a0) # 2)
        /\ b = b0 \/ (Len(b) # 2 /\ Len(b0) # 2)
    BY <2>2, <2>3
  <2>5. IsExorType(m, n) <=> /\ m.obj[n].type = "and" /\ Compl(c[1]) = 1 /\ Compl(c[2]) = 1
                             /\ Len(a) = 2 /\ Len(b) = 2 /\ \A i \in 1 .. 2 : b[i] = NotCond(a[i], 1)
    BY DEF IsExorType
  <2>6. IsExorType(Built(e).man, n) <=> /\ m.obj[n].type = "and" /\ Compl(c[1]) = 1 /\ Compl(c[2]) = 1
                                 /\ Len(a0) = 2 /\ Len(b0) = 2 /\ \A i \in 1 .. 2 : b0[i] = NotCond(a0[i], 1)
    BY <2>1 DEF IsExorType
  <2> HIDE DEF a, b, a0, b0
  <2>7. IsExorType(m, n) = IsExorType(Built(e).man, n)
    BY <2>4, <2>5, <2>6, ExorBoolean
  <2> QED BY <1>2, <2>1, <2>7 DEF NetworkAs, ExorOK
<1> QED BY <1>1, <1>5, <1>6, <1>7 DEF Network, ExorOK

\* Every netlist gives a network.
LEMMA StrashedNetwork ==
  ASSUME NEW net \in Netlists
  PROVE  /\ Network(Strashed(net)) /\ Idle(Strashed(net))
         /\ Pos(Strashed(net)) = NumPi + 1 .. NumPi + Len(net.pos) /\ Len(net.pos) \in Nat
<1> DEFINE m == StartMan(net)
           N == Len(net.ands)
           P == Len(net.pos)
           start == [man |-> m, results |-> <<>>]
           b == Built(net)
           w == UpTo(P)
           q == ConnectFold!Result(net, b.man, w)[Len(w)]
<1>1. /\ NumPi \in Nat /\ N \in Nat /\ P \in Nat /\ net.pos \in Seq(Nat) /\ IsSeq(net.pos)
      /\ \A i \in DOMAIN net.pos : Regular(net.pos[i]) <= NumPi + N
  BY AigAssumption, NetlistsAssumption, SeqIs
<1>2. Strashed(net) = q
  BY DEF Strashed, Each, Runs, Built, BuildFold!Result, BuildStep, ConnectFold!Result, ConnectStep,
         Driver, StartMan, StartObjs
<1>3. /\ NetworkAs(m, 0) /\ Idle(m) /\ DOMAIN m.obj = 0 .. NumPi + P
      /\ \A n \in DOMAIN m.obj : m.obj[n].type = IF n = 0 THEN "const1"
                                                 ELSE IF n <= NumPi THEN "pi" ELSE "po"
  BY StartNetwork
<1>4. BuildInv(m, 0, start)
  <2>1. start.man = m /\ start.results = <<>>
    OBVIOUS
  <2>2. Grown(m, m)
    BY DEF Grown, SameData
  <2>3. <<>> \in Seq(Nat) /\ Len(<<>>) = 0 /\ \A i \in DOMAIN <<>> : FALSE
    BY EmptySeq
  <2> HIDE DEF m, start
  <2> QED BY <1>3, <2>1, <2>2, <2>3 DEF BuildInv
<1>5. BuildInv(m, N, b)
  <2>1. \A k \in 0 .. N - 1 : \A p : BuildInv(m, k, p) => BuildInv(m, k + 1, BuildStep(m, p, net.ands[k + 1]))
    BY BuildKeeps
  <2>2. b = BuildFold!Result(m, start, net.ands)[N]
    BY DEF Built
  <2> HIDE DEF m, start, b
  <2>3. \A k \in 0 .. N : BuildInv(m, k, BuildFold!Result(m, start, net.ands)[k])
    BY <1>1, <1>4, <2>1, BuildFold!Kept
  <2> QED BY <1>1, <2>2, <2>3
<1>6. /\ NetworkAs(b.man, 0) /\ Grown(m, b.man) /\ b.results \in Seq(Nat)
      /\ Len(b.results) = N /\ \A i \in DOMAIN b.results : Alive(b.man, b.results[i])
  BY <1>5 DEF BuildInv
<1> HIDE DEF m, q
<1>7. Pos(b.man) = NumPi + 1 .. NumPi + P
  <2>1. \A n \in 0 .. NumPi + P : n \in DOMAIN b.man.obj
                                   /\ (b.man.obj[n].type = "po" <=> n > NumPi)
    <3> SUFFICES ASSUME NEW n \in 0 .. NumPi + P
                 PROVE  n \in DOMAIN b.man.obj /\ (b.man.obj[n].type = "po" <=> n > NumPi)
      OBVIOUS
    <3>1. n \in DOMAIN m.obj /\ (m.obj[n].type = "po" <=> n > NumPi)
      BY <1>1, <1>3
    <3> HIDE DEF b
    <3> QED BY <1>6, <3>1 DEF Grown, SameData
  <2>2. \A n \in Pos(b.man) : n \in 0 .. NumPi + P
    BY <1>1, <1>3, <1>6 DEF Grown, Pos
  <2> QED BY <1>1, <2>1, <2>2 DEF Pos
<1>8. \A n \in 0 .. NumPi : n \in Objs(b.man)
  <2>1. NumPi < Size(b.man) /\ Shape(b.man) /\ TypedAs(b.man, 0)
    BY <1>6 DEF NetworkAs, TypedAs
  <2> QED BY <1>1, <2>1 DEF TypedAs, Shape, Objs
<1>9. Open(net)
  <2>1. ASSUME NEW i \in DOMAIN net.pos PROVE Alive(b.man, Driver(net, i))
    <3>1. net.pos[i] \in Nat /\ Regular(net.pos[i]) <= NumPi + Len(b.results)
      BY <1>1, <1>6
    <3> QED BY <1>1, <1>6, <1>8, <3>1, OperandAlive DEF Driver
  <2> QED BY <1>1, <1>6, <1>7, <2>1 DEF Open
<1>10. ConnectInv(net, 0, b.man)
  <2>1. \A n \in DOMAIN b.man.obj : n \notin NumPi + 1 .. NumPi + 0
    BY <1>1
  <2> QED BY <1>6, <2>1 DEF ConnectInv, NetworkAs, SameLists, SameData
<1>11. ConnectInv(net, P, q)
  <2>1. Len(w) = P /\ \A i \in 1 .. P : w[i] = i
    BY <1>1, UpToSeq
  <2> HIDE DEF w
  <2>2. \A k \in 0 .. P - 1 : w[k + 1] = k + 1
    BY <1>1, <2>1
  <2>3. \A k \in 0 .. P - 1 : \A p : ConnectInv(net, k, p) => ConnectInv(net, k + 1, ConnectStep(net, p, w[k + 1]))
    BY <1>9, <2>2, ConnectKeeps
  <2> HIDE DEF b
  <2>4. \A k \in 0 .. Len(w) : ConnectInv(net, k, ConnectFold!Result(net, b.man, w)[k])
    BY <1>1, <1>10, <2>1, <2>3, ConnectFold!Kept
  <2> QED BY <1>1, <2>1, <2>4 DEF q
<1>12. Network(q)
  BY <1>9, <1>11, ConnectedNetwork
<1>13. Idle(q)
  BY <1>3, <1>6, <1>11 DEF Idle, Grown, ConnectInv, SameLists
<1>14. Pos(q) = NumPi + 1 .. NumPi + P
  BY <1>7, <1>11 DEF ConnectInv, Pos, SameData
<1> QED BY <1>1, <1>2, <1>12, <1>13, <1>14

-----------------------------------------------------------------------------
(* The steps of a session. *)

\* With nothing in the stack and the lists a network is a manager.
LEMMA IdleManager ==
  ASSUME NEW m, Network(m), Idle(m)
  PROVE  Manager(m) /\ Quiet(m)
<1>1. IsSeq(<<>>) /\ ToSet(<<>>) = {} /\ IsInjective(<<>>)
  BY EmptySeq DEF IsSeq, ToSet, IsInjective
<1>2. Queue(m)
  BY <1>1 DEF Idle, Queue
<1>3. LevelsOK(m) /\ LevelsROK(m)
  BY <1>1 DEF Idle, LevelsOK, LevelsROK, ListOK
<1> QED BY <1>2, <1>3 DEF Manager, Idle, Quiet

\* The start of a command: cleanup, levels, reverse levels.
LEMMA BeginKeeps ==
  ASSUME NEW m, Manager(m), Idle(m)
  PROVE  /\ Manager(Cleanup(m)) /\ Idle(Cleanup(m))
         /\ Manager(ReverseLevelled(Levelled(Cleanup(m)))) /\ Idle(ReverseLevelled(Levelled(Cleanup(m))))
<1> DEFINE a == Cleanup(m)
           b == Levelled(a)
           c == ReverseLevelled(b)
<1>1. Manager(a) /\ Idle(a)
  BY CleanupKeeps, FewerKept
<1> HIDE DEF a
<1>2. SameGraph(a, b) /\ b.stack = a.stack /\ b.vLevels = a.vLevels /\ b.vLevelsR = a.vLevelsR
  BY <1>1, LevelledSame DEF Manager, Network
<1>3. Manager(b) /\ Idle(b)
  BY <1>1, <1>2, LevelsFree
<1> HIDE DEF b
<1>4. SameGraph(b, c) /\ c.stack = b.stack /\ c.vLevels = b.vLevels /\ c.vLevelsR = b.vLevelsR
  BY <1>3, ReverseLevelledSame DEF Manager, Network
<1>5. Manager(c) /\ Idle(c)
  BY <1>3, <1>4, LevelsFree
<1> QED BY <1>1, <1>5 DEF a, b, c

\* The end of a command: new Ids, and levels.
LEMMA EndKeeps ==
  ASSUME NEW m, Manager(m), Idle(m)
  PROVE  /\ Manager(ReassignIds(m)) /\ Idle(ReassignIds(m))
         /\ Manager(Levelled(ReassignIds(m))) /\ Idle(Levelled(ReassignIds(m)))
<1> DEFINE a == ReassignIds(m)
           b == Levelled(a)
<1>1. Network(a) /\ Idle(a)
  BY ReassignIdsKeeps DEF Manager, Idle
<1>2. Manager(a)
  BY <1>1, IdleManager
<1> HIDE DEF a
<1>3. SameGraph(a, b) /\ b.stack = a.stack /\ b.vLevels = a.vLevels /\ b.vLevelsR = a.vLevelsR
  BY <1>2, LevelledSame DEF Manager, Network
<1>4. Manager(b) /\ Idle(b)
  BY <1>1, <1>2, <1>3, LevelsFree
<1> QED BY <1>1, <1>2, <1>4 DEF a, b

RootOf(m, g) == Manager(g.man) /\ Alive(g.man, g.lit) /\ Grown(m, g.man)

GraphStep(e, graphs, i) == WithAnd(graphs, i)
GraphInv(e, k, graphs) == \A g \in graphs : RootOf(e, g)
GraphFold == INSTANCE Folding WITH Op <- GraphStep, Inv <- GraphInv

\* Both literals of an object lead to something that is there.
LEMMA LiteralsAlive ==
  ASSUME NEW m, Shape(m), NEW n \in Objs(m), NEW c \in {0, 1}
  PROVE  Alive(m, Lit(n, c))
<1>1. n \in Nat
  BY ShapeObject DEF Objs
<1>2. 0 \in Nat
  OBVIOUS
<1>3. Lit(n, c) \in Nat /\ Regular(Lit(n, c)) = n
  BY <1>1, <1>2, Regulars
<1> QED BY <1>3 DEF Alive

\* One more node of a graph, on what the ones before it left.
LEMMA AndRoot ==
  ASSUME NEW e, NEW g, RootOf(e, g), NEW p \in Literals(g.man) \X Literals(g.man)
  PROVE  RootOf(e, And(g.man, p[1], p[2]))
<1> DEFINE m == g.man
           r == And(m, p[1], p[2])
<1>1. Manager(m) /\ Grown(e, m)
  BY DEF RootOf
<1>2. Network(m) /\ Shape(m)
  BY <1>1 DEF Manager, Network
<1>3. Alive(m, p[1]) /\ Alive(m, p[2])
  BY <1>2, LiteralsAlive DEF Literals
<1> HIDE DEF m
<1>4. Network(r.man) /\ Alive(r.man, r.lit) /\ Grown(m, r.man)
  BY <1>2, <1>3, AndKeeps
<1>5. Manager(r.man)
  BY <1>1, <1>4, GrownManager DEF Manager
<1> HIDE DEF r
<1>6. RootOf(e, r)
  BY <1>1, <1>4, <1>5, GrownTransitive DEF RootOf
<1> QED BY <1>6 DEF r, m

\* Dec_GraphToNetwork leaves a manager with a literal that is there, whatever
\* the graph and however many of its nodes are new.
LEMMA NewRootsKeep ==
  ASSUME NEW m, Manager(m), NEW g \in NewRoots(m)
  PROVE  Manager(g.man) /\ Alive(g.man, g.lit) /\ Grown(m, g.man)
<1> DEFINE leaves == {[lit |-> Lit(n, 0), man |-> m] : n \in Objs(m) \ Pos(m)}
           s == UpTo(MaxGraph)
<1>1. Len(s) \in Nat
  BY AigAssumption DEF UpTo
<1>2. NewRoots(m) = GraphFold!Result(m, leaves, s)[Len(s)]
  BY DEF NewRoots, Each, Runs, GraphFold!Result, GraphStep
<1>3. GraphInv(m, 0, leaves)
  <2> SUFFICES ASSUME NEW n \in Objs(m) \ Pos(m) PROVE RootOf(m, [lit |-> Lit(n, 0), man |-> m])
    BY DEF GraphInv
  <2>1. Shape(m)
    BY DEF Manager, Network
  <2>2. Alive(m, Lit(n, 0))
    BY <2>1, LiteralsAlive
  <2>3. Grown(m, m)
    BY DEF Grown, SameData
  <2> QED BY <2>2, <2>3 DEF RootOf
<1>4. ASSUME NEW k \in 0 .. Len(s) - 1, NEW graphs, GraphInv(m, k, graphs)
      PROVE  GraphInv(m, k + 1, GraphStep(m, graphs, s[k + 1]))
  <2> SUFFICES ASSUME NEW h \in WithAnd(graphs, s[k + 1]) PROVE RootOf(m, h)
    BY DEF GraphInv, GraphStep
  <2>1. \A f \in graphs : RootOf(m, f)
    BY <1>4 DEF GraphInv
  <2>2. CASE h \in graphs
    BY <2>1, <2>2
  <2>3. CASE h \notin graphs
    <3>1. PICK f \in graphs : \E p \in Literals(f.man) \X Literals(f.man) : h = And(f.man, p[1], p[2])
      BY <2>3 DEF WithAnd
    <3>2. PICK p \in Literals(f.man) \X Literals(f.man) : h = And(f.man, p[1], p[2])
      BY <3>1
    <3> QED BY <2>1, <3>2, AndRoot
  <2> QED BY <2>2, <2>3
<1> HIDE DEF leaves, s
<1>5. \A k \in 0 .. Len(s) : GraphInv(m, k, GraphFold!Result(m, leaves, s)[k])
  BY <1>1, <1>3, <1>4, GraphFold!Kept
<1> QED BY <1>1, <1>2, <1>5 DEF GraphInv, RootOf

\* Abc_AigReplace begins with one entry in its stack.
LEMMA UpdateKeeps ==
  ASSUME NEW m, Manager(m), Quiet(m), NEW g \in NewRoots(m), NEW root \in Ands(m), NEW c \in {0, 1}
  PROVE  LET q == [g.man EXCEPT !.stack = <<[old |-> root, new |-> NotCond(g.lit, c)]>>]
         IN  Manager(q) /\ Quiet(q)
<1> DEFINE l == NotCond(g.lit, c)
           e == [old |-> root, new |-> l]
           q == [g.man EXCEPT !.stack = <<e>>]
<1>1. Manager(g.man) /\ Alive(g.man, g.lit) /\ Grown(m, g.man)
  BY NewRootsKeep
<1>2. Network(g.man) /\ Shape(g.man) /\ LevelsOK(g.man) /\ LevelsROK(g.man)
  BY <1>1 DEF Manager, Network
<1>3. Alive(g.man, l) /\ root \in DOMAIN g.man.obj
  <2>1. g.lit \in Nat /\ Regular(g.lit) \in Objs(g.man)
    BY <1>1 DEF Alive
  <2>2. 0 \in Nat
    OBVIOUS
  <2>3. l \in Nat /\ Regular(l) = Regular(g.lit)
    BY <2>1, <2>2, Regulars
  <2>4. root \in DOMAIN g.man.obj
    BY <1>1 DEF Grown, Ands
  <2> QED BY <2>1, <2>3, <2>4 DEF Alive
<1>4. e.old = root /\ e.new = l /\ IsSeq(<<e>>) /\ ToSet(<<e>>) = {e}
  <2>1. e.old = root /\ e.new = l
    OBVIOUS
  <2> HIDE DEF e
  <2>2. <<e>> \in Seq({e}) /\ ToSet(<<e>>) = {e}
    BY DEF ToSet
  <2> QED BY <2>1, <2>2, SeqIs
<1> HIDE DEF e, l
<1>5. /\ DOMAIN q = DOMAIN g.man /\ q.obj = g.man.obj /\ q.table = g.man.table /\ q.stack = <<e>>
      /\ q.vLevels = g.man.vLevels /\ q.vLevelsR = g.man.vLevelsR
  BY <1>2 DEF Shape
<1> HIDE DEF q
<1>6. Network(q) /\ Ands(q) = Ands(g.man) /\ Objs(q) = Objs(g.man) /\ \A x : Alive(q, x) <=> Alive(g.man, x)
  BY <1>2, <1>5, SameObjects
<1>7. Queue(q)
  BY <1>3, <1>4, <1>5, <1>6 DEF Queue
<1>8. LevelsOK(q) /\ LevelsROK(q)
  BY <1>2, <1>5, <1>6 DEF LevelsOK, LevelsROK
<1>9. Quiet(q)
  BY <1>1, <1>5 DEF Quiet, Grown
<1> QED BY <1>6, <1>7, <1>8, <1>9 DEF Manager, q, e, l

-----------------------------------------------------------------------------
(* The inductive invariant. *)

AigInv ==
    /\ Manager(man) /\ Quiet(man)
    /\ fUpdateLevel \in BOOLEAN
    /\ pc \in {"command", "loop", "replace", "level", "levelR", "abort"}
    /\ pc # "replace" => man.stack = <<>>
    /\ pc \in {"command", "loop"} => Idle(man)
    /\ pc \in {"level", "levelR"} => fUpdateLevel
    /\ pc = "levelR" => man.vLevels = <<>>

\* The networks a session starts from satisfy the invariant.
LEMMA InitInvariant == Init => AigInv
<1> SUFFICES ASSUME Init PROVE AigInv
  OBVIOUS
<1>1. PICK net \in Netlists : man = Strashed(net)
  BY DEF Init
<1>2. Network(man) /\ Idle(man)
  BY <1>1, StrashedNetwork
<1>3. Manager(man) /\ Quiet(man)
  BY <1>2, IdleManager
<1>4. fUpdateLevel \in BOOLEAN
  BY AigAssumption DEF Init
<1> QED BY <1>2, <1>3, <1>4 DEF Init, AigInv, Idle

\* Each step of a command keeps the invariant.
LEMMA NextInvariant == AigInv /\ [Next]_vars => AigInv'
<1> SUFFICES ASSUME AigInv, [Next]_vars PROVE AigInv'
  OBVIOUS
<1>0. /\ Manager(man) /\ Quiet(man) /\ fUpdateLevel \in BOOLEAN
      /\ pc \in {"command", "loop", "replace", "level", "levelR", "abort"}
      /\ pc # "replace" => man.stack = <<>>
      /\ pc \in {"command", "loop"} => Idle(man)
      /\ pc \in {"level", "levelR"} => fUpdateLevel
      /\ pc = "levelR" => man.vLevels = <<>>
  BY DEF AigInv
<1> SUFFICES /\ Manager(man') /\ (fUpdateLevel' \/ (man'.vLevels = <<>> /\ man'.vLevelsR = <<>>))
             /\ fUpdateLevel' \in BOOLEAN
             /\ pc' \in {"command", "loop", "replace", "level", "levelR", "abort"}
             /\ pc' # "replace" => man'.stack = <<>>
             /\ pc' \in {"command", "loop"} => Idle(man')
             /\ pc' \in {"level", "levelR"} => fUpdateLevel'
             /\ pc' = "levelR" => man'.vLevels = <<>>
  BY DEF AigInv, Quiet
<1>1. CASE BeginCommand
  <2>1. Manager(man') /\ Idle(man')
    BY <1>0, <1>1, BeginKeeps DEF BeginCommand
  <2>2. pc' = "loop" /\ fUpdateLevel' = fUpdateLevel
    BY <1>1 DEF BeginCommand
  <2> QED BY <1>0, <2>1, <2>2 DEF Idle
<1>2. CASE UpdateNetwork
  <2>1. PICK root \in Ands(man), g \in NewRoots(man), c \in {0, 1} :
             man' = [g.man EXCEPT !.stack = <<[old |-> root, new |-> NotCond(g.lit, c)]>>]
    BY <1>2 DEF UpdateNetwork
  <2>2. Manager(man') /\ Quiet(man')
    BY <1>0, <2>1, UpdateKeeps
  <2>3. pc' = "replace" /\ fUpdateLevel' = fUpdateLevel
    BY <1>2 DEF UpdateNetwork
  <2> QED BY <1>0, <2>2, <2>3 DEF Quiet
<1>3. CASE Replace
  <2>1. man' = Turn(man) /\ man.stack # <<>> /\ pc' = "replace" /\ fUpdateLevel' = fUpdateLevel
    BY <1>3 DEF Replace
  <2>2. Manager(man') /\ Quiet(man')
    BY <1>0, <2>1, TurnKeeps
  <2> QED BY <1>0, <2>1, <2>2 DEF Quiet
<1>4. CASE Replaced
  <2>1. man' = man /\ man.stack = <<>> /\ fUpdateLevel' = fUpdateLevel
        /\ pc' = IF fUpdateLevel THEN "level" ELSE "loop"
    BY <1>4 DEF Replaced
  <2> QED BY <1>0, <2>1 DEF Quiet, Idle
<1>5. CASE UpdateLevel
  <2>1. PICK d \in DOMAIN man.vLevels : man' = UpdateNode(man, man.vLevels[d])
    BY <1>5 DEF UpdateLevel
  <2>2. pc = "level" /\ pc' = pc /\ fUpdateLevel' = fUpdateLevel
    BY <1>5 DEF UpdateLevel
  <2>3. man.vLevels[d] \in ToSet(man.vLevels)
    BY <2>1 DEF ToSet
  <2>4. Manager(man') /\ Relevelled(man, man')
    BY <1>0, <2>1, <2>3, UpdateNodeKeeps
  <2> QED BY <1>0, <2>2, <2>4 DEF Relevelled
<1>6. CASE Updated
  <2>1. man' = man /\ pc = "level" /\ pc' = "levelR" /\ man.vLevels = <<>> /\ fUpdateLevel' = fUpdateLevel
    BY <1>6 DEF Updated
  <2> QED BY <1>0, <2>1 DEF Quiet
<1>7. CASE UpdateLevelR
  <2>1. PICK d \in DOMAIN man.vLevelsR :
             IF man.obj[man.vLevelsR[d][2]].type = "and"
             THEN man' = UpdateNodeR(man, man.vLevelsR[d]) /\ UNCHANGED pc
             ELSE pc' = "abort" /\ UNCHANGED man
    BY <1>7 DEF UpdateLevelR
  <2>2. pc = "levelR" /\ fUpdateLevel' = fUpdateLevel
    BY <1>7 DEF UpdateLevelR
  <2>3. man.vLevelsR[d] \in ToSet(man.vLevelsR)
    BY <2>1 DEF ToSet
  <2>4. CASE man' = UpdateNodeR(man, man.vLevelsR[d]) /\ pc' = pc
    <3>1. Manager(man') /\ Relevelled(man, man') /\ man'.vLevels = man.vLevels
      BY <1>0, <2>3, <2>4, UpdateNodeRKeeps
    <3> QED BY <1>0, <2>2, <2>4, <3>1 DEF Relevelled
  <2>5. CASE pc' = "abort" /\ man' = man
    BY <1>0, <2>2, <2>5 DEF Quiet
  <2> QED BY <2>1, <2>4, <2>5
<1>8. CASE UpdatedR
  <2>1. /\ man' = man /\ pc = "levelR" /\ pc' = "loop" /\ man.vLevelsR = <<>>
        /\ fUpdateLevel' = fUpdateLevel
    BY <1>8 DEF UpdatedR
  <2> QED BY <1>0, <2>1 DEF Quiet, Idle
<1>9. CASE EndCommand
  <2>1. pc = "loop" /\ pc' = "command" /\ fUpdateLevel' = fUpdateLevel
        /\ man' = IF fUpdateLevel THEN ReassignIds(man) ELSE Levelled(ReassignIds(man))
    BY <1>9 DEF EndCommand
  <2>2. Manager(man') /\ Idle(man')
    BY <1>0, <2>1, EndKeeps
  <2> QED BY <1>0, <2>1, <2>2 DEF Idle
<1>10. CASE UNCHANGED vars
  BY <1>0, <1>10 DEF vars, Quiet
<1> QED BY <1>1, <1>2, <1>3, <1>4, <1>5, <1>6, <1>7, <1>8, <1>9, <1>10 DEF Next

\* For any inputs, networks and replacements, the invariant holds at every turn of every loop.
THEOREM AigInvariant == Spec => []AigInv
BY InitInvariant, NextInvariant, PTL DEF Spec

\* Objects have the fanins of their type and the table holds ANDs, however the graph is
\* rewritten, deleted and renumbered.
THEOREM AigTypeOK == Spec => []TypeOK
<1>1. AigInv => TypeOK
  <2> SUFFICES ASSUME AigInv PROVE TypeOK
    OBVIOUS
  <2>1. Shape(man) /\ Typed(man) /\ Canonical(man)
    BY DEF AigInv, Manager, Network
  <2>2. ASSUME NEW n \in DOMAIN man.obj
        PROVE  /\ man.obj[n].type \in {"const1", "pi", "po", "and", "none"}
               /\ Len(man.obj[n].fanins) = CASE man.obj[n].type = "and" -> 2
                                             [] man.obj[n].type = "po" -> 1 [] OTHER -> 0
    <3>1. man.obj[n].type \in {"const1", "pi", "po", "and", "none"}
      BY <2>1, ShapeObject DEF IsObject
    <3>2. /\ man.obj[n].type = "and" => Len(man.obj[n].fanins) = 2
          /\ man.obj[n].type = "po" => Len(man.obj[n].fanins) = 1
          /\ man.obj[n].type \notin {"and", "po"} => Len(man.obj[n].fanins) = 0
      BY <2>1 DEF Typed
    <3> QED BY <3>1, <3>2
  <2>3. man.table \subseteq Ands(man)
    BY <2>1 DEF Canonical
  <2> QED BY <2>2, <2>3 DEF TypeOK, AigInv
<1> QED BY <1>1, AigInvariant, PTL

\* At every turn of Abc_AigReplace and of the level updates the fanouts of an object are
\* exactly the objects that have it as a fanin, once each, and no edge leads to a deleted one.
THEOREM AigEdgesAgree == Spec => []EdgesAgree
<1>1. AigInv => EdgesAgree
  BY DEF AigInv, Manager, Network, Wired, EdgesAgree
<1> QED BY <1>1, AigInvariant, PTL

\* Each AND is in the table under ordered, different, non-constant children that no other AND
\* has (abcAig.c:28-31), while fanouts are merged and rewritten in place, and after rehashing.
THEOREM AigUniqueChildren == Spec => []UniqueChildren
<1>1. AigInv => UniqueChildren
  BY DEF AigInv, Manager, Network, Canonical, UniqueChildren
<1> QED BY <1>1, AigInvariant, PTL

\* What waits in the stack of Abc_AigReplace to take the place of a node is not deleted before
\* its turn, though deletions run through the fanins at each turn.
THEOREM AigReplacementAlive == Spec => []ReplacementAlive
<1>1. AigInv => ReplacementAlive
  BY DEF AigInv, Manager, Queue, Alive, Objs, ToSet, ReplacementAlive
<1> QED BY <1>1, AigInvariant, PTL

\* The EXOR status of every AND is that of its fanins at every turn of every loop (abcAig.c:35),
\* though it depends on the fanins of its fanins, which change in place.
THEOREM AigExorExact == Spec => []ExorExact
<1>1. AigInv => ExorExact
  BY DEF AigInv, Manager, Network, ExorOK, ExorExact
<1> QED BY <1>1, AigInvariant, PTL

\* A marked node is in its level list once, at the level it has, so Abc_AigRemoveFromLevelStructure
\* finds it; no deleted node is left in a list.
THEOREM AigMarksSound == Spec => []MarksSound
<1>1. AigInv => MarksSound
  <2> SUFFICES ASSUME AigInv PROVE MarksSound
    OBVIOUS
  <2>1. LevelsOK(man) /\ LevelsROK(man) /\ ListOK(man.vLevels) /\ ListOK(man.vLevelsR)
    BY DEF AigInv, Manager, LevelsOK, LevelsROK
  <2>2. /\ \A i \in DOMAIN man.vLevels : man.vLevels[i] \in ToSet(man.vLevels)
        /\ \A i \in DOMAIN man.vLevelsR : man.vLevelsR[i] \in ToSet(man.vLevelsR)
    BY DEF ToSet
  <2>3. ASSUME NEW i \in DOMAIN man.vLevels, NEW j \in DOMAIN man.vLevels,
               man.vLevels[i][2] = man.vLevels[j][2]
        PROVE  i = j
    BY <2>1, <2>2, <2>3 DEF ListOK, IsInjective
  <2>4. ASSUME NEW i \in DOMAIN man.vLevelsR, NEW j \in DOMAIN man.vLevelsR,
               man.vLevelsR[i][2] = man.vLevelsR[j][2]
        PROVE  i = j
    BY <2>1, <2>2, <2>4 DEF ListOK, IsInjective
  <2>5. \A i \in DOMAIN man.vLevels : man.obj[man.vLevels[i][2]].type = "and"
                                      /\ man.vLevels[i][1] = man.obj[man.vLevels[i][2]].level
    BY <2>1, <2>2 DEF LevelsOK, Ands
  <2>6. \A i \in DOMAIN man.vLevelsR : man.obj[man.vLevelsR[i][2]].type # "none"
                                       /\ man.vLevelsR[i][1] = man.obj[man.vLevelsR[i][2]].rlevel
    BY <2>1, <2>2 DEF LevelsROK, Objs
  <2> QED BY <2>3, <2>4, <2>5, <2>6 DEF MarksSound
<1> QED BY <1>1, AigInvariant, PTL

-----------------------------------------------------------------------------
(* What the nodes compute.  For one assignment of the inputs it is a set of *)
(* Ids: those of the nodes that are true.                                   *)

Holds(T, l) == (Regular(l) \in T) # (Compl(l) = 1)

\* T agrees with the inputs s, with the constant and with every node.
Satisfies(m, s, T) ==
    /\ 0 \in T
    /\ \A k \in 1 .. NumPi : k \in T <=> k \in s
    /\ \A k \in Ands(m) \cup Pos(m) : k \in T <=> \A l \in ToSet(m.obj[k].fanins) : Holds(T, l)

\* What is queued computes the same as the node it is to replace.
Waiting(m, T) ==
    \A x \in ToSet(m.stack) : x.old \in Objs(m) => (x.old \in T <=> Holds(T, x.new))

Model(m, s, T) == Satisfies(m, s, T) /\ Waiting(m, T)

\* No node and no output changes what it computes.
Preserves(m, q) == Pos(q) = Pos(m) /\ \A s, T : Model(m, s, T) => Model(q, s, T)

\* The same, if old and new compute the same.
Moves(m, q, old, new) ==
    /\ Pos(q) = Pos(m)
    /\ \A s, T : Model(m, s, T) /\ (old \in T <=> Holds(T, new)) => Model(q, s, T)

\* A literal and its complement.
LEMMA HoldsCond ==
  ASSUME NEW T, NEW l \in Nat, NEW c \in {0, 1}
  PROVE  Holds(T, NotCond(l, c)) <=> (Holds(T, l) # (c = 1))
<1>1. 0 \in Nat /\ Regular(NotCond(l, c)) = Regular(l) /\ Compl(NotCond(l, c)) = (Compl(l) + c) % 2
      /\ Compl(l) \in {0, 1}
  BY Regulars
<1>2. (Compl(l) + c) % 2 = 1 <=> ((Compl(l) = 1) # (c = 1))
  BY <1>1
<1>3. CASE Regular(l) \in T
  BY <1>1, <1>2, <1>3 DEF Holds
<1>4. CASE Regular(l) \notin T
  BY <1>1, <1>2, <1>4 DEF Holds
<1> QED BY <1>3, <1>4

\* The literals of a pair in order.
LEMMA OrderedHolds ==
  ASSUME NEW T, NEW l0, NEW l1
  PROVE  (\A l \in ToSet(Ordered(l0, l1)) : Holds(T, l)) <=> Holds(T, l0) /\ Holds(T, l1)
<1>1. ToSet(<<l0, l1>>) = {l0, l1} /\ ToSet(<<l1, l0>>) = {l0, l1}
  BY DEF ToSet
<1>2. ToSet(Ordered(l0, l1)) = {l0, l1}
  BY <1>1 DEF Ordered
<1> QED BY <1>2

\* An AND holds with its two children.
LEMMA AndHolds ==
  ASSUME NEW m, Network(m), NEW s, NEW T, Satisfies(m, s, T), NEW n \in Ands(m)
  PROVE  n \in T <=> Holds(T, m.obj[n].fanins[1]) /\ Holds(T, m.obj[n].fanins[2])
<1>1. m.obj[n].fanins = <<m.obj[n].fanins[1], m.obj[n].fanins[2]>>
  BY Children DEF Network
<1>2. ToSet(<<m.obj[n].fanins[1], m.obj[n].fanins[2]>>) = {m.obj[n].fanins[1], m.obj[n].fanins[2]}
  BY DEF ToSet
<1>3. ToSet(m.obj[n].fanins) = {m.obj[n].fanins[1], m.obj[n].fanins[2]}
  BY <1>1, <1>2
<1>4. n \in T <=> \A l \in ToSet(m.obj[n].fanins) : Holds(T, l)
  BY DEF Satisfies
<1> QED BY <1>3, <1>4

\* What Abc_AigAndLookup finds is the conjunction.
LEMMA LookupHolds ==
  ASSUME NEW m, Network(m), NEW s, NEW T, Satisfies(m, s, T), NEW l0, NEW l1, Alive(m, l0), Alive(m, l1),
         AndLookup(m, l0, l1) # NULL
  PROVE  Holds(T, AndLookup(m, l0, l1)) <=> Holds(T, l0) /\ Holds(T, l1)
<1> DEFINE r == AndLookup(m, l0, l1)
           not == NotCond(Const1, 1)
<1>1. l0 \in Nat /\ l1 \in Nat
  BY DEF Alive
<1>2. Holds(T, Const1) /\ ~ Holds(T, not)
  <2>1. Const1 \in Nat /\ Regular(Const1) = 0 /\ Compl(Const1) = 0
    BY DEF Const1, Lit, Regular, Compl
  <2>2. Holds(T, Const1)
    BY <2>1 DEF Holds, Satisfies
  <2> QED BY <2>1, <2>2, HoldsCond
<1>3. Holds(T, NotCond(l1, 1)) <=> ~ Holds(T, l1)
  <2>1. Holds(T, NotCond(l1, 1)) <=> (Holds(T, l1) # (1 = 1))
    BY <1>1, HoldsCond
  <2> QED BY <2>1 DEF Holds
<1>4. CASE l0 = l1
  <2>0. l0 # NotCond(l1, 1)
    <3>1. Compl(l0) \in {0, 1} /\ 0 \in Nat
      BY <1>1, Regulars
    <3>2. Compl(NotCond(l0, 1)) = (Compl(l0) + 1) % 2
      BY <1>1, Regulars
    <3> QED BY <1>4, <3>1, <3>2
  <2>1. r = l0
    BY <1>4, <2>0 DEF AndLookup
  <2> HIDE DEF r
  <2> QED BY <1>4, <2>1 DEF r
<1>5. CASE l0 # l1 /\ l0 = NotCond(l1, 1)
  BY <1>2, <1>3, <1>5 DEF AndLookup
<1> DEFINE Rest == l0 # l1 /\ l0 # NotCond(l1, 1)
<1>6. CASE Rest /\ l0 = Const1
  BY <1>2, <1>6 DEF AndLookup
<1>7. CASE Rest /\ l0 # Const1 /\ l1 = Const1
  BY <1>2, <1>7 DEF AndLookup
<1>8. CASE Rest /\ l0 # Const1 /\ l1 # Const1 /\ {l0, l1} \cap {not} # {}
  BY <1>2, <1>8 DEF AndLookup
<1>9. CASE Rest /\ l0 # Const1 /\ l1 # Const1 /\ {l0, l1} \cap {not} = {}
  <2>1. r = Hashed(m, l0, l1) /\ r # NULL
    BY <1>9 DEF AndLookup
  <2> DEFINE same == {n \in m.table : m.obj[n].fanins = Ordered(l0, l1)}
  <2>2. PICK n \in same : r = Lit(n, 0)
    BY <2>1 DEF Hashed
  <2>3. n \in Ands(m) /\ m.obj[n].fanins = Ordered(l0, l1)
    BY <2>2 DEF Network, Canonical
  <2>4. n \in Nat
    BY <2>3, ShapeObject DEF Network, Ands
  <2>5. Regular(r) = n /\ Compl(r) = 0
    BY <2>2, <2>4, Regulars
  <2>6. n \in T <=> \A l \in ToSet(Ordered(l0, l1)) : Holds(T, l)
    BY <2>3 DEF Satisfies
  <2> HIDE DEF r
  <2> QED BY <2>5, <2>6, OrderedHolds DEF Holds, r
<1> QED BY <1>4, <1>5, <1>6, <1>7, <1>8, <1>9

\* A literal over the node that replaces another holds as the one it takes the place of.
LEMMA MovedHolds ==
  ASSUME NEW T, NEW new \in Nat, NEW l \in Nat, Regular(l) \in T <=> Holds(T, new)
  PROVE  Holds(T, NotCond(new, Compl(l))) <=> Holds(T, l)
<1>1. 0 \in Nat /\ Compl(l) \in {0, 1}
  BY Regulars
<1>2. Holds(T, NotCond(new, Compl(l))) <=> (Holds(T, new) # (Compl(l) = 1))
  BY <1>1, HoldsCond
<1>3. Holds(T, l) <=> (Holds(T, new) # (Compl(l) = 1))
  BY DEF Holds
<1> QED BY <1>2, <1>3

\* Types and all fanins but those of f are as they were.
LEMMA PatchedModel ==
  ASSUME NEW m, NEW q, NEW f \in Ands(m) \cup Pos(m), Patched(m, q, f), ToSet(q.stack) \subseteq ToSet(m.stack),
         NEW s, NEW T, Model(m, s, T), f \in T <=> \A l \in ToSet(q.obj[f].fanins) : Holds(T, l)
  PROVE  Model(q, s, T)
<1>1. Ands(q) = Ands(m) /\ Pos(q) = Pos(m) /\ Objs(q) = Objs(m)
  BY DEF Patched, Ands, Pos, Objs
<1>2. Satisfies(q, s, T)
  <2>1. ASSUME NEW k \in Ands(m) \cup Pos(m) PROVE k \in T <=> \A l \in ToSet(q.obj[k].fanins) : Holds(T, l)
    <3>1. k \in DOMAIN m.obj
      BY DEF Ands, Pos
    <3>2. k \in T <=> \A l \in ToSet(m.obj[k].fanins) : Holds(T, l)
      BY DEF Model, Satisfies
    <3>3. CASE k = f
      BY <3>3
    <3>4. CASE k # f
      <4>1. q.obj[k].fanins = m.obj[k].fanins
        BY <3>1, <3>4 DEF Patched
      <4> QED BY <3>2, <4>1
    <3> QED BY <3>3, <3>4
  <2> QED BY <1>1, <2>1 DEF Model, Satisfies
<1>3. Waiting(q, T)
  BY <1>1 DEF Model, Waiting
<1> QED BY <1>2, <1>3 DEF Model

\* The fanins of an output.
LEMMA OneSeq ==
  ASSUME NEW S, NEW c \in Seq(S), Len(c) = 1
  PROVE  c[1] \in S /\ ToSet(c) = {c[1]}
<1>1. DOMAIN c = 1 .. 1 /\ c[1] \in S
  OBVIOUS
<1>2. DOMAIN c = {1}
  BY <1>1
<1> QED BY <1>1, <1>2 DEF ToSet

\* One fanout of Abc_AigReplace_int: an output, a node that is queued or one that is rewritten.
LEMMA ReplaceInMoves ==
  ASSUME NEW m, Manager(m), NEW f \in DOMAIN m.obj, NEW old, old \in Fanins(m, f), NEW new, Alive(m, new)
  PROVE  Moves(m, ReplaceIn(m, f, old, new), old, new)
<1> DEFINE q == ReplaceIn(m, f, old, new)
           c == m.obj[f].fanins
<1>1. /\ Network(m) /\ Shape(m) /\ Wired(m) /\ Typed(m) /\ Queue(m) /\ new \in Nat
  BY DEF Manager, Network, Alive
<1>2. m.obj[f].type \in {"and", "po"}
  <2>1. c # <<>>
    BY DEF Fanins, ToSet
  <2> QED BY <1>1, <2>1, TypedObject
<1>3. CASE m.obj[f].type = "po"
  <2>1. q = PatchOutput(m, f, old, new)
    BY <1>3 DEF ReplaceIn
  <2>2. /\ Patched(m, q, f) /\ q.stack = m.stack
        /\ q.obj[f].fanins = <<NotCond(new, Compl(c[1]))>>
    BY <1>3, <2>1, PatchOutputKeeps
  <2> HIDE DEF q
  <2>3. Pos(q) = Pos(m) /\ f \in Pos(m)
    BY <1>3, <2>2 DEF Patched, Pos
  <2>4. c[1] \in Nat /\ Regular(c[1]) = old /\ ToSet(c) = {c[1]}
    <3>1. c \in Seq(Nat) /\ Len(c) = 1
      BY <1>1, <1>3, ShapeObject DEF Typed, IsObject
    <3> HIDE DEF c
    <3>2. c[1] \in Nat /\ ToSet(c) = {c[1]}
      BY <3>1, OneSeq
    <3> QED BY <3>2 DEF Fanins, c
  <2> HIDE DEF c
  <2>5. ToSet(q.obj[f].fanins) = {NotCond(new, Compl(c[1]))}
    BY <2>2 DEF ToSet
  <2>6. ASSUME NEW s, NEW T, Model(m, s, T), old \in T <=> Holds(T, new) PROVE Model(q, s, T)
    <3>1. f \in T <=> Holds(T, c[1])
      <4>1. f \in T <=> \A l \in ToSet(m.obj[f].fanins) : Holds(T, l)
        BY <2>3, <2>6 DEF Model, Satisfies
      <4> QED BY <2>4, <4>1 DEF c
    <3>2. Holds(T, NotCond(new, Compl(c[1]))) <=> Holds(T, c[1])
      BY <1>1, <2>4, <2>6, MovedHolds
    <3>3. f \in T <=> \A l \in ToSet(q.obj[f].fanins) : Holds(T, l)
      BY <2>5, <3>1, <3>2
    <3> QED BY <2>2, <2>3, <2>6, <3>3, PatchedModel
  <2> QED BY <2>3, <2>6 DEF Moves, q
<1>4. CASE m.obj[f].type = "and"
  <2> DEFINE i == CHOOSE j \in 1 .. 2 : Regular(c[j]) = old
             l1 == NotCond(new, Compl(c[i]))
             l2 == c[3 - i]
             found == AndLookup(m, l1, l2)
             pushed == [m EXCEPT !.stack = Append(m.stack, [old |-> f, new |-> found])]
  <2>1. f \in Ands(m)
    BY <1>4 DEF Ands
  <2>2. /\ \A j \in 1 .. 2 : c[j] \in Nat /\ Regular(c[j]) \in Objs(m)
        /\ old \in {Regular(c[1]), Regular(c[2])}
    BY <1>1, <2>1, Children
  <2>3. i \in 1 .. 2 /\ Regular(c[i]) = old
    <3>1. \E j \in 1 .. 2 : Regular(c[j]) = old
      BY <2>2
    <3> QED BY <3>1
  <2> HIDE DEF i
  <2>4. Alive(m, l1) /\ Alive(m, l2) /\ c[i] \in Nat
    <3>1. Compl(c[i]) \in {0, 1}
      BY <2>2, <2>3 DEF Compl
    <3>2. l1 \in Nat /\ Regular(l1) = Regular(new)
      BY <3>1, Regulars DEF Alive
    <3>3. 3 - i \in 1 .. 2
      BY <2>3
    <3>4. Alive(m, l2)
      BY <2>2, <3>3 DEF Alive
    <3> QED BY <2>2, <2>3, <3>2, <3>4 DEF Alive
  <2>5. q = IF found # NULL THEN pushed ELSE Recreated(m, f, l1, l2)
    BY <1>4 DEF ReplaceIn, i
  <2>6. ASSUME NEW s, NEW T, Model(m, s, T), old \in T <=> Holds(T, new)
        PROVE  f \in T <=> Holds(T, l1) /\ Holds(T, l2)
    <3>1. f \in T <=> Holds(T, c[1]) /\ Holds(T, c[2])
      BY <1>1, <2>1, <2>6, AndHolds DEF Model
    <3>2. Holds(T, l1) <=> Holds(T, c[i])
      BY <1>1, <2>3, <2>4, <2>6, MovedHolds
    <3>3. f \in T <=> Holds(T, c[i]) /\ Holds(T, c[3 - i])
      <4>1. (i = 1 /\ 3 - i = 2) \/ (i = 2 /\ 3 - i = 1)
        BY <2>3
      <4> QED BY <3>1, <4>1
    <3> QED BY <3>2, <3>3
  <2> HIDE DEF l1, l2, q, c
  <2>7. CASE found = NULL
    <3>1. q = Recreated(m, f, l1, l2)
      BY <2>5, <2>7
    <3>2. Patched(m, q, f) /\ q.stack = m.stack /\ q.obj[f].fanins = Ordered(l1, l2)
      BY <2>1, <2>4, <2>7, <3>1, RecreatedKeeps
    <3>3. Pos(q) = Pos(m)
      BY <3>2 DEF Patched, Pos
    <3>4. ASSUME NEW s, NEW T, Model(m, s, T), old \in T <=> Holds(T, new) PROVE Model(q, s, T)
      <4>1. f \in T <=> \A l \in ToSet(q.obj[f].fanins) : Holds(T, l)
        BY <2>6, <3>2, <3>4, OrderedHolds
      <4> QED BY <2>1, <3>2, <3>4, <4>1, PatchedModel
    <3> QED BY <3>3, <3>4 DEF Moves, q
  <2>8. CASE found # NULL
    <3> DEFINE e == [old |-> f, new |-> found]
    <3>1. q = pushed
      BY <2>5, <2>8
    <3>2. ASSUME NEW s, NEW T, Model(m, s, T), old \in T <=> Holds(T, new) PROVE f \in T <=> Holds(T, found)
      <4>1. Holds(T, found) <=> Holds(T, l1) /\ Holds(T, l2)
        BY <1>1, <2>4, <2>8, <3>2, LookupHolds DEF Model
      <4> QED BY <2>6, <3>2, <4>1
    <3>3. e.old = f /\ e.new = found
      OBVIOUS
    <3> HIDE DEF e, found
    <3>4. ToSet(Append(m.stack, e)) = ToSet(m.stack) \cup {e}
      BY <1>1, AppendShape DEF Queue
    <3>5. q.obj = m.obj /\ q.stack = Append(m.stack, e)
      BY <1>1, <3>1 DEF Shape, e
    <3>6. Pos(q) = Pos(m) /\ Ands(q) = Ands(m) /\ Objs(q) = Objs(m)
      BY <3>5 DEF Pos, Ands, Objs
    <3>7. ASSUME NEW s, NEW T, Model(m, s, T), old \in T <=> Holds(T, new) PROVE Model(q, s, T)
      <4>1. Satisfies(q, s, T)
        BY <3>5, <3>6, <3>7 DEF Model, Satisfies
      <4>2. Waiting(q, T)
        BY <3>2, <3>3, <3>4, <3>5, <3>6, <3>7 DEF Model, Waiting
      <4> QED BY <4>1, <4>2 DEF Model
    <3> QED BY <3>6, <3>7 DEF Moves, q
  <2> QED BY <2>7, <2>8
<1> QED BY <1>2, <1>3, <1>4

\* Deleting ANDs that nothing else hangs on changes nothing for the others.
LEMMA ThinnedPreserves ==
  ASSUME NEW m, NEW q, Thinned(m, q), ToSet(q.stack) \subseteq ToSet(m.stack)
  PROVE  Preserves(m, q)
<1>1. Pos(q) = Pos(m) /\ Ands(q) \subseteq Ands(m) /\ Objs(q) \subseteq Objs(m)
  BY DEF Thinned, Pos, Ands, Objs
<1>2. \A k \in Ands(q) \cup Pos(q) : q.obj[k].fanins = m.obj[k].fanins
  BY DEF Thinned, Pos, Ands
<1>3. ASSUME NEW s, NEW T, Model(m, s, T) PROVE Model(q, s, T)
  <2>1. Satisfies(q, s, T)
    BY <1>1, <1>2, <1>3 DEF Model, Satisfies
  <2>2. Waiting(q, T)
    BY <1>1, <1>3 DEF Model, Waiting
  <2> QED BY <2>1, <2>2 DEF Model
<1> QED BY <1>1, <1>3 DEF Preserves

\* Levels and the lists have no part in it.
LEMMA SameGraphPreserves ==
  ASSUME NEW m, NEW q, SameGraph(m, q), q.stack = m.stack
  PROVE  Preserves(m, q)
<1>1. Thinned(m, q)
  BY DEF SameGraph, Thinned
<1> QED BY <1>1, ThinnedPreserves

MoveModel(e, k, q) == MoveInv(e, k, q) /\ Moves(e.man, q, e.old, e.new)
ModelFold == INSTANCE Folding WITH Op <- MoveStep, Inv <- MoveModel

\* All fanouts of the old node.
LEMMA MovedModel ==
  ASSUME NEW m, Manager(m), Quiet(m), NEW old \in DOMAIN m.obj, NEW new, Alive(m, new)
  PROVE  Moves(m, Each(LAMBDA p, f : ReplaceIn(p, f, old, new), m, m.obj[old].fanouts), old, new)
<1> DEFINE s == m.obj[old].fanouts
           e == [old |-> old, new |-> new, left |-> s, man |-> m]
           q == Each(LAMBDA p, f : ReplaceIn(p, f, old, new), m, s)
<1>1. e.old = old /\ e.new = new /\ e.left = s /\ e.man = m
  OBVIOUS
<1> HIDE DEF e
<1>2. Shape(m) /\ Wired(m)
  BY DEF Manager, Network
<1>3. /\ IsSeq(s) /\ IsInjective(s) /\ Len(s) \in Nat /\ DOMAIN s = 1 .. Len(s)
      /\ \A f \in ToSet(s) : f \in DOMAIN m.obj /\ old \in Fanins(m, f)
  BY <1>2, ShapeObject, SeqShape DEF Wired
<1>4. q = ModelFold!Result(e, m, s)[Len(s)]
  BY <1>1 DEF Each, Runs, ModelFold!Result, MoveStep
<1> HIDE DEF q, s
<1>5. MoveModel(e, 0, m)
  <2>1. MoveInv(e, 0, m)
    BY <1>1, <1>3 DEF MoveInv, ToSet
  <2>2. Moves(m, m, old, new)
    BY DEF Moves
  <2> QED BY <1>1, <2>1, <2>2 DEF MoveModel
<1>6. ASSUME NEW k \in 0 .. Len(s) - 1, NEW p, MoveModel(e, k, p)
      PROVE  MoveModel(e, k + 1, MoveStep(e, p, s[k + 1]))
  <2> DEFINE f == s[k + 1]
             r == MoveStep(e, p, f)
  <2>1. MoveInv(e, k, p) /\ Moves(m, p, old, new)
    BY <1>1, <1>6 DEF MoveModel
  <2>2. Manager(p) /\ Alive(p, new)
    BY <1>1, <2>1 DEF MoveInv
  <2>3. MoveInv(e, k + 1, r) /\ f \in DOMAIN p.obj /\ old \in Fanins(p, f)
    BY <1>1, <1>3, <2>1, MoveStepKeeps
  <2>4. r = ReplaceIn(p, f, old, new)
    BY <1>1 DEF MoveStep
  <2> HIDE DEF r, f
  <2>5. Moves(p, r, old, new)
    BY <2>2, <2>3, <2>4, ReplaceInMoves
  <2>6. Moves(m, r, old, new)
    BY <2>1, <2>5 DEF Moves
  <2> QED BY <1>1, <2>3, <2>6 DEF MoveModel, r, f
<1>7. \A k \in 0 .. Len(s) : MoveModel(e, k, ModelFold!Result(e, m, s)[k])
  BY <1>3, <1>5, <1>6, ModelFold!Kept
<1>8. MoveModel(e, Len(s), q)
  BY <1>3, <1>4, <1>7
<1> QED BY <1>1, <1>8 DEF MoveModel, q, s

\* One turn of the loop of Abc_AigReplace.
LEMMA TurnPreserves ==
  ASSUME NEW m, Manager(m), Quiet(m), m.stack # <<>>
  PROVE  Preserves(m, Turn(m))
<1> DEFINE top == Last(m.stack)
           q == [m EXCEPT !.stack = Front(m.stack)]
<1>1. Network(m) /\ Shape(m) /\ LevelsOK(m) /\ LevelsROK(m) /\ Queue(m)
  BY DEF Manager, Network
<1>2. top \in ToSet(m.stack) /\ IsSeq(Front(m.stack)) /\ ToSet(Front(m.stack)) \subseteq ToSet(m.stack)
  BY <1>1, StackTop DEF Queue
<1>3. top.old \in DOMAIN m.obj /\ Alive(m, top.new)
  BY <1>1, <1>2 DEF Queue
<1>4. /\ DOMAIN q = DOMAIN m /\ q.obj = m.obj /\ q.table = m.table /\ q.stack = Front(m.stack)
      /\ q.vLevels = m.vLevels /\ q.vLevelsR = m.vLevelsR
  BY <1>1 DEF Shape
<1>5. Turn(m) = IF q.obj[top.old].fanouts = <<>> THEN q ELSE Replace_int(q, top.old, top.new)
  BY DEF Turn
<1> HIDE DEF q, top
<1>6. Manager(q) /\ Quiet(q)
  BY <1>1, <1>2, <1>4, PoppedManager
<1>7. Thinned(m, q)
  BY <1>4 DEF Thinned
<1>8. Preserves(m, q)
  BY <1>2, <1>4, <1>7, ThinnedPreserves
<1>9. CASE q.obj[top.old].fanouts = <<>>
  BY <1>5, <1>8, <1>9
<1>10. CASE q.obj[top.old].fanouts # <<>>
  <2> DEFINE u == Each(LAMBDA p, f : ReplaceIn(p, f, top.old, top.new), q, q.obj[top.old].fanouts)
             t == Turn(m)
  <2>1. t = IF u.obj[top.old].fanouts = <<>> THEN DeleteNode(u, top.old) ELSE u
    BY <1>5, <1>10, ZenonT(40) DEF Replace_int
  <2>2. top.old \in DOMAIN q.obj /\ Alive(q, top.new)
    BY <1>3, <1>4 DEF Alive, Objs
  <2>3. Manager(u) /\ top.old \in DOMAIN u.obj
    BY <1>6, <2>2, MovedKeeps DEF Each, Runs
  <2>4. Moves(q, u, top.old, top.new)
    BY <1>6, <2>2, MovedModel DEF Each, Runs
  <2> HIDE DEF u, t
  <2>5. Preserves(u, t)
    <3>1. CASE u.obj[top.old].fanouts = <<>>
      <4>1. Fewer(u, t)
        BY <2>1, <2>3, <3>1, DeleteNodeKeeps
      <4> QED BY <4>1, ThinnedPreserves DEF Fewer
    <3>2. CASE u.obj[top.old].fanouts # <<>>
      BY <2>1, <3>2 DEF Preserves
    <3> QED BY <3>1, <3>2
  <2>6. top.old \in Objs(m)
    <3>1. Wired(q) /\ Shape(q)
      BY <1>6 DEF Manager, Network
    <3>2. PICK f \in DOMAIN q.obj : top.old \in Fanins(q, f)
      <4>1. IsSeq(q.obj[top.old].fanouts)
        BY <2>2, <3>1, ShapeObject
      <4>2. ToSet(q.obj[top.old].fanouts) # {}
        BY <1>10, <4>1, SeqShape
      <4> QED BY <2>2, <3>1, <4>2 DEF Wired
    <3>3. top.old \in Objs(q)
      BY <3>1, <3>2 DEF Wired
    <3> QED BY <1>4, <3>3 DEF Objs
  <2>7. ASSUME NEW s, NEW T, Model(m, s, T) PROVE Model(t, s, T)
    <3>1. top.old \in T <=> Holds(T, top.new)
      BY <1>2, <2>6, <2>7 DEF Model, Waiting
    <3>2. Model(q, s, T)
      BY <1>8, <2>7 DEF Preserves
    <3>3. Model(u, s, T)
      BY <2>4, <3>1, <3>2 DEF Moves
    <3> QED BY <2>5, <3>3 DEF Preserves
  <2>8. Pos(t) = Pos(m)
    BY <1>8, <2>4, <2>5 DEF Preserves, Moves
  <2> QED BY <2>7, <2>8 DEF Preserves, t
<1> QED BY <1>9, <1>10

\* What was true before new nodes came is still a model without them.
LEMMA GrownSatisfies ==
  ASSUME NEW m, NEW q, Grown(m, q), NEW s, NEW T, Satisfies(q, s, T)
  PROVE  Satisfies(m, s, T) /\ Pos(q) = Pos(m)
<1>1. Ands(m) \subseteq Ands(q) /\ Pos(q) = Pos(m)
  BY DEF Grown, SameData, Ands, Pos
<1>2. \A k \in Ands(m) \cup Pos(m) : q.obj[k].fanins = m.obj[k].fanins
  BY DEF Grown, Ands, Pos
<1> QED BY <1>1, <1>2 DEF Satisfies

\* The start of a command.
LEMMA BeginPreserves ==
  ASSUME NEW m, Manager(m), Idle(m)
  PROVE  Preserves(m, Cleanup(m)) /\ Preserves(m, ReverseLevelled(Levelled(Cleanup(m))))
<1> DEFINE a == Cleanup(m)
           b == Levelled(a)
           c == ReverseLevelled(b)
<1>1. Manager(a) /\ Idle(a) /\ Fewer(m, a)
  BY CleanupKeeps, FewerKept
<1> HIDE DEF a
<1>2. SameGraph(a, b) /\ b.stack = a.stack /\ b.vLevels = a.vLevels /\ b.vLevelsR = a.vLevelsR
  BY <1>1, LevelledSame DEF Manager, Network
<1>3. Manager(b) /\ Idle(b)
  BY <1>1, <1>2, LevelsFree
<1> HIDE DEF b
<1>4. SameGraph(b, c) /\ c.stack = b.stack
  BY <1>3, ReverseLevelledSame DEF Manager, Network
<1>5. Preserves(m, a)
  BY <1>1, ThinnedPreserves DEF Fewer
<1>6. Preserves(a, b) /\ Preserves(b, c)
  BY <1>2, <1>4, SameGraphPreserves
<1>7. Preserves(m, c)
  BY <1>5, <1>6 DEF Preserves
<1> QED BY <1>5, <1>7 DEF a, b, c

\* A literal under its new Id.
LEMMA RenamedHolds ==
  ASSUME NEW m, NEW id, \A n \in Objs(m) : id[n] \in Nat,
         \A n, k \in Objs(m) : id[n] = id[k] => n = k,
         NEW T, NEW l, Alive(m, l)
  PROVE  Holds({id[n] : n \in T \cap Objs(m)}, Renamed(id, l)) <=> Holds(T, l)
<1>1. Regular(Renamed(id, l)) = id[Regular(l)] /\ Compl(Renamed(id, l)) = Compl(l) /\ Regular(l) \in Objs(m)
  BY RenamedLiteral DEF Alive
<1>2. id[Regular(l)] \in {id[n] : n \in T \cap Objs(m)} <=> Regular(l) \in T
  BY <1>1
<1> QED BY <1>1, <1>2 DEF Holds

\* New Ids for all objects: what was true is true under its new Id.
LEMMA RenumberedSatisfies ==
  ASSUME NEW m, Network(m), NEW q, Network(q), NEW id, Renumbered(m, q, id),
         NEW s, NEW T, Satisfies(m, s, T)
  PROVE  Satisfies(q, s, {id[n] : n \in T \cap Objs(m)})
<1> DEFINE U == {id[n] : n \in T \cap Objs(m)}
<1>1. /\ \A n \in Objs(m) : id[n] \in Nat
      /\ \A n, k \in Objs(m) : id[n] = id[k] => n = k
      /\ \A k \in 0 .. NumPi : k \in Objs(m) /\ id[k] = k
      /\ DOMAIN q.obj = {id[n] : n \in Objs(m)}
      /\ \A n \in Objs(m) : q.obj[id[n]].type = m.obj[n].type
  BY DEF Renumbered
<1>2. \A n \in Objs(m) : id[n] \in U <=> n \in T
  BY <1>1
<1>3. \A l : Alive(m, l) => (Holds(U, Renamed(id, l)) <=> Holds(T, l))
  BY <1>1, RenamedHolds
<1> HIDE DEF U
<1>4. NumPi \in Nat /\ 0 \in 0 .. NumPi
  BY AigAssumption
<1>5. 0 \in U
  BY <1>1, <1>2, <1>4 DEF Satisfies
<1>6. \A k \in 1 .. NumPi : k \in U <=> k \in s
  <2>1. \A k \in 1 .. NumPi : k \in 0 .. NumPi
    BY <1>4
  <2> QED BY <1>1, <1>2, <2>1 DEF Satisfies
<1>7. ASSUME NEW n \in Ands(m) PROVE id[n] \in U <=> \A l \in ToSet(q.obj[id[n]].fanins) : Holds(U, l)
  <2> DEFINE c == m.obj[n].fanins
             d == q.obj[id[n]].fanins
  <2>1. n \in Objs(m) /\ Alive(m, c[1]) /\ Alive(m, c[2]) /\ d = Ordered(Renamed(id, c[1]), Renamed(id, c[2]))
    BY RenumberedAnd
  <2>2. n \in T <=> Holds(T, c[1]) /\ Holds(T, c[2])
    BY AndHolds
  <2> HIDE DEF c, d
  <2>3. (\A l \in ToSet(d) : Holds(U, l)) <=> Holds(U, Renamed(id, c[1])) /\ Holds(U, Renamed(id, c[2]))
    BY <2>1, OrderedHolds
  <2> QED BY <1>2, <1>3, <2>1, <2>2, <2>3 DEF d
<1>8. ASSUME NEW n \in Pos(m) PROVE id[n] \in U <=> \A l \in ToSet(q.obj[id[n]].fanins) : Holds(U, l)
  <2> DEFINE c == m.obj[n].fanins
             d == q.obj[id[n]].fanins
  <2>1. n \in Objs(m) /\ n \in DOMAIN m.obj /\ n \notin m.table /\ IsObject(m.obj[n])
    BY ShapeObject DEF Pos, Objs, Network, Canonical, Ands
  <2>2. c \in Seq(Nat) /\ Len(c) = 1
    BY <2>1 DEF IsObject, Network, Typed, Pos
  <2>3. ToSet(c) = {c[1]} /\ 1 \in DOMAIN c /\ c[1] \in Nat
    <3> HIDE DEF c
    <3> QED BY <2>2, OneSeq
  <2>4. Alive(m, c[1])
    BY <2>1, <2>3 DEF Alive, Network, Wired, Fanins
  <2>5. d[1] = Renamed(id, c[1]) /\ Len(d) = 1
    BY <2>1, <2>2, <2>3 DEF Renumbered
  <2>6. ToSet(d) = {d[1]}
    <3>1. Network(q) /\ id[n] \in DOMAIN q.obj
      BY <1>1, <2>1
    <3>2. d \in Seq(Nat)
      BY <3>1, ShapeObject DEF Network, IsObject
    <3> HIDE DEF d
    <3> QED BY <2>5, <3>2, OneSeq
  <2>7. n \in T <=> \A l \in ToSet(c) : Holds(T, l)
    BY DEF Satisfies
  <2>8. Holds(U, Renamed(id, c[1])) <=> Holds(T, c[1])
    BY <1>3, <2>4
  <2> HIDE DEF c, d
  <2> QED BY <1>2, <2>1, <2>3, <2>5, <2>6, <2>7, <2>8 DEF d
<1>9. \A k \in Ands(q) \cup Pos(q) : \E n \in Ands(m) \cup Pos(m) : k = id[n]
  BY <1>1 DEF Ands, Pos, Objs
<1>10. \A k \in Ands(q) \cup Pos(q) : k \in U <=> \A l \in ToSet(q.obj[k].fanins) : Holds(U, l)
  BY <1>7, <1>8, <1>9
<1> QED BY <1>5, <1>6, <1>10 DEF Satisfies, U

\* The end of a command, where the outputs keep their Ids.
LEMMA ReassignedModel ==
  ASSUME NEW m, Network(m), NEW K \in Nat, Pos(m) = NumPi + 1 .. NumPi + K
  PROVE  LET q == ReassignIds(m)
         IN  /\ Pos(q) = Pos(m)
             /\ \A s, T : Satisfies(m, s, T) =>
                   \E U : Satisfies(q, s, U) /\ \A k \in Pos(m) : k \in U <=> k \in T
<1> DEFINE q == ReassignIds(m)
<1>1. PICK id : /\ Network(q) /\ Renumbered(m, q, id)
                /\ \A L \in Nat : 0 .. L \subseteq Objs(m) \ Ands(m) => \A k \in 0 .. L : id[k] = k
  BY ReassignIdsKeeps
<1> HIDE DEF q
<1>2. NumPi \in Nat /\ NumPi + K \in Nat
  BY AigAssumption
<1>3. ASSUME NEW k \in 0 .. NumPi + K PROVE k \in Objs(m) \ Ands(m)
  <2>1. CASE k \in 0 .. NumPi
    <3>1. NumPi < Size(m) /\ DOMAIN m.obj = 0 .. Size(m) - 1 /\ Size(m) \in Nat
      BY DEF Network, Typed, Shape
    <3>2. k \in DOMAIN m.obj /\ (k = 0 \/ k \in 1 .. NumPi)
      BY <1>2, <2>1, <3>1
    <3>3. m.obj[k].type \in {"const1", "pi"}
      BY <3>2 DEF Network, Typed
    <3> QED BY <3>2, <3>3 DEF Objs, Ands
  <2>2. CASE k \notin 0 .. NumPi
    <3>1. k \in Pos(m)
      BY <1>2, <2>2
    <3> QED BY <3>1 DEF Pos, Objs, Ands
  <2> QED BY <2>1, <2>2
<1>4. \A k \in 0 .. NumPi + K : id[k] = k
  BY <1>1, <1>2, <1>3
<1>5. \A k \in Pos(m) : id[k] = k /\ k \in Objs(m)
  <2>1. \A k \in Pos(m) : k \in 0 .. NumPi + K
    BY <1>2
  <2> QED BY <1>4, <2>1 DEF Pos, Objs
<1>6. Pos(q) = Pos(m)
  <2>1. DOMAIN q.obj = {id[n] : n \in Objs(m)} /\ \A n \in Objs(m) : q.obj[id[n]].type = m.obj[n].type
    BY <1>1 DEF Renumbered
  <2>2. \A k \in Pos(q) : \E n \in Pos(m) : k = id[n]
    BY <2>1 DEF Pos, Objs
  <2>3. \A n \in Pos(m) : id[n] \in Pos(q)
    BY <2>1 DEF Pos, Objs
  <2> QED BY <1>5, <2>2, <2>3
<1>7. ASSUME NEW s, NEW T, Satisfies(m, s, T)
      PROVE  \E U : Satisfies(q, s, U) /\ \A k \in Pos(m) : k \in U <=> k \in T
  <2> DEFINE U == {id[n] : n \in T \cap Objs(m)}
  <2>1. Satisfies(q, s, U)
    BY <1>1, <1>7, RenumberedSatisfies
  <2>2. \A n, k \in Objs(m) : id[n] = id[k] => n = k
    BY <1>1 DEF Renumbered
  <2>3. \A k \in Pos(m) : k \in U <=> k \in T
    BY <1>5, <2>2
  <2> HIDE DEF U
  <2> QED BY <2>1, <2>3
<1> QED BY <1>6, <1>7 DEF q

-----------------------------------------------------------------------------
(* In a graph without cycles there is one function of the inputs for each   *)
(* node: the one that Minterms finds.                                       *)

\* What a node computes, from what the others compute.
Value(o, F, k) ==
    IF k = 0 THEN SUBSET (1 .. NumPi)
    ELSE IF k <= NumPi THEN {s \in SUBSET (1 .. NumPi) : k \in s}
    ELSE {s \in SUBSET (1 .. NumPi) :
             \A l \in ToSet(o[k].fanins) : (s \in F[Regular(l)]) # (Compl(l) = 1)}

Defines(o, F) == F = [k \in DOMAIN o |-> Value(o, F, k)]

NoCycle(m) == Grounded(m)[Size(m)] = DOMAIN m.obj

\* The assignments under which a node is true.
Ones(m, s) == {n \in DOMAIN m.obj : s \in Minterms(m, n)}

\* Minterms is the choice among the solutions, and looks at the objects only.
LEMMA MintermsChosen ==
  ASSUME NEW m, NEW n
  PROVE  Minterms(m, n) = (CHOOSE F : Defines(m.obj, F))[n]
BY DEF Minterms, Defines, Value

\* What a node computes depends on its fanins.
LEMMA ValueSame ==
  ASSUME NEW o, NEW k, NEW F, NEW G, \A l \in ToSet(o[k].fanins) : F[Regular(l)] = G[Regular(l)]
  PROVE  Value(o, F, k) = Value(o, G, k)
<1>1. {s \in SUBSET (1 .. NumPi) : \A l \in ToSet(o[k].fanins) : (s \in F[Regular(l)]) # (Compl(l) = 1)}
      = {s \in SUBSET (1 .. NumPi) : \A l \in ToSet(o[k].fanins) : (s \in G[Regular(l)]) # (Compl(l) = 1)}
  OBVIOUS
<1> QED BY <1>1 DEF Value

SolveStep(m, S, i) == Ranked(m, S, i)
SolveInv(m, k, S) ==
    /\ S \subseteq DOMAIN m.obj
    /\ \E F : \A n \in S : F[n] = Value(m.obj, F, n)
SolveFold == INSTANCE Folding WITH Op <- SolveStep, Inv <- SolveInv

\* From the nodes without fanins upwards there is a solution.
LEMMA SolutionExists ==
  ASSUME NEW m, Network(m), NoCycle(m)
  PROVE  \E F : Defines(m.obj, F)
<1> DEFINE w == UpTo(Size(m))
           D == DOMAIN m.obj
<1>1. Size(m) \in Nat /\ Wired(m) /\ D # {}
  <2>1. Size(m) \in Nat /\ D = 0 .. Size(m) - 1 /\ NumPi < Size(m) /\ NumPi \in Nat
    BY AigAssumption DEF Network, Shape, Typed
  <2>2. 0 \in D
    BY <2>1
  <2> QED BY <2>1, <2>2 DEF Network
<1>2. Len(w) = Size(m)
  BY <1>1, UpToSeq
<1>3. Grounded(m) = SolveFold!Result(m, {}, w)
  BY DEF Grounded, Runs, SolveFold!Result, SolveStep
<1> HIDE DEF w
<1>4. SolveInv(m, 0, {})
  BY DEF SolveInv
<1>5. ASSUME NEW k \in 0 .. Len(w) - 1, NEW S, SolveInv(m, k, S)
      PROVE  SolveInv(m, k + 1, SolveStep(m, S, w[k + 1]))
  <2> DEFINE R == SolveStep(m, S, w[k + 1])
  <2>1. R = {n \in D : Fanins(m, n) \subseteq S}
    BY DEF SolveStep, Ranked
  <2>2. S \subseteq D
    BY <1>5 DEF SolveInv
  <2>3. PICK F : \A n \in S : F[n] = Value(m.obj, F, n)
    BY <1>5 DEF SolveInv
  <2> DEFINE G == [n \in D |-> Value(m.obj, F, n)]
  <2>4. \A n \in S : G[n] = F[n]
    BY <2>2, <2>3
  <2>5. DOMAIN G = D /\ \A n \in D : G[n] = Value(m.obj, F, n)
    OBVIOUS
  <2> HIDE DEF G, R
  <2>6. ASSUME NEW n \in R PROVE n \in D /\ G[n] = Value(m.obj, G, n)
    <3>1. n \in D /\ Fanins(m, n) \subseteq S
      BY <2>1
    <3>2. \A l \in ToSet(m.obj[n].fanins) : Regular(l) \in S
      BY <3>1 DEF Fanins
    <3>3. \A l \in ToSet(m.obj[n].fanins) : F[Regular(l)] = G[Regular(l)]
      BY <2>4, <3>2
    <3>4. Value(m.obj, F, n) = Value(m.obj, G, n)
      BY <3>3, ValueSame
    <3> QED BY <2>5, <3>1, <3>4
  <2>7. R \subseteq D
    BY <2>1
  <2> QED BY <2>5, <2>6, <2>7 DEF SolveInv, R
<1>6. \A k \in 0 .. Len(w) : SolveInv(m, k, SolveFold!Result(m, {}, w)[k])
  BY <1>1, <1>2, <1>4, <1>5, SolveFold!Kept
<1>7. SolveInv(m, Size(m), D)
  <2>1. Size(m) \in 0 .. Len(w)
    BY <1>1, <1>2
  <2>2. SolveFold!Result(m, {}, w)[Size(m)] = D
    BY <1>3 DEF NoCycle
  <2> QED BY <1>6, <2>1, <2>2
<1>8. PICK F : \A n \in D : F[n] = Value(m.obj, F, n)
  BY <1>7 DEF SolveInv
<1> DEFINE G == [n \in D |-> Value(m.obj, F, n)]
<1>9. \A n \in D : G[n] = F[n]
  BY <1>8
<1>10. \A n \in D : G[n] = Value(m.obj, G, n)
  <2> SUFFICES ASSUME NEW n \in D PROVE G[n] = Value(m.obj, G, n)
    OBVIOUS
  <2>1. G[n] = Value(m.obj, F, n)
    OBVIOUS
  <2>2. \A l \in ToSet(m.obj[n].fanins) : Regular(l) \in D
    BY <1>1 DEF Wired, Fanins, Objs
  <2> HIDE DEF G
  <2>3. \A l \in ToSet(m.obj[n].fanins) : F[Regular(l)] = G[Regular(l)]
    BY <1>9, <2>2
  <2>4. Value(m.obj, F, n) = Value(m.obj, G, n)
    BY <2>3, ValueSame
  <2> QED BY <2>1, <2>4
<1>11. G = [n \in D |-> G[n]]
  OBVIOUS
<1> HIDE DEF G
<1>12. Defines(m.obj, G)
  BY <1>10, <1>11 DEF Defines
<1> QED BY <1>12

\* So what Minterms says of a node follows from what it says of the fanins.
LEMMA MintermsValue ==
  ASSUME NEW m, Network(m), NoCycle(m)
  PROVE  \A n \in DOMAIN m.obj :
            Minterms(m, n) = IF n = 0 THEN SUBSET (1 .. NumPi)
                             ELSE IF n <= NumPi THEN {s \in SUBSET (1 .. NumPi) : n \in s}
                             ELSE {s \in SUBSET (1 .. NumPi) :
                                      \A l \in ToSet(m.obj[n].fanins) :
                                          (s \in Minterms(m, Regular(l))) # (Compl(l) = 1)}
<1> DEFINE F == CHOOSE F : Defines(m.obj, F)
<1>1. Defines(m.obj, F)
  BY SolutionExists
<1>2. \A n : Minterms(m, n) = F[n]
  BY MintermsChosen
<1> HIDE DEF F
<1> SUFFICES ASSUME NEW n \in DOMAIN m.obj
             PROVE  Minterms(m, n) = IF n = 0 THEN SUBSET (1 .. NumPi)
                             ELSE IF n <= NumPi THEN {s \in SUBSET (1 .. NumPi) : n \in s}
                             ELSE {s \in SUBSET (1 .. NumPi) :
                                      \A l \in ToSet(m.obj[n].fanins) :
                                          (s \in Minterms(m, Regular(l))) # (Compl(l) = 1)}
  OBVIOUS
<1>3. Minterms(m, n) = Value(m.obj, F, n)
  BY <1>1, <1>2 DEF Defines
<1>4. {s \in SUBSET (1 .. NumPi) :
          \A l \in ToSet(m.obj[n].fanins) : (s \in F[Regular(l)]) # (Compl(l) = 1)}
      = {s \in SUBSET (1 .. NumPi) :
          \A l \in ToSet(m.obj[n].fanins) : (s \in Minterms(m, Regular(l))) # (Compl(l) = 1)}
  BY <1>2
<1> QED BY <1>3, <1>4 DEF Value

\* The assignments of Minterms are a model.
LEMMA OnesSatisfy ==
  ASSUME NEW m, Network(m), NoCycle(m), NEW s \in SUBSET (1 .. NumPi)
  PROVE  Satisfies(m, s, Ones(m, s))
<1>1. NumPi \in Nat /\ NumPi < Size(m) /\ DOMAIN m.obj = 0 .. Size(m) - 1 /\ Size(m) \in Nat
      /\ Wired(m) /\ Typed(m)
  BY AigAssumption DEF Network, Shape, Typed
<1>2. 0 \in Ones(m, s)
  <2>1. 0 \in DOMAIN m.obj
    BY <1>1
  <2> QED BY <2>1, MintermsValue DEF Ones
<1>3. ASSUME NEW k \in 1 .. NumPi PROVE k \in Ones(m, s) <=> k \in s
  <2>1. k \in DOMAIN m.obj /\ k # 0 /\ k <= NumPi
    BY <1>1
  <2> QED BY <2>1, MintermsValue DEF Ones
<1>4. ASSUME NEW k \in Ands(m) \cup Pos(m)
      PROVE  k \in Ones(m, s) <=> \A l \in ToSet(m.obj[k].fanins) : Holds(Ones(m, s), l)
  <2>1. k \in DOMAIN m.obj /\ m.obj[k].type \in {"and", "po"}
    BY DEF Ands, Pos
  <2>2. k # 0 /\ ~ (k <= NumPi)
    <3>1. k # 0 /\ k \notin 1 .. NumPi /\ k \in Nat
      BY <1>1, <2>1 DEF Typed
    <3> QED BY <1>1, <3>1
  <2>3. Minterms(m, k) = {t \in SUBSET (1 .. NumPi) :
                             \A l \in ToSet(m.obj[k].fanins) :
                                 (t \in Minterms(m, Regular(l))) # (Compl(l) = 1)}
    BY <2>1, <2>2, MintermsValue
  <2>4. \A l \in ToSet(m.obj[k].fanins) : Regular(l) \in DOMAIN m.obj
    BY <1>1, <2>1 DEF Wired, Fanins, Objs
  <2>5. \A l \in ToSet(m.obj[k].fanins) :
            Holds(Ones(m, s), l) <=> (s \in Minterms(m, Regular(l))) # (Compl(l) = 1)
    BY <2>4 DEF Holds, Ones
  <2> QED BY <2>1, <2>3, <2>5 DEF Ones
<1> QED BY <1>2, <1>3, <1>4 DEF Satisfies

AgreeStep(e, S, i) == Ranked(e.man, S, i)
AgreeInv(e, k, S) == \A n \in S \cap Objs(e.man) : n \in e.one <=> n \in e.two
AgreeFold == INSTANCE Folding WITH Op <- AgreeStep, Inv <- AgreeInv

\* There is no other model.
LEMMA ModelsAgree ==
  ASSUME NEW m, Network(m), NoCycle(m), NEW s, NEW T, NEW U, Satisfies(m, s, T), Satisfies(m, s, U)
  PROVE  \A n \in Objs(m) : n \in T <=> n \in U
<1> DEFINE w == UpTo(Size(m))
           e == [man |-> m, one |-> T, two |-> U]
<1>1. e.man = m /\ e.one = T /\ e.two = U
  OBVIOUS
<1> HIDE DEF e
<1>2. Size(m) \in Nat /\ Len(w) = Size(m)
  BY UpToSeq DEF Network, Shape
<1>3. Grounded(m) = AgreeFold!Result(e, {}, w)
  BY <1>1 DEF Grounded, Runs, AgreeFold!Result, AgreeStep
<1> HIDE DEF w
<1>4. AgreeInv(e, 0, {})
  BY DEF AgreeInv
<1>5. ASSUME NEW k \in 0 .. Len(w) - 1, NEW S, AgreeInv(e, k, S)
      PROVE  AgreeInv(e, k + 1, AgreeStep(e, S, w[k + 1]))
  <2>1. AgreeStep(e, S, w[k + 1]) = {n \in DOMAIN m.obj : Fanins(m, n) \subseteq S}
    BY <1>1 DEF AgreeStep, Ranked
  <2>2. \A n \in S \cap Objs(m) : n \in T <=> n \in U
    BY <1>1, <1>5 DEF AgreeInv
  <2>3. ASSUME NEW n \in Objs(m), Fanins(m, n) \subseteq S PROVE n \in T <=> n \in U
    <3>1. n \in DOMAIN m.obj /\ m.obj[n].type # "none" /\ IsObject(m.obj[n])
      BY ShapeObject DEF Objs, Network
    <3>2. m.obj[n].type \in {"const1", "pi", "po", "and"}
      BY <3>1 DEF IsObject
    <3>3. CASE m.obj[n].type = "const1"
      BY <3>1, <3>3 DEF Network, Typed, Satisfies
    <3>4. CASE m.obj[n].type = "pi"
      BY <3>1, <3>4 DEF Network, Typed, Satisfies
    <3>5. CASE m.obj[n].type \in {"and", "po"}
      <4>1. n \in Ands(m) \cup Pos(m)
        BY <3>1, <3>5 DEF Ands, Pos
      <4>2. \A l \in ToSet(m.obj[n].fanins) : Regular(l) \in S /\ Regular(l) \in Objs(m)
        BY <2>3, <3>1 DEF Fanins, Network, Wired
      <4>3. \A l \in ToSet(m.obj[n].fanins) : Holds(T, l) <=> Holds(U, l)
        BY <2>2, <4>2 DEF Holds
      <4> QED BY <4>1, <4>3 DEF Satisfies
    <3> QED BY <3>2, <3>3, <3>4, <3>5
  <2> QED BY <1>1, <2>1, <2>3 DEF AgreeInv
<1>6. \A k \in 0 .. Len(w) : AgreeInv(e, k, AgreeFold!Result(e, {}, w)[k])
  BY <1>2, <1>4, <1>5, AgreeFold!Kept
<1>7. AgreeInv(e, Size(m), DOMAIN m.obj)
  <2>1. Size(m) \in 0 .. Len(w)
    BY <1>2
  <2>2. AgreeFold!Result(e, {}, w)[Size(m)] = DOMAIN m.obj
    BY <1>3 DEF NoCycle
  <2> QED BY <1>6, <2>1, <2>2
<1> QED BY <1>1, <1>7 DEF AgreeInv, Objs

-----------------------------------------------------------------------------
(* What the outputs compute. *)

\* Under the assignment s the network has a model that gives the outputs o.
Gives(m, o, s) == \E T : Model(m, s, T) /\ \A k \in Pos(m) : k \in T <=> s \in o[k]

MeaningOf(m, o) ==
    /\ \E K \in Nat : Pos(m) = NumPi + 1 .. NumPi + K
    /\ o = [k \in Pos(m) |-> o[k]]
    /\ \A k \in Pos(m) : o[k] \subseteq SUBSET (1 .. NumPi)
    /\ \A s \in SUBSET (1 .. NumPi) : Gives(m, o, s)

\* Where nothing waits, every assignment that satisfies the nodes is a model.
LEMMA IdleModel ==
  ASSUME NEW m, m.stack = <<>>, NEW s, NEW T, Satisfies(m, s, T)
  PROVE  Model(m, s, T)
<1>1. ToSet(m.stack) = {}
  BY DEF ToSet
<1> QED BY <1>1 DEF Model, Waiting

\* An output computes a set of assignments of the inputs.
LEMMA OutputMinterms ==
  ASSUME NEW m, Network(m), NoCycle(m), NEW k \in Pos(m)
  PROVE  Minterms(m, k) \subseteq SUBSET (1 .. NumPi)
<1>1. k \in DOMAIN m.obj
  BY DEF Pos
<1>2. CASE k = 0
  BY <1>1, <1>2, MintermsValue
<1>3. CASE k # 0
  BY <1>1, <1>3, MintermsValue
<1> QED BY <1>2, <1>3

\* At the start.
LEMMA StartMeaning ==
  ASSUME NEW m, Network(m), Idle(m), NoCycle(m), NEW K \in Nat, Pos(m) = NumPi + 1 .. NumPi + K
  PROVE  MeaningOf(m, Outputs(m))
<1> DEFINE o == Outputs(m)
<1>1. o = [k \in Pos(m) |-> o[k]] /\ \A k \in Pos(m) : o[k] = Minterms(m, k)
  BY DEF Outputs
<1> HIDE DEF o
<1>2. ASSUME NEW k \in Pos(m) PROVE o[k] \subseteq SUBSET (1 .. NumPi)
  <2>1. Minterms(m, k) \subseteq SUBSET (1 .. NumPi)
    BY OutputMinterms
  <2> QED BY <1>1, <2>1
<1>3. ASSUME NEW s \in SUBSET (1 .. NumPi) PROVE Gives(m, o, s)
  <2>1. Model(m, s, Ones(m, s))
    BY OnesSatisfy, IdleModel DEF Idle
  <2>2. \A k \in Pos(m) : k \in Ones(m, s) <=> s \in o[k]
    BY <1>1 DEF Ones, Pos
  <2> QED BY <2>1, <2>2 DEF Gives
<1> QED BY <1>1, <1>2, <1>3 DEF MeaningOf, o

\* Steps that change no node's meaning.
LEMMA KeptMeaning ==
  ASSUME NEW m, NEW q, NEW o, MeaningOf(m, o), Preserves(m, q)
  PROVE  MeaningOf(q, o)
<1>1. Pos(q) = Pos(m) /\ \A s, T : Model(m, s, T) => Model(q, s, T)
  BY DEF Preserves
<1>2. ASSUME NEW s \in SUBSET (1 .. NumPi) PROVE Gives(q, o, s)
  <2>1. PICK T : Model(m, s, T) /\ \A k \in Pos(m) : k \in T <=> s \in o[k]
    BY DEF MeaningOf, Gives
  <2> QED BY <1>1, <2>1 DEF Gives
<1> QED BY <1>1, <1>2 DEF MeaningOf

\* New Ids for everything but the constant, the inputs and the outputs.
LEMMA ReassignedMeaning ==
  ASSUME NEW m, Manager(m), Idle(m), NEW o, MeaningOf(m, o)
  PROVE  MeaningOf(ReassignIds(m), o)
<1> DEFINE q == ReassignIds(m)
<1>1. PICK K \in Nat : Pos(m) = NumPi + 1 .. NumPi + K
  BY DEF MeaningOf
<1>2. /\ Pos(q) = Pos(m)
      /\ \A s, T : Satisfies(m, s, T) =>
            \E U : Satisfies(q, s, U) /\ \A k \in Pos(m) : k \in U <=> k \in T
  BY <1>1, ReassignedModel DEF Manager
<1>3. q.stack = <<>>
  BY EndKeeps DEF Idle
<1> HIDE DEF q
<1>4. ASSUME NEW s \in SUBSET (1 .. NumPi) PROVE Gives(q, o, s)
  <2>1. PICK T : Model(m, s, T) /\ \A k \in Pos(m) : k \in T <=> s \in o[k]
    BY DEF MeaningOf, Gives
  <2>2. PICK U : Satisfies(q, s, U) /\ \A k \in Pos(m) : k \in U <=> k \in T
    BY <1>2, <2>1 DEF Model
  <2>3. Model(q, s, U)
    BY <1>3, <2>2, IdleModel
  <2> QED BY <1>2, <2>1, <2>2, <2>3 DEF Gives
<1>5. Pos(q) = Pos(m)
  BY <1>2
<1>6. MeaningOf(q, o)
  BY <1>4, <1>5 DEF MeaningOf
<1> QED BY <1>6 DEF q

\* A literal holds where it computes true.
LEMMA OnesHold ==
  ASSUME NEW m, NEW s \in SUBSET (1 .. NumPi), NEW l, Regular(l) \in DOMAIN m.obj, Compl(l) \in {0, 1}
  PROVE  Holds(Ones(m, s), l) <=> s \in Computes(m, l)
<1>1. Regular(l) \in Ones(m, s) <=> s \in Minterms(m, Regular(l))
  BY DEF Ones
<1>2. CASE Compl(l) = 0
  BY <1>1, <1>2 DEF Holds, Computes
<1>3. CASE Compl(l) = 1
  BY <1>1, <1>3 DEF Holds, Computes
<1> QED BY <1>2, <1>3

\* The start of Abc_AigReplace: the new root computes what the old one does.
LEMMA UpdateMeaning ==
  ASSUME NEW m, Manager(m), Idle(m), NoCycle(m), NEW o, MeaningOf(m, o),
         NEW g \in NewRoots(m), NEW root \in Ands(m), NEW c \in {0, 1}, NEW q,
         q = [g.man EXCEPT !.stack = <<[old |-> root, new |-> NotCond(g.lit, c)]>>],
         Network(q), NoCycle(q), Computes(g.man, NotCond(g.lit, c)) = Minterms(g.man, root)
  PROVE  MeaningOf(q, o)
<1> DEFINE l == NotCond(g.lit, c)
           e == [old |-> root, new |-> l]
<1>1. Manager(g.man) /\ Alive(g.man, g.lit) /\ Grown(m, g.man)
  BY NewRootsKeep
<1>2. Regular(l) \in DOMAIN g.man.obj /\ Compl(l) \in {0, 1}
  <2>1. g.lit \in Nat /\ Regular(g.lit) \in DOMAIN g.man.obj
    BY <1>1 DEF Alive, Objs
  <2>2. 0 \in Nat
    OBVIOUS
  <2>3. Regular(l) = Regular(g.lit) /\ l \in Nat
    BY <2>1, <2>2, Regulars
  <2>4. Compl(l) \in {0, 1}
    BY <2>3 DEF Compl
  <2> QED BY <2>1, <2>3, <2>4
<1> HIDE DEF l
<1>3. e.old = root /\ e.new = l
  OBVIOUS
<1>4. q = [g.man EXCEPT !.stack = <<e>>]
  BY DEF l
<1> HIDE DEF e
<1>5. q.obj = g.man.obj /\ q.stack = <<e>> /\ ToSet(<<e>>) = {e}
  <2>1. q.obj = g.man.obj /\ q.stack = <<e>>
    BY <1>1, <1>4 DEF Manager, Network, Shape
  <2>2. ToSet(<<e>>) = {e}
    BY DEF ToSet
  <2> QED BY <2>1, <2>2
<1>6. Pos(q) = Pos(m) /\ Grown(m, g.man) /\ root \in DOMAIN q.obj
  <2>1. Pos(g.man) = Pos(m)
    BY <1>1 DEF Grown, SameData, Pos
  <2>2. Pos(q) = Pos(g.man)
    BY <1>5 DEF Pos
  <2>3. root \in DOMAIN g.man.obj
    BY <1>1 DEF Grown, Ands
  <2> QED BY <1>1, <1>5, <2>1, <2>2, <2>3
<1>7. \A n : Minterms(q, n) = Minterms(g.man, n)
  BY <1>5, MintermsChosen
<1>8. Computes(q, l) = Minterms(q, root)
  <2>1. Computes(g.man, l) = Minterms(g.man, root)
    BY DEF l
  <2>2. Computes(q, l) = Computes(g.man, l)
    BY <1>7 DEF Computes
  <2> QED BY <1>7, <2>1, <2>2
<1>9. ASSUME NEW s \in SUBSET (1 .. NumPi) PROVE Gives(q, o, s)
  <2> DEFINE U == Ones(q, s)
  <2>1. PICK T : Model(m, s, T) /\ \A k \in Pos(m) : k \in T <=> s \in o[k]
    BY DEF MeaningOf, Gives
  <2>2. Satisfies(q, s, U)
    BY OnesSatisfy
  <2>3. Holds(U, l) <=> root \in U
    <3>1. Holds(U, l) <=> s \in Computes(q, l)
      BY <1>2, <1>5, OnesHold
    <3> QED BY <1>6, <1>8, <3>1 DEF Ones
  <2> HIDE DEF U
  <2>4. Satisfies(g.man, s, U)
    BY <1>5, <2>2 DEF Satisfies, Ands, Pos
  <2>5. Satisfies(m, s, U)
    BY <1>1, <2>4, GrownSatisfies
  <2>6. \A n \in Objs(m) : n \in T <=> n \in U
    BY <2>1, <2>5, ModelsAgree DEF Model, Manager
  <2>7. \A k \in Pos(m) : k \in U <=> s \in o[k]
    BY <2>1, <2>6 DEF Pos, Objs
  <2>8. Waiting(q, U)
    BY <1>3, <1>5, <2>3 DEF Waiting
  <2> QED BY <1>6, <2>2, <2>7, <2>8 DEF Gives, Model
<1> QED BY <1>6, <1>9 DEF MeaningOf

\* Without a cycle the outputs compute what the models give them.
LEMMA OutputsMeaning ==
  ASSUME NEW m, Network(m), NoCycle(m), NEW o, MeaningOf(m, o)
  PROVE  Outputs(m) = o
<1>1. ASSUME NEW k \in Pos(m) PROVE Minterms(m, k) = o[k]
  <2>1. Minterms(m, k) \subseteq SUBSET (1 .. NumPi) /\ o[k] \subseteq SUBSET (1 .. NumPi)
    BY OutputMinterms DEF MeaningOf
  <2>2. ASSUME NEW s \in SUBSET (1 .. NumPi) PROVE s \in Minterms(m, k) <=> s \in o[k]
    <3>1. PICK T : Model(m, s, T) /\ \A j \in Pos(m) : j \in T <=> s \in o[j]
      BY DEF MeaningOf, Gives
    <3>2. Satisfies(m, s, Ones(m, s))
      BY OnesSatisfy
    <3>3. \A n \in Objs(m) : n \in T <=> n \in Ones(m, s)
      BY <3>1, <3>2, ModelsAgree DEF Model
    <3> QED BY <3>1, <3>3 DEF Ones, Pos, Objs
  <2> QED BY <2>1, <2>2
<1>2. o = [k \in Pos(m) |-> o[k]]
  BY DEF MeaningOf
<1> QED BY <1>1, <1>2 DEF Outputs

Meaning == MeaningOf(man, outputs)

\* The networks a session starts from.
LEMMA InitMeaning == Init /\ Acyclic => Meaning
<1> SUFFICES ASSUME Init, Acyclic PROVE Meaning
  OBVIOUS
<1>1. PICK net \in Netlists : man = Strashed(net)
  BY DEF Init
<1>2. /\ Network(man) /\ Idle(man) /\ Len(net.pos) \in Nat
      /\ Pos(man) = NumPi + 1 .. NumPi + Len(net.pos)
  BY <1>1, StrashedNetwork
<1>3. NoCycle(man) /\ outputs = Outputs(man)
  BY DEF Acyclic, NoCycle, Init
<1> QED BY <1>2, <1>3, StartMeaning DEF Meaning

\* Each step.
LEMMA NextMeaning == AigInv /\ AigInv' /\ Acyclic /\ Acyclic' /\ Meaning /\ [Next]_vars => Meaning'
<1> SUFFICES ASSUME AigInv, AigInv', Acyclic, Acyclic', Meaning, [Next]_vars PROVE Meaning'
  OBVIOUS
<1>0. /\ Manager(man) /\ Quiet(man) /\ NoCycle(man) /\ MeaningOf(man, outputs)
      /\ Manager(man') /\ NoCycle(man')
      /\ pc \in {"command", "loop"} => Idle(man)
      /\ pc' \in {"command", "loop"} => Idle(man')
  BY DEF AigInv, Acyclic, NoCycle, Meaning
<1> SUFFICES MeaningOf(man', outputs')
  BY DEF Meaning
<1>1. CASE BeginCommand
  <2>1. pc = "command" /\ outputs' = outputs
        /\ (man' = Cleanup(man) \/ man' = ReverseLevelled(Levelled(Cleanup(man))))
    BY <1>1 DEF BeginCommand
  <2>2. Preserves(man, man')
    BY <1>0, <2>1, BeginPreserves
  <2> QED BY <1>0, <2>1, <2>2, KeptMeaning
<1>2. CASE UpdateNetwork
  <2>1. PICK root \in Ands(man), g \in NewRoots(man), c \in {0, 1} :
             /\ man' = [g.man EXCEPT !.stack = <<[old |-> root, new |-> NotCond(g.lit, c)]>>]
             /\ Computes(g.man, NotCond(g.lit, c)) = Minterms(g.man, root)
    BY <1>2 DEF UpdateNetwork, Allowed
  <2>2. pc = "loop" /\ outputs' = outputs
    BY <1>2 DEF UpdateNetwork
  <2>3. Network(man')
    BY <1>0 DEF Manager
  <2> QED BY <1>0, <2>1, <2>2, <2>3, UpdateMeaning
<1>3. CASE Replace
  <2>1. man' = Turn(man) /\ man.stack # <<>> /\ outputs' = outputs
    BY <1>3 DEF Replace
  <2>2. Preserves(man, man')
    BY <1>0, <2>1, TurnPreserves
  <2> QED BY <1>0, <2>1, <2>2, KeptMeaning
<1>4. CASE Replaced \/ Updated \/ UpdatedR \/ UNCHANGED vars
  BY <1>0, <1>4 DEF Replaced, Updated, UpdatedR, vars
<1>5. CASE UpdateLevel
  <2>1. PICK d \in DOMAIN man.vLevels : man' = UpdateNode(man, man.vLevels[d])
    BY <1>5 DEF UpdateLevel
  <2>2. man.vLevels[d] \in ToSet(man.vLevels) /\ outputs' = outputs
    BY <1>5, <2>1 DEF ToSet, UpdateLevel
  <2>3. Relevelled(man, man')
    BY <1>0, <2>1, <2>2, UpdateNodeKeeps
  <2>4. Preserves(man, man')
    BY <2>3, SameGraphPreserves DEF Relevelled
  <2> QED BY <1>0, <2>2, <2>4, KeptMeaning
<1>6. CASE UpdateLevelR
  <2>1. PICK d \in DOMAIN man.vLevelsR : man' = UpdateNodeR(man, man.vLevelsR[d]) \/ man' = man
    BY <1>6 DEF UpdateLevelR
  <2>2. man.vLevelsR[d] \in ToSet(man.vLevelsR) /\ outputs' = outputs
    BY <1>6, <2>1 DEF ToSet, UpdateLevelR
  <2>3. CASE man' = man
    BY <1>0, <2>2, <2>3
  <2>4. CASE man' = UpdateNodeR(man, man.vLevelsR[d])
    <3>1. Relevelled(man, man')
      BY <1>0, <2>2, <2>4, UpdateNodeRKeeps
    <3>2. Preserves(man, man')
      BY <3>1, SameGraphPreserves DEF Relevelled
    <3> QED BY <1>0, <2>2, <3>2, KeptMeaning
  <2> QED BY <2>1, <2>3, <2>4
<1>7. CASE EndCommand
  <2> DEFINE a == ReassignIds(man)
  <2>1. pc = "loop" /\ outputs' = outputs /\ (man' = a \/ man' = Levelled(a))
    BY <1>7 DEF EndCommand
  <2>2. MeaningOf(a, outputs)
    BY <1>0, <2>1, ReassignedMeaning
  <2>3. Shape(a)
    BY <1>0, <2>1, EndKeeps DEF Manager, Network
  <2> HIDE DEF a
  <2>4. Preserves(a, Levelled(a))
    BY <2>3, LevelledSame, SameGraphPreserves
  <2> QED BY <2>1, <2>2, <2>4, KeptMeaning
<1> QED BY <1>1, <1>2, <1>3, <1>4, <1>5, <1>6, <1>7 DEF Next

\* As long as the graph has no cycle, the outputs compute what they computed at the start: at
\* every turn of Abc_AigReplace, while part of the fanouts have been moved and further
\* replacements wait, and after the levels are updated, dead nodes deleted and Ids reassigned.
THEOREM AigOutputsKept == Spec /\ []Acyclic => []OutputsKept
<1>1. Meaning /\ AigInv /\ Acyclic => OutputsKept
  <2> SUFFICES ASSUME Meaning, AigInv, Acyclic PROVE OutputsKept
    OBVIOUS
  <2>1. Network(man) /\ NoCycle(man) /\ MeaningOf(man, outputs)
    BY DEF AigInv, Manager, Acyclic, NoCycle, Meaning
  <2> QED BY <2>1, OutputsMeaning DEF OutputsKept
<1>2. Spec => []AigInv
  BY AigInvariant
<1> QED BY <1>1, <1>2, InitMeaning, NextMeaning, PTL DEF Spec
================================================================================
