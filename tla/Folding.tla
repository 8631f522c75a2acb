-------------------------------- MODULE Folding --------------------------------
(***************************************************************************)
(* A loop over a sequence, as a function of the number of members it has   *)
(* gone through, and what holds through it.  The body and the invariant    *)
(* are constants: a module that proves something of a loop instantiates    *)
(* this one with its own, so an induction becomes a theorem to cite.       *)
(***************************************************************************)
EXTENDS Integers, Sequences, WellFoundedInduction, TLAPS

CONSTANTS Op(_, _, _),    \* the body: what is fixed, what there is, the member
          Inv(_, _, _)    \* what is fixed, how many members, what there is

\* A set of numbers has a least one.
LEMMA SmallestIn ==
  ASSUME NEW T \in SUBSET Nat, T # {}
  PROVE  \E k \in T : \A j \in T : k <= j
<1> DEFINE R == {p \in Nat \X Nat : p[1] < p[2]}
<1>1. IsWellFoundedOn(R, Nat)
  BY NatLessThanWellFounded DEF OpToRel
<1>2. \A j, k \in Nat : j < k => <<j, k>> \in R
  OBVIOUS
<1> HIDE DEF R
<1>3. PICK k \in T : \A j \in T : <<j, k>> \notin R
  BY <1>1, WFMin
<1>4. ASSUME NEW j \in T PROVE k <= j
  <2>1. j \in Nat /\ k \in Nat
    OBVIOUS
  <2>2. ~ (j < k)
    BY <1>2, <1>3, <2>1
  <2> QED BY <2>1, <2>2
<1> QED BY <1>4

\* What holds at 0 and passes from each index to the next holds up to M.
LEMMA IndexInduction ==
  ASSUME NEW M \in Nat, NEW S, 0 \in S, \A k \in 0 .. M : k # M /\ k \in S => k + 1 \in S
  PROVE  \A k \in 0 .. M : k \in S
<1> DEFINE T == {k \in 0 .. M : k \notin S}
<1> SUFFICES ASSUME T # {} PROVE FALSE
  OBVIOUS
<1>1. PICK k \in T : \A j \in T : k <= j
  <2>1. T \in SUBSET Nat
    OBVIOUS
  <2> HIDE DEF T
  <2> QED BY <2>1, SmallestIn
<1>2. k # 0 /\ k - 1 \in 0 .. M /\ k - 1 # M /\ k - 1 + 1 = k
  OBVIOUS
<1>3. k - 1 \in S
  BY <1>1, <1>2
<1> QED BY <1>2, <1>3

\* The states of the loop over s from m.
Follows(f, e, m, s) == f = [k \in 0 .. Len(s) |-> IF k = 0 THEN m ELSE Op(e, f[k - 1], s[k])]

\* There is such a function, so the one a recursive definition names is one.
THEOREM Recursion ==
  ASSUME NEW e, NEW m, NEW s, Len(s) \in Nat
  PROVE  \E f : Follows(f, e, m, s)
<1> DEFINE S == {M \in 0 .. Len(s) : \E f : f = [k \in 0 .. M |-> IF k = 0 THEN m ELSE Op(e, f[k - 1], s[k])]}
<1>1. 0 \in S
  <2>1. [k \in 0 .. 0 |-> m] = [k \in 0 .. 0 |-> IF k = 0 THEN m ELSE Op(e, [j \in 0 .. 0 |-> m][k - 1], s[k])]
    OBVIOUS
  <2>2. \E f : f = [k \in 0 .. 0 |-> IF k = 0 THEN m ELSE Op(e, f[k - 1], s[k])]
    BY <2>1
  <2> QED BY <2>2
<1>2. ASSUME NEW M \in 0 .. Len(s), M # Len(s), M \in S PROVE M + 1 \in S
  <2>1. PICK f : f = [k \in 0 .. M |-> IF k = 0 THEN m ELSE Op(e, f[k - 1], s[k])]
    BY <1>2
  <2> DEFINE g == [k \in 0 .. M + 1 |-> IF k = M + 1 THEN Op(e, f[M], s[M + 1]) ELSE f[k]]
  <2>2. \A k \in 0 .. M : g[k] = f[k]
    OBVIOUS
  <2>3. ASSUME NEW k \in 0 .. M + 1 PROVE g[k] = IF k = 0 THEN m ELSE Op(e, g[k - 1], s[k])
    <3>1. CASE k = M + 1
      <4>1. g[k] = Op(e, f[M], s[k]) /\ k - 1 = M /\ g[M] = f[M] /\ k # 0
        BY <3>1, <2>2
      <4> HIDE DEF g
      <4> QED BY <4>1
    <3>2. CASE k # M + 1
      <4>1. k \in 0 .. M /\ (k # 0 => k - 1 \in 0 .. M)
        BY <3>2
      <4>2. f[k] = IF k = 0 THEN m ELSE Op(e, f[k - 1], s[k])
        BY <2>1, <4>1
      <4>3. g[k] = f[k] /\ (k # 0 => g[k - 1] = f[k - 1])
        BY <2>2, <4>1
      <4> HIDE DEF g
      <4> QED BY <4>2, <4>3
    <3> QED BY <3>1, <3>2
  <2>4. g = [k \in 0 .. M + 1 |-> IF k = 0 THEN m ELSE Op(e, g[k - 1], s[k])]
    <3>1. g = [k \in 0 .. M + 1 |-> g[k]]
      OBVIOUS
    <3> HIDE DEF g
    <3> QED BY <2>3, <3>1
  <2> HIDE DEF g
  <2> QED BY <2>4, <1>2
<1> HIDE DEF S
<1>3. \A k \in 0 .. Len(s) : k \in S
  BY <1>1, <1>2, IndexInduction
<1>4. Len(s) \in S
  BY <1>3
<1> USE DEF S
<1> QED BY <1>4 DEF Follows

\* What holds of m and passes over each member of s holds in each state.
THEOREM Invariant ==
  ASSUME NEW e, NEW m, NEW s, Len(s) \in Nat, Inv(e, 0, m),
         \A k \in 0 .. Len(s) - 1 : \A q : Inv(e, k, q) => Inv(e, k + 1, Op(e, q, s[k + 1])),
         NEW f, Follows(f, e, m, s)
  PROVE  \A k \in 0 .. Len(s) : Inv(e, k, f[k])
<1> DEFINE S == {k \in 0 .. Len(s) : Inv(e, k, f[k])}
<1>1. 0 \in S
  BY DEF Follows
<1>2. ASSUME NEW k \in 0 .. Len(s), k # Len(s), k \in S PROVE k + 1 \in S
  <2>1. k \in 0 .. Len(s) - 1 /\ k + 1 \in 0 .. Len(s) /\ k + 1 # 0 /\ k + 1 - 1 = k
    BY <1>2
  <2>2. f[k + 1] = Op(e, f[k], s[k + 1])
    BY <2>1 DEF Follows
  <2>3. Inv(e, k, f[k])
    BY <1>2
  <2> QED BY <2>1, <2>2, <2>3
<1> HIDE DEF S
<1>3. \A k \in 0 .. Len(s) : k \in S
  BY <1>1, <1>2, IndexInduction
<1> USE DEF S
<1> QED BY <1>3

\* The function itself.
Result(e, m, s) ==
    LET after[k \in 0 .. Len(s)] == IF k = 0 THEN m ELSE Op(e, after[k - 1], s[k])
    IN  after

\* The same of the function that Runs of Aig defines, with the body in its place.
THEOREM Kept ==
  ASSUME NEW e, NEW m, NEW s, Len(s) \in Nat, Inv(e, 0, m),
         \A k \in 0 .. Len(s) - 1 : \A q : Inv(e, k, q) => Inv(e, k + 1, Op(e, q, s[k + 1]))
  PROVE  \A k \in 0 .. Len(s) : Inv(e, k, Result(e, m, s)[k])
<1>1. Follows(Result(e, m, s), e, m, s)
  BY Recursion DEF Follows, Result
<1> QED BY <1>1, Invariant
================================================================================
