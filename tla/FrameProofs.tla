----------------------------- MODULE FrameProofs -----------------------------
(***************************************************************************)
(* The stack of saved networks keeps its shape in every session, for any   *)
(* number of networks, any values of the flags and any allocation; and     *)
(* what the commands do to it: which networks are on it, which are lost,   *)
(* and what is saved under each step.                                      *)
(***************************************************************************)
EXTENDS Frame, NtkStackProofs

\* The inductive invariant. StackLive speaks of the stack only; what keeps it
\* true is the shape of all the allocated networks, those that were lost when
\* "backup" was turned off included.
IndInv == TypeOK /\ WellFormed(frm)

LEMMA FlagTypes ==
  ASSUME TypeOK
  PROVE  BackupEnabled \in BOOLEAN /\ NetsToSave \in Nat
<1>1. BackupEnabled \in BOOLEAN
  BY DEF BackupEnabled
<1>2. NetsToSave \in Nat
  BY FrameAssumption DEF TypeOK, NetsToSave
<1> QED BY <1>1, <1>2

LEMMA DispatchesWellFormed ==
  ASSUME IndInv, NEW p \in Dispatches
  PROVE  WellFormed(p) /\ (frm.pNtkCur # NULL => p.pNtkCur \in p.live)
<1>1. WellFormed(p) /\ (frm.pNtkCur # NULL => p.pNtkCur # NULL)
  BY FlagTypes, DispatchedWellFormed DEF IndInv, Dispatches
<1> QED BY <1>1 DEF WellFormed, LinksLive

LEMMA InitIndInv == Init => IndInv
<1> SUFFICES ASSUME Init PROVE IndInv
  OBVIOUS
<1>1. frm \in Frames
  BY DEF Init, FrameAllocate, Frames
<1>2. WellFormed(frm)
  BY <1>1 DEF Init, FrameAllocate, WellFormed, LinksLive, StepsDescend, LinksApart
<1> QED BY <1>1, <1>2 DEF Init, IndInv, TypeOK

\* A command that leaves a well-formed frame keeps the invariant.
LEMMA CommandIndInv ==
  ASSUME IndInv, NEW q, WellFormed(q), Command(q)
  PROVE  IndInv'
BY DEF IndInv, TypeOK, Command, WellFormed

\* A network built at a fresh address and made current.
LEMMA BuiltWellFormed ==
  ASSUME TypeOK, NEW p, WellFormed(p), NEW a \in Fresh(p), NEW n \in Net
  PROVE  WellFormed(ReplaceCurrentNetwork(NtkAlloc(p, a, n), a, BackupEnabled))
BY FlagTypes, AllocWellFormed, ReplaceWellFormed

LEMMA SetCurrentToCopyWellFormed ==
  ASSUME IndInv, NEW x \in frm.live, SetCurrentToCopy(x)
  PROVE  WellFormed(frm')
<1>1. PICK a \in Fresh(frm) :
         frm' = SetCurrentNetwork(NtkDup(frm, x, a), a, NetsToSave)
  BY DEF SetCurrentToCopy
<1> QED BY <1>1, FlagTypes, DupWellFormed, SetCurrentWellFormed DEF IndInv

\* undo and recall change the frame in one of three ways.
LEMMA GoBackIndInv ==
  ASSUME IndInv, UNCHANGED <<backup, savesteps>>,
         request' = <<"undo">> \/ \E s \in Int : request' = <<"recall", s>>,
         WellFormed(frm')
  PROVE  IndInv'
BY DEF IndInv, TypeOK, WellFormed

LEMMA NextIndInv == IndInv /\ [Next]_vars => IndInv'
<1> SUFFICES ASSUME IndInv, [Next]_vars PROVE IndInv'
  OBVIOUS
<1>1. CASE SetFlag
  BY <1>1 DEF IndInv, TypeOK, SetFlag
<1>2. CASE ChangeInPlace
  <2>1. PICK p \in Dispatches, n \in Net : Command([p EXCEPT !.net[p.pNtkCur] = n])
    BY <1>2 DEF ChangeInPlace
  <2>2. WellFormed(p) /\ p.pNtkCur \in p.live
    BY <1>2, DispatchesWellFormed DEF ChangeInPlace
  <2>3. WellFormed([p EXCEPT !.net[p.pNtkCur] = n])
    BY <2>2, InPlaceWellFormed
  <2> QED BY <2>1, <2>3, CommandIndInv
<1>3. CASE ChangeRestored
  <2>1. PICK p \in Dispatches : \E a \in Fresh(p) :
          Command(ReplaceCurrentNetwork(NtkDup(p, p.pNtkCur, a), a, BackupEnabled))
    BY <1>3 DEF ChangeRestored
  <2>a. PICK a \in Fresh(p) :
          Command(ReplaceCurrentNetwork(NtkDup(p, p.pNtkCur, a), a, BackupEnabled))
    BY <2>1
  <2>2. WellFormed(p) /\ p.pNtkCur \in p.live
    BY <1>3, DispatchesWellFormed DEF ChangeRestored
  <2>3. WellFormed(ReplaceCurrentNetwork(NtkDup(p, p.pNtkCur, a), a, BackupEnabled))
    BY <2>2, FlagTypes, DupWellFormed, ReplaceWellFormed DEF IndInv
  <2> QED BY <2>a, <2>3, CommandIndInv
<1>4. CASE ChangeReplace
  <2>1. PICK p \in Dispatches : \E a \in Fresh(p), n \in Net :
          Command(ReplaceCurrentNetwork(NtkAlloc(p, a, n), a, BackupEnabled))
    BY <1>4 DEF ChangeReplace
  <2>a. PICK a \in Fresh(p), n \in Net :
          Command(ReplaceCurrentNetwork(NtkAlloc(p, a, n), a, BackupEnabled))
    BY <2>1
  <2>2. WellFormed(ReplaceCurrentNetwork(NtkAlloc(p, a, n), a, BackupEnabled))
    BY DispatchesWellFormed, BuiltWellFormed DEF IndInv
  <2> QED BY <2>a, <2>2, CommandIndInv
<1>5. CASE ChangeRefused
  <2>1. PICK p \in Dispatches : Command(p)
    BY <1>5 DEF ChangeRefused
  <2> QED BY <2>1, DispatchesWellFormed, CommandIndInv
<1>6. CASE Put
  <2>1. PICK a \in Fresh(frm), n \in Net :
          Command(ReplaceCurrentNetwork(NtkAlloc(frm, a, n), a, BackupEnabled))
    BY <1>6 DEF Put
  <2>2. WellFormed(ReplaceCurrentNetwork(NtkAlloc(frm, a, n), a, BackupEnabled))
    BY BuiltWellFormed DEF IndInv
  <2> QED BY <2>1, <2>2, CommandIndInv
<1>7. CASE Undo
  <2>1. CASE frm.pNtkCur = NULL \/ frm.pBackup[frm.pNtkCur] = NULL
    BY <1>7, <2>1, GoBackIndInv DEF Undo, IndInv
  <2>2. CASE frm.pNtkCur # NULL /\ frm.pBackup[frm.pNtkCur] # NULL
    <3>1. frm.pBackup[frm.pNtkCur] \in frm.live
      BY <2>2 DEF IndInv, WellFormed, LinksLive
    <3> QED BY <1>7, <2>2, <3>1, SetCurrentToCopyWellFormed, GoBackIndInv DEF Undo
  <2> QED BY <2>1, <2>2
<1>8. ASSUME NEW s \in -1 .. MaxSteps, Recall(s)
      PROVE  IndInv'
  <2>1. s \in Int
    OBVIOUS
  <2>2. WellFormed(frm')
    <3>1. CASE UNCHANGED frm
      BY <3>1 DEF IndInv
    <3>2. CASE frm' = DeleteAllNetworks(frm)
      BY <3>2, DeleteAllWellFormed DEF IndInv
    <3>3. CASE /\ AtStep(frm, s) # {}
               /\ SetCurrentToCopy(CHOOSE x \in AtStep(frm, s) : TRUE)
      <4>1. (CHOOSE x \in AtStep(frm, s) : TRUE) \in frm.live
        BY <3>3, StackIsLive DEF AtStep, IndInv
      <4> QED BY <3>3, <4>1, SetCurrentToCopyWellFormed
    <3> QED BY <1>8, <3>1, <3>2, <3>3 DEF Recall
  <2> QED BY <1>8, <2>1, <2>2, GoBackIndInv DEF Recall
<1>9. CASE EmptyAll
  BY <1>9, DeleteAllWellFormed, CommandIndInv DEF EmptyAll, IndInv
<1>10. CASE UNCHANGED vars
  BY <1>10 DEF vars, IndInv, TypeOK
<1> QED BY <1>1, <1>2, <1>3, <1>4, <1>5, <1>6, <1>7, <1>8, <1>9, <1>10 DEF Next

THEOREM SessionIndInv == Spec => []IndInv
BY InitIndInv, NextIndInv, PTL DEF Spec

\* Every state has its type, in every session.
THEOREM SessionTypeOK == Spec => []TypeOK
<1>1. IndInv => TypeOK
  BY DEF IndInv
<1> QED BY <1>1, SessionIndInv, PTL

\* Every procedure that relinks networks leaves lists.
THEOREM SessionWellFormed == Spec => []AlwaysWellFormed
<1>1. IndInv => AlwaysWellFormed
  BY DEF IndInv, AlwaysWellFormed
<1> QED BY <1>1, SessionIndInv, PTL

\* No command ever walks to a network that was freed.
THEOREM SessionStackLive == Spec => []StackLive
<1>1. IndInv => StackLive
  BY StackIsLive DEF IndInv, StackLive
<1> QED BY <1>1, SessionIndInv, PTL

-----------------------------------------------------------------------------
(* What is saved under each step *)

Saved(p) == [s \in {p.iStep[x] : x \in Stack(p)} |->
                p.net[CHOOSE x \in AtStep(p, s) : TRUE]]

LEMMA SavedAt ==
  ASSUME NEW p, WellFormed(p)
  PROVE  /\ DOMAIN Saved(p) = {p.iStep[x] : x \in Stack(p)}
         /\ \A x \in Stack(p) : Saved(p)[p.iStep[x]] = p.net[x]
         /\ Saved(p) = [s \in DOMAIN Saved(p) |-> Saved(p)[s]]
<1>1. ASSUME NEW x \in Stack(p)
      PROVE  (CHOOSE y \in AtStep(p, p.iStep[x]) : TRUE) = x
  <2>1. \A y : y \in AtStep(p, p.iStep[x]) <=> y = x
    BY StepsDiffer DEF AtStep
  <2> QED BY <2>1
<1>2. Saved(p) = [s \in DOMAIN Saved(p) |-> Saved(p)[s]]
  BY DEF Saved
<1>3. /\ DOMAIN Saved(p) = {p.iStep[x] : x \in Stack(p)}
      /\ \A x \in Stack(p) : Saved(p)[p.iStep[x]] = p.net[x]
  BY <1>1 DEF Saved
<1> QED BY <1>2, <1>3

\* A function on the steps of the stack with their logic is what is saved.
LEMMA SavedIs ==
  ASSUME NEW p, WellFormed(p), NEW f, f = [s \in DOMAIN f |-> f[s]],
         DOMAIN f = {p.iStep[x] : x \in Stack(p)},
         \A x \in Stack(p) : f[p.iStep[x]] = p.net[x]
  PROVE  Saved(p) = f
<1>1. Saved(p) = [s \in DOMAIN Saved(p) |-> Saved(p)[s]]
  BY SavedAt
<1>2. DOMAIN f = DOMAIN Saved(p)
  BY SavedAt
<1>3. ASSUME NEW s \in DOMAIN f PROVE f[s] = Saved(p)[s]
  <2>1. PICK x \in Stack(p) : s = p.iStep[x]
    OBVIOUS
  <2> QED BY <2>1, SavedAt
<1> QED BY <1>1, <1>2, <1>3

\* What Append, Restart and Overwrite of UndoHistory are on frames.
Appended(p, q, n) ==
    /\ q.nSteps = p.nSteps + 1
    /\ \E S \in {DOMAIN Saved(p), {s \in DOMAIN Saved(p) : \E t \in DOMAIN Saved(p) : t < s}} :
          Saved(q) = [s \in S \cup {p.nSteps + 1} |->
                         IF s = p.nSteps + 1 THEN n ELSE Saved(p)[s]]

Restarted(p, q, n) ==
    q.nSteps = p.nSteps + 1 /\ Saved(q) = [s \in {p.nSteps + 1} |-> n]

Overwritten(p, q, n) ==
    /\ p.nSteps \in DOMAIN Saved(p) /\ q.nSteps = p.nSteps
    /\ Saved(q) = [Saved(p) EXCEPT ![p.nSteps] = n]

LEMMA SetCurrentSaved ==
  ASSUME NEW p, WellFormed(p), NEW x, Unlinked(p, x), NEW n \in Nat
  PROVE  Appended(p, SetCurrentNetwork(p, x, n), p.net[x])
<1> DEFINE q == SetCurrentNetwork(p, x, n)
           m == p.nSteps + 1
           D == DOMAIN Saved(p)
           L == {s \in D : \E t \in D : t < s}
           f(S) == [s \in S \cup {m} |-> IF s = m THEN p.net[x] ELSE Saved(p)[s]]
<1>1. /\ WellFormed(q)
      /\ q.nSteps = m /\ x \notin Stack(p) /\ x \in Stack(q)
      /\ q.iStep[x] = m /\ q.net[x] = p.net[x]
      /\ \A y \in Stack(q) \ {x} : q.net[y] = p.net[y] /\ q.iStep[y] = p.iStep[y]
  BY SetCurrentStack
<1>2. \/ Stack(q) = Stack(p) \cup {x}
      \/ \E b \in Stack(p) : /\ Stack(q) = (Stack(p) \cup {x}) \ {b}
                             /\ \A y \in Stack(p) : p.iStep[b] <= p.iStep[y]
  BY SetCurrentStack
<1>a. /\ D = {p.iStep[y] : y \in Stack(p)}
      /\ \A y \in Stack(p) : Saved(p)[p.iStep[y]] = p.net[y]
  BY SavedAt
<1>b. /\ \A y \in Stack(p) : p.iStep[y] \in Nat /\ p.iStep[y] < m
      /\ m \in Nat
  BY StackSteps
<1>3. /\ D = {p.iStep[y] : y \in Stack(p)}
      /\ \A y \in Stack(p) : Saved(p)[p.iStep[y]] = p.net[y]
      /\ \A y \in Stack(p) : p.iStep[y] \in Nat /\ p.iStep[y] < m
      /\ m \in Nat
  BY <1>a, <1>b
<1> HIDE DEF q, m, D
<1>4. ASSUME NEW S, S \subseteq D,
             S \cup {m} = {q.iStep[y] : y \in Stack(q)}, Stack(q) \subseteq Stack(p) \cup {x}
      PROVE  Saved(q) = f(S)
  <2>1. DOMAIN f(S) = {q.iStep[y] : y \in Stack(q)} /\ f(S) = [s \in DOMAIN f(S) |-> f(S)[s]]
    BY <1>4
  <2>2. ASSUME NEW y \in Stack(q) PROVE f(S)[q.iStep[y]] = q.net[y]
    <3>1. CASE y = x
      BY <1>1, <3>1
    <3>2. CASE y # x
      <4>1. y \in Stack(p) /\ q.iStep[y] = p.iStep[y] /\ q.net[y] = p.net[y]
        BY <1>1, <1>4, <3>2
      <4>2. q.iStep[y] \in S \cup {m} /\ q.iStep[y] # m
        BY <1>3, <1>4, <4>1
      <4> QED BY <1>3, <4>1, <4>2
    <3> QED BY <3>1, <3>2
  <2> HIDE DEF f
  <2> QED BY <1>1, <2>1, <2>2, SavedIs
<1>5. \E S \in {D, L} : Saved(q) = f(S)
  <2>1. CASE Stack(q) = Stack(p) \cup {x}
    <3>1. D \cup {m} = {q.iStep[y] : y \in Stack(q)}
      BY <1>1, <1>3, <2>1
    <3> QED BY <1>4, <2>1, <3>1
  <2>2. CASE \E b \in Stack(p) : /\ Stack(q) = (Stack(p) \cup {x}) \ {b}
                                 /\ \A y \in Stack(p) : p.iStep[b] <= p.iStep[y]
    <3>1. PICK b \in Stack(p) : /\ Stack(q) = (Stack(p) \cup {x}) \ {b}
                                /\ \A y \in Stack(p) : p.iStep[b] <= p.iStep[y]
      BY <2>2
    <3>2. L = {p.iStep[y] : y \in Stack(p) \ {b}}
      <4>1. ASSUME NEW s \in L PROVE s \in {p.iStep[y] : y \in Stack(p) \ {b}}
        <5>1. PICK y \in Stack(p), z \in Stack(p) : s = p.iStep[y] /\ p.iStep[z] < s
          BY <1>3
        <5> QED BY <1>3, <3>1, <5>1
      <4>2. ASSUME NEW y \in Stack(p) \ {b} PROVE p.iStep[y] \in L
        <5>1. p.iStep[b] < p.iStep[y]
          BY <1>3, <3>1, StepsDiffer
        <5> QED BY <1>3, <5>1
      <4> QED BY <4>1, <4>2
    <3>3. Stack(q) = (Stack(p) \ {b}) \cup {x}
      BY <1>1, <3>1
    <3>4. L \cup {m} = {q.iStep[y] : y \in Stack(q)}
      <4> HIDE DEF L
      <4> QED BY <1>1, <3>2, <3>3
    <3> QED BY <1>4, <3>3, <3>4
  <2> QED BY <1>2, <2>1, <2>2
<1> QED BY <1>1, <1>5 DEF Appended, q, m, D

-----------------------------------------------------------------------------
(* The three things a procedure may do wrong: lose a network, let the stack *)
(* grow past its limit, or disturb what is saved.                          *)

NoneLost(p, q) == q.live \ Stack(q) \subseteq p.live \ Stack(p)

WithinLimit(p, q, n) == \/ Cardinality(Stack(q)) <= Cardinality(Stack(p))
                        \/ Cardinality(Stack(q)) <= n + 1

LEMMA AllocSaved ==
  ASSUME NEW p, WellFormed(p), NEW a \in Fresh(p), NEW n \in Net
  PROVE  LET q == NtkAlloc(p, a, n) IN
         Saved(q) = Saved(p) /\ q.live \ Stack(q) = (p.live \ Stack(p)) \cup {a}
<1> DEFINE q == NtkAlloc(p, a, n)
<1>1. /\ WellFormed(q) /\ Stack(q) = Stack(p) /\ q.live = p.live \cup {a}
      /\ \A x \in Stack(p) : q.net[x] = p.net[x] /\ q.iStep[x] = p.iStep[x]
      /\ a \notin Stack(p)
  BY AllocWellFormed, AllocStack, StackIsLive DEF Fresh
<1> HIDE DEF q
<1>2. /\ DOMAIN Saved(p) = {p.iStep[x] : x \in Stack(p)}
      /\ \A x \in Stack(p) : Saved(p)[p.iStep[x]] = p.net[x]
      /\ Saved(p) = [s \in DOMAIN Saved(p) |-> Saved(p)[s]]
  BY SavedAt
<1>3. /\ DOMAIN Saved(p) = {q.iStep[x] : x \in Stack(q)}
      /\ \A x \in Stack(q) : Saved(p)[q.iStep[x]] = q.net[x]
  BY <1>1, <1>2
<1>4. Saved(q) = Saved(p)
  BY <1>1, <1>2, <1>3, SavedIs
<1> QED BY <1>1, <1>4 DEF q

\* A copy of an allocated network becomes current: undo, recall, dispatch.
LEMMA CopySaved ==
  ASSUME NEW p, WellFormed(p), NEW x \in p.live, NEW a \in Fresh(p), NEW n \in Nat
  PROVE  LET q == SetCurrentNetwork(NtkDup(p, x, a), a, n) IN
         /\ WellFormed(q) /\ Appended(p, q, p.net[x])
         /\ NoneLost(p, q) /\ WithinLimit(p, q, n)
         /\ q.pNtkCur = a /\ q.net[a] = p.net[x]
         /\ q.pBackup[a] # NULL =>
               q.pBackup[a] = p.pNtkCur /\ q.net[p.pNtkCur] = p.net[p.pNtkCur]
<1> DEFINE d == NtkAlloc(p, a, p.net[x])
           q == SetCurrentNetwork(d, a, n)
<1>1. p.net[x] \in Net
  BY DEF WellFormed, LinksLive
<1>2. /\ WellFormed(d) /\ Unlinked(d, a) /\ d.pNtkCur = p.pNtkCur
      /\ Stack(d) = Stack(p) /\ d.live = p.live \cup {a} /\ d.nSteps = p.nSteps
      /\ d.net[a] = p.net[x]
      /\ \A y \in Stack(p) : d.net[y] = p.net[y]
      /\ Saved(d) = Saved(p)
  BY <1>1, AllocWellFormed, AllocStack, AllocSaved
<1> HIDE DEF d
<1>3. /\ WellFormed(q) /\ q.pNtkCur = a /\ q.net[a] = d.net[a]
      /\ q.pBackup[a] \in {NULL, d.pNtkCur} /\ a \in Stack(q)
      /\ \A y \in Stack(q) \ {a} : q.net[y] = d.net[y]
      /\ \/ /\ Stack(q) = Stack(d) \cup {a} /\ q.live = d.live
            /\ Cardinality(Stack(q)) <= n + 1
         \/ \E b \in Stack(d) :
               /\ Stack(q) = (Stack(d) \cup {a}) \ {b} /\ q.live = d.live \ {b}
               /\ Cardinality(Stack(q)) = Cardinality(Stack(d))
  BY <1>2, SetCurrentStack
<1>4. Appended(d, q, d.net[a])
  BY <1>2, SetCurrentSaved
<1> HIDE DEF q
<1>5. Appended(p, q, p.net[x])
  BY <1>2, <1>4 DEF Appended
<1>6. NoneLost(p, q) /\ WithinLimit(p, q, n)
  <2>1. Cardinality(Stack(q)) \in Nat /\ Cardinality(Stack(p)) \in Nat
    BY StackFinite
  <2> QED BY <1>2, <1>3, <2>1 DEF NoneLost, WithinLimit
<1>7. ASSUME q.pBackup[a] # NULL
      PROVE  q.pBackup[a] = p.pNtkCur /\ q.net[p.pNtkCur] = p.net[p.pNtkCur]
  <2>1. q.pBackup[a] = p.pNtkCur /\ p.pNtkCur # NULL
    BY <1>2, <1>3, <1>7
  <2>2. p.pNtkCur \in Stack(p) /\ p.pNtkCur \in Stack(q)
    BY <1>3, <1>7, <2>1, StackSteps
  <2>3. p.pNtkCur # a
    BY <1>2, <2>1 DEF Unlinked
  <2> QED BY <1>2, <1>3, <2>1, <2>2, <2>3
<1> QED BY <1>2, <1>3, <1>5, <1>6, <1>7 DEF NtkDup, q, d

\* Two networks of the same logic change places.
LEMMA SwapSaved ==
  ASSUME NEW p, WellFormed(p), p.pNtkCur # NULL,
         p.pBackup[p.pNtkCur] # NULL => p.net[p.pBackup[p.pNtkCur]] = p.net[p.pNtkCur]
  PROVE  LET q == SwapCurrentAndBackup(p) IN
         /\ Stack(q) = Stack(p) /\ q.live = p.live /\ q.nSteps = p.nSteps
         /\ Saved(q) = Saved(p)
<1>1. CASE p.pBackup[p.pNtkCur] = NULL
  BY <1>1 DEF SwapCurrentAndBackup
<1>2. CASE p.pBackup[p.pNtkCur] # NULL
  <2> DEFINE cur == p.pNtkCur
             back == p.pBackup[cur]
             q == SwapCurrentAndBackup(p)
  <2>1. /\ WellFormed(q) /\ Stack(q) = Stack(p) /\ q.live = p.live
        /\ q.nSteps = p.nSteps /\ q.net = p.net
        /\ back \in Stack(p) /\ cur \in Stack(p)
        /\ \A y \in Stack(p) : q.iStep[y] = IF y = back THEN p.iStep[cur]
                                            ELSE IF y = cur THEN p.iStep[back]
                                            ELSE p.iStep[y]
    BY <1>2, SwapStack, SwapWellFormed
  <2>e. p.net[back] = p.net[cur]
    BY <1>2
  <2> HIDE DEF q, back, cur
  <2>2. /\ DOMAIN Saved(p) = {p.iStep[x] : x \in Stack(p)}
        /\ \A x \in Stack(p) : Saved(p)[p.iStep[x]] = p.net[x]
        /\ Saved(p) = [s \in DOMAIN Saved(p) |-> Saved(p)[s]]
    BY SavedAt
  <2>3. \A x \in Stack(q) : Saved(p)[q.iStep[x]] = q.net[x]
    BY <2>1, <2>e, <2>2
  <2>4. {q.iStep[x] : x \in Stack(q)} = {p.iStep[x] : x \in Stack(p)}
    <3>1. ASSUME NEW x \in Stack(p) PROVE \E y \in Stack(p) : q.iStep[x] = p.iStep[y]
      BY <2>1
    <3>2. ASSUME NEW x \in Stack(p) PROVE \E y \in Stack(p) : q.iStep[y] = p.iStep[x]
      BY <2>1
    <3>3. Stack(q) = Stack(p)
      BY <2>1
    <3> QED BY <3>1, <3>2, <3>3
  <2>5. Saved(q) = Saved(p)
    BY <2>1, <2>2, <2>3, <2>4, SavedIs
  <2> QED BY <2>1, <2>5 DEF q
<1> QED BY <1>1, <1>2

LEMMA DispatchedSaved ==
  ASSUME NEW p, WellFormed(p), NEW fBackup \in BOOLEAN, NEW n \in Nat,
         NEW q \in Dispatched(p, fBackup, n)
  PROVE  /\ NoneLost(p, q) /\ WithinLimit(p, q, n)
         /\ \/ q = p /\ (p.pNtkCur = NULL \/ ~fBackup)
            \/ /\ fBackup /\ p.pNtkCur # NULL /\ q.pNtkCur # NULL
               /\ Appended(p, q, p.net[p.pNtkCur]) /\ p.net[p.pNtkCur] \in Net
<1>1. CASE p.pNtkCur = NULL \/ ~fBackup
  <2>1. Cardinality(Stack(p)) \in Nat
    BY StackFinite
  <2> QED BY <1>1, <2>1 DEF Dispatched, NoneLost, WithinLimit
<1>2. CASE p.pNtkCur # NULL /\ fBackup
  <2>1. PICK a \in Fresh(p) :
          q = SwapCurrentAndBackup(SetCurrentNetwork(NtkDup(p, p.pNtkCur, a), a, n))
    BY <1>2 DEF Dispatched
  <2> DEFINE r == SetCurrentNetwork(NtkDup(p, p.pNtkCur, a), a, n)
  <2>2. p.pNtkCur \in p.live /\ p.net[p.pNtkCur] \in Net /\ a # NULL
    BY <1>2, StackAssumption DEF WellFormed, LinksLive, Fresh
  <2>3. /\ WellFormed(r) /\ Appended(p, r, p.net[p.pNtkCur])
        /\ NoneLost(p, r) /\ WithinLimit(p, r, n)
        /\ r.pNtkCur = a /\ r.net[a] = p.net[p.pNtkCur]
        /\ r.pBackup[a] # NULL =>
              r.pBackup[a] = p.pNtkCur /\ r.net[p.pNtkCur] = p.net[p.pNtkCur]
    BY <2>2, CopySaved
  <2> HIDE DEF r
  <2>4. /\ Stack(q) = Stack(r) /\ q.live = r.live /\ q.nSteps = r.nSteps
        /\ Saved(q) = Saved(r)
    BY <2>1, <2>2, <2>3, SwapSaved DEF r
  <2>5. q.pNtkCur # NULL
    BY <1>2, DispatchedWellFormed
  <2> QED BY <1>2, <2>2, <2>3, <2>4, <2>5 DEF Appended, NoneLost, WithinLimit
<1> QED BY <1>1, <1>2

LEMMA InPlaceSaved ==
  ASSUME NEW p, WellFormed(p), p.pNtkCur # NULL, NEW n \in Net
  PROVE  LET q == [p EXCEPT !.net[p.pNtkCur] = n] IN
         Overwritten(p, q, n) /\ Stack(q) = Stack(p) /\ q.live = p.live
<1> DEFINE c == p.pNtkCur
           q == [p EXCEPT !.net[c] = n]
           f == [Saved(p) EXCEPT ![p.nSteps] = n]
<1>a. c \in Stack(p) /\ p.iStep[c] = p.nSteps
  BY StackSteps
<1>b. p.nSteps \in DOMAIN Saved(p)
  <2>1. DOMAIN Saved(p) = {p.iStep[x] : x \in Stack(p)}
    BY SavedAt
  <2> QED BY <1>a, <2>1
<1>1. /\ c \in Stack(p) /\ c \in p.live /\ p.iStep[c] = p.nSteps
      /\ p.nSteps \in DOMAIN Saved(p) /\ Stack(p) \subseteq Addr
  BY <1>a, <1>b, StackIsLive DEF Stack
<1>2. /\ WellFormed(q) /\ q.pNtkCur = p.pNtkCur /\ q.pBackup = p.pBackup
      /\ q.iStep = p.iStep /\ q.nSteps = p.nSteps /\ q.live = p.live
      /\ \A y \in Addr : q.net[y] = IF y = c THEN n ELSE p.net[y]
  BY <1>1, InPlaceWellFormed DEF WellFormed, Frames
<1> HIDE DEF q, c
<1>3. Stack(q) = Stack(p)
  BY <1>2 DEF Stack, HoldsWalk
<1>4. /\ DOMAIN Saved(p) = {p.iStep[x] : x \in Stack(p)}
      /\ \A x \in Stack(p) : Saved(p)[p.iStep[x]] = p.net[x]
  BY SavedAt
<1>5. ASSUME NEW x \in Stack(q) PROVE f[q.iStep[x]] = q.net[x]
  <2>1. p.iStep[x] \in DOMAIN Saved(p) /\ (p.iStep[x] = p.nSteps => x = c)
    BY <1>1, <1>3, <1>4, StepsDiffer
  <2> QED BY <1>1, <1>2, <1>3, <1>4, <2>1
<1>6. DOMAIN f = {q.iStep[x] : x \in Stack(q)} /\ f = [s \in DOMAIN f |-> f[s]]
  BY <1>2, <1>3, <1>4, ZenonT(30)
<1> HIDE DEF f
<1>7. Saved(q) = f
  BY <1>2, <1>5, <1>6, SavedIs
<1> QED BY <1>1, <1>2, <1>3, <1>7 DEF Overwritten, q, c, f

\* A network built at a fresh address takes the place of the current one.
LEMMA BuiltSaved ==
  ASSUME NEW p, WellFormed(p), NEW a \in Fresh(p), NEW n \in Net, NEW fBackup \in BOOLEAN
  PROVE  LET q == ReplaceCurrentNetwork(NtkAlloc(p, a, n), a, fBackup) IN
         /\ IF p.pNtkCur # NULL /\ fBackup THEN Overwritten(p, q, n) ELSE Restarted(p, q, n)
         /\ fBackup => NoneLost(p, q)
         /\ \/ Cardinality(Stack(q)) = Cardinality(Stack(p))
            \/ Cardinality(Stack(q)) = 1
<1> DEFINE d == NtkAlloc(p, a, n)
           q == ReplaceCurrentNetwork(d, a, fBackup)
<1>1. /\ WellFormed(d) /\ Unlinked(d, a) /\ d.pNtkCur = p.pNtkCur
      /\ Stack(d) = Stack(p) /\ d.live = p.live \cup {a} /\ d.nSteps = p.nSteps
      /\ d.net[a] = n
      /\ \A y \in Stack(p) : d.net[y] = p.net[y] /\ d.iStep[y] = p.iStep[y]
      /\ Saved(d) = Saved(p) /\ d.live \ Stack(d) = (p.live \ Stack(p)) \cup {a}
  BY AllocWellFormed, AllocStack, AllocSaved
<1> HIDE DEF d
<1>2. WellFormed(q)
  BY <1>1, ReplaceWellFormed
<1>3. CASE p.pNtkCur # NULL /\ fBackup
  <2> DEFINE c == p.pNtkCur
             f == [Saved(p) EXCEPT ![p.nSteps] = n]
  <2>1. /\ Stack(q) = (Stack(p) \ {c}) \cup {a} /\ a \notin Stack(p) /\ c \in Stack(p)
        /\ q.live = d.live \ {c} /\ q.nSteps = p.nSteps
        /\ q.net[a] = n /\ q.iStep[a] = d.iStep[c]
        /\ \A y \in Stack(p) \ {c} : q.net[y] = d.net[y] /\ q.iStep[y] = d.iStep[y]
    <3>1. q = Replaced(d, a)
      BY <1>1, <1>3 DEF ReplaceCurrentNetwork
    <3> HIDE DEF q, c
    <3>2. d.pNtkCur = c /\ c # NULL
      BY <1>1, <1>3 DEF c
    <3>3. /\ Stack(q) = (Stack(d) \ {c}) \cup {a} /\ a \notin Stack(d) /\ c \in Stack(d)
          /\ q.live = d.live \ {c} /\ q.nSteps = d.nSteps
          /\ q.net[a] = d.net[a] /\ q.iStep[a] = d.iStep[c]
          /\ \A y \in Stack(d) \ {c} : q.net[y] = d.net[y] /\ q.iStep[y] = d.iStep[y]
      BY <1>1, <3>1, <3>2, ReplacedStack
    <3> QED BY <1>1, <3>3
  <2> HIDE DEF q, c
  <2>2. /\ DOMAIN Saved(p) = {p.iStep[x] : x \in Stack(p)}
        /\ \A x \in Stack(p) : Saved(p)[p.iStep[x]] = p.net[x]
    BY SavedAt
  <2>3. p.iStep[c] = p.nSteps /\ p.nSteps \in DOMAIN Saved(p)
    BY <1>3, <2>2, StackSteps DEF c
  <2>4. ASSUME NEW x \in Stack(q) PROVE f[q.iStep[x]] = q.net[x]
    <3>1. CASE x = a
      BY <1>1, <2>1, <2>3, <3>1
    <3>2. CASE x # a
      <4>1. /\ x \in Stack(p) /\ q.iStep[x] = p.iStep[x] /\ q.net[x] = p.net[x]
            /\ x # c
        BY <1>1, <2>1, <3>2
      <4>2. p.iStep[x] # p.nSteps
        BY <2>1, <2>3, <4>1, StepsDiffer
      <4> QED BY <2>2, <4>1, <4>2
    <3> QED BY <3>1, <3>2
  <2>5. DOMAIN f = {q.iStep[x] : x \in Stack(q)} /\ f = [s \in DOMAIN f |-> f[s]]
    <3>1. {q.iStep[x] : x \in Stack(q)} = {p.iStep[x] : x \in Stack(p)}
      BY <1>1, <2>1
    <3> QED BY <2>2, <3>1
  <2> HIDE DEF f
  <2>6. Saved(q) = f
    BY <1>2, <2>4, <2>5, SavedIs
  <2>7. Overwritten(p, q, n)
    BY <2>1, <2>3, <2>6 DEF Overwritten, f
  <2>8. NoneLost(p, q)
    BY <1>1, <2>1 DEF NoneLost
  <2>9. Cardinality(Stack(q)) = Cardinality(Stack(p))
    <3>1. /\ Cardinality(Stack(p) \ {c}) = Cardinality(Stack(p)) - 1
          /\ IsFiniteSet(Stack(p) \ {c}) /\ Cardinality(Stack(p)) \in Nat
      BY <2>1, StackFinite, FS_RemoveElement
    <3>2. Cardinality((Stack(p) \ {c}) \cup {a}) = Cardinality(Stack(p) \ {c}) + 1
      BY <2>1, <3>1, FS_AddElement
    <3> QED BY <2>1, <3>1, <3>2
  <2> QED BY <1>3, <2>7, <2>8, <2>9 DEF q, d
<1>4. CASE ~(p.pNtkCur # NULL /\ fBackup)
  <2> DEFINE m == p.nSteps + 1
             f == [s \in {m} |-> n]
  <2>1. q = ReplacedUnsaved(d, a)
    BY <1>1, <1>4 DEF ReplaceCurrentNetwork
  <2>2. /\ Stack(q) = {a} /\ q.live = d.live \ {p.pNtkCur}
        /\ q.nSteps = m /\ q.iStep[a] = m /\ q.net[a] = n
    BY <1>1, <2>1, ReplacedUnsavedStack
  <2> HIDE DEF q
  <2>3. /\ DOMAIN f = {q.iStep[x] : x \in Stack(q)} /\ f = [s \in DOMAIN f |-> f[s]]
        /\ \A x \in Stack(q) : f[q.iStep[x]] = q.net[x]
    BY <2>2
  <2> HIDE DEF f, m
  <2>4. Saved(q) = f
    BY <1>2, <2>3, SavedIs
  <2>5. Restarted(p, q, n)
    BY <2>2, <2>4 DEF Restarted, f, m
  <2>6. Cardinality(Stack(q)) = 1
    BY <2>2, FS_Singleton
  <2>7. ASSUME fBackup PROVE NoneLost(p, q)
    BY <1>1, <1>4, <2>2, <2>7, EmptyStack DEF NoneLost
  <2> QED BY <1>4, <2>5, <2>6, <2>7 DEF q, d
<1> QED BY <1>3, <1>4

\* What is done to the copy that was appended is what was appended.
LEMMA AppendedThenOverwritten ==
  ASSUME NEW p, NEW q, NEW r, NEW k, NEW n, p.nSteps \in Nat,
         Appended(p, q, k), Overwritten(q, r, n)
  PROVE  Appended(p, r, n)
<1> DEFINE m == p.nSteps + 1
<1>1. PICK S \in {DOMAIN Saved(p), {s \in DOMAIN Saved(p) : \E t \in DOMAIN Saved(p) : t < s}} :
         Saved(q) = [s \in S \cup {m} |-> IF s = m THEN k ELSE Saved(p)[s]]
  BY DEF Appended
<1>2. q.nSteps = m /\ r.nSteps = m /\ Saved(r) = [Saved(q) EXCEPT ![m] = n]
  BY DEF Appended, Overwritten
<1> HIDE DEF m
<1>3. Saved(r) = [s \in S \cup {m} |-> IF s = m THEN n ELSE Saved(p)[s]]
  BY <1>1, <1>2
<1> QED BY <1>1, <1>2, <1>3 DEF Appended, m

-----------------------------------------------------------------------------
(* The commands *)

Harmless(p, q) == (BackupEnabled => NoneLost(p, q)) /\ WithinLimit(p, q, NetsToSave)

Unchanged(p, q) == Saved(q) = Saved(p) /\ q.nSteps = p.nSteps

\* What a command other than undo and recall may do to what is saved.
OtherStep(p, q) ==
    \/ \E n \in Net : Appended(p, q, n) \/ Restarted(p, q, n) \/ Overwritten(p, q, n)
    \/ Saved(q) = Abstract!Empty /\ q.nSteps = p.nSteps
    \/ Unchanged(p, q)

\* What going back to step s does to it.
GoneBackTo(p, q, s) ==
    IF s \in DOMAIN Saved(p) \ {p.nSteps} THEN Appended(p, q, Saved(p)[s])
    ELSE Unchanged(p, q)

LEMMA NoChange ==
  ASSUME NEW p
  PROVE  Harmless(p, p) /\ Unchanged(p, p)
<1>1. Cardinality(Stack(p)) \in Nat
  BY StackFinite
<1> QED BY <1>1 DEF Harmless, Unchanged, NoneLost, WithinLimit

LEMMA DeleteAllSaved ==
  ASSUME NEW p, WellFormed(p), NetsToSave \in Nat
  PROVE  LET q == DeleteAllNetworks(p) IN
         Saved(q) = Abstract!Empty /\ q.nSteps = p.nSteps /\ Harmless(p, q)
<1> DEFINE q == DeleteAllNetworks(p)
<1>1. WellFormed(q) /\ Stack(q) = {} /\ q.live = p.live \ Stack(p) /\ q.nSteps = p.nSteps
  BY DeleteAllWellFormed, DeleteAllStack
<1> HIDE DEF q
<1>2. Saved(q) = Abstract!Empty
  BY <1>1 DEF Saved, Abstract!Empty
<1>3. Cardinality(Stack(q)) = 0 /\ Cardinality(Stack(p)) \in Nat
  BY <1>1, StackFinite, FS_EmptySet
<1> QED BY <1>1, <1>2, <1>3 DEF q, Harmless, NoneLost, WithinLimit

LEMMA DispatchesSaved ==
  ASSUME IndInv, NEW p \in Dispatches
  PROVE  /\ WellFormed(p) /\ NoneLost(frm, p) /\ WithinLimit(frm, p, NetsToSave)
         /\ \/ p = frm /\ (frm.pNtkCur = NULL \/ ~BackupEnabled)
            \/ /\ BackupEnabled /\ frm.pNtkCur # NULL /\ p.pNtkCur # NULL
               /\ \E n \in Net : Appended(frm, p, n)
<1>1. BackupEnabled \in BOOLEAN /\ NetsToSave \in Nat /\ WellFormed(frm)
  BY FlagTypes DEF IndInv
<1>2. WellFormed(p)
  BY DispatchesWellFormed
<1>3. p \in Dispatched(frm, BackupEnabled, NetsToSave)
  BY DEF Dispatches
<1> HIDE DEF BackupEnabled, NetsToSave
<1> QED BY <1>1, <1>2, <1>3, DispatchedSaved

\* After the dispatch a network is built and made current.
LEMMA BuiltStep ==
  ASSUME IndInv, NEW p \in Dispatches \cup {frm}, NEW a \in Fresh(p), NEW n \in Net
  PROVE  LET q == ReplaceCurrentNetwork(NtkAlloc(p, a, n), a, BackupEnabled) IN
         OtherStep(frm, q) /\ Harmless(frm, q)
<1> DEFINE q == ReplaceCurrentNetwork(NtkAlloc(p, a, n), a, BackupEnabled)
<1>1. BackupEnabled \in BOOLEAN /\ NetsToSave \in Nat /\ WellFormed(frm) /\ WellFormed(p)
  BY FlagTypes, DispatchesWellFormed DEF IndInv
<1>2. /\ IF p.pNtkCur # NULL /\ BackupEnabled THEN Overwritten(p, q, n)
         ELSE Restarted(p, q, n)
      /\ BackupEnabled => NoneLost(p, q)
      /\ \/ Cardinality(Stack(q)) = Cardinality(Stack(p))
         \/ Cardinality(Stack(q)) = 1
  BY <1>1, BuiltSaved
<1> HIDE DEF q
<1>3. /\ Cardinality(Stack(q)) \in Nat /\ Cardinality(Stack(p)) \in Nat
      /\ Cardinality(Stack(frm)) \in Nat /\ frm.nSteps \in Nat
  BY <1>1, StackFinite, StackSteps
<1>4. NoneLost(frm, p) /\ WithinLimit(frm, p, NetsToSave)
  BY <1>1, DispatchesSaved, NoChange, <1>3 DEF NoneLost, WithinLimit
<1>5. Harmless(frm, q)
  BY <1>1, <1>2, <1>3, <1>4 DEF Harmless, NoneLost, WithinLimit
<1>6. OtherStep(frm, q)
  <2>1. CASE p = frm
    BY <1>2, <2>1 DEF OtherStep
  <2>2. CASE p # frm
    <3>1. /\ BackupEnabled /\ p.pNtkCur # NULL
          /\ \E k \in Net : Appended(frm, p, k)
      BY <2>2, DispatchesSaved
    <3>2. PICK k \in Net : Appended(frm, p, k)
      BY <3>1
    <3>3. Appended(frm, q, n)
      BY <1>2, <1>3, <3>1, <3>2, AppendedThenOverwritten
    <3> QED BY <3>3 DEF OtherStep
  <2> QED BY <2>1, <2>2
<1> QED BY <1>5, <1>6 DEF q

LEMMA OtherCommands ==
  ASSUME IndInv,
         \/ SetFlag \/ ChangeInPlace \/ ChangeRestored \/ ChangeReplace
         \/ ChangeRefused \/ Put \/ EmptyAll
  PROVE  request' = <<"other">> /\ OtherStep(frm, frm') /\ Harmless(frm, frm')
<1>1. /\ BackupEnabled \in BOOLEAN /\ NetsToSave \in Nat /\ WellFormed(frm)
      /\ frm.nSteps \in Nat
  BY FlagTypes, StackSteps DEF IndInv
<1>2. CASE SetFlag
  BY <1>2, NoChange DEF SetFlag, OtherStep
<1>3. CASE ChangeInPlace
  <2>1. PICK p \in Dispatches, n \in Net : Command([p EXCEPT !.net[p.pNtkCur] = n])
    BY <1>3 DEF ChangeInPlace
  <2> DEFINE q == [p EXCEPT !.net[p.pNtkCur] = n]
  <2>2. /\ WellFormed(p) /\ NoneLost(frm, p) /\ WithinLimit(frm, p, NetsToSave)
        /\ \/ p = frm \/ \E k \in Net : Appended(frm, p, k)
        /\ p.pNtkCur # NULL
    BY <1>3, DispatchesSaved DEF ChangeInPlace
  <2>3. Overwritten(p, q, n) /\ Stack(q) = Stack(p) /\ q.live = p.live
    BY <2>2, InPlaceSaved
  <2>4. frm' = q /\ request' = <<"other">>
    BY <2>1 DEF Command
  <2> HIDE DEF q
  <2>5. Harmless(frm, q)
    BY <2>2, <2>3 DEF Harmless, NoneLost, WithinLimit
  <2>6. OtherStep(frm, q)
    <3>1. CASE p = frm
      BY <2>3, <3>1 DEF OtherStep
    <3>2. CASE \E k \in Net : Appended(frm, p, k)
      BY <1>1, <2>3, <3>2, AppendedThenOverwritten DEF OtherStep
    <3> QED BY <2>2, <3>1, <3>2
  <2> QED BY <2>4, <2>5, <2>6
<1>4. CASE ChangeRestored
  <2>1. PICK p \in Dispatches : \E a \in Fresh(p) :
          Command(ReplaceCurrentNetwork(NtkDup(p, p.pNtkCur, a), a, BackupEnabled))
    BY <1>4 DEF ChangeRestored
  <2>a. PICK a \in Fresh(p) :
          Command(ReplaceCurrentNetwork(NtkDup(p, p.pNtkCur, a), a, BackupEnabled))
    BY <2>1
  <2>2. p.net[p.pNtkCur] \in Net
    BY <1>4, DispatchesWellFormed DEF ChangeRestored, WellFormed, LinksLive
  <2> QED BY <2>a, <2>2, BuiltStep DEF Command, NtkDup
<1>5. CASE ChangeReplace
  <2>1. PICK p \in Dispatches : \E a \in Fresh(p), n \in Net :
          Command(ReplaceCurrentNetwork(NtkAlloc(p, a, n), a, BackupEnabled))
    BY <1>5 DEF ChangeReplace
  <2>a. PICK a \in Fresh(p), n \in Net :
          Command(ReplaceCurrentNetwork(NtkAlloc(p, a, n), a, BackupEnabled))
    BY <2>1
  <2> QED BY <2>a, BuiltStep DEF Command
<1>6. CASE ChangeRefused
  <2>1. PICK p \in Dispatches : Command(p)
    BY <1>6 DEF ChangeRefused
  <2>2. Harmless(frm, p) /\ OtherStep(frm, p)
    BY DispatchesSaved, NoChange DEF Harmless, OtherStep
  <2> QED BY <2>1, <2>2 DEF Command
<1>7. CASE Put
  <2>1. PICK a \in Fresh(frm), n \in Net :
          Command(ReplaceCurrentNetwork(NtkAlloc(frm, a, n), a, BackupEnabled))
    BY <1>7 DEF Put
  <2> QED BY <2>1, BuiltStep DEF Command
<1>8. CASE EmptyAll
  BY <1>1, <1>8, DeleteAllSaved DEF EmptyAll, Command, OtherStep
<1> QED BY <1>2, <1>3, <1>4, <1>5, <1>6, <1>7, <1>8

LEMMA SetCurrentToCopySaved ==
  ASSUME IndInv, NEW x \in Stack(frm), SetCurrentToCopy(x)
  PROVE  Appended(frm, frm', Saved(frm)[frm.iStep[x]]) /\ Harmless(frm, frm')
<1>1. NetsToSave \in Nat /\ WellFormed(frm) /\ x \in frm.live
  BY FlagTypes, StackIsLive DEF IndInv
<1>2. Saved(frm)[frm.iStep[x]] = frm.net[x]
  BY <1>1, SavedAt
<1>3. PICK a \in Fresh(frm) :
         frm' = SetCurrentNetwork(NtkDup(frm, x, a), a, NetsToSave)
  BY DEF SetCurrentToCopy
<1>4. /\ Appended(frm, frm', frm.net[x])
      /\ NoneLost(frm, frm') /\ WithinLimit(frm, frm', NetsToSave)
  BY <1>1, <1>3, CopySaved
<1> QED BY <1>2, <1>4 DEF Harmless

LEMMA UndoGoesBack ==
  ASSUME IndInv, Undo
  PROVE  /\ request' = <<"undo">>
         /\ GoneBackTo(frm, frm', frm.nSteps - 1) /\ Harmless(frm, frm')
<1> DEFINE c == frm.pNtkCur
           b == frm.pBackup[c]
<1>1. WellFormed(frm) /\ request' = <<"undo">> /\ frm.nSteps \in Nat
  BY StackSteps DEF IndInv, Undo
<1>2. DOMAIN Saved(frm) = {frm.iStep[x] : x \in Stack(frm)}
  BY <1>1, SavedAt
<1>3. CASE c = NULL
  <2>1. DOMAIN Saved(frm) = {}
    BY <1>2, <1>3, EmptyStack
  <2> QED BY <1>1, <1>3, <2>1, NoChange DEF Undo, GoneBackTo
<1>4. CASE c # NULL /\ b = NULL
  <2>1. \A x \in Stack(frm) : frm.nSteps <= frm.iStep[x]
    BY <1>1, <1>4, BottomLeast, StackSteps
  <2>2. frm.nSteps - 1 \notin DOMAIN Saved(frm)
    BY <1>1, <1>2, <2>1, StackSteps
  <2> QED BY <1>1, <1>4, <2>2, NoChange DEF Undo, GoneBackTo
<1>5. CASE c # NULL /\ b # NULL
  <2>1. c \in Stack(frm) /\ frm.iStep[c] = frm.nSteps
    BY <1>1, <1>5, StackSteps
  <2>2. b \in Stack(frm) /\ frm.iStep[c] = frm.iStep[b] + 1 /\ frm.iStep[b] \in Nat
    BY <1>1, <1>5, <2>1, StackSteps
  <2>3. frm.iStep[b] = frm.nSteps - 1
    BY <2>1, <2>2
  <2>4. frm.nSteps - 1 \in DOMAIN Saved(frm) \ {frm.nSteps}
    BY <1>1, <1>2, <2>2, <2>3
  <2>5. SetCurrentToCopy(b)
    BY <1>5 DEF Undo
  <2>6. Appended(frm, frm', Saved(frm)[frm.iStep[b]]) /\ Harmless(frm, frm')
    BY <2>2, <2>5, SetCurrentToCopySaved
  <2> QED BY <1>1, <2>3, <2>4, <2>6 DEF GoneBackTo
<1> QED BY <1>3, <1>4, <1>5

LEMMA RecallGoesBack ==
  ASSUME IndInv, frm.nSteps >= 1, NEW s \in Int, Recall(s)
  PROVE  /\ request' = <<"recall", s>> /\ Harmless(frm, frm')
         /\ IF s = 0 /\ Saved(frm) # Abstract!Empty
            THEN Saved(frm') = Abstract!Empty /\ frm'.nSteps = frm.nSteps
            ELSE GoneBackTo(frm, frm', s)
<1>1. /\ WellFormed(frm) /\ request' = <<"recall", s>> /\ frm.nSteps \in Nat
      /\ NetsToSave \in Nat
  BY FlagTypes, StackSteps DEF IndInv, Recall
<1>2. /\ DOMAIN Saved(frm) = {frm.iStep[x] : x \in Stack(frm)}
      /\ Saved(frm) = [t \in DOMAIN Saved(frm) |-> Saved(frm)[t]]
  BY <1>1, SavedAt
<1>3. DOMAIN Abstract!Empty = {}
  BY DEF Abstract!Empty
<1>4. CASE frm.pNtkCur = NULL
  <2>1. Stack(frm) = {} /\ frm' = frm
    BY <1>4, EmptyStack DEF Recall
  <2>2. Saved(frm) = Abstract!Empty
    BY <1>2, <2>1 DEF Abstract!Empty
  <2> QED BY <1>1, <1>3, <2>1, <2>2, NoChange DEF GoneBackTo
<1>5. CASE frm.pNtkCur # NULL /\ (s >= frm.nSteps \/ s < 0)
  <2>1. s # 0 /\ frm' = frm
    BY <1>1, <1>5 DEF Recall
  <2>2. s \notin DOMAIN Saved(frm) \ {frm.nSteps}
    BY <1>1, <1>2, <1>5, StackSteps
  <2> QED BY <1>1, <2>1, <2>2, NoChange DEF GoneBackTo
<1>6. CASE frm.pNtkCur # NULL /\ ~(s >= frm.nSteps \/ s < 0) /\ s = 0
  <2>1. frm' = DeleteAllNetworks(frm)
    BY <1>6 DEF Recall
  <2>2. Saved(frm) # Abstract!Empty
    <3>1. frm.pNtkCur \in Stack(frm)
      BY <1>1, <1>6, StackSteps
    <3> QED BY <1>2, <1>3, <3>1
  <2> QED BY <1>1, <1>6, <2>1, <2>2, DeleteAllSaved
<1>7. CASE frm.pNtkCur # NULL /\ ~(s >= frm.nSteps \/ s < 0) /\ s # 0
  <2>1. CASE AtStep(frm, s) = {}
    <3>1. s \notin DOMAIN Saved(frm) /\ frm' = frm
      BY <1>2, <1>7, <2>1 DEF Recall, AtStep
    <3> QED BY <1>1, <1>7, <3>1, NoChange DEF GoneBackTo
  <2>2. CASE AtStep(frm, s) # {}
    <3> DEFINE x == CHOOSE y \in AtStep(frm, s) : TRUE
    <3>1. x \in Stack(frm) /\ frm.iStep[x] = s
      BY <2>2 DEF AtStep
    <3>2. SetCurrentToCopy(x)
      BY <1>7, <2>2 DEF Recall
    <3> HIDE DEF x
    <3>3. s \in DOMAIN Saved(frm) \ {frm.nSteps}
      BY <1>1, <1>2, <1>7, <3>1
    <3>4. Appended(frm, frm', Saved(frm)[s]) /\ Harmless(frm, frm')
      BY <3>1, <3>2, SetCurrentToCopySaved
    <3> QED BY <1>1, <1>7, <3>3, <3>4 DEF GoneBackTo
  <2> QED BY <2>1, <2>2
<1> QED BY <1>4, <1>5, <1>6, <1>7

-----------------------------------------------------------------------------
(* Theorems *)

\* The step number stays or goes up by one.
LEMMA AppendedCounts ==
  ASSUME NEW p, NEW q, NEW n, Appended(p, q, n)
  PROVE  q.nSteps = p.nSteps + 1
BY DEF Appended

LEMMA GoneBackCounts ==
  ASSUME NEW p, NEW q, NEW s, GoneBackTo(p, q, s)
  PROVE  q.nSteps \in {p.nSteps, p.nSteps + 1}
<1>1. CASE s \in DOMAIN Saved(p) \ {p.nSteps}
  <2>1. Appended(p, q, Saved(p)[s])
    BY <1>1, Zenon DEF GoneBackTo
  <2>2. q.nSteps = p.nSteps + 1
    BY <2>1, AppendedCounts
  <2> QED BY <2>2
<1>2. CASE s \notin DOMAIN Saved(p) \ {p.nSteps}
  BY <1>2, Zenon DEF GoneBackTo, Unchanged
<1> QED BY <1>1, <1>2

LEMMA OtherStepCounts ==
  ASSUME NEW p, NEW q, OtherStep(p, q)
  PROVE  q.nSteps \in {p.nSteps, p.nSteps + 1}
<1>1. CASE \E n \in Net : Appended(p, q, n) \/ Restarted(p, q, n) \/ Overwritten(p, q, n)
  <2>1. PICK n \in Net : Appended(p, q, n) \/ Restarted(p, q, n) \/ Overwritten(p, q, n)
    BY <1>1
  <2>2. CASE Appended(p, q, n)
    BY <2>2, AppendedCounts
  <2>3. CASE Restarted(p, q, n)
    BY <2>3 DEF Restarted
  <2>4. CASE Overwritten(p, q, n)
    BY <2>4, Zenon DEF Overwritten
  <2> QED BY <2>1, <2>2, <2>3, <2>4
<1>2. CASE Saved(q) = Abstract!Empty /\ q.nSteps = p.nSteps
  BY <1>2
<1>3. CASE Unchanged(p, q)
  BY <1>3 DEF Unchanged
<1> QED BY <1>1, <1>2, <1>3, Zenon DEF OtherStep

LEMMA NextHarmless ==
  ASSUME IndInv, frm.nSteps >= 1, [Next]_vars
  PROVE  Harmless(frm, frm') /\ frm'.nSteps >= 1
<1>1. frm.nSteps \in Nat
  BY StackSteps DEF IndInv
<1>2. CASE SetFlag \/ ChangeInPlace \/ ChangeRestored \/ ChangeReplace
           \/ ChangeRefused \/ Put \/ EmptyAll
  <2>1. OtherStep(frm, frm') /\ Harmless(frm, frm')
    BY <1>2, OtherCommands
  <2>2. frm'.nSteps \in {frm.nSteps, frm.nSteps + 1}
    BY <2>1, OtherStepCounts
  <2> QED BY <1>1, <2>1, <2>2
<1>3. CASE Undo
  BY <1>1, <1>3, UndoGoesBack DEF GoneBackTo, Appended, Unchanged
<1>4. ASSUME NEW s \in -1 .. MaxSteps, Recall(s)
      PROVE  Harmless(frm, frm') /\ frm'.nSteps >= 1
  <2>1. s \in Int
    OBVIOUS
  <2>2. Harmless(frm, frm') /\ (frm'.nSteps = frm.nSteps \/ GoneBackTo(frm, frm', s))
    BY <1>4, <2>1, RecallGoesBack
  <2>3. frm'.nSteps \in {frm.nSteps, frm.nSteps + 1}
    BY <2>2, GoneBackCounts
  <2> QED BY <1>1, <2>2, <2>3
<1>5. CASE UNCHANGED vars
  BY <1>1, <1>5, NoChange DEF vars
<1> QED BY <1>2, <1>3, <1>4, <1>5 DEF Next

\* Steps are numbered from 1.
LEMMA StepsFromOne == Spec => [](IndInv /\ frm.nSteps >= 1)
<1>1. Init => IndInv /\ frm.nSteps >= 1
  BY InitIndInv DEF Init, FrameAllocate
<1>2. (IndInv /\ frm.nSteps >= 1) /\ [Next]_vars => (IndInv /\ frm.nSteps >= 1)'
  BY NextIndInv, NextHarmless
<1> QED BY <1>1, <1>2, PTL DEF Spec

\* With "backup" on, no command takes a network off the stack without freeing it,
\* whatever the flag was when the network got there.
THEOREM SessionNothingLost == Spec => NothingLost
<1>1. IndInv /\ frm.nSteps >= 1 /\ [Next]_vars => [BackupEnabled => Lost' \subseteq Lost]_vars
  BY NextHarmless DEF Harmless, NoneLost, Lost
<1> QED BY <1>1, StepsFromOne, PTL DEF Spec, NothingLost

\* A command that makes the stack longer leaves at most savesteps + 1 networks on
\* it, however the flag changed while the stack was built.
THEOREM SessionGrowthBounded == Spec => GrowthBounded
<1> DEFINE A == Cardinality(Stack(frm)) < Cardinality(Stack(frm))' =>
                    Cardinality(Stack(frm))' <= NetsToSave + 1
<1>1. IndInv /\ frm.nSteps >= 1 /\ [Next]_vars => [A]_vars
  <2> SUFFICES ASSUME IndInv, frm.nSteps >= 1, [Next]_vars PROVE A
    OBVIOUS
  <2>1. WithinLimit(frm, frm', NetsToSave)
    BY NextHarmless DEF Harmless
  <2>2. Cardinality(Stack(frm)) \in Nat /\ Cardinality(Stack(frm')) \in Nat
    BY StackFinite
  <2> QED BY <2>1, <2>2 DEF WithinLimit
<1> QED BY <1>1, StepsFromOne, PTL DEF Spec, GrowthBounded

\* undo and recall bring back the network saved under the step asked for, as a
\* new step, and no other command changes what is saved under an older one.
THEOREM SessionImplementsUndoHistory == Spec => ImplementsUndoHistory
<1>1. History = Saved(frm) /\ History' = Saved(frm')
  BY DEF History, Saved, AtStep
<1>2. Init => Abstract!Init
  <2> SUFFICES ASSUME Init PROVE Abstract!Init
    OBVIOUS
  <2>1. frm.pNtkCur = NULL /\ frm.nSteps = 1 /\ request = <<"other">>
    BY DEF Init, FrameAllocate
  <2>2. History = Abstract!Empty
    BY <1>1, <2>1, EmptyStack DEF Saved, Abstract!Empty
  <2> QED BY <2>1, <2>2 DEF Abstract!Init
<1>3. ASSUME IndInv, frm.nSteps >= 1, [Next]_vars
      PROVE  [Abstract!Next]_(Abstract!vars)
  <2> DEFINE h == History
             k == History'
             t == frm.nSteps
             u == frm'.nSteps
  <2>1. ASSUME NEW n, Appended(frm, frm', n)
        PROVE  Abstract!Append(n)
    BY <1>1, <2>1 DEF Appended, Abstract!Append
  <2>2. ASSUME NEW n, Restarted(frm, frm', n)
        PROVE  Abstract!Restart(n)
    BY <1>1, <2>2 DEF Restarted, Abstract!Restart
  <2>3. ASSUME NEW n, Overwritten(frm, frm', n)
        PROVE  Abstract!Overwrite(n)
    BY <1>1, <2>3 DEF Overwritten, Abstract!Overwrite
  <2>4. ASSUME Saved(frm') = Abstract!Empty, frm'.nSteps = frm.nSteps
        PROVE  Abstract!Clear
    BY <1>1, <2>4 DEF Abstract!Clear
  <2>5. ASSUME NEW s, GoneBackTo(frm, frm', s)
        PROVE  Abstract!GoBackTo(s)
    BY <1>1, <2>1, <2>5 DEF GoneBackTo, Unchanged, Abstract!GoBackTo
  <2>6. CASE SetFlag \/ ChangeInPlace \/ ChangeRestored \/ ChangeReplace
             \/ ChangeRefused \/ Put \/ EmptyAll
    <3>1. request' = <<"other">> /\ OtherStep(frm, frm')
      BY <1>3, <2>6, OtherCommands
    <3>2. \/ \E n \in Net : Abstract!Append(n) \/ Abstract!Restart(n) \/ Abstract!Overwrite(n)
          \/ Abstract!Clear
          \/ UNCHANGED <<h, t>>
      BY <1>1, <2>1, <2>2, <2>3, <2>4, <3>1 DEF OtherStep, Unchanged
    <3>3. Abstract!Other
      BY <3>1, <3>2 DEF Abstract!Other
    <3> QED BY <3>3 DEF Abstract!Next
  <2>7. CASE Undo
    <3>1. request' = <<"undo">> /\ GoneBackTo(frm, frm', t - 1)
      BY <1>3, <2>7, UndoGoesBack
    <3>2. Abstract!Undo
      BY <2>5, <3>1 DEF Abstract!Undo
    <3> QED BY <3>2 DEF Abstract!Next
  <2>8. ASSUME NEW s \in -1 .. MaxSteps, Recall(s)
        PROVE  Abstract!Next
    <3>1. s \in Int
      OBVIOUS
    <3>2. /\ request' = <<"recall", s>>
          /\ IF s = 0 /\ Saved(frm) # Abstract!Empty
             THEN Saved(frm') = Abstract!Empty /\ frm'.nSteps = frm.nSteps
             ELSE GoneBackTo(frm, frm', s)
      BY <1>3, <2>8, <3>1, RecallGoesBack
    <3>3. IF s = 0 /\ h # Abstract!Empty THEN Abstract!Clear ELSE Abstract!GoBackTo(s)
      BY <1>1, <2>4, <2>5, <3>2
    <3>4. Abstract!Recall
      BY <3>2, <3>3 DEF Abstract!Recall
    <3> QED BY <3>4 DEF Abstract!Next
  <2>9. CASE UNCHANGED vars
    <3>1. h = k /\ t = u /\ request' = request
      BY <1>1, <2>9 DEF vars
    <3> QED BY <3>1 DEF Abstract!vars
  <2> QED BY <1>3, <2>6, <2>7, <2>8, <2>9 DEF Next
<1> QED BY <1>2, <1>3, StepsFromOne, PTL DEF Spec, ImplementsUndoHistory, Abstract!Spec

=============================================================================
