--------------------------- MODULE NtkStackProofs ---------------------------
(***************************************************************************)
(* Every procedure of NtkStack leaves well-formed lists of networks; which *)
(* networks are then on the stack, in which order of steps.                *)
(***************************************************************************)
EXTENDS NtkStack, FiniteSetTheorems, TLAPS

\* Allocated, not current, not on any list: what a procedure that makes a
\* network current may be given.
Unlinked(p, x) == /\ x \in p.live /\ x # p.pNtkCur /\ p.pBackup[x] = NULL
                  /\ \A y \in p.live : p.pBackup[y] # x

\* Relinking one object of a frame leaves a frame.
LEMMA RelinkType ==
  ASSUME NEW p \in Frames, NEW x \in Addr, NEW b \in Addr \cup {NULL},
         NEW i \in Nat, NEW n \in Nat, NEW c \in Addr \cup {NULL}
  PROVE  [p EXCEPT !.pBackup[x] = b, !.iStep[x] = i, !.nSteps = n, !.pNtkCur = c]
            \in Frames
BY DEF Frames

\* What freeing an object does to each field.
LEMMA DeleteFields ==
  ASSUME NEW p \in Frames, NEW x \in Addr
  PROVE  LET q == NtkDelete(p, x) IN
         /\ q \in Frames
         /\ q.pNtkCur = p.pNtkCur /\ q.nSteps = p.nSteps /\ q.live = p.live \ {x}
         /\ \A y \in Addr : q.pBackup[y] = IF y = x THEN NULL ELSE p.pBackup[y]
         /\ \A y \in Addr : q.iStep[y] = IF y = x THEN 0 ELSE p.iStep[y]
         /\ \A y \in Addr : q.net[y] = IF y = x THEN NULL ELSE p.net[y]
<1> DEFINE q == NtkDelete(p, x)
<1>1. q \in Frames
  BY DEF NtkDelete, Frames
<1>2. q.pNtkCur = p.pNtkCur /\ q.nSteps = p.nSteps /\ q.live = p.live \ {x}
  BY DEF NtkDelete, Frames
<1>3. \A y \in Addr : q.pBackup[y] = IF y = x THEN NULL ELSE p.pBackup[y]
  BY DEF NtkDelete, Frames
<1>4. \A y \in Addr : q.iStep[y] = IF y = x THEN 0 ELSE p.iStep[y]
  BY DEF NtkDelete, Frames
<1>5. \A y \in Addr : q.net[y] = IF y = x THEN NULL ELSE p.net[y]
  BY DEF NtkDelete, Frames
<1> QED BY <1>1, <1>2, <1>3, <1>4, <1>5

-----------------------------------------------------------------------------
(* The walk *)

\* The networks a walk visits hold the walk themselves.
LEMMA StackHoldsWalk ==
  ASSUME NEW p \in Frames
  PROVE  HoldsWalk(p, Stack(p))
<1>1. p.pNtkCur \in Stack(p) \cup {NULL}
  BY DEF HoldsWalk, Stack, Frames
<1>2. ASSUME NEW x \in Stack(p)
      PROVE  p.pBackup[x] \in Stack(p) \cup {NULL}
  <2>1. x \in Addr /\ p.pBackup[x] \in Addr \cup {NULL}
    BY DEF Stack, Frames
  <2>2. ASSUME NEW S \in SUBSET Addr, HoldsWalk(p, S), p.pBackup[x] # NULL
        PROVE  p.pBackup[x] \in S
    BY <2>2 DEF Stack, HoldsWalk
  <2> QED BY <2>1, <2>2 DEF Stack
<1> QED BY <1>1, <1>2 DEF HoldsWalk

\* A set that holds the walk has every network the walk visits.
LEMMA StackLeast ==
  ASSUME NEW p, NEW S \in SUBSET Addr, HoldsWalk(p, S)
  PROVE  Stack(p) \subseteq S
BY DEF Stack

\* A walk only meets allocated networks.
LEMMA StackIsLive ==
  ASSUME NEW p, WellFormed(p)
  PROVE  Stack(p) \subseteq p.live
<1>1. p.live \in SUBSET Addr /\ HoldsWalk(p, p.live)
  BY DEF WellFormed, LinksLive, HoldsWalk, Frames
<1> QED BY <1>1, StackLeast

LEMMA StackFinite ==
  ASSUME NEW p
  PROVE  IsFiniteSet(Stack(p)) /\ Cardinality(Stack(p)) \in Nat
<1>1. Stack(p) \subseteq Addr
  BY DEF Stack
<1> QED BY <1>1, StackAssumption, FS_Subset, FS_CardinalityType

\* The walk ends: some network it visits has no backup. Otherwise the backups
\* would map the stack one-to-one into itself without the current network.
LEMMA WalkEnds ==
  ASSUME NEW p, WellFormed(p), p.pNtkCur # NULL
  PROVE  \E x \in Stack(p) : p.pBackup[x] = NULL
<1> SUFFICES ASSUME \A x \in Stack(p) : p.pBackup[x] # NULL
             PROVE  FALSE
  OBVIOUS
<1> DEFINE T == Stack(p) \ {p.pNtkCur}
           f == [x \in Stack(p) |-> p.pBackup[x]]
<1>1. HoldsWalk(p, Stack(p)) /\ Stack(p) \subseteq p.live
  BY StackHoldsWalk, StackIsLive DEF WellFormed
<1>2. f \in [Stack(p) -> T]
  BY <1>1 DEF HoldsWalk, WellFormed, LinksApart
<1>3. p.pNtkCur \in Stack(p)
  BY <1>1 DEF HoldsWalk
<1>4. IsFiniteSet(T) /\ Cardinality(T) = Cardinality(Stack(p)) - 1
  BY <1>3, StackFinite, FS_RemoveElement
<1>5. \E x, y \in Stack(p) : x # y /\ f[x] = f[y]
  <2> HIDE DEF T, f
  <2> QED BY <1>2, <1>4, StackFinite, FS_PigeonHole, FS_CardinalityType
<1> QED BY <1>1, <1>5 DEF WellFormed, LinksApart

\* Below the top of a stack of two or more hangs its bottom network, on a
\* network of the stack.
LEMMA BottomHangs ==
  ASSUME NEW p, WellFormed(p), p.pNtkCur # NULL, Cardinality(Stack(p)) > 1
  PROVE  /\ Bottom(p) \in Stack(p) /\ p.pBackup[Bottom(p)] = NULL
         /\ Bottom(p) # p.pNtkCur
         /\ OverBottom(p) \in Stack(p) /\ p.pBackup[OverBottom(p)] = Bottom(p)
<1> DEFINE b == Bottom(p)
<1>1. b \in Stack(p) /\ p.pBackup[b] = NULL
  BY WalkEnds DEF Bottom
<1> HIDE DEF b
<1>2. HoldsWalk(p, Stack(p)) /\ Stack(p) \in SUBSET Addr
  BY StackHoldsWalk DEF WellFormed, Stack
<1>3. b # p.pNtkCur
  <2> SUFFICES ASSUME b = p.pNtkCur PROVE FALSE
    OBVIOUS
  <2>1. HoldsWalk(p, {b}) /\ {b} \in SUBSET Addr
    BY <1>1, <1>2 DEF HoldsWalk
  <2>2. Stack(p) = {b}
    BY <1>1, <2>1, StackLeast
  <2> QED BY <2>2, FS_Singleton
<1>4. \E x \in Stack(p) : p.pBackup[x] = b
  <2> SUFFICES ASSUME \A x \in Stack(p) : p.pBackup[x] # b PROVE FALSE
    OBVIOUS
  <2>1. HoldsWalk(p, Stack(p) \ {b})
    BY <1>2, <1>3 DEF HoldsWalk
  <2> QED BY <1>1, <1>2, <2>1, StackLeast
<1>5. OverBottom(p) \in Stack(p) /\ p.pBackup[OverBottom(p)] = b
  BY <1>4 DEF OverBottom, b
<1> QED BY <1>1, <1>3, <1>5 DEF b

-----------------------------------------------------------------------------
(* Objects *)

\* A new network is on no list and disturbs none.
LEMMA AllocWellFormed ==
  ASSUME NEW p, WellFormed(p), NEW a \in Fresh(p), NEW n \in Net
  PROVE  /\ WellFormed(NtkAlloc(p, a, n))
         /\ Unlinked(NtkAlloc(p, a, n), a)
         /\ NtkAlloc(p, a, n).pNtkCur = p.pNtkCur
<1> DEFINE q == NtkAlloc(p, a, n)
<1>1. q \in Frames
  BY DEF NtkAlloc, WellFormed, Frames, Fresh
<1>2. LinksLive(q)
  BY StackAssumption DEF NtkAlloc, WellFormed, Frames, Fresh, LinksLive
<1>3. StepsDescend(q)
  BY StackAssumption DEF NtkAlloc, WellFormed, Frames, Fresh, LinksLive, StepsDescend
<1>4. LinksApart(q)
  BY StackAssumption DEF NtkAlloc, WellFormed, Frames, Fresh, LinksLive, LinksApart
<1>5. Unlinked(q, a)
  BY StackAssumption DEF NtkAlloc, WellFormed, Frames, Fresh, LinksLive, Unlinked
<1>6. q.pNtkCur = p.pNtkCur
  BY DEF NtkAlloc, WellFormed, Frames
<1> QED BY <1>1, <1>2, <1>3, <1>4, <1>5, <1>6 DEF WellFormed

\* So is a copy.
LEMMA DupWellFormed ==
  ASSUME NEW p, WellFormed(p), NEW x \in p.live, NEW a \in Fresh(p)
  PROVE  /\ WellFormed(NtkDup(p, x, a))
         /\ Unlinked(NtkDup(p, x, a), a)
         /\ NtkDup(p, x, a).pNtkCur = p.pNtkCur
<1>1. p.net[x] \in Net
  BY DEF WellFormed, LinksLive
<1> QED BY <1>1, AllocWellFormed DEF NtkDup

\* The logic of an allocated network may change where it is.
LEMMA InPlaceWellFormed ==
  ASSUME NEW p, WellFormed(p), NEW x \in p.live, NEW n \in Net
  PROVE  WellFormed([p EXCEPT !.net[x] = n])
BY DEF WellFormed, Frames, LinksLive, StepsDescend, LinksApart

\* Freeing a network nothing links to keeps the lists.
LEMMA DeleteWellFormed ==
  ASSUME NEW p, WellFormed(p), NEW x \in p.live, x # p.pNtkCur,
         \A y \in p.live : p.pBackup[y] # x
  PROVE  WellFormed(NtkDelete(p, x))
<1> DEFINE q == NtkDelete(p, x)
<1>1. q \in Frames
  BY DEF NtkDelete, WellFormed, Frames
<1>2. LinksLive(q)
  BY StackAssumption DEF NtkDelete, WellFormed, Frames, LinksLive
<1>3. StepsDescend(q)
  BY StackAssumption DEF NtkDelete, WellFormed, Frames, LinksLive, StepsDescend
<1>4. LinksApart(q)
  BY DEF NtkDelete, WellFormed, Frames, LinksLive, LinksApart
<1> QED BY <1>1, <1>2, <1>3, <1>4 DEF WellFormed

-----------------------------------------------------------------------------
(* Abc_FrameSetCurrentNetwork *)

LEMMA PushWellFormed ==
  ASSUME NEW p, WellFormed(p), NEW x, Unlinked(p, x)
  PROVE  WellFormed(Push(p, x)) /\ Push(p, x).pNtkCur # NULL
<1> DEFINE q == Push(p, x)
<1>0. /\ p \in Frames /\ x \in Addr /\ p.pNtkCur \in Addr \cup {NULL}
      /\ p.nSteps + 1 \in Nat
  BY DEF WellFormed, Unlinked, Frames
<1>2. q \in Frames
  BY <1>0, RelinkType DEF Push
<1> USE StackAssumption DEF WellFormed, Frames, Unlinked
<1>1. /\ q.pNtkCur = x /\ q.nSteps = p.nSteps + 1 /\ q.live = p.live
      /\ q.pBackup = [p.pBackup EXCEPT ![x] = p.pNtkCur]
      /\ q.iStep = [p.iStep EXCEPT ![x] = p.nSteps + 1]
      /\ q.net = p.net
  BY DEF Push
<1> HIDE DEF q
<1>3. LinksLive(q)
  BY <1>1 DEF LinksLive
<1>4. StepsDescend(q)
  BY <1>1 DEF LinksLive, StepsDescend
<1>5. LinksApart(q)
  BY <1>1 DEF LinksLive, LinksApart
<1>6. WellFormed(q) /\ q.pNtkCur # NULL
  BY <1>1, <1>2, <1>3, <1>4, <1>5
<1> QED BY <1>6 DEF q

LEMMA TrimWellFormed ==
  ASSUME NEW p, WellFormed(p), p.pNtkCur # NULL, NEW n \in Nat
  PROVE  WellFormed(Trim(p, n))
<1> SUFFICES ASSUME Cardinality(Stack(p)) - 1 > n
             PROVE  WellFormed(DropBottom(p))
  BY DEF Trim
<1> DEFINE b == Bottom(p)
           o == OverBottom(p)
           q == DropBottom(p)
<1>1. /\ b \in p.live /\ p.pBackup[b] = NULL /\ b # p.pNtkCur
      /\ o \in p.live /\ p.pBackup[o] = b
      /\ b \in Addr /\ o \in Addr /\ b # o
  BY StackFinite, StackIsLive, BottomHangs, StackAssumption
     DEF WellFormed, Frames
<1> HIDE DEF b, o
<1> DEFINE d == NtkDelete(p, b)
<1>d. /\ d \in Frames
      /\ d.pNtkCur = p.pNtkCur /\ d.nSteps = p.nSteps /\ d.live = p.live \ {b}
      /\ \A y \in Addr : d.pBackup[y] = IF y = b THEN NULL ELSE p.pBackup[y]
      /\ \A y \in Addr : d.iStep[y] = IF y = b THEN 0 ELSE p.iStep[y]
      /\ \A y \in Addr : d.net[y] = IF y = b THEN NULL ELSE p.net[y]
  BY <1>1, DeleteFields DEF WellFormed
<1>q. q = [d EXCEPT !.pBackup[o] = NULL]
  BY DEF DropBottom, b, o
<1> HIDE DEF q, d
<1>2. /\ q \in Frames
      /\ q.pNtkCur = p.pNtkCur /\ q.nSteps = p.nSteps /\ q.live = p.live \ {b}
      /\ \A y \in Addr : q.pBackup[y] = IF y \in {b, o} THEN NULL ELSE p.pBackup[y]
      /\ \A y \in Addr : q.iStep[y] = IF y = b THEN 0 ELSE p.iStep[y]
      /\ \A y \in Addr : q.net[y] = IF y = b THEN NULL ELSE p.net[y]
  BY <1>1, <1>d, <1>q DEF Frames
<1>3. LinksLive(q)
  BY <1>1, <1>2, StackAssumption DEF WellFormed, Frames, LinksLive, LinksApart
<1>4. StepsDescend(q)
  BY <1>1, <1>2, StackAssumption
     DEF WellFormed, Frames, LinksLive, StepsDescend, LinksApart
<1>5. LinksApart(q)
  BY <1>1, <1>2 DEF WellFormed, Frames, LinksApart
<1>6. WellFormed(q)
  BY <1>2, <1>3, <1>4, <1>5 DEF WellFormed
<1> QED BY <1>6 DEF q

LEMMA SetCurrentWellFormed ==
  ASSUME NEW p, WellFormed(p), NEW x, Unlinked(p, x), NEW n \in Nat
  PROVE  WellFormed(SetCurrentNetwork(p, x, n))
BY PushWellFormed, TrimWellFormed DEF SetCurrentNetwork

-----------------------------------------------------------------------------
(* Abc_FrameSwapCurrentAndBackup *)

LEMMA SwapWellFormed ==
  ASSUME NEW p, WellFormed(p), p.pNtkCur # NULL
  PROVE  WellFormed(SwapCurrentAndBackup(p)) /\ SwapCurrentAndBackup(p).pNtkCur # NULL
<1> SUFFICES ASSUME p.pBackup[p.pNtkCur] # NULL
             PROVE  LET q == Swapped(p, p.pNtkCur, p.pBackup[p.pNtkCur])
                    IN  WellFormed(q) /\ q.pNtkCur # NULL
  BY DEF SwapCurrentAndBackup
<1> DEFINE cur == p.pNtkCur
           back == p.pBackup[cur]
           q == Swapped(p, cur, back)
<1>1. cur \in p.live /\ back \in p.live /\ back # cur
  BY DEF WellFormed, LinksLive, LinksApart
<1>2. q \in Frames
  BY <1>1 DEF Swapped, WellFormed, Frames
<1>3. LinksLive(q)
  BY <1>1 DEF Swapped, WellFormed, Frames, LinksLive
<1>4. StepsDescend(q)
  BY <1>1 DEF Swapped, WellFormed, Frames, LinksLive, StepsDescend, LinksApart
<1>5. LinksApart(q)
  BY <1>1 DEF Swapped, WellFormed, Frames, LinksLive, StepsDescend, LinksApart
<1>6. q.pNtkCur # NULL
  BY <1>1, StackAssumption DEF Swapped, WellFormed, Frames
<1> QED BY <1>2, <1>3, <1>4, <1>5, <1>6 DEF WellFormed

\* The dispatch of a command leaves lists, whatever address the copy gets.
LEMMA DispatchedWellFormed ==
  ASSUME NEW p, WellFormed(p), NEW fBackup \in BOOLEAN, NEW n \in Nat,
         NEW q \in Dispatched(p, fBackup, n)
  PROVE  WellFormed(q) /\ (p.pNtkCur # NULL => q.pNtkCur # NULL)
<1>1. CASE p.pNtkCur = NULL \/ ~fBackup
  BY <1>1 DEF Dispatched
<1>2. CASE p.pNtkCur # NULL /\ fBackup
  <2>1. PICK a \in Fresh(p) :
          q = SwapCurrentAndBackup(SetCurrentNetwork(NtkDup(p, p.pNtkCur, a), a, n))
    BY <1>2 DEF Dispatched
  <2> DEFINE d == NtkDup(p, p.pNtkCur, a)
             r == SetCurrentNetwork(d, a, n)
  <2>2. WellFormed(d) /\ Unlinked(d, a)
    BY <1>2, DupWellFormed DEF WellFormed, LinksLive
  <2>3. WellFormed(r)
    BY <2>2, SetCurrentWellFormed
  <2>4. r.pNtkCur # NULL
    BY <2>2, StackAssumption DEF SetCurrentNetwork, Trim, Push, DropBottom,
       NtkDelete, Unlinked, WellFormed, Frames
  <2> QED BY <2>1, <2>3, <2>4, SwapWellFormed
<1> QED BY <1>1, <1>2

-----------------------------------------------------------------------------
(* Abc_FrameReplaceCurrentNetwork *)

LEMMA ReplaceWellFormed ==
  ASSUME NEW p, WellFormed(p), NEW x, Unlinked(p, x), NEW fBackup \in BOOLEAN
  PROVE  WellFormed(ReplaceCurrentNetwork(p, x, fBackup))
<1> USE StackAssumption DEF WellFormed, Frames, Unlinked
<1>1. CASE p.pNtkCur # NULL /\ fBackup
  <2> DEFINE c == p.pNtkCur
             q == Replaced(p, x)
             d == NtkDelete(p, c)
  <2>d. /\ d \in Frames
        /\ d.pNtkCur = c /\ d.nSteps = p.nSteps /\ d.live = p.live \ {c}
        /\ \A y \in Addr : d.pBackup[y] = IF y = c THEN NULL ELSE p.pBackup[y]
        /\ \A y \in Addr : d.iStep[y] = IF y = c THEN 0 ELSE p.iStep[y]
        /\ \A y \in Addr : d.net[y] = IF y = c THEN NULL ELSE p.net[y]
    BY <1>1, DeleteFields
  <2>q. q = [d EXCEPT !.pBackup[x] = p.pBackup[c], !.iStep[x] = p.iStep[c],
                      !.pNtkCur = x]
    BY DEF Replaced
  <2> HIDE DEF q, d
  <2>1. /\ q \in Frames
        /\ q.pNtkCur = x /\ q.nSteps = p.nSteps /\ q.live = p.live \ {c}
        /\ \A y \in Addr : q.pBackup[y] = IF y = x THEN p.pBackup[c]
                                         ELSE IF y = c THEN NULL ELSE p.pBackup[y]
        /\ \A y \in Addr : q.iStep[y] = IF y = x THEN p.iStep[c]
                                       ELSE IF y = c THEN 0 ELSE p.iStep[y]
        /\ \A y \in Addr : q.net[y] = IF y = c THEN NULL ELSE p.net[y]
    BY <1>1, <2>d, <2>q, ZenonT(30) DEF LinksLive
  <2>2. LinksLive(q)
    BY <1>1, <2>1 DEF LinksLive, LinksApart
  <2>3. StepsDescend(q)
    BY <1>1, <2>1 DEF LinksLive, LinksApart, StepsDescend
  <2>4. LinksApart(q)
    BY <1>1, <2>1 DEF LinksLive, LinksApart
  <2>5. WellFormed(q)
    BY <2>1, <2>2, <2>3, <2>4
  <2> QED BY <1>1, <2>5 DEF ReplaceCurrentNetwork, q
<1>2. CASE ~(p.pNtkCur # NULL /\ fBackup)
  <2> DEFINE c == p.pNtkCur
             q == ReplacedUnsaved(p, x)
             d == IF c = NULL THEN p ELSE NtkDelete(p, c)
  <2>d. /\ d \in Frames
        /\ d.nSteps = p.nSteps /\ d.live = p.live \ {c}
        /\ \A y \in Addr : d.pBackup[y] = IF y = c THEN NULL ELSE p.pBackup[y]
        /\ \A y \in Addr : d.iStep[y] = IF y = c THEN 0 ELSE p.iStep[y]
        /\ \A y \in Addr : d.net[y] = IF y = c THEN NULL ELSE p.net[y]
    BY DeleteFields
  <2> DEFINE m == p.nSteps + 1
  <2>q. q = [d EXCEPT !.pBackup[x] = NULL, !.iStep[x] = m,
                      !.nSteps = m, !.pNtkCur = x] /\ m \in Nat
    BY <2>d DEF ReplacedUnsaved
  <2> HIDE DEF q, d, m
  <2>1. /\ q \in Frames
        /\ q.pNtkCur = x /\ q.nSteps = m /\ q.live = p.live \ {c}
        /\ \A y \in Addr : q.pBackup[y] = IF y \in {x, c} THEN NULL ELSE p.pBackup[y]
        /\ \A y \in Addr : q.iStep[y] = IF y = x THEN m
                                       ELSE IF y = c THEN 0 ELSE p.iStep[y]
        /\ \A y \in Addr : q.net[y] = IF y = c THEN NULL ELSE p.net[y]
    BY <2>d, <2>q, ZenonT(30)
  <2> USE DEF m
  <2>2. LinksLive(q)
    BY <2>1 DEF LinksLive, LinksApart
  <2>3. StepsDescend(q)
    BY <2>1 DEF LinksLive, LinksApart, StepsDescend
  <2>4. LinksApart(q)
    BY <2>1 DEF LinksLive, LinksApart
  <2>5. WellFormed(q)
    BY <2>1, <2>2, <2>3, <2>4
  <2> QED BY <1>2, <2>5 DEF ReplaceCurrentNetwork, q
<1> QED BY <1>1, <1>2

-----------------------------------------------------------------------------
(* Abc_FrameDeleteAllNetworks *)

\* Networks off the stack do not link into it, so freeing the stack leaves no
\* dangling link, leaked networks or not.
LEMMA DeleteAllWellFormed ==
  ASSUME NEW p, WellFormed(p)
  PROVE  WellFormed(DeleteAllNetworks(p))
<1> DEFINE S == Stack(p)
           q == DeleteAllNetworks(p)
<1> USE StackAssumption DEF WellFormed, Frames
<1>1. S \subseteq p.live /\ S \in SUBSET Addr /\ HoldsWalk(p, S)
  BY StackHoldsWalk, StackIsLive DEF Stack
<1>2. ASSUME NEW x \in p.live \ S, p.pBackup[x] # NULL
      PROVE  p.pBackup[x] \notin S
  <2> DEFINE y == p.pBackup[x]
  <2> SUFFICES ASSUME y \in S PROVE FALSE
    OBVIOUS
  <2>1. HoldsWalk(p, S \ {y})
    BY <1>1, <1>2 DEF HoldsWalk, LinksApart
  <2> QED BY <1>1, <2>1, StackLeast
<1>3. /\ q.pNtkCur = NULL /\ q.nSteps = p.nSteps /\ q.live = p.live \ S
      /\ q.pBackup = [x \in Addr |-> IF x \in S THEN NULL ELSE p.pBackup[x]]
      /\ q.iStep = [x \in Addr |-> IF x \in S THEN 0 ELSE p.iStep[x]]
      /\ q.net = [x \in Addr |-> IF x \in S THEN NULL ELSE p.net[x]]
      /\ q \in Frames
  <2> HIDE DEF S
  <2>1. q = [p EXCEPT
               !.live    = @ \ S,
               !.pBackup = [x \in Addr |-> IF x \in S THEN NULL ELSE @[x]],
               !.iStep   = [x \in Addr |-> IF x \in S THEN 0 ELSE @[x]],
               !.net     = [x \in Addr |-> IF x \in S THEN NULL ELSE @[x]],
               !.pNtkCur = NULL]
    BY DEF DeleteAllNetworks, S
  <2> HIDE DEF q
  <2> QED BY <2>1
<1> HIDE DEF q, S
<1>4. LinksLive(q)
  BY <1>1, <1>2, <1>3 DEF LinksLive
<1>5. StepsDescend(q)
  BY <1>1, <1>2, <1>3 DEF LinksLive, StepsDescend
<1>6. LinksApart(q)
  BY <1>1, <1>2, <1>3 DEF LinksLive, LinksApart
<1>7. WellFormed(q)
  BY <1>3, <1>4, <1>5, <1>6
<1> QED BY <1>7 DEF q

-----------------------------------------------------------------------------
(* The networks on the stack, after each procedure.  A set that holds the   *)
(* new walk has the new stack in it, and one that holds the old walk the   *)
(* old stack.                                                              *)

LEMMA EmptyStack ==
  ASSUME NEW p, p.pNtkCur = NULL
  PROVE  Stack(p) = {}
<1>1. HoldsWalk(p, {}) /\ {} \in SUBSET Addr
  BY DEF HoldsWalk
<1> QED BY <1>1, StackLeast

LEMMA AllocStack ==
  ASSUME NEW p, WellFormed(p), NEW a \in Fresh(p), NEW n \in Net
  PROVE  LET q == NtkAlloc(p, a, n) IN
         /\ Stack(q) = Stack(p) /\ q.live = p.live \cup {a} /\ q.nSteps = p.nSteps
         /\ q.net[a] = n
         /\ \A x \in Stack(p) : q.net[x] = p.net[x] /\ q.iStep[x] = p.iStep[x]
<1> DEFINE q == NtkAlloc(p, a, n)
<1>1. /\ q \in Frames /\ p \in Frames /\ Stack(p) \subseteq p.live /\ a \notin p.live
      /\ Stack(p) \in SUBSET Addr /\ HoldsWalk(p, Stack(p))
  BY AllocWellFormed, StackIsLive, StackHoldsWalk DEF WellFormed, Fresh, Stack
<1>2. /\ q.live = p.live \cup {a} /\ q.nSteps = p.nSteps /\ q.net[a] = n
      /\ q.pNtkCur = p.pNtkCur
      /\ \A x \in Addr : x # a =>
            q.pBackup[x] = p.pBackup[x] /\ q.net[x] = p.net[x] /\ q.iStep[x] = p.iStep[x]
  BY <1>1 DEF NtkAlloc, Frames, Fresh
<1> HIDE DEF q
<1>3. HoldsWalk(q, Stack(p))
  BY <1>1, <1>2 DEF HoldsWalk
<1>4. Stack(q) \subseteq Stack(p) /\ Stack(q) \in SUBSET Addr /\ HoldsWalk(q, Stack(q))
  BY <1>1, <1>3, StackLeast, StackHoldsWalk DEF Stack
<1>5. HoldsWalk(p, Stack(q))
  BY <1>1, <1>2, <1>4 DEF HoldsWalk
<1>6. Stack(q) = Stack(p)
  BY <1>4, <1>5, StackLeast
<1> QED BY <1>1, <1>2, <1>6 DEF q

LEMMA PushStack ==
  ASSUME NEW p, WellFormed(p), NEW x, Unlinked(p, x)
  PROVE  LET q == Push(p, x) IN
         /\ Stack(q) = Stack(p) \cup {x} /\ x \notin Stack(p)
         /\ q.live = p.live /\ q.nSteps = p.nSteps + 1 /\ q.pNtkCur = x
         /\ q.iStep[x] = p.nSteps + 1 /\ q.net[x] = p.net[x] /\ q.pBackup[x] = p.pNtkCur
         /\ \A y \in Stack(p) : q.net[y] = p.net[y] /\ q.iStep[y] = p.iStep[y]
<1> DEFINE q == Push(p, x)
<1>1. /\ p \in Frames /\ q \in Frames /\ x \in Addr /\ x # NULL
      /\ Stack(p) \in SUBSET Addr /\ HoldsWalk(p, Stack(p)) /\ Stack(p) \subseteq p.live
  BY PushWellFormed, StackHoldsWalk, StackIsLive, StackAssumption
     DEF WellFormed, Unlinked, Frames, Stack
<1>2. /\ q.pNtkCur = x /\ q.nSteps = p.nSteps + 1 /\ q.live = p.live
      /\ q.pBackup = [p.pBackup EXCEPT ![x] = p.pNtkCur]
      /\ q.iStep = [p.iStep EXCEPT ![x] = p.nSteps + 1]
      /\ q.net = p.net
  BY <1>1 DEF Push, Frames
<1> HIDE DEF q
<1>3. x \notin Stack(p)
  <2>1. HoldsWalk(p, Stack(p) \ {x})
    BY <1>1 DEF HoldsWalk, Unlinked
  <2> QED BY <1>1, <2>1, StackLeast
<1>4. HoldsWalk(q, Stack(p) \cup {x})
  BY <1>1, <1>2, <1>3 DEF HoldsWalk, Frames
<1>5. Stack(q) \in SUBSET Addr /\ HoldsWalk(q, Stack(q))
  BY <1>1, StackHoldsWalk DEF Stack
<1>6. HoldsWalk(p, Stack(q)) /\ x \in Stack(q)
  BY <1>1, <1>2, <1>5 DEF HoldsWalk, Frames, Unlinked
<1>7. Stack(q) = Stack(p) \cup {x}
  BY <1>1, <1>4, <1>5, <1>6, StackLeast
<1>8. \A y \in Stack(p) : q.net[y] = p.net[y] /\ q.iStep[y] = p.iStep[y]
  BY <1>1, <1>2, <1>3
<1>9. q.iStep[x] = p.nSteps + 1 /\ q.net[x] = p.net[x] /\ q.pBackup[x] = p.pNtkCur
  BY <1>1, <1>2 DEF Frames
<1> QED BY <1>2, <1>3, <1>7, <1>8, <1>9 DEF q

LEMMA DropBottomStack ==
  ASSUME NEW p, WellFormed(p), p.pNtkCur # NULL, Cardinality(Stack(p)) > 1
  PROVE  LET q == DropBottom(p) IN
         /\ Stack(q) = Stack(p) \ {Bottom(p)} /\ q.live = p.live \ {Bottom(p)}
         /\ q.nSteps = p.nSteps /\ q.pNtkCur = p.pNtkCur
         /\ \A y \in Stack(q) : /\ q.net[y] = p.net[y] /\ q.iStep[y] = p.iStep[y]
                                /\ q.pBackup[y] \in {NULL, p.pBackup[y]}
<1> DEFINE b == Bottom(p)
           o == OverBottom(p)
           q == DropBottom(p)
<1>1. /\ b \in Stack(p) /\ p.pBackup[b] = NULL /\ b # p.pNtkCur
      /\ o \in Stack(p) /\ p.pBackup[o] = b
  BY BottomHangs
<1>2. /\ p \in Frames /\ Stack(p) \in SUBSET Addr /\ HoldsWalk(p, Stack(p))
      /\ Stack(p) \subseteq p.live
  BY StackHoldsWalk, StackIsLive DEF WellFormed, Stack
<1> HIDE DEF b, o
<1> DEFINE d == NtkDelete(p, b)
<1>d. /\ d \in Frames
      /\ d.pNtkCur = p.pNtkCur /\ d.nSteps = p.nSteps /\ d.live = p.live \ {b}
      /\ \A y \in Addr : d.pBackup[y] = IF y = b THEN NULL ELSE p.pBackup[y]
      /\ \A y \in Addr : d.iStep[y] = IF y = b THEN 0 ELSE p.iStep[y]
      /\ \A y \in Addr : d.net[y] = IF y = b THEN NULL ELSE p.net[y]
  BY <1>1, <1>2, DeleteFields
<1>q. q = [d EXCEPT !.pBackup[o] = NULL]
  BY DEF DropBottom, b, o
<1> HIDE DEF q, d
<1>3. /\ q \in Frames
      /\ q.pNtkCur = p.pNtkCur /\ q.nSteps = p.nSteps /\ q.live = p.live \ {b}
      /\ \A y \in Addr : q.pBackup[y] = IF y \in {b, o} THEN NULL ELSE p.pBackup[y]
      /\ \A y \in Addr : q.iStep[y] = IF y = b THEN 0 ELSE p.iStep[y]
      /\ \A y \in Addr : q.net[y] = IF y = b THEN NULL ELSE p.net[y]
  BY <1>1, <1>2, <1>d, <1>q DEF Frames
<1>4. HoldsWalk(q, Stack(p) \ {b})
  <2>1. \A y \in Stack(p) : p.pBackup[y] = b => y = o
    BY <1>1, <1>2, StackAssumption DEF WellFormed, LinksApart
  <2> QED BY <1>1, <1>2, <1>3, <2>1 DEF HoldsWalk
<1>5. Stack(q) \in SUBSET Addr /\ HoldsWalk(q, Stack(q))
  BY <1>3, StackHoldsWalk DEF Stack
<1>6. HoldsWalk(p, Stack(q) \cup {b})
  BY <1>1, <1>2, <1>3, <1>5 DEF HoldsWalk
<1>7. Stack(q) = Stack(p) \ {b}
  BY <1>1, <1>2, <1>4, <1>5, <1>6, StackLeast
<1>8. \A y \in Stack(q) : /\ q.net[y] = p.net[y] /\ q.iStep[y] = p.iStep[y]
                          /\ q.pBackup[y] \in {NULL, p.pBackup[y]}
  BY <1>2, <1>3, <1>7
<1> QED BY <1>3, <1>7, <1>8 DEF q, b

LEMMA SwapStack ==
  ASSUME NEW p, WellFormed(p), p.pNtkCur # NULL, p.pBackup[p.pNtkCur] # NULL
  PROVE  LET back == p.pBackup[p.pNtkCur]
             q == SwapCurrentAndBackup(p)
         IN  /\ Stack(q) = Stack(p) /\ q.live = p.live /\ q.nSteps = p.nSteps
             /\ q.net = p.net /\ q.pNtkCur = back
             /\ back \in Stack(p) /\ p.pNtkCur \in Stack(p)
             /\ \A y \in Stack(p) :
                   q.iStep[y] = IF y = back THEN p.iStep[p.pNtkCur]
                                ELSE IF y = p.pNtkCur THEN p.iStep[back] ELSE p.iStep[y]
<1> DEFINE cur == p.pNtkCur
           back == p.pBackup[cur]
           q == Swapped(p, cur, back)
<1>1. /\ p \in Frames /\ q \in Frames /\ Stack(p) \in SUBSET Addr
      /\ HoldsWalk(p, Stack(p)) /\ Stack(p) \subseteq p.live
  BY SwapWellFormed, StackHoldsWalk, StackIsLive
     DEF SwapCurrentAndBackup, WellFormed, Stack
<1>2. cur \in Stack(p) /\ back \in Stack(p) /\ back # cur /\ back # NULL
  BY <1>1 DEF HoldsWalk, WellFormed, LinksApart
<1>3. /\ q.pNtkCur = back /\ q.live = p.live /\ q.nSteps = p.nSteps /\ q.net = p.net
      /\ \A y \in Addr : q.pBackup[y] = IF y = back THEN cur
                                        ELSE IF y = cur THEN p.pBackup[back]
                                        ELSE p.pBackup[y]
      /\ \A y \in Addr : q.iStep[y] = IF y = back THEN p.iStep[cur]
                                      ELSE IF y = cur THEN p.iStep[back]
                                      ELSE p.iStep[y]
  BY <1>1, <1>2 DEF Swapped, Frames
<1>4. q = SwapCurrentAndBackup(p)
  BY DEF SwapCurrentAndBackup
<1> HIDE DEF q
<1>5. HoldsWalk(q, Stack(p))
  BY <1>1, <1>2, <1>3 DEF HoldsWalk
<1>6. Stack(q) \in SUBSET Addr /\ HoldsWalk(q, Stack(q))
  BY <1>1, StackHoldsWalk DEF Stack
<1>7. HoldsWalk(p, Stack(q))
  <2>1. back \in Stack(q) /\ cur \in Stack(q)
    BY <1>1, <1>2, <1>3, <1>6 DEF HoldsWalk
  <2>2. p.pBackup[back] \in Stack(q) \cup {NULL}
    BY <1>1, <1>2, <1>3, <1>6, <2>1 DEF HoldsWalk
  <2> QED BY <1>1, <1>2, <1>3, <1>6, <2>1, <2>2 DEF HoldsWalk
<1>8. Stack(q) = Stack(p)
  BY <1>1, <1>5, <1>6, <1>7, StackLeast
<1> QED BY <1>1, <1>2, <1>3, <1>4, <1>8

LEMMA ReplacedStack ==
  ASSUME NEW p, WellFormed(p), NEW x, Unlinked(p, x), p.pNtkCur # NULL
  PROVE  LET q == Replaced(p, x) IN
         /\ Stack(q) = (Stack(p) \ {p.pNtkCur}) \cup {x} /\ x \notin Stack(p)
         /\ p.pNtkCur \in Stack(p)
         /\ q.live = p.live \ {p.pNtkCur} /\ q.nSteps = p.nSteps /\ q.pNtkCur = x
         /\ q.net[x] = p.net[x] /\ q.iStep[x] = p.iStep[p.pNtkCur]
         /\ \A y \in Stack(p) \ {p.pNtkCur} : q.net[y] = p.net[y] /\ q.iStep[y] = p.iStep[y]
<1> DEFINE c == p.pNtkCur
           q == Replaced(p, x)
           d == NtkDelete(p, c)
<1>1. /\ p \in Frames /\ Stack(p) \in SUBSET Addr /\ HoldsWalk(p, Stack(p))
      /\ Stack(p) \subseteq p.live /\ c \in Stack(p) /\ x \in p.live /\ x # c
      /\ x \in Addr
  BY StackHoldsWalk, StackIsLive DEF WellFormed, Stack, HoldsWalk, Unlinked, Frames
<1>c. p \in Frames /\ c \in Addr
  BY <1>1
<1>d. /\ d \in Frames
      /\ d.pNtkCur = c /\ d.nSteps = p.nSteps /\ d.live = p.live \ {c}
      /\ \A y \in Addr : d.pBackup[y] = IF y = c THEN NULL ELSE p.pBackup[y]
      /\ \A y \in Addr : d.iStep[y] = IF y = c THEN 0 ELSE p.iStep[y]
      /\ \A y \in Addr : d.net[y] = IF y = c THEN NULL ELSE p.net[y]
  BY <1>c, DeleteFields
<1>q. q = [d EXCEPT !.pBackup[x] = p.pBackup[c], !.iStep[x] = p.iStep[c], !.pNtkCur = x]
  BY DEF Replaced
<1> HIDE DEF q, d
<1>2. /\ q \in Frames
      /\ q.pNtkCur = x /\ q.nSteps = p.nSteps /\ q.live = p.live \ {c}
      /\ \A y \in Addr : q.pBackup[y] = IF y = x THEN p.pBackup[c]
                                        ELSE IF y = c THEN NULL ELSE p.pBackup[y]
      /\ \A y \in Addr : q.iStep[y] = IF y = x THEN p.iStep[c]
                                      ELSE IF y = c THEN 0 ELSE p.iStep[y]
      /\ \A y \in Addr : q.net[y] = IF y = c THEN NULL ELSE p.net[y]
  BY <1>1, <1>d, <1>q DEF Frames
<1>3. x \notin Stack(p)
  <2>1. HoldsWalk(p, Stack(p) \ {x})
    BY <1>1 DEF HoldsWalk, Unlinked
  <2> QED BY <1>1, <2>1, StackLeast
<1>4. HoldsWalk(q, (Stack(p) \ {c}) \cup {x})
  BY <1>1, <1>2, <1>3 DEF HoldsWalk, WellFormed, LinksApart
<1>5. Stack(q) \in SUBSET Addr /\ HoldsWalk(q, Stack(q)) /\ x \in Stack(q)
  <2>1. x # NULL
    BY <1>1, StackAssumption
  <2> QED BY <1>2, <2>1, StackHoldsWalk DEF Stack, HoldsWalk
<1>6. HoldsWalk(p, (Stack(q) \ {x}) \cup {c})
  <2>1. \A y \in p.live : p.pBackup[y] # x
    BY DEF Unlinked
  <2>2. Stack(q) \subseteq p.live
    <3>1. (Stack(p) \ {c}) \cup {x} \in SUBSET Addr
      BY <1>1
    <3> QED BY <1>1, <1>4, <3>1, StackLeast
  <2> QED BY <1>1, <1>2, <1>5, <2>1, <2>2 DEF HoldsWalk
<1>7. Stack(q) = (Stack(p) \ {c}) \cup {x}
  <2>1. (Stack(p) \ {c}) \cup {x} \in SUBSET Addr /\ (Stack(q) \ {x}) \cup {c} \in SUBSET Addr
    BY <1>1, <1>5
  <2>2. Stack(q) \subseteq (Stack(p) \ {c}) \cup {x}
    BY <1>4, <2>1, StackLeast
  <2>3. Stack(p) \subseteq (Stack(q) \ {x}) \cup {c}
    BY <1>6, <2>1, StackLeast
  <2> QED BY <1>5, <2>2, <2>3
<1>8. \A y \in Stack(p) \ {c} : q.net[y] = p.net[y] /\ q.iStep[y] = p.iStep[y]
  BY <1>1, <1>2, <1>3
<1>9. q.net[x] = p.net[x] /\ q.iStep[x] = p.iStep[c]
  BY <1>1, <1>2
<1> QED BY <1>1, <1>2, <1>3, <1>7, <1>8, <1>9 DEF q

LEMMA ReplacedUnsavedStack ==
  ASSUME NEW p, WellFormed(p), NEW x, Unlinked(p, x)
  PROVE  LET q == ReplacedUnsaved(p, x) IN
         /\ Stack(q) = {x} /\ q.live = p.live \ {p.pNtkCur}
         /\ q.nSteps = p.nSteps + 1 /\ q.iStep[x] = p.nSteps + 1 /\ q.net[x] = p.net[x]
<1> DEFINE c == p.pNtkCur
           d == IF c = NULL THEN p ELSE NtkDelete(p, c)
           q == ReplacedUnsaved(p, x)
           m == p.nSteps + 1
<1>1. /\ p \in Frames /\ x \in Addr /\ x # NULL /\ x # c /\ c \in Addr \cup {NULL}
      /\ p.live \subseteq Addr /\ m \in Nat
  BY StackAssumption DEF WellFormed, Unlinked, Frames
<1>d. /\ d \in Frames
      /\ d.live = p.live \ {c} /\ d.net[x] = p.net[x]
  BY <1>1, DeleteFields, StackAssumption DEF Frames
<1>q. q = [d EXCEPT !.pBackup[x] = NULL, !.iStep[x] = m, !.nSteps = m, !.pNtkCur = x]
  BY DEF ReplacedUnsaved
<1> HIDE DEF q, d, m
<1>2. /\ q \in Frames
      /\ q.pNtkCur = x /\ q.nSteps = m /\ q.live = p.live \ {c}
      /\ q.pBackup[x] = NULL /\ q.iStep[x] = m /\ q.net[x] = p.net[x]
  BY <1>1, <1>d, <1>q DEF Frames
<1>3. HoldsWalk(q, {x}) /\ {x} \in SUBSET Addr
  BY <1>1, <1>2 DEF HoldsWalk
<1>4. x \in Stack(q)
  BY <1>1, <1>2, StackHoldsWalk DEF HoldsWalk
<1>5. Stack(q) = {x}
  BY <1>3, <1>4, StackLeast
<1> QED BY <1>2, <1>5 DEF q, m

LEMMA DeleteAllStack ==
  ASSUME NEW p, WellFormed(p)
  PROVE  LET q == DeleteAllNetworks(p) IN
         /\ Stack(q) = {} /\ q.live = p.live \ Stack(p) /\ q.nSteps = p.nSteps
<1> DEFINE q == DeleteAllNetworks(p)
<1>1. q.pNtkCur = NULL /\ q.live = p.live \ Stack(p) /\ q.nSteps = p.nSteps
  BY DEF DeleteAllNetworks, WellFormed, Frames
<1> QED BY <1>1, EmptyStack

-----------------------------------------------------------------------------
(* The steps of the networks on the stack *)

\* A network of the stack that is not the current one is the backup of another.
LEMMA HangsOn ==
  ASSUME NEW p, WellFormed(p), NEW y \in Stack(p), y # p.pNtkCur
  PROVE  \E z \in Stack(p) : p.pBackup[z] = y
<1> SUFFICES ASSUME \A z \in Stack(p) : p.pBackup[z] # y PROVE FALSE
  OBVIOUS
<1>1. HoldsWalk(p, Stack(p)) /\ Stack(p) \in SUBSET Addr
  BY StackHoldsWalk DEF WellFormed, Stack
<1>2. HoldsWalk(p, Stack(p) \ {y})
  BY <1>1 DEF HoldsWalk
<1> QED BY <1>1, <1>2, StackLeast

LEMMA StackSteps ==
  ASSUME NEW p, WellFormed(p)
  PROVE  /\ p.nSteps \in Nat
         /\ \A x \in Stack(p) : /\ p.iStep[x] \in Nat /\ p.iStep[x] <= p.nSteps
                                /\ p.net[x] \in Net
         /\ \A x \in Stack(p) : p.pBackup[x] # NULL =>
               p.pBackup[x] \in Stack(p) /\ p.iStep[x] = p.iStep[p.pBackup[x]] + 1
         /\ p.pNtkCur # NULL => p.pNtkCur \in Stack(p) /\ p.iStep[p.pNtkCur] = p.nSteps
<1>1. HoldsWalk(p, Stack(p)) /\ Stack(p) \in SUBSET Addr /\ Stack(p) \subseteq p.live
  BY StackHoldsWalk, StackIsLive DEF WellFormed, Stack
<1> QED BY <1>1 DEF WellFormed, Frames, HoldsWalk, StepsDescend, LinksLive

\* No two networks of the stack have one number.
LEMMA StepsDiffer ==
  ASSUME NEW p, WellFormed(p)
  PROVE  \A x, y \in Stack(p) : p.iStep[x] = p.iStep[y] => x = y
<1> DEFINE S == {x \in Stack(p) : \A y \in Stack(p) : p.iStep[x] = p.iStep[y] => x = y}
<1>1. /\ Stack(p) \in SUBSET Addr /\ S \in SUBSET Addr /\ Stack(p) \subseteq p.live
      /\ HoldsWalk(p, Stack(p))
  BY StackHoldsWalk, StackIsLive DEF WellFormed, Stack
<1>2. ASSUME NEW y \in Stack(p), y # p.pNtkCur
      PROVE  \E z \in Stack(p) : p.pBackup[z] = y /\ p.iStep[z] = p.iStep[y] + 1
  <2>1. PICK z \in Stack(p) : p.pBackup[z] = y
    BY <1>2, HangsOn
  <2>2. y # NULL
    BY <1>1, StackAssumption
  <2> QED BY <2>1, <2>2, StackSteps
<1>3. p.pNtkCur # NULL => p.pNtkCur \in S
  <2> SUFFICES ASSUME p.pNtkCur # NULL,
                      NEW y \in Stack(p), p.iStep[y] = p.nSteps, y # p.pNtkCur
               PROVE  FALSE
    BY StackSteps
  <2> QED BY <1>2, StackSteps
<1>4. ASSUME NEW x \in S, p.pBackup[x] # NULL
      PROVE  p.pBackup[x] \in S
  <2>1. p.pBackup[x] \in Stack(p) /\ p.iStep[x] = p.iStep[p.pBackup[x]] + 1
    BY <1>4, StackSteps
  <2> SUFFICES ASSUME NEW y \in Stack(p), p.iStep[p.pBackup[x]] = p.iStep[y]
               PROVE  p.pBackup[x] = y
    BY <2>1
  <2>2. y # p.pNtkCur
    <3> SUFFICES ASSUME y = p.pNtkCur PROVE FALSE
      OBVIOUS
    <3>1. p.pNtkCur # NULL
      BY <1>1, StackAssumption
    <3> QED BY <2>1, <3>1, StackSteps
  <2>3. PICK z \in Stack(p) : p.pBackup[z] = y /\ p.iStep[z] = p.iStep[y] + 1
    BY <1>2, <2>2
  <2> QED BY <2>1, <2>3
<1>5. HoldsWalk(p, S)
  <2>1. p.pNtkCur \in S \cup {NULL}
    BY <1>3
  <2>2. \A x \in S : p.pBackup[x] \in S \cup {NULL}
    BY <1>4
  <2> HIDE DEF S
  <2> QED BY <2>1, <2>2 DEF HoldsWalk
<1> QED BY <1>1, <1>5, StackLeast

\* The network without a backup has the least number.
LEMMA BottomLeast ==
  ASSUME NEW p, WellFormed(p), NEW b \in Stack(p), p.pBackup[b] = NULL
  PROVE  \A x \in Stack(p) : p.iStep[b] <= p.iStep[x]
<1> DEFINE S == {x \in Stack(p) : p.iStep[b] <= p.iStep[x]}
<1>1. Stack(p) \in SUBSET Addr /\ S \in SUBSET Addr /\ HoldsWalk(p, Stack(p))
  BY StackHoldsWalk DEF WellFormed, Stack
<1>2. p.pNtkCur # NULL => p.pNtkCur \in S
  BY StackSteps
<1>3. ASSUME NEW x \in S, p.pBackup[x] # NULL
      PROVE  p.pBackup[x] \in S
  <2>1. p.pBackup[x] \in Stack(p) /\ p.iStep[x] = p.iStep[p.pBackup[x]] + 1
    BY <1>3, StackSteps
  <2>2. p.iStep[x] # p.iStep[b]
    BY <1>3, StepsDiffer
  <2> QED BY <2>1, <2>2, StackSteps
<1>4. HoldsWalk(p, S)
  <2>1. p.pNtkCur \in S \cup {NULL}
    BY <1>2
  <2>2. \A x \in S : p.pBackup[x] \in S \cup {NULL}
    BY <1>3
  <2> HIDE DEF S
  <2> QED BY <2>1, <2>2 DEF HoldsWalk
<1> QED BY <1>1, <1>4, StackLeast

-----------------------------------------------------------------------------
(* Abc_FrameSetCurrentNetwork as a whole: the oldest network goes, or the  *)
(* stack has grown and is within its limit.                                *)

LEMMA SetCurrentStack ==
  ASSUME NEW p, WellFormed(p), NEW x, Unlinked(p, x), NEW n \in Nat
  PROVE  LET q == SetCurrentNetwork(p, x, n) IN
         /\ WellFormed(q)
         /\ q.nSteps = p.nSteps + 1 /\ q.pNtkCur = x /\ x \notin Stack(p) /\ x \in Stack(q)
         /\ q.iStep[x] = p.nSteps + 1 /\ q.net[x] = p.net[x]
         /\ q.pBackup[x] \in {NULL, p.pNtkCur}
         /\ \A y \in Stack(q) \ {x} : q.net[y] = p.net[y] /\ q.iStep[y] = p.iStep[y]
         /\ \/ /\ Stack(q) = Stack(p) \cup {x} /\ q.live = p.live
               /\ Cardinality(Stack(q)) <= n + 1
            \/ \E b \in Stack(p) :
                  /\ Stack(q) = (Stack(p) \cup {x}) \ {b} /\ q.live = p.live \ {b}
                  /\ \A y \in Stack(p) : p.iStep[b] <= p.iStep[y]
                  /\ Cardinality(Stack(q)) = Cardinality(Stack(p))
                  /\ Cardinality(Stack(p)) > n
<1> DEFINE r == Push(p, x)
           q == SetCurrentNetwork(p, x, n)
<1>1. /\ Stack(r) = Stack(p) \cup {x} /\ x \notin Stack(p)
      /\ r.live = p.live /\ r.nSteps = p.nSteps + 1 /\ r.pNtkCur = x
      /\ r.iStep[x] = p.nSteps + 1 /\ r.net[x] = p.net[x] /\ r.pBackup[x] = p.pNtkCur
      /\ \A y \in Stack(p) : r.net[y] = p.net[y] /\ r.iStep[y] = p.iStep[y]
  BY PushStack
<1>2. WellFormed(r) /\ r.pNtkCur # NULL
  BY PushWellFormed
<1>3. q = Trim(r, n) /\ WellFormed(q)
  BY SetCurrentWellFormed DEF SetCurrentNetwork, Unlinked
<1>4. /\ Cardinality(Stack(p)) \in Nat
      /\ Cardinality(Stack(r)) = Cardinality(Stack(p)) + 1
  BY <1>1, StackFinite, FS_AddElement, ZenonT(30)
<1> HIDE DEF r, q
<1>5. CASE ~(Cardinality(Stack(r)) - 1 > n)
  <2>1. q = r
    BY <1>3, <1>5 DEF Trim
  <2>2. Cardinality(Stack(q)) <= n + 1
    BY <1>4, <1>5, <2>1
  <2>3. /\ q.nSteps = p.nSteps + 1 /\ q.pNtkCur = x /\ x \in Stack(q)
        /\ q.iStep[x] = p.nSteps + 1 /\ q.net[x] = p.net[x]
        /\ q.pBackup[x] \in {NULL, p.pNtkCur}
        /\ \A y \in Stack(q) \ {x} : q.net[y] = p.net[y] /\ q.iStep[y] = p.iStep[y]
        /\ Stack(q) = Stack(p) \cup {x} /\ q.live = p.live
    BY <1>1, <2>1
  <2> QED BY <1>1, <1>3, <2>2, <2>3 DEF q
<1>6. CASE Cardinality(Stack(r)) - 1 > n
  <2> DEFINE b == Bottom(r)
  <2>1. q = DropBottom(r) /\ Cardinality(Stack(r)) > 1
    BY <1>3, <1>4, <1>6 DEF Trim
  <2>2. b \in Stack(r) /\ r.pBackup[b] = NULL /\ b # x
    BY <1>1, <1>2, <2>1, BottomHangs
  <2>3. /\ Stack(q) = Stack(r) \ {b} /\ q.live = r.live \ {b}
        /\ q.nSteps = r.nSteps /\ q.pNtkCur = r.pNtkCur
        /\ \A y \in Stack(q) : /\ q.net[y] = r.net[y] /\ q.iStep[y] = r.iStep[y]
                               /\ q.pBackup[y] \in {NULL, r.pBackup[y]}
    BY <1>2, <2>1, DropBottomStack
  <2>4. \A y \in Stack(r) : r.iStep[b] <= r.iStep[y]
    BY <1>2, <2>2, BottomLeast
  <2> HIDE DEF b
  <2>5. Cardinality(Stack(q)) = Cardinality(Stack(p))
    <3>1. Cardinality(Stack(r) \ {b}) = Cardinality(Stack(r)) - 1
      BY <2>2, StackFinite, FS_RemoveElement
    <3> QED BY <1>4, <2>3, <3>1
  <2>6. b \in Stack(p) /\ x \in Stack(q)
    BY <1>1, <2>2, <2>3
  <2>7. \E c \in Stack(p) :
           /\ Stack(q) = (Stack(p) \cup {x}) \ {c} /\ q.live = p.live \ {c}
           /\ \A y \in Stack(p) : p.iStep[c] <= p.iStep[y]
           /\ Cardinality(Stack(q)) = Cardinality(Stack(p))
           /\ Cardinality(Stack(p)) > n
    <3>1. Cardinality(Stack(p)) > n
      BY <1>4, <1>6
    <3> QED BY <1>1, <2>3, <2>4, <2>5, <2>6, <3>1
  <2>8. /\ q.nSteps = p.nSteps + 1 /\ q.pNtkCur = x
        /\ q.iStep[x] = p.nSteps + 1 /\ q.net[x] = p.net[x]
        /\ q.pBackup[x] \in {NULL, p.pNtkCur}
        /\ \A y \in Stack(q) \ {x} : q.net[y] = p.net[y] /\ q.iStep[y] = p.iStep[y]
    BY <1>1, <2>3, <2>6
  <2> QED BY <1>1, <1>3, <2>6, <2>7, <2>8 DEF q
<1> QED BY <1>5, <1>6
=============================================================================
