------------------------------ MODULE NtkStack ------------------------------
(***************************************************************************)
(* The stack of saved networks of an ABC session (base/main/mainFrame.c).  *)
(*                                                                         *)
(* The session (Abc_Frame_t) points to the current network; each network   *)
(* points to its backup, and carries the number of the step that made it.  *)
(* The module models the heap of network objects and the procedures that   *)
(* relink it, as operators from a frame to the frame they leave behind, so *)
(* that a command composes them in the order the code calls them.          *)
(***************************************************************************)
EXTENDS Integers, FiniteSets

CONSTANTS Addr,   \* addresses malloc can return for a network object
          Net,    \* what a network can contain
          NULL

ASSUME StackAssumption == /\ NULL \notin Addr /\ NULL \notin Net
                          /\ IsFiniteSet(Addr)

\* The fields of a freed object are kept at these values: nothing in the
\* code that is modelled may depend on them.
Frames == [pNtkCur : Addr \cup {NULL},       \* Abc_Frame_t.pNtkCur
           nSteps  : Nat,                    \* Abc_Frame_t.nSteps
           live    : SUBSET Addr,            \* allocated networks
           pBackup : [Addr -> Addr \cup {NULL}],  \* Abc_Ntk_t.pNetBackup
           iStep   : [Addr -> Nat],          \* Abc_Ntk_t.iStep
           net     : [Addr -> Net \cup {NULL}]]   \* the logic it holds

FrameAllocate == [pNtkCur |-> NULL, nSteps |-> 1, live |-> {},
                  pBackup |-> [a \in Addr |-> NULL],
                  iStep   |-> [a \in Addr |-> 0],
                  net     |-> [a \in Addr |-> NULL]]

-----------------------------------------------------------------------------
(* Network objects *)

Fresh(p) == Addr \ p.live

NtkAlloc(p, a, n) == [p EXCEPT !.live = @ \cup {a}, !.pBackup[a] = NULL,
                               !.iStep[a] = 0, !.net[a] = n]

\* The copy has the logic of the original, and neither its backup nor its step.
NtkDup(p, x, a) == NtkAlloc(p, a, p.net[x])

NtkDelete(p, x) == [p EXCEPT !.live = @ \ {x}, !.pBackup[x] = NULL,
                             !.iStep[x] = 0, !.net[x] = NULL]

-----------------------------------------------------------------------------
(* The list that starts at pNtkCur *)

HoldsWalk(p, S) == /\ p.pNtkCur \in S \cup {NULL}
                   /\ \A x \in S : p.pBackup[x] \in S \cup {NULL}

\* The networks a walk along the backups visits: the least set that holds
\* pNtkCur and, with a network, its backup.
Stack(p) == {x \in Addr : \A S \in SUBSET Addr : HoldsWalk(p, S) => x \in S}

\* pNtk2 and pNtk3 of Abc_FrameSetCurrentNetwork when its walk ends.
Bottom(p) == CHOOSE x \in Stack(p) : p.pBackup[x] = NULL
OverBottom(p) == CHOOSE x \in Stack(p) : p.pBackup[x] = Bottom(p)

-----------------------------------------------------------------------------
(* Abc_FrameSetCurrentNetwork *)

Push(p, x) == [p EXCEPT !.pBackup[x] = p.pNtkCur, !.iStep[x] = p.nSteps + 1,
                        !.nSteps = @ + 1, !.pNtkCur = x]

\* Mutant: the network above the deleted one still points to it.
DropBottomDangling(p) == NtkDelete(p, Bottom(p))

DropBottom(p) == [NtkDelete(p, Bottom(p)) EXCEPT !.pBackup[OverBottom(p)] = NULL]

\* Mutant: the current network is not counted.
TrimLate(p, nNetsToSave) ==
    IF Cardinality(Stack(p)) - 2 > nNetsToSave THEN DropBottom(p) ELSE p

Trim(p, nNetsToSave) ==
    IF Cardinality(Stack(p)) - 1 > nNetsToSave THEN DropBottom(p) ELSE p

SetCurrentNetwork(p, x, nNetsToSave) ==
    IF p.pNtkCur = x THEN p ELSE Trim(Push(p, x), nNetsToSave)

-----------------------------------------------------------------------------
(* Abc_FrameSwapCurrentAndBackup *)

\* Mutant: the old current network keeps its backup, which is now above it.
SwappedCycle(p, cur, back) ==
    [p EXCEPT !.pBackup = [@ EXCEPT ![back] = cur],
              !.iStep   = [@ EXCEPT ![cur] = p.iStep[back], ![back] = p.iStep[cur]],
              !.pNtkCur = back]

Swapped(p, cur, back) ==
    [p EXCEPT !.pBackup = [@ EXCEPT ![cur] = p.pBackup[back], ![back] = cur],
              !.iStep   = [@ EXCEPT ![cur] = p.iStep[back], ![back] = p.iStep[cur]],
              !.pNtkCur = back]

SwapCurrentAndBackup(p) ==
    IF p.pBackup[p.pNtkCur] = NULL THEN p
    ELSE Swapped(p, p.pNtkCur, p.pBackup[p.pNtkCur])

-----------------------------------------------------------------------------
(* Abc_FrameReplaceCurrentNetwork *)

Replaced(p, x) == [NtkDelete(p, p.pNtkCur) EXCEPT
                      !.pBackup[x] = p.pBackup[p.pNtkCur],
                      !.iStep[x]   = p.iStep[p.pNtkCur],
                      !.pNtkCur    = x]

\* Mutant: the replaced network is not freed.
ReplacedKept(p, x) ==
    [p EXCEPT !.pBackup[x] = NULL, !.iStep[x] = p.nSteps + 1,
              !.nSteps = p.nSteps + 1, !.pNtkCur = x]

ReplacedUnsaved(p, x) ==
    LET q == IF p.pNtkCur = NULL THEN p ELSE NtkDelete(p, p.pNtkCur)
    IN  [q EXCEPT !.pBackup[x] = NULL, !.iStep[x] = p.nSteps + 1,
                  !.nSteps = p.nSteps + 1, !.pNtkCur = x]

ReplaceCurrentNetwork(p, x, fBackup) ==
    IF p.pNtkCur # NULL /\ fBackup THEN Replaced(p, x) ELSE ReplacedUnsaved(p, x)

-----------------------------------------------------------------------------
(* Abc_FrameDeleteAllNetworks *)

\* Mutant: only the current network is freed.
DeleteCurrentNetwork(p) ==
    IF p.pNtkCur = NULL THEN p ELSE [NtkDelete(p, p.pNtkCur) EXCEPT !.pNtkCur = NULL]

DeleteAllNetworks(p) ==
    LET S == Stack(p)
    IN  [p EXCEPT !.live    = @ \ S,
                  !.pBackup = [x \in Addr |-> IF x \in S THEN NULL ELSE @[x]],
                  !.iStep   = [x \in Addr |-> IF x \in S THEN 0 ELSE @[x]],
                  !.net     = [x \in Addr |-> IF x \in S THEN NULL ELSE @[x]],
                  !.pNtkCur = NULL]

-----------------------------------------------------------------------------
(* CmdCommandDispatch before the handler runs: the frames that a command   *)
(* which may change the network (fChange) finds, one for each address      *)
(* malloc may return for the copy that is saved.                           *)

Dispatched(p, fBackup, nNetsToSave) ==
    IF p.pNtkCur = NULL \/ ~fBackup THEN {p}
    ELSE {SwapCurrentAndBackup(SetCurrentNetwork(NtkDup(p, p.pNtkCur, a), a, nNetsToSave))
             : a \in Fresh(p)}

-----------------------------------------------------------------------------
(* The shape every procedure above preserves. A leaked network, allocated  *)
(* but off the stack, keeps its links and is part of it.                   *)

\* The links of an allocated network lead to allocated networks.
LinksLive(p) == /\ p.pNtkCur \in p.live \cup {NULL}
                /\ \A x \in p.live : p.pBackup[x] \in p.live \cup {NULL}
                /\ \A x \in p.live : p.net[x] \in Net

\* A backup is one step older, and the current network has the last number.
StepsDescend(p) == /\ p.pNtkCur # NULL => p.iStep[p.pNtkCur] = p.nSteps
                   /\ \A x \in p.live : p.iStep[x] <= p.nSteps
                   /\ \A x \in p.live : p.pBackup[x] # NULL =>
                          p.iStep[x] = p.iStep[p.pBackup[x]] + 1

\* No network is the backup of two, and nothing is above the current one.
LinksApart(p) == \A x \in p.live : p.pBackup[x] # NULL =>
                    /\ p.pBackup[x] # p.pNtkCur
                    /\ \A y \in p.live : p.pBackup[y] = p.pBackup[x] => y = x

WellFormed(p) == p \in Frames /\ LinksLive(p) /\ StepsDescend(p) /\ LinksApart(p)
=============================================================================
