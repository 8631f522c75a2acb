-------------------------------- MODULE Frame --------------------------------
(***************************************************************************)
(* An ABC session: the commands a user or a script gives, one after the    *)
(* other, through CmdCommandDispatch (base/cmd/cmdUtils.c), and what they  *)
(* do to the stack of saved networks.                                      *)
(***************************************************************************)
EXTENDS NtkStack

CONSTANTS BackupValues,   \* values the "backup" flag is set to
          SaveSteps,      \* values the "savesteps" flag is set to
          UNSET,          \* a flag that is not in the table
          MaxSteps        \* bound on the step counter

ASSUME FrameAssumption == /\ SaveSteps \subseteq Nat /\ UNSET \notin SaveSteps
                          /\ BackupValues \subseteq {"", "0", "1"}
                          /\ UNSET \notin BackupValues
                          /\ MaxSteps \in Nat

VARIABLES frm,       \* the Abc_Frame_t and the networks
          backup, savesteps,   \* the two flags of tFlags it reads
          request    \* the command that ran last

vars == <<frm, backup, savesteps, request>>

Init == /\ frm = FrameAllocate
        /\ backup = UNSET /\ savesteps = UNSET
        /\ request = <<"other">>

-----------------------------------------------------------------------------
(* Flags *)

BackupEnabled == backup \in {"", "1"}

NetsToSave == IF savesteps = UNSET THEN 1 ELSE savesteps

\* Mutant: "unset" empties the flag and leaves it in the table.
SetFlagKept == /\ savesteps' \in SaveSteps \cup {UNSET} /\ backup' = ""
               /\ request' = <<"other">> /\ UNCHANGED frm

SetFlag == /\ \/ backup' \in BackupValues \cup {UNSET} /\ UNCHANGED savesteps
              \/ savesteps' \in SaveSteps \cup {UNSET} /\ UNCHANGED backup
           /\ request' = <<"other">>
           /\ UNCHANGED frm

-----------------------------------------------------------------------------
(* Commands that build or change networks. fChange commands start with the  *)
(* frames Dispatched leaves.                                               *)

Dispatches == Dispatched(frm, BackupEnabled, NetsToSave)

\* No command makes more than one step.
Bounded == frm.nSteps < MaxSteps

Command(q) == frm' = q /\ request' = <<"other">> /\ UNCHANGED <<backup, savesteps>>

\* rewrite, refactor, resub, orchestrate, fx: the logic of the current network
\* changes where it is; the command may still report a failure.
ChangeInPlace ==
    /\ Bounded /\ frm.pNtkCur # NULL
    /\ \E p \in Dispatches, n \in Net :
          Command([p EXCEPT !.net[p.pNtkCur] = n])

\* rewrite, refactor, orchestrate give up in the middle: the network they
\* spoiled gives way to the copy they took first.
ChangeRestored ==
    /\ Bounded /\ frm.pNtkCur # NULL
    /\ \E p \in Dispatches : \E a \in Fresh(p) :
          Command(ReplaceCurrentNetwork(NtkDup(p, p.pNtkCur, a), a, BackupEnabled))

\* strash, collapse, read, read_aiger, read_truth: a new network.
ChangeReplace ==
    /\ Bounded
    /\ \E p \in Dispatches : \E a \in Fresh(p), n \in Net :
          Command(ReplaceCurrentNetwork(NtkAlloc(p, a, n), a, BackupEnabled))

\* Any of these refuses (no network, not an AIG, file missing): the copy that
\* the dispatch saved stays.
ChangeRefused ==
    /\ Bounded
    /\ \E p \in Dispatches : Command(p)

\* &put: a new network from the &-space, and no dispatch copy (fChange is 0).
Put ==
    /\ Bounded
    /\ \E a \in Fresh(frm), n \in Net :
          Command(ReplaceCurrentNetwork(NtkAlloc(frm, a, n), a, BackupEnabled))

-----------------------------------------------------------------------------
(* undo, recall, empty *)

SetCurrentToCopy(x) ==
    \E a \in Fresh(frm) :
       frm' = SetCurrentNetwork(NtkDup(frm, x, a), a, NetsToSave)

\* Mutant: undo saves a copy of the current network once more.
UndoCurrent ==
    /\ Bounded
    /\ request' = <<"undo">> /\ UNCHANGED <<backup, savesteps>>
    /\ IF frm.pNtkCur = NULL \/ frm.pBackup[frm.pNtkCur] = NULL
       THEN UNCHANGED frm
       ELSE SetCurrentToCopy(frm.pNtkCur)

Undo ==
    /\ Bounded
    /\ request' = <<"undo">> /\ UNCHANGED <<backup, savesteps>>
    /\ IF frm.pNtkCur = NULL \/ frm.pBackup[frm.pNtkCur] = NULL
       THEN UNCHANGED frm
       ELSE SetCurrentToCopy(frm.pBackup[frm.pNtkCur])

\* The networks the search along the backups stops at.
AtStep(p, s) == {x \in Stack(p) : p.iStep[x] = s}

Recall(s) ==
    /\ Bounded
    /\ request' = <<"recall", s>> /\ UNCHANGED <<backup, savesteps>>
    /\ IF frm.pNtkCur = NULL \/ s >= frm.nSteps \/ s < 0 THEN UNCHANGED frm
       ELSE IF s = 0 THEN frm' = DeleteAllNetworks(frm)
       ELSE IF AtStep(frm, s) = {} THEN UNCHANGED frm
       ELSE SetCurrentToCopy(CHOOSE x \in AtStep(frm, s) : TRUE)

EmptyAll == Command(DeleteAllNetworks(frm))

Next == \/ SetFlag
        \/ ChangeInPlace \/ ChangeRestored \/ ChangeReplace \/ ChangeRefused
        \/ Put
        \/ Undo \/ (\E s \in -1 .. MaxSteps : Recall(s))
        \/ EmptyAll

Spec == Init /\ [][Next]_vars

-----------------------------------------------------------------------------
(* Properties *)

TypeOK == /\ frm \in Frames
          /\ backup \in BackupValues \cup {UNSET}
          /\ savesteps \in SaveSteps \cup {UNSET}
          /\ request \in {<<"other">>, <<"undo">>} \cup ({"recall"} \X Int)

\* Every network the stack reaches is allocated: a command that walks the
\* backups never meets a freed network.
StackLive == Stack(frm) \subseteq frm.live

\* Every procedure that relinks the networks, on any path, leaves lists: no
\* dangling link, no shared backup, steps that descend one by one, so that
\* "recall <num>" meets each number once.
AlwaysWellFormed == WellFormed(frm)

\* With the "backup" flag on, no command takes a network off the stack without
\* freeing it, whatever the flag was when the stack was built.
Lost == frm.live \ Stack(frm)
NothingLost == [][BackupEnabled => Lost' \subseteq Lost]_vars

\* The stack does not grow past the number of networks "savesteps" allows.
GrowthBounded ==
    [][Cardinality(Stack(frm)) < Cardinality(Stack(frm))' =>
          Cardinality(Stack(frm))' <= NetsToSave + 1]_vars

\* The saved networks, by step number.
History == [s \in {frm.iStep[x] : x \in Stack(frm)} |->
               frm.net[CHOOSE x \in AtStep(frm, s) : TRUE]]

Abstract == INSTANCE UndoHistory WITH hist <- History, top <- frm.nSteps

\* undo and recall bring back what the session had at the step they name, and
\* no other command disturbs what is saved.
ImplementsUndoHistory == Abstract!Spec
=============================================================================
