---------------------------- MODULE DeepSynProofs ----------------------------
(***************************************************************************)
(* For any size of AIG, any numbers of iterations and any limits,          *)
(* "&deepsyn" leaves the smallest AIG it met in the &-space.               *)
(***************************************************************************)
EXTENDS DeepSyn, TLAPS

InScript == {"inBatch", "ownBatch"}
InWalk == {"script", "judge"} \cup InScript
Running == {"walk"} \cup InWalk

Params == [nIters : 0 .. MaxIters, nNoImpr : 0 .. MaxNoImpr,
           nAnds : Sizes, fTimeOut : BOOLEAN, fBatch : BOOLEAN]

\* Who has set batch mode: the caller, or the walk for the script it runs.
BatchModeKnown ==
    /\ pc = "inBatch" => par.fBatch
    /\ pc = "ownBatch" => ~par.fBatch
    /\ pc # "crashed" => fBatchMode = (par.fBatch \/ pc = "ownBatch")

\* In each state, where the smallest AIG is.
SmallestKnown ==
    /\ pc = "call" => given = pGia /\ smallest = pGia
    /\ pc \in Running => /\ pBest \in Sizes /\ smallest \in Sizes /\ given \in Sizes
                         /\ pInit = given /\ smallest <= given
    /\ pc = "walk" => pBest = smallest
    /\ pc \in InWalk => /\ pNew \in Sizes /\ pNew <= given
                        /\ smallest <= pNew /\ smallest <= pBest
    /\ pc \in {"script"} \cup InScript => smallest = pBest \/ smallest = pNew
    /\ pc = "judge" => /\ pGia \in Sizes /\ smallest <= pGia
                       /\ smallest = pBest \/ smallest = pNew \/ smallest = pGia
    /\ pc = "done" => pGia = smallest

\* A walk that is running may run another iteration.
ItersLeft ==
    pc \in InWalk => /\ i < par.nIters
                     /\ k \in 0 .. IterMax - 1 /\ iIterLast \in -1 .. k

IndInv == TypeOK /\ par \in Params /\ BatchModeKnown /\ SmallestKnown /\ ItersLeft

LEMMA InitInv == Init => IndInv
<1> SUFFICES ASSUME Init PROVE IndInv
    OBVIOUS
<1> USE DeepSynAssumption DEF Init
<1>1. TypeOK
    <2>1. {pGia, pGia2, pInit, pBest, pNew, given, smallest} \subseteq Sz
        BY DEF Sz
    <2>2. fBatchMode \in BOOLEAN /\ goalSaid \in BOOLEAN /\ pc \in Labels
        BY DEF Labels
    <2>3. i \in 0 .. MaxIters /\ k \in 0 .. IterMax /\ iIterLast \in -1 .. IterMax
        OBVIOUS
    <2> QED BY <2>1, <2>2, <2>3 DEF TypeOK
<1>2. par \in Params
    BY DEF Params
<1>3. fBatchMode = par.fBatch
    OBVIOUS
<1>4. BatchModeKnown
    BY <1>2, <1>3 DEF BatchModeKnown, Params
<1>5. SmallestKnown /\ ItersLeft
    BY DEF SmallestKnown, ItersLeft, Running, InWalk, InScript
<1> QED BY <1>1, <1>2, <1>4, <1>5 DEF IndInv

LEMMA NextInv == IndInv /\ [Next]_vars => IndInv'
<1> SUFFICES ASSUME IndInv, [Next]_vars PROVE IndInv'
    OBVIOUS
<1> USE DeepSynAssumption
    DEF IndInv, TypeOK, Labels, Params, BatchModeKnown, SmallestKnown, ItersLeft,
        Sz, Sizes, Running, InWalk, InScript, space, outer, inner, hist
<1>1. CASE CallWithoutAig
    BY <1>1 DEF CallWithoutAig
<1>2. CASE Call
    BY <1>2 DEF Call
<1>3. CASE StartWalk
    <2>1. /\ pc = "walk" /\ pc' = "script" /\ i < par.nIters
          /\ pGia' = pInit /\ pGia2' = pGia /\ pNew' = pInit
          /\ k' = 0 /\ iIterLast' = -1 /\ goalSaid' = FALSE
          /\ UNCHANGED <<fBatchMode, par, pInit, pBest, i, given, smallest>>
        BY <1>3 DEF StartWalk, UpdateGia
    <2>2. TypeOK'
        <3>1. pInit \in Sizes /\ pGia \in Sz
            BY <2>1
        <3>2. {pGia, pGia2, pInit, pBest, pNew, given, smallest}' \subseteq Sz
            BY <2>1, <3>1
        <3>3. (i \in 0 .. MaxIters /\ k \in 0 .. IterMax /\ iIterLast \in -1 .. IterMax)'
            BY <2>1
        <3> QED BY <2>1, <3>2, <3>3
    <2>3. BatchModeKnown' /\ ItersLeft'
        BY <2>1
    <2>4. SmallestKnown'
        BY <2>1
    <2> QED BY <2>1, <2>2, <2>3, <2>4
<1>4. CASE Finish
    BY <1>4 DEF Finish, UpdateGia
<1>5. CASE BeginScript
    BY <1>5 DEF BeginScript
<1>6. CASE ScriptSucceeds
    <2>1. /\ pc \in InScript /\ pc' = "judge"
          /\ pGia' \in Sizes /\ pGia2' \in Sizes
          /\ smallest' = IF pGia' < smallest THEN pGia' ELSE smallest
          /\ fBatchMode' = BatchModeAfter
          /\ UNCHANGED <<par, pInit, pBest, i, pNew, k, iIterLast, goalSaid, given>>
        BY <1>6 DEF ScriptSucceeds
    <2>2. BatchModeKnown' /\ fBatchMode' \in BOOLEAN
        BY <2>1 DEF BatchModeAfter
    <2>3. SmallestKnown' /\ smallest' \in Sizes
        BY <2>1
    <2>4. ItersLeft'
        BY <2>1
    <2> QED BY <2>1, <2>2, <2>3, <2>4
<1>7. CASE ScriptFails
    BY <1>7 DEF ScriptFails
<1>8. CASE Judge
    <2>1. PICK late \in BOOLEAN :
             \/ /\ Stops(late) /\ EndWalk
                /\ goalSaid' = GoalPrinted(late)
             \/ /\ ~Stops(late)
                /\ k' = k + 1 /\ pc' = "script"
                /\ UNCHANGED <<pBest, i, goalSaid>>
        BY <1>8 DEF Judge
    <2>2. /\ pc = "judge" /\ pNew' = Best /\ iIterLast' = LastOf
          /\ UNCHANGED <<pGia, pGia2, fBatchMode, par, pInit, given, smallest>>
        BY <1>8 DEF Judge
    <2>3. /\ Best \in Sizes /\ Best <= pNew /\ Best <= pGia
          /\ Best = pNew \/ Best = pGia
          /\ LastOf \in -1 .. k
        BY <2>2 DEF Best, LastOf
    <2>4. CASE Stops(late) /\ EndWalk /\ goalSaid' = GoalPrinted(late)
        <3>1. goalSaid' \in BOOLEAN
            BY <2>4 DEF GoalPrinted
        <3> QED BY <2>2, <2>3, <2>4, <3>1 DEF EndWalk
    <2>5. CASE /\ ~Stops(late)
               /\ k' = k + 1 /\ pc' = "script"
               /\ UNCHANGED <<pBest, i, goalSaid>>
        <3>1. k + 1 # IterMax
            BY <2>5 DEF Stops
        <3> QED BY <2>2, <2>3, <2>5, <3>1
    <2> QED BY <2>1, <2>4, <2>5
<1>9. CASE UNCHANGED vars
    BY <1>9 DEF vars
<1> QED BY <1>1, <1>2, <1>3, <1>4, <1>5, <1>6, <1>7, <1>8, <1>9 DEF Next

LEMMA InvImplies == IndInv => /\ TypeOK /\ ResultIsSmallest /\ WalkBestBounded
                              /\ BatchModeRestored
BY DEF IndInv, Params, BatchModeKnown, SmallestKnown, Running, InWalk, InScript,
       ResultIsSmallest, WalkBestBounded, BatchModeRestored

\* The inductive invariant holds.
LEMMA AlwaysInv == Spec => []IndInv
BY InitInv, NextInv, PTL DEF Spec

\* The values stay in their types; the walk counts stay below their limits.
THEOREM DeepSynTypeOK == Spec => []TypeOK
BY AlwaysInv, InvImplies, PTL

\* Gia_ManDeepSyn returns the smallest AIG that any script of any walk made, or
\* the one it was given.
THEOREM DeepSynResult == Spec => []ResultIsSmallest
BY AlwaysInv, InvImplies, PTL

\* The best AIG of a walk is never worse than the AIG given to the command.
THEOREM DeepSynWalkBest == Spec => []WalkBestBounded
BY AlwaysInv, InvImplies, PTL

\* Every script runs in batch mode, and the session has the caller's mode
\* between any two of them and when the command returns.
THEOREM DeepSynBatchMode == Spec => []BatchModeRestored
BY AlwaysInv, InvImplies, PTL
=============================================================================
