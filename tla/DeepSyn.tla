------------------------------- MODULE DeepSyn -------------------------------
(***************************************************************************)
(* "&deepsyn" (aig/gia/giaDeep.c): nIters independent random walks from    *)
(* the AIG in the &-space, each a loop of scripts run through the command  *)
(* interpreter on the session's own &-space, keeping the smallest AIG met. *)
(*                                                                         *)
(* An AIG is its number of AND nodes: nothing else decides what the loop   *)
(* does.                                                                   *)
(***************************************************************************)
EXTENDS Integers

CONSTANTS MaxAnds,      \* bound on the AND nodes of an AIG
          MaxIters,     \* bound on -I
          MaxNoImpr,    \* bound on -J
          IterMax,      \* the code's 100000, smaller
          NULL

ASSUME DeepSynAssumption == /\ MaxAnds \in Nat /\ MaxIters \in Nat
                            /\ MaxNoImpr \in Nat /\ IterMax \in Nat \ {0}
                            /\ NULL \notin Int

Sizes == 0 .. MaxAnds

VARIABLES pc,
          pGia, pGia2,      \* the &-space and its previous AIG
          fBatchMode,       \* Abc_Frame_t.fBatchMode
          par,              \* nIters, nNoImpr, nAnds, and whether -T is given
          pInit, pBest, i,  \* locals of Gia_ManDeepSyn
          pNew, k, iIterLast,   \* locals of Gia_ManDeepSynOne (k is its i)
          goalSaid,         \* the last walk ended with "Quality goal ... is achieved"
          given, smallest   \* history: the AIG given, the smallest one met

space  == <<pGia, pGia2>>
outer  == <<pInit, pBest, i>>
inner  == <<pNew, k, iIterLast>>
hist   == <<given, smallest>>
vars   == <<pc, space, fBatchMode, par, outer, inner, goalSaid, hist>>

nAndsMin == -1      \* never assigned again

Init == /\ pc = "call"
        /\ pGia \in Sizes \cup {NULL} /\ pGia2 \in {NULL}
        /\ fBatchMode \in BOOLEAN
        /\ par \in [nIters : 0 .. MaxIters, nNoImpr : 0 .. MaxNoImpr,
                    nAnds : Sizes, fTimeOut : BOOLEAN, fBatch : {fBatchMode}]
        /\ pInit = NULL /\ pBest = NULL /\ i = 0
        /\ pNew = NULL /\ k = 0 /\ iIterLast = -1
        /\ goalSaid = FALSE
        /\ given = pGia /\ smallest = pGia

\* Abc_FrameUpdateGia: the AIG before it stays as the previous one.
UpdateGia(new) == pGia' = new /\ pGia2' = pGia

-----------------------------------------------------------------------------
(* Abc_CommandAbc9DeepSyn and Gia_ManDeepSyn *)

\* "There is no AIG", and the command succeeds.
CallWithoutAig ==
    /\ pc = "call" /\ pGia = NULL
    /\ pc' = "done"
    /\ UNCHANGED <<space, fBatchMode, par, outer, inner, goalSaid, hist>>

Call ==
    /\ pc = "call" /\ pGia # NULL
    /\ pInit' = pGia /\ pBest' = pGia /\ i' = 0
    /\ pc' = "walk"
    /\ UNCHANGED <<space, fBatchMode, par, inner, goalSaid, hist>>

\* Mutant: the walk goes on from where the last one stopped.
StartWalkFromLast ==
    /\ pc = "walk" /\ i < par.nIters
    /\ pNew' = pGia /\ k' = 0 /\ iIterLast' = -1
    /\ pc' = "script" /\ goalSaid' = FALSE
    /\ UNCHANGED <<space, fBatchMode, par, outer, hist>>

\* A walk starts from a copy of the AIG given, and takes it for its best.
StartWalk ==
    /\ pc = "walk" /\ i < par.nIters
    /\ UpdateGia(pInit)
    /\ pNew' = pInit /\ k' = 0 /\ iIterLast' = -1
    /\ pc' = "script" /\ goalSaid' = FALSE
    /\ UNCHANGED <<fBatchMode, par, outer, hist>>

Finish ==
    /\ pc = "walk" /\ i >= par.nIters
    /\ UpdateGia(pBest)
    /\ pc' = "done"
    /\ UNCHANGED <<fBatchMode, par, outer, inner, goalSaid, hist>>

-----------------------------------------------------------------------------
(* Gia_ManDeepSynOne *)

\* The two branches run the same script: "inBatch" in the batch mode of the
\* caller, "ownBatch" in one that the walk has turned on for it.
BeginScript ==
    /\ pc = "script"
    /\ IF fBatchMode THEN pc' = "inBatch" /\ UNCHANGED fBatchMode
                     ELSE pc' = "ownBatch" /\ fBatchMode' = TRUE
    /\ UNCHANGED <<space, par, outer, inner, goalSaid, hist>>

\* Mutants: batch mode stays on after the script; it is turned off by either
\* branch.
BatchModeLeft == fBatchMode
BatchModeOff == FALSE

BatchModeAfter == IF pc = "ownBatch" THEN FALSE ELSE fBatchMode

\* The script's commands each update the &-space, so whatever was there before
\* it is gone.
ScriptSucceeds ==
    /\ pc \in {"inBatch", "ownBatch"}
    /\ pGia' \in Sizes /\ pGia2' \in Sizes
    /\ smallest' = IF pGia' < smallest THEN pGia' ELSE smallest
    /\ fBatchMode' = BatchModeAfter
    /\ pc' = "judge"
    /\ UNCHANGED <<par, outer, inner, goalSaid, given>>

\* A command of the script fails ("compress2rs" is an alias of abc.rc). NULL
\* goes to the caller, which reads its node count: the process dies, with
\* batch mode still on.
ScriptFails ==
    /\ pc \in {"inBatch", "ownBatch"}
    /\ pGia' \in Sizes /\ pGia2' \in Sizes
    /\ pc' = "crashed"
    /\ UNCHANGED <<fBatchMode, par, outer, inner, goalSaid, hist>>

\* Mutant: the last AIG is taken, not the best.
BestIsLast == pGia

Best == IF pGia < pNew THEN pGia ELSE pNew
LastOf == IF pGia < pNew THEN k ELSE iIterLast

\* Mutant: no limit on the iterations.
StopsUnlimited(late) == late \/ k - LastOf > par.nNoImpr

\* The loop ends on time, on nNoImpr, or on IterMax; late is what the clock says.
Stops(late) == late \/ k - LastOf > par.nNoImpr \/ k + 1 = IterMax

\* k reaches IterMax only when neither break is taken.
OutOfIters(late) == ~late /\ k - LastOf <= par.nNoImpr

\* "Quality goal ... is achieved", whichever break ended the walk.
GoalPrinted(late) == ~OutOfIters(late) /\ par.nAnds # 0 /\ nAndsMin <= par.nAnds

\* Mutant: the walk is not counted.
EndWalkUncounted == /\ pBest' = IF pBest > Best THEN Best ELSE pBest
                    /\ pc' = "walk" /\ UNCHANGED <<i, k>>

\* The best of the walk goes to the caller, which keeps the smaller.
EndWalk == /\ pBest' = IF pBest > Best THEN Best ELSE pBest
           /\ i' = i + 1
           /\ pc' = "walk" /\ UNCHANGED k

Judge ==
    /\ pc = "judge"
    /\ \E late \in IF par.fTimeOut THEN BOOLEAN ELSE {FALSE} :
          \/ /\ Stops(late) /\ EndWalk
             /\ goalSaid' = GoalPrinted(late)
          \/ /\ ~Stops(late)
             /\ k' = k + 1 /\ pc' = "script"
             /\ UNCHANGED <<pBest, i, goalSaid>>
    /\ pNew' = Best /\ iIterLast' = LastOf
    /\ UNCHANGED <<space, fBatchMode, par, pInit, hist>>

Next == \/ CallWithoutAig \/ Call \/ StartWalk \/ Finish
        \/ BeginScript \/ ScriptSucceeds \/ ScriptFails \/ Judge

\* One thread, which runs while it can.
Spec == Init /\ [][Next]_vars /\ WF_vars(Next)

-----------------------------------------------------------------------------
(* Properties *)

Sz == Sizes \cup {NULL}
Labels == {"call", "walk", "script", "inBatch", "ownBatch", "judge", "done", "crashed"}
TypeOK == /\ pc \in Labels
          /\ {pGia, pGia2, pInit, pBest, pNew, given, smallest} \subseteq Sz
          /\ fBatchMode \in BOOLEAN /\ goalSaid \in BOOLEAN
          /\ i \in 0 .. MaxIters /\ k \in 0 .. IterMax /\ iIterLast \in -1 .. IterMax

\* The AIG left in the &-space is the smallest of the one given and all those
\* the scripts of all walks produced, on every way a walk can end.
ResultIsSmallest == pc = "done" => pGia = smallest

\* Inside a walk the best AIG of the walk lies between the smallest ever met
\* and the one given: a walk never starts from what another one spoiled.
WalkBestBounded == pc \in {"script", "inBatch", "ownBatch", "judge"} =>
                      smallest <= pNew /\ pNew <= given /\ smallest <= pBest

\* Every script runs in batch mode (giaDeep.c:77-94); between the scripts, from
\* one walk to the next and when the command returns, the session is in the
\* mode of the caller, however many scripts have turned it on and off.
BatchModeRestored ==
    /\ pc \in {"inBatch", "ownBatch"} => fBatchMode
    /\ pc \notin {"inBatch", "ownBatch", "crashed"} => fBatchMode = par.fBatch

\* The command ends even with no timeout and no -J.
Terminates == <>(pc \in {"done", "crashed"})

\* "-A <num> : the number of nodes to stop", "Quality goal (...) is achieved"
\* (giaDeep.c:137): the message is only printed when the AIG is that small.
GoalHonest == goalSaid => pBest <= par.nAnds
=============================================================================
