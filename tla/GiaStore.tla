------------------------------- MODULE GiaStore -------------------------------
(***************************************************************************)
(* What the commands of the &-space promise: five places that hold the     *)
(* values of AIGs, not the AIGs themselves.  &undo goes back once, to what *)
(* was there before the last new AIG; &load may be repeated, &load2 not;   *)
(* and &save, &save2 and &saveaig keep what is better than what they have. *)
(***************************************************************************)
EXTENDS Integers

CONSTANTS Designs,      \* records with a name, the number of inputs and func
          Sizes,        \* records with luts, edges, lutLevels, ands, levels
          NULL

VARIABLES net,          \* the current network of the frame
          cur, prev, best, best2, saved

vars == <<net, cur, prev, best, best2, saved>>

Networks == [design : Designs, logic : BOOLEAN]
Values == [design : Designs, size : Sizes, mapped : BOOLEAN]

\* Less than p by the metric of &save: LUTs then levels with -a, else levels
\* then LUTs and edges.
LessMapped(fArea, z, p) ==
    IF fArea THEN p.luts > z.luts \/ (p.luts = z.luts /\ p.lutLevels > z.lutLevels)
    ELSE p.lutLevels > z.lutLevels
         \/ (p.lutLevels = z.lutLevels /\ 2 * p.luts + p.edges > 2 * z.luts + z.edges)

\* Less than p by the metric of &saveaig.
LessAig(fArea, z, p) ==
    IF fArea THEN p.ands > z.ands
    ELSE p.levels > z.levels \/ (p.levels = z.levels /\ p.ands > z.ands)

\* Of the same name and with the same inputs.
SameInterface(d, e) == d.name = e.name /\ d.inputs = e.inputs

Improves(fArea, v, old) ==
    old = NULL \/ ~SameInterface(v.design, old.design) \/ LessMapped(fArea, v.size, old.size)

Init == /\ net \in [design : Designs, logic : {FALSE}]
        /\ cur = NULL /\ prev = NULL /\ best = NULL /\ best2 = NULL /\ saved = NULL

Read == /\ net' \in [design : Designs, logic : {FALSE}]
        /\ UNCHANGED <<cur, prev, best, best2, saved>>

\* A new AIG takes the place of the current one: got from the network, or
\* another of the same design.
NewAig == /\ cur' \in Values
          /\ \/ net # NULL /\ cur'.design = net.design
             \/ cur # NULL /\ cur'.design = cur.design
          /\ prev' = cur
          /\ UNCHANGED <<net, best, best2, saved>>

Unmap == /\ cur # NULL
         /\ cur' = [cur EXCEPT !.mapped = FALSE]
         /\ UNCHANGED <<net, prev, best, best2, saved>>

Put == /\ cur # NULL
       /\ net' = [design |-> cur.design, logic |-> cur.mapped]
       /\ UNCHANGED <<cur, prev, best, best2, saved>>

Undo == /\ cur # NULL /\ prev # NULL
        /\ cur' = prev /\ prev' = NULL
        /\ UNCHANGED <<net, best, best2, saved>>

Save == /\ cur # NULL /\ cur.mapped
        /\ \E fArea \in BOOLEAN : Improves(fArea, cur, best)
        /\ best' = cur
        /\ UNCHANGED <<net, cur, prev, best2, saved>>

Save2 == /\ cur # NULL /\ cur.mapped
         /\ \E fArea \in BOOLEAN : Improves(fArea, cur, best2)
         /\ best2' = cur
         /\ UNCHANGED <<net, cur, prev, best, saved>>

SaveAig == /\ cur # NULL
           /\ saved = NULL \/ \E fArea \in BOOLEAN : LessAig(fArea, cur.size, saved.size)
           /\ saved' = cur
           /\ UNCHANGED <<net, cur, prev, best, best2>>

ClearSaved == /\ saved # NULL /\ saved' = NULL
              /\ UNCHANGED <<net, cur, prev, best, best2>>

Load == /\ best # NULL /\ cur' = best
        /\ UNCHANGED <<net, prev, best, best2, saved>>

Load2 == /\ best2 # NULL /\ cur' = best2 /\ best2' = NULL
         /\ UNCHANGED <<net, prev, best, saved>>

LoadAig == /\ saved # NULL /\ cur' = saved
           /\ UNCHANGED <<net, prev, best, best2, saved>>

EmptyAll == /\ net' = NULL /\ cur' = NULL /\ prev' = NULL
            /\ best' = NULL /\ best2' = NULL /\ saved' = NULL

Next == \/ Read \/ NewAig \/ Unmap \/ Put \/ Undo \/ Save \/ Save2 \/ SaveAig
        \/ ClearSaved \/ Load \/ Load2 \/ LoadAig \/ EmptyAll

Spec == Init /\ [][Next]_vars
===============================================================================
