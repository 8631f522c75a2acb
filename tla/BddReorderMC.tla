----------------------------- MODULE BddReorderMC -----------------------------
(***************************************************************************)
(* Node tables for TLC: the reduced BDDs of chosen functions, built from   *)
(* their cofactors in the order 0, 1, ..., N - 1. In a reduced table a     *)
(* node is a function, regular when it is true at the all-ones assignment. *)
(***************************************************************************)
EXTENDS BddReorder, SequencesExt

AllOnes == [i \in Vars |-> TRUE]

Cofactor(f, i, b) == {a \in Asgs : [a EXCEPT ![i] = b] \in f}
Depends(f, i) == Cofactor(f, i, TRUE) # Cofactor(f, i, FALSE)
TopVar(f) == CHOOSE i \in Vars : Depends(f, i) /\ \A j \in 0 .. i - 1 : ~Depends(f, j)

Neg(f) == AllOnes \notin f
Regular(f) == IF Neg(f) THEN Asgs \ f ELSE f
Proj(i) == {a \in Asgs : a[i]}

\* The functions of the nodes that the functions of F need.
NodeFns(F) ==
    LET cof[k \in 0 .. N] == IF k = 0 THEN F \cup {Proj(i) : i \in Vars}
          ELSE UNION {{Cofactor(f, k - 1, TRUE), Cofactor(f, k - 1, FALSE)} : f \in cof[k - 1]}
    IN  {Regular(f) : f \in UNION {cof[k] : k \in 0 .. N}} \ {Asgs}

Manager(F) ==
    LET fns == SetToSeq(NodeFns(F))
        at(f) == IF Regular(f) = Asgs THEN ONE
                 ELSE CHOOSE n \in 1 .. Len(fns) : fns[n] = Regular(f)
        edge(f) == <<at(f), Neg(f)>>
        refs(n) == Cardinality({m \in 1 .. Len(fns) :
                                  at(Cofactor(fns[m], TopVar(fns[m]), TRUE)) = n})
                   + Cardinality({m \in 1 .. Len(fns) :
                                  at(Cofactor(fns[m], TopVar(fns[m]), FALSE)) = n})
                   + Cardinality({f \in F : at(f) = n})
                   + Cardinality({i \in Vars : at(Proj(i)) = n})
    IN  [dd |-> [n \in Pool |-> IF n \notin 1 .. Len(fns) THEN NULL ELSE
                   [index |-> TopVar(fns[n]), ref |-> refs(n),
                    T |-> at(Cofactor(fns[n], TopVar(fns[n]), TRUE)),
                    E |-> edge(Cofactor(fns[n], TopVar(fns[n]), FALSE))]],
         roots |-> {edge(f) : f \in F},
         vars |-> [i \in Vars |-> at(Proj(i))]]

And(i, j) == Proj(i) \cap Proj(j)
Or(f, g)  == f \cup g
Xor(i, j) == (Proj(i) \cup Proj(j)) \ And(i, j)

\* Every function of three variables, and networks of two and three outputs.
AllSingle == {{f} : f \in SUBSET Asgs}
Shared == {{And(0, 1), And(1, 2)}, {And(0, 2), Xor(0, 1)}, {Xor(0, 2), And(0, 1), And(1, 2)},
           {Or(And(0, 1), And(0, 2)), Xor(1, 2)}, {Asgs \ And(0, 2), And(0, 2)}}

Managers3 == {Manager(F) : F \in AllSingle \cup Shared}
=============================================================================
