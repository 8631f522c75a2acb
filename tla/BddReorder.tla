------------------------------ MODULE BddReorder ------------------------------
(***************************************************************************)
(* "lsv_bdd_reorder" (ext-lsv_final/final.cpp) on the shared BDDs of a     *)
(* collapsed network: Cudd_ReduceHeap again and again, whose heuristics    *)
(* all move variables by cuddSwapInPlace, one exchange of two adjacent     *)
(* levels at a time (bdd/cudd/cuddReorder.c, cuddWindow.c).                *)
(*                                                                         *)
(* The nodes are rewritten where they are, since the network and the other *)
(* nodes hold their addresses. An edge is a node and a complement mark.    *)
(***************************************************************************)
EXTENDS Integers, FiniteSets

CONSTANTS N,         \* variables, and levels
          Pool,      \* the nodes cuddDynamicAllocNode can return
          ONE, NULL,
          Managers,  \* the node tables and roots a run may start from
          Passes,    \* calls of Cudd_ReduceHeap (100 in the code)
          Moves      \* exchanges a heuristic other than window2 makes at most

Vars  == 0 .. N - 1
Edges == (Pool \cup {ONE}) \X BOOLEAN
Records(Count) == [index : Vars, T : Pool \cup {ONE}, E : Edges, ref : Count]

ASSUME BddAssumption == /\ N \in Nat \ {0, 1} /\ Passes \in Nat /\ Moves \in Nat
                        /\ IsFiniteSet(Pool) /\ ONE \notin Pool
                        /\ NULL \notin Pool \cup {ONE} \cup Records(Int)

VARIABLES dd,            \* the nodes, NULL where there is none
          roots, vars,   \* the edges of the network; the projection functions
          perm, invperm, subkeys, keys, isolated, interact,   \* of DdManager
          pc, x, size, res, method, pass, moves,     \* the loops
          sw,            \* locals of cuddSwapInPlace
          start          \* history: what the edges denoted, and the first size

table == <<dd, perm, invperm, subkeys, keys, isolated>>
loop  == <<x, size, res, method, pass, moves>>
fixed == <<roots, vars, start>>
bddvars == <<table, interact, loop, pc, sw, fixed>>

Live(d) == {n \in Pool : d[n] # NULL}
index(d, n) == IF n = ONE THEN N ELSE d[n].index
ref(d, n)   == IF n = ONE THEN 2 ELSE d[n].ref     \* ONE is never collected
Layer(d, i) == {n \in Live(d) : d[n].index = i}
Children(d, n) == {d[n].T, d[n].E[1]} \ {ONE}

\* A table as cuddUniqueInter builds it and cuddGarbageCollect leaves it when
\* the network has been collapsed: reduced, ordered, every count exact.
Collapsed(m) ==
    LET d == m.dd
        live == Live(d)
    IN  /\ d \in [Pool -> Records(Nat) \cup {NULL}]
        /\ m.roots \subseteq (live \cup {ONE}) \X BOOLEAN
        /\ m.vars \in [Vars -> live]
        /\ \A i \in Vars : LET v == d[m.vars[i]]
                           IN  v.index = i /\ v.T = ONE /\ v.E = <<ONE, TRUE>>
        /\ \A n \in live :
              /\ \A c \in Children(d, n) : c \in live /\ d[n].index < d[c].index
              /\ <<d[n].T, FALSE>> # d[n].E
              /\ \A k \in live : d[k].index = d[n].index /\ d[k].T = d[n].T
                                 /\ d[k].E = d[n].E => k = n
              /\ d[n].ref > 0
              /\ d[n].ref = Cardinality({f \in live : d[f].T = n})
                             + Cardinality({f \in live : d[f].E[1] = n})
                             + Cardinality({e \in m.roots : e[1] = n})
                             + Cardinality({i \in Vars : m.vars[i] = n})

ASSUME ManagersAssumption == \A m \in Managers : Collapsed(m)

Not(e)        == <<e[1], ~e[2]>>
NotIf(e, neg) == <<e[1], e[2] # neg>>

-----------------------------------------------------------------------------
(* What an edge denotes: the assignments that lead to ONE with no mark left *)

Asgs == [Vars -> BOOLEAN]

Down(d, a, e) == IF e[1] = ONE THEN e
                 ELSE IF a[d[e[1]].index] THEN <<d[e[1]].T, e[2]>>
                 ELSE NotIf(d[e[1]].E, e[2])

Denotes(d, e) ==
    {a \in Asgs : LET walk[k \in 0 .. N] == IF k = 0 THEN e ELSE Down(d, a, walk[k - 1])
                  IN  walk[N] = <<ONE, FALSE>>}

External == roots \cup {<<vars[i], FALSE>> : i \in Vars}

\* The variables of the nodes a depth-first search from n meets.
Support(d, n) ==
    LET met[k \in 0 .. N] ==
          IF k = 0 THEN {n} \ {ONE}
          ELSE met[k - 1] \cup ((UNION {{d[m].T, d[m].E[1]} : m \in met[k - 1]}) \ {ONE})
    IN  {d[m].index : m \in met[N]}

-----------------------------------------------------------------------------
(* Cudd_ReduceHeap *)

Isolated(d, i) == IF ref(d, vars[i]) = 1 THEN 1 ELSE 0

IsolatedCount(d) == Cardinality({i \in Vars : Isolated(d, i) = 1})

\* Mutant: only a node and its children interact.
InteractingNear(d) == {p \in Vars \X Vars : \E n \in Live(d) : d[n].index = p[1]
                          /\ p[2] \in {d[n].index, index(d, d[n].T), index(d, d[n].E[1])}}

\* Two variables interact when they are in the support of one node.
Interacting(d) == {p \in Vars \X Vars : \E n \in Live(d) :
                      p[1] \in Support(d, n) /\ p[2] \in Support(d, n)}

NoSwap == [xi |-> 0, yi |-> 0, g |-> {}, newxkeys |-> 0, newykeys |-> 0,
           back |-> "move"]

High == N - 1

Init == /\ \E m \in Managers : dd = m.dd /\ roots = m.roots /\ vars = m.vars
        /\ perm = [i \in Vars |-> i] /\ invperm = perm
        /\ subkeys = [l \in Vars |-> Cardinality(Layer(dd, invperm[l]))]
        /\ keys = Cardinality(Live(dd)) + 1        \* with the constant
        /\ isolated = IsolatedCount(dd) /\ interact = {}
        /\ method \in {"window2", "other"}
        /\ pc = "call" /\ x = 0 /\ pass = 0 /\ moves = 0
        /\ size = 0 /\ res = 0 /\ sw = NoSwap
        /\ start = [size |-> keys - isolated, roots |-> [e \in External |-> Denotes(dd, e)]]

ReduceHeap ==
    /\ pc = "call" /\ pass < Passes
    /\ isolated' = IsolatedCount(dd)
    /\ interact' = Interacting(dd)
    /\ x' = 0 /\ moves' = 0 /\ res' = keys - isolated' /\ size' = size
    /\ pc' = "move"
    /\ UNCHANGED <<dd, perm, invperm, subkeys, keys, method, pass, sw, fixed>>

-----------------------------------------------------------------------------
(* cuddSwapInPlace(table, x, x + 1) *)

\* The nodes of the upper layer with a child in the lower one, which change
\* layer; the others stay.
Chain(d, xi, yi) ==
    {f \in Layer(d, xi) : index(d, d[f].T) = yi \/ index(d, d[f].E[1]) = yi}

\* A swap at level l, for the loop to go on at the label back.
BeginSwap(l, back) ==
    LET xi == invperm[l]
        yi == invperm[l + 1]
        g  == IF <<xi, yi>> \in interact THEN Chain(dd, xi, yi) ELSE {}
    IN  /\ sw' = [xi |-> xi, yi |-> yi, g |-> g, back |-> back,
                  newxkeys |-> IF <<xi, yi>> \in interact
                               THEN Cardinality(Layer(dd, xi) \ g) ELSE subkeys[l],
                  newykeys |-> subkeys[l + 1]]
        /\ dd' = [n \in Pool |-> IF n \in g THEN [dd[n] EXCEPT !.index = yi] ELSE dd[n]]
        /\ isolated' = IF <<xi, yi>> \in interact
                       THEN isolated - Isolated(dd, xi) - Isolated(dd, yi) ELSE isolated
        /\ pc' = "swap"
        /\ UNCHANGED <<perm, invperm, subkeys, keys, interact, fixed>>

Ref(d, n, k) == IF n = ONE THEN d ELSE [d EXCEPT ![n].ref = @ + k]

\* cuddDynamicAllocNode: which free node does not matter.
FreeNode(d) == CHOOSE n \in Pool : d[n] = NULL

\* Mutants: the node is made without a look; the one found is not counted.
AlwaysAdd(d, xi, t, e) ==
    LET new == FreeNode(d)
        added == [d EXCEPT ![new] = [index |-> xi, T |-> t[1], E |-> e, ref |-> 1]]
    IN  [d |-> Ref(Ref(added, t[1], 1), e[1], 1), e |-> <<new, FALSE>>]

FindUncounted(d, xi, t, e) ==
    LET same == {n \in Layer(d, xi) : <<d[n].T, FALSE>> = t /\ d[n].E = e}
    IN  IF same = {} THEN AlwaysAdd(d, xi, t, e)
        ELSE [d |-> d, e |-> <<CHOOSE n \in same : TRUE, FALSE>>]

\* The node (xi, t, e) of the upper layer, found or made, with one reference
\* more; t is regular.
FindOrAdd(d, xi, t, e) ==
    LET same == {n \in Layer(d, xi) : <<d[n].T, FALSE>> = t /\ d[n].E = e}
        new  == FreeNode(d)
        added == [d EXCEPT ![new] = [index |-> xi, T |-> t[1], E |-> e, ref |-> 1]]
    IN  IF same # {} THEN LET n == CHOOSE n \in same : TRUE
                          IN  [d |-> Ref(d, n, 1), e |-> <<n, FALSE>>]
        ELSE [d |-> Ref(Ref(added, t[1], 1), e[1], 1), e |-> <<new, FALSE>>]

\* Mutant: the mark of the then-cofactor is dropped.
ChildUnmarked(d, xi, t, e) ==
    IF t = e THEN [d |-> Ref(d, t[1], 1), e |-> t] ELSE FindOrAdd(d, xi, t, e)

\* The same for any two cofactors: none is needed when they are equal, and the
\* mark of a complemented then-cofactor goes to the result.
Child(d, xi, t, e) ==
    IF t = e THEN [d |-> Ref(d, t[1], 1), e |-> t]
    ELSE IF t[2] THEN LET c == FindOrAdd(d, xi, Not(t), Not(e))
                      IN  [d |-> c.d, e |-> Not(c.e)]
    ELSE FindOrAdd(d, xi, t, e)

\* The cofactors of an edge by yi.
Cofactors(d, e, yi) == IF index(d, e[1]) # yi THEN <<e, e>>
                       ELSE << <<d[e[1]].T, e[2]>>, NotIf(d[e[1]].E, e[2])>>

\* f is re-expressed over yi at its own address.
ReExpressed(d, f, xi, yi) ==
    LET f1 == <<d[f].T, FALSE>>
        f0 == d[f].E
        one  == Cofactors(d, f1, yi)
        zero == Cofactors(d, f0, yi)
        c1 == Child(Ref(d, f1[1], -1), xi, one[1], zero[1])
        c0 == Child(Ref(c1.d, f0[1], -1), xi, one[2], zero[2])
    IN  [c0.d EXCEPT ![f].T = c1.e[1], ![f].E = c0.e]

\* A node needs two new ones at most; without memory the exchange would stop.
MemoryLeft == Cardinality({n \in Pool : dd[n] = NULL}) >= 2

\* Mutant: the nodes made in the upper layer are not counted.
ReExpressUncounted ==
    /\ pc = "swap"
    /\ \E f \in sw.g :
          /\ dd' = ReExpressed(dd, f, sw.xi, sw.yi)
          /\ sw' = [sw EXCEPT !.g = @ \ {f}, !.newykeys = @ + 1]
    /\ UNCHANGED <<perm, invperm, subkeys, keys, isolated, interact, loop, pc, fixed>>

\* One node of the chain; the order of the chain comes from the hash table.
ReExpress ==
    /\ pc = "swap" /\ MemoryLeft
    /\ \E f \in sw.g :
          /\ dd' = ReExpressed(dd, f, sw.xi, sw.yi)
          /\ sw' = [sw EXCEPT !.g = @ \ {f}, !.newykeys = @ + 1,
                       !.newxkeys = @ + Cardinality(Live(dd')) - Cardinality(Live(dd))]
    /\ UNCHANGED <<perm, invperm, subkeys, keys, isolated, interact, loop, pc, fixed>>

\* GC of the y layer: its nodes without references let go of their children.
RefsFrom(S, n) == Cardinality({f \in S : dd[f].T = n})
                     + Cardinality({f \in S : dd[f].E[1] = n})
\* Mutant: the children of a collected node are let go twice.
CollectedTwice(dead) ==
    [n \in Pool |-> IF n \in dead \/ dd[n] = NULL THEN NULL
                    ELSE [dd[n] EXCEPT !.ref = @ - 2 * RefsFrom(dead, n)]]

Collected(dead) ==
    [n \in Pool |-> IF n \in dead \/ dd[n] = NULL THEN NULL
                    ELSE [dd[n] EXCEPT !.ref = @ - RefsFrom(dead, n)]]

EndSwap ==
    /\ pc = "swap" /\ sw.g = {}
    /\ LET touched == <<sw.xi, sw.yi>> \in interact
           dead == IF touched THEN {f \in Layer(dd, sw.yi) : dd[f].ref = 0} ELSE {}
           newykeys == sw.newykeys - Cardinality(dead)
           l == perm[sw.xi]
       IN  /\ dd' = Collected(dead)
           /\ isolated' = IF touched THEN isolated + Isolated(dd', sw.xi)
                                             + Isolated(dd', sw.yi) ELSE isolated
           /\ perm' = [perm EXCEPT ![sw.xi] = l + 1, ![sw.yi] = l]
           /\ invperm' = [invperm EXCEPT ![l] = sw.yi, ![l + 1] = sw.xi]
           /\ subkeys' = [subkeys EXCEPT ![l] = newykeys, ![l + 1] = sw.newxkeys]
           /\ keys' = keys + sw.newxkeys + newykeys - subkeys[l] - subkeys[l + 1]
    /\ res' = keys' - isolated'
    /\ pc' = sw.back /\ sw' = NoSwap
    /\ UNCHANGED <<x, size, method, pass, moves, interact, fixed>>

-----------------------------------------------------------------------------
(* ddWindow2, and the other heuristics *)

TryWindow ==
    /\ pc = "move" /\ method = "window2" /\ x < High
    /\ size' = res
    /\ BeginSwap(x, "judge")
    /\ UNCHANGED <<x, res, method, pass, moves>>

\* No improvement: undo the permutation.
UndoWindow ==
    /\ pc = "judge" /\ res >= size
    /\ BeginSwap(x, "undone")
    /\ UNCHANGED loop

\* Mutant: a permutation is kept whatever it cost.
NextWindowAlways ==
    /\ pc \in {"undone", "judge"}
    /\ x' = x + 1 /\ pc' = "move"
    /\ UNCHANGED <<table, interact, sw, size, res, method, pass, moves, fixed>>

NextWindow ==
    /\ pc = "undone" \/ (pc = "judge" /\ res < size)
    /\ x' = x + 1 /\ pc' = "move"
    /\ UNCHANGED <<table, interact, sw, size, res, method, pass, moves, fixed>>

\* Sifting, annealing, the genetic and the random method go through the orders
\* by exchanges too, each by a criterion of its own.
OtherMove ==
    /\ pc = "move" /\ method = "other" /\ moves < Moves
    /\ moves' = moves + 1
    /\ \E l \in 0 .. High - 1 : BeginSwap(l, "move")
    /\ UNCHANGED <<x, size, res, method, pass>>

EndPass ==
    /\ pc = "move" /\ (method = "window2" => x = High)
    /\ pass' = pass + 1 /\ pc' = "call"
    /\ UNCHANGED <<table, interact, sw, x, size, res, method, moves, fixed>>

Return ==
    /\ pc = "call" /\ pass = Passes
    /\ pc' = "done"
    /\ UNCHANGED <<table, interact, sw, loop, fixed>>

Next == \/ ReduceHeap \/ ReExpress \/ EndSwap
        \/ TryWindow \/ UndoWindow \/ NextWindow \/ OtherMove
        \/ EndPass \/ Return

Spec == Init /\ [][Next]_bddvars

-----------------------------------------------------------------------------
(* Properties *)

TypeOK == /\ dd \in [Pool -> Records(Nat) \cup {NULL}]
          /\ roots \subseteq Edges /\ vars \in [Vars -> Pool]
          /\ perm \in [Vars -> Vars] /\ invperm \in [Vars -> Vars]
          /\ subkeys \in [Vars -> Nat] /\ keys \in Nat /\ isolated \in 0 .. N
          /\ interact \subseteq Vars \X Vars /\ sw.g \subseteq Pool
          /\ x \in 0 .. High /\ pass \in 0 .. Passes /\ moves \in 0 .. Moves

AtRest == pc # "swap"

\* The edges the network holds, and the projection functions, denote after
\* every exchange what they denoted before the command, at the same addresses.
EdgesKept == AtRest => \A e \in External : Denotes(dd, e) = start.roots[e]

\* "The modified f does not already exists in ylist. (Because of the uniqueness
\* of the cofactors.)" (cuddReorder.c:1089): inserted without a look at what is
\* there, a node never repeats another one, nor has two equal children; between
\* exchanges every child is below its parent.
Canonical ==
    LET settled == Live(dd) \ sw.g
    IN  /\ \A m, n \in settled :
              /\ dd[m].index = dd[n].index /\ dd[m].T = dd[n].T /\ dd[m].E = dd[n].E
              => m = n
        /\ \A n \in settled : <<dd[n].T, FALSE>> # dd[n].E
        /\ AtRest => \A n \in settled : \A c \in Children(dd, n) :
              c \in settled /\ perm[dd[n].index] < perm[dd[c].index]

\* The reference counts are exact through the exchange, and "no dead nodes will
\* be present when it terminates" (cuddReorder.c:754).
RefsExact ==
    \A n \in Live(dd) :
       /\ dd[n].ref = RefsFrom(Live(dd), n) + Cardinality({e \in roots : e[1] = n})
                         + Cardinality({i \in Vars : vars[i] = n})
       /\ AtRest => dd[n].ref > 0

\* The counters window2 decides by are those of the table, though each exchange
\* only corrects them by what it did.
CountsExact ==
    AtRest => /\ keys = Cardinality(Live(dd)) + 1
              /\ isolated = IsolatedCount(dd)
              /\ \A l \in Vars : /\ subkeys[l] = Cardinality(Layer(dd, invperm[l]))
                                 /\ perm[invperm[l]] = l

\* Undoing a permutation brings the size back exactly, so window2 never leaves
\* the table larger than the command found it.
WindowShrinks ==
    method = "window2" => /\ pc = "undone" => res = size
                          /\ pc \in {"call", "move", "done"} =>
                                keys - isolated <= start.size

\* The interaction matrix, computed once a pass, stays good while the nodes are
\* rewritten: no node ever depends on two variables it calls independent.
InteractSound ==
    pc \in {"move", "judge", "undone"} =>
          \A n \in Live(dd) : Support(dd, n) \X Support(dd, n) \subseteq interact
=============================================================================
