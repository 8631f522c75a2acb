--------------------------------- MODULE Aig ---------------------------------
(***************************************************************************)
(* The structurally hashed and-inverter graph of base/abc/abcAig.c and the *)
(* loop of rewrite, refactor and resub over it: each node is given a root  *)
(* of the same function, Abc_AigReplace moves its fanouts there and lets   *)
(* the change propagate through a stack of further replacements, and the   *)
(* levels are brought up to date through two lists of marked nodes.        *)
(*                                                                         *)
(* An object is its Id; a literal is 2 * Id + complement.  Ids of deleted  *)
(* objects are not used again.                                             *)
(***************************************************************************)
EXTENDS Integers, SequencesExt, FiniteSetsExt

CONSTANTS NumPi,        \* number of primary inputs
          Netlists,     \* the networks a session starts from: records with
                        \* ands, a sequence of pairs of literals, and pos
          Updating,     \* the values of fUpdateLevel
          Commands,     \* bound: resynthesis commands in a session
          MaxUpdates,   \* bound: nodes that a command replaces
          MaxGraph,     \* bound: ANDs that a replacement brings
          MaxObjs       \* bound: objects beyond which it brings one only

ASSUME AigAssumption == /\ NumPi \in Nat /\ Updating \subseteq BOOLEAN
                        /\ Commands \in Nat /\ MaxUpdates \in Nat
                        /\ MaxGraph \in Nat /\ MaxObjs \in Nat

VARIABLES man,          \* the network and its Abc_Aig_t
          fUpdateLevel, LevelMax,
          pc, node,     \* where the command is, and the node it looks at
          nNodes,       \* the Ids the loop stops at
          runs, updates,   \* commands so far, and what the last one replaced
          turns, edges,    \* turns of the replacement loop, and the edges at its start
          outputs       \* what the primary outputs computed at the start

vars == <<man, fUpdateLevel, LevelMax, pc, node, nNodes, runs, updates, turns, edges, outputs>>

NULL == -1

Regular(l) == l \div 2
Compl(l) == l % 2
Lit(n, c) == 2 * n + c
NotCond(l, c) == Lit(Regular(l), (Compl(l) + c) % 2)
Const1 == Lit(0, 0)

\* What Op leaves of m after the first k members of s, and after all of them.
\* Functions of an index, over which the proofs go by induction.
Runs(Op(_, _), m, s) ==
    LET after[k \in 0 .. Len(s)] == IF k = 0 THEN m ELSE Op(after[k - 1], s[k])
    IN  after
Each(Op(_, _), m, s) == Runs(Op, m, s)[Len(s)]

UpTo(k) == [i \in 1 .. k |-> i]

Objs(m) == {n \in DOMAIN m.obj : m.obj[n].type # "none"}
Ands(m) == {n \in DOMAIN m.obj : m.obj[n].type = "and"}
Pos(m) == {n \in DOMAIN m.obj : m.obj[n].type = "po"}
Size(m) == Cardinality(DOMAIN m.obj)
\* The objects of S from the smallest to the largest.
Ids(m, S) == Each(LAMBDA s, i : IF i - 1 \in S THEN Append(s, i - 1) ELSE s, <<>>, UpTo(Size(m)))

Fanins(m, n) == {Regular(l) : l \in ToSet(m.obj[n].fanins)}

-----------------------------------------------------------------------------
(* What the nodes compute: the inputs that make a node true.               *)

Minterms(m, n) ==
    LET ones[k \in DOMAIN m.obj] ==
            IF k = 0 THEN SUBSET (1 .. NumPi)
            ELSE IF k <= NumPi THEN {s \in SUBSET (1 .. NumPi) : k \in s}
            ELSE {s \in SUBSET (1 .. NumPi) :
                     \A l \in ToSet(m.obj[k].fanins) : (s \in ones[Regular(l)]) # (Compl(l) = 1)}
    IN  ones[n]

Computes(m, l) == IF Compl(l) = 0 THEN Minterms(m, Regular(l))
                  ELSE (SUBSET (1 .. NumPi)) \ Minterms(m, Regular(l))

Outputs(m) == [n \in Pos(m) |-> Minterms(m, n)]

Cone(m, n) ==
    LET below[k \in DOMAIN m.obj] == {k} \cup UNION {below[f] : f \in Fanins(m, k)}
    IN  below[n]

\* The objects with no path of i fanins below them, for i up to the last.
Ranked(m, S, i) == {n \in DOMAIN m.obj : Fanins(m, n) \subseteq S}
Grounded(m) == Runs(LAMBDA S, i : Ranked(m, S, i), {}, UpTo(Size(m)))

-----------------------------------------------------------------------------
(* Edges *)

AddFanin(m, n, l) ==
    [m EXCEPT !.obj[n].fanins = Append(@, l), !.obj[Regular(l)].fanouts = Append(@, n)]

RemoveFanins(m, n) ==
    LET left == [k \in DOMAIN m.obj |->
                    IF k \in Fanins(m, n)
                    THEN [m.obj[k] EXCEPT !.fanouts = RemoveFirst(m.obj[k].fanouts, n)]
                    ELSE m.obj[k]]
    IN  [m EXCEPT !.obj = [left EXCEPT ![n].fanins = <<>>]]

\* Mutant: the edge takes the literal and forgets its own complement.
PatchPlain(m, n, new) == AddFanin(RemoveFanins(m, n), n, new)

\* The one fanin of an output. The complement of the old edge stays: a
\* complemented new fanin flips it.
PatchFanin(m, n, new) ==
    AddFanin(RemoveFanins(m, n), n, NotCond(new, Compl(m.obj[n].fanins[1])))

-----------------------------------------------------------------------------
(* Structural hashing *)

Ordered(l0, l1) == IF Regular(l0) > Regular(l1) THEN <<l1, l0>> ELSE <<l0, l1>>

\* The node in the table with these children; at most one has them.
Hashed(m, l0, l1) ==
    LET same == {n \in m.table : m.obj[n].fanins = Ordered(l0, l1)}
    IN  IF same = {} THEN NULL ELSE Lit(CHOOSE n \in same : TRUE, 0)

AndLookup(m, l0, l1) ==
    CASE l0 = l1                -> l0
      [] l0 = NotCond(l1, 1)    -> NotCond(Const1, 1)
      [] l0 = Const1            -> l1
      [] l1 = Const1            -> l0
      [] {l0, l1} \cap {NotCond(Const1, 1)} # {} -> NotCond(Const1, 1)
      [] OTHER -> IF \E l \in {l0, l1} : m.obj[Regular(l)].fanouts = <<>>
                  THEN NULL ELSE Hashed(m, l0, l1)

IsExorType(m, n) ==
    /\ m.obj[n].type = "and"
    /\ LET c == m.obj[n].fanins
           a == m.obj[Regular(c[1])].fanins
           b == m.obj[Regular(c[2])].fanins
       IN  /\ Compl(c[1]) = 1 /\ Compl(c[2]) = 1
           /\ Len(a) = 2 /\ Len(b) = 2
           /\ \A i \in 1 .. 2 : b[i] = NotCond(a[i], 1)

LevelNew(m, n) == 1 + Max({m.obj[f].level : f \in Fanins(m, n)})

AndCreateFrom(m, l0, l1, n) ==
    LET p == Ordered(l0, l1)
        q == AddFanin(AddFanin(m, n, p[1]), n, p[2])
    IN  [q EXCEPT !.obj[n].level = LevelNew(q, n), !.obj[n].exor = IsExorType(q, n),
                  !.table = @ \cup {n}]

NewObj(type) == [type |-> type, fanins |-> <<>>, fanouts |-> <<>>,
                 level |-> 0, rlevel |-> 0, exor |-> FALSE]

CreateObj(m, type) ==
    [m EXCEPT !.obj = [n \in 0 .. Size(m) |-> IF n = Size(m) THEN NewObj(type) ELSE m.obj[n]]]

\* Mutant: the node stays in its bin.
KeepInTable(m, n) == m

AndDelete(m, n) == [m EXCEPT !.table = @ \ {n}]

\* Abc_AigAnd: the literal and the manager after it.
And(m, l0, l1) ==
    LET found == AndLookup(m, l0, l1)
        new   == Size(m)
    IN  IF found # NULL THEN [lit |-> found, man |-> m]
        ELSE [lit |-> Lit(new, 0), man |-> AndCreateFrom(CreateObj(m, "and"), l0, l1, new)]

-----------------------------------------------------------------------------
(* The two level structures: pairs of a level and a node, in the order in  *)
(* which they were pushed.  The mark of a node says that it is in one.     *)

Marked(list, n) == \E i \in DOMAIN list : list[i][2] = n

Unmarked(list, lev, n) == RemoveFirst(list, <<lev, n>>)

FromLevels(m, n) ==
    IF Marked(m.vLevels, n) THEN [m EXCEPT !.vLevels = Unmarked(@, m.obj[n].level, n)] ELSE m

FromLevelsR(m, n) ==
    IF Marked(m.vLevelsR, n) THEN [m EXCEPT !.vLevelsR = Unmarked(@, m.obj[n].rlevel, n)] ELSE m

ToLevels(m, n) == [m EXCEPT !.vLevels = Append(@, <<m.obj[n].level, n>>)]
ToLevelsR(m, n) == [m EXCEPT !.vLevelsR = Append(@, <<m.obj[n].rlevel, n>>)]

-----------------------------------------------------------------------------
(* Abc_AigDeleteNode.  The scan of the stack steps over the entry behind    *)
(* one that it removes.                                                    *)

Unqueued(s, n) ==
    Each(LAMBDA t, i : IF i <= Len(t) /\ t[i].old = n THEN RemoveAt(t, i) ELSE t, s, UpTo(Len(s)))

\* Mutant: nothing is protected.
Unprotected(m, n) == FALSE

\* It is to take the place of another node.
Protected(m, n) == \E i \in DOMAIN m.stack : Regular(m.stack[i].new) = n

\* Mutant: the fanins keep the fanout.
DeleteHalf(m, n) == [m EXCEPT !.obj[n] = NewObj("none")]

\* Without fanouts; the recycled object is cleared.
DeleteObj(m, n) == [RemoveFanins(m, n) EXCEPT !.obj[n] = NewObj("none")]

\* The next call of those that wait: one for a fanin that is a node without
\* fanouts when its turn comes.
DeleteNext(r) ==
    LET n == Head(r.calls)
        q == [r.man EXCEPT !.stack = Unqueued(@, n)]
        c == r.man.obj[n].fanins
    IN  IF r.man.obj[n].type # "and" \/ r.man.obj[n].fanouts # <<>>
        THEN [r EXCEPT !.calls = Tail(@)]
        ELSE IF Protected(q, n) THEN [man |-> q, calls |-> Tail(r.calls)]
        ELSE [man   |-> DeleteObj(FromLevelsR(FromLevels(AndDelete(q, n), n), n), n),
              calls |-> <<Regular(c[1]), Regular(c[2])>> \o Tail(r.calls)]

\* A call for n, and two for each node that is deleted.
DeleteNode(m, n) ==
    Each(LAMBDA r, i : IF r.calls = <<>> THEN r ELSE DeleteNext(r),
         [man |-> m, calls |-> <<n>>], UpTo(1 + 2 * Size(m))).man

\* Abc_AigCleanup
Cleanup(m) ==
    Each(DeleteNode, m, Ids(m, {n \in m.table : m.obj[n].fanouts = <<>>}))

-----------------------------------------------------------------------------
(* Abc_AigReplace_int: one fanout after the other. *)

\* An output: the new driver takes the reverse level of the old one.
PatchOutput(m, f, old, new) ==
    LET d == Regular(new)
        q == IF fUpdateLevel
             THEN [FromLevelsR(m, d) EXCEPT !.obj[d].rlevel = m.obj[old].rlevel] ELSE m
    IN  PatchFanin(IF fUpdateLevel /\ m.obj[d].type # "pi" THEN ToLevelsR(q, d) ELSE q,
                   f, new)

\* Mutant: the EXOR status is left as it is.
ExorLeft(m, n) == m

\* The fanouts of a changed node have their EXOR status computed again.
ExorUpdated(m, n) ==
    [m EXCEPT !.obj = [k \in DOMAIN m.obj |->
        IF k \in ToSet(m.obj[n].fanouts) THEN [m.obj[k] EXCEPT !.exor = IsExorType(m, k)]
        ELSE m.obj[k]]]

\* A node that keeps its Id and gets new children.
Recreated(m, f, l1, l2) ==
    LET q == RemoveFanins(AndDelete(FromLevelsR(FromLevels(m, f), f), f), f)
        r == AndCreateFrom(q, l1, l2, f)
    IN  ExorUpdated(IF fUpdateLevel THEN ToLevelsR(ToLevels(r, f), f) ELSE r, f)

ReplaceIn(m, f, old, new) ==
    IF m.obj[f].type = "po" THEN PatchOutput(m, f, old, new)
    ELSE LET c == m.obj[f].fanins
             i == CHOOSE j \in 1 .. 2 : Regular(c[j]) = old
             found == AndLookup(m, NotCond(new, Compl(c[i])), c[3 - i])
         IN  IF found # NULL
             THEN [m EXCEPT !.stack = Append(@, [old |-> f, new |-> found])]
             ELSE Recreated(m, f, NotCond(new, Compl(c[i])), c[3 - i])

Replace_int(m, old, new) ==
    LET moved == Each(LAMBDA q, f : ReplaceIn(q, f, old, new), m, m.obj[old].fanouts)
    IN  IF moved.obj[old].fanouts = <<>> THEN DeleteNode(moved, old) ELSE moved

-----------------------------------------------------------------------------
(* Levels from the inputs, and from the outputs. *)

Depth(m, n) ==
    LET d[k \in DOMAIN m.obj] == IF Fanins(m, k) = {} THEN 0
                                 ELSE 1 + Max({d[f] : f \in Fanins(m, k)})
    IN  d[n]

Height(m, n) ==
    LET h[k \in DOMAIN m.obj] ==
            IF m.obj[k].type = "po" THEN 0
            ELSE 1 + Max({0} \cup {h[f] : f \in ToSet(m.obj[k].fanouts)})
    IN  h[n]

\* Abc_NtkLevel
Levelled(m) == [m EXCEPT !.obj = [n \in DOMAIN m.obj |->
    [m.obj[n] EXCEPT !.level = IF n \in Ands(m) THEN Depth(m, n) ELSE m.obj[n].level]]]

NtkLevel(m) == Max({0} \cup {Depth(m, n) : n \in Ands(m)})

\* Abc_NtkStartReverseLevels: the nodes above some input.
ReverseLevelled(m) == [m EXCEPT !.obj = [n \in DOMAIN m.obj |->
    [m.obj[n] EXCEPT !.rlevel = IF n \in Ands(m) THEN Height(m, n) ELSE 0]]]

RequiredLevel(m, n) == LevelMax + 1 - m.obj[n].rlevel

-----------------------------------------------------------------------------
(* Abc_NtkReassignIds: constant, inputs, outputs, then the nodes of each   *)
(* output in depth-first order and the nodes no output reaches.            *)

\* The next of the calls of Abc_AigDfs_rec that wait: one that marks a node and
\* makes the calls for its fanins, or one that comes to its end.
DfsNext(m, w) ==
    LET n == Head(w.calls).node
        Call(l) == [node |-> Regular(l), done |-> FALSE]
        c == m.obj[n].fanins
    IN  IF Head(w.calls).done
        THEN [w EXCEPT !.calls = Tail(@), !.order = Append(@, n)]
        ELSE IF n \in w.seen \/ m.obj[n].type # "and" THEN [w EXCEPT !.calls = Tail(@)]
        ELSE [w EXCEPT !.seen = @ \cup {n},
                       !.calls = <<Call(c[1]), Call(c[2]), [node |-> n, done |-> TRUE]>> \o Tail(@)]

\* A call for each output and each node, and three more for each node.
DfsOrder(m) ==
    LET pos   == Ids(m, Pos(m))
        ands  == Ids(m, Ands(m))
        calls == [i \in DOMAIN pos |-> [node |-> Regular(m.obj[pos[i]].fanins[1]), done |-> FALSE]]
                 \o [i \in DOMAIN ands |-> [node |-> ands[i], done |-> FALSE]]
    IN  Each(LAMBDA w, i : IF w.calls = <<>> THEN w ELSE DfsNext(m, w),
             [order |-> <<>>, seen |-> {}, calls |-> calls], UpTo(Len(calls) + 3 * Len(ands))).order

\* Mutant: the children stay in the order they had.
RehashedOnly(m) == m

\* Abc_AigRehash: the children are put in the order of their new Ids.
Rehashed(m) == [m EXCEPT !.obj = [n \in DOMAIN m.obj |->
    IF n \in m.table
    THEN [m.obj[n] EXCEPT !.fanins = Ordered(m.obj[n].fanins[1], m.obj[n].fanins[2])]
    ELSE m.obj[n]]]

ReassignIds(m) ==
    LET order == Ids(m, Objs(m) \ Ands(m)) \o DfsOrder(m)
        id    == [n \in ToSet(order) |-> (CHOOSE i \in DOMAIN order : order[i] = n) - 1]
        Moved(o) == [o EXCEPT !.fanins = [i \in DOMAIN o.fanins |->
                                             Lit(id[Regular(o.fanins[i])], Compl(o.fanins[i]))],
                              !.fanouts = [i \in DOMAIN o.fanouts |-> id[o.fanouts[i]]]]
    IN  Rehashed([m EXCEPT !.obj = [k \in 0 .. Len(order) - 1 |-> Moved(m.obj[order[k + 1]])],
                           !.table = {id[n] : n \in m.table}])

-----------------------------------------------------------------------------
(* A network from its netlist: operand k of the list is input k, or the    *)
(* result of an earlier pair.                                              *)

ASSUME NetlistsAssumption ==
    \A net \in Netlists :
        /\ net.ands \in Seq(Nat \X Nat) /\ net.pos \in Seq(Nat)
        /\ \A j \in DOMAIN net.ands : \A i \in 1 .. 2 : Regular(net.ands[j][i]) < NumPi + j
        /\ \A i \in DOMAIN net.pos : Regular(net.pos[i]) <= NumPi + Len(net.ands)

Operand(results, l) ==
    IF Regular(l) <= NumPi THEN l ELSE NotCond(results[Regular(l) - NumPi], Compl(l))

Strashed(net) ==
    LET objs == [n \in 0 .. NumPi + Len(net.pos) |->
                    NewObj(IF n = 0 THEN "const1" ELSE IF n <= NumPi THEN "pi" ELSE "po")]
        start == [man |-> [obj |-> objs, table |-> {}, stack |-> <<>>,
                           vLevels |-> <<>>, vLevelsR |-> <<>>], results |-> <<>>]
        Build(b, p) == LET new == And(b.man, Operand(b.results, p[1]), Operand(b.results, p[2]))
                       IN  [man |-> new.man, results |-> Append(b.results, new.lit)]
        built == Each(Build, start, net.ands)
        Connect(m, i) == AddFanin(m, NumPi + i, Operand(built.results, net.pos[i]))
    IN  Each(Connect, built.man, UpTo(Len(net.pos)))

Init == /\ \E net \in Netlists : man = Strashed(net)
        /\ outputs = Outputs(man)
        /\ fUpdateLevel \in Updating
        /\ LevelMax = 0 /\ pc = "command" /\ node = 0 /\ nNodes = 0
        /\ runs = 0 /\ updates = 0 /\ turns = 0 /\ edges = 0

-----------------------------------------------------------------------------
(* rewrite, refactor, resub *)

BeginCommand ==
    /\ pc = "command" /\ runs < Commands
    /\ LET clean == Cleanup(man)
       IN  IF fUpdateLevel
           THEN man' = ReverseLevelled(Levelled(clean)) /\ LevelMax' = NtkLevel(clean)
           ELSE man' = clean /\ UNCHANGED LevelMax
    /\ pc' = "loop" /\ node' = 0 /\ nNodes' = Size(man)
    /\ runs' = runs + 1 /\ updates' = 0
    /\ UNCHANGED <<fUpdateLevel, turns, edges, outputs>>

\* Mutant: the root may be below the new node.
AllowedBelow(m, root, l) == Computes(m, l) = Minterms(m, root)

\* Dec_GraphToNetworkCount refuses a graph that holds the root; one that is
\* a literal of the cone or a constant has its level not looked at.
Allowed(m, root, l) ==
    /\ root \notin Cone(m, Regular(l))
    /\ Computes(m, l) = Minterms(m, root)
    /\ fUpdateLevel /\ Regular(l) \notin Cone(man, root) \cup {0}
          => m.obj[Regular(l)].level <= RequiredLevel(m, root)

Literals(m) == {Lit(n, c) : n \in Objs(m) \ Pos(m), c \in {0, 1}}

\* One node more: an AND of what is there, earlier nodes of the graph included.
WithAnd(graphs, i) ==
    graphs \cup UNION {{And(m, p[1], p[2]) : p \in {q \in Literals(m) \X Literals(m) : q[1] < q[2]}} :
                       m \in {g.man : g \in {h \in graphs : i = 1 \/ Size(h.man) <= MaxObjs}}}

\* Dec_GraphToNetwork: the new root is there already, or is the last of up to
\* MaxGraph ANDs, each found in the table or new.
NewRoots(m) ==
    Each(WithAnd, {[lit |-> Lit(n, 0), man |-> m] : n \in Objs(m) \ Pos(m)}, UpTo(MaxGraph))

UpdateNetwork ==
    /\ pc = "loop" /\ updates < MaxUpdates
    /\ \E root \in {n \in Ands(man) : node < n /\ n < nNodes}, g \in NewRoots(man), c \in {0, 1} :
          /\ Allowed(g.man, root, NotCond(g.lit, c))
          /\ man' = [g.man EXCEPT !.stack = <<[old |-> root, new |-> NotCond(g.lit, c)]>>]
          /\ node' = root
    /\ pc' = "replace" /\ updates' = updates + 1
    /\ turns' = 0 /\ edges' = 2 * Cardinality(Ands(man')) + Cardinality(Pos(man))
    /\ UNCHANGED <<fUpdateLevel, LevelMax, nNodes, runs, outputs>>

\* Mutant: a pair is taken off when its node has no fanouts left.
TurnPeek(m) ==
    LET top == Last(m.stack)
    IN  IF m.obj[top.old].fanouts = <<>> THEN [m EXCEPT !.stack = Front(@)]
        ELSE Replace_int(m, top.old, top.new)

\* One turn of the loop of Abc_AigReplace.
Turn(m) ==
    LET top  == Last(m.stack)
        rest == [m EXCEPT !.stack = Front(@)]
    IN  IF rest.obj[top.old].fanouts = <<>> THEN rest ELSE Replace_int(rest, top.old, top.new)

Replace ==
    /\ pc = "replace" /\ man.stack # <<>>
    /\ man' = Turn(man) /\ turns' = turns + 1
    /\ UNCHANGED <<fUpdateLevel, LevelMax, pc, node, nNodes, runs, updates, edges, outputs>>

Replaced ==
    /\ pc = "replace" /\ man.stack = <<>>
    /\ pc' = IF fUpdateLevel THEN "level" ELSE "loop"
    /\ UNCHANGED <<man, fUpdateLevel, LevelMax, node, nNodes, runs, updates, turns, edges, outputs>>

-----------------------------------------------------------------------------
(* Abc_AigUpdateLevel_int and Abc_AigUpdateLevelR_int, one node of the      *)
(* structure in each step: the first of the lowest level.                  *)

IsFirst(list, d) ==
    \A e \in DOMAIN list : list[d][1] < list[e][1] \/ (list[d][1] = list[e][1] /\ d <= e)

\* Mutants: a level is only raised; it is changed before the node is taken out.
RaiseOnly(m, f) ==
    IF m.obj[f].type = "po" \/ m.obj[f].level >= LevelNew(m, f) THEN m
    ELSE ToLevels([FromLevels(m, f) EXCEPT !.obj[f].level = LevelNew(m, f)], f)

RaiseFirst(m, f) ==
    IF m.obj[f].type = "po" \/ m.obj[f].level = LevelNew(m, f) THEN m
    ELSE ToLevels(FromLevels([m EXCEPT !.obj[f].level = LevelNew(m, f)], f), f)

RaiseFanout(m, f) ==
    IF m.obj[f].type = "po" \/ m.obj[f].level = LevelNew(m, f) THEN m
    ELSE ToLevels([FromLevels(m, f) EXCEPT !.obj[f].level = LevelNew(m, f)], f)

UpdateNode(m, e) ==
    Each(RaiseFanout, [m EXCEPT !.vLevels = RemoveFirst(@, e)], m.obj[e[2]].fanouts)

UpdateLevel ==
    /\ pc = "level"
    /\ \E d \in DOMAIN man.vLevels : /\ IsFirst(man.vLevels, d)
                                    /\ man' = UpdateNode(man, man.vLevels[d])
    /\ UNCHANGED <<fUpdateLevel, LevelMax, pc, node, nNodes, runs, updates, turns, edges, outputs>>

Updated ==
    /\ pc = "level" /\ man.vLevels = <<>>
    /\ pc' = "levelR"
    /\ UNCHANGED <<man, fUpdateLevel, LevelMax, node, nNodes, runs, updates, turns, edges, outputs>>

RLevelNew(m, n) == 1 + Max({0} \cup {m.obj[f].rlevel : f \in ToSet(m.obj[n].fanouts)})

RaiseFanin(m, l) ==
    LET f == Regular(l)
    IN  IF m.obj[f].type = "pi" \/ m.obj[f].rlevel = RLevelNew(m, f) THEN m
        ELSE ToLevelsR([FromLevelsR(m, f) EXCEPT !.obj[f].rlevel = RLevelNew(m, f)], f)

UpdateNodeR(m, e) ==
    Each(RaiseFanin, [m EXCEPT !.vLevelsR = RemoveFirst(@, e)], m.obj[e[2]].fanins)

\* assert( Abc_ObjIsNode(pNode) ), which the constant is not.
UpdateLevelR ==
    /\ pc = "levelR"
    /\ \E d \in DOMAIN man.vLevelsR :
          /\ IsFirst(man.vLevelsR, d)
          /\ IF man.obj[man.vLevelsR[d][2]].type = "and"
             THEN man' = UpdateNodeR(man, man.vLevelsR[d]) /\ UNCHANGED pc
             ELSE pc' = "abort" /\ UNCHANGED man
    /\ UNCHANGED <<fUpdateLevel, LevelMax, node, nNodes, runs, updates, turns, edges, outputs>>

UpdatedR ==
    /\ pc = "levelR" /\ man.vLevelsR = <<>>
    /\ pc' = "loop"
    /\ UNCHANGED <<man, fUpdateLevel, LevelMax, node, nNodes, runs, updates, turns, edges, outputs>>

EndCommand ==
    /\ pc = "loop"
    /\ man' = IF fUpdateLevel THEN ReassignIds(man) ELSE Levelled(ReassignIds(man))
    /\ pc' = "command" /\ node' = 0
    /\ UNCHANGED <<fUpdateLevel, LevelMax, nNodes, runs, updates, turns, edges, outputs>>

Next == \/ BeginCommand \/ UpdateNetwork \/ Replace \/ Replaced
        \/ UpdateLevel \/ Updated \/ UpdateLevelR \/ UpdatedR \/ EndCommand

Spec == Init /\ [][Next]_vars

-----------------------------------------------------------------------------
(* Properties *)

\* Objects have the fanins of their type, and the table holds ANDs.
TypeOK ==
    /\ \A n \in DOMAIN man.obj :
          /\ man.obj[n].type \in {"const1", "pi", "po", "and", "none"}
          /\ Len(man.obj[n].fanins) = CASE man.obj[n].type = "and" -> 2
                                        [] man.obj[n].type = "po" -> 1 [] OTHER -> 0
    /\ man.table \subseteq Ands(man)
    /\ pc \in {"command", "loop", "replace", "level", "levelR", "abort"}

\* Whatever is replaced, and at every turn of the loop, the outputs compute
\* what they computed at the start.
OutputsKept == Outputs(man) = outputs

\* No object is below itself: Abc_AigNodeIsAcyclic (abcAig.c:951) asserts it for
\* the children and grandchildren of a node that was given new fanins.
Acyclic == Grounded(man)[Size(man)] = DOMAIN man.obj

\* The two ends of every edge agree, and nothing leads to a deleted object.
EdgesAgree ==
    \A n \in DOMAIN man.obj :
        /\ IsInjective(man.obj[n].fanouts)
        /\ ToSet(man.obj[n].fanouts) = {k \in DOMAIN man.obj : n \in Fanins(man, k)}
        /\ Fanins(man, n) \subseteq Objs(man)

\* Each AND is in the table, under children in the order of their Ids, and no
\* other has the same children (abcAig.c:28); none has a constant child or one
\* child twice, at any turn of the loop.
UniqueChildren ==
    /\ man.table = Ands(man)
    /\ \A n \in man.table : /\ Regular(man.obj[n].fanins[1]) > 0
                             /\ Regular(man.obj[n].fanins[1]) < Regular(man.obj[n].fanins[2])
    /\ \A n, k \in man.table : man.obj[n].fanins = man.obj[k].fanins => n = k

\* What is queued to take the place of a node is still there when its turn
\* comes.
ReplacementAlive ==
    \A i \in DOMAIN man.stack :
        man.obj[man.stack[i].old].type # "none" => man.obj[Regular(man.stack[i].new)].type # "none"

\* Between two replacements the levels are those of the graph (abcAig.c:34),
\* when they are kept.
LevelsExact ==
    pc = "command" \/ (pc = "loop" /\ fUpdateLevel) =>
        \A n \in Ands(man) : man.obj[n].level = Depth(man, n)

\* The EXOR status is up to date (abcAig.c:35), while nodes are replaced too.
ExorExact == \A n \in Ands(man) : man.obj[n].exor = IsExorType(man, n)

\* Each marked node is in the structure at the level it has.
MarksSound ==
    /\ \A i \in DOMAIN man.vLevels : man.obj[man.vLevels[i][2]].type = "and"
                                     /\ man.vLevels[i][1] = man.obj[man.vLevels[i][2]].level
    /\ \A i \in DOMAIN man.vLevelsR : man.obj[man.vLevelsR[i][2]].type # "none"
                                     /\ man.vLevelsR[i][1] = man.obj[man.vLevelsR[i][2]].rlevel
    /\ \A i, j \in DOMAIN man.vLevels : man.vLevels[i][2] = man.vLevels[j][2] => i = j
    /\ \A i, j \in DOMAIN man.vLevelsR : man.vLevelsR[i][2] = man.vLevelsR[j][2] => i = j

\* A call of Abc_AigReplace comes to its end: its loop takes no more turns than
\* the network it started from has edges.
TurnsBounded == turns <= edges

\* The assertion of abcAig.c:1134 holds: what the reverse levels are passed on
\* from is a node.
NoAbort == pc # "abort"

\* "preserving the number of levels": a command that updates levels leaves a
\* network no deeper than it found it.
DepthKept == pc = "loop" /\ fUpdateLevel => NtkLevel(man) <= LevelMax
=============================================================================
