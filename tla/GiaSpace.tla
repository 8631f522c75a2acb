------------------------------- MODULE GiaSpace -------------------------------
(***************************************************************************)
(* The &-space of a session: the AIGs the frame points to (mainInt.h:115),  *)
(* the vectors of names they own, and the commands that move, copy, stop   *)
(* and replace them.  The AIGs and the vectors are in a heap, so that one   *)
(* that is shared, leaked or used after it was stopped shows.              *)
(*                                                                         *)
(* A command that refuses (no network, no AIG, no mapping, nothing saved)  *)
(* changes nothing and is not an action.                                   *)
(***************************************************************************)
EXTENDS Integers

CONSTANTS Designs,      \* records with a name, the number of inputs and func
          Sizes,        \* records with luts, edges, lutLevels, ands, levels
          NULL,
          Gias, Vecs,   \* bounds: addresses of AIGs and of vectors of names
          MaxSteps      \* bound: commands in a session

ASSUME GiaAssumption ==
    /\ NULL \notin Gias \cup Vecs
    /\ Designs \subseteq [name : STRING, inputs : Nat, func : Nat]
    /\ Sizes \subseteq [luts : Nat, edges : Nat, lutLevels : Nat, ands : Nat, levels : Nat]
    /\ \A d \in Designs : d # NULL
    /\ NULL \notin [design : Designs, logic : BOOLEAN]
    /\ NULL \notin [design : Designs, size : Sizes, mapped : BOOLEAN]
    /\ MaxSteps \in Nat

VARIABLES net,          \* the current network
          heap,         \* the AIGs and the vectors of names that are allocated
          slot,         \* the pointers of the frame
          nBest,        \* nBestLuts, nBestEdges, nBestLevels, and those of &save2
          offered,      \* what each store was offered, and by which metric
          steps

vars == <<net, heap, slot, nBest, offered, steps>>

Mapped == {"pGiaBest", "pGiaBest2"}
Stores == Mapped \cup {"pGiaSaved"}
Slots == {"pGia", "pGia2"} \cup Stores

Gia == [design : Designs, size : Sizes, mapped : BOOLEAN, vNames : Vecs \cup {NULL}]

\* What an AIG is, without the names that it owns.
Logic(g) == [design |-> g.design, size |-> g.size, mapped |-> g.mapped]
Value(k) == IF slot[k] = NULL THEN NULL ELSE Logic(heap.gia[slot[k]])

Store == INSTANCE GiaStore WITH cur <- Value("pGia"), prev <- Value("pGia2"),
             best <- Value("pGiaBest"), best2 <- Value("pGiaBest2"), saved <- Value("pGiaSaved")

-----------------------------------------------------------------------------
(* The heap *)

Add(h, a, v) == [x \in DOMAIN h \cup {a} |-> IF x = a THEN v ELSE h[x]]
Remove(h, a) == [x \in DOMAIN h \ {a} |-> h[x]]

FreeGia == CHOOSE g \in Gias : g \notin DOMAIN heap.gia
FreeVec == CHOOSE v \in Vecs : v \notin DOMAIN heap.names
HasRoom == Gias \ DOMAIN heap.gia # {} /\ Vecs \ DOMAIN heap.names # {}

\* Gia_ManStopP: with the names.
Stopped(h, g) ==
    IF g = NULL THEN h
    ELSE [gia |-> Remove(h.gia, g), names |-> Remove(h.names, h.gia[g].vNames)]

\* Gia_ManDupWithAttributes: without the names.
Duped(h, g, new) ==
    [h EXCEPT !.gia = Add(@, new, [h.gia[g] EXCEPT !.vNames = NULL])]

-----------------------------------------------------------------------------

Init == /\ net \in [design : Designs, logic : {FALSE}]
        /\ heap = [gia |-> [g \in {} |-> NULL], names |-> [v \in {} |-> NULL]]
        /\ slot = [k \in Slots |-> NULL]
        /\ nBest = [k \in Mapped |-> [luts |-> 0, edges |-> 0, lutLevels |-> 0]]
        /\ offered = [k \in Stores |-> [fArea |-> FALSE, sizes |-> {}]]
        /\ steps = 0

Command == steps < MaxSteps /\ HasRoom /\ steps' = steps + 1

\* Mutant: both AIGs point to the names.
NamesShared(h, old, new) ==
    IF /\ old # NULL /\ h.gia[new].vNames = NULL /\ h.gia[old].vNames # NULL
       /\ h.gia[new].design.inputs = h.names[h.gia[old].vNames].inputs
    THEN [h EXCEPT !.gia[new].vNames = h.gia[old].vNames]
    ELSE h

\* A new AIG without names, with as many inputs as there are names, takes those
\* of the current one.
NamesMoved(h, old, new) ==
    IF /\ old # NULL /\ h.gia[new].vNames = NULL /\ h.gia[old].vNames # NULL
       /\ h.gia[new].design.inputs = h.names[h.gia[old].vNames].inputs
    THEN [h EXCEPT !.gia[new].vNames = h.gia[old].vNames, !.gia[old].vNames = NULL]
    ELSE h

\* The current AIG becomes the previous one, which is stopped; h holds the new.
UpdateGia(h, new) ==
    /\ heap' = Stopped(NamesMoved(h, slot["pGia"], new), slot["pGia2"])
    /\ slot' = [slot EXCEPT !["pGia2"] = slot["pGia"], !["pGia"] = new]

\* read: a network without relation to what the &-space holds.
Read == /\ Command
        /\ net' \in [design : Designs, logic : {FALSE}]
        /\ UNCHANGED <<heap, slot, nBest, offered>>

\* &get, with -n its names; the mapping of a logic network is kept with -m.
Get == /\ Command /\ net # NULL
       /\ \E size \in Sizes, fNames \in BOOLEAN, mapped \in {FALSE, net.logic} :
             LET names == IF fNames THEN Add(heap.names, FreeVec, net.design) ELSE heap.names
                 new == [design |-> net.design, size |-> size, mapped |-> mapped,
                         vNames |-> IF fNames THEN FreeVec ELSE NULL]
             IN  UpdateGia([gia |-> Add(heap.gia, FreeGia, new), names |-> names], FreeGia)
       /\ UNCHANGED <<net, nBest, offered>>

\* A command that makes another AIG of the same function.
Transform == /\ Command /\ slot["pGia"] # NULL
             /\ \E size \in Sizes, mapped \in BOOLEAN :
                   LET new == [design |-> heap.gia[slot["pGia"]].design, size |-> size,
                               mapped |-> mapped, vNames |-> NULL]
                   IN  UpdateGia([heap EXCEPT !.gia = Add(@, FreeGia, new)], FreeGia)
             /\ UNCHANGED <<net, nBest, offered>>

\* &unmap changes the AIG in place.
Unmap == /\ Command /\ slot["pGia"] # NULL
         /\ heap' = [heap EXCEPT !.gia[slot["pGia"]].mapped = FALSE]
         /\ UNCHANGED <<net, slot, nBest, offered>>

\* &move_names
MoveNames ==
    /\ Command /\ net # NULL /\ slot["pGia"] # NULL
    /\ LET g == slot["pGia"]
       IN  /\ heap.gia[g].design.inputs = net.design.inputs
           /\ heap' = [gia |-> [heap.gia EXCEPT ![g].vNames = FreeVec],
                       names |-> Add(Remove(heap.names, heap.gia[g].vNames), FreeVec, net.design)]
    /\ UNCHANGED <<net, slot, nBest, offered>>

Put == /\ Command /\ slot["pGia"] # NULL
       /\ net' = [design |-> heap.gia[slot["pGia"]].design,
                  logic |-> heap.gia[slot["pGia"]].mapped]
       /\ UNCHANGED <<heap, slot, nBest, offered>>

\* Mutant: the two change places.
UndoSwaps == /\ Command /\ slot["pGia"] # NULL /\ slot["pGia2"] # NULL
             /\ slot' = [slot EXCEPT !["pGia"] = slot["pGia2"], !["pGia2"] = slot["pGia"]]
             /\ UNCHANGED <<net, heap, nBest, offered>>

Undo == /\ Command /\ slot["pGia"] # NULL /\ slot["pGia2"] # NULL
        /\ heap' = Stopped(heap, slot["pGia"])
        /\ slot' = [slot EXCEPT !["pGia"] = slot["pGia2"], !["pGia2"] = NULL]
        /\ UNCHANGED <<net, nBest, offered>>

-----------------------------------------------------------------------------
(* The stores *)

\* Gia_ManCompareWithBest, by the counters.
ImprovesBest(k, g, fArea) ==
    \/ slot[k] = NULL
    \/ ~Store!SameInterface(g.design, heap.gia[slot[k]].design)
    \/ Store!LessMapped(fArea, g.size, nBest[k])

ImprovesSaved(g, fArea) ==
    slot["pGiaSaved"] = NULL \/ Store!LessAig(fArea, g.size, heap.gia[slot["pGiaSaved"]].size)

Replace(k) ==
    /\ heap' = Duped(Stopped(heap, slot[k]), slot["pGia"], FreeGia)
    /\ slot' = [slot EXCEPT ![k] = FreeGia]

\* What the store was offered since it was empty, or held another design, or
\* was asked by the other metric; what it holds counts as offered.  pGiaSaved is
\* compared without a look at the design.
Offered(k, g, fArea) ==
    LET other == k \in Mapped /\ ~Store!SameInterface(g.design, heap.gia[slot[k]].design)
        sizes == IF slot[k] = NULL \/ other THEN {}
                 ELSE IF offered[k].fArea = fArea THEN offered[k].sizes
                 ELSE {heap.gia[slot[k]].size}
    IN  [offered EXCEPT ![k] = [fArea |-> fArea, sizes |-> sizes \cup {g.size}]]

\* Mutant: the counters stay.
CountedNot(k, g) == nBest

\* Gia_ManLutParams of what is saved.
Counted(k, g) ==
    [nBest EXCEPT ![k] = [luts |-> g.size.luts, edges |-> g.size.edges,
                          lutLevels |-> g.size.lutLevels]]

\* Mutant: an AIG without a mapping too.
AnyHasMapping(g) == TRUE

HasMapping(g) == g.mapped

\* &save and &save2
Save(k) ==
    /\ Command /\ slot["pGia"] # NULL
    /\ LET g == heap.gia[slot["pGia"]]
       IN  /\ HasMapping(g)
           /\ \E fArea \in BOOLEAN :
                 /\ IF ImprovesBest(k, g, fArea)
                    THEN Replace(k) /\ nBest' = Counted(k, g)
                    ELSE UNCHANGED <<heap, slot, nBest>>
                 /\ offered' = Offered(k, g, fArea)
    /\ UNCHANGED net

\* &saveaig -c; with nothing to clear it saves.
ClearSaved ==
    /\ Command /\ slot["pGia"] # NULL /\ slot["pGiaSaved"] # NULL
    /\ heap' = Stopped(heap, slot["pGiaSaved"])
    /\ slot' = [slot EXCEPT !["pGiaSaved"] = NULL]
    /\ UNCHANGED <<net, nBest, offered>>

\* The design is not looked at: an AIG of another one is kept if it is smaller.
SaveAig ==
    /\ Command /\ slot["pGia"] # NULL
    /\ LET g == heap.gia[slot["pGia"]]
       IN  \E fArea \in BOOLEAN :
              /\ IF ImprovesSaved(g, fArea) THEN Replace("pGiaSaved") ELSE UNCHANGED <<heap, slot>>
              /\ offered' = Offered("pGiaSaved", g, fArea)
    /\ UNCHANGED <<net, nBest>>

\* &load and &loadaig: a copy, and the previous AIG stays what it was.
LoadCopy(k) ==
    /\ Command /\ slot[k] # NULL
    /\ heap' = Duped(Stopped(heap, slot["pGia"]), slot[k], FreeGia)
    /\ slot' = [slot EXCEPT !["pGia"] = FreeGia]
    /\ UNCHANGED <<net, nBest, offered>>

\* Mutant: the store keeps what it has handed over.
Load2Kept ==
    /\ Command /\ slot["pGiaBest2"] # NULL
    /\ heap' = Stopped(heap, slot["pGia"])
    /\ slot' = [slot EXCEPT !["pGia"] = slot["pGiaBest2"]]
    /\ nBest' = [nBest EXCEPT !["pGiaBest2"] = [luts |-> 0, edges |-> 0, lutLevels |-> 0]]
    /\ UNCHANGED <<net, offered>>

\* &load2 hands over what &save2 kept.
Load2 ==
    /\ Command /\ slot["pGiaBest2"] # NULL
    /\ heap' = Stopped(heap, slot["pGia"])
    /\ slot' = [slot EXCEPT !["pGia"] = slot["pGiaBest2"], !["pGiaBest2"] = NULL]
    /\ nBest' = [nBest EXCEPT !["pGiaBest2"] = [luts |-> 0, edges |-> 0, lutLevels |-> 0]]
    /\ UNCHANGED <<net, offered>>

\* Abc_FrameDeleteAllNetworks; the counters stay.
EmptyAll ==
    /\ Command
    /\ heap' = Stopped(Stopped(Stopped(Stopped(Stopped(heap, slot["pGia"]), slot["pGia2"]),
                   slot["pGiaBest"]), slot["pGiaBest2"]), slot["pGiaSaved"])
    /\ slot' = [k \in Slots |-> NULL]
    /\ net' = NULL
    /\ UNCHANGED <<nBest, offered>>

Next == \/ Read \/ Get \/ Transform \/ Unmap \/ MoveNames \/ Put \/ Undo
        \/ \E k \in Mapped : Save(k)
        \/ ClearSaved \/ SaveAig
        \/ \E k \in {"pGiaBest", "pGiaSaved"} : LoadCopy(k)
        \/ Load2 \/ EmptyAll

Spec == Init /\ [][Next]_vars

-----------------------------------------------------------------------------
(* Properties *)

\* Pointers, AIGs and names have their types, and the best AIGs a mapping.
TypeOK ==
    /\ net \in [design : Designs, logic : BOOLEAN] \cup {NULL}
    /\ DOMAIN heap.gia \subseteq Gias /\ DOMAIN heap.names \subseteq Vecs
    /\ \A g \in DOMAIN heap.gia : heap.gia[g] \in Gia
    /\ \A v \in DOMAIN heap.names : heap.names[v] \in Designs
    /\ slot \in [Slots -> Gias \cup {NULL}]
    /\ \A k \in Mapped : slot[k] \in DOMAIN heap.gia => heap.gia[slot[k]].mapped
    /\ steps \in 0 .. MaxSteps

\* Every AIG that is allocated is held by one pointer of the frame: none is
\* lost, none is held twice (it would be stopped twice), and no pointer holds
\* one that was stopped.
SlotsOwned ==
    /\ \A k \in Slots : slot[k] = NULL \/ slot[k] \in DOMAIN heap.gia
    /\ \A k, l \in Slots : slot[k] = slot[l] => k = l \/ slot[k] = NULL
    /\ \A g \in DOMAIN heap.gia : \E k \in Slots : slot[k] = g

\* The same of the vectors of names, which move from AIG to AIG.
NamesOwned ==
    /\ \A g \in DOMAIN heap.gia :
          heap.gia[g].vNames = NULL \/ heap.gia[g].vNames \in DOMAIN heap.names
    /\ \A g, k \in DOMAIN heap.gia :
          heap.gia[g].vNames = heap.gia[k].vNames => g = k \/ heap.gia[g].vNames = NULL
    /\ \A v \in DOMAIN heap.names : \E g \in DOMAIN heap.gia : heap.gia[g].vNames = v

\* Nothing that was offered to a store is less, by the metric of the offers,
\* than what a load brings back.
BestSmallest ==
    \A k \in Stores : slot[k] # NULL =>
        \A z \in offered[k].sizes :
            LET old == heap.gia[slot[k]].size
            IN  IF k \in Mapped THEN ~Store!LessMapped(offered[k].fArea, z, old)
                ELSE ~Store!LessAig(offered[k].fArea, z, old)

\* To the user the pointers are values: what one command does with an AIG shows
\* in no other place of the frame.
ImplementsGiaStore == Store!Spec
===============================================================================
