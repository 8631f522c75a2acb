# Verification of the LSV final project (ABC with lsv_sa and lsv_bdd_reorder)

The repository is a copy of ABC, the logic synthesis system, with three commands
added in `abc/src/ext-lsv_final/final.cpp`, and scripts in `final/src` that turn
truth tables into small AIGs:

    read_truth -xf t; collapse; lsv_bdd_reorder 2; sop; fx; strash; lsv_sa; write a

This directory holds TLA+ models of the parts that decide whether such a run ends
with the right network, the TLC runs that check them on small instances, and
theorems checked by TLAPS for instances of any size. Source paths below are
relative to `abc/src` unless they start with `final/`.

## 1. Inventory

| Part | State | Operations | Talks to | What makes it correct |
|---|---|---|---|---|
| Session (`base/main/mainFrame.c`) | current network, backup links, step numbers, `pGia`, `pGia2` | set, replace, swap, delete networks | every command | no link to a freed network; steps contiguous; nothing lost |
| Dispatch and session commands (`base/cmd`) | flags `backup`, `savesteps`, `autoexec`; aliases; history | dispatch with a saved copy; undo, recall, empty, set, unset | session | undo and recall bring back what was there |
| `lsv_sa` (`ext-lsv_final/final.cpp:50`) | heat, best evaluation, the pointer `pNtk`, the file `annealing.aig` | script, judge, write or read back, cool | dispatch, file system, other processes | the function survives; a rejected move leaves no trace; it ends |
| `lsv_bdd_reorder` (`final.cpp:166`) | BDD manager of the network | 100 calls of `Cudd_ReduceHeap` | CUDD | functions survive; the table does not grow |
| CUDD exchange (`bdd/cudd/cuddReorder.c`, `cuddWindow.c`, `cuddInteract.c`) | node table, reference counts, order, counters, interaction matrix | exchange of adjacent levels | - | same functions at the same addresses; canonical; counts exact |
| `&deepsyn` (`aig/gia/giaDeep.c`) | `pGia`, `pGia2`, batch mode, best AIG | walks of random scripts | command interpreter, session | leaves the smallest AIG met; ends |
| Resynthesis (`base/abci/abcRewrite.c` and others) | current network | rewrite, refactor, resub, orchestrate | session, AIG package | same function, smaller |
| AIG package (`base/abc/abcAig.c`) | hash table, fanouts, levels and reverse levels, stack of replacements, lists of marked nodes | and, replace, delete, update levels, rehash | resynthesis | functions kept; no two equal nodes; no dangling edge; levels and EXOR status right |
| &-space (`base/abci/abc.c`, `mainFrame.c`) | `pGia`, `pGia2`, `pGiaBest`, `pGiaBest2`, `pGiaSaved`, the counters of the best, vectors of names | &get, &put, &undo, &save, &load and their variants, &move_names, &unmap, empty | session, every &-command | one owner for every AIG and every vector; the stores keep the best |
| Files (`base/io`) | files | read, write | session | success reported only when done |
| Command interpreter (`base/cmd/cmdUtils.c`) | the line being executed | split, expand aliases, source, autoexec | dispatch | commands run in order, ends |
| Driver (`final/src/*.sh`) | the answer files | loops over benchmarks | `abc` processes | one result per benchmark |

What is hard here. ABC is single threaded; the hard behaviours are long sequences
of commands that share the mutable session: links rewired by three procedures under
flags that change in between, pointers held across commands that free what they
point to, errors in the middle of a script, results that are passed through a file.
Two processes meet only through that file. Inside CUDD nodes are rewritten in place
while other nodes, the network and the projection functions hold their addresses.
`PROJECT.json` lists the hazards line by line, with the property that watches each.

## 2. Modules

| Module | Models | Kind |
|---|---|---|
| `NtkStack` | network objects and the procedures of `mainFrame.c` that relink them, as operators from a frame to a frame; the dispatch copy of `cmdUtils.c` | operators, `WellFormed` |
| `Frame` | a session: set/unset, every kind of command that changes the network, undo, recall, empty | state machine over `NtkStack` |
| `UndoHistory` | what undo and recall promise: numbered saved networks | abstract specification |
| `DeepSyn` | `&deepsyn`: command, outer and inner loop, batch mode, failures | state machine, liveness |
| `Annealing` | `lsv_sa` in one or more processes, over `NtkStack` and a shared file | state machine composed with `NtkStack` |
| `BddReorder` | `Cudd_ReduceHeap`, `ddWindow2`, `cuddSwapInPlace`, interaction matrix | state machine |
| `Aig` | `abcAig.c` under the loop of rewrite, refactor and resub | state machine |
| `GiaSpace` | the &-space: pointers into a heap of AIGs and vectors of names | state machine |
| `GiaStore` | what its commands promise: five places that hold values | abstract specification |
| `FrameMC`, `BddReorderMC`, `AigMC`, `GiaSpaceMC` | symmetry; the tables, networks, designs and sizes of the runs | for TLC |
| `Folding` | a loop over a sequence as a function of an index, and induction along it; the body and the invariant are constants | for TLAPS |
| `NtkStackProofs`, `FrameProofs`, `DeepSynProofs`, `GiaSpaceProofs`, `AnnealingProofs`, `BddReorderProofs`, `AigProofs` | lemmas and theorems | for TLAPS |

Definitions named `...Kept`, `...Late`, `...Unmarked` and the like, under a comment
that begins with "Mutant", are broken variants of the definition below them. No
specification uses them; they show that each property fails when the code has the
bug they stand for.

### NtkStack and Frame

A frame is a record: `pNtkCur`, `nSteps`, and for each address whether a network is
allocated there (`live`), its backup, its step, its logic (`net`). The fields of a
freed network are reset, so a walk that meets one shows up as `Stack \subseteq live`
failing. `Stack(p)` is the set of networks the loop `for ( pNtk = p->pNtkCur; pNtk;
pNtk = Abc_NtkBackup(pNtk) )` visits, defined as the least set that holds the current
network and, with a network, its backup; this avoids recursion, so that it can be
reasoned about, and is defined even for links that form a ring.

Each operator is one procedure: `SetCurrentNetwork` (push, then drop the bottom),
`SwapCurrentAndBackup`, `ReplaceCurrentNetwork` with its two cases, `DeleteAllNetworks`.
`Dispatched` is the copy that `CmdCommandDispatch` saves before a command registered
as changing the network: duplicate, push, swap; it returns one frame per address
`malloc` may choose. The actions of `Frame` are the kinds of commands: one that
changes the logic in place (`ChangeInPlace`), one that gives the spoiled network up
for its duplicate (`ChangeRestored`: rewrite, refactor, orchestrate after an error),
one that builds a new network (`ChangeReplace`), one that refuses after the copy was
saved (`ChangeRefused`), `&put`, which is registered as changing nothing and so
takes no copy (`Put`), and undo, recall, empty, set, unset. The logic a command
computes is any member of `Net`.

`UndoHistory` is the promise: a function from step numbers to logic. `History` in
`Frame` is the refinement mapping (steps on the stack to their logic), and
`ImplementsUndoHistory` says that each command of the linked representation is a
command of the abstract one: undo and recall go back to what the session had at that
step, other commands append, overwrite the top, restart or clear, and nothing else
disturbs what is saved.

### DeepSyn

An AIG is its number of AND nodes, since nothing else decides what the loops do.
`BeginScript` chooses between the two branches of `giaDeep.c:77-94` by the flag as it is
then: a script runs in the caller's batch mode (`inBatch`) or in one that the walk turns
on before it and off after it (`ownBatch`). The choice is made again for every script.
A script leaves any size; a command of it may fail, in which case `Gia_ManDeepSynOne`
returns NULL with batch mode on and the caller dereferences it (`crashed`; what a later
command would find is no question, as the process is gone). `Judge`
is the whole rest of an iteration: keep the smaller, then the clock, then `-J`, then
the limit. `smallest` is a history variable, the smallest AIG any script produced;
`goalSaid` says whether the last walk printed that its goal is achieved.

### Annealing

A network is a function and a node count: the logic `Net` of `NtkStack` is `Sized`
here. Scripts are sequences of command names,
and `Execute` runs the head of one, with the dispatch copy and replacement of
`NtkStack` where the command has them, so that the pointer `pNtk` read once at the
start goes stale exactly when the code's does. `NodeNums` is what counting the nodes
yields: the count if the network is still allocated, any value of `Garbage` if not.
The verdict is the code's: a change for the better is accepted, another one by luck.
A session without a network, or with one that is not an AIG, is refused before anything
is changed (`final.cpp:57-64`); `Init` starts behind these refusals.
`write_aiger` may silently fail to open its file (`lost` remembers it), `read` of a
missing file succeeds and changes nothing (`Read`), `read_aiger` of one fails
(`ReadAiger`, `CommandFails`). The file is
there or not when the command starts, as a failed run leaves it behind. A process
that dies inside a command (the failing script of `&deepsyn`) simply takes no more
steps, which every property here allows.

### BddReorder

The node table of the manager: variable, then-child, else-edge with its complement
mark, reference count. `BeginSwap`, `ReExpress` (one node of the chain at a time, in
any order, as the order comes from the hash table) and `EndSwap` are
`cuddSwapInPlace`; `TryWindow`, `UndoWindow`, `NextWindow` are `ddWindow2`, the
method `final/src/operation.sh` asks for; `OtherMove` stands for the other
heuristics, which differ in which exchange they choose and not in what one does.
An edge denotes the set of assignments that lead from it to the constant.
`Collapsed` is what a run may start from: a table as `cuddUniqueInter` builds it,
reduced and ordered, with exact counts and, as `ddReorderPreprocess` collects them
first, no dead nodes. `RefsExact` shows that no exchange leaves one, so the collection
at the start of every later pass finds nothing. `ReExpress` needs two free nodes at
most, and `MemoryLeft` asks for them: where an allocation might fail the behaviour
ends, and what the code does with a half rewritten table is not modelled.

### Aig

A network is a record `man`: for each Id its type, fanin literals, fanouts in the
order they were attached, level, reverse level and EXOR status; the hash table; the
stack of replacements; the two lists of nodes marked for a level update. A command
(`BeginCommand` ... `EndCommand`) walks over the Ids it found at the start, as
`Abc_NtkRewrite` does. `UpdateNetwork` is `Dec_GraphUpdateNetwork`: a root of the same
function as the node, found or built (`NewRoots`: any literal that is there, or the last
of up to `MaxGraph` ANDs, each of two literals that are there, as `Dec_GraphToNetwork`
goes through the nodes of a graph; in a network of more than `MaxObjs` objects one AND
at most), which `Allowed` accepts if it stays within the
required level and its cone does not hold the node. Which replacement the algorithms of the commands prefer is
left open, so what holds here holds for each of them.

`Replace` is one turn of the loop in `Abc_AigReplace`, with the whole of
`Abc_AigReplace_int`: outputs are patched, a fanout that would equal another node is
pushed with that node, any other is rewritten in place, marked, and its fanouts'
EXOR status refreshed; then the node and what it alone kept up are deleted, except
what the stack still names. `UpdateLevel` and `UpdateLevelR` each take one node off
their list, the first of the lowest level. `Rehashed` and `ReassignIds` are the
renumbering at the end of a command.
`turns` and `edges` count the turns of the loop and the edges at its start;
`outputs` remembers the functions.

The loops inside one step (over fanouts, over the bins, over the stack, the recursive
deletion and the depth-first order, both with their stack of calls made explicit) are
written `Each(Body, start, sequence)`: what the body leaves after the last member.
`Runs` is the same as a function of the number of members gone through, so that a
proof can go along it.

### GiaSpace and GiaStore

The AIGs and the vectors of names lie in a heap, so that something shared, lost or
freed twice is a state of the model; `slot` holds the five pointers of the frame.
`UpdateGia` is `Abc_FrameUpdateGia`, with which every command that makes a new AIG
ends (`Get`, `Transform`); it moves the names to the new AIG when their number fits.
`Save(k)` is `&save` and `&save2`, with the comparison by counters and the
duplication in `Replace`; `Load2` hands over, `LoadCopy` duplicates. `offered` is a
history variable: the sizes a store was offered since it last took one regardless.
`vNames` stands for both vectors, inputs and outputs, and `inputs` of a design for
the numbers of both.

`GiaStore` is the same session on values. `Store == INSTANCE GiaStore WITH ...` reads
each pointer as the value of the AIG it leads to; that every command changes only the
places it names is then a matter of aliasing, which is what the refinement shows.

## 3. Runs

| Run | Expected | Shows | Bounds |
|---|---|---|---|
| `frame_session` | passes | the six properties of `Frame` | 5 addresses, 2 logics, steps up to 5, `backup` on/off/unset, `savesteps` 0, 2 or unset, changing at any time; addresses are symmetric |
| `deepsyn` | passes | result, walks, batch mode at every script and between them, termination | sizes 0-2, up to 2 walks, `-J` 0-2, 5 iterations in place of 100000, with and without clock |
| `deep_goal` | violation | the quality goal message is printed for larger AIGs | the same |
| `annealing_one` | passes | function preserved, rejected moves undone, memory bounded, progress, no deadlock | 2 functions, 2 sizes, 3 addresses, 2 coolings, freed memory reads 0 or 2 |
| `annealing_stale` | violation | moves are judged by a freed network | the same |
| `annealing_lost` | violation | a write that fails unnoticed lets an older circuit in | the same |
| `annealing_shared` | violation | two runs in one directory mix up their networks | 2 processes, 1 cooling |
| `aig_rewrite` | passes | ten properties of replacement and its bookkeeping | 7 networks over 3 inputs with up to 8 ANDs (duplicates, EXORs, hidden inverters, chains, reconvergence, constants), one command, up to 2 replacements, of at most one new AND each, or of two where the network has at most 10 objects, with and without `-l` |
| `aig_constant` | violation | an assertion fails when an output becomes constant under `-l` | a network of 4 ANDs |
| `aig_depth` | violation | `-l` does not preserve the number of levels | a network of 8 ANDs, 2 replacements |
| `gia_space` | passes | ownership, the stores, the refinement of `GiaStore` | 3 designs (two of one name), 2 sizes that the metrics order differently, 6 commands, 6 addresses |
| `bdd_reorder` | passes | seven properties of the reordering | all 256 functions of 3 variables and 5 shared tables, 2 passes, up to 2 free exchanges |

Why the bounds are enough. In `frame_session` five addresses hold the longest stack
`savesteps` 2 allows, the dispatch copy and the new network or a lost one; four steps
suffice to build a stack, turn the flag off, replace, turn it on and undo. In
`deepsyn` two walks show that one walk does not spoil the next, and with `-J` below
the iteration limit and the reverse each way of ending a walk occurs. In
`annealing_one` two coolings let an accepted move be followed by a rejected one and
by the final read; three addresses are the current network, its backup and a new
one, which `MemoryBounded` shows to be all that is ever needed. In `bdd_reorder`
three variables make every shape of exchange: the upper node has children in the
lower layer on one side, on both, with and without marks, shares results, and frees
nodes of the lower layer; the third level lets `window2` work through more than one
window and lets nodes have a layer below the exchanged ones. `Pool` has room for the
largest table these functions reach, so `MemoryLeft` never stops a run.

In `aig_rewrite` the networks are chosen so that one replacement makes several fanouts
equal (a stack of more than one entry, entries deleted before their turn), that a
node protected by the stack loses its fanouts, and that levels fall and rise across
marked nodes; two replacements bring the second to what the first has left. What a
graph with several new nodes adds - nodes that feed each other, and nodes of it that
nothing uses after all - needs two ANDs; `MaxObjs` lets them into the network `Short`,
for which one AND is not enough to write the functions anew, and keeps them out of the
larger ones, whose states would not end. In
`gia_space` six commands suffice to get, save, transform, offer again by the other
metric and load; there are five slots, so a sixth address is all a command needs
while it works.

Bounds that exist only in the models: `Commands`, `MaxUpdates`, `MaxGraph`, `MaxObjs`, `Gias`, `Vecs`, `MaxSteps` (guard `Bounded`), `MaxAnds`,
`MaxIters`, `MaxNoImpr`, `IterMax`, `Coolings`, `Passes`, `Moves`, `Pool`, `Garbage`.

Deadlock is checked for `annealing_one`: together with `Advances` (each step lowers
the heat, or the place in the loop, or the rest of the script) this is why `lsv_sa`
returns, without a fairness assumption. The other specifications stop when the
command returns or a bound is reached.

Fairness. `DeepSyn` assumes `WF_vars(Next)`: the program is one thread and takes its
next step as long as it has one. Nothing is assumed about which branch it takes, so
`Terminates` rests on `IterMax` alone when neither clock nor `-J` ends a walk; that
the clock runs out is never assumed. The other specifications are safety only.

### Violations

Six runs show where the code does not do what its text says; `PROJECT.json`
quotes both sides.

1. `&deepsyn -A` never stops at its goal and reports it reached, as `nAndsMin`
   stays -1.
2. `lsv_sa` judges moves by the node count of a network that `&put` or `read` freed.
   `annealing_one` shows what still holds: whatever the freed memory reads as, the
   function is kept and rejected moves are undone. What is lost is the meaning of
   the verdict.
3. Two `lsv_sa` in one directory share `annealing.aig`.
4. `lsv_sa` "preserves" the old AIG with a command that reports success when it cannot
   open the file. If `annealing.aig` is left from another run and cannot be written, a
   rejected move reads that circuit into the session. `PreservesOldAig` and
   `KeepsAccepted`, which `annealing_one` checks, are stated for runs without a lost
   write for this reason.
5. An output driver replaced by a constant under `-l` brings the constant node into
   the list of reverse levels, and the assertion of `abcAig.c:1134` fails.
6. `-l` of rewrite, refactor and resub "preserves the number of levels", but an
   output that moves to a shared node overwrites that node's reverse level with its
   own, and later replacements may then make the network deeper.

Other differences met while modelling, which the modules follow as the code has them
and for which no run of their own exists:

- `Abc_FrameReplaceCurrentNetwork` "does not modify the stack of saved networks"
  (`mainFrame.c:529`), but with the backup flag off at the call it cuts the stack off
  and leaks it (`mainFrame.c:555`). `NothingLost` is stated for the flag on for this
  reason.
- A walk of `&deepsyn` that "completed" `-J` iterations without improvement
  (`giaDeep.c:129`) has run `-J` + 1 of them, one even with `-J 0`:
  `i - iIterLast > nNoImpr` is tested after the script of iteration `i`
  (`giaDeep.c:127`). `abc.c:49880` offers `-J` as "the number of steps without
  improvements" as well. `Stops` has the code's test.
- `&undo` "reverses the previous AIG transformation", yet the names do not come back:
  the transformation moved them to the AIG that undo stops. `&load` and `&loadaig`
  drop names as well, as `Gia_ManDupWithAttributes` does not copy them.
- After `&load`, `&undo` goes back to before the last transformation, not the load.
- `&get` of another design with as many inputs and outputs takes over the names of
  the AIG before it (`abc.c:791`).
- `&save` tells designs apart by name and interface (`abc.c:31617`), `&saveaig` not
  at all: a different function of the same name counts as a version of the saved one,
  and `&load` may bring back the other function. `ImplementsGiaStore` states this
  promise, not a stronger one.
- `&saveaig -c` with nothing saved saves (`abc.c:31777`).
- abcAig.c:33 says "there are no dangling nodes": a replacement that the stack
  protected and that got no fanout stays until the next `Abc_AigCleanup`.

## 4. Proofs

`NtkStackProofs` has one lemma per procedure of `NtkStack`: from a well-formed frame
it leaves a well-formed frame. `WellFormed` has four parts: the type, `LinksLive`
(links of allocated networks lead to allocated ones), `StepsDescend` (a backup is one
step older, no step exceeds `nSteps`), `LinksApart` (no network is the backup of two,
none is above the current one). It speaks of all allocated networks, not only those
on the stack: networks lost with the flag off keep their links, and without the
statement about them nothing would keep a later relinking from pointing into them.
`LinksApart` is needed where `SetCurrentNetwork` frees the bottom: only the network
above it may point there. That the walk has an end is `WalkEnds`: otherwise the
backups would map the stack one-to-one into the stack without the current network,
which a finite heap does not allow. That the stack is the least set the walk stays
in (`StackLeast`) gives the network above the bottom (`BottomHangs`).

`FrameProofs` proves `IndInv == TypeOK /\ WellFormed(frm)` inductive, one step per
command, and from it `TypeOK`, `AlwaysWellFormed`, `StackLive` as
theorems of `Spec` for any set of addresses (finite), any logics, any values of
`savesteps` and any bound on steps.

Its second part proves `NothingLost`, `GrowthBounded` and the refinement. One
lemma per procedure says what the stack is afterwards, from what it was: a set that
holds the new walk contains the new stack and one that holds the old walk the old
stack, so the two inclusions need no induction. The numbers on the stack are distinct
and the bottom has the least (`StepsDiffer`, `BottomLeast`), so what is saved is a
function of the step, `Saved`, and each procedure appends to it, where the oldest may
go (`Appended`), replaces the last (`Overwritten`) or keeps only the new one
(`Restarted`). Each command
gets one lemma that composes these; the invariant adds to `IndInv` only that steps are
counted from 1. `SessionImplementsUndoHistory` then reads the steps of `UndoHistory`
off those lemmas.

`DeepSynProofs` proves its `IndInv` inductive: beside the types, where the smallest
AIG met is in each state - in `pBest` between walks, in `pBest` or `pNew` inside one,
or still only in the &-space before it is judged (`SmallestKnown`), who has set batch
mode (`BatchModeKnown`: `ownBatch` only when the caller had it off), and that a
running walk is within its limits (`ItersLeft`).
From it follow `TypeOK`, `ResultIsSmallest`, `WalkBestBounded` and `BatchModeRestored`
for any bounds.

`GiaSpaceProofs` proves ownership, the stores and the refinement together. `IndInv`
has a part `Held`: every vector has exactly one AIG and every AIG exactly one pointer.
`SlotsOwned` alone would do for the pointers, but without the names a stopped AIG
could take a vector with it that another still uses. Each operator on the heap has a
lemma (`StoppedHeap`, `AddedHeap`, `MovedHeap`, `DupedHeap`, and for pointers
`ReleaseHeld`, `AcquireHeld`, `MoveHeld`), and each command one lemma that cites
them. For `BestSmallest` the invariant adds that the counters of a store are those of
what it holds, and that what it holds is least among the offers; `LessOrder` and
`OfferKept` are the facts about the metrics this needs. The refinement
(`SessionImplementsGiaStore`) then follows from `Held`, by which a command that writes
one pointer leaves the values of the others, and from the counters, by which a store
compares the offer with what it holds.

`AnnealingProofs` is about `lsv_sa` over the lemmas of `NtkStackProofs`. `Tidy` says
what a session holds between commands: a well-formed frame whose allocated networks
are those on the stack, at most two, one if backup is off; each procedure and the
dispatch copy keep it. `Scripted` says which commands can be left of a script at each
place of the command, and that `&get` has filled the &-space before a command that
works there. With these, `IndInv` is inductive for any number of processes, and gives
`TypeOK` and `MemoryBounded`; one lemma per command says what it does to the network,
the &-space and the file (`Effect`). `Advances` is proved from what a step does to the
heat, the place and the length of the script left. `PreservesOldAig` and
`KeepsAccepted` need `Faithful`: while no write was lost, the file is the network
accepted last from its first write on, and the network is that one wherever a move is
settled. This holds only for a process alone in its directory, so those two theorems
assume `Alone`; `annealing_shared` shows that with two it fails.

`BddReorderProofs` is about the reordering, in three parts: tables, the inductive
invariant, windows. The hard part is the middle of an exchange, when nodes are already over the other variable and still
have children over the old one. `Exchange` describes such a table for the order that
the exchange will establish: the nodes outside the chain are ordered (`Ordered`), each
node of the chain has a child to be taken over (`Waiting`), no two nodes are equal
(`Reduced`), and no node is what one of the chain will become (`NoClash`). The last is
what the comment at `cuddReorder.c:1089` claims when a re-expressed node is inserted
without a lookup. `Kept` bounds which nodes may lose their last reference, so that the
collection of one level at the end leaves no dead node anywhere, and that no child of
a collected node dies with it.

One node re-expressed is described by `Rebuilt`, and by one lemma for each of its
aspects: table, order, counts, layers, supports, meaning. The inductive invariant is
`IInv == Control /\ Tables /\ Meaning /\ Matrix /\ Counts`:

- `Control`: the order and its inverse, the loop, the locals of the exchange.
- `Tables`: `Exchange` and `Kept` in the middle, `Settled` between exchanges.
- `Meaning`: counts exceed the references from the table by exactly those from outside
  (`HeldIn`), and for each assignment there is a set of nodes, those that are true,
  which agrees with the choice each node makes (`Follows`) and gives the edges from
  outside their old value. A node of the chain still chooses by the old variable.
  This is why functions are stated without walking down the table, whose order is
  broken in between.
- `Matrix`: there is an assignment of supports to nodes which is a solution of the
  equation between a node and its children, and within the matrix (`Interacts`).
- `Counts`: what the counters are between exchanges and what they lack within one.

`RefsExact`, `Canonical`, `CountsExact`, `InteractSound`, `EdgesKept` and `TypeOK`
follow for any number of variables, any pool and any tables that satisfy `Collapsed`,
whatever heuristic chooses the exchanges. That `Follows` determines what `Denotes`
walks to, and that a solution of the equation is what `Support` finds, needs an
argument along the levels. The induction theorems of the library take the claim as an
operator, which the provers cannot supply, so it goes by the
smallest number for which the claim fails (`SmallestOf`, `UpTo`), and the existence of
the recursive functions in `Denotes` and `Support` is itself proved that way
(`Iterates`).

The last part of `BddReorderProofs` proves `WindowShrinks`, which is not about one exchange but two: a
permutation tried and undone must give back the size, though nodes were freed and made
on the way and lie elsewhere. It follows from canonicity. In a `Diagram`, a settled
table, every regular edge is true under the assignment of ones (`OnesOn`), so edges of
the same function agree in mark and node; a node depends on its variable and on none
above it (`Depends`, `Independent`); hence no two nodes are the same function
(`NodesDiffer`). Two tables of one order that hold the same functions at the edges from
outside (`Twins`) then correspond node by node: each node is held from outside or has a
parent with a counterpart (`TwinExists`), and the correspondence is one-to-one. So they
have the same number of nodes and the same isolated projections (`TwinSize`). The
invariant remembers of the table before the permutation only that there was one of that
order, with those functions, whose size is `size` (`Shrinking`).

`Folding` is what the proofs about loops rest on. `Recursion` says that the recursive
function of a loop exists and `Kept` that what holds at the start and passes through
the body holds after every number of members. Both speak of a body `Op` and a
predicate `Inv` that are constants of the module, and are proved by the smallest index
that fails. `MoveFold == INSTANCE Folding WITH Op <- MoveStep, Inv <- MoveInv` turns
them into theorems about one loop: the instance does what a theorem with an operator
for parameter would have to do, and cannot here.

`AigProofs` is about `Aig`. `Network` describes a graph between two steps: `Shape`
(types of the fields), `Wired` (fanins and fanouts are the two ends of the same edges,
each fanout once, no edge to a deleted object), `Typed` (who has how many fanins,
which Ids are the constant and the inputs), `Canonical`
(the table holds the ANDs, children are ordered, distinct and not constant, no two ANDs
have the same), `ExorOK`. `Manager` adds the bookkeeping: `Queue` (a replacement that is
queued is there), and `LevelsOK`, `LevelsROK` (each list holds a node
at most once, at the level it has now). One lemma per procedure says that it leads from
a manager to a manager: `AndKeeps`, `PatchOutputKeeps`, `RecreatedKeeps`,
`DeletedKeeps`, and over the loops that call them `MovedKeeps`, `DeleteNodeKeeps`,
`CleanupKeeps`, `TurnKeeps`. None of the parts is inductive without the others: the
lookup is right because the table is canonical, a node that is rewritten in place keeps
the table canonical because the lookup failed, deletion leaves no edge behind because
the edges agree at both ends, and a queued node survives because deletion looks for it
on the stack. The EXOR status needs care: `ExorUpdatedEffect` shows that refreshing the
fanouts of the changed node suffices, since the status of a node depends on its
grandchildren only through its children. The parts that hold in the middle of
an action and not between actions (an output that has no driver yet in `Init`) are
stated with the number of fanins of an output as a parameter (`TypedAs`).

The renumbering at the end of a command needs that `DfsOrder` lists each node exactly
once within the number of calls its loop is given (`DfsOrderShape`, by a measure that
falls with each call, `Left`), so that the new Ids are a one-to-one map (`Renumbered`);
then each part of `Network` is carried over (`RenumberedNetwork`). `Quiet` says that the
lists of marked nodes are empty when levels are not kept. The inductive invariant
`AigInv` is `Manager` and `Quiet`, an empty stack outside the replacement loop and empty
lists where a list was worked off. `AigTypeOK`, `AigEdgesAgree`, `AigUniqueChildren`,
`AigReplacementAlive`, `AigExorExact` and `AigMarksSound` follow, for any number of
inputs, any netlists, any number of commands and replacements, and whichever
replacements are chosen: a graph may bring any number of new nodes, since `MaxGraph` and
`MaxObjs` are any natural numbers (`NewRootsKeep`, along the nodes of the graph).

`AigOutputsKept` is about functions, and is proved for behaviours in which `Acyclic`
holds throughout (`Spec /\ []Acyclic => []OutputsKept`): on a cycle `Minterms`, which
goes down the graph, says nothing. `Acyclic` itself is what TLC checks on
`aig_rewrite`. The functions are not compared step by step by walking down two graphs.
Instead a `Model` of the network, for one assignment of the inputs, is a set of nodes,
those that are true, which agrees with every AND and output (`Satisfies`) and in which
whatever waits on the stack is true with the node it is to replace (`Waiting`). Every
step but one keeps every model (`Preserves`): a fanout that is patched, recreated or
queued gets a literal that is true with the old one (`ReplaceInMoves`, `AndHolds`,
`LookupHolds`), and this needs no word about cycles. The renumbering carries a model
over (`ReassignedModel`). The invariant `Meaning` says that each assignment has a model
that gives the outputs their values from the start. Only the step that queues a
replacement has to know that a new root which computes what the old one does is true
with it in the model: there `SolutionExists` (the recursive definition has a solution,
rank by rank) and `ModelsAgree` (without cycles a network has one model only) connect
models with `Minterms`, as they do where `OutputsKept` is read off at the end.

Assumptions. `StackAssumption` (NULL is not an address, the addresses are finitely
many), `FrameAssumption` (`savesteps` natural, flags as the code tests them),
`DeepSynAssumption` (bounds are natural numbers, the iteration limit is not 0),
`GiaAssumption` (NULL is no address and no value; sizes are natural numbers),
`AnnealingAssumption` (bounds are natural numbers, networks are `Sized`),
`BddAssumption` (two variables or more, as with fewer there is nothing to exchange;
finitely many nodes; NULL and the constant are not among them),
`ManagersAssumption` (the tables a run starts from are `Collapsed`), `AigAssumption`
(numbers and bounds are natural numbers) and `NetlistsAssumption` (an operand of a pair
is an input or an earlier pair). TLC evaluates
them on the runs; in `bdd_reorder` that checks `Collapsed` on all 261 tables.

Only model-checked: `Terminates`, as liveness is out of the prover's reach; what
`Annealing` does with two processes beyond the three theorems that hold for any
number; and of `Aig`:

- `Acyclic`. While one replacement is carried out, others wait on the stack, and
  whether one that waits would close a cycle depends on the order in which the stack
  is worked off, not only on the graph: an invariant would have to follow the chains of
  pending replacements. `AigOutputsKept` has it as a hypothesis.
- `LevelsExact` and `TurnsBounded`, which are about the order in which the levels settle
  and about how often an edge can be moved.

## 5. Not modelled, and why

- What resynthesis, transduction, mapping and the scripts inside `&deepsyn` do to an
  AIG: abstracted to any AIG of the same function, which their own proofs would have
  to justify. `Annealing` assumes rewrite, refactor, resub, orchestrate and `&deepsyn`
  do not enlarge it.
- AIGER and truth-table formats, names of nodes, timing, printing.
- Failing allocation, in CUDD and elsewhere; a negative `savesteps`.
- The choice of exchanges by sifting, annealing and genetic reordering; saturation of
  reference counts (off on 64-bit builds), ZDDs, variable groups, hooks.
- The bins of the hash table of `abcAig.c` and their resizing, choice nodes, registers.
- `Abc_FrameGetGia`, which only code outside this flow calls; counterexamples and
  timing boxes of the frame.
- Splitting of lines, aliases and history, which work on text. A sourced file or the
  `autoexec` script is a sequence of further commands through the same dispatcher,
  and a session of `Frame` is any sequence of commands. The driver scripts, which only
  loop over files; the rest of ABC, which this flow does not reach.

## 6. Plan

Done, in this order: `NtkStack`, `Frame` with `UndoHistory`, `DeepSyn`, `Annealing`,
`BddReorder`, `Aig`, `GiaSpace` with `GiaStore`, and the proofs above.

Left: `Frame` and `GiaSpace` composed, one session in which `&get` and `&put` pass
between the stack and the &-space; then `Acyclic` of `Aig` for networks of any size, with
an invariant about the chains of pending replacements.
