------------------------------ MODULE Annealing ------------------------------
(***************************************************************************)
(* "lsv_sa" (ext-lsv_final/final.cpp): simulated annealing over scripts of *)
(* ABC commands. Each step runs a script on the current network, judges it *)
(* by its node count and either writes it to annealing.aig or reads back   *)
(* the network written there before.                                       *)
(*                                                                         *)
(* Every process of Proc runs the command once, in a session of its own    *)
(* (NtkStack), and all of them run in one directory: they share the file.  *)
(***************************************************************************)
EXTENDS NtkStack, Sequences

CONSTANTS Proc,
          Circuit,     \* the function of a network
          MaxAnds,     \* bound on the node count of a network
          Coolings,    \* steps until heat <= end_heat (about 1150 in the code)
          Garbage,     \* what a read of freed memory may yield
          BackupFlag   \* the values the "backup" flag may have

\* Nothing but its function and its size decides what happens to a network.
Sized == Circuit \X (0 .. MaxAnds)

ASSUME AnnealingAssumption == /\ MaxAnds \in Nat /\ Coolings \in Nat
                              /\ Garbage \subseteq Int
                              /\ BackupFlag \subseteq BOOLEAN
                              /\ Net = Sized

circuit(n) == n[1]
ands(n)    == n[2]

VARIABLES frm,       \* the session of each process
          fBackup,   \* its "backup" flag ("savesteps" is unset)
          pGia,      \* its &-space
          file,      \* annealing.aig, or NULL
          pc, todo,  \* where lsv_sa is, and the commands left of its script
          pNtk,      \* the network lsv_sa read once, when it started
          best_eval, heat,
          origin, accepted,  \* history: the network given, the last one written
          lost       \* history: some write_aiger could not open the file

locals == <<pNtk, best_eval, heat>>
hist   == <<origin, accepted, lost>>
vars   == <<frm, fBackup, pGia, file, pc, todo, locals, hist>>

\* A session with an AIG as its current network: lsv_sa refuses any other,
\* before it changes anything.
Started(a, n) == ReplaceCurrentNetwork(NtkAlloc(FrameAllocate, a, n), a, FALSE)

Init == \E given \in [Proc -> Net], a \in Addr :
          /\ frm = [r \in Proc |-> Started(a, given[r])]
          /\ fBackup \in [Proc -> BackupFlag]
          /\ pGia = [r \in Proc |-> NULL]
          /\ file \in Net \cup {NULL}     \* a failed run leaves it behind
          /\ pc = [r \in Proc |-> "call"] /\ todo = [r \in Proc |-> <<>>]
          /\ pNtk = [r \in Proc |-> NULL]
          /\ best_eval = [r \in Proc |-> 0] /\ heat = [r \in Proc |-> Coolings]
          /\ origin = given /\ accepted = given /\ lost = FALSE

Current(r) == frm[r].net[frm[r].pNtkCur]

\* Abc_NtkNodeNum(pNtk): a freed network yields whatever the memory holds.
NodeNums(r) == IF pNtk[r] \in frm[r].live THEN {ands(frm[r].net[pNtk[r]])} ELSE Garbage

-----------------------------------------------------------------------------
(* The commands the scripts are made of, one by one *)

Dispatches(r) == Dispatched(frm[r], fBackup[r], 1)

\* Networks of the same function; not larger than n unless grow.
Variants(n, grow) == {m \in Net : circuit(m) = circuit(n) /\ (grow \/ ands(m) <= ands(n))}

SetFrame(r, p) == frm' = [frm EXCEPT ![r] = p]

\* rewrite, refactor, resub, orchestrate: smaller where it is, or, after an
\* error in the middle, the copy of the original in a new place. resub has no
\* copy; its failures are CommandFails.
Resynthesize(r) ==
    /\ Head(todo[r]) \in {"rewrite", "refactor", "resub", "orchestrate"}
    /\ \E p \in Dispatches(r) :
          \/ \E m \in Variants(p.net[p.pNtkCur], FALSE) :
                SetFrame(r, [p EXCEPT !.net[p.pNtkCur] = m])
          \/ /\ Head(todo[r]) # "resub"
             /\ \E a \in Fresh(p) :
                   SetFrame(r, ReplaceCurrentNetwork(NtkDup(p, p.pNtkCur, a), a, fBackup[r]))
    /\ UNCHANGED <<pGia, file, accepted, lost>>

Get(r) == /\ Head(todo[r]) = "&get"
          /\ pGia' = [pGia EXCEPT ![r] = Current(r)]
          /\ UNCHANGED <<frm, file, accepted, lost>>

\* &deepsyn keeps the smallest AIG it meets (module DeepSyn). A script of its
\* with "&put; compress2rs; &get" replaces the current network and optimizes it;
\* one such round stands for the many there may be.
CompressedInSession(r) ==
    \E a \in Fresh(frm[r]), m \in Variants(pGia[r], TRUE) :
       LET q == ReplaceCurrentNetwork(NtkAlloc(frm[r], a, m), a, fBackup[r])
       IN  \E p \in {q} \cup Dispatched(q, fBackup[r], 1) : SetFrame(r, p)

DeepSyn(r) ==
    /\ Head(todo[r]) = "&deepsyn"
    /\ \E m \in Variants(pGia[r], FALSE) : pGia' = [pGia EXCEPT ![r] = m]
    /\ UNCHANGED frm \/ CompressedInSession(r)
    /\ UNCHANGED <<file, accepted, lost>>

\* &transduction with random choices and &dc2: no promise on the size.
GiaTransform(r) ==
    /\ Head(todo[r]) \in {"&transduction", "&dc2"}
    /\ \E m \in Variants(pGia[r], TRUE) : pGia' = [pGia EXCEPT ![r] = m]
    /\ UNCHANGED <<frm, file, accepted, lost>>

Put(r) ==
    /\ Head(todo[r]) = "&put"
    /\ \E a \in Fresh(frm[r]) :
          SetFrame(r, ReplaceCurrentNetwork(NtkAlloc(frm[r], a, pGia[r]), a, fBackup[r]))
    /\ UNCHANGED <<pGia, file, accepted, lost>>

\* The command succeeds even when the file cannot be opened.
WriteAiger(r) ==
    /\ Head(todo[r]) = "write_aiger"
    /\ \/ file' = Current(r) /\ UNCHANGED lost
       \/ UNCHANGED file /\ lost' = TRUE
    /\ accepted' = [accepted EXCEPT ![r] = Current(r)]
    /\ UNCHANGED <<frm, pGia>>

\* The network in the file becomes the current one.
Loaded(r, p) ==
    {ReplaceCurrentNetwork(NtkAlloc(p, a, file), a, fBackup[r]) : a \in Fresh(p)}

\* "read" succeeds even when there is nothing to read; "read_aiger" then fails.
Read(r) ==
    /\ Head(todo[r]) = "read"
    /\ \E p \in Dispatches(r) :
          \E q \in IF file = NULL THEN {p} ELSE Loaded(r, p) : SetFrame(r, q)
    /\ UNCHANGED <<pGia, file, accepted, lost>>

ReadAiger(r) ==
    /\ Head(todo[r]) = "read_aiger" /\ file # NULL
    /\ \E p \in Dispatches(r) : \E q \in Loaded(r, p) : SetFrame(r, q)
    /\ UNCHANGED <<pGia, file, accepted, lost>>

\* Cmd_CommandExecute runs the commands of a script in order.
Execute(r) ==
    /\ todo[r] # <<>>
    /\ Resynthesize(r) \/ Get(r) \/ DeepSyn(r) \/ GiaTransform(r) \/ Put(r)
          \/ WriteAiger(r) \/ Read(r) \/ ReadAiger(r)
    /\ todo' = [todo EXCEPT ![r] = Tail(@)]
    /\ UNCHANGED <<fBackup, pc, locals, origin>>

\* A command reports an error (a network check fails, read_aiger finds no
\* file): the script stops, and lsv_sa returns without removing the file.
\* Nothing is known of the network a failing command was working on.
CommandFails(r) ==
    /\ todo[r] # <<>>
    /\ \/ /\ Head(todo[r]) \in {"rewrite", "refactor", "resub", "orchestrate"}
          /\ \E p \in Dispatches(r) : \E m \in Net :
                SetFrame(r, [p EXCEPT !.net[p.pNtkCur] = m])
       \/ /\ Head(todo[r]) = "read_aiger" /\ file = NULL
          /\ \E p \in Dispatches(r) : SetFrame(r, p)
    /\ pc' = [pc EXCEPT ![r] = "failed"]
    /\ todo' = [todo EXCEPT ![r] = <<>>]
    /\ UNCHANGED <<fBackup, pGia, file, locals, hist>>

-----------------------------------------------------------------------------
(* Lsv_CommandSimulatedAnnealing *)

At(r, l) == pc[r] = l /\ todo[r] = <<>>

Run(r, script) == todo' = [todo EXCEPT ![r] = script]
GoTo(r, l) == pc' = [pc EXCEPT ![r] = l]

\* Mutant: the old network is not written first.
CallUnsaved(r) ==
    /\ At(r, "call")
    /\ pNtk' = [pNtk EXCEPT ![r] = frm[r].pNtkCur]
    /\ best_eval' = [best_eval EXCEPT ![r] = ands(Current(r))]
    /\ GoTo(r, "loop")
    /\ UNCHANGED <<frm, fBackup, pGia, file, todo, heat, hist>>

Call(r) ==
    /\ At(r, "call")
    /\ pNtk' = [pNtk EXCEPT ![r] = frm[r].pNtkCur]
    /\ best_eval' = [best_eval EXCEPT ![r] = ands(Current(r))]
    /\ Run(r, <<"write_aiger">>) /\ GoTo(r, "loop")
    /\ UNCHANGED <<frm, fBackup, pGia, file, heat, hist>>

Scripts == {<<"rewrite", "refactor", "resub">>,
            <<"&get", "&deepsyn", "&put">>,
            <<"&get", "&transduction", "&dc2", "&put">>,
            <<"orchestrate">>}

\* Mutant: one move more when the heat is out.
MoveCold(r) ==
    /\ At(r, "loop") /\ heat[r] >= 0
    /\ \E script \in Scripts : Run(r, script)
    /\ GoTo(r, "judge")
    /\ UNCHANGED <<frm, fBackup, pGia, file, locals, hist>>

Move(r) ==
    /\ At(r, "loop") /\ heat[r] > 0
    /\ \E script \in Scripts : Run(r, script)
    /\ GoTo(r, "judge")
    /\ UNCHANGED <<frm, fBackup, pGia, file, locals, hist>>

\* change < 0, or the luck of a random number: a change for the worse is
\* accepted or not, a change for the better always is.
MayReject(change) == change >= 0

Accept(r) ==
    /\ At(r, "judge") /\ NodeNums(r) # {}
    /\ Run(r, <<"write_aiger">>) /\ GoTo(r, "accepted")
    /\ UNCHANGED <<frm, fBackup, pGia, file, locals, hist>>

\* Mutant: a rejected move is not undone.
RejectKept(r) ==
    /\ At(r, "judge")
    /\ \E n \in NodeNums(r) : MayReject(n - best_eval[r])
    /\ GoTo(r, "loop")
    /\ heat' = [heat EXCEPT ![r] = @ - 1]
    /\ UNCHANGED <<frm, fBackup, pGia, file, todo, pNtk, best_eval, hist>>

Reject(r) ==
    /\ At(r, "judge")
    /\ \E n \in NodeNums(r) : MayReject(n - best_eval[r])
    /\ Run(r, <<"read">>) /\ GoTo(r, "loop")
    /\ heat' = [heat EXCEPT ![r] = @ - 1]
    /\ UNCHANGED <<frm, fBackup, pGia, file, pNtk, best_eval, hist>>

\* Mutant: a move that was accepted starts the schedule again.
AcceptedReheats(r) ==
    /\ At(r, "accepted")
    /\ \E n \in NodeNums(r) : best_eval' = [best_eval EXCEPT ![r] = n]
    /\ heat' = [heat EXCEPT ![r] = Coolings]
    /\ GoTo(r, "loop")
    /\ UNCHANGED <<frm, fBackup, pGia, file, todo, pNtk, hist>>

\* After the write, the evaluation of what was accepted.
Accepted(r) ==
    /\ At(r, "accepted")
    /\ \E n \in NodeNums(r) : best_eval' = [best_eval EXCEPT ![r] = n]
    /\ heat' = [heat EXCEPT ![r] = @ - 1]
    /\ GoTo(r, "loop")
    /\ UNCHANGED <<frm, fBackup, pGia, file, todo, pNtk, hist>>

Cold(r) ==
    /\ At(r, "loop") /\ heat[r] = 0
    /\ Run(r, <<"read_aiger">>) /\ GoTo(r, "remove")
    /\ UNCHANGED <<frm, fBackup, pGia, file, locals, hist>>

Remove(r) ==
    /\ At(r, "remove")
    /\ file' = NULL
    /\ GoTo(r, "done")
    /\ UNCHANGED <<frm, fBackup, pGia, todo, locals, hist>>

Step(r) == \/ Execute(r) \/ CommandFails(r)
           \/ Call(r) \/ Move(r) \/ Accept(r) \/ Reject(r) \/ Accepted(r)
           \/ Cold(r) \/ Remove(r)

Over(r) == pc[r] \in {"done", "failed"}

Finished == (\A r \in Proc : Over(r)) /\ UNCHANGED vars

Next == (\E r \in Proc : Step(r)) \/ Finished

Spec == Init /\ [][Next]_vars

-----------------------------------------------------------------------------
(* Properties *)

Labels == {"call", "loop", "judge", "accepted", "remove", "done", "failed"}
TypeOK == /\ frm \in [Proc -> Frames] /\ fBackup \in [Proc -> BOOLEAN]
          /\ pGia \in [Proc -> Net \cup {NULL}] /\ file \in Net \cup {NULL}
          /\ pc \in [Proc -> Labels] /\ pNtk \in [Proc -> Addr \cup {NULL}]
          /\ best_eval \in [Proc -> Int] /\ heat \in [Proc -> 0 .. Coolings]
          /\ {origin, accepted} \subseteq [Proc -> Net] /\ lost \in BOOLEAN

\* "preserve old aig" (final.cpp:70): whatever the moves, the judgements and an
\* older annealing.aig, the session's network computes what it computed when
\* lsv_sa was called, as long as no write was lost and no command failed.
PreservesOldAig ==
    ~lost => \A r \in Proc :
                pc[r] # "failed" => circuit(Current(r)) = circuit(origin[r])

\* The same of every run: a write that did not reach the file is reported as
\* done (ioWriteAiger.c:681), and the network it should have preserved is lost.
AlwaysPreserves ==
    \A r \in Proc : pc[r] # "failed" => circuit(Current(r)) = circuit(origin[r])

\* Between two moves, and when lsv_sa returns, the session has exactly the
\* network that was accepted last: a rejected move leaves no trace, though the
\* script of the move has replaced the network several times.
KeepsAccepted ==
    ~lost => \A r \in Proc :
                At(r, "loop") \/ pc[r] = "done" =>
                    Current(r) = accepted[r]

\* However many moves, the session holds the current network and one backup:
\* every network the commands replace is freed.
MemoryBounded == \A r \in Proc : Cardinality(frm[r].live) <= 2

\* Every step, on every path through the choices and the failures, brings the
\* command nearer to its end: with no deadlock before it, the command returns.
Rank == [call |-> 5, loop |-> 4, judge |-> 3, accepted |-> 2, remove |-> 1,
         done |-> 0, failed |-> 0]
Distance(r) == <<heat[r], Rank[pc[r]], Len(todo[r])>>
Nearer(d, e) == \/ e[1] < d[1]
                \/ e[1] = d[1] /\ (e[2] < d[2] \/ (e[2] = d[2] /\ e[3] < d[3]))
Advances == [][\A r \in Proc : Distance(r)' = Distance(r)
                                \/ Nearer(Distance(r), Distance(r)')]_vars

\* "ensure Ntk exist" (final.cpp:56): the network whose nodes lsv_sa counts to
\* judge a move exists.
JudgedNtkExists == \A r \in Proc : At(r, "judge") => pNtk[r] \in frm[r].live
=============================================================================
