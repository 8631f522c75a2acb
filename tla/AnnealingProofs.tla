--------------------------- MODULE AnnealingProofs ---------------------------
(***************************************************************************)
(* lsv_sa for any number of processes in one directory, any networks, any  *)
(* number of cooling steps and whatever a read of freed memory yields: the *)
(* types, the memory each session holds, and that every step brings the    *)
(* command nearer to its end. For a process that has the directory to      *)
(* itself: its network and its file.                                       *)
(***************************************************************************)
EXTENDS Annealing, NtkStackProofs

-----------------------------------------------------------------------------
(* The session: one network, and one backup when "backup" is on, none lost *)

Tidy(p, backup) == /\ WellFormed(p) /\ p.pNtkCur # NULL /\ p.live = Stack(p)
                   /\ Cardinality(p.live) <= IF backup THEN 2 ELSE 1

TopNet(p) == p.net[p.pNtkCur]

LEMMA TidyTop ==
  ASSUME NEW p, NEW backup \in BOOLEAN, Tidy(p, backup)
  PROVE  /\ p \in Frames /\ p.pNtkCur \in p.live /\ TopNet(p) \in Net
         /\ p.live \in SUBSET Addr /\ IsFiniteSet(p.live)
         /\ Cardinality(p.live) \in Nat /\ Cardinality(p.live) >= 1
         /\ ~backup => p.live = {p.pNtkCur}
<1>1. /\ p \in Frames /\ p.pNtkCur \in p.live /\ TopNet(p) \in Net
      /\ p.live \in SUBSET Addr /\ IsFiniteSet(p.live) /\ Cardinality(p.live) \in Nat
  BY StackFinite DEF Tidy, WellFormed, LinksLive, Frames, TopNet
<1>2. /\ IsFiniteSet(p.live \ {p.pNtkCur})
      /\ Cardinality(p.live \ {p.pNtkCur}) = Cardinality(p.live) - 1
  BY <1>1, FS_RemoveElement
<1>3. Cardinality(p.live \ {p.pNtkCur}) \in Nat
  BY <1>2, FS_CardinalityType
<1>4. ASSUME ~backup PROVE p.live = {p.pNtkCur}
  <2>1. Cardinality(p.live \ {p.pNtkCur}) = 0
    BY <1>1, <1>2, <1>3, <1>4 DEF Tidy
  <2>2. p.live \ {p.pNtkCur} = {}
    BY <1>2, <2>1, FS_EmptySet
  <2> QED BY <1>1, <2>2
<1> QED BY <1>1, <1>2, <1>3, <1>4

\* The network may change where it is.
LEMMA InPlaceTidy ==
  ASSUME NEW p, NEW backup \in BOOLEAN, Tidy(p, backup), NEW n \in Net
  PROVE  LET q == [p EXCEPT !.net[p.pNtkCur] = n] IN Tidy(q, backup) /\ TopNet(q) = n
<1> DEFINE q == [p EXCEPT !.net[p.pNtkCur] = n]
<1>1. p \in Frames /\ p.pNtkCur \in p.live /\ p.live \in SUBSET Addr
  BY TidyTop
<1>2. WellFormed(q)
  BY <1>1, InPlaceWellFormed DEF Tidy
<1>3. q.live = p.live /\ q.pNtkCur = p.pNtkCur /\ q.pBackup = p.pBackup /\ TopNet(q) = n
  BY <1>1 DEF Frames, TopNet
<1> HIDE DEF q
<1>4. Stack(q) = Stack(p)
  BY <1>3 DEF Stack, HoldsWalk
<1>5. Tidy(q, backup)
  BY <1>2, <1>3, <1>4 DEF Tidy
<1> QED BY <1>3, <1>5 DEF q

\* A new network takes the place of the current one, which is freed.
LEMMA BuiltTidy ==
  ASSUME NEW p, NEW backup \in BOOLEAN, Tidy(p, backup), NEW a \in Fresh(p), NEW n \in Net
  PROVE  LET q == ReplaceCurrentNetwork(NtkAlloc(p, a, n), a, backup)
         IN  Tidy(q, backup) /\ TopNet(q) = n
<1> DEFINE d == NtkAlloc(p, a, n)
           q == ReplaceCurrentNetwork(d, a, backup)
           c == p.pNtkCur
<1>1. /\ WellFormed(p) /\ WellFormed(d) /\ Unlinked(d, a) /\ d.pNtkCur = c /\ c # NULL
      /\ Stack(d) = Stack(p) /\ d.live = p.live \cup {a} /\ d.net[a] = n
  BY AllocWellFormed, AllocStack DEF Tidy
<1>2. /\ c \in p.live /\ p.live = Stack(p) /\ a \notin p.live /\ IsFiniteSet(p.live)
      /\ Cardinality(p.live) \in Nat /\ a # NULL
  BY StackAssumption, TidyTop DEF Tidy, Fresh
<1> HIDE DEF d
<1>3. WellFormed(q)
  BY <1>1, ReplaceWellFormed
<1>4. ASSUME backup PROVE Tidy(q, backup) /\ TopNet(q) = n
  <2>1. q = Replaced(d, a)
    BY <1>1, <1>4 DEF ReplaceCurrentNetwork
  <2>2. /\ Stack(q) = (Stack(d) \ {c}) \cup {a} /\ q.live = d.live \ {c}
        /\ q.pNtkCur = a /\ q.net[a] = d.net[a]
    BY <1>1, <2>1, ReplacedStack
  <2>3. q.live = (p.live \ {c}) \cup {a} /\ q.live = Stack(q) /\ TopNet(q) = n
    BY <1>1, <1>2, <2>2 DEF TopNet
  <2>4. IsFiniteSet(p.live \ {c}) /\ Cardinality(p.live \ {c}) = Cardinality(p.live) - 1
    BY <1>2, FS_RemoveElement
  <2>5. Cardinality(q.live) = Cardinality(p.live)
    <3>1. Cardinality((p.live \ {c}) \cup {a}) = Cardinality(p.live \ {c}) + 1
      BY <1>2, <2>4, FS_AddElement
    <3> QED BY <1>2, <2>3, <2>4, <3>1
  <2>6. Cardinality(p.live) \in Nat /\ Cardinality(p.live) <= IF backup THEN 2 ELSE 1
    BY <1>2 DEF Tidy
  <2>7. q.pNtkCur # NULL
    BY <1>2, <2>2
  <2> HIDE DEF q
  <2> QED BY <1>3, <2>3, <2>5, <2>6, <2>7 DEF Tidy
<1>5. ASSUME ~backup PROVE Tidy(q, backup) /\ TopNet(q) = n
  <2>1. q = ReplacedUnsaved(d, a)
    BY <1>5 DEF ReplaceCurrentNetwork
  <2>2. Stack(q) = {a} /\ q.live = d.live \ {c} /\ q.net[a] = n
    BY <1>1, <2>1, ReplacedUnsavedStack
  <2>3. p.live = {c}
    BY <1>5, TidyTop
  <2>4. q.live = {a}
    BY <1>1, <1>2, <2>2, <2>3
  <2>5. q.pNtkCur = a
    <3>1. d \in Frames /\ NtkDelete(d, c) \in Frames
      BY <1>1, <1>2, DeleteFields DEF WellFormed, LinksLive, Frames
    <3> QED BY <1>1, <2>1, <3>1 DEF ReplacedUnsaved, Frames
  <2>6. Cardinality(q.live) = 1
    BY <2>4, FS_Singleton
  <2>7. q.live = Stack(q) /\ TopNet(q) = n /\ q.pNtkCur # NULL
    BY <1>2, <2>2, <2>4, <2>5 DEF TopNet
  <2> HIDE DEF q
  <2> QED BY <1>3, <1>5, <2>6, <2>7 DEF Tidy
<1> QED BY <1>4, <1>5 DEF d

\* The copy made before a command: the current network stays on top, where it
\* is, and the backup under it is now a copy of it.
LEMMA DispatchedTidy ==
  ASSUME NEW p, NEW backup \in BOOLEAN, Tidy(p, backup), NEW q \in Dispatched(p, backup, 1)
  PROVE  Tidy(q, backup) /\ TopNet(q) = TopNet(p)
<1>1. CASE ~backup
  BY <1>1 DEF Dispatched, Tidy
<1>2. CASE backup
  <2> DEFINE c == p.pNtkCur
  <2>1. PICK a \in Fresh(p) :
           q = SwapCurrentAndBackup(SetCurrentNetwork(NtkDup(p, c, a), a, 1))
    BY <1>2 DEF Dispatched, Tidy
  <2> DEFINE d == NtkDup(p, c, a)
             s == SetCurrentNetwork(d, a, 1)
  <2>2. /\ c \in p.live /\ TopNet(p) \in Net /\ WellFormed(p) /\ c # NULL /\ p.live = Stack(p)
        /\ IsFiniteSet(p.live) /\ Cardinality(p.live) \in Nat /\ Cardinality(p.live) >= 1
        /\ Cardinality(p.live) <= 2 /\ a \notin p.live
    BY <1>2, TidyTop DEF Tidy, Fresh
  <2>3. /\ WellFormed(d) /\ Unlinked(d, a) /\ d.pNtkCur = c
        /\ Stack(d) = Stack(p) /\ d.live = p.live \cup {a}
        /\ \A x \in Stack(p) : d.net[x] = p.net[x]
    <3>1. d = NtkAlloc(p, a, TopNet(p))
      BY DEF NtkDup, TopNet
    <3> HIDE DEF d
    <3> QED BY <2>2, <3>1, AllocWellFormed, AllocStack
  <2> HIDE DEF d
  <2>4. /\ WellFormed(s) /\ s.pNtkCur = a /\ a \in Stack(s) /\ s.pBackup[a] \in {NULL, c}
        /\ \A y \in Stack(s) \ {a} : s.net[y] = d.net[y]
    BY <2>3, SetCurrentStack
  <2>5. /\ s.live = Stack(s) /\ c \in Stack(s) \ {a} /\ Cardinality(s.live) <= 2
    <3>1. CASE Stack(s) = Stack(d) \cup {a} /\ s.live = d.live /\ Cardinality(Stack(s)) <= 2
      BY <2>2, <2>3, <3>1
    <3>2. CASE \E b \in Stack(d) :
                 /\ Stack(s) = (Stack(d) \cup {a}) \ {b} /\ s.live = d.live \ {b}
                 /\ \A y \in Stack(d) : d.iStep[b] <= d.iStep[y]
                 /\ Cardinality(Stack(s)) = Cardinality(Stack(d))
                 /\ Cardinality(Stack(d)) > 1
      <4>1. PICK b \in Stack(d) :
                 /\ Stack(s) = (Stack(d) \cup {a}) \ {b} /\ s.live = d.live \ {b}
                 /\ \A y \in Stack(d) : d.iStep[b] <= d.iStep[y]
                 /\ Cardinality(Stack(s)) = Cardinality(Stack(d))
                 /\ Cardinality(Stack(d)) > 1
        BY <3>2
      <4>2. ASSUME b = c PROVE FALSE
        <5>1. \A y \in Stack(d) : y = c
          <6>1. \A y \in Stack(d) : d.iStep[y] = d.iStep[c]
            BY <2>2, <2>3, <4>1, <4>2, StackSteps
          <6> QED BY <2>2, <2>3, <6>1, StepsDiffer
        <5>2. Stack(d) = {c}
          BY <2>2, <2>3, <5>1
        <5>3. Cardinality({c}) = 1
          BY FS_Singleton
        <5>4. Cardinality(Stack(d)) > 1
          BY <4>1
        <5> QED BY <5>2, <5>3, <5>4
      <4> QED BY <2>2, <2>3, <4>1, <4>2
    <3> QED BY <2>3, <3>1, <3>2, SetCurrentStack
  <2>6. s.pBackup[a] = c
    <3>1. SUFFICES ASSUME s.pBackup[a] = NULL PROVE FALSE
      BY <2>4
    <3>2. Stack(s) \subseteq {a}
      <4>1. HoldsWalk(s, {a}) /\ {a} \in SUBSET Addr
        BY <2>4, <3>1 DEF HoldsWalk, Stack
      <4> QED BY <4>1, StackLeast
    <3> QED BY <2>5, <3>2
  <2> HIDE DEF s
  <2>7. /\ Stack(q) = Stack(s) /\ q.live = s.live /\ q.net = s.net /\ q.pNtkCur = c
    <3>1. q = SwapCurrentAndBackup(s)
      BY <2>1 DEF d, s
    <3>2. s.pNtkCur # NULL /\ s.pBackup[s.pNtkCur] = c /\ c # NULL
      BY <2>2, <2>4, <2>6, StackAssumption DEF Stack
    <3> QED BY <2>4, <3>1, <3>2, SwapStack
  <2>8. WellFormed(q)
    BY <1>2, <2>2, DispatchedWellFormed
  <2>9. TopNet(q) = TopNet(p)
    BY <2>2, <2>3, <2>4, <2>5, <2>7 DEF TopNet
  <2> QED BY <1>2, <2>2, <2>5, <2>7, <2>8, <2>9 DEF Tidy
<1> QED BY <1>1, <1>2

-----------------------------------------------------------------------------
(* The commands left of a script, wherever lsv_sa is *)

Resyntheses == {"rewrite", "refactor", "resub", "orchestrate"}
SpaceCommands == {"&deepsyn", "&transduction", "&dc2", "&put"}

MoveLeft == {<<"rewrite", "refactor", "resub">>, <<"refactor", "resub">>, <<"resub">>,
             <<"orchestrate">>,
             <<"&get", "&deepsyn", "&put">>, <<"&deepsyn", "&put">>, <<"&put">>,
             <<"&get", "&transduction", "&dc2", "&put">>,
             <<"&transduction", "&dc2", "&put">>, <<"&dc2", "&put">>, <<>>}

Left(l) == CASE l = "loop" -> {<<>>, <<"write_aiger">>, <<"read">>}
             [] l = "judge" -> MoveLeft
             [] l = "accepted" -> {<<>>, <<"write_aiger">>}
             [] l = "remove" -> {<<>>, <<"read_aiger">>}
             [] OTHER -> {<<>>}

\* The next command works on the AIG of the &-space.
UsesSpace(r) == todo[r] # <<>> /\ Head(todo[r]) \in SpaceCommands

LEMMA Tuples ==
  ASSUME NEW a, NEW b, NEW c, NEW d
  PROVE  /\ Tail(<<a>>) = <<>> /\ Tail(<<a, b>>) = <<b>>
         /\ Tail(<<a, b, c>>) = <<b, c>> /\ Tail(<<a, b, c, d>>) = <<b, c, d>>
         /\ Len(<<>>) = 0 /\ Len(<<a>>) = 1 /\ Len(<<a, b>>) = 2
         /\ Len(<<a, b, c>>) = 3 /\ Len(<<a, b, c, d>>) = 4
         /\ Head(<<a>>) = a /\ Head(<<a, b>>) = a
         /\ Head(<<a, b, c>>) = a /\ Head(<<a, b, c, d>>) = a
OBVIOUS

\* What is left stays of its kind from one command to the next; what comes
\* before a command that works on the &-space fills it.
LeftOk(s, l) ==
    s # <<>> => /\ Tail(s) \in l /\ Len(s) \in Nat /\ Len(Tail(s)) \in Nat
                /\ Len(Tail(s)) < Len(s)
                /\ Tail(s) # <<>> /\ Head(Tail(s)) \in SpaceCommands =>
                       Head(s) \in SpaceCommands \cup {"&get"}

LEMMA MoveLeftOk == \A s \in MoveLeft : LeftOk(s, MoveLeft)
<1>1. LeftOk(<<"rewrite", "refactor", "resub">>, MoveLeft)
  BY Tuples DEF LeftOk, MoveLeft, SpaceCommands
<1>2. LeftOk(<<"refactor", "resub">>, MoveLeft)
  BY Tuples DEF LeftOk, MoveLeft, SpaceCommands
<1>3. LeftOk(<<"resub">>, MoveLeft)
  BY Tuples DEF LeftOk, MoveLeft, SpaceCommands
<1>4. LeftOk(<<"orchestrate">>, MoveLeft)
  BY Tuples DEF LeftOk, MoveLeft, SpaceCommands
<1>5. LeftOk(<<"&get", "&deepsyn", "&put">>, MoveLeft)
  BY Tuples DEF LeftOk, MoveLeft, SpaceCommands
<1>6. LeftOk(<<"&deepsyn", "&put">>, MoveLeft)
  BY Tuples DEF LeftOk, MoveLeft, SpaceCommands
<1>7. LeftOk(<<"&put">>, MoveLeft)
  BY Tuples DEF LeftOk, MoveLeft, SpaceCommands
<1>8. LeftOk(<<"&get", "&transduction", "&dc2", "&put">>, MoveLeft)
  BY Tuples DEF LeftOk, MoveLeft, SpaceCommands
<1>9. LeftOk(<<"&transduction", "&dc2", "&put">>, MoveLeft)
  BY Tuples DEF LeftOk, MoveLeft, SpaceCommands
<1>10. LeftOk(<<"&dc2", "&put">>, MoveLeft)
  BY Tuples DEF LeftOk, MoveLeft, SpaceCommands
<1>11. LeftOk(<<>>, MoveLeft)
  BY DEF LeftOk
<1> QED BY <1>1, <1>2, <1>3, <1>4, <1>5, <1>6, <1>7, <1>8, <1>9, <1>10, <1>11 DEF MoveLeft

LEMMA LeftStep ==
  ASSUME NEW l, NEW s \in Left(l)
  PROVE  LeftOk(s, Left(l))
<1>1. CASE l = "judge"
  BY <1>1, MoveLeftOk DEF Left
<1>2. CASE l # "judge"
  <2>1. s \in {<<>>, <<"write_aiger">>, <<"read">>, <<"read_aiger">>} /\ <<>> \in Left(l)
    BY <1>2 DEF Left
  <2>2. LeftOk(<<>>, Left(l))
    BY DEF LeftOk
  <2>3. ASSUME NEW c \in {"write_aiger", "read", "read_aiger"} PROVE LeftOk(<<c>>, Left(l))
    BY <2>1, Tuples DEF LeftOk
  <2> QED BY <2>1, <2>2, <2>3
<1> QED BY <1>1, <1>2

\* A move is made of resynthesis and of commands on the &-space, and the file is
\* written and read by scripts of one command.
LEMMA LeftHeads ==
  ASSUME NEW l, NEW s \in Left(l), s # <<>>
  PROVE  /\ l \in {"loop", "judge", "accepted", "remove"}
         /\ l = "judge" => Head(s) \in Resyntheses \cup SpaceCommands \cup {"&get"}
         /\ l # "judge" =>
               /\ s \in {<<"write_aiger">>, <<"read">>, <<"read_aiger">>} /\ Tail(s) = <<>>
               /\ Head(s) \in {"write_aiger", "read", "read_aiger"}
               /\ Head(s) = "write_aiger" <=> s = <<"write_aiger">>
<1>1. CASE l = "judge"
  <2>1. s \in MoveLeft
    BY <1>1 DEF Left
  <2> QED BY <1>1, <2>1, Tuples DEF MoveLeft, Resyntheses, SpaceCommands
<1>2. CASE l # "judge"
  <2>1. /\ l \in {"loop", "accepted", "remove"}
        /\ s \in {<<"write_aiger">>, <<"read">>, <<"read_aiger">>}
    BY <1>2 DEF Left
  <2> QED BY <1>2, <2>1, Tuples, ZenonT(30)
<1> QED BY <1>1, <1>2

LEMMA ScriptsLeft ==
  /\ Scripts \subseteq Left("judge") /\ <<>> \notin Scripts
  /\ \A s \in Scripts : s # <<>> => Head(s) \notin SpaceCommands
BY DEF Scripts, Left, MoveLeft, SpaceCommands

-----------------------------------------------------------------------------
(* The inductive invariant, for any processes *)

Scripted(r) == /\ todo[r] \in Left(pc[r])
               /\ pc[r] \in {"judge", "accepted"} => heat[r] > 0
               /\ UsesSpace(r) => pGia[r] \in Net

IndInv == /\ TypeOK /\ todo = [r \in Proc |-> todo[r]]
          /\ \A r \in Proc : Tidy(frm[r], fBackup[r]) /\ Scripted(r)

LEMMA InSession ==
  ASSUME IndInv, NEW r \in Proc
  PROVE  /\ Tidy(frm[r], fBackup[r]) /\ fBackup[r] \in BOOLEAN
         /\ Current(r) = TopNet(frm[r]) /\ Current(r) \in Net
<1>1. Tidy(frm[r], fBackup[r]) /\ fBackup[r] \in BOOLEAN
  BY DEF IndInv, TypeOK
<1> QED BY <1>1, TidyTop DEF Current, TopNet

\* The judgement of a move is a number, also when it is read from freed memory.
LEMMA NodeNumsType ==
  ASSUME IndInv, NEW r \in Proc
  PROVE  NodeNums(r) \subseteq Int
<1>1. CASE pNtk[r] \in frm[r].live
  <2>1. frm[r].net[pNtk[r]] \in Net
    BY <1>1, InSession DEF Tidy, WellFormed, LinksLive
  <2>2. Net = Circuit \X (0 .. MaxAnds) /\ MaxAnds \in Nat
    BY AnnealingAssumption DEF Sized
  <2>3. ands(frm[r].net[pNtk[r]]) \in Int
    BY <2>1, <2>2 DEF ands
  <2> QED BY <1>1, <2>3 DEF NodeNums
<1>2. CASE pNtk[r] \notin frm[r].live
  BY <1>2, AnnealingAssumption DEF NodeNums
<1> QED BY <1>1, <1>2

\* What a command does to the session q it leaves, the &-space and the file.
Effect(r, q) ==
    \/ /\ Head(todo[r]) \in Resyntheses /\ UNCHANGED <<pGia, file, accepted, lost>>
       /\ circuit(TopNet(q)) = circuit(Current(r))
    \/ /\ Head(todo[r]) = "&get" /\ q = frm[r] /\ UNCHANGED <<file, accepted, lost>>
       /\ pGia' = [pGia EXCEPT ![r] = Current(r)]
    \/ /\ Head(todo[r]) \in SpaceCommands \ {"&put"} /\ UNCHANGED <<file, accepted, lost>>
       /\ \E m \in Net : circuit(m) = circuit(pGia[r]) /\ pGia' = [pGia EXCEPT ![r] = m]
       /\ circuit(TopNet(q)) \in {circuit(Current(r)), circuit(pGia[r])}
    \/ /\ Head(todo[r]) = "&put" /\ UNCHANGED <<pGia, file, accepted, lost>>
       /\ TopNet(q) = pGia[r]
    \/ /\ Head(todo[r]) = "write_aiger" /\ q = frm[r] /\ UNCHANGED pGia
       /\ accepted' = [accepted EXCEPT ![r] = Current(r)]
       /\ (file' = Current(r) /\ UNCHANGED lost) \/ (UNCHANGED file /\ lost' = TRUE)
    \/ /\ Head(todo[r]) \in {"read", "read_aiger"} /\ UNCHANGED <<pGia, file, accepted, lost>>
       /\ TopNet(q) = IF file = NULL THEN Current(r) ELSE file

LEMMA DispatchesTidy ==
  ASSUME IndInv, NEW r \in Proc, NEW p \in Dispatches(r)
  PROVE  Tidy(p, fBackup[r]) /\ TopNet(p) = Current(r)
BY InSession, DispatchedTidy DEF Dispatches

LEMMA ResynthesizeEffect ==
  ASSUME IndInv, NEW r \in Proc, Resynthesize(r)
  PROVE  \E q : SetFrame(r, q) /\ Tidy(q, fBackup[r]) /\ Effect(r, q)
<1>1. PICK p \in Dispatches(r) :
         \/ \E m \in Variants(p.net[p.pNtkCur], FALSE) :
               SetFrame(r, [p EXCEPT !.net[p.pNtkCur] = m])
         \/ \E a \in Fresh(p) :
               SetFrame(r, ReplaceCurrentNetwork(NtkDup(p, p.pNtkCur, a), a, fBackup[r]))
  BY DEF Resynthesize
<1>2. Tidy(p, fBackup[r]) /\ TopNet(p) = Current(r) /\ fBackup[r] \in BOOLEAN /\ Current(r) \in Net
  BY DispatchesTidy, InSession
<1>3. \E q : SetFrame(r, q) /\ Tidy(q, fBackup[r]) /\ circuit(TopNet(q)) = circuit(Current(r))
  <2>1. CASE \E m \in Variants(p.net[p.pNtkCur], FALSE) :
               SetFrame(r, [p EXCEPT !.net[p.pNtkCur] = m])
    <3>1. PICK m \in Variants(p.net[p.pNtkCur], FALSE) :
               SetFrame(r, [p EXCEPT !.net[p.pNtkCur] = m])
      BY <2>1
    <3>2. m \in Net /\ circuit(m) = circuit(Current(r))
      BY <1>2 DEF Variants, TopNet
    <3>3. /\ Tidy([p EXCEPT !.net[p.pNtkCur] = m], fBackup[r])
          /\ TopNet([p EXCEPT !.net[p.pNtkCur] = m]) = m
      BY <1>2, <3>2, InPlaceTidy
    <3> QED BY <3>1, <3>2, <3>3
  <2>2. CASE \E a \in Fresh(p) :
               SetFrame(r, ReplaceCurrentNetwork(NtkDup(p, p.pNtkCur, a), a, fBackup[r]))
    <3>1. PICK a \in Fresh(p) :
               SetFrame(r, ReplaceCurrentNetwork(NtkAlloc(p, a, TopNet(p)), a, fBackup[r]))
      BY <2>2 DEF NtkDup, TopNet
    <3> DEFINE q == ReplaceCurrentNetwork(NtkAlloc(p, a, TopNet(p)), a, fBackup[r])
    <3>2. Tidy(q, fBackup[r]) /\ TopNet(q) = Current(r)
      BY <1>2, BuiltTidy
    <3> HIDE DEF q
    <3>3. SetFrame(r, q)
      BY <3>1 DEF q
    <3> QED BY <3>2, <3>3
  <2> QED BY <1>1, <2>1, <2>2
<1> QED BY <1>3 DEF Resynthesize, Effect, Resyntheses

LEMMA DeepSynEffect ==
  ASSUME IndInv, NEW r \in Proc, todo[r] # <<>>, DeepSyn(r)
  PROVE  \E q : SetFrame(r, q) /\ Tidy(q, fBackup[r]) /\ Effect(r, q)
<1>1. /\ Tidy(frm[r], fBackup[r]) /\ fBackup[r] \in BOOLEAN /\ Current(r) = TopNet(frm[r])
      /\ frm = [frm EXCEPT ![r] = frm[r]]
  BY InSession DEF IndInv, TypeOK
<1>2. PICK m \in Variants(pGia[r], FALSE) : pGia' = [pGia EXCEPT ![r] = m]
  BY DEF DeepSyn
<1>3. m \in Net /\ circuit(m) = circuit(pGia[r])
  BY DEF Variants
<1>4. \E q : /\ SetFrame(r, q) /\ Tidy(q, fBackup[r])
             /\ circuit(TopNet(q)) \in {circuit(Current(r)), circuit(pGia[r])}
  <2>1. CASE UNCHANGED frm
    <3>1. SetFrame(r, frm[r])
      BY <1>1, <2>1 DEF SetFrame
    <3> QED BY <1>1, <3>1
  <2>2. CASE CompressedInSession(r)
    <3>1. PICK a \in Fresh(frm[r]), n \in Variants(pGia[r], TRUE) :
             LET q == ReplaceCurrentNetwork(NtkAlloc(frm[r], a, n), a, fBackup[r])
             IN  \E p \in {q} \cup Dispatched(q, fBackup[r], 1) : SetFrame(r, p)
      BY <2>2 DEF CompressedInSession
    <3> DEFINE q == ReplaceCurrentNetwork(NtkAlloc(frm[r], a, n), a, fBackup[r])
    <3>2. n \in Net /\ circuit(n) = circuit(pGia[r])
      BY DEF Variants
    <3>3. Tidy(q, fBackup[r]) /\ TopNet(q) = n
      BY <1>1, <3>2, BuiltTidy
    <3>4. PICK p \in {q} \cup Dispatched(q, fBackup[r], 1) : SetFrame(r, p)
      BY <3>1
    <3> HIDE DEF q
    <3>5. Tidy(p, fBackup[r]) /\ TopNet(p) = n
      BY <1>1, <3>3, <3>4, DispatchedTidy
    <3> QED BY <3>2, <3>4, <3>5
  <2> QED BY <2>1, <2>2 DEF DeepSyn
<1> QED BY <1>2, <1>3, <1>4 DEF DeepSyn, Effect, SpaceCommands

LEMMA LoadedTidy ==
  ASSUME IndInv, NEW r \in Proc, NEW p \in Dispatches(r), file # NULL, NEW q \in Loaded(r, p)
  PROVE  Tidy(q, fBackup[r]) /\ TopNet(q) = file
<1>1. PICK a \in Fresh(p) : q = ReplaceCurrentNetwork(NtkAlloc(p, a, file), a, fBackup[r])
  BY DEF Loaded
<1>2. Tidy(p, fBackup[r]) /\ fBackup[r] \in BOOLEAN /\ file \in Net
  BY DispatchesTidy, InSession DEF IndInv, TypeOK
<1> QED BY <1>1, <1>2, BuiltTidy

LEMMA ReadEffect ==
  ASSUME IndInv, NEW r \in Proc, Read(r) \/ ReadAiger(r)
  PROVE  \E q : SetFrame(r, q) /\ Tidy(q, fBackup[r]) /\ Effect(r, q)
<1>1. PICK p \in Dispatches(r) :
         \/ file = NULL /\ Read(r) /\ SetFrame(r, p)
         \/ file # NULL /\ \E q \in Loaded(r, p) : SetFrame(r, q)
  BY DEF Read, ReadAiger
<1>2. \E q : /\ SetFrame(r, q) /\ Tidy(q, fBackup[r])
             /\ TopNet(q) = IF file = NULL THEN Current(r) ELSE file
  <2>1. CASE file = NULL
    BY <1>1, <2>1, DispatchesTidy
  <2>2. CASE file # NULL
    BY <1>1, <2>2, LoadedTidy
  <2> QED BY <2>1, <2>2
<1>3. Head(todo[r]) \in {"read", "read_aiger"} /\ UNCHANGED <<pGia, file, accepted, lost>>
  BY DEF Read, ReadAiger
<1> QED BY <1>2, <1>3 DEF Effect

LEMMA ExecuteEffect ==
  ASSUME IndInv, NEW r \in Proc, Execute(r)
  PROVE  \E q : SetFrame(r, q) /\ Tidy(q, fBackup[r]) /\ Effect(r, q)
<1>1. /\ Tidy(frm[r], fBackup[r]) /\ fBackup[r] \in BOOLEAN /\ Current(r) = TopNet(frm[r])
      /\ todo[r] # <<>> /\ frm = [frm EXCEPT ![r] = frm[r]]
  BY InSession DEF IndInv, TypeOK, Execute
<1>2. CASE Resynthesize(r)
  BY <1>2, ResynthesizeEffect
<1>3. CASE Get(r) \/ GiaTransform(r) \/ WriteAiger(r)
  <2>1. SetFrame(r, frm[r])
    BY <1>1, <1>3 DEF Get, GiaTransform, WriteAiger, SetFrame
  <2>2. CASE Get(r)
    BY <1>1, <2>1, <2>2 DEF Get, Effect
  <2>3. CASE GiaTransform(r)
    BY <1>1, <2>1, <2>3 DEF GiaTransform, Effect, SpaceCommands, Variants
  <2>4. CASE WriteAiger(r)
    BY <1>1, <2>1, <2>4 DEF WriteAiger, Effect
  <2> QED BY <1>3, <2>2, <2>3, <2>4
<1>4. CASE DeepSyn(r)
  BY <1>1, <1>4, DeepSynEffect
<1>5. CASE Put(r)
  <2>1. PICK a \in Fresh(frm[r]) :
           SetFrame(r, ReplaceCurrentNetwork(NtkAlloc(frm[r], a, pGia[r]), a, fBackup[r]))
    BY <1>5 DEF Put
  <2>2. pGia[r] \in Net
    BY <1>1, <1>5 DEF IndInv, Scripted, UsesSpace, SpaceCommands, Put
  <2> DEFINE q == ReplaceCurrentNetwork(NtkAlloc(frm[r], a, pGia[r]), a, fBackup[r])
  <2>3. Tidy(q, fBackup[r]) /\ TopNet(q) = pGia[r]
    BY <1>1, <2>2, BuiltTidy
  <2>4. SetFrame(r, q)
    BY <2>1
  <2> HIDE DEF q
  <2> QED BY <1>5, <2>3, <2>4 DEF Put, Effect
<1>6. CASE Read(r) \/ ReadAiger(r)
  BY <1>6, ReadEffect
<1> QED BY <1>2, <1>3, <1>4, <1>5, <1>6 DEF Execute

LEMMA FailEffect ==
  ASSUME IndInv, NEW r \in Proc, CommandFails(r)
  PROVE  \E q : SetFrame(r, q) /\ Tidy(q, fBackup[r])
<1>1. PICK p \in Dispatches(r) :
         SetFrame(r, p) \/ \E m \in Net : SetFrame(r, [p EXCEPT !.net[p.pNtkCur] = m])
  BY DEF CommandFails
<1>2. Tidy(p, fBackup[r]) /\ fBackup[r] \in BOOLEAN
  BY DispatchesTidy, InSession
<1> QED BY <1>1, <1>2, InPlaceTidy

LEMMA StartedTidy ==
  ASSUME NEW a \in Addr, NEW n \in Net
  PROVE  /\ Tidy(Started(a, n), FALSE) /\ Tidy(Started(a, n), TRUE)
         /\ Started(a, n) \in Frames /\ TopNet(Started(a, n)) = n
<1> DEFINE e == FrameAllocate
           d == NtkAlloc(e, a, n)
           q == Started(a, n)
<1>1. e \in Frames /\ e.live = {} /\ e.pNtkCur = NULL
  BY DEF FrameAllocate, Frames
<1>2. WellFormed(e)
  BY <1>1 DEF FrameAllocate, WellFormed, LinksLive, StepsDescend, LinksApart
<1>3. a \in Fresh(e) /\ a # NULL
  BY <1>1, StackAssumption DEF Fresh
<1> HIDE DEF e
<1>4. WellFormed(d) /\ Unlinked(d, a) /\ d.live = {a} /\ d.net[a] = n /\ d.pNtkCur = NULL
  BY <1>1, <1>2, <1>3, AllocWellFormed, AllocStack
<1>5. q = ReplacedUnsaved(d, a) /\ WellFormed(q)
  BY <1>4, ReplaceWellFormed DEF Started, ReplaceCurrentNetwork, e
<1> HIDE DEF d
<1>6. Stack(q) = {a} /\ q.live = {a} /\ q.net[a] = n
  <2>1. d.live \ {d.pNtkCur} = {a}
    BY <1>3, <1>4
  <2> QED BY <1>4, <1>5, <2>1, ReplacedUnsavedStack
<1>7. q.pNtkCur = a
  BY <1>4, <1>5 DEF ReplacedUnsaved, WellFormed, Frames
<1>8. Cardinality({a}) = 1
  BY FS_Singleton
<1> HIDE DEF q
<1>9. Tidy(q, FALSE) /\ Tidy(q, TRUE) /\ q \in Frames /\ TopNet(q) = n
  BY <1>3, <1>5, <1>6, <1>7, <1>8 DEF Tidy, TopNet, WellFormed
<1> QED BY <1>9 DEF q

LEMMA InitIndInv == Init => IndInv
<1> SUFFICES ASSUME Init PROVE IndInv
  OBVIOUS
<1>1. PICK given \in [Proc -> Net], a \in Addr :
         /\ frm = [r \in Proc |-> Started(a, given[r])]
         /\ origin = given /\ accepted = given
  BY DEF Init
<1>2. /\ fBackup \in [Proc -> BOOLEAN] /\ Coolings \in Nat
  BY AnnealingAssumption DEF Init
<1>3. \A r \in Proc : frm[r] \in Frames /\ Tidy(frm[r], fBackup[r])
  BY <1>1, <1>2, StartedTidy
<1>4. TypeOK
  <2>1. frm \in [Proc -> Frames]
    BY <1>1, <1>3
  <2>2. heat \in [Proc -> 0 .. Coolings] /\ best_eval \in [Proc -> Int]
    BY <1>2 DEF Init
  <2>3. pc \in [Proc -> Labels] /\ pNtk \in [Proc -> Addr \cup {NULL}]
    BY DEF Init, Labels
  <2>4. pGia \in [Proc -> Net \cup {NULL}] /\ file \in Net \cup {NULL} /\ lost \in BOOLEAN
    BY DEF Init
  <2>5. {origin, accepted} \subseteq [Proc -> Net]
    BY <1>1
  <2> QED BY <1>2, <2>1, <2>2, <2>3, <2>4, <2>5 DEF TypeOK
<1>5. \A r \in Proc : Scripted(r)
  BY DEF Init, Scripted, UsesSpace, Left
<1>6. todo = [r \in Proc |-> todo[r]]
  BY DEF Init
<1> QED BY <1>3, <1>4, <1>5, <1>6 DEF IndInv

\* A step that leaves one session tidy leaves them all so.
LEMMA SessionsKept ==
  ASSUME IndInv, NEW r \in Proc, NEW q, SetFrame(r, q), Tidy(q, fBackup[r]), UNCHANGED fBackup
  PROVE  frm' \in [Proc -> Frames] /\ \A s \in Proc : Tidy(frm[s], fBackup[s])'
<1>1. q \in Frames
  BY DEF Tidy, WellFormed
<1>2. frm \in [Proc -> Frames] /\ frm' = [frm EXCEPT ![r] = q]
  BY DEF IndInv, TypeOK, SetFrame
<1>3. ASSUME NEW s \in Proc PROVE Tidy(frm'[s], fBackup'[s])
  BY <1>2 DEF IndInv
<1> QED BY <1>1, <1>2, <1>3

\* A step of one process leaves what the others have to do.
LEMMA OthersScripted ==
  ASSUME IndInv, NEW r \in Proc, Scripted(r)',
         \A s \in Proc \ {r} : /\ pc'[s] = pc[s] /\ todo'[s] = todo[s]
                               /\ heat'[s] = heat[s] /\ pGia'[s] = pGia[s]
  PROVE  \A s \in Proc : Scripted(s)'
BY DEF IndInv, Scripted, UsesSpace

LEMMA ExecuteIndInv ==
  ASSUME IndInv, NEW r \in Proc, Execute(r)
  PROVE  IndInv'
<1>1. PICK q : SetFrame(r, q) /\ Tidy(q, fBackup[r]) /\ Effect(r, q)
  BY ExecuteEffect
<1>2. /\ todo[r] # <<>> /\ todo' = [todo EXCEPT ![r] = Tail(@)]
      /\ UNCHANGED <<fBackup, pc, locals, origin>>
  BY DEF Execute
<1>3. /\ frm' \in [Proc -> Frames] /\ \A s \in Proc : Tidy(frm[s], fBackup[s])'
  BY <1>1, <1>2, SessionsKept
<1>4. /\ Current(r) \in Net /\ TypeOK /\ Scripted(r) /\ todo = [s \in Proc |-> todo[s]]
      /\ NULL \notin Net
  BY InSession, StackAssumption DEF IndInv
<1>5. /\ pGia' \in [Proc -> Net \cup {NULL}] /\ file' \in Net \cup {NULL} /\ lost' \in BOOLEAN
      /\ accepted' \in [Proc -> Net] /\ \A s \in Proc \ {r} : pGia'[s] = pGia[s]
      /\ Head(todo[r]) \in {"&get"} \cup SpaceCommands => pGia'[r] \in Net
  <2>1. Head(todo[r]) \in SpaceCommands => pGia[r] \in Net
    BY <1>2, <1>4 DEF Scripted, UsesSpace
  <2> QED BY <1>1, <1>4, <2>1, ZenonT(30) DEF Effect, TypeOK, Resyntheses, SpaceCommands
<1>6. /\ todo' = [s \in Proc |-> todo'[s]] /\ todo'[r] = Tail(todo[r])
      /\ \A s \in Proc \ {r} : todo'[s] = todo[s]
  BY <1>2, <1>4
<1>7. Scripted(r)'
  <2>1. LeftOk(todo[r], Left(pc[r]))
    BY <1>4, LeftStep DEF Scripted
  <2> QED BY <1>2, <1>4, <1>5, <1>6, <2>1 DEF LeftOk, Scripted, UsesSpace, locals
<1>8. \A s \in Proc : Scripted(s)'
  BY <1>2, <1>5, <1>6, <1>7, OthersScripted DEF locals
<1>9. TypeOK'
  BY <1>2, <1>3, <1>4, <1>5 DEF TypeOK, locals
<1> QED BY <1>3, <1>6, <1>8, <1>9 DEF IndInv

LEMMA FailIndInv ==
  ASSUME IndInv, NEW r \in Proc, CommandFails(r)
  PROVE  IndInv'
<1>1. PICK q : SetFrame(r, q) /\ Tidy(q, fBackup[r])
  BY FailEffect
<1>2. /\ pc' = [pc EXCEPT ![r] = "failed"] /\ todo' = [todo EXCEPT ![r] = <<>>]
      /\ UNCHANGED <<fBackup, pGia, file, locals, hist>>
  BY DEF CommandFails
<1>3. /\ frm' \in [Proc -> Frames] /\ \A s \in Proc : Tidy(frm[s], fBackup[s])'
  BY <1>1, <1>2, SessionsKept
<1>4. TypeOK /\ todo = [s \in Proc |-> todo[s]]
  BY DEF IndInv
<1>5. Scripted(r)'
  BY <1>2, <1>4 DEF Scripted, UsesSpace, Left, TypeOK
<1>6. \A s \in Proc : Scripted(s)'
  BY <1>2, <1>4, <1>5, OthersScripted DEF locals, TypeOK
<1>7. TypeOK'
  BY <1>2, <1>3, <1>4 DEF TypeOK, locals, hist, Labels
<1> QED BY <1>2, <1>3, <1>4, <1>6, <1>7 DEF IndInv

\* The steps of lsv_sa itself, which leave the sessions alone.
Outside(r) == \/ Call(r) \/ Move(r) \/ Accept(r) \/ Reject(r) \/ Accepted(r)
              \/ Cold(r) \/ Remove(r)

LEMMA OutsideIndInv ==
  ASSUME IndInv, NEW r \in Proc, Outside(r)
  PROVE  IndInv'
<1>1. /\ TypeOK /\ todo = [s \in Proc |-> todo[s]] /\ todo[r] = <<>> /\ Scripted(r)
      /\ Current(r) \in Net /\ frm[r].pNtkCur \in Addr
  <2>1. frm[r].pNtkCur \in Addr
    BY InSession, TidyTop
  <2> QED BY <2>1, InSession
       DEF IndInv, Outside, Call, Move, Accept, Reject, Accepted, Cold, Remove, At
<1>2. UNCHANGED <<frm, fBackup, pGia, hist>>
  BY DEF Outside, Call, Move, Accept, Reject, Accepted, Cold, Remove, hist
<1>3. \A s \in Proc : Tidy(frm[s], fBackup[s])'
  BY <1>2 DEF IndInv
<1>4. /\ pNtk' \in [Proc -> Addr \cup {NULL}] /\ best_eval' \in [Proc -> Int]
      /\ file' \in Net \cup {NULL}
  <2>1. CASE Call(r)
    <3>1. ands(Current(r)) \in Int
      BY <1>1, AnnealingAssumption DEF ands, Sized
    <3> QED BY <1>1, <2>1, <3>1 DEF Call, TypeOK
  <2>2. CASE Accepted(r)
    BY <1>1, <2>2, NodeNumsType DEF Accepted, TypeOK
  <2>3. CASE Move(r) \/ Accept(r) \/ Reject(r) \/ Cold(r) \/ Remove(r)
    BY <1>1, <2>3 DEF Move, Accept, Reject, Cold, Remove, locals, TypeOK
  <2> QED BY <2>1, <2>2, <2>3 DEF Outside
<1>5. /\ pc' \in [Proc -> Labels] /\ heat' \in [Proc -> 0 .. Coolings]
      /\ todo' = [s \in Proc |-> todo'[s]]
      /\ \A s \in Proc \ {r} : pc'[s] = pc[s] /\ todo'[s] = todo[s] /\ heat'[s] = heat[s]
      /\ todo'[r] \in Left(pc'[r]) /\ (pc'[r] \in {"judge", "accepted"} => heat'[r] > 0)
      /\ todo'[r] # <<>> => Head(todo'[r]) \notin SpaceCommands
  <2>1. Coolings \in Nat
    BY AnnealingAssumption
  <2>2. CASE Call(r)
    <3>1. /\ pc' = [pc EXCEPT ![r] = "loop"] /\ todo' = [todo EXCEPT ![r] = <<"write_aiger">>]
          /\ UNCHANGED heat
      BY <2>2 DEF Call, Run, GoTo
    <3>2. <<"write_aiger">> \in Left("loop") /\ Head(<<"write_aiger">>) \notin SpaceCommands
      BY Tuples DEF Left, SpaceCommands
    <3> QED BY <1>1, <3>1, <3>2 DEF TypeOK, Labels
  <2>3. CASE Move(r)
    BY <1>1, <2>3, ScriptsLeft DEF Move, TypeOK, Run, GoTo, locals, Labels
  <2>4. CASE Accept(r)
    <3>1. pc[r] = "judge" /\ heat[r] > 0
      BY <1>1, <2>4 DEF Accept, At, Scripted
    <3>2. /\ pc' = [pc EXCEPT ![r] = "accepted"] /\ todo' = [todo EXCEPT ![r] = <<"write_aiger">>]
          /\ UNCHANGED heat
      BY <2>4 DEF Accept, Run, GoTo, locals
    <3>3. <<"write_aiger">> \in Left("accepted") /\ Head(<<"write_aiger">>) \notin SpaceCommands
      BY Tuples DEF Left, SpaceCommands
    <3> QED BY <1>1, <3>1, <3>2, <3>3 DEF TypeOK, Labels
  <2>5. CASE Reject(r)
    <3>1. pc[r] = "judge" /\ heat[r] > 0
      BY <1>1, <2>5 DEF Reject, At, Scripted
    <3>2. /\ pc' = [pc EXCEPT ![r] = "loop"] /\ todo' = [todo EXCEPT ![r] = <<"read">>]
          /\ heat' = [heat EXCEPT ![r] = @ - 1]
      BY <2>5 DEF Reject, Run, GoTo
    <3>3. <<"read">> \in Left("loop") /\ Head(<<"read">>) \notin SpaceCommands
      BY Tuples DEF Left, SpaceCommands
    <3>4. heat' \in [Proc -> 0 .. Coolings] /\ \A s \in Proc \ {r} : heat'[s] = heat[s]
      BY <1>1, <2>1, <3>1, <3>2 DEF TypeOK
    <3>5. /\ pc' \in [Proc -> Labels] /\ pc'[r] = "loop" /\ todo'[r] = <<"read">>
          /\ todo' = [s \in Proc |-> todo'[s]]
          /\ \A s \in Proc \ {r} : pc'[s] = pc[s] /\ todo'[s] = todo[s]
      BY <1>1, <3>2 DEF TypeOK, Labels
    <3> QED BY <3>3, <3>4, <3>5
  <2>6. CASE Accepted(r)
    BY <1>1, <2>1, <2>6 DEF Accepted, At, TypeOK, Scripted, GoTo, Left, Labels
  <2>7. CASE Cold(r)
    <3>1. /\ pc' = [pc EXCEPT ![r] = "remove"] /\ todo' = [todo EXCEPT ![r] = <<"read_aiger">>]
          /\ UNCHANGED heat
      BY <2>7 DEF Cold, Run, GoTo, locals
    <3>2. <<"read_aiger">> \in Left("remove") /\ Head(<<"read_aiger">>) \notin SpaceCommands
      BY Tuples DEF Left, SpaceCommands
    <3> QED BY <1>1, <3>1, <3>2 DEF TypeOK, Labels
  <2>8. CASE Remove(r)
    <3>1. pc' = [pc EXCEPT ![r] = "done"] /\ UNCHANGED <<todo, heat>>
      BY <2>8 DEF Remove, GoTo, locals
    <3>2. <<>> \in Left("done")
      BY DEF Left
    <3> QED BY <1>1, <3>1, <3>2 DEF TypeOK, Labels
  <2> QED BY <2>2, <2>3, <2>4, <2>5, <2>6, <2>7, <2>8 DEF Outside
<1>6. Scripted(r)'
  BY <1>5 DEF Scripted, UsesSpace
<1>7. \A s \in Proc : Scripted(s)'
  BY <1>2, <1>5, <1>6, OthersScripted
<1>8. TypeOK'
  BY <1>1, <1>2, <1>4, <1>5 DEF TypeOK, hist
<1> QED BY <1>3, <1>5, <1>7, <1>8 DEF IndInv

LEMMA NextIndInv == IndInv /\ [Next]_vars => IndInv'
<1> SUFFICES ASSUME IndInv, [Next]_vars PROVE IndInv'
  OBVIOUS
<1>1. CASE UNCHANGED vars
  BY <1>1 DEF IndInv, TypeOK, Scripted, UsesSpace, vars, locals, hist
<1>2. ASSUME NEW r \in Proc, Step(r) PROVE IndInv'
  BY <1>2, ExecuteIndInv, FailIndInv, OutsideIndInv DEF Step, Outside
<1> QED BY <1>1, <1>2 DEF Next, Finished

LEMMA AlwaysIndInv == Spec => []IndInv
BY InitIndInv, NextIndInv, PTL DEF Spec

-----------------------------------------------------------------------------
(* Theorems for any number of processes that share the file *)

\* Every state has its type; in particular lsv_sa never cools below 0.
THEOREM AnnealingTypeOK == Spec => []TypeOK
<1>1. IndInv => TypeOK
  BY DEF IndInv
<1> QED BY <1>1, AlwaysIndInv, PTL

\* However many moves are made, accepted, rejected or fail, each session holds
\* its current network and at most one backup: what a command replaces is freed.
THEOREM AnnealingMemoryBounded == Spec => []MemoryBounded
<1>1. IndInv => MemoryBounded
  <2> SUFFICES ASSUME IndInv, NEW r \in Proc PROVE Cardinality(frm[r].live) <= 2
    BY DEF MemoryBounded
  <2>1. Tidy(frm[r], fBackup[r]) /\ fBackup[r] \in BOOLEAN
    BY InSession
  <2>2. Cardinality(frm[r].live) \in Nat /\ Cardinality(frm[r].live) <= IF fBackup[r] THEN 2 ELSE 1
    BY <2>1, TidyTop DEF Tidy
  <2> QED BY <2>1, <2>2
<1> QED BY <1>1, AlwaysIndInv, PTL

LEMMA StepAdvances ==
  ASSUME IndInv, NEW r \in Proc, Step(r)
  PROVE  Nearer(Distance(r), Distance(r)')
<1>1. /\ TypeOK /\ todo = [s \in Proc |-> todo[s]] /\ Scripted(r) /\ Coolings \in Nat
      /\ heat[r] \in Nat
  BY AnnealingAssumption DEF IndInv, TypeOK
<1>2. /\ Distance(r) = <<heat[r], Rank[pc[r]], Len(todo[r])>>
      /\ Distance(r)' = <<heat'[r], Rank[pc'[r]], Len(todo'[r])>>
  BY DEF Distance
<1>3. CASE Execute(r)
  <2>1. heat'[r] = heat[r] /\ pc'[r] = pc[r] /\ todo'[r] = Tail(todo[r]) /\ todo[r] # <<>>
    BY <1>1, <1>3 DEF Execute, locals
  <2>2. Len(Tail(todo[r])) < Len(todo[r])
    BY <1>1, <2>1, LeftStep DEF Scripted, LeftOk
  <2> QED BY <1>2, <2>1, <2>2 DEF Nearer
<1>4. CASE CommandFails(r)
  <2>1. heat'[r] = heat[r] /\ pc'[r] = "failed" /\ todo'[r] = <<>> /\ todo[r] # <<>>
    BY <1>1, <1>4 DEF CommandFails, locals, TypeOK
  <2>2. pc[r] \in {"loop", "judge", "accepted", "remove"}
    BY <1>1, <2>1 DEF Scripted, Left, TypeOK, Labels
  <2>3. Rank[pc'[r]] < Rank[pc[r]]
    BY <2>1, <2>2 DEF Rank
  <2> QED BY <1>2, <2>1, <2>3 DEF Nearer
<1>5. CASE Call(r) \/ Move(r) \/ Accept(r) \/ Cold(r) \/ Remove(r)
  <2>1. heat'[r] = heat[r]
    BY <1>5 DEF Call, Move, Accept, Cold, Remove, locals
  <2>2. Rank[pc'[r]] < Rank[pc[r]]
    <3>1. CASE Call(r)
      BY <1>1, <3>1 DEF Call, At, GoTo, TypeOK, Rank
    <3>2. CASE Move(r)
      BY <1>1, <3>2 DEF Move, At, GoTo, TypeOK, Rank
    <3>3. CASE Accept(r)
      BY <1>1, <3>3 DEF Accept, At, GoTo, TypeOK, Rank
    <3>4. CASE Cold(r)
      BY <1>1, <3>4 DEF Cold, At, GoTo, TypeOK, Rank
    <3>5. CASE Remove(r)
      BY <1>1, <3>5 DEF Remove, At, GoTo, TypeOK, Rank
    <3> QED BY <1>5, <3>1, <3>2, <3>3, <3>4, <3>5
  <2> QED BY <1>2, <2>1, <2>2 DEF Nearer
<1>6. CASE Reject(r) \/ Accepted(r)
  <2>1. heat'[r] = heat[r] - 1
    BY <1>1, <1>6 DEF Reject, Accepted, TypeOK
  <2> QED BY <1>1, <1>2, <2>1 DEF Nearer
<1> QED BY <1>3, <1>4, <1>5, <1>6 DEF Step

\* A step of another process leaves what remains to be done.
LEMMA OthersWait ==
  ASSUME IndInv, NEW r \in Proc, NEW s \in Proc, s # r, Step(s)
  PROVE  Distance(r)' = Distance(r)
<1>1. TypeOK /\ todo = [p \in Proc |-> todo[p]]
  BY DEF IndInv
<1>2. /\ \E l : pc' = [pc EXCEPT ![s] = l] \/ UNCHANGED pc
      /\ \E l : todo' = [todo EXCEPT ![s] = l] \/ UNCHANGED todo
      /\ \E l : heat' = [heat EXCEPT ![s] = l] \/ UNCHANGED heat
  <2>1. CASE Execute(s) \/ CommandFails(s)
    BY <2>1 DEF Execute, CommandFails, locals
  <2>2. CASE Outside(s)
    BY <2>2 DEF Outside, Call, Move, Accept, Reject, Accepted, Cold, Remove, Run, GoTo, locals
  <2> QED BY <2>1, <2>2 DEF Step, Outside
<1>3. pc'[r] = pc[r] /\ todo'[r] = todo[r] /\ heat'[r] = heat[r]
  BY <1>1, <1>2 DEF TypeOK
<1> QED BY <1>3 DEF Distance

\* Every step of a process, a failing command included, brings it nearer to the
\* end of lsv_sa, and no other process takes it back.
THEOREM AnnealingAdvances == Spec => Advances
<1>1. IndInv /\ [Next]_vars =>
         [\A r \in Proc : Distance(r)' = Distance(r)
                                \/ Nearer(Distance(r), Distance(r)')]_vars
  <2> SUFFICES ASSUME IndInv, NEW s \in Proc, Step(s), NEW r \in Proc
               PROVE  Distance(r)' = Distance(r) \/ Nearer(Distance(r), Distance(r)')
    BY DEF Next, Finished
  <2> QED BY StepAdvances, OthersWait
<1> QED BY <1>1, AlwaysIndInv, PTL DEF Spec, Advances

-----------------------------------------------------------------------------
(* A process that has the directory to itself *)

Alone == \A r, s \in Proc : r = s

\* annealing.aig is this run's: after the first write, until it is removed.
Written(r) == /\ pc[r] \in {"loop", "judge", "accepted", "remove"}
              /\ ~(pc[r] = "loop" /\ todo[r] = <<"write_aiger">>)

\* The network is the one accepted last: before a move, and from the write or
\* the read that settles a judgement on.
Settled(r) == At(r, "loop") \/ At(r, "accepted") \/ At(r, "remove") \/ pc[r] = "done"

OldAig(r) == /\ circuit(accepted[r]) = circuit(origin[r])
             /\ pc[r] # "failed" => circuit(Current(r)) = circuit(origin[r])
             /\ UsesSpace(r) => circuit(pGia[r]) = circuit(origin[r])
             /\ Written(r) => file = accepted[r]
             /\ Settled(r) => Current(r) = accepted[r]

Faithful == ~lost => \A r \in Proc : OldAig(r)

LEMMA InitFaithful == Init => Faithful
<1> SUFFICES ASSUME Init, NEW r \in Proc PROVE OldAig(r)
  BY DEF Faithful
<1>1. PICK given \in [Proc -> Net], a \in Addr :
         /\ frm = [s \in Proc |-> Started(a, given[s])]
         /\ origin = given /\ accepted = given
  BY DEF Init
<1>2. Current(r) = given[r]
  BY <1>1, StartedTidy, ZenonT(30) DEF Current, TopNet
<1>3. pc[r] = "call" /\ todo[r] = <<>>
  BY DEF Init
<1> QED BY <1>1, <1>2, <1>3 DEF OldAig, UsesSpace, Written, Settled, At

LEMMA ExecuteFaithful ==
  ASSUME IndInv, NEW r \in Proc, ~lost', OldAig(r), ~lost, Execute(r)
  PROVE  OldAig(r)'
<1>1. PICK q : SetFrame(r, q) /\ Tidy(q, fBackup[r]) /\ Effect(r, q)
  BY ExecuteEffect
<1>2. /\ todo[r] # <<>> /\ todo'[r] = Tail(todo[r]) /\ pc'[r] = pc[r] /\ origin' = origin
      /\ TypeOK /\ Scripted(r)
  BY DEF Execute, IndInv, locals
<1>3. Current(r)' = TopNet(q) /\ Current(r) \in Net /\ Current(r) = TopNet(frm[r])
  BY <1>1, <1>2, InSession DEF SetFrame, Current, TopNet, TypeOK
<1>4. /\ pc[r] \in {"loop", "judge", "accepted", "remove"}
      /\ pc[r] = "judge" => Head(todo[r]) \in Resyntheses \cup SpaceCommands \cup {"&get"}
      /\ pc[r] # "judge" =>
            /\ todo[r] \in {<<"write_aiger">>, <<"read">>, <<"read_aiger">>} /\ todo'[r] = <<>>
            /\ Head(todo[r]) \in {"write_aiger", "read", "read_aiger"}
            /\ Head(todo[r]) = "write_aiger" <=> todo[r] = <<"write_aiger">>
      /\ todo'[r] # <<>> /\ Head(todo'[r]) \in SpaceCommands =>
             Head(todo[r]) \in SpaceCommands \cup {"&get"}
  BY <1>2, LeftHeads, LeftStep DEF Scripted, LeftOk, TypeOK
<1>5. UsesSpace(r) <=> Head(todo[r]) \in SpaceCommands
  BY <1>2 DEF UsesSpace
<1>6. CASE pc[r] = "judge"
  <2>1. UNCHANGED <<file, accepted>>
    BY <1>1, <1>4, <1>6 DEF Effect, Resyntheses, SpaceCommands
  <2>2. circuit(Current(r)') = circuit(origin[r])
    BY <1>1, <1>3, <1>4, <1>5, <1>6 DEF Effect, OldAig, Resyntheses, SpaceCommands
  <2>3. Head(todo[r]) \in SpaceCommands \cup {"&get"} => circuit(pGia'[r]) = circuit(origin[r])
    BY <1>1, <1>2, <1>3, <1>4, <1>5, <1>6
       DEF Effect, OldAig, Resyntheses, SpaceCommands, TypeOK
  <2> QED BY <1>2, <1>4, <1>6, <2>1, <2>2, <2>3
       DEF OldAig, UsesSpace, Written, Settled, At
<1>7. CASE pc[r] # "judge" /\ Head(todo[r]) = "write_aiger"
  <2>1. /\ file' = Current(r) /\ accepted'[r] = Current(r) /\ Current(r)' = Current(r)
    BY <1>1, <1>2, <1>3, <1>7 DEF Effect, Resyntheses, SpaceCommands, TypeOK
  <2> QED BY <1>2, <1>4, <1>7, <2>1 DEF OldAig, UsesSpace, Written, Settled, At
<1>8. CASE pc[r] # "judge" /\ Head(todo[r]) \in {"read", "read_aiger"}
  <2>1. file = accepted[r] /\ file # NULL
    <3>1. Written(r)
      BY <1>4, <1>8 DEF Written
    <3>2. accepted[r] \in Net
      BY <1>2 DEF TypeOK
    <3> QED BY <3>1, <3>2, StackAssumption DEF OldAig
  <2>2. file' = file /\ accepted' = accepted /\ Current(r)' = accepted[r]
    BY <1>1, <1>3, <1>8, <2>1 DEF Effect, Resyntheses, SpaceCommands
  <2> QED BY <1>2, <1>4, <1>8, <2>1, <2>2 DEF OldAig, UsesSpace, Written, Settled, At
<1> QED BY <1>4, <1>6, <1>7, <1>8

LEMMA OutsideFaithful ==
  ASSUME IndInv, NEW r \in Proc, OldAig(r), Outside(r)
  PROVE  OldAig(r)'
<1>1. UNCHANGED <<frm, pGia, accepted, origin>> /\ TypeOK /\ todo = [s \in Proc |-> todo[s]]
  BY DEF Outside, Call, Move, Accept, Reject, Accepted, Cold, Remove, hist, IndInv
<1>2. Current(r)' = Current(r)
  BY <1>1 DEF Current
<1>3. todo[r] = <<>> /\ (todo'[r] # <<>> => Head(todo'[r]) \notin SpaceCommands)
  BY <1>1, ScriptsLeft, Tuples
     DEF Outside, Call, Move, Accept, Reject, Accepted, Cold, Remove, At, Run, SpaceCommands
<1>4. ~(UsesSpace(r)')
  BY <1>3 DEF UsesSpace
<1>5. CASE Call(r)
  <2>1. pc[r] = "call" /\ pc'[r] = "loop" /\ todo'[r] = <<"write_aiger">>
    BY <1>1, <1>5 DEF Call, At, Run, GoTo, TypeOK
  <2> QED BY <1>1, <1>2, <1>4, <2>1 DEF OldAig, Written, Settled, At
<1>6. CASE Move(r) \/ Accept(r) \/ Reject(r) \/ Cold(r)
  <2>1. /\ pc[r] \in {"loop", "judge"} /\ file' = file /\ todo'[r] # <<>>
        /\ pc'[r] \in {"loop", "judge", "accepted", "remove"}
    <3>1. CASE Move(r)
      <4>1. PICK script \in Scripts : todo' = [todo EXCEPT ![r] = script]
        BY <3>1 DEF Move, Run
      <4>2. script # <<>> /\ todo'[r] = script
        BY <1>1, <4>1, ScriptsLeft
      <4> QED BY <1>1, <3>1, <4>2 DEF Move, At, GoTo, TypeOK
    <3>2. CASE Accept(r)
      <4>1. todo'[r] = <<"write_aiger">>
        BY <1>1, <3>2 DEF Accept, Run
      <4>2. todo'[r] # <<>>
        BY <4>1
      <4> QED BY <1>1, <3>2, <4>2 DEF Accept, At, GoTo, TypeOK
    <3>3. CASE Reject(r)
      <4>1. todo'[r] = <<"read">>
        BY <1>1, <3>3 DEF Reject, Run
      <4>2. todo'[r] # <<>>
        BY <4>1
      <4> QED BY <1>1, <3>3, <4>2 DEF Reject, At, GoTo, TypeOK
    <3>4. CASE Cold(r)
      <4>1. todo'[r] = <<"read_aiger">>
        BY <1>1, <3>4 DEF Cold, Run
      <4>2. todo'[r] # <<>>
        BY <4>1
      <4> QED BY <1>1, <3>4, <4>2 DEF Cold, At, GoTo, TypeOK
    <3> QED BY <1>6, <3>1, <3>2, <3>3, <3>4
  <2>2. Written(r)
    BY <1>3, <2>1 DEF Written
  <2> QED BY <1>1, <1>2, <1>4, <2>1, <2>2 DEF OldAig, Written, Settled, At
<1>7. CASE Accepted(r)
  <2>1. pc[r] = "accepted" /\ pc'[r] = "loop" /\ todo'[r] = <<>> /\ file' = file
    BY <1>1, <1>3, <1>7 DEF Accepted, At, GoTo, TypeOK
  <2>2. Written(r) /\ Settled(r)
    BY <1>3, <2>1 DEF Written, Settled, At
  <2> QED BY <1>1, <1>2, <1>4, <2>1, <2>2 DEF OldAig
<1>8. CASE Remove(r)
  <2>1. pc[r] = "remove" /\ pc'[r] = "done"
    BY <1>1, <1>8 DEF Remove, At, GoTo, TypeOK
  <2>2. Settled(r) /\ ~(Written(r)')
    BY <1>3, <2>1 DEF Written, Settled, At
  <2> QED BY <1>1, <1>2, <1>4, <2>1, <2>2 DEF OldAig
<1> QED BY <1>5, <1>6, <1>7, <1>8 DEF Outside

LEMMA NextFaithful ==
  ASSUME Alone
  PROVE  IndInv /\ Faithful /\ [Next]_vars => Faithful'
<1> SUFFICES ASSUME IndInv, Faithful, [Next]_vars, ~lost', NEW r \in Proc PROVE OldAig(r)'
  BY DEF Faithful
<1>1. CASE UNCHANGED vars
  BY <1>1 DEF Faithful, OldAig, Current, UsesSpace, Written, Settled, At, vars, locals, hist
<1>2. ASSUME NEW s \in Proc, Step(s) PROVE OldAig(r)'
  <2>1. s = r
    BY DEF Alone
  <2>2. ~lost
    <3>1. CASE Execute(s)
      <4>1. PICK q : Effect(s, q)
        BY <3>1, ExecuteEffect
      <4>2. UNCHANGED lost \/ lost' = TRUE
        BY <4>1 DEF Effect
      <4> QED BY <4>2
    <3>2. CASE ~Execute(s)
      BY <1>2, <3>2 DEF Step, CommandFails, Call, Move, Accept, Reject, Accepted, Cold, Remove, hist
    <3> QED BY <3>1, <3>2
  <2>3. OldAig(r)
    BY <2>2 DEF Faithful
  <2>4. CASE Execute(r)
    BY <2>2, <2>3, <2>4, ExecuteFaithful
  <2>5. CASE CommandFails(r)
    <3>1. /\ UNCHANGED <<accepted, origin>> /\ pc'[r] = "failed" /\ todo'[r] = <<>>
      BY <2>5 DEF CommandFails, hist, IndInv, TypeOK
    <3> QED BY <2>3, <3>1 DEF OldAig, UsesSpace, Written, Settled, At
  <2>6. CASE Outside(r)
    BY <2>3, <2>6, OutsideFaithful
  <2> QED BY <1>2, <2>1, <2>4, <2>5, <2>6 DEF Step, Outside
<1> QED BY <1>1, <1>2 DEF Next, Finished

\* "preserve old aig" (final.cpp:70), for a process alone in its directory: the
\* network computes what it computed at the start, whatever an older
\* annealing.aig held, as long as no write was lost and no command failed.
THEOREM AlonePreservesOldAig ==
  ASSUME Alone
  PROVE  Spec => []PreservesOldAig
<1>1. Faithful => PreservesOldAig
  BY DEF Faithful, OldAig, PreservesOldAig
<1> QED BY <1>1, InitFaithful, NextFaithful, AlwaysIndInv, PTL DEF Spec

\* For a process alone in its directory, between two moves and at the end the
\* network is exactly the one accepted last.
THEOREM AloneKeepsAccepted ==
  ASSUME Alone
  PROVE  Spec => []KeepsAccepted
<1>1. Faithful => KeepsAccepted
  BY DEF Faithful, OldAig, KeepsAccepted, Settled
<1> QED BY <1>1, InitFaithful, NextFaithful, AlwaysIndInv, PTL DEF Spec
=============================================================================
