----------------------------- MODULE UndoHistory -----------------------------
(***************************************************************************)
(* What "undo" and "recall" promise the user of an ABC session, without    *)
(* the linked networks that implement it: the session numbers the networks *)
(* it goes through, keeps the latest of them, and recalling step s makes   *)
(* current again exactly what the session had at step s.                   *)
(***************************************************************************)
EXTENDS Integers

CONSTANTS Net

VARIABLES hist,      \* the saved networks, by step number
          top,       \* the number of the current step
          request    \* the last command: <<"undo">>, <<"recall", s>>, <<"other">>

vars == <<hist, top, request>>

Empty == [s \in {} |-> 0]

Init == hist = Empty /\ top = 1 /\ request = <<"other">>

\* A new step; the oldest saved network may go.
Append(n) ==
    /\ top' = top + 1
    /\ \E S \in {DOMAIN hist, {s \in DOMAIN hist : \E t \in DOMAIN hist : t < s}} :
          hist' = [s \in S \cup {top + 1} |-> IF s = top + 1 THEN n ELSE hist[s]]

\* A new step with nothing saved, the "backup" flag being off.
Restart(n) == top' = top + 1 /\ hist' = [s \in {top + 1} |-> n]

\* The current network changes under its own number.
Overwrite(n) ==
    top \in DOMAIN hist /\ top' = top /\ hist' = [hist EXCEPT ![top] = n]

Clear == hist' = Empty /\ top' = top

Other == /\ request' = <<"other">>
         /\ \/ \E n \in Net : Append(n) \/ Restart(n) \/ Overwrite(n)
            \/ Clear
            \/ UNCHANGED <<hist, top>>

GoBackTo(s) == IF s \in DOMAIN hist \ {top} THEN Append(hist[s])
               ELSE UNCHANGED <<hist, top>>

Undo == request' = <<"undo">> /\ GoBackTo(top - 1)

Recall == /\ request'[1] = "recall"
          /\ LET s == request'[2]
             IN  IF s = 0 /\ hist # Empty THEN Clear ELSE GoBackTo(s)

Next == Other \/ Undo \/ Recall

Spec == Init /\ [][Next]_vars
=============================================================================
