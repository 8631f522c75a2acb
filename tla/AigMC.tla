-------------------------------- MODULE AigMC --------------------------------
(* Networks for TLC, over the inputs a, b and c: literals 2, 4 and 6, their *)
(* complements the odd numbers behind them, and from 8 on the ANDs in the  *)
(* order of the list.                                                      *)
EXTENDS Aig

\* a&b three times over, a&b&c from two of them, and a&b&!c from three pairs: one
\* replacement makes the outputs equal one after the other, and a second finds
\* the fanouts of its node in an order that is not the one of the Ids.
Skew == [ands |-> <<<<2, 4>>, <<2, 8>>, <<4, 8>>, <<6, 10>>, <<12, 15>>,
                    <<8, 15>>, <<6, 8>>, <<12, 21>>>>,
         pos |-> <<16, 18, 22>>]

\* a EXOR b, twice, from a & !b written in two ways, and an AND that is 0 under
\* one that is c.
Exor == [ands |-> <<<<2, 5>>, <<3, 4>>, <<9, 11>>, <<2, 4>>, <<2, 15>>, <<17, 11>>,
                    <<8, 14>>, <<6, 21>>>>,
         pos |-> <<12, 19, 22>>]

\* The conjunction of the inputs as a chain from the left and from the right,
\* under nodes that keep the lower one up.
Chains == [ands |-> <<<<2, 4>>, <<6, 8>>, <<4, 6>>, <<2, 12>>, <<10, 8>>, <<5, 11>>>>,
           pos |-> <<15, 16, 18>>]

\* a & !b written with a node h that is !b, so that an EXOR shows only when h
\* gives way to the input.
Hidden == [ands |-> <<<<2, 4>>, <<3, 4>>, <<9, 11>>, <<2, 12>>, <<11, 15>>, <<6, 17>>>>,
           pos |-> <<16, 18>>]

\* An AND of a node and a fanout's fanout of it, which is marked when its level
\* falls.
Reconverge == [ands |-> <<<<2, 4>>, <<2, 8>>, <<6, 10>>, <<2, 13>>, <<10, 14>>, <<4, 16>>>>,
               pos |-> <<18>>]

\* An output that is 0 for every input.
Zero == {[ands |-> <<<<2, 4>>, <<3, 6>>, <<8, 10>>, <<6, 10>>>>, pos |-> <<12, 14>>]}

\* a&b&c at level 2, twice, and at level 3; the second one carries an output at
\* level 3.
Deep == {[ands |-> <<<<4, 6>>, <<2, 8>>, <<2, 4>>, <<6, 12>>, <<2, 15>>,
                     <<2, 6>>, <<4, 18>>, <<2, 20>>>>,
          pos |-> <<10, 16, 22>>]}

\* a&b&c from the left, and b&!c: small enough to have a node replaced by two
\* ANDs that are not there, b&c and a&(b&c).
Short == [ands |-> <<<<2, 4>>, <<6, 8>>, <<4, 7>>>>, pos |-> <<10, 13>>]

Networks == {Skew, Exor, Chains, Hidden, Reconverge, Short} \cup Zero
==============================================================================
