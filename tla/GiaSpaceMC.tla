----------------------------- MODULE GiaSpaceMC -----------------------------
(* Designs and sizes for TLC: two designs of one name and the same inputs,  *)
(* and a third with others; sizes that the metrics order in different ways. *)
EXTENDS GiaSpace

SomeDesigns == {[name |-> "x", inputs |-> 3, func |-> 1],
                [name |-> "x", inputs |-> 3, func |-> 2]}

AnotherDesign == SomeDesigns \cup {[name |-> "y", inputs |-> 2, func |-> 3]}

SomeSizes == {[luts |-> 2, edges |-> 5, lutLevels |-> 2, ands |-> 7, levels |-> 4],
              [luts |-> 1, edges |-> 6, lutLevels |-> 3, ands |-> 6, levels |-> 5]}

Addresses == 1 .. 6
===============================================================================
