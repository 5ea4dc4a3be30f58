--------------------------- MODULE MCHasReceiver ---------------------------
(* Instances of HasReceiver for TLC.                                       *)
EXTENDS HasReceiver

(* A row of every message, one that is padding in a message of two, and a  *)
(* parity row; the second MID has messages of one page.                    *)
TwoMids == {1, 2}
SomeRows == [m \in Mids |-> IF m = 1 THEN {1, 3, 4} ELSE {1}]
SomeSizes == [m \in Mids |-> IF m = 1 THEN {2, 3} ELSE {1}]
=============================================================================
