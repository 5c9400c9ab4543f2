---- MODULE MCStatusLog ----
(* A small instance of StatusLog: three modules of two lots share rings of two slots. *)
EXTENDS StatusLog

CONSTANTS lotA, lotB
MCLots == {lotA, lotB}
MCModules == {[lot |-> lotA, no |-> 1], [lot |-> lotA, no |-> 2], [lot |-> lotB, no |-> 1]}
====
