---------------------------- MODULE MCBatchSplit ----------------------------
(* Four positions in a row, one step apart; at the first one another axis  *)
(* stands elsewhere, one that does not part batches.  The second lies near *)
(* zero.  The scan starts from elsewhere.                                  *)
EXTENDS BatchSplit

TaughtPlaces == {[pos |-> p, rest |-> IF p = 0 THEN 2 ELSE 0] : p \in 0 .. 3}
ParkedAway   == [pos |-> 9, rest |-> 9]
=============================================================================
