--------------------------- MODULE InspectionLine ---------------------------
(***************************************************************************)
(* What a camera's inspection pipeline promises the handler, with none of  *)
(* its buffers, queues and threads: modules are accepted one by one, and a *)
(* verdict is reported for each of them in the order they were accepted.   *)
(* A module may be reported a second time before the next one is reported: *)
(* as a matching failure whatever it was reported as before, unless it has *)
(* a failed measurement, which goes before any other verdict.              *)
(***************************************************************************)
EXTENDS Integers, Sequences

CONSTANTS
  Modules,
  Verdicts,
  FaiFails    \* the modules with a failed measurement

VARIABLES
  accepted,   \* the modules accepted for inspection, in order
  reported    \* the verdicts reported for each module

Init ==
  /\ accepted = <<>>
  /\ reported = [m \in Modules |-> <<>>]

Accept(m) ==
  /\ \A i \in 1 .. Len(accepted) : accepted[i] # m
  /\ accepted' = Append(accepted, m)
  /\ UNCHANGED reported

\* All modules before the i-th accepted one have been reported.
Reached(i) == \A j \in 1 .. i - 1 : reported[accepted[j]] # <<>>

\* What is reported of module m when v was found.
Sent(m, v) == IF m \in FaiFails THEN "FAI" ELSE v

Report(i, v) ==
  /\ Reached(i)
  /\ reported[accepted[i]] = <<>>
  /\ reported' = [reported EXCEPT ![accepted[i]] = <<Sent(accepted[i], v)>>]
  /\ UNCHANGED accepted

\* The module reported last is reported again, once.
ReportAgain(i) ==
  /\ Reached(i)
  /\ Len(reported[accepted[i]]) = 1
  /\ \A j \in i + 1 .. Len(accepted) : reported[accepted[j]] = <<>>
  /\ reported' = [reported EXCEPT
                    ![accepted[i]] = Append(@, Sent(accepted[i], "MC"))]
  /\ UNCHANGED accepted

Next ==
  \/ \E m \in Modules : Accept(m)
  \/ \E i \in 1 .. Len(accepted) :
       ReportAgain(i) \/ \E v \in Verdicts : Report(i, v)

Spec == Init /\ [][Next]_<<accepted, reported>>

=============================================================================
