---------------------------- MODULE BatchPromise ----------------------------
(***************************************************************************)
(* What batch inspection promises, with none of its threads, copy tasks    *)
(* and buffers: a module that is accepted has its batches inspected one    *)
(* after the other, none before the one it follows, and it is judged once, *)
(* in the order of acceptance.  It passes if every batch was inspected, or *)
(* if one was and a grab of the module has failed; not if it was left out  *)
(* for any other reason.                                                   *)
(***************************************************************************)
EXTENDS Integers, Sequences

CONSTANTS Modules, NumBatches

VARIABLES
  accepted,    \* the modules accepted for inspection, in order
  failed,      \* the modules of which a grab is known to have failed
  inspected,   \* the batches inspected of each module
  judged       \* the verdicts given: [module, passed], in order

Init ==
  /\ accepted = <<>>
  /\ failed = {}
  /\ inspected = [m \in Modules |-> {}]
  /\ judged = <<>>

Accept(m) ==
  /\ \A i \in 1 .. Len(accepted) : accepted[i] # m
  /\ accepted' = Append(accepted, m)
  /\ UNCHANGED <<inspected, judged>>

\* The next batch of an accepted module that has not been judged.
InspectBatch(i) ==
  /\ i > Len(judged)
  /\ \E b \in 0 .. NumBatches - 1 :
       /\ inspected[accepted[i]] = 0 .. b - 1
       /\ inspected' = [inspected EXCEPT ![accepted[i]] = 0 .. b]
  /\ UNCHANGED <<accepted, judged>>

Judge(passed) ==
  LET i == Len(judged) + 1
      m == accepted[i]
  IN
  /\ i <= Len(accepted)
  /\ passed => \/ inspected[m] = 0 .. NumBatches - 1
               \/ inspected[m] # {} /\ m \in failed
  /\ judged' = Append(judged, [module |-> m, passed |-> passed])
  /\ UNCHANGED <<accepted, inspected>>

\* A grab may turn out to have failed at any moment, and stays failed.
Next ==
  /\ failed \subseteq failed'
  /\ \/ \E m \in Modules : Accept(m)
     \/ \E i \in 1 .. Len(accepted) : InspectBatch(i)
     \/ \E passed \in BOOLEAN : Judge(passed)
     \/ UNCHANGED <<accepted, inspected, judged>>

Spec == Init /\ [][Next]_<<accepted, failed, inspected, judged>>
=============================================================================
