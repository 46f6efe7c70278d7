---------------------------- MODULE LinearExport -----------------------------
(***************************************************************************)
(* What a BufferedExportSink promises its destination: it is created once, *)
(* takes the segments in order, each once, and becomes final only when it  *)
(* has them all; otherwise it is discarded, or left as a partial one.      *)
(***************************************************************************)
EXTENDS Integers, Sequences

CONSTANT Total   \* segments of the export

VARIABLES
    phase,   \* of the destination
    taken    \* the segments it took

Init == phase = "absent" /\ taken = <<>>

Create == phase = "absent" /\ phase' = "live" /\ UNCHANGED taken

Take ==
    /\ phase = "live" /\ Len(taken) < Total
    /\ taken' = Append(taken, Len(taken) + 1)
    /\ UNCHANGED phase

Finalize == phase = "live" /\ Len(taken) = Total /\ phase' = "final" /\ UNCHANGED taken

GiveUp == phase \in {"absent", "live"} /\ phase' \in {"discarded", "partial"} /\ UNCHANGED taken

Next == Create \/ Take \/ Finalize \/ GiveUp

Spec == Init /\ [][Next]_<<phase, taken>>
==============================================================================
