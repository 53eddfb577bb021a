---------------------------- MODULE MCWorkerSessions ----------------------------
(***************************************************************************)
(* Instances of the workers' sessions for TLC: a pool of one connection,   *)
(* which a single job can exhaust, and MAX_RETRIES 0, so that the first    *)
(* attempt is the last.                                                    *)
(***************************************************************************)
EXTENDS WorkerSessions, TLC

CONSTANTS j1, w1, w2, s1, s2

OneJob == {j1}
TwoWorkers == {w1, w2}
TwoStarts == {s1, s2}

PdfOnly == {"pdf"}
ThreeFormats == {"docx", "pptx", "compress"}

Symmetry == Permutations(TwoWorkers) \cup Permutations(TwoStarts)
===============================================================================
