------------------------------ MODULE MCPipeline ------------------------------
(***************************************************************************)
(* Instances of the pipeline for TLC.  MAX_RETRIES is 3 as in the          *)
(* consumer.                                                               *)
(***************************************************************************)
EXTENDS Pipeline, TLC

CONSTANTS j1, w1, w2, s1, s2

OneJob == {j1}
OneWorker == {w1}
TwoWorkers == {w1, w2}
OneStart == {s1}
TwoStarts == {s1, s2}

Extensions == {"pdf", "docx"}
AllFormats == {"docx", "pptx", "pdf", "compress", "merge", "odt"}
TwoFormats == {"docx", "compress"}
PdfOnly == {"pdf"}
===============================================================================
