------------------------------- MODULE MCStartup -------------------------------
(***************************************************************************)
(* Instances of the start of the services for TLC.                         *)
(***************************************************************************)
EXTENDS Startup, TLC

CONSTANTS u1, w1, w2

OneUpload == {u1}
OneWorker == {w1}
TwoWorkers == {w1, w2}
===============================================================================
