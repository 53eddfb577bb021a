---------------------------- MODULE PipelineClaims ----------------------------
(***************************************************************************)
(* Statements of the repository about the pipeline that its code does not  *)
(* keep.  Each is checked by a run of its own, without any fault, that     *)
(* ends in a counterexample.                                               *)
(***************************************************************************)
EXTENDS MCPipeline

(***************************************************************************)
(* "retry {job_id} ({retry_count})" in the consumer's log: the copy that   *)
(* was published for a retry is not dropped.                               *)
(***************************************************************************)
RetryCopiesKept == \A m \in discarded : m.retry = 0

(***************************************************************************)
(* "Conversion job queued": a request that was accepted is in the system.  *)
(***************************************************************************)
AcceptedIsQueued == \A s \in Accepted : FirstTry(s) \notin discarded

(***************************************************************************)
(* "Worker picks up job, converts the file, saves result", "Status service *)
(* updates job state": a saved conversion whose request is over is         *)
(* reported as completed.                                                  *)
(***************************************************************************)
SavedIsCompleted ==
    \A s \in Accepted :
        <<bodies[s].job, bodies[s].fmt>> \in converted /\ ~Pending(s)
            => status[bodies[s].job] = "completed"
===============================================================================
