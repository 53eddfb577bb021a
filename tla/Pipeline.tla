------------------------------- MODULE Pipeline -------------------------------
(***************************************************************************)
(* The conversion pipeline: clients, the upload service, the broker, the   *)
(* workers, the jobs table and the buckets running together, with worker   *)
(* crashes, connections lost under a running conversion, failing publishes *)
(* and failing commits.                                                    *)
(***************************************************************************)
EXTENDS ConversionWorker, DownloadService, FiniteSets

vars == <<workerVars, bodies, brokerVars, storeVars>>

Init == BrokerInit /\ StoresInit /\ UploadInit /\ WorkerInit

Client ==
    /\ \/ \E j \in Jobs, e \in Exts : GeneratePresignedUrl(j, e)
       \/ \E j \in Jobs : ClientUpload(j)
       \/ \E s \in Starts, j \in Jobs, e \in Exts, f \in Formats : ConvertFile(s, j, e, f)
       \/ \E s \in Starts, j \in Jobs : MergeFiles(s, j)
    /\ UNCHANGED workerVars

RetryTimeToLive == (\E m \in Message : Expire(m)) /\ UNCHANGED <<workerVars, bodies, storeVars>>

Worker(w) == StartWorker(w) \/ Receive(w) \/ ReceiveStale(w) \/ WorkerStep(w)

Failure(w) == HandOffFails(w) \/ Crash(w) \/ Disconnect(w)

Next == Client \/ RetryTimeToLive \/ \E w \in Workers : Worker(w) \/ Failure(w)

Spec == Init /\ [][Next]_vars

(***************************************************************************)
(* A worker process that can take a step of its loop takes one (its calls  *)
(* have timeouts or return), the broker delivers to an idle consumer and   *)
(* expires the retry queue.  Nothing is assumed of the clients, and        *)
(* nothing of the failures.                                                *)
(***************************************************************************)
Fairness ==
    /\ \A w \in Workers : WF_vars(Worker(w))
    /\ WF_vars(RetryTimeToLive)

FairSpec == Spec /\ Fairness

-------------------------------------------------------------------------------
(* Where the copies of a start request are                                 *)

CopyIn(queue, s) == \E n \in 0..MaxRetries : ready[queue][[start |-> s, retry |-> n]] > 0

Dropped(s) == \E n \in 0..MaxRetries : [start |-> s, retry |-> n] \in discarded

HeldBy(w, s) == hand[w] # NoMessage /\ Start(w) = s

Buffered(w, s) == \E m \in stale[w] : m.start = s

Pending(s) == CopyIn("main_queue", s) \/ \E w \in Workers : HeldBy(w, s) \/ Buffered(w, s)

TypeOK == BrokerTypeOK /\ StoresTypeOK /\ UploadTypeOK /\ WorkerTypeOK

(***************************************************************************)
(* An accepted request is never forgotten: it is in progress, or finished, *)
(* or a copy of it waits in the retry queue or the dead letter queue, or   *)
(* the broker dropped a copy of it.  (publish_job, the acknowledgement     *)
(* after the hand-off in start_consumer, redelivery.)                      *)
(***************************************************************************)
NothingForgotten ==
    \A s \in Accepted :
        \/ Pending(s)
        \/ s \in finished
        \/ CopyIn("retry_queue", s) \/ CopyIn("dead_letter_queue", s)
        \/ Dropped(s)

(***************************************************************************)
(* A request has one live delivery: at most one copy of it is in the main  *)
(* queue or counted as delivered to a worker, so that two workers process  *)
(* the same request only when the broker has given one of them up.         *)
(***************************************************************************)
LiveDeliveries(s) ==
    {w \in Workers : Attached(w) /\ unacked[w].start = s}

OneDelivery ==
    \A s \in Starts :
        /\ \A n \in 0..MaxRetries :
              ready["main_queue"][[start |-> s, retry |-> n]] <= 1
        /\ CopyIn("main_queue", s) => LiveDeliveries(s) = {}
        /\ \A v, w \in LiveDeliveries(s) : v = w

\* The request was handed to the retry queue or the dead letter queue.
HandedOff(s) ==
    \/ CopyIn("retry_queue", s) \/ CopyIn("dead_letter_queue", s)
    \/ \E n \in 1..MaxRetries : [start |-> s, retry |-> n] \in discarded

(***************************************************************************)
(* An object in the converted bucket belongs to a job whose row names a    *)
(* conversion, so the download service looks for it in that bucket.        *)
(***************************************************************************)
ConvertedHasType ==
    \A o \in converted : status[o[1]] # "absent" /\ Bucket(o[1]) = "converted"

(***************************************************************************)
(* Duplicates are paid for by faults: the copies of a request waiting in   *)
(* any queue and those the workers may still hand off, in hand or buffered *)
(* of a lost connection, are never more than one plus the number of        *)
(* faults.                                                                 *)
(***************************************************************************)
MayHandOff(s) ==
    {<<w, "hand">> : w \in {v \in Workers : HeldBy(v, s) /\ pc[v] # "settle"}}
        \cup {<<w, "buffer">> : w \in {v \in Workers : Buffered(v, s)}}

\* The copies of a request in the queues, those of one kind numbered from 1.
Copies(queues, s) ==
    UNION {{<<q, m, n>> : n \in 1..queues[q][m]} : q \in Queues, m \in {c \in Message : c.start = s}}

DuplicatesBounded ==
    \A s \in Starts : Cardinality(Copies(ready, s)) + Cardinality(MayHandOff(s)) <= 1 + faults

-------------------------------------------------------------------------------
(* The pipeline delivers start requests as JobDelivery says                *)

PhaseOf(s) ==
    IF s \notin Accepted THEN "unsent"
    ELSE IF Pending(s) THEN "pending"
    ELSE IF s \in finished THEN "done"
    ELSE IF CopyIn("retry_queue", s) THEN "parked"
    ELSE IF CopyIn("dead_letter_queue", s) THEN "dead"
    ELSE IF Dropped(s) THEN "lost"
    ELSE "forgotten"

Delivery == INSTANCE JobDelivery WITH phase <- [s \in Starts |-> PhaseOf(s)]

(***************************************************************************)
(* Every step of workers, clients, broker and failures moves each request  *)
(* only as the delivery of a request allows, and a request that was        *)
(* finished, dead-lettered or lost stays so.                               *)
(***************************************************************************)
ImplementsDelivery == Delivery!DSpec

(***************************************************************************)
(* Without faults an accepted request does not stay in progress.           *)
(***************************************************************************)
EverySettles == Delivery!EverySettles

(***************************************************************************)
(* Without faults, a pdf-to-docx request that the broker routed to the     *)
(* workers brings its job out of "processing".                             *)
(***************************************************************************)
DocxReachesTerminal ==
    \A s \in Starts :
        (s \in Accepted /\ bodies[s].fmt = "docx" /\ Pending(s))
            ~> (s \in Accepted /\ status[bodies[s].job] # "processing")
===============================================================================
