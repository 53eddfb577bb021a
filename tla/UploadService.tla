----------------------------- MODULE UploadService -----------------------------
(***************************************************************************)
(* The upload service: it signs an upload path and creates the job row,    *)
(* and it turns a start request into a message.  The message body is kept  *)
(* in `bodies`, indexed by the start request it answers.                   *)
(***************************************************************************)
EXTENDS Broker, Stores

CONSTANT NoBody   \* sentinel: this start request has not been made

\* MergeRequest admits .pdf paths and the format "merge" only.
Body == [job: Jobs, ext: Exts \cup {"pdf"}, fmt: Formats \cup {"merge"}, user: BOOLEAN]

ASSUME NoBodyAssumption == NoBody \notin Body

VARIABLE bodies   \* [start -> Body or NoBody], written once per start

Accepted == {s \in Starts : bodies[s] # NoBody}

FirstTry(s) == [start |-> s, retry |-> 0]

UploadInit == bodies = [s \in Starts |-> NoBody]

\* Mutation: the job id is not fresh, an existing row is written again.
PresignedUrlReused(j, e) ==
    /\ CreateRow(j, e)
    /\ UNCHANGED <<conversion_type, raw, converted, compressed, bodies, brokerVars>>

\* The job id is a fresh uuid: no row has it and no client can have named it.
GeneratePresignedUrl(j, e) ==
    /\ status[j] = "absent"
    /\ \A s \in Accepted : bodies[s].job # j
    /\ CreateRow(j, e)
    /\ UNCHANGED <<conversion_type, raw, converted, compressed, bodies, brokerVars>>

\* The client uploads through the signed URL (to object storage, external).
ClientUpload(j) ==
    /\ upload_url[j] # Null
    /\ raw' = raw \cup {<<j, upload_url[j]>>}
    /\ UNCHANGED <<status, upload_url, conversion_type, converted, compressed,
                   bodies, brokerVars>>

\* publish_job: retry_count 0, routing key "main"; nobody checks the routing.
PublishJob(s, body) ==
    /\ bodies[s] = NoBody
    /\ bodies' = [bodies EXCEPT ![s] = body]
    /\ Publish("main_exchange", "main", FirstTry(s))
    /\ UNCHANGED <<declared, unacked, storeVars>>

\* Job id, path and format come from the request as they are: no row, no
\* upload and no earlier start is looked up.
ConvertFile(s, j, e, f) ==
    PublishJob(s, [job |-> j, ext |-> e, fmt |-> f, user |-> TRUE])

\* The merge message carries no user_id; its paths end in .pdf.
MergeFiles(s, j) ==
    PublishJob(s, [job |-> j, ext |-> "pdf", fmt |-> "merge", user |-> FALSE])

UploadTypeOK == bodies \in [Starts -> Body \cup {NoBody}]
===============================================================================
