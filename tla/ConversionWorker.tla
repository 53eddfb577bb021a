--------------------------- MODULE ConversionWorker ---------------------------
(***************************************************************************)
(* A conversion worker: the consumer loop and process_job, and the         *)
(* conversions of converter/worker.py cut where another process or a       *)
(* failure can come between: each database commit, each storage call, each *)
(* external converter, each publish and the acknowledgement is a step.     *)
(*                                                                         *)
(* A worker whose connection the broker gave up keeps running (the         *)
(* conversion blocks the event loop, heartbeats included): its copy is     *)
(* redelivered while it still works on it.                                 *)
(***************************************************************************)
EXTENDS UploadService

CONSTANTS
    MaxFaults,  \* faults per behaviour (bounds the run)
    Faults      \* kinds of fault that may occur

FaultKinds == {"crash", "disconnect", "publish", "db", "disk"}

ASSUME FaultsAssumption == MaxFaults \in Nat /\ Faults \subseteq FaultKinds

VARIABLES
    pc,        \* [worker -> where it is in the consumer loop]
    hand,      \* [worker -> the copy its loop is processing]
    stale,     \* [worker -> copies its iterator holds of a connection that is gone]
    finished,  \* starts whose process_job returned (history variable)
    faults     \* faults so far

workerVars == <<pc, hand, stale, finished, faults>>

Steps == {"down", "idle", "dispatch", "lookup", "fetch", "convert", "store",
          "mark", "failed", "settle"}

Working(w) == pc[w] \notin {"down", "idle"}
Attached(w) == unacked[w] # NoMessage
Start(w) == hand[w].start
Request(w) == bodies[Start(w)]
Input(w) == <<Request(w).job, Request(w).ext>>

WorkerInit ==
    /\ pc = [w \in Workers |-> "down"]
    /\ hand = [w \in Workers |-> NoMessage]
    /\ stale = [w \in Workers |-> {}]
    /\ finished = {}
    /\ faults = 0

Goto(w, step) == pc' = [pc EXCEPT ![w] = step]

Fault(kind) ==
    /\ kind \in Faults
    /\ faults < MaxFaults
    /\ faults' = faults + 1

Exit(w) ==
    /\ Goto(w, "down")
    /\ hand' = [hand EXCEPT ![w] = NoMessage]
    /\ stale' = [stale EXCEPT ![w] = {}]

-------------------------------------------------------------------------------
(* Connecting and taking a copy                                            *)

StartWorker(w) ==
    /\ pc[w] = "down"
    /\ DeclareTopology
    /\ Goto(w, "idle")
    /\ UNCHANGED <<hand, stale, finished, faults, ready, unacked, discarded, bodies, storeVars>>

\* Mutation: the copy is acknowledged when it is delivered.
ReceiveAutoAck(w) ==
    \E m \in Message :
        /\ pc[w] = "idle"
        /\ ready["main_queue"][m] > 0
        /\ ready' = [ready EXCEPT !["main_queue"][m] = @ - 1]
        /\ hand' = [hand EXCEPT ![w] = m]
        /\ Goto(w, "dispatch")
        /\ UNCHANGED <<stale, finished, faults, declared, unacked, discarded, bodies, storeVars>>

Receive(w) ==
    \E m \in Message :
        /\ pc[w] = "idle"
        /\ stale[w] = {}
        /\ Deliver(w, m)
        /\ hand' = [hand EXCEPT ![w] = m]
        /\ Goto(w, "dispatch")
        /\ UNCHANGED <<stale, finished, faults, declared, discarded, bodies, storeVars>>

(* The iterator yields what it buffered before the connection was lost     *)
(* ahead of what comes over the new one.                                   *)
ReceiveStale(w) ==
    \E m \in stale[w] :
        /\ pc[w] = "idle"
        /\ hand' = [hand EXCEPT ![w] = m]
        /\ stale' = [stale EXCEPT ![w] = @ \ {m}]
        /\ Goto(w, "dispatch")
        /\ UNCHANGED <<finished, faults, bodies, brokerVars, storeVars>>

\* Mutation: every format is taken for a conversion.
AfterDispatchUnchecked(body) == IF body.user THEN "lookup" ELSE "failed"

(* process_job reads user_id (KeyError for a merge message), then picks    *)
(* the method; merge_pdf is called with an argument too many and an        *)
(* unknown format raises.                                                  *)
AfterDispatch(body) ==
    CASE body.user /\ body.fmt \in Conversions -> "lookup"
      [] body.user /\ body.fmt = "compress"    -> "fetch"
      [] OTHER                                 -> "failed"

Dispatch(w) ==
    /\ pc[w] = "dispatch"
    /\ Goto(w, AfterDispatch(Request(w)))
    /\ UNCHANGED <<hand, stale, finished, faults, bodies, brokerVars, storeVars>>

-------------------------------------------------------------------------------
(* One conversion                                                          *)

\* Mutation: the row is looked up and update_record forgotten.
LookupUnrecorded(w) ==
    /\ pc[w] = "lookup"
    /\ Goto(w, IF status[Request(w).job] = "absent" THEN "failed" ELSE "fetch")
    /\ UNCHANGED <<hand, stale, finished, faults, bodies, brokerVars, storeVars>>

(* get_by_job_id, then update_record(input_url, conversion_type), which    *)
(* commits and reads the row back: the database can fail before the commit *)
(* or after it.                                                            *)
Lookup(w) ==
    /\ pc[w] = "lookup"
    /\ \/ /\ status[Request(w).job] = "absent"
          /\ Goto(w, "failed")
          /\ UNCHANGED <<faults, conversion_type>>
       \/ /\ status[Request(w).job] # "absent"
          /\ UpdateRecord(Request(w).job, Request(w).fmt)
          /\ Goto(w, "fetch")
          /\ UNCHANGED faults
       \/ /\ Fault("db")
          /\ Goto(w, "failed")
          /\ \/ UNCHANGED conversion_type
             \/ /\ status[Request(w).job] # "absent"
                /\ UpdateRecord(Request(w).job, Request(w).fmt)
    /\ UNCHANGED <<hand, stale, finished, bodies, brokerVars,
                   status, upload_url, raw, converted, compressed>>

(* An error before the output exists: the conversions record it in the row *)
(* first, compression has no row to record it in.                          *)
OnError(w) == IF Request(w).fmt \in Conversions THEN "mark" ELSE "failed"

Accepts(fmt) == IF fmt = "compress" THEN "pdf" ELSE InputOf[fmt]

(* Download, then the suffix check, then the input file in a temporary     *)
(* directory: an OSError of these two passes every handler by.             *)
Fetch(w) ==
    /\ pc[w] = "fetch"
    /\ \/ /\ Input(w) \in raw
          /\ Request(w).ext = Accepts(Request(w).fmt)
          /\ Goto(w, "convert")
          /\ UNCHANGED faults
       \/ /\ Goto(w, OnError(w))
          /\ UNCHANGED faults
       \/ /\ Input(w) \in raw
          /\ Fault("disk")
          /\ Goto(w, "failed")
    /\ UNCHANGED <<hand, stale, finished, bodies, brokerVars, storeVars>>

\* Mutation: no converter error is caught.
OnConverterErrorUncaught(fmt) == "failed"

(* LibreOfficeConverter.convert raises on a timeout, a nonzero exit and a  *)
(* missing output, and the callers let that pass; pdf2docx is wrapped.     *)
OnConverterError(fmt) == IF fmt = "docx" THEN "mark" ELSE "failed"

Convert(w) ==
    /\ pc[w] = "convert"
    /\ \/ Goto(w, "store")
       \/ Goto(w, OnConverterError(Request(w).fmt))
    /\ UNCHANGED <<hand, stale, finished, faults, bodies, brokerVars, storeVars>>

(* Upload of the output.  An error can come before or after the object is  *)
(* stored.  A conversion then calls _update_output_url, which the class    *)
(* does not define: the error is caught like an upload error.              *)
StoreConverted(w) ==
    /\ pc[w] = "store"
    /\ Request(w).fmt \in Conversions
    /\ converted' \in {converted, converted \cup {<<Request(w).job, Request(w).fmt>>}}
    /\ Goto(w, "mark")
    /\ UNCHANGED <<hand, stale, finished, faults, bodies, brokerVars,
                   status, upload_url, conversion_type, raw, compressed>>

StoreCompressed(w) ==
    /\ pc[w] = "store"
    /\ Request(w).fmt = "compress"
    /\ \/ /\ compressed' = compressed \cup {Request(w).job}
          /\ finished' = finished \cup {Start(w)}
          /\ Goto(w, "settle")
       \/ /\ compressed' \in {compressed, compressed \cup {Request(w).job}}
          /\ Goto(w, "failed")
          /\ UNCHANGED finished
    /\ UNCHANGED <<hand, stale, faults, bodies, brokerVars,
                   status, upload_url, conversion_type, raw, converted>>

(* update_status(record, failed), then the exception goes on.              *)
Mark(w) ==
    /\ pc[w] = "mark"
    /\ \/ UpdateStatus(Request(w).job, "failed") /\ UNCHANGED faults
       \/ Fault("db") /\ UNCHANGED status
    /\ Goto(w, "failed")
    /\ UNCHANGED <<hand, stale, finished, bodies, brokerVars,
                   upload_url, conversion_type, raw, converted, compressed>>

-------------------------------------------------------------------------------
(* The consumer's exception handler and the end of message.process         *)

NextTry(m) == [m EXCEPT !.retry = @ + 1]

\* Mutation: the copy is acknowledged and no successor published.
HandOffUnpublished(w) ==
    /\ pc[w] = "failed"
    /\ Goto(w, "settle")
    /\ UNCHANGED <<hand, stale, finished, faults, bodies, brokerVars, storeVars>>

\* Mutation: the successor goes to the main queue at once.
HandOffAtOnce(w) ==
    /\ pc[w] = "failed"
    /\ IF hand[w].retry < MaxRetries
          THEN Publish("main_exchange", "main", NextTry(hand[w]))
          ELSE Publish("dlx_exchange", "dead", hand[w])
    /\ Goto(w, "settle")
    /\ UNCHANGED <<hand, stale, finished, faults, declared, unacked, bodies, storeVars>>

\* Mutation: the copy is requeued instead of counted and handed off.
HandOffUncounted(w) ==
    /\ pc[w] = "failed"
    /\ Requeue(w)
    /\ Goto(w, "idle")
    /\ hand' = [hand EXCEPT ![w] = NoMessage]
    /\ UNCHANGED <<stale, finished, faults, bodies, storeVars>>

HandOff(w) ==
    /\ pc[w] = "failed"
    /\ IF hand[w].retry < MaxRetries
          THEN Publish("retry_exchange", "retry", NextTry(hand[w]))
          ELSE Publish("dlx_exchange", "dead", hand[w])
    /\ Goto(w, "settle")
    /\ UNCHANGED <<hand, stale, finished, faults, declared, unacked, bodies, storeVars>>

(* The publish raises inside message.process(requeue=False): the copy is   *)
(* rejected if the broker still counts it as this worker's, and the        *)
(* exception ends the process.                                             *)
HandOffFails(w) ==
    /\ pc[w] = "failed"
    /\ IF Attached(w)
          THEN Reject(w) /\ Fault("publish")
          ELSE UNCHANGED <<ready, discarded, unacked, faults>>
    /\ Exit(w)
    /\ UNCHANGED <<finished, declared, bodies, storeVars>>

\* Mutation: the copy is handed off and then requeued as well.
SettleRequeued(w) ==
    /\ pc[w] = "settle"
    /\ Requeue(w)
    /\ Goto(w, "idle")
    /\ hand' = [hand EXCEPT ![w] = NoMessage]
    /\ UNCHANGED <<stale, finished, faults, bodies, storeVars>>

Settle(w) ==
    /\ pc[w] = "settle"
    /\ Attached(w)
    /\ Ack(w)
    /\ Goto(w, "idle")
    /\ hand' = [hand EXCEPT ![w] = NoMessage]
    /\ UNCHANGED <<stale, finished, faults, declared, ready, discarded, bodies, storeVars>>

(* The acknowledgement goes to a channel that is gone: it is lost, or it   *)
(* raises and ends the process.                                            *)
SettleDetached(w) ==
    /\ pc[w] = "settle"
    /\ ~Attached(w)
    /\ \/ /\ Goto(w, "idle")
          /\ hand' = [hand EXCEPT ![w] = NoMessage]
          /\ UNCHANGED stale
       \/ Exit(w)
    /\ UNCHANGED <<finished, faults, bodies, brokerVars, storeVars>>

-------------------------------------------------------------------------------
(* Faults of the surroundings                                              *)

Crash(w) ==
    /\ pc[w] # "down"
    /\ Fault("crash")
    /\ Exit(w)
    /\ IF Attached(w) THEN Requeue(w) ELSE UNCHANGED brokerVars
    /\ UNCHANGED <<finished, bodies, storeVars>>

(* Missed heartbeats: the broker closes the connection and requeues the    *)
(* copy in hand, and those it had sent ahead of it (no prefetch limit),    *)
(* which stay in the iterator as well.                                     *)
Disconnect(w) ==
    /\ pc[w] # "down"
    /\ Fault("disconnect")
    /\ \E sent \in SUBSET {m \in Message : ready["main_queue"][m] > 0} :
           stale' = [stale EXCEPT ![w] = @ \cup sent]
    /\ IF Attached(w) THEN Requeue(w) ELSE UNCHANGED brokerVars
    /\ UNCHANGED <<pc, hand, finished, bodies, storeVars>>

WorkerStep(w) ==
    \/ Dispatch(w) \/ Lookup(w) \/ Fetch(w) \/ Convert(w)
    \/ StoreConverted(w) \/ StoreCompressed(w) \/ Mark(w)
    \/ HandOff(w) \/ Settle(w) \/ SettleDetached(w)

WorkerTypeOK ==
    /\ pc \in [Workers -> Steps]
    /\ hand \in [Workers -> Message \cup {NoMessage}]
    /\ stale \in [Workers -> SUBSET Message]
    /\ finished \subseteq Starts
    /\ faults \in 0..MaxFaults
===============================================================================
