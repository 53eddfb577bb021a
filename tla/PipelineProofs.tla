---------------------------- MODULE PipelineProofs ----------------------------
(***************************************************************************)
(* Theorems about the conversion pipeline, for any number of jobs,         *)
(* workers, start requests, retries and faults.                            *)
(***************************************************************************)
EXTENDS Pipeline, FiniteSetTheorems, TLAPS

USE RetriesAssumption, NoMessageAssumption, NullAssumption, NoBodyAssumption,
    FaultsAssumption

(***************************************************************************)
(* What a worker holds: nothing when it is down or idle, otherwise a copy  *)
(* of an accepted request, which is the one the broker counts as its own   *)
(* unless the broker gave it up.  What it has buffered is accepted too.    *)
(***************************************************************************)
HandsOK ==
    \A w \in Workers :
        /\ ~Working(w) <=> hand[w] = NoMessage
        /\ Attached(w) => unacked[w] = hand[w]
        /\ hand[w] # NoMessage => Start(w) \in Accepted
        /\ \A m \in stale[w] : m.start \in Accepted
        /\ pc[w] \in {"lookup", "mark"} => Request(w).fmt \in Conversions

CopiesOK == \A q \in Queues, m \in Message : ready[q][m] > 0 => m.start \in Accepted

TypeInv == TypeOK /\ HandsOK /\ CopiesOK

(***************************************************************************)
(* The invariants are proved of the pipeline's steps and of one more: the  *)
(* connection pool of WorkerSessions refuses the lookup of a row.          *)
(***************************************************************************)
LookupRefused(w) ==
    /\ pc[w] = "lookup"
    /\ Goto(w, "failed")
    /\ UNCHANGED <<hand, stale, finished, faults, bodies, brokerVars, storeVars>>

WideNext == Next \/ \E w \in Workers : LookupRefused(w)

LEMMA NextIsWide == [Next]_vars => [WideNext]_vars
  BY DEF WideNext

(***************************************************************************)
(* A copy published by PublishOnto keeps the broker's state well typed.    *)
(***************************************************************************)
LEMMA PublishType ==
    ASSUME NEW base \in [Queues -> [Message -> Nat]], NEW exchange, NEW key,
           NEW m \in Message, discarded \subseteq Message,
           PublishOnto(base, exchange, key, m)
    PROVE  /\ ready' \in [Queues -> [Message -> Nat]]
           /\ discarded' \subseteq Message
           /\ \A q \in Queues, n \in Message :
                 ready'[q][n] > 0 => base[q][n] > 0 \/ n = m
<1>1. ready' \in [Queues -> [Message -> Nat]]
  BY DEF PublishOnto
<1>2. discarded' \subseteq Message
  BY DEF PublishOnto
<1>3. ASSUME NEW q \in Queues, NEW n \in Message, ready'[q][n] > 0
      PROVE  base[q][n] > 0 \/ n = m
  BY <1>3 DEF PublishOnto
<1>4. QED
  BY <1>1, <1>2, <1>3

LEMMA InitType == Init => TypeInv
<1> SUFFICES ASSUME Init PROVE TypeInv
  OBVIOUS
<1> USE DEF Init, BrokerInit, StoresInit, UploadInit, WorkerInit
<1>1. BrokerTypeOK
  BY DEF BrokerTypeOK, Queues
<1>2. StoresTypeOK
  BY DEF StoresTypeOK
<1>3. UploadTypeOK
  BY DEF UploadTypeOK
<1>4. WorkerTypeOK
  BY DEF WorkerTypeOK, Steps
<1>5. HandsOK
  BY DEF HandsOK, Working, Attached
<1>6. CopiesOK
  BY DEF CopiesOK
<1>7. QED
  BY <1>1, <1>2, <1>3, <1>4, <1>5, <1>6 DEF TypeInv, TypeOK

-------------------------------------------------------------------------------
LEMMA StepType == TypeInv /\ [WideNext]_vars => TypeInv'
<1> SUFFICES ASSUME TypeInv, [WideNext]_vars PROVE TypeInv'
  OBVIOUS
<1> USE DEF TypeInv, TypeOK, BrokerTypeOK, StoresTypeOK, UploadTypeOK, WorkerTypeOK,
            brokerVars, storeVars, workerVars
<1>1. ASSUME NEW j \in Jobs, NEW e \in Exts, GeneratePresignedUrl(j, e), UNCHANGED workerVars
      PROVE  TypeInv'
  BY <1>1 DEF GeneratePresignedUrl, CreateRow, HandsOK, CopiesOK, Accepted, Start,
              Request, Working, Attached, JobStatus
<1>2. ASSUME NEW j \in Jobs, ClientUpload(j), UNCHANGED workerVars
      PROVE  TypeInv'
  BY <1>2 DEF ClientUpload, HandsOK, CopiesOK, Accepted, Start, Request, Working, Attached
<1>3. ASSUME NEW s \in Starts, NEW body \in Body, PublishJob(s, body), UNCHANGED workerVars
      PROVE  TypeInv'
  <2> FirstTry(s) \in Message
    BY DEF FirstTry, Message
  <2>1. /\ ready' \in [Queues -> [Message -> Nat]]
        /\ discarded' \subseteq Message
        /\ \A q \in Queues, n \in Message : ready'[q][n] > 0 => ready[q][n] > 0 \/ n = FirstTry(s)
    BY <1>3, PublishType DEF PublishJob, Publish
  <2>2. bodies' \in [Starts -> Body \cup {NoBody}] /\ Accepted' = Accepted \cup {s}
    BY <1>3 DEF PublishJob, Accepted
  <2>3. CopiesOK'
    BY <2>1, <2>2 DEF CopiesOK, FirstTry
  <2>4. HandsOK'
    BY <1>3, <2>2 DEF HandsOK, PublishJob, Accepted, Start, Request, Working, Attached
  <2>5. QED
    BY <1>3, <2>1, <2>2, <2>3, <2>4 DEF PublishJob
<1>4. ASSUME NEW m \in Message, Expire(m), UNCHANGED <<workerVars, bodies, storeVars>>
      PROVE  TypeInv'
  <2> DEFINE base == [ready EXCEPT !["retry_queue"][m] = @ - 1]
  <2>1. base \in [Queues -> [Message -> Nat]] /\ \A q \in Queues, n \in Message : base[q][n] <= ready[q][n]
    BY <1>4 DEF Expire, Queues
  <2>2. /\ ready' \in [Queues -> [Message -> Nat]]
        /\ discarded' \subseteq Message
        /\ \A q \in Queues, n \in Message : ready'[q][n] > 0 => base[q][n] > 0 \/ n = m
    <3>1. PublishOnto(base, DeadLetterExchange["retry_queue"], KeyOf["retry_queue"], m)
      BY <1>4 DEF Expire, DeadLetterFrom
    <3>2. discarded \subseteq Message /\ base \in [Queues -> [Message -> Nat]]
      BY <2>1
    <3> HIDE DEF base, TypeInv, TypeOK, BrokerTypeOK, StoresTypeOK, UploadTypeOK, WorkerTypeOK
    <3>3. QED
      BY <3>1, <3>2, PublishType, SMTT(30)
  <2>3. m.start \in Accepted
    BY <1>4 DEF Expire, CopiesOK, Queues
  <2>4. CopiesOK'
    <3>1. Accepted' = Accepted
      BY <1>4 DEF Accepted
    <3>2. ASSUME NEW q \in Queues, NEW n \in Message, base[q][n] > 0
          PROVE  n.start \in Accepted
      <4> HIDE DEF base
      <4>1. ready[q][n] > 0
        <5>1. base[q][n] \in Nat /\ ready[q][n] \in Nat /\ base[q][n] <= ready[q][n]
          BY <2>1
        <5>2. QED
          BY <3>2, <5>1
      <4>2. QED
        BY <4>1, Zenon DEF CopiesOK
    <3> HIDE DEF base
    <3>3. QED
      BY <2>2, <2>3, <3>1, <3>2, Zenon DEF CopiesOK
  <2>5. HandsOK'
    BY <1>4 DEF Expire, HandsOK, Accepted, Start, Request, Working, Attached
  <2>6. QED
    BY <1>4, <2>2, <2>4, <2>5 DEF Expire
<1>5. ASSUME NEW w \in Workers, StartWorker(w)
      PROVE  TypeInv'
  BY <1>5 DEF StartWorker, Goto, Steps, HandsOK, CopiesOK, Accepted, Start, Request, Working, Attached, DeclareTopology
<1>6. ASSUME NEW w \in Workers, Receive(w)
      PROVE  TypeInv'
  <2> PICK m \in Message : /\ Deliver(w, m)
                           /\ pc[w] = "idle"
                           /\ hand' = [hand EXCEPT ![w] = m]
                           /\ Goto(w, "dispatch")
                           /\ UNCHANGED <<stale, finished, faults, declared, discarded, bodies, storeVars>>
    BY <1>6 DEF Receive
  <2>1. /\ ready' \in [Queues -> [Message -> Nat]]
        /\ \A q \in Queues, n \in Message : ready'[q][n] <= ready[q][n]
    BY DEF Deliver, Queues
  <2>2. m.start \in Accepted
    BY DEF Deliver, CopiesOK, Queues
  <2>3. CopiesOK'
    BY <2>1 DEF CopiesOK, Accepted
  <2>4. HandsOK'
    BY <2>2 DEF Deliver, Goto, HandsOK, Accepted, Start, Request, Working, Attached
  <2>5. QED
    BY <2>1, <2>3, <2>4 DEF Deliver, Goto, Steps
<1>7. ASSUME NEW w \in Workers, Dispatch(w)
      PROVE  TypeInv'
  BY <1>7 DEF Dispatch, Goto, Steps, HandsOK, CopiesOK, Accepted, Start, Request, Working, Attached, AfterDispatch
<1>8. ASSUME NEW w \in Workers, Lookup(w)
      PROVE  TypeInv'
  <2>1. conversion_type' \in [Jobs -> Conversions \cup {Null}]
    <3>1. Request(w).fmt \in Conversions
      BY <1>8 DEF Lookup, HandsOK
    <3>2. QED
      BY <1>8, <3>1 DEF Lookup, UpdateRecord
  <2>2. faults' \in 0..MaxFaults
    BY <1>8 DEF Lookup, Fault
  <2>3. pc' \in [Workers -> Steps]
    BY <1>8 DEF Lookup, Goto, Steps
  <2>4. HandsOK'
    BY <1>8 DEF Lookup, Goto, Steps, HandsOK, Accepted, Start, Request, Working, Attached
  <2>5. QED
    BY <1>8, <2>1, <2>2, <2>3, <2>4 DEF Lookup, CopiesOK, Accepted
<1>9. ASSUME NEW w \in Workers, Fetch(w)
      PROVE  TypeInv'
  BY <1>9 DEF Fetch, Fault, Goto, Steps, HandsOK, CopiesOK, Accepted, Start, Request, Working, Attached, OnError
<1>10. ASSUME NEW w \in Workers, Convert(w)
      PROVE  TypeInv'
  BY <1>10 DEF Convert, Goto, Steps, HandsOK, CopiesOK, Accepted, Start, Request, Working, Attached, OnConverterError, Conversions
<1>11. ASSUME NEW w \in Workers, StoreConverted(w)
      PROVE  TypeInv'
  BY <1>11 DEF StoreConverted, Goto, Steps, HandsOK, CopiesOK, Accepted, Start, Request, Working, Attached, Body, Message
<1>12. ASSUME NEW w \in Workers, StoreCompressed(w)
      PROVE  TypeInv'
  BY <1>12 DEF StoreCompressed, Goto, Steps, HandsOK, CopiesOK, Accepted, Start, Request, Working, Attached, Body, Message
<1>13. ASSUME NEW w \in Workers, Mark(w)
      PROVE  TypeInv'
  BY <1>13 DEF Mark, Goto, Steps, HandsOK, CopiesOK, Accepted, Start, Request, Working, Attached, Fault, UpdateStatus, JobStatus, Body, Message
<1>14. ASSUME NEW w \in Workers, HandOff(w)
      PROVE  TypeInv'
  <2>1. hand[w] \in Message /\ hand[w].start \in Accepted
    BY <1>14 DEF HandOff, HandsOK, Working, Start
  <2>2. /\ ready' \in [Queues -> [Message -> Nat]]
        /\ discarded' \subseteq Message
        /\ \A q \in Queues, n \in Message :
              ready'[q][n] > 0 => ready[q][n] > 0 \/ n.start = hand[w].start
    <3>1. CASE hand[w].retry < MaxRetries
      <4>1. NextTry(hand[w]) \in Message /\ NextTry(hand[w]).start = hand[w].start
        BY <2>1, <3>1 DEF NextTry, Message
      <4>2. PublishOnto(ready, "retry_exchange", "retry", NextTry(hand[w]))
        BY <1>14, <3>1 DEF HandOff, Publish
      <4>3. QED
        BY <4>1, <4>2, PublishType
    <3>2. CASE ~(hand[w].retry < MaxRetries)
      <4>1. PublishOnto(ready, "dlx_exchange", "dead", hand[w])
        BY <1>14, <3>2 DEF HandOff, Publish
      <4>2. QED
        BY <2>1, <4>1, PublishType
    <3>3. QED
      BY <3>1, <3>2
  <2>4. CopiesOK'
    BY <1>14, <2>1, <2>2 DEF HandOff, CopiesOK, Accepted
  <2>5. HandsOK'
    BY <1>14 DEF HandOff, Goto, Steps, HandsOK, Accepted, Start, Request, Working, Attached
  <2>6. QED
    BY <1>14, <2>2, <2>4, <2>5 DEF HandOff, Goto, Steps
<1>15. ASSUME NEW w \in Workers, Settle(w)
      PROVE  TypeInv'
  BY <1>15 DEF Settle, Ack, Goto, Steps, CopiesOK, HandsOK, Accepted, Start, Request, Working, Attached
<1>16. ASSUME NEW w \in Workers, SettleDetached(w)
      PROVE  TypeInv'
  <2>1. /\ pc[w] = "settle" /\ ~Attached(w)
        /\ Goto(w, "idle") \/ Goto(w, "down")
        /\ hand' = [hand EXCEPT ![w] = NoMessage]
        /\ stale' = stale \/ stale' = [stale EXCEPT ![w] = {}]
        /\ UNCHANGED <<finished, faults, bodies, brokerVars, storeVars>>
    BY <1>16 DEF SettleDetached, Exit
  <2>2. /\ stale' \in [Workers -> SUBSET Message]
        /\ \A v \in Workers : stale'[v] \subseteq stale[v]
    BY <2>1
  <2>3. HandsOK'
    BY <2>1, <2>2 DEF Goto, HandsOK, Accepted, Start, Request, Working, Attached
  <2>4. QED
    BY <2>1, <2>2, <2>3 DEF Goto, Steps, CopiesOK, Accepted
<1>17. ASSUME NEW w \in Workers, HandOffFails(w)
      PROVE  TypeInv'
  <2>1. CASE Attached(w)
    <3> unacked[w] \in Message /\ unacked[w].start \in Accepted
      BY <2>1 DEF Attached, HandsOK, Start
    <3>1. PublishOnto(ready, "retry_exchange", "main", unacked[w])
      BY <1>17, <2>1 DEF HandOffFails, Reject, DeadLetterFrom, DeadLetterExchange, KeyOf
    <3>2. /\ ready' \in [Queues -> [Message -> Nat]]
          /\ discarded' \subseteq Message
          /\ \A q \in Queues, n \in Message :
                ready'[q][n] > 0 => ready[q][n] > 0 \/ n = unacked[w]
      BY <3>1, PublishType
    <3>3. CopiesOK'
      BY <1>17, <3>2 DEF HandOffFails, CopiesOK, Accepted
    <3>4. HandsOK'
      BY <1>17, <2>1 DEF HandOffFails, Exit, Reject, Ack, Goto, Steps, HandsOK, Accepted, Start, Request, Working, Attached
    <3>5. QED
      BY <1>17, <2>1, <3>2, <3>3, <3>4
         DEF HandOffFails, Exit, Reject, Ack, Goto, Steps, Fault
  <2>2. CASE ~Attached(w)
    BY <1>17, <2>2 DEF HandOffFails, Exit, Goto, Steps, CopiesOK, HandsOK, Accepted, Start, Request, Working, Attached
  <2>3. QED
    BY <2>1, <2>2
<1>18. ASSUME NEW w \in Workers, Crash(w)
      PROVE  TypeInv'
  <2>1. CASE Attached(w)
    <3> unacked[w] \in Message /\ unacked[w].start \in Accepted
      BY <2>1 DEF Attached, HandsOK, Start
    <3>1. /\ ready' \in [Queues -> [Message -> Nat]]
          /\ \A q \in Queues, n \in Message :
                ready'[q][n] > 0 => ready[q][n] > 0 \/ n = unacked[w]
      BY <1>18, <2>1 DEF Crash, Requeue, Queues
    <3>2. CopiesOK'
      BY <1>18, <3>1 DEF Crash, CopiesOK, Accepted
    <3>3. HandsOK'
      BY <1>18, <2>1 DEF Crash, Exit, Requeue, Ack, Goto, Steps, HandsOK, Accepted, Start, Request, Working, Attached
    <3>4. QED
      BY <1>18, <2>1, <3>1, <3>2, <3>3 DEF Crash, Exit, Requeue, Ack, Goto, Steps, Fault
  <2>2. CASE ~Attached(w)
    BY <1>18, <2>2 DEF Crash, Exit, Fault, Goto, Steps, CopiesOK, HandsOK, Accepted, Start, Request, Working, Attached
  <2>3. QED
    BY <2>1, <2>2
<1>19. ASSUME NEW w \in Workers, Disconnect(w)
      PROVE  TypeInv'
  <2>0. PICK sent \in SUBSET {m \in Message : ready["main_queue"][m] > 0} :
           stale' = [stale EXCEPT ![w] = @ \cup sent]
    BY <1>19 DEF Disconnect
  <2>1. \A m \in sent : m \in Message /\ m.start \in Accepted
    BY DEF CopiesOK, Queues
  <2>2. /\ stale' \in [Workers -> SUBSET Message]
        /\ \A v \in Workers : \A m \in stale'[v] : m.start \in Accepted
    BY <2>0, <2>1 DEF HandsOK
  <2>3. faults' \in 0..MaxFaults /\ UNCHANGED <<pc, hand, finished, bodies, storeVars>>
    BY <1>19 DEF Disconnect, Fault
  <2>4. CASE Attached(w)
    <3>0. unacked[w] \in Message /\ unacked[w].start \in Accepted /\ Requeue(w)
      BY <1>19, <2>4 DEF Disconnect, Attached, HandsOK, Start
    <3>1. /\ ready' \in [Queues -> [Message -> Nat]]
          /\ \A q \in Queues, n \in Message :
                ready'[q][n] > 0 => ready[q][n] > 0 \/ n = unacked[w]
      BY <3>0 DEF Requeue, Queues
    <3>2. CopiesOK'
      BY <2>3, <3>0, <3>1 DEF CopiesOK, Accepted
    <3>3. HandsOK'
      BY <2>2, <2>3, <3>0 DEF Requeue, Ack, HandsOK, Accepted, Start, Request, Working, Attached
    <3>4. QED
      BY <2>2, <2>3, <3>0, <3>1, <3>2, <3>3 DEF Requeue, Ack
  <2>5. CASE ~Attached(w)
    <3>1. UNCHANGED brokerVars
      BY <1>19, <2>5 DEF Disconnect
    <3>2. HandsOK' /\ CopiesOK'
      BY <2>2, <2>3, <3>1 DEF HandsOK, CopiesOK, Accepted, Start, Request, Working, Attached
    <3>3. QED
      BY <2>2, <2>3, <3>1, <3>2
  <2>6. QED
    BY <2>4, <2>5
<1>20. CASE UNCHANGED vars
  BY <1>20 DEF vars, HandsOK, CopiesOK, Accepted, Start, Request, Working, Attached
<1>21. CASE Client
  <2> USE <1>21
  <2>1. CASE \E s \in Starts, j \in Jobs, e \in Exts, f \in Formats : ConvertFile(s, j, e, f)
    BY <1>3, <2>1 DEF Client, ConvertFile, Body
  <2>2. CASE \E s \in Starts, j \in Jobs : MergeFiles(s, j)
    BY <1>3, <2>2 DEF Client, MergeFiles, Body
  <2>3. QED
    BY <1>1, <1>2, <2>1, <2>2 DEF Client
<1>22. CASE RetryTimeToLive
  BY <1>4, <1>22 DEF RetryTimeToLive
<1>26. ASSUME NEW w \in Workers, ReceiveStale(w)
      PROVE  TypeInv'
  <2> PICK m \in stale[w] : /\ pc[w] = "idle"
                            /\ hand' = [hand EXCEPT ![w] = m]
                            /\ stale' = [stale EXCEPT ![w] = @ \ {m}]
                            /\ Goto(w, "dispatch")
                            /\ UNCHANGED <<finished, faults, bodies, brokerVars, storeVars>>
    BY <1>26 DEF ReceiveStale
  <2>1. m \in Message /\ m.start \in Accepted
    BY DEF HandsOK
  <2>2. unacked[w] = NoMessage
    BY DEF HandsOK, Working, Attached
  <2>3. HandsOK' /\ CopiesOK'
    BY <2>1, <2>2 DEF Goto, HandsOK, CopiesOK, Accepted, Start, Request, Working, Attached
  <2>4. QED
    BY <2>1, <2>3 DEF Goto, Steps
<1>23. CASE \E w \in Workers : Worker(w)
  BY <1>5, <1>6, <1>7, <1>8, <1>9, <1>10, <1>11, <1>12, <1>13, <1>14, <1>15, <1>16, <1>23, <1>26
     DEF Worker, WorkerStep
<1>24. CASE \E w \in Workers : Failure(w)
  BY <1>17, <1>18, <1>19, <1>24 DEF Failure
<1>25. ASSUME NEW w \in Workers, LookupRefused(w)
      PROVE  TypeInv'
  BY <1>25 DEF LookupRefused, Goto, Steps, HandsOK, CopiesOK, Accepted, Start, Request, Working, Attached
<1>27. QED
  BY <1>20, <1>21, <1>22, <1>23, <1>24, <1>25 DEF Next, WideNext

LEMMA TypeInvariant == Spec => []TypeInv
<1>1. QED
  BY InitType, StepType, NextIsWide, PTL DEF Spec

(***************************************************************************)
(* Every variable of the pipeline stays in its type.                       *)
(***************************************************************************)
THEOREM TypeCorrect == Spec => []TypeOK
<1>1. TypeInv => TypeOK
  BY DEF TypeInv
<1>2. QED
  BY <1>1, TypeInvariant, PTL

-------------------------------------------------------------------------------
(* What the steps do to the copies of a message                            *)

(***************************************************************************)
(* The steps of a conversion that leave the broker alone.                  *)
(***************************************************************************)
Internal(w) ==
    \/ Dispatch(w) \/ Lookup(w) \/ Fetch(w) \/ Convert(w)
    \/ StoreConverted(w) \/ StoreCompressed(w) \/ Mark(w) \/ LookupRefused(w)

LEMMA InternalEffect ==
    ASSUME TypeInv, NEW w \in Workers, Internal(w)
    PROVE  /\ UNCHANGED <<hand, stale, bodies, brokerVars>>
           /\ finished \subseteq finished'
           /\ finished' \subseteq finished \cup {Start(w)}
           /\ \A v \in Workers : pc'[v] = "settle" => pc[v] = "settle" \/ Start(v) \in finished'
           /\ \A v \in Workers : v # w => pc'[v] = pc[v]
           /\ pc[w] \notin {"down", "idle", "settle", "failed"}
           /\ pc'[w] \notin {"down", "idle"}
<1> USE DEF Internal, TypeInv, TypeOK, WorkerTypeOK, brokerVars, storeVars, Goto
<1>1. CASE Dispatch(w)
  BY <1>1 DEF Dispatch, AfterDispatch
<1>2. CASE Lookup(w)
  BY <1>2 DEF Lookup
<1>3. CASE Fetch(w)
  BY <1>3 DEF Fetch, OnError
<1>4. CASE Convert(w)
  BY <1>4 DEF Convert, OnConverterError
<1>5. CASE StoreConverted(w)
  BY <1>5 DEF StoreConverted
<1>6. CASE StoreCompressed(w)
  BY <1>6 DEF StoreCompressed
<1>7. CASE Mark(w)
  BY <1>7 DEF Mark
<1>8. CASE LookupRefused(w)
  BY <1>8 DEF LookupRefused
<1>9. QED
  BY <1>1, <1>2, <1>3, <1>4, <1>5, <1>6, <1>7, <1>8

LEMMA StepCases ==
    ASSUME [WideNext]_vars
    PROVE  \/ UNCHANGED <<workerVars, bodies, brokerVars>>
           \/ \E s \in Starts, body \in Body : PublishJob(s, body) /\ UNCHANGED workerVars
           \/ \E m \in Message : Expire(m) /\ UNCHANGED <<workerVars, bodies, storeVars>>
           \/ \E w \in Workers :
                 \/ StartWorker(w) \/ Receive(w) \/ ReceiveStale(w) \/ Internal(w)
                 \/ HandOff(w) \/ Settle(w) \/ SettleDetached(w)
                 \/ HandOffFails(w) \/ Crash(w) \/ Disconnect(w)
<1>1. CASE UNCHANGED vars
  BY <1>1 DEF vars
<1>2. CASE Client
  <2>1. CASE \E j \in Jobs, e \in Exts : GeneratePresignedUrl(j, e)
    BY <1>2, <2>1 DEF Client, GeneratePresignedUrl
  <2>2. CASE \E j \in Jobs : ClientUpload(j)
    BY <1>2, <2>2 DEF Client, ClientUpload
  <2>3. CASE \E s \in Starts, j \in Jobs, e \in Exts, f \in Formats : ConvertFile(s, j, e, f)
    BY <1>2, <2>3 DEF Client, ConvertFile, Body
  <2>4. CASE \E s \in Starts, j \in Jobs : MergeFiles(s, j)
    BY <1>2, <2>4 DEF Client, MergeFiles, Body
  <2>5. QED
    BY <1>2, <2>1, <2>2, <2>3, <2>4 DEF Client
<1>3. CASE RetryTimeToLive
  BY <1>3 DEF RetryTimeToLive
<1>4. CASE \E w \in Workers : Worker(w)
  BY <1>4 DEF Worker, WorkerStep, Internal
<1>5. CASE \E w \in Workers : Failure(w)
  BY <1>5 DEF Failure
<1>6. CASE \E w \in Workers : LookupRefused(w)
  BY <1>6 DEF Internal
<1>7. QED
  BY <1>1, <1>2, <1>3, <1>4, <1>5, <1>6 DEF Next, WideNext

(***************************************************************************)
(* The routing table: what a publish with each exchange and key reaches.   *)
(* Nothing reaches a queue through the two dead-letter settings.           *)
(***************************************************************************)
LEMMA Routes ==
    /\ Route("main_queue", "retry") = {}
    /\ Route("retry_exchange", "main") = {}
    /\ Route("main_exchange", "main") = IF declared THEN {"main_queue"} ELSE {}
    /\ Route("retry_exchange", "retry") = IF declared THEN {"retry_queue"} ELSE {}
    /\ Route("dlx_exchange", "dead") = IF declared THEN {"dead_letter_queue"} ELSE {}
  BY DEF Route, Bindings, Queues

LEMMA DroppedEffect ==
    ASSUME NEW base \in [Queues -> [Message -> Nat]], NEW exchange, NEW key, NEW m \in Message,
           PublishOnto(base, exchange, key, m), Route(exchange, key) = {}
    PROVE  ready' = base /\ discarded' = discarded \cup {m}
  BY DEF PublishOnto

LEMMA RoutedEffect ==
    ASSUME NEW base \in [Queues -> [Message -> Nat]], NEW exchange, NEW key, NEW m \in Message,
           PublishOnto(base, exchange, key, m),
           NEW queue \in Queues, Route(exchange, key) = {queue}
    PROVE  /\ ready' = [base EXCEPT ![queue][m] = @ + 1]
           /\ discarded' = discarded
  BY DEF PublishOnto

LEMMA ExpireEffect ==
    ASSUME TypeInv, NEW m \in Message, Expire(m)
    PROVE  /\ ready["retry_queue"][m] > 0
           /\ ready' = [ready EXCEPT !["retry_queue"][m] = @ - 1]
           /\ discarded' = discarded \cup {m}
           /\ UNCHANGED <<declared, unacked>>
<1> DEFINE base == [ready EXCEPT !["retry_queue"][m] = @ - 1]
<1>1. base \in [Queues -> [Message -> Nat]]
  BY DEF Expire, Queues, TypeInv, TypeOK, BrokerTypeOK
<1>2. PublishOnto(base, "main_queue", "retry", m)
  BY DEF Expire, DeadLetterFrom, DeadLetterExchange, KeyOf
<1>3. ready' = base /\ discarded' = discarded \cup {m}
  <2> HIDE DEF base
  <2>1. QED
    BY <1>1, <1>2, Routes, DroppedEffect
<1>4. QED
  BY <1>3 DEF Expire

LEMMA RejectEffect ==
    ASSUME TypeInv, NEW w \in Workers, Attached(w), Reject(w)
    PROVE  /\ ready' = ready
           /\ discarded' = discarded \cup {unacked[w]}
           /\ unacked' = [unacked EXCEPT ![w] = NoMessage]
<1>1. unacked[w] \in Message
  BY DEF Attached, TypeInv, TypeOK, BrokerTypeOK
<1>2. PublishOnto(ready, "retry_exchange", "main", unacked[w])
  BY DEF Reject, DeadLetterFrom, DeadLetterExchange, KeyOf
<1>3. QED
  BY <1>1, <1>2, Routes, DroppedEffect DEF Reject, Ack, TypeInv, TypeOK, BrokerTypeOK

(***************************************************************************)
(* A hand-off leaves a trace of the request outside the main queue.        *)
(***************************************************************************)
LEMMA HandOffEffect ==
    ASSUME TypeInv, NEW w \in Workers, HandOff(w)
    PROVE  /\ hand[w] \in Message /\ Start(w) \in Accepted
           /\ ready'["main_queue"] = ready["main_queue"]
           /\ \A q \in Queues, n \in Message : ready'[q][n] >= ready[q][n]
           /\ discarded \subseteq discarded'
           /\ \A q \in Queues, n \in Message : ready'[q][n] > 0 => ready[q][n] > 0 \/ n.start = Start(w)
           /\ \A n \in discarded' : n \in discarded \/ n.start = Start(w)
           /\ \E m \in Message : /\ m.start = Start(w)
                                 /\ \/ ready'["retry_queue"][m] > 0
                                    \/ ready'["dead_letter_queue"][m] > 0
                                    \/ m \in discarded'
<1> USE DEF TypeInv, TypeOK, BrokerTypeOK, Start
<1>1. hand[w] \in Message /\ Start(w) \in Accepted
  BY DEF HandOff, HandsOK, Working, WorkerTypeOK
<1>2. CASE hand[w].retry < MaxRetries
  <2>1. NextTry(hand[w]) \in Message /\ NextTry(hand[w]).start = Start(w)
    BY <1>1, <1>2 DEF NextTry, Message
  <2>2. PublishOnto(ready, "retry_exchange", "retry", NextTry(hand[w]))
    BY <1>2 DEF HandOff, Publish
  <2> HIDE DEF Start
  <2>3. CASE declared
    BY <1>1, <2>1, <2>2, <2>3, Routes, RoutedEffect DEF Queues
  <2>4. CASE ~declared
    BY <1>1, <2>1, <2>2, <2>4, Routes, DroppedEffect DEF Queues
  <2>5. QED
    BY <2>3, <2>4
<1>3. CASE ~(hand[w].retry < MaxRetries)
  <2>1. PublishOnto(ready, "dlx_exchange", "dead", hand[w])
    BY <1>3 DEF HandOff, Publish
  <2>2. CASE declared
    BY <1>1, <2>1, <2>2, Routes, RoutedEffect DEF Queues
  <2>3. CASE ~declared
    BY <1>1, <2>1, <2>3, Routes, DroppedEffect DEF Queues
  <2>4. QED
    BY <2>2, <2>3
<1>4. QED
  BY <1>2, <1>3

LEMMA PublishJobEffect ==
    ASSUME TypeInv, NEW s \in Starts, NEW body \in Body, PublishJob(s, body)
    PROVE  /\ s \notin Accepted /\ FirstTry(s) \in Message
           /\ Accepted' = Accepted \cup {s}
           /\ bodies' = [bodies EXCEPT ![s] = body]
           /\ UNCHANGED <<declared, unacked, storeVars>>
           /\ \/ /\ ready' = [ready EXCEPT !["main_queue"][FirstTry(s)] = @ + 1]
                 /\ discarded' = discarded
              \/ ready' = ready /\ discarded' = discarded \cup {FirstTry(s)}
<1> USE DEF TypeInv, TypeOK, BrokerTypeOK
<1>1. s \notin Accepted /\ FirstTry(s) \in Message
  BY DEF PublishJob, Accepted, FirstTry, Message
<1>2. Accepted' = Accepted \cup {s} /\ bodies' = [bodies EXCEPT ![s] = body]
  BY DEF PublishJob, Accepted, UploadTypeOK
<1>3. PublishOnto(ready, "main_exchange", "main", FirstTry(s))
  BY DEF PublishJob, Publish
<1>4. CASE declared
  BY <1>1, <1>2, <1>3, <1>4, Routes, RoutedEffect DEF PublishJob, Queues
<1>5. CASE ~declared
  BY <1>1, <1>2, <1>3, <1>5, Routes, DroppedEffect DEF PublishJob
<1>6. QED
  BY <1>4, <1>5

LEMMA RequeueEffect ==
    ASSUME TypeInv, NEW w \in Workers, Requeue(w)
    PROVE  /\ Attached(w) /\ unacked[w] \in Message /\ unacked[w] = hand[w]
           /\ ready' = [ready EXCEPT !["main_queue"][unacked[w]] = @ + 1]
           /\ unacked' = [unacked EXCEPT ![w] = NoMessage]
           /\ discarded' = discarded
  BY DEF Requeue, Ack, Attached, TypeInv, TypeOK, BrokerTypeOK, HandsOK

-------------------------------------------------------------------------------
(* One live delivery per request                                           *)

(***************************************************************************)
(* The inductive form of OneDelivery.  Copies in the main queue, in        *)
(* workers' hands and in their buffers are first tries, because nothing    *)
(* that is dead-lettered comes back, and each that the broker knows of has *)
(* a single owner.                                                         *)
(***************************************************************************)
FirstTriesOnly ==
    /\ \A m \in Message : ready["main_queue"][m] > 0 => m.retry = 0
    /\ \A w \in Workers : hand[w] # NoMessage => hand[w].retry = 0
    /\ \A w \in Workers : \A m \in stale[w] : m.retry = 0

OneOwner ==
    /\ \A m \in Message : ready["main_queue"][m] <= 1
    /\ \A m \in Message, w \in Workers : ready["main_queue"][m] > 0 => unacked[w] # m
    /\ \A v, w \in Workers : Attached(v) /\ unacked[v] = unacked[w] => v = w

OwnerInv == FirstTriesOnly /\ OneOwner

LEMMA InitOwner == Init => OwnerInv
  BY DEF Init, BrokerInit, WorkerInit, OwnerInv, FirstTriesOnly, OneOwner, Attached, Queues

LEMMA StepOwner == TypeInv /\ OwnerInv /\ [WideNext]_vars => OwnerInv'
<1> SUFFICES ASSUME TypeInv, OwnerInv, [WideNext]_vars PROVE OwnerInv'
  OBVIOUS
<1> USE DEF OwnerInv, Attached
<1>0. /\ ready \in [Queues -> [Message -> Nat]]
      /\ unacked \in [Workers -> Message \cup {NoMessage}]
      /\ hand \in [Workers -> Message \cup {NoMessage}]
      /\ stale \in [Workers -> SUBSET Message]
  BY DEF TypeInv, TypeOK, BrokerTypeOK, WorkerTypeOK
<1>1. CASE UNCHANGED <<workerVars, bodies, brokerVars>>
  BY <1>1 DEF FirstTriesOnly, OneOwner, workerVars, brokerVars
<1>2. ASSUME NEW s \in Starts, NEW body \in Body, PublishJob(s, body), UNCHANGED workerVars
      PROVE  OwnerInv'
  <2>1. \A w \in Workers : Attached(w) => unacked[w].start # s
    BY <1>2, PublishJobEffect DEF TypeInv, HandsOK, Start
  <2>2. ready["main_queue"][FirstTry(s)] = 0
    BY <1>0, <1>2, PublishJobEffect DEF TypeInv, CopiesOK, FirstTry, Queues
  <2>3. QED
    BY <1>0, <1>2, <2>1, <2>2, PublishJobEffect
       DEF FirstTriesOnly, OneOwner, workerVars, FirstTry, Queues
<1>3. ASSUME NEW m \in Message, Expire(m), UNCHANGED <<workerVars, bodies, storeVars>>
      PROVE  OwnerInv'
  BY <1>0, <1>3, ExpireEffect DEF FirstTriesOnly, OneOwner, workerVars, Queues
<1>4. ASSUME NEW w \in Workers, StartWorker(w)
      PROVE  OwnerInv'
  BY <1>4 DEF StartWorker, FirstTriesOnly, OneOwner
<1>5. ASSUME NEW w \in Workers, Receive(w) \/ ReceiveStale(w)
      PROVE  OwnerInv'
  <2>1. CASE Receive(w)
    BY <1>0, <2>1 DEF Receive, Deliver, FirstTriesOnly, OneOwner, Queues
  <2>2. CASE ReceiveStale(w)
    BY <1>0, <2>2 DEF ReceiveStale, FirstTriesOnly, OneOwner, brokerVars
  <2>3. QED
    BY <1>5, <2>1, <2>2
<1>6. ASSUME NEW w \in Workers, Internal(w)
      PROVE  OwnerInv'
  BY <1>6, InternalEffect DEF FirstTriesOnly, OneOwner, brokerVars
<1>7. ASSUME NEW w \in Workers, HandOff(w)
      PROVE  OwnerInv'
  BY <1>7, HandOffEffect DEF HandOff, FirstTriesOnly, OneOwner
<1>8. ASSUME NEW w \in Workers, Settle(w) \/ SettleDetached(w)
      PROVE  OwnerInv'
  BY <1>0, <1>8 DEF Settle, SettleDetached, Exit, Ack, FirstTriesOnly, OneOwner, brokerVars
<1>9. ASSUME NEW w \in Workers, HandOffFails(w)
      PROVE  OwnerInv'
  BY <1>0, <1>9, RejectEffect DEF HandOffFails, Exit, FirstTriesOnly, OneOwner
<1>10. ASSUME NEW w \in Workers, Crash(w)
      PROVE  OwnerInv'
  BY <1>0, <1>10, RequeueEffect DEF Crash, Exit, FirstTriesOnly, OneOwner, brokerVars, Queues
<1>11. ASSUME NEW w \in Workers, Disconnect(w)
      PROVE  OwnerInv'
  <2>0. PICK sent \in SUBSET {m \in Message : ready["main_queue"][m] > 0} :
           stale' = [stale EXCEPT ![w] = @ \cup sent]
    BY <1>11 DEF Disconnect
  <2>1. \A m \in sent : m.retry = 0
    BY DEF FirstTriesOnly
  <2>2. \A v \in Workers : \A m \in stale'[v] : m.retry = 0
    BY <1>0, <2>0, <2>1 DEF FirstTriesOnly
  <2>3. hand' = hand
    BY <1>11 DEF Disconnect
  <2>4. CASE Attached(w)
    <3>1. Requeue(w)
      BY <1>11, <2>4 DEF Disconnect
    <3>2. QED
      BY <1>0, <2>2, <2>3, <3>1, RequeueEffect DEF FirstTriesOnly, OneOwner, Queues
  <2>5. CASE ~Attached(w)
    <3>1. UNCHANGED brokerVars
      BY <1>11, <2>5 DEF Disconnect
    <3>2. QED
      BY <2>2, <2>3, <3>1 DEF FirstTriesOnly, OneOwner, brokerVars
  <2>6. QED
    BY <2>4, <2>5
<1>12. QED
  BY <1>1, <1>2, <1>3, <1>4, <1>5, <1>6, <1>7, <1>8, <1>9, <1>10, <1>11, StepCases

LEMMA OwnersAreSingle == TypeInv /\ OwnerInv => OneDelivery
<1> SUFFICES ASSUME TypeInv, OwnerInv, NEW s \in Starts
             PROVE  /\ \A n \in 0..MaxRetries :
                          ready["main_queue"][[start |-> s, retry |-> n]] <= 1
                    /\ CopyIn("main_queue", s) => LiveDeliveries(s) = {}
                    /\ \A v, w \in LiveDeliveries(s) : v = w
  BY DEF OneDelivery
<1> USE DEF OwnerInv, OneOwner, FirstTriesOnly
<1>1. \A n \in 0..MaxRetries : [start |-> s, retry |-> n] \in Message
  BY DEF Message
<1>2. \A w \in LiveDeliveries(s) : unacked[w] = FirstTry(s)
  BY DEF LiveDeliveries, TypeInv, TypeOK, BrokerTypeOK, HandsOK, Attached, Message, FirstTry
<1>3. CopyIn("main_queue", s) => ready["main_queue"][FirstTry(s)] > 0
  BY <1>1 DEF CopyIn, FirstTry
<1>4. QED
  BY <1>1, <1>2, <1>3 DEF LiveDeliveries, FirstTry

(***************************************************************************)
(* At most one copy of a request is waiting in the main queue or counted   *)
(* as delivered to a worker.                                               *)
(***************************************************************************)
THEOREM SingleDelivery == Spec => []OneDelivery
  BY OwnersAreSingle, InitType, StepType, InitOwner, StepOwner, NextIsWide, PTL DEF Spec

-------------------------------------------------------------------------------
(* No request is forgotten                                                 *)

(***************************************************************************)
(* The inductive form of NothingForgotten.  A request in a worker's hand   *)
(* is not enough: the broker may have given that worker up.  What keeps it *)
(* is a live delivery (a copy in the main queue, or one counted as         *)
(* delivered) or a trace that stays, and a worker about to acknowledge has *)
(* left such a trace.                                                      *)
(***************************************************************************)
Live(s) ==
    \/ \E m \in Message : m.start = s /\ ready["main_queue"][m] > 0
    \/ \E w \in Workers : Attached(w) /\ unacked[w].start = s

Trace(s) ==
    \/ s \in finished
    \/ \E m \in Message : /\ m.start = s
                          /\ \/ ready["retry_queue"][m] > 0
                             \/ ready["dead_letter_queue"][m] > 0
                             \/ m \in discarded

TraceInv ==
    /\ \A s \in Accepted : Live(s) \/ Trace(s)
    /\ \A w \in Workers, s \in Starts : pc[w] = "settle" /\ s = Start(w) => Trace(s)

(***************************************************************************)
(* A trace stays: nobody consumes the retry queue or the dead letter queue *)
(* and a copy whose time to live runs out is dropped in sight.             *)
(***************************************************************************)
LEMMA TraceStays ==
    ASSUME TypeInv, [WideNext]_vars, NEW s \in Starts, Trace(s)
    PROVE  Trace(s)'
<1>0. ready \in [Queues -> [Message -> Nat]]
  BY DEF TypeInv, TypeOK, BrokerTypeOK
<1>1. CASE UNCHANGED <<workerVars, bodies, brokerVars>>
  BY <1>1 DEF Trace, workerVars, brokerVars
<1>2. ASSUME NEW t \in Starts, NEW body \in Body, PublishJob(t, body), UNCHANGED workerVars
      PROVE  Trace(s)'
  BY <1>0, <1>2, PublishJobEffect DEF Trace, workerVars, Queues
<1>3. ASSUME NEW m \in Message, Expire(m), UNCHANGED <<workerVars, bodies, storeVars>>
      PROVE  Trace(s)'
  BY <1>0, <1>3, ExpireEffect DEF Trace, workerVars, Queues
<1>4. ASSUME NEW w \in Workers, StartWorker(w) \/ Settle(w) \/ SettleDetached(w)
      PROVE  Trace(s)'
  BY <1>4 DEF StartWorker, Settle, SettleDetached, Trace, brokerVars
<1>5. ASSUME NEW w \in Workers, Receive(w) \/ ReceiveStale(w)
      PROVE  Trace(s)'
  BY <1>0, <1>5 DEF Receive, ReceiveStale, Deliver, Trace, brokerVars, Queues
<1>6. ASSUME NEW w \in Workers, Internal(w)
      PROVE  Trace(s)'
  BY <1>6, InternalEffect DEF Trace, brokerVars
<1>7. ASSUME NEW w \in Workers, HandOff(w)
      PROVE  Trace(s)'
  <2>1. UNCHANGED finished
    BY <1>7 DEF HandOff
  <2>2. \A m \in Message : /\ ready'["retry_queue"][m] >= ready["retry_queue"][m]
                           /\ ready'["dead_letter_queue"][m] >= ready["dead_letter_queue"][m]
    BY <1>7, HandOffEffect DEF Queues
  <2>3. ready' \in [Queues -> [Message -> Nat]]
    BY <1>7, StepType DEF TypeInv, TypeOK, BrokerTypeOK
  <2>4. \A m \in Message : /\ ready["retry_queue"][m] > 0 => ready'["retry_queue"][m] > 0
                           /\ ready["dead_letter_queue"][m] > 0 => ready'["dead_letter_queue"][m] > 0
    BY <1>0, <2>2, <2>3 DEF Queues
  <2>5. discarded \subseteq discarded'
    BY <1>7, HandOffEffect
  <2>6. CASE s \in finished
    BY <2>1, <2>6 DEF Trace
  <2>7. ASSUME NEW m \in Message, m.start = s,
               \/ ready["retry_queue"][m] > 0
               \/ ready["dead_letter_queue"][m] > 0
               \/ m \in discarded
        PROVE  Trace(s)'
    <3>1. \/ ready'["retry_queue"][m] > 0
          \/ ready'["dead_letter_queue"][m] > 0
          \/ m \in discarded'
      BY <2>4, <2>5, <2>7
    <3>2. QED
      BY <2>7, <3>1 DEF Trace
  <2>8. QED
    BY <2>6, <2>7 DEF Trace
<1>8. ASSUME NEW w \in Workers, HandOffFails(w)
      PROVE  Trace(s)'
  BY <1>8, RejectEffect DEF HandOffFails, Trace
<1>9. ASSUME NEW w \in Workers, Crash(w) \/ Disconnect(w)
      PROVE  Trace(s)'
  BY <1>0, <1>9, RequeueEffect DEF Crash, Disconnect, Trace, brokerVars, Queues
<1>10. QED
  BY <1>1, <1>2, <1>3, <1>4, <1>5, <1>6, <1>7, <1>8, <1>9, StepCases

LEMMA InitAccount == Init => TraceInv
  BY DEF Init, UploadInit, WorkerInit, TraceInv, Accepted

LEMMA StepAccount == TypeInv /\ TraceInv /\ [WideNext]_vars => TraceInv'
<1> SUFFICES ASSUME TypeInv, TraceInv, [WideNext]_vars PROVE TraceInv'
  OBVIOUS
<1>0. /\ ready \in [Queues -> [Message -> Nat]]
      /\ unacked \in [Workers -> Message \cup {NoMessage}]
      /\ hand \in [Workers -> Message \cup {NoMessage}]
      /\ pc \in [Workers -> Steps]
      /\ TypeInv'
      /\ Accepted \subseteq Starts
  BY StepType DEF TypeInv, TypeOK, BrokerTypeOK, WorkerTypeOK, Accepted
<1>1. \A s \in Accepted : Trace(s) => Trace(s)'
  BY <1>0, TraceStays
<1>2. \A w \in Workers : hand[w] # NoMessage => Start(w) \in Accepted
  BY DEF TypeInv, HandsOK
<1>3. \A w \in Workers : pc[w] = "settle" => Start(w) \in Accepted /\ hand[w] \in Message
  BY <1>0, <1>2 DEF TypeInv, HandsOK, Working
<1>4. \A w \in Workers : Attached(w) => unacked[w] \in Message /\ unacked[w] = hand[w]
  BY <1>0 DEF TypeInv, HandsOK, Attached
<1> DEFINE Goal == /\ \A s \in Accepted : Live(s) => Live(s)' \/ Trace(s)'
                   /\ \A s \in Accepted' : s \in Accepted \/ Live(s)' \/ Trace(s)'
                   /\ \A w \in Workers, s \in Starts : pc'[w] = "settle" /\ s = hand'[w].start =>
                        \/ pc[w] = "settle" /\ hand'[w] = hand[w]
                        \/ Trace(s)'
<1>5. Goal => TraceInv'
  BY <1>1, <1>3 DEF TraceInv, Start
<1> HIDE DEF Goal
<1>6. ASSUME UNCHANGED <<workerVars, bodies, brokerVars>>
      PROVE  Goal
  BY <1>6 DEF Goal, Live, Attached, workerVars, brokerVars, Accepted
<1>7. ASSUME NEW s \in Starts, NEW body \in Body, PublishJob(s, body), UNCHANGED workerVars
      PROVE  Goal
  <2>1. Live(s)' \/ Trace(s)'
    <3>1. FirstTry(s) \in Message /\ FirstTry(s).start = s
      BY <1>7, PublishJobEffect DEF FirstTry
    <3>2. ready'["main_queue"][FirstTry(s)] > 0 \/ FirstTry(s) \in discarded'
      BY <1>0, <1>7, <3>1, PublishJobEffect DEF Queues
    <3>3. QED
      BY <3>1, <3>2 DEF Live, Trace
  <2>2. ASSUME NEW r \in Accepted, Live(r)
        PROVE  Live(r)'
    <3>1. unacked' = unacked /\ \A m \in Message : ready["main_queue"][m] > 0 => ready'["main_queue"][m] > 0
      BY <1>0, <1>7, PublishJobEffect DEF Queues
    <3>2. QED
      BY <2>2, <3>1 DEF Live, Attached
  <2>3. QED
    BY <1>7, <2>1, <2>2, PublishJobEffect DEF Goal, workerVars
<1>8. ASSUME NEW m \in Message, Expire(m), UNCHANGED <<workerVars, bodies, storeVars>>
      PROVE  Goal
  BY <1>0, <1>8, ExpireEffect DEF Goal, Live, Attached, workerVars, Accepted, Queues
<1>9. ASSUME NEW w \in Workers, StartWorker(w)
      PROVE  Goal
  BY <1>0, <1>9 DEF StartWorker, Goto, Goal, Live, Attached, Accepted
<1>10. ASSUME NEW w \in Workers, Receive(w)
      PROVE  Goal
  <2> PICK m \in Message : /\ Deliver(w, m) /\ hand' = [hand EXCEPT ![w] = m]
                           /\ pc[w] = "idle" /\ Goto(w, "dispatch") /\ UNCHANGED bodies
    BY <1>10 DEF Receive
  <2>1. \A s \in Accepted : Live(s) => Live(s)'
    BY <1>0 DEF Deliver, Live, Attached, Queues
  <2>2. QED
    BY <1>0, <2>1 DEF Goal, Goto, Accepted
<1>19. ASSUME NEW w \in Workers, ReceiveStale(w)
      PROVE  Goal
  BY <1>0, <1>19 DEF ReceiveStale, Goto, Goal, Live, Attached, Accepted, brokerVars
<1>11. ASSUME NEW w \in Workers, Internal(w)
      PROVE  Goal
  BY <1>11, InternalEffect DEF Goal, Live, Trace, Attached, Start, Accepted, brokerVars
<1>12. ASSUME NEW w \in Workers, HandOff(w)
      PROVE  Goal
  <2>1. \A s \in Starts : s = Start(w) => Trace(s)'
    BY <1>12, HandOffEffect DEF Trace
  <2>2. \A s \in Accepted : Live(s) => Live(s)'
    BY <1>12, HandOffEffect DEF HandOff, Live, Attached
  <2>3. QED
    BY <1>0, <1>12, <2>1, <2>2 DEF Goal, HandOff, Goto, Accepted, Start
<1>13. ASSUME NEW w \in Workers, Settle(w)
      PROVE  Goal
  <2>1. \A s \in Accepted : s = Start(w) => Trace(s)'
    BY <1>0, <1>1, <1>13 DEF TraceInv, Settle
  <2>2. \A s \in Accepted : Live(s) => Live(s)' \/ s = Start(w)
    BY <1>0, <1>4, <1>13 DEF Settle, Ack, Live, Attached, Start
  <2>3. QED
    BY <1>0, <1>13, <2>1, <2>2 DEF Goal, Settle, Goto, Accepted
<1>14. ASSUME NEW w \in Workers, SettleDetached(w)
      PROVE  Goal
  BY <1>0, <1>14 DEF SettleDetached, Exit, Goto, Goal, Live, Attached, Accepted, brokerVars
<1>15. ASSUME NEW w \in Workers, HandOffFails(w)
      PROVE  Goal
  <2>1. \A v \in Workers : pc'[v] = "settle" => pc[v] = "settle" /\ hand'[v] = hand[v]
    BY <1>0, <1>15 DEF HandOffFails, Exit, Goto
  <2>2. CASE Attached(w)
    <3>1. \A s \in Accepted : Live(s) => Live(s)' \/ s = Start(w)
      BY <1>0, <1>4, <1>15, <2>2, RejectEffect DEF HandOffFails, Live, Attached, Start
    <3>2. \A s \in Accepted : s = Start(w) => Trace(s)'
      BY <1>4, <1>15, <2>2, RejectEffect DEF HandOffFails, Trace, Start
    <3>3. QED
      BY <1>15, <2>1, <3>1, <3>2 DEF Goal, HandOffFails, Accepted
  <2>3. CASE ~Attached(w)
    BY <1>15, <2>1, <2>3 DEF Goal, HandOffFails, Live, Attached, Accepted
  <2>4. QED
    BY <2>2, <2>3
<1>16. ASSUME NEW w \in Workers, Crash(w)
      PROVE  Goal
  <2>1. \A v \in Workers : pc'[v] = "settle" => pc[v] = "settle" /\ hand'[v] = hand[v]
    BY <1>0, <1>16 DEF Crash, Exit, Goto
  <2>2. \A s \in Accepted : Live(s) => Live(s)'
    <3>1. CASE Attached(w)
      BY <1>0, <1>16, <3>1, RequeueEffect DEF Crash, Live, Attached, Queues
    <3>2. CASE ~Attached(w)
      BY <1>16, <3>2 DEF Crash, Live, Attached, brokerVars
    <3>3. QED
      BY <3>1, <3>2
  <2>3. QED
    BY <1>16, <2>1, <2>2 DEF Goal, Crash, Accepted
<1>17. ASSUME NEW w \in Workers, Disconnect(w)
      PROVE  Goal
  <2>1. \A s \in Accepted : Live(s) => Live(s)'
    <3>1. CASE Attached(w)
      BY <1>0, <1>17, <3>1, RequeueEffect DEF Disconnect, Live, Attached, Queues
    <3>2. CASE ~Attached(w)
      BY <1>17, <3>2 DEF Disconnect, Live, Attached, brokerVars
    <3>3. QED
      BY <3>1, <3>2
  <2>2. QED
    BY <1>17, <2>1 DEF Goal, Disconnect, Accepted
<1>18. QED
  BY <1>5, <1>6, <1>7, <1>8, <1>9, <1>10, <1>11, <1>12, <1>13, <1>14, <1>15, <1>16, <1>17, <1>19,
     StepCases

LEMMA TracesAccount == TypeInv /\ TraceInv => NothingForgotten
<1> SUFFICES ASSUME TypeInv, TraceInv, NEW s \in Accepted
             PROVE  \/ Pending(s)
                    \/ s \in finished
                    \/ CopyIn("retry_queue", s) \/ CopyIn("dead_letter_queue", s)
                    \/ Dropped(s)
  BY DEF NothingForgotten
<1>0. s \in Starts
  BY DEF Accepted
<1>1. \A q \in Queues : (\E m \in Message : m.start = s /\ ready[q][m] > 0) => CopyIn(q, s)
  BY <1>0 DEF CopyIn, Message
<1>2. (\E m \in Message : m.start = s /\ m \in discarded) => Dropped(s)
  BY <1>0 DEF Dropped, Message
<1>3. \A w \in Workers : Attached(w) /\ unacked[w].start = s => HeldBy(w, s)
  BY DEF TypeInv, HandsOK, Attached, HeldBy, Start
<1>4. Live(s) => Pending(s)
  BY <1>1, <1>3 DEF Live, Pending, Queues
<1>5. Trace(s) => \/ s \in finished
                  \/ CopyIn("retry_queue", s) \/ CopyIn("dead_letter_queue", s)
                  \/ Dropped(s)
  BY <1>1, <1>2 DEF Trace, Queues
<1>6. QED
  BY <1>4, <1>5 DEF TraceInv

(***************************************************************************)
(* An accepted request is in progress, finished, or a copy of it can be    *)
(* found in the retry queue, the dead letter queue or among what the       *)
(* broker dropped.                                                         *)
(***************************************************************************)
THEOREM NoRequestForgotten == Spec => []NothingForgotten
<1>1. QED
  BY TracesAccount, InitType, StepType, InitAccount, StepAccount, NextIsWide, PTL DEF Spec

-------------------------------------------------------------------------------
(* Converted objects belong to rows that name a conversion                 *)

(***************************************************************************)
(* The inductive form of ConvertedHasType: past its lookup a conversion    *)
(* has seen its row and written the conversion type, and neither is ever   *)
(* taken back.                                                             *)
(***************************************************************************)
PastLookup == {"fetch", "convert", "store", "mark"}

RowsOK ==
    \A w \in Workers :
        pc[w] \in PastLookup /\ Request(w).fmt \in Conversions =>
            /\ status[Request(w).job] # "absent"
            /\ conversion_type[Request(w).job] \in Conversions

TypedInv == RowsOK /\ ConvertedHasType

(***************************************************************************)
(* Rows are not deleted and keep naming a conversion.                      *)
(***************************************************************************)
RowsKept ==
    \A j \in Jobs :
        /\ status[j] # "absent" => status'[j] # "absent"
        /\ conversion_type[j] \in Conversions => conversion_type'[j] \in Conversions

LEMMA RowsStay == TypeInv /\ [WideNext]_vars => RowsKept
<1> SUFFICES ASSUME TypeInv, [WideNext]_vars PROVE RowsKept
  OBVIOUS
<1> USE DEF TypeInv, TypeOK, StoresTypeOK, RowsKept
<1>1. CASE UNCHANGED storeVars
  BY <1>1 DEF storeVars
<1>2. ASSUME NEW j \in Jobs, NEW e \in Exts, GeneratePresignedUrl(j, e)
      PROVE  RowsKept
  BY <1>2 DEF GeneratePresignedUrl, CreateRow
<1>3. ASSUME NEW w \in Workers, Lookup(w)
      PROVE  RowsKept
  BY <1>3 DEF Lookup, UpdateRecord, HandsOK
<1>4. ASSUME NEW w \in Workers, Mark(w)
      PROVE  RowsKept
  BY <1>4 DEF Mark, UpdateStatus
<1>5. QED
  <2>1. CASE Client
    BY <1>1, <1>2, <2>1
       DEF Client, ClientUpload, ConvertFile, MergeFiles, PublishJob, storeVars
  <2>2. CASE RetryTimeToLive
    BY <1>1, <2>2 DEF RetryTimeToLive
  <2>3. ASSUME NEW w \in Workers, Worker(w) \/ Failure(w) \/ LookupRefused(w)
        PROVE  RowsKept
    BY <1>1, <1>3, <1>4, <2>3
       DEF Worker, WorkerStep, Failure, StartWorker, Receive, ReceiveStale, Dispatch, Fetch,
           Convert, StoreConverted, StoreCompressed, HandOff, Settle, SettleDetached,
           HandOffFails, Crash, Disconnect, LookupRefused, storeVars
  <2>4. CASE UNCHANGED vars
    BY <1>1, <2>4 DEF vars
  <2>5. QED
    BY <2>1, <2>2, <2>3, <2>4 DEF WideNext, Next

(***************************************************************************)
(* A worker past its lookup works on the request it had before the step,   *)
(* and has got there by a lookup, or by no lookup for a compression.       *)
(***************************************************************************)
LEMMA WorkKept ==
    ASSUME TypeInv, [WideNext]_vars, NEW w \in Workers, pc'[w] \in PastLookup
    PROVE  /\ Start(w)' = Start(w) /\ Start(w) \in Accepted
           /\ Request(w)' = Request(w) /\ Request(w) \in Body
           /\ \/ pc[w] \in PastLookup
              \/ Lookup(w)
              \/ Request(w).fmt \notin Conversions
<1> USE DEF TypeInv, TypeOK, WorkerTypeOK, UploadTypeOK, Goto, PastLookup
<1>1. /\ Working(w)' /\ pc \in [Workers -> Steps]
      /\ \A v \in Workers : Working(v) => Start(v) \in Accepted /\ Request(v) \in Body
  BY DEF HandsOK, Working, Accepted, Request
<1> DEFINE Goal == /\ Working(w)
                   /\ hand'[w] = hand[w]
                   /\ Start(w) \in Accepted => bodies'[Start(w)] = bodies[Start(w)]
                   /\ \/ pc[w] \in PastLookup
                      \/ Lookup(w)
                      \/ Request(w).fmt \notin Conversions
<1> SUFFICES Goal
  BY <1>1 DEF Start, Request
<1>2. CASE UNCHANGED <<workerVars, bodies, brokerVars>>
  BY <1>1, <1>2 DEF workerVars, Working
<1>3. ASSUME NEW s \in Starts, NEW body \in Body, PublishJob(s, body), UNCHANGED workerVars
      PROVE  Goal
  BY <1>1, <1>3, PublishJobEffect DEF workerVars, Working, Accepted
<1>4. ASSUME NEW m \in Message, Expire(m), UNCHANGED <<workerVars, bodies, storeVars>>
      PROVE  Goal
  BY <1>1, <1>4 DEF workerVars, Working
<1>5. ASSUME NEW v \in Workers,
             \/ StartWorker(v) \/ Receive(v) \/ ReceiveStale(v) \/ HandOff(v) \/ Settle(v)
             \/ SettleDetached(v) \/ HandOffFails(v) \/ Crash(v) \/ Disconnect(v)
      PROVE  Goal
  BY <1>1, <1>5
     DEF StartWorker, Receive, ReceiveStale, HandOff, Settle, SettleDetached, HandOffFails, Exit,
         Crash, Disconnect, Working
<1>6. ASSUME NEW v \in Workers, Internal(v)
      PROVE  Goal
  <2>1. hand' = hand /\ bodies' = bodies /\ (v # w => pc'[w] = pc[w])
    BY <1>6, InternalEffect DEF brokerVars
  <2>2. CASE v # w
    BY <1>1, <2>1, <2>2 DEF Working
  <2>3. CASE v = w /\ pc[w] \notin PastLookup /\ ~Lookup(w)
    <3>1. Dispatch(w)
      BY <1>1, <1>6, <2>3
         DEF Internal, LookupRefused, Fetch, Convert, StoreConverted, StoreCompressed, Mark
    <3>2. pc'[w] = AfterDispatch(Request(w)) /\ Working(w)
      BY <1>1, <3>1 DEF Dispatch, Working
    <3>3. Request(w).fmt \notin Conversions
      BY <3>2 DEF AfterDispatch, Conversions
    <3>4. QED
      BY <2>1, <3>2, <3>3
  <2>4. CASE v = w /\ (pc[w] \in PastLookup \/ Lookup(w))
    BY <1>6, <2>1, <2>4, InternalEffect DEF Working
  <2>5. QED
    BY <2>2, <2>3, <2>4
<1>7. QED
  BY <1>2, <1>3, <1>4, <1>5, <1>6, StepCases

LEMMA InitTyped == Init => TypedInv
  BY DEF Init, WorkerInit, StoresInit, TypedInv, RowsOK, ConvertedHasType, PastLookup

LEMMA StepTyped == TypeInv /\ TypedInv /\ [WideNext]_vars => TypedInv'
<1> SUFFICES ASSUME TypeInv, TypedInv, [WideNext]_vars PROVE TypedInv'
  OBVIOUS
<1>1. RowsKept
  BY RowsStay
<1>2. RowsOK'
  <2> SUFFICES ASSUME NEW w \in Workers, pc'[w] \in PastLookup, Request(w)'.fmt \in Conversions
               PROVE  /\ status'[Request(w)'.job] # "absent"
                      /\ conversion_type'[Request(w)'.job] \in Conversions
    BY DEF RowsOK
  <2>1. Request(w)' = Request(w) /\ Request(w).job \in Jobs
    BY WorkKept DEF Body
  <2>2. CASE pc[w] \in PastLookup
    BY <1>1, <2>1, <2>2 DEF TypedInv, RowsOK, RowsKept
  <2>3. CASE Lookup(w)
    BY <2>1, <2>3
       DEF Lookup, Goto, UpdateRecord, PastLookup, TypeInv, TypeOK, WorkerTypeOK, StoresTypeOK
  <2>4. QED
    BY <2>1, <2>2, <2>3, WorkKept
<1>3. \A o \in converted' :
         \/ o \in converted
         \/ \E w \in Workers : /\ pc[w] = "store" /\ Request(w).fmt \in Conversions
                               /\ o = <<Request(w).job, Request(w).fmt>>
  <2>1. CASE UNCHANGED converted
    BY <2>1
  <2>2. ASSUME NEW w \in Workers, StoreConverted(w)
        PROVE  converted' \subseteq converted \cup {<<Request(w).job, Request(w).fmt>>}
    BY <2>2 DEF StoreConverted
  <2>3. UNCHANGED converted \/ \E w \in Workers : StoreConverted(w)
    BY DEF WideNext, Next, vars, Client, GeneratePresignedUrl, ClientUpload, ConvertFile,
           MergeFiles, PublishJob, RetryTimeToLive, Worker, WorkerStep, Failure, StartWorker,
           Receive, ReceiveStale, Dispatch, Lookup, Fetch, Convert, StoreCompressed, Mark,
           HandOff, Settle, SettleDetached, HandOffFails, Crash, Disconnect, LookupRefused, storeVars
  <2>4. QED
    BY <2>1, <2>2, <2>3 DEF StoreConverted
<1>4. ConvertedHasType'
  <2> SUFFICES ASSUME NEW o \in converted'
               PROVE  status'[o[1]] # "absent" /\ conversion_type'[o[1]] \in Conversions
    BY DEF ConvertedHasType, Bucket
  <2>1. CASE o \in converted
    <3>1. o[1] \in Jobs
      BY <2>1 DEF TypeInv, TypeOK, StoresTypeOK
    <3>2. QED
      BY <1>1, <2>1, <3>1 DEF TypedInv, ConvertedHasType, Bucket, RowsKept
  <2>2. ASSUME NEW w \in Workers, pc[w] = "store", Request(w).fmt \in Conversions,
               o = <<Request(w).job, Request(w).fmt>>
        PROVE  status'[o[1]] # "absent" /\ conversion_type'[o[1]] \in Conversions
    <3>1. Request(w).job \in Jobs
      BY <2>2 DEF TypeInv, TypeOK, UploadTypeOK, HandsOK, Working, Accepted, Request, Body
    <3>2. QED
      BY <1>1, <2>2, <3>1 DEF TypedInv, RowsOK, RowsKept, PastLookup
  <2>3. QED
    BY <1>3, <2>1, <2>2
<1>5. QED
  BY <1>2, <1>4 DEF TypedInv

(***************************************************************************)
(* A converted object is one the download service looks for in the bucket  *)
(* it is in, for any number of jobs and requests for one job.              *)
(***************************************************************************)
THEOREM ConvertedAreTyped == Spec => []ConvertedHasType
<1>1. TypedInv => ConvertedHasType
  BY DEF TypedInv
<1>2. QED
  BY <1>1, InitType, StepType, InitTyped, StepTyped, NextIsWide, PTL DEF Spec

-------------------------------------------------------------------------------
(* Duplicates are paid for by faults                                       *)

(***************************************************************************)
(* Another copy of a message is another element of the copies of its       *)
(* request, and the copies of other requests are left alone.               *)
(***************************************************************************)
LEMMA InUnion ==
    ASSUME NEW S, NEW T \in S, NEW c \in T
    PROVE  c \in UNION S
  OBVIOUS

LEMMA CopyMember ==
    ASSUME NEW r, NEW s, NEW c
    PROVE  c \in Copies(r, s) <=>
              \E q \in Queues, m \in Message : \E i \in 1..r[q][m] :
                 m.start = s /\ c = <<q, m, i>>
<1>1. ASSUME c \in Copies(r, s)
      PROVE  \E q \in Queues, m \in Message : \E i \in 1..r[q][m] : m.start = s /\ c = <<q, m, i>>
  <2>0. PICK S \in {{<<q, m, n>> : n \in 1..r[q][m]} :
                      q \in Queues, m \in {d \in Message : d.start = s}} : c \in S
    BY <1>1 DEF Copies
  <2>1. PICK q \in Queues, m \in {d \in Message : d.start = s} :
           S = {<<q, m, n>> : n \in 1..r[q][m]}
    BY <2>0
  <2>2. PICK i \in 1..r[q][m] : c = <<q, m, i>>
    BY <2>0, <2>1
  <2>3. QED
    BY <2>2
<1>2. ASSUME NEW q \in Queues, NEW m \in Message, NEW i \in 1..r[q][m],
             m.start = s, c = <<q, m, i>>
      PROVE  c \in Copies(r, s)
  <2> DEFINE T == {<<q, m, n>> : n \in 1..r[q][m]}
             All == {{<<p, d, n>> : n \in 1..r[p][d]} :
                        p \in Queues, d \in {e \in Message : e.start = s}}
  <2>1. c \in T
    BY <1>2
  <2>2. T \in All
    BY <1>2
  <2>3. Copies(r, s) = UNION All
    BY DEF Copies
  <2> HIDE DEF T, All
  <2>4. QED
    BY <2>1, <2>2, <2>3, InUnion
<1>3. QED
  BY <1>1, <1>2

OneMore(r, r1, q, m) == r1 = [r EXCEPT ![q][m] = @ + 1]

OneLess(r, r1, q, m) == r[q][m] > 0 /\ r1 = [r EXCEPT ![q][m] = @ - 1]

LEMMA OneLonger ==
    ASSUME NEW k \in Nat, NEW i
    PROVE  i \in 1..(k + 1) <=> i \in 1..k \/ i = k + 1
  OBVIOUS

LEMMA CopyAdded ==
    ASSUME NEW r \in [Queues -> [Message -> Nat]], NEW q \in Queues, NEW m \in Message,
           NEW r1, OneMore(r, r1, q, m),
           NEW s, IsFiniteSet(Copies(r, s))
    PROVE  /\ IsFiniteSet(Copies(r1, s))
           /\ s = m.start => Cardinality(Copies(r1, s)) = Cardinality(Copies(r, s)) + 1
           /\ s # m.start => Copies(r1, s) = Copies(r, s)
<1> DEFINE new == <<q, m, r[q][m] + 1>>
<1>1. \A p \in Queues, d \in Message :
         /\ r[p][d] \in Nat
         /\ r1[p][d] = IF p = q /\ d = m THEN r[p][d] + 1 ELSE r[p][d]
  BY DEF OneMore
<1>2. ASSUME NEW c
      PROVE  c \in Copies(r1, s) <=> c \in Copies(r, s) \/ (s = m.start /\ c = new)
  <2>1. ASSUME NEW p \in Queues, NEW d \in Message, NEW i
        PROVE  i \in 1..r1[p][d] <=> i \in 1..r[p][d] \/ (p = q /\ d = m /\ i = r[q][m] + 1)
    <3>1. CASE p = q /\ d = m
      <4>1. r[q][m] \in Nat /\ r1[q][m] = r[q][m] + 1
        BY <1>1, <3>1
      <4>2. i \in 1..(r[q][m] + 1) <=> i \in 1..r[q][m] \/ i = r[q][m] + 1
        BY <4>1, OneLonger
      <4>3. QED
        BY <3>1, <4>1, <4>2
    <3>2. CASE ~(p = q /\ d = m)
      BY <1>1, <3>2
    <3>3. QED
      BY <3>1, <3>2
  <2>2. c \in Copies(r1, s) => c \in Copies(r, s) \/ (s = m.start /\ c = new)
    BY <2>1, CopyMember
  <2>3. c \in Copies(r, s) => c \in Copies(r1, s)
    BY <2>1, CopyMember
  <2>4. s = m.start /\ c = new => c \in Copies(r1, s)
    <3>1. r[q][m] + 1 \in 1..r1[q][m]
      BY <2>1
    <3>2. QED
      BY <3>1, CopyMember
  <2>5. QED
    BY <2>2, <2>3, <2>4
<1>3. new \notin Copies(r, s)
  <2>1. r[q][m] + 1 \notin 1..r[q][m]
    BY <1>1
  <2>2. QED
    BY <2>1, CopyMember
<1> HIDE DEF new
<1>4. CASE s = m.start
  <2>1. Copies(r1, s) = Copies(r, s) \cup {new}
    BY <1>2, <1>4
  <2>2. QED
    <3>1. /\ IsFiniteSet(Copies(r1, s))
          /\ Cardinality(Copies(r1, s)) = Cardinality(Copies(r, s)) + 1
      BY <1>3, <2>1, FS_AddElement
    <3>2. QED
      BY <1>4, <3>1
<1>5. CASE s # m.start
  <2>1. Copies(r1, s) = Copies(r, s)
    BY <1>2, <1>5
  <2>2. QED
    BY <1>5, <2>1
<1>6. QED
  BY <1>4, <1>5

LEMMA CopyTaken ==
    ASSUME NEW r \in [Queues -> [Message -> Nat]], NEW q \in Queues, NEW m \in Message,
           NEW r1, OneLess(r, r1, q, m),
           NEW s, IsFiniteSet(Copies(r, s))
    PROVE  /\ IsFiniteSet(Copies(r1, s))
           /\ s = m.start => Cardinality(Copies(r1, s)) = Cardinality(Copies(r, s)) - 1
           /\ s # m.start => Copies(r1, s) = Copies(r, s)
<1> DEFINE old == <<q, m, r[q][m]>>
<1>1. \A p \in Queues, d \in Message :
         /\ r[p][d] \in Nat
         /\ r1[p][d] = IF p = q /\ d = m THEN r[p][d] - 1 ELSE r[p][d]
  BY DEF OneLess
<1>2. ASSUME NEW c
      PROVE  c \in Copies(r1, s) <=> c \in Copies(r, s) /\ ~(s = m.start /\ c = old)
  <2>1. ASSUME NEW p \in Queues, NEW d \in Message, NEW i
        PROVE  i \in 1..r1[p][d] <=> i \in 1..r[p][d] /\ ~(p = q /\ d = m /\ i = r[q][m])
    <3>1. ASSUME NEW n \in Nat
          PROVE  i \in 1..(n - 1) <=> i \in 1..n /\ i # n
      OBVIOUS
    <3>2. CASE p = q /\ d = m
      <4>1. r[q][m] \in Nat /\ r1[p][d] = r[q][m] - 1 /\ r[p][d] = r[q][m]
        BY <1>1, <3>2
      <4>2. i \in 1..(r[q][m] - 1) <=> i \in 1..r[q][m] /\ i # r[q][m]
        BY <3>1, <4>1
      <4>3. QED
        BY <3>2, <4>1, <4>2, Zenon
    <3>3. CASE ~(p = q /\ d = m)
      <4>1. r1[p][d] = r[p][d]
        BY <1>1, <3>3, Zenon
      <4>2. QED
        BY <3>3, <4>1, Zenon
    <3>4. QED
      BY <3>2, <3>3
  <2>2. ASSUME c \in Copies(r1, s)
        PROVE  c \in Copies(r, s) /\ ~(s = m.start /\ c = old)
    <3>1. PICK p \in Queues, d \in Message : \E i \in 1..r1[p][d] : d.start = s /\ c = <<p, d, i>>
      BY <2>2, CopyMember
    <3>2. PICK i \in 1..r1[p][d] : d.start = s /\ c = <<p, d, i>>
      BY <3>1
    <3>3. i \in 1..r[p][d] /\ ~(p = q /\ d = m /\ i = r[q][m])
      BY <2>1, <3>2
    <3>4. c \in Copies(r, s)
      BY <3>2, <3>3, CopyMember
    <3>5. c # old
      BY <3>2, <3>3
    <3>6. QED
      BY <3>4, <3>5
  <2>3. c \in Copies(r, s) /\ ~(s = m.start /\ c = old) => c \in Copies(r1, s)
    BY <2>1, CopyMember
  <2>4. QED
    BY <2>2, <2>3
<1>3. s = m.start => old \in Copies(r, s)
  <2>1. r[q][m] \in 1..r[q][m]
    BY <1>1 DEF OneLess
  <2>2. QED
    BY <2>1, CopyMember
<1> HIDE DEF old
<1>4. CASE s = m.start
  <2>1. Copies(r1, s) = Copies(r, s) \ {old}
    BY <1>2, <1>4
  <2>2. QED
    <3>1. /\ IsFiniteSet(Copies(r1, s))
          /\ Cardinality(Copies(r1, s)) = Cardinality(Copies(r, s)) - 1
      BY <1>3, <1>4, <2>1, FS_RemoveElement
    <3>2. QED
      BY <1>4, <3>1
<1>5. CASE s # m.start
  <2>1. Copies(r1, s) = Copies(r, s)
    BY <1>2, <1>5
  <2>2. QED
    BY <1>5, <2>1
<1>6. QED
  BY <1>4, <1>5

(***************************************************************************)
(* A hand-off publishes at most one copy, and of the request in hand.      *)
(***************************************************************************)
LEMMA HandOffPublishes ==
    ASSUME TypeInv, NEW w \in Workers, HandOff(w)
    PROVE  \/ ready' = ready
           \/ \E q \in Queues, m \in Message : /\ m.start = Start(w)
                                               /\ ready' = [ready EXCEPT ![q][m] = @ + 1]
<1>1. hand[w] \in Message /\ ready \in [Queues -> [Message -> Nat]]
  BY DEF HandOff, HandsOK, Working, TypeInv, TypeOK, WorkerTypeOK, BrokerTypeOK
<1>2. CASE hand[w].retry < MaxRetries
  <2>1. NextTry(hand[w]) \in Message /\ NextTry(hand[w]).start = Start(w)
    BY <1>1, <1>2 DEF NextTry, Message, Start
  <2>2. PublishOnto(ready, "retry_exchange", "retry", NextTry(hand[w]))
    BY <1>2 DEF HandOff, Publish
  <2>3. QED
    BY <1>1, <2>1, <2>2, Routes, RoutedEffect, DroppedEffect DEF Queues
<1>3. CASE ~(hand[w].retry < MaxRetries)
  <2>1. PublishOnto(ready, "dlx_exchange", "dead", hand[w])
    BY <1>3 DEF HandOff, Publish
  <2>2. QED
    BY <1>1, <2>1, Routes, RoutedEffect, DroppedEffect DEF Queues, Start
<1>4. QED
  BY <1>2, <1>3

(***************************************************************************)
(* The inductive form of DuplicatesBounded: the sets counted are finite.   *)
(***************************************************************************)
Bounded(s) ==
    /\ IsFiniteSet(Copies(ready, s))
    /\ IsFiniteSet(MayHandOff(s))
    /\ Cardinality(Copies(ready, s)) + Cardinality(MayHandOff(s)) <= 1 + faults

BoundInv == \A s \in Starts : Bounded(s)

LEMMA InitBounded == Init => BoundInv
<1> SUFFICES ASSUME Init, NEW s \in Starts PROVE Bounded(s)
  BY DEF BoundInv
<1>1. Copies(ready, s) = {}
  <2>1. \A q \in Queues, m \in Message : ready[q][m] = 0
    BY DEF Init, BrokerInit
  <2>2. \A c : c \notin Copies(ready, s)
    BY <2>1, CopyMember
  <2>3. QED
    BY <2>2
<1>2. MayHandOff(s) = {}
  BY DEF Init, WorkerInit, MayHandOff, HeldBy, Buffered
<1>3. QED
  BY <1>1, <1>2, FS_EmptySet DEF Bounded, Init, WorkerInit

(***************************************************************************)
(* A step that pays for its copies with faults keeps the bound, and so     *)
(* does one that pays with a worker that could hand off before it.         *)
(***************************************************************************)
LEMMA PaidWithFaults ==
    ASSUME NEW s \in Starts, Bounded(s), faults \in Nat, faults' \in Nat,
           IsFiniteSet(Copies(ready', s)),
           Cardinality(Copies(ready', s)) <= Cardinality(Copies(ready, s)) + (faults' - faults),
           MayHandOff(s)' \subseteq MayHandOff(s)
    PROVE  Bounded(s)'
<1>1. IsFiniteSet(MayHandOff(s)') /\ Cardinality(MayHandOff(s)') <= Cardinality(MayHandOff(s))
  BY FS_Subset DEF Bounded
<1>2. /\ Cardinality(MayHandOff(s)') \in Nat /\ Cardinality(MayHandOff(s)) \in Nat
      /\ Cardinality(Copies(ready', s)) \in Nat /\ Cardinality(Copies(ready, s)) \in Nat
  BY <1>1, FS_CardinalityType DEF Bounded
<1>3. QED
  BY <1>1, <1>2 DEF Bounded

LEMMA PaidWithFault ==
    ASSUME NEW s \in Starts, Bounded(s), faults \in Nat, faults' = faults + 1,
           IsFiniteSet(Copies(ready', s)),
           Cardinality(Copies(ready', s)) <= Cardinality(Copies(ready, s)),
           NEW c, MayHandOff(s)' \subseteq MayHandOff(s) \cup {c}
    PROVE  Bounded(s)'
<1>1. /\ Cardinality(MayHandOff(s)) \in Nat
      /\ Cardinality(Copies(ready', s)) \in Nat /\ Cardinality(Copies(ready, s)) \in Nat
  BY FS_CardinalityType DEF Bounded
<1>2. /\ IsFiniteSet(MayHandOff(s) \cup {c})
      /\ Cardinality(MayHandOff(s) \cup {c}) =
            IF c \in MayHandOff(s) THEN Cardinality(MayHandOff(s)) ELSE Cardinality(MayHandOff(s)) + 1
  BY FS_AddElement DEF Bounded
<1>3. /\ IsFiniteSet(MayHandOff(s)')
      /\ Cardinality(MayHandOff(s)') <= Cardinality(MayHandOff(s) \cup {c})
  BY <1>2, FS_Subset
<1>4. Cardinality(MayHandOff(s)') \in Nat
  BY <1>3, FS_CardinalityType
<1>5. QED
  BY <1>1, <1>2, <1>3, <1>4 DEF Bounded

LEMMA HandOffMember ==
    ASSUME NEW s, NEW v \in Workers
    PROVE  /\ <<v, "hand">> \in MayHandOff(s) <=> HeldBy(v, s) /\ pc[v] # "settle"
           /\ <<v, "buffer">> \in MayHandOff(s) <=> Buffered(v, s)
  BY DEF MayHandOff

(***************************************************************************)
(* A copy that moves from a buffer to the hand counts once.                *)
(***************************************************************************)
LEMMA MovesToHand ==
    ASSUME NEW s \in Starts, Bounded(s), faults \in Nat, faults' = faults, ready' = ready,
           NEW b \in MayHandOff(s), NEW c, MayHandOff(s)' \subseteq (MayHandOff(s) \ {b}) \cup {c}
    PROVE  Bounded(s)'
<1> DEFINE rest == MayHandOff(s) \ {b}
<1>1. /\ IsFiniteSet(rest) /\ Cardinality(rest) = Cardinality(MayHandOff(s)) - 1
      /\ Cardinality(MayHandOff(s)) \in Nat
  BY FS_RemoveElement, FS_CardinalityType DEF Bounded
<1> HIDE DEF rest
<1>2. /\ IsFiniteSet(rest \cup {c})
      /\ Cardinality(rest \cup {c}) = IF c \in rest THEN Cardinality(rest) ELSE Cardinality(rest) + 1
  BY <1>1, FS_AddElement
<1>3. MayHandOff(s)' \subseteq rest \cup {c}
  BY DEF rest
<1>4. /\ IsFiniteSet(MayHandOff(s)')
      /\ Cardinality(MayHandOff(s)') <= Cardinality(rest \cup {c})
  BY <1>2, <1>3, FS_Subset
<1>5. Cardinality(MayHandOff(s)') <= Cardinality(MayHandOff(s))
  <2>1. Cardinality(MayHandOff(s)') \in Nat
    BY <1>4, FS_CardinalityType
  <2>2. QED
    BY <1>1, <1>2, <1>4, <2>1
<1>6. Cardinality(MayHandOff(s)') \in Nat /\ Cardinality(Copies(ready, s)) \in Nat
  BY <1>4, FS_CardinalityType DEF Bounded
<1>7. QED
  BY <1>1, <1>4, <1>5, <1>6 DEF Bounded

LEMMA PaidWithHand ==
    ASSUME NEW s \in Starts, Bounded(s), faults \in Nat, faults' \in Nat, faults' >= faults,
           IsFiniteSet(Copies(ready', s)),
           Cardinality(Copies(ready', s)) <= Cardinality(Copies(ready, s)) + 1,
           NEW w \in MayHandOff(s), MayHandOff(s)' \subseteq MayHandOff(s) \ {w}
    PROVE  Bounded(s)'
<1>1. /\ IsFiniteSet(MayHandOff(s)')
      /\ Cardinality(MayHandOff(s)') <= Cardinality(MayHandOff(s)) - 1
  <2>1. /\ IsFiniteSet(MayHandOff(s) \ {w})
        /\ Cardinality(MayHandOff(s) \ {w}) = Cardinality(MayHandOff(s)) - 1
    BY FS_RemoveElement DEF Bounded
  <2>2. QED
    BY <2>1, FS_Subset
<1>2. /\ Cardinality(MayHandOff(s)') \in Nat /\ Cardinality(MayHandOff(s)) \in Nat
      /\ Cardinality(Copies(ready', s)) \in Nat /\ Cardinality(Copies(ready, s)) \in Nat
  BY <1>1, FS_CardinalityType DEF Bounded
<1>3. QED
  BY <1>1, <1>2 DEF Bounded

LEMMA StepBounded == TypeInv /\ OwnerInv /\ BoundInv /\ [WideNext]_vars => BoundInv'
<1> SUFFICES ASSUME TypeInv, OwnerInv, BoundInv, [WideNext]_vars, NEW s \in Starts
             PROVE  Bounded(s)'
  BY DEF BoundInv
<1>0. /\ ready \in [Queues -> [Message -> Nat]]
      /\ hand \in [Workers -> Message \cup {NoMessage}] /\ pc \in [Workers -> Steps]
      /\ faults \in Nat /\ faults' \in Nat
      /\ Bounded(s)
      /\ IsFiniteSet(Copies(ready, s)) /\ Cardinality(Copies(ready, s)) \in Nat
  BY StepType, FS_CardinalityType
     DEF TypeInv, TypeOK, BrokerTypeOK, WorkerTypeOK, BoundInv, Bounded
<1>1. CASE UNCHANGED <<workerVars, bodies, brokerVars>>
  BY <1>0, <1>1, PaidWithFaults DEF workerVars, brokerVars, MayHandOff, HeldBy, Buffered, Start
<1>2. ASSUME NEW t \in Starts, NEW body \in Body, PublishJob(t, body), UNCHANGED workerVars
      PROVE  Bounded(s)'
  <2>0. /\ "main_queue" \in Queues /\ FirstTry(t) \in Message /\ FirstTry(t).start = t
        /\ ready' = ready \/ OneMore(ready, ready', "main_queue", FirstTry(t))
    BY <1>2, PublishJobEffect DEF FirstTry, OneMore, Queues
  <2>1. MayHandOff(s)' = MayHandOff(s) /\ faults' = faults
    BY <1>2 DEF workerVars, MayHandOff, HeldBy, Buffered, Start
  <2>2. CASE s = t
    <3>1. MayHandOff(s) = {}
      BY <1>2, <2>2, PublishJobEffect DEF MayHandOff, HeldBy, Buffered, TypeInv, HandsOK
    <3>2. \A c : c \notin Copies(ready, s)
      BY <1>2, <2>2, CopyMember, PublishJobEffect, <1>0 DEF TypeInv, CopiesOK
    <3>3. Copies(ready, s) = {} /\ Cardinality(Copies(ready, s)) = 0 /\ Cardinality(MayHandOff(s)) = 0
      BY <3>1, <3>2, FS_EmptySet
    <3>4. IsFiniteSet(Copies(ready', s)) /\ Cardinality(Copies(ready', s)) <= 1
      <4>1. CASE ready' = ready
        <5>1. Copies(ready', s) = {}
          BY <3>3, <4>1
        <5>2. QED
          BY <5>1, FS_EmptySet
      <4>2. CASE OneMore(ready, ready', "main_queue", FirstTry(t))
        <5>1. /\ IsFiniteSet(Copies(ready', s))
              /\ Cardinality(Copies(ready', s)) = Cardinality(Copies(ready, s)) + 1
          BY <1>0, <2>0, <2>2, <4>2, CopyAdded
        <5>2. QED
          BY <3>3, <5>1
      <4>3. QED
        BY <2>0, <4>1, <4>2
    <3>5. Cardinality(Copies(ready', s)) \in Nat
      BY <3>4, FS_CardinalityType
    <3>6. QED
      BY <1>0, <2>1, <3>1, <3>3, <3>4, <3>5, FS_EmptySet DEF Bounded
  <2>3. CASE s # t
    <3>1. IsFiniteSet(Copies(ready', s)) /\ Cardinality(Copies(ready', s)) = Cardinality(Copies(ready, s))
      BY <1>0, <2>0, <2>3, CopyAdded
    <3>2. QED
      BY <1>0, <2>1, <3>1, PaidWithFaults
  <2>4. QED
    BY <2>2, <2>3
<1>3. ASSUME NEW m \in Message, Expire(m), UNCHANGED <<workerVars, bodies, storeVars>>
      PROVE  Bounded(s)'
  <2>0. "retry_queue" \in Queues /\ OneLess(ready, ready', "retry_queue", m)
    BY <1>3, ExpireEffect DEF OneLess, Queues
  <2>1. /\ IsFiniteSet(Copies(ready', s))
        /\ Cardinality(Copies(ready', s)) <= Cardinality(Copies(ready, s))
    BY <1>0, <2>0, CopyTaken
  <2>2. QED
    BY <1>0, <1>3, <2>1, PaidWithFaults DEF workerVars, MayHandOff, HeldBy, Buffered, Start
<1>4. ASSUME NEW w \in Workers, StartWorker(w) \/ Settle(w) \/ SettleDetached(w)
      PROVE  Bounded(s)'
  <2>0. ready' = ready /\ faults' = faults /\ stale \in [Workers -> SUBSET Message]
    BY <1>4 DEF StartWorker, Settle, SettleDetached, brokerVars, TypeInv, TypeOK, WorkerTypeOK
  <2>1. MayHandOff(s)' \subseteq MayHandOff(s) /\ ready' = ready /\ faults' = faults
    <3>1. \A v \in Workers : /\ HeldBy(v, s)' => HeldBy(v, s) /\ pc'[v] = pc[v]
                             /\ Buffered(v, s)' => Buffered(v, s)
      <4>1. CASE StartWorker(w)
        BY <1>0, <2>0, <4>1 DEF StartWorker, Goto, HeldBy, Buffered, Start, TypeInv, HandsOK, Working
      <4>2. CASE Settle(w)
        BY <1>0, <2>0, <4>2 DEF Settle, Goto, HeldBy, Buffered, Start
      <4>3. CASE SettleDetached(w)
        BY <1>0, <2>0, <4>3 DEF SettleDetached, Exit, Goto, HeldBy, Buffered, Start
      <4>4. QED
        BY <1>4, <4>1, <4>2, <4>3
    <3>2. QED
      BY <2>0, <3>1 DEF MayHandOff
  <2>2. QED
    BY <1>0, <2>1, PaidWithFaults
<1>5. ASSUME NEW w \in Workers, Receive(w)
      PROVE  Bounded(s)'
  <2> PICK m \in Message : Deliver(w, m) /\ hand' = [hand EXCEPT ![w] = m] /\ Goto(w, "dispatch")
    BY <1>5 DEF Receive
  <2>1. /\ "main_queue" \in Queues /\ OneLess(ready, ready', "main_queue", m)
        /\ faults' = faults
    BY <1>5 DEF Receive, Deliver, OneLess, Queues
  <2>2. /\ IsFiniteSet(Copies(ready', s))
        /\ s = m.start => Cardinality(Copies(ready', s)) = Cardinality(Copies(ready, s)) - 1
        /\ s # m.start => Copies(ready', s) = Copies(ready, s)
    BY <1>0, <2>1, CopyTaken
  <2>3. CASE s # m.start
    <3>1. MayHandOff(s)' \subseteq MayHandOff(s)
      BY <1>0, <1>5, <2>3 DEF Receive, MayHandOff, HeldBy, Buffered, Start, Goto
    <3>2. QED
      BY <1>0, <2>1, <2>2, <2>3, <3>1, PaidWithFaults
  <2>4. CASE s = m.start
    <3>1. MayHandOff(s)' \subseteq MayHandOff(s) \cup {<<w, "hand">>}
      BY <1>0, <1>5 DEF Receive, MayHandOff, HeldBy, Buffered, Start, Goto
    <3>2. /\ IsFiniteSet(MayHandOff(s)) /\ Cardinality(MayHandOff(s)) \in Nat
          /\ IsFiniteSet(MayHandOff(s) \cup {<<w, "hand">>})
          /\ Cardinality(MayHandOff(s) \cup {<<w, "hand">>}) <= Cardinality(MayHandOff(s)) + 1
      <4>1. IsFiniteSet(MayHandOff(s)) /\ Cardinality(MayHandOff(s)) \in Nat
        BY <1>0, FS_CardinalityType DEF Bounded
      <4>2. /\ IsFiniteSet(MayHandOff(s) \cup {<<w, "hand">>})
            /\ Cardinality(MayHandOff(s) \cup {<<w, "hand">>}) =
                  IF <<w, "hand">> \in MayHandOff(s) THEN Cardinality(MayHandOff(s)) ELSE Cardinality(MayHandOff(s)) + 1
        BY <4>1, FS_AddElement
      <4>3. QED
        BY <4>1, <4>2
    <3>3. /\ IsFiniteSet(MayHandOff(s)')
          /\ Cardinality(MayHandOff(s)') <= Cardinality(MayHandOff(s) \cup {<<w, "hand">>})
      BY <3>1, <3>2, FS_Subset
    <3>4. Cardinality(MayHandOff(s)') \in Nat /\ Cardinality(MayHandOff(s) \cup {<<w, "hand">>}) \in Nat
      BY <3>2, <3>3, FS_CardinalityType
    <3>5. QED
      BY <1>0, <2>1, <2>2, <2>4, <3>2, <3>3, <3>4 DEF Bounded
  <2>5. QED
    BY <2>3, <2>4
<1>6. ASSUME NEW w \in Workers, Internal(w)
      PROVE  Bounded(s)'
  <2>1. ready' = ready /\ MayHandOff(s)' \subseteq MayHandOff(s)
    BY <1>6, InternalEffect DEF brokerVars, MayHandOff, HeldBy, Buffered, Start
  <2>2. faults' >= faults
    BY <1>0, <1>6 DEF Internal, Dispatch, Lookup, Fetch, Convert, StoreConverted,
                      StoreCompressed, Mark, LookupRefused, Fault
  <2>3. QED
    BY <1>0, <2>1, <2>2, PaidWithFaults
<1>7. ASSUME NEW w \in Workers, HandOff(w)
      PROVE  Bounded(s)'
  <2>0. \/ ready' = ready
        \/ \E q \in Queues, m \in Message : m.start = Start(w) /\ OneMore(ready, ready', q, m)
    BY <1>7, HandOffPublishes DEF OneMore
  <2>1. faults' = faults /\ MayHandOff(s)' \subseteq MayHandOff(s) \ {<<w, "hand">>}
    BY <1>0, <1>7 DEF HandOff, Goto, MayHandOff, HeldBy, Buffered, Start
  <2>2. CASE s = Start(w)
    <3>1. <<w, "hand">> \in MayHandOff(s)
      BY <1>7, <2>2 DEF HandOff, MayHandOff, HeldBy, TypeInv, HandsOK, Working
    <3>2. /\ IsFiniteSet(Copies(ready', s))
          /\ Cardinality(Copies(ready', s)) <= Cardinality(Copies(ready, s)) + 1
      BY <1>0, <2>0, <2>2, CopyAdded
    <3>3. QED
      BY <1>0, <2>1, <3>1, <3>2, PaidWithHand
  <2>3. CASE s # Start(w)
    <3>1. /\ IsFiniteSet(Copies(ready', s))
          /\ Cardinality(Copies(ready', s)) = Cardinality(Copies(ready, s))
      BY <1>0, <2>0, <2>3, CopyAdded
    <3>2. QED
      BY <1>0, <2>1, <3>1, PaidWithFaults
  <2>4. QED
    BY <2>2, <2>3
<1>8. ASSUME NEW w \in Workers, HandOffFails(w)
      PROVE  Bounded(s)'
  <2>1. MayHandOff(s)' \subseteq MayHandOff(s)
    BY <1>0, <1>8 DEF HandOffFails, Exit, Goto, MayHandOff, HeldBy, Buffered, Start
  <2>2. ready' = ready /\ faults' >= faults
    BY <1>0, <1>8, RejectEffect DEF HandOffFails, Fault
  <2>3. QED
    BY <1>0, <2>1, <2>2, PaidWithFaults
<1>9. ASSUME NEW w \in Workers, Crash(w) \/ Disconnect(w), MayHandOff(s)' \subseteq MayHandOff(s)
      PROVE  Bounded(s)'
  <2>1. faults' = faults + 1
    BY <1>9 DEF Crash, Disconnect, Fault
  <2>2. \/ ready' = ready
        \/ /\ "main_queue" \in Queues /\ unacked[w] \in Message
           /\ OneMore(ready, ready', "main_queue", unacked[w])
    BY <1>9, RequeueEffect DEF Crash, Disconnect, brokerVars, OneMore, Queues
  <2>3. /\ IsFiniteSet(Copies(ready', s))
        /\ Cardinality(Copies(ready', s)) <= Cardinality(Copies(ready, s)) + 1
    BY <1>0, <2>2, CopyAdded
  <2>4. QED
    BY <1>0, <1>9, <2>1, <2>3, PaidWithFaults
<1>10. ASSUME NEW w \in Workers, Crash(w)
       PROVE  MayHandOff(s)' \subseteq MayHandOff(s)
  BY <1>0, <1>10 DEF Crash, Exit, Goto, MayHandOff, HeldBy, Buffered, Start
<1>11. ASSUME NEW w \in Workers, Disconnect(w)
       PROVE  Bounded(s)'
  <2>0. PICK sent \in SUBSET {m \in Message : ready["main_queue"][m] > 0} :
           stale' = [stale EXCEPT ![w] = @ \cup sent]
    BY <1>11 DEF Disconnect
  <2>1. UNCHANGED <<pc, hand>> /\ faults' = faults + 1
    BY <1>11 DEF Disconnect, Fault
  <2>2. MayHandOff(s)' \subseteq MayHandOff(s) \cup {<<w, "buffer">>}
    BY <1>0, <2>0, <2>1 DEF MayHandOff, HeldBy, Buffered, Start
  <2>3. CASE \E m \in sent : m.start = s
    <3>1. Attached(w) => unacked[w] \in Message /\ unacked[w].start # s
      <4>1. PICK m \in sent : m.start = s
        BY <2>3
      <4>2. m \in Message /\ m.retry = 0 /\ unacked[w] # m
        BY <4>1 DEF OwnerInv, FirstTriesOnly, OneOwner
      <4>3. Attached(w) => unacked[w] \in Message /\ unacked[w].retry = 0
        BY DEF OwnerInv, FirstTriesOnly, Attached, TypeInv, HandsOK, TypeOK, BrokerTypeOK
      <4>4. QED
        BY <4>1, <4>2, <4>3 DEF Message
    <3>2. ready' = ready \/ (/\ Attached(w) /\ "main_queue" \in Queues
                             /\ OneMore(ready, ready', "main_queue", unacked[w]))
      BY <1>11, RequeueEffect DEF Disconnect, brokerVars, OneMore, Queues
    <3>3. Copies(ready', s) = Copies(ready, s)
      BY <1>0, <3>1, <3>2, CopyAdded
    <3>4. QED
      BY <1>0, <2>1, <2>2, <3>3, PaidWithFault
  <2>4. CASE ~ \E m \in sent : m.start = s
    <3>1. MayHandOff(s)' \subseteq MayHandOff(s)
      BY <1>0, <2>0, <2>1, <2>4 DEF MayHandOff, HeldBy, Buffered, Start
    <3>2. QED
      BY <1>9, <1>11, <3>1
  <2>5. QED
    BY <2>3, <2>4
<1>12. ASSUME NEW w \in Workers, ReceiveStale(w)
       PROVE  Bounded(s)'
  <2> PICK m \in stale[w] : /\ pc[w] = "idle"
                            /\ hand' = [hand EXCEPT ![w] = m]
                            /\ stale' = [stale EXCEPT ![w] = @ \ {m}]
                            /\ Goto(w, "dispatch")
                            /\ UNCHANGED <<finished, faults, bodies, brokerVars, storeVars>>
    BY <1>12 DEF ReceiveStale
  <2>0. /\ stale \in [Workers -> SUBSET Message]
        /\ ready' = ready /\ faults' = faults
        /\ \A n \in stale[w] : n.retry = 0
    BY DEF TypeInv, TypeOK, WorkerTypeOK, OwnerInv, FirstTriesOnly, brokerVars
  <2>1. CASE s = m.start
    <3>1. <<w, "buffer">> \in MayHandOff(s)
      BY <2>1 DEF MayHandOff, Buffered
    <3>2. \A n \in stale[w] : n.start = s => n = m
      BY <2>0, <2>1 DEF Message
    <3>3. ~Buffered(w, s)'
      BY <2>0, <3>2 DEF Buffered
    <3>4. MayHandOff(s)' \subseteq (MayHandOff(s) \ {<<w, "buffer">>}) \cup {<<w, "hand">>}
      <4>1. \A v \in Workers : v # w => /\ stale'[v] = stale[v]
                                       /\ hand'[v] = hand[v]
                                       /\ pc'[v] = pc[v]
        BY <1>0, <2>0 DEF Goto
      <4>2. ASSUME NEW v \in Workers, Buffered(v, s)'
            PROVE  <<v, "buffer">> \in MayHandOff(s) \ {<<w, "buffer">>}
        <5>1. v # w /\ <<v, "buffer">> # <<w, "buffer">> /\ Buffered(v, s)
          BY <3>3, <4>1, <4>2 DEF Buffered
        <5>2. QED
          BY <5>1, HandOffMember
      <4>3. ASSUME NEW v \in Workers, HeldBy(v, s)', pc'[v] # "settle"
            PROVE  <<v, "hand">> \in (MayHandOff(s) \ {<<w, "buffer">>}) \cup {<<w, "hand">>}
        <5>1. CASE v # w
          <6>1. HeldBy(v, s) /\ pc[v] # "settle"
            BY <4>1, <4>3, <5>1 DEF HeldBy, Start
          <6>2. <<v, "hand">> \in MayHandOff(s) /\ <<v, "hand">> # <<w, "buffer">>
            BY <6>1, HandOffMember
          <6>3. QED
            BY <6>2
        <5>2. CASE v = w
          BY <5>2
        <5>3. QED
          BY <5>1, <5>2
      <4>4. QED
        BY <4>2, <4>3 DEF MayHandOff
    <3>5. QED
      BY <1>0, <2>0, <3>1, <3>4, MovesToHand
  <2>2. CASE s # m.start
    <3>1. \A v \in Workers : /\ Buffered(v, s)' => Buffered(v, s)
                             /\ HeldBy(v, s)' => v # w /\ HeldBy(v, s) /\ pc'[v] = pc[v]
      BY <1>0, <2>0, <2>2 DEF Goto, HeldBy, Buffered, Start
    <3>2. MayHandOff(s)' \subseteq MayHandOff(s)
      BY <3>1 DEF MayHandOff
    <3>3. QED
      BY <1>0, <2>0, <3>2, PaidWithFaults
  <2>3. QED
    BY <2>1, <2>2
<1>13. QED
  BY <1>1, <1>2, <1>3, <1>4, <1>5, <1>6, <1>7, <1>8, <1>9, <1>10, <1>11, <1>12, StepCases

(***************************************************************************)
(* Without faults a request has one copy or one worker to hand it off, and *)
(* each fault adds one at most, for any number of requests and workers.    *)
(***************************************************************************)
THEOREM DuplicatesPaidFor == Spec => []DuplicatesBounded
<1>1. BoundInv => DuplicatesBounded
  BY DEF BoundInv, Bounded, DuplicatesBounded
<1>2. QED
  BY <1>1, InitType, StepType, InitOwner, StepOwner, InitBounded, StepBounded, NextIsWide, PTL
     DEF Spec
===============================================================================
