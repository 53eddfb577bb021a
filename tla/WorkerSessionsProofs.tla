-------------------------- MODULE WorkerSessionsProofs --------------------------
(***************************************************************************)
(* Theorems about the workers' database sessions, for any size of the      *)
(* connection pool and any number of jobs, workers, start requests,        *)
(* retries and faults.                                                     *)
(***************************************************************************)
EXTENDS WorkerSessions, DeliveryProofs

USE RetriesAssumption, NoMessageAssumption, NullAssumption, NoBodyAssumption,
    FaultsAssumption, PoolAssumption

-------------------------------------------------------------------------------
(* The steps are the pipeline's, with the lookups the pool refuses         *)

LEMMA SessionsAreWide == [SNext]_sVars => [WideNext]_vars
<1> SUFFICES ASSUME [SNext]_sVars PROVE [WideNext]_vars
  OBVIOUS
<1>1. CASE UNCHANGED sVars
  BY <1>1 DEF sVars
<1>2. CASE Client \/ RetryTimeToLive
  BY <1>2 DEF WideNext, Next
<1>3. ASSUME NEW w \in Workers, SessionStep(w)
      PROVE  [WideNext]_vars
  <2>1. CASE PoolExhausted(w)
    BY <2>1 DEF PoolExhausted, LookupRefused, WideNext
  <2>2. CASE CollectGarbage(w)
    BY <2>2 DEF CollectGarbage
  <2>3. CASE LookupInSession(w) \/ FetchInSession(w) \/ MarkInSession(w) \/ HandOffInSession(w)
    BY <2>3 DEF LookupInSession, FetchInSession, MarkInSession, HandOffInSession, Worker,
                WorkerStep, WideNext, Next
  <2>4. CASE ExitInSession(w)
    BY <2>4 DEF ExitInSession, Failure, WideNext, Next
  <2>5. QED
    BY <1>3, <2>1, <2>2, <2>3, <2>4 DEF SessionStep
<1>4. ASSUME NEW w \in Workers, OutsideSession(w)
      PROVE  [WideNext]_vars
  BY <1>4 DEF OutsideSession, Worker, WorkerStep, Failure, WideNext, Next
<1>5. QED
  BY <1>1, <1>2, <1>3, <1>4 DEF SNext

(***************************************************************************)
(* What the pipeline's proofs give at every step of the sessions.          *)
(***************************************************************************)
PipelineInv == TypeInv /\ OwnerInv /\ TraceInv /\ TypedInv /\ HistoryOK

LEMMA InitPipelineInv == SInit => PipelineInv
  BY InitType, InitOwner, InitAccount, InitTyped, InitHistory DEF SInit, PipelineInv

LEMMA StepPipelineInv == PipelineInv /\ [SNext]_sVars => PipelineInv'
  BY SessionsAreWide, StepType, StepOwner, StepAccount, StepTyped, StepHistory DEF PipelineInv

(***************************************************************************)
(* The sessions change nothing of what is promised about the delivery of a *)
(* request: with them too the pipeline implements JobDelivery.             *)
(***************************************************************************)
THEOREM SessionsDeliver == SSpec => ImplementsDelivery
<1>1. SInit => Delivery!DInit
  BY InitDelivers DEF SInit
<1>2. PipelineInv /\ PipelineInv' /\ [SNext]_sVars
          => [Delivery!DNext]_([s \in Starts |-> PhaseOf(s)])
  BY SessionsAreWide, StepDelivers DEF PipelineInv
<1>3. QED
  BY <1>1, <1>2, InitPipelineInv, StepPipelineInv, PTL
     DEF SSpec, ImplementsDelivery, Delivery!DSpec

(***************************************************************************)
(* Nor of the invariants of the pipeline, although a full pool adds one    *)
(* more way for a lookup to fail.                                          *)
(***************************************************************************)
COROLLARY PipelineAmongSessions ==
    SSpec => [](OneDelivery /\ NothingForgotten /\ ConvertedHasType /\ DuplicatesBounded)
<1>1. PipelineInv => OneDelivery /\ NothingForgotten /\ ConvertedHasType
  BY OwnersAreSingle, TracesAccount DEF PipelineInv, TypedInv
<1>2. BoundInv => DuplicatesBounded
  BY DEF BoundInv, Bounded, DuplicatesBounded
<1>3. SInit => BoundInv
  BY InitBounded DEF SInit
<1>4. PipelineInv /\ BoundInv /\ [SNext]_sVars => BoundInv'
  BY SessionsAreWide, StepBounded DEF PipelineInv
<1>5. QED
  BY <1>1, <1>2, <1>3, <1>4, InitPipelineInv, StepPipelineInv, PTL DEF SSpec

-------------------------------------------------------------------------------
(* What a step does to the row and to the traces of an accepted request    *)

(***************************************************************************)
(* A row is neither created nor reset once a request names its job: an     *)
(* accepted request keeps its body, a job without a row keeps having none, *)
(* and a job that left "processing" does not return to it.                 *)
(***************************************************************************)
RowSettles ==
    \A s \in Accepted :
        /\ s \in Accepted' /\ bodies'[s] = bodies[s]
        /\ status'[bodies[s].job] = "absent" <=> status[bodies[s].job] = "absent"
        /\ status'[bodies[s].job] = "processing" => status[bodies[s].job] = "processing"

LEMMA StepRows == PipelineInv /\ [WideNext]_vars => RowSettles
<1> SUFFICES ASSUME PipelineInv, [WideNext]_vars PROVE RowSettles
  OBVIOUS
<1> USE DEF PipelineInv, TypeInv, TypeOK, UploadTypeOK, StoresTypeOK
<1>0. \A s \in Accepted : bodies[s].job \in Jobs
  BY DEF Accepted, Body
<1>1. \A s \in Accepted : s \in Accepted' /\ bodies'[s] = bodies[s]
  <2>1. Accepted \subseteq Accepted'
    BY AcceptedStays
  <2>2. CASE bodies' = bodies
    BY <2>1, <2>2
  <2>3. ASSUME NEW t \in Starts, NEW body \in Body, PublishJob(t, body)
        PROVE  \A s \in Accepted : bodies'[s] = bodies[s]
    BY <2>3 DEF PublishJob, Accepted
  <2>4. QED
    BY <2>1, <2>2, <2>3, StepCases, InternalEffect
       DEF StartWorker, Receive, ReceiveStale, HandOff, Settle, SettleDetached, HandOffFails,
           Crash, Disconnect
<1>2. CASE UNCHANGED status
  BY <1>1, <1>2 DEF RowSettles
<1>3. ASSUME NEW j \in Jobs, NEW e \in Exts, GeneratePresignedUrl(j, e)
      PROVE  RowSettles
  BY <1>0, <1>1, <1>3 DEF RowSettles, GeneratePresignedUrl, CreateRow
<1>4. ASSUME NEW w \in Workers, Mark(w)
      PROVE  RowSettles
  <2>1. pc[w] = "mark" /\ Request(w).fmt \in Conversions
    BY <1>4 DEF Mark, HandsOK
  <2>2. status[Request(w).job] # "absent"
    BY <2>1 DEF TypedInv, RowsOK, PastLookup
  <2>3. QED
    BY <1>0, <1>1, <1>2, <1>4, <2>2 DEF RowSettles, Mark, UpdateStatus
<1>5. QED
  <2>1. UNCHANGED status \/ (\E j \in Jobs, e \in Exts : GeneratePresignedUrl(j, e))
                         \/ (\E w \in Workers : Mark(w))
    BY DEF WideNext, Next, vars, Client, ClientUpload, ConvertFile,
           MergeFiles, PublishJob, RetryTimeToLive, Worker, WorkerStep, Failure, StartWorker,
           Receive, ReceiveStale, Dispatch, Lookup, Fetch, Convert, StoreConverted,
           StoreCompressed, HandOff, Settle, SettleDetached, HandOffFails, Crash, Disconnect,
           LookupRefused, storeVars
  <2>2. QED
    BY <1>2, <1>3, <1>4, <2>1

(***************************************************************************)
(* A hand-off is the only way a copy of a request gets into the retry or   *)
(* the dead letter queue: what the broker dead-letters of the main queue   *)
(* is a first try that no queue takes.                                     *)
(***************************************************************************)
LEMMA StepHandedOff ==
    ASSUME PipelineInv, [WideNext]_vars, NEW s \in Accepted', HandedOff(s)'
    PROVE  \/ s \in Accepted /\ HandedOff(s)
           \/ \E w \in Workers : HandOff(w) /\ Start(w) = s /\ s \in Accepted
<1> USE DEF PipelineInv, TypeInv, TypeOK, BrokerTypeOK, WorkerTypeOK
<1>0. s \in Starts
  BY DEF Accepted
<1> DEFINE Goal == \/ s \in Accepted /\ HandedOff(s)
                   \/ \E w \in Workers : HandOff(w) /\ Start(w) = s /\ s \in Accepted
           Side == {"retry_queue", "dead_letter_queue"}
<1> SUFFICES Goal
  OBVIOUS
<1>1. ASSUME \A q \in Side, m \in Message : ready'[q][m] > 0 => ready[q][m] > 0,
             \A m \in discarded' : m \in discarded \/ m.retry = 0 \/ ready["retry_queue"][m] > 0,
             s \in Accepted
      PROVE  Goal
  <2>1. \A q \in Side : CopyIn(q, s)' => CopyIn(q, s)
    BY <1>0, <1>1, CopyInQueue, CopyInNext
  <2>2. ASSUME NEW n \in 1..MaxRetries, [start |-> s, retry |-> n] \in discarded'
        PROVE  HandedOff(s)
    <3>1. [start |-> s, retry |-> n].retry # 0 /\ n \in 0..MaxRetries
      OBVIOUS
    <3>2. CASE [start |-> s, retry |-> n] \in discarded
      BY <3>2 DEF HandedOff
    <3>3. CASE ready["retry_queue"][[start |-> s, retry |-> n]] > 0
      BY <3>1, <3>3 DEF HandedOff, CopyIn
    <3>4. QED
      BY <1>1, <2>2, <3>1, <3>2, <3>3
  <2>3. QED
    BY <1>1, <2>1, <2>2 DEF HandedOff
<1>2. CASE UNCHANGED <<workerVars, bodies, brokerVars>>
  BY <1>1, <1>2 DEF brokerVars, Accepted
<1>3. ASSUME NEW t \in Starts, NEW body \in Body, PublishJob(t, body), UNCHANGED workerVars
      PROVE  Goal
  <2>1. /\ \A q \in Side, m \in Message : ready'[q][m] > 0 => ready[q][m] > 0
        /\ \A m \in discarded' : m \in discarded \/ m = FirstTry(t)
    BY <1>3, PublishJobEffect DEF Queues
  <2>2. FirstTry(t).retry = 0
    BY DEF FirstTry
  <2>3. CASE s \in Accepted
    BY <1>1, <2>1, <2>2, <2>3
  <2>4. CASE s \notin Accepted
    <3>1. \A q \in Side, m \in Message : ready'[q][m] > 0 => m.start # s
      BY <2>1, <2>4 DEF CopiesOK, Queues
    <3>2. \A m \in discarded' : m.retry = 0 \/ m.start # s
      BY <2>1, <2>2, <2>4 DEF HistoryOK
    <3>3. \A n \in 1..MaxRetries :
             [start |-> s, retry |-> n].retry # 0 /\ [start |-> s, retry |-> n].start = s
      OBVIOUS
    <3>4. \A q \in Side : ~CopyIn(q, s)'
      BY <1>0, <3>1, CopyInNext
    <3>5. QED
      BY <3>2, <3>3, <3>4 DEF HandedOff
  <2>5. QED
    BY <2>3, <2>4
<1>4. ASSUME NEW m \in Message, Expire(m), UNCHANGED <<workerVars, bodies, storeVars>>
      PROVE  Goal
  <2>1. /\ \A q \in Side, n \in Message : ready'[q][n] > 0 => ready[q][n] > 0
        /\ \A n \in discarded' : n \in discarded \/ ready["retry_queue"][n] > 0
    BY <1>4, ExpireEffect DEF Queues
  <2>2. QED
    BY <1>1, <1>4, <2>1 DEF Accepted
<1>5. ASSUME NEW w \in Workers, HandOff(w)
      PROVE  Goal
  <2>1. Accepted' = Accepted
    BY <1>5 DEF HandOff, Accepted
  <2>2. CASE s = Start(w)
    BY <1>5, <2>1, <2>2
  <2>3. CASE s # Start(w)
    <3>1. /\ \A q \in Queues, m \in Message : m.start = s /\ ready'[q][m] > 0 => ready[q][m] > 0
          /\ \A m \in discarded' : m.start = s => m \in discarded
      BY <1>5, <2>3, HandOffEffect
    <3>2. \A q \in Queues : CopyIn(q, s)' => CopyIn(q, s)
      BY <1>0, <3>1, CopyInQueue, CopyInNext
    <3>3. \A n \in 1..MaxRetries : [start |-> s, retry |-> n].start = s
      OBVIOUS
    <3>4. QED
      BY <2>1, <3>1, <3>2, <3>3 DEF HandedOff, Queues
  <2>4. QED
    BY <2>2, <2>3
<1>6. ASSUME NEW w \in Workers, HandOffFails(w)
      PROVE  Goal
  <2>1. Attached(w) => unacked[w].retry = 0
    BY DEF OwnerInv, FirstTriesOnly, HandsOK, Attached
  <2>2. ready' = ready /\ \A m \in discarded' : m \in discarded \/ m.retry = 0
    BY <1>6, <2>1, RejectEffect DEF HandOffFails
  <2>3. QED
    BY <1>1, <1>6, <2>2 DEF HandOffFails, Accepted
<1>7. ASSUME NEW w \in Workers, Crash(w) \/ Disconnect(w)
      PROVE  Goal
  <2>1. discarded' = discarded /\ bodies' = bodies
        /\ \A q \in Side, m \in Message : ready'[q][m] > 0 => ready[q][m] > 0
    BY <1>7, RequeueEffect DEF Crash, Disconnect, brokerVars, Queues
  <2>2. QED
    BY <1>1, <2>1 DEF Accepted
<1>8. ASSUME NEW w \in Workers,
             \/ StartWorker(w) \/ Receive(w) \/ ReceiveStale(w) \/ Internal(w)
             \/ Settle(w) \/ SettleDetached(w)
      PROVE  Goal
  <2>1. discarded' = discarded /\ bodies' = bodies
        /\ \A q \in Side, m \in Message : ready'[q][m] > 0 => ready[q][m] > 0
    BY <1>8, InternalEffect
       DEF StartWorker, Receive, ReceiveStale, Settle, SettleDetached, Deliver, brokerVars, Queues
  <2>2. QED
    BY <1>1, <2>1 DEF Accepted
<1>9. QED
  BY <1>2, <1>3, <1>4, <1>5, <1>6, <1>7, <1>8, StepCases

-------------------------------------------------------------------------------
(* The sessions                                                            *)

(***************************************************************************)
(* Only a merge message lacks the user id.                                 *)
(***************************************************************************)
UsersNamed == \A s \in Accepted : bodies[s].fmt \in Conversions => bodies[s].user

Converting(w) == Request(w).fmt \in Conversions

(***************************************************************************)
(* The session of the job a worker has in hand.  It is in a transaction    *)
(* from the lookup of the row to update_status, which then had a           *)
(* connection of the pool; and a conversion that is about to be handed off *)
(* has either recorded its failure, or is in its transaction, or had no    *)
(* answer from the database.  A pdf-to-docx job is there in its            *)
(* transaction only without a row, a database or a written input.          *)
(***************************************************************************)
SessionOK(w) ==
    /\ open[w] => pc[w] \in PastLookup \cup {"failed"} /\ Converting(w) /\ kept[w] < PoolLimit
    /\ pc[w] \in PastLookup /\ Converting(w) => open[w]
    /\ pc[w] = "failed" /\ Converting(w) =>
          open[w] \/ Start(w) \in refused \/ status[Request(w).job] # "processing"
    /\ pc[w] = "failed" /\ open[w] =>
          \/ Start(w) \in refused \cup unwritten
          \/ Request(w).fmt # "docx" \/ status[Request(w).job] = "absent"

SessionsTyped ==
    /\ open \in [Workers -> BOOLEAN]
    /\ kept \in [Workers -> 0..PoolLimit]
    /\ left \subseteq Accepted /\ refused \subseteq Accepted /\ unwritten \subseteq Accepted

SessionInv ==
    /\ SessionsTyped
    /\ UsersNamed
    /\ \A w \in Workers : SessionOK(w)
    /\ RecordedOrLeft
    /\ OnlyUncaughtLeave

LEMMA InitSession == SInit => SessionInv
  BY DEF SInit, Init, UploadInit, WorkerInit, SessionInv, SessionsTyped, UsersNamed, SessionOK,
         RecordedOrLeft, OnlyUncaughtLeave, Accepted, PastLookup

\* A step of worker w, with what it does to the session.
WorkerMoves(w) == SessionStep(w) \/ (OutsideSession(w) /\ UNCHANGED sessionVars)

\* The worker's step is at the same place, for the same job, in the same session.
Elsewhere(v) ==
    /\ pc'[v] = pc[v] /\ hand'[v] = hand[v]
    /\ open'[v] = open[v] /\ kept'[v] = kept[v]

LEMMA ElsewhereOK ==
    ASSUME PipelineInv, RowSettles, refused \subseteq refused', unwritten \subseteq unwritten',
           NEW v \in Workers, SessionOK(v), Elsewhere(v)
    PROVE  SessionOK(v)'
<1>1. CASE Working(v)
  <2>1. Start(v) \in Accepted
    BY <1>1 DEF PipelineInv, TypeInv, HandsOK
  <2>2. Start(v)' = Start(v) /\ Request(v)' = Request(v)
        /\ (status'[Request(v).job] = "absent" <=> status[Request(v).job] = "absent")
        /\ (status'[Request(v).job] = "processing" => status[Request(v).job] = "processing")
    BY <2>1 DEF Elsewhere, RowSettles, Start, Request
  <2>3. QED
    BY <2>2 DEF SessionOK, Elsewhere, Converting
<1>2. CASE ~Working(v)
  BY <1>2 DEF SessionOK, Elsewhere, Working, PastLookup
<1>3. QED
  BY <1>1, <1>2

LEMMA SessionFrame ==
    ASSUME PipelineInv, SessionsTyped, NEW w \in Workers, WorkerMoves(w)
    PROVE  /\ \A v \in Workers : v # w => Elsewhere(v)
           /\ bodies' = bodies
<1> USE DEF PipelineInv, TypeInv, TypeOK, WorkerTypeOK, SessionsTyped, Goto, Elsewhere
<1>1. CASE LookupInSession(w) \/ MarkInSession(w)
  BY <1>1 DEF LookupInSession, MarkInSession, Lookup, Mark, Refused, InTransaction
<1>2. CASE PoolExhausted(w) \/ CollectGarbage(w)
  BY <1>2 DEF PoolExhausted, CollectGarbage, vars, workerVars
<1>3. CASE HandOffInSession(w)
  BY <1>3 DEF HandOffInSession, HandOff, InTransaction
<1>4. CASE ExitInSession(w)
  BY <1>4 DEF ExitInSession, Crash, HandOffFails, Exit, InTransaction
<1>5. CASE OutsideSession(w) /\ UNCHANGED sessionVars
  BY <1>5 DEF OutsideSession, sessionVars, StartWorker, Receive, ReceiveStale, Dispatch, Convert,
              StoreConverted, StoreCompressed, Settle, SettleDetached, Exit, Disconnect
<1>6. CASE FetchInSession(w)
  BY <1>6 DEF FetchInSession, Fetch
<1>7. QED
  BY <1>1, <1>2, <1>3, <1>4, <1>5, <1>6 DEF WorkerMoves, SessionStep

(***************************************************************************)
(* The step of a worker keeps its own session as SessionOK says.           *)
(***************************************************************************)
LEMMA OwnSession ==
    ASSUME PipelineInv, SessionInv, RowSettles,
           refused \subseteq refused', unwritten \subseteq unwritten',
           NEW w \in Workers, bodies' = bodies, WorkerMoves(w)
    PROVE  SessionOK(w)'
<1> USE DEF PipelineInv, SessionInv, SessionsTyped, TypeInv, TypeOK, WorkerTypeOK, Goto,
            InTransaction
<1>0. /\ SessionOK(w)
      /\ pc[w] \in {"lookup", "mark"} => Converting(w)
      /\ Working(w) => /\ Start(w) \in Accepted
                       /\ Request(w).fmt \in Conversions => Request(w).user = TRUE
  BY DEF HandsOK, UsersNamed, Request, Converting, Accepted, UploadTypeOK, Body
<1>1. CASE hand' = hand /\ Working(w)
  <2>1. Start(w)' = Start(w) /\ Request(w)' = Request(w) /\ Converting(w)' = Converting(w)
        /\ (status'[Request(w).job] = "absent" <=> status[Request(w).job] = "absent")
        /\ (status'[Request(w).job] = "processing" => status[Request(w).job] = "processing")
    BY <1>0, <1>1 DEF RowSettles, Start, Request, Converting
  <2>2. CASE LookupInSession(w)
    <3>1. pc[w] = "lookup" /\ pc'[w] \in {"fetch", "failed"} /\ kept'[w] < PoolLimit
      BY <2>2 DEF LookupInSession, Lookup
    <3>2. \/ open'[w] /\ (pc'[w] = "failed" => status[Request(w).job] = "absent")
          \/ Start(w) \in refused' /\ pc'[w] = "failed"
      BY <2>2 DEF LookupInSession, Lookup, Fault, Refused
    <3>3. QED
      BY <1>0, <2>1, <3>1, <3>2 DEF SessionOK, PastLookup
  <2>3. CASE PoolExhausted(w)
    BY <1>0, <2>1, <2>3 DEF PoolExhausted, SessionOK, PastLookup
  <2>4. CASE MarkInSession(w)
    <3>1. pc[w] = "mark" /\ pc'[w] = "failed" /\ kept' = kept
      BY <2>4 DEF MarkInSession, Mark
    <3>2. Request(w).job \in Jobs
      BY <1>0, <3>1 DEF Working, Accepted, Request, UploadTypeOK, Body
    <3>3. \/ ~open'[w] /\ status'[Request(w).job] = "failed"
          \/ Start(w) \in refused'
      BY <2>4, <3>2 DEF MarkInSession, Mark, Fault, Refused, UpdateStatus, StoresTypeOK
    <3>4. QED
      BY <1>0, <2>1, <3>1, <3>3 DEF SessionOK, PastLookup
  <2>5. CASE HandOffInSession(w)
    BY <2>5 DEF HandOffInSession, HandOff, SessionOK, PastLookup
  <2>6. CASE CollectGarbage(w)
    BY <1>0, <2>1, <2>6 DEF CollectGarbage, vars, workerVars, SessionOK
  <2>7. CASE OutsideSession(w) /\ UNCHANGED sessionVars
    <3>1. CASE Dispatch(w)
      <4>1. pc[w] = "dispatch" /\ pc'[w] = AfterDispatch(Request(w))
        BY <3>1 DEF Dispatch
      <4>2. ~open'[w]
        BY <1>0, <2>7, <4>1 DEF SessionOK, PastLookup, sessionVars
      <4>3. Converting(w) => pc'[w] = "lookup"
        BY <1>0, <1>1, <4>1 DEF AfterDispatch, Converting, Conversions
      <4>4. QED
        BY <2>1, <4>2, <4>3 DEF SessionOK, PastLookup
    <3>3. CASE Convert(w)
      BY <1>0, <2>1, <2>7, <3>3
         DEF Convert, OnConverterError, SessionOK, PastLookup, Converting, sessionVars
    <3>4. CASE StoreConverted(w) \/ StoreCompressed(w)
      BY <1>0, <2>1, <2>7, <3>4
         DEF StoreConverted, StoreCompressed, SessionOK, PastLookup, Converting, Conversions,
             sessionVars
    <3>5. CASE Disconnect(w)
      BY <1>0, <2>1, <2>7, <3>5 DEF Disconnect, SessionOK, sessionVars
    <3>6. CASE Settle(w) \/ SettleDetached(w) \/ StartWorker(w) \/ Receive(w) \/ ReceiveStale(w)
      BY <1>0, <2>7, <3>6
         DEF Settle, SettleDetached, Exit, StartWorker, Receive, ReceiveStale, SessionOK,
             PastLookup, sessionVars
    <3>7. QED
      BY <2>7, <3>1, <3>3, <3>4, <3>5, <3>6 DEF OutsideSession
  <2>10. CASE FetchInSession(w)
    <3>1. /\ pc[w] = "fetch" /\ open' = open /\ kept' = kept
          /\ \/ pc'[w] \in {"convert", "mark"}
             \/ pc'[w] = "failed" /\ ~Converting(w)
             \/ pc'[w] = "failed" /\ Start(w) \in unwritten'
      BY <2>10 DEF FetchInSession, Fetch, Fault, OnError, Converting
    <3>2. QED
      BY <1>0, <2>1, <3>1 DEF SessionOK, PastLookup
  <2>8. CASE ExitInSession(w)
    BY <2>8 DEF ExitInSession, Crash, HandOffFails, Exit, SessionOK, PastLookup
  <2>9. QED
    BY <2>2, <2>3, <2>4, <2>5, <2>6, <2>7, <2>8, <2>10 DEF WorkerMoves, SessionStep
<1>2. CASE ~(hand' = hand /\ Working(w))
  <2>1. CASE ExitInSession(w)
    BY <2>1 DEF ExitInSession, Crash, HandOffFails, Exit, SessionOK, PastLookup
  <2>2. CASE CollectGarbage(w)
    <3>1. ~open[w] /\ pc[w] \notin PastLookup \cup {"failed"}
      BY <1>0, <1>2, <2>2 DEF CollectGarbage, vars, workerVars, Working, SessionOK, PastLookup
    <3>2. QED
      BY <2>2, <3>1 DEF CollectGarbage, vars, workerVars, SessionOK, PastLookup
  <2>3. CASE OutsideSession(w) /\ UNCHANGED sessionVars
    <3>1. \/ Settle(w) \/ SettleDetached(w) \/ StartWorker(w) \/ Receive(w) \/ ReceiveStale(w)
          \/ Disconnect(w) /\ ~Working(w)
      BY <1>2, <2>3 DEF OutsideSession, Dispatch, Convert, StoreConverted, StoreCompressed,
                        Disconnect, Working
    <3>2. QED
      BY <1>0, <2>3, <3>1
         DEF Settle, SettleDetached, Exit, StartWorker, Receive, ReceiveStale, Disconnect, Working,
             SessionOK, PastLookup, sessionVars
  <2>4. QED
    BY <1>2, <2>1, <2>2, <2>3
       DEF WorkerMoves, SessionStep, LookupInSession, PoolExhausted, FetchInSession, MarkInSession,
           HandOffInSession, Lookup, Fetch, Mark, HandOff, Working
<1>3. QED
  BY <1>1, <1>2

(***************************************************************************)
(* What a step adds to the requests that left a transaction behind and to  *)
(* those the database refused.                                             *)
(***************************************************************************)
LEMMA LeftGrows ==
    ASSUME PipelineInv, SessionInv, NEW w \in Workers, WorkerMoves(w)
    PROVE  /\ left \subseteq left' /\ refused \subseteq refused' /\ unwritten \subseteq unwritten'
           /\ refused' \subseteq Accepted /\ unwritten' \subseteq Accepted
           /\ left' \subseteq left \/ HandOffInSession(w)
<1>1. Working(w) => Start(w) \in Accepted
  BY DEF PipelineInv, TypeInv, HandsOK
<1>2. CASE OutsideSession(w) /\ UNCHANGED sessionVars
  BY <1>2 DEF sessionVars, SessionInv, SessionsTyped
<1>3. CASE LookupInSession(w) \/ MarkInSession(w) \/ PoolExhausted(w)
  BY <1>1, <1>3
     DEF LookupInSession, MarkInSession, PoolExhausted, Refused, Lookup, Mark, Working,
         SessionInv, SessionsTyped
<1>4. CASE HandOffInSession(w) \/ ExitInSession(w) \/ CollectGarbage(w)
  BY <1>4 DEF HandOffInSession, ExitInSession, CollectGarbage, SessionInv, SessionsTyped
<1>5. CASE FetchInSession(w)
  BY <1>1, <1>5 DEF FetchInSession, Fetch, Working, SessionInv, SessionsTyped
<1>6. QED
  BY <1>2, <1>3, <1>4, <1>5 DEF WorkerMoves, SessionStep

LEMMA SessionCases ==
    ASSUME [SNext]_sVars
    PROVE  \/ UNCHANGED <<workerVars, sessionVars>>
           \/ \E w \in Workers : WorkerMoves(w)
<1>1. CASE UNCHANGED sVars
  BY <1>1 DEF sVars, vars
<1>2. CASE (Client \/ RetryTimeToLive) /\ UNCHANGED sessionVars
  BY <1>2 DEF Client, RetryTimeToLive
<1>3. QED
  BY <1>1, <1>2 DEF SNext, WorkerMoves

(***************************************************************************)
(* The body of a request written in this step has a user if it is for a    *)
(* conversion.                                                             *)
(***************************************************************************)
LEMMA StepUsers == TypeInv /\ UsersNamed /\ [WideNext]_vars => UsersNamed'
<1> SUFFICES ASSUME TypeInv, UsersNamed, [WideNext]_vars PROVE UsersNamed'
  OBVIOUS
<1> USE DEF TypeInv, TypeOK, UploadTypeOK
<1>1. CASE bodies' = bodies
  BY <1>1 DEF UsersNamed, Accepted
<1>2. ASSUME NEW s \in Starts, NEW body \in Body, PublishJob(s, body),
             body.fmt \in Conversions => body.user
      PROVE  UsersNamed'
  BY <1>2, PublishJobEffect DEF UsersNamed, Accepted
<1>3. ASSUME NEW s \in Starts, NEW j \in Jobs, NEW e \in Exts, NEW f \in Formats,
             ConvertFile(s, j, e, f)
      PROVE  UsersNamed'
  BY <1>2, <1>3 DEF ConvertFile, Body
<1>4. ASSUME NEW s \in Starts, NEW j \in Jobs, MergeFiles(s, j)
      PROVE  UsersNamed'
  BY <1>2, <1>4 DEF MergeFiles, Body, Conversions
<1>5. CASE Client
  BY <1>1, <1>3, <1>4, <1>5 DEF Client, GeneratePresignedUrl, ClientUpload
<1>6. CASE RetryTimeToLive \/ UNCHANGED vars
  BY <1>1, <1>6 DEF RetryTimeToLive, vars
<1>7. ASSUME NEW w \in Workers, Worker(w) \/ Failure(w) \/ LookupRefused(w)
      PROVE  UsersNamed'
  BY <1>1, <1>7
     DEF Worker, WorkerStep, Failure, StartWorker, Receive, ReceiveStale, Dispatch, Lookup, Fetch,
         Convert, StoreConverted, StoreCompressed, Mark, HandOff, Settle, SettleDetached,
         HandOffFails, Crash, Disconnect, LookupRefused
<1>8. QED
  BY <1>5, <1>6, <1>7 DEF WideNext, Next

LEMMA StepSessionsTyped == PipelineInv /\ SessionInv /\ [SNext]_sVars => SessionsTyped'
<1> SUFFICES ASSUME PipelineInv, SessionInv, [SNext]_sVars PROVE SessionsTyped'
  OBVIOUS
<1>1. Accepted \subseteq Accepted'
  BY SessionsAreWide, AcceptedStays DEF PipelineInv
<1>2. CASE UNCHANGED sessionVars
  BY <1>1, <1>2 DEF sessionVars, SessionInv, SessionsTyped
<1>3. ASSUME NEW w \in Workers, SessionStep(w)
      PROVE  SessionsTyped'
  <2> USE DEF SessionInv, SessionsTyped, InTransaction
  <2>1. left' \subseteq Accepted'
    <3>1. HandOffInSession(w) => left' \subseteq left \cup {Start(w)} /\ Start(w) \in Accepted
      BY HandOffEffect DEF HandOffInSession, PipelineInv
    <3>2. QED
      BY <1>1, <1>3, <3>1, LeftGrows DEF WorkerMoves
  <2>2. refused' \subseteq Accepted' /\ unwritten' \subseteq Accepted'
    BY <1>1, <1>3, LeftGrows DEF WorkerMoves
  <2>3. CASE LookupInSession(w) \/ PoolExhausted(w) \/ FetchInSession(w) \/ MarkInSession(w)
    BY <2>1, <2>2, <2>3 DEF LookupInSession, PoolExhausted, FetchInSession, MarkInSession, Refused
  <2>4. CASE HandOffInSession(w)
    <3>1. open[w] => kept[w] < PoolLimit
      BY DEF SessionOK
    <3>2. QED
      BY <2>1, <2>2, <2>4, <3>1 DEF HandOffInSession
  <2>5. CASE ExitInSession(w)
    BY <2>1, <2>2, <2>5 DEF ExitInSession
  <2>6. CASE CollectGarbage(w)
    <3>1. PICK n \in 0..(kept[w] - 1) : kept' = [kept EXCEPT ![w] = n]
      BY <2>6 DEF CollectGarbage
    <3>2. n \in 0..PoolLimit
      BY <3>1
    <3>3. open' = open
      BY <2>6 DEF CollectGarbage
    <3>4. QED
      BY <2>1, <2>2, <3>1, <3>2, <3>3
  <2>7. QED
    BY <1>3, <2>3, <2>4, <2>5, <2>6 DEF SessionStep
<1>4. QED
  <2>1. UNCHANGED sVars => UNCHANGED sessionVars
    BY DEF sVars
  <2>2. QED
    BY <1>2, <1>3, <2>1 DEF SNext

LEMMA StepSession == PipelineInv /\ SessionInv /\ [SNext]_sVars => SessionInv'
<1> SUFFICES ASSUME PipelineInv, SessionInv, [SNext]_sVars PROVE SessionInv'
  OBVIOUS
<1>0. [WideNext]_vars /\ PipelineInv'
  BY SessionsAreWide, StepPipelineInv
<1>1. RowSettles
  BY <1>0, StepRows
<1>2. left \subseteq left' /\ refused \subseteq refused' /\ unwritten \subseteq unwritten'
  BY SessionCases, LeftGrows DEF sessionVars
<1>3. SessionsTyped' /\ UsersNamed'
  BY <1>0, StepSessionsTyped, StepUsers DEF SessionInv, PipelineInv
<1>4. \A w \in Workers : SessionOK(w)'
  <2>1. CASE UNCHANGED <<workerVars, sessionVars>>
    BY <1>1, <1>2, <2>1, ElsewhereOK DEF SessionInv, Elsewhere, workerVars, sessionVars
  <2>2. ASSUME NEW w \in Workers, WorkerMoves(w)
        PROVE  \A v \in Workers : SessionOK(v)'
    <3>1. bodies' = bodies /\ \A v \in Workers : v # w => Elsewhere(v)
      BY <2>2, SessionFrame DEF SessionInv
    <3>2. SessionOK(w)'
      BY <1>1, <1>2, <2>2, <3>1, OwnSession
    <3>3. \A v \in Workers : v # w => SessionOK(v)'
      BY <1>1, <1>2, <3>1, ElsewhereOK DEF SessionInv
    <3>4. QED
      BY <3>2, <3>3
  <2>3. QED
    BY <2>1, <2>2, SessionCases
<1>5. RecordedOrLeft'
  <2> SUFFICES ASSUME NEW s \in Accepted', bodies'[s].fmt \in Conversions, HandedOff(s)',
                      status'[bodies'[s].job] = "processing"
               PROVE  s \in left' \cup refused'
    BY DEF RecordedOrLeft
  <2>1. s \in Accepted => /\ bodies[s].fmt \in Conversions
                          /\ status[bodies[s].job] = "processing"
    BY <1>1 DEF RowSettles
  <2>2. CASE s \in Accepted /\ HandedOff(s)
    BY <1>2, <2>1, <2>2 DEF SessionInv, RecordedOrLeft
  <2>3. ASSUME NEW w \in Workers, HandOff(w), Start(w) = s, s \in Accepted
        PROVE  s \in left' \cup refused'
    <3>1. pc[w] = "failed" /\ pc'[w] = "settle" /\ pc \in [Workers -> Steps]
      BY <2>3 DEF HandOff, Goto, PipelineInv, TypeInv, TypeOK, WorkerTypeOK
    <3>2. HandOffInSession(w)
      <4>1. ~UNCHANGED workerVars
        BY <3>1 DEF workerVars
      <4>2. PICK v \in Workers : WorkerMoves(v)
        BY <4>1, SessionCases
      <4>3. v = w
        BY <3>1, <4>2, SessionFrame DEF SessionInv, Elsewhere
      <4>4. WorkerMoves(w)
        BY <4>2, <4>3
      <4>5. QED
        <5>1. ~(Crash(w) \/ HandOffFails(w))
          BY <3>1 DEF Crash, HandOffFails, Exit, Goto
        <5>2. ~OutsideSession(w)
          BY <3>1 DEF OutsideSession, StartWorker, Receive, ReceiveStale, Dispatch, Convert,
                      StoreConverted, StoreCompressed, Settle, SettleDetached, Disconnect
        <5>3. ~(\/ LookupInSession(w) \/ FetchInSession(w) \/ MarkInSession(w)
                \/ PoolExhausted(w) \/ CollectGarbage(w))
          BY <3>1 DEF LookupInSession, FetchInSession, MarkInSession, PoolExhausted, CollectGarbage,
                      Lookup, Fetch, Mark, vars, workerVars
        <5>4. QED
          BY <4>4, <5>1, <5>2, <5>3 DEF WorkerMoves, SessionStep, ExitInSession
    <3>3. open[w] \/ s \in refused
      BY <2>1, <2>3, <3>1 DEF SessionInv, SessionOK, Converting, Request
    <3>4. QED
      BY <1>2, <2>3, <3>2, <3>3 DEF HandOffInSession
  <2>4. QED
    BY <1>0, <2>2, <2>3, StepHandedOff
<1>6. OnlyUncaughtLeave'
  <2> SUFFICES ASSUME NEW s \in left', s \notin refused', s \notin unwritten'
               PROVE  bodies'[s].fmt # "docx" \/ status'[bodies'[s].job] = "absent"
    BY DEF OnlyUncaughtLeave
  <2>1. CASE s \in left
    BY <1>1, <1>2, <2>1 DEF SessionInv, SessionsTyped, OnlyUncaughtLeave, RowSettles
  <2>2. ASSUME NEW w \in Workers, HandOffInSession(w), s = Start(w), open[w]
        PROVE  bodies'[s].fmt # "docx" \/ status'[bodies'[s].job] = "absent"
    <3>1. pc[w] = "failed" /\ s \in Accepted
      BY <2>2, HandOffEffect DEF HandOffInSession, HandOff, PipelineInv
    <3>2. QED
      BY <1>1, <1>2, <2>2, <3>1 DEF SessionInv, SessionOK, Request, RowSettles
  <2>3. CASE s \notin left
    <3>1. ~(left' \subseteq left)
      BY <2>3
    <3>2. PICK w \in Workers : WorkerMoves(w)
      BY <3>1, SessionCases DEF sessionVars
    <3>3. HandOffInSession(w)
      BY <3>1, <3>2, LeftGrows
    <3>4. s = Start(w) /\ open[w]
      BY <2>3, <3>3 DEF HandOffInSession
    <3>5. QED
      BY <2>2, <3>3, <3>4
  <2>4. QED
    BY <2>1, <2>3
<1>7. QED
  BY <1>3, <1>4, <1>5, <1>6 DEF SessionInv

LEMMA SessionInvariant == SSpec => [](PipelineInv /\ SessionInv)
  BY InitPipelineInv, StepPipelineInv, InitSession, StepSession, PTL DEF SSpec

(***************************************************************************)
(* The pool never lends more connections than it has: what the sessions    *)
(* left behind and not yet collected hold stays within pool_size +         *)
(* max_overflow, because a lookup is refused when none is free.            *)
(***************************************************************************)
THEOREM SessionsTypeCorrect == SSpec => []SessionsTypeOK
<1>1. PipelineInv /\ SessionInv => SessionsTypeOK
  BY DEF PipelineInv, TypeInv, SessionInv, SessionsTyped, SessionsTypeOK, Accepted
<1>2. QED
  BY <1>1, SessionInvariant, PTL

(***************************************************************************)
(* A conversion handed off with its row still in processing left its       *)
(* session in a transaction, or the database had no answer for it.         *)
(***************************************************************************)
THEOREM FailuresRecorded == SSpec => []RecordedOrLeft
<1>1. SessionInv => RecordedOrLeft
  BY DEF SessionInv
<1>2. QED
  BY <1>1, SessionInvariant, PTL

(***************************************************************************)
(* A session is left in its transaction only by LibreOffice's conversions, *)
(* by jobs without a row, by a job whose input could not be written to the *)
(* worker's disk, and where the database gives no answer: a pdf-to-docx    *)
(* job that fails in any other way returns its connection.                 *)
(***************************************************************************)
THEOREM CaughtErrorsLeaveNothing == SSpec => []OnlyUncaughtLeave
<1>1. SessionInv => OnlyUncaughtLeave
  BY DEF SessionInv
<1>2. QED
  BY <1>1, SessionInvariant, PTL
===============================================================================
