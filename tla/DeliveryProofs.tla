---------------------------- MODULE DeliveryProofs ----------------------------
(***************************************************************************)
(* The pipeline implements JobDelivery, for any number of jobs, workers,   *)
(* start requests, retries and faults.                                     *)
(***************************************************************************)
EXTENDS PipelineProofs

USE RetriesAssumption, NoMessageAssumption, NullAssumption, NoBodyAssumption,
    FaultsAssumption

-------------------------------------------------------------------------------
(* What the histories and the queues hold of a request                     *)

(***************************************************************************)
(* The histories speak of accepted requests only.                          *)
(***************************************************************************)
HistoryOK == finished \subseteq Accepted /\ \A m \in discarded : m.start \in Accepted

LEMMA InitHistory == Init => HistoryOK
  BY DEF Init, BrokerInit, WorkerInit, HistoryOK

LEMMA AcceptedStays == TypeInv /\ [WideNext]_vars => Accepted \subseteq Accepted'
<1> SUFFICES ASSUME TypeInv, [WideNext]_vars PROVE Accepted \subseteq Accepted'
  OBVIOUS
<1>1. ASSUME NEW s \in Starts, NEW body \in Body, PublishJob(s, body)
      PROVE  Accepted \subseteq Accepted'
  BY <1>1, PublishJobEffect
<1>2. CASE bodies' = bodies
  BY <1>2 DEF Accepted
<1>3. QED
  BY <1>1, <1>2, StepCases, InternalEffect
     DEF StartWorker, Receive, ReceiveStale, HandOff, Settle, SettleDetached, HandOffFails, Crash,
         Disconnect

LEMMA StepHistory == TypeInv /\ HistoryOK /\ [WideNext]_vars => HistoryOK'
<1> SUFFICES ASSUME TypeInv, HistoryOK, [WideNext]_vars PROVE HistoryOK'
  OBVIOUS
<1>0. /\ Accepted \subseteq Accepted'
      /\ \A w \in Workers : hand[w] # NoMessage => Start(w) \in Accepted
      /\ \A w \in Workers : Attached(w) => unacked[w].start \in Accepted
  BY AcceptedStays DEF TypeInv, HandsOK, Start, Attached
<1> SUFFICES ASSUME ~ /\ finished' \subseteq finished \cup Accepted
                      /\ \A m \in discarded' : m \in discarded \/ m.start \in Accepted'
             PROVE  FALSE
  BY <1>0 DEF HistoryOK
<1>1. CASE UNCHANGED <<finished, discarded>>
  BY <1>1
<1>2. ASSUME NEW s \in Starts, NEW body \in Body, PublishJob(s, body), UNCHANGED workerVars
      PROVE  FALSE
  <2>1. FirstTry(s).start \in Accepted'
    BY <1>2, PublishJobEffect DEF FirstTry
  <2>2. discarded' \subseteq discarded \cup {FirstTry(s)} /\ finished' = finished
    BY <1>2, PublishJobEffect DEF workerVars
  <2>3. QED
    BY <2>1, <2>2
<1>3. ASSUME NEW m \in Message, Expire(m), UNCHANGED <<workerVars, bodies, storeVars>>
      PROVE  FALSE
  BY <1>0, <1>3, ExpireEffect DEF workerVars, TypeInv, CopiesOK, Queues
<1>4. ASSUME NEW w \in Workers, Internal(w)
      PROVE  FALSE
  <2>1. Start(w) \in Accepted
    BY <1>0, <1>4, InternalEffect DEF TypeInv, HandsOK, Working
  <2>2. QED
    BY <1>4, <2>1, InternalEffect DEF brokerVars
<1>5. ASSUME NEW w \in Workers, HandOff(w)
      PROVE  FALSE
  BY <1>0, <1>5, HandOffEffect DEF HandOff
<1>6. ASSUME NEW w \in Workers, HandOffFails(w)
      PROVE  FALSE
  BY <1>0, <1>6, RejectEffect DEF HandOffFails
<1>7. ASSUME NEW w \in Workers, Crash(w) \/ Disconnect(w)
      PROVE  FALSE
  BY <1>1, <1>7, RequeueEffect DEF Crash, Disconnect, brokerVars
<1>8. QED
  BY <1>1, <1>2, <1>3, <1>4, <1>5, <1>6, <1>7, StepCases
     DEF workerVars, brokerVars, StartWorker, Receive, ReceiveStale, Settle, SettleDetached

LEMMA CopyInQueue ==
    ASSUME NEW q, NEW s \in Starts
    PROVE  CopyIn(q, s) <=> \E m \in Message : m.start = s /\ ready[q][m] > 0
<1>1. \A n \in 0..MaxRetries : /\ [start |-> s, retry |-> n] \in Message
                              /\ [start |-> s, retry |-> n].start = s
  BY DEF Message
<1>2. \A m \in Message : m.retry \in 0..MaxRetries /\ m = [start |-> m.start, retry |-> m.retry]
  BY DEF Message
<1>3. QED
  BY <1>1, <1>2 DEF CopyIn

-------------------------------------------------------------------------------
(* What a step is about                                                    *)

(***************************************************************************)
(* What a step leaves alone of a request it is not about.                  *)
(***************************************************************************)
Untouched(s) ==
    /\ s \in Accepted' <=> s \in Accepted
    /\ s \in finished' <=> s \in finished
    /\ \A q \in Queues, m \in Message : m.start = s => ready'[q][m] = ready[q][m]
    /\ \A m \in Message : m.start = s => (m \in discarded' <=> m \in discarded)
    /\ \A w \in Workers : /\ HeldBy(w, s)' <=> HeldBy(w, s)
                          /\ Buffered(w, s)' <=> Buffered(w, s)

LEMMA UntouchedPhase ==
    ASSUME TypeInv, TypeInv', NEW s \in Starts, Untouched(s)
    PROVE  PhaseOf(s)' = PhaseOf(s)
<1>0. \A n \in 0..MaxRetries : /\ [start |-> s, retry |-> n] \in Message
                              /\ [start |-> s, retry |-> n].start = s
  BY DEF Message
<1>1. \A q \in Queues : CopyIn(q, s)' <=> CopyIn(q, s)
  BY <1>0 DEF Untouched, CopyIn
<1>2. Dropped(s)' <=> Dropped(s)
  BY <1>0 DEF Untouched, Dropped
<1>3. Pending(s)' <=> Pending(s)
  BY <1>1 DEF Untouched, Pending, Queues
<1>4. /\ CopyIn("retry_queue", s)' <=> CopyIn("retry_queue", s)
      /\ CopyIn("dead_letter_queue", s)' <=> CopyIn("dead_letter_queue", s)
  BY <1>1 DEF Queues
<1>5. (s \in Accepted' <=> s \in Accepted) /\ (s \in finished' <=> s \in finished)
  BY DEF Untouched
<1>6. QED
  BY <1>2, <1>3, <1>4, <1>5 DEF PhaseOf

(***************************************************************************)
(* A step is about a request if it publishes it, or expires a copy of it   *)
(* in the retry queue, or the request is in progress.                      *)
(***************************************************************************)
About(t) ==
    \/ \E body \in Body : PublishJob(t, body) /\ UNCHANGED workerVars
    \/ \E m \in Message : m.start = t /\ Expire(m)
                         /\ UNCHANGED <<workerVars, bodies, storeVars>>
    \/ t \in Accepted /\ Pending(t)

LEMMA OthersUntouched ==
    ASSUME TypeInv, [WideNext]_vars, NEW s \in Starts, ~About(s)
    PROVE  Untouched(s)
<1>0. /\ ready \in [Queues -> [Message -> Nat]]
      /\ hand \in [Workers -> Message \cup {NoMessage}]
      /\ stale \in [Workers -> SUBSET Message]
      /\ "main_queue" \in Queues
  BY DEF TypeInv, TypeOK, BrokerTypeOK, WorkerTypeOK, Queues
<1>held. \A w \in Workers : ~HeldBy(w, s) /\ ~Buffered(w, s)
  <2>1. ASSUME NEW w \in Workers, HeldBy(w, s) \/ Buffered(w, s)
        PROVE  FALSE
    <3>1. s \in Accepted
      BY <2>1 DEF TypeInv, HandsOK, HeldBy, Buffered
    <3>2. Pending(s)
      BY <2>1 DEF Pending
    <3>3. QED
      BY <3>1, <3>2 DEF About
  <2>2. QED
    BY <2>1
<1>none. \A m \in Message : ready["main_queue"][m] > 0 => m.start # s
  <2>1. ASSUME NEW m \in Message, ready["main_queue"][m] > 0, m.start = s
        PROVE  FALSE
    <3>1. CopyIn("main_queue", s) /\ s \in Accepted
      BY <1>0, <2>1, CopyInQueue DEF TypeInv, CopiesOK
    <3>2. QED
      BY <3>1 DEF About, Pending
  <2>2. QED
    BY <2>1
<1>hands. \A w \in Workers : hand[w] # NoMessage => hand[w].start # s
  BY <1>held DEF HeldBy, Start
<1>buffers. \A w \in Workers : \A m \in stale[w] : m.start # s
  BY <1>held DEF Buffered
<1> DEFINE Out == \A w \in Workers : ~HeldBy(w, s)' /\ ~Buffered(w, s)'
<1>out. ASSUME \A w \in Workers : hand'[w] # NoMessage => hand'[w].start # s,
               \A w \in Workers : \A m \in stale'[w] : m.start # s
        PROVE  Out
  BY <1>out DEF HeldBy, Buffered, Start
<1>1. CASE UNCHANGED <<workerVars, bodies, brokerVars>>
  BY <1>1 DEF workerVars, brokerVars, Untouched, Accepted, HeldBy, Buffered, Start
<1>2. ASSUME NEW t \in Starts, NEW body \in Body, PublishJob(t, body), UNCHANGED workerVars
      PROVE  Untouched(s)
  <2>1. FirstTry(t).start = t /\ s # t
    BY <1>2 DEF FirstTry, About
  <2>2. \A w \in Workers : (HeldBy(w, s)' <=> HeldBy(w, s)) /\ (Buffered(w, s)' <=> Buffered(w, s))
    BY <1>2 DEF workerVars, HeldBy, Buffered, Start
  <2>3. UNCHANGED finished /\ (s \in Accepted' <=> s \in Accepted)
    BY <1>2, <2>1, PublishJobEffect DEF workerVars
  <2>4. \A m \in Message : m.start = s => (m \in discarded' <=> m \in discarded)
    BY <1>2, <2>1, PublishJobEffect
  <2>5. \A q \in Queues, m \in Message : m.start = s => ready'[q][m] = ready[q][m]
    BY <1>0, <1>2, <2>1, PublishJobEffect
  <2>6. QED
    BY <2>2, <2>3, <2>4, <2>5 DEF Untouched
<1>3. ASSUME NEW m \in Message, Expire(m), UNCHANGED <<workerVars, bodies, storeVars>>
      PROVE  Untouched(s)
  <2>1. m.start # s
    BY <1>3 DEF About
  <2>2. \A w \in Workers : (HeldBy(w, s)' <=> HeldBy(w, s)) /\ (Buffered(w, s)' <=> Buffered(w, s))
    BY <1>3 DEF workerVars, HeldBy, Buffered, Start
  <2>3. UNCHANGED finished /\ (s \in Accepted' <=> s \in Accepted)
    BY <1>3 DEF workerVars, Accepted
  <2>4. \A n \in Message : n.start = s => (n \in discarded' <=> n \in discarded)
    BY <1>3, <2>1, ExpireEffect
  <2>5. \A q \in Queues, n \in Message : n.start = s => ready'[q][n] = ready[q][n]
    BY <1>0, <1>3, <2>1, ExpireEffect
  <2>6. QED
    BY <2>2, <2>3, <2>4, <2>5 DEF Untouched
<1>4. ASSUME NEW w \in Workers, StartWorker(w)
      PROVE  Untouched(s)
  BY <1>4 DEF StartWorker, Untouched, Accepted, HeldBy, Buffered, Start
<1>5. ASSUME NEW w \in Workers, Receive(w)
      PROVE  Untouched(s)
  <2> PICK m \in Message : /\ Deliver(w, m) /\ hand' = [hand EXCEPT ![w] = m]
                           /\ UNCHANGED <<stale, finished, discarded, bodies>>
    BY <1>5 DEF Receive
  <2>1. m.start # s /\ ready' = [ready EXCEPT !["main_queue"][m] = @ - 1]
    BY <1>none DEF Deliver
  <2>2. Out
    BY <1>0, <1>hands, <1>buffers, <1>out, <2>1
  <2>3. QED
    BY <1>0, <1>held, <2>1, <2>2 DEF Untouched, Accepted
<1>6. ASSUME NEW w \in Workers, ReceiveStale(w)
      PROVE  Untouched(s)
  <2> PICK m \in stale[w] : /\ hand' = [hand EXCEPT ![w] = m]
                            /\ stale' = [stale EXCEPT ![w] = @ \ {m}]
                            /\ UNCHANGED <<finished, bodies, brokerVars>>
    BY <1>6 DEF ReceiveStale
  <2>1. Out
    BY <1>0, <1>hands, <1>buffers, <1>out
  <2>2. QED
    BY <1>held, <2>1 DEF Untouched, Accepted, brokerVars
<1>7. ASSUME NEW w \in Workers, Internal(w)
      PROVE  Untouched(s)
  <2>1. Start(w) # s
    BY <1>7, <1>hands, InternalEffect DEF TypeInv, HandsOK, Working, Start
  <2>2. QED
    BY <1>7, <2>1, InternalEffect DEF brokerVars, Untouched, Accepted, HeldBy, Buffered, Start
<1>8. ASSUME NEW w \in Workers, HandOff(w)
      PROVE  Untouched(s)
  <2>1. UNCHANGED <<hand, stale, finished, bodies>> /\ Start(w) # s
    BY <1>8, <1>hands DEF HandOff, TypeInv, HandsOK, Working, Start
  <2>2. ASSUME NEW q \in Queues, NEW m \in Message, m.start = s
        PROVE  ready'[q][m] = ready[q][m]
    <3>1. CASE ready' = ready
      BY <3>1
    <3>2. ASSUME NEW p \in Queues, NEW n \in Message, n.start = Start(w),
                 ready' = [ready EXCEPT ![p][n] = @ + 1]
          PROVE  ready'[q][m] = ready[q][m]
      BY <1>0, <2>1, <2>2, <3>2
    <3>3. QED
      BY <1>8, <3>1, <3>2, HandOffPublishes
  <2>3. \A m \in Message : m.start = s => (m \in discarded' <=> m \in discarded)
    BY <1>8, <2>1, HandOffEffect
  <2>4. QED
    BY <2>1, <2>2, <2>3 DEF Untouched, Accepted, HeldBy, Buffered, Start
<1>9. ASSUME NEW w \in Workers, Settle(w) \/ SettleDetached(w)
      PROVE  Untouched(s)
  <2>1. /\ hand' = [hand EXCEPT ![w] = NoMessage]
        /\ stale' = stale \/ stale' = [stale EXCEPT ![w] = {}]
        /\ UNCHANGED <<finished, bodies, ready, discarded>>
    BY <1>9 DEF Settle, SettleDetached, Exit, brokerVars
  <2>2. Out
    BY <1>0, <1>hands, <1>buffers, <1>out, <2>1
  <2>3. QED
    BY <1>held, <2>1, <2>2 DEF Untouched, Accepted
<1>10. ASSUME NEW w \in Workers, HandOffFails(w)
      PROVE  Untouched(s)
  <2>1. /\ ready' = ready /\ finished' = finished /\ bodies' = bodies
        /\ hand' = [hand EXCEPT ![w] = NoMessage]
        /\ stale' = [stale EXCEPT ![w] = {}]
        /\ discarded' = discarded \/ (Attached(w) /\ discarded' = discarded \cup {unacked[w]})
    BY <1>10, RejectEffect DEF HandOffFails, Exit
  <2>2. Attached(w) => unacked[w].start # s
    BY <1>hands DEF TypeInv, HandsOK, Attached
  <2>3. Out
    BY <1>0, <1>hands, <1>buffers, <1>out, <2>1
  <2>4. QED
    BY <1>held, <2>1, <2>2, <2>3 DEF Untouched, Accepted
<1>11. ASSUME NEW w \in Workers, Crash(w) \/ Disconnect(w)
      PROVE  Untouched(s)
  <2>1. /\ finished' = finished /\ bodies' = bodies /\ discarded' = discarded
        /\ hand' = hand \/ hand' = [hand EXCEPT ![w] = NoMessage]
        /\ \/ ready' = ready
           \/ /\ hand[w] \in Message
              /\ ready' = [ready EXCEPT !["main_queue"][hand[w]] = @ + 1]
    BY <1>11, RequeueEffect DEF Crash, Disconnect, Exit, brokerVars
  <2>2. ASSUME NEW q \in Queues, NEW m \in Message, m.start = s
        PROVE  ready'[q][m] = ready[q][m]
    <3>1. hand[w] \in Message => hand[w] # m
      BY <1>hands, <2>2
    <3>2. QED
      BY <1>0, <2>1, <3>1
  <2>3. \A v \in Workers : \A m \in stale'[v] : m.start # s
    <3>1. CASE Crash(w)
      BY <1>0, <1>buffers, <3>1 DEF Crash, Exit
    <3>2. CASE Disconnect(w)
      <4>1. PICK sent \in SUBSET {m \in Message : ready["main_queue"][m] > 0} :
               stale' = [stale EXCEPT ![w] = @ \cup sent]
        BY <3>2 DEF Disconnect
      <4>2. QED
        BY <1>0, <1>buffers, <1>none, <4>1
    <3>3. QED
      BY <1>11, <3>1, <3>2
  <2>4. Out
    BY <1>0, <1>hands, <1>out, <2>1, <2>3
  <2>5. QED
    BY <1>held, <2>1, <2>2, <2>4 DEF Untouched, Accepted
<1>12. QED
  BY <1>1, <1>2, <1>3, <1>4, <1>5, <1>6, <1>7, <1>8, <1>9, <1>10, <1>11, StepCases

-------------------------------------------------------------------------------
(* The refinement                                                          *)

(***************************************************************************)
(* How the phase of a request that a step is about changes.                *)
(***************************************************************************)
PhaseStep(s) ==
    \/ PhaseOf(s)' = PhaseOf(s)
    \/ PhaseOf(s) = "unsent" /\ PhaseOf(s)' \in {"pending", "lost"}
    \/ PhaseOf(s) = "pending" /\ PhaseOf(s)' \in {"parked", "done", "dead", "lost"}
    \/ PhaseOf(s) = "parked" /\ PhaseOf(s)' \in {"dead", "lost"}

LEMMA AccountNext == TypeInv' /\ TraceInv' => NothingForgotten'
  BY TracesAccount, PTL

LEMMA CopyInNext ==
    ASSUME NEW q, NEW s \in Starts
    PROVE  CopyIn(q, s)' <=> \E m \in Message : m.start = s /\ ready'[q][m] > 0
<1>1. \A n \in 0..MaxRetries : /\ [start |-> s, retry |-> n] \in Message
                              /\ [start |-> s, retry |-> n].start = s
  BY DEF Message
<1>2. \A m \in Message : m.retry \in 0..MaxRetries /\ m = [start |-> m.start, retry |-> m.retry]
  BY DEF Message
<1>3. QED
  BY <1>1, <1>2 DEF CopyIn

LEMMA PhaseSteps ==
    ASSUME TypeInv, TypeInv', TraceInv', HistoryOK, [WideNext]_vars,
           NEW t \in Starts, About(t)
    PROVE  PhaseStep(t)
<1>0. PhaseOf(t)' \in {"unsent", "pending", "parked", "done", "dead", "lost"}
      /\ (t \in Accepted' => PhaseOf(t)' # "unsent")
  <2>1. NothingForgotten'
    BY AccountNext
  <2>2. QED
    BY <2>1 DEF NothingForgotten, PhaseOf
<1>1. ASSUME NEW body \in Body, PublishJob(t, body), UNCHANGED workerVars
      PROVE  PhaseStep(t)
  <2>1. PhaseOf(t) = "unsent"
    BY <1>1 DEF PublishJob, Accepted, PhaseOf
  <2>2. t \in Accepted'
    BY <1>1, PublishJobEffect
  <2>3. t \notin finished'
    BY <1>1 DEF PublishJob, HistoryOK, Accepted, workerVars
  <2>4. ~CopyIn("retry_queue", t)' /\ ~CopyIn("dead_letter_queue", t)'
    <3>1. \A q \in {"retry_queue", "dead_letter_queue"}, m \in Message :
             ready'[q][m] > 0 => ready[q][m] > 0
      BY <1>1, PublishJobEffect DEF TypeInv, TypeOK, BrokerTypeOK, Queues
    <3>2. \A q \in {"retry_queue", "dead_letter_queue"}, m \in Message :
             ready[q][m] > 0 => m.start # t
      BY <1>1 DEF TypeInv, CopiesOK, Queues, PublishJob, Accepted
    <3>3. QED
      BY <3>1, <3>2, CopyInNext
  <2>5. QED
    BY <1>0, <2>1, <2>2, <2>3, <2>4 DEF PhaseStep, PhaseOf
<1>2. ASSUME NEW m \in Message, m.start = t, Expire(m), UNCHANGED <<workerVars, bodies, storeVars>>
      PROVE  PhaseStep(t)
  <2>1. /\ ready["retry_queue"][m] > 0 /\ m \in discarded'
        /\ ready' = [ready EXCEPT !["retry_queue"][m] = @ - 1]
    BY <1>2, ExpireEffect
  <2>2. CopyIn("retry_queue", t) /\ t \in Accepted
    BY <1>2, <2>1, CopyInQueue DEF TypeInv, CopiesOK, Queues
  <2>3. t \in Accepted' /\ (t \in finished' <=> t \in finished)
    BY <1>2, <2>2 DEF Accepted, workerVars
  <2>4. /\ CopyIn("main_queue", t)' <=> CopyIn("main_queue", t)
        /\ CopyIn("dead_letter_queue", t)' <=> CopyIn("dead_letter_queue", t)
    <3>1. /\ ready'["main_queue"] = ready["main_queue"]
          /\ ready'["dead_letter_queue"] = ready["dead_letter_queue"]
      BY <2>1 DEF TypeInv, TypeOK, BrokerTypeOK, Queues
    <3>2. QED
      BY <3>1 DEF CopyIn
  <2>5. Pending(t)' <=> Pending(t)
    BY <1>2, <2>4 DEF Pending, HeldBy, Buffered, Start, workerVars
  <2>6. Dropped(t)'
    BY <1>2, <2>1 DEF Dropped, Message
  <2>7. QED
    BY <2>2, <2>3, <2>4, <2>5, <2>6 DEF PhaseStep, PhaseOf
<1>3. CASE t \in Accepted /\ Pending(t)
  <2>1. PhaseOf(t) = "pending"
    BY <1>3 DEF PhaseOf
  <2>2. t \in Accepted'
    BY <1>3, AcceptedStays
  <2>3. QED
    BY <1>0, <2>1, <2>2 DEF PhaseStep
<1>4. QED
  BY <1>1, <1>2, <1>3 DEF About

(***************************************************************************)
(* A step of the pipeline is a step of JobDelivery or leaves every phase.  *)
(***************************************************************************)
LEMMA StepDelivers ==
    TypeInv /\ TypeInv' /\ TraceInv' /\ HistoryOK /\ [WideNext]_vars
        => [Delivery!DNext]_([s \in Starts |-> PhaseOf(s)])
<1> SUFFICES ASSUME TypeInv, TypeInv', TraceInv', HistoryOK, [WideNext]_vars
             PROVE  [Delivery!DNext]_([s \in Starts |-> PhaseOf(s)])
  OBVIOUS
<1> DEFINE phase == [s \in Starts |-> PhaseOf(s)]
<1>2. \A s \in Starts : PhaseStep(s)
  <2>1. ASSUME NEW s \in Starts
        PROVE  PhaseStep(s)
    <3>1. CASE About(s)
      BY <3>1, PhaseSteps
    <3>2. CASE ~About(s)
      BY <3>2, OthersUntouched, UntouchedPhase DEF PhaseStep
    <3>3. QED
      BY <3>1, <3>2
  <2>2. QED
    BY <2>1
<1>3. phase' \in [Starts -> Delivery!Phases]
  <2>1. \A s \in Starts : PhaseOf(s)' \in Delivery!Phases
    BY AccountNext DEF NothingForgotten, PhaseOf, Delivery!Phases
  <2>2. QED
    BY <2>1
<1>4. ASSUME NEW s \in Starts
      PROVE  \/ Delivery!Keep(s) \/ Delivery!Accept(s)
             \/ Delivery!Attempt(s) \/ Delivery!Retry(s)
  <2>0. phase[s] = PhaseOf(s) /\ phase'[s] = PhaseOf(s)'
    OBVIOUS
  <2>1. PhaseStep(s)
    BY <1>2
  <2> HIDE DEF phase
  <2>2. QED
    BY <2>0, <2>1
       DEF PhaseStep, phase, Delivery!Keep, Delivery!Accept, Delivery!Attempt, Delivery!Retry,
           Delivery!Become, Delivery!Final
<1>5. Delivery!DNext
  BY <1>3, <1>4 DEF Delivery!DNext
<1>6. QED
  BY <1>5

LEMMA InitDelivers == Init => Delivery!DInit
  BY DEF Init, UploadInit, Accepted, PhaseOf, Delivery!DInit

(***************************************************************************)
(* The pipeline implements JobDelivery: workers, copies, acknowledgements, *)
(* redeliveries and expiries add up to one request going through the       *)
(* phases of the specification, and done, dead and lost are final.         *)
(***************************************************************************)
THEOREM PipelineDelivers == Spec => ImplementsDelivery
<1>1. Init => TypeInv /\ TraceInv /\ HistoryOK
  BY InitType, InitAccount, InitHistory
<1>2. TypeInv /\ TraceInv /\ HistoryOK /\ [Next]_vars => (TypeInv /\ TraceInv /\ HistoryOK)'
  BY NextIsWide, StepType, StepAccount, StepHistory
<1>3. TypeInv /\ TraceInv /\ HistoryOK /\ (TypeInv /\ TraceInv /\ HistoryOK)' /\ [Next]_vars
          => [Delivery!DNext]_([s \in Starts |-> PhaseOf(s)])
  BY NextIsWide, StepDelivers
<1>4. QED
  BY <1>1, <1>2, <1>3, InitDelivers, PTL DEF Spec, ImplementsDelivery, Delivery!DSpec
===============================================================================
