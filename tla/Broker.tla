-------------------------------- MODULE Broker --------------------------------
(***************************************************************************)
(* The RabbitMQ broker as the upload service and the workers use it: the   *)
(* topology that init_rabbitmq of the worker declares, publishing with a   *)
(* routing key, delivery to a consumer, acknowledgement, rejection with    *)
(* dead-lettering, redelivery when a connection is lost and the expiry of  *)
(* the retry queue.  RabbitMQ itself is external; what is declared and the *)
(* calls made come from src/conversion_workers/queue and                   *)
(* src/upload_service/src/queue.                                           *)
(*                                                                         *)
(* A copy of a message is identified by the start request it carries and   *)
(* its retry count.  A queue is the multiset of the copies it holds: the   *)
(* channel sets no prefetch limit, so the client library buffers copies    *)
(* ahead and redelivery reorders them; a buffered copy counts as ready.    *)
(***************************************************************************)
EXTENDS Integers

CONSTANTS
    Starts,      \* start requests the clients make (bounds the run)
    MaxRetries,  \* MAX_RETRIES of the consumer
    Workers,     \* worker processes
    NoMessage    \* sentinel: no message held

ASSUME RetriesAssumption == MaxRetries \in Nat

Message == [start: Starts, retry: 0..MaxRetries]

ASSUME NoMessageAssumption == NoMessage \notin Message

VARIABLES
    declared,   \* the worker's topology exists on the broker
    ready,      \* [queue -> [message -> number of copies waiting]]
    unacked,    \* [worker -> copy the broker counts as delivered to it]
    discarded   \* copies the broker dropped (history variable)

brokerVars == <<declared, ready, unacked, discarded>>

Queues == {"main_queue", "retry_queue", "dead_letter_queue"}

\* Exchange, routing key and queue of each bind call.
Bindings == {<<"main_exchange", "main", "main_queue">>,
             <<"retry_exchange", "retry", "retry_queue">>,
             <<"dlx_exchange", "dead", "dead_letter_queue">>}

\* The key a copy in a queue was published with: each queue has one binding.
KeyOf == [main_queue |-> "main", retry_queue |-> "retry"]

\* The x-dead-letter-exchange arguments.  No exchange is named "main_queue".
DeadLetterExchange == [main_queue  |-> "retry_exchange",
                       retry_queue |-> "main_queue"]

Route(exchange, key) ==
    {q \in Queues : declared /\ <<exchange, key, q>> \in Bindings}

BrokerInit ==
    /\ declared = FALSE
    /\ ready = [q \in Queues |-> [m \in Message |-> 0]]
    /\ unacked = [w \in Workers |-> NoMessage]
    /\ discarded = {}

DeclareTopology == declared' = TRUE

\* Copies `base` plus the one(s) that publishing m adds; an unroutable copy is
\* dropped (returned to a publisher that listens to no return).
PublishOnto(base, exchange, key, m) ==
    /\ ready' = [q \in Queues |->
                    IF q \in Route(exchange, key)
                        THEN [base[q] EXCEPT ![m] = @ + 1] ELSE base[q]]
    /\ discarded' = IF Route(exchange, key) = {}
                        THEN discarded \cup {m} ELSE discarded

Publish(exchange, key, m) == PublishOnto(ready, exchange, key, m)

Deliver(w, m) ==
    /\ ready["main_queue"][m] > 0
    /\ unacked[w] = NoMessage
    /\ ready' = [ready EXCEPT !["main_queue"][m] = @ - 1]
    /\ unacked' = [unacked EXCEPT ![w] = m]

Ack(w) == unacked' = [unacked EXCEPT ![w] = NoMessage]

DeadLetterFrom(base, queue, m) ==
    PublishOnto(base, DeadLetterExchange[queue], KeyOf[queue], m)

Reject(w) ==
    /\ Ack(w)
    /\ DeadLetterFrom(ready, "main_queue", unacked[w])

Requeue(w) ==
    /\ unacked[w] # NoMessage
    /\ ready' = [ready EXCEPT !["main_queue"][unacked[w]] = @ + 1]
    /\ Ack(w)
    /\ UNCHANGED <<declared, discarded>>

\* The x-message-ttl of the retry queue runs out for one copy.
Expire(m) ==
    /\ ready["retry_queue"][m] > 0
    /\ DeadLetterFrom([ready EXCEPT !["retry_queue"][m] = @ - 1], "retry_queue", m)
    /\ UNCHANGED <<declared, unacked>>

BrokerTypeOK ==
    /\ declared \in BOOLEAN
    /\ ready \in [Queues -> [Message -> Nat]]
    /\ unacked \in [Workers -> Message \cup {NoMessage}]
    /\ discarded \subseteq Message
===============================================================================
