-------------------------------- MODULE Startup --------------------------------
(***************************************************************************)
(* How the upload service and the workers come up against a broker that is *)
(* still booting, or restarts: docker-compose starts the containers in     *)
(* order and waits for none, so each service tries to connect a number of  *)
(* times with a pause after every failure, then declares what it needs.    *)
(* Only the connection is retried: an error in a declaration, or in the    *)
(* last attempt, ends the process, and nothing starts it again but an      *)
(* operator.  A robust connection that was established reconnects itself.  *)
(*                                                                         *)
(* Time is counted per service, from its launch.                           *)
(***************************************************************************)
EXTENDS Integers, Sequences

CONSTANTS
    Uploads,  \* upload service processes
    Workers,  \* worker processes
    Retries,  \* attempts to connect, 10
    Delay     \* pause after a failed attempt, 3 seconds

ASSUME RetriesAssumption == Retries \in Nat \ {0} /\ Delay \in Nat

VARIABLES
    reachable,  \* the broker answers
    existing,   \* what is declared on the broker
    routed,     \* a worker has declared everything once (history variable)
    proc,       \* [service -> where its start is]
    tries,      \* [service -> attempts that failed]
    pause,      \* [service -> what is left of asyncio.sleep]
    step,       \* [service -> declarations made]
    link,       \* [service -> the broker was reachable throughout its call]
    age,        \* [service -> time since its launch, up to Patience, while it
                \*  has no connection]
    cameUp      \* [service -> its age when the broker last came up]

startVars ==
    <<reachable, existing, routed, proc, tries, pause, step, link, age, cameUp>>

Services == Uploads \cup Workers

\* What init_rabbitmq of the worker declares, in its order; a binding has the
\* name of its routing key.
Topology == <<"main_exchange", "retry_exchange", "dlx_exchange",
              "main_queue", "retry_queue", "dead_letter_queue",
              "main", "retry", "dead">>

Declarations(s) == IF s \in Workers THEN Topology ELSE <<"main_exchange">>

Objects == {Topology[i] : i \in DOMAIN Topology}

\* Mutation: the queue of the jobs is not durable, and its binding goes with it.
TransientQueue == {"main_queue", "main"}

\* What a restart of the broker forgets: every declaration is durable.
Transient == {}

\* How long a service is certain to wait for the broker.
Patience == (Retries - 1) * Delay

StartupInit ==
    /\ reachable = FALSE /\ existing = {} /\ routed = FALSE
    /\ proc = [s \in Services |-> "down"]
    /\ tries = [s \in Services |-> 0]
    /\ pause = [s \in Services |-> 0]
    /\ step = [s \in Services |-> 0]
    /\ link = [s \in Services |-> FALSE]
    /\ age = [s \in Services |-> 0]
    /\ cameUp = [s \in Services |-> 0]

Enter(s, place) == proc' = [proc EXCEPT ![s] = place]

\* The attempts are over, with or without a connection.
StopTrying(s) ==
    /\ tries' = [tries EXCEPT ![s] = 0]
    /\ pause' = [pause EXCEPT ![s] = 0]
    /\ age' = [age EXCEPT ![s] = 0]
    /\ cameUp' = [cameUp EXCEPT ![s] = 0]

End(s) ==
    /\ Enter(s, "down")
    /\ StopTrying(s)
    /\ step' = [step EXCEPT ![s] = 0]
    /\ link' = [link EXCEPT ![s] = FALSE]
    /\ UNCHANGED <<reachable, existing, routed>>

\* A call that needs the broker begins.
Call(s) == link' = [link EXCEPT ![s] = reachable]

-------------------------------------------------------------------------------
(* The broker and the clock                                                *)

Tick ==
    /\ age' = [s \in Services |->
                  IF proc[s] \in {"connect", "sleep"} /\ age[s] < Patience
                     THEN age[s] + 1 ELSE age[s]]
    /\ pause' = [s \in Services |-> IF pause[s] > 0 THEN pause[s] - 1 ELSE 0]
    /\ UNCHANGED <<reachable, existing, routed, proc, tries, step, link, cameUp>>

BrokerUp ==
    /\ ~reachable
    /\ reachable' = TRUE
    /\ cameUp' = age
    /\ UNCHANGED <<existing, routed, proc, tries, pause, step, link, age>>

BrokerDown ==
    /\ reachable
    /\ reachable' = FALSE
    /\ existing' = existing \ Transient
    /\ link' = [s \in Services |-> FALSE]
    /\ UNCHANGED <<routed, proc, tries, pause, step, age, cameUp>>

-------------------------------------------------------------------------------
(* A service                                                               *)

Launch(s) ==
    /\ proc[s] = "down"
    /\ Enter(s, "connect")
    /\ Call(s)
    /\ UNCHANGED <<reachable, existing, routed, tries, pause, step, age, cameUp>>

Connected(s) ==
    /\ proc[s] = "connect"
    /\ reachable
    /\ Enter(s, "declare")
    /\ Call(s)
    /\ StopTrying(s)
    /\ UNCHANGED <<reachable, existing, routed, step>>

\* Mutation: a failed attempt is repeated without a pause.
AttemptFailsAtOnce(s) ==
    /\ proc[s] = "connect"
    /\ ~link[s]
    /\ Enter(s, "sleep")
    /\ tries' = [tries EXCEPT ![s] = @ + 1]
    /\ UNCHANGED <<reachable, existing, routed, pause, step, link, age, cameUp>>

AttemptFails(s) ==
    /\ proc[s] = "connect"
    /\ ~link[s]
    /\ Enter(s, "sleep")
    /\ tries' = [tries EXCEPT ![s] = @ + 1]
    /\ pause' = [pause EXCEPT ![s] = Delay]
    /\ UNCHANGED <<reachable, existing, routed, step, link, age, cameUp>>

\* Mutation: the attempts are not counted.
WakeUncounted(s) ==
    /\ proc[s] = "sleep"
    /\ pause[s] = 0
    /\ Enter(s, "connect")
    /\ Call(s)
    /\ tries' = [tries EXCEPT ![s] = 0]
    /\ UNCHANGED <<reachable, existing, routed, pause, step, age, cameUp>>

\* Mutation: one attempt more.
WakeOnceMore(s) ==
    /\ proc[s] = "sleep"
    /\ pause[s] = 0
    /\ \/ /\ tries[s] <= Retries
          /\ Enter(s, "connect")
          /\ Call(s)
          /\ UNCHANGED <<reachable, existing, routed, tries, pause, step, age, cameUp>>
       \/ tries[s] > Retries /\ End(s)

\* The pause after the last attempt is taken as well, before the process ends.
Wake(s) ==
    /\ proc[s] = "sleep"
    /\ pause[s] = 0
    /\ \/ /\ tries[s] < Retries
          /\ Enter(s, "connect")
          /\ Call(s)
          /\ UNCHANGED <<reachable, existing, routed, tries, pause, step, age, cameUp>>
       \/ tries[s] = Retries /\ End(s)

Declare(s) ==
    /\ proc[s] = "declare"
    /\ link[s]
    /\ existing' = existing \cup {Declarations(s)[step[s] + 1]}
    /\ step' = [step EXCEPT ![s] = @ + 1]
    /\ IF step'[s] = Len(Declarations(s))
          THEN Enter(s, "ready") /\ routed' = (routed \/ s \in Workers)
          ELSE UNCHANGED <<proc, routed>>
    /\ UNCHANGED <<reachable, tries, pause, link, age, cameUp>>

DeclareFails(s) ==
    /\ proc[s] = "declare"
    /\ ~link[s]
    /\ End(s)

\* The process dies or its container is stopped.
Stop(s) == proc[s] # "down" /\ End(s)

ServiceStep(s) ==
    Connected(s) \/ AttemptFails(s) \/ Wake(s) \/ Declare(s) \/ DeclareFails(s)

StartupNext ==
    \/ Tick \/ BrokerUp \/ BrokerDown
    \/ \E s \in Services : Launch(s) \/ ServiceStep(s) \/ Stop(s)

StartupSpec == StartupInit /\ [][StartupNext]_startVars

(***************************************************************************)
(* Time goes on, a sleep ends, and a call to the broker is answered or     *)
(* raises.  Nothing is assumed of the broker or of the operator.           *)
(***************************************************************************)
StartupFairSpec ==
    /\ StartupSpec
    /\ WF_startVars(Tick)
    /\ \A s \in Services : WF_startVars(ServiceStep(s))

-------------------------------------------------------------------------------

StartupTypeOK ==
    /\ reachable \in BOOLEAN /\ routed \in BOOLEAN
    /\ existing \subseteq Objects
    /\ proc \in [Services -> {"down", "connect", "sleep", "declare", "ready"}]
    /\ tries \in [Services -> 0..Retries]
    /\ pause \in [Services -> 0..Delay]
    /\ step \in [Services -> 0..Len(Topology)]
    /\ link \in [Services -> BOOLEAN]
    /\ age \in [Services -> 0..Patience]
    /\ cameUp \in [Services -> 0..Patience]

(***************************************************************************)
(* Once a worker has been ready, a job that is published reaches a queue,  *)
(* and its retry and its dead letter do: whatever the broker, this worker  *)
(* or any other process does afterwards, in the middle of declaring or     *)
(* not.  (What Broker calls `declared` is never taken back.)  This is of a *)
(* broker that is stopped and started again: its container has no volume,  *)
(* and one that is created anew knows nothing of what was declared.        *)
(***************************************************************************)
StaysRouted == routed => Objects \subseteq existing

(***************************************************************************)
(* A service does not give the broker up early: one that ends its attempts *)
(* while the broker is reachable was launched at least Patience before the *)
(* broker came up.                                                         *)
(***************************************************************************)
GivesUp(s) == proc[s] = "sleep" /\ Wake(s) /\ tries[s] = Retries

PatientWithBroker ==
    [][\A s \in Services : GivesUp(s) /\ reachable => cameUp[s] >= Patience]_startVars

(***************************************************************************)
(* A launched service ends up ready or down, however often the broker goes *)
(* and comes.                                                              *)
(***************************************************************************)
EveryStartEnds ==
    \A s \in Services : proc[s] = "connect" ~> proc[s] \in {"ready", "down"}
===============================================================================
