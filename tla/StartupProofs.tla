----------------------------- MODULE StartupProofs -----------------------------
(***************************************************************************)
(* Proofs about the start of the services, for any numbers of services and *)
(* attempts and any pause.                                                 *)
(***************************************************************************)
EXTENDS Startup, TLAPS

(***************************************************************************)
(* The inductive invariant: besides the types, a service that connects has *)
(* an attempt left, and one that declares has something left to declare    *)
(* and finds on the broker what it declared before.                        *)
(***************************************************************************)
Declared(s) == {Declarations(s)[i] : i \in 1..step[s]}

ServiceOK(s) ==
    /\ proc[s] = "down" => tries[s] = 0
    /\ proc[s] = "connect" => tries[s] < Retries
    /\ proc[s] \in {"down", "connect", "sleep"} => step[s] = 0
    /\ proc[s] = "declare" => /\ step[s] < Len(Declarations(s))
                              /\ Declared(s) \subseteq existing

StartInv ==
    /\ StartupTypeOK
    /\ \A s \in Services : ServiceOK(s)
    /\ StaysRouted

-------------------------------------------------------------------------------

(***************************************************************************)
(* The lists of declarations are sequences of objects.                     *)
(***************************************************************************)
LEMMA TopologyIsFinite ==
    /\ Len(Topology) = 9
    /\ DOMAIN Topology = 1..9
    /\ \A i \in 1..9 : Topology[i] \in Objects
    /\ Topology[1] = "main_exchange"
<1>1. Len(Topology) = 9 /\ DOMAIN Topology = 1..9 /\ Topology[1] = "main_exchange"
  BY DEF Topology
<1>2. \A i \in DOMAIN Topology : Topology[i] \in Objects
  BY Zenon DEF Objects
<1> QED
  BY <1>1, <1>2, Zenon

LEMMA PlansAreFinite ==
    ASSUME NEW s \in Services
    PROVE  /\ Len(Declarations(s)) \in 1..9
           /\ \A i \in 1..Len(Declarations(s)) : Declarations(s)[i] \in Objects
<1>1. CASE s \in Workers
  <2>1. Declarations(s) = Topology
    BY <1>1 DEF Declarations
  <2> QED
    BY <2>1, TopologyIsFinite
<1>2. CASE s \notin Workers
  <2>1. Declarations(s) = <<"main_exchange">>
    BY <1>2 DEF Declarations
  <2>2. "main_exchange" \in Objects
    BY TopologyIsFinite
  <2> QED
    BY <2>1, <2>2
<1> QED
  BY <1>1, <1>2

(***************************************************************************)
(* A worker that has made its whole list has made every object exist.      *)
(***************************************************************************)
LEMMA WholeList ==
    ASSUME NEW s \in Services, s \in Workers, NEW E,
           \A i \in 1..Len(Declarations(s)) : Declarations(s)[i] \in E
    PROVE  Objects \subseteq E
<1>1. Declarations(s) = Topology
  BY DEF Declarations
<1>2. \A i \in DOMAIN Topology : Topology[i] \in E
  BY <1>1, TopologyIsFinite
<1> QED
  BY <1>2, Zenon DEF Objects

(***************************************************************************)
(* The time a service waits for the broker is a number.                    *)
(***************************************************************************)
LEMMA PatienceIsNat == Patience \in Nat /\ 0 \in 0..Patience /\ Delay \in 0..Delay
<1>1. Retries - 1 \in Nat /\ Delay \in Nat
  BY RetriesAssumption
<1>2. \A a, b \in Nat : a * b \in Nat
  OBVIOUS
<1>3. Patience \in Nat
  BY <1>1, <1>2 DEF Patience
<1> QED
  BY <1>1, <1>3

-------------------------------------------------------------------------------

LEMMA StartInvInit == StartupInit => StartInv
<1> SUFFICES ASSUME StartupInit
             PROVE  StartInv
  OBVIOUS
<1>1. StartupTypeOK
  <2>1. 0 \in 0..Len(Topology) /\ 0 \in 0..Retries /\ 0 \in 0..Delay /\ 0 \in 0..Patience
    BY TopologyIsFinite, PatienceIsNat, RetriesAssumption
  <2> QED
    BY <2>1 DEF StartupInit, StartupTypeOK
<1>2. \A s \in Services : ServiceOK(s)
  BY DEF StartupInit, ServiceOK
<1> QED
  BY <1>1, <1>2 DEF StartInv, StaysRouted, StartupInit

(***************************************************************************)
(* What a step leaves alone keeps its place in the invariant.              *)
(***************************************************************************)
LEMMA OthersKeep ==
    ASSUME NEW t \in Services, ServiceOK(t), existing \subseteq existing',
           UNCHANGED <<proc[t], tries[t], step[t]>>
    PROVE  ServiceOK(t)'
  BY DEF ServiceOK, Declared

(***************************************************************************)
(* The end of a start, for whatever reason, keeps the invariant.           *)
(***************************************************************************)
LEMMA EndKeeps ==
    ASSUME StartInv, NEW s \in Services, End(s)
    PROVE  StartInv'
<1>1. StartupTypeOK'
  BY PatienceIsNat, RetriesAssumption, TopologyIsFinite
     DEF StartInv, StartupTypeOK, End, Enter, StopTrying
<1>2. ASSUME NEW t \in Services
      PROVE  ServiceOK(t)'
  <2>1. CASE t = s
    BY <2>1 DEF StartInv, StartupTypeOK, End, Enter, StopTrying, ServiceOK
  <2>2. CASE t # s
    <3>1. UNCHANGED <<proc[t], tries[t], step[t]>> /\ existing \subseteq existing'
      BY <2>2 DEF StartInv, StartupTypeOK, End, Enter, StopTrying
    <3> QED
      BY <3>1, OthersKeep DEF StartInv
  <2> QED
    BY <2>1, <2>2
<1> QED
  BY <1>1, <1>2 DEF StartInv, StaysRouted, End

(***************************************************************************)
(* So does the next attempt of a service without a connection.             *)
(***************************************************************************)
LEMMA ConnectKeeps ==
    ASSUME StartInv, NEW s \in Services, proc[s] \in {"down", "sleep"},
           tries[s] < Retries, Enter(s, "connect"), Call(s),
           UNCHANGED <<reachable, existing, routed, tries, pause, step, age, cameUp>>
    PROVE  StartInv'
<1>1. StartupTypeOK'
  BY DEF StartInv, StartupTypeOK, Enter, Call
<1>2. ASSUME NEW t \in Services
      PROVE  ServiceOK(t)'
  BY DEF StartInv, StartupTypeOK, Enter, ServiceOK, Declared
<1> QED
  BY <1>1, <1>2 DEF StartInv, StaysRouted

LEMMA DeclareKeeps ==
    ASSUME StartInv, NEW s \in Services, Declare(s)
    PROVE  StartInv'
<1> DEFINE n == step[s] + 1
<1> DEFINE d == Declarations(s)
<1>1. n \in 1..Len(d) /\ n \in 0..Len(Topology) /\ d[n] \in Objects /\ step[s] \in Nat
  <2>1. step[s] \in 0..9
    BY TopologyIsFinite DEF StartInv, StartupTypeOK
  <2>2. step[s] < Len(d)
    BY DEF StartInv, ServiceOK, Declare
  <2>3. Len(d) \in 1..9 /\ \A i \in 1..Len(d) : d[i] \in Objects
    BY PlansAreFinite
  <2>4. n \in 1..Len(d) /\ n \in 0..9
    BY <2>1, <2>2, <2>3
  <2> HIDE DEF d, n
  <2> QED
    BY <2>1, <2>3, <2>4, TopologyIsFinite
<1>2. /\ step' = [step EXCEPT ![s] = n] /\ step'[s] = n
      /\ existing' = existing \cup {d[n]}
  BY DEF StartInv, StartupTypeOK, Declare
<1>3. \A i \in 1..n : d[i] \in existing'
  <2>1. \A i \in 1..step[s] : d[i] \in existing
    BY DEF StartInv, ServiceOK, Declared, Declare
  <2> QED
    BY <1>1, <1>2, <2>1
<1>4. UNCHANGED <<reachable, tries, pause, link, age, cameUp>>
  BY DEF Declare
<1>5. CASE n = Len(d)
  <2>1. proc' = [proc EXCEPT ![s] = "ready"] /\ routed' = (routed \/ s \in Workers)
    BY <1>2, <1>5 DEF Declare, Enter
  <2>2. StartupTypeOK'
    BY <1>1, <1>2, <1>4, <2>1 DEF StartInv, StartupTypeOK
  <2>3. ASSUME NEW t \in Services
        PROVE  ServiceOK(t)'
    <3>1. CASE t = s
      BY <2>1, <3>1 DEF StartInv, StartupTypeOK, ServiceOK
    <3>2. CASE t # s
      BY <1>2, <1>4, <2>1, <3>2, OthersKeep DEF StartInv, StartupTypeOK
    <3> QED
      BY <3>1, <3>2
  <2>4. StaysRouted'
    <3>1. s \in Workers => Objects \subseteq existing'
      BY <1>3, <1>5, WholeList
    <3> QED
      BY <1>2, <2>1, <3>1 DEF StartInv, StaysRouted
  <2> QED
    BY <2>2, <2>3, <2>4 DEF StartInv
<1>6. CASE n # Len(d)
  <2>1. UNCHANGED <<proc, routed>>
    BY <1>2, <1>6 DEF Declare
  <2>2. StartupTypeOK'
    BY <1>1, <1>2, <1>4, <2>1 DEF StartInv, StartupTypeOK
  <2>3. ASSUME NEW t \in Services
        PROVE  ServiceOK(t)'
    <3>1. CASE t = s
      <4>1. proc'[t] = "declare" /\ step'[t] < Len(d)
        BY <1>1, <1>2, <1>6, <2>1, <3>1, PlansAreFinite DEF Declare
      <4>2. Declared(t)' \subseteq existing'
        BY <1>2, <1>3, <3>1 DEF Declared
      <4> QED
        BY <3>1, <4>1, <4>2 DEF ServiceOK
    <3>2. CASE t # s
      BY <1>2, <1>4, <2>1, <3>2, OthersKeep DEF StartInv, StartupTypeOK
    <3> QED
      BY <3>1, <3>2
  <2>4. StaysRouted'
    BY <1>2, <2>1 DEF StartInv, StaysRouted
  <2> QED
    BY <2>2, <2>3, <2>4 DEF StartInv
<1> QED
  BY <1>5, <1>6

-------------------------------------------------------------------------------

LEMMA StepStartInv == StartInv /\ [StartupNext]_startVars => StartInv'
<1> SUFFICES ASSUME StartInv, [StartupNext]_startVars
             PROVE  StartInv'
  OBVIOUS
<1>1. CASE Tick
  <2>1. StartupTypeOK'
    <3>1. \A p \in 0..Delay : (IF p > 0 THEN p - 1 ELSE 0) \in 0..Delay
      BY RetriesAssumption
    <3>2. \A a \in 0..Patience : a < Patience => a + 1 \in 0..Patience
      BY PatienceIsNat
    <3> QED
      BY <1>1, <3>1, <3>2 DEF StartInv, StartupTypeOK, Tick
  <2> QED
    BY <1>1, <2>1, OthersKeep DEF StartInv, StaysRouted, Tick
<1>2. CASE BrokerUp
  <2>1. StartupTypeOK'
    BY <1>2 DEF StartInv, StartupTypeOK, BrokerUp
  <2> QED
    BY <1>2, <2>1, OthersKeep DEF StartInv, StaysRouted, BrokerUp
<1>3. CASE BrokerDown
  <2>1. existing' = existing
    BY <1>3 DEF BrokerDown, Transient
  <2>2. StartupTypeOK'
    BY <1>3, <2>1 DEF StartInv, StartupTypeOK, BrokerDown
  <2> QED
    BY <1>3, <2>1, <2>2, OthersKeep DEF StartInv, StaysRouted, BrokerDown
<1>4. ASSUME NEW s \in Services, Launch(s)
      PROVE  StartInv'
  <2>1. tries[s] < Retries
    BY <1>4, RetriesAssumption DEF StartInv, ServiceOK, Launch
  <2> QED
    BY <1>4, <2>1, ConnectKeeps DEF Launch
<1>5. ASSUME NEW s \in Services, Connected(s)
      PROVE  StartInv'
  <2>1. StartupTypeOK'
    BY <1>5, PatienceIsNat, RetriesAssumption
       DEF StartInv, StartupTypeOK, Connected, Enter, Call, StopTrying
  <2>2. ASSUME NEW t \in Services
        PROVE  ServiceOK(t)'
    <3>1. CASE t = s
      <4>1. proc'[t] = "declare" /\ step'[t] = 0
        BY <1>5, <3>1 DEF StartInv, StartupTypeOK, ServiceOK, Connected, Enter
      <4>2. Declared(t)' \subseteq existing'
        <5>1. 1..step'[t] = {}
          BY <4>1
        <5> QED
          BY <5>1, Zenon DEF Declared
      <4>3. 0 < Len(Declarations(t))
        <5>1. Len(Declarations(t)) \in 1..9
          BY PlansAreFinite, Zenon
        <5>2. \A k \in 1..9 : 0 < k
          OBVIOUS
        <5> QED
          BY <5>1, <5>2, Zenon
      <4>4. step'[t] < Len(Declarations(t))
        BY <4>1, <4>3
      <4> QED
        BY <4>1, <4>2, <4>4, Zenon DEF ServiceOK
    <3>2. CASE t # s
      <4>1. UNCHANGED <<proc[t], tries[t], step[t], existing>>
        BY <1>5, <3>2 DEF StartInv, StartupTypeOK, Connected, Enter, StopTrying
      <4>2. ServiceOK(t) /\ existing \subseteq existing'
        BY <4>1 DEF StartInv
      <4> QED
        BY <4>1, <4>2, OthersKeep
    <3> QED
      BY <3>1, <3>2
  <2> QED
    BY <1>5, <2>1, <2>2 DEF StartInv, StaysRouted, Connected
<1>6. ASSUME NEW s \in Services, AttemptFails(s)
      PROVE  StartInv'
  <2>1. tries[s] + 1 \in 0..Retries
    BY <1>6, RetriesAssumption DEF StartInv, StartupTypeOK, ServiceOK, AttemptFails
  <2>2. StartupTypeOK'
    BY <1>6, <2>1, PatienceIsNat DEF StartInv, StartupTypeOK, AttemptFails, Enter
  <2>3. ASSUME NEW t \in Services
        PROVE  ServiceOK(t)'
    BY <1>6 DEF StartInv, StartupTypeOK, ServiceOK, Declared, AttemptFails, Enter
  <2> QED
    BY <1>6, <2>2, <2>3 DEF StartInv, StaysRouted, AttemptFails
<1>7. ASSUME NEW s \in Services, Wake(s)
      PROVE  StartInv'
  BY <1>7, EndKeeps, ConnectKeeps DEF Wake
<1>8. ASSUME NEW s \in Services, DeclareFails(s) \/ Stop(s)
      PROVE  StartInv'
  BY <1>8, EndKeeps DEF DeclareFails, Stop
<1>9. CASE UNCHANGED startVars
  BY <1>9 DEF startVars, StartInv, StartupTypeOK, StaysRouted, ServiceOK, Declared
<1> QED
  BY <1>1, <1>2, <1>3, <1>4, <1>5, <1>6, <1>7, <1>8, <1>9, DeclareKeeps
     DEF StartupNext, ServiceStep

(***************************************************************************)
(* The counters of attempts, pauses and declarations stay in their bounds, *)
(* for any number of services and attempts.  (get_rabbitmq_connection.)    *)
(***************************************************************************)
THEOREM StartTypeCorrect == StartupSpec => []StartupTypeOK
<1>1. StartInv => StartupTypeOK
  BY DEF StartInv
<1> QED
  BY <1>1, StartInvInit, StepStartInv, PTL DEF StartupSpec

(***************************************************************************)
(* What a worker has declared once stays declared, whichever services and  *)
(* however often the broker restart.  (init_rabbitmq.)                     *)
(***************************************************************************)
THEOREM TopologyStays == StartupSpec => []StaysRouted
<1>1. StartInv => StaysRouted
  BY DEF StartInv
<1> QED
  BY <1>1, StartInvInit, StepStartInv, PTL DEF StartupSpec

-------------------------------------------------------------------------------
(* No service gives the broker up early                                    *)

\* The pauses that follow n failed attempts.
Pauses(n) == n * Delay

LEMMA PausesBounds == Pauses(0) = 0 /\ Pauses(Retries - 1) = Patience
<1>1. \A d \in Nat : 0 * d = 0
  OBVIOUS
<1>2. QED
  BY <1>1, RetriesAssumption DEF Pauses, Patience

LEMMA PausesAdd ==
    ASSUME NEW n \in Nat
    PROVE  Pauses(n) \in Nat /\ Pauses(n + 1) = Pauses(n) + Delay
<1>1. Delay \in Nat
  BY RetriesAssumption
<1>2. \A d \in Nat : n * d \in Nat /\ (n + 1) * d = n * d + d
  OBVIOUS
<1>3. QED
  BY <1>1, <1>2 DEF Pauses

LEMMA PausesGrow ==
    ASSUME NEW m \in Nat, NEW n \in Nat, m <= n
    PROVE  Pauses(m) <= Pauses(n)
<1>1. Delay \in Nat
  BY RetriesAssumption
<1>2. \A d \in Nat : m * d <= n * d
  OBVIOUS
<1>3. QED
  BY <1>1, <1>2 DEF Pauses

(***************************************************************************)
(* How long a service has been trying: an attempt comes after the pauses   *)
(* of all the failed ones, and so did the coming up of a broker that the   *)
(* last attempt missed.  The clock that stops at Patience does no harm,    *)
(* because no attempt waits longer.                                        *)
(***************************************************************************)
WaitOK(s) ==
    /\ proc[s] = "connect" =>
          /\ age[s] >= Pauses(tries[s])
          /\ reachable /\ ~link[s] => cameUp[s] >= Pauses(tries[s])
    /\ proc[s] = "sleep" =>
          /\ tries[s] >= 1
          /\ age[s] >= Pauses(tries[s] - 1)
          /\ tries[s] < Retries => age[s] + pause[s] >= Pauses(tries[s])
          /\ reachable => cameUp[s] >= Pauses(tries[s] - 1)

WaitInv == \A s \in Services : WaitOK(s)

LEMMA InitWait == StartupInit => WaitInv
  BY DEF StartupInit, WaitInv, WaitOK

\* The numbers a service counts with.
LEMMA Counters ==
    ASSUME StartInv, NEW s \in Services
    PROVE  /\ tries[s] \in Nat /\ tries[s] <= Retries /\ Retries \in Nat
           /\ pause[s] \in Nat /\ Delay \in Nat /\ Patience \in Nat
           /\ age[s] \in Nat /\ age[s] <= Patience /\ cameUp[s] \in Nat
<1>1. /\ tries[s] \in 0..Retries /\ pause[s] \in 0..Delay
      /\ age[s] \in 0..Patience /\ cameUp[s] \in 0..Patience
  BY DEF StartInv, StartupTypeOK
<1>2. QED
  BY <1>1, PatienceIsNat, RetriesAssumption

LEMMA WaitKept ==
    ASSUME NEW t \in Services, WaitOK(t),
           UNCHANGED <<reachable, proc[t], tries[t], pause[t], link[t], age[t], cameUp[t]>>
    PROVE  WaitOK(t)'
  BY DEF WaitOK

LEMMA TickWaits ==
    ASSUME StartInv, WaitInv, Tick, NEW s \in Services
    PROVE  WaitOK(s)'
<1>1. UNCHANGED <<reachable, proc, tries, link, cameUp>>
  BY DEF Tick
<1>2. /\ age'[s] = IF proc[s] \in {"connect", "sleep"} /\ age[s] < Patience
                      THEN age[s] + 1 ELSE age[s]
      /\ pause'[s] = IF pause[s] > 0 THEN pause[s] - 1 ELSE 0
  BY DEF Tick
<1>3. age'[s] >= age[s] /\ age'[s] \in Nat /\ pause'[s] \in Nat
  BY <1>2, Counters
<1>4. proc[s] = "connect" => age'[s] >= Pauses(tries[s])
  <2>1. Pauses(tries[s]) \in Nat /\ age[s] \in Nat
    BY Counters, PausesAdd
  <2>2. proc[s] = "connect" => age[s] >= Pauses(tries[s])
    BY DEF WaitInv, WaitOK
  <2>3. QED
    BY <1>3, <2>1, <2>2
<1>5. CASE proc[s] = "sleep"
  <2>1. age'[s] >= Pauses(tries[s] - 1)
    <3>1. tries[s] - 1 \in Nat
      BY <1>5, Counters DEF WaitInv, WaitOK
    <3>2. Pauses(tries[s] - 1) \in Nat
      BY <3>1, PausesAdd
    <3>3. QED
      BY <1>3, <1>5, <3>2, Counters DEF WaitInv, WaitOK
  <2>2. ASSUME tries[s] < Retries
        PROVE  age'[s] + pause'[s] >= Pauses(tries[s])
    <3>1. Pauses(tries[s]) \in Nat /\ age[s] + pause[s] >= Pauses(tries[s])
      BY <1>5, <2>2, Counters, PausesAdd DEF WaitInv, WaitOK
    <3>2. CASE age[s] < Patience
      BY <1>2, <1>5, <3>1, <3>2, Counters
    <3>3. CASE ~(age[s] < Patience)
      <4>1. Pauses(tries[s]) <= Pauses(Retries - 1)
        <5>1. tries[s] <= Retries - 1 /\ Retries - 1 \in Nat
          BY <2>2, Counters
        <5>2. QED
          BY <5>1, Counters, PausesGrow
      <4>2. age'[s] = Patience
        BY <1>2, <3>3, Counters
      <4>3. QED
        BY <1>3, <3>1, <4>1, <4>2, Counters, PausesBounds
    <3>4. QED
      BY <3>2, <3>3
  <2>3. QED
    BY <1>1, <1>5, <2>1, <2>2 DEF WaitInv, WaitOK
<1>6. QED
  BY <1>1, <1>4, <1>5 DEF WaitInv, WaitOK

LEMMA StepWait == StartInv /\ WaitInv /\ [StartupNext]_startVars => WaitInv'
<1> SUFFICES ASSUME StartInv, WaitInv, [StartupNext]_startVars, NEW t \in Services
             PROVE  WaitOK(t)'
  BY DEF WaitInv
<1>0. WaitOK(t) /\ ServiceOK(t)
  BY DEF WaitInv, StartInv
<1>1. CASE Tick
  BY <1>1, TickWaits
<1>2. CASE BrokerUp
  <2>1. UNCHANGED <<proc, tries, pause, link, age>> /\ cameUp' = age
    BY <1>2 DEF BrokerUp
  <2>2. QED
    BY <1>0, <2>1 DEF WaitOK
<1>3. CASE BrokerDown
  BY <1>0, <1>3 DEF BrokerDown, WaitOK
<1>4. ASSUME NEW s \in Services, End(s)
      PROVE  WaitOK(t)'
  <2>1. CASE s = t
    BY <1>4, <2>1 DEF End, Enter, WaitOK, StartInv, StartupTypeOK
  <2>2. CASE s # t
    BY <1>0, <1>4, <2>2, WaitKept DEF End, Enter, StopTrying, StartInv, StartupTypeOK
  <2>3. QED
    BY <2>1, <2>2
<1>5. ASSUME NEW s \in Services, proc[s] \in {"down", "sleep"}, age[s] >= Pauses(tries[s]),
             Enter(s, "connect"), Call(s),
             UNCHANGED <<reachable, tries, pause, age, cameUp>>
      PROVE  WaitOK(t)'
  <2>1. CASE s = t
    BY <1>5, <2>1 DEF Enter, Call, WaitOK, StartInv, StartupTypeOK
  <2>2. CASE s # t
    BY <1>0, <1>5, <2>2, WaitKept DEF Enter, Call, StartInv, StartupTypeOK
  <2>3. QED
    BY <2>1, <2>2
<1>6. ASSUME NEW s \in Services, Launch(s)
      PROVE  WaitOK(t)'
  <2>1. tries[s] = 0
    BY <1>6 DEF Launch, StartInv, ServiceOK
  <2>2. age[s] >= Pauses(tries[s])
    BY <2>1, Counters, PausesBounds
  <2>3. QED
    BY <1>5, <1>6, <2>2 DEF Launch
<1>7. ASSUME NEW s \in Services, Wake(s)
      PROVE  WaitOK(t)'
  <2>1. CASE tries[s] < Retries
    <3>1. age[s] >= Pauses(tries[s])
      BY <1>7, <2>1, Counters DEF Wake, WaitInv, WaitOK
    <3>2. QED
      BY <1>5, <1>7, <2>1, <3>1, Counters DEF Wake
  <2>2. CASE ~(tries[s] < Retries)
    BY <1>4, <1>7, <2>2 DEF Wake
  <2>3. QED
    BY <2>1, <2>2
<1>8. ASSUME NEW s \in Services, AttemptFails(s)
      PROVE  WaitOK(t)'
  <2>1. CASE s = t
    <3> DEFINE n == tries[t]
    <3>1. /\ proc[t] = "connect" /\ ~link[t] /\ proc'[t] = "sleep"
          /\ tries'[t] = n + 1 /\ pause'[t] = Delay
          /\ UNCHANGED <<reachable, age, cameUp>>
      BY <1>8, <2>1 DEF AttemptFails, Enter, StartInv, StartupTypeOK
    <3>2. n \in Nat /\ n + 1 \in Nat /\ n + 1 >= 1 /\ (n + 1) - 1 = n
          /\ Pauses(n) \in Nat /\ Pauses(n + 1) = Pauses(n) + Delay
      <4>1. n \in Nat
        BY Counters
      <4> HIDE DEF n
      <4>2. Pauses(n) \in Nat /\ Pauses(n + 1) = Pauses(n) + Delay
        BY <4>1, PausesAdd
      <4>3. QED
        BY <4>1, <4>2
    <3>3. age[t] >= Pauses(n) /\ (reachable => cameUp[t] >= Pauses(n))
      BY <1>0, <3>1 DEF WaitOK
    <3>4. age[t] + Delay >= Pauses(n + 1)
      BY <3>2, <3>3, Counters
    <3> HIDE DEF n
    <3>5. QED
      BY <3>1, <3>2, <3>3, <3>4 DEF WaitOK
  <2>2. CASE s # t
    BY <1>0, <1>8, <2>2, WaitKept DEF AttemptFails, Enter, StartInv, StartupTypeOK
  <2>3. QED
    BY <2>1, <2>2
<1>9. ASSUME NEW s \in Services, Connected(s) \/ Declare(s)
      PROVE  WaitOK(t)'
  <2>1. CASE s = t
    BY <1>9, <2>1 DEF Connected, Declare, Enter, WaitOK, StartInv, StartupTypeOK
  <2>2. CASE s # t
    BY <1>0, <1>9, <2>2, WaitKept
       DEF Connected, Declare, Enter, Call, StopTrying, StartInv, StartupTypeOK
  <2>3. QED
    BY <2>1, <2>2
<1>10. CASE UNCHANGED startVars
  BY <1>0, <1>10 DEF startVars, WaitOK
<1>11. QED
  BY <1>1, <1>2, <1>3, <1>4, <1>6, <1>7, <1>8, <1>9, <1>10
     DEF StartupNext, ServiceStep, DeclareFails, Stop

(***************************************************************************)
(* A service that ends its attempts while the broker is reachable had been *)
(* waiting for it as long as get_rabbitmq_connection promises, for any     *)
(* number of attempts and any pause between them.                          *)
(***************************************************************************)
THEOREM NoEarlyEnd == StartupSpec => PatientWithBroker
<1>1. StartInv /\ WaitInv /\ [StartupNext]_startVars =>
         [\A s \in Services : GivesUp(s) /\ reachable => cameUp[s] >= Patience]_startVars
  <2> SUFFICES ASSUME StartInv, WaitInv, NEW s \in Services, GivesUp(s), reachable
               PROVE  cameUp[s] >= Patience
    OBVIOUS
  <2>1. proc[s] = "sleep" /\ tries[s] = Retries
    BY DEF GivesUp
  <2>2. cameUp[s] >= Pauses(Retries - 1)
    BY <2>1 DEF WaitInv, WaitOK
  <2>3. QED
    BY <2>2, PausesBounds
<1>2. QED
  BY <1>1, StartInvInit, StepStartInv, InitWait, StepWait, PTL DEF StartupSpec, PatientWithBroker
===============================================================================
