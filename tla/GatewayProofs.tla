----------------------------- MODULE GatewayProofs -----------------------------
(***************************************************************************)
(* Theorems about the gateway's request path, for any number of requests   *)
(* of any kind and any bucket.                                             *)
(***************************************************************************)
EXTENDS Gateway, TokenBucketProofs, FiniteSetTheorems

Entitled(c) ==
    /\ c.credential \in {"jwt", "key"}
    /\ c.credential = "key" => Required(c.path) \subseteq c.scopes

(***************************************************************************)
(* What a request has and has not done at its place: nothing has reached a *)
(* service before its route is run, a request is not answered twice, and   *)
(* only an entitled request gets past the second middleware.               *)
(***************************************************************************)
PlaceOK(r) ==
    /\ stage[r] \in {"new", "limit", "asking", "auth"}
          => sent[r] = "no" /\ reply[r] = "none" /\ ~user[r]
    /\ stage[r] = "route"
          => /\ sent[r] = "no" /\ reply[r] = "none"
             /\ call[r].path \notin Public => Entitled(call[r])
    /\ stage[r] = "upstream" => sent[r] # "no" /\ reply[r] = "none"
    /\ sent[r] # "no"
          => /\ stage[r] \in {"upstream", "done", "dropped", "hung"}
             /\ call[r].path \in Forwarded
             /\ Entitled(call[r])

PlacesOK == \A r \in Requests : PlaceOK(r)

(***************************************************************************)
(* The requests that have paid a token: they are past the limiter on a     *)
(* path that is not public, or have reached a service.                     *)
(***************************************************************************)
Paid == {r \in Requests : /\ stage[r] \in {"auth", "route", "upstream"}
                          /\ call[r].path \notin Public} \cup Reached

PaidFor == since = 0 /\ Cost * Cardinality(Paid) <= spent

GatewayInv == GTypeOK /\ BucketInv /\ PlacesOK /\ AnswersAreTrue

-------------------------------------------------------------------------------

LEMMA InitGateway == GInit => GatewayInv
<1> SUFFICES ASSUME GInit PROVE GatewayInv
  OBVIOUS
<1>1. BucketInv
  BY InitBucket DEF GInit
<1>2. GTypeOK
  BY <1>1 DEF GInit, GTypeOK, BucketInv, Stages, Outcomes, Replies
<1>3. PlacesOK /\ AnswersAreTrue
  BY DEF GInit, PlacesOK, PlaceOK, AnswersAreTrue, Reached
<1> QED
  BY <1>1, <1>2, <1>3 DEF GatewayInv

(***************************************************************************)
(* A step of the gateway is a step of its bucket.                          *)
(***************************************************************************)
LEMMA BucketStep == [GNext]_gatewayVars => [TBNext]_tbVars
BY DEF GNext, gatewayVars, TBNext, Surroundings, RestartGateway, RequestStep,
       Arrive, Serve, PassLimiter, AskLimiter, LimiterAnswers, Authenticate,
       AnswerHere, Forward, Await, Hang

(***************************************************************************)
(* A request that _resolve lets through is entitled to its path.           *)
(***************************************************************************)
LEMMA ResolveEntitles ==
    ASSUME NEW c \in Call, Resolve(c) = "none"
    PROVE  Entitled(c)
BY DEF Resolve, Entitled, Known, Call, Credentials

LEMMA ResolveReplies ==
    ASSUME NEW c \in Call, Resolve(c) # "none"
    PROVE  Resolve(c) \in {"400", "401", "403", "500"}
BY DEF Resolve

(***************************************************************************)
(* An answer of a service tells what it did.                               *)
(***************************************************************************)
LEMMA AnswerTells ==
    ASSUME NEW r, call[r].path \in Forwarded, NEW answer \in Answer(r)
    PROVE  /\ answer \in {"ok", "400", "404", "422", "500"}
           /\ answer = "ok" => sent[r] = "served"
           /\ answer \in {"400", "404", "422"} => sent[r] \in {"refused", "unhandled"}
<1> DEFINE t == Target[call[r].path]
<1>1. t \in {"presigned", "start", "link", "create"}
  BY DEF Forwarded, AnyUpload, Target
<1>2. Refusals[t] \subseteq {"400", "404", "422"}
  BY <1>1 DEF Refusals
<1> QED
  BY <1>2 DEF Answer

LEMMA StepGateway == GatewayInv /\ [GNext]_gatewayVars => GatewayInv'
<1> SUFFICES ASSUME GatewayInv, [GNext]_gatewayVars PROVE GatewayInv'
  OBVIOUS
<1>b. BucketInv'
  BY BucketStep, StepBucket DEF GatewayInv
<1> USE DEF GatewayInv, PlacesOK, PlaceOK, AnswersAreTrue, Reached, GTypeOK, To, From, Finish
<1>t. TBTypeOK'
  BY <1>b DEF BucketInv
<1>1. CASE Surroundings \/ UNCHANGED gatewayVars
  BY <1>1, <1>b, <1>t DEF Surroundings, gwVars, gatewayVars
<1>2. CASE RestartGateway
  BY <1>2, <1>b, <1>t DEF RestartGateway, Stages
<1>3. ASSUME NEW r \in Requests, Arrive(r) PROVE GatewayInv'
  BY <1>3, <1>b, <1>t DEF Arrive, Stages
<1>4. ASSUME NEW r \in Requests, Serve(r) PROVE GatewayInv'
  BY <1>4, <1>b, <1>t DEF Serve, Outcomes
<1>5. ASSUME NEW r \in Requests, PassLimiter(r) PROVE GatewayInv'
  BY <1>5, <1>b, <1>t DEF PassLimiter, Stages
<1>6. ASSUME NEW r \in Requests, AskLimiter(r) PROVE GatewayInv'
  BY <1>6, <1>b, <1>t, CallsAssumption
  DEF AskLimiter, Configuration, Stages, Call, Plans
<1>7. ASSUME NEW r \in Requests, LimiterAnswers(r) PROVE GatewayInv'
  BY <1>7, <1>b, <1>t DEF LimiterAnswers, Stages, Replies
<1>8. ASSUME NEW r \in Requests, Authenticate(r) PROVE GatewayInv'
  <2>1. call[r] \in Call
    BY CallsAssumption
  <2>2. Resolve(call[r]) = "none" => Entitled(call[r])
    BY <2>1, ResolveEntitles
  <2>3. Resolve(call[r]) # "none" => Resolve(call[r]) \in {"400", "401", "403", "500"}
    BY <2>1, ResolveReplies
  <2>4. CASE To(r, "route")
    BY <1>8, <2>4, <2>2, <1>b, <1>t DEF Authenticate, Stages
  <2>5. CASE To(r, "done")
    BY <1>8, <2>5, <2>3, <1>b, <1>t DEF Authenticate, Stages, Replies
  <2> QED
    BY <1>8, <2>4, <2>5 DEF Authenticate
<1>9. ASSUME NEW r \in Requests, AnswerHere(r) PROVE GatewayInv'
  BY <1>9, <1>b, <1>t DEF AnswerHere, Stages, Replies
<1>10. ASSUME NEW r \in Requests, Forward(r) PROVE GatewayInv'
  BY <1>10, <1>b, <1>t
  DEF Forward, Failed, Stages, Outcomes, Replies, Forwarded, AnyUpload, Public
<1>11. ASSUME NEW r \in Requests, Await(r) PROVE GatewayInv'
  <2>1. sent[r] # "no" /\ call[r].path \in Forwarded
    BY <1>11 DEF Await
  <2>2. ASSUME NEW answer \in Answer(r), Finish(r, answer) PROVE GatewayInv'
    <3>1. /\ answer \in {"ok", "400", "404", "422", "500"}
          /\ answer = "ok" => sent[r] = "served"
          /\ answer \in {"400", "404", "422"} => sent[r] \in {"refused", "unhandled"}
      BY <2>1, <2>2, AnswerTells
    <3> QED
      BY <1>11, <1>b, <1>t, <2>2, <3>1 DEF Await, Stages, Replies
  <2>3. CASE Finish(r, Failed(r, "504")) \/ Finish(r, Failed(r, "502"))
    BY <1>11, <1>b, <1>t, <2>3 DEF Await, Failed, Stages, Replies
  <2> QED
    BY <1>11, <2>2, <2>3 DEF Await
<1>12. ASSUME NEW r \in Requests, Hang(r) PROVE GatewayInv'
  BY <1>12, <1>b, <1>t DEF Hang, Stages
<1> QED
  BY <1>1, <1>2, <1>3, <1>4, <1>5, <1>6, <1>7, <1>8, <1>9, <1>10, <1>11, <1>12
  DEF GNext, RequestStep

LEMMA GatewayInvariant == GSpec => []GatewayInv
BY InitGateway, StepGateway, PTL DEF GSpec

-------------------------------------------------------------------------------

(***************************************************************************)
(* The types of the request path: every answer is one the gateway gives,   *)
(* and the bucket behind it stays within its capacity.                     *)
(***************************************************************************)
THEOREM GatewayTypeCorrect == GSpec => []GTypeOK
<1>1. GatewayInv => GTypeOK
  BY DEF GatewayInv
<1> QED
  BY <1>1, GatewayInvariant, PTL

(***************************************************************************)
(* Whatever reaches a service has a valid credential and, for an API key,  *)
(* the scopes of the rule its path matches, if it matches one: no way      *)
(* through the middlewares misses _resolve.  It is not a statement about   *)
(* handlers: one of them is reached by a path without a rule.              *)
(***************************************************************************)
THEOREM OnlyEntitledRequestsForwarded == GSpec => []ReachedIsEntitled
<1>1. GatewayInv => ReachedIsEntitled
  BY DEF GatewayInv, PlacesOK, PlaceOK, ReachedIsEntitled, Reached, Entitled
<1> QED
  BY <1>1, GatewayInvariant, PTL

(***************************************************************************)
(* An "ok" from a service is given only for a request the service handled, *)
(* and a 4xx, the gateway's own or one relayed from a service, only to a   *)
(* request of which no service has done or will do anything.               *)
(***************************************************************************)
THEOREM AnswersTellTheTruth == GSpec => []AnswersAreTrue
<1>1. GatewayInv => AnswersAreTrue
  BY DEF GatewayInv
<1> QED
  BY <1>1, GatewayInvariant, PTL

-------------------------------------------------------------------------------

(***************************************************************************)
(* Only an admission by the script makes a request one that has paid; the  *)
(* token of a call whose answer is lost buys nothing.                      *)
(***************************************************************************)
LEMMA PaidGrows ==
    ASSUME GatewayInv, [GNext]_gatewayVars, since = 0
    PROVE  /\ since' = 0
           /\ \/ Paid' \subseteq Paid /\ spent' = spent
              \/ \E r \in Requests : Paid' \subseteq Paid \cup {r} /\ spent' = spent + Cost
<1> USE DEF Paid, Reached, From, To, Finish
<1> DEFINE Same == since' = 0 /\ Paid' \subseteq Paid /\ spent' = spent
<1>1. CASE Surroundings \/ UNCHANGED gatewayVars
  BY <1>1 DEF Surroundings, gwVars, gatewayVars, tbVars, windowVars,
              Tick, Synchronise, RestartRedis
<1>2. CASE RestartGateway
  BY <1>2 DEF RestartGateway, StartGateway, windowVars, GatewayInv, GTypeOK
<1> USE DEF GatewayInv, GTypeOK
<1>3. ASSUME NEW r \in Requests, Arrive(r) \/ Serve(r) \/ AskLimiter(r) PROVE Same
  BY <1>3 DEF Arrive, Serve, AskLimiter, Capture, tbVars, windowVars, PlacesOK, PlaceOK
<1>4. ASSUME NEW r \in Requests, PassLimiter(r) PROVE Same
  BY <1>4 DEF PassLimiter, Bypassed, PlacesOK, PlaceOK, tbVars, windowVars
<1>5. ASSUME NEW r \in Requests, LimiterAnswers(r), ~Admit(r) PROVE Same
  BY <1>5 DEF LimiterAnswers, Refuse, ScriptMissing, CallLost, windowVars
<1>6. ASSUME NEW r \in Requests, LimiterAnswers(r), Admit(r)
      PROVE  since' = 0 /\ Paid' \subseteq Paid \cup {r} /\ spent' = spent + Cost
  BY <1>6 DEF LimiterAnswers, Admit
<1>7. ASSUME NEW r \in Requests, Authenticate(r) \/ AnswerHere(r) \/ Await(r) PROVE Same
  BY <1>7 DEF Authenticate, AnswerHere, Await, tbVars, windowVars
<1>8. ASSUME NEW r \in Requests, Forward(r) PROVE Same
  BY <1>8 DEF Forward, Forwarded, AnyUpload, Public, tbVars, windowVars
<1>9. ASSUME NEW r \in Requests, Hang(r), ~Admit(r) PROVE Same
  BY <1>9 DEF Hang, CallLost, tbVars, windowVars
<1>10. ASSUME NEW r \in Requests, Hang(r), Admit(r)
       PROVE  since' = 0 /\ Paid' \subseteq Paid /\ spent' = spent + Cost
  BY <1>10 DEF Hang, Admit
<1> QED
  BY <1>1, <1>2, <1>3, <1>4, <1>5, <1>6, <1>7, <1>8, <1>9, <1>10 DEF GNext, RequestStep

LEMMA StepPaid == GatewayInv /\ PaidFor /\ [GNext]_gatewayVars => PaidFor'
<1> SUFFICES ASSUME GatewayInv, PaidFor, [GNext]_gatewayVars PROVE PaidFor'
  OBVIOUS
<1> DEFINE n == Cardinality(Paid)
           k == Cardinality(Paid')
<1>1. IsFiniteSet(Paid) /\ n \in Nat
  BY RequestsAssumption, FS_Subset, FS_CardinalityType DEF Paid, Reached
<1>2. since' = 0 /\ (k \in Nat) /\ spent \in Nat /\ Cost \in Nat
  <2>1. Paid' \subseteq Requests
    BY DEF Paid, Reached
  <2> QED
    BY <2>1, PaidGrows, RequestsAssumption, FS_Subset, FS_CardinalityType, BucketAssumption
    DEF PaidFor, GatewayInv, GTypeOK, TBTypeOK
<1>3. \/ k <= n /\ spent' = spent
      \/ k <= n + 1 /\ spent' = spent + Cost
  <2>1. CASE Paid' \subseteq Paid /\ spent' = spent
    BY <2>1, <1>1, FS_Subset
  <2>2. ASSUME NEW r \in Requests, Paid' \subseteq Paid \cup {r}, spent' = spent + Cost
        PROVE  k <= n + 1 /\ spent' = spent + Cost
    <3>1. IsFiniteSet(Paid \cup {r}) /\ Cardinality(Paid \cup {r}) <= n + 1
      <4>1. /\ IsFiniteSet(Paid \cup {r})
            /\ Cardinality(Paid \cup {r}) =
                 IF r \in Paid THEN Cardinality(Paid) ELSE Cardinality(Paid) + 1
        BY <1>1, FS_AddElement, Zenon
      <4> QED
        BY <4>1, <1>1
    <3>2. k <= Cardinality(Paid \cup {r}) /\ Cardinality(Paid \cup {r}) \in Nat
      BY <2>2, <3>1, FS_Subset, FS_CardinalityType
    <3> QED
      BY <2>2, <3>1, <3>2, <1>1, <1>2
  <2> QED
    BY <2>1, <2>2, PaidGrows DEF PaidFor
<1>4. Cost * n <= spent
  BY DEF PaidFor
<1> HIDE DEF n, k
<1>5. Cost * k <= spent'
  <2>1. CASE k <= n /\ spent' = spent
    <3>1. Cost * k <= Cost * n
      BY <2>1, <1>1, <1>2
    <3> QED
      BY <3>1, <2>1, <1>4, <1>1, <1>2
  <2>2. CASE k <= n + 1 /\ spent' = spent + Cost
    <3>1. Cost * k <= Cost * (n + 1)
      BY <2>2, <1>1, <1>2
    <3>2. Cost * (n + 1) = Cost * n + Cost
      BY <1>1, <1>2
    <3> QED
      BY <3>1, <3>2, <2>2, <1>4, <1>1, <1>2
  <2> QED
    BY <1>3, <2>1, <2>2
<1> QED
  BY <1>2, <1>5 DEF PaidFor, k

(***************************************************************************)
(* The services behind the gateway never get more requests than the bucket *)
(* grants from the start of the run, whatever fails: every one of them has *)
(* been paid for.                                                          *)
(***************************************************************************)
THEOREM ServicesProtected == GSpec => []WorkBounded
<1>1. GInit => PaidFor
  <2> SUFFICES ASSUME GInit PROVE PaidFor
    OBVIOUS
  <2>1. Paid = {}
    BY DEF GInit, Paid, Reached
  <2> QED
    BY <2>1, FS_EmptySet, BucketAssumption DEF GInit, TBInit, PaidFor
<1>2. GatewayInv /\ PaidFor => WorkBounded
  <2> SUFFICES ASSUME GatewayInv, PaidFor PROVE WorkBounded
    OBVIOUS
  <2> DEFINE n == Cardinality(Paid)
             k == Cardinality(Reached)
  <2>1. IsFiniteSet(Paid) /\ Reached \subseteq Paid
    BY RequestsAssumption, FS_Subset DEF Paid, Reached
  <2>2. k \in Nat /\ n \in Nat /\ k <= n
    BY <2>1, FS_Subset, FS_CardinalityType
  <2>3. spent <= Window + (clock - since) + given
    BY BucketAssumption
    DEF GatewayInv, BucketInv, TBTypeOK, Hash, Past, HashOK, Slack, Covered
  <2>4. Cost * n <= spent /\ since = 0
    BY DEF PaidFor
  <2>5. /\ Cost \in Nat /\ Window \in Nat
        /\ spent \in Nat /\ clock \in Nat /\ given \in Nat
    BY BucketAssumption DEF GatewayInv, GTypeOK, TBTypeOK
  <2> HIDE DEF n, k
  <2>6. Cost * k <= Cost * n
    BY <2>2, <2>5
  <2>7. Cost * k <= Window + clock + given
    BY <2>2, <2>3, <2>4, <2>5, <2>6
  <2> QED
    BY <2>7 DEF WorkBounded, k
<1> QED
  BY <1>1, <1>2, GatewayInvariant, StepPaid, PTL DEF GSpec

(***************************************************************************)
(* The middleware uses its limiter as the bucket is specified: whatever    *)
(* the request path does, each of its steps is one of the bucket or leaves *)
(* it alone.                                                               *)
(***************************************************************************)
THEOREM GatewayImplementsBucket == GSpec => TBSpec
<1>1. GInit => TBInit
  BY DEF GInit
<1>2. QED
  BY <1>1, BucketStep, PTL DEF GSpec, TBSpec

(***************************************************************************)
(* So what was proved of the bucket alone holds behind the middleware: the *)
(* burst bound, and that neither a paced client is refused nor anyone whom *)
(* an ideal bucket would admit.                                            *)
(***************************************************************************)
COROLLARY GatewayLimits == GSpec => []BurstBound /\ PacedNeverRefused /\ NeverStricter
  BY GatewayImplementsBucket, AdmissionsBounded, PacedClientsAdmitted, NeverStricterThanIdeal
===============================================================================
