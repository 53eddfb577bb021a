------------------------------ MODULE ApiKeysProofs ------------------------------
(***************************************************************************)
(* Theorems about API keys and the sign-in behind them, for any number of  *)
(* sign-ins, requests for a key, scopes, expiries and restarts.            *)
(***************************************************************************)
EXTENDS ApiKeys, AccountsProofs

-------------------------------------------------------------------------------
(* Sign-in is undisturbed by the requests for keys                         *)

(***************************************************************************)
(* Seen from the accounts, the gateway and the API key service only let    *)
(* time pass.                                                              *)
(***************************************************************************)
LEMMA KeysLeaveAccounts == [KNext]_identityVars => [ANext]_accountVars
<1> SUFFICES ASSUME [KNext]_identityVars PROVE [ANext]_accountVars
  OBVIOUS
<1>1. CASE Tick \/ UNCHANGED identityVars
  BY <1>1 DEF Tick, identityVars
<1>2. CASE RestartGateway
  BY <1>2 DEF RestartGateway, ANext
<1>3. CASE \E s \in SignIns : SignInStep(s)
  BY <1>3 DEF SignInStep, ANext
<1>4. ASSUME NEW c \in Creations, CreationStep(c)
      PROVE  UNCHANGED accountVars
  BY <1>4 DEF CreationStep, Ask, Authenticate, Forward, Await, Create, Reply
<1>5. QED
  BY <1>1, <1>2, <1>3, <1>4 DEF KNext

(***************************************************************************)
(* The platform with its API keys implements sign-in: whatever users ask   *)
(* of the gateway and the API key service, and whenever the gateway        *)
(* restarts, users and refresh tokens change by sign-ins alone.            *)
(***************************************************************************)
THEOREM KeysImplementAccounts == KSpec => ASpec
<1>1. KInit => AInit
  BY DEF KInit
<1>2. QED
  BY <1>1, KeysLeaveAccounts, PTL DEF KSpec, ASpec

LEMMA StepAccounts == AccountInv /\ [ANext]_accountVars => AccountInv'
<1> SUFFICES ASSUME AccountInv, [ANext]_accountVars PROVE AccountInv'
  OBVIOUS
<1>1. CASE ANext
  BY <1>1, ExchangeStep, LookupStep, InsertStep, UpdateStep, IssueStep, RestartStep DEF ANext
<1>2. CASE UNCHANGED accountVars
  BY <1>2 DEF accountVars, AccountInv, AccountsTypeOK, KeepsLoop, HasKey,
              LookupStillTrue, TokensBelong, RowsOf
<1>3. QED
  BY <1>1, <1>2

(***************************************************************************)
(* A sign-in is answered once: tokens handed to a client are not taken     *)
(* back by a later answer, nor by a restart.                               *)
(***************************************************************************)
AnsweredOnce == \A s \in SignIns : at[s] # "done" => answer[s] = "none"

LEMMA StepAnswers ==
    ASSUME AccountInv, AnsweredOnce, [ANext]_accountVars
    PROVE  /\ AnsweredOnce'
           /\ profile' = profile
           /\ tokens \subseteq tokens'
           /\ \A s \in SignIns : answer[s] = "tokens" => answer'[s] = "tokens"
<1> DEFINE Goal == /\ AnsweredOnce'
                   /\ profile' = profile
                   /\ tokens \subseteq tokens'
                   /\ \A s \in SignIns : answer[s] = "tokens" => answer'[s] = "tokens"
<1> USE DEF AccountInv, AccountsTypeOK, AnsweredOnce, Move, Answer
<1>1. CASE UNCHANGED accountVars
  BY <1>1 DEF accountVars
<1>2. CASE Restart
  BY <1>2 DEF Restart
<1>3. ASSUME NEW s \in SignIns, Exchange(s)
      PROVE  Goal
  BY <1>3 DEF Exchange
<1>4. ASSUME NEW s \in SignIns, Lookup(s) \/ Insert(s) \/ Update(s) \/ Issue(s)
      PROVE  Goal
  <2>1. at[s] # "done" /\ profile' = profile /\ tokens \subseteq tokens'
    BY <1>4 DEF Lookup, Insert, Update, Issue
  <2>2. \/ answer' = answer /\ \E place \in Places : at' = [at EXCEPT ![s] = place]
        \/ \E r : Answer(s, r)
    BY <1>4 DEF Lookup, Insert, Update, Issue, Places
  <2>3. CASE answer' = answer /\ \E place \in Places : at' = [at EXCEPT ![s] = place]
    BY <2>1, <2>3
  <2>4. CASE \E r : Answer(s, r)
    BY <2>1, <2>4
  <2>5. QED
    BY <2>2, <2>3, <2>4
<1>5. QED
  BY <1>1, <1>2, <1>3, <1>4 DEF ANext

-------------------------------------------------------------------------------
(* The requests for keys                                                   *)

(***************************************************************************)
(* A request that was made: what it asks for, when, and by a client that   *)
(* got tokens; the caller the gateway found for it is the one the client's *)
(* tokens were issued to, wherever the request has got since.              *)
(***************************************************************************)
RequestOK(c) ==
    /\ gate[c] # "idle" => /\ demand[c] \in Demand /\ demand[c].at <= now
                           /\ answer[demand[c].by] = "tokens"
    /\ gate[c] = "idle" => service[c] = "idle" /\ told[c] = "none"
    /\ gate[c] \in {"auth", "route"} => service[c] = "idle" /\ told[c] = "none"
    /\ gate[c] = "waiting" => told[c] = "none"
    /\ gate[c] \in {"route", "waiting"} \/ service[c] # "idle"
          => caller[c] \in SignIns /\ <<demand[c].by, caller[c]>> \in tokens
    /\ told[c] = "key" => service[c] = "answered"

(***************************************************************************)
(* A row of api_key is what its request asked for, on behalf of its caller *)
(* unless the request carried a header of its own, and a request the       *)
(* service has stored has its row.                                         *)
(***************************************************************************)
RowOK(k) ==
    LET c == k.key IN
    /\ service[c] \notin {"idle", "sent"}
    /\ ~demand[c].wish.header => k.user = caller[c]
    /\ k.scopes = demand[c].wish.scopes
    /\ demand[c].wish.expire # Default => k.expiring = demand[c].wish.expire

StoredOK(c) ==
    service[c] \in {"stored", "answered"} =>
        \E k \in keys : k.key = c /\ k.expiring >= Promised(demand[c])

KeyInv ==
    /\ AccountInv
    /\ AnsweredOnce
    /\ ApiKeysTypeOK
    /\ \A c \in Creations : RequestOK(c) /\ StoredOK(c)
    /\ \A k \in keys : RowOK(k)

LEMMA InitKeys == KInit => KeyInv
BY InitAccounts, ApiKeysAssumption
DEF AInit, AnsweredOnce, KInit, KeyInv, AccountInv, ApiKeysTypeOK, GatePlaces, ServicePlaces, RequestOK, StoredOK

(***************************************************************************)
(* What every step leaves: the accounts' promises, the clock going         *)
(* forward, and the rows of api_key.                                       *)
(***************************************************************************)
Onward ==
    /\ tokens \subseteq tokens'
    /\ \A s \in SignIns : answer[s] = "tokens" => answer'[s] = "tokens"
    /\ now \in Nat /\ now' \in Nat /\ now <= now'
    /\ keys \subseteq keys'

SameRequest(c) ==
    /\ gate'[c] = gate[c] /\ service'[c] = service[c] /\ told'[c] = told[c]
    /\ demand'[c] = demand[c] /\ caller'[c] = caller[c]

LEMMA StepOnward == KeyInv /\ [KNext]_identityVars => Onward
<1> SUFFICES ASSUME KeyInv, [KNext]_identityVars PROVE Onward
  OBVIOUS
<1>1. /\ tokens \subseteq tokens'
      /\ \A s \in SignIns : answer[s] = "tokens" => answer'[s] = "tokens"
  BY KeysLeaveAccounts, StepAnswers DEF KeyInv
<1>2. keys \subseteq keys' /\ now' \in {now, now + 1}
  BY DEF KNext, identityVars, keyVars, Tick, RestartGateway, CreationStep, Ask, Authenticate,
         Forward, Await, Create, Reply
<1>3. now \in Nat
  BY ApiKeysAssumption DEF KeyInv, ApiKeysTypeOK
<1>4. QED
  BY <1>1, <1>2, <1>3 DEF Onward

LEMMA SameRequestOK ==
    ASSUME Onward, NEW c \in Creations, RequestOK(c), StoredOK(c), SameRequest(c)
    PROVE  RequestOK(c)' /\ StoredOK(c)'
<1>1. RequestOK(c)'
  <2>1. demand[c] \in Demand => demand[c].at \in Nat /\ demand[c].by \in SignIns
    BY DEF Demand
  <2>2. QED
    BY <2>1 DEF RequestOK, SameRequest, Onward
<1>2. StoredOK(c)'
  BY DEF StoredOK, SameRequest, Onward, Promised
<1>3. QED
  BY <1>1, <1>2


(***************************************************************************)
(* A step of the request for one key: it leaves the other requests alone,  *)
(* and what a row was made from stays once the service has gone that far.  *)
(***************************************************************************)
LEMMA RequestFrame ==
    ASSUME KeyInv, NEW c \in Creations, CreationStep(c)
    PROVE  /\ \A d \in Creations : d # c => SameRequest(d)
           /\ service[c] \notin {"idle", "sent"} =>
                 /\ service'[c] \notin {"idle", "sent"}
                 /\ demand'[c] = demand[c] /\ caller'[c] = caller[c]
<1> USE DEF KeyInv, ApiKeysTypeOK, RequestOK, SameRequest, Gate, Service, Tell
<1>1. CASE Ask(c)
  BY <1>1 DEF Ask
<1>2. CASE Authenticate(c)
  BY <1>2 DEF Authenticate
<1>3. CASE Forward(c)
  BY <1>3 DEF Forward
<1>4. CASE Await(c)
  BY <1>4 DEF Await
<1>5. CASE Create(c)
  BY <1>5 DEF Create
<1>6. CASE Reply(c)
  BY <1>6 DEF Reply
<1>7. QED
  BY <1>1, <1>2, <1>3, <1>4, <1>5, <1>6 DEF CreationStep

(***************************************************************************)
(* The row the service commits is what the request asked for.              *)
(***************************************************************************)
LEMMA CommittedRow ==
    ASSUME KeyInv, NEW c \in Creations, service[c] = "sent", NEW user \in Named(c)
    PROVE  LET k == NewKey(c, user) IN
           /\ k \in KeyRow /\ k.key = c
           /\ ~demand[c].wish.header => k.user = caller[c]
           /\ k.scopes = demand[c].wish.scopes
           /\ demand[c].wish.expire # Default => k.expiring = demand[c].wish.expire
           /\ k.expiring >= Promised(demand[c])
<1>0. user \in SignIns /\ (~demand[c].wish.header => user = caller[c])
  <2>1. caller[c] \in SignIns
    BY DEF KeyInv, RequestOK
  <2>2. \A u \in users : u.id \in SignIns
    BY DEF KeyInv, AccountInv, AccountsTypeOK, Row
  <2>3. QED
    BY <2>1, <2>2 DEF Named
<1>1. /\ demand[c] \in Demand /\ demand[c].at \in Nat /\ demand[c].at <= now
      /\ now \in Nat /\ caller[c] \in SignIns
  <2>1. demand[c] \in Demand /\ demand[c].at <= now /\ caller[c] \in SignIns
    BY DEF KeyInv, RequestOK
  <2>2. demand[c].at \in 0..MaxTime /\ now \in 0..MaxTime
    BY <2>1 DEF Demand, KeyInv, ApiKeysTypeOK
  <2>3. QED
    BY <2>1, <2>2, ApiKeysAssumption
<1>2. demand[c].wish.scopes \in SUBSET Scopes
      /\ (demand[c].wish.expire \in Nat \/ demand[c].wish.expire = Default)
  BY <1>1, ApiKeysAssumption DEF Demand
<1>3. ExpiryOf(demand[c].wish) \in Nat /\ ExpiryOf(demand[c].wish) >= Promised(demand[c])
  BY <1>1, <1>2, ApiKeysAssumption DEF ExpiryOf, Promised
<1>4. QED
  BY <1>0, <1>1, <1>2, <1>3 DEF NewKey, KeyRow, ExpiryOf

LEMMA OwnRequest ==
    ASSUME KeyInv, Onward, NEW c \in Creations, CreationStep(c)
    PROVE  RequestOK(c)' /\ StoredOK(c)'
<1> USE DEF KeyInv, ApiKeysTypeOK, Gate, Service, Tell
<1>0. RequestOK(c) /\ StoredOK(c)
  OBVIOUS
<1>1. CASE Ask(c)
  <2>1. PICK s \in SignIns, w \in Wishes :
           answer[s] = "tokens" /\ demand' = [demand EXCEPT ![c] = [wish |-> w, by |-> s, at |-> now]]
    BY <1>1 DEF Ask
  <2>2. demand'[c] \in Demand /\ demand'[c].at = now /\ demand'[c].by = s
    BY <2>1 DEF Demand
  <2>3. gate[c] = "idle" /\ gate'[c] = "auth" /\ UNCHANGED <<accountVars, now, service, told>>
    BY <1>1 DEF Ask
  <2>4. QED
    BY <1>0, <2>1, <2>2, <2>3 DEF RequestOK, StoredOK, accountVars, Onward
<1>2. CASE Authenticate(c)
  <2>1. /\ gate[c] = "auth" /\ service[c] = "idle"
        /\ UNCHANGED <<tokens, answer, now, demand, service, keys>>
    BY <1>0, <1>2 DEF Authenticate, RequestOK, accountVars
  <2>2. \/ /\ gate'[c] = "route" /\ told' = told
           /\ caller'[c] \in SignIns /\ <<demand[c].by, caller'[c]>> \in tokens
        \/ gate'[c] = "done" /\ told'[c] = "500" /\ caller' = caller
    BY <1>2 DEF Authenticate, Subjects
  <2>3. QED
    BY <1>0, <2>1, <2>2 DEF RequestOK, StoredOK
<1>3. CASE Forward(c)
  BY <1>0, <1>3 DEF Forward, RequestOK, StoredOK, accountVars
<1>4. CASE Await(c)
  BY <1>0, <1>4 DEF Await, RequestOK, StoredOK, accountVars
<1>5. CASE Create(c)
  <2>1. service[c] = "sent" /\ UNCHANGED <<tokens, answer, now, demand, gate, caller, told>>
    BY <1>5 DEF Create, accountVars
  <2>2. RequestOK(c)'
    BY <1>0, <1>5, <2>1 DEF RequestOK, Create
  <2>3. StoredOK(c)'
    BY <1>5, <2>1, CommittedRow DEF StoredOK, Create
  <2>4. QED
    BY <2>2, <2>3
<1>6. CASE Reply(c)
  BY <1>0, <1>6 DEF Reply, RequestOK, StoredOK, accountVars
<1>7. QED
  BY <1>1, <1>2, <1>3, <1>4, <1>5, <1>6 DEF CreationStep

LEMMA StepKeyTypes == KeyInv /\ AccountInv' /\ [KNext]_identityVars => ApiKeysTypeOK'
<1> SUFFICES ASSUME KeyInv, AccountInv', [KNext]_identityVars PROVE ApiKeysTypeOK'
  OBVIOUS
<1> USE DEF KeyInv, ApiKeysTypeOK, GatePlaces, ServicePlaces, Gate, Service, Tell
<1>1. AccountsTypeOK'
  BY DEF AccountInv
<1>2. CASE UNCHANGED keyVars
  BY <1>1, <1>2 DEF keyVars
<1>3. CASE Tick
  BY <1>1, <1>3, ApiKeysAssumption DEF Tick
<1>4. CASE RestartGateway
  BY <1>1, <1>4 DEF RestartGateway
<1>5. ASSUME NEW c \in Creations, CreationStep(c)
      PROVE  ApiKeysTypeOK'
  <2>1. CASE Ask(c)
    BY <1>1, <2>1 DEF Ask, Demand
  <2>2. CASE Authenticate(c)
    BY <1>1, <2>2 DEF Authenticate, Subjects
  <2>3. CASE Forward(c)
    BY <1>1, <2>3 DEF Forward
  <2>4. CASE Await(c)
    BY <1>1, <2>4 DEF Await
  <2>5. CASE Create(c)
    <3>1. keys' \subseteq KeyRow
      BY <2>5, CommittedRow DEF Create
    <3>2. QED
      BY <1>1, <2>5, <3>1 DEF Create
  <2>6. CASE Reply(c)
    BY <1>1, <2>6 DEF Reply
  <2>7. QED
    BY <1>5, <2>1, <2>2, <2>3, <2>4, <2>5, <2>6 DEF CreationStep
<1>6. QED
  BY <1>2, <1>3, <1>4, <1>5 DEF KNext, identityVars

LEMMA StepKeys == KeyInv /\ [KNext]_identityVars => KeyInv'
<1> SUFFICES ASSUME KeyInv, [KNext]_identityVars PROVE KeyInv'
  OBVIOUS
<1>1. AccountInv' /\ AnsweredOnce' /\ Onward
  BY KeysLeaveAccounts, StepAccounts, StepAnswers, StepOnward DEF KeyInv
<1>2. ApiKeysTypeOK'
  BY <1>1, StepKeyTypes
<1>3. ASSUME NEW c \in Creations, SameRequest(c)
      PROVE  RequestOK(c)' /\ StoredOK(c)'
  BY <1>1, <1>3, SameRequestOK DEF KeyInv
<1>4. CASE UNCHANGED keyVars \/ Tick
  <2>1. \A c \in Creations : SameRequest(c)
    BY <1>4 DEF keyVars, Tick, SameRequest
  <2>2. \A k \in keys' : RowOK(k)'
    BY <1>4 DEF keyVars, Tick, KeyInv, RowOK
  <2>3. QED
    BY <1>1, <1>2, <1>3, <2>1, <2>2 DEF KeyInv
<1>5. CASE RestartGateway
  <2>1. /\ UNCHANGED <<now, demand, caller, service, keys, told>>
        /\ \A c \in Creations : gate'[c] = gate[c] \/ (gate'[c] = "dropped" /\ gate[c] # "idle")
    BY <1>5 DEF RestartGateway
  <2>2. \A c \in Creations : RequestOK(c)' /\ StoredOK(c)'
    <3> SUFFICES ASSUME NEW c \in Creations PROVE RequestOK(c)' /\ StoredOK(c)'
      OBVIOUS
    <3>1. CASE gate'[c] = gate[c]
      BY <1>3, <2>1, <3>1 DEF SameRequest
    <3>2. CASE gate'[c] = "dropped" /\ gate[c] # "idle"
      <4>1. answer' = answer /\ tokens' = tokens
        BY <1>5 DEF RestartGateway, Restart
      <4>2. QED
        BY <2>1, <3>2, <4>1 DEF KeyInv, RequestOK, StoredOK
    <3>3. QED
      BY <2>1, <3>1, <3>2
  <2>3. \A k \in keys' : RowOK(k)'
    BY <2>1 DEF KeyInv, RowOK
  <2>4. QED
    BY <1>1, <1>2, <2>2, <2>3 DEF KeyInv
<1>6. ASSUME NEW c \in Creations, CreationStep(c)
      PROVE  KeyInv'
  <2>1. \A d \in Creations : RequestOK(d)' /\ StoredOK(d)'
    BY <1>1, <1>3, <1>6, RequestFrame, OwnRequest
  <2>2. ASSUME NEW k \in keys
        PROVE  RowOK(k)'
    <3>1. k.key \in Creations /\ RowOK(k)
      BY DEF KeyInv, ApiKeysTypeOK, KeyRow
    <3>2. QED
      BY <1>6, <3>1, RequestFrame DEF RowOK, SameRequest
  <2>3. ASSUME NEW user \in Named(c), NEW k, k = NewKey(c, user), Create(c),
               service' = [service EXCEPT ![c] = "stored"]
        PROVE  RowOK(k)'
    <3>1. service[c] = "sent" /\ UNCHANGED <<demand, caller>>
      BY <2>3 DEF Create
    <3>2. service'[c] = "stored"
      BY <2>3 DEF KeyInv, ApiKeysTypeOK
    <3>3. k.key = c /\ (~demand[c].wish.header => k.user = caller[c])
          /\ k.scopes = demand[c].wish.scopes
          /\ (demand[c].wish.expire # Default => k.expiring = demand[c].wish.expire)
      BY <2>3, <3>1, CommittedRow
    <3>4. QED
      BY <3>1, <3>2, <3>3 DEF RowOK
  <2>4. \A k \in keys' : RowOK(k)'
    <3>1. \/ keys' = keys
          \/ /\ Create(c) /\ service' = [service EXCEPT ![c] = "stored"]
             /\ \E user \in Named(c) : keys' = keys \cup {NewKey(c, user)}
      BY <1>6 DEF CreationStep, Ask, Authenticate, Forward, Await, Create, Reply, Service
    <3>2. QED
      BY <2>2, <2>3, <3>1
  <2>5. QED
    BY <1>1, <1>2, <2>1, <2>4 DEF KeyInv
<1>7. QED
  BY <1>4, <1>5, <1>6 DEF KNext, identityVars

LEMMA KeyInvariant == KSpec => []KeyInv
  BY InitKeys, StepKeys, PTL DEF KSpec

(***************************************************************************)
(* Every variable of the gateway's and the API key service's side stays in *)
(* its type: what is stored as a key is a row with a user and an expiry.   *)
(***************************************************************************)
THEOREM KeysTypeCorrect == KSpec => []ApiKeysTypeOK
<1>1. KeyInv => ApiKeysTypeOK
  BY DEF KeyInv
<1>2. QED
  BY <1>1, KeyInvariant, PTL

(***************************************************************************)
(* A key that was answered opens the gateway for as long as was promised.  *)
(***************************************************************************)
THEOREM AnsweredKeysStayOpen == KSpec => []AnsweredKeysOpen
<1>1. KeyInv => AnsweredKeysOpen
  <2> SUFFICES ASSUME KeyInv, NEW c \in Holders, now <= Promised(demand[c])
               PROVE  Opens(c) # {}
    BY DEF AnsweredKeysOpen
  <2>1. service[c] = "answered" /\ StoredOK(c) /\ demand[c] \in Demand
    BY DEF Holders, KeyInv, RequestOK
  <2>2. PICK k \in keys : k.key = c /\ k.expiring >= Promised(demand[c])
    BY <2>1 DEF StoredOK
  <2>3. k.expiring \in Nat /\ now \in Nat
    BY ApiKeysAssumption DEF KeyInv, ApiKeysTypeOK, KeyRow
  <2>4. Promised(demand[c]) \in Nat
    <3>1. demand[c].wish \in Wishes /\ demand[c].at \in 0..MaxTime
      BY <2>1 DEF Demand
    <3>2. demand[c].wish.expire \in (0..MaxTime) \cup {Default}
      BY <3>1, ApiKeysAssumption
    <3>3. QED
      BY <3>1, <3>2, ApiKeysAssumption DEF Promised
  <2>5. k \in Opens(c)
    BY <2>2, <2>3, <2>4 DEF Opens
  <2>6. QED
    BY <2>5
<1>2. QED
  BY <1>1, KeyInvariant, PTL

(***************************************************************************)
(* A key opens the gateway with the scopes and for the time its request    *)
(* asked for, and for its owner only if that request carried no user id    *)
(* header of its own, whatever other requests carry.                       *)
(***************************************************************************)
THEOREM KeysActForOwners == KSpec => []KeysActForTheirOwner
<1>1. KeyInv => KeysActForTheirOwner
  <2> SUFFICES ASSUME KeyInv, NEW c \in Holders, NEW k \in Opens(c)
               PROVE  /\ ~demand[c].wish.header =>
                           \E u \in RowsOf(profile[demand[c].by]) : u.id = k.user
                      /\ k.scopes = demand[c].wish.scopes
                      /\ demand[c].wish.expire # Default => now <= demand[c].wish.expire
    BY DEF KeysActForTheirOwner
  <2>1. k \in keys /\ k.key = c /\ ~(k.expiring < now) /\ RowOK(k)
    BY DEF Opens, KeyInv
  <2>2. k.expiring \in Nat /\ now \in Nat
    BY <2>1, ApiKeysAssumption DEF KeyInv, ApiKeysTypeOK, KeyRow
  <2>3. ~demand[c].wish.header => <<demand[c].by, k.user>> \in tokens
    BY <2>1 DEF Holders, KeyInv, RequestOK, RowOK
  <2>4. ~demand[c].wish.header => \E u \in RowsOf(profile[demand[c].by]) : u.id = k.user
    BY <2>3 DEF KeyInv, AccountInv, TokensBelong
  <2>5. QED
    BY <2>1, <2>2, <2>4 DEF RowOK
<1>2. QED
  BY <1>1, KeyInvariant, PTL

-------------------------------------------------------------------------------
(* Accounts outlive sign-ins                                               *)

(***************************************************************************)
(* No sign-in deletes an account or changes the provider it was created    *)
(* with, for any number of sign-ins and restarts.                          *)
(***************************************************************************)
THEOREM PrimariesKept == ASpec => PrimaryKept
<1>1. AccountInv /\ [ANext]_accountVars =>
         [\A u \in users : \E v \in users' :
             v.id = u.id /\ v.key = u.key /\ v.primary = u.primary]_accountVars
  <2> SUFFICES ASSUME AccountInv, [ANext]_accountVars, NEW u \in users
               PROVE  \E v \in users' : v.id = u.id /\ v.key = u.key /\ v.primary = u.primary
    OBVIOUS
  <2>1. CASE users \subseteq users'
    BY <2>1
  <2>2. ASSUME NEW s \in SignIns, NEW w \in RowsOf(profile[s]),
               users' = (users \ {w}) \cup {[w EXCEPT !.last = profile[s].provider]}
        PROVE  \E v \in users' : v.id = u.id /\ v.key = u.key /\ v.primary = u.primary
    <3> DEFINE x == [w EXCEPT !.last = profile[s].provider]
    <3>1. x.id = w.id /\ x.key = w.key /\ x.primary = w.primary
      BY DEF RowsOf, Row, AccountInv, AccountsTypeOK
    <3> HIDE DEF x
    <3>2. users' = (users \ {w}) \cup {x}
      BY <2>2 DEF x
    <3>3. QED
      BY <3>1, <3>2
  <2>3. users \subseteq users' \/ \E s \in SignIns : \E w \in RowsOf(profile[s]) :
           users' = (users \ {w}) \cup {[w EXCEPT !.last = profile[s].provider]}
    BY DEF ANext, accountVars, Restart, Exchange, Lookup, Insert, Update, Issue
  <2>4. QED
    BY <2>1, <2>2, <2>3
<1>2. QED
  BY <1>1, AccountInvariant, PTL DEF ASpec, PrimaryKept

(***************************************************************************)
(* The promises about accounts hold with the requests for keys around the  *)
(* sign-ins.                                                               *)
(***************************************************************************)
COROLLARY AccountsAmongKeys == KSpec => [](LookupStillTrue /\ TokensBelong) /\ PrimaryKept
<1>1. AccountInv => LookupStillTrue /\ TokensBelong
  BY DEF AccountInv
<1>2. QED
  BY <1>1, KeysImplementAccounts, AccountInvariant, PrimariesKept, PTL
===============================================================================
