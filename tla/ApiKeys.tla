-------------------------------- MODULE ApiKeys --------------------------------
(***************************************************************************)
(* API keys, from the sign-in that pays for them to the request they open: *)
(* a client signs in (Accounts) and gets an access token; with it asks the *)
(* gateway for a key; the gateway verifies the token, forwards the request *)
(* to the API key service with the user's id and waits for its answer; the *)
(* service commits a row of api_key, reads it back and answers the key.    *)
(* Later the gateway looks the key up in the same table.                   *)
(*                                                                         *)
(* The proxy adds the user's id to the headers of the request and removes  *)
(* none of that name: a client's own comes first, and it is the one the    *)
(* service reads.                                                          *)
(*                                                                         *)
(* The two services are processes of their own: the row may be committed   *)
(* although the gateway has given up, restarted, or been told of an error. *)
(* The gateway's side runs on the event loop the callbacks of Accounts     *)
(* keep.  Users are never deleted or deactivated, keys never revoked.      *)
(***************************************************************************)
EXTENDS Accounts

CONSTANTS
    Creations,  \* requests for a key; a fresh key has the name of its request
    Scopes,     \* scopes a key may have
    Wishes,     \* what a request may ask for: scopes, expiry, and whether it
                \* carries a user id header of its own
    Default,    \* sentinel: the request names no expiry
    Lifetime,   \* the service's own expiry, 30 days
    MaxTime     \* last instant considered (bounds the run)

ASSUME ApiKeysAssumption ==
    /\ Lifetime \in Nat /\ MaxTime \in Nat
    /\ Wishes \subseteq [scopes: SUBSET Scopes, expire: (0..MaxTime) \cup {Default},
                          header: BOOLEAN]
    /\ Default \notin Nat

VARIABLES
    now,      \* the clock of the hosts and of the client
    demand,   \* [request -> what it asks for, whose sign-in and when]
    gate,     \* [request -> where the gateway is with it]
    caller,   \* [request -> request.state.user.user_id]
    service,  \* [request -> where the API key service is with it]
    keys,     \* rows of api_key
    told      \* [request -> the client's answer]

keyVars == <<now, demand, gate, caller, service, keys, told>>
identityVars == <<accountVars, keyVars>>

Demand == [wish: Wishes, by: SignIns, at: 0..MaxTime]

KeyRow == [key: Creations, user: SignIns, scopes: SUBSET Scopes, expiring: Nat]

GatePlaces == {"idle", "auth", "route", "waiting", "done", "dropped"}

ServicePlaces == {"idle", "sent", "stored", "answered", "failed"}

KInit ==
    /\ AInit
    /\ now = 0
    /\ demand = [c \in Creations |-> Default]
    /\ gate = [c \in Creations |-> "idle"]
    /\ caller = [c \in Creations |-> Free]
    /\ service = [c \in Creations |-> "idle"]
    /\ keys = {}
    /\ told = [c \in Creations |-> "none"]

Gate(c, place) == gate' = [gate EXCEPT ![c] = place]

Service(c, place) == service' = [service EXCEPT ![c] = place]

Tell(c, code) ==
    /\ Gate(c, "done")
    /\ told' = [told EXCEPT ![c] = code]

Tick ==
    /\ now < MaxTime
    /\ now' = now + 1
    /\ UNCHANGED <<accountVars, demand, gate, caller, service, keys, told>>

-------------------------------------------------------------------------------
(* The gateway's side                                                      *)

\* The access token of a sign-in names the id its refresh token was issued to.
Subjects(s) == {i \in SignIns : <<s, i>> \in tokens}

Ask(c) ==
    /\ gate[c] = "idle"
    /\ \E s \in SignIns, w \in Wishes :
          /\ answer[s] = "tokens"
          /\ demand' = [demand EXCEPT ![c] = [wish |-> w, by |-> s, at |-> now]]
    /\ Gate(c, "auth")
    /\ UNCHANGED <<accountVars, now, caller, service, keys, told>>

\* Mutation: the user is kept in the middleware, which all requests share.
AuthenticateShared(c) ==
    /\ gate[c] = "auth"
    /\ loop = Free
    /\ \/ /\ \E i \in Subjects(demand[c].by) : caller' = [d \in Creations |-> i]
          /\ Gate(c, "route")
          /\ UNCHANGED told
       \/ Tell(c, "500") /\ UNCHANGED caller
    /\ UNCHANGED <<accountVars, now, demand, service, keys>>

\* The limiter, verify_jwt_token or the database may also end it here.
Authenticate(c) ==
    /\ gate[c] = "auth"
    /\ loop = Free
    /\ \/ /\ \E i \in Subjects(demand[c].by) : caller' = [caller EXCEPT ![c] = i]
          /\ Gate(c, "route")
          /\ UNCHANGED told
       \/ Tell(c, "500") /\ UNCHANGED caller
    /\ UNCHANGED <<accountVars, now, demand, service, keys>>

\* The body is not json, or there is no connection to the service.
Forward(c) ==
    /\ gate[c] = "route"
    /\ loop = Free
    /\ \/ Gate(c, "waiting") /\ Service(c, "sent") /\ UNCHANGED told
       \/ Tell(c, "500") /\ UNCHANGED service
    /\ UNCHANGED <<accountVars, now, demand, caller, keys>>

\* A timeout, a connection lost and an error of the service all end in 500.
Await(c) ==
    /\ gate[c] = "waiting"
    /\ loop = Free
    /\ \/ service[c] = "answered" /\ Tell(c, "key")
       \/ Tell(c, "500")
    /\ UNCHANGED <<accountVars, now, demand, caller, service, keys>>

\* Requests in flight die with the gateway; the service goes on with its own.
RestartGateway ==
    /\ Restart
    /\ gate' = [c \in Creations |-> IF gate[c] \in {"auth", "route", "waiting"}
                                       THEN "dropped" ELSE gate[c]]
    /\ UNCHANGED <<now, demand, caller, service, keys, told>>

-------------------------------------------------------------------------------
(* The API key service                                                     *)

\* Mutation: the expiry is computed when the service starts.
ExpiryAtStart(wish) == IF wish.expire = Default THEN Lifetime ELSE wish.expire

ExpiryOf(wish) == IF wish.expire = Default THEN now + Lifetime ELSE wish.expire

\* The user ids the service may read in the header: the one the gateway set, or
\* whatever the client wrote; api_key.user_id refers to a user.
Named(c) == IF demand[c].wish.header THEN {u.id : u \in users} ELSE {caller[c]}

NewKey(c, user) == [key |-> c, user |-> user, scopes |-> demand[c].wish.scopes,
                    expiring |-> ExpiryOf(demand[c].wish)]

\* A body that does not fit the schema, or a commit that fails, stores nothing.
Create(c) ==
    /\ service[c] = "sent"
    /\ \/ /\ \E user \in Named(c) : keys' = keys \cup {NewKey(c, user)}
          /\ Service(c, "stored")
       \/ Service(c, "failed") /\ UNCHANGED keys
    /\ UNCHANGED <<accountVars, now, demand, gate, caller, told>>

\* refresh and the answer; either may fail when the row is committed.
Reply(c) ==
    /\ service[c] = "stored"
    /\ Service(c, "answered") \/ Service(c, "failed")
    /\ UNCHANGED <<accountVars, now, demand, gate, caller, keys, told>>

-------------------------------------------------------------------------------

\* verify_api_key: the rows that open the gateway to the holder of a key.
Opens(c) == {k \in keys : k.key = c /\ ~(k.expiring < now)}

SignInStep(s) == Exchange(s) \/ Lookup(s) \/ Insert(s) \/ Update(s) \/ Issue(s)

CreationStep(c) ==
    \/ Ask(c) \/ Authenticate(c) \/ Forward(c) \/ Await(c) \/ Create(c) \/ Reply(c)

KNext ==
    \/ Tick \/ RestartGateway
    \/ \E s \in SignIns : SignInStep(s) /\ UNCHANGED keyVars
    \/ \E c \in Creations : CreationStep(c)

KSpec == KInit /\ [][KNext]_identityVars

-------------------------------------------------------------------------------

ApiKeysTypeOK ==
    /\ AccountsTypeOK
    /\ now \in 0..MaxTime
    /\ demand \in [Creations -> Demand \cup {Default}]
    /\ gate \in [Creations -> GatePlaces]
    /\ caller \in [Creations -> SignIns \cup {Free}]
    /\ service \in [Creations -> ServicePlaces]
    /\ keys \subseteq KeyRow
    /\ told \in [Creations -> {"none", "key", "500"}]

Holders == {c \in Creations : told[c] = "key"}

(***************************************************************************)
(* A client that was answered a key can use it until the instant it asked  *)
(* for, or for the service's lifetime from the moment it asked, whatever   *)
(* else fails or restarts meanwhile.  (create_new_token, verify_api_key.)  *)
(***************************************************************************)
Promised(d) == IF d.wish.expire = Default THEN d.at + Lifetime ELSE d.wish.expire

AnsweredKeysOpen ==
    \A c \in Holders : now <= Promised(demand[c]) => Opens(c) # {}

(***************************************************************************)
(* A key opens the gateway with the scopes its request asked for and no    *)
(* longer than that request asked.  If the request carried no user id      *)
(* header of its own, the key acts for exactly the account whose sign-in   *)
(* proved its email or user name: through the access token, the User-Id    *)
(* header of the proxy, the row and its lookup, while other sign-ins and   *)
(* other requests for keys, with such a header or without, are under way.  *)
(* (With one, the key acts for whatever user the header names.)            *)
(***************************************************************************)
KeysActForTheirOwner ==
    \A c \in Holders : \A k \in Opens(c) :
        LET d == demand[c] IN
        /\ ~d.wish.header => \E u \in RowsOf(profile[d.by]) : u.id = k.user
        /\ k.scopes = d.wish.scopes
        /\ d.wish.expire # Default => now <= d.wish.expire
===============================================================================
