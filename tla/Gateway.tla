-------------------------------- MODULE Gateway --------------------------------
(***************************************************************************)
(* The API gateway: every request passes the rate limiter, then            *)
(* DualAuthMiddleware, then its route, which answers itself or forwards to *)
(* a service behind the gateway and waits for its answer.                  *)
(* RatelimiterMiddleware is added after DualAuthMiddleware and so runs     *)
(* before it; all requests of the model come from one address.             *)
(*                                                                         *)
(* An exception that leaves a middleware ends in the server's 500 answer;  *)
(* a service behind the gateway may serve a request after the gateway has  *)
(* given up waiting for it.  Three waits of a request have no limit: for   *)
(* the answer of Redis (the client has no socket timeout), for the body    *)
(* the client sends, and for a service whose answer trickles in (httpx     *)
(* limits each read, not their sum).                                       *)
(***************************************************************************)
EXTENDS TokenBucket, FiniteSets

CONSTANT Calls   \* the requests clients may make

Credentials == {"none", "bad_jwt", "bad_key", "inactive", "jwt", "key"}

\* main.py includes upload_proxy, download_proxy and api_provider_proxy in this
\* order, and the first route whose pattern matches gets the request; the second
\* route of upload_proxy and that of download_proxy have the same pattern.
\* A path "by_suffix" is one of the second route whose suffix names the presigned
\* handler at the upload service.
AnyUpload == {"presigned", "by_suffix", "start", "download"}

Routes == <<[paths |-> {"presigned"}, service |-> "upload_service"],
            [paths |-> AnyUpload,     service |-> "upload_service"],
            [paths |-> AnyUpload,     service |-> "download_service"],
            [paths |-> {"api"},       service |-> "api_provider"]>>

Forwarded == AnyUpload \cup {"api"}

Matching(path) == {i \in DOMAIN Routes : path \in Routes[i].paths}

ServiceOf(path) ==
    Routes[CHOOSE i \in Matching(path) : \A j \in Matching(path) : i <= j].service

\* The handler a forwarded path names at the service it is forwarded to, and the
\* handlers of the services.
Target == [presigned |-> "presigned", by_suffix |-> "presigned", start |-> "start",
           download |-> "link", api |-> "create"]

Handles == [upload_service   |-> {"presigned", "start"},
            download_service |-> {"link"},
            api_provider     |-> {"create"}]

Handled(path) == Target[path] \in Handles[ServiceOf(path)]

\* The answers of a handler that did nothing: no file name, no such job, and a
\* body that does not fit the schema.
Refusals == [presigned |-> {"400", "422"}, start |-> {"422"},
             link |-> {"404", "422"}, create |-> {"422"}]

Paths == {"docs", "resend", "admin", "unknown"} \cup Forwarded

\* PUBLIC_PATHS, the same set in both middlewares.
Public == {"docs", "resend"}

\* scope_rules: a rule belongs to the paths with its prefix, whatever handler they
\* reach; the other paths have none.
ScopeRules == [presigned |-> {"document:upload"},
               start     |-> {"convert:create"},
               api       |-> {"api:read", "api:write"}]

Scopes == UNION {ScopeRules[p] : p \in DOMAIN ScopeRules}

Required(path) == IF path \in DOMAIN ScopeRules THEN ScopeRules[path] ELSE {}

Plans == {"free", "pro", "enterprise"}

Call == [path: Paths, credential: Credentials, scopes: SUBSET Scopes,
         admin: BOOLEAN, plan: Plans]

ASSUME CallsAssumption == Calls \subseteq Call

ASSUME RequestsAssumption == IsFiniteSet(Requests)

VARIABLES
    call,     \* [request -> what it asks]
    stage,    \* [request -> where it is]
    user,     \* [request -> request.state.user is set]
    charged,  \* [request -> the limiter configuration applied to it]
    sent,     \* [request -> what the service behind the gateway got and did of it]
    reply     \* [request -> answer, or "none"]

gwVars == <<call, stage, user, charged, sent, reply>>
gatewayVars == <<gwVars, tbVars>>

Stages == {"new", "limit", "asking", "auth", "route", "upstream",
           "done", "dropped", "hung"}

Outcomes == {"no", "sent", "served", "refused", "unhandled", "failed"}

Replies == {"none", "ok", "400", "401", "403", "404", "422", "500", "502", "504"}

GInit ==
    /\ TBInit
    /\ call \in [Requests -> Calls]
    /\ stage = [r \in Requests |-> "new"]
    /\ user = [r \in Requests |-> FALSE]
    /\ charged = [r \in Requests |-> "nothing"]
    /\ sent = [r \in Requests |-> "no"]
    /\ reply = [r \in Requests |-> "none"]

From(r, here) == stage[r] = here

To(r, there) == stage' = [stage EXCEPT ![r] = there]

Finish(r, answer) ==
    /\ To(r, "done")
    /\ reply' = [reply EXCEPT ![r] = answer]

Arrive(r) ==
    /\ From(r, "new")
    /\ To(r, "limit")
    /\ UNCHANGED <<call, user, charged, sent, reply, tbVars>>

-------------------------------------------------------------------------------
(* RatelimiterMiddleware                                                   *)

Bypassed(r) == call[r].path \in Public \/ (user[r] /\ call[r].admin)

\* Mutation: the configuration is looked up by the kind of credential.
ConfigurationOfCredential(r) == IF user[r] THEN call[r].plan ELSE call[r].credential

Configuration(r) == IF user[r] THEN call[r].plan ELSE "anonymous"

PassLimiter(r) ==
    /\ From(r, "limit")
    /\ Bypassed(r)
    /\ To(r, "auth")
    /\ UNCHANGED <<call, user, charged, sent, reply, tbVars>>

AskLimiter(r) ==
    /\ From(r, "limit")
    /\ ~Bypassed(r)
    /\ Capture(r)
    /\ charged' = [charged EXCEPT ![r] = Configuration(r)]
    /\ To(r, "asking")
    /\ UNCHANGED <<call, user, sent, reply>>

\* Mutation: a request passes when Redis does not know the script.
LimiterFailsOpen(r) ==
    /\ From(r, "asking")
    /\ \/ (Admit(r) \/ ScriptMissing(r)) /\ To(r, "auth") /\ UNCHANGED reply
       \/ (Admit(r) \/ Refuse(r) \/ CallLost(r)) /\ Finish(r, "500")
    /\ UNCHANGED <<call, user, charged, sent>>

(* A refusal is a response object that nobody sends: the server finds no   *)
(* response and answers 500, as it does when evalsha raises.  It raises    *)
(* for want of the script and when the connection is lost, before or after *)
(* the script ran.                                                         *)
LimiterAnswers(r) ==
    /\ From(r, "asking")
    /\ \/ Admit(r) /\ To(r, "auth") /\ UNCHANGED reply
       \/ (Admit(r) \/ Refuse(r) \/ ScriptMissing(r) \/ CallLost(r)) /\ Finish(r, "500")
    /\ UNCHANGED <<call, user, charged, sent>>

-------------------------------------------------------------------------------
(* DualAuthMiddleware                                                      *)

Known(c) == c.credential \in {"jwt", "key"}

\* Mutation: scopes are required of no credential.
ResolveUnscoped(c) ==
    CASE c.credential \in {"none", "bad_jwt"}        -> "500"
      [] c.credential = "bad_key"                    -> "401"
      [] c.credential = "inactive"                   -> "400"
      [] Known(c) /\ c.path = "admin" /\ ~c.admin    -> "500"
      [] OTHER                                       -> "none"

(* _resolve.  A missing header raises outside its try block; an invalid    *)
(* token makes verify_jwt_token return a response where a user is          *)
(* expected; the refusal of an admin path is built with its arguments      *)
(* swapped: each is an exception that no handler below the server turns    *)
(* into an answer of its own.                                              *)
Resolve(c) ==
    CASE c.credential \in {"none", "bad_jwt"}        -> "500"
      [] c.credential = "bad_key"                    -> "401"
      [] c.credential = "inactive"                   -> "400"
      [] Known(c) /\ c.path = "admin" /\ ~c.admin    -> "500"
      [] c.credential = "key" /\ ~(Required(c.path) \subseteq c.scopes) -> "403"
      [] OTHER                                       -> "none"

Authenticate(r) ==
    /\ From(r, "auth")
    /\ \/ /\ call[r].path \in Public
          /\ To(r, "route")
          /\ UNCHANGED <<user, reply>>
       \/ /\ call[r].path \notin Public
          /\ Resolve(call[r]) = "none"
          /\ user' = [user EXCEPT ![r] = TRUE]
          /\ To(r, "route")
          /\ UNCHANGED reply
       \/ /\ call[r].path \notin Public
          /\ Resolve(call[r]) # "none"
          /\ Finish(r, Resolve(call[r]))
          /\ UNCHANGED user
       \/ /\ call[r].path \notin Public
          /\ call[r].credential \notin {"none", "bad_jwt"}
          /\ Finish(r, "500")     \* the database does not answer
          /\ UNCHANGED user
    /\ UNCHANGED <<call, charged, sent, tbVars>>

-------------------------------------------------------------------------------
(* Routes                                                                  *)

\* The public routes are the authentication service's; resending a
\* verification mail asks for the user that no public request has.
AnswerHere(r) ==
    /\ From(r, "route")
    /\ call[r].path \notin Forwarded
    /\ Finish(r, CASE call[r].path = "docs" -> "ok"
                   [] call[r].path = "resend" /\ ~user[r] -> "500"
                   [] OTHER -> "404")
    /\ UNCHANGED <<call, user, charged, sent, tbVars>>

\* api_provider_route_proxy catches no httpx error.
Failed(r, answer) == IF call[r].path = "api" THEN "500" ELSE answer

Forward(r) ==
    /\ From(r, "route")
    /\ call[r].path \in Forwarded
    /\ \/ /\ sent' = [sent EXCEPT ![r] = "sent"]
          /\ To(r, "upstream")
          /\ UNCHANGED reply
       \/ /\ \E code \in {"502", "504"} : Finish(r, Failed(r, code))  \* no connection
          /\ UNCHANGED sent
       \/ /\ call[r].path \in {"presigned", "api"}
          /\ Finish(r, "500")              \* the body is not json
          /\ UNCHANGED sent
    /\ UNCHANGED <<call, user, charged, tbVars>>

\* A handler does what it is asked, refuses it without doing anything, or raises
\* part of the way through.
Serve(r) ==
    /\ sent[r] = "sent"
    /\ \E o \in IF Handled(call[r].path) THEN {"served", "refused", "failed"}
                                        ELSE {"unhandled"} :
          sent' = [sent EXCEPT ![r] = o]
    /\ UNCHANGED <<call, stage, user, charged, reply, tbVars>>

\* The statuses of a service's answer, which the proxies relay.  404 stands for
\* the answer to an unknown path and to an unknown method alike.
Answer(r) ==
    CASE sent[r] = "served"    -> {"ok"}
      [] sent[r] = "refused"   -> Refusals[Target[call[r].path]]
      [] sent[r] = "unhandled" -> {"404"}
      [] sent[r] = "failed"    -> {"500"}
      [] OTHER                 -> {}

\* Mutation: no timeout.
AwaitForever(r) ==
    /\ From(r, "upstream")
    /\ \E answer \in Answer(r) : Finish(r, answer)
    /\ UNCHANGED <<call, user, charged, sent, tbVars>>

\* Mutation: a timeout is reported as an answer of the service.
AwaitOptimistic(r) ==
    /\ From(r, "upstream")
    /\ \/ \E answer \in Answer(r) : Finish(r, answer)
       \/ Finish(r, "404") \/ Finish(r, Failed(r, "502"))
    /\ UNCHANGED <<call, user, charged, sent, tbVars>>

Await(r) ==
    /\ From(r, "upstream")
    /\ \/ \E answer \in Answer(r) : Finish(r, answer)
       \/ Finish(r, Failed(r, "504"))      \* httpx.TimeoutException
       \/ Finish(r, Failed(r, "502"))      \* httpx.RequestError
    /\ UNCHANGED <<call, user, charged, sent, tbVars>>

(* The waits without a limit: Redis keeps silent, with or without having   *)
(* run the script; the client does not finish its body; the service has    *)
(* begun its answer and never ends it.                                     *)
Hang(r) ==
    /\ \/ From(r, "asking") /\ (Admit(r) \/ CallLost(r))
       \/ From(r, "route") /\ call[r].path \in Forwarded /\ UNCHANGED tbVars
       \/ From(r, "upstream") /\ Answer(r) # {} /\ UNCHANGED tbVars
    /\ To(r, "hung")
    /\ UNCHANGED <<call, user, charged, sent, reply>>

-------------------------------------------------------------------------------

RequestStep(r) ==
    \/ PassLimiter(r) \/ AskLimiter(r) \/ LimiterAnswers(r)
    \/ Authenticate(r) \/ AnswerHere(r) \/ Forward(r) \/ Await(r)

\* Requests in flight die with the gateway process.
RestartGateway ==
    /\ StartGateway
    /\ stage' = [r \in Requests |->
                    IF From(r, "new") \/ From(r, "done") THEN stage[r] ELSE "dropped"]
    /\ UNCHANGED <<call, user, charged, sent, reply>>

Surroundings == (Tick \/ Synchronise \/ RestartRedis) /\ UNCHANGED gwVars

GNext ==
    \/ Surroundings \/ RestartGateway
    \/ \E r \in Requests : Arrive(r) \/ Serve(r) \/ RequestStep(r) \/ Hang(r)

GSpec == GInit /\ [][GNext]_gatewayVars

(***************************************************************************)
(* The event loop runs a coroutine that can go on: it has an answer of     *)
(* Redis or an error, a database that answers or raises, a body, or        *)
(* httpx's timeout.  Whoever makes it wait without a limit takes it to     *)
(* "hung" first.                                                           *)
(***************************************************************************)
GFairSpec == GSpec /\ \A r \in Requests : WF_gatewayVars(RequestStep(r))

-------------------------------------------------------------------------------

GTypeOK ==
    /\ TBTypeOK
    /\ call \in [Requests -> Calls]
    /\ stage \in [Requests -> Stages]
    /\ user \in [Requests -> BOOLEAN]
    /\ charged \in [Requests -> Plans \cup {"nothing", "anonymous"}]
    /\ sent \in [Requests -> Outcomes]
    /\ reply \in [Requests -> Replies]

Reached == {r \in Requests : sent[r] # "no"}

(***************************************************************************)
(* The services behind the gateway are protected by the limiter: what      *)
(* reaches them fits the bucket, whatever path the request took.           *)
(***************************************************************************)
WorkBounded == Cost * Cardinality(Reached) <= Window + clock + given

(***************************************************************************)
(* What reaches a service has a valid credential and, for an API key, the  *)
(* scopes of the rule its path matches: no way through the middlewares     *)
(* misses _resolve, whatever fails.  It says nothing of the handlers: a    *)
(* path without a rule may reach one that another path needs a scope for.  *)
(***************************************************************************)
ReachedIsEntitled ==
    \A r \in Reached :
        /\ call[r].credential \in {"jwt", "key"}
        /\ call[r].credential = "key" => Required(call[r].path) \subseteq call[r].scopes

(***************************************************************************)
(* The answers tell the truth about the service: "ok" for a forwarded      *)
(* request only when it was served, and a 4xx, of the gateway or relayed   *)
(* from a service, only when no service has done anything of it or will.   *)
(* (A 500, 502 or 504 tells nothing.)                                      *)
(***************************************************************************)
AnswersAreTrue ==
    \A r \in Requests :
        /\ reply[r] = "ok" /\ call[r].path \in Forwarded => sent[r] = "served"
        /\ reply[r] \in {"400", "401", "403", "404", "422"}
              => sent[r] \in {"no", "refused", "unhandled"}

(***************************************************************************)
(* A request that arrived is answered, dies with the gateway, or is in one *)
(* of the three waits without a limit: a Redis that has failed, a service  *)
(* that is down, slow or silent, and a restart of either end it.           *)
(***************************************************************************)
EveryRequestEnds ==
    \A r \in Requests : stage[r] = "limit" ~> stage[r] \in {"done", "dropped", "hung"}
===============================================================================
