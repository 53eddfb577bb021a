# DocConvert platform: verification project

TLA+ models of the document conversion platform in `src/`, the TLC runs that
check them on small instances, and the theorems TLAPS proves about them for
every instance. `PROJECT.json` lists components, runs, mutants, the map from
definitions to source lines, findings, hazards and theorems.

## 1. The system

Clients talk to the **API gateway** (FastAPI, one process, one event loop),
which limits rates through **Redis**, authenticates and forwards to the
services. The **upload service** signs an upload, creates a row in the **jobs
table** (PostgreSQL) and publishes a message to **RabbitMQ** when a conversion
is started. A **conversion worker** consumes the message, downloads the upload
from object **storage** (Supabase), converts it, uploads the output and writes
the row. A failed job is handed to a retry queue and, after MAX_RETRIES, to a
dead letter queue. The **download service** signs a link to the output.

| Component | State it keeps | Operations | Talks to | Hard about it | Correct when |
|---|---|---|---|---|---|
| Broker (`queue/rabbitmq.py`, RabbitMQ) | queues, deliveries not acknowledged | declare, publish, deliver, ack, reject, TTL, redeliver | upload service, workers | unroutable publishes, dead-lettering, redelivery | no request disappears without a trace; one live delivery each |
| Jobs table and buckets (`shared_database`) | job rows; raw, converted, compressed objects | create, update_status, update_records | all services | row and bucket written in separate commits | row and bucket agree |
| Upload service (`upload_route/router.py`) | none of its own | presigned, conversion start, merge start | database, storage, broker | start is accepted without looking at row, upload or routing | a job accepted is queued |
| Conversion worker (`consumer.py`, `worker.py`) | the copy in hand | process_job, hand-off, acknowledgement | broker, database, storage, converters | crash between any two steps, a connection lost under a blocking conversion with copies buffered ahead, failing publish or commit, a full disk | no request is lost without a trace, a failure its code catches is recorded; duplicates are bounded |
| Sessions of the workers (`SessionLocal` in `consumer.py`) | the open session, connections of a pool of 15 | open, commit, read back, collect | database | a session is never closed; which paths through a job return its connection | a connection is lost only where the failure is not recorded |
| Connection set-up (`connection.py`, `init_rabbitmq`) | attempts, declarations | connect, pause, declare | broker | the broker boots or restarts meanwhile; only the connection is retried | no service gives up early; declarations stay |
| Download service (`download_route.py`) | link cached in the row | get link | database, storage | bucket chosen from a column that later conversions overwrite | a saved output is served from its bucket |
| Rate limiter (`ratelimiter.py`, `limiter_engine.py`, the Lua script) | a hash per client in Redis | allow | Redis | clock read before the await; expiry; restart of Redis | admissions of a window bounded; a paced client never refused |
| Gateway request path (`middleware/`, `routes/`) | requests in flight | limit, authenticate, forward, wait | limiter, database, services | order of the middlewares and of the routes, early returns, timeout against a late answer | what reaches a service is paid for and has the scopes of its path; answers are true; a request ends unless it waits for something without a limit |
| OAuth sign-in (`authentication/api/service.py`) | users, refresh tokens | three callbacks | providers, database | lookup and creation in separate calls, three commits | tokens belong to the right user; accounts are kept |
| Local accounts, email verification | users, tokens | sign-up, login, reset, verify | database, mail | three commits per verification | (unreachable, see 7) |
| API key service (`api_provider`) | API keys | create; `verify_api_key` at the gateway | gateway, database | commit against the gateway's timeout and restart, expiry, identity passed from token to header to row | a key that was told works as long as promised, for the user the request named |
| Status service | - | - | - | named in `src/README.md`, its files are empty | - |
| Metrics, logging, migrations, mail | - | - | - | output only | - |

## 2. Modules

| Module | What it models |
|---|---|
| `Broker` | exchanges, bindings and queues of `init_rabbitmq`; publish, deliver, ack, reject, requeue, expiry |
| `Stores` | jobs table (status, upload_url, conversion_type) and the three buckets |
| `UploadService` | extends both: `GeneratePresignedUrl`, `ConvertFile`, `MergeFiles`, and the client's upload |
| `ConversionWorker` | extends it: the consumer loop and the conversions, one action per commit, storage call, converter call, publish and acknowledgement; crash, disconnect |
| `DownloadService` | the download handler's choice of the bucket |
| `Pipeline` | the composition, its properties and its refinement mapping |
| `WorkerSessions` | extends `Pipeline`: what each step of a worker does to its database session and pool |
| `Startup` | the start of upload service and workers against a broker that boots and restarts |
| `JobDelivery` | abstract specification: what the queue promises about each start request |
| `TokenBucket` | one bucket: coroutine, script, hash, persistence, restarts |
| `Gateway` | extends `TokenBucket`: the request path through both middlewares and the routes |
| `Accounts` | OAuth sign-in |
| `ApiKeys` | extends `Accounts`: creation of API keys through the gateway, and their use |
| `PipelineProofs`, `DeliveryProofs`, `WorkerSessionsProofs` | theorems about the pipeline, its refinement of `JobDelivery`, and the sessions around it; each extends the one before |
| `TokenBucketProofs`, `GatewayProofs` | theorems about the bucket and about the gateway around it |
| `AccountsProofs`, `ApiKeysProofs` | theorems about sign-in and about API keys around it |
| `StartupProofs` | theorems about the start of the services |
| `MCPipeline`, `MCWorkerSessions`, `MCStartup`, `MCTokenBucket`, `MCGateway`, `MCApiKeys` | instances for TLC |
| `PipelineClaims`, and the end of `MCGateway` | statements of the repository the code does not keep |

### State and actions against the code

*Pipeline.* A copy of a message is the start request it carries and its
`retry_count`; a queue is a multiset of copies, because the channel sets no
prefetch limit and redelivery reorders. `bodies` holds what a start request
asked for. `pc[w]` is where worker `w` is in `start_consumer`: `dispatch`
(`process_job`), `lookup` (`get_by_job_id` and `update_records`), `fetch`
(download and suffix check), `convert`, `store` (upload of the output), `mark`
(`update_status(failed)`), `failed` (the exception handler) and `settle` (the
end of `message.process`). `hand[w]` is the copy the loop works on,
`unacked[w]` the copy the broker counts as delivered to it; they differ after
a lost connection. `stale[w]` are the copies the iterator had buffered, for want
of a prefetch limit, when the connection was lost: the broker has requeued them,
and the loop still works through them (`ReceiveStale`) before it takes a new one.
While the connection stands a buffered copy counts as ready: that no other worker
can have it meanwhile only narrows what may happen. `discarded` and `finished` are history variables. A job's
path, user and document are abstracted to its id and the extension; a fresh
uuid is a job without a row that no request has named.

`_update_output_url`, called by every conversion after its upload, is not
defined in class `Conversion`; the exception is caught by the same handler as
an upload error. `StoreConverted` therefore always goes on to `mark`.

*Sessions.* `WorkerSessions` runs each action of the worker together with its
effect on the session. `update_records` reads the row back after its commit,
which opens a new transaction: the connection is held through the conversion
until `update_status` commits (`MarkInSession`). A job that ends in between
(`HandOffInSession` with `open[w]`) leaves its connection to the garbage
collector (`kept`); a full pool makes the next `get_by_job_id` time out
(`PoolExhausted`). `left`, `refused` and `unwritten` are history variables.

*Start.* `proc[s]` follows `get_rabbitmq_connection` (`connect`, `sleep`) and
`init_rabbitmq` (`declare`, one object per step); `link[s]` says whether the
broker was reachable throughout the call in progress, since a call may fail
although the broker has come back. `Broker` abstracts the declarations of a
worker to the flag `declared`, which is set once: `StaysRouted` is the reason
it may.

*Rate limiter.* Tokens are counted in time: one token is `Cost` = 1 /
refill_rate, a full bucket `Window` = capacity / refill_rate (3600 s in every
configuration of the gateway), and the EXPIRE argument is `Expiry`. `Capture`
is `time.time()` before `await evalsha`; `Admit`, `Refuse` and `ScriptMissing`
are the script, which Redis runs atomically; `CallLost` is a call whose
connection is lost before the script runs, `Admit` with an error at the gateway
one whose connection is lost after it. `Synchronise` and `RestartRedis`
are its append-only file. `since`, `spent`, `unsaved`, `given` and `latest` are
history variables of an observation window that opens at any time
(`OpenWindow`); `owed` is the ideal bucket `NeverStricter` compares with.

*Gateway.* `stage[r]` follows a request through `RatelimiterMiddleware`,
`DualAuthMiddleware._resolve`, its route and the wait for the service. An
exception that leaves a middleware, and a limiter refusal that is returned and
never sent, are the server's 500. The model's clients share one address and so
one bucket. `Routes` lists the proxies' patterns in the order `main.py`
includes them; the first that matches gets the request. The scope rule is found
by the prefix of the path (`Required`), the handler by the suffix that is
forwarded (`Target`): "by_suffix" is a path of the second upload route that has no
rule and reaches the presigned handler. `Serve` is what a service does with what
it got (serves it, refuses it without doing anything, knows no such path, fails
part of the way), `Answer` the status it gives and the proxy relays. `Hang` are
the waits without a limit.

*Accounts.* `loop` is the callback that keeps the event loop: between its
lookup and its answer a callback awaits nothing, so no other one runs; a
restart can still fall between its commits.

*API keys.* `gate[c]` is the gateway's coroutine, `service[c]` the API key
service's, a process of its own that goes on when the gateway has given up or
restarted. `caller[c]` is `request.state.user.user_id`, which the proxy adds to the
request's headers as User-Id. A user id header of the client's own is forwarded
ahead of it and is the one the service reads: `Named` is what it may find. `Opens` is `verify_api_key`.

## 3. Runs

All of them allow deadlock (`CHECK_DEADLOCK FALSE`): clients may stop asking,
requests come to an end and the bounded clock stops.

| Run | Instance | Checks | Shows |
|---|---|---|---|
| `pipeline_safety` | 1 job, 1 request of any of 6 formats and 2 extensions, 2 workers, MAX_RETRIES 3, 3 faults of any kind | `TypeOK`, `NothingForgotten`, `OneDelivery`, `ConvertedHasType`, `DuplicatesBounded`, `ImplementsDelivery` | no request is forgotten, deliveries are single, duplicates are paid for by faults, the pipeline implements `JobDelivery`; since nothing comes back from the retry queue a request ends parked or lost here, never dead |
| `pipeline_liveness` | no faults, `FairSpec` | `EverySettles`, `DocxReachesTerminal` | every accepted request settles; a docx job leaves `processing` |
| `token_bucket` | 2 requests, Cost 2, Window and Expiry 4, 6 instants | `TBTypeOK`, `BurstBound`, `PacedNeverRefused`, `NeverStricter` | the burst bound with overtaking requests, expiry and restarts; no refusal an ideal bucket would not give |
| `gateway_requests` | 2 requests out of 14 kinds, a bucket of 1, 2 instants, `GFairSpec` | `GTypeOK`, `WorkBounded`, `ReachedIsEntitled`, `AnswersAreTrue`, `EveryRequestEnds` | what reaches the services is paid for and has its path's scopes; truthful answers, the relayed ones included; termination but for three waits |
| `api_keys` | 2 sign-ins, 3 providers, 1 value for emails and user names, 2 requests for API keys, a lifetime of 1 in 3 instants, 1 restart | `ApiKeysTypeOK`, `LookupStillTrue`, `TokensBelong`, `PrimaryKept`, `AnsweredKeysOpen`, `KeysActForTheirOwner` | sign-ins do not collide, accounts are kept, keys work as long as promised, for their owner unless the request brought a user id of its own |
| `worker_sessions` | 1 job, 2 requests, 2 workers with pools of 1, MaxRetries 0, 2 faults of any kind | `SessionsTypeOK`, `RecordedOrLeft`, `OnlyUncaughtLeave`, `ImplementsDelivery` | every conversion that was handed off is recorded, and stays recorded whatever a second request for the job does, or has left its connection behind; only LibreOffice's errors, missing rows and input files that could not be written do that; with the first attempt the last, the dead phase of `JobDelivery` is reached |
| `startup` | 1 upload service, 1 worker, 3 attempts 2 apart, `StartupFairSpec` | `StartupTypeOK`, `StaysRouted`, `PatientWithBroker`, `EveryStartEnds` | starts end, none too early, and declarations outlive restarts of the broker's container |

The `claim_*` runs each end in a counterexample to a statement of the
repository (section 6).

**Why the bounds are enough.** The faults of the pipeline act on one request:
a second delivery of it needs one fault, a third two, and every hand-off is
explored with each; three faults combine two lost connections, and so a buffered
and a processed duplicate at once, with a failure on top. Requests interact only through the row of a job, which two
requests and two workers exercise. `MaxRetries` only counts rounds through the
retry queue, and no copy returns from it (finding 1): with 3 every hand-off is a
retry, with 0 every one is a dead letter. Two overlapping calls suffice to set a timestamp back, and
six instants to empty, refill, overflow and expire a bucket of two tokens.
A request that reaches a service unpaid shows with two requests on a bucket of
one. One connection in the pool is the smallest that one job can
exhaust, and larger pools only delay it. Two requests for API keys are needed
for one to act for the other's user, one value for email and user name makes
accounts that meet (by email) and accounts that do not (email against user name),
and three instants put the expiry before, at and after the use. Three attempts have a first, a middle and a last one; the
broker may boot and restart any number of times between and during them.
What the instances show of the safety properties in section 5 is also proved
without any bound. Named bounds: `MaxFaults`, `MaxTime`, `MaxGiven`,
`MaxRestarts`, and the sets themselves.

**Symmetry** is used in `token_bucket`, `worker_sessions` and
`api_keys`, where workers, requests and sign-ins are interchangeable
and no liveness is checked.

## 4. Fairness

`FairSpec`: weak fairness of each worker's own step (starting, taking a copy,
a step of its loop) and of the expiry of the retry queue. Each call of the
worker is taken to return: LibreOffice has a timeout of 120 s, the calls to
storage and database those of their clients, Ghostscript and pdf2docx none; an
idle consumer is handed what is ready, and the queue's TTL is the broker's.
Nothing is assumed of clients or of faults, and the run admits none: with a
fault for ever repeated nothing would settle. Within a step the outcome is
free: success is never assumed.

`GFairSpec`: weak fairness of each request's step: the event loop resumes a
coroutine that can go on, with an answer of Redis or an error, a database that
answers or raises, a body, or httpx's ten seconds without a byte. Three waits have
no limit in the code, and the model's `Hang`, which may take a request out of
them for ever, has no fairness either: the client of Redis has no socket timeout
(`main.py:63`), nothing limits how long a body may take (`upload_proxy.py:53`,
`:69`), and httpx limits each read of an answer, not their sum
(`upload_proxy.py:9`). `EveryRequestEnds` counts a request in one of these as
hung. Nothing is assumed of the services behind the gateway.

`StartupFairSpec`: weak fairness of the clock and of each service's step: a
sleep ends, a call to the broker is answered or raises. Nothing is assumed of
the broker, which may go and come for ever, or of the operator.

## 5. Proofs

Proved by TLAPS for every value of the constants, from the named assumptions of
the modules (sentinels outside the sets they mark; MAX_RETRIES a natural
number; a pool of at least one connection; at least one attempt to connect, and a
natural pause; natural lifetimes of keys, and wishes that name scopes the service
knows; finitely many requests at the gateway;
`Cost` positive, `Cost <= Window <= Expiry`, that is a capacity of at least one
token and a refill no slower than the expiry):

| Theorem | States | Argument |
|---|---|---|
| `TypeCorrect` | `Spec => []TypeOK` | `TypeInv`: the types are not inductive, since a row gets its conversion type from a message; added is that a worker holds a copy exactly while it works (`HandsOK`: of an accepted request, of a format that fits its place, and the one the broker counts as its own; what it has buffered is of accepted requests too) and that every copy in a queue is of an accepted request (`CopiesOK`) |
| `SingleDelivery` | `Spec => []OneDelivery` | `OwnerInv`: every copy in the main queue, in a hand or in a buffer is a first try (nothing that is dead-lettered comes back) and has one owner |
| `NoRequestForgotten` | `Spec => []NothingForgotten` | `TraceInv`: a request in a hand is not enough, the broker may have given that worker up; every accepted request has a live delivery or a trace that stays (finished, parked, dead-lettered, dropped), and a worker about to acknowledge has left such a trace |
| `ConvertedAreTyped` | `Spec => []ConvertedHasType` | `TypedInv`: a worker past the lookup of a conversion has a row with a conversion type, because `update_records` commits it before the first call to storage and no step takes a type away |
| `DuplicatesPaidFor` | `Spec => []DuplicatesBounded` | `BoundInv`: the bound, with the sets it counts finite. A step moves a copy from a queue or a buffer to a hand or back; only a crash or a lost connection adds one, to a hand or to the buffer of the worker that lost it, and pays for it: a request has one kind of copy only, the first try (`OwnerInv`), so a worker buffers one of it at most. `Copies` numbers the copies of a multiset, so that adding and taking one is a step of one in a cardinality (`CopyAdded`, `CopyTaken`) |
| `PipelineDelivers` | `Spec => ImplementsDelivery` | a step leaves the requests alone that it neither handles nor finds in the buffer of a worker that ends (`OthersUntouched`): their phase stays (`UntouchedPhase`); the phases of the others change only as `JobDelivery` allows (`PhaseSteps`). Needs `TraceInv` before and after, since an accepted request without a trace would have no phase, and `HistoryOK`: what is finished or discarded was accepted |
| `SessionsDeliver` | `SSpec => ImplementsDelivery` | as above; every step of `WorkerSessions` is a step of the pipeline or a lookup the full pool refused (`SessionsAreWide`) |
| `PipelineAmongSessions` | `SSpec => [](OneDelivery /\ NothingForgotten /\ ConvertedHasType /\ DuplicatesBounded)` | the invariants above are kept by `WideNext`, the pipeline's steps and that refusal |
| `SessionsTypeCorrect` | `SSpec => []SessionsTypeOK` | part of `SessionInv` |
| `FailuresRecorded` | `SSpec => []RecordedOrLeft` | `SessionOK`: a worker's session is in its transaction exactly between the lookup and `update_status`, and a conversion about to be handed off has recorded its failure, or is in its transaction, or had no answer. `RowSettles`: no other request takes the record back |
| `CaughtErrorsLeaveNothing` | `SSpec => []OnlyUncaughtLeave` | the last conjunct of `SessionOK` |
| `BucketTypeCorrect` | `TBSpec => []TBTypeOK` | part of `BucketInv` |
| `AdmissionsBounded` | `TBSpec => []BurstBound` | `BucketInv` = types, `Past` (no time read or stored lies in the future, a hash expires no sooner than the bucket is full) and `Slack`: what was spent, plus what a fresh request would find in the hash, is within the bound, or there is room for a full bucket; stated of the saved hash as well, with what a restart forgets taken off |
| `PacedClientsAdmitted` | `TBSpec => PacedNeverRefused` | the stored timestamp is never later than the latest time an admitted request read |
| `NeverStricterThanIdeal` | `TBSpec => NeverStricter` | `IdealInv`: the hash, and the saved one, are never further from full than the ideal bucket (`Ahead`); an admission postpones the ideal bucket's being full by one token at most |
| `GatewayTypeCorrect` | `GSpec => []GTypeOK` | part of `GatewayInv`, which adds to `BucketInv` what a request has and has not done at its place (`PlacesOK`): sent to no service before its route runs, not answered twice, past the second middleware only when entitled or on a public path |
| `OnlyEntitledRequestsForwarded` | `GSpec => []ReachedIsEntitled` | `PlacesOK`, and that what `Resolve` accepts has the scopes of the rule its path matches. Nothing is said of handlers: section 6 |
| `AnswersTellTheTruth` | `GSpec => []AnswersAreTrue` | `AnswersAreTrue` is inductive together with `PlacesOK`: a relayed 4xx is a refusal or an unknown path, and nothing a service has done is taken back |
| `ServicesProtected` | `GSpec => []WorkBounded` | `PaidFor`: the requests past the limiter or at a service are at most the admissions of the window that opened at the start, which `BurstBound` bounds. A request pays once because it leaves the limiter once |
| `GatewayImplementsBucket` | `GSpec => TBSpec` | every step of the request path is one of the bucket or leaves it alone (`BucketStep`) |
| `GatewayLimits` | `GSpec => []BurstBound /\ PacedNeverRefused /\ NeverStricter` | the refinement, and the theorems of the bucket |
| `LookupsStayTrue` | `ASpec => []LookupStillTrue` | `KeepsLoop`: only the callback that keeps the loop is between lookup and answer |
| `TokensBelongToTheirUser` | `ASpec => []TokensBelong` | users are never removed, and keep id, key and column |
| `PrimariesKept` | `ASpec => PrimaryKept` | an action property from `AccountInv`: an update replaces the row it found, with the same id, key and primary |
| `KeysImplementAccounts` | `KSpec => ASpec` | seen from the accounts, gateway and API key service only let time pass (`KeysLeaveAccounts`) |
| `AccountsAmongKeys` | `KSpec => [](LookupStillTrue /\ TokensBelong) /\ PrimaryKept` | the refinement, and the theorems about sign-in |
| `KeysTypeCorrect` | `KSpec => []ApiKeysTypeOK` | part of `KeyInv` |
| `AnsweredKeysStayOpen` | `KSpec => []AnsweredKeysOpen` | `KeyInv`: a key is told only after it was stored, and what is stored expires no sooner than promised (`StoredOK`); its user still exists (`TokensBelong`, and no sign-in removes one) |
| `KeysActForOwners` | `KSpec => []KeysActForTheirOwner` | `RequestOK`: from the check of the access token on, the user a coroutine carries is that of a refresh token of the client who asked; `RowOK`: the row has these scopes and this expiry, and this user if the request had no user id header of its own |
| `StartTypeCorrect` | `StartupSpec => []StartupTypeOK` | part of `StartInv`: a service that connects has an attempt left, one that declares has something left to declare |
| `TopologyStays` | `StartupSpec => []StaysRouted` | `StartInv`: what a service in the middle of its list has declared exists, so a worker at the end of it has made the whole list exist, and no restart takes it back |
| `NoEarlyEnd` | `StartupSpec => PatientWithBroker` | `WaitInv`: a service at its n-th attempt is at least n pauses old, and if its call in progress is bound to fail although the broker is reachable, the broker came up no earlier than that |

The inductive invariants were model-checked on the instances of section 3 before
they were proved.

Every safety invariant, action property and refinement of the passing runs is
proved. Only model-checked is liveness: `EverySettles`, `DocxReachesTerminal`,
`EveryRequestEnds` and `EveryStartEnds`. It rests on weak fairness, and so on
ENABLED, which is out of the prover's reach. The counterexamples of the `claim_*`
runs are TLC's.

## 6. What the code does not keep

Five statements of the repository have a run that ends in a counterexample:

1. A retry copy expires into the exchange "main_queue", which does not exist, and is dropped: nothing is ever retried (`RetryCopiesKept`).
2. A job published before the first worker has declared its queue is dropped, and the client told it was queued (`AcceptedIsQueued`).
3. A conversion whose output was saved is marked failed, because `_update_output_url` is missing (`SavedIsCompleted`).
4. The limiter runs before authentication, so the plan of a user never applies (`PlanLimitsApply`).
5. The download proxy has the pattern of the upload proxy, which is included first: a download is forwarded to the upload service and ends in 404 (`DownloadsHandled`).

The rest is in the models as the code has it, at the definition named:

- `StoreConverted`, `DownloadService`: for want of `output_url` nothing that was saved can be downloaded.
- `OnConverterError`: an error of LibreOffice leaves the job `processing`; the job also leaves its connection to the garbage collector (`RecordedOrLeft`, `OnlyUncaughtLeave`); a failed pdf-to-docx job does neither while the database answers and the disk takes its input.
- `AfterDispatch`: every merge fails; its message has no `user_id`, and `merge_pdf` is called with one argument too many.
- `OnError`, `StoreCompressed`: compression records no state in the row.
- `LimiterAnswers`: a refusal is returned and never sent, so the client gets 500 and not 439.
- `Hang`: Redis, a request's body and a trickling answer may keep a request waiting for ever.
- `Required`, `Target`: `src/README.md:25` names scope-based access, but a scope belongs to the prefix of a path. `proxy_upload` forwards any suffix, so `/v1/upload/upload/presigned` reaches the presigned handler without matching the rule of `/v1/upload/presigned`. `ReachedIsEntitled` is about the rules of paths, and true; scopes of handlers are not kept.
- `Named`: the proxies add User-Id to the client's headers and remove none of that name, so a client's own is read first. A key then acts for the user the client named. `KeysActForTheirOwner` holds for the requests without such a header; the upload service reads the same header for the owner of a job, which the models leave out.
- `Fetch`: an error of the temporary directory or of the input file passes every handler by, in every conversion: the job stays `processing` and its connection goes to the garbage collector (`OnlyUncaughtLeave`).
- `Resolve`: a missing header and an invalid token end in a 500 and not in a 401, as does an admin path for another role.
- `AnswerHere`: resending a verification mail is public and asks for the user no public request has.

The invariants of the passing runs hold with all of this in the model.

## 7. Assumptions, and what is not modelled

- LibreOffice (`soffice`) and Ghostscript are installed in the worker's image; the constructor of `Conversion` raises without the first.
- The gateway and Redis share one clock (one host), and one gateway process runs, as in `docker-compose.yml`. The gateway and the API key service share one too: what a difference of their clocks does to an expiry is not modelled.
- The client of Redis sends an `evalsha` once. One whose connection is lost was run before the gateway notices, or never.
- The database answers or raises: its client waits at most the time of its pool and of its connection.
- A restart of Redis falls back to the last synchronised state of its append-only file.
- A database commit is atomic. `update_records` may fail before its commit or after it, on reading the row back (`Lookup`), and so may the creation of a key (`Create`, `Reply`); of the other commits one that raised wrote nothing.
- Local accounts (`AuthService`) are not modelled: the constructor calls `EmailService()` without its session and raises, so no operation runs. Email verification is unreachable for the same reason: no token is created, so the three commits of a verification (`service.py:667`) never run. Resending is a path of `Gateway`.
- The download service signs a link and keeps it in the row only when `output_url` is set, which no code does: only its choice of the bucket is modelled.
- A user id header a client sends names an existing user: `api_key.user_id` is a foreign key, and another value stores nothing. Access tokens and API keys are not forged, users are neither deleted nor deactivated, and keys not revoked: no code does any of it.
- When the interpreter collects a session is left open (`CollectGarbage`), down to never. The sessions of the web services are closed by `get_db` and are not modelled.
- A restart of the broker while jobs are processed is, for each request, one lost connection (`Disconnect`) or a failing publish: queues are durable and messages persistent. `docker-compose.yml:135` gives RabbitMQ no volume: a restart is one of the same container, and a container created anew, which has lost its queues and their messages, is not modelled. A start request made while the broker is away is answered with an error and not accepted.
- The files of the status service are empty.

## 8. Plan

Done in order: broker, stores, upload service, worker and their composition
with its abstract specification; the token bucket; the request path of the
gateway with its routes; OAuth sign-in; theorems for each; API keys; the
sessions of the workers; the start of the services; the comparison of the token
bucket with an ideal one. Then proved, in order: the
pipeline's remaining invariants and its refinement of `JobDelivery`, the
properties of the sessions, those of the API keys, the patience of the services,
and that the gateway implements its bucket. Last, with the proofs taken along:
buffered copies of a lost connection, errors of the local disk, answers relayed
from the services, waits without a limit, scope rules found by path, and user id
headers of the client's own.

Left:

1. Liveness is checked on small instances only. Its safety half can go further: that a step enabled for a worker stays enabled until it is taken (what weak fairness of `WorkerStep` rests on), as an action property with a proof.
2. Local accounts and email verification, should the constructor of `AuthService` ever be repaired: today no operation of them runs.
3. The update of `output_url`, once `_update_output_url` exists: the row and the bucket then have a second pair of writes that a crash can separate, and the download service a state worth modelling.
