------------------------------ MODULE TokenBucket ------------------------------
(***************************************************************************)
(* One token bucket of the gateway's rate limiter: TokenBucketEngine.allow *)
(* reads the clock, then awaits a Lua script that Redis runs atomically.   *)
(* Between the two, other requests run, other gateway coroutines reach     *)
(* Redis first, and Redis may restart.                                     *)
(*                                                                         *)
(* Tokens are counted in units of the time one takes to refill: a token is *)
(* worth Cost = 1 / refill_rate, a full bucket Window = capacity /         *)
(* refill_rate (3600 seconds in every configuration of the gateway).       *)
(*                                                                         *)
(* Redis keeps an append-only file that is synchronised now and then: a    *)
(* restart falls back to the bucket of the last synchronisation and drops  *)
(* the script that only the gateway's lifespan loads.                      *)
(***************************************************************************)
EXTENDS Integers

CONSTANTS
    Requests,  \* coroutines of the gateway that use the bucket
    Cost,      \* time to refill one token
    Window,    \* time to refill the whole bucket
    Expiry,    \* EXPIRE argument of the script
    MaxTime,   \* last instant considered (bounds the run)
    MaxGiven   \* no restart takes `given` beyond this (bounds the run)

ASSUME BucketAssumption ==
    /\ Cost \in Nat \ {0} /\ Window \in Nat /\ Expiry \in Nat
    /\ MaxTime \in Nat /\ MaxGiven \in Nat
    /\ Cost <= Window       \* capacity >= 1
    /\ Window <= Expiry     \* capacity / refill_rate <= 3600

VARIABLES
    clock,    \* time.time() of the gateway and of Redis (one host)
    waiting,  \* requests awaiting evalsha
    asked,    \* [request -> the time it read before awaiting]
    key,      \* the hash at rate:<identifier>: [live, level, stamp, expires]
    saved,    \* the same hash in the synchronised append-only file
    loaded    \* Redis knows the script

(***************************************************************************)
(* History of an observation window that opens at an arbitrary instant.    *)
(***************************************************************************)
VARIABLES
    since,    \* when the window opened
    spent,    \* Cost of every admission since
    unsaved,  \* the part of `spent` a restart of Redis would forget
    given,    \* what the bucket gave away since: the time admitted requests
              \* waited between clock and script, and what restarts forgot
    latest,   \* greatest time an admitted request ever read
    owed      \* when an ideal bucket that every admission debits at the instant
              \* it is made will be full again

bucketVars == <<clock, waiting, asked, key, saved, loaded>>
windowVars == <<since, spent, unsaved, given, latest, owed>>
tbVars == <<bucketVars, windowVars>>

Hash == [live: BOOLEAN, level: 0..Window, stamp: Nat, expires: Nat]

NoHash == [live |-> FALSE, level |-> 0, stamp |-> 0, expires |-> 0]

TBInit ==
    /\ clock = 0 /\ waiting = {} /\ asked = [r \in Requests |-> 0]
    /\ key = NoHash /\ saved = NoHash /\ loaded = TRUE
    /\ since = 0 /\ spent = 0 /\ unsaved = 0 /\ given = 0 /\ latest = 0 /\ owed = 0

Tick ==
    /\ clock < MaxTime
    /\ clock' = clock + 1
    /\ UNCHANGED <<waiting, asked, key, saved, loaded, windowVars>>

\* now = time.time(), then the coroutine awaits evalsha.
Capture(r) ==
    /\ r \notin waiting
    /\ waiting' = waiting \cup {r}
    /\ asked' = [asked EXCEPT ![r] = clock]
    /\ UNCHANGED <<clock, key, saved, loaded, windowVars>>

-------------------------------------------------------------------------------
(* The script                                                              *)

Stored == key.live /\ clock < key.expires

Larger(a, b) == IF a < b THEN b ELSE a
Smaller(a, b) == IF a < b THEN a ELSE b

\* Mutation: the refill is not capped.
UncappedCredit(now) == IF Stored THEN key.level + Larger(0, now - key.stamp) ELSE Window

\* Mutation: the refill is computed and not added.
CreditUnrefilled(now) == IF Stored THEN key.level ELSE Window

\* The tokens the script finds: a missing hash is a full bucket, a clock
\* behind the stored timestamp refills nothing.
Credit(now) ==
    IF Stored THEN Smaller(Window, key.level + Larger(0, now - key.stamp)) ELSE Window

\* The ideal bucket is never below empty.
Debited == Smaller(Larger(owed, clock) + Cost, clock + Window)

Answered(r) ==
    /\ r \in waiting
    /\ waiting' = waiting \ {r}
    /\ asked' = [asked EXCEPT ![r] = 0]

\* Mutation: HMSET keeps the old timestamp of a bucket that exists.
AdmitUnstamped(r) ==
    LET now == asked[r] IN
    /\ Answered(r)
    /\ loaded
    /\ Credit(now) >= Cost
    /\ key' = [live |-> TRUE, level |-> Credit(now) - Cost,
               stamp |-> IF Stored THEN key.stamp ELSE now, expires |-> clock + Expiry]
    /\ spent' = spent + Cost
    /\ unsaved' = unsaved + Cost
    /\ given' = given + (clock - now)
    /\ latest' = Larger(latest, now)
    /\ owed' = Debited
    /\ UNCHANGED <<clock, saved, loaded, since>>

\* Mutation: the hash is stamped with the clock of Redis.
AdmitStampedLate(r) ==
    LET now == asked[r] IN
    /\ Answered(r)
    /\ loaded
    /\ Credit(now) >= Cost
    /\ key' = [live |-> TRUE, level |-> Credit(now) - Cost,
               stamp |-> clock, expires |-> clock + Expiry]
    /\ spent' = spent + Cost
    /\ unsaved' = unsaved + Cost
    /\ given' = given + (clock - now)
    /\ latest' = Larger(latest, now)
    /\ owed' = Debited
    /\ UNCHANGED <<clock, saved, loaded, since>>

Admit(r) ==
    LET now == asked[r] IN
    /\ Answered(r)
    /\ loaded
    /\ Credit(now) >= Cost
    /\ key' = [live |-> TRUE, level |-> Credit(now) - Cost,
               stamp |-> now, expires |-> clock + Expiry]
    /\ spent' = spent + Cost
    /\ unsaved' = unsaved + Cost
    /\ given' = given + (clock - now)
    /\ latest' = Larger(latest, now)
    /\ owed' = Debited
    /\ UNCHANGED <<clock, saved, loaded, since>>

\* A refusal writes nothing.
Refuse(r) ==
    /\ Answered(r)
    /\ loaded
    /\ Credit(asked[r]) < Cost
    /\ UNCHANGED <<clock, key, saved, loaded, windowVars>>

\* NOSCRIPT: evalsha raises in the middleware.
ScriptMissing(r) ==
    /\ Answered(r)
    /\ ~loaded
    /\ UNCHANGED <<clock, key, saved, loaded, windowVars>>

\* The connection is lost and the script has not run: evalsha raises.
CallLost(r) ==
    /\ Answered(r)
    /\ UNCHANGED <<clock, key, saved, loaded, windowVars>>

-------------------------------------------------------------------------------
(* Redis and the gateway's lifespan                                        *)

Synchronise ==
    /\ saved' = key
    /\ unsaved' = 0
    /\ UNCHANGED <<clock, waiting, asked, key, loaded, since, spent, given, latest, owed>>

\* The calls in flight fail later, when they find no script.
RestartRedis ==
    /\ given + unsaved <= MaxGiven
    /\ key' = saved
    /\ loaded' = FALSE
    /\ given' = given + unsaved
    /\ unsaved' = 0
    /\ UNCHANGED <<clock, waiting, asked, saved, since, spent, latest, owed>>

\* A gateway process starts: script_load.  Its predecessor's calls are gone.
StartGateway ==
    /\ loaded' = TRUE
    /\ waiting' = {}
    /\ asked' = [r \in Requests |-> 0]
    /\ UNCHANGED <<clock, key, saved, windowVars>>

OpenWindow ==
    /\ since' = clock
    /\ spent' = 0 /\ unsaved' = 0 /\ given' = 0
    /\ UNCHANGED <<bucketVars, latest, owed>>

TBNext ==
    \/ Tick \/ Synchronise \/ RestartRedis \/ StartGateway \/ OpenWindow
    \/ \E r \in Requests :
          Capture(r) \/ Admit(r) \/ Refuse(r) \/ ScriptMissing(r) \/ CallLost(r)

TBSpec == TBInit /\ [][TBNext]_tbVars

-------------------------------------------------------------------------------

TBTypeOK ==
    /\ clock \in Nat /\ waiting \subseteq Requests /\ asked \in [Requests -> Nat]
    /\ key \in Hash /\ saved \in Hash /\ loaded \in BOOLEAN
    /\ since \in Nat /\ spent \in Nat /\ unsaved \in Nat
    /\ given \in Nat /\ latest \in Nat /\ owed \in Nat

(***************************************************************************)
(* In any window of time the bucket admits no more than its capacity and   *)
(* the refill of the window, plus what the code gives away: the time its   *)
(* admitted requests spent between reading the clock and running the       *)
(* script, and the admissions Redis forgot in a restart.  Requests that    *)
(* overtake each other set the timestamp back and are refilled twice; the  *)
(* key expires no sooner than the bucket is full.  (allow and the script.) *)
(***************************************************************************)
BurstBound == spent <= Window + (clock - since) + given

(***************************************************************************)
(* A client that waits the refill time of a token after every admission is *)
(* never refused, however many of its requests were refused in between.    *)
(***************************************************************************)
PacedNeverRefused ==
    [][\A r \in Requests : Refuse(r) => asked[r] < latest + Cost]_tbVars

(***************************************************************************)
(* The limiter is never stricter than an ideal bucket: a request is        *)
(* refused only if a bucket of the same capacity and refill, debited by    *)
(* every admission without delay and forgotten by no restart, would have   *)
(* held less than a token at the time the request read.  (A stale clock, a *)
(* refill lost with the timestamp, or an expiry that empties the bucket    *)
(* would refuse a client that has done nothing wrong.)                     *)
(***************************************************************************)
Ideal(now) == Window - Larger(0, owed - now)

NeverStricter ==
    [][\A r \in Requests : Refuse(r) => Ideal(asked[r]) < Cost]_tbVars
===============================================================================
