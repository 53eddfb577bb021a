--------------------------- MODULE TokenBucketProofs ---------------------------
(***************************************************************************)
(* Proofs about TokenBucket, for every capacity, refill rate, number of    *)
(* requests and length of a run.                                           *)
(***************************************************************************)
EXTENDS TokenBucket, TLAPS

(***************************************************************************)
(* A stored hash carries a time that was read in the past, and it expires  *)
(* no sooner than a full window after that time.                           *)
(***************************************************************************)
HashOK(h) == h.live => /\ h.stamp <= clock
                       /\ h.stamp <= latest
                       /\ h.stamp + Window <= h.expires

Past ==
    /\ \A r \in Requests : asked[r] <= clock
    /\ since <= clock
    /\ unsaved <= spent
    /\ HashOK(key)
    /\ HashOK(saved)

(***************************************************************************)
(* The spending s together with the tokens a fresh request would find in h *)
(* stays within the bound; or s leaves room for a full bucket, which is    *)
(* what a missing or expired hash, and a window with no admission, amount  *)
(* to.                                                                     *)
(***************************************************************************)
Covered(h, s) ==
    \/ h.live /\ s + h.level + (clock - h.stamp) <= Window + (clock - since) + given
    \/ s <= (clock - since) + given

Slack == Covered(key, spent) /\ Covered(saved, spent - unsaved)

BucketInv == TBTypeOK /\ Past /\ Slack

-------------------------------------------------------------------------------

LEMMA InitBucket == TBInit => BucketInv
BY BucketAssumption
DEF TBInit, BucketInv, TBTypeOK, Past, HashOK, Slack, Covered, NoHash, Hash

(***************************************************************************)
(* What the script finds for a request that read its clock in the past.    *)
(***************************************************************************)
LEMMA CreditBounds ==
    ASSUME BucketInv, NEW r \in Requests
    PROVE  /\ Credit(asked[r]) \in 0..Window
           /\ ~Stored => Credit(asked[r]) = Window
           /\ Stored /\ key.stamp <= asked[r]
                => Credit(asked[r]) <= key.level + (asked[r] - key.stamp)
           /\ Stored /\ key.stamp > asked[r] => Credit(asked[r]) = key.level
BY BucketAssumption
DEF BucketInv, TBTypeOK, Hash, Credit, Stored, Smaller, Larger

(***************************************************************************)
(* An admission keeps the accounts: it spends Cost, leaves that much less  *)
(* in the bucket, and gives away no more than its own delay.               *)
(***************************************************************************)
LEMMA AdmitStep ==
    ASSUME BucketInv, NEW r \in Requests, Admit(r)
    PROVE  BucketInv'
<1> DEFINE now == asked[r]
           c == Credit(now)
<1>1. /\ c \in 0..Window /\ c >= Cost
      /\ ~Stored => c = Window
      /\ Stored /\ key.stamp <= now => c <= key.level + (now - key.stamp)
      /\ Stored /\ key.stamp > now => c = key.level
  BY CreditBounds DEF Admit
<1>2. /\ key' = [live |-> TRUE, level |-> c - Cost, stamp |-> now, expires |-> clock + Expiry]
      /\ spent' = spent + Cost /\ unsaved' = unsaved + Cost
      /\ given' = given + (clock - now)
      /\ latest' = Larger(latest, now)
      /\ owed' = Debited
      /\ waiting' = waiting \ {r} /\ asked' = [asked EXCEPT ![r] = 0]
      /\ UNCHANGED <<clock, saved, loaded, since>>
  BY DEF Admit, Answered
<1>3. now \in Nat /\ clock \in Nat /\ now <= clock
  BY DEF BucketInv, TBTypeOK, Past
<1> HIDE DEF now, c
<1>4. TBTypeOK'
  <2>1. Debited \in Nat
    BY <1>3, BucketAssumption DEF BucketInv, TBTypeOK, Debited, Smaller, Larger
  <2>2. Larger(latest, now) \in Nat
    BY <1>3 DEF BucketInv, TBTypeOK, Larger
  <2> QED
    BY <1>1, <1>2, <1>3, <2>1, <2>2, BucketAssumption DEF BucketInv, TBTypeOK, Hash
<1>5. Past'
  <2>1. HashOK(key)'
    BY <1>2, <1>3, BucketAssumption DEF BucketInv, TBTypeOK, HashOK, Larger
  <2>2. HashOK(saved)'
    BY <1>2, <1>3 DEF BucketInv, TBTypeOK, Hash, Past, HashOK, Larger
  <2>3. \A q \in Requests : asked'[q] <= clock'
    BY <1>2, <1>3 DEF BucketInv, TBTypeOK, Past
  <2>4. since' <= clock' /\ unsaved' <= spent'
    BY <1>2, BucketAssumption DEF BucketInv, TBTypeOK, Past
  <2> QED
    BY <2>1, <2>2, <2>3, <2>4 DEF Past
<1>6. Covered(key, spent)'
  <2>1. spent + c <= Window + (clock - since) + given
    <3>1. CASE spent <= (clock - since) + given
      BY <1>1, <1>3, <3>1, BucketAssumption DEF BucketInv, TBTypeOK
    <3>2. CASE /\ key.live
               /\ spent + key.level + (clock - key.stamp) <= Window + (clock - since) + given
      <4>1. /\ key.level \in Nat /\ key.stamp \in Nat /\ key.expires \in Nat
            /\ key.stamp <= clock /\ key.stamp + Window <= key.expires
        BY <3>2 DEF BucketInv, TBTypeOK, Hash, Past, HashOK
      <4>2. CASE ~Stored
        BY <1>1, <1>3, <3>2, <4>1, <4>2, BucketAssumption DEF BucketInv, TBTypeOK, Stored
      <4>3. CASE Stored
        BY <1>1, <1>3, <3>2, <4>1, <4>3, BucketAssumption DEF BucketInv, TBTypeOK
      <4> QED
        BY <4>2, <4>3
    <3> QED
      BY <3>1, <3>2 DEF BucketInv, Slack, Covered
  <2>2. spent' + key'.level + (clock' - key'.stamp) <= Window + (clock' - since') + given'
    BY <1>1, <1>2, <1>3, <2>1, BucketAssumption DEF BucketInv, TBTypeOK
  <2> QED
    BY <1>2, <2>2 DEF Covered
<1>7. Covered(saved, spent - unsaved)'
  BY <1>2, <1>3, BucketAssumption DEF BucketInv, TBTypeOK, Hash, Slack, Covered
<1> QED
  BY <1>4, <1>5, <1>6, <1>7 DEF BucketInv, Slack

LEMMA StepBucket == BucketInv /\ [TBNext]_tbVars => BucketInv'
<1> SUFFICES ASSUME BucketInv, [TBNext]_tbVars
             PROVE  BucketInv'
  OBVIOUS
<1> USE BucketAssumption
<1> USE DEF BucketInv, TBTypeOK, Past, HashOK, Slack, Covered, Hash
<1>1. CASE Tick
  BY <1>1 DEF Tick, windowVars
<1>2. CASE Synchronise
  BY <1>2 DEF Synchronise
<1>3. CASE RestartRedis
  <2>1. /\ key' = saved /\ loaded' = FALSE
        /\ given' = given + unsaved /\ unsaved' = 0
        /\ UNCHANGED <<clock, waiting, asked, saved, since, spent, latest, owed>>
    BY <1>3 DEF RestartRedis
  <2>2. TBTypeOK'
    <3>1. key' \in Hash /\ saved' \in Hash
      BY <2>1
    <3>2. loaded' \in BOOLEAN
      BY <2>1
    <3> QED
      BY <2>1, <3>1, <3>2
  <2>3. Past'
    BY <2>1
  <2>4. Covered(saved, spent)'
    BY <2>1
  <2>5. Slack'
    BY <2>1, <2>4
  <2> QED
    BY <2>2, <2>3, <2>5
<1>4. CASE StartGateway
  BY <1>4 DEF StartGateway, windowVars
<1>5. CASE OpenWindow
  BY <1>5 DEF OpenWindow, bucketVars
<1>6. ASSUME NEW r \in Requests, Capture(r) PROVE BucketInv'
  BY <1>6 DEF Capture, windowVars
<1>7. ASSUME NEW r \in Requests, Admit(r) PROVE BucketInv'
  BY <1>7, AdmitStep
<1>8. ASSUME NEW r \in Requests, Refuse(r) \/ ScriptMissing(r) \/ CallLost(r)
      PROVE  BucketInv'
  BY <1>8 DEF Refuse, ScriptMissing, CallLost, Answered, windowVars
<1>9. CASE UNCHANGED tbVars
  BY <1>9 DEF tbVars, bucketVars, windowVars
<1> QED
  BY <1>1, <1>2, <1>3, <1>4, <1>5, <1>6, <1>7, <1>8, <1>9 DEF TBNext

LEMMA BucketInvariant == TBSpec => []BucketInv
<1>1. TBInit => BucketInv
  BY InitBucket
<1>2. BucketInv /\ [TBNext]_tbVars => BucketInv'
  BY StepBucket
<1> QED
  BY <1>1, <1>2, PTL DEF TBSpec

(***************************************************************************)
(* The types of the bucket and its history: in particular the script never *)
(* stores more than the capacity, nor a negative number of tokens.         *)
(***************************************************************************)
THEOREM BucketTypeCorrect == TBSpec => []TBTypeOK
<1>1. BucketInv => TBTypeOK
  BY DEF BucketInv
<1> QED
  BY <1>1, BucketInvariant, PTL

(***************************************************************************)
(* In every window of time, the limiter admits at most the capacity, the   *)
(* refill of the window and what delays and restarts gave away.            *)
(***************************************************************************)
THEOREM AdmissionsBounded == TBSpec => []BurstBound
<1>1. BucketInv => BurstBound
  BY BucketAssumption
  DEF BucketInv, TBTypeOK, Hash, Past, HashOK, Slack, Covered, BurstBound
<1> QED
  BY <1>1, BucketInvariant, PTL

(***************************************************************************)
(* Waiting the refill time of one token is always enough to be admitted.   *)
(***************************************************************************)
THEOREM PacedClientsAdmitted == TBSpec => PacedNeverRefused
<1>1. BucketInv /\ [TBNext]_tbVars
        => [\A r \in Requests : Refuse(r) => asked[r] < latest + Cost]_tbVars
  <2> SUFFICES ASSUME BucketInv, NEW r \in Requests, Refuse(r)
               PROVE  asked[r] < latest + Cost
    OBVIOUS
  <2> QED
    BY BucketAssumption
    DEF Refuse, Credit, Stored, Smaller, Larger, BucketInv, TBTypeOK, Hash, Past, HashOK
<1> QED
  BY <1>1, BucketInvariant, PTL DEF TBSpec, PacedNeverRefused

-------------------------------------------------------------------------------
(* Against the ideal bucket                                                *)

(***************************************************************************)
(* A hash is full again no later than the ideal bucket, and the ideal      *)
(* bucket is never below empty.                                            *)
(***************************************************************************)
Ahead(h) == h.live => h.stamp + Window - h.level <= owed

IdealInv == owed <= clock + Window /\ Ahead(key) /\ Ahead(saved)

(***************************************************************************)
(* Debiting postpones the instant at which the ideal bucket is full.       *)
(***************************************************************************)
LEMMA DebitPostpones ==
    ASSUME BucketInv, IdealInv
    PROVE  /\ Debited \in Nat /\ owed <= Debited /\ Debited <= clock + Window
           /\ \A t \in Nat : t <= clock + Window - Cost /\ (t <= clock \/ t <= owed)
                => t + Cost <= Debited
BY BucketAssumption DEF BucketInv, TBTypeOK, IdealInv, Debited, Smaller, Larger

LEMMA StepIdeal == BucketInv /\ IdealInv /\ [TBNext]_tbVars => IdealInv'
<1> SUFFICES ASSUME BucketInv, IdealInv, [TBNext]_tbVars
             PROVE  IdealInv'
  OBVIOUS
<1>1. CASE Tick
  BY <1>1, BucketAssumption DEF Tick, windowVars, IdealInv, Ahead, BucketInv, TBTypeOK
<1>2. CASE Synchronise \/ RestartRedis \/ StartGateway \/ OpenWindow \/ UNCHANGED tbVars
  BY <1>2 DEF Synchronise, RestartRedis, StartGateway, OpenWindow, tbVars, bucketVars,
              windowVars, IdealInv, Ahead
<1>3. ASSUME NEW r \in Requests, Capture(r) \/ Refuse(r) \/ ScriptMissing(r) \/ CallLost(r)
      PROVE  IdealInv'
  BY <1>3 DEF Capture, Refuse, ScriptMissing, CallLost, windowVars, IdealInv, Ahead
<1>4. ASSUME NEW r \in Requests, Admit(r)
      PROVE  IdealInv'
  <2> DEFINE now == asked[r]
             c == Credit(now)
  <2>1. /\ c \in 0..Window /\ c >= Cost /\ now \in Nat /\ now <= clock
        /\ ~Stored => c = Window
    BY <1>4, CreditBounds DEF Admit, BucketInv, TBTypeOK, Past
  <2>2. /\ key' = [live |-> TRUE, level |-> c - Cost, stamp |-> now, expires |-> clock + Expiry]
        /\ owed' = Debited /\ clock' = clock /\ saved' = saved
    BY <1>4 DEF Admit
  <2>3. now + Window - c <= clock \/ now + Window - c <= owed
    <3>1. CASE ~Stored
      BY <2>1, <3>1, BucketAssumption DEF BucketInv, TBTypeOK
    <3>2. CASE Stored
      BY <2>1, <3>2, BucketAssumption
      DEF Credit, Stored, Smaller, Larger, IdealInv, Ahead, BucketInv, TBTypeOK, Hash
    <3> QED
      BY <3>1, <3>2
  <2> HIDE DEF now, c
  <2>4. now + Window - c \in Nat /\ now + Window - c <= clock + Window - Cost
    BY <2>1, BucketAssumption DEF BucketInv, TBTypeOK
  <2>5. /\ owed <= Debited /\ Debited <= clock + Window
        /\ (now + Window - c) + Cost <= Debited
    BY <2>3, <2>4, DebitPostpones
  <2>6. Ahead(key)'
    BY <2>1, <2>2, <2>5, BucketAssumption DEF Ahead
  <2>7. Ahead(saved)'
    BY <2>2, <2>5, DebitPostpones, BucketAssumption
    DEF IdealInv, Ahead, BucketInv, TBTypeOK, Hash
  <2> QED
    BY <2>2, <2>5, <2>6, <2>7 DEF IdealInv
<1> QED
  BY <1>1, <1>2, <1>3, <1>4 DEF TBNext

(***************************************************************************)
(* The limiter never refuses what an ideal bucket would admit: neither     *)
(* overtaking requests, nor expiry, nor a restart of Redis ever costs a    *)
(* client a token.                                                         *)
(***************************************************************************)
THEOREM NeverStricterThanIdeal == TBSpec => NeverStricter
<1>1. TBInit => IdealInv
  BY BucketAssumption DEF TBInit, IdealInv, Ahead, NoHash
<1>2. BucketInv /\ IdealInv /\ [TBNext]_tbVars
        => [\A r \in Requests : Refuse(r) => Ideal(asked[r]) < Cost]_tbVars
  <2> SUFFICES ASSUME BucketInv, IdealInv, NEW r \in Requests, Refuse(r)
               PROVE  Ideal(asked[r]) < Cost
    OBVIOUS
  <2>1. asked[r] \in Nat /\ owed \in Nat /\ Credit(asked[r]) < Cost
    BY DEF Refuse, BucketInv, TBTypeOK
  <2>2. Stored
    BY <2>1, CreditBounds, BucketAssumption
  <2> QED
    BY <2>1, <2>2, BucketAssumption
    DEF Credit, Stored, Smaller, Larger, Ideal, IdealInv, Ahead, BucketInv, TBTypeOK, Hash
<1> QED
  BY <1>1, <1>2, StepIdeal, BucketInvariant, PTL DEF TBSpec, NeverStricter
===============================================================================
