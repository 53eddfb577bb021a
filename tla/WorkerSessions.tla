----------------------------- MODULE WorkerSessions -----------------------------
(***************************************************************************)
(* The database sessions of the conversion workers: process_job opens a    *)
(* session for every job and nothing closes it.  A session holds one of    *)
(* the connections of the worker's pool while its transaction is open:     *)
(* from get_by_job_id on, and, because update_records reads the row back   *)
(* after its commit, through the whole conversion, until update_status     *)
(* commits.  A job that ends in between leaves its connection to the       *)
(* garbage collector; when none is left in the pool, get_by_job_id waits   *)
(* and gives up.                                                           *)
(*                                                                         *)
(* Each action is one of ConversionWorker's together with what it does to  *)
(* the session.                                                            *)
(***************************************************************************)
EXTENDS Pipeline

CONSTANT PoolLimit  \* pool_size + max_overflow, 15 by default

ASSUME PoolAssumption == PoolLimit \in Nat \ {0}

VARIABLES
    open,      \* [worker -> the session of the job in hand is in a transaction]
    kept,      \* [worker -> connections of former sessions, not yet collected]
    left,      \* requests a session of which was left in its transaction
    refused,   \* requests the database failed, or the pool had no connection for
    unwritten  \* requests whose input the worker could not write to its disk

sessionVars == <<open, kept, left, refused, unwritten>>
sVars == <<vars, sessionVars>>

SInit ==
    /\ Init
    /\ open = [w \in Workers |-> FALSE]
    /\ kept = [w \in Workers |-> 0]
    /\ left = {}
    /\ refused = {}
    /\ unwritten = {}

InTransaction(w, b) == open' = [open EXCEPT ![w] = b]

\* A database error may leave the session in a transaction or not.
Refused(w) ==
    /\ refused' = refused \cup {Start(w)}
    /\ \E b \in BOOLEAN : InTransaction(w, b)

\* Mutation: the pool opens as many connections as it is asked for.
LookupUnlimited(w) ==
    /\ Lookup(w)
    /\ \/ faults' = faults /\ InTransaction(w, TRUE) /\ UNCHANGED refused
       \/ faults' # faults /\ Refused(w)
    /\ UNCHANGED <<kept, left, unwritten>>

LookupInSession(w) ==
    /\ Lookup(w)
    /\ kept[w] < PoolLimit
    /\ \/ faults' = faults /\ InTransaction(w, TRUE) /\ UNCHANGED refused
       \/ faults' # faults /\ Refused(w)
    /\ UNCHANGED <<kept, left, unwritten>>

\* QueuePool's timeout, turned into an AppError.
PoolExhausted(w) ==
    /\ pc[w] = "lookup"
    /\ kept[w] = PoolLimit
    /\ refused' = refused \cup {Start(w)}
    /\ Goto(w, "failed")
    /\ UNCHANGED <<open, kept, left, unwritten, hand, stale, finished, faults, bodies,
                   brokerVars, storeVars>>

\* An error of the local file leaves the session as it is.
FetchInSession(w) ==
    /\ Fetch(w)
    /\ unwritten' = IF faults' = faults THEN unwritten ELSE unwritten \cup {Start(w)}
    /\ UNCHANGED <<open, kept, left, refused>>

\* Mutation: update_status reads the row back after its commit.
MarkRefreshed(w) ==
    /\ Mark(w)
    /\ \/ faults' = faults /\ InTransaction(w, TRUE) /\ UNCHANGED refused
       \/ faults' # faults /\ Refused(w)
    /\ UNCHANGED <<kept, left, unwritten>>

MarkInSession(w) ==
    /\ Mark(w)
    /\ \/ faults' = faults /\ InTransaction(w, FALSE) /\ UNCHANGED refused
       \/ faults' # faults /\ Refused(w)
    /\ UNCHANGED <<kept, left, unwritten>>

\* The exception and with it the session's last reference end with the handler.
HandOffInSession(w) ==
    /\ HandOff(w)
    /\ InTransaction(w, FALSE)
    /\ kept' = [kept EXCEPT ![w] = IF open[w] THEN @ + 1 ELSE @]
    /\ left' = IF open[w] THEN left \cup {Start(w)} ELSE left
    /\ UNCHANGED <<refused, unwritten>>

\* The connections of a process that ends are closed.
ExitInSession(w) ==
    /\ Crash(w) \/ HandOffFails(w)
    /\ InTransaction(w, FALSE)
    /\ kept' = [kept EXCEPT ![w] = 0]
    /\ UNCHANGED <<left, refused, unwritten>>

CollectGarbage(w) ==
    /\ \E n \in 0..(kept[w] - 1) : kept' = [kept EXCEPT ![w] = n]
    /\ UNCHANGED <<vars, open, left, refused, unwritten>>

\* The steps that do not use the session.
OutsideSession(w) ==
    \/ StartWorker(w) \/ Receive(w) \/ ReceiveStale(w) \/ Dispatch(w) \/ Convert(w)
    \/ StoreConverted(w) \/ StoreCompressed(w) \/ Settle(w) \/ SettleDetached(w)
    \/ Disconnect(w)

SessionStep(w) ==
    \/ LookupInSession(w) \/ PoolExhausted(w) \/ FetchInSession(w) \/ MarkInSession(w)
    \/ HandOffInSession(w) \/ ExitInSession(w) \/ CollectGarbage(w)

SNext ==
    \/ (Client \/ RetryTimeToLive) /\ UNCHANGED sessionVars
    \/ \E w \in Workers : SessionStep(w) \/ (OutsideSession(w) /\ UNCHANGED sessionVars)

SSpec == SInit /\ [][SNext]_sVars

-------------------------------------------------------------------------------

SessionsTypeOK ==
    /\ TypeOK
    /\ open \in [Workers -> BOOLEAN]
    /\ kept \in [Workers -> 0..PoolLimit]
    /\ left \subseteq Starts /\ refused \subseteq Starts /\ unwritten \subseteq Starts

(***************************************************************************)
(* A conversion that failed and was handed off is recorded as failed, or   *)
(* has left its session in a transaction, or the database had no answer    *)
(* for it: no way through a conversion both returns the connection and     *)
(* forgets the failure, and no duplicate or other request for the same job *)
(* undoes the record.  With OnlyUncaughtLeave: a failed pdf-to-docx job    *)
(* stays in processing only if the database did not answer or its input    *)
(* could not be written.                                                   *)
(***************************************************************************)
RecordedOrLeft ==
    \A s \in Accepted :
        /\ bodies[s].fmt \in Conversions
        /\ HandedOff(s)
        /\ status[bodies[s].job] = "processing"
        => s \in left \cup refused

(***************************************************************************)
(* Connections are left behind only where the code catches nothing: by     *)
(* jobs without a row, by the conversions of LibreOffice, whose errors     *)
(* pass update_status by, and by any job whose input file could not be     *)
(* written to the worker's temporary directory.  Every other way a         *)
(* pdf-to-docx job fails (the object missing, its suffix, pdf2docx, the    *)
(* upload) costs the worker no connection if the database answers.         *)
(***************************************************************************)
OnlyUncaughtLeave ==
    \A s \in left \ (refused \cup unwritten) :
        bodies[s].fmt # "docx" \/ status[bodies[s].job] = "absent"
===============================================================================
