-------------------------------- MODULE Accounts --------------------------------
(***************************************************************************)
(* Signing in through Google, GitHub or Twitter: the callbacks of          *)
(* OauthService await the provider twice, then look the user up, create or *)
(* update the row and store a refresh token, each with a commit of its     *)
(* own, without awaiting anything.                                         *)
(*                                                                         *)
(* The gateway is one process with one event loop: a callback that has     *)
(* reached its database calls keeps the loop until it answers.             *)
(*                                                                         *)
(* A key stands for an email (Google, GitHub; compared without case by the *)
(* CITEXT column) or a user name (Twitter).                                *)
(***************************************************************************)
EXTENDS Naturals

CONSTANTS
    SignIns,      \* sign-in attempts that reach a callback
    Keys,         \* emails and user names
    NoKey,        \* the provider names no email or user name
    Free,         \* sentinel: the event loop runs no callback
    MaxRestarts   \* restarts of the gateway (bounds the run)

Providers == {"Google", "GitHub", "Twitter"}

Profile == [provider: Providers, key: Keys \cup {NoKey}]

ASSUME KeysAssumption ==
    NoKey \notin Keys /\ Free \notin SignIns /\ MaxRestarts \in Nat

VARIABLES
    profile,   \* [sign-in -> what its provider answers]
    at,        \* [sign-in -> where it is]
    loop,      \* the callback that keeps the event loop
    users,     \* rows of the users table; a fresh id is the sign-in's name
    tokens,    \* ids with a row in refresh_token, by the sign-in that issued it
    answer,    \* [sign-in -> tokens or an error (400 to 500), or "none"]
    restarts   \* restarts so far

accountVars == <<profile, at, loop, users, tokens, answer, restarts>>

Places == {"callback", "profile", "insert", "update", "issue", "done", "dropped"}

Row == [id: SignIns, key: Keys, primary: Providers, last: Providers]

\* get_by_email or get_by_username: the column the provider's key is in.
Column(provider) == IF provider = "Twitter" THEN "username" ELSE "email"

RowsOf(p) == {u \in users : /\ u.key = p.key
                            /\ Column(u.primary) = Column(p.provider)}

AInit ==
    /\ profile \in [SignIns -> Profile]
    /\ at = [s \in SignIns |-> "callback"]
    /\ loop = Free
    /\ users = {} /\ tokens = {}
    /\ answer = [s \in SignIns |-> "none"]
    /\ restarts = 0

Move(s, place) == at' = [at EXCEPT ![s] = place]

Answer(s, result) ==
    /\ Move(s, "done")
    /\ loop' = Free
    /\ answer' = [answer EXCEPT ![s] = result]

\* authorize_access_token and fetch_*_userinfo: both awaited, either may fail.
Exchange(s) ==
    /\ at[s] = "callback"
    /\ loop = Free
    /\ \/ Move(s, "profile") /\ UNCHANGED answer
       \/ Move(s, "done") /\ answer' = [answer EXCEPT ![s] = "error"]
    /\ UNCHANGED <<profile, loop, users, tokens, restarts>>

\* Mutation: the lookup gives the event loop back before the row is written.
LookupAwaited(s) ==
    /\ at[s] = "profile"
    /\ loop = Free
    /\ profile[s].key # NoKey
    /\ Move(s, IF RowsOf(profile[s]) = {} THEN "insert" ELSE "update")
    /\ UNCHANGED <<profile, loop, users, tokens, answer, restarts>>

\* Mutation: a profile without a key is not refused.
LookupUnchecked(s) ==
    /\ at[s] = "profile"
    /\ loop = Free
    /\ loop' = s
    /\ Move(s, IF RowsOf(profile[s]) = {} THEN "insert" ELSE "update")
    /\ UNCHANGED <<profile, users, tokens, answer, restarts>>

\* A profile without a key raises, like a database error.
Lookup(s) ==
    /\ at[s] = "profile"
    /\ loop = Free
    /\ \/ /\ profile[s].key # NoKey
          /\ loop' = s
          /\ Move(s, IF RowsOf(profile[s]) = {} THEN "insert" ELSE "update")
          /\ UNCHANGED answer
       \/ Answer(s, "error")
    /\ UNCHANGED <<profile, users, tokens, restarts>>

NewRow(s) == [id |-> s, key |-> profile[s].key,
              primary |-> profile[s].provider, last |-> profile[s].provider]

\* The insert fails on a database error or the unique index.
Insert(s) ==
    /\ at[s] = "insert"
    /\ \/ /\ RowsOf(profile[s]) = {}
          /\ users' = users \cup {NewRow(s)}
          /\ Move(s, "issue")
          /\ UNCHANGED <<loop, answer>>
       \/ Answer(s, "error") /\ UNCHANGED users
    /\ UNCHANGED <<profile, tokens, restarts>>

\* Mutation: the provider of the sign-in becomes the account's own.
UpdatePrimary(s) ==
    /\ at[s] = "update"
    /\ \E u \in RowsOf(profile[s]) :
          users' = (users \ {u}) \cup {[u EXCEPT !.primary = profile[s].provider,
                                                 !.last = profile[s].provider]}
    /\ Move(s, "issue")
    /\ UNCHANGED <<profile, loop, answer, tokens, restarts>>

\* update_last_login; the time it means to set goes to no column.
Update(s) ==
    /\ at[s] = "update"
    /\ \/ /\ \E u \in RowsOf(profile[s]) :
                users' = (users \ {u}) \cup {[u EXCEPT !.last = profile[s].provider]}
          /\ Move(s, "issue")
          /\ UNCHANGED <<loop, answer>>
       \/ Answer(s, "error") /\ UNCHANGED users
    /\ UNCHANGED <<profile, tokens, restarts>>

\* Mutation: the tokens are answered although the commit failed.
IssueUncommitted(s) ==
    /\ at[s] = "issue"
    /\ \E u \in RowsOf(profile[s]) :
          tokens' \in {tokens, tokens \cup {<<s, u.id>>}}
    /\ Answer(s, "tokens")
    /\ UNCHANGED <<profile, users, restarts>>

\* TokenService.generate_tokens: the refresh token is a row, the other is not.
Issue(s) ==
    /\ at[s] = "issue"
    /\ \/ /\ \E u \in RowsOf(profile[s]) : tokens' = tokens \cup {<<s, u.id>>}
          /\ Answer(s, "tokens")
       \/ Answer(s, "error") /\ UNCHANGED tokens
    /\ UNCHANGED <<profile, users, restarts>>

\* Callbacks in flight die with the process, between their commits too.
Restart ==
    /\ restarts < MaxRestarts
    /\ restarts' = restarts + 1
    /\ loop' = Free
    /\ at' = [s \in SignIns |-> IF at[s] \in {"callback", "done"} THEN at[s] ELSE "dropped"]
    /\ UNCHANGED <<profile, users, tokens, answer>>

ANext ==
    \/ Restart
    \/ \E s \in SignIns : Exchange(s) \/ Lookup(s) \/ Insert(s) \/ Update(s) \/ Issue(s)

ASpec == AInit /\ [][ANext]_accountVars

-------------------------------------------------------------------------------

AccountsTypeOK ==
    /\ profile \in [SignIns -> Profile]
    /\ at \in [SignIns -> Places]
    /\ loop \in SignIns \cup {Free}
    /\ users \subseteq Row
    /\ tokens \subseteq SignIns \X SignIns
    /\ answer \in [SignIns -> {"none", "tokens", "error"}]
    /\ restarts \in 0..MaxRestarts

(***************************************************************************)
(* What the lookup found is still so when the row is written: no sign-in   *)
(* that decided to create a user runs into one that another sign-in, by    *)
(* the same or another provider, has created meanwhile, and none that      *)
(* decided to update finds the user gone.  (_handle_google_user and its    *)
(* siblings must not await between the two.)                               *)
(***************************************************************************)
LookupStillTrue ==
    \A s \in SignIns :
        /\ at[s] = "insert" => RowsOf(profile[s]) = {}
        /\ at[s] \in {"update", "issue"} => RowsOf(profile[s]) # {}

(***************************************************************************)
(* Tokens are answered only for a stored refresh token, and every stored   *)
(* refresh token belongs to a user with the key its sign-in proved, even   *)
(* if the sign-in failed or died after storing it.                         *)
(***************************************************************************)
TokensBelong ==
    /\ \A s \in SignIns : answer[s] = "tokens" => \E i \in SignIns : <<s, i>> \in tokens
    /\ \A t \in tokens : \E u \in RowsOf(profile[t[1]]) : u.id = t[2]

(***************************************************************************)
(* An account outlives every sign-in and keeps the provider it was created *)
(* with, whatever providers sign in to it later.                           *)
(***************************************************************************)
PrimaryKept ==
    [][\A u \in users : \E v \in users' :
          v.id = u.id /\ v.key = u.key /\ v.primary = u.primary]_accountVars
===============================================================================
