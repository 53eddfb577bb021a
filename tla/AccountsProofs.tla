----------------------------- MODULE AccountsProofs -----------------------------
(***************************************************************************)
(* Proofs about Accounts, for every number of sign-ins, keys and restarts. *)
(***************************************************************************)
EXTENDS Accounts, TLAPS

\* A sign-in between its lookup and its answer keeps the event loop.
KeepsLoop == \A s \in SignIns : at[s] \in {"insert", "update", "issue"} => loop = s

\* The lookups have a key.
HasKey == \A s \in SignIns : at[s] \in {"insert", "update", "issue"} => profile[s].key # NoKey

AccountInv == AccountsTypeOK /\ KeepsLoop /\ HasKey /\ LookupStillTrue /\ TokensBelong

-------------------------------------------------------------------------------

LEMMA InitAccounts == AInit => AccountInv
BY KeysAssumption
DEF AInit, AccountInv, AccountsTypeOK, KeepsLoop, HasKey, LookupStillTrue, TokensBelong,
    Places

(***************************************************************************)
(* Sign-ins other than the one that keeps the loop are elsewhere.          *)
(***************************************************************************)
LEMMA Elsewhere ==
    ASSUME AccountInv, NEW s \in SignIns, NEW q \in SignIns, q # s,
           loop = s \/ loop = Free
    PROVE  at[q] \notin {"insert", "update", "issue"}
BY KeysAssumption DEF AccountInv, KeepsLoop

(***************************************************************************)
(* A step that writes no table keeps the invariant if it moves sign-ins to *)
(* places that ask for nothing.                                            *)
(***************************************************************************)
LEMMA TablesKept ==
    ASSUME AccountInv, AccountsTypeOK', UNCHANGED <<profile, users, tokens>>,
           KeepsLoop',
           \A q \in SignIns : at'[q] \in {"insert", "update", "issue"} => at'[q] = at[q],
           \A q \in SignIns : answer'[q] = "tokens" => answer[q] = "tokens"
    PROVE  AccountInv'
<1>1. HasKey'
  BY DEF AccountInv, HasKey
<1>2. LookupStillTrue'
  BY DEF AccountInv, LookupStillTrue, RowsOf
<1>3. TokensBelong'
  BY DEF AccountInv, TokensBelong, RowsOf
<1> QED
  BY <1>1, <1>2, <1>3 DEF AccountInv

LEMMA ExchangeStep ==
    ASSUME AccountInv, NEW s \in SignIns, Exchange(s)
    PROVE  AccountInv'
<1>1. AccountsTypeOK'
  BY DEF Exchange, Move, AccountInv, AccountsTypeOK, Places
<1>2. /\ UNCHANGED <<profile, users, tokens, loop>>
      /\ \A q \in SignIns : at'[q] \in {"insert", "update", "issue"} => at'[q] = at[q]
      /\ \A q \in SignIns : answer'[q] = "tokens" => answer[q] = "tokens"
  BY DEF Exchange, Move, AccountInv, AccountsTypeOK
<1>3. KeepsLoop'
  BY <1>2 DEF AccountInv, KeepsLoop
<1> QED
  BY <1>1, <1>2, <1>3, TablesKept

LEMMA FailureStep ==
    ASSUME AccountInv, NEW s \in SignIns, loop = s \/ loop = Free,
           Answer(s, "error"), UNCHANGED <<profile, users, tokens, restarts>>
    PROVE  AccountInv'
<1>1. \A q \in SignIns : q # s => at[q] \notin {"insert", "update", "issue"}
  BY Elsewhere
<1>2. AccountsTypeOK'
  BY DEF Answer, Move, AccountInv, AccountsTypeOK, Places
<1>3. \A q \in SignIns : at'[q] \notin {"insert", "update", "issue"}
  BY <1>1 DEF Answer, Move, AccountInv, AccountsTypeOK
<1>4. \A q \in SignIns : answer'[q] = "tokens" => answer[q] = "tokens"
  BY DEF Answer, AccountInv, AccountsTypeOK
<1>5. KeepsLoop'
  BY <1>3 DEF KeepsLoop
<1> QED
  BY <1>2, <1>3, <1>4, <1>5, TablesKept

LEMMA LookupStep ==
    ASSUME AccountInv, NEW s \in SignIns, Lookup(s)
    PROVE  AccountInv'
<1>1. \A q \in SignIns : q # s => at[q] \notin {"insert", "update", "issue"}
  BY Elsewhere DEF Lookup
<1>2. CASE /\ profile[s].key # NoKey
           /\ loop' = s
           /\ Move(s, IF RowsOf(profile[s]) = {} THEN "insert" ELSE "update")
           /\ UNCHANGED <<answer, profile, users, tokens, restarts>>
  <2>1. AccountsTypeOK'
    BY <1>2 DEF Move, AccountInv, AccountsTypeOK, Places
  <2>2. KeepsLoop' /\ HasKey'
    BY <1>1, <1>2 DEF Move, AccountInv, AccountsTypeOK, KeepsLoop, HasKey
  <2>3. LookupStillTrue'
    BY <1>1, <1>2 DEF Move, AccountInv, AccountsTypeOK, LookupStillTrue, RowsOf
  <2>4. TokensBelong'
    BY <1>2 DEF AccountInv, TokensBelong, RowsOf
  <2> QED
    BY <2>1, <2>2, <2>3, <2>4 DEF AccountInv
<1>3. CASE Answer(s, "error") /\ UNCHANGED <<profile, users, tokens, restarts>>
  BY <1>3, FailureStep DEF Lookup
<1> QED
  BY <1>2, <1>3 DEF Lookup

LEMMA InsertStep ==
    ASSUME AccountInv, NEW s \in SignIns, Insert(s)
    PROVE  AccountInv'
<1>1. loop = s /\ at[s] = "insert" /\ profile[s].key # NoKey
  BY DEF Insert, AccountInv, KeepsLoop, HasKey
<1>2. \A q \in SignIns : q # s => at[q] \notin {"insert", "update", "issue"}
  BY <1>1, Elsewhere
<1>3. CASE /\ users' = users \cup {NewRow(s)}
           /\ Move(s, "issue")
           /\ UNCHANGED <<loop, answer, profile, tokens, restarts>>
  <2>1. NewRow(s) \in Row /\ NewRow(s).id = s /\ NewRow(s) \in RowsOf(profile[s])'
    BY <1>1, <1>3 DEF NewRow, Row, RowsOf, AccountInv, AccountsTypeOK, Profile
  <2>2. AccountsTypeOK'
    BY <1>3, <2>1 DEF Move, AccountInv, AccountsTypeOK, Places
  <2>3. KeepsLoop' /\ HasKey'
    BY <1>1, <1>2, <1>3 DEF Move, AccountInv, AccountsTypeOK, KeepsLoop, HasKey
  <2>4. LookupStillTrue'
    BY <1>2, <1>3, <2>1 DEF Move, AccountInv, AccountsTypeOK, LookupStillTrue
  <2>5. TokensBelong'
    BY <1>3 DEF AccountInv, TokensBelong, RowsOf
  <2> QED
    BY <2>2, <2>3, <2>4, <2>5 DEF AccountInv
<1>4. CASE Answer(s, "error") /\ UNCHANGED <<users, profile, tokens, restarts>>
  BY <1>1, <1>4, FailureStep
<1> QED
  BY <1>3, <1>4 DEF Insert

LEMMA UpdateStep ==
    ASSUME AccountInv, NEW s \in SignIns, Update(s)
    PROVE  AccountInv'
<1>1. loop = s /\ at[s] = "update" /\ profile[s].key # NoKey
  BY DEF Update, AccountInv, KeepsLoop, HasKey
<1>2. \A q \in SignIns : q # s => at[q] \notin {"insert", "update", "issue"}
  BY <1>1, Elsewhere
<1>3. ASSUME NEW u \in RowsOf(profile[s]),
             users' = (users \ {u}) \cup {[u EXCEPT !.last = profile[s].provider]},
             Move(s, "issue"),
             UNCHANGED <<loop, answer, profile, tokens, restarts>>
      PROVE  AccountInv'
  <2> DEFINE v == [u EXCEPT !.last = profile[s].provider]
  <2>1. /\ u \in users /\ u \in Row /\ v \in Row
        /\ v.id = u.id /\ v.key = u.key /\ v.primary = u.primary
    BY <1>3 DEF RowsOf, Row, AccountInv, AccountsTypeOK, Profile
  <2> HIDE DEF v
  <2>2. users' = (users \ {u}) \cup {v}
    BY <1>3 DEF v
  <2>3. AccountsTypeOK'
    BY <1>3, <2>1, <2>2 DEF Move, AccountInv, AccountsTypeOK, Places
  <2>4. KeepsLoop' /\ HasKey'
    BY <1>1, <1>2, <1>3 DEF Move, AccountInv, AccountsTypeOK, KeepsLoop, HasKey
  <2>5. v \in RowsOf(profile[s])'
    BY <1>3, <2>1, <2>2 DEF RowsOf
  <2>6. LookupStillTrue'
    BY <1>2, <1>3, <2>5 DEF Move, AccountInv, AccountsTypeOK, LookupStillTrue
  <2>7. TokensBelong'
    <3>1. ASSUME NEW p, NEW w \in RowsOf(p)
          PROVE  \E x \in RowsOf(p)' : x.id = w.id
      BY <2>1, <2>2 DEF RowsOf
    <3>2. \A t \in tokens : profile'[t[1]] = profile[t[1]]
      BY <1>3
    <3>3. \A t \in tokens : \E x \in RowsOf(profile[t[1]])' : x.id = t[2]
      BY <1>3, <3>1 DEF AccountInv, TokensBelong, RowsOf
    <3> QED
      BY <1>3, <3>3 DEF AccountInv, TokensBelong, RowsOf
  <2> QED
    BY <2>3, <2>4, <2>6, <2>7 DEF AccountInv
<1>4. CASE Answer(s, "error") /\ UNCHANGED <<users, profile, tokens, restarts>>
  BY <1>1, <1>4, FailureStep
<1> QED
  BY <1>3, <1>4 DEF Update

LEMMA IssueStep ==
    ASSUME AccountInv, NEW s \in SignIns, Issue(s)
    PROVE  AccountInv'
<1>1. loop = s /\ at[s] = "issue"
  BY DEF Issue, AccountInv, KeepsLoop
<1>2. \A q \in SignIns : q # s => at[q] \notin {"insert", "update", "issue"}
  BY <1>1, Elsewhere
<1>3. ASSUME NEW u \in RowsOf(profile[s]), tokens' = tokens \cup {<<s, u.id>>},
             Answer(s, "tokens"), UNCHANGED <<profile, users, restarts>>
      PROVE  AccountInv'
  <2>1. u \in users /\ u.id \in SignIns
    BY <1>3 DEF RowsOf, Row, AccountInv, AccountsTypeOK
  <2>2. AccountsTypeOK'
    BY <1>3, <2>1 DEF Answer, Move, AccountInv, AccountsTypeOK, Places
  <2>3. KeepsLoop' /\ HasKey' /\ LookupStillTrue'
    BY <1>2, <1>3 DEF Answer, Move, AccountInv, AccountsTypeOK, KeepsLoop, HasKey,
                      LookupStillTrue, RowsOf
  <2>4. TokensBelong'
    <3>1. \A q \in SignIns : answer'[q] = "tokens" => \E i \in SignIns : <<q, i>> \in tokens'
      BY <1>3, <2>1 DEF Answer, AccountInv, AccountsTypeOK, TokensBelong
    <3>2. \A t \in tokens' : \E x \in RowsOf(profile[t[1]]) : x.id = t[2]
      BY <1>3 DEF AccountInv, TokensBelong
    <3> QED
      BY <1>3, <3>1, <3>2 DEF TokensBelong, RowsOf
  <2> QED
    BY <2>2, <2>3, <2>4 DEF AccountInv
<1>4. CASE Answer(s, "error") /\ UNCHANGED <<users, profile, tokens, restarts>>
  BY <1>1, <1>4, FailureStep
<1> QED
  BY <1>3, <1>4 DEF Issue

LEMMA RestartStep ==
    ASSUME AccountInv, Restart
    PROVE  AccountInv'
<1>1. AccountsTypeOK'
  BY KeysAssumption DEF Restart, AccountInv, AccountsTypeOK, Places
<1>2. /\ UNCHANGED <<profile, users, tokens, answer>>
      /\ \A q \in SignIns : at'[q] \notin {"insert", "update", "issue"}
  BY DEF Restart, AccountInv, AccountsTypeOK
<1>3. KeepsLoop'
  BY <1>2 DEF KeepsLoop
<1> QED
  BY <1>1, <1>2, <1>3, TablesKept

LEMMA AccountInvariant == ASpec => []AccountInv
<1>1. AInit => AccountInv
  BY InitAccounts
<1>2. AccountInv /\ [ANext]_accountVars => AccountInv'
  <2> SUFFICES ASSUME AccountInv, [ANext]_accountVars
               PROVE  AccountInv'
    OBVIOUS
  <2>1. CASE ANext
    BY <2>1, ExchangeStep, LookupStep, InsertStep, UpdateStep, IssueStep, RestartStep
    DEF ANext
  <2>2. CASE UNCHANGED accountVars
    BY <2>2 DEF accountVars, AccountInv, AccountsTypeOK, KeepsLoop, HasKey,
                LookupStillTrue, TokensBelong, RowsOf
  <2> QED
    BY <2>1, <2>2
<1> QED
  BY <1>1, <1>2, PTL DEF ASpec

(***************************************************************************)
(* The decision to create or to update a user is still right when the row  *)
(* is written, for any number of concurrent callbacks of any provider.     *)
(***************************************************************************)
THEOREM LookupsStayTrue == ASpec => []LookupStillTrue
<1>1. AccountInv => LookupStillTrue
  BY DEF AccountInv
<1> QED
  BY <1>1, AccountInvariant, PTL

(***************************************************************************)
(* Answered tokens are stored, and stored tokens belong to the user whose  *)
(* email or user name the provider vouched for.                            *)
(***************************************************************************)
THEOREM TokensBelongToTheirUser == ASpec => []TokensBelong
<1>1. AccountInv => TokensBelong
  BY DEF AccountInv
<1> QED
  BY <1>1, AccountInvariant, PTL
===============================================================================
