------------------------------- MODULE MCApiKeys -------------------------------
(***************************************************************************)
(* Instances of sign-in and API keys for TLC.                              *)
(***************************************************************************)
EXTENDS ApiKeys, TLC

CONSTANTS a1, a2, k1, c1, c2

TwoSignIns == {a1, a2}
TwoCreations == {c1, c2}

\* One value for an email and for a user name: sign-ins through different columns
\* are of different accounts.
OneKey == {k1}

TwoScopes == {"document:upload", "convert:create"}

\* The second wish comes with a user id header of its own.
TwoWishes == {[scopes |-> TwoScopes, expire |-> Default, header |-> FALSE],
              [scopes |-> {"convert:create"}, expire |-> 1, header |-> TRUE]}

Symmetry ==
    Permutations(TwoSignIns) \cup Permutations(TwoCreations)
===============================================================================
