------------------------------ MODULE JobDelivery ------------------------------
(***************************************************************************)
(* What the queue promises about one start request, whatever the number of *)
(* workers and copies behind it: an accepted request is in progress until  *)
(* it is done, parked for a retry, dead-lettered or lost; a parked request *)
(* comes back or ends; done, dead and lost are final.  Losing a request is *)
(* a visible outcome of the specification, forgetting one is not.          *)
(***************************************************************************)
CONSTANT Starts

VARIABLE phase

Phases == {"unsent", "pending", "parked", "done", "dead", "lost"}

Final == {"done", "dead", "lost"}

Become(s, from, to) == phase[s] \in from /\ phase'[s] \in to

DInit == phase = [s \in Starts |-> "unsent"]

Accept(s) == Become(s, {"unsent"}, {"pending", "lost"})

Attempt(s) == Become(s, {"pending"}, {"parked"} \cup Final)

Retry(s) == Become(s, {"parked"}, {"pending", "dead", "lost"})

Keep(s) == phase'[s] = phase[s]

\* A worker that ends takes the copies it had buffered with it, and several
\* requests can come to their end in that step.
DNext ==
    /\ phase' \in [Starts -> Phases]
    /\ \A s \in Starts : Keep(s) \/ Accept(s) \/ Attempt(s) \/ Retry(s)

DSpec == DInit /\ [][DNext]_phase

(***************************************************************************)
(* An accepted request is not left in progress or parked for ever.         *)
(***************************************************************************)
EverySettles == \A s \in Starts : phase[s] \in {"pending", "parked"} ~> phase[s] \in Final
===============================================================================
