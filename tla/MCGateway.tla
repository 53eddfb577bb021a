------------------------------- MODULE MCGateway -------------------------------
(***************************************************************************)
(* Instances of the gateway for TLC, and two statements of the README that *)
(* it does not keep.                                                       *)
(***************************************************************************)
EXTENDS Gateway, TLC

CONSTANTS r1, r2

TwoRequests == {r1, r2}

Asking(path, credential, scopes) ==
    [path |-> path, credential |-> credential, scopes |-> scopes,
     admin |-> FALSE, plan |-> "pro"]

\* One request per outcome of the middlewares and routes.
Samples ==
    {Asking("docs", "none", {}), Asking("resend", "jwt", {}),
     Asking("start", "none", {}), Asking("start", "bad_key", {}),
     Asking("start", "inactive", {}), Asking("start", "jwt", {}),
     Asking("presigned", "key", {"convert:create"}),
     Asking("presigned", "key", {"document:upload"}), Asking("by_suffix", "key", {}),
     Asking("api", "key", {"api:read", "api:write"}),
     Asking("download", "key", {}), Asking("admin", "jwt", {}),
     [Asking("admin", "jwt", {}) EXCEPT !.admin = TRUE],
     Asking("unknown", "jwt", {})}

(***************************************************************************)
(* "Rate limiting per user plan, API key, and role": the limiter applies   *)
(* the plan of an authenticated user to a request of theirs.               *)
(***************************************************************************)
PlanLimitsApply ==
    \A r \in Requests :
        user[r] /\ charged[r] # "nothing" => charged[r] = call[r].plan

(***************************************************************************)
(* "download_service: Serves converted files", "downloads the converted    *)
(* file": a request for a download gets to a service that handles it.      *)
(***************************************************************************)
DownloadsHandled ==
    \A r \in Requests : call[r].path = "download" => sent[r] # "unhandled"
===============================================================================
