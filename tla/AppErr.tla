------------------------------- MODULE AppErr -------------------------------
(***************************************************************************)
(* The stable error codes and their way from a service to the HTTP answer: *)
(* apperr.ToGRPC at the service's edge, FromGRPC and HTTPStatus in the     *)
(* gateway.  A gRPC status is [code, reason]; the reason is the ErrorInfo, *)
(* or "" where there is none.                                              *)
(***************************************************************************)

\* Refusals that share FAILED_PRECONDITION.
Preconditions == {"INSUFFICIENT_FUNDS", "ACCOUNT_FROZEN", "CURRENCY_MISMATCH",
                  "UNBALANCED_ENTRY", "LIMIT_EXCEEDED", "IDEMPOTENCY_CONFLICT"}

Code == Preconditions \cup
  {"INVALID_ARGUMENT", "NOT_FOUND", "ALREADY_EXISTS", "UNAUTHENTICATED", "FORBIDDEN",
   "IDEMPOTENCY_KEY_REQUIRED", "RATE_LIMITED", "UPSTREAM_UNAVAILABLE", "INTERNAL"}

\* grpcCode, where the two names differ.
grpcCode(code) ==
  CASE code \in Preconditions -> "FAILED_PRECONDITION"
    [] code = "FORBIDDEN" -> "PERMISSION_DENIED"
    [] code = "IDEMPOTENCY_KEY_REQUIRED" -> "INVALID_ARGUMENT"
    [] code = "RATE_LIMITED" -> "RESOURCE_EXHAUSTED"
    [] code = "UPSTREAM_UNAVAILABLE" -> "UNAVAILABLE"
    [] OTHER -> code

\* ToGRPC of a typed error; of the server's own deadline; of any other error.
ToGRPC(err) ==
  IF err \in Code THEN [code |-> grpcCode(err), reason |-> err]
  ELSE IF err = "deadline" THEN [code |-> "DEADLINE_EXCEEDED", reason |-> ""]
  ELSE [code |-> "INTERNAL", reason |-> ""]

\* What the transport answers when no answer comes, or the breaker is open.
Unavailable == [code |-> "UNAVAILABLE", reason |-> ""]

Ambiguous(st) == st.code \in {"UNAVAILABLE", "DEADLINE_EXCEEDED"}

\* Variant: the ErrorInfo is ignored.
FromGRPCBare(st) ==
  CASE st.code \in {"UNAVAILABLE", "DEADLINE_EXCEEDED"} -> "UPSTREAM_UNAVAILABLE"
    [] st.code \in {"NOT_FOUND", "ALREADY_EXISTS", "INVALID_ARGUMENT", "UNAUTHENTICATED"}
         -> st.code
    [] OTHER -> "INTERNAL"

FromGRPC(st) ==
  IF st.reason # "" THEN st.reason ELSE
  CASE Ambiguous(st) -> "UPSTREAM_UNAVAILABLE"
    [] st.code \in {"NOT_FOUND", "ALREADY_EXISTS", "INVALID_ARGUMENT", "UNAUTHENTICATED"}
         -> st.code
    [] st.code = "PERMISSION_DENIED" -> "FORBIDDEN"
    [] st.code = "RESOURCE_EXHAUSTED" -> "RATE_LIMITED"
    [] OTHER -> "INTERNAL"

httpStatus(code) ==
  CASE code \in Preconditions -> 422
    [] code \in {"INVALID_ARGUMENT", "IDEMPOTENCY_KEY_REQUIRED"} -> 400
    [] code = "UNAUTHENTICATED" -> 401
    [] code = "FORBIDDEN" -> 403
    [] code = "NOT_FOUND" -> 404
    [] code = "ALREADY_EXISTS" -> 409
    [] code = "RATE_LIMITED" -> 429
    [] code = "UPSTREAM_UNAVAILABLE" -> 503
    [] OTHER -> 500
=============================================================================
