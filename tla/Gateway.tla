------------------------------ MODULE Gateway -------------------------------
(***************************************************************************)
(* The API gateway: the route table, the middleware chain, the cache of    *)
(* signing keys, the rate limiter and the client chain (retry, breaker,    *)
(* timeout) through which a request reaches a service.                     *)
(*                                                                         *)
(* The tokens that were signed and the key that is published are           *)
(* Identity's.  What a service does with a call is its own module's        *)
(* matter: here it executes or refuses the call, or the answer is lost.    *)
(* One request is followed at a time; the others in flight are what they   *)
(* do to the state it shares with them: the cached keys and the breakers.  *)
(***************************************************************************)
EXTENDS Identity, AppErr

CONSTANTS
  Routes,       \* the routes that are asked for
  Forged,       \* tokens that identity did not sign
  Refusals,     \* the errors a service answers: typed ones, "deadline", "other"
  Limit,        \* RateLimitReads and RateLimitWrites
  MaxAttempts,  \* attempts of a retryable call
  Trip,         \* consecutive failures that open a breaker
  MaxFaults     \* bound on failed fetches, lost calls and lost redis answers

VARIABLES
  req,        \* the request
  keys,       \* JWKSCache.keys
  throttled,  \* lastRefresh is less than 10 s ago
  hits,       \* the redis counters of the current second, by subject and route
  breaker,    \* the breaker of the connection to each service
  faults      \* faults so far

gvars == <<req, keys, throttled, hits, breaker, faults>>

-----------------------------------------------------------------------------
(* The route table *)

customerOnly == {"customer"}
anyAuthed == {"customer", "support", "admin"}
staffOnly == {"support", "admin"}

Public == [roles |-> {}, class |-> "public", idem |-> FALSE]
Read(roles) == [roles |-> roles, class |-> "read", idem |-> FALSE]
Write(roles) == [roles |-> roles, class |-> "write", idem |-> FALSE]
Money == [roles |-> customerOnly, class |-> "transfer", idem |-> TRUE]

Table ==
  [register |-> Public, login |-> Public, refresh |-> Public, logout |-> Public,
   getMe |-> Read(anyAuthed),
   openAccount |-> Write(customerOnly), listAccounts |-> Read(anyAuthed),
   listTransactions |-> Read(anyAuthed),
   topup |-> Money, createTransfer |-> Money,
   getTransfer |-> Read(anyAuthed), listTransfers |-> Read(anyAuthed),
   getRates |-> Read(anyAuthed),
   adminListAccounts |-> Read(staffOnly),
   freeze |-> Write(staffOnly), unfreeze |-> Write(staffOnly)]

\* What a handler does: the method of the service it calls, and whether it parses
\* the request and refuses a malformed one.
Handler(service, method, parses) == [service |-> service, method |-> method, parses |-> parses]

AuthHandlers ==
  [register |-> Handler("identity", "Register", TRUE),
   login |-> Handler("identity", "Login", TRUE),
   refresh |-> Handler("identity", "Refresh", TRUE),
   logout |-> Handler("identity", "Logout", TRUE),
   getMe |-> Handler("identity", "GetMe", FALSE)]

AccountHandlers ==
  [openAccount |-> Handler("account", "OpenAccount", TRUE),
   listAccounts |-> Handler("account", "ListAccountsByCustomer", FALSE),
   listTransactions |-> Handler("account", "ListTransactions", TRUE)]

TransferHandlers ==
  [topup |-> Handler("transfer", "CreateTransfer", TRUE),
   createTransfer |-> Handler("transfer", "CreateTransfer", TRUE),
   getTransfer |-> Handler("transfer", "GetTransfer", FALSE),
   listTransfers |-> Handler("transfer", "ListTransfers", FALSE),
   getRates |-> Handler("transfer", "GetRates", FALSE)]

\* The body of a freeze is optional.
AdminHandlers ==
  [adminListAccounts |-> Handler("account", "ListAccountsByCustomer", FALSE),
   freeze |-> Handler("account", "Freeze", FALSE),
   unfreeze |-> Handler("account", "Unfreeze", FALSE)]

handlerTable ==
  [r \in DOMAIN Table |-> CASE r \in DOMAIN AuthHandlers -> AuthHandlers[r]
                            [] r \in DOMAIN AccountHandlers -> AccountHandlers[r]
                            [] r \in DOMAIN TransferHandlers -> TransferHandlers[r]
                            [] r \in DOMAIN AdminHandlers -> AdminHandlers[r]]

retryableReads == {"GetMe", "ListSessions", "GetAccount", "ListAccountsByCustomer",
                   "ResolveByNumber", "GetBalances", "ListTransactions", "GetTransfer",
                   "ListTransfers", "GetRates"}

Target(r) == handlerTable[r].service
Method(r) == handlerTable[r].method
Services == {Target(r) : r \in Routes}

Allowed(r, roles) == Table[r].roles = {} \/ Table[r].roles \cap roles # {}

ASSUME GatewayAssumption ==
  /\ "" \notin Users       \* an id is never empty
  /\ Routes \subseteq DOMAIN Table /\ Refusals \subseteq Code \cup {"deadline", "other"}
  /\ {Limit, MaxAttempts, Trip} \subseteq Nat \ {0} /\ MaxFaults \in Nat

-----------------------------------------------------------------------------
(* The request.  token is NoToken without a bearer token; claims and idemKey are   *)
(* what the middleware put into the context; doc is the document of keys that it   *)
(* fetched; tries counts attempts and counted says that the breaker counts the     *)
(* outcome of the attempt.  No guard reads the last fields but answer: reached is  *)
(* how often the service executed the call, wholly or in part, and reply is what   *)
(* it said to the last attempt, "none" if nothing came.                            *)

NoToken == [user |-> "", roles |-> {}, kid |-> ""]
Nobody == [user |-> "", roles |-> {}]
Blank == [at |-> "done", route |-> "", token |-> NoToken, key |-> FALSE, claims |-> Nobody,
          idemKey |-> FALSE, doc |-> {}, tries |-> 0, counted |-> FALSE, reached |-> 0,
          reply |-> "none", answer |-> ""]
Closed == [state |-> "closed", fails |-> 0]
Open == [state |-> "open", fails |-> 0]

GatewayInit ==
  /\ req = Blank
  /\ keys = JWKS /\ throttled = TRUE     \* WarmUp has fetched them
  /\ hits = [x \in {} |-> 0]
  /\ breaker = [s \in Services |-> Closed]
  /\ faults = 0

Fault == faults < MaxFaults /\ faults' = faults + 1

\* writeProblem ends the request with an error.
Problem(code) == req' = [req EXCEPT !.at = "done", !.answer = code]
Go(at) == req' = [req EXCEPT !.at = at]

\* A request enters the chain of its route; authMiddleware only where roles are asked.
Arrive(r, token, key) ==
  /\ req.at = "done"
  /\ req' = [Blank EXCEPT !.at = IF Table[r].roles # {} THEN "auth" ELSE "limit",
                          !.route = r, !.token = token, !.key = key]
  /\ UNCHANGED <<keys, throttled, hits, breaker, faults>>

-----------------------------------------------------------------------------
(* authMiddleware and rbacMiddleware *)

\* No bearer token, a known key, an unknown one within 10 s of a refresh, or a fetch.
LookUpKey ==
  /\ req.at = "auth"
  /\ \/ req.token = NoToken /\ Problem("UNAUTHENTICATED")
     \/ req.token.kid \in keys /\ Go("verify")
     \/ req.token # NoToken /\ req.token.kid \notin keys /\ throttled /\ Problem("UNAUTHENTICATED")
     \/ req.token # NoToken /\ req.token.kid \notin keys /\ ~throttled /\ Go("fetch")
  /\ UNCHANGED <<keys, throttled, hits, breaker, faults>>

\* refresh reads the published keys.
FetchKeys ==
  /\ req.at = "fetch"
  /\ req' = [req EXCEPT !.at = "install", !.doc = JWKS]
  /\ UNCHANGED <<keys, throttled, hits, breaker, faults>>

\* The fetch fails: the keys stay, and the next unknown id tries again.
FetchFails ==
  /\ req.at = "fetch" /\ Fault
  /\ Problem("UNAUTHENTICATED")
  /\ UNCHANGED <<keys, throttled, hits, breaker>>

\* It replaces the cached keys by what it read, be it older than they are.
InstallKeys ==
  /\ req.at = "install"
  /\ keys' = req.doc /\ throttled' = TRUE
  /\ req' = [req EXCEPT !.at = "recheck", !.doc = {}]
  /\ UNCHANGED <<hits, breaker, faults>>

\* The id is looked up again, under the lock taken anew.
RecheckKey ==
  /\ req.at = "recheck"
  /\ IF req.token.kid \in keys THEN Go("verify") ELSE Problem("UNAUTHENTICATED")
  /\ UNCHANGED <<keys, throttled, hits, breaker, faults>>

\* Another request's fetch, in one step: a document that is older than the cached keys
\* when it is installed is this request's.
OthersFetch ==
  /\ ~throttled
  /\ keys' = JWKS /\ throttled' = TRUE
  /\ UNCHANGED <<req, hits, breaker, faults>>

\* Validate checks the signature and the expiry, then rbacMiddleware the role.
Verify ==
  /\ req.at = "verify"
  /\ \/ req.token \notin tokens /\ Problem("UNAUTHENTICATED")
     \/ req.token \in tokens /\ ~Allowed(req.route, req.token.roles) /\ Problem("FORBIDDEN")
     \/ /\ req.token \in tokens /\ Allowed(req.route, req.token.roles)
        /\ req' = [req EXCEPT !.at = "limit",
                    !.claims = [user |-> req.token.user, roles |-> req.token.roles]]
  /\ UNCHANGED <<keys, throttled, hits, breaker, faults>>

-----------------------------------------------------------------------------
(* rateLimitMiddleware and idempotencyKeyMiddleware *)

\* The caller's counter of the route; callers without claims share their address.
Counter == <<req.claims.user, req.route>>
Hits == IF Counter \in DOMAIN hits THEN hits[Counter] ELSE 0

\* Past the limiter a money route asks for the idempotency key.
Admit ==
  IF Table[req.route].idem /\ ~req.key THEN Problem("IDEMPOTENCY_KEY_REQUIRED")
  ELSE req' = [req EXCEPT !.at = "ready", !.idemKey = Table[req.route].idem]

\* Allow increments, then compares.
RateLimit ==
  /\ req.at = "limit"
  /\ hits' = [x \in DOMAIN hits \cup {Counter} |->
                IF x = Counter /\ Hits < Limit THEN Hits + 1 ELSE hits[x]]
  /\ IF Hits < Limit THEN Admit ELSE Problem("RATE_LIMITED")
  /\ UNCHANGED <<keys, throttled, breaker, faults>>

\* Redis does not answer: the limiter fails open.
LimiterDown ==
  /\ req.at = "limit" /\ Fault
  /\ Admit
  /\ UNCHANGED <<keys, throttled, hits, breaker>>

-----------------------------------------------------------------------------
(* The handler, and the client chain: retryInterceptor, breakerInterceptor,     *)
(* timeoutInterceptor, propagationInterceptor                                   *)

\* bindJSON, or a handler's own checks, refuse the request.
Malformed ==
  /\ req.at = "ready" /\ req.tries = 0 /\ handlerTable[req.route].parses
  /\ Problem("INVALID_ARGUMENT")
  /\ UNCHANGED <<keys, throttled, hits, breaker, faults>>

\* propagationInterceptor: the metadata of a call; roles only with a caller.
Metadata ==
  LET present == (IF req.claims.user # "" THEN {"x-customer-id"} ELSE {})
            \cup (IF req.claims.user # "" /\ req.claims.roles # {} THEN {"x-roles"} ELSE {})
            \cup (IF req.idemKey THEN {"x-idempotency-key"} ELSE {})
  IN  [key \in present |-> CASE key = "x-customer-id" -> req.claims.user
                             [] key = "x-roles" -> req.claims.roles
                             [] key = "x-idempotency-key" -> TRUE]

\* claimsInterceptor of the service: the caller and the key that its handler sees.
Claims ==
  LET md(key, none) == IF key \in DOMAIN Metadata THEN Metadata[key] ELSE none
  IN  [user |-> md("x-customer-id", ""), roles |-> md("x-roles", {}),
       idemKey |-> md("x-idempotency-key", FALSE)]

Ended(r, st) == [r EXCEPT !.at = "done", !.answer = FromGRPC(st)]

\* Variant: every method is retried.
AfterAttemptEager(r, st) ==
  IF Ambiguous(st) /\ r.tries < MaxAttempts THEN {[r EXCEPT !.at = "ready"]} ELSE {Ended(r, st)}

\* The attempt of r ended with status st: retryInterceptor goes on with an ambiguous
\* one of a retryable method, unless the route's deadline passes first.
AfterAttempt(r, st) ==
  {Ended(r, st)} \cup
  IF Ambiguous(st) /\ Method(r.route) \in retryableReads /\ r.tries < MaxAttempts
  THEN {[r EXCEPT !.at = "ready"]} ELSE {}

\* The breaker is open, or half-open with its probe under way.
Rejected ==
  /\ req.at = "ready" /\ breaker[Target(req.route)].state \in {"open", "probing"}
  /\ req' \in AfterAttempt([req EXCEPT !.tries = @ + 1, !.reply = "none"], Unavailable)
  /\ UNCHANGED <<keys, throttled, hits, breaker, faults>>

Admitted ==
  LET s == Target(req.route)
  IN  /\ req.at = "ready" /\ breaker[s].state \in {"closed", "half-open"}
      /\ breaker' = [breaker EXCEPT ![s].state = IF @ = "half-open" THEN "probing" ELSE @]
      /\ req' = [req EXCEPT !.at = "sent", !.tries = @ + 1, !.counted = TRUE]
      /\ UNCHANGED <<keys, throttled, hits, faults>>

\* What a breaker becomes by the outcome of a call that it counts.
Heard(b, ok) ==
  IF b.state = "probing" THEN IF ok THEN Closed ELSE Open
  ELSE IF ok THEN Closed
  ELSE IF b.fails + 1 >= Trip THEN Open ELSE [b EXCEPT !.fails = @ + 1]

Hear(ok) ==
  LET s == Target(req.route)
  IN  breaker' = IF req.counted THEN [breaker EXCEPT ![s] = Heard(@, ok)] ELSE breaker

\* The service executes the call.
Executed ==
  /\ req.at = "sent"
  /\ req' = [req EXCEPT !.at = "done", !.reached = @ + 1,
                        !.reply = "OK", !.answer = "OK"]
  /\ Hear(TRUE)
  /\ UNCHANGED <<keys, throttled, hits, faults>>

\* Methods that commit something before they refuse with a typed error: OpenAccount
\* bootstraps the customer, Refresh revokes the family of a reused token.
WriteThenRefuse == {"OpenAccount", "Refresh"}

\* The errors that may follow a committed write: of any method those that are not
\* typed (CreateTransfer's row is committed when Drive fails; the acknowledgement of
\* a commit is lost) and INTERNAL.
LateErrors(method) ==
  IF method \in WriteThenRefuse THEN Refusals ELSE Refusals \ (Code \ {"INTERNAL"})

\* The service answers an error, before or after it wrote something.  A service that
\* ran into its deadline is a fault of the bound.
Refused(err) ==
  /\ req.at = "sent"
  /\ \E n \in IF err \in LateErrors(Method(req.route)) THEN {0, 1} ELSE {0} :
       req' \in AfterAttempt([req EXCEPT !.reached = @ + n, !.reply = err], ToGRPC(err))
  /\ Hear(~Ambiguous(ToGRPC(err)))
  /\ IF Ambiguous(ToGRPC(err)) THEN Fault ELSE UNCHANGED faults
  /\ UNCHANGED <<keys, throttled, hits>>

\* The call or its answer is lost, or the attempt times out.
Lost ==
  /\ req.at = "sent" /\ Fault
  /\ \E n \in {0, 1} :
       req' \in AfterAttempt([req EXCEPT !.reached = @ + n, !.reply = "none"], Unavailable)
  /\ Hear(FALSE)
  /\ UNCHANGED <<keys, throttled, hits>>

\* The breaker changes its state: it no longer counts the calls it admitted before.
Change(s, b) ==
  /\ breaker' = [breaker EXCEPT ![s] = b]
  /\ req' = [req EXCEPT !.counted = @ /\ (breaker[s].state = b.state \/ Target(req.route) # s)]

MyProbe(s) == req.at = "sent" /\ req.counted /\ Target(req.route) = s

\* Other calls probe a half-open breaker, and succeed or fail.
OthersCall(s) ==
  /\ \/ /\ breaker[s].state = "half-open"
        /\ Change(s, [breaker[s] EXCEPT !.state = "probing"]) /\ UNCHANGED faults
     \/ /\ breaker[s].state = "closed" \/ (breaker[s].state = "probing" /\ ~MyProbe(s))
        /\ \/ Change(s, Heard(breaker[s], TRUE)) /\ UNCHANGED faults
           \/ Change(s, Heard(breaker[s], FALSE)) /\ Fault
  /\ UNCHANGED <<keys, throttled, hits>>

-----------------------------------------------------------------------------
(* The clock *)

TenSecondsPass ==
  /\ throttled /\ throttled' = FALSE
  /\ UNCHANGED <<req, keys, hits, breaker, faults>>

NextWindow ==
  /\ DOMAIN hits # {} /\ hits' = [x \in {} |-> 0]
  /\ UNCHANGED <<req, keys, throttled, breaker, faults>>

\* Variant: an open breaker stays open.
BreakerTimeoutNever(s) ==
  /\ breaker[s].state = "half-open"
  /\ UNCHANGED gvars

BreakerTimeout(s) ==
  /\ breaker[s].state = "open"
  /\ Change(s, [state |-> "half-open", fails |-> 0])
  /\ UNCHANGED <<keys, throttled, hits, faults>>

-----------------------------------------------------------------------------
(* The gateway, with the identity service that signs its callers' tokens *)

vars == <<ivars, gvars>>

Init == IdentityInit /\ GatewayInit

Advance ==
  /\ \/ LookUpKey \/ FetchKeys \/ InstallKeys \/ RecheckKey \/ Verify \/ RateLimit
     \/ Rejected \/ Admitted \/ Executed \/ Malformed
     \/ \E err \in Refusals : Refused(err)
  /\ UNCHANGED ivars

Trouble == (FetchFails \/ LimiterDown \/ Lost) /\ UNCHANGED ivars

Others == (OthersFetch \/ \E s \in Services : OthersCall(s)) /\ UNCHANGED ivars

Tick(A) == A /\ UNCHANGED ivars

Ask(r, token, key) == Arrive(r, token, key) /\ UNCHANGED ivars

Next ==
  \/ Advance \/ Trouble \/ Others
  \/ Tick(TenSecondsPass) \/ Tick(NextWindow) \/ \E s \in Services : Tick(BreakerTimeout(s))
  \/ \E r \in Routes :
       \E t \in {NoToken} \cup IF Table[r].roles = {} THEN {} ELSE signed \cup Forged :
         \E k \in IF Table[r].idem THEN BOOLEAN ELSE {TRUE} : Ask(r, t, k)
  \/ /\ \/ \E u \in Users : Login(u)
        \/ \E t \in tokens : TokenExpires(t)
        \/ ReplaceKey
     /\ UNCHANGED gvars

Spec == Init /\ [][Next]_vars

\* A token that is good for a route.
Good(t, r) == t \in tokens /\ t.kid = Kid /\ Allowed(r, t.roles)

\* The request goes on, the clock too, calls end, and callers with a good token do not
\* stop asking.
FairSpec ==
  /\ Spec
  /\ WF_vars(Advance)
  /\ WF_vars(Tick(TenSecondsPass)) /\ WF_vars(Tick(NextWindow))
  /\ \A s \in Services : WF_vars(Tick(BreakerTimeout(s))) /\ WF_vars(Tick(OthersCall(s)))
  /\ \A r \in Routes : SF_vars(\E t \in signed : Good(t, r) /\ Ask(r, t, TRUE))

-----------------------------------------------------------------------------
(* Properties *)

\* What reaches a service through a route with roles was asked with a token that
\* identity signed for a registered user whose role the route allows, and the service
\* sees that user with those roles.  Money routes, and no others, bring an idempotency
\* key, and a call that is not a read was executed once at most, whatever answers are
\* lost on the way (authMiddleware, rbacMiddleware, propagationInterceptor,
\* claimsInterceptor, retryInterceptor).
ServedIsEntitled ==
  req.reached > 0 =>
    /\ Table[req.route].roles # {} =>
         /\ req.token \in signed
         /\ GetMe(req.token.user) \cap Table[req.route].roles # {}
         /\ Claims.user = req.token.user /\ Claims.roles = GetMe(req.token.user)
    /\ Claims.idemKey <=> Table[req.route].idem
    /\ Table[req.route].class # "read" => req.reached = 1

\* The answer tells what the gateway knows of the call.  OK is an execution that the
\* service reported; a typed error arrives under the service's own code (ToGRPC,
\* FromGRPC); 503 is what a caller reads when the service said nothing, and when it
\* broke off with an error of no type the answer is 500.  So whoever reads an answer
\* below 500 to a write, and it is not OK, knows that nothing was committed, unless the
\* method is one that refuses after a write; after 500 and 503 the write may be there
\* (CreateTransfer: the row, even the posting, before Drive's error) and has to be asked
\* for again with its key.
AnswerIsHonest ==
  req.at = "done" /\ req.route # "" =>
    /\ req.answer = "OK" => req.reply = "OK" /\ req.reached > 0
    /\ req.reply \in Code => req.answer = req.reply
    /\ req.tries > 0 /\ req.reply \in {"none", "deadline"} => httpStatus(req.answer) = 503
    /\ req.reply = "other" => httpStatus(req.answer) = 500
    /\ req.reached > 0 /\ req.answer # "OK" /\ Table[req.route].class # "read" =>
         httpStatus(req.answer) >= 500 \/ Method(req.route) \in WriteThenRefuse

\* While some caller has a token of the key in place, calls on protected routes reach
\* their service again and again: neither a replaced key, whose id is fetched once in
\* ten seconds, nor failed fetches, the limiter or an open breaker lock callers out.
CallersComeThrough ==
  <>[](\E t \in tokens : t.kid = Kid) =>
    []<>(/\ req.at = "done" /\ req.tries > 0 /\ req.answer # "UPSTREAM_UNAVAILABLE"
         /\ Table[req.route].roles # {} /\ req.token.kid = Kid)
=============================================================================
