------------------------------ MODULE ApiServer ------------------------------
(***************************************************************************)
(* The way of a request through the API (index.js and what secureRoute     *)
(* puts before a handler): body parser, rate limiter, authentication and   *)
(* authorization, the handler and its calls of the Logto Management API,   *)
(* the answer.  Some of the requests are the dashboard's                   *)
(* (pages/App/Dashboard.tsx): GET /me, and once that is answered with an   *)
(* owner's authority, GET /owner/organizations.                            *)
(*                                                                         *)
(* POST /owner/organizations is Provisioning's handler; what               *)
(* createOperation does is OperationPipeline's.                            *)
(***************************************************************************)
EXTENDS RateLimiter, ManagementClient, Authorization

CONSTANTS
  Tabs,           \* dashboards being loaded
  Session,        \* the access token of each
  Address,        \* the address of each
  Others,         \* other requests: their route, bearer, address and organization header
  VerifyTimeout,  \* LOGTO_JWT_VERIFY_TIMEOUT_MS
  MaxTime         \* bounds the time at which requests are sent

VARIABLE
  req  \* each request: its stage, when that began, its status, the calls left to make

vars == <<now, buckets, log, cache, call, req>>

(* Each request makes its calls one after the other.                       *)
Requests == (Tabs \X {"me", "organizations"}) \cup ((DOMAIN Others) \X {"other"})

-----------------------------------------------------------------------------
(* The routes, with the policy profile, the guards and the number of calls *)
(* of the Management API of each, and those that await Redis or PostgreSQL *)
(* besides.                                                                *)
Route(policy, guard, calls) ==
  [policy |-> policy, guard |-> guard, scopes |-> {}, calls |-> calls, backend |-> FALSE]

WithBackend(route) == [route EXCEPT !.backend = TRUE]

Routes ==
  [health |-> WithBackend(Route("publicLowRisk", "none", 0)),
   root |-> Route("publicLowRisk", "none", 0),
   me |-> Route("authenticatedRead", "auth", 0),
   ownerMe |-> Route("authenticatedRead", "owner", 0),
   organizations |-> Route("authenticatedRead", "owner", 1),
   template |-> Route("authenticatedRead", "owner", 2),
   operationalState |-> WithBackend(Route("authenticatedRead", "owner", 1)),
   workerQueues |-> WithBackend(Route("authenticatedRead", "owner", 1)),
   registry |-> WithBackend(Route("authenticatedRead", "owner", 0)),
   operations |-> WithBackend(Route("operationalTrigger", "owner", 0)),
   documents |-> [Route("organizationMemberRead", "organization", 0) EXCEPT !.scopes = {"read:documents"}],
   createDocument |-> [Route("organizationAdminWrite", "organization", 0) EXCEPT !.scopes = {"create:documents"}]]

(* What a dashboard sends: no organization header, no body.                *)
Sent(r) ==
  IF r[2] = "other" THEN Others[r[1]]
  ELSE [route |-> r[2], bearer |-> Session[r[1]], address |-> Address[r[1]], header |-> NoOrg]

RouteOf(r) == Routes[Sent(r).route]

(* createIdentityKey.  It runs before requireAuth, so that req.user is not *)
(* set and the subject is the address; profiles count apart.               *)
KeyOf(r) ==
  LET policy == RouteOf(r).policy
      byOrganization == policy \in {"organizationMemberRead", "organizationAdminWrite", "operationalTrigger"}
  IN <<policy, IF byOrganization THEN Sent(r).header ELSE NoOrg, Sent(r).address>>

ASSUME ApiAssumption ==
  /\ Callers = Requests
  /\ \A r \in Requests : KeyOf(r) \in Keys
  /\ \A o \in DOMAIN Others : Others[o].route \in DOMAIN Routes
  /\ VerifyTimeout \in Nat \ {0}

-----------------------------------------------------------------------------
Init ==
  /\ InitLimiter
  /\ cache = NoToken /\ call = [c \in Callers |-> NoCall]
  /\ req = [r \in Requests |-> [at |-> "unsent", since |-> 0, status |-> 0, left |-> 0]]

Goes(r, stage, left) ==
  req' = [req EXCEPT ![r] = [at |-> stage, since |-> IF stage = "verifying" THEN now ELSE 0,
                             status |-> 0, left |-> left]]

AnswerWith(r, status) ==
  req' = [req EXCEPT ![r] = [at |-> "answered", since |-> 0, status |-> status, left |-> 0]]

(* What a handler does when it needs nothing more of Logto: it answers, or *)
(* awaits Redis and PostgreSQL.                                            *)
Complete(r) ==
  IF RouteOf(r).backend THEN Goes(r, "backend", 0) ELSE AnswerWith(r, 200)

(* The handler of an admitted request begins.                              *)
Handle(r) ==
  IF RouteOf(r).calls = 0 THEN Complete(r) /\ UNCHANGED <<cache, call>>
  ELSE Goes(r, "calling", RouteOf(r).calls) /\ Begin(r)

(* A body that is no JSON is answered before the limiter has counted the   *)
(* request.  The dashboard sends none.                                     *)
ParseFails(r) ==
  /\ r[2] = "other" /\ Sent(r).route # "health"
  /\ AnswerWith(r, 400)
  /\ UNCHANGED <<buckets, log, cache, call>>

Passes(r) ==
  /\ Limit(KeyOf(r))
  /\ IF ~Admits(KeyOf(r)) THEN AnswerWith(r, 429) /\ UNCHANGED <<cache, call>>
     ELSE IF RefusedAtOnce(RouteOf(r).guard, Sent(r).bearer)
     THEN AnswerWith(r, 401) /\ UNCHANGED <<cache, call>>
     ELSE IF RouteOf(r).guard = "none" THEN Handle(r)
     ELSE Goes(r, "verifying", 0) /\ UNCHANGED <<cache, call>>

(* The dashboard asks for the organizations of those who may create one.   *)
Wants(r) ==
  r[2] = "organizations" =>
    /\ req[<<r[1], "me">>].status = 200
    /\ CanCreateOrganizations(Me(Session[r[1]]))

Send(r) ==
  /\ req[r].at = "unsent" /\ Wants(r) /\ now <= MaxTime
  /\ ParseFails(r) \/ Passes(r)
  /\ UNCHANGED now

(* verifyJwt, and what requireOwner or requireOrganizationAccess add.      *)
Verified(r) ==
  /\ req[r].at = "verifying"
  /\ Verifies(RouteOf(r).guard, Sent(r).bearer)
  /\ IF Forbidden(RouteOf(r).guard, RouteOf(r).scopes, Sent(r).bearer)
     THEN AnswerWith(r, 403) /\ UNCHANGED <<cache, call>>
     ELSE Handle(r)
  /\ UNCHANGED <<now, buckets, log>>

(* The token is not accepted, or the keys cannot be had: an error without  *)
(* a status is a 401, too.                                                 *)
VerifyFails(r) ==
  /\ req[r].at = "verifying"
  /\ AnswerWith(r, 401)
  /\ UNCHANGED <<now, buckets, log, cache, call>>

VerifyTimesOut(r) ==
  /\ req[r].at = "verifying" /\ now >= req[r].since + VerifyTimeout
  /\ AnswerWith(r, 504)
  /\ UNCHANGED <<now, buckets, log, cache, call>>

-----------------------------------------------------------------------------
(* The Management API: the calls under way, and their return.  The handler *)
(* passes an error's status on; an error without one is a 500, and stands  *)
(* here for Logto's other statuses, too.  That Logto refuses the server's  *)
(* own credentials (401, 403) is a matter of configuration and left out.   *)
(* Only the route of the worker's queues does without its organizations.   *)
CallMoves(r) ==
  /\ req[r].at = "calling"
  /\ ClientStep(r) /\ call[r].at \notin Ended
  /\ UNCHANGED <<now, buckets, log, req>>

Failure == [unauthorized |-> 401, failed |-> 500, timeout |-> 504]

Returns(r) ==
  /\ req[r].at = "calling" /\ call[r].at \in Ended
  /\ IF call[r].at # "ok" /\ Sent(r).route # "workerQueues"
     THEN AnswerWith(r, Failure[call[r].at]) /\ Dismiss(r)
     ELSE IF req[r].left > 1
     THEN Goes(r, "calling", req[r].left - 1) /\ Begin(r)
     ELSE Complete(r) /\ Dismiss(r)
  /\ UNCHANGED <<now, buckets, log>>

(* Redis and PostgreSQL have answered, or failed.  Nothing says that they  *)
(* do: a command waits for Redis to come back, without a limit             *)
(* (maxRetriesPerRequest null), and a query that has a connection has no   *)
(* timer.  The check of the health reports a failure as 503.               *)
BackendReturns(r) ==
  /\ req[r].at = "backend"
  /\ \/ AnswerWith(r, 200)
     \/ AnswerWith(r, IF Sent(r).route = "health" THEN 503 ELSE 500)
  /\ UNCHANGED <<now, buckets, log, cache, call>>

(* Timers fire when they are due, and past MaxTime the clock runs on only  *)
(* for them.                                                               *)
TimerRuns ==
  \/ \E r \in Requests : req[r].at = "verifying"
  \/ \E c \in Callers : call[c].at \in {"token", "tokenBody", "sent"}

Tick ==
  /\ InTime
  /\ \A r \in Requests : req[r].at = "verifying" => now < req[r].since + VerifyTimeout
  /\ now < MaxTime \/ TimerRuns
  /\ now' = now + 1
  /\ UNCHANGED <<buckets, log, cache, call, req>>

ServerStep(r) ==
  \/ Verified(r) \/ VerifyFails(r) \/ VerifyTimesOut(r)
  \/ CallMoves(r) \/ Returns(r) \/ BackendReturns(r)

Next ==
  \/ \E r \in Requests : Send(r) \/ ServerStep(r)
  \/ Tick

(* Fairness: timers, the process itself and, as MaxBody says, the body of  *)
(* a token.  Nothing is assumed of Logto's other answers, and nothing of   *)
(* Redis and PostgreSQL.                                                   *)
OwnStep(r) ==
  \/ VerifyTimesOut(r) \/ Returns(r)
  \/ /\ req[r].at = "calling" /\ TimesOut(r)
     /\ UNCHANGED <<now, buckets, log, req>>
  \/ /\ req[r].at = "calling" /\ TokenRead(r)
     /\ UNCHANGED <<now, buckets, log, req>>

Spec == Init /\ [][Next]_vars
FairSpec == Spec /\ WF_vars(Tick \/ \E r \in Requests : OwnStep(r))

-----------------------------------------------------------------------------
(* Properties.                                                             *)

(* A caller whose own token was accepted is never told that he is          *)
(* unauthorized: he would be, if the server's token had expired on its way *)
(* to Logto, since the handlers pass Logto's status on.                    *)
VerifiedIsNotUnauthorized ==
  /\ TokenIsLive
  /\ \A r \in Requests : call[r].at # "unauthorized"

(* What the dashboard offers, or asks for on its own, the API allows: the  *)
(* frontend's rule is as strict as requireOwner.                           *)
OfferedIsAllowed ==
  \A t \in Tabs : req[<<t, "organizations">>].status # 403

(* Every request comes to an answer, or to one of the two awaits that have *)
(* no timer of the program's: a body of Logto's, since withTimeout ends    *)
(* when the headers have come, and Redis or PostgreSQL.  The verification, *)
(* the server's own token and the headers of each call cannot keep it.     *)
RequestsEnd ==
  \A r \in Requests :
    req[r].at # "unsent" ~>
      \/ req[r].at = "answered"
      \/ call[r].at \in {"body", "denied"}
      \/ req[r].at = "backend" /\ RouteOf(r).backend
=============================================================================
