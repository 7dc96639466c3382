---------------------------- MODULE Authorization ----------------------------
(***************************************************************************)
(* What the API makes of an access token (middleware/auth.js, index.js's   *)
(* requireOwner) and what the dashboard makes of GET /me                   *)
(* (authz/rbacMatrix.ts).                                                  *)
(*                                                                         *)
(* A token is a record of its claims, with state "good", "expired" or      *)
(* "forged" for what jwtVerify (external) says of it; a header without a   *)
(* bearer token is NoBearer.  Role and scope claims are the sets that       *)
(* extractGlobalRoleNames and parseScopes read them as.                    *)
(***************************************************************************)
CONSTANTS
  NoBearer,   \* the Authorization header is missing or not a bearer token
  NoOrg       \* no organization in the claims

Owner == "owner_global"
API_RESOURCE == "https://api.civitas.example"

(* aud is that of the API or names an organization, as                     *)
(* urn:logto:organization:<id>.                                            *)
OrganizationOf(token) ==
  IF token.organization # NoOrg THEN token.organization
  ELSE IF token.aud = API_RESOURCE THEN NoOrg ELSE token.aud

-----------------------------------------------------------------------------
(* What a guard says of a request before it asks jwtVerify: the status of  *)
(* a refusal, or 0.                                                        *)
RefusedAtOnce(guard, bearer) ==
  \/ guard # "none" /\ bearer = NoBearer
  \/ guard = "organization" /\ OrganizationOf(bearer) = NoOrg

(* requireOrganizationAccess verifies against the audience it has read     *)
(* from the token itself.                                                  *)
Verifies(guard, bearer) ==
  /\ bearer.state = "good"
  /\ guard # "organization" => bearer.aud = API_RESOURCE

(* What is asked of a verified token.  No route names an organization or a *)
(* role to requireOrganizationAccess.                                      *)
RequireOwner(bearer) == Owner \in bearer.globalRoles
HasRequiredScopes(scopes, bearer) == scopes \subseteq bearer.scopes

Forbidden(guard, scopes, bearer) ==
  \/ guard = "owner" /\ ~RequireOwner(bearer)
  \/ guard = "organization" /\ ~HasRequiredScopes(scopes, bearer)

-----------------------------------------------------------------------------
(* buildMeResponse, and evaluateCapabilityRule for a rule that may demand  *)
(* global roles, one of some scopes, and the authority to write as owner.  *)
Me(bearer) ==
  [scopes |-> bearer.scopes, globalRoles |-> bearer.globalRoles,
   canReadOwner |-> Owner \in bearer.globalRoles,
   canWriteOwner |-> Owner \in bearer.globalRoles]

Rule(globalRoles, ownerScopes, ownerWrite) ==
  [globalRoles |-> globalRoles, ownerScopes |-> ownerScopes, ownerWrite |-> ownerWrite]

(* Only an authority to write is asked for.                                *)
EvaluateWithoutRoles(rule, me) ==
  /\ rule.ownerScopes = {} \/ rule.ownerScopes \cap me.scopes # {}
  /\ rule.ownerWrite => me.canWriteOwner \/ "owner:write" \in me.scopes

EvaluateCapabilityRule(rule, me) ==
  /\ rule.globalRoles \subseteq me.globalRoles
  /\ rule.ownerScopes = {} \/ rule.ownerScopes \cap me.scopes # {}
  /\ rule.ownerWrite => me.canWriteOwner \/ "owner:write" \in me.scopes

CanCreateOrganizations(me) == EvaluateCapabilityRule(Rule({Owner}, {}, TRUE), me)
=============================================================================
