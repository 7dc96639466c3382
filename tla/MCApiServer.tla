---------------------------- MODULE MCApiServer ----------------------------
(* One address: an owner's dashboard, the dashboard of a user who has an   *)
(* owner's scope and not the role, and a request that asks Logto first and *)
(* awaits Redis and PostgreSQL then.                                       *)
EXTENDS ApiServer

Token(roles, scopes) ==
  [state |-> "good", aud |-> API_RESOURCE, organization |-> NoOrg, scopes |-> scopes, globalRoles |-> roles]

MCSession == [t \in Tabs |-> IF t = "t1" THEN Token({Owner}, {}) ELSE Token({}, {"owner:write"})]
MCAddress == [t \in Tabs |-> "a1"]
Request(route) == [route |-> route, bearer |-> Token({Owner}, {}), address |-> "a1", header |-> NoOrg]
MCOthers == [o1 |-> Request("workerQueues")]
MCKeys == {KeyOf(r) : r \in Requests}
MCMax == [k \in MCKeys |-> 2]
=============================================================================
