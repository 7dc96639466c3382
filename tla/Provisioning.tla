---------------------------- MODULE Provisioning ----------------------------
(***************************************************************************)
(* runCanonicalOrganizationProvisioning (services/                         *)
(* organizationProvisioningCore.js): the sequence of requests to Logto     *)
(* that creates an organization, configures its just-in-time provisioning  *)
(* and makes each administrative contact a member with a role.  Nothing    *)
(* is undone when a request fails, and a repeated POST is a provisioning   *)
(* of its own.                                                             *)
(*                                                                         *)
(* The contacts of a provisioning are resolved by UserResolution: a        *)
(* contact is its call of createOrResolveLogtoUserByEmail, and the         *)
(* provisioning waits while that call is in flight.  An organization is    *)
(* named by the provisioning that created it.                              *)
(***************************************************************************)
EXTENDS UserResolution, Sequences

CONSTANTS
  Provisionings,  \* POST /owner/organizations requests that pass validation
  ContactsOf,     \* administrativeContacts of each, in order
  Roles,          \* organization role names
  RoleOf,         \* organizationRoleName of each contact
  JitRoles,       \* jitProvisioning.defaultRoleNames
  Template        \* the roles Logto's organization template defines

\* getAdministrativeContactUniquenessErrors
UniqueEmails(contacts) ==
  \A i, j \in DOMAIN contacts :
    i # j => Wanted[contacts[i]].email # Wanted[contacts[j]].email

ASSUME ProvisioningAssumption ==
  /\ ContactsOf \in [Provisionings -> Seq(Calls) \ {<<>>}]
  /\ RoleOf \in [Calls -> Roles]
  /\ JitRoles \in (SUBSET Roles) \ {{}}
  /\ Template \subseteq Roles
  /\ \A p \in Provisionings : UniqueEmails(ContactsOf[p])
  \* A contact is one call.
  /\ \A p, r \in Provisionings : \A i \in DOMAIN ContactsOf[p], j \in DOMAIN ContactsOf[r] :
       ContactsOf[p][i] = ContactsOf[r][j] => p = r

VARIABLES
  stage,   \* per provisioning: its next request
  at,      \* per provisioning: the contact it is at
  org,     \* organizations in Logto: domains, JIT roles, members, role grants
  listed   \* per provisioning: administrativeContactAssignments

resolution == <<account, pc, found, omit, suffix, result, disturbed, faulty>>
provisioningVars == <<resolution, faults, stage, at, org, listed>>

NewOrg == [domain |-> FALSE, jit |-> {}, members |-> {}, grants |-> {}]
Required(p) == JitRoles \cup {RoleOf[ContactsOf[p][i]] : i \in DOMAIN ContactsOf[p]}
Contact(p) == ContactsOf[p][at[p]]
UserOf(c) == result[c].user

InitProvisioning ==
  /\ Init
  /\ stage = [p \in Provisionings |-> "template"]
  /\ at = [p \in Provisionings |-> 1]
  /\ org = <<>>
  /\ listed = [p \in Provisionings |-> {}]

-----------------------------------------------------------------------------
(***************************************************************************)
(* What each request does to Logto when it is executed (external), and     *)
(* where the code goes when it is answered.                                *)
(***************************************************************************)
Proceed(p, s) == stage' = [stage EXCEPT ![p] = s]

CreateOrganization(p) ==
  org' = [o \in DOMAIN org \cup {p} |-> IF o = p THEN NewOrg ELSE org[o]]
ReplaceJitDomains(p) == org' = [org EXCEPT ![p].domain = TRUE]
ReplaceJitRoles(p)   == org' = [org EXCEPT ![p].jit = JitRoles]
AddMember(p)  == org' = [org EXCEPT ![p].members = @ \cup {UserOf(Contact(p))}]
GrantRole(p)  ==
  org' = [org EXCEPT ![p].grants = @ \cup {<<UserOf(Contact(p)), RoleOf[Contact(p)]>>}]

Effect(p) ==
  CASE stage[p] = "organization" -> CreateOrganization(p)
    [] stage[p] = "jit_domains"  -> ReplaceJitDomains(p)
    [] stage[p] = "jit_roles"    -> ReplaceJitRoles(p)
    [] stage[p] = "member"       -> AddMember(p)
    [] stage[p] = "grant"        -> GrantRole(p)
    [] OTHER                     -> UNCHANGED org

Request(p, s, next) ==
  /\ stage[p] = s
  /\ Effect(p)
  /\ Proceed(p, next)
  /\ UNCHANGED <<resolution, faults, at, listed>>

\* The template is not checked before the organization is created.
SkipTemplate(p) == Request(p, "template", "organization")

\* ensureOrganizationTemplate: 424 when a required role is missing.
EnsureTemplate(p) ==
  Request(p, "template", IF Required(p) \subseteq Template THEN "organization" ELSE "failed")

Organization(p) == Request(p, "organization", "jit_role_ids")

\* findOrganizationRoleByName of each default role: reads.
JitRoleIds(p) == Request(p, "jit_role_ids", "jit_domains")
JitDomains(p) == Request(p, "jit_domains", "jit_roles")
JitDefaultRoles(p) == Request(p, "jit_roles", "resolve")

\* createOrResolveLogtoUserByEmail is called for the contact ...
Resolve(p) ==
  /\ stage[p] = "resolve"
  /\ Begin(Contact(p))
  /\ Proceed(p, "resolving")
  /\ UNCHANGED <<at, org, listed>>

\* A contact that cannot be resolved is skipped.
ResolvedOrSkipped(p) ==
  /\ stage[p] = "resolving"
  /\ \/ pc[Contact(p)] = "returned" /\ Proceed(p, "role") /\ UNCHANGED at
     \/ /\ pc[Contact(p)] = "threw"
        /\ IF at[p] < Len(ContactsOf[p])
             THEN at' = [at EXCEPT ![p] = @ + 1] /\ Proceed(p, "resolve")
             ELSE Proceed(p, "done") /\ UNCHANGED at
  /\ UNCHANGED <<resolution, faults, org, listed>>

\* The rejection of the call is not awaited.
ResolvedReturnsOnly(p) ==
  /\ stage[p] = "resolving"
  /\ pc[Contact(p)] = "returned"
  /\ Proceed(p, "role")
  /\ UNCHANGED <<resolution, faults, at, org, listed>>

\* ... and settles.
Resolved(p) ==
  /\ stage[p] = "resolving"
  /\ \/ pc[Contact(p)] = "returned" /\ Proceed(p, "role")
     \/ pc[Contact(p)] = "threw" /\ Proceed(p, "failed")
  /\ UNCHANGED <<resolution, faults, at, org, listed>>

\* The role is granted without the membership.
RoleThenGrant(p) == Request(p, "role", "grant")

\* findOrganizationRoleByName: a read.
Role(p) == Request(p, "role", "member")
Member(p) == Request(p, "member", "grant")

\* The loop goes one contact too far.
GrantPastTheEnd(p) ==
  /\ stage[p] = "grant"
  /\ Effect(p)
  /\ listed' = [listed EXCEPT ![p] = @ \cup {Contact(p)}]
  /\ IF at[p] <= Len(ContactsOf[p])
       THEN at' = [at EXCEPT ![p] = @ + 1] /\ Proceed(p, "resolve")
       ELSE Proceed(p, "done") /\ UNCHANGED at
  /\ UNCHANGED <<resolution, faults>>

\* The assignment is listed; on to the next contact or to the answer.
Grant(p) ==
  /\ stage[p] = "grant"
  /\ Effect(p)
  /\ listed' = [listed EXCEPT ![p] = @ \cup {Contact(p)}]
  /\ IF at[p] < Len(ContactsOf[p])
       THEN at' = [at EXCEPT ![p] = @ + 1] /\ Proceed(p, "resolve")
       ELSE Proceed(p, "done") /\ UNCHANGED at
  /\ UNCHANGED <<resolution, faults>>

\* A request fails; Logto may have executed it.  The error leaves the function
\* and the route answers with it: no organization is removed.
RequestFails(p) ==
  /\ stage[p] \notin {"resolve", "resolving", "done", "failed"}
  /\ faults < MaxFaults
  /\ faults' = faults + 1
  /\ Effect(p) \/ UNCHANGED org
  /\ Proceed(p, "failed")
  /\ UNCHANGED <<resolution, at, listed>>

ProvisioningStep(p) ==
  \/ EnsureTemplate(p) \/ Organization(p) \/ JitRoleIds(p) \/ JitDomains(p)
  \/ JitDefaultRoles(p) \/ Resolve(p) \/ Resolved(p) \/ Role(p) \/ Member(p) \/ Grant(p)

ResolutionStep(c) ==
  /\ Step(c) \/ Fails(c)
  /\ UNCHANGED <<stage, at, org, listed>>

NextProvisioning ==
  \/ \E p \in Provisionings : ProvisioningStep(p) \/ RequestFails(p)
  \/ \E c \in Calls : ResolutionStep(c)

ProvisioningSpec == InitProvisioning /\ [][NextProvisioning]_provisioningVars

(***************************************************************************)
(* Every request ends: until its headers by withTimeout (8 s), after them  *)
(* by the fetch implementation's own limit on a silent body.  So a          *)
(* provisioning that has begun goes on; the calls of its contacts as well. *)
(***************************************************************************)
Fairness ==
  /\ \A p \in Provisionings : WF_provisioningVars(ProvisioningStep(p))
  /\ \A c \in Calls : WF_provisioningVars(ResolutionStep(c))

FairSpec == ProvisioningSpec /\ Fairness

-----------------------------------------------------------------------------
(***************************************************************************)
(* Properties.                                                             *)
(***************************************************************************)
Stages == {"template", "organization", "jit_role_ids", "jit_domains", "jit_roles", "resolve",
           "resolving", "role", "member", "grant", "done", "failed"}

\* Every variable of the sequence keeps its type.
ProvisioningTypeOK ==
  /\ stage \in [Provisionings -> Stages]
  /\ \A p \in Provisionings : at[p] \in DOMAIN ContactsOf[p]
  /\ DOMAIN org \in SUBSET Provisionings
  /\ \A p \in DOMAIN org :
       org[p] \in [domain: BOOLEAN, jit: SUBSET Roles, members: SUBSET Accounts,
                   grants: SUBSET (Accounts \X Roles)]
  /\ listed \in [Provisionings -> SUBSET Calls]

\* The contact is a member of the organization and has its role.
Admitted(p, c) ==
  /\ UserOf(c) \in org[p].members
  /\ <<UserOf(c), RoleOf[c]>> \in org[p].grants
  /\ UserOf(c) \in DOMAIN account /\ account[UserOf(c)].email = Wanted[c].email

\* An answer of 201 is true: the organization has its domain and default roles,
\* and every contact that was asked for, whoever created or changed its account
\* meanwhile, is a member with its role under its own email.
FinishedIsComplete ==
  \A p \in Provisionings : stage[p] = "done" =>
    /\ p \in DOMAIN org /\ org[p].domain /\ org[p].jit = JitRoles
    /\ \A i \in DOMAIN ContactsOf[p] : Admitted(p, ContactsOf[p][i])
    /\ listed[p] = {ContactsOf[p][i] : i \in DOMAIN ContactsOf[p]}

\* Whatever fails, nobody but the contacts gets into an organization: its
\* members and role holders are accounts with the emails of its contacts, and
\* a role is held by members only, with the role of the contact.
OnlyContactsAdmitted ==
  \A p \in DOMAIN org :
    /\ \A u \in org[p].members :
         \E i \in DOMAIN ContactsOf[p] :
           u \in DOMAIN account /\ account[u].email = Wanted[ContactsOf[p][i]].email
    /\ \A g \in org[p].grants :
         /\ g[1] \in org[p].members
         /\ \E i \in DOMAIN ContactsOf[p] :
              account[g[1]].email = Wanted[ContactsOf[p][i]].email /\ g[2] = RoleOf[ContactsOf[p][i]]

\* A provisioning that was abandoned left a prefix of the work: members only
\* behind a configured organization, a contact only behind its predecessors;
\* and no organization at all if the template lacks a role.
AbandonedIsPrefix ==
  \A p \in DOMAIN org :
    /\ Required(p) \subseteq Template
    /\ org[p].members # {} => org[p].domain /\ org[p].jit = JitRoles
    /\ \A j \in DOMAIN ContactsOf[p] :
         UserOf(ContactsOf[p][j]) \in org[p].members =>
           \A i \in 1..(j - 1) : Admitted(p, ContactsOf[p][i])

\* Every provisioning is answered, with an organization or an error.
EveryProvisioningEnds ==
  \A p \in Provisionings : <>(stage[p] \in {"done", "failed"})
=============================================================================
