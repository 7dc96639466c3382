------------------------- MODULE ProvisioningProofs -------------------------
(***************************************************************************)
(* The safety properties of Provisioning for any number of provisionings,  *)
(* contacts, roles and concurrent calls of UserResolution, whose invariant *)
(* IInv holds of the composition as well.                                  *)
(*                                                                         *)
(* Facts(p) adds to the properties how far a provisioning is: which calls  *)
(* of its contacts have returned and which have not begun, what has been   *)
(* done to its organization before each request, and which contact every   *)
(* member came with.  The steps of others and of the calls leave it alone  *)
(* (Frame), because calls that have returned keep their account and an     *)
(* account keeps its email.                                                *)
(***************************************************************************)
EXTENDS Provisioning, UserResolutionProofs, SequenceTheorems, FiniteSetTheorems

Before == {"template", "organization", "jit_role_ids", "jit_domains", "jit_roles", "resolve"}
After == {"role", "member", "grant", "done"}

\* A contact that the provisioning has dealt with has its account, a later
\* one has not been looked at.
ContactFacts(p) ==
  /\ \A i \in DOMAIN ContactsOf[p] :
       /\ i < at[p] => pc[ContactsOf[p][i]] = "returned"
       /\ i > at[p] => pc[ContactsOf[p][i]] = "idle"
  /\ stage[p] \in Before => pc[Contact(p)] = "idle"
  /\ stage[p] \in After => pc[Contact(p)] = "returned"

\* The contact is a member with its role.
Joined(p, c) ==
  /\ pc[c] = "returned"
  /\ UserOf(c) \in org[p].members
  /\ <<UserOf(c), RoleOf[c]>> \in org[p].grants

\* What the requests before the present one have done.
StageFacts(p) ==
  /\ stage[p] \in {"template", "organization"} => p \notin DOMAIN org /\ at[p] = 1
  /\ stage[p] \notin {"template", "organization", "failed"} => p \in DOMAIN org
  /\ stage[p] = "organization" \/ p \in DOMAIN org => Required(p) \subseteq Template
  /\ stage[p] \in {"jit_roles", "resolve", "resolving"} \cup After => org[p].domain
  /\ stage[p] \in {"resolve", "resolving"} \cup After => org[p].jit = JitRoles
  /\ at[p] > 1 => p \in DOMAIN org
  /\ stage[p] = "grant" => UserOf(Contact(p)) \in org[p].members
  /\ stage[p] = "done" => at[p] = Len(ContactsOf[p]) /\ Joined(p, Contact(p))

\* Where members and grants come from, when p is at its n-th contact.
Members(p, n) ==
  p \in DOMAIN org =>
    /\ org[p].members # {} => org[p].domain /\ org[p].jit = JitRoles
    /\ \A u \in org[p].members :
         \E i \in DOMAIN ContactsOf[p] :
           i <= n /\ pc[ContactsOf[p][i]] = "returned" /\ u = UserOf(ContactsOf[p][i])
    /\ \A g \in org[p].grants :
         /\ g[1] \in org[p].members
         /\ \E i \in DOMAIN ContactsOf[p] :
              /\ pc[ContactsOf[p][i]] = "returned"
              /\ g = <<UserOf(ContactsOf[p][i]), RoleOf[ContactsOf[p][i]]>>
    /\ \A i \in DOMAIN ContactsOf[p] : i < n => Joined(p, ContactsOf[p][i])

MemberFacts(p) == Members(p, at[p])

ListedFacts(p) ==
  listed[p] = {ContactsOf[p][i] : i \in {j \in DOMAIN ContactsOf[p] : j < at[p] \/ stage[p] = "done"}}

Facts(p) == ContactFacts(p) /\ StageFacts(p) /\ MemberFacts(p) /\ ListedFacts(p)

\* A call that has not returned has no account.
Unresolved == \A c \in Calls : pc[c] # "returned" => UserOf(c) = NoAccount

ProvisioningInv ==
  /\ IInv
  /\ ProvisioningTypeOK
  /\ at \in [Provisionings -> Nat]
  /\ Unresolved
  /\ \A p \in Provisionings : Facts(p)

-----------------------------------------------------------------------------
\* The contacts of a provisioning are calls of its own.
LEMMA Contacts ==
  ASSUME NEW p \in Provisionings
  PROVE  /\ Len(ContactsOf[p]) \in Nat \ {0}
         /\ DOMAIN ContactsOf[p] = 1..Len(ContactsOf[p])
         /\ \A i \in DOMAIN ContactsOf[p] : ContactsOf[p][i] \in Calls
         /\ \A i, j \in DOMAIN ContactsOf[p] : i # j => ContactsOf[p][i] # ContactsOf[p][j]
         /\ \A r \in Provisionings :
              \A i \in DOMAIN ContactsOf[p], j \in DOMAIN ContactsOf[r] :
                ContactsOf[p][i] = ContactsOf[r][j] => p = r
<1>1. ContactsOf[p] \in Seq(Calls) /\ ContactsOf[p] # <<>>
  BY ProvisioningAssumption
<1>2. UniqueEmails(ContactsOf[p])
  BY ProvisioningAssumption
<1>3. /\ Len(ContactsOf[p]) \in Nat /\ DOMAIN ContactsOf[p] = 1..Len(ContactsOf[p])
      /\ \A i \in DOMAIN ContactsOf[p] : ContactsOf[p][i] \in Calls
  BY <1>1
<1>4. Len(ContactsOf[p]) # 0
  BY <1>1, EmptySeq
<1>5. \A i, j \in DOMAIN ContactsOf[p] : i # j => ContactsOf[p][i] # ContactsOf[p][j]
  BY <1>2 DEF UniqueEmails
<1> QED
  BY <1>3, <1>4, <1>5, ProvisioningAssumption

\* What a step of somebody else leaves alone.
Frame(r) ==
  /\ stage'[r] = stage[r] /\ at'[r] = at[r] /\ listed'[r] = listed[r]
  /\ r \in DOMAIN org' <=> r \in DOMAIN org
  /\ r \in DOMAIN org => org'[r] = org[r]
  /\ \A i \in DOMAIN ContactsOf[r] :
       pc[ContactsOf[r][i]] \in {"idle", "returned"} =>
         /\ pc'[ContactsOf[r][i]] = pc[ContactsOf[r][i]]
         /\ result'[ContactsOf[r][i]] = result[ContactsOf[r][i]]

LEMMA FrameKeeps ==
  ASSUME NEW r \in Provisionings, Facts(r), Frame(r), at[r] \in DOMAIN ContactsOf[r],
         stage[r] \in Stages
  PROVE  Facts(r)'
<1> DEFINE C == ContactsOf[r]
<1>1. ContactFacts(r)'
  BY DEF Facts, ContactFacts, Frame, Contact, Before, After
<1>2. \A i \in DOMAIN C : r \in DOMAIN org /\ Joined(r, C[i]) => Joined(r, C[i])'
  BY DEF Frame, Joined, UserOf
<1>3. Contact(r)' = Contact(r) /\ Contact(r) = C[at[r]]
  BY DEF Frame, Contact
<1>4. StageFacts(r)'
  <2>1. stage[r] \in {"grant", "done"} => UserOf(Contact(r))' = UserOf(Contact(r)) /\ r \in DOMAIN org
    BY <1>3 DEF Facts, ContactFacts, StageFacts, Frame, UserOf, After
  <2>2. stage[r] = "done" => Joined(r, Contact(r))'
    BY <1>2, <1>3, <2>1 DEF Facts, StageFacts
  <2>3. (stage[r] = "grant" => UserOf(Contact(r)) \in org[r].members)'
    BY <2>1 DEF Facts, StageFacts, Frame
  <2> QED BY <2>2, <2>3 DEF Facts, StageFacts, Frame, After, Stages
<1>5. MemberFacts(r)'
  <2> SUFFICES ASSUME r \in DOMAIN org' PROVE MemberFacts(r)'
    BY DEF MemberFacts, Members
  <2>1. r \in DOMAIN org /\ org'[r] = org[r] /\ at'[r] = at[r]
    BY DEF Frame
  <2>2. \A i \in DOMAIN C : pc[C[i]] = "returned" => pc'[C[i]] = "returned" /\ UserOf(C[i])' = UserOf(C[i])
    BY DEF Frame, UserOf
  <2> QED BY <1>2, <2>1, <2>2 DEF Facts, MemberFacts, Members
<1>6. ListedFacts(r)'
  BY DEF Facts, ListedFacts, Frame
<1> QED BY <1>1, <1>4, <1>5, <1>6 DEF Facts

-----------------------------------------------------------------------------
\* The calls: every write is of the account and the email of its call.
LEMMA CallWrites ==
  ASSUME IInv, NEW c \in Calls, Step(c) \/ Fails(c)
  PROVE  \/ UNCHANGED account
         \/ pc[c] \in Writes /\ Store(c, WriteOf(c).user, WriteOf(c).data)
<1>1. CASE FindEmail(c) \/ FindPhoneOfFound(c) \/ FindPhone(c) \/ Relookup(c) \/ RefindPhone(c)
  BY <1>1 DEF FindEmail, FindPhoneOfFound, FindPhone, Relookup, RefindPhone
<1>2. CASE Update(c)
  BY <1>2 DEF Update, WriteOf, Writes
<1>3. CASE Create(c)
  BY <1>3 DEF Create, WriteOf, Writes
<1>4. CASE CreateWithoutPhone(c)
  BY <1>4 DEF CreateWithoutPhone, WriteOf, Writes
<1>5. CASE CreateSuffixed(c)
  BY <1>5 DEF CreateSuffixed, WriteOf, Writes
<1>6. CASE Fails(c)
  BY <1>6 DEF Fails
<1> QED BY <1>1, <1>2, <1>3, <1>4, <1>5, <1>6 DEF Step

LEMMA CallKeepsEmails ==
  ASSUME IInv, NEW c \in Calls, Step(c) \/ Fails(c)
  PROVE  EmailsKept
<1>1. CASE UNCHANGED account
  BY <1>1 DEF EmailsKept
<1>2. CASE pc[c] \in Writes /\ Store(c, WriteOf(c).user, WriteOf(c).data)
  <2> DEFINE u == WriteOf(c).user
             x == WriteOf(c).data
  <2>1. /\ u \in Accounts /\ x \in Payload /\ x.email = Wanted[c].email
        /\ u = c \/ HasEmail(u, x.email)
    BY <1>2, Written
  <2> HIDE DEF u, x
  <2>2. u \in DOMAIN account => account[u].email = x.email
    BY <2>1 DEF IInv, CreatedFacts, HasEmail
  <2>3. Store(c, u, x) /\ ResolutionTypeOK
    BY <1>2 DEF u, x, IInv
  <2> QED BY <2>1, <2>2, <2>3, StoreEffect
<1> QED BY <1>1, <1>2, CallWrites

\* A call moves itself only, and gets its account when it returns.
LEMMA CallMoves ==
  ASSUME ResolutionTypeOK, NEW c \in Calls, Step(c) \/ Fails(c)
  PROVE  /\ InFlight(c)
         /\ \A d \in Calls \ {c} : pc'[d] = pc[d] /\ result'[d] = result[d]
         /\ pc'[c] = "returned" \/ result'[c] = result[c]
<1> USE DEF ResolutionTypeOK, InFlight, Goto, Return, Throw
<1>1. CASE FindEmail(c) \/ FindPhoneOfFound(c) \/ FindPhone(c)
  BY <1>1 DEF FindEmail, FindPhoneOfFound, FindPhone
<1>2. CASE Update(c)
  BY <1>2 DEF Update
<1>3. CASE Create(c)
  BY <1>3 DEF Create
<1>4. CASE CreateWithoutPhone(c)
  BY <1>4 DEF CreateWithoutPhone
<1>5. CASE CreateSuffixed(c)
  BY <1>5 DEF CreateSuffixed
<1>6. CASE Fails(c)
  BY <1>6 DEF Fails
<1>7. CASE Relookup(c) \/ RefindPhone(c)
  BY <1>7 DEF Relookup, RefindPhone
<1> QED BY <1>1, <1>2, <1>3, <1>4, <1>5, <1>6, <1>7 DEF Step

\* Failed requests of the provisionings only count.
LEMMA FaultsOnly ==
  ASSUME IInv, UNCHANGED resolution, faults' \in 0..MaxFaults
  PROVE  IInv'
BY DEF resolution, IInv, ResolutionTypeOK, ResolvedByEmail, FoundFacts, CreatedFacts, NameFacts, HasEmail

LEMMA CallStep ==
  ASSUME ProvisioningInv, NEW c \in Calls, ResolutionStep(c)
  PROVE  ProvisioningInv'
<1>1. /\ Step(c) \/ Fails(c)
      /\ UNCHANGED <<stage, at, org, listed>>
  BY DEF ResolutionStep
<1>2. IInv /\ ResolutionTypeOK
  BY DEF ProvisioningInv, IInv
<1>3. IInv'
  BY <1>1, <1>2, NextInv DEF Next
<1>4. /\ InFlight(c)
      /\ \A d \in Calls \ {c} : pc'[d] = pc[d] /\ result'[d] = result[d]
      /\ pc'[c] = "returned" \/ result'[c] = result[c]
  BY <1>1, <1>2, CallMoves
<1>5. Unresolved'
  BY <1>4 DEF ProvisioningInv, Unresolved, UserOf, InFlight
<1>6. ASSUME NEW r \in Provisionings PROVE Facts(r)'
  <2>1. Frame(r)
    BY <1>1, <1>4, Contacts DEF Frame, InFlight
  <2> QED BY <2>1, FrameKeeps DEF ProvisioningInv, ProvisioningTypeOK
<1>7. ProvisioningTypeOK' /\ (at \in [Provisionings -> Nat])'
  BY <1>1 DEF ProvisioningInv, ProvisioningTypeOK
<1> QED BY <1>3, <1>5, <1>6, <1>7 DEF ProvisioningInv

-----------------------------------------------------------------------------
\* What the invariant needs of a step of provisioning p: the step is p's own,
\* and p's facts hold after it.
LEMMA OwnStep ==
  ASSUME ProvisioningInv, NEW p \in Provisionings, IInv', Unresolved',
         NEW s \in Stages, Proceed(p, s), p \in DOMAIN org => p \in DOMAIN org',
         at' \in [Provisionings -> Nat], at'[p] \in DOMAIN ContactsOf[p],
         listed' \in [Provisionings -> SUBSET Calls],
         DOMAIN org' \in SUBSET Provisionings,
         p \in DOMAIN org' =>
           org'[p] \in [domain: BOOLEAN, jit: SUBSET Roles, members: SUBSET Accounts,
                        grants: SUBSET (Accounts \X Roles)],
         \A r \in Provisionings \ {p} :
           /\ at'[r] = at[r] /\ listed'[r] = listed[r]
           /\ r \in DOMAIN org' <=> r \in DOMAIN org
           /\ r \in DOMAIN org => org'[r] = org[r],
         \A c \in Calls \ {Contact(p)} : pc'[c] = pc[c],
         UNCHANGED result,
         Facts(p)'
  PROVE  ProvisioningInv'
<1>1. stage' = [stage EXCEPT ![p] = s] /\ stage \in [Provisionings -> Stages]
  BY DEF Proceed, ProvisioningInv, ProvisioningTypeOK
<1>2. \A r \in Provisionings : at[r] \in DOMAIN ContactsOf[r]
  BY DEF ProvisioningInv, ProvisioningTypeOK
<1>3. ASSUME NEW r \in Provisionings, r # p PROVE Facts(r)'
  <2>1. \A i \in DOMAIN ContactsOf[r] : ContactsOf[r][i] \in Calls \ {Contact(p)}
    BY <1>2, <1>3, Contacts DEF Contact
  <2>2. Frame(r)
    BY <1>1, <1>3, <2>1 DEF Frame
  <2> QED BY <1>1, <1>2, <2>2, FrameKeeps DEF ProvisioningInv
<1>4. ProvisioningTypeOK'
  BY <1>1, <1>2 DEF ProvisioningInv, ProvisioningTypeOK
<1> QED BY <1>3, <1>4 DEF ProvisioningInv

\* A step that leaves the calls alone.
LEMMA QuietCalls ==
  ASSUME ProvisioningInv, UNCHANGED resolution, faults' \in 0..MaxFaults
  PROVE  /\ IInv' /\ Unresolved'
         /\ UNCHANGED <<pc, result, account>>
  BY FaultsOnly DEF ProvisioningInv, resolution, Unresolved, UserOf

\* The contact a member or a role comes with has an account.
LEMMA UserExists ==
  ASSUME ProvisioningInv, NEW p \in Provisionings, stage[p] \in After
  PROVE  /\ Contact(p) \in Calls /\ pc[Contact(p)] = "returned"
         /\ UserOf(Contact(p)) \in Accounts /\ RoleOf[Contact(p)] \in Roles
<1>1. at[p] \in DOMAIN ContactsOf[p] /\ Facts(p)
  BY DEF ProvisioningInv, ProvisioningTypeOK
<1>2. Contact(p) \in Calls
  BY <1>1, Contacts DEF Contact
<1>3. pc[Contact(p)] = "returned"
  BY <1>1 DEF Facts, ContactFacts
<1>4. UserOf(Contact(p)) \in DOMAIN account
  BY <1>2, <1>3 DEF ProvisioningInv, IInv, ResolvedByEmail, UserOf
<1> QED BY <1>2, <1>3, <1>4, ProvisioningAssumption DEF ProvisioningInv, IInv, ResolutionTypeOK

Organizations ==
  [domain: BOOLEAN, jit: SUBSET Roles, members: SUBSET Accounts, grants: SUBSET (Accounts \X Roles)]

\* What a request does to p's organization, and to no other.
LEMMA EffectOf ==
  ASSUME ProvisioningInv, NEW p \in Provisionings, Effect(p)
  PROVE  /\ DOMAIN org' = DOMAIN org \cup (IF stage[p] = "organization" THEN {p} ELSE {})
         /\ \A r \in DOMAIN org \ {p} : org'[r] = org[r]
         /\ stage[p] = "organization" => org'[p] = NewOrg
         /\ stage[p] # "organization" /\ p \in DOMAIN org =>
              /\ org'[p].domain = (org[p].domain \/ stage[p] = "jit_domains")
              /\ org'[p].jit = IF stage[p] = "jit_roles" THEN JitRoles ELSE org[p].jit
              /\ org'[p].members = org[p].members \cup
                   (IF stage[p] = "member" THEN {UserOf(Contact(p))} ELSE {})
              /\ org'[p].grants = org[p].grants \cup
                   (IF stage[p] = "grant" THEN {<<UserOf(Contact(p)), RoleOf[Contact(p)]>>} ELSE {})
         /\ p \in DOMAIN org' => org'[p] \in Organizations
<1>1. p \in DOMAIN org => org[p] \in Organizations
  BY DEF ProvisioningInv, ProvisioningTypeOK, Organizations
<1> USE DEF Organizations
<1>2. CASE stage[p] = "organization"
  <2>1. org' = [o \in DOMAIN org \cup {p} |-> IF o = p THEN NewOrg ELSE org[o]]
    BY <1>2 DEF Effect, CreateOrganization
  <2>2. NewOrg \in Organizations
    BY DEF NewOrg
  <2> QED BY <1>2, <2>1, <2>2
<1>3. CASE stage[p] = "jit_domains"
  <2>1. org' = [org EXCEPT ![p].domain = TRUE]
    BY <1>3 DEF Effect, ReplaceJitDomains
  <2> QED BY <1>1, <1>3, <2>1
<1>4. CASE stage[p] = "jit_roles"
  <2>1. org' = [org EXCEPT ![p].jit = JitRoles]
    BY <1>4 DEF Effect, ReplaceJitRoles
  <2> QED BY <1>1, <1>4, <2>1, ProvisioningAssumption
<1>5. CASE stage[p] = "member"
  <2>1. org' = [org EXCEPT ![p].members = @ \cup {UserOf(Contact(p))}]
    BY <1>5 DEF Effect, AddMember
  <2>2. UserOf(Contact(p)) \in Accounts
    BY <1>5, UserExists DEF After
  <2> QED BY <1>1, <1>5, <2>1, <2>2
<1>6. CASE stage[p] = "grant"
  <2>1. org' = [org EXCEPT ![p].grants = @ \cup {<<UserOf(Contact(p)), RoleOf[Contact(p)]>>}]
    BY <1>6 DEF Effect, GrantRole
  <2>2. UserOf(Contact(p)) \in Accounts /\ RoleOf[Contact(p)] \in Roles
    BY <1>6, UserExists DEF After
  <2> QED BY <1>1, <1>6, <2>1, <2>2
<1>7. CASE stage[p] \notin {"organization", "jit_domains", "jit_roles", "member", "grant"}
  <2>1. UNCHANGED org
    BY <1>7 DEF Effect
  <2> QED BY <1>1, <1>7, <2>1
<1> QED BY <1>2, <1>3, <1>4, <1>5, <1>6, <1>7

\* A request brings in the present contact only, into a configured organization.
LEMMA MembersAfter ==
  ASSUME ProvisioningInv, NEW p \in Provisionings, NEW n, n = at[p], NEW c, c = Contact(p),
         Effect(p) \/ UNCHANGED org, UNCHANGED <<pc, result>>
  PROVE  /\ Members(p, n)'
         /\ stage[p] = "grant" /\ Effect(p) => Joined(p, c)'
<1>1. /\ Members(p, n) /\ StageFacts(p) /\ n \in DOMAIN ContactsOf[p] /\ c = ContactsOf[p][n]
      /\ \A i \in DOMAIN ContactsOf[p] : i \in Nat \ {0}
  BY Contacts DEF ProvisioningInv, ProvisioningTypeOK, Facts, MemberFacts, Contact
<1>2. \A d : UserOf(d)' = UserOf(d)
  BY DEF UserOf
<1>3. CASE UNCHANGED org
  <2>1. Members(p, n)'
    BY <1>1, <1>2, <1>3 DEF Members, Joined
  <2>2. stage[p] = "grant" => ~Effect(p) \/ Joined(p, c)'
    <3> SUFFICES ASSUME stage[p] = "grant", Effect(p) PROVE Joined(p, c)'
      OBVIOUS
    <3>1. <<UserOf(c), RoleOf[c]>> \in org'[p].grants /\ org'[p].members = org[p].members
      BY <1>1, EffectOf DEF StageFacts
    <3> QED BY <1>1, <1>2, <3>1, UserExists DEF Joined, StageFacts, After
  <2> QED BY <2>1, <2>2
<1>4. CASE Effect(p)
  <2>0. CASE stage[p] = "organization"
    <3>1. org'[p] = NewOrg /\ n = 1
      BY <1>1, <1>4, <2>0, EffectOf DEF StageFacts
    <3> QED BY <1>1, <2>0, <3>1 DEF Members, NewOrg
  <2>1. CASE stage[p] # "organization"
    <3> SUFFICES ASSUME p \in DOMAIN org'
                 PROVE  /\ Members(p, n)'
                        /\ stage[p] = "grant" => Joined(p, c)'
      BY <1>1, <1>4, EffectOf DEF StageFacts, Members
    <3>1. p \in DOMAIN org
      BY <1>4, <2>1, EffectOf
    <3>2. /\ org'[p].domain = (org[p].domain \/ stage[p] = "jit_domains")
          /\ org'[p].jit = IF stage[p] = "jit_roles" THEN JitRoles ELSE org[p].jit
          /\ org'[p].members = org[p].members \cup (IF stage[p] = "member" THEN {UserOf(c)} ELSE {})
          /\ org'[p].grants = org[p].grants \cup
               (IF stage[p] = "grant" THEN {<<UserOf(c), RoleOf[c]>>} ELSE {})
      BY <1>4, <2>1, <3>1, EffectOf
    <3>3. stage[p] \in {"member", "grant"} => pc[c] = "returned"
      BY UserExists DEF After
    <3>4. (org[p].members # {} => org[p].domain /\ org[p].jit = JitRoles)'
      BY <1>1, <3>1, <3>2 DEF Members, StageFacts, After
    <3>5. \A u \in org'[p].members :
            \E i \in DOMAIN ContactsOf[p] :
              i <= n /\ pc'[ContactsOf[p][i]] = "returned" /\ u = UserOf(ContactsOf[p][i])'
      <4> SUFFICES ASSUME NEW u \in org'[p].members
                   PROVE  \E i \in DOMAIN ContactsOf[p] :
                            i <= n /\ pc[ContactsOf[p][i]] = "returned" /\ u = UserOf(ContactsOf[p][i])
        BY <1>2
      <4>1. CASE u \in org[p].members
        BY <1>1, <3>1, <4>1 DEF Members
      <4>2. CASE stage[p] = "member" /\ u = UserOf(c)
        BY <1>1, <3>3, <4>2
      <4> QED BY <3>2, <4>1, <4>2
    <3>6. ASSUME NEW g \in org'[p].grants
          PROVE  /\ g[1] \in org'[p].members
                 /\ \E i \in DOMAIN ContactsOf[p] :
                      /\ pc[ContactsOf[p][i]] = "returned"
                      /\ g = <<UserOf(ContactsOf[p][i]), RoleOf[ContactsOf[p][i]]>>
      <4>1. CASE g \in org[p].grants
        BY <1>1, <3>1, <3>2, <4>1 DEF Members
      <4>2. CASE stage[p] = "grant" /\ g = <<UserOf(c), RoleOf[c]>>
        <5>1. g[1] \in org'[p].members
          BY <1>1, <3>2, <4>2 DEF StageFacts
        <5> QED BY <1>1, <3>3, <4>2, <5>1
      <4> QED BY <3>2, <3>6, <4>1, <4>2
    <3>7. \A i \in DOMAIN ContactsOf[p] : i < n => Joined(p, ContactsOf[p][i])'
      BY <1>1, <1>2, <3>1, <3>2 DEF Members, Joined
    <3>8. stage[p] = "grant" => Joined(p, c)'
      BY <1>1, <1>2, <3>2, <3>3 DEF Joined, StageFacts
    <3> QED BY <1>2, <3>4, <3>5, <3>6, <3>7, <3>8 DEF Members
  <2> QED BY <2>0, <2>1
<1> QED BY <1>3, <1>4

-----------------------------------------------------------------------------
(***************************************************************************)
(* The steps of a provisioning.                                            *)
(***************************************************************************)
\* Where a request that does not end with a contact may lead.
Leads(p, s) ==
  \/ s = "failed"
  \/ stage[p] = "template" /\ s = "organization" /\ Required(p) \subseteq Template
  \/ stage[p] = "organization" /\ s = "jit_role_ids"
  \/ stage[p] = "jit_role_ids" /\ s = "jit_domains"
  \/ stage[p] = "jit_domains" /\ s = "jit_roles"
  \/ stage[p] = "jit_roles" /\ s = "resolve"
  \/ stage[p] = "role" /\ s = "member"
  \/ stage[p] = "member" /\ s = "grant"

\* A request whose answer, or failure, leaves the provisioning at its contact.
LEMMA RequestStep ==
  ASSUME ProvisioningInv, NEW p \in Provisionings, NEW s \in Stages, Leads(p, s),
         Effect(p) \/ (s = "failed" /\ UNCHANGED org), Proceed(p, s),
         stage[p] \notin {"resolving", "done", "failed"},
         UNCHANGED <<resolution, at, listed>>, faults' \in 0..MaxFaults
  PROVE  ProvisioningInv'
<1>1. IInv' /\ Unresolved' /\ UNCHANGED <<pc, result, account>>
  BY QuietCalls
<1>2. /\ Facts(p) /\ stage[p] \in Stages /\ at[p] \in DOMAIN ContactsOf[p]
      /\ stage'[p] = s
  BY DEF ProvisioningInv, ProvisioningTypeOK, Proceed
<1>3. ContactFacts(p)'
  BY <1>1, <1>2 DEF Facts, ContactFacts, Contact, Before, After, Leads
<1>4. MemberFacts(p)'
  BY <1>1, MembersAfter DEF MemberFacts
<1>5. ListedFacts(p)'
  BY <1>2 DEF Facts, ListedFacts, Leads
<1>6. UserOf(Contact(p))' = UserOf(Contact(p))
  BY <1>1 DEF UserOf, Contact
<1>7. StageFacts(p)'
  <2>1. CASE UNCHANGED org /\ s = "failed"
    BY <1>2, <2>1 DEF Facts, StageFacts, After
  <2>2. CASE Effect(p) /\ stage[p] = "organization"
    <3>1. p \in DOMAIN org' /\ at'[p] = 1 /\ Required(p) \subseteq Template
      BY <1>2, <2>2, EffectOf DEF Facts, StageFacts
    <3> QED BY <1>2, <2>2, <3>1 DEF StageFacts, After, Leads
  <2>3. CASE Effect(p) /\ stage[p] # "organization"
    <3>1. p \in DOMAIN org' <=> p \in DOMAIN org
      BY <2>3, EffectOf
    <3>2. p \in DOMAIN org =>
            /\ org'[p].domain = (org[p].domain \/ stage[p] = "jit_domains")
            /\ org'[p].jit = IF stage[p] = "jit_roles" THEN JitRoles ELSE org[p].jit
            /\ stage[p] = "member" => UserOf(Contact(p)) \in org'[p].members
      BY <2>3, EffectOf
    <3>3. CASE s = "failed"
      BY <1>2, <2>3, <3>1, <3>3 DEF Facts, StageFacts, After
    <3>4. CASE s = "organization"
      BY <1>2, <2>3, <3>1, <3>4 DEF Facts, StageFacts, After, Leads
    <3>5. CASE s \in {"jit_domains", "jit_roles", "resolve"}
      BY <1>2, <2>3, <3>1, <3>2, <3>5 DEF Facts, StageFacts, After, Leads
    <3>6. CASE s = "member"
      BY <1>2, <2>3, <3>1, <3>2, <3>6 DEF Facts, StageFacts, After, Leads
    <3>7. CASE s = "grant"
      <4>1. stage[p] = "member"
        BY <3>7 DEF Leads
      <4>2. p \in DOMAIN org /\ org[p].domain /\ org[p].jit = JitRoles /\ Required(p) \subseteq Template
        BY <1>2, <4>1 DEF Facts, StageFacts, After
      <4>3. p \in DOMAIN org' /\ org'[p].domain /\ org'[p].jit = JitRoles
        BY <3>1, <3>2, <4>1, <4>2
      <4>4. (UserOf(Contact(p)) \in org[p].members)'
        BY <1>6, <3>2, <4>1, <4>2
      <4> QED BY <1>2, <3>7, <4>2, <4>3, <4>4 DEF StageFacts
    <3> QED BY <2>3, <3>3, <3>4, <3>5, <3>6, <3>7 DEF Leads
  <2> QED BY <2>1, <2>2, <2>3
<1>8. /\ DOMAIN org' \in SUBSET Provisionings
      /\ p \in DOMAIN org => p \in DOMAIN org'
      /\ p \in DOMAIN org' => org'[p] \in Organizations
      /\ \A r \in Provisionings \ {p} :
           /\ r \in DOMAIN org' <=> r \in DOMAIN org
           /\ r \in DOMAIN org => org'[r] = org[r]
  <2>1. CASE UNCHANGED org
    BY <2>1 DEF ProvisioningInv, ProvisioningTypeOK, Organizations
  <2>2. CASE Effect(p)
    <3>1. DOMAIN org \in SUBSET Provisionings
      BY DEF ProvisioningInv, ProvisioningTypeOK
    <3>2. /\ DOMAIN org \subseteq DOMAIN org' /\ DOMAIN org' \subseteq DOMAIN org \cup {p}
          /\ \A r \in DOMAIN org \ {p} : org'[r] = org[r]
          /\ p \in DOMAIN org' => org'[p] \in Organizations
      BY <2>2, EffectOf
    <3> QED BY <3>1, <3>2
  <2> QED BY <2>1, <2>2
<1>9. Facts(p)'
  BY <1>3, <1>4, <1>5, <1>7 DEF Facts
<1>10. /\ at' = at /\ listed' = listed /\ at \in [Provisionings -> Nat]
       /\ listed \in [Provisionings -> SUBSET Calls]
  BY DEF ProvisioningInv, ProvisioningTypeOK
<1> HIDE DEF ProvisioningInv
<1> QED BY <1>1, <1>2, <1>8, <1>9, <1>10, OwnStep DEF Organizations

\* The last request of a contact: on to the next one, or the answer.
LEMMA GrantStep ==
  ASSUME ProvisioningInv, NEW p \in Provisionings, Grant(p)
  PROVE  ProvisioningInv'
<1> DEFINE C == ContactsOf[p]
<1>1. PICK n, c : n = at[p] /\ c = Contact(p)
  OBVIOUS
<1> DEFINE s == IF n < Len(C) THEN "resolve" ELSE "done"
<1>2. /\ stage[p] = "grant" /\ Effect(p) /\ UNCHANGED <<resolution, faults>>
      /\ listed' = [listed EXCEPT ![p] = @ \cup {c}]
      /\ Proceed(p, s)
      /\ IF n < Len(C) THEN at' = [at EXCEPT ![p] = n + 1] ELSE at' = at
  BY <1>1 DEF Grant
<1>3. /\ Facts(p) /\ n \in DOMAIN C /\ at \in [Provisionings -> Nat]
      /\ stage \in [Provisionings -> Stages] /\ listed \in [Provisionings -> SUBSET Calls]
      /\ faults \in 0..MaxFaults
  BY <1>1 DEF ProvisioningInv, ProvisioningTypeOK, IInv, ResolutionTypeOK
<1>4. IInv' /\ Unresolved' /\ UNCHANGED <<pc, result, account>>
  BY <1>2, <1>3, QuietCalls
<1>5. /\ Len(C) \in Nat \ {0} /\ DOMAIN C = 1..Len(C) /\ \A i \in DOMAIN C : C[i] \in Calls
      /\ c = C[n]
  BY <1>1, Contacts DEF Contact
<1>6. Members(p, n)' /\ Joined(p, c)'
  BY <1>1, <1>2, <1>4, MembersAfter
<1>7. p \in DOMAIN org /\ pc[c] = "returned" /\ org[p].domain /\ org[p].jit = JitRoles
      /\ Required(p) \subseteq Template
  BY <1>1, <1>2, <1>3 DEF Facts, StageFacts, ContactFacts, After
<1>8. /\ DOMAIN org' = DOMAIN org /\ org'[p] \in Organizations
      /\ \A r \in DOMAIN org \ {p} : org'[r] = org[r]
      /\ org'[p].domain /\ org'[p].jit = JitRoles
  BY <1>2, <1>7, EffectOf
<1>9. /\ at' \in [Provisionings -> Nat] /\ stage'[p] = s
      /\ at'[p] = IF n < Len(C) THEN n + 1 ELSE n
      /\ at'[p] \in DOMAIN C
      /\ \A r \in Provisionings \ {p} : at'[r] = at[r]
  BY <1>1, <1>2, <1>3, <1>5 DEF Proceed
<1>10. \A i \in DOMAIN C : i < at'[p] => i < n \/ (i = n /\ n < Len(C))
  BY <1>3, <1>5, <1>9
<1>11. ContactFacts(p)'
  <2>1. \A i \in DOMAIN C : /\ i < n => pc[C[i]] = "returned"
                            /\ i > n => pc[C[i]] = "idle"
    BY <1>1, <1>3 DEF Facts, ContactFacts
  <2>2. \A i \in DOMAIN C : i < at'[p] => pc[C[i]] = "returned"
    BY <1>5, <1>7, <1>10, <2>1
  <2>3. \A i \in DOMAIN C : i > at'[p] => pc[C[i]] = "idle"
    BY <1>3, <1>5, <1>9, <2>1
  <2>4. CASE n < Len(C)
    <3>1. pc[C[n + 1]] = "idle" /\ Contact(p)' = C[n + 1]
      BY <1>3, <1>5, <1>9, <2>1, <2>4 DEF Contact
    <3> QED BY <1>4, <1>9, <2>2, <2>3, <2>4, <3>1 DEF ContactFacts, After
  <2>5. CASE ~(n < Len(C))
    <3>1. Contact(p)' = c
      BY <1>5, <1>9, <2>5 DEF Contact
    <3> QED BY <1>4, <1>7, <1>9, <2>2, <2>3, <2>5, <3>1 DEF ContactFacts, Before
  <2> QED BY <2>4, <2>5
<1>12. MemberFacts(p)'
  <2> DEFINE u == UserOf(c)
  <2>1. /\ (org[p].members # {} => org[p].domain /\ org[p].jit = JitRoles)'
        /\ \A i \in DOMAIN C : i < n => Joined(p, C[i])'
        /\ \A v \in org'[p].members :
             \E i \in DOMAIN C : i <= n /\ pc'[C[i]] = "returned" /\ v = UserOf(C[i])'
        /\ \A g \in org'[p].grants :
             /\ g[1] \in org'[p].members
             /\ \E i \in DOMAIN C : pc'[C[i]] = "returned" /\ g = <<UserOf(C[i])', RoleOf[C[i]]>>
    BY <1>6, <1>7, <1>8 DEF Members
  <2>2. \A i \in DOMAIN C : i < at'[p] => Joined(p, C[i])'
    BY <1>5, <1>6, <1>10, <2>1
  <2>3. \A i \in DOMAIN C : i <= n => i <= at'[p]
    BY <1>3, <1>5, <1>9
  <2> QED BY <2>1, <2>2, <2>3 DEF MemberFacts, Members
<1>13. StageFacts(p)'
  <2>1. s = "done" => at'[p] = Len(C) /\ Contact(p)' = c
    BY <1>3, <1>5, <1>9 DEF Contact
  <2>2. s = "done" => Joined(p, Contact(p))'
    BY <1>6, <2>1
  <2> QED BY <1>7, <1>8, <1>9, <2>1, <2>2 DEF StageFacts, After
<1>14. ListedFacts(p)'
  <2>1. listed[p] = {C[i] : i \in {j \in DOMAIN C : j < n}} /\ listed'[p] = listed[p] \cup {c}
    BY <1>1, <1>2, <1>3 DEF Facts, ListedFacts
  <2>2. \A j \in DOMAIN C : (j < at'[p] \/ s = "done") <=> (j < n \/ j = n)
    BY <1>3, <1>5, <1>9
  <2>3. listed'[p] = {C[i] : i \in {j \in DOMAIN C : j < at'[p] \/ s = "done"}}
    BY <1>3, <1>5, <2>1, <2>2
  <2> HIDE DEF s
  <2> QED BY <1>9, <2>3 DEF ListedFacts
<1>15. Facts(p)'
  BY <1>11, <1>12, <1>13, <1>14 DEF Facts
<1>16. /\ listed' \in [Provisionings -> SUBSET Calls]
       /\ \A r \in Provisionings \ {p} : listed'[r] = listed[r]
       /\ DOMAIN org' \in SUBSET Provisionings
  BY <1>2, <1>3, <1>5, <1>8 DEF ProvisioningInv, ProvisioningTypeOK
<1>17. s \in Stages
  BY DEF Stages
<1> HIDE DEF s, ProvisioningInv
<1> QED BY <1>2, <1>4, <1>8, <1>9, <1>15, <1>16, <1>17, OwnStep DEF Organizations

\* The call of the contact begins, ...
LEMMA ResolveStep ==
  ASSUME ProvisioningInv, NEW p \in Provisionings, Resolve(p)
  PROVE  ProvisioningInv'
<1>1. /\ stage[p] = "resolve" /\ Begin(Contact(p)) /\ Proceed(p, "resolving")
      /\ UNCHANGED <<at, org, listed>>
  BY DEF Resolve
<1>2. /\ Facts(p) /\ at[p] \in DOMAIN ContactsOf[p] /\ at \in [Provisionings -> Nat]
      /\ stage \in [Provisionings -> Stages] /\ listed \in [Provisionings -> SUBSET Calls]
      /\ pc \in [Calls -> Pcs] /\ IInv
  BY DEF ProvisioningInv, ProvisioningTypeOK, IInv, ResolutionTypeOK
<1>3. Contact(p) \in Calls /\ Contact(p) = ContactsOf[p][at[p]]
  BY <1>2, Contacts DEF Contact
<1>4. /\ pc[Contact(p)] = "idle" /\ pc'[Contact(p)] = "find_email"
      /\ \A c \in Calls \ {Contact(p)} : pc'[c] = pc[c]
      /\ UNCHANGED <<result, account>>
  BY <1>1, <1>2, <1>3 DEF Begin, Goto
<1>5. IInv'
  BY <1>1, <1>2, <1>3, NextInv DEF Next
<1>6. Unresolved'
  BY <1>3, <1>4 DEF ProvisioningInv, Unresolved, UserOf
<1>7. stage'[p] = "resolving"
  BY <1>1, <1>2 DEF Proceed
<1>8. \A i \in DOMAIN ContactsOf[p] : i # at[p] => pc'[ContactsOf[p][i]] = pc[ContactsOf[p][i]]
  <2>1. \A i \in DOMAIN ContactsOf[p] : i # at[p] => ContactsOf[p][i] \in Calls \ {Contact(p)}
    BY <1>2, <1>3, Contacts
  <2> QED BY <1>4, <2>1
<1>9. \A i \in DOMAIN ContactsOf[p] : pc[ContactsOf[p][i]] = "returned" => pc'[ContactsOf[p][i]] = "returned"
  BY <1>3, <1>4, <1>8
<1>10. \A c : UserOf(c)' = UserOf(c)
  BY <1>4 DEF UserOf
<1>11. ContactFacts(p)'
  <2>1. \A i \in DOMAIN ContactsOf[p] : i < at[p] \/ i > at[p] => i # at[p]
    BY <1>2, Contacts
  <2> QED BY <1>1, <1>2, <1>7, <1>8, <2>1 DEF Facts, ContactFacts, Before, After
<1>12. MemberFacts(p)'
  <2>1. \A i \in DOMAIN ContactsOf[p] : Joined(p, ContactsOf[p][i]) => Joined(p, ContactsOf[p][i])'
    BY <1>1, <1>9, <1>10 DEF Joined
  <2> QED BY <1>1, <1>2, <1>9, <1>10, <2>1 DEF Facts, MemberFacts, Members
<1>13. StageFacts(p)' /\ ListedFacts(p)'
  BY <1>1, <1>2, <1>7 DEF Facts, StageFacts, ListedFacts, After
<1>14. Facts(p)'
  BY <1>11, <1>12, <1>13 DEF Facts
<1>15. /\ "resolving" \in Stages /\ DOMAIN org \in SUBSET Provisionings
       /\ p \in DOMAIN org => org[p] \in Organizations
  BY DEF Stages, ProvisioningInv, ProvisioningTypeOK, Organizations
<1> HIDE DEF ProvisioningInv
<1> QED BY <1>1, <1>2, <1>4, <1>5, <1>6, <1>14, <1>15, OwnStep DEF Organizations

\* ... and settles.
LEMMA ResolvedStep ==
  ASSUME ProvisioningInv, NEW p \in Provisionings, Resolved(p)
  PROVE  ProvisioningInv'
<1>1. PICK s \in {"role", "failed"} : Proceed(p, s) /\ (s = "role" => pc[Contact(p)] = "returned")
  BY DEF Resolved
<1>2. stage[p] = "resolving" /\ UNCHANGED <<resolution, faults, at, org, listed>>
  BY DEF Resolved
<1>3. /\ Facts(p) /\ at[p] \in DOMAIN ContactsOf[p] /\ at \in [Provisionings -> Nat]
      /\ stage \in [Provisionings -> Stages] /\ listed \in [Provisionings -> SUBSET Calls]
      /\ faults \in 0..MaxFaults
  BY DEF ProvisioningInv, ProvisioningTypeOK, IInv, ResolutionTypeOK
<1>4. IInv' /\ Unresolved' /\ UNCHANGED <<pc, result, account>>
  BY <1>2, <1>3, QuietCalls
<1>5. stage'[p] = s
  BY <1>1, <1>3 DEF Proceed
<1>6. ContactFacts(p)'
  BY <1>1, <1>2, <1>3, <1>4, <1>5 DEF Facts, ContactFacts, Contact, Before, After
<1>7. MemberFacts(p)'
  BY <1>2, <1>4, MembersAfter DEF MemberFacts
<1>8. StageFacts(p)' /\ ListedFacts(p)'
  BY <1>1, <1>2, <1>3, <1>5 DEF Facts, StageFacts, ListedFacts, After
<1>9. Facts(p)'
  BY <1>6, <1>7, <1>8 DEF Facts
<1>10. /\ s \in Stages /\ DOMAIN org \in SUBSET Provisionings
       /\ p \in DOMAIN org => org[p] \in Organizations
  BY DEF Stages, ProvisioningInv, ProvisioningTypeOK, Organizations
<1> HIDE DEF ProvisioningInv
<1> QED BY <1>1, <1>2, <1>3, <1>4, <1>9, <1>10, OwnStep DEF Organizations

\* Every step of a provisioning, and its failure.
LEMMA ProvisioningKeeps ==
  ASSUME ProvisioningInv, NEW p \in Provisionings, ProvisioningStep(p) \/ RequestFails(p)
  PROVE  ProvisioningInv'
<1>1. /\ faults \in 0..MaxFaults /\ MaxFaults \in Nat
      /\ p \in DOMAIN org => Required(p) \subseteq Template
  BY ResolutionAssumption DEF ProvisioningInv, IInv, ResolutionTypeOK, Facts, StageFacts
<1>2. ASSUME NEW s \in Stages, NEW t \in Stages, Request(p, t, s), stage[p] = t => Leads(p, s),
             t \notin {"resolving", "done", "failed"}
      PROVE  ProvisioningInv'
  <2>1. stage[p] = t /\ Effect(p) /\ Proceed(p, s) /\ UNCHANGED <<resolution, faults, at, listed>>
    BY <1>2 DEF Request
  <2> QED BY <1>1, <1>2, <2>1, RequestStep
<1>3. CASE EnsureTemplate(p)
  <2> DEFINE s == IF Required(p) \subseteq Template THEN "organization" ELSE "failed"
  <2>1. s \in Stages /\ Request(p, "template", s) /\ (stage[p] = "template" => Leads(p, s))
    BY <1>3 DEF EnsureTemplate, Stages, Leads
  <2> HIDE DEF s
  <2> QED BY <1>2, <2>1 DEF Stages
<1>4. CASE Organization(p)
  BY <1>2, <1>4 DEF Organization, Stages, Leads
<1>5. CASE JitRoleIds(p)
  BY <1>2, <1>5 DEF JitRoleIds, Stages, Leads
<1>6. CASE JitDomains(p)
  BY <1>2, <1>6 DEF JitDomains, Stages, Leads
<1>7. CASE JitDefaultRoles(p)
  BY <1>2, <1>7 DEF JitDefaultRoles, Stages, Leads
<1>8. CASE Role(p)
  BY <1>2, <1>8 DEF Role, Stages, Leads
<1>9. CASE Member(p)
  BY <1>2, <1>9 DEF Member, Stages, Leads
<1>10. CASE RequestFails(p)
  <2>1. /\ stage[p] \notin {"resolve", "resolving", "done", "failed"}
        /\ faults' \in 0..MaxFaults
        /\ Effect(p) \/ UNCHANGED org
        /\ Proceed(p, "failed") /\ UNCHANGED <<resolution, at, listed>>
    BY <1>1, <1>10 DEF RequestFails
  <2>2. "failed" \in Stages /\ Leads(p, "failed")
    BY DEF Stages, Leads
  <2> QED BY <2>1, <2>2, RequestStep
<1> QED BY <1>3, <1>4, <1>5, <1>6, <1>7, <1>8, <1>9, <1>10, ResolveStep, ResolvedStep, GrantStep
        DEF ProvisioningStep

LEMMA ProvisioningInit == InitProvisioning => ProvisioningInv
<1> SUFFICES ASSUME InitProvisioning PROVE ProvisioningInv
  OBVIOUS
<1>1. /\ IInv
      /\ stage = [p \in Provisionings |-> "template"] /\ at = [p \in Provisionings |-> 1]
      /\ org = <<>> /\ listed = [p \in Provisionings |-> {}]
  BY InitInv DEF InitProvisioning
<1>2. pc = [c \in Calls |-> "idle"] /\ result = [c \in Calls |-> NoResult]
  BY DEF InitProvisioning, Init
<1>3. DOMAIN org = {}
  BY <1>1
<1>4. Unresolved
  BY <1>2 DEF Unresolved, UserOf, NoResult
<1>5. ProvisioningTypeOK /\ at \in [Provisionings -> Nat]
  BY <1>1, <1>3, Contacts DEF ProvisioningTypeOK, Stages
<1>6. ASSUME NEW p \in Provisionings PROVE Facts(p)
  <2>1. /\ stage[p] = "template" /\ at[p] = 1 /\ listed[p] = {} /\ p \notin DOMAIN org
        /\ \A i \in DOMAIN ContactsOf[p] : ~(i < 1) /\ pc[ContactsOf[p][i]] = "idle"
        /\ 1 \in DOMAIN ContactsOf[p]
    BY <1>1, <1>2, <1>3, Contacts
  <2>2. ContactFacts(p)
    BY <2>1 DEF ContactFacts, Contact, After
  <2>3. StageFacts(p) /\ MemberFacts(p)
    BY <2>1 DEF StageFacts, MemberFacts, Members, After
  <2>4. ListedFacts(p)
    BY <2>1 DEF ListedFacts
  <2> QED BY <2>2, <2>3, <2>4 DEF Facts
<1> QED BY <1>1, <1>4, <1>5, <1>6 DEF ProvisioningInv

LEMMA ProvisioningInvariant == ProvisioningSpec => []ProvisioningInv
<1>1. ProvisioningInv /\ [NextProvisioning]_provisioningVars => ProvisioningInv'
  <2> SUFFICES ASSUME ProvisioningInv, [NextProvisioning]_provisioningVars PROVE ProvisioningInv'
    OBVIOUS
  <2>1. CASE UNCHANGED provisioningVars
    <3>1. UNCHANGED <<resolution, faults, stage, at, org, listed>>
      BY <2>1 DEF provisioningVars
    <3>2. IInv' /\ Unresolved' /\ UNCHANGED <<pc, result, account>>
      BY <3>1, QuietCalls DEF ProvisioningInv, IInv, ResolutionTypeOK
    <3>3. \A p \in Provisionings : Frame(p)
      BY <3>1, <3>2 DEF Frame
    <3>4. \A p \in Provisionings : Facts(p)'
      BY <3>3, FrameKeeps DEF ProvisioningInv, ProvisioningTypeOK
    <3> QED BY <3>1, <3>2, <3>4 DEF ProvisioningInv, ProvisioningTypeOK
  <2>2. CASE NextProvisioning
    BY <2>2, ProvisioningKeeps, CallStep DEF NextProvisioning
  <2> QED BY <2>1, <2>2
<1> QED BY <1>1, ProvisioningInit, PTL DEF ProvisioningSpec

-----------------------------------------------------------------------------
\* Every variable of the sequence keeps its type, whatever fails.
THEOREM ProvisioningTypeCorrect == ProvisioningSpec => []ProvisioningTypeOK
<1>1. ProvisioningInv => ProvisioningTypeOK
  BY DEF ProvisioningInv
<1> QED BY <1>1, ProvisioningInvariant, PTL

\* A call that has returned gave an account with the email it was asked for.
LEMMA ReturnedAccount ==
  ASSUME ProvisioningInv, NEW c \in Calls, pc[c] = "returned"
  PROVE  UserOf(c) \in DOMAIN account /\ account[UserOf(c)].email = Wanted[c].email
BY DEF ProvisioningInv, IInv, ResolvedByEmail, UserOf

\* An answer of 201 is true: domain and roles are configured, and every contact
\* is a member with its role, under its own email.
THEOREM FinishedCompletely == ProvisioningSpec => []FinishedIsComplete
<1>1. ProvisioningInv => FinishedIsComplete
  <2> SUFFICES ASSUME ProvisioningInv, NEW p \in Provisionings, stage[p] = "done"
               PROVE  /\ p \in DOMAIN org /\ org[p].domain /\ org[p].jit = JitRoles
                      /\ \A i \in DOMAIN ContactsOf[p] : Admitted(p, ContactsOf[p][i])
                      /\ listed[p] = {ContactsOf[p][i] : i \in DOMAIN ContactsOf[p]}
    BY DEF FinishedIsComplete
  <2>1. Facts(p)
    BY DEF ProvisioningInv
  <2>2. p \in DOMAIN org /\ org[p].domain /\ org[p].jit = JitRoles
    BY <2>1 DEF Facts, StageFacts, After
  <2>3. at[p] = Len(ContactsOf[p]) /\ Joined(p, Contact(p))
    BY <2>1 DEF Facts, StageFacts
  <2>4. \A i \in DOMAIN ContactsOf[p] : i < at[p] \/ i = at[p]
    BY <2>3, Contacts
  <2>5. \A i \in DOMAIN ContactsOf[p] : Joined(p, ContactsOf[p][i])
    BY <2>1, <2>2, <2>3, <2>4 DEF Facts, MemberFacts, Members, Contact
  <2>6. \A i \in DOMAIN ContactsOf[p] : Admitted(p, ContactsOf[p][i])
    BY <2>5, Contacts, ReturnedAccount DEF Joined, Admitted
  <2>7. listed[p] = {ContactsOf[p][i] : i \in DOMAIN ContactsOf[p]}
    BY <2>1 DEF Facts, ListedFacts
  <2> QED BY <2>2, <2>6, <2>7
<1> QED BY <1>1, ProvisioningInvariant, PTL

\* Nobody but the contacts gets into an organization, whatever fails.
THEOREM ContactsOnly == ProvisioningSpec => []OnlyContactsAdmitted
<1>1. ProvisioningInv => OnlyContactsAdmitted
  <2> SUFFICES ASSUME ProvisioningInv, NEW p \in DOMAIN org
               PROVE  /\ \A u \in org[p].members :
                           \E i \in DOMAIN ContactsOf[p] :
                             u \in DOMAIN account /\ account[u].email = Wanted[ContactsOf[p][i]].email
                      /\ \A g \in org[p].grants :
                           /\ g[1] \in org[p].members
                           /\ \E i \in DOMAIN ContactsOf[p] :
                                /\ account[g[1]].email = Wanted[ContactsOf[p][i]].email
                                /\ g[2] = RoleOf[ContactsOf[p][i]]
    BY DEF OnlyContactsAdmitted
  <2>1. p \in Provisionings
    BY DEF ProvisioningInv, ProvisioningTypeOK
  <2>2. Members(p, at[p])
    BY <2>1 DEF ProvisioningInv, Facts, MemberFacts
  <2>3. \A i \in DOMAIN ContactsOf[p] :
          pc[ContactsOf[p][i]] = "returned" =>
            /\ UserOf(ContactsOf[p][i]) \in DOMAIN account
            /\ account[UserOf(ContactsOf[p][i])].email = Wanted[ContactsOf[p][i]].email
    BY <2>1, Contacts, ReturnedAccount
  <2> QED BY <2>2, <2>3 DEF Members
<1> QED BY <1>1, ProvisioningInvariant, PTL

\* What an abandoned provisioning leaves behind is a prefix of the work.
THEOREM AbandonedInOrder == ProvisioningSpec => []AbandonedIsPrefix
<1>1. ProvisioningInv => AbandonedIsPrefix
  <2> SUFFICES ASSUME ProvisioningInv, NEW p \in DOMAIN org
               PROVE  /\ Required(p) \subseteq Template
                      /\ org[p].members # {} => org[p].domain /\ org[p].jit = JitRoles
                      /\ \A j \in DOMAIN ContactsOf[p] :
                           UserOf(ContactsOf[p][j]) \in org[p].members =>
                             \A i \in 1..(j - 1) : Admitted(p, ContactsOf[p][i])
    BY DEF AbandonedIsPrefix
  <2>1. p \in Provisionings /\ Facts(p) /\ at[p] \in DOMAIN ContactsOf[p]
    BY DEF ProvisioningInv, ProvisioningTypeOK
  <2>2. Required(p) \subseteq Template /\ (org[p].members # {} => org[p].domain /\ org[p].jit = JitRoles)
    BY <2>1 DEF Facts, StageFacts, MemberFacts, Members
  <2>3. ASSUME NEW j \in DOMAIN ContactsOf[p], UserOf(ContactsOf[p][j]) \in org[p].members,
               NEW i \in 1..(j - 1)
        PROVE  Admitted(p, ContactsOf[p][i])
    <3>1. ContactsOf[p][j] \in Calls /\ NoAccount \notin Accounts
      BY <2>1, Contacts, ResolutionAssumption
    <3>2. org[p].members \subseteq Accounts
      BY DEF ProvisioningInv, ProvisioningTypeOK
    <3>3. pc[ContactsOf[p][j]] = "returned"
      BY <2>3, <3>1, <3>2 DEF ProvisioningInv, Unresolved
    <3>4. ~(j > at[p])
      BY <2>1, <3>3 DEF Facts, ContactFacts
    <3>5. i \in DOMAIN ContactsOf[p] /\ i < at[p]
      BY <2>1, <2>3, <3>4, Contacts
    <3>6. Joined(p, ContactsOf[p][i]) /\ ContactsOf[p][i] \in Calls
      BY <2>1, <3>5, Contacts DEF Facts, MemberFacts, Members
    <3> QED BY <3>6, ReturnedAccount DEF Joined, Admitted
  <2> QED BY <2>2, <2>3
<1> QED BY <1>1, ProvisioningInvariant, PTL

-----------------------------------------------------------------------------
(***************************************************************************)
(* The calls of createOrResolveLogtoUserByEmail inside provisionings: what *)
(* is proved of them alone holds of the composition, although the          *)
(* provisionings decide when a call begins and their own failed requests   *)
(* are counted with those of the calls.                                    *)
(***************************************************************************)
LEMMA StepsOfComposition ==
  ASSUME ProvisioningInv, [NextProvisioning]_provisioningVars
  PROVE  \/ \E c \in Calls : Begin(c) \/ Step(c) \/ Fails(c)
         \/ UNCHANGED resolution
<1>1. ASSUME NEW p \in Provisionings, Resolve(p)
      PROVE  \E c \in Calls : Begin(c)
  <2>1. Contact(p) \in Calls
    BY Contacts DEF ProvisioningInv, ProvisioningTypeOK, Contact
  <2> QED BY <1>1, <2>1 DEF Resolve
<1>2. ASSUME NEW p \in Provisionings, ProvisioningStep(p) \/ RequestFails(p), ~Resolve(p)
      PROVE  UNCHANGED resolution
  BY <1>2 DEF ProvisioningStep, EnsureTemplate, Organization, JitRoleIds, JitDomains,
              JitDefaultRoles, Resolved, Role, Member, Grant, Request, RequestFails
<1>3. ASSUME NEW c \in Calls, ResolutionStep(c)
      PROVE  Step(c) \/ Fails(c)
  BY <1>3 DEF ResolutionStep
<1>4. CASE UNCHANGED provisioningVars
  BY <1>4 DEF provisioningVars
<1> QED BY <1>1, <1>2, <1>3, <1>4 DEF NextProvisioning

\* Provisionings change the accounts of their contacts' emails only, whoever
\* else has a contact's phone or username.
THEOREM ProvisioningOwnAccounts == ProvisioningSpec => OnlyOwnAccountTouched
<1> DEFINE Own == \A u \in DOMAIN account : account'[u] # account[u] =>
                    \E c \in Calls : pc'[c] # pc[c] /\ Wanted[c].email = account[u].email
<1>1. ProvisioningInv /\ [NextProvisioning]_provisioningVars => Own
  BY StepsOfComposition, OwnAccountStep DEF ProvisioningInv, resolution
<1> QED BY <1>1, ProvisioningInvariant, PTL DEF ProvisioningSpec, OnlyOwnAccountTouched

\* A contact that nobody disturbs, with a well formed email and phone, is
\* resolved unless every username is taken: a shared phone fails no
\* provisioning.
THEOREM ProvisioningThrowsForNames == ProvisioningSpec => ThrowsOnlyForNames
<1> DEFINE Throws == \A c \in Calls :
             /\ pc[c] # "threw" /\ pc'[c] = "threw"
             /\ ~disturbed[c] /\ c \notin faulty'
             /\ Wanted[c].email \notin InvalidEmails /\ Wanted[c].phone \notin InvalidPhones
             => NamesTaken(c)
<1>1. InitProvisioning => CalmInv
  BY CalmInit DEF InitProvisioning
<1>2. ProvisioningInv /\ ProvisioningInv' /\ CalmInv /\ [NextProvisioning]_provisioningVars
        => CalmInv'
  BY StepsOfComposition, CalmStep, CalmQuiet DEF ProvisioningInv, resolution
<1>3. ProvisioningInv /\ CalmInv /\ [NextProvisioning]_provisioningVars => Throws
  BY StepsOfComposition, ThrowsStep DEF resolution, WellFormed
<1> QED BY <1>1, <1>2, <1>3, ProvisioningInvariant, PTL DEF ProvisioningSpec, ThrowsOnlyForNames

\* Overlapping provisionings implement the directory of emails: an email gets
\* one account, and every provisioning that asks for it is given that one.
THEOREM ProvisioningDirectory == ProvisioningSpec => ImplementsDirectory
<1> DEFINE View == <<[e \in Emails |-> Holder(e)], [c \in Calls |-> result[c].user]>>
<1>1. InitProvisioning => DirectoryInv /\ Directory!Init
  BY DirectoryInitInv, DirectoryStarts DEF InitProvisioning
<1>2. ASSUME ProvisioningInv, ProvisioningInv', DirectoryInv, [NextProvisioning]_provisioningVars
      PROVE  DirectoryInv' /\ [Directory!Next]_View
  <2>1. CASE \E c \in Calls : Begin(c) \/ Step(c) \/ Fails(c)
    BY <1>2, <2>1, DirectoryCallStep DEF Directory!Next
  <2>2. CASE UNCHANGED resolution
    <3>1. IInv' /\ UNCHANGED <<account, pc, result>>
      BY <1>2, <2>2 DEF ProvisioningInv, resolution
    <3> QED BY <1>2, <3>1, DirectoryQuiet
  <2> QED BY <1>2, <2>1, <2>2, StepsOfComposition
<1>3. ProvisioningSpec => [](DirectoryInv) /\ [][Directory!Next]_View
  BY <1>1, <1>2, ProvisioningInvariant, PTL DEF ProvisioningSpec
<1>4. ProvisioningSpec => Directory!Init
  BY <1>1, PTL DEF ProvisioningSpec
<1> QED BY <1>3, <1>4, PTL DEF ImplementsDirectory, Directory!Spec

-----------------------------------------------------------------------------
(***************************************************************************)
(* The composition implements UserResolution: a call inside a provisioning *)
(* makes the requests of a call alone.  The failed requests of the calls   *)
(* are the calls that failed, because a call ends with its first failure.  *)
(***************************************************************************)
Resolution == INSTANCE UserResolution WITH faults <- Cardinality(faulty)

ImplementsResolution == Resolution!Spec

FaultyCalls ==
  /\ IsFiniteSet(faulty)
  /\ Cardinality(faulty) <= faults
  /\ \A c \in faulty : pc[c] = "threw"

LEMMA SameLogto ==
  /\ \A x : Resolution!WithEmail(x) = WithEmail(x) /\ Resolution!PhoneOwners(x) = PhoneOwners(x)
  /\ \A u, x : Resolution!Refusals(u, x) = Refusals(u, x)
  /\ \A c, u, x : Resolution!Store(c, u, x) <=> Store(c, u, x)
  /\ \A c, s : Resolution!Goto(c, s) <=> Goto(c, s)
  /\ \A c, u, b : Resolution!Return(c, u, b) <=> Return(c, u, b)
  /\ \A c : Resolution!Throw(c) <=> Throw(c)
  /\ \A c : Resolution!Creation(c) = Creation(c)
  /\ \A c : Resolution!SuffixedCreation(c) = SuffixedCreation(c)
  /\ \A o, x, b : Resolution!Patch(o, x, b) = Patch(o, x, b)
  /\ \A c : Resolution!InFlight(c) <=> InFlight(c)
BY DEF Resolution!WithEmail, WithEmail, Resolution!PhoneOwners, PhoneOwners, Resolution!With, With,
       Resolution!Clash, Clash, Resolution!Refusals, Refusals, Resolution!Store, Store,
       Resolution!Goto, Goto, Resolution!Return, Return, Resolution!Throw, Throw,
       Resolution!Creation, Creation, Resolution!SuffixedCreation, SuffixedCreation,
       Resolution!Patch, Patch, Resolution!InFlight, InFlight

\* The requests of a call that do not fail.
LEMMA CallRefines ==
  ASSUME NEW c \in Calls, Begin(c) \/ Step(c)
  PROVE  Resolution!Begin(c) \/ Resolution!Step(c)
<1>1. CASE Begin(c)
  BY <1>1, SameLogto DEF Begin, Resolution!Begin
<1>2. CASE FindEmail(c)
  BY <1>2, SameLogto DEF FindEmail, Resolution!FindEmail, Resolution!Step
<1>3. CASE FindPhoneOfFound(c)
  BY <1>3, SameLogto DEF FindPhoneOfFound, Resolution!FindPhoneOfFound, Resolution!Step
<1>4. CASE FindPhone(c)
  BY <1>4, SameLogto DEF FindPhone, Resolution!FindPhone, Resolution!Step
<1>5. CASE Update(c)
  BY <1>5, SameLogto DEF Update, Resolution!Update, Resolution!Step
<1>6. CASE Create(c)
  BY <1>6, SameLogto DEF Create, Resolution!Create, Resolution!Step
<1>7. CASE Relookup(c)
  BY <1>7, SameLogto DEF Relookup, Resolution!Relookup, Resolution!Step
<1>8. CASE CreateWithoutPhone(c)
  BY <1>8, SameLogto DEF CreateWithoutPhone, Resolution!CreateWithoutPhone, Resolution!Step
<1>9. CASE CreateSuffixed(c)
  BY <1>9, SameLogto DEF CreateSuffixed, Resolution!CreateSuffixed, Resolution!Step
<1>10. CASE RefindPhone(c)
  BY <1>10, SameLogto DEF RefindPhone, Resolution!RefindPhone, Resolution!Step
<1> QED BY <1>1, <1>2, <1>3, <1>4, <1>5, <1>6, <1>7, <1>8, <1>9, <1>10 DEF Step

\* A failed request is the only one of its call.
LEMMA FailureRefines ==
  ASSUME ProvisioningInv, FaultyCalls, NEW c \in Calls, Fails(c)
  PROVE  Resolution!Fails(c) /\ FaultyCalls'
<1>1. /\ pc \in [Calls -> Pcs] /\ faulty \subseteq Calls
      /\ faults \in 0..MaxFaults /\ MaxFaults \in Nat
  BY ResolutionAssumption DEF ProvisioningInv, IInv, ResolutionTypeOK
<1>2. /\ faulty' = faulty \cup {c} /\ faults' = faults + 1 /\ faults < MaxFaults
      /\ InFlight(c) /\ Throw(c)
  BY DEF Fails
<1>3. c \notin faulty
  BY <1>2 DEF FaultyCalls, InFlight
<1>4. /\ IsFiniteSet(faulty') /\ Cardinality(faulty') = Cardinality(faulty) + 1
      /\ Cardinality(faulty) \in Nat
  BY <1>2, <1>3, FS_AddElement, FS_CardinalityType DEF FaultyCalls
<1>5. Cardinality(faulty) < MaxFaults
  BY <1>1, <1>2, <1>4 DEF FaultyCalls
<1>6. (pc[c] \in Resolution!Writes /\ Resolution!WriteOf(c) = WriteOf(c)) \/ pc[c] \notin Writes
  BY SameLogto DEF Resolution!Writes, Writes, Resolution!WriteOf, WriteOf
<1>7. Resolution!Fails(c)
  BY <1>2, <1>4, <1>5, <1>6, SameLogto DEF Fails, Resolution!Fails
<1>8. FaultyCalls'
  BY <1>1, <1>2, <1>4 DEF FaultyCalls, Throw, Goto
<1> QED BY <1>7, <1>8

\* Steps of calls without a failure, and of provisionings.
LEMMA NoFailureKeeps ==
  ASSUME ProvisioningInv, FaultyCalls, [NextProvisioning]_provisioningVars,
         ~\E c \in Calls : Fails(c)
  PROVE  UNCHANGED faulty /\ FaultyCalls'
<1>1. /\ pc \in [Calls -> Pcs] /\ faulty \subseteq Calls
      /\ faults \in 0..MaxFaults /\ MaxFaults \in Nat /\ IInv
  BY ResolutionAssumption DEF ProvisioningInv, IInv, ResolutionTypeOK
<1>2. ASSUME NEW c \in Calls, Begin(c) \/ Step(c)
      PROVE  UNCHANGED <<faulty, faults>> /\ \A d \in faulty : pc'[d] = pc[d]
  <2>1. UNCHANGED <<faulty, faults>> /\ pc[c] # "threw"
    BY <1>2 DEF Begin, Step, FindEmail, FindPhoneOfFound, FindPhone, Update, Create, Relookup,
                RefindPhone, CreateWithoutPhone, CreateSuffixed
  <2>2. \A d \in faulty : d # c
    BY <2>1 DEF FaultyCalls
  <2>3. \A d \in Calls \ {c} : pc'[d] = pc[d]
    BY <1>1, <1>2, OthersStay
  <2> QED BY <1>1, <2>1, <2>2, <2>3
<1>3. ASSUME UNCHANGED resolution, [NextProvisioning]_provisioningVars
      PROVE  UNCHANGED <<faulty, pc>> /\ faults' \in Int /\ faults' >= faults
  <2>1. faults' = faults \/ faults' = faults + 1
    BY <1>3 DEF NextProvisioning, ProvisioningStep, EnsureTemplate, Organization, JitRoleIds,
                JitDomains, JitDefaultRoles, Resolve, Begin, Resolved, Role, Member, Grant, Request,
                RequestFails, ResolutionStep, Step, FindEmail, FindPhoneOfFound, FindPhone, Update,
                Create, Relookup, RefindPhone, CreateWithoutPhone, CreateSuffixed, Fails,
                provisioningVars
  <2> QED BY <1>1, <1>3, <2>1 DEF resolution
<1>4. CASE \E c \in Calls : Begin(c) \/ Step(c)
  BY <1>2, <1>4 DEF FaultyCalls
<1>5. CASE UNCHANGED resolution
  <2>1. Cardinality(faulty) \in Nat
    BY FS_CardinalityType DEF FaultyCalls
  <2> QED BY <1>1, <1>3, <1>5, <2>1 DEF FaultyCalls
<1> QED BY <1>4, <1>5, StepsOfComposition

\* The calls of overlapping provisionings behave as UserResolution says calls
\* do: whatever is checked or proved of calls that run alone is true of them.
THEOREM CompositionImplementsResolution == ProvisioningSpec => ImplementsResolution
<1>1. InitProvisioning => Resolution!Init /\ FaultyCalls
  BY FS_EmptySet DEF InitProvisioning, Init, Resolution!Init, NoResult, Resolution!NoResult, FaultyCalls
<1>2. ASSUME ProvisioningInv, FaultyCalls, [NextProvisioning]_provisioningVars
      PROVE  FaultyCalls' /\ [Resolution!Next]_(Resolution!vars)
  <2>1. CASE \E c \in Calls : Fails(c)
    BY <1>2, <2>1, FailureRefines DEF Resolution!Next
  <2>2. CASE \E c \in Calls : Begin(c) \/ Step(c)
    <3>1. CASE ~\E c \in Calls : Fails(c)
      BY <1>2, <2>2, <3>1, CallRefines, NoFailureKeeps DEF Resolution!Next
    <3> QED BY <2>1, <3>1
  <2>3. CASE UNCHANGED resolution /\ ~\E c \in Calls : Fails(c)
    <3>1. UNCHANGED faulty /\ FaultyCalls'
      BY <1>2, <2>3, NoFailureKeeps
    <3>2. UNCHANGED Resolution!vars
      BY <2>3, <3>1 DEF resolution, Resolution!vars
    <3> QED BY <3>1, <3>2
  <2> QED BY <1>2, <2>1, <2>2, <2>3, StepsOfComposition
<1> QED BY <1>1, <1>2, ProvisioningInvariant, PTL DEF ProvisioningSpec, ImplementsResolution, Resolution!Spec

-----------------------------------------------------------------------------
\* How far a provisioning is: at its n-th contact, at stage s.
StageProgress(s, n, contacts) ==
  IF s = "template" THEN 5 * n ELSE
  IF s = "organization" THEN 5 * n + 1 ELSE
  IF s = "jit_role_ids" THEN 5 * n + 2 ELSE
  IF s = "jit_domains" THEN 5 * n + 3 ELSE
  IF s = "jit_roles" THEN 5 * n + 4 ELSE
  IF s = "resolve" THEN 5 * n + 5 ELSE
  IF s = "resolving" THEN 5 * n + 6 ELSE
  IF s = "role" THEN 5 * n + 7 ELSE
  IF s = "member" THEN 5 * n + 8 ELSE
  IF s = "grant" THEN 5 * n + 9 ELSE 5 * contacts + 10

Done(p) == StageProgress(stage[p], at[p], Len(ContactsOf[p]))

Proceeds(p) ==
  /\ Done(p)' > Done(p)
  /\ Done(p)' <= 5 * Len(ContactsOf[p]) + 10
  /\ \A r \in Provisionings \ {p} : Done(r)' = Done(r)

Undisturbed == \A p \in Provisionings : Done(p)' = Done(p)

\* Every step takes one provisioning or the call of one contact further, and
\* nothing ever goes back: the sequence has no retry, and a provisioning of n
\* contacts makes at most 5 n + 5 steps besides those of its calls.
ProvisioningsOnlyAdvance ==
  [][\/ \E p \in Provisionings : Proceeds(p)
     \/ Undisturbed /\ \E c \in Calls : Advances(c)]_provisioningVars

LEMMA ProvisioningProceeds ==
  ASSUME ProvisioningInv, NEW p \in Provisionings, ProvisioningStep(p) \/ RequestFails(p)
  PROVE  Proceeds(p)
<1> DEFINE n == at[p]
           contacts == Len(ContactsOf[p])
<1>1. /\ stage \in [Provisionings -> Stages] /\ at \in [Provisionings -> Nat]
      /\ contacts \in Nat /\ n \in 1..contacts
  BY Contacts DEF ProvisioningInv, ProvisioningTypeOK
<1>2. PICK s \in Stages, m \in Nat :
        /\ stage' = [stage EXCEPT ![p] = s] /\ at' = [at EXCEPT ![p] = m]
        /\ \/ /\ m = n
              /\ <<stage[p], s>> \in
                   {<<"template", "organization">>, <<"organization", "jit_role_ids">>,
                    <<"jit_role_ids", "jit_domains">>, <<"jit_domains", "jit_roles">>,
                    <<"jit_roles", "resolve">>, <<"resolve", "resolving">>,
                    <<"resolving", "role">>, <<"role", "member">>, <<"member", "grant">>,
                    <<"grant", "done">>}
           \/ m = n /\ s = "failed" /\ stage[p] \notin {"done", "failed"}
           \/ m = n + 1 /\ s = "resolve" /\ stage[p] = "grant"
        /\ m <= contacts
  <2>0. at = [at EXCEPT ![p] = n]
    BY <1>1
  <2>1. CASE EnsureTemplate(p) \/ Organization(p) \/ JitRoleIds(p) \/ JitDomains(p)
             \/ JitDefaultRoles(p) \/ Role(p) \/ Member(p)
    BY <1>1, <2>0, <2>1 DEF EnsureTemplate, Organization, JitRoleIds, JitDomains, JitDefaultRoles,
                            Role, Member, Request, Proceed, Stages
  <2>2. CASE Resolve(p) \/ Resolved(p)
    BY <1>1, <2>0, <2>2 DEF Resolve, Resolved, Proceed, Stages
  <2>3. CASE Grant(p)
    <3>1. CASE n < contacts
      <4>1. PICK k \in Nat : k = n + 1
        BY <1>1
      <4>2. /\ at' = [at EXCEPT ![p] = k] /\ stage' = [stage EXCEPT ![p] = "resolve"]
            /\ stage[p] = "grant" /\ k <= contacts
        BY <1>1, <2>3, <3>1, <4>1 DEF Grant, Proceed
      <4>3. "resolve" \in Stages
        BY DEF Stages
      <4> QED BY <4>1, <4>2, <4>3
    <3>2. CASE ~(n < contacts)
      <4>1. /\ at' = [at EXCEPT ![p] = n] /\ stage' = [stage EXCEPT ![p] = "done"]
            /\ stage[p] = "grant" /\ n \in Nat /\ n <= contacts
        BY <1>1, <2>0, <2>3, <3>2 DEF Grant, Proceed
      <4> QED BY <4>1 DEF Stages
    <3> QED BY <3>1, <3>2
  <2>4. CASE RequestFails(p)
    BY <1>1, <2>0, <2>4 DEF RequestFails, Proceed, Stages
  <2> QED BY <2>1, <2>2, <2>3, <2>4 DEF ProvisioningStep
<1>3. /\ Done(p)' = StageProgress(s, m, contacts)
      /\ \A r \in Provisionings \ {p} : Done(r)' = Done(r)
  BY <1>1, <1>2 DEF Done
<1>4. /\ StageProgress(s, m, contacts) > StageProgress(stage[p], n, contacts)
      /\ StageProgress(s, m, contacts) <= 5 * contacts + 10
  <2> HIDE DEF n, contacts
  <2> QED BY <1>1, <1>2 DEF StageProgress, Stages
<1> QED BY <1>3, <1>4 DEF Proceeds, Done

\* No step of the sequence repeats or undoes an earlier one.
THEOREM ProvisioningAdvances == ProvisioningSpec => ProvisioningsOnlyAdvance
<1>1. ProvisioningInv /\ [NextProvisioning]_provisioningVars =>
        [\/ \E p \in Provisionings : Proceeds(p)
         \/ Undisturbed /\ \E c \in Calls : Advances(c)]_provisioningVars
  <2>1. ASSUME ProvisioningInv, NEW c \in Calls, ResolutionStep(c)
        PROVE  Undisturbed /\ Advances(c)
    BY <2>1, CallAdvances DEF ResolutionStep, ProvisioningInv, Undisturbed, Done
  <2> QED BY <2>1, ProvisioningProceeds DEF NextProvisioning
<1> QED BY <1>1, ProvisioningInvariant, PTL DEF ProvisioningSpec, ProvisioningsOnlyAdvance

\* A provisioning waits only for a call that has begun, and so for one that
\* ends: no provisioning is left waiting for a contact nobody resolves.
WaitsForBegun ==
  \A p \in Provisionings : stage[p] = "resolving" => pc[Contact(p)] # "idle"

\* Who waits, waits for something under way.
THEOREM ProvisioningNeverStuck == ProvisioningSpec => []WaitsForBegun
<1>1. InitProvisioning => WaitsForBegun
  BY DEF InitProvisioning, WaitsForBegun
<1>2. ASSUME ProvisioningInv, ProvisioningInv', WaitsForBegun, [NextProvisioning]_provisioningVars
      PROVE  WaitsForBegun'
  <2>1. \A c \in Calls : pc[c] # "idle" => pc'[c] # "idle"
    <3>1. /\ pc \in [Calls -> Pcs] /\ suffix \in [Calls -> 1..MaxSuffix]
          /\ MaxSuffix \in Nat \ {0} /\ IInv
      BY <1>2, ResolutionAssumption DEF ProvisioningInv, IInv, ResolutionTypeOK
    <3>2. ASSUME NEW c \in Calls, Begin(c) \/ Step(c) \/ Fails(c), NEW d \in Calls
          PROVE  pc[d] # "idle" => pc'[d] # "idle"
      <4>1. CASE d = c
        <5>1. Advances(c)
          BY <3>1, <3>2, CallAdvances
        <5>2. Progress(pc[c], suffix[c]) \in Nat
          BY <3>1 DEF Progress
        <5> QED BY <4>1, <5>1, <5>2 DEF Advances, Progress
      <4>2. CASE d # c
        BY <3>1, <3>2, <4>2, OthersStay
      <4> QED BY <4>1, <4>2
    <3> QED BY <1>2, <3>2, StepsOfComposition DEF resolution
  <2> SUFFICES ASSUME NEW p \in Provisionings, stage'[p] = "resolving"
               PROVE  pc'[Contact(p)'] # "idle"
    BY DEF WaitsForBegun
  <2>2. Contact(p)' \in Calls
    BY <1>2, Contacts DEF ProvisioningInv, ProvisioningTypeOK, Contact
  <2>3. CASE stage[p] = "resolving" /\ at'[p] = at[p]
    <3>1. Contact(p)' = Contact(p)
      BY <2>3 DEF Contact
    <3> QED BY <1>2, <2>1, <2>2, <2>3, <3>1 DEF WaitsForBegun
  <2>4. CASE ~(stage[p] = "resolving" /\ at'[p] = at[p])
    <3>1. Resolve(p)
      BY <1>2, <2>4
         DEF NextProvisioning, ProvisioningStep, EnsureTemplate, Organization, JitRoleIds,
             JitDomains, JitDefaultRoles, Resolve, Resolved, Role, Member, Grant, Request,
             RequestFails, ResolutionStep, Proceed, provisioningVars, ProvisioningInv,
             ProvisioningTypeOK
    <3>2. Begin(Contact(p)) /\ Contact(p)' = Contact(p)
      BY <3>1 DEF Resolve, Contact
    <3>3. pc'[Contact(p)] = "find_email"
      BY <1>2, <2>2, <3>2 DEF Begin, Goto, ProvisioningInv, IInv, ResolutionTypeOK
    <3> QED BY <3>2, <3>3
  <2> QED BY <2>3, <2>4
<1> QED BY <1>1, <1>2, ProvisioningInvariant, PTL DEF ProvisioningSpec
=============================================================================
