--------------------------- MODULE UserResolution ---------------------------
(***************************************************************************)
(* createOrResolveLogtoUserByEmail (services/logtoManagement.js): calls    *)
(* that look a user up in Logto, update the one they find, or create one,  *)
(* and recover from the conflicts that concurrent calls cause.  One action *)
(* per request to Logto.  Logto (external) refuses a write that would give *)
(* an email, phone or username to two accounts, and names one of the       *)
(* fields at fault; a request may fail, and its answer may be lost.        *)
(*                                                                         *)
(* A call creates at most one account, which is named by the call.  The    *)
(* callers always pass a name (buildUserCreatePayload), so an account that *)
(* is found is always updated (L578).                                      *)
(***************************************************************************)
EXTENDS Integers, FiniteSets

CONSTANTS
  Calls,        \* calls of createOrResolveLogtoUserByEmail
  Existing,     \* accounts of Logto that no call created
  Emails, Phones, Usernames,
  NoPhone, NoName, NoAccount,
  Wanted,       \* the payload of each call
  Known,        \* the payloads of the existing accounts
  Suffixed,     \* `${username}${suffix}`
  MaxSuffix,    \* 20 in the code
  InvalidEmails, InvalidPhones, \* what Logto's validation rejects
  MaxFaults     \* bound: failed requests and lost answers

Accounts == Calls \cup Existing
Payload == [email: Emails, phone: Phones \cup {NoPhone}, username: Usernames \cup {NoName}]

Clash(x, y) ==
  {f \in {"email", "phone", "username"} :
     \/ f = "email" /\ x.email = y.email
     \/ f = "phone" /\ x.phone = y.phone /\ x.phone # NoPhone
     \/ f = "username" /\ x.username = y.username /\ x.username # NoName}

ASSUME ResolutionAssumption ==
  /\ Calls \cap Existing = {}
  /\ NoAccount \notin Accounts
  /\ NoPhone \notin Phones
  /\ NoName \notin Usernames
  /\ Wanted \in [Calls -> Payload]
  /\ Known \in [Existing -> Payload]
  /\ \A u, v \in Existing : u # v => Clash(Known[u], Known[v]) = {}
  /\ Suffixed \in [Usernames \X (1..MaxSuffix) -> Usernames]
  /\ MaxSuffix \in Nat \ {0}
  /\ InvalidEmails \subseteq Emails
  /\ InvalidPhones \subseteq Phones
  /\ \A u \in Existing : Known[u].email \notin InvalidEmails /\ Known[u].phone \notin InvalidPhones
  /\ MaxFaults \in Nat

VARIABLES
  account,   \* Logto's accounts: the payload stored, per account that exists
  pc,        \* per call: its next request
  found,     \* per call: existingUser
  omit,      \* per call: phoneConflict
  suffix,    \* per call: suffix
  result,    \* per call: the account it returned, and whether as created
  disturbed, \* history: another call wrote while this one was in flight
  faulty,    \* history: calls with a failed request or a lost answer
  faults

vars == <<account, pc, found, omit, suffix, result, disturbed, faulty, faults>>

NoResult == [user |-> NoAccount, created |-> FALSE]
Goto(c, next) == pc' = [pc EXCEPT ![c] = next]
InFlight(c) == pc[c] \notin {"idle", "returned", "threw"}

Return(c, u, created) ==
  /\ Goto(c, "returned")
  /\ result' = [result EXCEPT ![c] = [user |-> u, created |-> created]]

Throw(c) == Goto(c, "threw") /\ UNCHANGED result

-----------------------------------------------------------------------------
(***************************************************************************)
(* Logto.                                                                  *)
(***************************************************************************)
With(f, x) == {u \in DOMAIN account : f \in Clash(account[u], x)}
WithEmail(x) == With("email", x)
PhoneOwners(x) == With("phone", x)

\* The fields for which Logto refuses to store x as account u.
Refusals(u, x) ==
  (UNION {Clash(account[v], x) : v \in DOMAIN account \ {u}})
    \cup (IF x.email \in InvalidEmails THEN {"email"} ELSE {})
    \cup (IF x.phone \in InvalidPhones THEN {"phone"} ELSE {})

Store(c, u, x) ==
  /\ Refusals(u, x) = {}
  /\ account' = [v \in DOMAIN account \cup {u} |-> IF v = u THEN x ELSE account[v]]
  /\ disturbed' = [d \in Calls |-> disturbed[d] \/ (d # c /\ InFlight(d))]

Init ==
  /\ account = Known
  /\ pc = [c \in Calls |-> "idle"]
  /\ found = [c \in Calls |-> NoAccount]
  /\ omit = [c \in Calls |-> FALSE]
  /\ suffix = [c \in Calls |-> 1]
  /\ result = [c \in Calls |-> NoResult]
  /\ disturbed = [c \in Calls |-> FALSE]
  /\ faulty = {}
  /\ faults = 0

-----------------------------------------------------------------------------
(***************************************************************************)
(* The lookups.                                                            *)
(***************************************************************************)
Begin(c) ==
  /\ pc[c] = "idle"
  /\ Goto(c, "find_email")
  /\ UNCHANGED <<account, found, omit, suffix, result, disturbed, faulty, faults>>

\* Without an account of the email, the owner of the phone is the one found.
FindEmailOrPhone(c) ==
  LET matches == IF WithEmail(Wanted[c]) # {} THEN WithEmail(Wanted[c]) ELSE PhoneOwners(Wanted[c]) IN
  /\ pc[c] = "find_email"
  /\ \/ /\ \E u \in matches : found' = [found EXCEPT ![c] = u]
        /\ Goto(c, "update")
     \/ /\ matches = {}
        /\ Goto(c, "create")
        /\ UNCHANGED found
  /\ UNCHANGED <<account, omit, suffix, result, disturbed, faulty, faults>>

\* findLogtoUserByEmail; the phone is looked up only if there is one.
FindEmail(c) ==
  LET hasPhone == Wanted[c].phone # NoPhone IN
  /\ pc[c] = "find_email"
  /\ \/ /\ \E u \in WithEmail(Wanted[c]) : found' = [found EXCEPT ![c] = u]
        /\ Goto(c, IF hasPhone THEN "find_phone_of_found" ELSE "update")
     \/ /\ WithEmail(Wanted[c]) = {}
        /\ Goto(c, IF hasPhone THEN "find_phone" ELSE "create")
        /\ UNCHANGED found
  /\ UNCHANGED <<account, omit, suffix, result, disturbed, faulty, faults>>

\* The phone is omitted when another account has it.
FindPhoneOfFound(c) ==
  /\ pc[c] = "find_phone_of_found"
  /\ omit' = [omit EXCEPT ![c] = PhoneOwners(Wanted[c]) \ {found[c]} # {}]
  /\ Goto(c, "update")
  /\ UNCHANGED <<account, found, suffix, result, disturbed, faulty, faults>>

\* The owner of the phone is not looked up before the account is created.
SkipFindPhone(c) ==
  /\ pc[c] = "find_phone"
  /\ Goto(c, "create")
  /\ UNCHANGED <<account, found, omit, suffix, result, disturbed, faulty, faults>>

FindPhone(c) ==
  /\ pc[c] = "find_phone"
  /\ omit' = [omit EXCEPT ![c] =
       \E u \in PhoneOwners(Wanted[c]) : account[u].email # Wanted[c].email]
  /\ Goto(c, "create")
  /\ UNCHANGED <<account, found, suffix, result, disturbed, faulty, faults>>

-----------------------------------------------------------------------------
(***************************************************************************)
(* The writes.  undefined fields are not sent: they keep their value.      *)
(***************************************************************************)
Patch(old, x, withoutPhone) ==
  [email |-> x.email,
   phone |-> IF withoutPhone \/ x.phone = NoPhone THEN old.phone ELSE x.phone,
   username |-> IF x.username = NoName THEN old.username ELSE x.username]

\* updateLogtoUser; a refusal is not caught: the call throws.
Update(c) ==
  LET new == Patch(account[found[c]], Wanted[c], omit[c]) IN
  /\ pc[c] = "update"
  /\ \/ Store(c, found[c], new) /\ Return(c, found[c], FALSE)
     \/ Refusals(found[c], new) # {} /\ Throw(c) /\ UNCHANGED <<account, disturbed>>
  /\ UNCHANGED <<found, omit, suffix, faulty, faults>>

Creation(c) ==
  [Wanted[c] EXCEPT !.phone = IF omit[c] THEN NoPhone ELSE @]

\* createLogtoUser; a refusal names one of the fields at fault.
Create(c) ==
  /\ pc[c] = "create"
  /\ \/ Store(c, c, Creation(c)) /\ Return(c, c, TRUE)
     \/ /\ \E f \in Refusals(c, Creation(c)) :
             Goto(c, IF f = "phone" THEN "relookup_phone" ELSE "relookup")
        /\ UNCHANGED <<account, result, disturbed>>
  /\ UNCHANGED <<found, omit, suffix, faulty, faults>>

\* An account with the phone is taken for the one of the email.
RelookupByPhone(c) ==
  /\ pc[c] \in {"relookup", "relookup_phone"}
  /\ \/ \E u \in WithEmail(Wanted[c]) \cup PhoneOwners(Wanted[c]) : Return(c, u, FALSE)
     \/ /\ WithEmail(Wanted[c]) \cup PhoneOwners(Wanted[c]) = {}
        /\ Throw(c)
  /\ UNCHANGED <<account, found, omit, suffix, disturbed, faulty, faults>>

\* After a refusal: the account another call has created meanwhile, or else
\* one more try without the phone, or with other usernames.
Relookup(c) ==
  /\ pc[c] \in {"relookup", "relookup_phone"}
  /\ \/ \E u \in WithEmail(Wanted[c]) : Return(c, u, FALSE)
     \/ /\ WithEmail(Wanted[c]) = {}
        /\ \/ /\ pc[c] = "relookup_phone" /\ ~omit[c]
              /\ Goto(c, "refind_phone") /\ UNCHANGED result
           \/ /\ pc[c] = "relookup" \/ omit[c]
              /\ Wanted[c].username # NoName
              /\ Goto(c, "create_suffixed") /\ UNCHANGED result
           \/ /\ pc[c] = "relookup" \/ omit[c]
              /\ Wanted[c].username = NoName
              /\ Throw(c)
  /\ UNCHANGED <<account, found, omit, suffix, disturbed, faulty, faults>>

\* The phone's owner is for the reconciliation note; without one,
\* getLogtoUserId(null) is a TypeError.
RefindPhone(c) ==
  /\ pc[c] = "refind_phone"
  /\ \/ PhoneOwners(Wanted[c]) # {} /\ Goto(c, "create_without_phone") /\ UNCHANGED result
     \/ PhoneOwners(Wanted[c]) = {} /\ Throw(c)
  /\ UNCHANGED <<account, found, omit, suffix, disturbed, faulty, faults>>

\* A refusal is not caught.
CreateWithoutPhone(c) ==
  LET x == [Wanted[c] EXCEPT !.phone = NoPhone] IN
  /\ pc[c] = "create_without_phone"
  /\ \/ Store(c, c, x) /\ Return(c, c, TRUE)
     \/ Refusals(c, x) # {} /\ Throw(c) /\ UNCHANGED <<account, disturbed>>
  /\ UNCHANGED <<found, omit, suffix, faulty, faults>>

SuffixedCreation(c) ==
  [Creation(c) EXCEPT !.username = Suffixed[Wanted[c].username, suffix[c]]]

\* The bound of the loop is checked after the suffix is taken.
CreateSuffixedOnceMore(c) ==
  LET x == SuffixedCreation(c) IN
  /\ pc[c] = "create_suffixed"
  /\ \/ Store(c, c, x) /\ Return(c, c, TRUE) /\ UNCHANGED suffix
     \/ /\ Refusals(c, x) # {}
        /\ suffix' = [suffix EXCEPT ![c] = @ + 1]
        /\ IF suffix[c] = MaxSuffix THEN Throw(c) ELSE UNCHANGED <<pc, result>>
        /\ UNCHANGED <<account, disturbed>>
  /\ UNCHANGED <<found, omit, faulty, faults>>

\* The loop over the suffixes; the last refusal leaves it with the first error.
CreateSuffixed(c) ==
  LET x == SuffixedCreation(c) IN
  /\ pc[c] = "create_suffixed"
  /\ \/ Store(c, c, x) /\ Return(c, c, TRUE) /\ UNCHANGED suffix
     \/ /\ Refusals(c, x) # {}
        /\ suffix[c] < MaxSuffix
        /\ suffix' = [suffix EXCEPT ![c] = @ + 1]
        /\ UNCHANGED <<account, pc, result, disturbed>>
     \/ /\ Refusals(c, x) # {}
        /\ suffix[c] = MaxSuffix
        /\ Throw(c)
        /\ UNCHANGED <<account, suffix, disturbed>>
  /\ UNCHANGED <<found, omit, faulty, faults>>

-----------------------------------------------------------------------------
(***************************************************************************)
(* A request fails (network, timeout, 5xx): the call throws.  A write may  *)
(* have been executed although its answer is an error (a timed out POST).  *)
(***************************************************************************)
WriteOf(c) ==
  CASE pc[c] = "create" -> [user |-> c, data |-> Creation(c)]
    [] pc[c] = "create_without_phone" ->
         [user |-> c, data |-> [Wanted[c] EXCEPT !.phone = NoPhone]]
    [] pc[c] = "create_suffixed" -> [user |-> c, data |-> SuffixedCreation(c)]
    [] pc[c] = "update" ->
         [user |-> found[c], data |-> Patch(account[found[c]], Wanted[c], omit[c])]

Writes == {"create", "create_without_phone", "create_suffixed", "update"}

Fails(c) ==
  /\ InFlight(c)
  /\ faults < MaxFaults
  /\ faults' = faults + 1
  /\ faulty' = faulty \cup {c}
  /\ Throw(c)
  /\ \/ UNCHANGED <<account, disturbed>>
     \/ pc[c] \in Writes /\ Store(c, WriteOf(c).user, WriteOf(c).data)
  /\ UNCHANGED <<found, omit, suffix>>

Step(c) ==
  \/ FindEmail(c) \/ FindPhoneOfFound(c) \/ FindPhone(c)
  \/ Update(c) \/ Create(c) \/ Relookup(c)
  \/ RefindPhone(c) \/ CreateWithoutPhone(c) \/ CreateSuffixed(c)

Next == \E c \in Calls : Begin(c) \/ Step(c) \/ Fails(c)

Spec == Init /\ [][Next]_vars

(***************************************************************************)
(* Properties.                                                             *)
(***************************************************************************)
Pcs == {"idle", "find_email", "find_phone_of_found", "find_phone", "update", "create",
        "relookup", "relookup_phone", "refind_phone", "create_without_phone", "create_suffixed",
        "returned", "threw"}

\* Every variable keeps its type; in particular no suffix beyond the limit is
\* ever tried.
ResolutionTypeOK ==
  /\ DOMAIN account \in SUBSET Accounts
  /\ \A u \in DOMAIN account : account[u] \in Payload
  /\ pc \in [Calls -> Pcs]
  /\ found \in [Calls -> Accounts \cup {NoAccount}]
  /\ omit \in [Calls -> BOOLEAN]
  /\ suffix \in [Calls -> 1..MaxSuffix]
  /\ result \in [Calls -> [user: Accounts \cup {NoAccount}, created: BOOLEAN]]
  /\ disturbed \in [Calls -> BOOLEAN]
  /\ faulty \subseteq Calls
  /\ faults \in 0..MaxFaults

\* The account a call returns has the email it was asked for, for ever: no
\* lookup after a conflict, and no later call, swaps it for another's.
ResolvedByEmail ==
  \A c \in Calls : pc[c] = "returned" =>
    /\ result[c].user \in DOMAIN account
    /\ account[result[c].user].email = Wanted[c].email

\* An account changes only by a call that asks for its email, never by one
\* whose phone or username belongs to that account.
OnlyOwnAccountTouched ==
  [][\A u \in DOMAIN account : account'[u] # account[u] =>
       \E c \in Calls : pc'[c] # pc[c] /\ Wanted[c].email = account[u].email]_vars

\* Names of a call: somebody else has the username it wants and, if the email
\* is new, every username the loop may fall back to.
NamesTaken(c) ==
  LET others == {account[u] : u \in {v \in DOMAIN account : account[v].email # Wanted[c].email}}
      taken(n) == \E x \in others : x.username = n
      name == Wanted[c].username IN
  /\ taken(name)
  /\ WithEmail(Wanted[c]) = {} => \A i \in 1..MaxSuffix : taken(Suffixed[name, i])

\* A call that nobody disturbed, whose requests all succeeded and whose email
\* and phone are well formed throws only if the names it may use are taken: a
\* phone that belongs to another account never costs it its account.
ThrowsOnlyForNames ==
  [][\A c \in Calls :
       /\ pc[c] # "threw" /\ pc'[c] = "threw"
       /\ ~disturbed[c] /\ c \notin faulty'
       /\ Wanted[c].email \notin InvalidEmails /\ Wanted[c].phone \notin InvalidPhones
       => NamesTaken(c)]_vars

\* Calls and accounts implement the directory of emails.
Holder(e) ==
  LET S == {u \in DOMAIN account : account[u].email = e} IN
  IF S = {} THEN NoAccount ELSE CHOOSE u \in S : TRUE

Directory == INSTANCE UserDirectory WITH
  EmailOf <- [c \in Calls |-> Wanted[c].email],
  holder <- [e \in Emails |-> Holder(e)],
  answer <- [c \in Calls |-> result[c].user]
ImplementsDirectory == Directory!Spec
=============================================================================
