------------------------ MODULE UserResolutionProofs ------------------------
(***************************************************************************)
(* The types, the invariant, the action properties and the refinement of   *)
(* UserResolution for every set of calls, payloads, accounts, usernames    *)
(* and suffixes.                                                           *)
(*                                                                         *)
(* ResolvedByEmail is not inductive: the account a call returns was found  *)
(* some requests earlier, and an account of the same name may be written   *)
(* twice.  IInv adds where the account of a call in flight comes from, and *)
(* that an account a call created carries the call's email.  DirectoryInv  *)
(* adds that an email has one account; CalmInv what an undisturbed call    *)
(* still knows from its lookups.                                           *)
(***************************************************************************)
EXTENDS UserResolution, TLAPS

HasEmail(u, e) == u \in DOMAIN account /\ account[u].email = e

\* No account disappears or changes its email in a step.
EmailsKept ==
  \A v \in DOMAIN account : v \in DOMAIN account' /\ account'[v].email = account[v].email

FoundFacts ==
  \A c \in Calls :
    pc[c] \in {"find_phone_of_found", "update"} => HasEmail(found[c], Wanted[c].email)

CreatedFacts ==
  \A c \in Calls : c \in DOMAIN account => account[c].email = Wanted[c].email

NameFacts ==
  \A c \in Calls : pc[c] = "create_suffixed" => Wanted[c].username # NoName

IInv == ResolutionTypeOK /\ ResolvedByEmail /\ FoundFacts /\ CreatedFacts /\ NameFacts

\* What the payload of every request is made of.
LEMMA Payloads ==
  ASSUME NEW c \in Calls
  PROVE  /\ Wanted[c] \in Payload
         /\ omit[c] \in BOOLEAN => Creation(c) \in Payload /\ Creation(c).email = Wanted[c].email
         /\ [Wanted[c] EXCEPT !.phone = NoPhone] \in Payload
         /\ [Wanted[c] EXCEPT !.phone = NoPhone].email = Wanted[c].email
         /\ \A old \in Payload, b \in BOOLEAN :
              Patch(old, Wanted[c], b) \in Payload /\ Patch(old, Wanted[c], b).email = Wanted[c].email
<1>1. Wanted[c] \in Payload
  BY ResolutionAssumption
<1> QED
  BY <1>1 DEF Payload, Creation, Patch

\* The suffixed payload, while there is a name to suffix.
LEMMA SuffixedPayload ==
  ASSUME NEW c \in Calls, ResolutionTypeOK, Wanted[c].username # NoName
  PROVE  SuffixedCreation(c) \in Payload /\ SuffixedCreation(c).email = Wanted[c].email
<1>1. Creation(c) \in Payload /\ Creation(c).email = Wanted[c].email
  BY Payloads DEF ResolutionTypeOK
<1>2. Wanted[c].username \in Usernames
  <2>1. \A x \in Payload : x.username \in Usernames \cup {NoName}
    BY DEF Payload
  <2>2. Wanted[c] \in Payload
    BY Payloads
  <2> QED
    BY <2>1, <2>2
<1>3. Suffixed[Wanted[c].username, suffix[c]] \in Usernames
  BY <1>2, ResolutionAssumption DEF ResolutionTypeOK
<1> QED
  BY <1>1, <1>3 DEF SuffixedCreation, Payload

\* A write of an account with the call's email: the accounts keep their types,
\* every account that existed keeps its email, the written one has it.
LEMMA StoreEffect ==
  ASSUME NEW c \in Calls, NEW u \in Accounts, NEW x \in Payload, Store(c, u, x),
         ResolutionTypeOK, u \in DOMAIN account => account[u].email = x.email
  PROVE  /\ DOMAIN account' \in SUBSET Accounts
         /\ \A v \in DOMAIN account' : account'[v] \in Payload
         /\ disturbed' \in [Calls -> BOOLEAN]
         /\ HasEmail(u, x.email)'
         /\ EmailsKept
         /\ DOMAIN account' = DOMAIN account \cup {u}
<1>1. account' = [v \in DOMAIN account \cup {u} |-> IF v = u THEN x ELSE account[v]]
  BY DEF Store
<1>2. disturbed' = [d \in Calls |-> disturbed[d] \/ (d # c /\ InFlight(d))]
  BY DEF Store
<1>3. disturbed' \in [Calls -> BOOLEAN]
  BY <1>2 DEF ResolutionTypeOK, InFlight
<1> QED
  BY <1>1, <1>3 DEF ResolutionTypeOK, HasEmail, EmailsKept

\* What the invariant needs of a step of call c: types, emails kept, and the
\* facts of c itself.
LEMMA LocalStep ==
  ASSUME NEW c \in Calls, IInv, ResolutionTypeOK',
         EmailsKept,
         \A d \in Calls : d \in DOMAIN account' =>
           d \in DOMAIN account \/ account'[d].email = Wanted[d].email,
         \A d \in Calls \ {c} :
           pc'[d] = pc[d] /\ found'[d] = found[d] /\ result'[d] = result[d],
         pc'[c] = "returned" => HasEmail(result[c].user, Wanted[c].email)',
         pc'[c] \in {"find_phone_of_found", "update"} => HasEmail(found[c], Wanted[c].email)',
         pc'[c] = "create_suffixed" => Wanted[c].username # NoName
  PROVE  IInv'
<1>1. ResolvedByEmail'
  BY DEF IInv, ResolvedByEmail, HasEmail, EmailsKept
<1>2. FoundFacts'
  BY DEF IInv, FoundFacts, HasEmail, EmailsKept
<1>3. CreatedFacts'
  BY DEF IInv, CreatedFacts, EmailsKept
<1>4. NameFacts'
  BY DEF IInv, NameFacts
<1> QED
  BY <1>1, <1>2, <1>3, <1>4 DEF IInv

LEMMA InitInv == Init => IInv
<1> SUFFICES ASSUME Init PROVE IInv
  OBVIOUS
<1>1. /\ account \in [Existing -> Payload] /\ Existing \subseteq Accounts
      /\ Calls \cap Existing = {} /\ MaxSuffix \in Nat \ {0} /\ MaxFaults \in Nat
  BY ResolutionAssumption DEF Init, Accounts
<1>2. ResolutionTypeOK
  BY <1>1 DEF Init, ResolutionTypeOK, NoResult, Pcs
<1> QED
  BY <1>1, <1>2 DEF Init, IInv, ResolvedByEmail, FoundFacts, CreatedFacts, NameFacts

\* The steps that read.
LEMMA ReadStep ==
  ASSUME IInv, NEW c \in Calls,
         Begin(c) \/ FindEmail(c) \/ FindPhoneOfFound(c) \/ FindPhone(c) \/ Relookup(c)
           \/ RefindPhone(c)
  PROVE  IInv'
<1> USE DEF Goto
<1>1. ASSUME UNCHANGED account
          PROVE  EmailsKept
  BY <1>1 DEF EmailsKept
<1>2. CASE Begin(c)
  <2>1. ResolutionTypeOK'
    BY <1>2 DEF Begin, IInv, ResolutionTypeOK, Pcs
  <2> QED
    BY <1>1, <1>2, <2>1, LocalStep DEF Begin, IInv, ResolutionTypeOK
<1>3. CASE FindEmail(c)
  <2>1. CASE \E u \in WithEmail(Wanted[c]) : found' = [found EXCEPT ![c] = u]
    <3>1. PICK u \in WithEmail(Wanted[c]) : found' = [found EXCEPT ![c] = u]
      BY <2>1
    <3>2. HasEmail(u, Wanted[c].email) /\ u \in Accounts
      BY <3>1 DEF WithEmail, With, Clash, HasEmail, IInv, ResolutionTypeOK
    <3>3. pc' \in [Calls -> Pcs] /\ UNCHANGED <<account, omit, suffix, result, disturbed, faulty, faults>>
      BY <1>3 DEF FindEmail, IInv, ResolutionTypeOK, Pcs
    <3>4. ResolutionTypeOK'
      BY <3>1, <3>2, <3>3 DEF IInv, ResolutionTypeOK
    <3>5. HasEmail(found[c], Wanted[c].email)'
      BY <3>1, <3>2, <3>3 DEF HasEmail, IInv, ResolutionTypeOK
    <3> QED
      BY <1>1, <1>3, <3>1, <3>3, <3>4, <3>5, LocalStep DEF FindEmail, IInv, ResolutionTypeOK
  <2>2. CASE WithEmail(Wanted[c]) = {} /\ UNCHANGED found
             /\ Goto(c, IF Wanted[c].phone # NoPhone THEN "find_phone" ELSE "create")
    <3>1. ResolutionTypeOK'
      BY <1>3, <2>2 DEF FindEmail, IInv, ResolutionTypeOK, Pcs
    <3> QED
      BY <1>1, <1>3, <2>2, <3>1, LocalStep DEF FindEmail, IInv, ResolutionTypeOK
  <2> QED
    BY <1>3, <2>1, <2>2 DEF FindEmail
<1>4. CASE FindPhoneOfFound(c)
  <2>1. ResolutionTypeOK'
    BY <1>4 DEF FindPhoneOfFound, IInv, ResolutionTypeOK, Pcs
  <2>2. HasEmail(found[c], Wanted[c].email)'
    BY <1>4 DEF FindPhoneOfFound, IInv, FoundFacts, HasEmail
  <2> QED
    BY <1>1, <1>4, <2>1, <2>2, LocalStep DEF FindPhoneOfFound, IInv, ResolutionTypeOK
<1>5. CASE FindPhone(c)
  <2>1. ResolutionTypeOK'
    BY <1>5 DEF FindPhone, IInv, ResolutionTypeOK, Pcs
  <2> QED
    BY <1>1, <1>5, <2>1, LocalStep DEF FindPhone, IInv, ResolutionTypeOK
<1>6. CASE Relookup(c)
  <2>1. CASE \E u \in WithEmail(Wanted[c]) : Return(c, u, FALSE)
    <3>1. PICK u \in WithEmail(Wanted[c]) : Return(c, u, FALSE)
      BY <2>1
    <3>2. HasEmail(u, Wanted[c].email) /\ u \in Accounts
      BY <3>1 DEF WithEmail, With, Clash, HasEmail, IInv, ResolutionTypeOK
    <3>3. ResolutionTypeOK'
      BY <1>6, <3>1, <3>2 DEF Relookup, Return, IInv, ResolutionTypeOK, Pcs
    <3>4. pc'[c] = "returned" /\ HasEmail(result[c].user, Wanted[c].email)'
      BY <1>6, <3>1, <3>2 DEF Relookup, Return, HasEmail, IInv, ResolutionTypeOK
    <3> QED
      BY <1>1, <1>6, <3>1, <3>3, <3>4, LocalStep DEF Relookup, Return, IInv, ResolutionTypeOK
  <2>2. CASE UNCHANGED result
             /\ \E s \in {"refind_phone", "create_suffixed", "threw"} :
                  Goto(c, s) /\ (s = "create_suffixed" => Wanted[c].username # NoName)
    <3>1. ResolutionTypeOK'
      BY <1>6, <2>2 DEF Relookup, IInv, ResolutionTypeOK, Pcs
    <3> QED
      BY <1>1, <1>6, <2>2, <3>1, LocalStep DEF Relookup, IInv, ResolutionTypeOK
  <2> QED
    BY <1>6, <2>1, <2>2 DEF Relookup, Throw
<1>7. CASE RefindPhone(c)
  <2>1. /\ UNCHANGED <<account, found, omit, suffix, result, disturbed, faulty, faults>>
        /\ \E s \in {"create_without_phone", "threw"} : Goto(c, s)
    BY <1>7 DEF RefindPhone, Throw
  <2>2. ResolutionTypeOK'
    BY <2>1 DEF IInv, ResolutionTypeOK, Pcs
  <2> QED
    BY <1>1, <2>1, <2>2, LocalStep DEF IInv, ResolutionTypeOK
<1> QED
  BY <1>2, <1>3, <1>4, <1>5, <1>6, <1>7

\* A request that stores nothing, refused or failed, moves its call only.
LEMMA QuietStep ==
  ASSUME IInv, NEW c \in Calls, NEW s \in {"threw", "relookup", "relookup_phone", "create_suffixed"},
         Goto(c, s), s = "create_suffixed" => Wanted[c].username # NoName,
         UNCHANGED <<account, found, omit, result, disturbed>>,
         suffix' \in [Calls -> 1..MaxSuffix], faulty' \subseteq Calls, faults' \in 0..MaxFaults
  PROVE  IInv'
<1>1. ResolutionTypeOK'
  BY DEF Goto, IInv, ResolutionTypeOK, Pcs
<1>2. EmailsKept
  BY DEF EmailsKept
<1> QED
  BY <1>1, <1>2, LocalStep DEF Goto, IInv, ResolutionTypeOK

\* A request that stores an account of the call's email and ends its call.
LEMMA WriteStep ==
  ASSUME IInv, NEW c \in Calls, NEW u \in Accounts, NEW x \in Payload, Store(c, u, x),
         x.email = Wanted[c].email, u = c \/ HasEmail(u, x.email),
         UNCHANGED <<found, omit, suffix>>, faulty' \subseteq Calls, faults' \in 0..MaxFaults,
         Throw(c) \/ \E b \in BOOLEAN : Return(c, u, b)
  PROVE  IInv'
<1>1. u \in DOMAIN account => account[u].email = x.email
  BY DEF IInv, CreatedFacts, HasEmail
<1>2. /\ DOMAIN account' \in SUBSET Accounts
      /\ \A v \in DOMAIN account' : account'[v] \in Payload
      /\ disturbed' \in [Calls -> BOOLEAN]
      /\ HasEmail(u, x.email)'
      /\ EmailsKept
      /\ DOMAIN account' = DOMAIN account \cup {u}
  <2>1. ResolutionTypeOK
    BY DEF IInv
  <2> QED
    BY <1>1, <2>1, StoreEffect, ZenonT(30)
<1>3. ResolutionTypeOK'
  <2>1. pc' \in [Calls -> Pcs]
    BY DEF Throw, Return, Goto, IInv, ResolutionTypeOK, Pcs
  <2>2. result' \in [Calls -> [user: Accounts \cup {NoAccount}, created: BOOLEAN]]
    <3>1. CASE Throw(c)
      BY <3>1 DEF Throw, IInv, ResolutionTypeOK
    <3>2. CASE \E b \in BOOLEAN : Return(c, u, b)
      BY <3>2 DEF Return, IInv, ResolutionTypeOK
    <3> QED
      BY <3>1, <3>2
  <2> QED
    BY <1>2, <2>1, <2>2 DEF IInv, ResolutionTypeOK
<1>4. \A d \in Calls \ {c} : pc'[d] = pc[d] /\ found'[d] = found[d] /\ result'[d] = result[d]
  BY DEF Throw, Return, Goto, IInv, ResolutionTypeOK
<1>5. pc'[c] \in {"threw", "returned"}
  BY DEF Throw, Return, Goto, IInv, ResolutionTypeOK
<1>6. pc'[c] = "returned" => HasEmail(result[c].user, Wanted[c].email)'
  BY <1>2 DEF Throw, Return, Goto, IInv, ResolutionTypeOK, HasEmail
<1>7. \A d \in Calls : d \in DOMAIN account' =>
        d \in DOMAIN account \/ account'[d].email = Wanted[d].email
  BY <1>2 DEF HasEmail
<1> QED
  BY <1>2, <1>3, <1>4, <1>5, <1>6, <1>7, LocalStep

\* Who is written, with what, by the requests that write.
LEMMA Written ==
  ASSUME IInv, NEW c \in Calls, pc[c] \in Writes
  PROVE  /\ WriteOf(c).user \in Accounts
         /\ WriteOf(c).data \in Payload
         /\ WriteOf(c).data.email = Wanted[c].email
         /\ WriteOf(c).user = c \/ HasEmail(WriteOf(c).user, WriteOf(c).data.email)
<1>1. omit[c] \in BOOLEAN /\ c \in Accounts
  BY DEF IInv, ResolutionTypeOK, Accounts
<1>2. CASE pc[c] = "create"
  BY <1>1, <1>2, Payloads DEF WriteOf
<1>3. CASE pc[c] = "create_without_phone"
  BY <1>1, <1>3, Payloads DEF WriteOf
<1>4. CASE pc[c] = "create_suffixed"
  BY <1>1, <1>4, SuffixedPayload DEF WriteOf, IInv, NameFacts
<1>5. CASE pc[c] = "update"
  <2>1. HasEmail(found[c], Wanted[c].email)
    BY <1>5 DEF IInv, FoundFacts
  <2>2. found[c] \in Accounts /\ account[found[c]] \in Payload
    BY <2>1 DEF IInv, ResolutionTypeOK, HasEmail
  <2> QED
    BY <1>1, <1>5, <2>1, <2>2, Payloads DEF WriteOf
<1> QED
  BY <1>2, <1>3, <1>4, <1>5 DEF Writes

LEMMA NextInv == IInv /\ [Next]_vars => IInv'
<1> SUFFICES ASSUME IInv, [Next]_vars PROVE IInv'
  OBVIOUS
<1>0. /\ suffix \in [Calls -> 1..MaxSuffix] /\ faulty \subseteq Calls /\ faults \in 0..MaxFaults
      /\ MaxSuffix \in Nat \ {0} /\ MaxFaults \in Nat
  BY ResolutionAssumption DEF IInv, ResolutionTypeOK
<1>1. ASSUME NEW c \in Calls,
             Begin(c) \/ FindEmail(c) \/ FindPhoneOfFound(c) \/ FindPhone(c) \/ Relookup(c)
               \/ RefindPhone(c)
      PROVE  IInv'
  BY <1>1, ReadStep
<1>2. ASSUME NEW c \in Calls, Update(c) PROVE IInv'
  <2>1. pc[c] = "update" /\ UNCHANGED <<found, omit, suffix, faulty, faults>>
    BY <1>2 DEF Update
  <2> DEFINE new == Patch(account[found[c]], Wanted[c], omit[c])
  <2>2. WriteOf(c) = [user |-> found[c], data |-> new]
    BY <2>1 DEF WriteOf
  <2>3. CASE Store(c, found[c], new) /\ Return(c, found[c], FALSE)
    <3>1. /\ found[c] \in Accounts /\ new \in Payload /\ new.email = Wanted[c].email
          /\ found[c] = c \/ HasEmail(found[c], new.email)
      BY <2>1, <2>2, Written DEF Writes
    <3> HIDE DEF new
    <3> QED
      BY <1>0, <2>1, <2>3, <3>1, WriteStep
  <2>4. CASE Throw(c) /\ UNCHANGED <<account, disturbed>>
    BY <1>0, <2>1, <2>4, QuietStep DEF Throw
  <2> QED
    BY <1>2, <2>3, <2>4 DEF Update
<1>3. ASSUME NEW c \in Calls, Create(c) PROVE IInv'
  <2>1. pc[c] = "create" /\ UNCHANGED <<found, omit, suffix, faulty, faults>>
    BY <1>3 DEF Create
  <2>2. CASE Store(c, c, Creation(c)) /\ Return(c, c, TRUE)
    <3>1. WriteOf(c) = [user |-> c, data |-> Creation(c)]
      BY <2>1 DEF WriteOf
    <3>2. c \in Accounts /\ Creation(c) \in Payload /\ Creation(c).email = Wanted[c].email
      BY <2>1, <3>1, Written DEF Writes
    <3> QED
      BY <1>0, <2>1, <2>2, <3>2, WriteStep
  <2>3. CASE UNCHANGED <<account, result, disturbed>>
             /\ \E s \in {"relookup", "relookup_phone"} : Goto(c, s)
    BY <1>0, <2>1, <2>3, QuietStep
  <2> QED
    BY <1>3, <2>2, <2>3 DEF Create
<1>4. ASSUME NEW c \in Calls, CreateWithoutPhone(c) PROVE IInv'
  <2> DEFINE x == [Wanted[c] EXCEPT !.phone = NoPhone]
  <2>1. pc[c] = "create_without_phone" /\ UNCHANGED <<found, omit, suffix, faulty, faults>>
    BY <1>4 DEF CreateWithoutPhone
  <2>2. CASE Store(c, c, x) /\ Return(c, c, TRUE)
    <3>1. WriteOf(c) = [user |-> c, data |-> x]
      BY <2>1 DEF WriteOf
    <3>2. c \in Accounts /\ x \in Payload /\ x.email = Wanted[c].email
      BY <2>1, <3>1, Written DEF Writes
    <3> HIDE DEF x
    <3> QED
      BY <1>0, <2>1, <2>2, <3>2, WriteStep
  <2>3. CASE Throw(c) /\ UNCHANGED <<account, disturbed>>
    BY <1>0, <2>1, <2>3, QuietStep DEF Throw
  <2> QED
    BY <1>4, <2>2, <2>3 DEF CreateWithoutPhone
<1>5. ASSUME NEW c \in Calls, CreateSuffixed(c) PROVE IInv'
  <2>1. pc[c] = "create_suffixed" /\ UNCHANGED <<found, omit, faulty, faults>>
    BY <1>5 DEF CreateSuffixed
  <2>2. CASE Store(c, c, SuffixedCreation(c)) /\ Return(c, c, TRUE) /\ UNCHANGED suffix
    <3>1. WriteOf(c) = [user |-> c, data |-> SuffixedCreation(c)]
      BY <2>1 DEF WriteOf
    <3>2. /\ c \in Accounts /\ SuffixedCreation(c) \in Payload
          /\ SuffixedCreation(c).email = Wanted[c].email
      BY <2>1, <3>1, Written DEF Writes
    <3> QED
      BY <1>0, <2>1, <2>2, <3>2, WriteStep
  <2>3. CASE /\ suffix[c] < MaxSuffix /\ suffix' = [suffix EXCEPT ![c] = @ + 1]
             /\ UNCHANGED <<account, pc, result, disturbed>>
    <3>1. suffix' \in [Calls -> 1..MaxSuffix]
      BY <1>0, <2>3
    <3>2. Goto(c, "create_suffixed") /\ Wanted[c].username # NoName
      BY <2>1, <2>3 DEF Goto, IInv, ResolutionTypeOK, NameFacts
    <3> QED
      BY <1>0, <2>1, <2>3, <3>1, <3>2, QuietStep
  <2>4. CASE Throw(c) /\ UNCHANGED <<account, suffix, disturbed>>
    BY <1>0, <2>1, <2>4, QuietStep DEF Throw
  <2> QED
    BY <1>5, <2>2, <2>3, <2>4 DEF CreateSuffixed
<1>6. ASSUME NEW c \in Calls, Fails(c) PROVE IInv'
  <2>1. /\ Throw(c) /\ UNCHANGED <<found, omit, suffix>>
        /\ faulty' \subseteq Calls /\ faults' \in 0..MaxFaults
    BY <1>0, <1>6 DEF Fails
  <2>2. CASE UNCHANGED <<account, disturbed>>
    BY <1>0, <2>1, <2>2, QuietStep DEF Throw
  <2>3. CASE pc[c] \in Writes /\ Store(c, WriteOf(c).user, WriteOf(c).data)
    BY <2>1, <2>3, Written, WriteStep
  <2> QED
    BY <1>6, <2>2, <2>3 DEF Fails
<1>7. ASSUME UNCHANGED vars PROVE IInv'
  BY <1>7 DEF vars, IInv, ResolutionTypeOK, ResolvedByEmail, FoundFacts, CreatedFacts,
              NameFacts, HasEmail
<1> QED
  BY <1>1, <1>2, <1>3, <1>4, <1>5, <1>6, <1>7 DEF Next, Step

\* IInv is an invariant.
LEMMA Invariance == Spec => []IInv
BY InitInv, NextInv, PTL DEF Spec

\* Every variable keeps its type, whatever the payloads: no call tries a
\* suffix beyond the limit, and nobody but a call creates an account.
THEOREM ResolutionTypeCorrect == Spec => []ResolutionTypeOK
<1>1. IInv => ResolutionTypeOK
  BY DEF IInv
<1> QED
  BY <1>1, Invariance, PTL

\* The account a call returned has, for ever, the email the call asked for,
\* however many calls, conflicts and lost answers there are.
THEOREM ResolvedCorrectly == Spec => []ResolvedByEmail
<1>1. IInv => ResolvedByEmail
  BY DEF IInv
<1> QED
  BY <1>1, Invariance, PTL

-----------------------------------------------------------------------------
(***************************************************************************)
(* Whose accounts are written, and the directory of emails.  A request of  *)
(* a call either writes nothing and may answer the call with an account of *)
(* its email, or it stores one account and ends the call.                  *)
(***************************************************************************)
Reading(c) ==
  /\ UNCHANGED <<account, disturbed>>
  /\ \/ UNCHANGED result /\ \E s \in Pcs \ {"returned"} : Goto(c, s)
     \/ \E u \in WithEmail(Wanted[c]) : Return(c, u, FALSE)

Writing(c) ==
  /\ pc[c] \in Writes
  /\ Store(c, WriteOf(c).user, WriteOf(c).data)
  /\ Throw(c) \/ \E b \in BOOLEAN : Return(c, WriteOf(c).user, b)

LEMMA StepKinds ==
  ASSUME IInv, NEW c \in Calls, Begin(c) \/ Step(c) \/ Fails(c)
  PROVE  pc[c] # "returned" /\ (Reading(c) \/ Writing(c))
<1>1. CASE Begin(c) \/ FindEmail(c) \/ FindPhoneOfFound(c) \/ FindPhone(c)
  BY <1>1 DEF Begin, FindEmail, FindPhoneOfFound, FindPhone, Goto, Reading, Pcs
<1>2. CASE Relookup(c) \/ RefindPhone(c)
  BY <1>2 DEF Relookup, RefindPhone, Throw, Goto, Reading, Pcs
<1>3. CASE Update(c)
  <2>1. WriteOf(c).user = found[c] /\ WriteOf(c).data = Patch(account[found[c]], Wanted[c], omit[c])
    BY <1>3 DEF Update, WriteOf
  <2> QED
    BY <1>3, <2>1 DEF Update, Throw, Reading, Writing, Writes, Pcs
<1>4. CASE Create(c)
  <2>1. WriteOf(c).user = c /\ WriteOf(c).data = Creation(c)
    BY <1>4 DEF Create, WriteOf
  <2> QED
    BY <1>4, <2>1 DEF Create, Reading, Writing, Writes, Pcs
<1>5. CASE CreateWithoutPhone(c)
  <2>1. WriteOf(c).user = c /\ WriteOf(c).data = [Wanted[c] EXCEPT !.phone = NoPhone]
    BY <1>5 DEF CreateWithoutPhone, WriteOf
  <2> QED
    BY <1>5, <2>1 DEF CreateWithoutPhone, Throw, Reading, Writing, Writes, Pcs
<1>6. CASE CreateSuffixed(c)
  <2>1. pc[c] = "create_suffixed" /\ WriteOf(c).user = c /\ WriteOf(c).data = SuffixedCreation(c)
    BY <1>6 DEF CreateSuffixed, WriteOf
  <2>2. CASE UNCHANGED <<account, pc, result, disturbed>>
    <3>1. Goto(c, "create_suffixed")
      BY <2>1, <2>2 DEF Goto, IInv, ResolutionTypeOK
    <3> QED
      BY <2>1, <2>2, <3>1 DEF Reading, Pcs
  <2> QED
    BY <1>6, <2>1, <2>2 DEF CreateSuffixed, Throw, Reading, Writing, Writes, Pcs
<1>7. CASE Fails(c)
  BY <1>7 DEF Fails, InFlight, Throw, Reading, Writing, Writes, Pcs
<1> QED
  BY <1>1, <1>2, <1>3, <1>4, <1>5, <1>6, <1>7 DEF Step

\* A call that writes ends, and the account had its email or is a new one.
LEMMA WritingMoves ==
  ASSUME IInv, NEW c \in Calls, Writing(c)
  PROVE  /\ pc'[c] # pc[c]
         /\ WriteOf(c).user \in DOMAIN account =>
              account[WriteOf(c).user].email = Wanted[c].email
         /\ WriteOf(c).user \in DOMAIN account \/ WriteOf(c).user = c
<1>1. pc'[c] \in {"threw", "returned"} /\ pc[c] \in Writes
  BY DEF Writing, Throw, Return, Goto, IInv, ResolutionTypeOK
<1>2. /\ WriteOf(c).data.email = Wanted[c].email
      /\ WriteOf(c).user = c \/ HasEmail(WriteOf(c).user, WriteOf(c).data.email)
  BY <1>1, Written
<1> QED
  BY <1>1, <1>2 DEF Writes, HasEmail, IInv, CreatedFacts

\* Whose account a step of a call changes.
LEMMA OwnAccountStep ==
  ASSUME IInv, NEW c \in Calls, Begin(c) \/ Step(c) \/ Fails(c),
         NEW u \in DOMAIN account, account'[u] # account[u]
  PROVE  pc'[c] # pc[c] /\ Wanted[c].email = account[u].email
<1>1. Writing(c)
  BY StepKinds DEF Reading
<1>2. u = WriteOf(c).user
  BY <1>1 DEF Writing, Store
<1> QED
  BY <1>1, <1>2, WritingMoves

\* An account is changed only by a call for its email, whatever phones and
\* usernames calls and accounts have in common.
THEOREM OwnAccountsOnly == Spec => OnlyOwnAccountTouched
<1> DEFINE Own == \A u \in DOMAIN account : account'[u] # account[u] =>
                    \E c \in Calls : pc'[c] # pc[c] /\ Wanted[c].email = account[u].email
<1>1. IInv /\ [Next]_vars => [Own]_vars
  BY OwnAccountStep DEF Next
<1> QED
  BY <1>1, Invariance, PTL DEF Spec, OnlyOwnAccountTouched

-----------------------------------------------------------------------------
OneAccountPerEmail ==
  \A u, v \in DOMAIN account : account[u].email = account[v].email => u = v

Unanswered == \A c \in Calls : pc[c] # "returned" => result[c].user = NoAccount

DirectoryInv == IInv /\ OneAccountPerEmail /\ Unanswered

\* The only account of an email is the email's holder.
LEMMA HolderIs ==
  ASSUME OneAccountPerEmail, NEW u, NEW e, HasEmail(u, e)
  PROVE  Holder(e) = u
BY DEF Holder, HasEmail, OneAccountPerEmail

LEMMA NoHolder ==
  ASSUME NEW e, \A u \in DOMAIN account : account[u].email # e
  PROVE  Holder(e) = NoAccount
BY DEF Holder

\* Who holds an email depends on the emails of the accounts.
LEMMA SameHolder ==
  ASSUME NEW e,
         {u \in DOMAIN account : account[u].email = e} = {u \in DOMAIN account' : account'[u].email = e}
  PROVE  Holder(e)' = Holder(e)
<1> DEFINE One(S) == IF S = {} THEN NoAccount ELSE CHOOSE u \in S : TRUE
<1>1. Holder(e) = One({u \in DOMAIN account : account[u].email = e})
  BY DEF Holder
<1>2. Holder(e)' = One({u \in DOMAIN account' : account'[u].email = e})
  BY DEF Holder
<1> HIDE DEF One
<1> QED
  BY <1>1, <1>2

\* What a write does to the emails: nothing, or it gives one that nobody has
\* to the account of its call.
LEMMA WritingEmails ==
  ASSUME DirectoryInv, NEW c \in Calls, Writing(c), NEW u, u = WriteOf(c).user
  PROVE  /\ OneAccountPerEmail'
         /\ EmailsKept
         /\ HasEmail(u, Wanted[c].email)'
         /\ \/ DOMAIN account' = DOMAIN account
            \/ /\ u = c /\ DOMAIN account' = DOMAIN account \cup {c}
               /\ \A v \in DOMAIN account : account[v].email # Wanted[c].email
<1>0. PICK x : x = WriteOf(c).data
  OBVIOUS
<1>1. IInv /\ OneAccountPerEmail /\ ResolutionTypeOK /\ pc[c] \in Writes /\ Store(c, u, x)
  BY <1>0 DEF DirectoryInv, IInv, Writing
<1>2. u \in Accounts /\ x \in Payload /\ x.email = Wanted[c].email
  BY <1>0, <1>1, Written
<1>3. /\ u \in DOMAIN account => account[u].email = Wanted[c].email
      /\ u \in DOMAIN account \/ u = c
  BY <1>1, WritingMoves
<1>4. /\ HasEmail(u, x.email)' /\ EmailsKept
      /\ DOMAIN account' = DOMAIN account \cup {u}
  BY <1>1, <1>2, <1>3, StoreEffect
<1>5. \A v \in DOMAIN account \ {u} : account[v].email # Wanted[c].email
  <2> SUFFICES ASSUME NEW v \in DOMAIN account \ {u}, account[v].email = Wanted[c].email
               PROVE  FALSE
    OBVIOUS
  <2>1. "email" \in Clash(account[v], x)
    BY <1>2 DEF Clash
  <2>2. "email" \in Refusals(u, x)
    BY <2>1 DEF Refusals
  <2> QED
    BY <1>1, <2>2 DEF Store
<1>6. OneAccountPerEmail'
  BY <1>1, <1>2, <1>4, <1>5 DEF OneAccountPerEmail, EmailsKept, HasEmail
<1>7. \/ DOMAIN account' = DOMAIN account
      \/ /\ u = c /\ DOMAIN account' = DOMAIN account \cup {c}
         /\ \A v \in DOMAIN account : account[v].email # Wanted[c].email
  <2>1. CASE u \in DOMAIN account
    BY <1>4, <2>1
  <2>2. CASE u \notin DOMAIN account
    BY <1>3, <1>4, <1>5, <2>2
  <2> QED
    BY <2>1, <2>2
<1> QED
  BY <1>2, <1>4, <1>6, <1>7

LEMMA DirectoryInitInv == Init => DirectoryInv
<1> SUFFICES ASSUME Init PROVE DirectoryInv
  OBVIOUS
<1>1. OneAccountPerEmail
  <2>1. \A u, v \in Existing : Known[u].email = Known[v].email => u = v
    <3>1. \A u, v \in Existing : Known[u].email = Known[v].email => "email" \in Clash(Known[u], Known[v])
      BY DEF Clash
    <3> QED
      BY <3>1, ResolutionAssumption
  <2>2. account = Known /\ DOMAIN account = Existing
    BY ResolutionAssumption DEF Init
  <2> QED
    BY <2>1, <2>2 DEF OneAccountPerEmail
<1>2. Unanswered
  BY DEF Init, Unanswered, NoResult
<1> QED
  BY <1>1, <1>2, InitInv DEF DirectoryInv

\* Only the call that moves is answered.
LEMMA OneAnswer ==
  ASSUME DirectoryInv, NEW c \in Calls, pc[c] # "returned", Reading(c) \/ Writing(c)
  PROVE  Unanswered' /\ \A d \in Calls \ {c} : result'[d] = result[d]
<1>1. /\ pc \in [Calls -> Pcs]
      /\ result \in [Calls -> [user: Accounts \cup {NoAccount}, created: BOOLEAN]]
  BY DEF DirectoryInv, IInv, ResolutionTypeOK
<1>2. CASE UNCHANGED result /\ \E s \in Pcs \ {"returned"} : Goto(c, s)
  <2>1. PICK s \in Pcs \ {"returned"} : pc' = [pc EXCEPT ![c] = s]
    BY <1>2 DEF Goto
  <2> QED
    BY <1>1, <1>2, <2>1 DEF Unanswered, DirectoryInv
<1>3. CASE \E u : \E b : Return(c, u, b)
  BY <1>1, <1>3 DEF Return, Goto, Unanswered, DirectoryInv
<1> QED
  BY <1>2, <1>3 DEF Reading, Writing, Throw, Pcs

\* A step of a call is one of the directory's or leaves it alone.
LEMMA DirectoryStep ==
  ASSUME DirectoryInv, NEW c \in Calls, pc[c] # "returned", Reading(c) \/ Writing(c)
  PROVE  /\ OneAccountPerEmail'
         /\ Directory!Step(c) \/ UNCHANGED <<[e \in Emails |-> Holder(e)], [d \in Calls |-> result[d].user]>>
<1> DEFINE e0 == Wanted[c].email
           holder == [e \in Emails |-> Holder(e)]
           answer == [d \in Calls |-> result[d].user]
<1>1. /\ e0 \in Emails /\ result[c].user = NoAccount /\ OneAccountPerEmail /\ IInv
      /\ result \in [Calls -> [user: Accounts \cup {NoAccount}, created: BOOLEAN]]
  <2>1. Wanted[c] \in Payload
    BY Payloads
  <2> QED
    BY <2>1 DEF Payload, DirectoryInv, Unanswered, IInv, ResolutionTypeOK
<1>2. \A d \in Calls \ {c} : result'[d] = result[d]
  BY OneAnswer
<1>3. ASSUME NEW u, u # NoAccount, result'[c].user = u, Holder(e0)' = u
      PROVE  Directory!Answered(c)
  <2>1. answer' = [answer EXCEPT ![c] = u]
    BY <1>2, <1>3
  <2>2. holder'[e0] = u
    BY <1>1, <1>3
  <2> QED
    BY <1>1, <1>3, <2>1, <2>2 DEF Directory!Answered
<1>4. ASSUME UNCHANGED result PROVE UNCHANGED answer
  BY <1>4
<1>5. CASE Reading(c)
  <2>1. OneAccountPerEmail'
    BY <1>1, <1>5 DEF Reading, OneAccountPerEmail
  <2>2. UNCHANGED holder
    BY <1>5 DEF Reading, Holder
  <2>3. CASE UNCHANGED result
    BY <1>4, <2>1, <2>2, <2>3
  <2>4. CASE \E u \in WithEmail(Wanted[c]) : Return(c, u, FALSE)
    <3>1. PICK u \in WithEmail(Wanted[c]) : Return(c, u, FALSE)
      BY <2>4
    <3>2. HasEmail(u, e0) /\ u \in Accounts
      BY <1>1, <3>1 DEF WithEmail, With, Clash, HasEmail, IInv, ResolutionTypeOK
    <3>3. Holder(e0)' = u /\ u # NoAccount
      <4>1. Holder(e0) = u
        BY <1>1, <3>2, HolderIs
      <4>2. Holder(e0)' = Holder(e0)
        BY <1>5 DEF Reading, Holder
      <4> QED
        BY <3>2, <4>1, <4>2, ResolutionAssumption
    <3>4. result'[c].user = u
      BY <1>1, <3>1 DEF Return
    <3> QED
      BY <1>3, <2>1, <2>2, <3>3, <3>4 DEF Directory!Step
  <2> QED
    BY <1>5, <2>3, <2>4 DEF Reading
<1>6. CASE Writing(c)
  <2>0. PICK u : u = WriteOf(c).user
    OBVIOUS
  <2>1. OneAccountPerEmail' /\ EmailsKept /\ HasEmail(u, e0)'
    BY <1>6, <2>0, WritingEmails
  <2>2. u \in Accounts /\ u # NoAccount
    <3>1. pc[c] \in Writes
      BY <1>6 DEF Writing
    <3> QED
      BY <1>1, <2>0, <3>1, Written, ResolutionAssumption
  <2>3. Holder(e0)' = u
    <3>1. {v \in DOMAIN account' : account'[v].email = e0} = {u}
      BY <2>1 DEF HasEmail, OneAccountPerEmail
    <3> QED
      BY <3>1 DEF Holder
  <2>4. UNCHANGED result \/ result'[c].user = u
    BY <1>1, <1>6, <2>0 DEF Writing, Throw, Return
  <2>5. CASE DOMAIN account' = DOMAIN account
    <3>1. UNCHANGED holder
      <4> SUFFICES ASSUME NEW e \in Emails PROVE Holder(e)' = Holder(e)
        OBVIOUS
      <4> QED
        BY <2>1, <2>5, SameHolder DEF EmailsKept
    <3> QED
      BY <1>3, <1>4, <2>1, <2>2, <2>3, <2>4, <3>1 DEF Directory!Step
  <2>6. CASE /\ u = c /\ DOMAIN account' = DOMAIN account \cup {c}
             /\ \A v \in DOMAIN account : account[v].email # e0
    <3>1. holder[e0] = NoAccount
      BY <1>1, <2>6, NoHolder
    <3>2. holder' = [holder EXCEPT ![e0] = c]
      <4>1. ASSUME NEW e \in Emails \ {e0} PROVE Holder(e)' = Holder(e)
        <5>1. account'[c].email = e0
          BY <2>1, <2>6 DEF HasEmail
        <5> QED
          BY <2>1, <2>6, <5>1, SameHolder DEF EmailsKept
      <4> QED
        BY <1>1, <2>3, <2>6, <4>1
    <3>3. Directory!Register(c)
      BY <3>1, <3>2 DEF Directory!Register
    <3> QED
      BY <1>3, <1>4, <2>1, <2>2, <2>3, <2>4, <3>3 DEF Directory!Step
  <2> QED
    BY <1>6, <2>0, <2>5, <2>6, WritingEmails
<1> QED
  BY <1>5, <1>6

\* Every step of the calls keeps the invariant and is one of the directory's.
LEMMA DirectoryCallStep ==
  ASSUME DirectoryInv, NEW c \in Calls, Begin(c) \/ Step(c) \/ Fails(c)
  PROVE  /\ DirectoryInv'
         /\ Directory!Step(c) \/ UNCHANGED <<[e \in Emails |-> Holder(e)], [d \in Calls |-> result[d].user]>>
<1>1. IInv /\ IInv'
  BY NextInv DEF DirectoryInv, Next
<1> QED
  BY <1>1, StepKinds, DirectoryStep, OneAnswer DEF DirectoryInv

LEMMA DirectoryQuiet ==
  ASSUME DirectoryInv, IInv', UNCHANGED <<account, pc, result>>
  PROVE  /\ DirectoryInv'
         /\ UNCHANGED <<[e \in Emails |-> Holder(e)], [d \in Calls |-> result[d].user]>>
BY DEF DirectoryInv, OneAccountPerEmail, Unanswered, Holder

LEMMA DirectoryNextInv == DirectoryInv /\ [Next]_vars => DirectoryInv'
<1>1. ASSUME DirectoryInv, UNCHANGED vars PROVE DirectoryInv'
  BY <1>1, NextInv, DirectoryQuiet DEF vars, DirectoryInv
<1> QED
  BY <1>1, DirectoryCallStep DEF Next

LEMMA DirectoryStarts == Init => Directory!Init
<1> SUFFICES ASSUME Init PROVE Directory!Init
  OBVIOUS
<1>1. \A e \in Emails : Holder(e) \in Accounts \cup {NoAccount}
  BY InitInv DEF Holder, IInv, ResolutionTypeOK
<1>2. \A c \in Calls : result[c].user = NoAccount
  BY DEF Init, NoResult
<1> QED
  BY <1>1, <1>2 DEF Directory!Init

\* Calls and accounts implement the directory, for any of them: an email gets
\* one account, by a call for it, and every call answered is answered with it.
THEOREM DirectoryImplemented == Spec => ImplementsDirectory
<1>1. Init => Directory!Init
  BY DirectoryStarts
<1>2. DirectoryInv /\ [Next]_vars =>
        [Directory!Next]_<<[e \in Emails |-> Holder(e)], [c \in Calls |-> result[c].user]>>
  <2> SUFFICES ASSUME DirectoryInv, [Next]_vars
               PROVE  Directory!Next \/ UNCHANGED <<[e \in Emails |-> Holder(e)], [c \in Calls |-> result[c].user]>>
    OBVIOUS
  <2>1. ASSUME NEW d \in Calls, Begin(d) \/ Step(d) \/ Fails(d)
        PROVE  Directory!Step(d) \/ UNCHANGED <<[e \in Emails |-> Holder(e)], [c \in Calls |-> result[c].user]>>
    BY <2>1, DirectoryCallStep
  <2>2. CASE UNCHANGED vars
    BY <2>2 DEF vars, Holder
  <2> QED
    BY <2>1, <2>2 DEF Next, Directory!Next
<1>3. Spec => []DirectoryInv
  BY DirectoryInitInv, DirectoryNextInv, PTL DEF Spec
<1>4. []DirectoryInv /\ [][Next]_vars =>
        [][Directory!Next]_<<[e \in Emails |-> Holder(e)], [c \in Calls |-> result[c].user]>>
  BY <1>2, PTL
<1>5. Spec => Directory!Init
  BY <1>1, PTL DEF Spec
<1> QED
  BY <1>3, <1>4, <1>5, PTL DEF Spec, ImplementsDirectory, Directory!Spec

-----------------------------------------------------------------------------
(***************************************************************************)
(* Who throws.  While a call is undisturbed the accounts are as they were  *)
(* when it began, so that what its lookups have found still holds when its *)
(* write is refused: nothing is left to refuse it but a username.          *)
(***************************************************************************)
WellFormed(c) == Wanted[c].email \notin InvalidEmails /\ Wanted[c].phone \notin InvalidPhones

Taken(c, n) ==
  \E u \in DOMAIN account : account[u].email # Wanted[c].email /\ account[u].username = n

NoPhoneOwner(c, u) ==
  \A v \in DOMAIN account \ {u} : Wanted[c].phone = NoPhone \/ account[v].phone # Wanted[c].phone

NoEmailOwner(c) == \A v \in DOMAIN account : account[v].email # Wanted[c].email

LookupFacts(c) ==
  /\ pc[c] \in {"find_phone", "create", "relookup", "create_suffixed"} => NoEmailOwner(c)
  /\ pc[c] \in {"create", "relookup", "create_suffixed"} => omit[c] \/ NoPhoneOwner(c, c)
  /\ pc[c] = "update" => omit[c] \/ NoPhoneOwner(c, found[c])

UsernameFacts(c) ==
  /\ pc[c] \notin {"relookup_phone", "refind_phone", "create_without_phone"}
  /\ pc[c] \in {"relookup", "create_suffixed"} =>
       Wanted[c].username # NoName /\ Taken(c, Wanted[c].username)
  /\ pc[c] \notin {"create_suffixed", "returned", "threw"} => suffix[c] = 1
  /\ pc[c] = "create_suffixed" =>
       \A i \in 1..(suffix[c] - 1) : Taken(c, Suffixed[Wanted[c].username, i])

Calm(c) == ~disturbed[c] /\ WellFormed(c) => LookupFacts(c) /\ UsernameFacts(c)

DistinctAccounts ==
  \A u, v \in DOMAIN account : u # v => Clash(account[u], account[v]) = {}

GoodPhones == \A u \in DOMAIN account : account[u].phone \notin InvalidPhones

CalmInv == IInv /\ DistinctAccounts /\ GoodPhones /\ \A c \in Calls : Calm(c)

LEMMA Clashes ==
  ASSUME NEW x, NEW y
  PROVE  /\ "email" \in Clash(x, y) <=> x.email = y.email
         /\ "phone" \in Clash(x, y) <=> x.phone = y.phone /\ x.phone # NoPhone
         /\ "username" \in Clash(x, y) <=> x.username = y.username /\ x.username # NoName
         /\ Clash(x, y) \subseteq {"email", "phone", "username"}
         /\ Clash(x, y) = Clash(y, x)
BY DEF Clash

\* A write that is well formed, and whose email and phone nobody else has, can
\* only be refused for its username.
LEMMA RefusedForItsName ==
  ASSUME NEW u, NEW x, Refusals(u, x) # {},
         x.email \notin InvalidEmails, x.phone \notin InvalidPhones,
         \A v \in DOMAIN account \ {u} :
           account[v].email # x.email /\ (x.phone = NoPhone \/ account[v].phone # x.phone)
  PROVE  /\ Refusals(u, x) = {"username"} /\ x.username # NoName
         /\ \E v \in DOMAIN account \ {u} : account[v].username = x.username
<1>1. Refusals(u, x) = UNION {Clash(account[v], x) : v \in DOMAIN account \ {u}}
  BY DEF Refusals
<1>2. \A v \in DOMAIN account \ {u} : Clash(account[v], x) \subseteq {"username"}
  <2> SUFFICES ASSUME NEW v \in DOMAIN account \ {u} PROVE Clash(account[v], x) \subseteq {"username"}
    OBVIOUS
  <2>1. "email" \notin Clash(account[v], x) /\ "phone" \notin Clash(account[v], x)
    BY Clashes
  <2> QED
    BY <2>1, Clashes
<1>3. PICK v \in DOMAIN account \ {u} : Clash(account[v], x) # {}
  BY <1>1
<1>4. Clash(account[v], x) = {"username"}
  BY <1>2, <1>3
<1>5. account[v].username = x.username /\ x.username # NoName
  BY <1>4, Clashes
<1>6. Refusals(u, x) = {"username"}
  BY <1>1, <1>2, <1>4
<1> QED
  BY <1>5, <1>6

\* The emails, phones and usernames of the accounts, when none is stored twice.
LEMMA NoEmail ==
  ASSUME NEW c \in Calls
  PROVE  WithEmail(Wanted[c]) = {} <=> NoEmailOwner(c)
BY Clashes DEF WithEmail, With, NoEmailOwner

LEMMA StoredApart ==
  ASSUME CalmInv, NEW c \in Calls, Writing(c)
  PROVE  DistinctAccounts' /\ GoodPhones'
<1>1. PICK u, x : u = WriteOf(c).user /\ x = WriteOf(c).data
  OBVIOUS
<1>2. /\ account' = [v \in DOMAIN account \cup {u} |-> IF v = u THEN x ELSE account[v]]
      /\ Refusals(u, x) = {}
  BY <1>1 DEF Writing, Store
<1>3. \A v \in DOMAIN account \ {u} : Clash(account[v], x) = {} /\ Clash(x, account[v]) = {}
  BY <1>2, Clashes DEF Refusals
<1>4. x.phone \notin InvalidPhones
  BY <1>2 DEF Refusals
<1>5. DistinctAccounts'
  <2> SUFFICES ASSUME NEW v \in DOMAIN account', NEW w \in DOMAIN account', v # w
               PROVE  Clash(account'[v], account'[w]) = {}
    BY DEF DistinctAccounts, Clash
  <2> QED
    BY <1>2, <1>3 DEF CalmInv, DistinctAccounts
<1>6. GoodPhones'
  BY <1>2, <1>4 DEF CalmInv, GoodPhones
<1> QED
  BY <1>5, <1>6

\* What is refused to an undisturbed call, request by request.
LEMMA UpdateRefused ==
  ASSUME CalmInv, NEW c \in Calls, ~disturbed[c], WellFormed(c), pc[c] = "update",
         Refusals(found[c], Patch(account[found[c]], Wanted[c], omit[c])) # {}
  PROVE  NamesTaken(c)
<1> DEFINE u == found[c]
           x == Patch(account[u], Wanted[c], omit[c])
<1>1. HasEmail(u, Wanted[c].email) /\ LookupFacts(c)
  BY DEF CalmInv, IInv, FoundFacts, Calm
<1>2. /\ x.email = Wanted[c].email
      /\ x.phone = account[u].phone \/ (~omit[c] /\ x.phone = Wanted[c].phone)
      /\ x.username = IF Wanted[c].username = NoName THEN account[u].username ELSE Wanted[c].username
  BY DEF Patch
<1> HIDE DEF x
<1>3. \A v \in DOMAIN account \ {u} :
        /\ account[v].email # account[u].email
        /\ account[u].phone = NoPhone \/ account[v].phone # account[u].phone
        /\ account[u].username = NoName \/ account[v].username # account[u].username
  BY <1>1, Clashes DEF CalmInv, DistinctAccounts, HasEmail
<1>4. x.email \notin InvalidEmails /\ x.phone \notin InvalidPhones
  BY <1>1, <1>2 DEF WellFormed, CalmInv, GoodPhones, HasEmail
<1>5. \A v \in DOMAIN account \ {u} :
        account[v].email # x.email /\ (x.phone = NoPhone \/ account[v].phone # x.phone)
  BY <1>1, <1>2, <1>3 DEF LookupFacts, NoPhoneOwner, HasEmail
<1>6. Refusals(u, x) # {}
  BY DEF x
<1>7. PICK v \in DOMAIN account \ {u} : account[v].username = x.username /\ x.username # NoName
  BY <1>4, <1>5, <1>6, RefusedForItsName
<1>8. x.username = Wanted[c].username /\ account[v].email # Wanted[c].email
  BY <1>1, <1>2, <1>3, <1>7 DEF HasEmail
<1>9. WithEmail(Wanted[c]) # {}
  BY <1>1, NoEmail DEF HasEmail, NoEmailOwner
<1> QED
  BY <1>7, <1>8, <1>9 DEF NamesTaken

LEMMA CreateRefused ==
  ASSUME CalmInv, NEW c \in Calls, ~disturbed[c], WellFormed(c), NEW x,
         pc[c] \in {"create", "create_suffixed"}, Refusals(c, x) # {},
         x.email = Wanted[c].email, x.phone = Creation(c).phone
  PROVE  Refusals(c, x) = {"username"} /\ x.username # NoName /\ Taken(c, x.username)
<1>1. LookupFacts(c) /\ Wanted[c] \in Payload /\ omit[c] \in BOOLEAN
  BY Payloads DEF CalmInv, Calm, IInv, ResolutionTypeOK
<1>2. x.phone = IF omit[c] THEN NoPhone ELSE Wanted[c].phone
  BY <1>1 DEF Creation, Payload
<1>3. NoPhone \notin InvalidPhones
  BY ResolutionAssumption
<1>4. x.email \notin InvalidEmails /\ x.phone \notin InvalidPhones
  BY <1>2, <1>3 DEF WellFormed
<1>5. \A v \in DOMAIN account : account[v].email # x.email
  BY <1>1 DEF LookupFacts, NoEmailOwner
<1>6. \A v \in DOMAIN account \ {c} : x.phone = NoPhone \/ account[v].phone # x.phone
  BY <1>1, <1>2 DEF LookupFacts, NoPhoneOwner
<1>7. /\ Refusals(c, x) = {"username"} /\ x.username # NoName
      /\ \E v \in DOMAIN account \ {c} : account[v].username = x.username
  BY <1>4, <1>5, <1>6, RefusedForItsName
<1> QED
  BY <1>5, <1>7 DEF Taken

LEMMA SuffixRefused ==
  ASSUME CalmInv, NEW c \in Calls, ~disturbed[c], WellFormed(c), pc[c] = "create_suffixed",
         Refusals(c, SuffixedCreation(c)) # {}
  PROVE  Taken(c, Suffixed[Wanted[c].username, suffix[c]])
<1>1. PICK n : n = Suffixed[Wanted[c].username, suffix[c]]
  OBVIOUS
<1>2. PICK x : x = SuffixedCreation(c)
  OBVIOUS
<1>3. x.email = Wanted[c].email /\ x.phone = Creation(c).phone /\ x.username = n
  BY <1>1, <1>2, Payloads DEF SuffixedCreation, Creation, Payload
<1>4. Refusals(c, x) # {}
  BY <1>2
<1>5. Taken(c, x.username)
  BY <1>3, <1>4, CreateRefused
<1> QED
  BY <1>1, <1>3, <1>5

\* A step of one call moves no other.
LEMMA OthersStay ==
  ASSUME IInv, NEW c \in Calls, Begin(c) \/ Step(c) \/ Fails(c), NEW d \in Calls \ {c}
  PROVE  pc'[d] = pc[d] /\ found'[d] = found[d] /\ omit'[d] = omit[d] /\ suffix'[d] = suffix[d]
<1>1. /\ pc \in [Calls -> Pcs] /\ found \in [Calls -> Accounts \cup {NoAccount}]
      /\ omit \in [Calls -> BOOLEAN] /\ suffix \in [Calls -> 1..MaxSuffix]
  BY DEF IInv, ResolutionTypeOK
<1>2. CASE Begin(c) \/ FindEmail(c) \/ FindPhoneOfFound(c) \/ FindPhone(c)
  BY <1>1, <1>2 DEF Begin, FindEmail, FindPhoneOfFound, FindPhone, Goto
<1>3. CASE Update(c) \/ Create(c) \/ CreateWithoutPhone(c) \/ Relookup(c) \/ RefindPhone(c)
  BY <1>1, <1>3 DEF Update, Create, CreateWithoutPhone, Relookup, RefindPhone, Return, Throw, Goto
<1>4. CASE CreateSuffixed(c) \/ Fails(c)
  BY <1>1, <1>4 DEF CreateSuffixed, Fails, Return, Throw, Goto
<1> QED
  BY <1>2, <1>3, <1>4 DEF Step

LEMMA CalmOthers ==
  ASSUME CalmInv, NEW c \in Calls, Begin(c) \/ Step(c) \/ Fails(c), NEW d \in Calls \ {c}
  PROVE  Calm(d)'
<1> SUFFICES ASSUME ~disturbed'[d], WellFormed(d) PROVE (LookupFacts(d) /\ UsernameFacts(d))'
  BY DEF Calm, WellFormed
<1>1. /\ pc'[d] = pc[d] /\ found'[d] = found[d] /\ omit'[d] = omit[d] /\ suffix'[d] = suffix[d]
      /\ Reading(c) \/ Writing(c)
  BY OthersStay, StepKinds DEF CalmInv
<1>2. CASE Reading(c)
  <2>1. LookupFacts(d) /\ UsernameFacts(d) /\ UNCHANGED account
    BY <1>2 DEF Reading, CalmInv, Calm
  <2> QED
    BY <1>1, <2>1 DEF LookupFacts, UsernameFacts, NoEmailOwner, NoPhoneOwner, Taken
<1>3. CASE Writing(c)
  <2>1. ~disturbed[d] /\ ~InFlight(d)
    BY <1>3 DEF Writing, Store
  <2>2. UsernameFacts(d)
    BY <2>1 DEF CalmInv, Calm
  <2> QED
    BY <1>1, <2>1, <2>2 DEF InFlight, LookupFacts, UsernameFacts
<1> QED
  BY <1>1, <1>2, <1>3

LEMMA CalmSelf ==
  ASSUME CalmInv, NEW c \in Calls, Begin(c) \/ Step(c) \/ Fails(c)
  PROVE  Calm(c)'
<1> SUFFICES ASSUME ~disturbed'[c], WellFormed(c), pc'[c] \notin {"returned", "threw"}
             PROVE  (LookupFacts(c) /\ UsernameFacts(c))'
  BY DEF Calm, WellFormed, LookupFacts, UsernameFacts
<1>1. /\ pc \in [Calls -> Pcs] /\ found \in [Calls -> Accounts \cup {NoAccount}]
      /\ omit \in [Calls -> BOOLEAN] /\ suffix \in [Calls -> 1..MaxSuffix] /\ IInv
  BY DEF CalmInv, IInv, ResolutionTypeOK
<1>2. UNCHANGED <<account, disturbed>>
  <2>1. pc[c] \in Writes => ~(Throw(c) \/ \E u, b : Return(c, u, b))
    BY <1>1 DEF Throw, Return, Goto
  <2> QED
    BY <1>1, <2>1, StepKinds DEF Reading, Writing
<1>3. LookupFacts(c) /\ UsernameFacts(c)
  BY <1>2 DEF CalmInv, Calm
<1>4. CASE Begin(c)
  BY <1>1, <1>2, <1>3, <1>4 DEF Begin, Goto, LookupFacts, UsernameFacts
<1>5. CASE FindEmail(c)
  <2>1. CASE WithEmail(Wanted[c]) # {}
    <3>1. pc'[c] \in {"find_phone_of_found", "update"} /\ (pc'[c] = "update" => Wanted[c].phone = NoPhone)
      BY <1>1, <1>5, <2>1 DEF FindEmail, Goto
    <3> QED
      BY <1>1, <1>2, <1>3, <1>5, <3>1 DEF FindEmail, LookupFacts, UsernameFacts, NoPhoneOwner
  <2>2. CASE WithEmail(Wanted[c]) = {}
    <3>1. pc'[c] \in {"find_phone", "create"} /\ (pc'[c] = "create" => Wanted[c].phone = NoPhone)
      BY <1>1, <1>5, <2>2 DEF FindEmail, Goto
    <3>2. NoEmailOwner(c)
      BY <2>2, NoEmail
    <3> QED
      BY <1>1, <1>2, <1>3, <1>5, <3>1, <3>2
         DEF FindEmail, LookupFacts, UsernameFacts, NoPhoneOwner, NoEmailOwner
  <2> QED
    BY <2>1, <2>2
<1>6. CASE FindPhoneOfFound(c)
  <2>1. pc'[c] = "update" /\ omit'[c] = (PhoneOwners(Wanted[c]) \ {found[c]} # {}) /\ pc[c] = "find_phone_of_found"
        /\ UNCHANGED <<found, suffix>>
    BY <1>1, <1>6 DEF FindPhoneOfFound, Goto
  <2>2. ~omit'[c] => NoPhoneOwner(c, found[c])
    BY <2>1, Clashes DEF PhoneOwners, With, NoPhoneOwner
  <2> QED
    BY <1>2, <1>3, <2>1, <2>2 DEF LookupFacts, UsernameFacts, NoPhoneOwner
<1>7. CASE FindPhone(c)
  <2>1. /\ pc[c] = "find_phone" /\ pc'[c] = "create" /\ UNCHANGED <<found, suffix>>
        /\ omit'[c] = (\E u \in PhoneOwners(Wanted[c]) : account[u].email # Wanted[c].email)
    BY <1>1, <1>7 DEF FindPhone, Goto
  <2>2. NoEmailOwner(c)
    BY <1>3, <2>1 DEF LookupFacts
  <2>3. ~omit'[c] => NoPhoneOwner(c, c)
    BY <2>1, <2>2, Clashes DEF PhoneOwners, With, NoPhoneOwner, NoEmailOwner
  <2> QED
    BY <1>2, <1>3, <2>1, <2>2, <2>3 DEF LookupFacts, UsernameFacts, NoPhoneOwner, NoEmailOwner
<1>8. CASE Create(c)
  <2>1. pc[c] = "create" /\ UNCHANGED <<found, omit, suffix>>
    BY <1>8 DEF Create
  <2>2. PICK f \in Refusals(c, Creation(c)) : Goto(c, IF f = "phone" THEN "relookup_phone" ELSE "relookup")
    BY <1>1, <1>8 DEF Create, Return, Goto
  <2>3. /\ Creation(c).email = Wanted[c].email /\ Creation(c).username = Wanted[c].username
    BY Payloads DEF Creation, Payload
  <2>4. /\ Refusals(c, Creation(c)) = {"username"} /\ Wanted[c].username # NoName
        /\ Taken(c, Wanted[c].username)
    BY <1>2, <2>1, <2>2, <2>3, CreateRefused
  <2>5. pc'[c] = "relookup"
    BY <1>1, <2>2, <2>4 DEF Goto
  <2>6. LookupFacts(c)'
    BY <1>2, <1>3, <2>1, <2>5 DEF LookupFacts, NoPhoneOwner, NoEmailOwner
  <2>7. Taken(c, Wanted[c].username)'
    BY <1>2, <2>4 DEF Taken
  <2> QED
    BY <1>3, <2>1, <2>4, <2>5, <2>6, <2>7 DEF UsernameFacts
<1>9. CASE Relookup(c)
  <2>1. pc[c] = "relookup" /\ UNCHANGED <<found, omit, suffix>> /\ pc'[c] = "create_suffixed"
    BY <1>1, <1>3, <1>9 DEF Relookup, UsernameFacts, Return, Throw, Goto
  <2>2. LookupFacts(c)'
    BY <1>2, <1>3, <2>1 DEF LookupFacts, NoPhoneOwner, NoEmailOwner
  <2>3. Wanted[c].username # NoName /\ Taken(c, Wanted[c].username)'
    BY <1>2, <1>3, <2>1 DEF UsernameFacts, Taken
  <2>4. suffix'[c] = 1 /\ 1..(suffix'[c] - 1) = {}
    BY <1>3, <2>1 DEF UsernameFacts
  <2> QED
    BY <2>1, <2>2, <2>3, <2>4 DEF UsernameFacts
<1>10. CASE CreateSuffixed(c)
  <2> DEFINE n == Suffixed[Wanted[c].username, suffix[c]]
  <2>1. /\ pc[c] = "create_suffixed" /\ UNCHANGED <<found, omit, pc>>
        /\ suffix'[c] = suffix[c] + 1 /\ Refusals(c, SuffixedCreation(c)) # {}
    BY <1>1, <1>10 DEF CreateSuffixed, Return, Throw, Goto
  <2>2. Taken(c, n)
    BY <1>2, <2>1, SuffixRefused
  <2> HIDE DEF n
  <2>3. \A i \in 1..(suffix'[c] - 1) : i \in 1..(suffix[c] - 1) \/ i = suffix[c]
    BY <1>1, <2>1
  <2>4. \A i \in 1..(suffix'[c] - 1) : Taken(c, Suffixed[Wanted[c].username, i])
    BY <1>3, <2>1, <2>2, <2>3 DEF UsernameFacts, n
  <2>5. LookupFacts(c)'
    BY <1>2, <1>3, <2>1 DEF LookupFacts, NoPhoneOwner, NoEmailOwner
  <2>6. Wanted[c].username # NoName /\ Taken(c, Wanted[c].username)'
    BY <1>2, <1>3, <2>1 DEF UsernameFacts, Taken
  <2>7. \A i \in 1..(suffix'[c] - 1) : Taken(c, Suffixed[Wanted[c].username, i])'
    BY <1>2, <2>4 DEF Taken
  <2> QED
    BY <1>3, <2>1, <2>5, <2>6, <2>7 DEF UsernameFacts
<1>11. CASE Update(c) \/ RefindPhone(c) \/ CreateWithoutPhone(c) \/ Fails(c)
  BY <1>1, <1>3, <1>11
     DEF Update, RefindPhone, CreateWithoutPhone, Fails, Return, Throw, Goto, UsernameFacts
<1> QED
  BY <1>4, <1>5, <1>6, <1>7, <1>8, <1>9, <1>10, <1>11 DEF Step

LEMMA CalmInit == Init => CalmInv
<1> SUFFICES ASSUME Init PROVE CalmInv
  OBVIOUS
<1>1. account = Known /\ DOMAIN account = Existing
  BY ResolutionAssumption DEF Init
<1>2. DistinctAccounts /\ GoodPhones
  BY <1>1, ResolutionAssumption DEF DistinctAccounts, GoodPhones
<1>3. \A c \in Calls : pc[c] = "idle" /\ suffix[c] = 1
  BY DEF Init
<1>4. \A c \in Calls : Calm(c)
  BY <1>3 DEF Calm, LookupFacts, UsernameFacts
<1> QED
  BY <1>2, <1>4, InitInv DEF CalmInv

LEMMA CalmStep ==
  ASSUME CalmInv, NEW c \in Calls, Begin(c) \/ Step(c) \/ Fails(c)
  PROVE  CalmInv'
<1>1. IInv'
  BY NextInv DEF CalmInv, Next
<1>2. \A d \in Calls : Calm(d)'
  BY CalmOthers, CalmSelf
<1>3. CASE Reading(c)
  BY <1>1, <1>2, <1>3 DEF Reading, CalmInv, DistinctAccounts, GoodPhones
<1>4. CASE Writing(c)
  BY <1>1, <1>2, <1>4, StoredApart DEF CalmInv
<1> QED
  BY <1>3, <1>4, StepKinds DEF CalmInv

\* Steps that leave calls and accounts alone.
LEMMA CalmQuiet ==
  ASSUME CalmInv, IInv', UNCHANGED <<account, pc, found, omit, suffix, disturbed>>
  PROVE  CalmInv'
<1>1. DistinctAccounts' /\ GoodPhones'
  BY DEF CalmInv, DistinctAccounts, GoodPhones
<1>2. \A c \in Calls : Calm(c)'
  <2> SUFFICES ASSUME NEW c \in Calls, Calm(c) PROVE Calm(c)'
    BY DEF CalmInv
  <2>1. LookupFacts(c) => LookupFacts(c)'
    BY DEF LookupFacts, NoEmailOwner, NoPhoneOwner
  <2>2. UsernameFacts(c) => UsernameFacts(c)'
    BY DEF UsernameFacts, Taken
  <2> QED
    BY <2>1, <2>2 DEF Calm, WellFormed
<1> QED
  BY <1>1, <1>2 DEF CalmInv

LEMMA CalmNext == CalmInv /\ [Next]_vars => CalmInv'
<1>1. ASSUME CalmInv, UNCHANGED vars PROVE CalmInv'
  BY <1>1, NextInv, CalmQuiet DEF vars, CalmInv
<1> QED
  BY <1>1, CalmStep DEF Next

\* An undisturbed call that throws, without a failure, has no name left.
LEMMA ThrowsForNames ==
  ASSUME CalmInv, NEW c \in Calls, Begin(c) \/ Step(c) \/ Fails(c),
         pc[c] # "threw", pc'[c] = "threw", ~disturbed[c], c \notin faulty', WellFormed(c)
  PROVE  NamesTaken(c)
<1>1. /\ pc \in [Calls -> Pcs] /\ suffix \in [Calls -> 1..MaxSuffix] /\ MaxSuffix \in Nat \ {0}
      /\ LookupFacts(c) /\ UsernameFacts(c)
  BY ResolutionAssumption DEF CalmInv, IInv, ResolutionTypeOK, Calm
<1>2. CASE Update(c)
  BY <1>1, <1>2, UpdateRefused DEF Update, Return, Goto
<1>3. CASE CreateSuffixed(c)
  <2> DEFINE n == Suffixed[Wanted[c].username, suffix[c]]
  <2>1. /\ pc[c] = "create_suffixed" /\ suffix[c] = MaxSuffix
        /\ Refusals(c, SuffixedCreation(c)) # {}
    BY <1>1, <1>3 DEF CreateSuffixed, Return, Goto
  <2>2. Taken(c, n)
    BY <2>1, SuffixRefused
  <2> HIDE DEF n
  <2>3. \A i \in 1..MaxSuffix : i \in 1..(suffix[c] - 1) \/ i = suffix[c]
    BY <1>1, <2>1
  <2>4. \A i \in 1..MaxSuffix : Taken(c, Suffixed[Wanted[c].username, i])
    BY <1>1, <2>1, <2>2, <2>3 DEF UsernameFacts, n
  <2>5. Taken(c, Wanted[c].username)
    BY <1>1, <2>1 DEF UsernameFacts
  <2> QED
    BY <2>4, <2>5 DEF NamesTaken, Taken
<1>4. CASE Relookup(c) \/ RefindPhone(c) \/ CreateWithoutPhone(c)
  BY <1>1, <1>4 DEF Relookup, RefindPhone, CreateWithoutPhone, Return, Goto, UsernameFacts
<1>5. CASE Fails(c)
  BY <1>5 DEF Fails
<1>6. CASE Begin(c) \/ FindEmail(c) \/ FindPhoneOfFound(c) \/ FindPhone(c) \/ Create(c)
  BY <1>1, <1>6 DEF Begin, FindEmail, FindPhoneOfFound, FindPhone, Create, Return, Goto
<1> QED
  BY <1>2, <1>3, <1>4, <1>5, <1>6 DEF Step

LEMMA ThrowsStep ==
  ASSUME CalmInv, NEW d \in Calls, Begin(d) \/ Step(d) \/ Fails(d),
         NEW c \in Calls, pc[c] # "threw", pc'[c] = "threw", ~disturbed[c], c \notin faulty',
         WellFormed(c)
  PROVE  NamesTaken(c)
<1>1. d = c
  BY OthersStay DEF CalmInv
<1> QED
  BY <1>1, ThrowsForNames

\* A call that nobody disturbed and whose requests all succeeded throws only
\* if every name it may use is taken, for any payloads and any suffixes.
THEOREM ThrowsForNamesOnly == Spec => ThrowsOnlyForNames
<1> DEFINE Throws == \A c \in Calls :
             /\ pc[c] # "threw" /\ pc'[c] = "threw"
             /\ ~disturbed[c] /\ c \notin faulty'
             /\ Wanted[c].email \notin InvalidEmails /\ Wanted[c].phone \notin InvalidPhones
             => NamesTaken(c)
<1>1. CalmInv /\ [Next]_vars => [Throws]_vars
  <2> SUFFICES ASSUME CalmInv, Next, NEW c \in Calls, pc[c] # "threw", pc'[c] = "threw",
                      ~disturbed[c], c \notin faulty', WellFormed(c)
               PROVE  NamesTaken(c)
    BY DEF WellFormed
  <2> QED
    BY ThrowsStep DEF Next
<1>2. Spec => []CalmInv
  BY CalmInit, CalmNext, PTL DEF Spec
<1> QED
  BY <1>1, <1>2, PTL DEF Spec, ThrowsOnlyForNames

-----------------------------------------------------------------------------
\* How far a call has come, when its next request is s and its suffix n.
Progress(s, n) ==
  IF s = "idle" THEN 0 ELSE
  IF s = "find_email" THEN 1 ELSE
  IF s \in {"find_phone_of_found", "find_phone"} THEN 2 ELSE
  IF s \in {"update", "create"} THEN 3 ELSE
  IF s \in {"relookup", "relookup_phone"} THEN 4 ELSE
  IF s = "refind_phone" THEN 5 ELSE
  IF s = "create_without_phone" THEN 6 ELSE
  IF s = "create_suffixed" THEN 5 + n ELSE 6 + MaxSuffix

Advances(c) ==
  /\ Progress(pc'[c], suffix'[c]) > Progress(pc[c], suffix[c])
  /\ Progress(pc'[c], suffix'[c]) <= 6 + MaxSuffix
  /\ \A d \in Calls \ {c} : pc'[d] = pc[d] /\ suffix'[d] = suffix[d]

\* Every step takes one call further towards its end and leaves the others
\* where they are, whatever is refused, fails or is overtaken: no conflict
\* sends a call back to a request it has made, and a call ends after at most
\* MaxSuffix + 6 steps.
CallsOnlyAdvance == [][\E c \in Calls : Advances(c)]_vars

LEMMA CallAdvances ==
  ASSUME IInv, NEW c \in Calls, Begin(c) \/ Step(c) \/ Fails(c)
  PROVE  Advances(c)
<1>1. /\ pc \in [Calls -> Pcs] /\ suffix \in [Calls -> 1..MaxSuffix] /\ MaxSuffix \in Nat \ {0}
  BY ResolutionAssumption DEF IInv, ResolutionTypeOK
<1>2. \A d \in Calls \ {c} : pc'[d] = pc[d] /\ suffix'[d] = suffix[d]
  BY OthersStay
<1> SUFFICES /\ Progress(pc'[c], suffix'[c]) > Progress(pc[c], suffix[c])
             /\ Progress(pc'[c], suffix'[c]) <= 6 + MaxSuffix
  BY <1>2 DEF Advances
<1>3. CASE Begin(c) \/ FindEmail(c) \/ FindPhoneOfFound(c) \/ FindPhone(c)
  BY <1>1, <1>3 DEF Begin, FindEmail, FindPhoneOfFound, FindPhone, Goto, Progress
<1>4. CASE Update(c) \/ Create(c) \/ RefindPhone(c) \/ CreateWithoutPhone(c)
  BY <1>1, <1>4 DEF Update, Create, RefindPhone, CreateWithoutPhone, Return, Throw, Goto, Progress
<1>5. CASE Relookup(c)
  <2>1. /\ pc[c] \in {"relookup", "relookup_phone"} /\ suffix'[c] = suffix[c]
        /\ pc'[c] \in {"refind_phone", "create_suffixed", "returned", "threw"}
    BY <1>1, <1>5 DEF Relookup, Return, Throw, Goto
  <2>2. suffix[c] \in 1..MaxSuffix
    BY <1>1
  <2> QED
    BY <1>1, <2>1, <2>2 DEF Progress
<1>6. CASE CreateSuffixed(c)
  <2>1. /\ pc[c] = "create_suffixed" /\ suffix[c] \in 1..MaxSuffix
        /\ \/ pc'[c] = "create_suffixed" /\ suffix'[c] = suffix[c] + 1 /\ suffix[c] < MaxSuffix
           \/ pc'[c] \in {"returned", "threw"}
    BY <1>1, <1>6 DEF CreateSuffixed, Return, Throw, Goto
  <2> QED
    BY <1>1, <2>1 DEF Progress
<1>7. CASE Fails(c)
  <2>1. pc'[c] = "threw" /\ pc[c] \in Pcs \ {"idle", "returned", "threw"} /\ suffix[c] \in 1..MaxSuffix
    BY <1>1, <1>7 DEF Fails, InFlight, Throw, Goto
  <2> QED
    BY <1>1, <2>1 DEF Progress, Pcs
<1> QED
  BY <1>3, <1>4, <1>5, <1>6, <1>7 DEF Step

\* No call of the resolution goes round for ever: conflicts and suffixes use it up.
THEOREM ResolutionAdvances == Spec => CallsOnlyAdvance
<1>1. IInv /\ [Next]_vars => [\E c \in Calls : Advances(c)]_vars
  BY CallAdvances DEF Next
<1> QED
  BY <1>1, Invariance, PTL DEF Spec, CallsOnlyAdvance
=============================================================================
