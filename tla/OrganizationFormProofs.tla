----------------------- MODULE OrganizationFormProofs -----------------------
(***************************************************************************)
(* The properties of the form for every geography, text, template and      *)
(* number of edits, loads and submissions.                                 *)
(*                                                                         *)
(* What is posted is right because of what the check of a submission sees  *)
(* and what the form keeps besides: contacts that share an id share their  *)
(* email, too, or one of them is still blank (SharedIds), and a role of    *)
(* the form is one of the template's or the one it starts with             *)
(* (FormRoles).                                                            *)
(***************************************************************************)
EXTENDS OrganizationForm, FiniteSetTheorems, TLAPS

SharedIds ==
  \A r, s \in DOMAIN contacts :
    contacts[r].id = contacts[s].id =>
      contacts[r].email = contacts[s].email \/ NoText \in {contacts[r].email, contacts[s].email}

FormRoles ==
  /\ template \in {NoTemplate, roles}
  /\ jit \in {MemberRole} \cup RoleNames(roles)

ContactRoles == \A r \in DOMAIN contacts : contacts[r].role \in {AdminRole} \cup RoleNames(roles)

PageInv == PageTypeOK /\ PlaceIsConsistent /\ FormRoles
ContactsInv == ContactsTypeOK /\ PhonesFollowTheCountry /\ SharedIds /\ ContactRoles
PostsInv == PostsTypeOK /\ PostedContactsAreDistinct /\ RefusalsAreKnown
FormInv == PageInv /\ ContactsInv /\ PostsInv

-----------------------------------------------------------------------------
(* The template's roles are roles of the form.                             *)
LEMMA RoleNamesAreRoles ==
  (\A t \in Templates : RoleNames(t) \subseteq Roles) /\ {AdminRole, StudentRole, MemberRole} \subseteq Roles
<1>1. \A t \in Templates : RoleNames(t) \subseteq Roles
  BY DEF Roles
<1>2. {AdminRole, StudentRole, MemberRole} \subseteq Roles
  BY DEF Roles
<1> QED BY <1>1, <1>2

(* Each row has its own position.                                          *)
LEMMA PositionsDiffer ==
  ASSUME ContactsTypeOK
  PROVE  /\ \A r \in DOMAIN contacts : Position(r) \in Nat
         /\ \A r, s \in DOMAIN contacts : r # s => Position(r) # Position(s)
<1> DEFINE Before(r) == {t \in DOMAIN contacts : t <= r}
<1>1. rows \in Nat /\ DOMAIN contacts \subseteq 1..rows
  BY DEF ContactsTypeOK
<1>2. IsFiniteSet(DOMAIN contacts)
  <2>1. IsFiniteSet(1..rows)
    BY <1>1, FS_Interval
  <2> QED BY <1>1, <2>1, FS_Subset
<1>3. \A r \in DOMAIN contacts : IsFiniteSet(Before(r)) /\ Cardinality(Before(r)) \in Nat
  BY <1>2, FS_Subset, FS_CardinalityType
<1>4. ASSUME NEW r \in DOMAIN contacts, NEW s \in DOMAIN contacts, r < s
      PROVE  Cardinality(Before(r)) # Cardinality(Before(s))
  <2>1. Before(r) \subseteq Before(s) /\ Before(r) # Before(s)
    BY <1>1, <1>4
  <2> HIDE DEF Before
  <2> QED BY <1>3, <2>1, FS_Subset
<1>5. \A r \in DOMAIN contacts : Position(r) = Cardinality(Before(r))
  BY DEF Position
<1> HIDE DEF Before
<1>6. \A r, s \in DOMAIN contacts : r # s => r < s \/ s < r
  BY <1>1
<1> QED BY <1>3, <1>4, <1>5, <1>6

(* What an edit makes of a contact.                                        *)
LEMMA EmailEdited ==
  ASSUME NEW k \in Contact, NEW e \in Typed, NEW n, n = [k EXCEPT !.email = e]
  PROVE  /\ n \in Contact /\ n.id = k.id /\ n.email = e /\ n.role = k.role
         /\ n.phone = k.phone /\ n.typed = k.typed
  BY DEF Contact

LEMMA PhoneMoved ==
  ASSUME NEW k \in Contact, NEW p \in Phones, NEW n, n = [k EXCEPT !.phone = p]
  PROVE  /\ n \in Contact /\ n.id = k.id /\ n.email = k.email /\ n.role = k.role
         /\ n.phone = p /\ n.typed = k.typed
  BY DEF Contact

LEMMA RoleEdited ==
  ASSUME NEW k \in Contact, NEW role \in Roles, NEW n, n = [k EXCEPT !.role = role]
  PROVE  /\ n \in Contact /\ n.id = k.id /\ n.email = k.email /\ n.role = role
         /\ n.phone = k.phone /\ n.typed = k.typed
  BY DEF Contact

LEMMA NewContact ==
  ASSUME NEW i \in Nat, NEW role \in Roles, NEW country \in Countries
  PROVE  LET n == EmptyContact(i, role, country)
         IN n \in Contact /\ n.id = i /\ n.email = NoText /\ n.role = role
            /\ n.phone = JustPrefix(country) /\ ~n.typed
<1>1. JustPrefix(country) \in Phones
  BY DEF JustPrefix, Phones, Prefixes
<1> QED BY <1>1, LowerAssumption DEF EmptyContact, Contact

(* The prefixes of the countries are no other prefix.                      *)
LEMMA PhonesStay ==
  /\ \A p \in Phones, a, b \in Countries :
       LET n == PropagatePhonePrefix(p, PhonePrefix[a], PhonePrefix[b])
       IN n \in Phones /\ (p = JustPrefix(a) => n = JustPrefix(b))
  /\ \A c \in Countries : JustPrefix(c) \in Phones
<1>1. \A c \in Countries : JustPrefix(c) \in Phones
  BY DEF JustPrefix, Phones, Prefixes
<1>2. ASSUME NEW p \in Phones, NEW a \in Countries, NEW b \in Countries
      PROVE  LET n == PropagatePhonePrefix(p, PhonePrefix[a], PhonePrefix[b])
             IN n \in Phones /\ (p = JustPrefix(a) => n = JustPrefix(b))
  <2>1. [p EXCEPT !.prefix = PhonePrefix[b]] \in Phones
    BY DEF Phones, Prefixes
  <2>2. p = JustPrefix(a) => [p EXCEPT !.prefix = PhonePrefix[b]] = JustPrefix(b)
    BY DEF JustPrefix
  <2>3. p = JustPrefix(a) => p.prefix = PhonePrefix[a]
    BY DEF JustPrefix
  <2> QED BY <2>1, <2>2, <2>3 DEF PropagatePhonePrefix
<1> QED BY <1>1, <1>2

-----------------------------------------------------------------------------
(* The page: its template, the business's place and the JIT role.          *)

LEMMA PlaceKept ==
  ASSUME NEW country \in Countries, NEW region \in RegionsOf(country) \cup {NoText},
         NEW city \in CitiesOf(country, region) \cup {NoText}
  PROVE  region \in Regions \cup {NoText} /\ city \in Cities \cup {NoText}
<1>1. \A c \in Countries : RegionsOf(c) \subseteq Regions
  BY DEF Regions
<1>2. \A c \in Countries, g \in Regions : CitiesOf(c, g) \subseteq Cities
  BY DEF Cities
<1>3. city # NoText => region \in RegionsOf(country)
  BY DEF CitiesOf
<1>4. city # NoText => region \in Regions
  BY <1>1, <1>3
<1> QED BY <1>1, <1>2, <1>4

LEMMA PageStep ==
  ASSUME FormInv, Next
  PROVE  PageInv'
<1> USE DEF FormInv, PageInv
<1>0. /\ roles \in Templates /\ place.country \in Countries
      /\ place = [country |-> place.country, region |-> place.region, city |-> place.city]
  BY DEF PageTypeOK
<1>1. ASSUME UNCHANGED <<roles, template, jit, place>>, loading' \in BOOLEAN, loads' \in Nat,
             edits' \in Nat, error' \in BOOLEAN
      PROVE  PageInv'
  BY <1>1 DEF PageTypeOK, PlaceIsConsistent, FormRoles
<1>2. ASSUME NEW country \in Countries, NEW region \in RegionsOf(country) \cup {NoText},
             NEW city \in CitiesOf(country, region) \cup {NoText},
             place' = [country |-> country, region |-> region, city |-> city],
             Edit, Unloaded, jit' = jit
      PROVE  PageInv'
  BY <1>2, PlaceKept DEF PageTypeOK, PlaceIsConsistent, FormRoles, Edit, Unloaded, postVars
<1>3. CASE LoadTemplate
  BY <1>1, <1>3 DEF LoadTemplate, PageTypeOK, formVars, postVars
<1>4. CASE TemplateAnswers
  BY <1>4 DEF TemplateAnswers, PageTypeOK, PlaceIsConsistent, FormRoles, postVars
<1>5. CASE TemplateFails
  BY <1>1, <1>5 DEF TemplateFails, PageTypeOK, formVars, postVars
<1>6. CASE UpdateJitRole
  <2>1. jit' \in RoleNames(roles)
    BY <1>6 DEF UpdateJitRole, Known, FormRoles
  <2>2. jit' \in Roles
    BY <1>0, <2>1, RoleNamesAreRoles
  <2> QED
    BY <1>6, <2>1, <2>2
    DEF UpdateJitRole, Edit, Unloaded, PageTypeOK, PlaceIsConsistent, FormRoles, postVars
<1>7. CASE EditPlace
  <2>1. ASSUME NEW c \in Countries, UpdateCountry(c) PROVE PageInv'
    <3> DEFINE region == IF place.region \in RegionsOf(c) THEN place.region ELSE NoText
               city == IF place.city \in CitiesOf(c, region) THEN place.city ELSE NoText
    <3>1. region \in RegionsOf(c) \cup {NoText} /\ city \in CitiesOf(c, region) \cup {NoText}
      OBVIOUS
    <3>2. /\ place' = [country |-> c, region |-> region, city |-> city]
          /\ Edit /\ Unloaded /\ jit' = jit
      BY <2>1 DEF UpdateCountry
    <3> HIDE DEF region, city
    <3> QED BY <1>2, <3>1, <3>2
  <2>2. ASSUME NEW g, UpdateRegion(g) PROVE PageInv'
    <3> DEFINE city == IF place.city \in CitiesOf(place.country, g) THEN place.city ELSE NoText
    <3>1. /\ g \in RegionsOf(place.country) \cup {NoText}
          /\ city \in CitiesOf(place.country, g) \cup {NoText}
      BY <2>2 DEF UpdateRegion
    <3>2. /\ place' = [country |-> place.country, region |-> g, city |-> city]
          /\ Edit /\ Unloaded /\ jit' = jit
      BY <1>0, <2>2 DEF UpdateRegion
    <3> HIDE DEF city
    <3> QED BY <1>0, <1>2, <3>1, <3>2
  <2>3. ASSUME NEW t, UpdateCity(t) PROVE PageInv'
    <3>1. /\ place.region \in RegionsOf(place.country) \cup {NoText}
          /\ t \in CitiesOf(place.country, place.region) \cup {NoText}
      BY <2>3 DEF UpdateCity, PlaceIsConsistent
    <3>2. /\ place' = [country |-> place.country, region |-> place.region, city |-> t]
          /\ Edit /\ Unloaded /\ jit' = jit
      BY <1>0, <2>3 DEF UpdateCity
    <3> QED BY <1>0, <1>2, <3>1, <3>2
  <2> QED BY <1>7, <2>1, <2>2, <2>3 DEF EditPlace
<1>8. CASE EditContact \/ AddContact
  <2>1. Edit /\ Unloaded /\ UNCHANGED <<place, jit>>
    BY <1>8 DEF EditContact, AddContact, TypeEmail, TypePhone, SelectRole, RemoveContact
  <2> QED BY <1>1, <2>1 DEF Edit, Unloaded, PageTypeOK, postVars
<1>9. CASE Submit \/ Reject \/ Answer \/ LoseAnswer \/ \E n \in DOMAIN posts : Handle(n)
  <2>1. UNCHANGED <<roles, template, loading, loads, place, jit, edits>> /\ error' \in BOOLEAN
    BY <1>9 DEF Submit, Reject, Answer, LoseAnswer, Handle, PageTypeOK, formVars
  <2> QED BY <1>1, <2>1 DEF PageTypeOK
<1> QED BY <1>3, <1>4, <1>5, <1>6, <1>7, <1>8, <1>9 DEF Next

-----------------------------------------------------------------------------
(* The contacts.                                                           *)

LEMMA AnswerContacts ==
  ASSUME FormInv, TemplateAnswers
  PROVE  ContactsInv'
<1> USE DEF FormInv, PageInv, ContactsInv
<1>1. place.country \in Countries /\ DOMAIN contacts' = DOMAIN contacts
      /\ UNCHANGED <<roles, place, rows>>
  BY DEF PageTypeOK, TemplateAnswers, Renumbered
<1>2. ASSUME NEW r \in DOMAIN contacts
      PROVE  /\ contacts[r] \in Contact /\ contacts'[r] \in Contact
             /\ contacts'[r].id = Position(r) /\ contacts'[r].email = contacts[r].email
             /\ contacts'[r].role = contacts[r].role /\ contacts'[r].typed = contacts[r].typed
             /\ contacts'[r].phone = FilledPhone(contacts[r].phone)
  <2>1. contacts[r] \in Contact /\ contacts[r].phone \in Phones /\ Position(r) \in Nat
    BY PositionsDiffer DEF ContactsTypeOK, Contact
  <2>2. FilledPhone(contacts[r].phone) \in Phones
    BY <1>1, <2>1, PhonesStay DEF FilledPhone
  <2>3. contacts'[r] = [contacts[r] EXCEPT !.id = Position(r), !.phone = FilledPhone(contacts[r].phone)]
    BY DEF TemplateAnswers, Renumbered
  <2> DEFINE i == Position(r)
             p == FilledPhone(contacts[r].phone)
  <2>4. i \in Nat /\ p \in Phones /\ contacts'[r] = [contacts[r] EXCEPT !.id = i, !.phone = p]
    BY <2>1, <2>2, <2>3
  <2> HIDE DEF i, p
  <2>5. /\ contacts'[r] \in Contact
        /\ contacts'[r].id = i /\ contacts'[r].email = contacts[r].email
        /\ contacts'[r].role = contacts[r].role /\ contacts'[r].phone = p
        /\ contacts'[r].typed = contacts[r].typed
    BY <2>1, <2>4 DEF Contact
  <2> QED BY <2>1, <2>5 DEF i, p
<1>3. ContactsTypeOK'
  BY <1>1, <1>2 DEF ContactsTypeOK, TemplateAnswers, Renumbered
<1>4. PhonesFollowTheCountry'
  BY <1>1, <1>2 DEF PhonesFollowTheCountry, FilledPhone
<1>5. SharedIds'
  <2> SUFFICES ASSUME NEW r \in DOMAIN contacts, NEW s \in DOMAIN contacts,
                      contacts'[r].id = contacts'[s].id
               PROVE  contacts'[r].email = contacts'[s].email
    BY <1>1 DEF SharedIds
  <2>1. r = s
    BY <1>2, PositionsDiffer
  <2> QED BY <2>1
<1>6. ContactRoles'
  BY <1>1, <1>2 DEF ContactRoles
<1> QED BY <1>3, <1>4, <1>5, <1>6

LEMMA CountryContacts ==
  ASSUME FormInv, NEW c \in Countries, UpdateCountry(c)
  PROVE  ContactsInv'
<1> USE DEF FormInv, PageInv, ContactsInv
<1> DEFINE Moved(p) == PropagatePhonePrefix(p, PhonePrefix[place.country], PhonePrefix[c])
<1>1. /\ place.country \in Countries /\ place'.country = c /\ DOMAIN contacts' = DOMAIN contacts
      /\ UNCHANGED <<roles, rows>>
  BY DEF PageTypeOK, UpdateCountry, Unloaded
<1>2. ASSUME NEW r \in DOMAIN contacts
      PROVE  /\ contacts[r] \in Contact /\ contacts'[r] \in Contact
             /\ contacts'[r].id = contacts[r].id /\ contacts'[r].email = contacts[r].email
             /\ contacts'[r].role = contacts[r].role /\ contacts'[r].typed = contacts[r].typed
             /\ contacts'[r].phone = Moved(contacts[r].phone)
  <2>1. contacts[r] \in Contact /\ contacts[r].phone \in Phones
    BY DEF ContactsTypeOK, Contact
  <2>2. Moved(contacts[r].phone) \in Phones
    BY <1>1, <2>1, PhonesStay
  <2>3. contacts'[r] = [contacts[r] EXCEPT !.phone = Moved(contacts[r].phone)]
    BY DEF UpdateCountry
  <2> HIDE DEF Moved
  <2> QED BY <2>1, <2>2, <2>3, PhoneMoved
<1>3. ContactsTypeOK'
  BY <1>1, <1>2 DEF ContactsTypeOK, UpdateCountry
<1>4. PhonesFollowTheCountry'
  <2> SUFFICES ASSUME NEW r \in DOMAIN contacts, ~contacts[r].typed
               PROVE  Moved(contacts[r].phone) = JustPrefix(c)
    BY <1>1, <1>2 DEF PhonesFollowTheCountry
  <2>1. contacts[r].phone = JustPrefix(place.country) /\ contacts[r].phone \in Phones
    BY <1>2 DEF PhonesFollowTheCountry, Contact
  <2> QED BY <1>1, <2>1, PhonesStay
<1>5. SharedIds'
  BY <1>1, <1>2 DEF SharedIds
<1>6. ContactRoles'
  BY <1>1, <1>2 DEF ContactRoles
<1> QED BY <1>3, <1>4, <1>5, <1>6

LEMMA EditContacts ==
  ASSUME FormInv, NEW r \in DOMAIN contacts,
         \/ \E e \in Typed : TypeEmail(r, e)
         \/ \E p \in TypedPhones : TypePhone(r, p)
         \/ \E role \in Roles : SelectRole(r, role)
  PROVE  ContactsInv'
<1> USE DEF FormInv, PageInv, ContactsInv
<1>1. /\ DOMAIN contacts' = DOMAIN contacts /\ UNCHANGED <<roles, rows, place>>
      /\ contacts' = [s \in DOMAIN contacts |-> contacts'[s]]
  BY DEF TypeEmail, TypePhone, SelectRole, UpdateContact, Unloaded
<1>2. \A s \in DOMAIN contacts : contacts[s] \in Contact
  BY DEF ContactsTypeOK
<1>3. \A s \in DOMAIN contacts : s \in SameId(r) <=> contacts[s].id = contacts[r].id
  BY DEF SameId
<1>4. ASSUME NEW e \in Typed, TypeEmail(r, e) PROVE ContactsInv'
  <2>1. ASSUME NEW s \in DOMAIN contacts
        PROVE  /\ contacts'[s] \in Contact /\ contacts'[s].id = contacts[s].id
               /\ contacts'[s].role = contacts[s].role /\ contacts'[s].phone = contacts[s].phone
               /\ contacts'[s].typed = contacts[s].typed
               /\ contacts'[s].email = IF contacts[s].id = contacts[r].id THEN e ELSE contacts[s].email
    <3>1. CASE s \in SameId(r)
      <4>1. contacts'[s] = [contacts[s] EXCEPT !.email = e]
        BY <1>4, <3>1 DEF TypeEmail, UpdateContact
      <4> QED BY <1>2, <1>3, <3>1, <4>1, EmailEdited
    <3>2. CASE s \notin SameId(r)
      <4>1. contacts'[s] = contacts[s]
        BY <1>4, <3>2 DEF TypeEmail, UpdateContact
      <4> QED BY <1>2, <1>3, <3>2, <4>1
    <3> QED BY <3>1, <3>2
  <2> QED
    BY <1>1, <2>1 DEF ContactsTypeOK, PhonesFollowTheCountry, SharedIds, ContactRoles
<1>5. ASSUME NEW p \in TypedPhones, TypePhone(r, p) PROVE ContactsInv'
  <2>1. ASSUME NEW s \in DOMAIN contacts
        PROVE  /\ contacts'[s] \in Contact /\ contacts'[s].id = contacts[s].id
               /\ contacts'[s].role = contacts[s].role /\ contacts'[s].email = contacts[s].email
               /\ contacts'[s].typed \/ contacts'[s] = contacts[s]
    <3>1. CASE s \in SameId(r)
      <4>1. contacts'[s] = [contacts[s] EXCEPT !.phone = p, !.typed = TRUE] /\ p \in Phones
        BY <1>5, <3>1, GeographyAssumption DEF TypePhone, UpdateContact
      <4>2. /\ contacts'[s] \in Contact /\ contacts'[s].id = contacts[s].id
            /\ contacts'[s].role = contacts[s].role /\ contacts'[s].email = contacts[s].email
            /\ contacts'[s].typed
        BY <1>2, <4>1 DEF Contact
      <4> QED BY <4>2
    <3>2. CASE s \notin SameId(r)
      <4>1. contacts'[s] = contacts[s]
        BY <1>5, <3>2 DEF TypePhone, UpdateContact
      <4> QED BY <1>2, <4>1
    <3> QED BY <3>1, <3>2
  <2> QED
    BY <1>1, <2>1 DEF ContactsTypeOK, PhonesFollowTheCountry, SharedIds, ContactRoles
<1>6. ASSUME NEW role \in Roles, SelectRole(r, role) PROVE ContactsInv'
  <2>1. role \in RoleNames(roles)
    BY <1>6 DEF SelectRole, Known, FormRoles
  <2>2. ASSUME NEW s \in DOMAIN contacts
        PROVE  /\ contacts'[s] \in Contact /\ contacts'[s].id = contacts[s].id
               /\ contacts'[s].email = contacts[s].email /\ contacts'[s].phone = contacts[s].phone
               /\ contacts'[s].typed = contacts[s].typed
               /\ contacts'[s].role \in {role, contacts[s].role}
    <3>1. CASE s \in SameId(r)
      <4>1. contacts'[s] = [contacts[s] EXCEPT !.role = role]
        BY <1>6, <3>1 DEF SelectRole, UpdateContact
      <4> QED BY <1>2, <4>1, RoleEdited
    <3>2. CASE s \notin SameId(r)
      <4>1. contacts'[s] = contacts[s]
        BY <1>6, <3>2 DEF SelectRole, UpdateContact
      <4> QED BY <1>2, <4>1
    <3> QED BY <3>1, <3>2
  <2> QED
    BY <1>1, <2>1, <2>2 DEF ContactsTypeOK, PhonesFollowTheCountry, SharedIds, ContactRoles
<1> QED BY <1>4, <1>5, <1>6

LEMMA AddedContact ==
  ASSUME FormInv, AddContact
  PROVE  ContactsInv'
<1> USE DEF FormInv, PageInv, ContactsInv
<1> DEFINE n == EmptyContact(Cardinality(DOMAIN contacts) + 1, FallbackRole, place.country)
<1>1. /\ place.country \in Countries /\ UNCHANGED <<roles, place>> /\ rows' = rows + 1
      /\ rows \in Nat \ {0} /\ DOMAIN contacts \subseteq 1..rows /\ DOMAIN contacts # {}
  BY DEF PageTypeOK, AddContact, Unloaded, ContactsTypeOK
<1>2. Cardinality(DOMAIN contacts) + 1 \in Nat
  <2>1. IsFiniteSet(1..rows)
    BY <1>1, FS_Interval
  <2>2. Cardinality(DOMAIN contacts) \in Nat
    BY <1>1, <2>1, FS_Subset, FS_CardinalityType
  <2> QED BY <2>2
<1>3. FallbackRole \in {AdminRole} \cup RoleNames(roles) /\ FallbackRole \in Roles
  <2>1. CASE template \in {NoTemplate, <<>>} \/ AdminRole \in Known
    BY <2>1, RoleNamesAreRoles DEF FallbackRole
  <2>2. CASE template # NoTemplate /\ template # <<>> /\ AdminRole \notin Known
    <3>1. template = roles /\ roles \in Templates /\ roles \in Seq(RoleNames(roles))
      BY <2>2, GeographyAssumption DEF FormRoles, PageTypeOK
    <3>2. roles # <<>> /\ 1 \in DOMAIN roles
      BY <2>2, <3>1
    <3>3. roles[1] \in RoleNames(roles)
      BY <3>2 DEF RoleNames
    <3> QED BY <2>2, <3>1, <3>3, RoleNamesAreRoles DEF FallbackRole
  <2> QED BY <2>1, <2>2
<1>4. /\ n \in Contact /\ n.email = NoText /\ n.role = FallbackRole
      /\ n.phone = JustPrefix(place.country) /\ ~n.typed
  BY <1>1, <1>2, <1>3, NewContact
<1>5. /\ contacts' = [r \in DOMAIN contacts \cup {rows + 1} |-> IF r = rows + 1 THEN n ELSE contacts[r]]
      /\ DOMAIN contacts' = DOMAIN contacts \cup {rows + 1}
      /\ \A r \in DOMAIN contacts : r # rows + 1 /\ contacts'[r] = contacts[r]
      /\ contacts'[rows + 1] = n
  BY <1>1 DEF AddContact
<1> HIDE DEF n
<1>6. ContactsTypeOK'
  BY <1>1, <1>4, <1>5 DEF ContactsTypeOK
<1>7. PhonesFollowTheCountry' /\ ContactRoles' /\ SharedIds'
  BY <1>1, <1>3, <1>4, <1>5 DEF PhonesFollowTheCountry, ContactRoles, SharedIds
<1> QED BY <1>6, <1>7

LEMMA RemovedContact ==
  ASSUME FormInv, NEW r \in DOMAIN contacts, RemoveContact(r)
  PROVE  ContactsInv'
<1> USE DEF FormInv, PageInv, ContactsInv
<1> DEFINE left == DOMAIN contacts \ SameId(r)
           n == EmptyContact(1, AdminRole, place.country)
<1>1. /\ place.country \in Countries /\ UNCHANGED <<roles, place>>
      /\ rows \in Nat \ {0} /\ DOMAIN contacts \subseteq 1..rows
      /\ \A s \in DOMAIN contacts : contacts[s] \in Contact
  BY DEF PageTypeOK, RemoveContact, Unloaded, ContactsTypeOK
<1>2. CASE left # {}
  <2>1. contacts' = [s \in left |-> contacts[s]] /\ rows' = rows
    BY <1>2 DEF RemoveContact
  <2>2. left \subseteq DOMAIN contacts
    OBVIOUS
  <2> HIDE DEF left
  <2> QED
    BY <1>1, <1>2, <2>1, <2>2
    DEF ContactsTypeOK, PhonesFollowTheCountry, ContactRoles, SharedIds
<1>3. CASE left = {}
  <2>1. contacts' = [s \in {rows + 1} |-> n] /\ rows' = rows + 1
    BY <1>3 DEF RemoveContact
  <2>2. /\ n \in Contact /\ n.role = AdminRole /\ n.phone = JustPrefix(place.country)
    BY <1>1, NewContact, RoleNamesAreRoles
  <2> HIDE DEF n
  <2> QED
    BY <1>1, <2>1, <2>2 DEF ContactsTypeOK, PhonesFollowTheCountry, ContactRoles, SharedIds
<1> QED BY <1>2, <1>3

LEMMA ContactsStep ==
  ASSUME FormInv, Next
  PROVE  ContactsInv'
<1>1. ASSUME UNCHANGED <<roles, contacts, rows>>, place'.country = place.country
      PROVE  ContactsInv'
  BY <1>1
  DEF FormInv, ContactsInv, ContactsTypeOK, PhonesFollowTheCountry, SharedIds, ContactRoles
<1>2. CASE LoadTemplate \/ TemplateFails
  BY <1>1, <1>2 DEF LoadTemplate, TemplateFails, formVars
<1>3. CASE UpdateJitRole
  BY <1>1, <1>3 DEF UpdateJitRole, Unloaded
<1>4. CASE EditPlace
  <2>1. ASSUME NEW g, UpdateRegion(g) \/ UpdateCity(g) PROVE ContactsInv'
    <3>1. place'.country = place.country /\ UNCHANGED <<roles, contacts, rows>>
      BY <2>1 DEF UpdateRegion, UpdateCity, Unloaded, FormInv, PageInv, PageTypeOK
    <3> QED BY <1>1, <3>1
  <2> QED BY <1>4, <2>1, CountryContacts DEF EditPlace
<1>5. CASE EditContact
  BY <1>5, EditContacts, RemovedContact DEF EditContact
<1>6. CASE Submit \/ Reject \/ Answer \/ LoseAnswer \/ \E n \in DOMAIN posts : Handle(n)
  BY <1>1, <1>6 DEF Submit, Reject, Answer, LoseAnswer, Handle, formVars
<1> QED
  BY <1>2, <1>3, <1>4, <1>5, <1>6, AnswerContacts, AddedContact DEF Next

-----------------------------------------------------------------------------
(* The posts.                                                              *)

(* A payload that passed the page's check.                                 *)
LEMMA ValidPayload ==
  ASSUME FormInv, Ready, NEW texts \in Texts, Valid(texts)
  PROVE  LET p == Payload(texts) IN
         /\ p = [basics |-> p.basics, jit |-> p.jit, contacts |-> p.contacts]
         /\ p.basics \in {"malformed", "good"} /\ p.jit \in Roles
         /\ DOMAIN p.contacts \subseteq 1..rows /\ p.contacts \in [DOMAIN p.contacts -> Sent]
         /\ \A r, s \in DOMAIN p.contacts :
              r # s => p.contacts[r].key # p.contacts[s].key /\ p.contacts[r].email # p.contacts[s].email
         /\ NormalizationErrors(p) \subseteq {"domains"}
         /\ RequiredRoles(p) \ RoleNames(roles) \subseteq {MemberRole}
         /\ Kept(p) = DOMAIN p.contacts /\ DOMAIN p.contacts # {}
         /\ \A r \in DOMAIN p.contacts : p.contacts[r].named /\ p.contacts[r].email # NoText
<1> USE DEF FormInv, PageInv, ContactsInv
<1> DEFINE p == Payload(texts)
           c == p.contacts
<1>1. /\ p = [basics |-> p.basics, jit |-> p.jit, contacts |-> c]
      /\ p.basics = texts.basics /\ p.jit = jit /\ DOMAIN c = DOMAIN contacts
      /\ \A r \in DOMAIN contacts :
           c[r] = [key |-> contacts[r].id, email |-> Lower[contacts[r].email],
                   named |-> r \in texts.named, role |-> contacts[r].role,
                   phone |-> contacts[r].phone]
      /\ c = [r \in DOMAIN contacts |-> c[r]]
  BY DEF Payload
<1>2. texts.basics \in {"malformed", "good"} /\ jit \in Roles
  BY DEF Texts, Valid, PageTypeOK
<1> HIDE DEF p
<1>3. /\ rows \in Nat /\ DOMAIN contacts \subseteq 1..rows /\ DOMAIN contacts # {}
      /\ \A r \in DOMAIN contacts :
           /\ contacts[r].id \in Nat /\ contacts[r].email \in Typed /\ contacts[r].role \in Roles
           /\ contacts[r].phone \in Phones
  BY DEF ContactsTypeOK, Contact
<1>4. \A r \in DOMAIN contacts :
        /\ r \in texts.named /\ contacts[r].email # NoText
        /\ Lower[contacts[r].email] # NoText /\ Lower[contacts[r].email] \in Typed
  BY <1>3, LowerAssumption DEF Valid
<1>5. ASSUME NEW r \in DOMAIN contacts
      PROVE  c[r] = [key |-> contacts[r].id, email |-> Lower[contacts[r].email],
                     named |-> TRUE, role |-> contacts[r].role, phone |-> contacts[r].phone]
  <2>1. (r \in texts.named) = TRUE
    BY <1>4
  <2> QED BY <1>1, <2>1
<1>6. \A r \in DOMAIN c :
        /\ c[r] \in Sent
        /\ c[r].named /\ c[r].email # NoText /\ c[r].email = Lower[contacts[r].email]
        /\ c[r].key = contacts[r].id /\ c[r].role = contacts[r].role
  <2> SUFFICES ASSUME NEW r \in DOMAIN contacts
               PROVE  /\ c[r] \in Sent
                      /\ c[r].named /\ c[r].email # NoText /\ c[r].email = Lower[contacts[r].email]
                      /\ c[r].key = contacts[r].id /\ c[r].role = contacts[r].role
    BY <1>1
  <2> DEFINE e == Lower[contacts[r].email]
  <2>1. e \in Typed /\ e # NoText
    BY <1>4
  <2>2. c[r] = [key |-> contacts[r].id, email |-> e, named |-> TRUE,
                role |-> contacts[r].role, phone |-> contacts[r].phone]
    BY <1>5
  <2> HIDE DEF e
  <2>3. c[r] \in Sent
    BY <1>3, <2>1, <2>2 DEF Sent
  <2>4. c[r].named /\ c[r].email = e /\ c[r].key = contacts[r].id /\ c[r].role = contacts[r].role
    BY <2>2
  <2> QED BY <2>1, <2>3, <2>4 DEF e
<1>7. \A r, s \in DOMAIN c : r # s => c[r].key # c[s].key /\ c[r].email # c[s].email
  BY <1>1, <1>4, <1>6 DEF Valid, EmailsDiffer, SharedIds
<1>8. Kept(p) = DOMAIN c
  BY <1>6 DEF Kept, Blank
<1>9. NormalizationErrors(p) \subseteq {"domains"}
  <2> DEFINE found ==
        [required |-> p.basics = "blank",
         domains  |-> p.basics = "malformed",
         contacts |-> Kept(p) = {},
         names    |-> \E r \in Kept(p) : ~c[r].named,
         emails   |-> \E r \in Kept(p) : c[r].email = NoText,
         repeated |-> \E r, s \in Kept(p) : r # s /\ c[r].email # NoText /\ c[r].email = c[s].email]
  <2>1. NormalizationErrors(p) = {e \in DOMAIN found : found[e]}
    BY DEF NormalizationErrors
  <2>2. DOMAIN found = {"required", "domains", "contacts", "names", "emails", "repeated"}
    OBVIOUS
  <2>3. ~(p.basics = "blank") /\ Kept(p) # {}
    BY <1>1, <1>2, <1>3, <1>8
  <2>4. ~(\E r \in Kept(p) : ~c[r].named) /\ ~(\E r \in Kept(p) : c[r].email = NoText)
    BY <1>6, <1>8
  <2>5. ~(\E r, s \in Kept(p) : r # s /\ c[r].email # NoText /\ c[r].email = c[s].email)
    BY <1>7, <1>8
  <2>6. ~found.required /\ ~found.contacts /\ ~found.names /\ ~found.emails /\ ~found.repeated
    BY <2>3, <2>4, <2>5
  <2> HIDE DEF found
  <2> QED BY <2>1, <2>2, <2>6
<1>10. RequiredRoles(p) \ RoleNames(roles) \subseteq {MemberRole}
  <2>1. AdminRole \in RoleNames(roles) /\ StudentRole \in RoleNames(roles)
    BY DEF Ready, Required, Known, FormRoles
  <2> QED
    BY <1>1, <1>6, <1>8, <2>1 DEF RequiredRoles, FormRoles, ContactRoles
<1> QED BY <1>1, <1>2, <1>3, <1>6, <1>7, <1>8, <1>9, <1>10 DEF p

LEMMA SubmitPosts ==
  ASSUME FormInv, Submit
  PROVE  PostsInv'
<1> USE DEF FormInv, PostsInv
<1>1. PICK texts \in Texts : Valid(texts) /\ posts' = Append(posts, Payload(texts))
  BY DEF Submit
<1>2. Ready /\ UNCHANGED <<roles, rows, created>> /\ replies' = Append(replies, "none")
      /\ submitting' = Len(posts) + 1
  BY DEF Submit, CanSubmit, formVars
<1> DEFINE p == Payload(texts)
           S == {posts[n] : n \in DOMAIN posts}
<1>3. /\ p = [basics |-> p.basics, jit |-> p.jit, contacts |-> p.contacts]
      /\ p.basics \in {"malformed", "good"} /\ p.jit \in Roles
      /\ DOMAIN p.contacts \subseteq 1..rows /\ p.contacts \in [DOMAIN p.contacts -> Sent]
      /\ \A r, s \in DOMAIN p.contacts :
           r # s => p.contacts[r].key # p.contacts[s].key /\ p.contacts[r].email # p.contacts[s].email
      /\ NormalizationErrors(p) \subseteq {"domains"}
      /\ RequiredRoles(p) \ RoleNames(roles) \subseteq {MemberRole}
  BY <1>1, <1>2, ValidPayload
<1>4. posts \in Seq(S) /\ posts' = Append(posts, p)
  BY <1>1 DEF PostsTypeOK
<1> HIDE DEF p
<1>5. /\ Len(posts) \in Nat /\ Len(posts') = Len(posts) + 1
      /\ DOMAIN posts = 1..Len(posts) /\ DOMAIN posts' = 1..(Len(posts) + 1)
      /\ posts'[Len(posts) + 1] = p
      /\ \A n \in DOMAIN posts : posts'[n] = posts[n] /\ n \in DOMAIN posts'
      /\ \A n \in DOMAIN posts' : n = Len(posts) + 1 \/ n \in DOMAIN posts
  BY <1>4
<1>6. posts' \in Seq({posts'[n] : n \in DOMAIN posts'})
  <2>1. posts' \in Seq(S \cup {p})
    BY <1>4
  <2>2. S \cup {p} = {posts'[n] : n \in DOMAIN posts'}
    BY <1>5
  <2> QED BY <2>1, <2>2
<1>7. PostsTypeOK'
  <2>0. replies \in Seq({"none"} \cup Replies) /\ Len(replies) = Len(posts) /\ created \in 0..Len(posts)
    BY DEF PostsTypeOK
  <2>1. replies' \in Seq({"none"} \cup Replies) /\ Len(replies') = Len(posts')
    BY <1>2, <1>5, <2>0
  <2>2. submitting' \in 0..Len(posts') /\ created' \in 0..Len(posts')
    BY <1>2, <1>5, <2>0
  <2>3. \A n \in DOMAIN posts' :
          /\ posts'[n] = [basics |-> posts'[n].basics, jit |-> posts'[n].jit, contacts |-> posts'[n].contacts]
          /\ posts'[n].basics \in {"malformed", "good"} /\ posts'[n].jit \in Roles
          /\ DOMAIN posts'[n].contacts \subseteq 1..rows
          /\ posts'[n].contacts \in [DOMAIN posts'[n].contacts -> Sent]
    <3>1. ASSUME NEW n \in DOMAIN posts
          PROVE  /\ posts[n] = [basics |-> posts[n].basics, jit |-> posts[n].jit, contacts |-> posts[n].contacts]
                 /\ posts[n].basics \in {"malformed", "good"} /\ posts[n].jit \in Roles
                 /\ DOMAIN posts[n].contacts \subseteq 1..rows
                 /\ posts[n].contacts \in [DOMAIN posts[n].contacts -> Sent]
      BY DEF PostsTypeOK
    <3> QED BY <1>3, <1>5, <3>1
  <2> QED BY <1>2, <1>6, <2>1, <2>2, <2>3 DEF PostsTypeOK
<1>8. PostedContactsAreDistinct'
  BY <1>3, <1>5 DEF PostedContactsAreDistinct
<1>9. RefusalsAreKnown'
  BY <1>2, <1>3, <1>5 DEF RefusalsAreKnown
<1> QED BY <1>7, <1>8, <1>9

LEMMA PostsStep ==
  ASSUME FormInv, Next
  PROVE  PostsInv'
<1>0. /\ rows \in Nat
      /\ submitting \in 0..Len(posts) /\ created \in 0..Len(posts) /\ Len(posts) \in Nat
      /\ replies \in Seq({"none"} \cup Replies) /\ Len(replies) = Len(posts)
  BY DEF FormInv, ContactsInv, ContactsTypeOK, PostsInv, PostsTypeOK
<1>1. ASSUME roles' = roles, posts' = posts, rows' \in {rows, rows + 1},
             submitting' \in {0, submitting}, created' \in 0..Len(posts),
             replies' \in Seq({"none"} \cup Replies), Len(replies') = Len(posts)
      PROVE  PostsInv'
  <2>1. 1..rows \subseteq 1..rows'
    BY <1>0, <1>1
  <2>2. \A n \in DOMAIN posts : LET p == posts[n] IN
          /\ p = [basics |-> p.basics, jit |-> p.jit, contacts |-> p.contacts]
          /\ p.basics \in {"malformed", "good"} /\ p.jit \in Roles
          /\ DOMAIN p.contacts \subseteq 1..rows' /\ p.contacts \in [DOMAIN p.contacts -> Sent]
    BY <2>1 DEF FormInv, PostsInv, PostsTypeOK
  <2>3. submitting' \in 0..Len(posts)
    BY <1>0, <1>1
  <2>4. posts \in Seq({posts[n] : n \in DOMAIN posts})
    BY DEF FormInv, PostsInv, PostsTypeOK
  <2>5. PostsTypeOK'
    BY <1>1, <2>2, <2>3, <2>4 DEF PostsTypeOK
  <2>6. PostedContactsAreDistinct'
    BY <1>1 DEF FormInv, PostsInv, PostedContactsAreDistinct
  <2>7. RefusalsAreKnown'
    BY <1>1 DEF FormInv, PostsInv, RefusalsAreKnown
  <2> QED BY <2>5, <2>6, <2>7 DEF PostsInv
<1>2. ASSUME UNCHANGED <<roles, posts, submitting, created, replies>>, rows' \in {rows, rows + 1}
      PROVE  PostsInv'
  BY <1>0, <1>1, <1>2
<1>3. CASE LoadTemplate \/ TemplateAnswers \/ TemplateFails \/ Reject
  BY <1>2, <1>3 DEF LoadTemplate, TemplateAnswers, TemplateFails, Reject, formVars, postVars
<1>4. CASE UpdateJitRole \/ EditPlace \/ EditContact \/ AddContact
  <2>1. Unloaded /\ rows' \in {rows, rows + 1}
    BY <1>4
    DEF UpdateJitRole, EditPlace, UpdateCountry, UpdateRegion, UpdateCity, EditContact, TypeEmail,
        TypePhone, SelectRole, RemoveContact, AddContact
  <2> QED BY <1>2, <2>1 DEF Unloaded, postVars
<1>5. ASSUME NEW n \in DOMAIN posts, Handle(n) PROVE PostsInv'
  <2>1. PICK reply \in Replies : replies' = [replies EXCEPT ![n] = reply]
    BY <1>5 DEF Handle
  <2>2. /\ replies' \in Seq({"none"} \cup Replies)
        /\ Len(replies') = Len(posts)
    BY <1>0, <2>1
  <2> QED BY <1>0, <1>1, <1>5, <2>2 DEF Handle, formVars
<1>6. CASE Answer \/ LoseAnswer
  <2>1. created' \in 0..Len(posts)
    BY <1>0, <1>6 DEF Answer, LoseAnswer
  <2> QED BY <1>0, <1>1, <1>6, <2>1 DEF Answer, LoseAnswer, formVars
<1> QED BY <1>3, <1>4, <1>5, <1>6, SubmitPosts DEF Next

-----------------------------------------------------------------------------
LEMMA FormInit == Init => FormInv
<1> SUFFICES ASSUME Init PROVE FormInv
  OBVIOUS
<1> DEFINE n == EmptyContact(1, AdminRole, DefaultCountry)
<1>1. /\ n \in Contact /\ n.role = AdminRole /\ n.phone = JustPrefix(DefaultCountry)
  BY NewContact, GeographyAssumption, RoleNamesAreRoles
<1>2. contacts = [r \in {1} |-> n] /\ rows = 1 /\ place.country = DefaultCountry
  BY DEF Init
<1> HIDE DEF n
<1>3. ContactsInv
  BY <1>1, <1>2
  DEF ContactsInv, ContactsTypeOK, PhonesFollowTheCountry, SharedIds, ContactRoles
<1>4. PageInv
  <2>1. MemberRole \in Roles /\ DefaultCountry \in Countries
    BY GeographyAssumption, RoleNamesAreRoles
  <2>2. PageTypeOK
    BY <2>1 DEF Init, PageTypeOK
  <2> QED BY <2>1, <2>2 DEF Init, PageInv, PlaceIsConsistent, FormRoles
<1>5. PostsInv
  BY DEF Init, PostsInv, PostsTypeOK, PostedContactsAreDistinct, RefusalsAreKnown
<1> QED BY <1>3, <1>4, <1>5 DEF FormInv

LEMMA FormInvariant == Spec => []FormInv
<1>1. FormInv /\ [Next]_vars => FormInv'
  <2> SUFFICES ASSUME FormInv, [Next]_vars PROVE FormInv'
    OBVIOUS
  <2>1. CASE UNCHANGED vars
    <3>1. UNCHANGED <<roles, template, loading, loads, place, jit, contacts, rows, edits>>
          /\ UNCHANGED <<submitting, posts, replies, error, created>>
      BY <2>1 DEF vars, formVars, postVars
    <3>2. PageInv'
      BY <3>1 DEF FormInv, PageInv, PageTypeOK, PlaceIsConsistent, FormRoles
    <3>3. ContactsInv'
      BY <3>1
      DEF FormInv, ContactsInv, ContactsTypeOK, PhonesFollowTheCountry, SharedIds, ContactRoles
    <3>4. PostsTypeOK'
      BY <3>1 DEF FormInv, PostsInv, PostsTypeOK
    <3>5. PostedContactsAreDistinct' /\ RefusalsAreKnown'
      BY <3>1 DEF FormInv, PostsInv, PostedContactsAreDistinct, RefusalsAreKnown
    <3> QED BY <3>2, <3>3, <3>4, <3>5 DEF FormInv, PostsInv
  <2>2. CASE Next
    BY <2>2, PageStep, ContactsStep, PostsStep DEF FormInv
  <2> QED BY <2>1, <2>2
<1> QED BY <1>1, FormInit, PTL DEF Spec

(* The form's variables keep their types, and the form keeps a contact.    *)
THEOREM FormTypeCorrect == Spec => []FormTypeOK
<1>1. FormInv => FormTypeOK
  BY DEF FormInv, PageInv, ContactsInv, PostsInv, FormTypeOK
<1> QED BY <1>1, FormInvariant, PTL

(* Region and city are always those of the country.                        *)
THEOREM PlaceConsistent == Spec => []PlaceIsConsistent
<1>1. FormInv => PlaceIsConsistent
  BY DEF FormInv, PageInv
<1> QED BY <1>1, FormInvariant, PTL

(* A phone nobody typed is always the prefix of the country.               *)
THEOREM PhonesFollow == Spec => []PhonesFollowTheCountry
<1>1. FormInv => PhonesFollowTheCountry
  BY DEF FormInv, ContactsInv
<1> QED BY <1>1, FormInvariant, PTL

(* The contacts of a payload have keys and emails of their own, although   *)
(* those of the form may share an id.                                      *)
THEOREM PostedDistinct == Spec => []PostedContactsAreDistinct
<1>1. FormInv => PostedContactsAreDistinct
  BY DEF FormInv, PostsInv
<1> QED BY <1>1, FormInvariant, PTL

(* The API refuses no payload but for its domains and a missing "member".  *)
THEOREM RefusalsKnown == Spec => []RefusalsAreKnown
<1>1. FormInv => RefusalsAreKnown
  BY DEF FormInv, PostsInv
<1> QED BY <1>1, FormInvariant, PTL

-----------------------------------------------------------------------------
(***************************************************************************)
(* What the provisioning gets.  Provisioning starts from requests that     *)
(* have contacts with emails of their own and organization roles           *)
(* (ProvisioningAssumption); these are the payloads the API takes up.      *)
(***************************************************************************)
TakenUp(n) == replies[n] \notin {"none", "invalid"}

(* A payload the API starts to provision has well-formed domains, at least *)
(* one contact, contacts that are all kept, all named and all have emails  *)
(* and keys of their own; when the page is told "created", the template    *)
(* has every role the payload wants.                                       *)
ProvisioningGetsWhatItAssumes ==
  \A n \in DOMAIN posts : TakenUp(n) =>
    LET sent == posts[n].contacts IN
    /\ posts[n].basics = "good" /\ posts[n].jit # NoText
    /\ DOMAIN sent # {} /\ Kept(posts[n]) = DOMAIN sent
    /\ \A r \in DOMAIN sent : sent[r].named /\ sent[r].email # NoText
    /\ \A r, s \in DOMAIN sent : r # s => sent[r].key # sent[s].key /\ sent[r].email # sent[s].email
    /\ replies[n] = "created" => RequiredRoles(posts[n]) \subseteq RoleNames(roles)

(* The page calls an organization created only when the API said so of the *)
(* very POST it shows, lost and late answers notwithstanding.              *)
ShownAsCreatedWasCreated == created # 0 => replies[created] = "created"

(* Every payload was checked when it was posted, and the API looked again. *)
Complete(n) ==
  /\ Kept(posts[n]) = DOMAIN posts[n].contacts /\ DOMAIN posts[n].contacts # {}
  /\ \A r \in DOMAIN posts[n].contacts :
       posts[n].contacts[r].named /\ posts[n].contacts[r].email # NoText
Judged(n) ==
  /\ TakenUp(n) => posts[n].basics # "malformed"
  /\ replies[n] = "created" => RequiredRoles(posts[n]) \subseteq RoleNames(roles)
AnswersInv ==
  /\ \A n \in DOMAIN posts : Complete(n) /\ Judged(n)
  /\ ShownAsCreatedWasCreated

LEMMA AnswersStep ==
  ASSUME FormInv, AnswersInv, [Next]_vars
  PROVE  AnswersInv'
<1> USE DEF AnswersInv, ShownAsCreatedWasCreated
<1>0. /\ posts \in Seq({posts[n] : n \in DOMAIN posts})
      /\ replies \in Seq({"none"} \cup Replies) /\ Len(replies) = Len(posts)
      /\ Len(posts) \in Nat /\ DOMAIN posts = 1..Len(posts) /\ DOMAIN replies = 1..Len(posts)
      /\ created \in 0..Len(posts) /\ submitting \in 0..Len(posts)
  BY DEF FormInv, PostsInv, PostsTypeOK
<1>1. ASSUME UNCHANGED <<roles, posts, replies, created>> PROVE AnswersInv'
  BY <1>1 DEF Complete, Judged, TakenUp, Kept, RequiredRoles
<1>2. CASE Submit
  <2>1. PICK texts \in Texts : Valid(texts) /\ posts' = Append(posts, Payload(texts))
    BY <1>2 DEF Submit
  <2>2. Ready /\ UNCHANGED <<roles, created>> /\ replies' = Append(replies, "none")
    BY <1>2 DEF Submit, CanSubmit
  <2> DEFINE p == Payload(texts)
  <2>3. /\ Kept(p) = DOMAIN p.contacts /\ DOMAIN p.contacts # {}
        /\ \A r \in DOMAIN p.contacts : p.contacts[r].named /\ p.contacts[r].email # NoText
    BY <2>1, <2>2, ValidPayload
  <2> HIDE DEF p
  <2>4. /\ DOMAIN posts' = 1..(Len(posts) + 1)
        /\ posts'[Len(posts) + 1] = p /\ replies'[Len(posts) + 1] = "none"
        /\ \A n \in DOMAIN posts : posts'[n] = posts[n] /\ replies'[n] = replies[n]
    BY <1>0, <2>1, <2>2 DEF p
  <2>5. ASSUME NEW n \in DOMAIN posts' PROVE (Complete(n) /\ Judged(n))'
    <3>1. CASE n \in DOMAIN posts
      <4>1. posts'[n] = posts[n] /\ replies'[n] = replies[n] /\ roles' = roles
        BY <2>2, <2>4, <3>1
      <4>2. Complete(n)'
        BY <3>1, <4>1 DEF Complete, Kept
      <4>3. Judged(n)'
        BY <3>1, <4>1 DEF Judged, TakenUp, RequiredRoles, Kept
      <4> QED BY <4>2, <4>3
    <3>2. CASE n = Len(posts) + 1
      BY <2>3, <2>4, <3>2 DEF Complete, Judged, TakenUp, Kept
    <3> QED BY <1>0, <2>4, <2>5, <3>1, <3>2
  <2>6. ShownAsCreatedWasCreated'
    BY <1>0, <2>2, <2>4
  <2> QED BY <2>5, <2>6
<1>3. ASSUME NEW n \in DOMAIN posts, Handle(n) PROVE AnswersInv'
  <2>1. PICK reply \in Replies :
          /\ reply = "invalid" <=> NormalizationErrors(posts[n]) # {}
          /\ reply = "created" => RequiredRoles(posts[n]) \ RoleNames(roles) = {}
          /\ replies' = [replies EXCEPT ![n] = reply]
    BY <1>3 DEF Handle
  <2>2. UNCHANGED <<roles, posts, created>> /\ replies[n] = "none"
    BY <1>3 DEF Handle
  <2>3. replies'[n] = reply /\ \A m \in DOMAIN posts : m # n => replies'[m] = replies[m]
    BY <1>0, <2>1
  <2>4. posts[n].basics = "malformed" => reply = "invalid"
    <3> DEFINE found ==
          [required |-> posts[n].basics = "blank",
           domains  |-> posts[n].basics = "malformed",
           contacts |-> Kept(posts[n]) = {},
           names    |-> \E r \in Kept(posts[n]) : ~posts[n].contacts[r].named,
           emails   |-> \E r \in Kept(posts[n]) : posts[n].contacts[r].email = NoText,
           repeated |-> \E r, s \in Kept(posts[n]) :
                          /\ r # s /\ posts[n].contacts[r].email # NoText
                          /\ posts[n].contacts[r].email = posts[n].contacts[s].email]
    <3>1. NormalizationErrors(posts[n]) = {e \in DOMAIN found : found[e]}
      BY DEF NormalizationErrors
    <3>2. "domains" \in DOMAIN found /\ (posts[n].basics = "malformed" => found["domains"])
      OBVIOUS
    <3> HIDE DEF found
    <3> QED BY <2>1, <3>1, <3>2
  <2>5. ASSUME NEW m \in DOMAIN posts PROVE (Complete(m) /\ Judged(m))'
    <3>1. Complete(m)'
      BY <2>2 DEF Complete, Kept
    <3>2. CASE m = n
      <4>1. reply = "created" => RequiredRoles(posts[n]) \subseteq RoleNames(roles)
        BY <2>1
      <4>2. replies'[m] = reply /\ reply \in Replies
        BY <2>3, <3>2
      <4> QED BY <2>2, <2>4, <3>1, <3>2, <4>1, <4>2 DEF Judged, TakenUp, RequiredRoles, Kept
    <3>3. CASE m # n
      <4>1. replies'[m] = replies[m]
        BY <2>3, <3>3
      <4>2. Judged(m)
        OBVIOUS
      <4> QED BY <2>2, <3>1, <4>1, <4>2 DEF Judged, TakenUp, RequiredRoles, Kept
    <3> QED BY <3>1, <3>2, <3>3
  <2>6. ShownAsCreatedWasCreated'
    BY <1>0, <2>2, <2>3
  <2> QED BY <2>2, <2>5, <2>6
<1>4. CASE Answer
  <2>1. UNCHANGED <<roles, posts, replies>>
    BY <1>4 DEF Answer
  <2>2. created' = created \/ (created' = submitting /\ replies[submitting] = "created")
    BY <1>4 DEF Answer
  <2>3. \A n \in DOMAIN posts : (Complete(n) /\ Judged(n))'
    BY <2>1 DEF Complete, Judged, TakenUp, Kept, RequiredRoles
  <2> QED BY <2>1, <2>2, <2>3
<1>5. CASE \/ LoadTemplate \/ TemplateAnswers \/ TemplateFails \/ UpdateJitRole \/ EditPlace
           \/ EditContact \/ AddContact \/ Reject \/ LoseAnswer \/ UNCHANGED vars
  <2>1. UNCHANGED <<roles, posts, replies, created>>
    BY <1>5
    DEF LoadTemplate, TemplateAnswers, TemplateFails, UpdateJitRole, EditPlace, UpdateCountry,
        UpdateRegion, UpdateCity, EditContact, TypeEmail, TypePhone, SelectRole, RemoveContact,
        AddContact, Reject, LoseAnswer, Unloaded, postVars, vars
  <2> QED BY <1>1, <2>1
<1> QED BY <1>2, <1>3, <1>4, <1>5 DEF Next

LEMMA AnswersInvariant == Spec => [](FormInv /\ AnswersInv)
<1>1. Init => AnswersInv
  BY DEF Init, AnswersInv, ShownAsCreatedWasCreated
<1>2. FormInv /\ AnswersInv /\ [Next]_vars => AnswersInv'
  BY AnswersStep
<1> QED BY <1>1, <1>2, FormInvariant, PTL DEF Spec

(* The payloads that are provisioned are those Provisioning is about.      *)
THEOREM ProvisioningInputs == Spec => []ProvisioningGetsWhatItAssumes
<1>1. ASSUME FormInv, AnswersInv PROVE ProvisioningGetsWhatItAssumes
  <2> SUFFICES ASSUME NEW n \in DOMAIN posts, TakenUp(n)
               PROVE  /\ posts[n].basics = "good" /\ posts[n].jit # NoText
                      /\ Complete(n)
                      /\ \A r, s \in DOMAIN posts[n].contacts : r # s =>
                           /\ posts[n].contacts[r].key # posts[n].contacts[s].key
                           /\ posts[n].contacts[r].email # posts[n].contacts[s].email
                      /\ replies[n] = "created" => RequiredRoles(posts[n]) \subseteq RoleNames(roles)
    BY DEF ProvisioningGetsWhatItAssumes, Complete
  <2>1. posts[n].basics \in {"malformed", "good"} /\ posts[n].jit \in Roles
    BY <1>1 DEF FormInv, PostsInv, PostsTypeOK
  <2>2. posts[n].jit # NoText
    BY <2>1, GeographyAssumption
  <2>3. Complete(n) /\ Judged(n)
    BY <1>1 DEF AnswersInv
  <2>4. PostedContactsAreDistinct
    BY <1>1 DEF FormInv, PostsInv
  <2> QED BY <2>1, <2>2, <2>3, <2>4 DEF Judged, PostedContactsAreDistinct
<1> QED BY <1>1, AnswersInvariant, PTL

(* An answer is shown for the POST it answers.                             *)
THEOREM CreatedShown == Spec => []ShownAsCreatedWasCreated
<1>1. FormInv /\ AnswersInv => ShownAsCreatedWasCreated
  BY DEF AnswersInv
<1> QED BY <1>1, AnswersInvariant, PTL

-----------------------------------------------------------------------------
(* What the owner entered is changed by the owner alone: no load of the    *)
(* template, however late, no answer and no loss of one changes the place, *)
(* the roles, the emails, or a phone that has a number (the effect at      *)
(* OwnerOrganizationsPage.tsx rewrites every contact when a load ends).    *)
LoadsKeepWhatWasEntered ==
  [][edits' = edits =>
       /\ UNCHANGED <<place, jit, rows>> /\ DOMAIN contacts' = DOMAIN contacts
       /\ \A r \in DOMAIN contacts :
            /\ contacts'[r].email = contacts[r].email /\ contacts'[r].role = contacts[r].role
            /\ contacts[r].phone.local # NoText => contacts'[r].phone = contacts[r].phone]_vars

LEMMA EntriesStep ==
  ASSUME FormInv, [Next]_vars, edits' = edits
  PROVE  /\ UNCHANGED <<place, jit, rows>> /\ DOMAIN contacts' = DOMAIN contacts
         /\ \A r \in DOMAIN contacts :
              /\ contacts'[r].email = contacts[r].email /\ contacts'[r].role = contacts[r].role
              /\ contacts[r].phone.local # NoText => contacts'[r].phone = contacts[r].phone
<1>1. CASE TemplateAnswers
  <2>1. UNCHANGED <<place, jit, rows>> /\ DOMAIN contacts' = DOMAIN contacts
    BY <1>1 DEF TemplateAnswers, Renumbered
  <2>2. ASSUME NEW r \in DOMAIN contacts
        PROVE  /\ contacts'[r].email = contacts[r].email /\ contacts'[r].role = contacts[r].role
               /\ contacts[r].phone.local # NoText => contacts'[r].phone = contacts[r].phone
    <3>1. contacts[r] \in Contact
      BY DEF FormInv, ContactsInv, ContactsTypeOK
    <3>2. contacts'[r] = [contacts[r] EXCEPT !.id = Position(r),
                                             !.phone = FilledPhone(contacts[r].phone)]
      BY <1>1 DEF TemplateAnswers, Renumbered
    <3>3. contacts[r].phone.local # NoText => FilledPhone(contacts[r].phone) = contacts[r].phone
      BY DEF FilledPhone
    <3> QED BY <3>1, <3>2, <3>3 DEF Contact
  <2> QED BY <2>1, <2>2
<1>2. CASE UpdateJitRole \/ EditPlace \/ EditContact \/ AddContact
  <2>1. Edit
    BY <1>2 DEF UpdateJitRole, EditPlace, UpdateCountry, UpdateRegion, UpdateCity, EditContact,
                TypeEmail, TypePhone, SelectRole, RemoveContact, AddContact
  <2>2. edits \in Nat
    BY DEF FormInv, PageInv, PageTypeOK
  <2> QED BY <2>1, <2>2 DEF Edit
<1>3. CASE \/ LoadTemplate \/ TemplateFails \/ Submit \/ Reject \/ Answer \/ LoseAnswer
           \/ (\E n \in DOMAIN posts : Handle(n)) \/ UNCHANGED vars
  <2>1. UNCHANGED <<place, jit, contacts, rows>>
    BY <1>3 DEF LoadTemplate, TemplateFails, Submit, Reject, Answer, LoseAnswer, Handle,
                formVars, vars
  <2> QED BY <2>1
<1> QED BY <1>1, <1>2, <1>3 DEF Next

(* A late template never overwrites what the owner entered.                *)
THEOREM EntriesKept == Spec => LoadsKeepWhatWasEntered
<1>1. FormInv /\ [Next]_vars =>
        [edits' = edits =>
           /\ UNCHANGED <<place, jit, rows>> /\ DOMAIN contacts' = DOMAIN contacts
           /\ \A r \in DOMAIN contacts :
                /\ contacts'[r].email = contacts[r].email /\ contacts'[r].role = contacts[r].role
                /\ contacts[r].phone.local # NoText => contacts'[r].phone = contacts[r].phone]_vars
  BY EntriesStep
<1> QED BY <1>1, FormInvariant, PTL DEF Spec, LoadsKeepWhatWasEntered
=============================================================================
