-------------------------- MODULE OrganizationForm --------------------------
(***************************************************************************)
(* The owner's "Create organization" page (OwnerOrganizationsPage.tsx) and *)
(* the part of POST /owner/organizations that reads what it posts          *)
(* (organizationProvisioningCore.js: normalizeProvisioningInput).  The     *)
(* page's template loads, answers and reloads while the owner edits; the   *)
(* form stays editable while a POST is under way; an answer may be lost.   *)
(*                                                                         *)
(* Abstractions: a text is a value of a small set, with Lower for "trimmed *)
(* and in lower case" and NoText for blank; a phone is a prefix and a      *)
(* local number.  The organization's own texts and the names of the        *)
(* contacts, which nothing reads before the POST, are whatever they are    *)
(* when the owner submits (Texts); optional texts are left out.            *)
(* Contacts are kept by row, a number that grows with each one added: the  *)
(* page's order.                                                           *)
(***************************************************************************)
EXTENDS Naturals, Sequences, FiniteSets

CONSTANTS
  Geography,       \* country -> region -> the set of its cities
  PhonePrefix,     \* country -> its phone prefix
  DefaultCountry,  \* the country a new form starts with
  Typed,           \* the texts an owner types into an email field
  Lower,           \* a text, trimmed and in lower case
  Locals,          \* the local parts of phone numbers
  TypedPhones,     \* the phones an owner types
  Foreign,         \* a prefix that is no country's
  NoText,          \* the empty text
  Templates,       \* the role lists the organization template may have
  AdminRole, StudentRole, MemberRole,
  NoTemplate,      \* nothing loaded yet
  MaxEdits,        \* bounds the owner's edits
  MaxLoads,        \* bounds the times the template is loaded
  MaxPosts         \* bounds the submissions

Countries == DOMAIN Geography
Prefixes == {PhonePrefix[c] : c \in Countries}
Phones == [prefix : Prefixes \cup {Foreign, NoText}, local : Locals \cup {NoText}]
RoleNames(template) == {template[i] : i \in DOMAIN template}
Roles == (UNION {RoleNames(t) : t \in Templates}) \cup {AdminRole, StudentRole, MemberRole}

ASSUME GeographyAssumption ==
  /\ DefaultCountry \in Countries
  /\ \A c \in Countries : NoText \notin DOMAIN Geography[c]
  /\ {Foreign, NoText} \cap Prefixes = {}
  /\ TypedPhones \subseteq Phones
  /\ NoText \notin Locals /\ NoText \notin Roles
  /\ NoTemplate \notin Templates
  /\ \A t \in Templates : t \in Seq(RoleNames(t))
ASSUME LowerAssumption ==
  /\ NoText \in Typed
  /\ Lower \in [Typed -> Typed]
  /\ \A e \in Typed : Lower[e] = NoText <=> e = NoText

VARIABLES
  roles,      \* the roles Logto's organization template really has
  template,   \* what the page last loaded
  loading,    \* a load of it is under way
  loads,      \* loads begun
  place,      \* country, region and city of the business
  jit,        \* the role of users who join by their email's domain
  contacts,   \* row -> contact
  rows,       \* rows used
  edits,      \* the owner's edits so far
  submitting, \* the number of the POST whose answer the page awaits, or 0
  posts,      \* the payloads posted
  replies,    \* what the API did with each: "none" while it has not
  error,      \* the page shows an error of the last submission
  created     \* the POST whose organization the page shows as created, or 0

formVars == <<place, jit, contacts, rows>>
postVars == <<submitting, posts, replies, error, created>>
vars == <<roles, template, loading, loads, formVars, edits, postVars>>

(* A contact; typed is history: the owner typed its phone.                 *)
Contact ==
  [id : Nat, email : Typed, role : Roles, phone : Phones, typed : BOOLEAN]

JustPrefix(country) == [prefix |-> PhonePrefix[country], local |-> NoText]

EmptyContact(index, role, country) ==
  [id |-> index, email |-> NoText, role |-> role,
   phone |-> JustPrefix(country), typed |-> FALSE]

RegionsOf(country) == DOMAIN Geography[country]
CitiesOf(country, region) ==
  IF region \in RegionsOf(country) THEN Geography[country][region] ELSE {}
Regions == UNION {RegionsOf(c) : c \in Countries}
Cities == UNION {CitiesOf(c, g) : c \in Countries, g \in Regions}

Known == IF template = NoTemplate THEN {} ELSE RoleNames(template)
Required == {AdminRole, StudentRole}
Ready == template # NoTemplate /\ Required \subseteq Known
Position(r) == Cardinality({s \in DOMAIN contacts : s <= r})

Init ==
  /\ roles \in Templates
  /\ template = NoTemplate /\ loading = TRUE /\ loads = 1
  /\ place = [country |-> DefaultCountry, region |-> NoText, city |-> NoText]
  /\ jit = MemberRole
  /\ contacts = [r \in {1} |-> EmptyContact(1, AdminRole, DefaultCountry)]
  /\ rows = 1
  /\ edits = 0
  /\ submitting = 0 /\ posts = <<>> /\ replies = <<>> /\ error = FALSE /\ created = 0

-----------------------------------------------------------------------------
(* The template.  An answer to a load that has been superseded is dropped  *)
(* by the page (cancelled), so only the last load has an answer here.      *)

LoadTemplate ==
  /\ loads < MaxLoads
  /\ loads' = loads + 1 /\ loading' = TRUE
  /\ UNCHANGED <<roles, template, formVars, edits, postVars>>

(* The answer fills blank phones in and numbers the contacts anew, whatever *)
(* the owner has done to them since; the JIT role is kept, for it never is  *)
(* blank.                                                                   *)
FilledPhone(phone) ==
  IF phone = [prefix |-> NoText, local |-> NoText] THEN JustPrefix(place.country) ELSE phone
Renumbered ==
  [r \in DOMAIN contacts |->
     [contacts[r] EXCEPT !.id = Position(r), !.phone = FilledPhone(@)]]

TemplateAnswers ==
  /\ loading
  /\ loading' = FALSE
  /\ template' = roles
  /\ contacts' = Renumbered
  /\ UNCHANGED <<roles, loads, place, jit, rows, edits, postVars>>

TemplateFails ==
  /\ loading
  /\ loading' = FALSE
  /\ UNCHANGED <<roles, template, loads, formVars, edits, postVars>>

-----------------------------------------------------------------------------
(* The owner's edits.                                                      *)

Edit == edits < MaxEdits /\ edits' = edits + 1
Unloaded == UNCHANGED <<roles, template, loading, loads, postVars>>

UpdateJitRole ==
  /\ Edit /\ ~loading
  /\ jit' \in Known \ {jit}
  /\ Unloaded /\ UNCHANGED <<place, contacts, rows>>

(* propagatePhonePrefix: the old prefix, and a missing one, become the new *)
(* one; a phone with another prefix is kept.                               *)
PropagatePhonePrefix(phone, previous, next) ==
  IF phone.prefix \in {previous, NoText} THEN [phone EXCEPT !.prefix = next] ELSE phone

UpdateCountry(country) ==
  /\ Edit /\ country # place.country
  /\ LET region == IF place.region \in RegionsOf(country) THEN place.region ELSE NoText
         city == IF place.city \in CitiesOf(country, region) THEN place.city ELSE NoText
     IN place' = [country |-> country, region |-> region, city |-> city]
  /\ contacts' =
       [r \in DOMAIN contacts |->
          [contacts[r] EXCEPT !.phone =
             PropagatePhonePrefix(@, PhonePrefix[place.country], PhonePrefix[country])]]
  /\ Unloaded /\ UNCHANGED <<jit, rows>>

(* The city of the former region stays.                                    *)
UpdateRegionOnly(region) ==
  /\ Edit /\ region \in (RegionsOf(place.country) \cup {NoText}) \ {place.region}
  /\ place' = [place EXCEPT !.region = region]
  /\ Unloaded /\ UNCHANGED <<jit, contacts, rows>>

UpdateRegion(region) ==
  /\ Edit /\ region \in (RegionsOf(place.country) \cup {NoText}) \ {place.region}
  /\ place' = [place EXCEPT !.region = region,
                            !.city = IF @ \in CitiesOf(place.country, region) THEN @ ELSE NoText]
  /\ Unloaded /\ UNCHANGED <<jit, contacts, rows>>

UpdateCity(city) ==
  /\ Edit
  /\ CitiesOf(place.country, place.region) # {}
  /\ city \in (CitiesOf(place.country, place.region) \cup {NoText}) \ {place.city}
  /\ place' = [place EXCEPT !.city = city]
  /\ Unloaded /\ UNCHANGED <<jit, contacts, rows>>

(* Every contact with the row's id is changed.                             *)
SameId(r) == {s \in DOMAIN contacts : contacts[s].id = contacts[r].id}
UpdateContact(r, new) ==
  contacts' = [s \in DOMAIN contacts |-> IF s \in SameId(r) THEN new[s] ELSE contacts[s]]

TypeEmail(r, email) ==
  /\ Edit /\ email # contacts[r].email
  /\ UpdateContact(r, [s \in SameId(r) |-> [contacts[s] EXCEPT !.email = email]])
  /\ Unloaded /\ UNCHANGED <<place, jit, rows>>

TypePhone(r, phone) ==
  /\ Edit /\ phone # contacts[r].phone
  /\ UpdateContact(r, [s \in SameId(r) |-> [contacts[s] EXCEPT !.phone = phone, !.typed = TRUE]])
  /\ Unloaded /\ UNCHANGED <<place, jit, rows>>

SelectRole(r, role) ==
  /\ Edit /\ ~loading
  /\ role \in Known \ {contacts[r].role}
  /\ UpdateContact(r, [s \in SameId(r) |-> [contacts[s] EXCEPT !.role = role]])
  /\ Unloaded /\ UNCHANGED <<place, jit, rows>>

FallbackRole ==
  IF AdminRole \in Known \/ template \in {NoTemplate, <<>>} THEN AdminRole ELSE template[1]

(* A new contact has the prefix of the country a new form starts with.      *)
AddContactAtHome ==
  /\ Edit
  /\ rows' = rows + 1
  /\ contacts' =
       [r \in DOMAIN contacts \cup {rows + 1} |->
          IF r = rows + 1
          THEN EmptyContact(Cardinality(DOMAIN contacts) + 1, FallbackRole, DefaultCountry)
          ELSE contacts[r]]
  /\ Unloaded /\ UNCHANGED <<place, jit>>

(* A new contact is numbered by how many there are, not by the ids in use.  *)
AddContact ==
  /\ Edit
  /\ rows' = rows + 1
  /\ contacts' =
       [r \in DOMAIN contacts \cup {rows + 1} |->
          IF r = rows + 1
          THEN EmptyContact(Cardinality(DOMAIN contacts) + 1, FallbackRole, place.country)
          ELSE contacts[r]]
  /\ Unloaded /\ UNCHANGED <<place, jit>>

(* The form may lose its last contact.                                     *)
RemoveEvenTheLast(r) ==
  /\ Edit /\ Cardinality(DOMAIN contacts) > 1
  /\ contacts' = [s \in DOMAIN contacts \ SameId(r) |-> contacts[s]]
  /\ Unloaded /\ UNCHANGED <<place, jit, rows>>

(* Every contact with the row's id is removed; the form keeps one.          *)
RemoveContact(r) ==
  /\ Edit /\ Cardinality(DOMAIN contacts) > 1
  /\ LET left == DOMAIN contacts \ SameId(r)
     IN IF left # {}
        THEN /\ contacts' = [s \in left |-> contacts[s]]
             /\ rows' = rows
        ELSE /\ contacts' = [s \in {rows + 1} |-> EmptyContact(1, AdminRole, place.country)]
             /\ rows' = rows + 1
  /\ Unloaded /\ UNCHANGED <<place, jit>>

-----------------------------------------------------------------------------
(* Submission.                                                             *)

(* The emails are compared as they were typed.                             *)
EmailsDifferAsTyped(form) ==
  \A r, s \in DOMAIN form : r # s => form[r].email # form[s].email

EmailsDiffer(form) ==
  \A r, s \in DOMAIN form : r # s => Lower[form[r].email] # Lower[form[s].email]

(* The texts at the time of a submission: those of the organization (name, *)
(* subdomain and domains) and the contacts that have their names.          *)
Texts == [basics : {"blank", "malformed", "good"}, named : SUBSET DOMAIN contacts]

(* A contact needs no email.                                               *)
ValidWithoutEmails(texts) ==
  /\ texts.basics # "blank"
  /\ \A r \in DOMAIN contacts : r \in texts.named
  /\ EmailsDiffer(contacts)

Valid(texts) ==
  /\ texts.basics # "blank"
  /\ \A r \in DOMAIN contacts : r \in texts.named /\ contacts[r].email # NoText
  /\ EmailsDiffer(contacts)

Payload(texts) ==
  [basics |-> texts.basics, jit |-> jit,
   contacts |-> [r \in DOMAIN contacts |->
                   [key |-> contacts[r].id, email |-> Lower[contacts[r].email],
                    named |-> r \in texts.named, role |-> contacts[r].role,
                    phone |-> contacts[r].phone]]]

CanSubmit == Ready /\ submitting = 0

Submit ==
  /\ CanSubmit
  /\ Len(posts) < MaxPosts
  /\ \E texts \in Texts : Valid(texts) /\ posts' = Append(posts, Payload(texts))
  /\ replies' = Append(replies, "none")
  /\ submitting' = Len(posts) + 1
  /\ error' = FALSE
  /\ UNCHANGED <<roles, template, loading, loads, formVars, edits, created>>

Reject ==
  /\ CanSubmit
  /\ \E texts \in Texts : ~Valid(texts)
  /\ error' = TRUE
  /\ UNCHANGED <<roles, template, loading, loads, formVars, edits, submitting, posts, replies, created>>

(* normalizeProvisioningInput: the errors it finds in a payload.            *)
Blank(c) == ~c.named /\ c.email = NoText /\ c.phone.local = NoText
Kept(payload) == {r \in DOMAIN payload.contacts : ~Blank(payload.contacts[r])}
NormalizationErrors(payload) ==
  LET c == payload.contacts
      found == [required |-> payload.basics = "blank",
                domains  |-> payload.basics = "malformed",
                contacts |-> Kept(payload) = {},
                names    |-> \E r \in Kept(payload) : ~c[r].named,
                emails   |-> \E r \in Kept(payload) : c[r].email = NoText,
                repeated |-> \E r, s \in Kept(payload) :
                               r # s /\ c[r].email # NoText /\ c[r].email = c[s].email]
  IN {e \in DOMAIN found : found[e]}

RequiredRoles(payload) ==
  {IF payload.jit = NoText THEN StudentRole ELSE payload.jit}
    \cup {payload.contacts[r].role : r \in Kept(payload)}

Replies == {"invalid", "missing roles", "failed", "created"}

(* The handler: 400 with the errors, or the provisioning, which wants the  *)
(* roles (424) and may fail at any step (Provisioning).                    *)
Handle(n) ==
  /\ replies[n] = "none"
  /\ LET errors == NormalizationErrors(posts[n])
         missing == RequiredRoles(posts[n]) \ RoleNames(roles)
     IN \E reply \in Replies :
          /\ reply = "invalid" <=> errors # {}
          /\ reply = "missing roles" => missing # {}
          /\ reply = "created" => missing = {}
          /\ replies' = [replies EXCEPT ![n] = reply]
  /\ UNCHANGED <<roles, template, loading, loads, formVars, edits, submitting, posts, error, created>>

Answer ==
  /\ submitting # 0 /\ replies[submitting] # "none"
  /\ IF replies[submitting] = "created"
     THEN created' = submitting /\ error' = error
     ELSE created' = created /\ error' = TRUE
  /\ submitting' = 0
  /\ UNCHANGED <<roles, template, loading, loads, formVars, edits, posts, replies>>

(* The connection fails: the page sees an error, whatever the API does.     *)
LoseAnswer ==
  /\ submitting # 0
  /\ error' = TRUE
  /\ submitting' = 0
  /\ UNCHANGED <<roles, template, loading, loads, formVars, edits, posts, replies, created>>

-----------------------------------------------------------------------------
EditPlace ==
  \/ \E c \in Countries : UpdateCountry(c)
  \/ \E g \in Regions \cup {NoText} : UpdateRegion(g)
  \/ \E t \in CitiesOf(place.country, place.region) \cup {NoText} : UpdateCity(t)

EditContact ==
  \E r \in DOMAIN contacts :
    \/ \E e \in Typed : TypeEmail(r, e)
    \/ \E p \in TypedPhones : TypePhone(r, p)
    \/ \E role \in Roles : SelectRole(r, role)
    \/ RemoveContact(r)

Next ==
  \/ LoadTemplate \/ TemplateAnswers \/ TemplateFails
  \/ UpdateJitRole \/ EditPlace \/ EditContact \/ AddContact
  \/ Submit \/ Reject \/ Answer \/ LoseAnswer
  \/ \E n \in DOMAIN posts : Handle(n)

Spec == Init /\ [][Next]_vars

-----------------------------------------------------------------------------
(* Properties.                                                             *)

Sent == [key : Nat, email : Typed, named : BOOLEAN, role : Roles, phone : Phones]

PageTypeOK ==
  /\ roles \in Templates
  /\ template \in Templates \cup {NoTemplate}
  /\ loading \in BOOLEAN /\ loads \in Nat
  /\ place \in [country : Countries, region : Regions \cup {NoText}, city : Cities \cup {NoText}]
  /\ jit \in Roles
  /\ edits \in Nat /\ error \in BOOLEAN

ContactsTypeOK ==
  /\ rows \in Nat \ {0} /\ DOMAIN contacts \subseteq 1..rows /\ DOMAIN contacts # {}
  /\ contacts \in [DOMAIN contacts -> Contact]

PostsTypeOK ==
  /\ submitting \in 0..Len(posts) /\ created \in 0..Len(posts)
  /\ posts \in Seq({posts[n] : n \in DOMAIN posts})
  /\ \A n \in DOMAIN posts : LET p == posts[n] IN
       /\ p = [basics |-> p.basics, jit |-> p.jit, contacts |-> p.contacts]
       /\ p.basics \in {"malformed", "good"} /\ p.jit \in Roles
       /\ DOMAIN p.contacts \subseteq 1..rows /\ p.contacts \in [DOMAIN p.contacts -> Sent]
  /\ replies \in Seq({"none"} \cup Replies)
  /\ Len(replies) = Len(posts)

(* The variables keep their types, and the form always has a contact.      *)
FormTypeOK == PageTypeOK /\ ContactsTypeOK /\ PostsTypeOK

(* Whatever the order of the edits, the region is one of the country's and *)
(* the city one of the region's: buildPayload looks the region's name up by *)
(* both codes and sends the city as it is (lines 458-461).                 *)
PlaceIsConsistent ==
  /\ place.region \in RegionsOf(place.country) \cup {NoText}
  /\ place.city \in CitiesOf(place.country, place.region) \cup {NoText}

(* A phone nobody typed is the prefix of the country on the form, through  *)
(* changes of country, added contacts, emptied forms and late templates.   *)
PhonesFollowTheCountry ==
  \A r \in DOMAIN contacts :
    ~contacts[r].typed => contacts[r].phone = JustPrefix(place.country)

(* No payload names two contacts by one key or one email.  The page gives a *)
(* removed contact's number out again, so two contacts may have one id and  *)
(* share every edit (lines 361-382); such a pair never passes the check of  *)
(* the emails (lines 416-422).                                             *)
PostedContactsAreDistinct ==
  \A n \in DOMAIN posts : LET sent == posts[n].contacts IN
    \A r, s \in DOMAIN sent :
      r # s => sent[r].key # sent[s].key /\ sent[r].email # sent[s].email

(* What the page checks is what the API checks, but for the form of the    *)
(* domains; and of the roles a payload wants, only the JIT role the form    *)
(* starts with (line 175) may be missing from a template the page calls     *)
(* ready.                                                                  *)
RefusalsAreKnown ==
  \A n \in DOMAIN posts :
    /\ NormalizationErrors(posts[n]) \subseteq {"domains"}
    /\ RequiredRoles(posts[n]) \ RoleNames(roles) \subseteq {MemberRole}
=============================================================================
