\* An owner's edits, late templates, a lost answer and a refused submission.
SPECIFICATION Spec
CONSTANTS
  Geography <- MCGeography
  PhonePrefix <- MCPhonePrefix
  DefaultCountry = "CO"
  Typed <- MCTyped
  Lower <- MCLower
  TypedPhones <- MCTypedPhones
  Locals = {"300"}
  Foreign = "+44"
  NoText = ""
  Templates <- MCTemplates
  AdminRole = "Admin-org"
  StudentRole = "Student-org"
  MemberRole = "member"
  NoTemplate = NoTemplate
  MaxEdits = 5
  MaxLoads = 2
  MaxPosts = 1
INVARIANTS
  FormTypeOK
  PlaceIsConsistent
  PhonesFollowTheCountry
  PostedContactsAreDistinct
  RefusalsAreKnown
CHECK_DEADLOCK FALSE
