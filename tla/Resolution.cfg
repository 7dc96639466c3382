\* Two calls create the account of one email, an account is found and changed,
\* and the input of a fourth call is malformed.
SPECIFICATION Spec
CONSTANTS
  Calls <- MCCalls
  Existing <- MCExisting
  Emails <- MCEmails
  Phones <- MCPhones
  Usernames <- MCNames
  NoPhone = NoPhone
  NoName = NoName
  NoAccount = NoAccount
  Wanted <- MCWanted
  Known <- MCKnown
  Suffixed <- MCSuffixed
  MaxSuffix = 2
  InvalidEmails <- MCInvalidEmails
  InvalidPhones <- MCInvalidPhones
  MaxFaults = 1
INVARIANTS
  ResolutionTypeOK
  ResolvedByEmail
PROPERTIES
  OnlyOwnAccountTouched
  ThrowsOnlyForNames
  ImplementsDirectory
CHECK_DEADLOCK FALSE
