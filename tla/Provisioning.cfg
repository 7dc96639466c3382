\* Two overlapping provisionings that share a contact, one without a template role.
SPECIFICATION FairSpec
CONSTANTS
  Provisionings <- MCProvisionings
  ContactsOf <- MCContactsOf
  Roles <- MCRoles
  RoleOf <- MCRoleOf
  JitRoles <- MCJitRoles
  Template <- MCTemplate
  Calls <- MCCalls
  Existing <- MCExisting
  Emails <- MCEmails
  Phones <- MCPhones
  Usernames <- MCNames
  NoPhone = NoPhone
  NoName = NoName
  NoAccount = NoAccount
  Wanted <- MCWanted
  Known <- MCKnown
  Suffixed <- MCSuffixed
  MaxSuffix = 1
  InvalidEmails = {}
  InvalidPhones = {}
  MaxFaults = 1
INVARIANTS
  ProvisioningTypeOK
  FinishedIsComplete
  OnlyContactsAdmitted
  AbandonedIsPrefix
PROPERTIES
  EveryProvisioningEnds
CHECK_DEADLOCK FALSE
