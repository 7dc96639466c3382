--------------------------- MODULE MCProvisioning ---------------------------
(***************************************************************************)
(* Two provisionings: a request with two contacts and its repetition by    *)
(* the owner, or a second organization that shares a contact; a third      *)
(* whose contact's role the template lacks.                                *)
(***************************************************************************)
EXTENDS Provisioning

Want(e, p, n) == [email |-> e, phone |-> p, username |-> n]

MCProvisionings == {"first", "again", "unknown_role"}
MCContactsOf == [first |-> <<"f1", "f2">>, again |-> <<"a1">>, unknown_role |-> <<"u1">>]
MCRoles == {"Admin-org", "Student-org", "Dean-org"}
MCTemplate == {"Admin-org", "Student-org"}
MCJitRoles == {"Student-org"}
MCCalls == {"f1", "f2", "a1", "u1"}
MCRoleOf == [f1 |-> "Admin-org", f2 |-> "Student-org", a1 |-> "Admin-org", u1 |-> "Dean-org"]

MCExisting == {"old"}
MCEmails == {"ana", "leo", "eva"}
MCPhones == {"p1"}
MCNames == {"ana", "ana1", "leo"}
MCKnown == [old |-> Want("leo", NoPhone, "leo")]
MCSuffixed == [x \in MCNames \X (1..1) |-> "ana1"]

\* ana is new to Logto and wanted by two provisionings; leo has an account and
\* her phone.
MCWanted == [f1 |-> Want("ana", "p1", "ana"),
             f2 |-> Want("leo", "p1", "leo"),
             a1 |-> Want("ana", "p1", "ana"),
             u1 |-> Want("eva", NoPhone, "ana")]
=============================================================================
