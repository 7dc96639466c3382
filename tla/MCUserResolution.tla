-------------------------- MODULE MCUserResolution --------------------------
(***************************************************************************)
(* A small instance of UserResolution: two calls that create the account    *)
(* of one email, one that finds its account and changes it, a malformed    *)
(* one; accounts that exist hold some of the phones and usernames.         *)
(***************************************************************************)
EXTENDS UserResolution

Want(e, p, n) == [email |-> e, phone |-> p, username |-> n]

MCCalls == {"c1", "c2", "c3", "c4"}
MCExisting == {"old", "older"}
MCEmails == {"ana", "leo", "sam", "malformed"}
MCInvalidEmails == {"malformed"}
MCPhones == {"p1", "p2", "p3", "bad"}
MCInvalidPhones == {"bad"}
MCNames == {"ana", "ana1", "ana2", "leo", "leo1", "leo2"}
MCKnown == [old |-> Want("leo", "p1", "ana"), older |-> Want("sam", "p3", "ana2")]
MCSuffixed ==
  [x \in MCNames \X (1..2) |->
     IF x[1] = "leo" THEN (IF x[2] = 1 THEN "leo1" ELSE "leo2")
                     ELSE (IF x[2] = 1 THEN "ana1" ELSE "ana2")]

\* Two calls for ana, whose phone and username are leo's or those leo gets
\* meanwhile; a malformed email with a malformed phone.
MCWanted == [c1 |-> Want("ana", "p1", "ana"),
             c2 |-> Want("ana", "p2", "ana"),
             c3 |-> Want("leo", "p2", "ana1"),
             c4 |-> Want("malformed", "bad", NoName)]
=============================================================================
