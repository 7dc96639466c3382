---------------------------- MODULE UserDirectory ----------------------------
(***************************************************************************)
(* What callers of createOrResolveLogtoUserByEmail may rely on: an email   *)
(* gets one account, by one of the calls that ask for it, and keeps it;    *)
(* every call that is answered is answered with the account of its email.  *)
(***************************************************************************)
CONSTANTS Calls, Emails, Accounts, EmailOf, NoAccount

VARIABLES
  holder, \* per email: its account
  answer  \* per call: the account it was answered with

Register(c) ==
  /\ holder[EmailOf[c]] = NoAccount
  /\ holder' = [holder EXCEPT ![EmailOf[c]] = c]

Answered(c) ==
  /\ answer[c] = NoAccount
  /\ answer' = [answer EXCEPT ![c] = holder'[EmailOf[c]]]
  /\ answer'[c] # NoAccount

\* A registration whose answer is lost, an answer from the directory, or both.
Step(c) ==
  \/ Register(c) /\ UNCHANGED answer
  \/ Answered(c) /\ UNCHANGED holder
  \/ Register(c) /\ Answered(c)

Init ==
  /\ holder \in [Emails -> Accounts \cup {NoAccount}]
  /\ answer = [c \in Calls |-> NoAccount]

Next == \E c \in Calls : Step(c)

Spec == Init /\ [][Next]_<<holder, answer>>
=============================================================================
