-------------------------- MODULE ManagementClient --------------------------
(***************************************************************************)
(* Calls of the Logto Management API (services/logtoManagement.js,         *)
(* callLogtoManagementApi) with an access token from a cache that all      *)
(* calls share (fetchLogtoManagementApiAccessToken), under the timer of    *)
(* services/timeouts.js.                                                   *)
(*                                                                         *)
(* The timer runs until the headers of an answer have come: reading the    *)
(* body comes after withTimeout has returned and has no limit of its own.  *)
(* MaxBody is an assumption about the token endpoint.  A token is its      *)
(* expiry at Logto; expires_in is what Logto grants.                       *)
(***************************************************************************)
EXTENDS Clock, Integers

CONSTANTS
  Callers,   \* each has one call at a time
  Timeout,   \* getLogtoTimeoutMs()
  MaxBody,   \* bounds the time from the issue of a token to its arrival
  TTL,       \* expires_in
  Margin,    \* the last part of its life in which a token is not taken from the cache
  NoToken    \* the cache is empty

ASSUME ClientAssumption ==
  /\ Timeout \in Nat \ {0} /\ MaxBody \in Nat /\ TTL \in Nat /\ Margin \in Nat
  /\ TTL > Timeout + MaxBody
  /\ Margin >= Timeout + MaxBody
  /\ NoToken \notin [exp : Nat, believed : Nat]

VARIABLES
  cache,  \* tokenCache: the token's expiry, and what expiresAt says it is
  call    \* each caller's call: its stage, when that began, its token

clientVars == <<now, cache, call>>

NoCall == [at |-> "idle", since |-> 0, exp |-> 0]
Ended == {"ok", "unauthorized", "failed", "timeout"}
Stages == {"idle", "token", "tokenBody", "sent", "body", "denied"} \cup Ended

InitClient ==
  /\ now = 0
  /\ cache = NoToken
  /\ call = [c \in Callers |-> NoCall]

Moves(c, from, to) ==
  /\ call[c].at = from
  /\ call' = [call EXCEPT ![c].at = to, ![c].since = IF to = "sent" THEN now ELSE 0]

-----------------------------------------------------------------------------
(* fetchLogtoManagementApiAccessToken.                                     *)

(* A token is used to the end of the life it is believed to have.          *)
HitWithoutMargin == cache # NoToken /\ now < cache.believed

Hit == cache # NoToken /\ now < cache.believed - Margin

Begin(c) ==
  /\ call[c].at \in {"idle"} \cup Ended
  /\ call' = [call EXCEPT ![c] = IF Hit
                                 THEN [at |-> "sent", since |-> now, exp |-> cache.exp]
                                 ELSE [at |-> "token", since |-> now, exp |-> 0]]
  /\ UNCHANGED cache

TokenIssued(c) ==
  /\ call[c].at = "token"
  /\ call' = [call EXCEPT ![c] = [at |-> "tokenBody", since |-> now, exp |-> now + TTL]]
  /\ UNCHANGED cache

(* The call goes on with the token it has fetched; the cache holds the one *)
(* that arrived last, which another call may have asked for earlier.       *)
TokenRead(c) ==
  /\ Moves(c, "tokenBody", "sent")
  /\ cache' = [exp |-> call[c].exp, believed |-> now + TTL]

TokenFails(c) ==
  /\ Moves(c, "token", "failed") \/ Moves(c, "tokenBody", "failed")
  /\ UNCHANGED cache

-----------------------------------------------------------------------------
(* The call itself, and withTimeout.                                       *)

(* Logto looks at the token before its headers arrive, that is, not later. *)
HeadersArrive(c) ==
  /\ Moves(c, "sent", IF now < call[c].exp THEN "body" ELSE "denied")
  /\ UNCHANGED cache

(* response.ok is looked at when the body has been read.                   *)
BodyRead(c) ==
  /\ \/ Moves(c, "body", "ok")
     \/ Moves(c, "denied", "unauthorized")
  /\ UNCHANGED cache

CallFails(c) ==
  /\ Moves(c, "sent", "failed") \/ Moves(c, "body", "failed")
  /\ UNCHANGED cache

(* Only the call, and not the request for a token, is under the timer.     *)
TimesOutOnceSent(c) ==
  /\ call[c].at = "sent"
  /\ now >= call[c].since + Timeout
  /\ Moves(c, call[c].at, "timeout")
  /\ UNCHANGED cache

(* The timer aborts the fetch before it rejects with its own error (L27-28): *)
(* when the fetch's AbortError wins the race, it is thrown as it is        *)
(* (didTimeout, L35), and is no timeout to the caller but a failure.       *)
TimesOut(c) ==
  /\ call[c].at \in {"token", "sent"}
  /\ now >= call[c].since + Timeout
  /\ \E outcome \in {"timeout", "failed"} : Moves(c, call[c].at, outcome)
  /\ UNCHANGED cache

(* The caller has taken the outcome.                                       *)
Dismiss(c) ==
  /\ call[c].at \in Ended
  /\ call' = [call EXCEPT ![c] = NoCall]
  /\ UNCHANGED cache

(* The timer fires when it is due.                                         *)
InTime ==
  \A c \in Callers :
    /\ call[c].at \in {"token", "sent"} => now < call[c].since + Timeout
    /\ call[c].at = "tokenBody" => now < call[c].since + MaxBody

ClientStep(c) ==
  \/ Begin(c) \/ Dismiss(c)
  \/ TokenIssued(c) \/ TokenRead(c) \/ TokenFails(c)
  \/ HeadersArrive(c) \/ BodyRead(c) \/ CallFails(c) \/ TimesOut(c)

ClientTick == InTime /\ now' = now + 1 /\ UNCHANGED <<cache, call>>

ClientNext == (\E c \in Callers : ClientStep(c) /\ UNCHANGED now) \/ ClientTick

ClientSpec == InitClient /\ [][ClientNext]_clientVars

-----------------------------------------------------------------------------
(* Properties.                                                             *)

ClientTypeOK ==
  /\ now \in Nat
  /\ cache \in [exp : Nat, believed : Nat] \cup {NoToken}
  /\ call \in [Callers -> [at : Stages, since : Nat, exp : Nat]]

(* A token on its way to Logto is still valid, whichever call has fetched  *)
(* it, whichever answer came last, and however long the call has waited.   *)
TokenIsLive == \A c \in Callers : call[c].at = "sent" => now < call[c].exp
=============================================================================
