--------------------------- MODULE WorkerHeartbeat ---------------------------
(***************************************************************************)
(* The worker's heartbeat in Redis and how the API reads it:               *)
(* worker/index.js (publishWorkerHeartbeat and its interval),              *)
(* services/runtime/heartbeat.js (SET ... EX 60) and                       *)
(* services/runtime/ownerObservability.js (loadRedisWorkerHealthSnapshot). *)
(*                                                                         *)
(* Time passes in ticks.  A payload is its age: the ticks since its queue  *)
(* telemetry was read and its updatedAt stamped.  That a write is answered *)
(* within MaxDelay, and the interval's callback runs when it is due, are   *)
(* assumptions: ioredis waits through an outage of Redis                   *)
(* (maxRetriesPerRequest: null, lib/redis.js:9).                           *)
(***************************************************************************)
EXTENDS Integers

CONSTANTS
  TTL,         \* ticks until the key expires
  Interval,    \* ticks between two heartbeats
  StaleAfter,  \* the age from which a heartbeat is called stale
  MaxDelay,    \* bounds the ticks a write takes
  NoKey        \* the key is absent

ASSUME HeartbeatAssumption ==
  /\ TTL \in Nat \ {0} /\ Interval \in Nat \ {0} /\ MaxDelay \in Nat /\ StaleAfter \in Nat
  /\ NoKey \notin [ttl : Int, age : Int]

VARIABLES
  up,      \* the worker runs
  down,    \* the ticks since it stopped, 0 while it runs
  due,     \* the ticks until the interval's next heartbeat
  beats,   \* the ages of the payloads being written
  key,     \* the key in Redis: ticks to live and the age of its payload
  steady   \* history: the worker runs, a write was done and none has failed since

heartbeatVars == <<up, down, due, beats, key, steady>>

Keys == [ttl : 1..TTL, age : Nat]

InitHeartbeat ==
  /\ up = TRUE /\ down = 0 /\ due = Interval
  /\ beats = {0}  \* the startup writes one
  /\ key = NoKey
  /\ steady = FALSE

-----------------------------------------------------------------------------
(* publishWorkerHeartbeat, from the interval ...                           *)
IntervalBeat ==
  /\ up /\ due = 0
  /\ due' = Interval
  /\ beats' = beats \cup {0}
  /\ UNCHANGED <<up, down, key, steady>>

(* ... and from GET /health of the worker.                                 *)
HealthBeat ==
  /\ up
  /\ beats' = beats \cup {0}
  /\ UNCHANGED <<up, down, due, key, steady>>

(* SET heartbeatKey payload EX 60.  A command of a worker that has died    *)
(* may still be executed.                                                  *)
Set(b) ==
  /\ b \in beats
  /\ beats' = beats \ {b}
  /\ key' = [ttl |-> TTL, age |-> b]
  /\ steady' = up
  /\ UNCHANGED <<up, down, due>>

(* The telemetry or the write fails; the error is logged.                  *)
BeatFails(b) ==
  /\ b \in beats
  /\ beats' = beats \ {b}
  /\ steady' = FALSE
  /\ UNCHANGED <<up, down, due, key>>

WorkerStops ==
  /\ up
  /\ up' = FALSE /\ steady' = FALSE
  /\ UNCHANGED <<down, due, beats, key>>

WorkerStarts ==
  /\ ~up
  /\ up' = TRUE /\ down' = 0 /\ due' = Interval
  /\ beats' = beats \cup {0}
  /\ UNCHANGED <<key, steady>>

(* The key is written without EX.                                          *)
NeverExpires == key = NoKey

Expired == key = NoKey \/ key.ttl = 1

Tick ==
  /\ up => due > 0
  /\ \A b \in beats : b < MaxDelay
  /\ beats' = {b + 1 : b \in beats}
  /\ due' = IF up THEN due - 1 ELSE due
  \* Once the key is gone, how long the worker has been down shows nowhere.
  /\ down' = IF up \/ (Expired /\ down > 0 /\ beats = {}) THEN down ELSE down + 1
  /\ key' = IF Expired THEN NoKey ELSE [ttl |-> key.ttl - 1, age |-> key.age + 1]
  /\ UNCHANGED <<up, steady>>

NextHeartbeat ==
  \/ IntervalBeat \/ HealthBeat \/ WorkerStops \/ WorkerStarts \/ Tick
  \/ \E b \in beats : Set(b) \/ BeatFails(b)

HeartbeatSpec == InitHeartbeat /\ [][NextHeartbeat]_heartbeatVars

-----------------------------------------------------------------------------
(* The heartbeat a health snapshot gets to read: a GET that fails is taken  *)
(* for no key (line 20), and when anything else fails the fallback (lines  *)
(* 114-120) knows of none, unless the environment names a time.            *)
Reads == {key, NoKey}

(* Its readiness and worker state.                                         *)
WorkerState(read) ==
  IF read = NoKey THEN "worker_offline"
  ELSE IF read.age > StaleAfter THEN "worker_heartbeat_stale" ELSE "alive"

-----------------------------------------------------------------------------
(* Properties.                                                             *)

HeartbeatTypeOK ==
  /\ up \in BOOLEAN /\ steady \in BOOLEAN
  /\ down \in Nat /\ due \in 0..Interval
  /\ beats \subseteq 0..MaxDelay
  /\ key \in Keys \cup {NoKey}

(* A worker seen alive was up, and had the queue counts shown for it (line *)
(* 29 prefers the heartbeat's to fresh ones), less than TTL + MaxDelay ago; *)
(* and a key that expires before it is stale is never called stale.         *)
HeartbeatIsRecent ==
  \A read \in Reads : WorkerState(read) # "worker_offline" =>
    /\ read.age < TTL + MaxDelay
    /\ down <= read.age
    /\ TTL + MaxDelay <= StaleAfter => WorkerState(read) = "alive"

(* A worker whose writes succeed is not called offline between two of them  *)
(* by a read that succeeds, if the key outlives an interval and a write.    *)
SteadyIsSeen ==
  TTL > Interval + MaxDelay /\ steady => WorkerState(key) # "worker_offline"

(* What the API says of the worker is true, as far as a key with an expiry *)
(* can tell it: "alive" and "stale" always, "offline" when the key was     *)
(* read.  A read that failed calls a live worker offline, too.             *)
HeartbeatIsTrue == HeartbeatIsRecent /\ SteadyIsSeen
=============================================================================
