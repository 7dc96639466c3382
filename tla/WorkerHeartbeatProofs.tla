------------------------ MODULE WorkerHeartbeatProofs ------------------------
(***************************************************************************)
(* What the API says of the worker is true, for every length of the        *)
(* expiry, the interval and the delay of a write.  That a steady worker is *)
(* seen needs to know what keeps the key alive: either a payload that is   *)
(* being written, and arrives before the key expires, or the time left to  *)
(* the interval's next one.                                                *)
(***************************************************************************)
EXTENDS WorkerHeartbeat, TLAPS

Young ==
  /\ up => down = 0
  /\ \A b \in beats : down <= b
  /\ key # NoKey => key.age <= TTL - key.ttl + MaxDelay /\ down <= key.age

Renewed ==
  \/ \E b \in beats : key.ttl >= MaxDelay - b + 1
  \/ key.ttl >= due + MaxDelay + 1

Kept ==
  /\ steady => up
  /\ steady /\ TTL > Interval + MaxDelay => key # NoKey /\ Renewed

HeartbeatInv == HeartbeatTypeOK /\ Young /\ Kept

LEMMA KeysAreKeys == NoKey \notin Keys
  BY HeartbeatAssumption DEF Keys

LEMMA HeartbeatInit == InitHeartbeat => HeartbeatInv
<1> SUFFICES ASSUME InitHeartbeat PROVE HeartbeatInv
  OBVIOUS
<1> USE HeartbeatAssumption DEF InitHeartbeat
<1>1. HeartbeatTypeOK
  <2>1. up \in BOOLEAN /\ steady \in BOOLEAN /\ key \in Keys \cup {NoKey}
    OBVIOUS
  <2>2. down \in Nat /\ due \in 0..Interval /\ beats \subseteq 0..MaxDelay
    OBVIOUS
  <2> QED BY <2>1, <2>2 DEF HeartbeatTypeOK
<1>2. Young
  BY DEF Young
<1>3. Kept
  BY DEF Kept
<1> QED BY <1>1, <1>2, <1>3 DEF HeartbeatInv

LEMMA BeatInv ==
  ASSUME HeartbeatInv, IntervalBeat \/ HealthBeat
  PROVE  HeartbeatInv'
<1> USE HeartbeatAssumption DEF HeartbeatInv
<1>1. HeartbeatTypeOK'
  <2>1. /\ beats' = beats \cup {0} /\ due' \in 0..Interval
        /\ UNCHANGED <<up, down, key, steady>>
    BY DEF HeartbeatTypeOK, IntervalBeat, HealthBeat
  <2>2. beats' \subseteq 0..MaxDelay
    BY <2>1 DEF HeartbeatTypeOK
  <2> QED BY <2>1, <2>2 DEF HeartbeatTypeOK
<1>2. Young'
  <2>1. /\ up /\ down = 0 /\ beats' = beats \cup {0}
        /\ UNCHANGED <<up, down, key>>
    BY DEF Young, IntervalBeat, HealthBeat
  <2> QED BY <2>1 DEF Young
<1>3. Kept'
  <2>1. CASE IntervalBeat
    <3>1. key # NoKey => key.ttl \in 1..TTL
      BY DEF HeartbeatTypeOK, Keys
    <3> QED BY <2>1, <3>1 DEF HeartbeatTypeOK, Kept, Renewed, IntervalBeat
  <2>2. CASE HealthBeat
    BY <2>2 DEF Kept, Renewed, HealthBeat
  <2> QED BY <2>1, <2>2
<1> QED BY <1>1, <1>2, <1>3

LEMMA SetInv ==
  ASSUME HeartbeatInv, NEW b \in beats, Set(b)
  PROVE  HeartbeatInv'
<1> USE HeartbeatAssumption DEF HeartbeatInv
<1>1. b \in 0..MaxDelay /\ b \in Nat
  BY DEF HeartbeatTypeOK
<1>2. key' \in Keys /\ key' # NoKey /\ key'.ttl = TTL /\ key'.age = b
  BY <1>1, KeysAreKeys DEF Set, Keys
<1>3. HeartbeatTypeOK'
  BY <1>2 DEF HeartbeatTypeOK, Set
<1>4. Young'
  BY <1>1, <1>2 DEF HeartbeatTypeOK, Young, Set
<1>5. Kept'
  BY <1>2 DEF HeartbeatTypeOK, Kept, Renewed, Set
<1> QED BY <1>3, <1>4, <1>5

LEMMA StopStartInv ==
  ASSUME HeartbeatInv, WorkerStops \/ WorkerStarts \/ \E b \in beats : BeatFails(b)
  PROVE  HeartbeatInv'
<1> USE HeartbeatAssumption DEF HeartbeatInv
<1>1. /\ up' \in BOOLEAN /\ steady' \in BOOLEAN
      /\ UNCHANGED <<key>>
      /\ down' \in {0, down} /\ due' \in {due, Interval}
      /\ beats' \subseteq beats \cup {0}
  BY DEF HeartbeatTypeOK, WorkerStops, WorkerStarts, BeatFails
<1>2. beats' \subseteq 0..MaxDelay /\ due' \in 0..Interval /\ down' \in Nat
  BY <1>1 DEF HeartbeatTypeOK
<1>3. HeartbeatTypeOK'
  BY <1>1, <1>2 DEF HeartbeatTypeOK
<1>4. up' => down' = 0
  BY DEF Young, WorkerStops, WorkerStarts, BeatFails
<1>5. \A b \in beats' : down' <= b
  <2>1. CASE WorkerStarts
    BY <2>1, <1>2 DEF WorkerStarts
  <2>2. CASE WorkerStops \/ \E b \in beats : BeatFails(b)
    BY <2>2 DEF Young, WorkerStops, BeatFails
  <2> QED BY <2>1, <2>2
<1>6. key' # NoKey => key'.age <= TTL - key'.ttl + MaxDelay /\ down' <= key'.age
  <2>1. key # NoKey => key.age \in Nat
    BY DEF HeartbeatTypeOK, Keys
  <2> QED BY <1>1, <2>1 DEF Young
<1>7. Young'
  BY <1>4, <1>5, <1>6 DEF Young
<1>8. Kept'
  BY DEF Kept, WorkerStops, WorkerStarts, BeatFails
<1> QED BY <1>3, <1>7, <1>8

LEMMA TickInv ==
  ASSUME HeartbeatInv, Tick
  PROVE  HeartbeatInv'
<1> USE HeartbeatAssumption DEF HeartbeatInv
<1>1. \A b \in beats : b \in Nat /\ b + 1 <= MaxDelay
  BY DEF HeartbeatTypeOK, Tick
<1>2. beats' = {b + 1 : b \in beats}
  BY DEF Tick
<1>3. key # NoKey => key \in Keys /\ key.ttl \in 1..TTL /\ key.age \in Nat
  BY DEF HeartbeatTypeOK, Keys
<1>4. CASE Expired
  <2>1. key' = NoKey
    BY <1>4 DEF Tick
  <2>2. HeartbeatTypeOK'
    BY <1>1, <1>2, <2>1 DEF HeartbeatTypeOK, Tick
  <2>3. Young'
    BY <1>1, <1>2, <2>1 DEF HeartbeatTypeOK, Young, Tick
  <2>4. ~(steady /\ TTL > Interval + MaxDelay)
    BY <1>1, <1>3, <1>4 DEF HeartbeatTypeOK, Kept, Renewed, Expired, Tick
  <2>5. Kept'
    BY <2>4 DEF Kept, Tick
  <2> QED BY <2>2, <2>3, <2>5
<1>5. CASE ~Expired
  <2>1. key # NoKey /\ key.ttl # 1
    BY <1>5 DEF Expired
  <2>2. key' = [ttl |-> key.ttl - 1, age |-> key.age + 1]
    BY <1>5 DEF Tick
  <2>3. key' \in Keys /\ key' # NoKey /\ key'.ttl = key.ttl - 1 /\ key'.age = key.age + 1
    BY <1>3, <2>1, <2>2, KeysAreKeys DEF Keys
  <2>4. HeartbeatTypeOK'
    BY <1>1, <1>2, <2>3 DEF HeartbeatTypeOK, Tick
  <2>5. Young'
    BY <1>1, <1>2, <1>3, <2>1, <2>3 DEF HeartbeatTypeOK, Young, Tick
  <2>6. Kept'
    <3> SUFFICES ASSUME steady, TTL > Interval + MaxDelay PROVE Renewed'
      BY <2>3 DEF Kept, Tick
    <3>1. CASE \E b \in beats : key.ttl >= MaxDelay - b + 1
      <4>1. PICK b \in beats : key.ttl >= MaxDelay - b + 1
        BY <3>1
      <4>2. b + 1 \in beats' /\ key'.ttl >= MaxDelay - (b + 1) + 1
        BY <1>1, <1>2, <1>3, <2>1, <2>3, <4>1
      <4> QED BY <4>2 DEF Renewed
    <3>2. CASE key.ttl >= due + MaxDelay + 1
      BY <1>3, <2>1, <2>3, <3>2 DEF HeartbeatTypeOK, Kept, Renewed, Tick
    <3> QED BY <3>1, <3>2 DEF Kept, Renewed
  <2> QED BY <2>4, <2>5, <2>6
<1> QED BY <1>4, <1>5

LEMMA HeartbeatStep == HeartbeatInv /\ [NextHeartbeat]_heartbeatVars => HeartbeatInv'
<1> SUFFICES ASSUME HeartbeatInv, [NextHeartbeat]_heartbeatVars
             PROVE  HeartbeatInv'
  OBVIOUS
<1>1. CASE UNCHANGED heartbeatVars
  BY <1>1 DEF heartbeatVars, HeartbeatInv, HeartbeatTypeOK, Young, Kept, Renewed
<1>2. CASE NextHeartbeat
  BY <1>2, BeatInv, SetInv, StopStartInv, TickInv DEF NextHeartbeat
<1> QED BY <1>1, <1>2

(* The types of the heartbeat's state hold in every reachable state, and   *)
(* with them what the properties rest on.                                  *)
THEOREM HeartbeatInvariant == HeartbeatSpec => []HeartbeatInv
  BY HeartbeatInit, HeartbeatStep, PTL DEF HeartbeatSpec

(* A worker seen alive was up less than TTL + MaxDelay ago, a key that     *)
(* expires before it is stale never says stale, and a worker whose writes  *)
(* succeed is never called offline by a read that succeeds.                *)
THEOREM HeartbeatTrue == HeartbeatSpec => []HeartbeatIsTrue
<1>1. HeartbeatInv => HeartbeatIsTrue
  <2> SUFFICES ASSUME HeartbeatInv PROVE HeartbeatIsTrue
    OBVIOUS
  <2> USE HeartbeatAssumption DEF HeartbeatInv
  <2>1. key # NoKey => key.ttl \in 1..TTL /\ key.age \in Nat
    BY DEF HeartbeatTypeOK, Keys
  <2>2. HeartbeatIsRecent
    BY <2>1 DEF HeartbeatTypeOK, Young, HeartbeatIsRecent, WorkerState, Reads
  <2>3. SteadyIsSeen
    BY DEF Kept, SteadyIsSeen, WorkerState
  <2> QED BY <2>2, <2>3 DEF HeartbeatIsTrue
<1> QED BY <1>1, HeartbeatInvariant, PTL
=============================================================================
