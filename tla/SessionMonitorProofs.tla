------------------------ MODULE SessionMonitorProofs ------------------------
(***************************************************************************)
(* The heartbeat and the expiry timer of a session, proved for all          *)
(* intervals, timeouts and token lives.                                     *)
(***************************************************************************)
EXTENDS SessionMonitor, TLAPS

USE MonitorAssumption

\* The latest start, after a pong, of the first ping that may be missed: the tick
\* is at most PingInterval away, or pending until the renewal is over.
FirstPing == Max(PingInterval, RenewTimeout)
\* The latest start of the next one: a tick later, or when the first has timed out.
SecondPing == FirstPing + Max(PingInterval, PongTimeout)

\* Where the monitor is tells how long the client may have been silent.
Heartbeat ==
  /\ at = "ping" => waited <= PongTimeout
  /\ at = "renew" => missed = 0 /\ silence = waited /\ waited <= RenewTimeout
  /\ missed = 0 /\ at # "ping" =>
       silence <= FirstPing /\ (~ticked => silence + toTick <= PingInterval)
  /\ missed = 0 /\ at = "ping" =>
       silence - waited <= FirstPing /\ (~ticked => silence + toTick <= FirstPing + PingInterval)
  /\ missed = 1 /\ at = "select" =>
       silence <= SecondPing /\ (~ticked => silence + toTick <= FirstPing + PingInterval)
  /\ missed = 1 /\ at = "ping" => silence - waited <= SecondPing
  /\ missed < 2

MonitorInv == TypeOK /\ ExpiryArmed /\ (code = Open => Heartbeat)

LEMMA MaxFact ==
  ASSUME NEW a \in Int, NEW b \in Int
  PROVE  Max(a, b) \in Int /\ Max(a, b) >= a /\ Max(a, b) >= b /\ (Max(a, b) = a \/ Max(a, b) = b)
BY DEF Max

\* What the proofs use of the bounds.
LEMMA Bounds ==
  /\ FirstPing \in Nat /\ FirstPing >= PingInterval /\ FirstPing >= RenewTimeout
  /\ SecondPing \in Nat /\ SecondPing >= FirstPing + PingInterval
  /\ SecondPing >= FirstPing + PongTimeout
  /\ SilenceBound \in Nat /\ SilenceBound >= SecondPing + PongTimeout
  /\ Late \in Nat /\ Late >= Leeway
BY DEF FirstPing, SecondPing, SilenceBound, Late, Max

\* TypeOK in two parts: the numbers, and the flags, which need another prover.
Numbers ==
  /\ at \in {"select", "ping", "renew"}
  /\ toTick \in 1..PingInterval
  /\ waited \in 0..Max(PongTimeout, RenewTimeout)
  /\ missed \in 0..2
  /\ life \in (0 - Late)..MaxLife /\ timer \in 0..MaxLife
  /\ lease \in 0..SlotTTL /\ fails \in 0..MaxFails
  /\ code \in {Open, "token_expired", "going_away", "superseded"}
  /\ silence \in 0..(SilenceBound + 1)

Flags == ticked \in BOOLEAN /\ fired \in BOOLEAN /\ refreshed \in BOOLEAN

LEMMA TypeParts == TypeOK <=> Numbers /\ Flags
BY Zenon DEF TypeOK, Numbers, Flags

LEMMA InitMonitorInv == Init => MonitorInv
<1> SUFFICES ASSUME Init PROVE MonitorInv
  OBVIOUS
<1>1. Flags /\ (fired <=> life <= 0) /\ ~refreshed
  <2>1. (life <= 0) \in BOOLEAN
    BY SMT DEF Init
  <2> QED BY <2>1, Zenon DEF Init, Flags
<1>2. Numbers
  BY Bounds DEF Init, Numbers, Max
<1>3. ExpiryArmed
  BY <1>1, Bounds DEF Init, ExpiryArmed, Max
<1>4. Heartbeat
  BY Bounds DEF Init, Heartbeat
<1> QED BY <1>1, <1>2, <1>3, <1>4, TypeParts DEF MonitorInv

LEMMA TickInv ==
  ASSUME MonitorInv, Tick
  PROVE  MonitorInv'
<1>0. Numbers /\ Flags /\ ExpiryArmed /\ code = Open /\ Heartbeat
  BY TypeParts DEF MonitorInv, Tick
<1>1. /\ Flags'
      /\ ticked' <=> (ticked \/ toTick = 1)
      /\ fired' <=> (fired \/ timer = 1)
      /\ refreshed' <=> refreshed
  BY <1>0, Zenon DEF Tick, Flags
<1>2. Numbers'
  BY <1>0, Bounds DEF Tick, Numbers, Waiting, Heartbeat, Max
<1>3. ExpiryArmed'
  <2>1. timer' = Max(timer - 1, 0) /\ life' = Max(life - 1, 0 - Late) /\ code' = code
    BY DEF Tick
  <2> QED BY <1>0, <1>1, <2>1, Bounds DEF Numbers, ExpiryArmed, Max
<1>4. Heartbeat'
  <2>1. /\ at' = at /\ missed' = missed /\ Waiting
        /\ toTick' = IF toTick = 1 THEN PingInterval ELSE toTick - 1
        /\ silence' = silence \/ silence' = silence + 1
        /\ waited' = IF at = "select" THEN 0 ELSE waited + 1
        /\ silence <= SilenceBound => silence' = silence + 1
    BY <1>0, Bounds DEF Tick, Numbers
  <2>2. silence <= SilenceBound
    BY <1>0, Bounds DEF Numbers, Heartbeat
  <2> QED BY <1>0, <1>1, <2>1, <2>2, Bounds DEF Numbers, Waiting, Heartbeat
<1> QED BY <1>1, <1>2, <1>3, <1>4, TypeParts, PTL DEF MonitorInv

LEMMA PingInv ==
  ASSUME MonitorInv, DoPing \/ Pong \/ PongMissed \/ Renew
  PROVE  MonitorInv'
<1>0. Numbers /\ Flags /\ ExpiryArmed /\ code = Open /\ Heartbeat
  BY TypeParts DEF MonitorInv, DoPing, Pong, PongMissed, Renew
<1>1. /\ Flags'
      /\ UNCHANGED expiryVars
      /\ DoPing => ~ticked'
      /\ ~DoPing => ticked' = ticked
  BY <1>0, Zenon DEF DoPing, Pong, PongMissed, Renew, Flags, expiryVars
<1>2. Numbers'
  BY <1>0, <1>1, Bounds DEF DoPing, Pong, PongMissed, Renew, Numbers, Heartbeat, expiryVars, Max
<1>3. ExpiryArmed'
  BY <1>0, <1>1 DEF ExpiryArmed, expiryVars
<1>4. (code = Open => Heartbeat)'
  BY <1>0, <1>1, Bounds DEF DoPing, Pong, PongMissed, Renew, Numbers, Heartbeat, Open
<1> QED BY <1>1, <1>2, <1>3, <1>4, TypeParts, PTL DEF MonitorInv

LEMMA ExpiryInv ==
  ASSUME MonitorInv, OnRefreshed \/ OnExpiry \/ \E l \in (0 - Leeway)..MaxLife : SetExpiry(l)
  PROVE  MonitorInv'
<1>0. Numbers /\ Flags /\ ExpiryArmed /\ code = Open /\ Heartbeat
  BY TypeParts DEF MonitorInv, OnRefreshed, OnExpiry, SetExpiry
<1>1. UNCHANGED heartbeatVars
  BY DEF OnRefreshed, OnExpiry, SetExpiry
<1>2. Flags'
  <2>1. (life <= 0) \in BOOLEAN
    BY <1>0, SMT DEF Numbers
  <2> QED BY <1>0, <2>1, Zenon DEF OnRefreshed, OnExpiry, SetExpiry, Arm, Flags, heartbeatVars
<1>3. Numbers'
  BY <1>0, <1>1, Bounds
     DEF OnRefreshed, OnExpiry, SetExpiry, Arm, Numbers, heartbeatVars, Max, Open
<1>4. ExpiryArmed'
  <2>1. CASE \E l \in (0 - Leeway)..MaxLife : SetExpiry(l)
    BY <2>1, Zenon DEF SetExpiry, ExpiryArmed
  <2>2. CASE OnExpiry /\ life <= 0
    BY <2>2, <1>0, SMT DEF OnExpiry, ExpiryArmed, Numbers, Open
  <2>3. CASE OnRefreshed \/ (OnExpiry /\ ~(life <= 0))
    <3>1. timer' = Max(life, 0) /\ (fired' <=> life <= 0) /\ life' = life
      BY <2>3, Zenon DEF OnRefreshed, OnExpiry, Arm
    <3> QED BY <3>1, <1>0 DEF Numbers, ExpiryArmed, Max
  <2> QED BY <2>1, <2>2, <2>3
<1>5. Heartbeat'
  BY <1>0, <1>1 DEF Heartbeat, heartbeatVars, FirstPing, SecondPing
<1> QED BY <1>2, <1>3, <1>4, <1>5, TypeParts, PTL DEF MonitorInv

\* MonitorInv is an invariant of the monitor: type correctness, the armed timer and
\* the silence that each position of the heartbeat allows.
THEOREM MonitorInvariant == Spec => []MonitorInv
<1>1. MonitorInv /\ [Next]_vars => MonitorInv'
  <2> SUFFICES ASSUME MonitorInv, [Next]_vars PROVE MonitorInv'
    OBVIOUS
  <2>1. CASE Next
    BY <2>1, TickInv, PingInv, ExpiryInv DEF Next
  <2>2. CASE UNCHANGED vars
    BY <2>2 DEF vars, MonitorInv, TypeOK, ExpiryArmed, Heartbeat, FirstPing, SecondPing, Late, SilenceBound
  <2> QED BY <2>1, <2>2
<1> QED BY <1>1, InitMonitorInv, PTL DEF Spec

\* No refresh is lost between SetExpiry and the monitor, for every token life.
THEOREM ExpiryStaysArmed == Spec => []ExpiryArmed
<1>1. MonitorInv => ExpiryArmed
  BY DEF MonitorInv
<1> QED BY <1>1, MonitorInvariant, PTL

\* The second missed pong closes the session: for all intervals and timeouts, no open
\* session has been silent for longer than two heartbeats take.
THEOREM SilentIsClosed == Spec => []UnresponsiveClosed
<1>1. MonitorInv => UnresponsiveClosed
  BY Bounds DEF MonitorInv, TypeOK, Heartbeat, UnresponsiveClosed
<1> QED BY <1>1, MonitorInvariant, PTL

\* monitor reads the expiry again when its timer fires, so that no session is closed
\* 4003 while its token is valid.
THEOREM ValidIsKept == Spec => NoEarlyExpiry
<1>1. [Next]_vars => (code = Open /\ code' = "token_expired" => life <= 0)
  BY DEF Next, vars, Tick, DoPing, Pong, PongMissed, Renew, OnRefreshed, OnExpiry, SetExpiry, Open
<1> QED BY <1>1, PTL DEF Spec, NoEarlyExpiry

----------------------------------------------------------------------------
(* The slot's TTL.                                                         *)

\* The longest the slot can have been without a renewal, given how many in a row
\* got no answer and how long ago the last pong came.
Unrenewed == (IF at = "renew" THEN fails + 1 ELSE fails) * SilenceBound + silence
LeaseInv == code # "superseded" /\ (code = Open => lease + Unrenewed >= SlotTTL)

LEMMA Multiples ==
  ASSUME NEW f \in 0..MaxFails
  PROVE  /\ f * SilenceBound \in Nat
         /\ (f + 1) * SilenceBound = f * SilenceBound + SilenceBound
         /\ (f + 1) * SilenceBound <= (MaxFails + 1) * SilenceBound
         /\ 0 * SilenceBound = 0
<1>1. SilenceBound \in Nat BY Bounds
<1>2. \A a, b, s \in Nat : a <= b => (a + 1) * s <= (b + 1) * s
  OBVIOUS
<1>3. f \in Nat /\ f <= MaxFails OBVIOUS
<1>4. f * SilenceBound \in Nat /\ (f + 1) * SilenceBound = f * SilenceBound + SilenceBound
  BY <1>1, <1>3
<1>5. (f + 1) * SilenceBound <= (MaxFails + 1) * SilenceBound
  BY <1>1, <1>2, <1>3
<1> QED BY <1>1, <1>4, <1>5

LEMMA LeaseStep ==
  ASSUME MonitorInv, LeaseInv, [Next]_vars,
         SlotTTL > (MaxFails + 1) * SilenceBound + RenewTimeout
  PROVE  LeaseInv'
<1>1. Numbers /\ (code = Open => Heartbeat /\ silence <= SilenceBound)
  BY TypeParts, Bounds DEF MonitorInv, Heartbeat, Numbers
<1>2. fails \in 0..MaxFails /\ lease \in 0..SlotTTL /\ silence \in Nat /\ SilenceBound \in Nat
  BY <1>1, Bounds DEF Numbers
<1> DEFINE F == fails * SilenceBound
<1>3. /\ F \in Nat /\ (fails + 1) * SilenceBound = F + SilenceBound
      /\ F + SilenceBound <= (MaxFails + 1) * SilenceBound /\ 0 * SilenceBound = 0
  BY <1>2, Multiples
<1>4. CASE UNCHANGED vars
  BY <1>4 DEF vars, LeaseInv, Unrenewed, SilenceBound
<1>5. CASE Tick
  <2>1. /\ lease' >= lease - 1 /\ lease' \in Int /\ silence' = silence + 1
        /\ UNCHANGED <<at, fails, code>> /\ code = Open
    BY <1>1, <1>2, <1>5 DEF Tick, Max
  <2>2. Unrenewed' = Unrenewed + 1 /\ Unrenewed \in Nat
    BY <1>2, <1>3, <2>1 DEF Unrenewed, SilenceBound
  <2>3. lease + Unrenewed >= SlotTTL /\ code # "superseded" BY <2>1 DEF LeaseInv
  <2>4. lease' + Unrenewed' >= SlotTTL
    <3>1. \A a, b, c, d, t \in Int : c >= a - 1 /\ d = b + 1 /\ a + b >= t => c + d >= t
      OBVIOUS
    <3>2. lease \in Int /\ Unrenewed \in Int /\ lease' \in Int /\ Unrenewed' \in Int /\ SlotTTL \in Int
      BY <1>2, <2>1, <2>2
    <3> QED BY <2>1, <2>2, <2>3, <3>1, <3>2, Zenon
  <2> QED BY <2>1, <2>3, <2>4 DEF LeaseInv
<1>6. CASE DoPing \/ PongMissed \/ OnRefreshed \/ OnExpiry \/ \E l \in (0 - Leeway)..MaxLife : SetExpiry(l)
  <2>1. /\ UNCHANGED <<lease, silence, fails>> /\ (at = "renew" <=> at' = "renew")
        /\ code = Open /\ code' # "superseded"
    BY <1>6 DEF DoPing, PongMissed, OnRefreshed, OnExpiry, SetExpiry, heartbeatVars, Open
  <2>2. Unrenewed' = Unrenewed BY <2>1 DEF Unrenewed, SilenceBound
  <2> QED BY <2>1, <2>2 DEF LeaseInv
<1>7. CASE Pong
  <2>1. /\ at = "ping" /\ at' = "renew" /\ silence' = 0 /\ UNCHANGED <<lease, fails, code>> /\ code = Open
    BY <1>7 DEF Pong
  <2>2. Unrenewed = F + silence /\ Unrenewed' = F + SilenceBound
    BY <1>2, <1>3, <2>1 DEF Unrenewed, SilenceBound
  <2> QED BY <1>1, <1>2, <1>3, <2>1, <2>2 DEF LeaseInv, Open
<1>8. CASE Renew
  <2>1. at = "renew" /\ at' = "select" /\ silence' = silence /\ code = Open /\ silence <= RenewTimeout
    BY <1>1, <1>8 DEF Renew, Heartbeat, Numbers
  <2>2. Unrenewed = F + SilenceBound + silence /\ lease + Unrenewed >= SlotTTL
    BY <1>2, <1>3, <2>1 DEF Unrenewed, LeaseInv
  <2>3. lease > 0
    BY <1>2, <1>3, <2>1, <2>2
  <2>4. CASE lease' = SlotTTL /\ fails' = 0 /\ UNCHANGED code
    <3>1. Unrenewed' = silence BY <1>2, <1>3, <2>1, <2>4 DEF Unrenewed, SilenceBound
    <3> QED BY <1>2, <2>1, <2>4, <3>1 DEF LeaseInv, Open
  <2>5. CASE fails' = fails + 1 /\ UNCHANGED <<lease, code>>
    <3>1. Unrenewed' = Unrenewed BY <1>3, <2>1, <2>2, <2>5 DEF Unrenewed, SilenceBound
    <3> QED BY <2>1, <2>2, <2>5, <3>1 DEF LeaseInv, Open
  <2> QED BY <1>8, <2>3, <2>4, <2>5 DEF Renew
<1> QED BY <1>4, <1>5, <1>6, <1>7, <1>8 DEF Next

\* A slot whose TTL outlives one longest silence more than renewals fail in a row,
\* and the last renewal, is never lost to its TTL: for all intervals and timeouts no
\* session without a competitor is told that it was superseded (renew, RenewSlot).
\* The TTL that config.Validate asks for is shorter than that.
THEOREM SlotIsKept ==
  SlotTTL > (MaxFails + 1) * SilenceBound + RenewTimeout => (Spec => []NeverLosesSlot)
<1> SUFFICES ASSUME SlotTTL > (MaxFails + 1) * SilenceBound + RenewTimeout
             PROVE  Spec => []NeverLosesSlot
  OBVIOUS
<1>1. Init => LeaseInv
  <2> SUFFICES ASSUME Init PROVE LeaseInv OBVIOUS
  <2>1. fails = 0 /\ silence = 0 /\ at = "select" /\ lease = SlotTTL /\ code = Open BY DEF Init
  <2>2. Unrenewed = 0 BY <2>1, Bounds DEF Unrenewed
  <2> QED BY <2>1, <2>2 DEF LeaseInv, Open
<1>2. MonitorInv /\ LeaseInv /\ [Next]_vars => LeaseInv'
  BY LeaseStep
<1>3. LeaseInv => NeverLosesSlot
  BY DEF LeaseInv, NeverLosesSlot
<1> QED BY <1>1, <1>2, <1>3, MonitorInvariant, PTL DEF Spec
=============================================================================
