--------------------------- MODULE SessionMonitor ---------------------------
(***************************************************************************)
(* The monitor goroutine of a relay session (internal/relay/session):       *)
(* heartbeat, slot renewal and token expiry, with the token refreshes that  *)
(* the read pump hands to SetExpiry and the TTL of the session's slot in    *)
(* redis.  No other connection competes for the slot.                       *)
(*                                                                          *)
(* Time is discrete and the monitor is faster than one unit: time passes    *)
(* only while the monitor waits.  A select with several ready cases takes   *)
(* any of them.  A slow write of the ping is part of the wait for its pong. *)
(***************************************************************************)
EXTENDS Integers

CONSTANTS
  PingInterval, PongTimeout,  \* Options
  RenewTimeout,               \* the 5 s of renew
  SlotTTL,                    \* TTL of the slot
  MaxFails,                   \* bound: renewals that redis fails to answer in a row
  MaxLife,                    \* bound: longest remaining life of a token
  Leeway                      \* how long after its expiry a token still verifies

ASSUME MonitorAssumption ==
  /\ PingInterval \in Nat \ {0} /\ PongTimeout \in Nat \ {0} /\ RenewTimeout \in Nat
  /\ SlotTTL \in Nat /\ SlotTTL > 2 * PingInterval   \* config.Validate
  /\ MaxFails \in Nat /\ MaxLife \in Nat /\ Leeway \in Nat

VARIABLES
  at,         \* the monitor's position: its select, doPing or renew
  toTick,     \* time until the ticker fires
  ticked,     \* the ticker's channel holds a tick
  waited,     \* time spent in doPing or renew
  missed,     \* consecutive missed pongs
  life,       \* token expiry minus the current time
  timer,      \* time until the expiry timer fires, 0 when it is not running
  fired,      \* the timer's channel holds its value
  refreshed,  \* the refreshed channel holds a signal
  lease,      \* time until the slot expires
  fails,      \* renewals in a row that got no answer
  code,       \* close code
  silence     \* history: time since the last pong (or the start)

vars == <<at, toTick, ticked, waited, missed, life, timer, fired, refreshed, lease, fails, code, silence>>
heartbeatVars == <<at, toTick, ticked, waited, missed, lease, fails, silence>>
expiryVars == <<life, timer, fired, refreshed>>

Open == "open"
Max(a, b) == IF a > b THEN a ELSE b

\* The longest time between two pongs of a session that stays open.
SilenceBound == PingInterval + Max(PingInterval, PongTimeout + RenewTimeout) + PongTimeout

\* Bound: the lateness of an expired token is not counted beyond this.
Late == Leeway + 2 * (PingInterval + PongTimeout + RenewTimeout)

----------------------------------------------------------------------------
(* Token expiry.                                                           *)

\* A timer armed with untilExpiry: at once (1 ms) for an expired token.
Arm(l) ==
  /\ timer' = Max(l, 0)
  /\ fired' = (l <= 0)

\* Mutation of SetExpiry: the monitor is not signalled.
SetExpiryNoSignal(l) ==
  /\ code = Open
  /\ life' = l
  /\ UNCHANGED <<heartbeatVars, timer, fired, refreshed, code>>

\* Refresh verified a token of the same identity: SetExpiry stores its expiry and
\* signals the monitor without blocking.
SetExpiry(l) ==
  /\ code = Open
  /\ life' = l
  /\ refreshed' = TRUE
  /\ UNCHANGED <<heartbeatVars, timer, fired, code>>

\* Mutation of OnRefreshed: the timer is stopped and not armed again.
OnRefreshedNoReset ==
  /\ code = Open /\ at = "select" /\ refreshed
  /\ refreshed' = FALSE
  /\ timer' = 0 /\ fired' = FALSE
  /\ UNCHANGED <<heartbeatVars, life, code>>

\* case <-s.refreshed: resetTimer stops the timer, empties its channel and arms it.
OnRefreshed ==
  /\ code = Open /\ at = "select" /\ refreshed
  /\ refreshed' = FALSE
  /\ Arm(life)
  /\ UNCHANGED <<heartbeatVars, life, code>>

\* Mutation of OnExpiry: the expiry is not read again when the timer fires.
OnExpiryNoRecheck ==
  /\ code = Open /\ at = "select" /\ fired
  /\ code' = "token_expired"
  /\ fired' = FALSE
  /\ UNCHANGED <<heartbeatVars, life, timer, refreshed>>

\* case <-expiry.C: the expiry may have been extended since the timer was armed.
OnExpiry ==
  /\ code = Open /\ at = "select" /\ fired
  /\ \/ /\ life <= 0
        /\ code' = "token_expired"
        /\ fired' = FALSE
        /\ UNCHANGED timer
     \/ /\ life > 0
        /\ Arm(life)
        /\ UNCHANGED code
  /\ UNCHANGED <<heartbeatVars, life, refreshed>>

----------------------------------------------------------------------------
(* Heartbeat.                                                              *)

\* case <-ping.C: doPing sends a ping and waits for the pong.
DoPing ==
  /\ code = Open /\ at = "select" /\ ticked
  /\ ticked' = FALSE
  /\ at' = "ping" /\ waited' = 0
  /\ UNCHANGED <<toTick, missed, lease, fails, silence, expiryVars, code>>

\* The pong arrives in time; the monitor goes on to renew the slot.
Pong ==
  /\ code = Open /\ at = "ping"
  /\ at' = "renew" /\ waited' = 0
  /\ missed' = 0
  /\ silence' = 0
  /\ UNCHANGED <<toTick, ticked, lease, fails, expiryVars, code>>

\* Mutation of PongMissed: one more missed pong is tolerated.
PongMissedThrice ==
  /\ code = Open /\ at = "ping" /\ waited = PongTimeout
  /\ missed' = missed + 1
  /\ code' = IF missed' > 2 THEN "going_away" ELSE Open
  /\ at' = "select" /\ waited' = 0
  /\ UNCHANGED <<toTick, ticked, lease, fails, silence, expiryVars>>

\* No pong within PongTimeout: the second in a row closes the session.
PongMissed ==
  /\ code = Open /\ at = "ping" /\ waited = PongTimeout
  /\ missed' = missed + 1
  /\ code' = IF missed' >= 2 THEN "going_away" ELSE Open
  /\ at' = "select" /\ waited' = 0
  /\ UNCHANGED <<toTick, ticked, lease, fails, silence, expiryVars>>

\* renew: a live slot is extended, a lapsed one is lost (ErrNotSlotOwner), and any
\* other error is left for the next heartbeat.
Renew ==
  /\ code = Open /\ at = "renew"
  /\ \/ lease > 0 /\ lease' = SlotTTL /\ fails' = 0 /\ UNCHANGED code
     \/ lease = 0 /\ code' = "superseded" /\ UNCHANGED <<lease, fails>>
     \/ fails < MaxFails /\ fails' = fails + 1 /\ UNCHANGED <<lease, code>>
  /\ at' = "select" /\ waited' = 0
  /\ UNCHANGED <<toTick, ticked, missed, silence, expiryVars>>

----------------------------------------------------------------------------
\* The monitor waits: its select has no ready case, or the call it makes has not
\* reached its timeout.
Waiting ==
  \/ at = "select" /\ ~ticked /\ ~fired /\ ~refreshed
  \/ at = "ping" /\ waited < PongTimeout
  \/ at = "renew" /\ waited < RenewTimeout

\* One unit of time passes.  The ticker's channel keeps one tick.
Tick ==
  /\ code = Open /\ Waiting
  /\ toTick' = IF toTick = 1 THEN PingInterval ELSE toTick - 1
  /\ ticked' = (ticked \/ toTick = 1)
  /\ timer' = Max(timer - 1, 0) /\ fired' = (fired \/ timer = 1)
  /\ life' = Max(life - 1, 0 - Late)
  /\ lease' = Max(lease - 1, 0)
  /\ silence' = IF silence > SilenceBound THEN silence ELSE silence + 1
  /\ waited' = IF at = "select" THEN 0 ELSE waited + 1
  /\ UNCHANGED <<at, missed, refreshed, fails, code>>

\* Serve starts the monitor right after the slot was claimed, with the expiry of
\* the token the client connected with.
Init ==
  /\ at = "select" /\ toTick = PingInterval /\ ticked = FALSE
  /\ waited = 0 /\ missed = 0
  /\ life \in (0 - Leeway)..MaxLife
  /\ timer = Max(life, 0) /\ fired = (life <= 0)
  /\ refreshed = FALSE
  /\ lease = SlotTTL /\ fails = 0
  /\ code = Open
  /\ silence = 0

Next ==
  \/ Tick
  \/ DoPing \/ Pong \/ PongMissed \/ Renew
  \/ OnRefreshed \/ OnExpiry
  \/ \E l \in (0 - Leeway)..MaxLife : SetExpiry(l)

\* Time goes on, the monitor takes ready cases, and a select that is ready for a
\* case again and again takes it at some point (Go chooses at random).
Fairness ==
  /\ WF_vars(Tick) /\ WF_vars(DoPing) /\ WF_vars(PongMissed \/ Renew)
  /\ SF_vars(OnRefreshed) /\ SF_vars(OnExpiry)

Spec == Init /\ [][Next]_vars
FairSpec == Spec /\ Fairness

----------------------------------------------------------------------------
\* Type correctness; every wait ends at its timeout.
TypeOK ==
  /\ at \in {"select", "ping", "renew"}
  /\ toTick \in 1..PingInterval /\ ticked \in BOOLEAN
  /\ waited \in 0..Max(PongTimeout, RenewTimeout)
  /\ missed \in 0..2
  /\ life \in (0 - Late)..MaxLife /\ timer \in 0..MaxLife
  /\ fired \in BOOLEAN /\ refreshed \in BOOLEAN
  /\ lease \in 0..SlotTTL /\ fails \in 0..MaxFails
  /\ code \in {Open, "token_expired", "going_away", "superseded"}
  /\ silence \in 0..(SilenceBound + 1)

\* No wakeup is lost between SetExpiry and the monitor, whatever they do in
\* between: unless the monitor has a signal to act on, its timer will fire exactly
\* when the token expires (SetExpiry, resetTimer, untilExpiry).
ExpiryArmed ==
  code = Open => fired \/ refreshed \/ (timer = life /\ timer > 0)

\* A refresh that races the expiry timer wins: no session is closed 4003 while its
\* token is still valid (the re-check in monitor).
NoEarlyExpiry ==
  [][code = Open /\ code' = "token_expired" => life <= 0]_vars

\* "A connection missing 2 consecutive pongs is closed" (FR-1.4): no open session
\* has been silent for longer than the time two heartbeats take, whichever way
\* ticks, timeouts and renewals overlap.
UnresponsiveClosed ==
  code = Open => silence <= SilenceBound

\* A session whose token expires is closed with 4003 or refreshed (FR-3.5).
ExpiredCloses ==
  (code = Open /\ life <= 0) ~> (code # Open \/ life > 0)

\* "Slot TTL must outlive a missed-heartbeat window so a live connection never
\* loses its slot to TTL expiry between renewals" (config.go): without a
\* competitor nobody is told that it was superseded.
NeverLosesSlot == code # "superseded"
=============================================================================
