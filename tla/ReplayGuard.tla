----------------------------- MODULE ReplayGuard -----------------------------
(***************************************************************************)
(* The receive side of an end-to-end session: internal/e2ee (Session.Open   *)
(* and replayGuard) and its ports in the Java and Swift SDKs.  The peer     *)
(* seals envelopes with fresh ids and the time of its own clock, which may  *)
(* step in either direction; the path between the peers may delay, reorder, *)
(* repeat and lose them.  A re-key replaces the session, and with it the    *)
(* guard.                                                                   *)
(*                                                                          *)
(* The AEAD is perfect: an envelope opens only under the key it was sealed  *)
(* with, and only with the id and ts it was sealed with.  Everything else   *)
(* fails before the guard is consulted.                                     *)
(***************************************************************************)
EXTENDS Integers, FiniteSets

CONSTANTS
  Id,      \* envelope ids
  TS,      \* timestamps, in the unit of Window
  Key,     \* session keys, one per handshake
  Window   \* defaultReplayWindowMillis

ASSUME GuardAssumption == TS \subseteq Int /\ Window \in Nat /\ Key # {}

Envelope == [id : Id, ts : TS, key : Key]

VARIABLES
  key,       \* the key of the current session
  oldKeys,   \* the keys of earlier sessions
  primed,    \* replayGuard.primed
  lastTS,    \* replayGuard.lastTS: the high-water mark, meaningful once primed
  seen,      \* replayGuard.seen: its (id, ts) pairs
  sealed,    \* history: the envelopes the peer has sealed
  count      \* history: how often each envelope was accepted

guardVars == <<key, oldKeys, primed, lastTS, seen>>
vars == <<key, oldKeys, primed, lastTS, seen, sealed, count>>

\* Session.Seal of the peer: the id is fresh, the ts is whatever its clock says.
Seal(id, ts) ==
  /\ \A e \in sealed : e.id # id
  /\ sealed' = sealed \cup {[id |-> id, ts |-> ts, key |-> key]}
  /\ UNCHANGED <<guardVars, count>>

\* Mutation of Stale: the window is closed at its lower end.
StaleClosed(ts) == primed /\ ts <= lastTS - Window

\* The checks of replayGuard.check: too old, or seen before.
Stale(ts) == primed /\ ts < lastTS - Window
Replayed(id) == \E s \in seen : s.id = id
Accepts(e) == e.key = key /\ ~Stale(e.ts) /\ ~Replayed(e.id)

\* Mutation of Accept: the pruning drops the pairs at the window's edge too.
AcceptPrunesEdge(e) ==
  LET mark == IF ~primed \/ e.ts > lastTS THEN e.ts ELSE lastTS
  IN /\ primed' = TRUE
     /\ lastTS' = mark
     /\ seen' = {s \in seen \cup {[id |-> e.id, ts |-> e.ts]} : s.ts > mark - Window}

\* Mutation of Accept: nothing is pruned.
AcceptNoPrune(e) ==
  /\ primed' = TRUE
  /\ lastTS' = IF ~primed \/ e.ts > lastTS THEN e.ts ELSE lastTS
  /\ seen' = seen \cup {[id |-> e.id, ts |-> e.ts]}

\* The rest of replayGuard.check: record the pair, raise the high-water mark and
\* prune what has fallen out of the window.
Accept(e) ==
  LET mark == IF ~primed \/ e.ts > lastTS THEN e.ts ELSE lastTS
  IN /\ primed' = TRUE
     /\ lastTS' = mark
     /\ seen' = {s \in seen \cup {[id |-> e.id, ts |-> e.ts]} : s.ts >= mark - Window}

\* Session.Open of an envelope that arrives, for the first time or again.
Open(e) ==
  /\ e \in sealed
  /\ \/ /\ Accepts(e)
        /\ Accept(e)
        /\ count' = [count EXCEPT ![e] = @ + 1]
     \/ /\ ~Accepts(e)
        /\ UNCHANGED <<primed, lastTS, seen, count>>
  /\ UNCHANGED <<key, oldKeys, sealed>>

\* NewSession after a handshake with a fresh ephemeral key: a new key, a new guard.
NewSession(k) ==
  /\ k \notin oldKeys \cup {key}
  /\ key' = k
  /\ oldKeys' = oldKeys \cup {key}
  /\ primed' = FALSE /\ lastTS' = 0 /\ seen' = {}
  /\ UNCHANGED <<sealed, count>>

Init ==
  /\ key \in Key /\ oldKeys = {}
  /\ primed = FALSE /\ lastTS = 0 /\ seen = {}
  /\ sealed = {}
  /\ count = [e \in Envelope |-> 0]

Next ==
  \/ \E id \in Id, ts \in TS : Seal(id, ts)
  \/ \E e \in sealed : Open(e)
  \/ \E k \in Key : NewSession(k)

Spec == Init /\ [][Next]_vars

----------------------------------------------------------------------------
\* Type correctness of the guard and of its memory.
TypeOK ==
  /\ key \in Key /\ oldKeys \subseteq Key
  /\ primed \in BOOLEAN
  /\ lastTS \in Int
  /\ seen \subseteq [id : Id, ts : TS]
  /\ sealed \subseteq Envelope
  /\ count \in [Envelope -> Nat]

\* Single delivery (SG-02, FR-5.1): whatever the path repeats or reorders, however
\* the clocks step and the window moves, no envelope is accepted twice, not even
\* after its id has been pruned or the session has been replaced.
AtMostOnce == \A e \in Envelope : count[e] <= 1

\* The guard's memory is bounded by the window: no remembered id is older than the
\* window below the high-water mark (the pruning loop of check).
SeenInWindow == \A s \in seen : primed /\ s.ts >= lastTS - Window

\* No false alarm: an envelope of the current session that has not been delivered,
\* and is at most one window older than every envelope that has, is accepted
\* whenever it arrives (check returns nil).
FirstDeliveryAccepted ==
  \A e \in sealed :
    /\ count[e] = 0 /\ e.key = key
    /\ \A f \in sealed : count[f] > 0 /\ f.key = key => f.ts - Window <= e.ts
    => Accepts(e)

\* The inductive strengthening of AtMostOnce: an envelope that was accepted belongs
\* to an earlier session, or is remembered, or has become stale.
Remembered ==
  \A e \in Envelope :
    /\ e.key \notin oldKeys \cup {key} => count[e] = 0
    /\ count[e] > 0 /\ e.key = key =>
         /\ primed
         /\ [id |-> e.id, ts |-> e.ts] \in seen \/ e.ts < lastTS - Window
=============================================================================
