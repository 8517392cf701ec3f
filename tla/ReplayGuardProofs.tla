-------------------------- MODULE ReplayGuardProofs --------------------------
(***************************************************************************)
(* Single delivery, proved for every set of ids, timestamps and keys and    *)
(* every window.                                                            *)
(***************************************************************************)
EXTENDS ReplayGuard, TLAPS

\* AtMostOnce is not inductive: that an accepted envelope is not accepted again
\* depends on the guard remembering it until it is stale.
GuardInv == TypeOK /\ Remembered /\ AtMostOnce

LEMMA InitGuardInv == Init => GuardInv
<1> SUFFICES ASSUME Init PROVE GuardInv
  OBVIOUS
<1>1. count \in [Envelope -> Nat] /\ \A e \in Envelope : count[e] = 0
  BY DEF Init
<1>2. primed \in BOOLEAN
  BY Zenon DEF Init
<1>3. lastTS \in Int
  BY DEF Init
<1>4. TypeOK
  BY <1>1, <1>2, <1>3 DEF Init, TypeOK
<1> QED BY <1>1, <1>4 DEF GuardInv, Remembered, AtMostOnce

\* Sealing changes neither the guard nor what was accepted.
LEMMA SealInv ==
  ASSUME GuardInv, NEW id \in Id, NEW ts \in TS, Seal(id, ts)
  PROVE  GuardInv'
BY DEF GuardInv, TypeOK, Remembered, AtMostOnce, Seal, guardVars, Envelope

\* Accepting raises the high-water mark or leaves it, and forgets only what is
\* stale afterwards.
LEMMA AcceptMark ==
  ASSUME GuardAssumption, TypeOK, NEW e \in Envelope, Accept(e)
  PROVE  /\ primed' /\ lastTS' \in Int
         /\ primed => lastTS' >= lastTS
         /\ seen' = {s \in seen \cup {[id |-> e.id, ts |-> e.ts]} : s.ts >= lastTS' - Window}
BY DEF GuardAssumption, TypeOK, Accept, Envelope

LEMMA OpenInv ==
  ASSUME GuardInv, NEW e \in sealed, Open(e)
  PROVE  GuardInv'
<1>0. TypeOK /\ Remembered /\ AtMostOnce /\ e \in Envelope
  BY DEF GuardInv, TypeOK
<1>1. CASE Accepts(e)
  <2>1. /\ Accept(e)
        /\ count' = [count EXCEPT ![e] = @ + 1]
        /\ UNCHANGED <<key, oldKeys, sealed>>
    BY <1>1 DEF Open
  <2>2. /\ primed' /\ lastTS' \in Int /\ Window \in Nat
        /\ primed => lastTS' >= lastTS
        /\ seen' = {s \in seen \cup {[id |-> e.id, ts |-> e.ts]} : s.ts >= lastTS' - Window}
    BY <1>0, <2>1, AcceptMark, GuardAssumption
  <2>3. count[e] = 0
    <3>1. ASSUME count[e] > 0 PROVE FALSE
      <4>1. primed /\ ([id |-> e.id, ts |-> e.ts] \in seen \/ e.ts < lastTS - Window)
        BY <1>0, <1>1, <3>1 DEF Accepts, Remembered
      <4>2. [id |-> e.id, ts |-> e.ts] \notin seen
        BY <1>1 DEF Accepts, Replayed
      <4> QED BY <1>1, <4>1, <4>2 DEF Accepts, Stale
    <3> QED BY <1>0, <3>1 DEF TypeOK
  <2>4. TypeOK'
    <3>1. [id |-> e.id, ts |-> e.ts] \in [id : Id, ts : TS]
      BY <1>0 DEF Envelope
    <3>2. seen' \subseteq [id : Id, ts : TS]
      BY <1>0, <2>2, <3>1 DEF TypeOK
    <3>3. primed' \in BOOLEAN
      BY <2>1 DEF Accept
    <3> QED BY <1>0, <2>1, <2>2, <3>2, <3>3 DEF TypeOK
  <2>5. AtMostOnce'
    BY <1>0, <2>1, <2>3 DEF AtMostOnce, TypeOK
  <2>6. Remembered'
    <3> SUFFICES ASSUME NEW f \in Envelope
                 PROVE  /\ f.key \notin oldKeys \cup {key} => count'[f] = 0
                        /\ count'[f] > 0 /\ f.key = key =>
                             \/ [id |-> f.id, ts |-> f.ts] \in seen'
                             \/ f.ts < lastTS' - Window
      BY <2>1, <2>2, Zenon DEF Remembered
    <3>1. f.ts \in Int
      BY GuardAssumption, Zenon DEF Envelope
    <3>2. CASE f = e
      BY <1>1, <2>2, <3>1, <3>2 DEF Accepts
    <3>3. CASE f # e
      <4>1. count'[f] = count[f]
        BY <1>0, <2>1, <3>3 DEF TypeOK
      <4>2. f.key \notin oldKeys \cup {key} => count'[f] = 0
        BY <1>0, <4>1, Zenon DEF Remembered
      <4>3. ASSUME count'[f] > 0, f.key = key
            PROVE  [id |-> f.id, ts |-> f.ts] \in seen' \/ f.ts < lastTS' - Window
        <5>1. primed /\ ([id |-> f.id, ts |-> f.ts] \in seen \/ f.ts < lastTS - Window)
          BY <1>0, <4>1, <4>3 DEF Remembered
        <5>2. lastTS \in Int
          BY <1>0 DEF TypeOK
        <5> QED BY <2>2, <3>1, <5>1, <5>2
      <4> QED BY <4>2, <4>3
    <3> QED BY <3>2, <3>3
  <2> QED BY <2>4, <2>5, <2>6 DEF GuardInv
<1>2. CASE ~Accepts(e)
  <2>1. UNCHANGED vars
    BY <1>2 DEF Open, vars
  <2> QED BY <1>0, <2>1 DEF vars, GuardInv, TypeOK, Remembered, AtMostOnce
<1> QED BY <1>1, <1>2

\* A new session starts with an empty guard, but under a key no accepted envelope
\* was sealed with.
LEMMA NewSessionInv ==
  ASSUME GuardInv, NEW k \in Key, NewSession(k)
  PROVE  GuardInv'
<1>1. TypeOK'
  <2>1. primed' \in BOOLEAN
    BY Zenon DEF NewSession
  <2>2. lastTS' \in Int
    BY DEF NewSession
  <2> QED BY <2>1, <2>2 DEF GuardInv, TypeOK, NewSession
<1>2. AtMostOnce'
  BY DEF GuardInv, AtMostOnce, NewSession
<1>3. Remembered'
  <2>1. \A e \in Envelope : e.key \notin oldKeys \cup {key} => count'[e] = 0
    BY Zenon DEF GuardInv, Remembered, NewSession
  <2>2. /\ key' \notin oldKeys \cup {key}
        /\ oldKeys \cup {key} \subseteq oldKeys' \cup {key'}
    BY DEF NewSession
  <2> QED BY <2>1, <2>2 DEF Remembered
<1> QED BY <1>1, <1>2, <1>3 DEF GuardInv

\* Every step preserves the inductive invariant, so it always holds.
THEOREM GuardInvariant == Spec => []GuardInv
<1>1. Init => GuardInv
  BY InitGuardInv
<1>2. GuardInv /\ [Next]_vars => GuardInv'
  <2> SUFFICES ASSUME GuardInv, [Next]_vars PROVE GuardInv'
    OBVIOUS
  <2>1. CASE UNCHANGED vars
    BY <2>1 DEF vars, GuardInv, TypeOK, Remembered, AtMostOnce
  <2> QED BY <2>1, SealInv, OpenInv, NewSessionInv DEF Next
<1> QED BY <1>1, <1>2, PTL DEF Spec

\* No envelope is ever accepted twice (Session.Open and replayGuard.check).
THEOREM SingleDelivery == Spec => []AtMostOnce
<1>1. GuardInv => AtMostOnce
  BY DEF GuardInv
<1> QED BY <1>1, GuardInvariant, PTL

----------------------------------------------------------------------------
(* The memory of the guard.                                                *)

\* What the guard remembers comes from envelopes of this session that it accepted,
\* and its mark is the latest of them: it refuses nothing on other grounds.  Ids are
\* not used twice, so that an id it remembers is the id of one envelope.
FromAccepted ==
  /\ \A e \in Envelope : count[e] > 0 => e \in sealed
  /\ \A e, f \in sealed : e.id = f.id => e = f
  /\ \A s \in seen : \E e \in sealed : e.id = s.id /\ e.key = key /\ count[e] > 0
  /\ primed => \E e \in sealed : e.ts = lastTS /\ e.key = key /\ count[e] > 0

MemoryInv == SeenInWindow /\ FromAccepted

LEMMA InitMemoryInv == Init => MemoryInv
BY DEF Init, MemoryInv, SeenInWindow, FromAccepted

LEMMA SealMemory ==
  ASSUME GuardInv, MemoryInv, NEW id \in Id, NEW ts \in TS, Seal(id, ts)
  PROVE  MemoryInv'
BY DEF GuardInv, TypeOK, MemoryInv, SeenInWindow, FromAccepted, Seal, guardVars, Envelope

LEMMA OpenMemory ==
  ASSUME GuardInv, MemoryInv, NEW e \in sealed, Open(e)
  PROVE  MemoryInv'
<1>0. TypeOK /\ SeenInWindow /\ FromAccepted /\ e \in Envelope
  BY DEF GuardInv, MemoryInv, TypeOK
<1>1. CASE Accepts(e)
  <2>1. /\ Accept(e)
        /\ count' = [count EXCEPT ![e] = @ + 1]
        /\ UNCHANGED <<key, oldKeys, sealed>>
    BY <1>1 DEF Open
  <2>2. /\ primed' /\ lastTS' \in Int
        /\ seen' = {s \in seen \cup {[id |-> e.id, ts |-> e.ts]} : s.ts >= lastTS' - Window}
    BY <1>0, <2>1, AcceptMark, GuardAssumption
  <2>3. SeenInWindow'
    BY <2>2 DEF SeenInWindow
  <2>4. /\ \A f \in Envelope : count[f] > 0 => count'[f] > 0
        /\ \A f \in Envelope : f # e => count'[f] = count[f]
        /\ count'[e] > 0
    BY <1>0, <2>1 DEF TypeOK
  <2>5. e.key = key
    BY <1>1 DEF Accepts
  <2>6. \A s \in seen' : \E f \in sealed : f.id = s.id /\ f.key = key /\ count'[f] > 0
    <3> SUFFICES ASSUME NEW s \in seen'
                 PROVE  \E f \in sealed : f.id = s.id /\ f.key = key /\ count'[f] > 0
      OBVIOUS
    <3>1. s \in seen \/ s.id = e.id
      BY <2>2
    <3>2. CASE s \in seen
      BY <1>0, <2>4, <3>2 DEF FromAccepted, TypeOK
    <3> QED BY <2>4, <2>5, <3>1, <3>2
  <2>7. \E f \in sealed : f.ts = lastTS' /\ f.key = key /\ count'[f] > 0
    <3>1. lastTS' = e.ts \/ (primed /\ lastTS' = lastTS)
      BY <2>1 DEF Accept
    <3> QED BY <1>0, <2>4, <2>5, <3>1 DEF FromAccepted, TypeOK
  <2>8. FromAccepted'
    BY <1>0, <2>1, <2>4, <2>6, <2>7 DEF FromAccepted
  <2> QED BY <2>3, <2>8 DEF MemoryInv
<1>2. CASE ~Accepts(e)
  BY <1>0, <1>2 DEF Open, MemoryInv, SeenInWindow, FromAccepted
<1> QED BY <1>1, <1>2

LEMMA NewSessionMemory ==
  ASSUME MemoryInv, NEW k \in Key, NewSession(k)
  PROVE  MemoryInv'
BY DEF MemoryInv, SeenInWindow, FromAccepted, NewSession

\* Every step keeps the guard's memory to what it accepted within the window.
THEOREM MemoryInvariant == Spec => []MemoryInv
<1>1. GuardInv /\ MemoryInv /\ [Next]_vars => MemoryInv'
  <2> SUFFICES ASSUME GuardInv, MemoryInv, [Next]_vars PROVE MemoryInv'
    OBVIOUS
  <2>1. CASE UNCHANGED vars
    BY <2>1 DEF vars, MemoryInv, SeenInWindow, FromAccepted
  <2> QED BY <2>1, SealMemory, OpenMemory, NewSessionMemory DEF Next
<1> QED BY <1>1, InitMemoryInv, GuardInvariant, PTL DEF Spec

\* The pruning loop of check keeps the memory within the window, for every window
\* and whatever the clocks do.
THEOREM MemoryBounded == Spec => []SeenInWindow
<1>1. MemoryInv => SeenInWindow
  BY DEF MemoryInv
<1> QED BY <1>1, MemoryInvariant, PTL

\* check raises no false alarm: a first delivery inside the window is accepted.
THEOREM NoFalseAlarm == Spec => []FirstDeliveryAccepted
<1>1. GuardInv /\ MemoryInv => FirstDeliveryAccepted
  <2> SUFFICES ASSUME GuardInv, MemoryInv, NEW e \in sealed,
                      count[e] = 0, e.key = key,
                      \A f \in sealed : count[f] > 0 /\ f.key = key => f.ts - Window <= e.ts
               PROVE  Accepts(e)
    BY DEF FirstDeliveryAccepted
  <2>1. TypeOK /\ FromAccepted
    BY DEF GuardInv, MemoryInv
  <2>2. ~Replayed(e.id)
    <3> SUFFICES ASSUME NEW s \in seen, s.id = e.id PROVE FALSE
      BY DEF Replayed
    <3>1. PICK f \in sealed : f.id = s.id /\ count[f] > 0
      BY <2>1 DEF FromAccepted
    <3>2. f = e
      BY <2>1, <3>1 DEF FromAccepted
    <3> QED BY <3>1, <3>2
  <2>3. ~Stale(e.ts)
    <3> SUFFICES ASSUME primed PROVE ~(e.ts < lastTS - Window)
      BY DEF Stale
    <3>1. PICK f \in sealed : f.ts = lastTS /\ f.key = key /\ count[f] > 0
      BY <2>1 DEF FromAccepted
    <3>2. e.ts \in Int /\ lastTS \in Int /\ Window \in Nat
      BY <2>1, GuardAssumption, Zenon DEF TypeOK, Envelope
    <3> QED BY <3>1, <3>2
  <2> QED BY <2>2, <2>3 DEF Accepts
<1> QED BY <1>1, GuardInvariant, MemoryInvariant, PTL
=============================================================================
