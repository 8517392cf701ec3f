---------------------------- MODULE TokensProofs ----------------------------
(***************************************************************************)
(* Theorems about pairing and connection tokens (AuthStore, Pairing,        *)
(* Tokens), from the steps of TokensSteps: the capacity of a license, the   *)
(* inductive invariant, and what follows from it.                           *)
(***************************************************************************)
EXTENDS TokensSteps, FiniteSetTheorems, TLAPS

----------------------------------------------------------------------------
(* The capacity of a license.                                              *)

\* The step leaves the license and the status of pairing p alone.
Same(p) ==
  /\ pairings'[p] # None <=> pairings[p] # None
  /\ pairings[p] # None => /\ pairings'[p].license = pairings[p].license
                          /\ pairings'[p].status = pairings[p].status

\* CommitPairing adds the pairing of the completion that holds the lock, a
\* revocation takes one away, a takeover changes neither.
LEMMA SlotCases ==
  ASSUME TypeOK, Locals, Next
  PROVE  \/ \A p \in Pair : Same(p)
         \/ \E q \in Pair :
              /\ pairings[q] # None /\ pairings'[q] # None
              /\ pairings'[q].license = pairings[q].license /\ pairings'[q].status = "revoked"
              /\ \A p \in Pair : p # q => pairings'[p] = pairings[p]
              /\ UNCHANGED granted
         \/ \E r \in Completion :
              /\ CommitPairing(r) /\ pc[r] = "commit" /\ pairings[r] = None
              /\ pairings'[r] # None
              /\ pairings'[r].license = TokenOf(r).license /\ pairings'[r].status = "active"
              /\ \A p \in Pair : p # r => pairings'[p] = pairings[p]
              /\ UNCHANGED granted
<1>1. PairingStep \/ TokenStep
  BY Zenon DEF Next
<1>2. ASSUME UNCHANGED pairings PROVE \A p \in Pair : Same(p)
  BY <1>2, ZenonT(30) DEF Same
<1>3. ASSUME NEW p \in Pair, pairings[p] # None, SetPairingStatus(p), UNCHANGED licenseVars
      PROVE  \E q \in Pair :
              /\ pairings[q] # None /\ pairings'[q] # None
              /\ pairings'[q].license = pairings[q].license /\ pairings'[q].status = "revoked"
              /\ \A s \in Pair : s # q => pairings'[s] = pairings[s]
              /\ UNCHANGED granted
  BY <1>3, RevokePairingStep, ZenonT(20) DEF licenseVars
<1>4. ASSUME NEW r \in Completion, Rebind(r) PROVE \A p \in Pair : Same(p)
  <2>1. PICK q \in Pair, m \in Mobile, d \in Desktop : pairings[q] # None /\ UpdatePairingDevices(q, m, d)
    <3>1. pc[r] = "rebind" /\ InFlight(r)
      BY <1>4, ZenonT(20) DEF Rebind, Move, InFlight, Ended
    <3>2. /\ job[r].pair \in Pair /\ pairings[job[r].pair] # None
          /\ job[r].device \in Mobile /\ TokenOf(r).desktop \in Desktop
      BY <3>1, CompletionAt, Zenon DEF CompletionLocals
    <3> QED BY <1>4, <3>2, ZenonT(20) DEF Rebind
  <2>2. /\ pairings'[q] = [license |-> pairings[q].license, mobile |-> m,
                           desktop |-> d, status |-> pairings[q].status]
        /\ pairings'[q] # None
        /\ \A p \in Pair : p # q => pairings'[p] = pairings[p]
    BY <2>1, UpdatePairingStep, Zenon
  <2>3. pairings'[q].license = pairings[q].license /\ pairings'[q].status = pairings[q].status
    <3>1. IsRow(pairings'[q], pairings[q].license, m, d, pairings[q].status)
      BY <2>2, Zenon DEF IsRow
    <3> QED BY ONLY <3>1, RowOf, ZenonT(60)
  <2> QED BY <2>1, <2>2, <2>3, Zenon DEF Same
<1>5. ASSUME NEW r \in Completion, CommitPairing(r)
      PROVE  /\ CommitPairing(r) /\ pc[r] = "commit" /\ pairings[r] = None
             /\ pairings'[r] # None
             /\ pairings'[r].license = TokenOf(r).license /\ pairings'[r].status = "active"
             /\ \A p \in Pair : p # r => pairings'[p] = pairings[p]
             /\ UNCHANGED granted
  <2>1. pc[r] = "commit" /\ InFlight(r) /\ UNCHANGED granted
    BY <1>5 DEF CommitPairing, Move, InFlight, Ended, licenseVars
  <2>2. None \notin Mobile
    BY PairingAssumption DEF Mobile
  <2>3. job[r].pair = r /\ pairings[r] = None /\ r \in Pair
    BY <2>1, <2>2, CompletionAt, ZenonT(30) DEF CompletionLocals
  <2>4. PICK l \in License, m \in Mobile, d \in Desktop :
          l = TokenOf(r).license /\ InsertPairing(r, l, m, d)
    <3>1. /\ job[r].device \in Mobile
          /\ TokenOf(r).license \in License /\ TokenOf(r).desktop \in Desktop
      BY <2>1, CompletionAt, Zenon DEF CompletionLocals
    <3> QED BY <1>5, <2>3, <3>1, ZenonT(30) DEF CommitPairing
  <2>5. /\ pairings'[r] = [license |-> l, mobile |-> m, desktop |-> d, status |-> "active"]
        /\ pairings'[r] # None
        /\ \A q \in Pair : q # r => pairings'[q] = pairings[q]
    BY <2>3, <2>4, InsertPairingStep, Zenon
  <2>6. pairings'[r].license = l /\ pairings'[r].status = "active"
    <3>1. IsRow(pairings'[r], l, m, d, "active")
      BY <2>5, Zenon DEF IsRow
    <3> QED BY ONLY <3>1, RowOf, ZenonT(60)
  <2> QED BY <1>5, <2>1, <2>3, <2>4, <2>5, <2>6, Zenon
<1>6. ASSUME NEW r, Acts(r), r \in Unpair, NEW p \in Pair, BeginUnpair(r, p)
      PROVE  pairings[p] # None /\ SetPairingStatus(p) /\ UNCHANGED licenseVars
  BY <1>6, Zenon DEF BeginUnpair
<1>7. ASSUME NEW p \in Pair, EnforcePairing(p)
      PROVE  pairings[p] # None /\ SetPairingStatus(p) /\ UNCHANGED licenseVars
  BY <1>7, Zenon DEF EnforcePairing, PairingActive, pairingVars
<1> QED BY <1>1, <1>2, <1>3, <1>4, <1>5, <1>6, <1>7, EveryStep, ActsWrites, EnvironmentWrites, ZenonT(60)

\* A request that is about to commit has just counted, or keeps waiting.
LEMMA IntoCommit ==
  ASSUME TypeOK, NEW r \in Completion, Acts(r), pc'[r] = "commit"
  PROVE  /\ UNCHANGED <<pairings, pairingTokens, job>>
         /\ ActivePairCount(TokenOf(r).license) < job[r].max
<1>1. \A a, b : Move(r, a, b) => pc'[r] = b
  BY ZenonT(20) DEF TypeOK, Request, Move
<1>2. \A a, b : End(r, a, b) => pc'[r] = b
  BY <1>1, Zenon DEF End
<1>3. CountPairs(r)
  BY <1>1, <1>2, ZenonT(60)
     DEF Acts, CompletionStep, BeginCompletion, BeginRegistration, FindDevice, RegisterDevice,
     HaveDevice, FindExisting, CheckCapacity, ConsumeToken, PersistKey, Rebind, Evict, LockLicense,
     CommitPairing, PutCredential, BeginUnpair, RevokeCredential, Abort, BeginIssue, BeginRefresh,
     RevokeChain, CheckMember, CheckLicense, Rotate, Mint, Reject
<1> QED BY <1>2, <1>3, Zenon DEF CountPairs, storeVars

\* Whoever is at a commit got there just now or has not moved.
LEMMA AtCommit ==
  ASSUME TypeOK, Locals, GrantInv, Next, NEW r \in Completion, pc'[r] = "commit"
  PROVE  \/ /\ UNCHANGED <<pairings, pairingTokens, job>>
            /\ ActivePairCount(TokenOf(r).license) < job[r].max
         \/ pc[r] = "commit" /\ job'[r] = job[r]
<1>1. PairingStep \/ TokenStep
  BY Zenon DEF Next
<1>2. CASE EnvironmentStep
  BY <1>2, EnvironmentWrites, ZenonT(20)
<1>3. ASSUME NEW s \in Request, Acts(s), s # r
      PROVE  pc[r] = "commit" /\ job'[r] = job[r]
  <2>1. Frame({s}) /\ r \in Request
    BY <1>3, ActsStep, ZenonT(30) DEF StepOK, Request
  <2> QED BY <1>3, <2>1, ZenonT(20) DEF Frame
<1> QED BY <1>1, <1>2, <1>3, EveryStep, IntoCommit, Zenon

\* Two transactions never hold the row of one license.
LEMMA OneTransaction ==
  ASSUME TypeOK, Locals, NEW r \in Completion, NEW s \in Completion,
         pc[r] \in {"count", "commit"}, pc[s] \in {"count", "commit"},
         TokenOf(r).license = TokenOf(s).license
  PROVE  r = s
<1>1. TokenOf(r).license \in License
  BY CompletionAt DEF InFlight, Ended
<1>2. LockHeld(r) /\ LockHeld(s)
  BY CompletionAt, Zenon
<1>3. lock[TokenOf(r).license] = r
  BY <1>1, <1>2, Zenon DEF LockHeld
<1>4. lock[TokenOf(r).license] = s
  BY <1>1, <1>2, Zenon DEF LockHeld
<1> QED BY <1>3, <1>4, Zenon

\* The counts the lemmas below compare are those of finite sets.
LEMMA ActiveFinite ==
  ASSUME CapacityInv, NEW l
  PROVE  /\ IsFiniteSet(ListActivePairingsByLicense(l))
         /\ ActivePairCount(l) \in Nat
<1> DEFINE S == {p \in Pair : pairings[p] # None}
<1>1. IsFiniteSet(S) /\ ListActivePairingsByLicense(l) \in SUBSET S
  BY DEF CapacityInv, ListActivePairingsByLicense, PairingActive
<1>2. IsFiniteSet(ListActivePairingsByLicense(l))
  BY <1>1, FS_Subset
<1> QED BY <1>2, FS_CardinalityType, ZenonT(20) DEF ActivePairCount

\* The count of a license only grows when a transaction on it commits, by one.
LEMMA CountStep ==
  ASSUME TypeOK, Locals, CapacityInv, Next, NEW l
  PROVE  \/ ActivePairCount(l)' \in Nat /\ ActivePairCount(l)' <= ActivePairCount(l)
         \/ \E r \in Completion :
              /\ pc[r] = "commit" /\ CommitPairing(r) /\ TokenOf(r).license = l
              /\ ActivePairCount(l)' = ActivePairCount(l) + 1
<1> DEFINE L == ListActivePairingsByLicense(l)
<1>1. /\ IsFiniteSet(L) /\ L \subseteq Pair /\ ActivePairCount(l) = Cardinality(L)
      /\ ActivePairCount(l)' = Cardinality(L')
  BY ActiveFinite, Zenon DEF ActivePairCount, ListActivePairingsByLicense
<1>2. ASSUME L' \subseteq L PROVE ActivePairCount(l)' \in Nat /\ ActivePairCount(l)' <= ActivePairCount(l)
  <2> HIDE DEF L
  <2>1. IsFiniteSet(L') /\ Cardinality(L') <= Cardinality(L)
    BY <1>1, <1>2, FS_Subset, ZenonT(20)
  <2> QED BY <1>1, <2>1, FS_CardinalityType, ZenonT(20)
<1>3. CASE \A p \in Pair : Same(p)
  <2>1. L' \subseteq L
    BY <1>3, ZenonT(20) DEF Same, ListActivePairingsByLicense, PairingActive
  <2> QED BY <1>2, <2>1, ZenonT(20)
<1>4. CASE \E q \in Pair :
              /\ pairings[q] # None /\ pairings'[q] # None
              /\ pairings'[q].license = pairings[q].license /\ pairings'[q].status = "revoked"
              /\ \A p \in Pair : p # q => pairings'[p] = pairings[p]
  <2>1. L' \subseteq L
    BY <1>4, ZenonT(20) DEF ListActivePairingsByLicense, PairingActive
  <2> QED BY <1>2, <2>1, ZenonT(20)
<1>5. ASSUME NEW r \in Completion, CommitPairing(r), pc[r] = "commit", pairings[r] = None,
             pairings'[r] # None,
             pairings'[r].license = TokenOf(r).license, pairings'[r].status = "active",
             \A p \in Pair : p # r => pairings'[p] = pairings[p]
      PROVE  \/ L' \subseteq L
             \/ TokenOf(r).license = l /\ L' = L \cup {r} /\ r \notin L
  BY <1>5, ZenonT(20) DEF ListActivePairingsByLicense, PairingActive, Pair
<1>6. ASSUME NEW r, r \notin L, L' = L \cup {r}
      PROVE  ActivePairCount(l)' = ActivePairCount(l) + 1
  <2> HIDE DEF L
  <2> QED BY <1>1, <1>6, FS_AddElement, ZenonT(20)
<1> HIDE DEF L
<1> QED BY <1>2, <1>3, <1>4, <1>5, <1>6, SlotCases, Zenon

LEMMA NextCapacity ==
  ASSUME TypeOK, Locals, GrantInv, CapacityInv, Next
  PROVE  CapacityInv'
<1> DEFINE S == {p \in Pair : pairings[p] # None}
<1>1. IsFiniteSet(S')
  <2>1. IsFiniteSet(S)
    BY ZenonT(20) DEF CapacityInv
  <2>2. \/ S' = S
        \/ \E r \in Completion : S' = S \cup {r}
    BY SlotCases, ZenonT(30) DEF Same, Pair
  <2> HIDE DEF S
  <2> QED BY <2>1, <2>2, FS_AddElement, ZenonT(20)
<1>2. ASSUME NEW r \in Completion, pc'[r] = "commit"
      PROVE  ActivePairCount(TokenOf(r).license)' < job'[r].max
  <2>1. CASE /\ UNCHANGED <<pairings, pairingTokens, job>>
             /\ ActivePairCount(TokenOf(r).license) < job[r].max
    BY <2>1, ZenonT(30) DEF ActivePairCount, ListActivePairingsByLicense, PairingActive, TokenOf
  <2>2. CASE pc[r] = "commit" /\ job'[r] = job[r]
    <3>0. PICK l \in License : l = TokenOf(r).license
      BY <2>2, CompletionAt, ZenonT(20) DEF InFlight, Ended
    <3>1. TokenOf(r)'.license = l
      <4>1. job[r].tok \in PairingToken /\ pairingTokens[job[r].tok] # None
        BY <2>2, CompletionAt, ZenonT(30) DEF InFlight, Ended, TokenOf
      <4> QED BY <2>2, <3>0, <4>1, NextBase, ZenonT(20) DEF RowsKept, TokenOf
    <3>2. ActivePairCount(l) < job[r].max /\ job[r].max \in Nat /\ ActivePairCount(l) \in Nat
      <4>1. job[r].max \in Nat
        <5>1. job[r] \in Job
          BY CompletionAt, ZenonT(30)
        <5>2. job[r].max \in Quota \cup {0}
          BY <5>1, ZenonT(20) DEF Job
        <5>3. Quota \subseteq Nat
          BY PairingAssumption, Zenon
        <5>4. 0 \in Nat
          BY ZenonT(20)
        <5> QED BY <5>2, <5>3, <5>4, Zenon
      <4>2. ActivePairCount(l) \in Nat
        BY ActiveFinite, ZenonT(20)
      <4> QED BY <2>2, <3>0, <4>1, <4>2, ZenonT(20) DEF CapacityInv
    <3>3. ActivePairCount(l)' = ActivePairCount(TokenOf(r).license)'
      BY <3>0, <3>1, ZenonT(30) DEF ActivePairCount, ListActivePairingsByLicense
    <3>4. ~ \E s \in Completion : pc[s] = "commit" /\ CommitPairing(s) /\ TokenOf(s).license = l
      <4> SUFFICES ASSUME NEW s \in Completion, pc[s] = "commit", CommitPairing(s),
                          TokenOf(s).license = l
                   PROVE  FALSE
        BY ZenonT(20)
      <4>1. s = r
        BY <2>2, <3>0, OneTransaction, ZenonT(20)
      <4>2. pc'[r] = "credential"
        BY <4>1, ZenonT(20) DEF CommitPairing, Move, TypeOK, Request
      <4> QED BY <1>2, <4>2, ZenonT(20)
    <3>5. ActivePairCount(l)' \in Nat /\ ActivePairCount(l)' <= ActivePairCount(l)
      BY <3>4, CountStep, ZenonT(30)
    <3>6. \A a, b, m \in Nat : b < m /\ a <= b => a < m
      OBVIOUS
    <3>7. ActivePairCount(l)' < job[r].max
      BY <3>2, <3>5, <3>6, Zenon
    <3> QED BY <2>2, <3>3, <3>7, Zenon
  <2> QED BY <1>2, <2>1, <2>2, AtCommit, Zenon
<1> QED BY <1>1, <1>2, ZenonT(20) DEF CapacityInv

----------------------------------------------------------------------------
(* The Postgres transaction implements the atomic create.                  *)

\* The fields of a row of the contract's table, and its revocation.
IsSlot(x, l, st) == x = [license |-> l, status |-> st]

LEMMA SlotOf ==
  ASSUME NEW x, NEW l, NEW st, IsSlot(x, l, st)
  PROVE  x.license = l /\ x.status = st
BY Zenon DEF IsSlot

LEMMA SlotRevoked ==
  ASSUME NEW x, NEW l, NEW st, IsSlot(x, l, st)
  PROVE  [x EXCEPT !.status = "revoked"] = [license |-> l, status |-> "revoked"]
BY DEF IsSlot

LEMMA SlotsRow ==
  ASSUME TypeOK, NEW p \in Pair
  PROVE  \/ pairings[p] = None /\ slotsOf[p] = None
         \/ /\ pairings[p] # None
            /\ slotsOf[p] = [license |-> pairings[p].license, status |-> pairings[p].status]
            /\ slotsOf[p] # None
<1>1. slotsOf[p] = IF pairings[p] = None THEN None
                   ELSE [license |-> pairings[p].license, status |-> pairings[p].status]
  BY ZenonT(20) DEF slotsOf
<1>2. ASSUME pairings[p] # None PROVE slotsOf[p] # None
  <2>1. PICK l \in License, st \in {"active", "revoked"} :
          l = pairings[p].license /\ st = pairings[p].status
    <3>1. pairings[p] \in PairingRow
      BY <1>2, Zenon DEF TypeOK, StoreTypeOK
    <3>2. pairings[p].license \in License /\ pairings[p].status \in {"active", "revoked"}
      BY <3>1 DEF PairingRow
    <3> QED BY <3>2, Zenon
  <2>2. [license |-> l, status |-> st] \in [license : License, status : {"active", "revoked"}]
    OBVIOUS
  <2> QED BY <1>1, <1>2, <2>1, <2>2, SlotsAssumption, Zenon DEF Slots!Row
<1> QED BY <1>1, <1>2, ZenonT(20)

LEMMA SlotsCount ==
  ASSUME TypeOK, NEW l
  PROVE  Slots!ActivePairCount(l) = ActivePairCount(l)
<1>1. \A p \in Pair : Slots!Holds(p, l) <=> PairingActive(p) /\ pairings[p].license = l
  <2> SUFFICES ASSUME NEW p \in Pair
               PROVE  Slots!Holds(p, l) <=> PairingActive(p) /\ pairings[p].license = l
    OBVIOUS
  <2>1. \/ pairings[p] = None /\ slotsOf[p] = None
        \/ /\ pairings[p] # None
           /\ slotsOf[p] = [license |-> pairings[p].license, status |-> pairings[p].status]
           /\ slotsOf[p] # None
    BY SlotsRow, Zenon
  <2>2. slotsOf[p] # None => /\ slotsOf[p].license = pairings[p].license
                             /\ slotsOf[p].status = pairings[p].status
    <3>1. slotsOf[p] # None => IsSlot(slotsOf[p], pairings[p].license, pairings[p].status)
      BY <2>1, Zenon DEF IsSlot
    <3> QED BY <3>1, SlotOf, Zenon
  <2> QED BY <2>1, <2>2, Zenon DEF Slots!Holds, PairingActive
<1>2. {p \in Pair : Slots!Holds(p, l)} = ListActivePairingsByLicense(l)
  BY <1>1, Zenon DEF ListActivePairingsByLicense
<1>3. \A S : Slots!Cardinality(S) = Cardinality(S)
  BY Zenon DEF Slots!Cardinality, Cardinality
<1> QED BY <1>2, <1>3, Zenon DEF Slots!ActivePairCount, ActivePairCount

\* What the license has been granted only grows.
LEMMA GrantedStep ==
  ASSUME Next
  PROVE  \/ UNCHANGED granted
         \/ \E l \in License, n \in Quota : granted' = [granted EXCEPT ![l] = @ \cup {n}]
<1>1. PairingStep \/ TokenStep
  BY Zenon DEF Next
<1>2. \/ UNCHANGED licenseVars
      \/ \E l \in License, n \in Quota, ok \in BOOLEAN : ChangeSubscription(l, n, ok)
  BY <1>1, EveryStep, ActsWrites, EnvironmentWrites, Zenon
<1> QED BY <1>2, Zenon DEF ChangeSubscription, licenseVars

\* Every step creates a pairing within capacity, revokes one, grants a quota, or
\* changes nothing the contract sees.
LEMMA SlotsStep ==
  ASSUME TypeOK, Locals, GrantInv, CapacityInv, Next
  PROVE  Slots!Next \/ UNCHANGED Slots!slotVars
<1>0. TypeOK'
  BY NextBase, ZenonT(20)
<1>1. CASE \A p \in Pair : Same(p)
  <2>1. ASSUME NEW p \in Pair PROVE slotsOf'[p] = slotsOf[p]
    <3>1. /\ slotsOf'[p] = IF pairings'[p] = None THEN None
                           ELSE [license |-> pairings'[p].license, status |-> pairings'[p].status]
          /\ slotsOf[p] = IF pairings[p] = None THEN None
                          ELSE [license |-> pairings[p].license, status |-> pairings[p].status]
      BY ZenonT(20) DEF slotsOf
    <3> QED BY <1>1, <3>1, ZenonT(20) DEF Same
  <2>2. slotsOf' = slotsOf
    BY <2>1, ZenonT(20) DEF slotsOf
  <2>3. ASSUME NEW l \in License, NEW n \in Quota, granted' = [granted EXCEPT ![l] = @ \cup {n}]
        PROVE  Slots!Next
    BY <2>2, <2>3, Zenon DEF Slots!Next, Slots!Grant
  <2> QED BY <2>2, <2>3, GrantedStep, Zenon DEF Slots!slotVars
<1>2. ASSUME NEW q \in Pair, pairings[q] # None, pairings'[q] # None,
             pairings'[q].license = pairings[q].license, pairings'[q].status = "revoked",
             \A p \in Pair : p # q => pairings'[p] = pairings[p], UNCHANGED granted
      PROVE  Slots!Next
  <2>1. /\ slotsOf[q] # None
        /\ slotsOf[q] = [license |-> pairings[q].license, status |-> pairings[q].status]
    BY <1>2, SlotsRow, ZenonT(20)
  <2>2. slotsOf' = [slotsOf EXCEPT ![q].status = "revoked"]
    <3>1. slotsOf'[q] = [license |-> pairings[q].license, status |-> "revoked"]
      BY <1>2, Zenon DEF slotsOf
    <3>2. [slotsOf[q] EXCEPT !.status = "revoked"] =
            [license |-> pairings[q].license, status |-> "revoked"]
      <4>1. IsSlot(slotsOf[q], pairings[q].license, pairings[q].status)
        BY <2>1, Zenon DEF IsSlot
      <4> QED BY ONLY <4>1, SlotRevoked
    <3>3. \A p \in Pair : p # q => slotsOf'[p] = slotsOf[p]
      BY <1>2, ZenonT(20) DEF slotsOf
    <3>4. slotsOf' = [slotsOf EXCEPT ![q] = [slotsOf[q] EXCEPT !.status = "revoked"]]
      BY <3>1, <3>2, <3>3, Zenon DEF slotsOf
    <3> QED BY <3>4, Zenon
  <2> QED BY <1>2, <2>1, <2>2, Zenon DEF Slots!Next, Slots!SetPairingStatus
<1>3. ASSUME NEW r \in Completion, CommitPairing(r), pc[r] = "commit", pairings[r] = None,
             pairings'[r] # None,
             pairings'[r].license = TokenOf(r).license, pairings'[r].status = "active",
             \A p \in Pair : p # r => pairings'[p] = pairings[p], UNCHANGED granted
      PROVE  Slots!Next
  <2>1. PICK l \in License : l = TokenOf(r).license
    BY <1>3, CompletionAt, ZenonT(20) DEF InFlight, Ended
  <2>2. r \in Pair /\ slotsOf[r] = None
    BY <1>3, SlotsRow, ZenonT(30) DEF Pair
  <2>3. \E max \in granted[l] : Slots!ActivePairCount(l) < max
    <3>1. job[r].max \in granted[l]
      <4>1. None \notin Mobile
        BY PairingAssumption, ZenonT(20) DEF Mobile
      <4> QED BY <1>3, <2>1, <4>1, CompletionAt, Zenon DEF CompletionLocals
    <3>2. ActivePairCount(l) < job[r].max
      BY <1>3, <2>1, ZenonT(20) DEF CapacityInv
    <3>3. Slots!ActivePairCount(l) = ActivePairCount(l)
      BY SlotsCount, ZenonT(20)
    <3> QED BY <3>1, <3>2, <3>3, ZenonT(20)
  <2>4. slotsOf' = [slotsOf EXCEPT ![r] = [license |-> l, status |-> "active"]]
    BY <1>3, <2>1, <2>2, Zenon DEF slotsOf
  <2> QED BY <1>3, <2>1, <2>2, <2>3, <2>4, Zenon DEF Slots!Next, Slots!CreatePairingWithinCapacity
<1> QED BY <1>1, <1>2, <1>3, SlotCases, Zenon

LEMMA NextCapacityHeld ==
  ASSUME TypeOK, Locals, GrantInv, CapacityInv, CapacityHeld, Next
  PROVE  CapacityHeld'
<1> SUFFICES ASSUME NEW l \in License
             PROVE  \E max \in granted'[l] : ActivePairCount(l)' <= max
  BY ZenonT(20) DEF CapacityHeld
<1>1. granted[l] \subseteq granted'[l]
  BY NextBase, ZenonT(20) DEF RowsKept
<1>2. \A max \in granted[l] : max \in Nat
  <2>1. granted[l] \subseteq Quota
    BY ZenonT(20) DEF TypeOK
  <2>2. Quota \subseteq Nat
    BY PairingAssumption, Zenon
  <2> QED BY <2>1, <2>2, Zenon
<1>3. ActivePairCount(l) \in Nat
  BY ActiveFinite, ZenonT(20)
<1>4. CASE ActivePairCount(l)' \in Nat /\ ActivePairCount(l)' <= ActivePairCount(l)
  <2>1. PICK max \in granted[l] : ActivePairCount(l) <= max
    BY ZenonT(30) DEF CapacityHeld
  <2>2. \A a, b, m \in Nat : b <= m /\ a <= b => a <= m
    OBVIOUS
  <2>3. ActivePairCount(l)' <= max
    BY <1>2, <1>3, <1>4, <2>1, <2>2, Zenon
  <2> QED BY <1>1, <2>3, Zenon
<1>5. ASSUME NEW r \in Completion, pc[r] = "commit", TokenOf(r).license = l,
             ActivePairCount(l)' = ActivePairCount(l) + 1
      PROVE  \E max \in granted'[l] : ActivePairCount(l)' <= max
  <2>1. job[r].max \in granted[l]
    <3>1. None \notin Mobile
      BY PairingAssumption, ZenonT(20) DEF Mobile
    <3> QED BY <1>5, <3>1, CompletionAt, Zenon DEF CompletionLocals
  <2>2. PICK max \in granted[l] : max = job[r].max
    BY <2>1, ZenonT(30)
  <2>3. ActivePairCount(l) < max
    BY <1>5, <2>2, ZenonT(20) DEF CapacityInv
  <2>4. \A a, m \in Nat : a < m => a + 1 <= m
    OBVIOUS
  <2>5. ActivePairCount(l)' <= max
    BY <1>2, <1>3, <1>5, <2>3, <2>4, Zenon
  <2> QED BY <1>1, <2>5, Zenon
<1> QED BY <1>4, <1>5, CountStep, Zenon

LEMMA ChainFromInv ==
  ASSUME ChainInv
  PROVE  ChainLinear
<1> SUFFICES ASSUME NEW c \in TokenRequest PROVE Cardinality(Live(c)) <= 1
  BY ZenonT(20) DEF ChainLinear
<1>1. \A x, y \in Live(c) : x = y
  BY ZenonT(20) DEF ChainInv, Live
<1>2. Live(c) = {} \/ \E x : Live(c) = {x}
  BY <1>1, ZenonT(20)
<1>3. Cardinality(Live(c)) = 0 \/ Cardinality(Live(c)) = 1
  BY <1>2, FS_EmptySet, FS_Singleton, Zenon
<1>4. 0 <= 1 /\ 1 <= 1
  OBVIOUS
<1> QED BY <1>3, <1>4, Zenon

----------------------------------------------------------------------------
(* The theorems.                                                           *)

\* Everything the theorems need, as one inductive invariant.
Inv ==
  /\ TypeOK /\ Locals /\ GrantInv /\ CapacityInv /\ CapacityHeld
  /\ PollInv /\ MemberInv /\ ChainInv

LEMMA InitInv == TokensInit => Inv
<1> SUFFICES ASSUME TokensInit PROVE Inv
  BY ZenonT(20)
<1> USE DEF TokensInit, PairingInit, StoreInit
<1>1. \A r \in Request : pc[r] = "idle" /\ job[r] = Blank
  BY ZenonT(20)
<1>2. TypeOK
  <2>1. Blank \in Job /\ "idle" \in PCs
    BY ZenonT(20) DEF Blank, Job, PCs
  <2>2. StoreTypeOK
    BY ZenonT(20) DEF StoreTypeOK
  <2>0. 0 \in 0..MaxChanges
    <3>1. MaxChanges \in Nat
      BY PairingAssumption, Zenon
    <3> QED BY <3>1
  <2>3. /\ pc \in [Request -> PCs] /\ job \in [Request -> Job]
        /\ lock \in [License -> Completion \cup {None}]
        /\ maxPairs \in [License -> Quota]
        /\ changes \in 0..MaxChanges
        /\ granted \in [License -> SUBSET Quota]
        /\ chain \in [TokenRequest -> TokenRequest \cup {None}]
    <3>1. pc \in [Request -> PCs] /\ job \in [Request -> Job]
      BY <2>1, Zenon
    <3>2. changes \in 0..MaxChanges
      BY <2>0, Zenon
    <3>3. maxPairs \in [License -> Quota] /\ granted \in [License -> SUBSET Quota]
      BY Zenon
    <3>4. /\ lock \in [License -> Completion \cup {None}]
          /\ chain \in [TokenRequest -> TokenRequest \cup {None}]
      BY Zenon
    <3> QED BY <3>1, <3>2, <3>3, <3>4, Zenon
  <2>4. /\ issuable \in [License -> BOOLEAN]
        /\ wasMember \in [TokenRequest -> BOOLEAN] /\ wasIssuable \in [TokenRequest -> BOOLEAN]
    BY Zenon
  <2> QED BY <2>2, <2>3, <2>4, ZenonT(20) DEF TypeOK
<1>3. Locals
  <2> SUFFICES ASSUME NEW r \in Request PROVE Own(r)
    BY ZenonT(20) DEF Locals
  <2>1. pc[r] = "idle" /\ job[r] = Blank /\ ~InFlight(r)
    BY <1>1, ZenonT(20) DEF InFlight, Ended
  <2>2. r \in Completion => CompletionLocals(r) /\ LockHeld(r)
    BY <2>1, PairingAssumption, ZenonT(20) DEF CompletionLocals, LockHeld, Ended, Pair
  <2> QED BY <2>1, <2>2, ZenonT(20)
      DEF Own, RegistrationLocals, TokenLocals, UnpairLocals, Unregistered, Ended
<1>4. GrantInv
  BY ZenonT(20) DEF GrantInv
<1>5. {p \in Pair : pairings[p] # None} = {}
  BY ZenonT(20)
<1>6. CapacityInv
  BY <1>1, <1>5, FS_EmptySet DEF CapacityInv, Request
<1>7. CapacityHeld
  <2> SUFFICES ASSUME NEW l \in License PROVE \E max \in granted[l] : ActivePairCount(l) <= max
    BY ZenonT(20) DEF CapacityHeld
  <2>1. ListActivePairingsByLicense(l) = {}
    BY ZenonT(20) DEF ListActivePairingsByLicense, PairingActive
  <2>2. maxPairs[l] \in granted[l]
    BY ZenonT(20)
  <2>3. maxPairs[l] \in Nat
    BY PairingAssumption
  <2>4. ActivePairCount(l) = 0
    BY <2>1, FS_EmptySet, Zenon DEF ActivePairCount
  <2>5. \A m \in Nat : 0 <= m
    OBVIOUS
  <2>6. ActivePairCount(l) <= maxPairs[l]
    BY <2>3, <2>4, <2>5, Zenon
  <2> QED BY <2>2, <2>6, Zenon
<1>8. PollInv
  BY DEF PollInv
<1>9. MemberInv
  BY <1>1 DEF MemberInv, Request
<1>10. ChainInv
  <2>1. \A c : Live(c) = {}
    BY <1>1, ZenonT(20) DEF Live, RefreshTokenActive, Request
  <2> QED BY <2>1, ZenonT(20) DEF ChainInv
<1> QED BY <1>2, <1>3, <1>4, <1>6, <1>7, <1>8, <1>9, <1>10, ZenonT(20) DEF Inv

\* The invariant sees only the variables.
LEMMA StutterInv ==
  ASSUME Inv, UNCHANGED tvars
  PROVE  Inv'
<1>1. UNCHANGED <<devices, pairings, credentials, pairingTokens, refreshTokens, pc, job, lock,
                  maxPairs, issuable, changes, granted, wasMember, wasIssuable, chain>>
  BY ZenonT(20) DEF tvars, vars, storeVars, pairingVars, licenseVars, tokenVars
<1>2. TypeOK' /\ GrantInv' /\ CapacityHeld' /\ MemberInv'
  BY <1>1, Zenon DEF Inv, TypeOK, StoreTypeOK, GrantInv, CapacityHeld, MemberInv,
     ActivePairCount, ListActivePairingsByLicense, PairingActive
<1>3. Locals'
  <2>1. RowsKept
    BY <1>1, Zenon DEF RowsKept
  <2>2. Frame({})
    BY <1>1, Zenon DEF Frame
  <2>3. \A q \in {} : q \in Request => Own(q)'
    BY ZenonT(20)
  <2> QED BY <2>1, <2>2, <2>3, OthersKeep, ZenonT(20) DEF Inv
<1>4. CapacityInv' /\ PollInv'
  BY <1>1, Zenon DEF Inv, CapacityInv, PollInv, TokenOf,
     ActivePairCount, ListActivePairingsByLicense, PairingActive
<1>5. ChainInv'
  <2>1. \A c : Live(c)' = Live(c)
    BY <1>1, Zenon DEF Live, RefreshTokenActive, IsRefresh
  <2> QED BY <1>1, <2>1, Zenon DEF Inv, ChainInv
<1> QED BY <1>2, <1>3, <1>4, <1>5, ZenonT(20) DEF Inv

LEMMA NextInv ==
  ASSUME Inv, Next
  PROVE  Inv'
<1>1. TypeOK /\ Locals /\ GrantInv /\ CapacityInv /\ CapacityHeld /\ PollInv /\ MemberInv /\ ChainInv
  BY DEF Inv
<1>2. TypeOK' /\ Locals' /\ GrantInv'
  BY <1>1, NextBase, NextGrant, Zenon
<1>3. CapacityInv' /\ CapacityHeld'
  BY <1>1, NextCapacity, NextCapacityHeld, Zenon
<1>4. PollInv' /\ MemberInv'
  BY <1>1, NextPoll, NextMember, Zenon
<1>5. ChainInv'
  BY <1>1, NextChainQuiet, NextChainMint, Zenon
<1> QED BY <1>2, <1>3, <1>4, <1>5, ZenonT(20) DEF Inv

\* The conjunction above is an inductive invariant of pairing and token requests,
\* however their store calls interleave.
THEOREM TokensInvariant == Spec => []Inv
<1>1. TokensInit => Inv
  BY InitInv, ZenonT(20)
<1>2. Inv /\ [Next]_tvars => Inv'
  BY NextInv, StutterInv, ZenonT(20)
<1> QED BY <1>1, <1>2, PTL DEF Spec

\* Tables, locals and the license lock keep their types: no handler stores or
\* follows an id that names nothing of its kind.
THEOREM TypeCorrect == Spec => []TypeOK
<1>1. Inv => TypeOK
  BY ZenonT(20) DEF Inv
<1> QED BY <1>1, TokensInvariant, PTL

\* CreatePairingWithinCapacity counts and inserts under the license row lock, so
\* that no number of racing completions takes a license above the largest
\* max_pairs it has had.
THEOREM CapacityNeverExceeded == Spec => []CapacityHeld
<1>1. Inv => CapacityHeld
  BY ZenonT(20) DEF Inv
<1> QED BY <1>1, TokensInvariant, PTL

\* handlePollPairing never shows the desktop a phone without a key, and reports a
\* consumed token without a pairing only while, or because, the completion that
\* consumed it has not succeeded.
THEOREM PollIsConsistent == Spec => []PollConsistent
<1>1. Inv => PollConsistent
  BY PollFromInv, ZenonT(20) DEF Inv
<1> QED BY <1>1, TokensInvariant, PTL

\* issueTokenPair is reached only by a request whose device was an active member
\* of the pairing, and whose license was issuable, while the request was running.
THEOREM MembersOnly == Spec => []MintedForMember
<1>1. Inv => MintedForMember
  BY ZenonT(20) DEF Inv, MemberInv, MintedForMember
<1> QED BY <1>1, TokensInvariant, PTL

\* ConsumeRefreshToken is the single-use gate: a chain of refresh tokens never
\* forks, whichever rotations race and whichever tokens are presented again.
THEOREM ChainsNeverFork == Spec => []ChainLinear
<1>1. Inv => ChainLinear
  BY ChainFromInv, ZenonT(20) DEF Inv
<1> QED BY <1>1, TokensInvariant, PTL

\* Rows of the auth store are never deleted, a pairing keeps its license, a pairing
\* token its license and desktop, and a device that has a key keeps having one.
THEOREM RowsAreKept == Spec => [][RowsKept]_tvars
<1>1. Inv /\ [Next]_tvars => [RowsKept]_tvars
  BY NextBase, ZenonT(20) DEF Inv
<1> QED BY <1>1, TokensInvariant, PTL DEF Spec

\* The Postgres transaction, with its three statements interleaved with everything
\* else, implements the contract of the store: count and insert in one step.
THEOREM TransactionIsAtomic == Spec => ImplementsSlots
<1>1. TokensInit => Slots!Init
  <2> SUFFICES ASSUME TokensInit PROVE Slots!Init
    OBVIOUS
  <2>1. slotsOf = [p \in Pair |-> None]
    BY ZenonT(20) DEF slotsOf, TokensInit, PairingInit, StoreInit
  <2>2. granted \in [License -> {{n} : n \in Quota}]
    BY DEF TokensInit, PairingInit
  <2> QED BY <2>1, <2>2, ZenonT(20) DEF Slots!Init
<1>2. Inv /\ [Next]_tvars => [Slots!Next]_(Slots!slotVars)
  <2> SUFFICES ASSUME Inv, [Next]_tvars PROVE Slots!Next \/ UNCHANGED Slots!slotVars
    BY ZenonT(20)
  <2>1. CASE Next
    BY <2>1, SlotsStep, ZenonT(20) DEF Inv
  <2>2. CASE UNCHANGED tvars
    BY <2>2 DEF Slots!slotVars, slotsOf, tvars, vars, storeVars, pairingVars, licenseVars
  <2> QED BY <2>1, <2>2, ZenonT(20)
<1> QED BY <1>1, <1>2, TokensInvariant, PTL DEF Spec, ImplementsSlots, Slots!Spec
=============================================================================
