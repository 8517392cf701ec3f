---------------------------- MODULE BillingProofs ----------------------------
(***************************************************************************)
(* Proofs about the Stripe mirror (Billing), for every number of webhook    *)
(* requests that run at the same time, every bound on events, changes and   *)
(* faults, and every interleaving of their store calls with the worker's    *)
(* retries and reconciliations.                                             *)
(***************************************************************************)
EXTENDS Billing, FiniteSetTheorems, TLAPS

----------------------------------------------------------------------------
(* The inductive invariant, in parts.                                      *)

\* What an event of a type stands for has been done.
Applied(type) ==
  /\ type = "checkout" => claim = "ready"
  /\ type \in {"checkout", "upsert", "deleted", "payment_failed"} => mirror # NoMirror

\* Whose an event is: the request that recorded it, or the worker once it failed.
OwnsEvent(p) ==
  job[p].ev # 0 =>
    /\ job[p].ev <= Len(events)
    /\ p \in Handler => ledger[job[p].ev].status = "pending" /\ job[p].tries = 0
    /\ p = Worker => /\ ledger[job[p].ev].status = "failed"
                     /\ job[p].tries = ledger[job[p].ev].attempts

\* Where a process can be with which event.
AtEvent(p) ==
  /\ pc[p] = "idle" => job[p].ev = 0
  /\ p \in Handler /\ pc[p] # "idle" => job[p].ev # 0
  /\ pc[p] \in {"fetch", "cancel", "read", "write", "ready", "settle", "failed"} => job[p].ev # 0
  /\ pc[p] \in {"fetch", "ready"} => TypeOf(p) = "checkout"
  /\ pc[p] = "cancel" => TypeOf(p) = "deleted"
  /\ pc[p] \in {"read", "write"} => TypeOf(p) \in {"payment_failed", "paid"}
  /\ pc[p] \in {"resolve", "link", "fetch", "sync", "mirror", "write"} => job[p].sub \in Mirror

\* What a process has made sure of on its way.
HasDone(p) ==
  /\ pc[p] \in {"ensure", "create", "apply", "cut", "publish", "ready"} => mirror # NoMirror
  /\ TypeOf(p) = "checkout" =>
       /\ pc[p] \in {"fetch", "sync", "mirror", "ensure", "create", "apply", "cut", "publish", "ready"} => linked
       /\ pc[p] \in {"apply", "cut", "publish", "ready"} => licenses # <<>>
  /\ pc[p] = "settle" => Applied(TypeOf(p))

Locals == \A p \in Proc : OwnsEvent(p) /\ AtEvent(p) /\ HasDone(p)

\* No event without a subscription, no ledger row without an event.
EventInv ==
  /\ events # <<>> => stripe # "none"
  /\ \A n \in 1..MaxEvents : n > Len(events) => ledger[n].status = "absent"

\* Each process that is about to create a license adds one at most.
Creating == {p \in Proc : pc[p] = "create"}
LicenseInv == Len(licenses) + Cardinality(Creating) <= MaxLicenses

Inv ==
  /\ TypeOK /\ Locals /\ EventInv /\ LicenseInv
  /\ LedgerSound /\ ReadyIsUsable /\ ProcessedWasApplied

----------------------------------------------------------------------------
(* Types, sequences and the locals of a process.                           *)

Job == [ev : 0..MaxEvents, tries : 0..MaxAttempts, sub : Mirror \cup {NoMirror},
        behavior : {"valid", "grace", "suspended", "revoked"}]
Row == [status : {"absent", "pending", "processed", "failed", "dead"}, attempts : 0..MaxAttempts]

\* The types, without the bound on licenses, which LicenseInv is there for.
WorldTypes ==
  /\ clock \in 1..MaxClock /\ stripe \in Statuses \cup {"none"} /\ changes \in 0..MaxChanges
  /\ events \in Seq(Event) /\ Len(events) <= MaxEvents
StoreTypes ==
  /\ linked \in BOOLEAN /\ mirror \in Mirror \cup {NoMirror}
  /\ licenses \in Seq({"active", "revoked"})
  /\ claim \in {"pending", "ready"} /\ pairing \in {"none", "active", "revoked"}
  /\ session \in BOOLEAN /\ faults \in 0..MaxFaults
ProcTypes == pc \in [Proc -> PCs] /\ job \in [Proc -> Job]
LedgerTypes == ledger \in [1..MaxEvents -> Row]
Types == WorldTypes /\ StoreTypes /\ ProcTypes /\ LedgerTypes

LEMMA Processes ==
  /\ IsFiniteSet(Proc) /\ MaxLicenses \in Nat
  /\ Worker \in Proc /\ Handler \subseteq Proc
  /\ \A p \in Proc : p \in Handler <=> p # Worker
<1>1. IsFiniteSet(Handler) BY BillingAssumption
<1>2. IsFiniteSet(Proc) BY <1>1, FS_AddElement DEF Proc
<1>3. MaxLicenses \in Nat BY <1>2, FS_CardinalityType DEF MaxLicenses
<1>4. QED BY <1>2, <1>3, BillingAssumption DEF Proc

LEMMA CreatingBounded ==
  IsFiniteSet(Creating) /\ Cardinality(Creating) \in Nat /\ Cardinality(Creating) <= MaxLicenses
<1>1. Creating \subseteq Proc BY DEF Creating
<1>2. IsFiniteSet(Creating) /\ Cardinality(Creating) <= Cardinality(Proc)
  BY <1>1, Processes, FS_Subset
<1>3. QED BY <1>2, FS_CardinalityType DEF MaxLicenses

LEMMA TypesOfTypeOK == TypeOK => Types
BY DEF TypeOK, Types, WorldTypes, StoreTypes, ProcTypes, LedgerTypes, Job, Row

LEMMA TypeOKOfTypes == Types /\ LicenseInv => TypeOK
<1> SUFFICES ASSUME Types, LicenseInv PROVE TypeOK OBVIOUS
<1>1. Len(licenses) <= MaxLicenses
  <2>1. Len(licenses) \in Nat BY DEF Types, StoreTypes
  <2>2. QED BY <2>1, CreatingBounded, Processes DEF LicenseInv
<1>2. QED BY <1>1 DEF TypeOK, Types, WorldTypes, StoreTypes, ProcTypes, LedgerTypes, Job, Row

LEMMA NoMirrorIsNone == NoMirror \notin Mirror
BY DEF NoMirror, Mirror, Statuses

\* What is left of the events of a change are events.
LEMMA RemainingEvents ==
  ASSUME NEW S, NEW types \in Seq(S), NEW sent \in Remaining(types)
  PROVE  sent \in Seq(S)
<1>1. CASE sent = <<>> BY <1>1
<1>2. CASE sent = types BY <1>2
<1>3. ASSUME NEW i \in 1..Len(types), sent = <<types[i]>> PROVE sent \in Seq(S)
  <2>1. types[i] \in S OBVIOUS
  <2>2. QED BY <2>1, <1>3
<1>4. QED BY <1>1, <1>2, <1>3 DEF Remaining

LEMMA NotEmpty ==
  ASSUME NEW S, NEW s \in Seq(S)
  PROVE  Len(s) \in Nat /\ (s # <<>> <=> Len(s) > 0)
OBVIOUS

\* The fields of a job, and a job put together from fields.
LEMMA JobFields ==
  /\ \A j \in Job : /\ j.ev \in 0..MaxEvents /\ j.tries \in 0..MaxAttempts
                    /\ j.sub \in Mirror \cup {NoMirror}
                    /\ j.behavior \in {"valid", "grace", "suspended", "revoked"}
  /\ \A n \in 0..MaxEvents, t \in 0..MaxAttempts, s \in Mirror \cup {NoMirror},
        b \in {"valid", "grace", "suspended", "revoked"} :
        [ev |-> n, tries |-> t, sub |-> s, behavior |-> b] \in Job
BY DEF Job

\* The locals a process begins with.
Fresh(n, t, s) == [Blank EXCEPT !.ev = n, !.tries = t, !.sub = s]

LEMMA BlankJob ==
  /\ Blank \in Job /\ Blank.ev = 0 /\ Blank.tries = 0
  /\ \A n, t : [Blank EXCEPT !.ev = n, !.tries = t] =
               [ev |-> n, tries |-> t, sub |-> NoMirror, behavior |-> "valid"]
  /\ \A n, t, s : Fresh(n, t, s) = [ev |-> n, tries |-> t, sub |-> s, behavior |-> "valid"]
<1>1. 0 \in 0..MaxEvents /\ 0 \in 0..MaxAttempts BY BillingAssumption
<1>2. Blank \in Job BY <1>1 DEF Blank, Job
<1>3. ASSUME NEW n, NEW t
      PROVE  [Blank EXCEPT !.ev = n, !.tries = t] =
               [ev |-> n, tries |-> t, sub |-> NoMirror, behavior |-> "valid"]
  <2>1. [Blank EXCEPT !.ev = n] = [ev |-> n, tries |-> 0, sub |-> NoMirror, behavior |-> "valid"]
    BY DEF Blank
  <2>2. [[ev |-> n, tries |-> 0, sub |-> NoMirror, behavior |-> "valid"] EXCEPT !.tries = t] =
          [ev |-> n, tries |-> t, sub |-> NoMirror, behavior |-> "valid"]
    OBVIOUS
  <2>3. QED BY <2>1, <2>2, Zenon
<1>4. ASSUME NEW n, NEW t, NEW s
      PROVE  Fresh(n, t, s) =
               [ev |-> n, tries |-> t, sub |-> s, behavior |-> "valid"]
  <2>1. [[ev |-> n, tries |-> t, sub |-> NoMirror, behavior |-> "valid"] EXCEPT !.sub = s] =
          [ev |-> n, tries |-> t, sub |-> s, behavior |-> "valid"]
    OBVIOUS
  <2>2. QED BY <1>3, <2>1, Zenon DEF Fresh
<1>5. Blank.ev = 0 /\ Blank.tries = 0 BY DEF Blank
<1>6. QED BY <1>2, <1>3, <1>4, <1>5, Zenon


\* The type of a process's event.
LEMMA EventTypes ==
  ASSUME Types, NEW p \in Proc, OwnsEvent(p)
  PROVE  /\ job[p].ev = 0 <=> TypeOf(p) = "reconcile"
         /\ job[p].ev # 0 => job[p].ev \in 1..MaxEvents /\ job[p].ev \in 1..Len(events)
         /\ job[p].ev # 0 => events[job[p].ev] \in Event
<1>1. job[p].ev \in 0..MaxEvents BY JobFields DEF Types, ProcTypes
<1>2. job[p].ev # 0 => job[p].ev \in 1..MaxEvents /\ job[p].ev \in 1..Len(events)
  BY <1>1, BillingAssumption DEF OwnsEvent, Types, WorldTypes
<1>3. job[p].ev # 0 => events[job[p].ev] \in Event
  BY <1>2 DEF Types, WorldTypes
<1>4. \A e \in Event : e.type # "reconcile" BY DEF Event
<1>5. QED BY <1>2, <1>3, <1>4 DEF TypeOf

----------------------------------------------------------------------------
(* What no step undoes.                                                    *)

\* What has been written stays written.
Kept ==
  /\ mirror # NoMirror => mirror' # NoMirror
  /\ linked => linked'
  /\ licenses # <<>> => licenses' # <<>>
  /\ claim = "ready" => claim' = "ready"
EventsKept == Len(events) <= Len(events') /\ \A n \in 1..Len(events) : events'[n] = events[n]

LocalInv(p) == OwnsEvent(p) /\ AtEvent(p) /\ HasDone(p)

\* A process that takes no step keeps what it knows.
LEMMA OtherProcess ==
  ASSUME Types, Types', NEW q \in Proc, LocalInv(q), Kept, EventsKept,
         pc'[q] = pc[q], job'[q] = job[q],
         job[q].ev # 0 => ledger'[job[q].ev] = ledger[job[q].ev]
  PROVE  LocalInv(q)'
<1>1. job[q].ev # 0 => job[q].ev \in 1..Len(events)
  BY EventTypes DEF LocalInv
<1>2. TypeOf(q)' = TypeOf(q)
  BY <1>1 DEF TypeOf, EventsKept
<1>3. OwnsEvent(q)'
  <2>1. Len(events) \in Nat /\ Len(events') \in Nat BY DEF Types, WorldTypes
  <2>2. job[q].ev # 0 => job[q].ev <= Len(events') BY <2>1, <1>1 DEF EventsKept
  <2>3. QED BY <2>2, Zenon DEF OwnsEvent, LocalInv
<1>4. AtEvent(q)' BY <1>2, Zenon DEF AtEvent, LocalInv
<1>5. HasDone(q)'
  <2>1. Applied(TypeOf(q)) => Applied(TypeOf(q))' BY <1>2, Zenon DEF Applied, Kept
  <2>2. QED BY <1>2, <2>1, Zenon DEF HasDone, LocalInv, Kept
<1>6. QED BY <1>3, <1>4, <1>5 DEF LocalInv

----------------------------------------------------------------------------
(* The step of a process.                                                  *)

\* How the step of p treats the ledger: it writes the row of its event, or of one
\* that no process owns.
RowSound(n) ==
  /\ ledger[n].status = "failed" => ledger[n].attempts \in 1..(MaxAttempts - 1)
  /\ ledger[n].status = "dead" => ledger[n].attempts = MaxAttempts
LedgerStep(p) ==
  \A n \in 1..MaxEvents :
    \/ ledger'[n] = ledger[n]
    \/ /\ n <= Len(events) /\ RowSound(n)'
       /\ n = job[p].ev \/ ledger[n].status = "absent"
       /\ ledger'[n].status = "processed" => n = job[p].ev /\ pc[p] = "settle"

\* The event p goes on with: the same, none, a new one, or a failed one.
EventStep(p) ==
  \/ job'[p].ev \in {0, job[p].ev}
  \/ ledger[job'[p].ev].status = "absent"
  \/ p = Worker /\ ledger[job'[p].ev].status = "failed"

\* A license is created by a process that found none.
LicenseStep(p) ==
  \/ Len(licenses') = Len(licenses) /\ pc'[p] # "create"
  \/ licenses' = <<>>
  \/ pc[p] = "create" /\ pc'[p] # "create" /\ Len(licenses') = Len(licenses) + 1

OthersKept(p) == \A q \in Proc \ {p} : pc'[q] = pc[q] /\ job'[q] = job[q]

StepOK(p) ==
  /\ Types' /\ Kept /\ events' = events /\ stripe' = stripe
  /\ OthersKept(p) /\ LocalInv(p)'
  /\ LedgerStep(p) /\ EventStep(p) /\ LicenseStep(p) /\ ReadyIsUsable'

\* No other process owns the row that p writes or the event that p takes up.
LEMMA RowsOfOthers ==
  ASSUME Inv, NEW p \in Proc, StepOK(p), NEW q \in Proc, q # p, job[q].ev # 0
  PROVE  ledger'[job[q].ev] = ledger[job[q].ev] /\ job'[p].ev # job[q].ev
<1> DEFINE n == job[q].ev
<1>1. Types /\ LocalInv(q) BY TypesOfTypeOK DEF Inv, Locals, LocalInv
<1>2. n \in 1..MaxEvents BY <1>1, EventTypes DEF LocalInv
<1>3. n # job[p].ev BY DEF Inv, LedgerSound
<1>4. IF q = Worker THEN ledger[n].status = "failed" ELSE ledger[n].status = "pending"
  BY <1>1, Processes DEF LocalInv, OwnsEvent
<1>5. ledger[n].status # "absent" BY <1>4
<1>6. ledger'[n] = ledger[n] BY <1>2, <1>3, <1>5, Zenon DEF StepOK, LedgerStep
<1>7. job'[p].ev # n BY <1>3, <1>4, <1>5 DEF StepOK, EventStep
<1>8. QED BY <1>6, <1>7

LEMMA StepLocals ==
  ASSUME Inv, NEW p \in Proc, StepOK(p)
  PROVE  Locals'
<1> SUFFICES ASSUME NEW q \in Proc PROVE LocalInv(q)'
  BY DEF Locals, LocalInv
<1>1. CASE q = p BY <1>1 DEF StepOK
<1>2. CASE q # p
  <2>1. Types /\ LocalInv(q) BY TypesOfTypeOK DEF Inv, Locals, LocalInv
  <2>2. Types' /\ Kept /\ pc'[q] = pc[q] /\ job'[q] = job[q]
    BY <1>2 DEF StepOK, OthersKept
  <2>3. EventsKept
    <3>1. Len(events) \in Nat BY <2>1 DEF Types, WorldTypes
    <3>2. QED BY <3>1 DEF StepOK, EventsKept
  <2>4. job[q].ev # 0 => ledger'[job[q].ev] = ledger[job[q].ev] BY <1>2, RowsOfOthers
  <2>5. QED BY <2>1, <2>2, <2>3, <2>4, OtherProcess
<1>3. QED BY <1>1, <1>2

AppliedEvent(n) == Applied(events[n].type)

LEMMA StepLedger ==
  ASSUME Inv, NEW p \in Proc, StepOK(p)
  PROVE  EventInv' /\ LedgerSound' /\ ProcessedWasApplied'
<1>1. Types /\ Types' BY TypesOfTypeOK DEF Inv, StepOK
<1>2. EventInv'
  BY <1>1, BillingAssumption DEF Inv, EventInv, StepOK, LedgerStep, Types, WorldTypes
<1>3. ASSUME NEW q \in Proc, NEW r \in Proc, job'[q].ev # 0, job'[q].ev = job'[r].ev
      PROVE  q = r
  <2>1. CASE q # p /\ r # p
    BY <1>3, <2>1 DEF StepOK, OthersKept, Inv, LedgerSound
  <2>2. CASE q = p /\ r # p
    BY <1>3, <2>2, RowsOfOthers DEF StepOK, OthersKept
  <2>3. CASE q # p /\ r = p
    BY <1>3, <2>3, RowsOfOthers DEF StepOK, OthersKept
  <2>4. QED BY <2>1, <2>2, <2>3
<1>4. ASSUME NEW n \in 1..MaxEvents PROVE RowSound(n)'
  BY Zenon DEF Inv, LedgerSound, RowSound, StepOK, LedgerStep
<1>5. LedgerSound' BY <1>3, <1>4, Zenon DEF LedgerSound, RowSound
<1>6. ASSUME NEW n \in 1..Len(events'), ledger'[n].status = "processed"
      PROVE  AppliedEvent(n)'
  <2>1. events' = events /\ n \in 1..Len(events) /\ n \in 1..MaxEvents
    BY <1>1, <1>6, BillingAssumption DEF StepOK, Types, WorldTypes
  <2>2. CASE ledger[n].status = "processed"
    <3>1. Applied(events[n].type) BY <2>1, <2>2, Zenon DEF Inv, ProcessedWasApplied, Applied
    <3>2. QED BY <3>1, <2>1, Zenon DEF StepOK, Kept, Applied, AppliedEvent
  <2>3. CASE ledger[n].status # "processed"
    <3>1. n = job[p].ev /\ pc[p] = "settle"
      BY <1>6, <2>1, <2>3, Zenon DEF StepOK, LedgerStep
    <3>2. TypeOf(p) = events[n].type BY <3>1, <2>1 DEF TypeOf
    <3>3. Applied(events[n].type) BY <3>1, <3>2 DEF Inv, Locals, HasDone
    <3>4. QED BY <3>3, <2>1, Zenon DEF StepOK, Kept, Applied, AppliedEvent
  <2>4. QED BY <2>2, <2>3
<1>7. ProcessedWasApplied' BY <1>6, Zenon DEF ProcessedWasApplied, Applied, AppliedEvent
<1>8. QED BY <1>2, <1>5, <1>7

LEMMA StepLicenses ==
  ASSUME Inv, NEW p \in Proc, StepOK(p)
  PROVE  LicenseInv'
<1>1. Types /\ Types' BY TypesOfTypeOK DEF Inv, StepOK
<1>2. Len(licenses) \in Nat /\ Len(licenses') \in Nat BY <1>1 DEF Types, StoreTypes
<1>3. /\ IsFiniteSet(Creating) /\ Cardinality(Creating) \in Nat
      /\ IsFiniteSet(Creating') /\ Cardinality(Creating') \in Nat /\ Cardinality(Creating') <= MaxLicenses
  <2>1. Creating' \subseteq Proc BY DEF Creating
  <2>2. IsFiniteSet(Creating') /\ Cardinality(Creating') <= Cardinality(Proc)
    BY <2>1, Processes, FS_Subset
  <2>3. QED BY <2>2, CreatingBounded, FS_CardinalityType DEF MaxLicenses
<1>4. CASE Len(licenses') = Len(licenses) /\ pc'[p] # "create"
  <2>1. Creating' \subseteq Creating BY <1>4 DEF Creating, StepOK, OthersKept
  <2>2. Cardinality(Creating') <= Cardinality(Creating) BY <2>1, <1>3, FS_Subset
  <2>3. QED BY <1>2, <1>3, <1>4, <2>2, Processes DEF Inv, LicenseInv
<1>5. CASE licenses' = <<>>
  BY <1>3, <1>5, Processes DEF LicenseInv
<1>6. CASE pc[p] = "create" /\ pc'[p] # "create" /\ Len(licenses') = Len(licenses) + 1
  <2>1. p \in Creating /\ Creating' = Creating \ {p}
    BY <1>6 DEF Creating, StepOK, OthersKept
  <2>2. Cardinality(Creating') = Cardinality(Creating) - 1
    BY <2>1, <1>3, FS_RemoveElement
  <2>3. QED BY <1>2, <1>3, <1>6, <2>2, Processes DEF Inv, LicenseInv
<1>7. QED BY <1>4, <1>5, <1>6 DEF StepOK, LicenseStep

LEMMA StepInv ==
  ASSUME Inv, NEW p \in Proc, StepOK(p)
  PROVE  Inv'
<1>1. LicenseInv' BY StepLicenses
<1>2. Types' BY DEF StepOK
<1>3. TypeOK'
  <2>1. Len(licenses') \in Nat /\ Cardinality(Creating') \in Nat
    BY <1>2, FS_CardinalityType, FS_Subset, Processes DEF Types, StoreTypes, Creating
  <2>2. Len(licenses') <= MaxLicenses BY <1>1, <2>1, Processes DEF LicenseInv
  <2>3. QED BY <1>2, <2>2 DEF TypeOK, Types, WorldTypes, StoreTypes, ProcTypes, LedgerTypes, Job, Row
<1>4. QED BY <1>1, <1>3, StepLocals, StepLedger DEF Inv, StepOK

----------------------------------------------------------------------------
(* Frames: what the steps of a process have in common.                     *)

\* Process p goes on at to, with locals j.
Moves(p, to, j) == Goto(p, to) /\ job' = [job EXCEPT ![p] = j]

LEMMA MovesFrame ==
  ASSUME Types, NEW p \in Proc, NEW to \in PCs, NEW j \in Job, Moves(p, to, j)
  PROVE  ProcTypes' /\ OthersKept(p) /\ pc'[p] = to /\ job'[p] = j
BY DEF Types, ProcTypes, Moves, Goto, OthersKept

LEMMA StaysPut ==
  ASSUME Types, NEW p \in Proc, UNCHANGED job
  PROVE  job' = [job EXCEPT ![p] = job[p]] /\ job[p] \in Job
BY DEF Types, ProcTypes

LEMMA WorldSame ==
  ASSUME Types, UNCHANGED world
  PROVE  WorldTypes' /\ events' = events /\ stripe' = stripe /\ clock' = clock
BY DEF Types, WorldTypes, world

\* A process that goes on with its event still owns it.
LEMMA SameEvent ==
  ASSUME Inv, NEW p \in Proc, NEW to \in PCs, NEW j \in Job, Moves(p, to, j),
         UNCHANGED <<world, ledger>>, j.ev = job[p].ev, j.tries = job[p].tries
  PROVE  OwnsEvent(p)' /\ TypeOf(p)' = TypeOf(p) /\ pc'[p] = to /\ job'[p] = j
<1>1. Types BY TypesOfTypeOK DEF Inv
<1>2. pc'[p] = to /\ job'[p] = j BY <1>1, MovesFrame
<1>3. events' = events BY <1>1, WorldSame
<1>4. OwnsEvent(p) BY DEF Inv, Locals
<1>5. QED BY <1>2, <1>3, <1>4 DEF OwnsEvent, TypeOf

\* A step that leaves world, ledger and claim alone.
LEMMA QuietStep ==
  ASSUME Inv, NEW p \in Proc, NEW to \in PCs, NEW j \in Job, Moves(p, to, j),
         UNCHANGED <<world, ledger, claim>>, j.ev \in {0, job[p].ev},
         StoreTypes', Kept, LicenseStep(p), LocalInv(p)'
  PROVE  StepOK(p)
<1>1. Types BY TypesOfTypeOK DEF Inv
<1>2. ProcTypes' /\ OthersKept(p) /\ job'[p] = j BY <1>1, MovesFrame
<1>3. WorldTypes' /\ events' = events /\ stripe' = stripe BY <1>1, WorldSame
<1>4. LedgerTypes' /\ LedgerStep(p) BY <1>1 DEF Types, LedgerTypes, LedgerStep
<1>5. EventStep(p) BY <1>2 DEF EventStep
<1>6. ReadyIsUsable' BY Zenon DEF Inv, ReadyIsUsable, Kept
<1>7. QED BY <1>2, <1>3, <1>4, <1>5, <1>6 DEF StepOK, Types

\* A step that leaves the store alone.
LEMMA StoreSame ==
  ASSUME Types, UNCHANGED <<store, session, faults>>
  PROVE  StoreTypes' /\ Kept /\ UNCHANGED <<ledger, claim, licenses, mirror, linked>>
BY DEF Types, StoreTypes, Kept, store

\* The process is over with its event, or with a reconciliation.
LEMMA EndStep ==
  ASSUME Inv, NEW p \in Proc, NEW from, NEW to \in {"ready", "settle", "failed"},
         End(p, from, to), pc[p] # "idle",
         UNCHANGED <<world, ledger, claim>>, StoreTypes', Kept, Len(licenses') = Len(licenses),
         to = "ready" => /\ TypeOf(p) \in {"checkout", "reconcile"}
                         /\ TypeOf(p) = "checkout" => linked' /\ mirror' # NoMirror /\ licenses' # <<>>,
         to = "settle" /\ TypeOf(p) # "reconcile" =>
           /\ TypeOf(p) = "checkout" => claim' = "ready"
           /\ TypeOf(p) \in {"checkout", "upsert", "deleted", "payment_failed"} => mirror' # NoMirror
  PROVE  StepOK(p)
<1> DEFINE j == [ev |-> job[p].ev, tries |-> job[p].tries, sub |-> NoMirror, behavior |-> "valid"]
           at == IF TypeOf(p) = "reconcile" THEN "idle" ELSE to
<1>1. Types /\ LocalInv(p) BY TypesOfTypeOK DEF Inv, Locals, LocalInv
<1>2. job[p] \in Job BY <1>1 DEF Types, ProcTypes
<1>3. j \in Job BY <1>2, JobFields, Zenon
<1>4. at \in PCs BY DEF PCs
<1>5. Moves(p, at, j) BY BlankJob, Zenon DEF End, Moves, Move
<1>6. j.ev = job[p].ev /\ j.tries = job[p].tries OBVIOUS
<1> HIDE DEF j
<1>7. OwnsEvent(p)' /\ TypeOf(p)' = TypeOf(p) /\ pc'[p] = at /\ job'[p] = j
  BY <1>3, <1>4, <1>5, <1>6, SameEvent
<1>8. TypeOf(p) = "reconcile" <=> job'[p].ev = 0
  BY <1>1, <1>6, <1>7, EventTypes DEF LocalInv
<1>9. AtEvent(p)'
  <2>1. p \in Handler => job'[p].ev # 0 BY <1>1, <1>6, <1>7 DEF LocalInv, AtEvent
  <2>2. pc'[p] \in {"idle", "ready", "settle", "failed"} BY <1>7
  <2>3. pc'[p] = "idle" <=> job'[p].ev = 0 BY <1>7, <1>8
  <2>4. pc'[p] = "ready" => TypeOf(p)' = "checkout" BY <1>7
  <2>5. QED BY <2>1, <2>2, <2>3, <2>4 DEF AtEvent
<1>10. HasDone(p)'
  <2>1. CASE at = "idle" BY <2>1, <1>7, Zenon DEF HasDone
  <2>2. CASE at = "failed" BY <2>2, <1>7, Zenon DEF HasDone
  <2>3. CASE at = "ready"
    <3>1. TypeOf(p) = "checkout" /\ linked' /\ mirror' # NoMirror /\ licenses' # <<>> BY <2>3
    <3>2. QED BY <2>3, <3>1, <1>7, Zenon DEF HasDone
  <2>4. CASE at = "settle"
    <3>1. Applied(TypeOf(p))' BY <2>4, <1>7 DEF Applied
    <3>2. QED BY <2>4, <3>1, <1>7, Zenon DEF HasDone
  <2>5. QED BY <2>1, <2>2, <2>3, <2>4
<1>11. LicenseStep(p) BY <1>7 DEF LicenseStep
<1>12. QED BY <1>3, <1>4, <1>5, <1>6, <1>7, <1>9, <1>10, <1>11, QuietStep DEF LocalInv

LEMMA FailStep ==
  ASSUME Inv, NEW p \in Proc, NEW from, Fail(p, from), pc[p] # "idle",
         UNCHANGED <<world, ledger, claim>>, StoreTypes', Kept, Len(licenses') = Len(licenses)
  PROVE  StepOK(p)
BY EndStep DEF Fail

LEMMA FinishStep ==
  ASSUME Inv, NEW p \in Proc, NEW from, Finish(p, from), pc[p] # "idle",
         UNCHANGED <<world, ledger, claim>>, StoreTypes', Kept, Len(licenses') = Len(licenses),
         TypeOf(p) = "checkout" => linked' /\ licenses' # <<>>,
         mirror' # NoMirror \/ TypeOf(p) = "paid"
  PROVE  StepOK(p)
<1>1. CASE TypeOf(p) = "checkout"
  <2>1. End(p, from, "ready") BY <1>1 DEF Finish
  <2>2. mirror' # NoMirror BY <1>1
  <2>3. QED BY <1>1, <2>1, <2>2, EndStep
<1>2. CASE TypeOf(p) # "checkout"
  <2>1. End(p, from, "settle") BY <1>2 DEF Finish
  <2>2. TypeOf(p) \in {"checkout", "upsert", "deleted", "payment_failed"} => mirror' # NoMirror
    OBVIOUS
  <2>3. QED BY <1>2, <2>1, <2>2, EndStep
<1>3. QED BY <1>1, <1>2

----------------------------------------------------------------------------
(* One lemma per step.                                                     *)

\* Where resolveAccount leads once the account is linked.
LEMMA ResolvedStep ==
  ASSUME Inv, NEW p \in Proc, pc[p] \in {"resolve", "link"}, Goto(p, AfterResolve(p)), UNCHANGED job,
         UNCHANGED <<world, ledger, mirror, licenses, claim, pairing, session, faults>>, linked' = TRUE
  PROVE  StepOK(p)
<1>1. Types /\ LocalInv(p) BY TypesOfTypeOK DEF Inv, Locals, LocalInv
<1>2. job' = [job EXCEPT ![p] = job[p]] /\ job[p] \in Job BY <1>1, StaysPut
<1>3. AfterResolve(p) \in PCs BY DEF AfterResolve, PCs
<1>4. Moves(p, AfterResolve(p), job[p]) BY <1>2, Zenon DEF Moves
<1>5. OwnsEvent(p)' /\ TypeOf(p)' = TypeOf(p) /\ pc'[p] = AfterResolve(p) /\ job'[p] = job[p]
  BY <1>2, <1>3, <1>4, SameEvent
<1>6. /\ AfterResolve(p) \in {"fetch", "cancel", "sync"}
      /\ AfterResolve(p) = "fetch" => TypeOf(p) = "checkout"
      /\ AfterResolve(p) = "cancel" => TypeOf(p) = "deleted"
  BY DEF AfterResolve
<1>7. TypeOf(p) # "reconcile" => job[p].ev # 0 BY <1>1, EventTypes DEF LocalInv
<1>8. (p \in Handler => job[p].ev # 0) /\ job[p].sub \in Mirror
  BY <1>1 DEF LocalInv, AtEvent
<1>9. AtEvent(p)' BY <1>5, <1>6, <1>7, <1>8 DEF AtEvent
<1>10. HasDone(p)' BY <1>5, <1>6, Zenon DEF HasDone
<1>11. StoreTypes' /\ Kept BY <1>1 DEF Types, StoreTypes, Kept
<1>12. LicenseStep(p) BY <1>5, <1>6 DEF LicenseStep
<1>13. QED BY <1>2, <1>3, <1>4, <1>5, <1>9, <1>10, <1>11, <1>12, QuietStep DEF LocalInv

LEMMA ResolveAccountStep ==
  ASSUME Inv, NEW p \in Proc, ResolveAccount(p)
  PROVE  StepOK(p)
<1>1. Types /\ LocalInv(p) BY TypesOfTypeOK DEF Inv, Locals, LocalInv
<1>2. pc[p] = "resolve" /\ UNCHANGED <<world, ledger, claim, job>> BY DEF ResolveAccount, Move, store
<1>3. CASE linked
  <2>1. Goto(p, AfterResolve(p)) BY <1>3 DEF ResolveAccount, Move
  <2>2. linked' = TRUE BY <1>1, <1>3 DEF ResolveAccount, store, Types, StoreTypes
  <2>3. QED BY <1>2, <2>1, <2>2, ResolvedStep DEF ResolveAccount, store
<1>4. CASE ~linked
  <2>1. job' = [job EXCEPT ![p] = job[p]] /\ job[p] \in Job BY <1>1, <1>2, StaysPut
  <2>2. Moves(p, "link", job[p]) BY <1>4, <2>1, Zenon DEF ResolveAccount, Move, Moves
  <2>3. "link" \in PCs BY DEF PCs
  <2>4. OwnsEvent(p)' /\ TypeOf(p)' = TypeOf(p) /\ pc'[p] = "link" /\ job'[p] = job[p]
    BY <1>2, <2>1, <2>2, <2>3, SameEvent
  <2>5. AtEvent(p)' BY <1>1, <1>2, <2>4 DEF AtEvent, LocalInv
  <2>6. HasDone(p)' BY <2>4, Zenon DEF HasDone
  <2>7. StoreTypes' /\ Kept /\ UNCHANGED licenses BY <1>1, StoreSame DEF ResolveAccount
  <2>8. LicenseStep(p) BY <2>4, <2>7 DEF LicenseStep
  <2>9. QED BY <1>2, <2>1, <2>2, <2>3, <2>4, <2>5, <2>6, <2>7, <2>8, QuietStep DEF LocalInv
<1>5. QED BY <1>3, <1>4

LEMMA LinkAccountStep ==
  ASSUME Inv, NEW p \in Proc, LinkAccount(p)
  PROVE  StepOK(p)
<1>1. Types BY TypesOfTypeOK DEF Inv
<1>2. /\ linked' = TRUE
      /\ UNCHANGED <<world, ledger, mirror, licenses, claim, pairing, session, faults>>
  BY DEF LinkAccount
<1>3. StoreTypes' /\ Kept BY <1>1, <1>2 DEF Types, StoreTypes, Kept
<1>4. pc[p] = "link" BY DEF LinkAccount, Move, Fail, End
<1>5. CASE Fail(p, "link") BY <1>2, <1>3, <1>4, <1>5, FailStep
<1>6. CASE Move(p, "link", AfterResolve(p)) /\ UNCHANGED job
  BY <1>2, <1>4, <1>6, ResolvedStep DEF Move
<1>7. QED BY <1>5, <1>6 DEF LinkAccount

\* A step that only rewrites the locals of p, and goes from a step before the
\* mirror is written to the next.
LEMMA LocalStep ==
  ASSUME Inv, NEW p \in Proc, NEW to \in {"sync", "mirror", "write"}, NEW j \in Job, Moves(p, to, j),
         pc[p] \in {"fetch", "sync", "read"}, pc[p] = "read" <=> to = "write",
         j.ev = job[p].ev, j.tries = job[p].tries, j.sub \in Mirror,
         UNCHANGED <<world, store, session, faults>>
  PROVE  StepOK(p)
<1>1. Types /\ LocalInv(p) BY TypesOfTypeOK DEF Inv, Locals, LocalInv
<1>2. StoreTypes' /\ Kept /\ UNCHANGED <<ledger, claim, licenses, mirror, linked>> BY <1>1, StoreSame
<1>3. to \in PCs BY DEF PCs
<1>4. OwnsEvent(p)' /\ TypeOf(p)' = TypeOf(p) /\ pc'[p] = to /\ job'[p] = j
  BY <1>2, <1>3, SameEvent
<1>5. AtEvent(p)' BY <1>1, <1>4 DEF AtEvent, LocalInv
<1>6. HasDone(p)'
  <2>1. TypeOf(p) = "checkout" => linked' \/ to = "write"
    BY <1>1, <1>2 DEF HasDone, LocalInv
  <2>2. CASE to = "write" BY <2>2, <1>4, Zenon DEF HasDone
  <2>3. CASE to \in {"sync", "mirror"}
    <3>1. pc'[p] \notin {"ensure", "create", "apply", "cut", "publish", "ready", "settle"} /\ to # "write"
      BY <2>3, <1>4
    <3>2. pc'[p] \notin {"apply", "cut", "publish", "ready"} /\ pc'[p] # "settle"
          /\ pc'[p] \notin {"ensure", "create", "apply", "cut", "publish", "ready"}
      BY <3>1
    <3>3. QED BY <2>1, <3>1, <3>2, <1>4, Zenon DEF HasDone
  <2>4. QED BY <2>2, <2>3
<1>7. LicenseStep(p) BY <1>2, <1>4 DEF LicenseStep
<1>8. QED BY <1>2, <1>3, <1>4, <1>5, <1>6, <1>7, QuietStep DEF LocalInv

LEMMA FetchStep ==
  ASSUME Inv, NEW p \in Proc, Fetch(p)
  PROVE  StepOK(p)
<1> DEFINE sub == [status |-> stripe, grace |-> job[p].sub.grace]
           j == [ev |-> job[p].ev, tries |-> job[p].tries, sub |-> sub, behavior |-> job[p].behavior]
<1>1. Types /\ LocalInv(p) BY TypesOfTypeOK DEF Inv, Locals, LocalInv
<1>2. pc[p] = "fetch" BY DEF Fetch, Move
<1>3. job[p].sub \in Mirror /\ job[p].ev # 0 BY <1>1, <1>2 DEF LocalInv, AtEvent
<1>4. stripe \in Statuses
  <2>1. job[p].ev \in 1..Len(events) BY <1>1, <1>3, EventTypes DEF LocalInv
  <2>2. events # <<>> BY <2>1, <1>1 DEF Types, WorldTypes
  <2>3. QED BY <2>2, <1>1 DEF Inv, EventInv, Types, WorldTypes
<1>5. sub \in Mirror BY <1>3, <1>4 DEF Mirror
<1>6. job[p] \in Job BY <1>1 DEF Types, ProcTypes
<1>7. j \in Job BY <1>5, <1>6, JobFields, Zenon
<1>8. job' = [job EXCEPT ![p] = j]
  <2>1. job' = [job EXCEPT ![p] = [job[p] EXCEPT !.sub = [job[p].sub EXCEPT !.status = stripe]]]
    BY Zenon DEF Fetch
  <2>2. [job[p].sub EXCEPT !.status = stripe] = sub BY <1>3 DEF Mirror
  <2>3. [job[p] EXCEPT !.sub = sub] = j BY <1>6 DEF Job
  <2>4. QED BY <2>1, <2>2, <2>3, Zenon
<1>9. Moves(p, "sync", j) BY <1>8, Zenon DEF Moves, Fetch, Move
<1>10. j.ev = job[p].ev /\ j.tries = job[p].tries /\ j.sub \in Mirror BY <1>5
<1> HIDE DEF j
<1>11. QED BY <1>2, <1>7, <1>9, <1>10, LocalStep DEF Fetch

LEMMA EvaluateType ==
  ASSUME NEW m
  PROVE  Evaluate(m) \in {"valid", "grace", "suspended", "revoked"}
BY DEF Evaluate

LEMMA SyncStep ==
  ASSUME Inv, NEW p \in Proc, Sync(p)
  PROVE  StepOK(p)
<1> DEFINE row == [status |-> job[p].sub.status, grace |-> GraceOf(job[p].sub.status)]
           j == [ev |-> job[p].ev, tries |-> job[p].tries, sub |-> row, behavior |-> Evaluate(row)]
<1>1. Types /\ LocalInv(p) BY TypesOfTypeOK DEF Inv, Locals, LocalInv
<1>2. pc[p] = "sync" BY DEF Sync, Move
<1>3. job[p].sub \in Mirror BY <1>1, <1>2 DEF LocalInv, AtEvent
<1>4. mirror.grace \in 0..MaxClock BY <1>1, BillingAssumption DEF Types, StoreTypes, Mirror, NoMirror
<1>5. GraceOf(job[p].sub.status) \in 0..MaxClock
  BY <1>1, <1>4, BillingAssumption DEF GraceOf, Types, WorldTypes
<1>6. row \in Mirror BY <1>3, <1>5 DEF Mirror
<1>7. job[p] \in Job BY <1>1 DEF Types, ProcTypes
<1>8. j \in Job BY <1>6, <1>7, EvaluateType, JobFields, Zenon
<1>9. job' = [job EXCEPT ![p] = j]
  <2>1. job' = [job EXCEPT ![p] = [job[p] EXCEPT !.sub = row, !.behavior = Evaluate(row)]]
    BY Zenon DEF Sync
  <2>2. [job[p] EXCEPT !.sub = row] = [ev |-> job[p].ev, tries |-> job[p].tries, sub |-> row, behavior |-> job[p].behavior]
    BY <1>7 DEF Job
  <2>3. [[ev |-> job[p].ev, tries |-> job[p].tries, sub |-> row, behavior |-> job[p].behavior]
           EXCEPT !.behavior = Evaluate(row)] = j
    OBVIOUS
  <2>4. QED BY <2>1, <2>2, <2>3, Zenon
<1>10. Moves(p, "mirror", j) BY <1>9, Zenon DEF Moves, Sync, Move
<1>11. j.ev = job[p].ev /\ j.tries = job[p].tries /\ j.sub \in Mirror BY <1>6
<1> HIDE DEF j
<1>12. QED BY <1>2, <1>8, <1>10, <1>11, LocalStep DEF Sync

\* The locals once the row is written: the event, and what the row calls for.
Written(p, b) == [ev |-> job[p].ev, tries |-> job[p].tries, sub |-> NoMirror, behavior |-> b]

LEMMA WrittenJob ==
  ASSUME Types, NEW p \in Proc, NEW b \in {"valid", "grace", "suspended", "revoked"}
  PROVE  /\ Written(p, b) \in Job /\ Written(p, b).ev = job[p].ev /\ Written(p, b).tries = job[p].tries
         /\ [job[p] EXCEPT !.sub = NoMirror] = Written(p, job[p].behavior)
         /\ [job[p] EXCEPT !.sub = NoMirror, !.behavior = b] = Written(p, b)
         /\ job[p].behavior \in {"valid", "grace", "suspended", "revoked"}
<1>1. job[p] \in Job BY DEF Types, ProcTypes
<1>2. Written(p, b) \in Job BY <1>1, JobFields, Zenon DEF Written
<1>3. Written(p, b).ev = job[p].ev /\ Written(p, b).tries = job[p].tries BY DEF Written
<1>4. [job[p] EXCEPT !.sub = NoMirror] = Written(p, job[p].behavior) BY <1>1 DEF Job, Written
<1>5. [Written(p, job[p].behavior) EXCEPT !.behavior = b] = Written(p, b) BY DEF Written
<1>6. [job[p] EXCEPT !.sub = NoMirror, !.behavior = b] = Written(p, b) BY <1>4, <1>5, ZenonT(30)
<1>7. QED BY <1>1, <1>2, <1>3, <1>4, <1>6, JobFields, Zenon

\* A step that writes the mirror and goes on to the licenses.
LEMMA MirrorStep ==
  ASSUME Inv, NEW p \in Proc, NEW to \in {"ensure", "apply", "settle"},
         NEW b \in {"valid", "grace", "suspended", "revoked"}, Moves(p, to, Written(p, b)),
         pc[p] \in {"mirror", "cancel", "write"}, pc[p] = "mirror" <=> to = "ensure",
         mirror' \in Mirror,
         UNCHANGED <<world, ledger, linked, licenses, claim, pairing, session, faults>>
  PROVE  StepOK(p)
<1>1. Types /\ LocalInv(p) BY TypesOfTypeOK DEF Inv, Locals, LocalInv
<1>2. mirror' # NoMirror BY NoMirrorIsNone
<1>3. StoreTypes' /\ Kept BY <1>1, <1>2, Zenon DEF Types, StoreTypes, Kept
<1>4. to \in PCs BY DEF PCs
<1>5. Written(p, b) \in Job /\ Written(p, b).ev = job[p].ev /\ Written(p, b).tries = job[p].tries
  BY <1>1, WrittenJob, Zenon
<1>6. OwnsEvent(p)' /\ TypeOf(p)' = TypeOf(p) /\ pc'[p] = to /\ job'[p] = Written(p, b)
  BY <1>4, <1>5, SameEvent
<1>7. AtEvent(p)' BY <1>1, <1>5, <1>6 DEF AtEvent, LocalInv
<1>8. HasDone(p)'
  <2>1. to # "ensure" => TypeOf(p) # "checkout" BY <1>1 DEF LocalInv, AtEvent
  <2>2. CASE to = "ensure"
    <3>1. TypeOf(p) = "checkout" => linked' BY <1>1, <2>2, Zenon DEF LocalInv, HasDone
    <3>2. QED BY <1>2, <1>6, <2>2, <3>1, Zenon DEF HasDone
  <2>3. CASE to = "apply" BY <1>2, <1>6, <2>1, <2>3, Zenon DEF HasDone
  <2>4. CASE to = "settle"
    <3>1. Applied(TypeOf(p))' BY <1>2, <1>6, <2>1, <2>4 DEF Applied
    <3>2. QED BY <3>1, <1>6, <2>4, Zenon DEF HasDone
  <2>5. QED BY <2>2, <2>3, <2>4
<1>9. LicenseStep(p) BY <1>6 DEF LicenseStep
<1>10. QED BY <1>3, <1>4, <1>5, <1>6, <1>7, <1>8, <1>9, QuietStep DEF LocalInv

LEMMA WriteMirrorStep ==
  ASSUME Inv, NEW p \in Proc, WriteMirror(p)
  PROVE  StepOK(p)
<1>1. Types /\ LocalInv(p) BY TypesOfTypeOK DEF Inv, Locals, LocalInv
<1>2. pc[p] = "mirror" /\ Goto(p, "ensure") BY DEF WriteMirror, Move
<1>3. mirror' \in Mirror BY <1>1, <1>2 DEF WriteMirror, LocalInv, AtEvent
<1>4. job' = [job EXCEPT ![p] = [job[p] EXCEPT !.sub = NoMirror]] BY ZenonT(30) DEF WriteMirror
<1>5. PICK b \in {"valid", "grace", "suspended", "revoked"} : b = job[p].behavior
  BY <1>1, WrittenJob, Zenon
<1>6. Moves(p, "ensure", Written(p, b)) BY <1>1, <1>2, <1>4, <1>5, WrittenJob, Zenon DEF Moves
<1>7. QED BY <1>2, <1>3, <1>6, MirrorStep DEF WriteMirror

LEMMA CancelMirrorStep ==
  ASSUME Inv, NEW p \in Proc, CancelMirror(p)
  PROVE  StepOK(p)
<1>1. Types BY TypesOfTypeOK DEF Inv
<1>2. pc[p] = "cancel" /\ Goto(p, "apply") BY DEF CancelMirror, Move
<1>3. mirror' \in Mirror BY BillingAssumption DEF CancelMirror, Mirror, Statuses
<1>4. job' = [job EXCEPT ![p] = [job[p] EXCEPT !.sub = NoMirror, !.behavior = "revoked"]]
  BY Zenon DEF CancelMirror
<1>5. "revoked" \in {"valid", "grace", "suspended", "revoked"} OBVIOUS
<1>6. Moves(p, "apply", Written(p, "revoked")) BY <1>1, <1>2, <1>4, <1>5, WrittenJob, Zenon DEF Moves
<1>7. QED BY <1>2, <1>3, <1>5, <1>6, MirrorStep DEF CancelMirror

LEMMA WriteBackStep ==
  ASSUME Inv, NEW p \in Proc, WriteBack(p)
  PROVE  StepOK(p)
<1> DEFINE to == IF TypeOf(p) = "paid" THEN "apply" ELSE "settle"
<1>1. Types /\ LocalInv(p) BY TypesOfTypeOK DEF Inv, Locals, LocalInv
<1>2. pc[p] = "write" /\ Goto(p, to) BY DEF WriteBack, Move
<1>3. mirror' \in Mirror BY <1>1, <1>2 DEF WriteBack, LocalInv, AtEvent
<1>4. job' = [job EXCEPT ![p] = [job[p] EXCEPT !.sub = NoMirror]] BY ZenonT(30) DEF WriteBack
<1>5. PICK b \in {"valid", "grace", "suspended", "revoked"} : b = job[p].behavior
  BY <1>1, WrittenJob, Zenon
<1>6. to \in {"ensure", "apply", "settle"} /\ to # "ensure" OBVIOUS
<1> HIDE DEF to
<1>7. Moves(p, to, Written(p, b)) BY <1>1, <1>2, <1>4, <1>5, WrittenJob, Zenon DEF Moves
<1>8. QED BY <1>2, <1>3, <1>6, <1>7, MirrorStep DEF WriteBack

LEMMA ReadMirrorStep ==
  ASSUME Inv, NEW p \in Proc, ReadMirror(p)
  PROVE  StepOK(p)
<1> DEFINE failed == TypeOf(p) = "payment_failed"
           row == IF failed
             THEN [status |-> "past_due", grace |-> IF mirror.grace = 0 THEN clock ELSE mirror.grace]
             ELSE [status |-> IF mirror.status = "past_due" THEN "active" ELSE mirror.status,
                   grace |-> 0]
           j == [ev |-> job[p].ev, tries |-> job[p].tries, sub |-> row, behavior |-> job[p].behavior]
<1>1. Types /\ LocalInv(p) BY TypesOfTypeOK DEF Inv, Locals, LocalInv
<1>2. pc[p] = "read" /\ UNCHANGED <<world, store, session, faults>>
  BY DEF ReadMirror, Move, Fail, Finish, End
<1>3. TypeOf(p) \in {"payment_failed", "paid"} BY <1>1, <1>2 DEF LocalInv, AtEvent
<1>4. StoreTypes' /\ Kept /\ UNCHANGED <<ledger, claim, licenses, mirror, linked>> BY <1>1, <1>2, StoreSame
<1>5. CASE Fail(p, "read") BY <1>2, <1>4, <1>5, FailStep
<1>6. CASE ~failed /\ Finish(p, "read")
  <2>1. TypeOf(p) = "paid" BY <1>3, <1>6
  <2>2. QED BY <1>2, <1>4, <1>6, <2>1, FinishStep
<1>7. CASE mirror # NoMirror /\ Move(p, "read", "write") /\ job' = [job EXCEPT ![p].sub = row]
  <2>1. mirror \in Mirror BY <1>1, <1>7 DEF Types, StoreTypes
  <2>2. row \in Mirror
    BY <2>1, <1>1, BillingAssumption DEF Mirror, Statuses, Types, WorldTypes
  <2>3. job[p] \in Job BY <1>1 DEF Types, ProcTypes
  <2> HIDE DEF row
  <2>4. j \in Job BY <2>2, <2>3, JobFields, Zenon
  <2>5. [job[p] EXCEPT !.sub = row] = j BY <2>3 DEF Job
  <2>6. Moves(p, "write", j) BY <1>7, <2>5, Zenon DEF Moves, Move
  <2>7. j.ev = job[p].ev /\ j.tries = job[p].tries /\ j.sub \in Mirror BY <2>2
  <2> HIDE DEF j
  <2>8. QED BY <1>2, <2>4, <2>6, <2>7, LocalStep
<1>8. QED BY <1>5, <1>6, <1>7 DEF ReadMirror

\* A step from one license step to the next: the mirror is there, and the locals
\* stay as they are.
LEMMA OnwardStep ==
  ASSUME Inv, NEW p \in Proc, NEW to \in {"create", "apply", "cut", "publish"}, Goto(p, to), UNCHANGED job,
         pc[p] \in {"ensure", "create", "apply", "cut"},
         UNCHANGED <<world, ledger, linked, mirror, claim>>,
         StoreTypes', licenses # <<>> => licenses' # <<>>, LicenseStep(p),
         to # "create" /\ TypeOf(p) = "checkout" => licenses' # <<>>
  PROVE  StepOK(p)
<1>1. Types /\ LocalInv(p) BY TypesOfTypeOK DEF Inv, Locals, LocalInv
<1>2. job' = [job EXCEPT ![p] = job[p]] /\ job[p] \in Job BY <1>1, StaysPut
<1>3. to \in PCs /\ Moves(p, to, job[p]) BY <1>2, Zenon DEF Moves, PCs
<1>4. OwnsEvent(p)' /\ TypeOf(p)' = TypeOf(p) /\ pc'[p] = to /\ job'[p] = job[p]
  BY <1>2, <1>3, SameEvent
<1>5. AtEvent(p)' BY <1>1, <1>4 DEF AtEvent, LocalInv
<1>6. HasDone(p)'
  <2>1. mirror' # NoMirror /\ (TypeOf(p) = "checkout" => linked')
    <3>1. pc[p] \in {"ensure", "create", "apply", "cut", "publish", "ready"}
          /\ pc[p] \in {"fetch", "sync", "mirror", "ensure", "create", "apply", "cut", "publish", "ready"}
      OBVIOUS
    <3>2. QED BY <1>1, <3>1, Zenon DEF LocalInv, HasDone
  <2>2. to # "settle" /\ (to = "create" => to \notin {"apply", "cut", "publish", "ready"}) OBVIOUS
  <2>3. QED BY <2>1, <2>2, <1>4, Zenon DEF HasDone
<1>7. Kept BY Zenon DEF Kept
<1>8. QED BY <1>2, <1>3, <1>4, <1>5, <1>6, <1>7, QuietStep DEF LocalInv

LEMMA EnsureLicensesStep ==
  ASSUME Inv, NEW p \in Proc, EnsureLicenses(p)
  PROVE  StepOK(p)
<1>1. Types BY TypesOfTypeOK DEF Inv
<1>2. pc[p] = "ensure" /\ UNCHANGED <<world, store, session, job, faults>> BY DEF EnsureLicenses, Move
<1>3. StoreTypes' /\ UNCHANGED <<ledger, claim, licenses, mirror, linked>> BY <1>1, <1>2, StoreSame
<1>4. licenses # <<>> <=> Len(licenses) > 0 BY <1>1, NotEmpty DEF Types, StoreTypes
<1>5. CASE licenses = <<>>
  <2>1. Goto(p, "create") BY <1>5 DEF EnsureLicenses, Move
  <2>2. LicenseStep(p) BY <1>3, <1>5 DEF LicenseStep
  <2>3. QED BY <1>2, <1>3, <1>5, <2>1, <2>2, OnwardStep
<1>6. CASE licenses # <<>>
  <2>1. Goto(p, "apply") BY <1>4, <1>6 DEF EnsureLicenses, Move
  <2>2. LicenseStep(p) BY <1>1, <1>3, <2>1 DEF LicenseStep, Goto, Types, ProcTypes
  <2>3. QED BY <1>2, <1>3, <1>6, <2>1, <2>2, OnwardStep
<1>7. QED BY <1>5, <1>6

LEMMA CreateLicenseStep ==
  ASSUME Inv, NEW p \in Proc, CreateLicense(p)
  PROVE  StepOK(p)
<1>1. Types BY TypesOfTypeOK DEF Inv
<1>2. /\ pc[p] = "create" /\ Goto(p, "apply")
      /\ UNCHANGED <<world, ledger, linked, mirror, claim, pairing, session, job, faults>>
  BY DEF CreateLicense, Move
<1>3. licenses' \in Seq({"active", "revoked"}) /\ Len(licenses') = Len(licenses) + 1
  BY <1>1 DEF CreateLicense, Types, StoreTypes
<1>4. licenses' # <<>>
  <2>1. Len(licenses) \in Nat BY <1>1 DEF Types, StoreTypes
  <2>2. QED BY <1>3, <2>1, NotEmpty
<1>5. StoreTypes' BY <1>1, <1>2, <1>3 DEF Types, StoreTypes
<1>6. LicenseStep(p) BY <1>1, <1>2, <1>3 DEF LicenseStep, Goto, Types, ProcTypes
<1>7. QED BY <1>2, <1>4, <1>5, <1>6, OnwardStep

LEMMA SetLicensesLength ==
  ASSUME Types, NEW status \in {"active", "revoked"}, SetLicenses(status)
  PROVE  /\ licenses' \in Seq({"active", "revoked"}) /\ Len(licenses') = Len(licenses)
         /\ licenses # <<>> <=> licenses' # <<>>
<1>1. licenses \in Seq({"active", "revoked"}) /\ Len(licenses) \in Nat BY DEF Types, StoreTypes
<1>2. licenses' \in Seq({"active", "revoked"}) /\ Len(licenses') = Len(licenses)
  BY <1>1 DEF SetLicenses
<1>3. QED BY <1>1, <1>2, NotEmpty

LEMMA ApplyStep ==
  ASSUME Inv, NEW p \in Proc, Apply(p)
  PROVE  StepOK(p)
<1>1. Types /\ LocalInv(p) BY TypesOfTypeOK DEF Inv, Locals, LocalInv
<1>2. /\ pc[p] = "apply"
      /\ UNCHANGED <<world, ledger, linked, mirror, claim, pairing, session, faults>>
  BY DEF Apply, Move, Finish, End
<1>3. mirror # NoMirror /\ (TypeOf(p) = "checkout" => linked /\ licenses # <<>>)
  BY <1>1, <1>2, Zenon DEF LocalInv, HasDone
<1>4. /\ licenses' \in Seq({"active", "revoked"}) /\ Len(licenses') = Len(licenses)
      /\ licenses # <<>> <=> licenses' # <<>>
  <2>1. SetLicenses("revoked") \/ SetLicenses("active") \/ UNCHANGED licenses BY DEF Apply
  <2>2. QED BY <1>1, <2>1, SetLicensesLength DEF Types, StoreTypes
<1>5. StoreTypes' /\ Kept
  <2>1. StoreTypes' BY <1>1, <1>2, <1>4 DEF Types, StoreTypes
  <2>2. QED BY <1>2, <1>4, <2>1, Zenon DEF Kept
<1>6. CASE Goto(p, "cut") /\ UNCHANGED job
  <2>1. LicenseStep(p) BY <1>1, <1>4, <1>6 DEF LicenseStep, Goto, Types, ProcTypes
  <2>2. QED BY <1>2, <1>3, <1>4, <1>5, <1>6, <2>1, OnwardStep
<1>7. CASE Finish(p, "apply")
  <2>1. mirror' # NoMirror /\ (TypeOf(p) = "checkout" => linked' /\ licenses' # <<>>)
    BY <1>2, <1>3, <1>4, Zenon
  <2>2. QED BY <1>2, <1>4, <1>5, <1>7, <2>1, FinishStep
<1>8. QED BY <1>6, <1>7 DEF Apply, Move

LEMMA CutPairingStep ==
  ASSUME Inv, NEW p \in Proc, CutPairing(p)
  PROVE  StepOK(p)
<1>1. Types /\ LocalInv(p) BY TypesOfTypeOK DEF Inv, Locals, LocalInv
<1>2. /\ pc[p] = "cut"
      /\ UNCHANGED <<world, ledger, linked, mirror, licenses, claim, session, faults>>
  BY DEF CutPairing, Move, Finish, End
<1>3. mirror # NoMirror /\ (TypeOf(p) = "checkout" => linked /\ licenses # <<>>)
  BY <1>1, <1>2, Zenon DEF LocalInv, HasDone
<1>4. pairing' \in {"none", "active", "revoked"} BY <1>1 DEF CutPairing, Types, StoreTypes
<1>5. StoreTypes' /\ Kept
  <2>1. StoreTypes' BY <1>1, <1>2, <1>4 DEF Types, StoreTypes
  <2>2. QED BY <1>2, <2>1, Zenon DEF Kept
<1>6. CASE Goto(p, "publish") /\ UNCHANGED job
  <2>1. LicenseStep(p) BY <1>1, <1>2, <1>6 DEF LicenseStep, Goto, Types, ProcTypes
  <2>2. QED BY <1>2, <1>3, <1>5, <1>6, <2>1, OnwardStep
<1>7. CASE Finish(p, "cut")
  <2>1. mirror' # NoMirror /\ (TypeOf(p) = "checkout" => linked' /\ licenses' # <<>>)
    BY <1>2, <1>3, Zenon
  <2>2. QED BY <1>2, <1>5, <1>7, <2>1, FinishStep
<1>8. QED BY <1>6, <1>7 DEF CutPairing, Move

LEMMA PublishRevocationStep ==
  ASSUME Inv, NEW p \in Proc, PublishRevocation(p)
  PROVE  StepOK(p)
<1>1. Types /\ LocalInv(p) BY TypesOfTypeOK DEF Inv, Locals, LocalInv
<1>2. /\ pc[p] = "publish" /\ Finish(p, "publish") /\ session' = FALSE
      /\ UNCHANGED <<world, ledger, linked, mirror, licenses, claim, pairing, faults>>
  BY DEF PublishRevocation, Move, Finish, End, store
<1>3. mirror # NoMirror /\ (TypeOf(p) = "checkout" => linked /\ licenses # <<>>)
  BY <1>1, <1>2, Zenon DEF LocalInv, HasDone
<1>4. StoreTypes' /\ Kept
  <2>1. StoreTypes' BY <1>1, <1>2, ZenonT(30) DEF Types, StoreTypes
  <2>2. QED BY <1>2, <2>1, Zenon DEF Kept
<1>5. mirror' # NoMirror /\ (TypeOf(p) = "checkout" => linked' /\ licenses' # <<>>)
  BY <1>2, <1>3, Zenon
<1>6. QED BY <1>2, <1>4, <1>5, FinishStep

LEMMA MarkClaimReadyStep ==
  ASSUME Inv, NEW p \in Proc, MarkClaimReady(p)
  PROVE  StepOK(p)
<1>1. Types /\ LocalInv(p) BY TypesOfTypeOK DEF Inv, Locals, LocalInv
<1>2. /\ pc[p] = "ready" /\ Goto(p, "settle") /\ UNCHANGED job
      /\ UNCHANGED <<world, ledger, linked, mirror, licenses, pairing, session, faults>>
  BY DEF MarkClaimReady, Move
<1>3. claim' = "ready" BY <1>1 DEF MarkClaimReady, Types, StoreTypes
<1>4. TypeOf(p) = "checkout" BY <1>1, <1>2 DEF LocalInv, AtEvent
<1>5. linked' /\ mirror' # NoMirror /\ licenses' # <<>>
  BY <1>1, <1>2, <1>4, Zenon DEF LocalInv, HasDone
<1>6. job' = [job EXCEPT ![p] = job[p]] /\ job[p] \in Job BY <1>1, <1>2, StaysPut
<1>7. "settle" \in PCs /\ Moves(p, "settle", job[p]) BY <1>2, <1>6, Zenon DEF Moves, PCs
<1>8. OwnsEvent(p)' /\ TypeOf(p)' = TypeOf(p) /\ pc'[p] = "settle" /\ job'[p] = job[p]
  BY <1>2, <1>6, <1>7, SameEvent
<1>9. AtEvent(p)' BY <1>1, <1>2, <1>8 DEF AtEvent, LocalInv
<1>10. HasDone(p)'
  <2>1. Applied(TypeOf(p))' BY <1>3, <1>5 DEF Applied
  <2>2. QED BY <1>8, <2>1, Zenon DEF HasDone
<1>11. StoreTypes' BY <1>1, <1>2, <1>3 DEF Types, StoreTypes
<1>12. Kept BY <1>2, <1>3, Zenon DEF Kept
<1>13. ProcTypes' /\ OthersKept(p) BY <1>1, <1>6, <1>7, MovesFrame
<1>14. WorldTypes' /\ events' = events /\ stripe' = stripe BY <1>1, <1>2, WorldSame
<1>15. LedgerTypes' /\ LedgerStep(p) BY <1>1, <1>2 DEF Types, LedgerTypes, LedgerStep
<1>16. EventStep(p) /\ LicenseStep(p) BY <1>2, <1>8 DEF EventStep, LicenseStep
<1>17. ReadyIsUsable' BY <1>5, Zenon DEF ReadyIsUsable
<1>18. QED
  BY <1>8, <1>9, <1>10, <1>11, <1>12, <1>13, <1>14, <1>15, <1>16, <1>17, Zenon DEF StepOK, LocalInv, Types

\* The process is idle again.
LEMMA IdleLocals ==
  ASSUME Types, NEW p \in Proc, Goto(p, "idle"), job' = [job EXCEPT ![p] = Blank]
  PROVE  ProcTypes' /\ OthersKept(p) /\ LocalInv(p)' /\ EventStep(p) /\ pc'[p] = "idle"
<1>1. Moves(p, "idle", Blank) BY DEF Moves
<1>2. "idle" \in PCs BY DEF PCs
<1>3. ProcTypes' /\ OthersKept(p) /\ pc'[p] = "idle" /\ job'[p] = Blank
  BY <1>1, <1>2, BlankJob, MovesFrame, ZenonT(30)
<1>4. job'[p].ev = 0 BY <1>3, BlankJob, Zenon
<1>5. OwnsEvent(p)' /\ AtEvent(p)' /\ EventStep(p)
  BY <1>3, <1>4 DEF OwnsEvent, AtEvent, EventStep
<1>6. HasDone(p)' BY <1>3, Zenon DEF HasDone
<1>7. QED BY <1>3, <1>5, <1>6 DEF LocalInv

\* The row that Settle writes.
LEMMA SettledRow ==
  ASSUME Inv, NEW p \in Proc, Settle(p)
  PROVE  /\ job[p].ev \in 1..MaxEvents /\ job[p].ev <= Len(events)
         /\ \E row \in Row :
              /\ ledger' = [ledger EXCEPT ![job[p].ev] = row]
              /\ row.status = "processed" => pc[p] = "settle"
              /\ row.status = "failed" => row.attempts \in 1..(MaxAttempts - 1)
              /\ row.status = "dead" => row.attempts = MaxAttempts
<1>1. Types /\ LocalInv(p) BY TypesOfTypeOK DEF Inv, Locals, LocalInv
<1>2. pc[p] \in {"settle", "failed"} BY DEF Settle
<1>3. job[p].ev # 0 BY <1>1, <1>2 DEF LocalInv, AtEvent
<1>4. job[p].ev \in 1..MaxEvents /\ job[p].ev <= Len(events)
  BY <1>1, <1>3, EventTypes DEF LocalInv, OwnsEvent
<1> DEFINE n == job[p].ev
           attempts == job[p].tries + 1
           status == IF p = Worker /\ attempts >= MaxAttempts THEN "dead" ELSE "failed"
<1>5. CASE SetWebhookStatus(n, "processed", 0) /\ pc[p] = "settle"
  <2> DEFINE row == [status |-> "processed", attempts |-> 0]
  <2>1. row \in Row BY BillingAssumption DEF Row
  <2>2. ledger' = [ledger EXCEPT ![n] = row] BY <1>5 DEF SetWebhookStatus
  <2>3. row.status = "processed" OBVIOUS
  <2>4. QED BY <1>4, <1>5, <2>1, <2>2, <2>3, Zenon
<1>6. CASE SetWebhookStatus(n, status, attempts)
  <2> DEFINE row == [status |-> status, attempts |-> attempts]
  <2>1. attempts \in 1..MaxAttempts /\ (attempts = MaxAttempts => p = Worker)
    <3>1. CASE p \in Handler
      <4>1. job[p].tries = 0 /\ p # Worker BY <1>1, <1>3, <3>1, Processes DEF LocalInv, OwnsEvent
      <4>2. QED BY <4>1, BillingAssumption
    <3>2. CASE p = Worker
      <4>1. ledger[n].status = "failed" /\ job[p].tries = ledger[n].attempts
        BY <1>1, <1>3, <3>2 DEF LocalInv, OwnsEvent
      <4>2. ledger[n].attempts \in 1..(MaxAttempts - 1) BY <1>4, <4>1 DEF Inv, LedgerSound
      <4>3. QED BY <3>2, <4>1, <4>2, BillingAssumption
    <3>3. QED BY <3>1, <3>2, Processes
  <2>2. status = "dead" <=> attempts = MaxAttempts BY <2>1, BillingAssumption
  <2>3. status \in {"failed", "dead"} OBVIOUS
  <2>4. ledger' = [ledger EXCEPT ![n] = row] BY <1>6 DEF SetWebhookStatus
  <2> HIDE DEF status, attempts
  <2>5. row \in Row BY <2>1, <2>3, BillingAssumption DEF Row
  <2>6. row.status = status /\ row.attempts = attempts OBVIOUS
  <2>7. /\ row.status # "processed"
        /\ row.status = "failed" => row.attempts \in 1..(MaxAttempts - 1)
        /\ row.status = "dead" => row.attempts = MaxAttempts
    BY <2>1, <2>2, <2>3, <2>6, BillingAssumption
  <2>8. QED BY <1>4, <2>4, <2>5, <2>7, ZenonT(30)
<1>7. QED BY <1>5, <1>6 DEF Settle

LEMMA SettleStep ==
  ASSUME Inv, NEW p \in Proc, Settle(p)
  PROVE  StepOK(p)
<1>1. Types BY TypesOfTypeOK DEF Inv
<1>2. /\ Goto(p, "idle") /\ job' = [job EXCEPT ![p] = Blank]
      /\ UNCHANGED <<world, linked, mirror, licenses, claim, pairing, session, faults>>
  BY DEF Settle
<1>3. ProcTypes' /\ OthersKept(p) /\ LocalInv(p)' /\ EventStep(p) /\ pc'[p] = "idle"
  BY <1>1, <1>2, IdleLocals, Zenon
<1>4. WorldTypes' /\ events' = events /\ stripe' = stripe BY <1>1, <1>2, WorldSame
<1>5. StoreTypes' /\ LicenseStep(p) BY <1>1, <1>2, <1>3 DEF Types, StoreTypes, LicenseStep
<1>6. Kept BY <1>2, Zenon DEF Kept
<1>7. ReadyIsUsable' BY <1>2, Zenon DEF Inv, ReadyIsUsable
<1>8. LedgerTypes' /\ LedgerStep(p)
  <2>1. job[p].ev \in 1..MaxEvents /\ job[p].ev <= Len(events) BY SettledRow
  <2>2. PICK row \in Row :
              /\ ledger' = [ledger EXCEPT ![job[p].ev] = row]
              /\ row.status = "processed" => pc[p] = "settle"
              /\ row.status = "failed" => row.attempts \in 1..(MaxAttempts - 1)
              /\ row.status = "dead" => row.attempts = MaxAttempts
    BY SettledRow
  <2>3. LedgerTypes' BY <1>1, <2>1, <2>2 DEF Types, LedgerTypes
  <2>4. ledger'[job[p].ev] = row /\ \A m \in 1..MaxEvents : m # job[p].ev => ledger'[m] = ledger[m]
    BY <1>1, <2>1, <2>2 DEF Types, LedgerTypes
  <2>5. QED BY <2>1, <2>2, <2>3, <2>4, Zenon DEF LedgerStep, RowSound
<1>9. QED BY <1>3, <1>4, <1>5, <1>6, <1>7, <1>8 DEF StepOK, Types

LEMMA CallFailsStep ==
  ASSUME Inv, NEW p \in Proc, CallFails(p)
  PROVE  StepOK(p)
<1>1. Types BY TypesOfTypeOK DEF Inv
<1>2. pc[p] # "idle" /\ Fail(p, pc[p]) /\ UNCHANGED <<world, store, session>> BY DEF CallFails
<1>3. faults' \in 0..MaxFaults BY <1>1, BillingAssumption DEF CallFails, Types, StoreTypes
<1>4. StoreTypes' /\ Kept /\ UNCHANGED <<ledger, claim, licenses>>
  BY <1>1, <1>2, <1>3 DEF Types, StoreTypes, Kept, store
<1>5. QED BY <1>2, <1>4, FailStep

LEMMA StopStep ==
  ASSUME Inv, NEW p \in Proc, Stop(p)
  PROVE  StepOK(p)
<1>1. Types BY TypesOfTypeOK DEF Inv
<1>2. Goto(p, "idle") /\ job' = [job EXCEPT ![p] = Blank] /\ UNCHANGED <<world, store, session>> BY DEF Stop
<1>3. ProcTypes' /\ OthersKept(p) /\ LocalInv(p)' /\ EventStep(p) /\ pc'[p] = "idle"
  BY <1>1, <1>2, IdleLocals, Zenon
<1>4. WorldTypes' /\ events' = events /\ stripe' = stripe BY <1>1, <1>2, WorldSame
<1>5. faults' \in 0..MaxFaults BY <1>1, BillingAssumption DEF Stop, Types, StoreTypes
<1>6. StoreTypes' /\ Kept /\ UNCHANGED <<ledger, claim, licenses, mirror, linked>>
  BY <1>1, <1>2, <1>5 DEF Types, StoreTypes, Kept, store
<1>7. LicenseStep(p) BY <1>3, <1>6 DEF LicenseStep
<1>8. LedgerTypes' /\ LedgerStep(p) BY <1>1, <1>6 DEF Types, LedgerTypes, LedgerStep
<1>9. ReadyIsUsable' BY <1>6, ZenonT(30) DEF Inv, ReadyIsUsable
<1>10. QED BY <1>3, <1>4, <1>6, <1>7, <1>8, <1>9 DEF StepOK, Types

\* A process takes up an event or a reconciliation, with the subscription to apply.
LEMMA BeginStep ==
  ASSUME Inv, NEW p \in Proc, NEW n \in 0..MaxEvents, NEW t \in 0..MaxAttempts, NEW sub \in Mirror,
         Begin(p, n, t, sub), n <= Len(events), UNCHANGED <<world, session, faults>>,
         UNCHANGED <<linked, mirror, licenses, claim, pairing>>, LedgerTypes', LedgerStep(p),
         p \in Handler => n # 0 /\ t = 0 /\ ledger[n].status = "absent" /\ ledger'[n].status = "pending",
         p = Worker /\ n # 0 => /\ ledger[n].status = "failed" /\ ledger'[n].status = "failed"
                                /\ t = ledger'[n].attempts
  PROVE  StepOK(p)
<1> DEFINE j == [ev |-> n, tries |-> t, sub |-> sub, behavior |-> "valid"]
           to == IF n > 0 /\ events[n].type \in {"payment_failed", "paid"} THEN "read" ELSE "resolve"
<1>1. Types BY TypesOfTypeOK DEF Inv
<1>2. j \in Job
  <2>1. sub \in Mirror \cup {NoMirror} /\ "valid" \in {"valid", "grace", "suspended", "revoked"} OBVIOUS
  <2>2. QED BY <2>1, JobFields, Zenon
<1>3. j.ev = n /\ j.tries = t /\ j.sub = sub OBVIOUS
<1>4. to \in {"read", "resolve"} /\ to \in PCs /\ n \in Nat /\ (to = "read" => n # 0) BY BillingAssumption DEF PCs
<1>5. to = "read" => events[n].type \in {"payment_failed", "paid"} OBVIOUS
<1>6. Moves(p, to, j)
  <2>1. Fresh(n, t, sub) = j BY BlankJob, Zenon
  <2>2. job' = [job EXCEPT ![p] = Fresh(n, t, sub)] BY Zenon DEF Begin, Fresh
  <2>3. Goto(p, to) BY DEF Begin
  <2>4. QED BY <2>1, <2>2, <2>3 DEF Moves
<1> HIDE DEF j, to
<1>7. ProcTypes' /\ OthersKept(p) /\ pc'[p] = to /\ job'[p] = j BY <1>1, <1>2, <1>4, <1>6, MovesFrame
<1>8. WorldTypes' /\ events' = events /\ stripe' = stripe BY <1>1, WorldSame
<1>9. OwnsEvent(p)' BY <1>3, <1>7, <1>8 DEF OwnsEvent
<1>10. AtEvent(p)'
  <2>1. job'[p].ev = n /\ job'[p].sub \in Mirror BY <1>3, <1>7, Zenon
  <2>2. n # 0 => TypeOf(p)' = events[n].type BY <1>8, <2>1, Zenon DEF TypeOf
  <2>3. CASE to = "read" BY <1>4, <1>5, <1>7, <2>1, <2>2, <2>3, Zenon DEF AtEvent
  <2>4. CASE to = "resolve" BY <1>7, <2>1, <2>4, Zenon DEF AtEvent
  <2>5. QED BY <1>4, <2>3, <2>4, Zenon
<1>11. HasDone(p)'
  <2>1. CASE to = "read" BY <1>7, <2>1, Zenon DEF HasDone
  <2>2. CASE to = "resolve" BY <1>7, <2>2, ZenonT(30) DEF HasDone
  <2>3. QED BY <1>4, <2>1, <2>2
<1>12. EventStep(p) BY <1>3, <1>7, Processes DEF EventStep
<1>13. StoreTypes' BY <1>1 DEF Types, StoreTypes
<1>14. LicenseStep(p) BY <1>4, <1>7 DEF LicenseStep
<1>15. Kept /\ ReadyIsUsable' BY Zenon DEF Kept, Inv, ReadyIsUsable
<1>16. QED BY <1>7, <1>8, <1>9, <1>10, <1>11, <1>12, <1>13, <1>14, <1>15, ZenonT(30) DEF StepOK, LocalInv, Types

LEMMA SnapshotType ==
  ASSUME Types, NEW n \in 1..Len(events)
  PROVE  Snapshot(n) \in Mirror /\ n \in 1..MaxEvents /\ n \in 0..MaxEvents /\ n <= Len(events)
<1>1. events[n] \in Event BY DEF Types, WorldTypes
<1>2. n \in 1..MaxEvents /\ n \in 0..MaxEvents /\ n <= Len(events)
  BY BillingAssumption DEF Types, WorldTypes
<1>3. QED BY <1>1, <1>2, BillingAssumption DEF Snapshot, Event, Mirror

LEMMA ReceiveStep ==
  ASSUME Inv, NEW h \in Handler, NEW n \in 1..Len(events), Receive(h, n)
  PROVE  StepOK(h)
<1>1. Types BY TypesOfTypeOK DEF Inv
<1>2. Snapshot(n) \in Mirror /\ n \in 1..MaxEvents /\ n \in 0..MaxEvents /\ n <= Len(events)
  BY <1>1, SnapshotType
<1>3. h \in Proc /\ h # Worker BY Processes
<1>4. ledger[n] \in Row /\ ledger[n].status = "absent" BY <1>1, <1>2 DEF Types, LedgerTypes, Receive
<1> DEFINE row == [status |-> "pending", attempts |-> ledger[n].attempts]
<1>5. row \in Row /\ row.status = "pending" BY <1>4 DEF Row
<1>6. ledger' = [ledger EXCEPT ![n] = row]
  <2>1. ledger' = [ledger EXCEPT ![n] = [ledger[n] EXCEPT !.status = "pending"]] BY Zenon DEF Receive
  <2>2. [ledger[n] EXCEPT !.status = "pending"] = row BY <1>4 DEF Row
  <2>3. QED BY <2>1, <2>2, Zenon
<1> HIDE DEF row
<1>7. LedgerTypes' BY <1>1, <1>2, <1>5, <1>6 DEF Types, LedgerTypes
<1>8. ledger'[n] = row /\ \A m \in 1..MaxEvents : m # n => ledger'[m] = ledger[m]
  BY <1>1, <1>2, <1>6 DEF Types, LedgerTypes
<1>9. LedgerStep(h) BY <1>2, <1>4, <1>5, <1>8 DEF LedgerStep, RowSound
<1>10. Begin(h, n, 0, Snapshot(n)) BY DEF Receive, Dispatch
<1>11. 0 \in 0..MaxAttempts /\ n # 0 BY <1>2, BillingAssumption
<1>12. QED BY <1>2, <1>3, <1>4, <1>5, <1>7, <1>8, <1>9, <1>10, <1>11, BeginStep DEF Receive

LEMMA RetryFailedStep ==
  ASSUME Inv, NEW n \in 1..Len(events), RetryFailed(n)
  PROVE  StepOK(Worker)
<1>1. Types BY TypesOfTypeOK DEF Inv
<1>2. Snapshot(n) \in Mirror /\ n \in 1..MaxEvents /\ n \in 0..MaxEvents /\ n <= Len(events)
  BY <1>1, SnapshotType
<1>3. Worker \in Proc /\ Worker \notin Handler BY Processes
<1>4. ledger[n] \in Row /\ ledger[n].status = "failed" BY <1>1, <1>2 DEF Types, LedgerTypes, RetryFailed
<1>5. ledger[n].attempts \in 0..MaxAttempts BY <1>4 DEF Row
<1>6. UNCHANGED ledger BY DEF RetryFailed, store
<1>7. LedgerTypes' /\ LedgerStep(Worker) BY <1>1, <1>6 DEF Types, LedgerTypes, LedgerStep
<1>8. Begin(Worker, n, ledger[n].attempts, Snapshot(n)) BY DEF RetryFailed, Dispatch
<1>9. UNCHANGED <<world, session, faults>> /\ UNCHANGED <<linked, mirror, licenses, claim, pairing>>
  BY DEF RetryFailed, store
<1>10. PICK t \in 0..MaxAttempts, sub \in Mirror : t = ledger[n].attempts /\ sub = Snapshot(n)
  BY <1>2, <1>5
<1>11. Begin(Worker, n, t, sub) BY <1>8, <1>10
<1>12. QED BY <1>2, <1>3, <1>4, <1>6, <1>7, <1>9, <1>10, <1>11, BeginStep

LEMMA ReconcileStep ==
  ASSUME Inv, Reconcile
  PROVE  StepOK(Worker)
<1>1. Types BY TypesOfTypeOK DEF Inv
<1>2. PICK sub \in Mirror : sub = [status |-> stripe, grace |-> 0]
  BY <1>1, BillingAssumption DEF Reconcile, Types, WorldTypes, Mirror
<1>3. Begin(Worker, 0, 0, sub) BY <1>2 DEF Reconcile
<1>4. UNCHANGED <<world, session, faults>> /\ UNCHANGED <<linked, mirror, licenses, claim, pairing, ledger>>
  BY DEF Reconcile, store
<1>5. LedgerTypes' /\ LedgerStep(Worker) BY <1>1, <1>4 DEF Types, LedgerTypes, LedgerStep
<1>6. Worker \in Proc /\ Worker \notin Handler BY Processes
<1>7. 0 \in 0..MaxEvents /\ 0 \in 0..MaxAttempts /\ 0 <= Len(events)
  BY <1>1, BillingAssumption DEF Types, WorldTypes
<1>8. QED BY <1>3, <1>4, <1>5, <1>6, <1>7, BeginStep

----------------------------------------------------------------------------
(* Stripe, the clock and the desktop.                                      *)

\* A step of the world: no process moves and no row is written.
WorldOK ==
  /\ Types' /\ Kept /\ EventsKept /\ ReadyIsUsable' /\ (events' # <<>> => stripe' # "none")
  /\ UNCHANGED <<pc, job, ledger, licenses>>

LEMMA WorldInv ==
  ASSUME Inv, WorldOK
  PROVE  Inv'
<1>1. Types /\ Types' /\ UNCHANGED <<pc, job, ledger, licenses>> BY TypesOfTypeOK DEF Inv, WorldOK
<1>2. Locals'
  <2>1. ASSUME NEW q \in Proc PROVE LocalInv(q)'
    <3>1. LocalInv(q) /\ Kept /\ EventsKept BY DEF Inv, Locals, LocalInv, WorldOK
    <3>2. QED BY <1>1, <3>1, OtherProcess
  <2>2. QED BY <2>1 DEF Locals, LocalInv
<1>3. LicenseInv' BY <1>1 DEF Inv, LicenseInv, Creating
<1>4. TypeOK'
  BY <1>1 DEF Inv, TypeOK, Types, WorldTypes, StoreTypes, ProcTypes, LedgerTypes, Job, Row
<1>5. Len(events) \in Nat /\ Len(events') \in Nat /\ Len(events) <= Len(events')
  BY <1>1 DEF WorldOK, EventsKept, Types, WorldTypes
<1>6. EventInv' BY <1>1, <1>5 DEF Inv, EventInv, WorldOK
<1>7. LedgerSound' BY <1>1, Zenon DEF Inv, LedgerSound
<1>8. ASSUME NEW n \in 1..Len(events'), ledger'[n].status = "processed"
      PROVE  AppliedEvent(n)'
  <2>1. n \in 1..MaxEvents BY <1>1, <1>8, BillingAssumption DEF Types, WorldTypes
  <2>2. n \in 1..Len(events)
    BY <1>1, <1>5, <1>8, <2>1 DEF Inv, EventInv
  <2>3. events'[n] = events[n] BY <2>2 DEF WorldOK, EventsKept
  <2>4. Applied(events[n].type) BY <1>1, <1>8, <2>2, Zenon DEF Inv, ProcessedWasApplied, Applied
  <2>5. QED BY <2>3, <2>4, Zenon DEF WorldOK, Kept, Applied, AppliedEvent
<1>9. ProcessedWasApplied' BY <1>8, Zenon DEF ProcessedWasApplied, Applied, AppliedEvent
<1>10. QED BY <1>2, <1>3, <1>4, <1>6, <1>7, <1>9 DEF Inv, WorldOK

LEMMA ChangeStep ==
  ASSUME Inv, NEW from, NEW to \in Statuses,
         NEW types \in Seq({"checkout", "upsert", "deleted", "payment_failed", "paid"}),
         Change(from, to, types)
  PROVE  WorldOK
<1>1. Types BY TypesOfTypeOK DEF Inv
<1>2. /\ stripe' = to /\ changes' \in 0..MaxChanges
      /\ UNCHANGED <<clock, store, session, pc, job, faults>>
  BY <1>1, BillingAssumption DEF Change, Types, WorldTypes
<1>3. PICK sent \in Remaining(types) :
        /\ Len(events) + Len(sent) <= MaxEvents
        /\ events' = events \o [i \in 1..Len(sent) |-> [type |-> sent[i], status |-> to]]
  BY Zenon DEF Change
<1>4. sent \in Seq({"checkout", "upsert", "deleted", "payment_failed", "paid"}) /\ Len(sent) \in Nat
  BY RemainingEvents
<1> DEFINE new == [i \in 1..Len(sent) |-> [type |-> sent[i], status |-> to]]
<1>5. new \in Seq(Event) /\ Len(new) = Len(sent)
  <2>1. \A i \in 1..Len(sent) : [type |-> sent[i], status |-> to] \in Event BY <1>4 DEF Event
  <2>2. QED BY <2>1, <1>4
<1> HIDE DEF new
<1>6. events \in Seq(Event) /\ Len(events) \in Nat BY <1>1 DEF Types, WorldTypes
<1>7. /\ events \o new \in Seq(Event) /\ Len(events \o new) = Len(events) + Len(new)
      /\ \A i \in 1..Len(events) : (events \o new)[i] = events[i]
  BY <1>5, <1>6
<1>8. events' = events \o new BY <1>3 DEF new
<1>9. WorldTypes' /\ EventsKept
  BY <1>1, <1>2, <1>3, <1>4, <1>5, <1>6, <1>7, <1>8 DEF Types, WorldTypes, EventsKept
<1>10. StoreTypes' /\ Kept /\ UNCHANGED <<ledger, claim, licenses, mirror, linked>>
  BY <1>1, <1>2, StoreSame
<1>11. ProcTypes' /\ LedgerTypes' BY <1>1, <1>2, <1>10 DEF Types, ProcTypes, LedgerTypes
<1>12. ReadyIsUsable' BY <1>10, Zenon DEF Inv, ReadyIsUsable
<1>13. stripe' # "none" BY <1>2 DEF Statuses
<1>14. QED BY <1>2, <1>9, <1>10, <1>11, <1>12, <1>13 DEF WorldOK, Types

LEMMA StripeChangeStep == Inv /\ StripeChange => WorldOK
<1> DEFINE S == {"checkout", "upsert", "deleted", "payment_failed", "paid"}
<1>1. /\ <<"checkout", "upsert">> \in Seq(S) /\ <<"upsert", "payment_failed">> \in Seq(S)
      /\ <<"upsert", "paid">> \in Seq(S) /\ <<"upsert">> \in Seq(S) /\ <<"deleted">> \in Seq(S)
  OBVIOUS
<1>2. Statuses = {"active", "past_due", "paused", "canceled"} BY DEF Statuses
<1>3. QED BY <1>1, <1>2, ChangeStep, Zenon DEF StripeChange

LEMMA TickStep == Inv /\ Tick => WorldOK
<1> SUFFICES ASSUME Inv, Tick PROVE WorldOK OBVIOUS
<1>1. Types BY TypesOfTypeOK DEF Inv
<1>2. UNCHANGED <<stripe, changes, events, store, session, pc, job, faults>> BY DEF Tick
<1>3. clock' \in 1..MaxClock BY <1>1, BillingAssumption DEF Tick, Types, WorldTypes
<1>4. WorldTypes' /\ EventsKept BY <1>1, <1>2, <1>3 DEF Types, WorldTypes, EventsKept
<1>5. StoreTypes' /\ Kept /\ UNCHANGED <<ledger, claim, licenses, mirror, linked>>
  BY <1>1, <1>2, StoreSame
<1>6. ProcTypes' /\ LedgerTypes' BY <1>1, <1>2, <1>5 DEF Types, ProcTypes, LedgerTypes
<1>7. ReadyIsUsable' BY <1>5, Zenon DEF Inv, ReadyIsUsable
<1>8. QED BY <1>2, <1>4, <1>5, <1>6, <1>7 DEF WorldOK, Types, Inv, EventInv

LEMMA ConnectStep == Inv /\ Connect => WorldOK
<1> SUFFICES ASSUME Inv, Connect PROVE WorldOK OBVIOUS
<1>1. Types BY TypesOfTypeOK DEF Inv
<1>2. /\ UNCHANGED <<world, ledger, linked, mirror, licenses, claim, pc, job, faults>>
      /\ pairing' = "active" /\ session' = TRUE
  BY DEF Connect
<1>3. WorldTypes' /\ events' = events /\ stripe' = stripe BY <1>1, <1>2, WorldSame
<1>4. StoreTypes' /\ Kept BY <1>1, <1>2 DEF Types, StoreTypes, Kept
<1>5. ProcTypes' /\ LedgerTypes' BY <1>1, <1>2 DEF Types, ProcTypes, LedgerTypes
<1>6. ReadyIsUsable' BY <1>2, Zenon DEF Inv, ReadyIsUsable
<1>7. EventsKept BY <1>1, <1>3 DEF EventsKept, Types, WorldTypes
<1>8. QED BY <1>2, <1>3, <1>4, <1>5, <1>6, <1>7 DEF WorldOK, Types, Inv, EventInv

----------------------------------------------------------------------------
(* The theorems.                                                           *)

LEMMA InitInv == Init => Inv
<1> SUFFICES ASSUME Init PROVE Inv OBVIOUS
<1>1. WorldTypes BY BillingAssumption DEF Init, WorldTypes, Statuses
<1>2. StoreTypes
  <2>1. [status |-> "active", grace |-> 0] \in Mirror BY BillingAssumption DEF Mirror, Statuses
  <2>2. <<>> \in Seq({"active", "revoked"}) /\ <<"active">> \in Seq({"active", "revoked"}) OBVIOUS
  <2>3. 0 \in 0..MaxFaults BY BillingAssumption
  <2>4. QED BY <2>1, <2>2, <2>3, Zenon DEF Init, StoreTypes
<1>3. ProcTypes BY BlankJob, Zenon DEF Init, ProcTypes, PCs
<1>4. NoRow \in Row /\ NoRow.status = "absent" BY BillingAssumption DEF NoRow, Row
<1>5. LedgerTypes BY <1>4 DEF Init, LedgerTypes
<1>6. LicenseInv
  <2>1. Creating = {} BY DEF Init, Creating
  <2>2. Cardinality(Creating) = 0 BY <2>1, FS_EmptySet
  <2>3. Len(licenses) \in 0..1 BY DEF Init
  <2>4. MaxLicenses # 0 BY Processes, FS_EmptySet DEF MaxLicenses
  <2>5. QED BY <2>2, <2>3, <2>4, Processes DEF LicenseInv
<1>7. TypeOK BY <1>1, <1>2, <1>3, <1>5, <1>6, TypeOKOfTypes DEF Types
<1>8. ASSUME NEW p \in Proc PROVE LocalInv(p)
  <2>1. pc[p] = "idle" /\ job[p].ev = 0 BY BlankJob, Zenon DEF Init
  <2>2. OwnsEvent(p) /\ AtEvent(p) BY <2>1 DEF OwnsEvent, AtEvent
  <2>3. HasDone(p) BY <2>1, Zenon DEF HasDone
  <2>4. QED BY <2>2, <2>3 DEF LocalInv
<1>9. Locals BY <1>8 DEF Locals, LocalInv
<1>10. EventInv /\ ProcessedWasApplied BY <1>4 DEF Init, EventInv, ProcessedWasApplied
<1>11. LedgerSound
  <2>1. \A p \in Proc : job[p].ev = 0 BY BlankJob, Zenon DEF Init
  <2>2. \A n \in 1..MaxEvents : ledger[n].status = "absent" BY <1>4 DEF Init
  <2>3. QED BY <2>1, <2>2 DEF LedgerSound
<1>12. ReadyIsUsable
  <2>1. [status |-> "active", grace |-> 0] # NoMirror BY DEF NoMirror
  <2>2. <<"active">> # <<>> OBVIOUS
  <2>3. QED BY <2>1, <2>2, Zenon DEF Init, ReadyIsUsable
<1>13. QED BY <1>6, <1>7, <1>9, <1>10, <1>11, <1>12 DEF Inv

LEMMA ProcessStep ==
  ASSUME Inv, NEW p \in Proc, Step(p) \/ CallFails(p) \/ Stop(p)
  PROVE  StepOK(p)
BY ResolveAccountStep, LinkAccountStep, FetchStep, SyncStep, WriteMirrorStep, EnsureLicensesStep,
   CreateLicenseStep, ApplyStep, CutPairingStep, PublishRevocationStep, MarkClaimReadyStep,
   CancelMirrorStep, ReadMirrorStep, WriteBackStep, SettleStep, CallFailsStep, StopStep, Zenon
   DEF Step

LEMMA NextInv == Inv /\ [Next]_vars => Inv'
<1> SUFFICES ASSUME Inv, [Next]_vars PROVE Inv' OBVIOUS
<1>1. CASE StripeChange BY <1>1, StripeChangeStep, WorldInv
<1>2. CASE Tick BY <1>2, TickStep, WorldInv
<1>3. CASE Connect BY <1>3, ConnectStep, WorldInv
<1>4. CASE Reconcile BY <1>4, ReconcileStep, Processes, StepInv
<1>5. ASSUME NEW n \in 1..Len(events), NEW h \in Handler, Receive(h, n) PROVE Inv'
  BY <1>5, ReceiveStep, Processes, StepInv
<1>6. ASSUME NEW n \in 1..Len(events), RetryFailed(n) PROVE Inv'
  BY <1>6, RetryFailedStep, Processes, StepInv
<1>7. ASSUME NEW p \in Proc, Step(p) \/ CallFails(p) \/ Stop(p) PROVE Inv'
  BY <1>7, ProcessStep, StepInv
<1>8. CASE UNCHANGED vars
  <2>1. Types BY TypesOfTypeOK DEF Inv
  <2>2. UNCHANGED <<world, store, session, pc, job, faults>> BY <1>8 DEF vars
  <2>3. WorldTypes' /\ events' = events /\ stripe' = stripe BY <2>1, <2>2, WorldSame
  <2>4. StoreTypes' /\ Kept /\ UNCHANGED <<ledger, claim, licenses, mirror, linked>>
    BY <2>1, <2>2, StoreSame
  <2>5. ProcTypes' /\ LedgerTypes' BY <2>1, <2>2, <2>4 DEF Types, ProcTypes, LedgerTypes
  <2>6. ReadyIsUsable' BY <2>4, Zenon DEF Inv, ReadyIsUsable
  <2>7. EventsKept BY <2>1, <2>3 DEF EventsKept, Types, WorldTypes
  <2>8. WorldOK BY <2>2, <2>3, <2>4, <2>5, <2>6, <2>7 DEF WorldOK, Types, Inv, EventInv
  <2>9. QED BY <2>8, WorldInv
<1>9. QED BY <1>1, <1>2, <1>3, <1>4, <1>5, <1>6, <1>7, <1>8, ZenonT(30) DEF Next, Arrive

\* The inductive invariant of the ledger, of the processes that work on it and of
\* the tables they write.
THEOREM BillingInvariant == Spec => []Inv
<1>1. Init => Inv BY InitInv
<1>2. Inv /\ [Next]_vars => Inv' BY NextInv
<1>3. QED BY <1>1, <1>2, PTL DEF Spec

\* Types, and the bound on the licenses that racing processes can create for one
\* subscription: ensureLicenses reads and creates in two calls, so each process that
\* finds none adds one, and no more.
THEOREM TypeCorrect == Spec => []TypeOK
<1>1. Inv => TypeOK BY DEF Inv
<1>2. QED BY <1>1, BillingInvariant, PTL

\* However many webhook requests run beside the retry worker, no event is applied by
\* two of them at a time, and a row is dead-lettered on its MaxAttempts-th failure
\* exactly.
THEOREM OneProcessPerEvent == Spec => []LedgerSound
<1>1. Inv => LedgerSound BY DEF Inv
<1>2. QED BY <1>1, BillingInvariant, PTL

\* MarkCheckoutClaimReady never runs before the account, the mirror and a license
\* are there, whatever order the events of the purchase come in.
THEOREM ReadyClaimIsUsable == Spec => []ReadyIsUsable
<1>1. Inv => ReadyIsUsable BY DEF Inv
<1>2. QED BY <1>1, BillingInvariant, PTL

\* A row is marked processed only after its effect is in the store, also when calls
\* fail or requests stop half-way.
THEOREM ProcessedIsApplied == Spec => []ProcessedWasApplied
<1>1. Inv => ProcessedWasApplied BY DEF Inv
<1>2. QED BY <1>1, BillingInvariant, PTL
=============================================================================
