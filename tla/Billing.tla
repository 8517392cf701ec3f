------------------------------- MODULE Billing -------------------------------
(***************************************************************************)
(* The Stripe mirror of the auth service (internal/billing): webhook events *)
(* are recorded in a ledger and applied by the request that received them,  *)
(* failed ones are retried by a worker, and the same worker reconciles the  *)
(* mirror with the Stripe API.  Stripe delivers events in any order, late,  *)
(* and more than once, while the subscription goes on changing.             *)
(*                                                                          *)
(* A webhook request is a goroutine (Handler), the worker another one.      *)
(* Every store call that another of them can interleave with is a step.     *)
(* A call may fail, which the handler reports in the ledger, or the request *)
(* may stop for good (canceled context, crash), which leaves the event as   *)
(* it is.  Both faults together are bounded by MaxFaults.                   *)
(*                                                                          *)
(* Abstractions:                                                            *)
(*  - one customer with one subscription, whose max_pairs is 1; trialing is *)
(*    active, unpaid and incomplete_expired are canceled;                   *)
(*  - a grace deadline is the hour it was set in; it is over when the clock *)
(*    has left that hour;                                                   *)
(*  - one paired device pair, whose live session ends when its revocation   *)
(*    is published (what the relay does with it is in RelayHub);            *)
(*  - the listings of a sweep over the licenses are one step with the       *)
(*    updates of the same sweep.                                            *)
(***************************************************************************)
EXTENDS Naturals, Sequences, FiniteSets

CONSTANTS
  Handler,      \* webhook requests that run at the same time
  Worker,       \* the retry and reconciliation worker
  MaxAttempts,  \* dispatches of an event before it is dead-lettered
  MaxClock,     \* bound on the clock
  MaxChanges,   \* bound on the changes of the subscription at Stripe
  MaxEvents,    \* bound on the events that Stripe does not give up on
  MaxFaults     \* bound on failed calls and stopped requests

ASSUME BillingAssumption ==
  /\ Worker \notin Handler /\ IsFiniteSet(Handler)
  /\ MaxAttempts \in Nat \ {0, 1} /\ MaxClock \in Nat \ {0}
  /\ MaxChanges \in Nat /\ MaxEvents \in Nat /\ MaxFaults \in Nat

VARIABLES
  clock,     \* the hour
  stripe,    \* the status of the subscription at Stripe
  changes,   \* changes of it so far
  events,    \* the events Stripe has emitted, in order
  ledger,    \* ledger[n]: the webhook_events row of event n
  linked,    \* the customer has an account
  mirror,    \* the subscription row, or NoMirror
  licenses,  \* the license rows, in order of creation, by status
  claim,     \* status of the checkout claim that waits for the purchase
  pairing,   \* the pairing of the first license
  session,   \* a live session of that pairing is connected
  pc,        \* pc[p]: the next step of process p
  job,       \* job[p]: its local variables
  faults     \* faults so far

world == <<clock, stripe, changes, events>>
store == <<ledger, linked, mirror, licenses, claim, pairing>>
vars == <<world, store, session, pc, job, faults>>

Proc == Handler \cup {Worker}
MaxLicenses == Cardinality(Proc)

Statuses == {"active", "past_due", "paused", "canceled"}
Mirror   == [status : Statuses, grace : 0..MaxClock]
NoMirror == [status |-> "none", grace |-> 0]
Event    == [type : {"checkout", "upsert", "deleted", "payment_failed", "paid"},
             status : Statuses]
NoRow    == [status |-> "absent", attempts |-> 0]

\* ev: the event number, 0 for a reconciliation.  tries: attempts of it before
\* this one.  sub: the subscription as fetched, then the row to be written.
\* behavior: what the row calls for.
Blank == [ev |-> 0, tries |-> 0, sub |-> NoMirror, behavior |-> "valid"]

Goto(p, to) == pc' = [pc EXCEPT ![p] = to]
Move(p, from, to) == pc[p] = from /\ Goto(p, to)

TypeOf(p) == IF job[p].ev = 0 THEN "reconcile" ELSE events[job[p].ev].type

\* The customer is about to buy, or did so in the past.
Init ==
  /\ clock = 1 /\ changes = 0 /\ events = <<>>
  /\ ledger = [n \in 1..MaxEvents |-> NoRow]
  /\ \/ /\ stripe = "none" /\ linked = FALSE /\ mirror = NoMirror
        /\ licenses = <<>> /\ claim = "pending"
     \/ /\ stripe = "active" /\ linked = TRUE /\ mirror = [status |-> "active", grace |-> 0]
        /\ licenses = <<"active">> /\ claim = "ready"
  /\ pairing = "none" /\ session = FALSE
  /\ pc = [p \in Proc |-> "idle"]
  /\ job = [p \in Proc |-> Blank]
  /\ faults = 0

----------------------------------------------------------------------------
(* Entitlement rules (internal/license).                                   *)

Evaluate(m) ==
  CASE m.status = "active" -> "valid"
    [] m.status = "past_due" /\ (m.grace = 0 \/ clock <= m.grace) -> "grace"
    [] m.status = "paused" -> "suspended"
    [] OTHER -> "revoked"

Issuable(b) == b \in {"valid", "grace"}
Enforced(b) == b \in {"revoked", "suspended"}

\* licenseIssuable: the license row and its subscription must both allow it.
licenseIssuable(i) == licenses[i] = "active" /\ Issuable(Evaluate(mirror))

----------------------------------------------------------------------------
(* Stripe and the clock.                                                   *)

\* What may be left of at most two events when some are given up on.
Remaining(types) == {<<>>, types} \cup {<<types[i]>> : i \in 1..Len(types)}

\* The subscription changes.  Of the events about it Stripe gives up on any, for
\* good, and goes on to deliver the others, sent.
Change(from, to, types) ==
  /\ stripe \in from
  /\ changes < MaxChanges
  /\ changes' = changes + 1
  /\ stripe' = to
  /\ \E sent \in Remaining(types) :
       /\ Len(events) + Len(sent) <= MaxEvents
       /\ events' = events \o [i \in 1..Len(sent) |-> [type |-> sent[i], status |-> to]]
  /\ UNCHANGED <<clock, store, session, pc, job, faults>>

StripeChange ==
  \/ Change({"none"}, "active", <<"checkout", "upsert">>)
  \/ Change({"active"}, "past_due", <<"upsert", "payment_failed">>)
  \/ Change({"past_due"}, "active", <<"upsert", "paid">>)
  \/ Change({"active"}, "paused", <<"upsert">>)
  \/ Change({"paused"}, "active", <<"upsert">>)
  \/ Change({"active", "past_due", "paused"}, "canceled", <<"deleted">>)

\* Time passes; it matters while a grace period runs.
Tick ==
  /\ clock < MaxClock /\ mirror.grace # 0
  /\ clock' = clock + 1
  /\ UNCHANGED <<stripe, changes, events, store, session, pc, job, faults>>

\* The desktop pairs, and connects, while the license allows tokens.
Connect ==
  /\ Len(licenses) > 0 /\ licenseIssuable(1)
  /\ pairing # "revoked" /\ ~session
  /\ pairing' = "active" /\ session' = TRUE
  /\ UNCHANGED <<world, ledger, linked, mirror, licenses, claim, pc, job, faults>>

----------------------------------------------------------------------------
(* Where the steps of a process come from.                                 *)

Begin(p, n, tries, sub) ==
  /\ pc[p] = "idle"
  /\ job' = [job EXCEPT ![p] = [Blank EXCEPT !.ev = n, !.tries = tries, !.sub = sub]]
  /\ Goto(p, IF n > 0 /\ events[n].type \in {"payment_failed", "paid"} THEN "read" ELSE "resolve")

Snapshot(n) == [status |-> events[n].status, grace |-> 0]
Dispatch(p, n, tries) == Begin(p, n, tries, Snapshot(n))

\* Mutant: a redelivered event that has failed is processed again.
ReceiveAgain(h, n) ==
  /\ ledger[n].status \in {"absent", "failed"}
  /\ ledger' = [ledger EXCEPT ![n].status = "pending"]
  /\ Dispatch(h, n, 0)
  /\ UNCHANGED <<world, linked, mirror, licenses, claim, pairing, session, faults>>

\* handleWebhook: Record, then Process.  An event that is already in the ledger
\* is a duplicate and changes nothing.
Receive(h, n) ==
  /\ ledger[n].status = "absent"
  /\ ledger' = [ledger EXCEPT ![n].status = "pending"]
  /\ Dispatch(h, n, 0)
  /\ UNCHANGED <<world, linked, mirror, licenses, claim, pairing, session, faults>>

\* RetryFailed, one event of the list.
RetryFailed(n) ==
  /\ ledger[n].status = "failed"
  /\ Dispatch(Worker, n, ledger[n].attempts)
  /\ UNCHANGED <<world, store, session, faults>>

\* Mutant: a subscription that is mirrored already is taken from the mirror.
ReconcileNew ==
  /\ stripe # "none"
  /\ Begin(Worker, 0, 0, [status |-> IF mirror = NoMirror THEN stripe ELSE mirror.status, grace |-> 0])
  /\ UNCHANGED <<world, store, session, faults>>

\* Reconcile reads the subscription from the Stripe API first.
Reconcile ==
  /\ stripe # "none"
  /\ Begin(Worker, 0, 0, [status |-> stripe, grace |-> 0])
  /\ UNCHANGED <<world, store, session, faults>>

----------------------------------------------------------------------------
(* The handlers.                                                           *)

\* The process goes on to the end of its event; a reconciliation has none.
End(p, from, to) ==
  /\ Move(p, from, IF TypeOf(p) = "reconcile" THEN "idle" ELSE to)
  /\ job' = [job EXCEPT ![p] = [Blank EXCEPT !.ev = job[p].ev, !.tries = job[p].tries]]
Finish(p, from) == End(p, from, IF TypeOf(p) = "checkout" THEN "ready" ELSE "settle")
\* Mutant: an error is logged and dropped.
FailSilently(p, from) == End(p, from, "settle")
Fail(p, from)   == End(p, from, "failed")

\* Mutant: the claim is made ready first.
ClaimFirst(p) ==
  CASE TypeOf(p) = "checkout" -> "ready"
    [] TypeOf(p) = "deleted"  -> "cancel"
    [] OTHER -> "sync"

AfterResolve(p) ==
  CASE TypeOf(p) = "checkout" -> "fetch"
    [] TypeOf(p) = "deleted"  -> "cancel"
    [] OTHER -> "sync"

\* resolveAccount: the customer's account, or a new one.
ResolveAccount(p) ==
  /\ Move(p, "resolve", IF linked THEN AfterResolve(p) ELSE "link")
  /\ UNCHANGED <<world, store, session, job, faults>>

\* The customer id is unique: the second of two new accounts is refused.
LinkAccount(p) ==
  /\ \/ linked /\ Fail(p, "link")
     \/ ~linked /\ Move(p, "link", AfterResolve(p)) /\ UNCHANGED job
  /\ linked' = TRUE
  /\ UNCHANGED <<world, ledger, mirror, licenses, claim, pairing, session, faults>>

\* A checkout event names the subscription; its state is fetched.
Fetch(p) ==
  /\ Move(p, "fetch", "sync")
  /\ job' = [job EXCEPT ![p].sub.status = stripe]
  /\ UNCHANGED <<world, store, session, faults>>

\* syncSubscription: the deadline of a running grace period is kept.
GraceOf(status) ==
  IF status # "past_due" THEN 0 ELSE IF mirror.grace = 0 THEN clock ELSE mirror.grace
Sync(p) ==
  LET row == [status |-> job[p].sub.status, grace |-> GraceOf(job[p].sub.status)]
  IN /\ Move(p, "sync", "mirror")
     /\ job' = [job EXCEPT ![p].sub = row, ![p].behavior = Evaluate(row)]
     /\ UNCHANGED <<world, store, session, faults>>

WriteMirror(p) ==
  /\ Move(p, "mirror", "ensure")
  /\ mirror' = job[p].sub
  /\ job' = [job EXCEPT ![p].sub = NoMirror]
  /\ UNCHANGED <<world, ledger, linked, licenses, claim, pairing, session, faults>>

\* Mutant: existing licenses are not counted.
EnsureAnotherLicense(p) ==
  /\ Move(p, "ensure", "create")
  /\ UNCHANGED <<world, store, session, job, faults>>

\* ensureLicenses: list, then create what is missing.
EnsureLicenses(p) ==
  /\ Move(p, "ensure", IF Len(licenses) = 0 THEN "create" ELSE "apply")
  /\ UNCHANGED <<world, store, session, job, faults>>

CreateLicense(p) ==
  /\ Move(p, "create", "apply")
  /\ licenses' = Append(licenses, "active")
  /\ UNCHANGED <<world, ledger, linked, mirror, claim, pairing, session, job, faults>>

SetLicenses(status) == licenses' = [i \in 1..Len(licenses) |-> status]

\* enforce or reactivate.  A suspension leaves the licenses as they are.
Apply(p) ==
  /\ \/ /\ job[p].behavior = "revoked"
        /\ Move(p, "apply", "cut") /\ UNCHANGED job
        /\ SetLicenses("revoked")
     \/ /\ job[p].behavior = "suspended"
        /\ Move(p, "apply", "cut") /\ UNCHANGED job
        /\ UNCHANGED licenses
     \/ /\ Issuable(job[p].behavior)
        /\ Finish(p, "apply")
        /\ SetLicenses("active")
  /\ UNCHANGED <<world, ledger, linked, mirror, claim, pairing, session, faults>>

\* Pairings that are active are revoked, or kept for a suspension, and cut.
CutPairing(p) ==
  /\ \/ /\ pairing = "active"
        /\ Move(p, "cut", "publish") /\ UNCHANGED job
        /\ pairing' = IF job[p].behavior = "revoked" THEN "revoked" ELSE pairing
     \/ /\ pairing # "active"
        /\ Finish(p, "cut")
        /\ UNCHANGED pairing
  /\ UNCHANGED <<world, ledger, linked, mirror, licenses, claim, session, faults>>

PublishRevocation(p) ==
  /\ Finish(p, "publish")
  /\ session' = FALSE
  /\ UNCHANGED <<world, store, faults>>

\* MarkCheckoutClaimReady: a claim that is no longer pending is left alone.
MarkClaimReady(p) ==
  /\ Move(p, "ready", "settle")
  /\ claim' = IF claim = "pending" THEN "ready" ELSE claim
  /\ UNCHANGED <<world, ledger, linked, mirror, licenses, pairing, session, job, faults>>

\* handleSubscriptionDeleted mirrors the terminal status and enforces it.
CancelMirror(p) ==
  /\ Move(p, "cancel", "apply")
  /\ mirror' = [status |-> "canceled", grace |-> 0]
  /\ job' = [job EXCEPT ![p].sub = NoMirror, ![p].behavior = "revoked"]
  /\ UNCHANGED <<world, ledger, linked, licenses, claim, pairing, session, faults>>

\* handleInvoicePaymentFailed and handleInvoicePaid read the row they change.  A
\* failed payment of an unknown subscription is an error, a paid one is not.
ReadMirror(p) ==
  LET failed == TypeOf(p) = "payment_failed"
      row == IF failed
             THEN [status |-> "past_due", grace |-> IF mirror.grace = 0 THEN clock ELSE mirror.grace]
             ELSE [status |-> IF mirror.status = "past_due" THEN "active" ELSE mirror.status,
                   grace |-> 0]
  IN /\ \/ mirror = NoMirror /\ failed /\ Fail(p, "read")
        \/ mirror = NoMirror /\ ~failed /\ Finish(p, "read")
        \/ /\ mirror # NoMirror
           /\ Move(p, "read", "write")
           /\ job' = [job EXCEPT ![p].sub = row]
     /\ UNCHANGED <<world, store, session, faults>>

\* A paid invoice goes on to reactivate the licenses.
WriteBack(p) ==
  /\ Move(p, "write", IF TypeOf(p) = "paid" THEN "apply" ELSE "settle")
  /\ mirror' = job[p].sub
  /\ job' = [job EXCEPT ![p].sub = NoMirror]
  /\ UNCHANGED <<world, ledger, linked, licenses, claim, pairing, session, faults>>

----------------------------------------------------------------------------
(* The ledger.                                                             *)

SetWebhookStatus(n, status, attempts) ==
  ledger' = [ledger EXCEPT ![n] = [status |-> status, attempts |-> attempts]]

\* Process and RetryFailed record the outcome.
Settle(p) ==
  LET n == job[p].ev
      attempts == job[p].tries + 1
  IN /\ \/ pc[p] = "settle" /\ SetWebhookStatus(n, "processed", 0)
        \/ /\ pc[p] = "failed"
           /\ SetWebhookStatus(n, IF p = Worker /\ attempts >= MaxAttempts THEN "dead" ELSE "failed",
                               attempts)
     /\ Goto(p, "idle")
     /\ job' = [job EXCEPT ![p] = Blank]
     /\ UNCHANGED <<world, linked, mirror, licenses, claim, pairing, session, faults>>

\* A store, Stripe or backplane call fails.
CallFails(p) ==
  /\ faults < MaxFaults
  /\ pc[p] \notin {"idle", "settle", "failed"}
  /\ Fail(p, pc[p])
  /\ faults' = faults + 1
  /\ UNCHANGED <<world, store, session>>

\* The process stops, or cannot even record the outcome.
Stop(p) ==
  /\ faults < MaxFaults
  /\ pc[p] # "idle"
  /\ Goto(p, "idle")
  /\ job' = [job EXCEPT ![p] = Blank]
  /\ faults' = faults + 1
  /\ UNCHANGED <<world, store, session>>

Step(p) ==
  \/ ResolveAccount(p) \/ LinkAccount(p) \/ Fetch(p) \/ Sync(p) \/ WriteMirror(p)
  \/ EnsureLicenses(p) \/ CreateLicense(p) \/ Apply(p) \/ CutPairing(p) \/ PublishRevocation(p)
  \/ MarkClaimReady(p) \/ CancelMirror(p) \/ ReadMirror(p) \/ WriteBack(p) \/ Settle(p)

Arrive(n) == \E h \in Handler : Receive(h, n)

Next ==
  \/ StripeChange \/ Tick \/ Connect \/ Reconcile
  \/ \E n \in 1..Len(events) : Arrive(n) \/ RetryFailed(n)
  \/ \E p \in Proc : Step(p) \/ CallFails(p) \/ Stop(p)

Spec == Init /\ [][Next]_vars

\* Requests and the worker run on; Stripe delivers every event until it has been
\* accepted; the reconciliation ticker keeps firing.
Fairness ==
  /\ \A p \in Proc : WF_vars(Step(p))
  /\ \A n \in 1..MaxEvents : WF_vars(n <= Len(events) /\ Arrive(n))
  /\ WF_vars(Reconcile)

FairSpec == Spec /\ Fairness

----------------------------------------------------------------------------
(* Type correctness.                                                       *)

PCs == {"idle", "resolve", "link", "fetch", "sync", "mirror", "ensure", "create", "apply", "cut",
        "publish", "ready", "cancel", "read", "write", "settle", "failed"}

\* Type correctness of the ledger, of the mirrored tables and of the processes.
TypeOK ==
  /\ clock \in 1..MaxClock
  /\ stripe \in Statuses \cup {"none"}
  /\ changes \in 0..MaxChanges
  /\ events \in Seq(Event) /\ Len(events) <= MaxEvents
  /\ ledger \in [1..MaxEvents -> [status : {"absent", "pending", "processed", "failed", "dead"},
                                  attempts : 0..MaxAttempts]]
  /\ linked \in BOOLEAN
  /\ mirror \in Mirror \cup {NoMirror}
  /\ licenses \in Seq({"active", "revoked"}) /\ Len(licenses) <= MaxLicenses
  /\ claim \in {"pending", "ready"}
  /\ pairing \in {"none", "active", "revoked"}
  /\ session \in BOOLEAN
  /\ pc \in [Proc -> PCs]
  /\ job \in [Proc -> [ev : 0..MaxEvents, tries : 0..MaxAttempts, sub : Mirror \cup {NoMirror},
                       behavior : {"valid", "grace", "suspended", "revoked"}]]
  /\ faults \in 0..MaxFaults

----------------------------------------------------------------------------
(* Safety.                                                                 *)

\* The ledger shares the events out among request and worker: the request that
\* inserted a row owns it until it is marked failed, and then the worker does, so
\* that no event is applied by two processes at a time; and a row is given up on
\* its MaxAttempts-th failure, not before and not after.
LedgerSound ==
  /\ \A p, q \in Proc : job[p].ev # 0 /\ job[p].ev = job[q].ev => p = q
  /\ \A n \in 1..MaxEvents :
       /\ ledger[n].status = "failed" => ledger[n].attempts \in 1..(MaxAttempts - 1)
       /\ ledger[n].status = "dead" => ledger[n].attempts = MaxAttempts

\* A desktop that finds its claim ready has an account, a mirrored subscription and
\* a license to pair with, whatever order the events of the purchase came in.
ReadyIsUsable == claim = "ready" => linked /\ mirror # NoMirror /\ licenses # <<>>

\* An event is marked processed only after what it stands for was done: the claim
\* of a purchase is ready, and a subscription event has left a mirror.
ProcessedWasApplied ==
  \A n \in 1..Len(events) : ledger[n].status = "processed" =>
    /\ events[n].type = "checkout" => claim = "ready"
    /\ events[n].type \in {"checkout", "upsert", "deleted", "payment_failed"} => mirror # NoMirror

----------------------------------------------------------------------------
(* Liveness.                                                               *)

\* The mirror, the licenses and the pairing say what Stripe says.
Healed ==
  stripe # "none" =>
    /\ mirror.status = stripe
    /\ Issuable(Evaluate(mirror)) => licenses # <<>> /\ \A i \in 1..Len(licenses) : licenses[i] = "active"
    /\ Evaluate(mirror) = "revoked" =>
         pairing # "active" /\ \A i \in 1..Len(licenses) : licenses[i] = "revoked"

\* Once the subscription has stopped changing, reconciliation brings the mirror and
\* everything derived from it to Stripe's state for good, whatever events were
\* lost, late, duplicated or applied out of order, and whatever calls failed.
MirrorHeals == <>[]Healed
=============================================================================
