------------------------------- MODULE Pairing -------------------------------
(***************************************************************************)
(* QR pairing (internal/authservice/pairing.go, and the device registration *)
(* of handlers.go): a desktop creates a pairing token, a phone completes    *)
(* the pairing with it, either side unpairs, and meanwhile webhooks change  *)
(* the subscription.  A request is one goroutine and every store call that  *)
(* another request can interleave with is a step of its own, the three      *)
(* statements of the Postgres transaction included.                         *)
(*                                                                          *)
(* A request may stop at any step: the client went away (the context is     *)
(* canceled), a store call failed, or the process died.  What it has        *)
(* written stays; an open transaction is rolled back.                       *)
(*                                                                          *)
(* Abstractions:                                                            *)
(*  - the first two reads of a completion (token, license) are one step, as *)
(*    are the two reads of capacityAvailable: each value is used later, and *)
(*    is stale by then in either case;                                      *)
(*  - handleCreatePairingToken is one step: only its last call writes what  *)
(*    other requests read;                                                  *)
(*  - the poll only reads: it is the operator PollAnswer;                   *)
(*  - the revocations that completion, unpairing and reuse of a refresh     *)
(*    token publish change no table; what the relay does with one is in     *)
(*    RelayHub.                                                             *)
(***************************************************************************)
EXTENDS AuthStore

CONSTANTS
  Unpair,       \* requests to POST /v1/pairings/unpair
  Fallible,     \* requests that may stop before they are done
  DeviceCap,    \* device rows an account may have
  Quota,        \* the values max_pairs may take
  MaxChanges    \* bound on the changes of the subscription

ASSUME PairingAssumption ==
  /\ None \notin Completion \cup Registration \cup Phone \cup TokenRequest
  /\ None \notin PairingRow \cup CredentialRow \cup PairingTokenRow \cup RefreshTokenRow
  /\ {NoKey, "store_error"} \cap (Phone \cup {None}) = {}
  /\ Completion \cap (Registration \cup TokenRequest \cup Unpair \cup Desktop) = {}
  /\ Registration \cap (TokenRequest \cup Unpair \cup Desktop) = {}
  /\ TokenRequest \cap Unpair = {}
  /\ Fallible \subseteq Completion \cup Registration \cup TokenRequest \cup Unpair
  /\ DeviceCap \in Nat /\ Quota \subseteq Nat /\ MaxChanges \in Nat

VARIABLES
  pc,        \* pc[r]: the next step of request r
  job,       \* job[r]: the local variables of request r
  lock,      \* lock[l]: the transaction that has license row l FOR UPDATE
  maxPairs,  \* maxPairs[l]: the subscription's max_pairs
  issuable,  \* issuable[l]: the license and its subscription are valid
  changes,   \* changes of the subscription so far
  granted    \* history: every value maxPairs[l] has had

licenseVars == <<maxPairs, issuable, changes, granted>>
pairingVars == <<pc, job, lock, licenseVars>>
vars == <<storeVars, pairingVars>>

Request == Completion \cup Registration \cup TokenRequest \cup Unpair

\* tok: the pairing token presented.  key: the phone's public key.  device: the
\* device resolved.  pair: the pairing it is about.  old: the device a re-pair
\* evicts, or the refresh token presented.  max: max_pairs as read.
Blank == [tok |-> None, key |-> None, device |-> None, pair |-> None, old |-> None, max |-> 0]

Move(r, from, to) == pc[r] = from /\ pc' = [pc EXCEPT ![r] = to]

\* The request ends; its locals are gone.
End(r, from, to) == Move(r, from, to) /\ job' = [job EXCEPT ![r] = Blank]

Ended == {"idle", "done", "failed"}
InFlight(r) == pc[r] \notin Ended

PairingInit ==
  /\ StoreInit
  /\ pc = [r \in Request |-> "idle"]
  /\ job = [r \in Request |-> Blank]
  /\ lock = [l \in License |-> None]
  /\ maxPairs \in [License -> Quota]
  /\ issuable = [l \in License |-> TRUE]
  /\ changes = 0
  /\ granted = [l \in License |-> {maxPairs[l]}]

----------------------------------------------------------------------------
(* The desktop's pairing token.                                            *)

capacityAvailable(l) == ActivePairCount(l) < maxPairs[l]

activePairingsForDesktop(l, d) ==
  {p \in ListActivePairingsByLicense(l) : pairings[p].desktop = d}

CreatePairingToken(t, l, d) ==
  /\ pairingTokens[t] = None
  /\ issuable[l]
  /\ activePairingsForDesktop(l, d) # {} \/ capacityAvailable(l)
  /\ InsertPairingToken(t, l, d)
  /\ UNCHANGED <<devices, pairings, credentials, refreshTokens, pairingVars>>

\* What handlePollPairingToken answers the desktop: the phone's key, that the
\* token is still open (or has expired), or an error.
PollAnswer(t) ==
  LET p == pairingTokens[t].result
  IN CASE p # None /\ pairings[p] = None -> "store_error"
       [] p # None /\ pairings[p] # None -> devices[pairings[p].mobile]
       [] OTHER -> "pending"

----------------------------------------------------------------------------
(* handleCompletePairing.                                                  *)

\* The token must be active and its license valid.  A phone that names a device
\* (legacy path) must name a registered one; otherwise it is resolved by its key.
BeginCompletion(r, t, key) ==
  /\ PairingTokenActive(t)
  /\ issuable[pairingTokens[t].license]
  /\ \/ /\ Move(r, "idle", "find")
        /\ job' = [job EXCEPT ![r].tok = t, ![r].key = key]
     \/ \E m \in Mobile :
          /\ devices[m] # None
          /\ Move(r, "idle", "existing")
          /\ job' = [job EXCEPT ![r].tok = t, ![r].key = key, ![r].device = m]
  /\ UNCHANGED <<storeVars, lock, licenseVars>>

\* handleRegisterDevice: the same helper, without a token; the key is optional.
BeginRegistration(r, key) ==
  /\ Move(r, "idle", "find")
  /\ job' = [job EXCEPT ![r].key = key]
  /\ UNCHANGED <<storeVars, lock, licenseVars>>

\* With the device at hand, a registration is over and a completion goes on.
HaveDevice(r, from, m) ==
  IF r \in Registration THEN End(r, from, "done")
  ELSE Move(r, from, "existing") /\ job' = [job EXCEPT ![r].device = m]

\* registerOrFindDevice: find by key, else count, else refuse.
FindDevice(r) ==
  /\ pc[r] = "find"
  /\ \/ \E m \in FindDevicesByKey(job[r].key) : HaveDevice(r, "find", m)
     \/ /\ FindDevicesByKey(job[r].key) = {}
        /\ CountDevicesByAccount < DeviceCap
        /\ Move(r, "find", "register")
        /\ UNCHANGED job
     \/ /\ FindDevicesByKey(job[r].key) = {}
        /\ CountDevicesByAccount >= DeviceCap
        /\ End(r, "find", "failed")
  /\ UNCHANGED <<storeVars, lock, licenseVars>>

RegisterDevice(r) ==
  /\ HaveDevice(r, "register", r)
  /\ UpsertDevice(r, job[r].key)
  /\ UNCHANGED <<pairings, credentials, pairingTokens, refreshTokens, lock, licenseVars>>

TokenOf(r) == pairingTokens[job[r].tok]

\* An active pairing of this desktop is taken over, keeping its pair id.
FindExisting(r) ==
  LET found == activePairingsForDesktop(TokenOf(r).license, TokenOf(r).desktop)
  IN /\ pc[r] = "existing"
     /\ \/ \E p \in found :
             /\ Move(r, "existing", "consume")
             /\ job' = [job EXCEPT ![r].pair = p, ![r].old = pairings[p].mobile]
        \/ /\ found = {}
           /\ Move(r, "existing", "capacity")
           /\ UNCHANGED job
     /\ UNCHANGED <<storeVars, lock, licenseVars>>

\* The advisory check; max_pairs is kept for the insert.
CheckCapacity(r) ==
  LET l == TokenOf(r).license
  IN /\ pc[r] = "capacity"
     /\ \/ /\ capacityAvailable(l)
           /\ Move(r, "capacity", "consume")
           /\ job' = [job EXCEPT ![r].pair = r, ![r].max = maxPairs[l]]
        \/ /\ ~capacityAvailable(l)
           /\ End(r, "capacity", "failed")
     /\ UNCHANGED <<storeVars, lock, licenseVars>>

ConsumeToken(r) ==
  /\ \/ /\ Move(r, "consume", "key")
        /\ ConsumePairingToken(job[r].tok, job[r].pair)
        /\ UNCHANGED job
     \/ /\ End(r, "consume", "failed")
        /\ TokenOf(r).result # None
        /\ UNCHANGED pairingTokens
  /\ UNCHANGED <<devices, pairings, credentials, refreshTokens, lock, licenseVars>>

\* Mutation of PersistKey: the device is expected to have its key already.
PersistNoKey(r) ==
  /\ Move(r, "key", IF job[r].old # None THEN "rebind" ELSE "lock")
  /\ UNCHANGED <<storeVars, job, lock, licenseVars>>

\* The phone's key is on its device record before the pairing names the device.
PersistKey(r) ==
  /\ Move(r, "key", IF job[r].old # None THEN "rebind" ELSE "lock")
  /\ UpsertDevice(job[r].device, job[r].key)
  /\ UNCHANGED <<pairings, credentials, pairingTokens, refreshTokens, job, lock, licenseVars>>

Rebind(r) ==
  /\ Move(r, "rebind", "evict")
  /\ UpdatePairingDevices(job[r].pair, job[r].device, TokenOf(r).desktop)
  /\ UNCHANGED <<devices, credentials, pairingTokens, refreshTokens, job, lock, licenseVars>>

\* A failed revocation is logged and ignored.
Evict(r) ==
  /\ Move(r, "evict", "credential")
  /\ \/ job[r].old # job[r].device /\ RevokeRefreshTokensByDevice(job[r].old)
     \/ UNCHANGED refreshTokens
  /\ UNCHANGED <<devices, pairings, credentials, pairingTokens, job, lock, licenseVars>>

----------------------------------------------------------------------------
(* CreatePairingWithinCapacity of the Postgres store, a transaction.       *)

\* Mutation of LockLicense: SELECT without FOR UPDATE.
SelectLicense(r) ==
  /\ Move(r, "lock", "count")
  /\ lock' = [lock EXCEPT ![TokenOf(r).license] = r]
  /\ UNCHANGED <<storeVars, job, licenseVars>>

\* SELECT ... FOR UPDATE waits for the transaction that holds the row.
LockLicense(r) ==
  LET l == TokenOf(r).license
  IN /\ Move(r, "lock", "count")
     /\ lock[l] = None
     /\ lock' = [lock EXCEPT ![l] = r]
     /\ UNCHANGED <<storeVars, job, licenseVars>>

Unlock(r) == lock' = [l \in License |-> IF lock[l] = r THEN None ELSE lock[l]]

CountPairs(r) ==
  LET l == TokenOf(r).license
  IN /\ \/ /\ Move(r, "count", "commit") /\ ActivePairCount(l) < job[r].max
           /\ UNCHANGED <<job, lock>>
        \/ /\ End(r, "count", "failed") /\ ActivePairCount(l) >= job[r].max
           /\ Unlock(r)
     /\ UNCHANGED <<storeVars, licenseVars>>

\* The inserted row becomes visible, and the lock is released, at the commit.
CommitPairing(r) ==
  /\ Move(r, "commit", "credential")
  /\ InsertPairing(job[r].pair, TokenOf(r).license, job[r].device, TokenOf(r).desktop)
  /\ Unlock(r)
  /\ UNCHANGED <<devices, credentials, pairingTokens, refreshTokens, job, licenseVars>>

PutCredential(r) ==
  /\ End(r, "credential", "done")
  /\ PutPairCredential(job[r].pair, job[r].device, r)
  /\ UNCHANGED <<devices, pairings, pairingTokens, refreshTokens, lock, licenseVars>>

CompletionStep(r) ==
  \/ FindExisting(r) \/ CheckCapacity(r) \/ ConsumeToken(r)
  \/ PersistKey(r) \/ Rebind(r) \/ Evict(r)
  \/ LockLicense(r) \/ CountPairs(r) \/ CommitPairing(r) \/ PutCredential(r)

----------------------------------------------------------------------------
(* handleUnpair.                                                           *)

\* With the account secret, or with the pair's own credential.
BeginUnpair(r, p) ==
  /\ pairings[p] # None
  /\ Move(r, "idle", "revoke")
  /\ SetPairingStatus(p)
  /\ job' = [job EXCEPT ![r].pair = p]
  /\ UNCHANGED <<devices, credentials, pairingTokens, refreshTokens, lock, licenseVars>>

\* A failed revocation is logged and ignored.
RevokeCredential(r) ==
  /\ End(r, "revoke", "done")
  /\ RevokePairCredential(job[r].pair) \/ UNCHANGED credentials
  /\ UNCHANGED <<devices, pairings, pairingTokens, refreshTokens, lock, licenseVars>>

----------------------------------------------------------------------------
(* The environment.                                                        *)

\* The request stops where it is; its transaction, if any, is rolled back.
Abort(r) ==
  /\ r \in Fallible
  /\ InFlight(r)
  /\ End(r, pc[r], "failed")
  /\ Unlock(r)
  /\ UNCHANGED <<storeVars, licenseVars>>

\* Webhooks and reconciliation change max_pairs and the license's validity.
ChangeSubscription(l, n, ok) ==
  /\ changes < MaxChanges
  /\ changes' = changes + 1
  /\ maxPairs' = [maxPairs EXCEPT ![l] = n]
  /\ issuable' = [issuable EXCEPT ![l] = ok]
  /\ granted' = [granted EXCEPT ![l] = @ \cup {n}]
  /\ UNCHANGED <<storeVars, pc, job, lock>>

\* Enforcement of a terminal subscription revokes its pairings one by one.
EnforcePairing(p) ==
  /\ PairingActive(p)
  /\ ~issuable[pairings[p].license]
  /\ SetPairingStatus(p)
  /\ UNCHANGED <<devices, credentials, pairingTokens, refreshTokens, pairingVars>>

PairingStep ==
  \/ \E t \in PairingToken, l \in License, d \in Desktop : CreatePairingToken(t, l, d)
  \/ \E r \in Completion, t \in PairingToken, key \in Phone : BeginCompletion(r, t, key)
  \/ \E r \in Registration, key \in Phone \cup {NoKey} : BeginRegistration(r, key)
  \/ \E r \in Completion \cup Registration : FindDevice(r) \/ RegisterDevice(r)
  \/ \E r \in Completion : CompletionStep(r)
  \/ \E r \in Unpair, p \in Pair : BeginUnpair(r, p)
  \/ \E r \in Unpair : RevokeCredential(r)
  \/ \E r \in Request : Abort(r)
  \/ \E l \in License, n \in Quota, ok \in BOOLEAN : ChangeSubscription(l, n, ok)
  \/ \E p \in Pair : EnforcePairing(p)
=============================================================================
