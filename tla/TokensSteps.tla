---------------------------- MODULE TokensSteps -----------------------------
(***************************************************************************)
(* What a step of pairing and token requests (AuthStore, Pairing, Tokens)   *)
(* does, for every number of completions, registrations, unpairings and     *)
(* token requests, every quota and every interleaving of their store calls  *)
(* with aborts, webhooks and enforcement: one lemma per action on types and *)
(* locals, then the grants, the poll, the members and the token chains.     *)
(* The capacity of a license and the theorems are in TokensProofs.          *)
(***************************************************************************)
EXTENDS Tokens, TLAPS

----------------------------------------------------------------------------
(* What a request knows at each of its steps.                              *)

\* A completion has read its token and its phone's key; from "existing" on it has
\* a registered device; from "consume" on it has either the pairing of the desktop
\* to take over or a pair id of its own and the max_pairs it read; its own pair id
\* names a row only once it has committed.
CompletionLocals(r) ==
  /\ pc[r] \in Ended \cup {"find", "register", "existing", "capacity", "consume", "key",
                           "rebind", "evict", "lock", "count", "commit", "credential"}
  /\ InFlight(r) =>
       /\ job[r].tok \in PairingToken /\ pairingTokens[job[r].tok] # None
       /\ job[r].key \in Phone
  /\ InFlight(r) /\ pc[r] \notin {"find", "register"} =>
       job[r].device \in Mobile /\ devices[job[r].device] # None
  /\ pc[r] \in {"rebind", "evict", "lock", "count", "commit", "credential"} =>
       devices[job[r].device] \in Phone
  /\ pc[r] \in {"consume", "key", "rebind", "evict", "lock", "count", "commit", "credential"} =>
       /\ job[r].pair \in Pair
       /\ \/ job[r].old \in Mobile /\ pairings[job[r].pair] # None
          \/ /\ job[r].old = None /\ job[r].pair = r
             /\ job[r].max \in granted[TokenOf(r).license]
  /\ pc[r] \in {"rebind", "evict"} => job[r].old # None
  /\ pc[r] \in {"find", "register", "existing", "capacity", "lock", "count", "commit"} =>
       job[r].old = None
  /\ pc[r] = "credential" => pairings[job[r].pair] # None
  /\ pairings[r] # None => pc[r] \in {"credential", "done", "failed"}

\* A registration may have no key; it names its device after itself.
RegistrationLocals(r) ==
  /\ pc[r] \in Ended \cup {"find", "register"}
  /\ InFlight(r) => job[r].key \in Phone \cup {NoKey}

\* A token request knows a device and a pairing that exists, and, when it refreshes,
\* the stored token it presented.
TokenLocals(r) ==
  /\ pc[r] \in Ended \cup {"reuse", "member", "license", "rotate", "mint"}
  /\ InFlight(r) =>
       /\ job[r].device \in Device /\ job[r].pair \in Pair
       /\ pairings[job[r].pair] # None
       /\ job[r].old \in TokenRequest \cup {None}
       /\ job[r].old # None => refreshTokens[job[r].old] # None
  /\ pc[r] \in {"reuse", "member", "rotate"} => job[r].old # None
  /\ refreshTokens[r] # None =>
       pc[r] = "done" /\ pairings[refreshTokens[r].pair] # None

UnpairLocals(r) ==
  /\ pc[r] \in Ended \cup {"revoke"}
  /\ InFlight(r) => job[r].pair \in Pair

\* A device row is inserted by the request it is named after.
Unregistered(r) == pc[r] \in {"idle", "find", "register"} => devices[r] = None

\* The row lock: license row l is held by the completion that counts or commits
\* its pairings.
LockHeld(r) ==
  \A l \in License : lock[l] = r <=> pc[r] \in {"count", "commit"} /\ TokenOf(r).license = l

Own(r) ==
  /\ pc[r] \in Ended => job[r] = Blank
  /\ r \in Completion => CompletionLocals(r) /\ LockHeld(r)
  /\ r \in Registration => RegistrationLocals(r)
  /\ r \in TokenRequest => TokenLocals(r)
  /\ r \in Unpair => UnpairLocals(r)
  /\ r \in Mobile => Unregistered(r)

Locals == \A r \in Request : Own(r)

\* The subscription's max_pairs is among those it has had.
GrantInv == \A l \in License : maxPairs[l] \in granted[l]

\* A license has finitely many pairings, no more than granted; one more is within
\* what the transaction about to commit has read.
CapacityInv ==
  /\ IsFiniteSet({p \in Pair : pairings[p] # None})
  /\ \A r \in Completion : pc[r] = "commit" => ActivePairCount(TokenOf(r).license) < job[r].max

\* A paired phone has its key, and a consumed token names a pairing that exists
\* or whose completion is still at work or failed.
PollInv ==
  /\ \A p \in Pair : pairings[p] # None => devices[pairings[p].mobile] \in Phone
  /\ \A t \in PairingToken :
       pairingTokens[t] # None /\ pairingTokens[t].result # None =>
         LET p == pairingTokens[t].result
         IN \/ pairings[p] # None
            \/ pc[p] = "failed"
            \/ pc[p] \in {"key", "lock", "count", "commit"} /\ job[p].old = None

\* Each check a request has passed left its mark.
MemberInv ==
  \A r \in TokenRequest :
    /\ pc[r] \in {"license", "rotate", "mint"} => wasMember[r]
    /\ pc[r] \in {"rotate", "mint"} => wasIssuable[r]

\* Chains start at a request that is done, and every stored token is on one.
ChainInv ==
  /\ \A x \in TokenRequest : chain[x] # None => pc[chain[x]] = "done"
  /\ \A x \in TokenRequest : chain[x] # None <=> refreshTokens[x] # None
  /\ \A c, x, y \in TokenRequest : x \in Live(c) /\ y \in Live(c) => x = y

----------------------------------------------------------------------------
(* Steps: no row is ever deleted, and a request only touches its own rows. *)

\* Rows are never deleted.  A pairing token keeps its license and desktop, a
\* pairing its license, a refresh token its pairing; a key is never taken off a
\* device, and what was granted was granted.
RowsKept ==
  /\ \A t \in PairingToken : pairingTokens[t] # None =>
       /\ pairingTokens'[t] # None
       /\ pairingTokens'[t].license = pairingTokens[t].license
       /\ pairingTokens'[t].desktop = pairingTokens[t].desktop
  /\ \A m \in Mobile : devices[m] # None => devices'[m] # None
  /\ \A m \in Mobile : devices[m] \in Phone => devices'[m] \in Phone
  /\ \A p \in Pair : pairings[p] # None =>
       pairings'[p] # None /\ pairings'[p].license = pairings[p].license
  /\ \A x \in TokenRequest : refreshTokens[x] # None =>
       refreshTokens'[x] # None /\ refreshTokens'[x].pair = refreshTokens[x].pair
  /\ \A l \in License : granted[l] \subseteq granted'[l]

\* Requests outside R keep their program counter and locals and hold the locks
\* they held, and the rows they would insert are still missing if they were.
Frame(R) ==
  \A s \in Request \ R :
    /\ pc'[s] = pc[s] /\ job'[s] = job[s]
    /\ \A l \in License : s \in Completion => (lock'[l] = s <=> lock[l] = s)
    /\ s \in Mobile /\ devices[s] = None => devices'[s] = None
    /\ s \in Pair /\ pairings[s] = None => pairings'[s] = None
    /\ s \in TokenRequest /\ refreshTokens[s] = None => refreshTokens'[s] = None

\* What holds of a request's locals survives every step of the others.
LEMMA OthersKeep ==
  ASSUME TypeOK, Locals, RowsKept, NEW R, Frame(R), \A r \in R : r \in Request => Own(r)'
  PROVE  Locals'
<1> SUFFICES ASSUME NEW s \in Request, s \notin R
             PROVE  Own(s)'
  BY Zenon DEF Locals
<1>1. /\ Own(s) /\ pc'[s] = pc[s] /\ job'[s] = job[s]
      /\ \A l \in License : s \in Completion => (lock'[l] = s <=> lock[l] = s)
      /\ s \in Mobile /\ devices[s] = None => devices'[s] = None
      /\ s \in Pair /\ pairings[s] = None => pairings'[s] = None
      /\ s \in TokenRequest /\ refreshTokens[s] = None => refreshTokens'[s] = None
  BY Zenon DEF Locals, Frame
<1>2. (pc[s] \in Ended => job[s] = Blank)'
  BY <1>1 DEF Own, Ended, Blank
<1>3. ASSUME s \in Completion PROVE CompletionLocals(s)' /\ LockHeld(s)'
  <2>1. CompletionLocals(s) /\ LockHeld(s)
    BY <1>1, <1>3, ZenonT(20) DEF Own
  <2>2. CompletionLocals(s)'
    <3>1. InFlight(s) =>
            /\ TokenOf(s).license \in License
            /\ TokenOf(s)' # None /\ TokenOf(s)'.license = TokenOf(s).license
            /\ granted[TokenOf(s).license] \subseteq granted'[TokenOf(s).license]
      BY <1>1, <2>1 DEF CompletionLocals, TypeOK, StoreTypeOK, PairingTokenRow, RowsKept, TokenOf
    <3>2. pc[s] \in {"consume", "key", "rebind", "evict", "lock", "count", "commit", "credential"}
            => InFlight(s)
      BY DEF InFlight, Ended
    <3>3. /\ \A m \in Mobile : devices[m] # None => devices'[m] # None
          /\ \A m \in Mobile : devices[m] \in Phone => devices'[m] \in Phone
          /\ \A p \in Pair : pairings[p] # None => pairings'[p] # None
      BY ZenonT(20) DEF RowsKept
    <3> QED
      BY <1>1, <1>3, <2>1, <3>1, <3>2, <3>3, ZenonT(20) DEF CompletionLocals, TokenOf, Pair, InFlight, Ended
  <2>3. LockHeld(s)'
    BY <1>1, <1>3, <2>1 DEF CompletionLocals, LockHeld, RowsKept, TokenOf, InFlight, Ended
  <2> QED BY <2>2, <2>3
<1>4. ASSUME s \in Registration PROVE RegistrationLocals(s)'
  BY <1>1, <1>4, ZenonT(20) DEF Own, RegistrationLocals, InFlight
<1>5. ASSUME s \in TokenRequest PROVE TokenLocals(s)'
  <2>1. refreshTokens[s] # None => refreshTokens[s].pair \in Pair
    BY <1>5 DEF TypeOK, StoreTypeOK, RefreshTokenRow
  <2> QED BY <1>1, <1>5, <2>1 DEF Own, TokenLocals, RowsKept, InFlight, Ended
<1>6. ASSUME s \in Unpair PROVE UnpairLocals(s)'
  BY <1>1, <1>6, ZenonT(20) DEF Own, UnpairLocals, InFlight
<1>7. ASSUME s \in Mobile PROVE Unregistered(s)'
  BY <1>1, <1>7 DEF Own, Unregistered
<1> QED BY <1>2, <1>3, <1>4, <1>5, <1>6, <1>7 DEF Own

----------------------------------------------------------------------------
(* The store methods: types, and which rows they touch.                    *)

LEMMA DevicesStep ==
  ASSUME TypeOK, NEW m \in Mobile, NEW key \in Phone \cup {NoKey}, UpsertDevice(m, key),
         devices[m] = None \/ key \in Phone
  PROVE  /\ devices' \in [Mobile -> Phone \cup {NoKey, None}]
         /\ devices'[m] = key /\ key # None
         /\ \A n \in Mobile : n # m => devices'[n] = devices[n]
         /\ \A n \in Mobile : devices[n] # None => devices'[n] # None
         /\ \A n \in Mobile : devices[n] \in Phone => devices'[n] \in Phone
<1>1. None \notin Phone /\ NoKey # None
  BY PairingAssumption
<1> QED BY <1>1 DEF TypeOK, StoreTypeOK, UpsertDevice

LEMMA InsertPairingStep ==
  ASSUME TypeOK, NEW p \in Pair, NEW l \in License, NEW m \in Mobile, NEW d \in Desktop,
         pairings[p] = None, InsertPairing(p, l, m, d)
  PROVE  /\ pairings' \in [Pair -> PairingRow \cup {None}]
         /\ pairings'[p] = [license |-> l, mobile |-> m, desktop |-> d, status |-> "active"]
         /\ pairings'[p] # None
         /\ \A q \in Pair : q # p => pairings'[q] = pairings[q]
<1>1. [license |-> l, mobile |-> m, desktop |-> d, status |-> "active"] \in PairingRow
  BY DEF PairingRow
<1>2. None \notin PairingRow
  BY PairingAssumption
<1> QED BY <1>1, <1>2, Zenon DEF TypeOK, StoreTypeOK, InsertPairing

\* A status change or a change of devices keeps the row and its license.
LEMMA RevokePairingStep ==
  ASSUME TypeOK, NEW p \in Pair, pairings[p] # None, SetPairingStatus(p)
  PROVE  /\ pairings' \in [Pair -> PairingRow \cup {None}]
         /\ pairings'[p] # None
         /\ pairings'[p].license = pairings[p].license
         /\ pairings'[p].mobile = pairings[p].mobile
         /\ pairings'[p].status = "revoked"
         /\ \A q \in Pair : q # p => pairings'[q] = pairings[q]
<1>1. None \notin PairingRow
  BY PairingAssumption
<1>2. pairings[p] \in PairingRow /\ pairings \in [Pair -> PairingRow \cup {None}]
  BY DEF TypeOK, StoreTypeOK
<1>3. [pairings[p] EXCEPT !.status = "revoked"] \in PairingRow
  BY <1>2 DEF PairingRow
<1> QED BY <1>1, <1>2, <1>3 DEF SetPairingStatus, PairingRow

LEMMA UpdatePairingStep ==
  ASSUME TypeOK, NEW p \in Pair, NEW m \in Mobile, NEW d \in Desktop,
         pairings[p] # None, UpdatePairingDevices(p, m, d)
  PROVE  /\ pairings' \in [Pair -> PairingRow \cup {None}]
         /\ pairings'[p] = [license |-> pairings[p].license, mobile |-> m,
                            desktop |-> d, status |-> pairings[p].status]
         /\ pairings'[p] # None
         /\ \A q \in Pair : q # p => pairings'[q] = pairings[q]
<1> DEFINE row == [pairings[p] EXCEPT !.mobile = m]
<1>1. None \notin PairingRow
  BY PairingAssumption
<1>2. pairings[p] \in PairingRow /\ pairings \in [Pair -> PairingRow \cup {None}]
  BY DEF TypeOK, StoreTypeOK
<1>3. row = [license |-> pairings[p].license, mobile |-> m,
             desktop |-> pairings[p].desktop, status |-> pairings[p].status]
  BY <1>2 DEF PairingRow
<1>4. pairings' = [pairings EXCEPT ![p] = [row EXCEPT !.desktop = d]]
  BY <1>2, Zenon DEF UpdatePairingDevices
<1> HIDE DEF row
<1>5. [row EXCEPT !.desktop = d] = [license |-> pairings[p].license, mobile |-> m,
                                    desktop |-> d, status |-> pairings[p].status]
  BY <1>3
<1>6. [row EXCEPT !.desktop = d] \in PairingRow
  BY <1>2, <1>5 DEF PairingRow
<1> QED BY <1>1, <1>2, <1>4, <1>5, <1>6, Zenon

LEMMA CredentialsStep ==
  ASSUME TypeOK
  PROVE  /\ \A p \in Pair, m \in Mobile, r \in Completion :
              PutPairCredential(p, m, r) => credentials' \in [Pair -> CredentialRow \cup {None}]
         /\ \A p \in Pair :
              RevokePairCredential(p) => credentials' \in [Pair -> CredentialRow \cup {None}]
<1>1. credentials \in [Pair -> CredentialRow \cup {None}]
  BY DEF TypeOK, StoreTypeOK
<1>2. ASSUME NEW p \in Pair, NEW m \in Mobile, NEW r \in Completion, PutPairCredential(p, m, r)
      PROVE  credentials' \in [Pair -> CredentialRow \cup {None}]
  <2>1. [mobile |-> m, secret |-> r, revoked |-> FALSE] \in CredentialRow
    BY DEF CredentialRow
  <2> QED BY <1>1, <1>2, <2>1, Zenon DEF PutPairCredential
<1>3. ASSUME NEW p \in Pair, RevokePairCredential(p)
      PROVE  credentials' \in [Pair -> CredentialRow \cup {None}]
  <2>1. ASSUME credentials[p] # None PROVE [credentials[p] EXCEPT !.revoked = TRUE] \in CredentialRow
    BY <1>1, <2>1, Zenon DEF CredentialRow
  <2> QED BY <1>1, <1>3, <2>1, Zenon DEF RevokePairCredential
<1> QED BY <1>2, <1>3

LEMMA InsertTokenStep ==
  ASSUME TypeOK, NEW t \in PairingToken, NEW l \in License, NEW d \in Desktop,
         InsertPairingToken(t, l, d)
  PROVE  /\ pairingTokens' \in [PairingToken -> PairingTokenRow \cup {None}]
         /\ pairingTokens'[t].result = None
         /\ \A u \in PairingToken : u # t => pairingTokens'[u] = pairingTokens[u]
<1>1. [license |-> l, desktop |-> d, result |-> None] \in PairingTokenRow
  BY DEF PairingTokenRow
<1> QED BY <1>1 DEF TypeOK, StoreTypeOK, InsertPairingToken

LEMMA ConsumeTokenStep ==
  ASSUME TypeOK, NEW t \in PairingToken, NEW p \in Pair,
         pairingTokens[t] # None, ConsumePairingToken(t, p)
  PROVE  /\ pairingTokens' \in [PairingToken -> PairingTokenRow \cup {None}]
         /\ pairingTokens'[t] = [license |-> pairingTokens[t].license,
                                 desktop |-> pairingTokens[t].desktop, result |-> p]
         /\ pairingTokens'[t] # None
         /\ \A u \in PairingToken : u # t => pairingTokens'[u] = pairingTokens[u]
<1>1. None \notin PairingTokenRow
  BY PairingAssumption
<1>2. /\ pairingTokens[t] \in PairingTokenRow
      /\ pairingTokens \in [PairingToken -> PairingTokenRow \cup {None}]
  BY DEF TypeOK, StoreTypeOK
<1>3. [pairingTokens[t] EXCEPT !.result = p] =
        [license |-> pairingTokens[t].license, desktop |-> pairingTokens[t].desktop, result |-> p]
  BY <1>2 DEF PairingTokenRow
<1>4. [pairingTokens[t] EXCEPT !.result = p] \in PairingTokenRow
  BY <1>2, <1>3 DEF PairingTokenRow
<1> QED BY <1>1, <1>2, <1>3, <1>4, Zenon DEF ConsumePairingToken

\* Each revocation revokes rows and changes nothing else of them.
Revoked(x) ==
  /\ refreshTokens'[x].revoked = TRUE
  /\ refreshTokens[x] # None /\ refreshTokens'[x] # None
  /\ refreshTokens'[x].device = refreshTokens[x].device
  /\ refreshTokens'[x].pair = refreshTokens[x].pair

LEMMA RevokedRow ==
  ASSUME NEW row \in RefreshTokenRow
  PROVE  /\ [row EXCEPT !.revoked = TRUE] =
              [device |-> row.device, pair |-> row.pair, revoked |-> TRUE]
         /\ [row EXCEPT !.revoked = TRUE] \in RefreshTokenRow
<1>1. PICK b : b = TRUE
  BY Zenon
<1>2. PICK B : B = BOOLEAN
  OBVIOUS
<1>5. row \in [device : Device, pair : Pair, revoked : B]
  BY <1>2, Zenon DEF RefreshTokenRow
<1>6. [row EXCEPT !.revoked = b] = [device |-> row.device, pair |-> row.pair, revoked |-> b]
  BY <1>5, SMT
<1>3. [row EXCEPT !.revoked = TRUE] = [device |-> row.device, pair |-> row.pair, revoked |-> TRUE]
  BY <1>1, <1>6, Zenon
<1>4. [row EXCEPT !.revoked = TRUE] \in RefreshTokenRow
  BY <1>3, Zenon DEF RefreshTokenRow
<1> QED BY <1>3, <1>4

LEMMA RevokeTokenStep ==
  ASSUME TypeOK, NEW x \in TokenRequest, refreshTokens[x] # None, RevokeRefreshToken(x)
  PROVE  /\ refreshTokens' \in [TokenRequest -> RefreshTokenRow \cup {None}]
         /\ Revoked(x)
         /\ \A y \in TokenRequest : y # x => refreshTokens'[y] = refreshTokens[y]
<1>1. None \notin RefreshTokenRow
  BY PairingAssumption
<1>2. /\ refreshTokens[x] \in RefreshTokenRow
      /\ refreshTokens \in [TokenRequest -> RefreshTokenRow \cup {None}]
  BY DEF TypeOK, StoreTypeOK
<1>3. [refreshTokens[x] EXCEPT !.revoked = TRUE] =
        [device |-> refreshTokens[x].device, pair |-> refreshTokens[x].pair, revoked |-> TRUE]
  BY <1>2, RevokedRow
<1>4. [refreshTokens[x] EXCEPT !.revoked = TRUE] \in RefreshTokenRow
  BY <1>2, RevokedRow, Zenon
<1>5. /\ refreshTokens'[x] = [refreshTokens[x] EXCEPT !.revoked = TRUE]
      /\ \A y \in TokenRequest : y # x => refreshTokens'[y] = refreshTokens[y]
      /\ refreshTokens' \in [TokenRequest -> RefreshTokenRow \cup {None}]
  BY <1>2, <1>4, Zenon DEF RevokeRefreshToken
<1> QED BY <1>1, <1>2, <1>3, <1>4, <1>5, Zenon DEF Revoked

LEMMA RevokeDeviceStep ==
  ASSUME TypeOK, NEW d, RevokeRefreshTokensByDevice(d)
  PROVE  /\ refreshTokens' \in [TokenRequest -> RefreshTokenRow \cup {None}]
         /\ \A y \in TokenRequest : Revoked(y) \/ refreshTokens'[y] = refreshTokens[y]
<1>1. None \notin RefreshTokenRow
  BY PairingAssumption
<1>2. refreshTokens \in [TokenRequest -> RefreshTokenRow \cup {None}]
  BY DEF TypeOK, StoreTypeOK
<1>3. ASSUME NEW x \in TokenRequest, refreshTokens[x] # None
      PROVE  /\ [refreshTokens[x] EXCEPT !.revoked = TRUE] =
                  [device |-> refreshTokens[x].device, pair |-> refreshTokens[x].pair, revoked |-> TRUE]
             /\ [refreshTokens[x] EXCEPT !.revoked = TRUE] \in RefreshTokenRow
  <2>1. refreshTokens[x] \in RefreshTokenRow
    BY <1>2, <1>3
  <2> QED BY <2>1, RevokedRow
<1>4. \A x \in TokenRequest :
        \/ refreshTokens[x] # None /\ refreshTokens'[x] = [refreshTokens[x] EXCEPT !.revoked = TRUE]
        \/ refreshTokens'[x] = refreshTokens[x]
  BY <1>2, Zenon DEF RevokeRefreshTokensByDevice
<1>5. \A x \in TokenRequest : refreshTokens'[x] \in RefreshTokenRow \cup {None}
  BY <1>2, <1>3, <1>4, Zenon
<1>6. refreshTokens' \in [TokenRequest -> RefreshTokenRow \cup {None}]
  BY <1>5, Zenon DEF RevokeRefreshTokensByDevice
<1>7. ASSUME NEW y \in TokenRequest PROVE Revoked(y) \/ refreshTokens'[y] = refreshTokens[y]
  <2>1. CASE refreshTokens'[y] = refreshTokens[y]
    BY <2>1
  <2>2. CASE refreshTokens[y] # None /\ refreshTokens'[y] = [refreshTokens[y] EXCEPT !.revoked = TRUE]
    <3>1. refreshTokens'[y] \in RefreshTokenRow
      BY <1>3, <2>2, Zenon
    <3>2. refreshTokens'[y] = [device |-> refreshTokens[y].device,
                               pair |-> refreshTokens[y].pair, revoked |-> TRUE]
      BY <1>3, <2>2, Zenon
    <3> QED BY <1>1, <2>2, <3>1, <3>2, Zenon DEF Revoked
  <2> QED BY <1>4, <2>1, <2>2, Zenon
<1> QED BY <1>6, <1>7

LEMMA PutTokenStep ==
  ASSUME TypeOK, NEW x \in TokenRequest, NEW d \in Device, NEW p \in Pair, PutRefreshToken(x, d, p)
  PROVE  /\ refreshTokens' \in [TokenRequest -> RefreshTokenRow \cup {None}]
         /\ refreshTokens'[x] = [device |-> d, pair |-> p, revoked |-> FALSE]
         /\ refreshTokens'[x] # None
         /\ \A y \in TokenRequest : y # x => refreshTokens'[y] = refreshTokens[y]
<1>1. None \notin RefreshTokenRow
  BY PairingAssumption
<1>2. [device |-> d, pair |-> p, revoked |-> FALSE] \in RefreshTokenRow
  BY DEF RefreshTokenRow
<1> QED BY <1>1, <1>2, Zenon DEF TypeOK, StoreTypeOK, PutRefreshToken

LEMMA UnlockStep ==
  ASSUME TypeOK, NEW r \in Request, Unlock(r)
  PROVE  /\ lock' \in [License -> Completion \cup {None}]
         /\ \A l \in License : r \in Completion => lock'[l] # r
         /\ \A l \in License, s \in Completion \ {r} : lock'[l] = s <=> lock[l] = s
<1>1. None \notin Completion
  BY PairingAssumption
<1>2. lock \in [License -> Completion \cup {None}]
  BY DEF TypeOK
<1>3. \A l \in License : lock'[l] = IF lock[l] = r THEN None ELSE lock[l]
  BY Zenon DEF Unlock
<1>4. lock' \in [License -> Completion \cup {None}]
  BY <1>2, Zenon DEF Unlock
<1> QED BY <1>1, <1>2, <1>3, <1>4

----------------------------------------------------------------------------
(* One step of a request.                                                  *)

\* Types, without the history variables of Tokens.
BaseTypeOK ==
  /\ StoreTypeOK
  /\ pc \in [Request -> PCs]
  /\ job \in [Request -> Job]
  /\ lock \in [License -> Completion \cup {None}]
  /\ maxPairs \in [License -> Quota]
  /\ issuable \in [License -> BOOLEAN]
  /\ changes \in 0..MaxChanges
  /\ granted \in [License -> SUBSET Quota]

LEMMA BaseType == TypeOK => BaseTypeOK
BY Zenon DEF TypeOK, BaseTypeOK

\* What each step of a request r has to show.
StepOK(r) == BaseTypeOK' /\ RowsKept /\ Frame({r}) /\ Own(r)'

\* Request r moves to program counter to with locals j.
Moves(r, to, j) == pc' = [pc EXCEPT ![r] = to] /\ job' = [job EXCEPT ![r] = j]

LEMMA MovesFacts ==
  ASSUME TypeOK, NEW r \in Request, NEW to \in PCs, NEW j \in Job, Moves(r, to, j)
  PROVE  /\ pc' \in [Request -> PCs] /\ pc'[r] = to
         /\ job' \in [Request -> Job] /\ job'[r] = j
         /\ \A s \in Request \ {r} : pc'[s] = pc[s] /\ job'[s] = job[s]
<1>1. pc \in [Request -> PCs] /\ job \in [Request -> Job]
  BY Zenon DEF TypeOK
<1> QED BY <1>1, Zenon DEF Moves

LEMMA MoveKeepsJob ==
  ASSUME TypeOK, NEW r \in Request, NEW from, NEW to, Move(r, from, to), UNCHANGED job
  PROVE  Moves(r, to, job[r]) /\ job[r] \in Job
<1>1. job \in [Request -> Job]
  BY Zenon DEF TypeOK
<1>2. job' = [job EXCEPT ![r] = job[r]]
  BY <1>1
<1> QED BY <1>1, <1>2, Zenon DEF Moves, Move

LEMMA BlankJob == Blank \in Job
BY DEF Blank, Job

\* A step that only reads the store.
LEMMA QuietStep ==
  ASSUME TypeOK, NEW r \in Request, NEW to \in PCs, NEW j \in Job, Moves(r, to, j),
         UNCHANGED <<storeVars, lock, licenseVars>>
  PROVE  /\ BaseTypeOK' /\ RowsKept /\ Frame({r})
         /\ pc'[r] = to /\ job'[r] = j
<1>1. UNCHANGED <<devices, pairings, credentials, pairingTokens, refreshTokens, lock,
                  maxPairs, issuable, changes, granted>>
  BY Zenon DEF storeVars, licenseVars
<1>2. BaseTypeOK'
  BY <1>1, MovesFacts, BaseType, Zenon DEF BaseTypeOK, StoreTypeOK
<1>3. RowsKept
  BY <1>1, Zenon DEF RowsKept
<1>4. Frame({r})
  BY <1>1, MovesFacts, Zenon DEF Frame
<1> QED BY <1>2, <1>3, <1>4, MovesFacts

\* What holds of a request that has ended.
LEMMA EndedOwn ==
  ASSUME NEW r \in Request, pc'[r] \in {"done", "failed"}, job'[r] = Blank,
         r \in Completion => \A l \in License : lock'[l] # r,
         r \in TokenRequest /\ refreshTokens'[r] # None =>
           pc'[r] = "done" /\ pairings'[refreshTokens'[r].pair] # None
  PROVE  Own(r)'
<1>1. r \in Completion => CompletionLocals(r)'
  BY DEF CompletionLocals, InFlight, Ended
<1>2. r \in Completion => LockHeld(r)'
  BY DEF LockHeld
<1>3. r \in TokenRequest => TokenLocals(r)'
  BY ZenonT(20) DEF TokenLocals, InFlight, Ended
<1>4. RegistrationLocals(r)' /\ UnpairLocals(r)' /\ Unregistered(r)'
  BY ZenonT(20) DEF RegistrationLocals, UnpairLocals, Unregistered, InFlight, Ended
<1> QED BY <1>1, <1>2, <1>3, <1>4, ZenonT(20) DEF Own

\* The classes of requests are disjoint.
LEMMA OwnByClass ==
  ASSUME NEW r, (pc[r] \in Ended => job[r] = Blank)'
  PROVE  /\ r \in Completion /\ CompletionLocals(r)' /\ LockHeld(r)' /\ Unregistered(r)' => Own(r)'
         /\ r \in Registration /\ RegistrationLocals(r)' /\ Unregistered(r)' => Own(r)'
         /\ r \in TokenRequest /\ TokenLocals(r)' => Own(r)'
         /\ r \in Unpair /\ UnpairLocals(r)' => Own(r)'
<1>1. /\ r \in Completion => r \notin Registration /\ r \notin TokenRequest /\ r \notin Unpair
      /\ r \in Registration => r \notin TokenRequest /\ r \notin Unpair
      /\ r \in TokenRequest => r \notin Unpair
  BY PairingAssumption
<1> QED BY <1>1 DEF Own, Mobile

\* The locals, field by field.
Fields(t, k, d, p, o, m) == [tok |-> t, key |-> k, device |-> d, pair |-> p, old |-> o, max |-> m]

\* The fields of a pairing row.
IsRow(x, l, m, d, st) == x = [license |-> l, mobile |-> m, desktop |-> d, status |-> st]

LEMMA RowOf ==
  ASSUME NEW x, NEW l, NEW m, NEW d, NEW st, IsRow(x, l, m, d, st)
  PROVE  x.license = l /\ x.mobile = m /\ x.desktop = d /\ x.status = st
BY Zenon DEF IsRow

\* The fields of a request's locals.
IsFields(j, t, k, d, p, o, m) == j = Fields(t, k, d, p, o, m)

LEMMA FieldsOf ==
  ASSUME NEW j, NEW t, NEW k, NEW d, NEW p, NEW o, NEW m, IsFields(j, t, k, d, p, o, m)
  PROVE  j.tok = t /\ j.key = k /\ j.device = d /\ j.pair = p /\ j.old = o /\ j.max = m
BY Zenon DEF Fields, IsFields

LEMMA SetField ==
  ASSUME NEW j \in Job, NEW v
  PROVE  /\ [j EXCEPT !.tok = v] = Fields(v, j.key, j.device, j.pair, j.old, j.max)
         /\ [j EXCEPT !.key = v] = Fields(j.tok, v, j.device, j.pair, j.old, j.max)
         /\ [j EXCEPT !.device = v] = Fields(j.tok, j.key, v, j.pair, j.old, j.max)
         /\ [j EXCEPT !.pair = v] = Fields(j.tok, j.key, j.device, v, j.old, j.max)
BY DEF Fields, Job

\* The assignments of the code that set several locals at once.
SetTokKey(r, u, v) == [job EXCEPT ![r].tok = u, ![r].key = v]
SetTokKeyDevice(r, u, v, w) == [job EXCEPT ![r].tok = u, ![r].key = v, ![r].device = w]
SetDevicePair(r, u, v) == [job EXCEPT ![r].device = u, ![r].pair = v]
SetDevicePairOld(r, u, v, w) == [job EXCEPT ![r].device = u, ![r].pair = v, ![r].old = w]
SetPairOld(r, u, v) == [job EXCEPT ![r].pair = u, ![r].old = v]
SetPairMax(r, u, v) == [job EXCEPT ![r].pair = u, ![r].max = v]

LEMMA SetOne ==
  ASSUME TypeOK, NEW r \in Request, NEW v
  PROVE  /\ [job EXCEPT ![r].key = v] =
              [job EXCEPT ![r] = Fields(job[r].tok, v, job[r].device, job[r].pair, job[r].old, job[r].max)]
         /\ [job EXCEPT ![r].device = v] =
              [job EXCEPT ![r] = Fields(job[r].tok, job[r].key, v, job[r].pair, job[r].old, job[r].max)]
         /\ [job EXCEPT ![r].pair = v] =
              [job EXCEPT ![r] = Fields(job[r].tok, job[r].key, job[r].device, v, job[r].old, job[r].max)]
<1>1. job \in [Request -> Job] /\ job[r] \in Job
  BY ZenonT(20) DEF TypeOK
<1> QED BY <1>1, SetField, Zenon

LEMMA SetTwo ==
  ASSUME TypeOK, NEW r \in Request, NEW u, NEW v
  PROVE  /\ SetTokKey(r, u, v) =
              [job EXCEPT ![r] = Fields(u, v, job[r].device, job[r].pair, job[r].old, job[r].max)]
         /\ SetDevicePair(r, u, v) =
              [job EXCEPT ![r] = Fields(job[r].tok, job[r].key, u, v, job[r].old, job[r].max)]
         /\ SetPairOld(r, u, v) =
              [job EXCEPT ![r] = Fields(job[r].tok, job[r].key, job[r].device, u, v, job[r].max)]
         /\ SetPairMax(r, u, v) =
              [job EXCEPT ![r] = Fields(job[r].tok, job[r].key, job[r].device, u, job[r].old, v)]
<1>1. job \in [Request -> Job] /\ job[r] \in Job
  BY DEF TypeOK
<1>2. SetTokKey(r, u, v) = [job EXCEPT ![r] = Fields(u, v, job[r].device, job[r].pair, job[r].old, job[r].max)]
  <2>1. SetTokKey(r, u, v) = [job EXCEPT ![r] = [job[r] EXCEPT !.tok = u, !.key = v]]
    BY <1>1, Zenon DEF SetTokKey
  <2>2. [job[r] EXCEPT !.tok = u] = Fields(u, job[r].key, job[r].device, job[r].pair, job[r].old, job[r].max)
    BY <1>1, SetField, Zenon
  <2>3. [Fields(u, job[r].key, job[r].device, job[r].pair, job[r].old, job[r].max) EXCEPT !.key = v] =
          Fields(u, v, job[r].device, job[r].pair, job[r].old, job[r].max)
    BY DEF Fields
  <2>4. [job[r] EXCEPT !.tok = u, !.key = v] = Fields(u, v, job[r].device, job[r].pair, job[r].old, job[r].max)
    BY <2>2, <2>3, Zenon
  <2> QED BY <2>1, <2>4, Zenon
<1>3. SetDevicePair(r, u, v) = [job EXCEPT ![r] = Fields(job[r].tok, job[r].key, u, v, job[r].old, job[r].max)]
  <2>1. SetDevicePair(r, u, v) = [job EXCEPT ![r] = [job[r] EXCEPT !.device = u, !.pair = v]]
    BY <1>1, Zenon DEF SetDevicePair
  <2>2. [job[r] EXCEPT !.device = u] = Fields(job[r].tok, job[r].key, u, job[r].pair, job[r].old, job[r].max)
    BY <1>1, SetField, Zenon
  <2>3. [Fields(job[r].tok, job[r].key, u, job[r].pair, job[r].old, job[r].max) EXCEPT !.pair = v] =
          Fields(job[r].tok, job[r].key, u, v, job[r].old, job[r].max)
    BY DEF Fields
  <2>4. [job[r] EXCEPT !.device = u, !.pair = v] = Fields(job[r].tok, job[r].key, u, v, job[r].old, job[r].max)
    BY <2>2, <2>3, Zenon
  <2> QED BY <2>1, <2>4, Zenon
<1>4. SetPairOld(r, u, v) = [job EXCEPT ![r] = Fields(job[r].tok, job[r].key, job[r].device, u, v, job[r].max)]
  <2>1. SetPairOld(r, u, v) = [job EXCEPT ![r] = [job[r] EXCEPT !.pair = u, !.old = v]]
    BY <1>1, Zenon DEF SetPairOld
  <2>2. [job[r] EXCEPT !.pair = u] = Fields(job[r].tok, job[r].key, job[r].device, u, job[r].old, job[r].max)
    BY <1>1, SetField, Zenon
  <2>3. [Fields(job[r].tok, job[r].key, job[r].device, u, job[r].old, job[r].max) EXCEPT !.old = v] =
          Fields(job[r].tok, job[r].key, job[r].device, u, v, job[r].max)
    BY DEF Fields
  <2>4. [job[r] EXCEPT !.pair = u, !.old = v] = Fields(job[r].tok, job[r].key, job[r].device, u, v, job[r].max)
    BY <2>2, <2>3, Zenon
  <2> QED BY <2>1, <2>4, Zenon
<1>5. SetPairMax(r, u, v) = [job EXCEPT ![r] = Fields(job[r].tok, job[r].key, job[r].device, u, job[r].old, v)]
  <2>1. SetPairMax(r, u, v) = [job EXCEPT ![r] = [job[r] EXCEPT !.pair = u, !.max = v]]
    BY <1>1, Zenon DEF SetPairMax
  <2>2. [job[r] EXCEPT !.pair = u] = Fields(job[r].tok, job[r].key, job[r].device, u, job[r].old, job[r].max)
    BY <1>1, SetField, Zenon
  <2>3. [Fields(job[r].tok, job[r].key, job[r].device, u, job[r].old, job[r].max) EXCEPT !.max = v] =
          Fields(job[r].tok, job[r].key, job[r].device, u, job[r].old, v)
    BY DEF Fields
  <2>4. [job[r] EXCEPT !.pair = u, !.max = v] = Fields(job[r].tok, job[r].key, job[r].device, u, job[r].old, v)
    BY <2>2, <2>3, Zenon
  <2> QED BY <2>1, <2>4, Zenon
<1> QED BY <1>2, <1>3, <1>4, <1>5

LEMMA SetThree ==
  ASSUME TypeOK, NEW r \in Request, NEW u, NEW v, NEW w
  PROVE  /\ SetTokKeyDevice(r, u, v, w) =
              [job EXCEPT ![r] = Fields(u, v, w, job[r].pair, job[r].old, job[r].max)]
         /\ SetDevicePairOld(r, u, v, w) =
              [job EXCEPT ![r] = Fields(job[r].tok, job[r].key, u, v, w, job[r].max)]
<1>1. job \in [Request -> Job] /\ job[r] \in Job
  BY DEF TypeOK
<1>2. SetTokKeyDevice(r, u, v, w) = [job EXCEPT ![r] = Fields(u, v, w, job[r].pair, job[r].old, job[r].max)]
  <2>1. SetTokKeyDevice(r, u, v, w) = [job EXCEPT ![r] = [job[r] EXCEPT !.tok = u, !.key = v, !.device = w]]
    BY <1>1, Zenon DEF SetTokKeyDevice
  <2>2. [job[r] EXCEPT !.tok = u] = Fields(u, job[r].key, job[r].device, job[r].pair, job[r].old, job[r].max)
    BY <1>1, SetField, Zenon
  <2>3. [Fields(u, job[r].key, job[r].device, job[r].pair, job[r].old, job[r].max) EXCEPT !.key = v] =
          Fields(u, v, job[r].device, job[r].pair, job[r].old, job[r].max)
    BY DEF Fields
  <2>4. [Fields(u, v, job[r].device, job[r].pair, job[r].old, job[r].max) EXCEPT !.device = w] =
          Fields(u, v, w, job[r].pair, job[r].old, job[r].max)
    BY DEF Fields
  <2>5. [job[r] EXCEPT !.tok = u, !.key = v, !.device = w] = Fields(u, v, w, job[r].pair, job[r].old, job[r].max)
    BY <2>2, <2>3, <2>4, Zenon
  <2> QED BY <2>1, <2>5, Zenon
<1>3. SetDevicePairOld(r, u, v, w) = [job EXCEPT ![r] = Fields(job[r].tok, job[r].key, u, v, w, job[r].max)]
  <2>1. SetDevicePairOld(r, u, v, w) = [job EXCEPT ![r] = [job[r] EXCEPT !.device = u, !.pair = v, !.old = w]]
    BY <1>1, Zenon DEF SetDevicePairOld
  <2>2. [job[r] EXCEPT !.device = u] = Fields(job[r].tok, job[r].key, u, job[r].pair, job[r].old, job[r].max)
    BY <1>1, SetField, Zenon
  <2>3. [Fields(job[r].tok, job[r].key, u, job[r].pair, job[r].old, job[r].max) EXCEPT !.pair = v] =
          Fields(job[r].tok, job[r].key, u, v, job[r].old, job[r].max)
    BY DEF Fields
  <2>4. [Fields(job[r].tok, job[r].key, u, v, job[r].old, job[r].max) EXCEPT !.old = w] =
          Fields(job[r].tok, job[r].key, u, v, w, job[r].max)
    BY DEF Fields
  <2>5. [job[r] EXCEPT !.device = u, !.pair = v, !.old = w] = Fields(job[r].tok, job[r].key, u, v, w, job[r].max)
    BY <2>2, <2>3, <2>4, Zenon
  <2> QED BY <2>1, <2>5, Zenon
<1> QED BY <1>2, <1>3

----------------------------------------------------------------------------
(* Registration, and the steps of a completion up to the store's writes.   *)

LEMMA BeginCompletionStep ==
  ASSUME TypeOK, Locals, NEW r \in Completion, NEW t \in PairingToken, NEW key \in Phone,
         BeginCompletion(r, t, key)
  PROVE  StepOK(r)
<1>1. r \in Request /\ job \in [Request -> Job] /\ job[r] \in Job /\ pc[r] = "idle"
  BY DEF Request, TypeOK, BeginCompletion, Move
<1>2. job[r] = Fields(None, None, None, None, None, 0)
  BY <1>1 DEF Locals, Own, Ended, Blank, Fields
<1>3. PICK to \in {"find", "existing"}, d \in Mobile \cup {None} :
        /\ Moves(r, to, Fields(t, key, d, None, None, 0))
        /\ to = "existing" => d \in Mobile /\ devices[d] # None
  <2>1. CASE Move(r, "idle", "find") /\ job' = [job EXCEPT ![r].tok = t, ![r].key = key]
    <3>1. job' = SetTokKey(r, t, key)
      BY <2>1, Zenon DEF SetTokKey
    <3>2. Fields(t, key, job[r].device, job[r].pair, job[r].old, job[r].max) =
            Fields(t, key, None, None, None, 0)
      <4>1. IsFields(job[r], None, None, None, None, None, 0)
        BY <1>2, Zenon DEF IsFields
      <4> QED BY <4>1, FieldsOf, Zenon
    <3>3. SetTokKey(r, t, key) =
            [job EXCEPT ![r] = Fields(t, key, job[r].device, job[r].pair, job[r].old, job[r].max)]
      BY <1>1, SetTwo
    <3>4. Moves(r, "find", Fields(t, key, None, None, None, 0))
      BY <2>1, <3>1, <3>2, <3>3, Zenon DEF Moves, Move
    <3> QED BY <3>4, Zenon
  <2>2. ASSUME NEW m \in Mobile, devices[m] # None, Move(r, "idle", "existing"),
               job' = [job EXCEPT ![r].tok = t, ![r].key = key, ![r].device = m]
        PROVE  Moves(r, "existing", Fields(t, key, m, None, None, 0))
    <3>1. job' = SetTokKeyDevice(r, t, key, m)
      BY <2>2, Zenon DEF SetTokKeyDevice
    <3>2. Fields(t, key, m, job[r].pair, job[r].old, job[r].max) = Fields(t, key, m, None, None, 0)
      <4>1. IsFields(job[r], None, None, None, None, None, 0)
        BY <1>2, Zenon DEF IsFields
      <4> QED BY <4>1, FieldsOf, Zenon
    <3>3. SetTokKeyDevice(r, t, key, m) =
            [job EXCEPT ![r] = Fields(t, key, m, job[r].pair, job[r].old, job[r].max)]
      BY <1>1, SetThree
    <3> QED BY <2>2, <3>1, <3>2, <3>3, Zenon DEF Moves, Move
  <2> QED BY <2>1, <2>2, Zenon DEF BeginCompletion
<1>4. Fields(t, key, d, None, None, 0) \in Job /\ to \in PCs
  BY DEF Fields, Job, Device, PCs
<1>5. UNCHANGED <<storeVars, lock, licenseVars>>
  BY Zenon DEF BeginCompletion
<1>6. /\ BaseTypeOK' /\ RowsKept /\ Frame({r})
      /\ pc'[r] = to /\ job'[r] = Fields(t, key, d, None, None, 0)
  BY <1>1, <1>3, <1>4, <1>5, QuietStep, Zenon
<1>7. UNCHANGED <<devices, pairings, pairingTokens, lock>>
  BY <1>5, Zenon DEF storeVars
<1>8. CompletionLocals(r) /\ LockHeld(r) /\ Unregistered(r)
  BY <1>1 DEF Locals, Own, Mobile
<1>9. CompletionLocals(r)'
  <2>1. /\ job'[r].tok = t /\ job'[r].key = key /\ job'[r].device = d
        /\ job'[r].pair = None /\ job'[r].old = None
    <3>1. IsFields(job'[r], t, key, d, None, None, 0)
      BY <1>6, Zenon DEF IsFields
    <3> QED BY <3>1, FieldsOf, Zenon
  <2>2. pairingTokens'[t] # None
    BY <1>7, Zenon DEF BeginCompletion, PairingTokenActive
  <2>3. pairings'[r] = None
    BY <1>1, <1>7, <1>8, Zenon DEF CompletionLocals
  <2>4. CASE to = "find"
    BY <1>6, <2>1, <2>2, <2>3, <2>4, Zenon DEF CompletionLocals, InFlight, Ended
  <2>5. CASE to = "existing"
    BY <1>3, <1>6, <1>7, <2>1, <2>2, <2>3, <2>5, Zenon DEF CompletionLocals, InFlight, Ended
  <2> QED BY <1>3, <2>4, <2>5, Zenon
<1>10. LockHeld(r)' /\ Unregistered(r)' /\ (pc[r] \in Ended => job[r] = Blank)'
  BY <1>1, <1>3, <1>6, <1>7, <1>8, ZenonT(20) DEF LockHeld, Unregistered, Ended
<1> QED BY <1>6, <1>9, <1>10, OwnByClass, ZenonT(20) DEF StepOK

LEMMA BeginRegistrationStep ==
  ASSUME TypeOK, Locals, NEW r \in Registration, NEW key \in Phone \cup {NoKey},
         BeginRegistration(r, key)
  PROVE  StepOK(r)
<1>1. r \in Request /\ r \in Mobile /\ pc[r] = "idle"
  BY ZenonT(20) DEF Request, Mobile, BeginRegistration, Move
<1>2. job[r] = Fields(None, None, None, None, None, 0)
  BY <1>1, ZenonT(20) DEF Locals, Own, Ended, Blank, Fields
<1>3. Moves(r, "find", Fields(None, key, None, None, None, 0))
  <2>1. Fields(job[r].tok, key, job[r].device, job[r].pair, job[r].old, job[r].max) =
          Fields(None, key, None, None, None, 0)
    <3>1. IsFields(job[r], None, None, None, None, None, 0)
      BY <1>2, Zenon DEF IsFields
    <3> QED BY <3>1, FieldsOf, Zenon
  <2>2. job' = [job EXCEPT ![r] = Fields(job[r].tok, key, job[r].device, job[r].pair,
                                         job[r].old, job[r].max)]
    BY <1>1, SetOne, Zenon DEF BeginRegistration
  <2> QED BY <2>1, <2>2, Zenon DEF Moves, Move, BeginRegistration
<1>4. Fields(None, key, None, None, None, 0) \in Job /\ "find" \in PCs
  BY DEF Fields, Job, PCs
<1>5. UNCHANGED <<storeVars, lock, licenseVars>>
  BY Zenon DEF BeginRegistration
<1>6. /\ BaseTypeOK' /\ RowsKept /\ Frame({r})
      /\ pc'[r] = "find" /\ job'[r] = Fields(None, key, None, None, None, 0)
  BY <1>1, <1>3, <1>4, <1>5, QuietStep, Zenon
<1>7. RegistrationLocals(r)' /\ (pc[r] \in Ended => job[r] = Blank)'
  <2>1. job'[r].key = key
    <3>1. IsFields(job'[r], None, key, None, None, None, 0)
      BY <1>6, Zenon DEF IsFields
    <3> QED BY <3>1, FieldsOf, Zenon
  <2> QED BY <1>6, <2>1, Zenon DEF RegistrationLocals, InFlight, Ended
<1>8. Unregistered(r)'
  BY <1>1, <1>5, <1>6, ZenonT(20) DEF Locals, Own, Unregistered, storeVars
<1> QED BY <1>6, <1>7, <1>8, OwnByClass DEF StepOK

\* A request with its device at hand: a registration ends, a completion goes on.
LEMMA HaveDeviceMoves ==
  ASSUME TypeOK, NEW r \in Mobile, NEW from, NEW m \in Mobile, HaveDevice(r, from, m)
  PROVE  /\ r \in Request /\ pc[r] = from
         /\ r \in Registration => Moves(r, "done", Blank)
         /\ r \notin Registration =>
              LET j == Fields(job[r].tok, job[r].key, m, job[r].pair, job[r].old, job[r].max)
              IN Moves(r, "existing", j) /\ j \in Job
<1>1. r \in Request /\ job[r] \in Job
  BY DEF Request, Mobile, TypeOK
<1>2. pc[r] = from /\ (r \in Registration => Moves(r, "done", Blank))
  BY Zenon DEF HaveDevice, End, Move, Moves
<1>3. Fields(job[r].tok, job[r].key, m, job[r].pair, job[r].old, job[r].max) \in Job
  BY <1>1 DEF Fields, Job, Device
<1>4. ASSUME r \notin Registration
      PROVE  Moves(r, "existing", Fields(job[r].tok, job[r].key, m, job[r].pair, job[r].old, job[r].max))
  <2>1. job' = [job EXCEPT ![r] = Fields(job[r].tok, job[r].key, m, job[r].pair, job[r].old, job[r].max)]
    BY <1>1, <1>4, SetOne, Zenon DEF HaveDevice
  <2> QED BY <1>4, <2>1, Zenon DEF HaveDevice, Move, Moves
<1> QED BY <1>1, <1>2, <1>3, <1>4, ZenonT(20)

\* A completion that has a registered device goes on to look for its pairing.
LEMMA IntoExisting ==
  ASSUME NEW r, CompletionLocals(r), pc[r] \in {"find", "register"}, pc'[r] = "existing",
         UNCHANGED <<pairings, pairingTokens>>,
         job'[r].tok = job[r].tok, job'[r].key = job[r].key, job'[r].old = job[r].old,
         job'[r].device \in Mobile, devices'[job'[r].device] # None
  PROVE  CompletionLocals(r)'
<1>1. InFlight(r) /\ InFlight(r)'
  BY ZenonT(20) DEF InFlight, Ended
<1>2. /\ job[r].tok \in PairingToken /\ pairingTokens[job[r].tok] # None
      /\ job[r].key \in Phone /\ job[r].old = None /\ pairings[r] = None
  BY <1>1 DEF CompletionLocals
<1> QED BY <1>2 DEF CompletionLocals, Ended

LEMMA FindDeviceStep ==
  ASSUME TypeOK, Locals, NEW r \in Mobile, FindDevice(r)
  PROVE  StepOK(r)
<1>1. r \in Request /\ pc[r] = "find" /\ job[r] \in Job /\ Own(r)
  BY DEF Request, Mobile, FindDevice, TypeOK, Locals
<1>2. UNCHANGED <<storeVars, lock, licenseVars>>
  BY Zenon DEF FindDevice
<1>3. UNCHANGED <<devices, pairings, pairingTokens, refreshTokens, lock, granted>>
  BY <1>2, Zenon DEF storeVars, licenseVars
<1>4. {"done", "failed", "existing", "register"} \subseteq PCs
  BY DEF PCs
<1>5. ASSUME NEW to \in {"done", "failed"}, Moves(r, to, Blank)
      PROVE  StepOK(r)
  <2>1. BaseTypeOK' /\ RowsKept /\ Frame({r}) /\ pc'[r] = to /\ job'[r] = Blank
    BY <1>1, <1>2, <1>4, <1>5, BlankJob, QuietStep, ZenonT(30)
  <2>2. r \in Completion => \A l \in License : lock'[l] # r
    BY <1>1, <1>3 DEF Own, LockHeld
  <2>3. r \notin TokenRequest
    BY PairingAssumption, ZenonT(20) DEF Mobile
  <2>4. Own(r)'
    BY <1>1, <1>5, <2>1, <2>2, <2>3, EndedOwn
  <2> QED BY <2>1, <2>4 DEF StepOK
<1>6. CASE \E m \in FindDevicesByKey(job[r].key) : HaveDevice(r, "find", m)
  <2>1. PICK m \in Mobile : HaveDevice(r, "find", m) /\ devices[m] = job[r].key
    BY <1>6, ZenonT(20) DEF FindDevicesByKey
  <2>2. CASE r \in Registration
    BY <1>5, <2>1, <2>2, HaveDeviceMoves, ZenonT(20)
  <2>3. CASE r \notin Registration
    <3> DEFINE j == Fields(job[r].tok, job[r].key, m, job[r].pair, job[r].old, job[r].max)
    <3>1. Moves(r, "existing", j) /\ j \in Job
      BY <2>1, <2>3, HaveDeviceMoves
    <3> HIDE DEF j
    <3>2. BaseTypeOK' /\ RowsKept /\ Frame({r}) /\ pc'[r] = "existing" /\ job'[r] = j
      BY <1>1, <1>2, <1>4, <3>1, QuietStep, Zenon
    <3>3. r \in Completion
      BY <2>3 DEF Mobile
    <3>4. CompletionLocals(r) /\ LockHeld(r)
      BY <1>1, <3>3, ZenonT(20) DEF Own
    <3>5. devices[m] # None
      BY <1>1, <2>1, <3>4, PairingAssumption, ZenonT(20) DEF CompletionLocals, InFlight, Ended
    <3>6. CompletionLocals(r)'
      <4>1. j.tok = job[r].tok /\ j.key = job[r].key /\ j.device = m /\ j.old = job[r].old
        BY ZenonT(20) DEF j, Fields
      <4>2. pc[r] \in {"find", "register"} /\ m \in Mobile
        BY <1>1
      <4>3. UNCHANGED <<pairings, pairingTokens, devices>>
        BY <1>3, Zenon
      <4>4. /\ job'[r].tok = job[r].tok /\ job'[r].key = job[r].key /\ job'[r].old = job[r].old
            /\ job'[r].device \in Mobile /\ devices'[job'[r].device] # None
        BY <3>2, <3>5, <4>1, <4>2, <4>3, Zenon
      <4> QED BY <3>2, <3>4, <4>2, <4>3, <4>4, IntoExisting, Zenon
    <3>7. LockHeld(r)' /\ Unregistered(r)' /\ (pc[r] \in Ended => job[r] = Blank)'
      BY <1>1, <1>3, <3>2, <3>4, ZenonT(20) DEF LockHeld, Unregistered, Ended
    <3> QED BY <3>2, <3>3, <3>6, <3>7, OwnByClass, ZenonT(20) DEF StepOK
  <2> QED BY <2>2, <2>3
<1>7. CASE Move(r, "find", "register") /\ UNCHANGED job
  <2>1. Moves(r, "register", job[r])
    BY <1>1, <1>7, MoveKeepsJob
  <2>2. BaseTypeOK' /\ RowsKept /\ Frame({r}) /\ pc'[r] = "register" /\ job'[r] = job[r]
    BY <1>1, <1>2, <1>4, <2>1, QuietStep, ZenonT(30)
  <2>3. Own(r)'
    <3>1. (pc[r] \in Ended => job[r] = Blank)'
      BY <2>2 DEF Ended
    <3>2. r \in Completion => CompletionLocals(r)' /\ LockHeld(r)'
      BY <1>1, <1>3, <2>2, ZenonT(30) DEF Own, CompletionLocals, LockHeld, InFlight, Ended
    <3>3. r \in Registration => RegistrationLocals(r)'
      BY <1>1, <2>2, ZenonT(30) DEF Own, RegistrationLocals, InFlight, Ended
    <3>4. Unregistered(r)'
      BY <1>1, <1>3, <2>2, Zenon DEF Own, Unregistered
    <3> QED BY <3>1, <3>2, <3>3, <3>4, OwnByClass, ZenonT(20) DEF Mobile
  <2> QED BY <2>2, <2>3, ZenonT(20) DEF StepOK
<1>8. CASE End(r, "find", "failed")
  BY <1>5, <1>8, ZenonT(20) DEF End, Move, Moves
<1> QED BY <1>6, <1>7, <1>8, ZenonT(20) DEF FindDevice

\* A step that writes the store or the lock.
LEMMA WriteStep ==
  ASSUME TypeOK, NEW r \in Request, NEW to \in PCs, NEW j \in Job, Moves(r, to, j),
         StoreTypeOK', (lock \in [License -> Completion \cup {None}])', UNCHANGED licenseVars
  PROVE  /\ BaseTypeOK'
         /\ pc'[r] = to /\ job'[r] = j
         /\ \A s \in Request \ {r} : pc'[s] = pc[s] /\ job'[s] = job[s]
<1>1. UNCHANGED <<maxPairs, issuable, changes, granted>>
  BY Zenon DEF licenseVars
<1>2. BaseTypeOK'
  BY <1>1, MovesFacts, BaseType, Zenon DEF BaseTypeOK
<1> QED BY <1>2, MovesFacts

LEMMA RegisterDeviceStep ==
  ASSUME TypeOK, Locals, NEW r \in Mobile, RegisterDevice(r)
  PROVE  StepOK(r)
<1>1. /\ r \in Request /\ job[r] \in Job /\ Own(r)
      /\ HaveDevice(r, "register", r) /\ UpsertDevice(r, job[r].key)
      /\ UNCHANGED <<pairings, credentials, pairingTokens, refreshTokens, lock, licenseVars>>
  BY ZenonT(20) DEF Request, Mobile, TypeOK, Locals, RegisterDevice
<1>2. pc[r] = "register"
  BY <1>1, HaveDeviceMoves
<1>3. job[r].key \in Phone \cup {NoKey} /\ devices[r] = None
  BY <1>1, <1>2, ZenonT(30) DEF Own, Mobile, CompletionLocals, RegistrationLocals, Unregistered, InFlight, Ended
<1>4. /\ devices' \in [Mobile -> Phone \cup {NoKey, None}]
      /\ devices'[r] # None
      /\ \A n \in Mobile : n # r => devices'[n] = devices[n]
      /\ \A n \in Mobile : devices[n] # None => devices'[n] # None
      /\ \A n \in Mobile : devices[n] \in Phone => devices'[n] \in Phone
  <2>1. UpsertDevice(r, job[r].key)
    BY <1>1
  <2> QED BY <1>3, <2>1, DevicesStep, ZenonT(20)
<1>5. StoreTypeOK' /\ (lock \in [License -> Completion \cup {None}])'
  BY <1>1, <1>4, Zenon DEF TypeOK, StoreTypeOK
<1>6. RowsKept
  BY <1>1, <1>4, Zenon DEF RowsKept, licenseVars
<1>7. PICK to \in {"done", "existing"}, j \in Job :
        /\ Moves(r, to, j)
        /\ to = "done" => r \in Registration /\ j = Blank
        /\ to = "existing" => /\ r \in Completion
                             /\ j = Fields(job[r].tok, job[r].key, r, job[r].pair, job[r].old, job[r].max)
  <2>1. CASE r \in Registration
    BY <1>1, <2>1, HaveDeviceMoves, BlankJob, ZenonT(20)
  <2>2. CASE r \notin Registration
    BY <1>1, <2>2, HaveDeviceMoves DEF Mobile
  <2> QED BY <2>1, <2>2, ZenonT(20)
<1>8. /\ BaseTypeOK' /\ pc'[r] = to /\ job'[r] = j
      /\ \A s \in Request \ {r} : pc'[s] = pc[s] /\ job'[s] = job[s]
  <2>1. to \in PCs /\ UNCHANGED licenseVars
    BY <1>1 DEF PCs
  <2> QED BY <1>1, <1>5, <1>7, <2>1, WriteStep, ZenonT(30)
<1>9. Frame({r})
  BY <1>1, <1>4, <1>8, ZenonT(30) DEF Frame
<1>10. CASE to = "done"
  <2>1. r \notin Completion /\ r \notin TokenRequest
    BY <1>7, <1>10, PairingAssumption
  <2> QED BY <1>1, <1>6, <1>7, <1>8, <1>9, <1>10, <2>1, EndedOwn, ZenonT(20) DEF StepOK
<1>11. CASE to = "existing"
  <2>1. CompletionLocals(r) /\ LockHeld(r)
    BY <1>1, <1>7, <1>11, ZenonT(30) DEF Own
  <2>2. CompletionLocals(r)'
    <3>1. j.tok = job[r].tok /\ j.key = job[r].key /\ j.device = r /\ j.old = job[r].old
      BY <1>7, <1>11 DEF Fields
    <3>2. r \in Mobile /\ pc[r] \in {"find", "register"} /\ UNCHANGED <<pairings, pairingTokens>>
      BY <1>1, <1>2
    <3>3. /\ job'[r].tok = job[r].tok /\ job'[r].key = job[r].key /\ job'[r].old = job[r].old
          /\ job'[r].device \in Mobile /\ devices'[job'[r].device] # None
      BY <1>4, <1>8, <3>1, <3>2, Zenon
    <3>4. pc'[r] = "existing"
      BY <1>8, <1>11, Zenon
    <3> QED BY <2>1, <3>2, <3>3, <3>4, IntoExisting, Zenon
  <2>3. LockHeld(r)' /\ Unregistered(r)' /\ (pc[r] \in Ended => job[r] = Blank)'
    BY <1>1, <1>2, <1>7, <1>8, <1>11, <2>1, Zenon DEF LockHeld, Unregistered, Ended
  <2> QED BY <1>6, <1>7, <1>8, <1>9, <1>11, <2>2, <2>3, OwnByClass, Zenon DEF StepOK
<1> QED BY <1>7, <1>10, <1>11, ZenonT(20)

LEMMA FindExistingStep ==
  ASSUME TypeOK, Locals, NEW r \in Completion, FindExisting(r)
  PROVE  StepOK(r)
<1>1. /\ r \in Request /\ job[r] \in Job /\ CompletionLocals(r) /\ LockHeld(r)
      /\ pc[r] = "existing" /\ UNCHANGED <<storeVars, lock, licenseVars>>
  BY DEF Request, TypeOK, Locals, Own, FindExisting
<1>2. UNCHANGED <<devices, pairings, pairingTokens, lock, granted>>
  BY <1>1, Zenon DEF storeVars, licenseVars
<1>3. {"consume", "capacity"} \subseteq PCs
  BY DEF PCs
<1>4. ASSUME NEW to \in {"consume", "capacity"}, NEW j \in Job, Moves(r, to, j),
             to = "consume" => /\ j.tok = job[r].tok /\ j.key = job[r].key /\ j.device = job[r].device
                               /\ j.pair \in Pair /\ pairings[j.pair] # None /\ j.old \in Mobile,
             to = "capacity" => j = job[r]
      PROVE  StepOK(r)
  <2>1. BaseTypeOK' /\ RowsKept /\ Frame({r}) /\ pc'[r] = to /\ job'[r] = j
    BY <1>1, <1>3, <1>4, QuietStep, ZenonT(30)
  <2>2. CompletionLocals(r)'
    BY <1>1, <1>2, <1>4, <2>1, Zenon DEF CompletionLocals, InFlight, Ended
  <2>3. LockHeld(r)' /\ Unregistered(r)' /\ (pc[r] \in Ended => job[r] = Blank)'
    BY <1>1, <1>2, <1>4, <2>1, ZenonT(30) DEF LockHeld, Unregistered, Ended
  <2> QED BY <2>1, <2>2, <2>3, OwnByClass, Zenon DEF StepOK
<1>5. ASSUME NEW p \in activePairingsForDesktop(TokenOf(r).license, TokenOf(r).desktop),
             Move(r, "existing", "consume"),
             job' = [job EXCEPT ![r].pair = p, ![r].old = pairings[p].mobile]
      PROVE  StepOK(r)
  <2>1. p \in Pair /\ pairings[p] # None
    BY ZenonT(40) DEF activePairingsForDesktop, ListActivePairingsByLicense, PairingActive
  <2>2. pairings[p].mobile \in Mobile
    BY <2>1, ZenonT(20) DEF TypeOK, StoreTypeOK, PairingRow
  <2> DEFINE m == pairings[p].mobile
             j == Fields(job[r].tok, job[r].key, job[r].device, p, m, job[r].max)
  <2>3. job' = SetPairOld(r, p, m)
    BY <1>5, Zenon DEF SetPairOld
  <2>4. SetPairOld(r, p, m) = [job EXCEPT ![r] = j]
    BY <1>1, SetTwo, Zenon
  <2>5. Moves(r, "consume", j)
    BY <1>5, <2>3, <2>4, Zenon DEF Moves, Move
  <2>6. j \in Job
    BY <1>1, <2>1, <2>2, Zenon DEF Job, Fields
  <2>7. /\ j.tok = job[r].tok /\ j.key = job[r].key /\ j.device = job[r].device
        /\ j.pair = p /\ j.old = m
    BY ZenonT(20) DEF Fields
  <2> HIDE DEF j
  <2> QED BY <1>4, <2>1, <2>2, <2>5, <2>6, <2>7, ZenonT(30)
<1>6. ASSUME Move(r, "existing", "capacity"), UNCHANGED job
      PROVE  StepOK(r)
  BY <1>1, <1>4, <1>6, MoveKeepsJob, ZenonT(40)
<1> QED BY <1>5, <1>6, ZenonT(30) DEF FindExisting

\* A request that ends without a write and outside a transaction.
LEMMA EndQuietStep ==
  ASSUME TypeOK, Locals, NEW r \in Request, NEW from, NEW to \in {"done", "failed"},
         End(r, from, to), from \notin {"count", "commit", "done"},
         UNCHANGED <<storeVars, lock, licenseVars>>
  PROVE  StepOK(r)
<1>1. Moves(r, to, Blank) /\ pc[r] = from
  BY Zenon DEF End, Move, Moves
<1>2. to \in PCs
  BY DEF PCs
<1>3. BaseTypeOK' /\ RowsKept /\ Frame({r}) /\ pc'[r] = to /\ job'[r] = Blank
  BY <1>1, <1>2, BlankJob, QuietStep, Zenon
<1>4. UNCHANGED <<pairings, refreshTokens, lock>> /\ Own(r)
  BY ZenonT(20) DEF storeVars, Locals
<1>5. r \in Completion => \A l \in License : lock'[l] # r
  BY <1>1, <1>4 DEF Own, LockHeld
<1>6. r \in TokenRequest => refreshTokens'[r] = None
  BY <1>1, <1>4, Zenon DEF Own, TokenLocals
<1> QED BY <1>3, <1>5, <1>6, EndedOwn DEF StepOK

LEMMA CheckCapacityStep ==
  ASSUME TypeOK, Locals, GrantInv, NEW r \in Completion, CheckCapacity(r)
  PROVE  StepOK(r)
<1>1. /\ r \in Request /\ job[r] \in Job /\ CompletionLocals(r) /\ LockHeld(r)
      /\ pc[r] = "capacity" /\ UNCHANGED <<storeVars, lock, licenseVars>>
  BY DEF Request, TypeOK, Locals, Own, CheckCapacity
<1>2. UNCHANGED <<devices, pairings, pairingTokens, lock, granted>>
  BY <1>1, Zenon DEF storeVars, licenseVars
<1> DEFINE l == TokenOf(r).license
<1>3. CASE Move(r, "capacity", "consume") /\ job' = [job EXCEPT ![r].pair = r, ![r].max = maxPairs[l]]
  <2>1. l \in License
    BY <1>1, Zenon DEF CompletionLocals, InFlight, Ended, TypeOK, StoreTypeOK, PairingTokenRow, TokenOf
  <2>0. \A n : SetPairMax(r, r, n) =
          [job EXCEPT ![r] = Fields(job[r].tok, job[r].key, job[r].device, r, job[r].old, n)]
    BY <1>1, SetTwo
  <2>2. PICK n : n = maxPairs[l]
    BY ZenonT(20)
  <2> DEFINE j == Fields(job[r].tok, job[r].key, job[r].device, r, job[r].old, n)
  <2>3. SetPairMax(r, r, n) = [job EXCEPT ![r] = j]
    BY <2>0, Zenon
  <2>4. Moves(r, "consume", j)
    BY <1>3, <2>2, <2>3, Zenon DEF Moves, Move, SetPairMax
  <2>5. n \in Quota
    BY <2>1, <2>2 DEF TypeOK
  <2>6. j \in Job /\ "consume" \in PCs
    BY <1>1, <2>5, ZenonT(30) DEF Job, Fields, PCs, Pair
  <2>7. /\ j.tok = job[r].tok /\ j.key = job[r].key /\ j.device = job[r].device
        /\ j.pair = r /\ j.old = job[r].old /\ j.max = n
    BY DEF Fields
  <2> HIDE DEF j
  <2>8. BaseTypeOK' /\ RowsKept /\ Frame({r}) /\ pc'[r] = "consume" /\ job'[r] = j
    BY <1>1, <2>4, <2>6, QuietStep, Zenon
  <2>9. n \in granted[l] /\ job[r].old = None
    BY <1>1, <2>1, <2>2, ZenonT(30) DEF GrantInv, CompletionLocals
  <2>10. CompletionLocals(r)'
    BY <1>1, <1>2, <2>7, <2>8, <2>9, Zenon DEF CompletionLocals, InFlight, Ended, TokenOf, Pair
  <2>11. LockHeld(r)' /\ Unregistered(r)' /\ (pc[r] \in Ended => job[r] = Blank)'
    BY <1>1, <1>2, <2>8, ZenonT(30) DEF LockHeld, Unregistered, Ended
  <2> QED BY <2>8, <2>10, <2>11, OwnByClass, ZenonT(30) DEF StepOK
<1>4. CASE End(r, "capacity", "failed")
  BY <1>1, <1>4, EndQuietStep, ZenonT(30)
<1> QED BY <1>3, <1>4, ZenonT(20) DEF CheckCapacity

----------------------------------------------------------------------------
(* The store's writes of a completion.                                     *)

\* What a completion has in common at every step before its end.
LEMMA CompletionAt ==
  ASSUME TypeOK, Locals, NEW r \in Completion
  PROVE  /\ r \in Request /\ r \in Mobile /\ r \in Pair /\ job[r] \in Job
         /\ CompletionLocals(r) /\ LockHeld(r)
         /\ InFlight(r) => /\ job[r].tok \in PairingToken /\ TokenOf(r) \in PairingTokenRow
                          /\ TokenOf(r) # None
                          /\ TokenOf(r).license \in License /\ TokenOf(r).desktop \in Desktop
<1>1. /\ r \in Request /\ r \in Mobile /\ r \in Pair /\ job[r] \in Job
      /\ CompletionLocals(r) /\ LockHeld(r)
  BY ZenonT(20) DEF Request, Mobile, Pair, TypeOK, Locals, Own
<1> QED BY <1>1, Zenon DEF CompletionLocals, TypeOK, StoreTypeOK, PairingTokenRow, TokenOf

\* A completion that has consumed its token goes on to the key with what it had.
LEMMA AfterConsume ==
  ASSUME NEW r, CompletionLocals(r), pc[r] = "consume", pc'[r] = "key", job'[r] = job[r],
         UNCHANGED <<devices, pairings, granted>>,
         pairingTokens'[job'[r].tok] # None, TokenOf(r)'.license = TokenOf(r).license
  PROVE  CompletionLocals(r)'
<1>1. InFlight(r)
  BY ZenonT(20) DEF InFlight, Ended
<1>2. /\ job[r].tok \in PairingToken /\ job[r].key \in Phone
      /\ job[r].device \in Mobile /\ devices[job[r].device] # None
      /\ pairings[r] = None /\ job[r].pair \in Pair
  BY <1>1, ZenonT(20) DEF CompletionLocals
<1>3. \/ job[r].old \in Mobile /\ pairings[job[r].pair] # None
      \/ /\ job[r].old = None /\ job[r].pair = r
         /\ job[r].max \in granted[TokenOf(r).license]
  BY DEF CompletionLocals
<1>4. \/ job'[r].old \in Mobile /\ pairings'[job'[r].pair] # None
      \/ /\ job'[r].old = None /\ job'[r].pair = r
         /\ job'[r].max \in granted'[TokenOf(r)'.license]
  BY <1>3, Zenon
<1>5. /\ job'[r].tok \in PairingToken /\ job'[r].key \in Phone
      /\ job'[r].device \in Mobile /\ devices'[job'[r].device] # None
      /\ pairings'[r] = None /\ job'[r].pair \in Pair
  BY <1>2, Zenon
<1> QED BY <1>4, <1>5 DEF CompletionLocals, Ended

LEMMA ConsumeTokenOK ==
  ASSUME TypeOK, Locals, NEW r \in Completion, ConsumeToken(r)
  PROVE  StepOK(r)
<1>1. CASE End(r, "consume", "failed") /\ UNCHANGED pairingTokens
  <2>1. UNCHANGED <<storeVars, lock, licenseVars>>
    BY <1>1, ZenonT(30) DEF ConsumeToken, storeVars
  <2> QED BY <1>1, <2>1, CompletionAt, EndQuietStep
<1>2. CASE /\ Move(r, "consume", "key")
           /\ ConsumePairingToken(job[r].tok, job[r].pair)
           /\ UNCHANGED job
  <2>1. pc[r] = "consume" /\ InFlight(r)
    BY <1>2 DEF Move, InFlight, Ended
  <2> DEFINE t == job[r].tok
             p == job[r].pair
  <2>2. t \in PairingToken /\ p \in Pair /\ pairingTokens[t] # None
    BY <2>1, CompletionAt, Zenon DEF CompletionLocals
  <2>3. UNCHANGED <<devices, pairings, credentials, refreshTokens, lock, licenseVars, granted>>
    BY ZenonT(30) DEF ConsumeToken, licenseVars
  <2>4. /\ pairingTokens' \in [PairingToken -> PairingTokenRow \cup {None}]
        /\ pairingTokens'[t].license = pairingTokens[t].license
        /\ pairingTokens'[t].desktop = pairingTokens[t].desktop
        /\ pairingTokens'[t] # None
        /\ \A u \in PairingToken : u # t => pairingTokens'[u] = pairingTokens[u]
    <3> HIDE DEF t, p
    <3>1. ConsumePairingToken(t, p)
      BY <1>2 DEF t, p
    <3>2. pairingTokens[t] # None /\ t \in PairingToken /\ p \in Pair
      BY <2>2
    <3>3. /\ pairingTokens' \in [PairingToken -> PairingTokenRow \cup {None}]
          /\ pairingTokens'[t] = [license |-> pairingTokens[t].license,
                                  desktop |-> pairingTokens[t].desktop, result |-> p]
          /\ pairingTokens'[t] # None
          /\ \A u \in PairingToken : u # t => pairingTokens'[u] = pairingTokens[u]
      BY <3>1, <3>2, ConsumeTokenStep, Zenon
    <3> QED BY <3>3
  <2>5. StoreTypeOK' /\ (lock \in [License -> Completion \cup {None}])'
    BY <2>3, <2>4, Zenon DEF TypeOK, StoreTypeOK
  <2>6. RowsKept
    <3>1. \A u \in PairingToken : pairingTokens[u] # None =>
            /\ pairingTokens'[u] # None
            /\ pairingTokens'[u].license = pairingTokens[u].license
            /\ pairingTokens'[u].desktop = pairingTokens[u].desktop
      BY <2>4
    <3> QED BY <2>3, <3>1, ZenonT(30) DEF RowsKept
  <2>7. /\ BaseTypeOK' /\ pc'[r] = "key" /\ job'[r] = job[r]
        /\ \A s \in Request \ {r} : pc'[s] = pc[s] /\ job'[s] = job[s]
    <3>1. "key" \in PCs
      BY ZenonT(20) DEF PCs
    <3>2. Moves(r, "key", job[r])
      BY <1>2, CompletionAt, MoveKeepsJob
    <3> QED BY <2>3, <2>5, <3>1, <3>2, CompletionAt, WriteStep, Zenon
  <2>8. Frame({r})
    BY <2>3, <2>7, Zenon DEF Frame
  <2>9. CompletionLocals(r)'
    <3>1. pairingTokens'[job'[r].tok] # None /\ TokenOf(r)'.license = TokenOf(r).license
      BY <2>2, <2>4, <2>7, Zenon DEF TokenOf
    <3>2. CompletionLocals(r)
      BY CompletionAt, Zenon
    <3> QED BY <2>1, <2>3, <2>7, <3>1, <3>2, AfterConsume, Zenon
  <2>10. LockHeld(r)' /\ Unregistered(r)' /\ (pc[r] \in Ended => job[r] = Blank)'
    BY <2>1, <2>3, <2>7, CompletionAt, ZenonT(30) DEF LockHeld, Unregistered, Ended
  <2> QED BY <2>6, <2>7, <2>8, <2>9, <2>10, OwnByClass DEF StepOK
<1> QED BY <1>1, <1>2, ZenonT(20) DEF ConsumeToken

LEMMA PersistKeyStep ==
  ASSUME TypeOK, Locals, NEW r \in Completion, PersistKey(r)
  PROVE  StepOK(r)
<1>1. PICK to \in {"rebind", "lock"} :
        /\ Move(r, "key", to) /\ UNCHANGED job
        /\ to = "rebind" <=> job[r].old # None
  <2>1. CASE job[r].old # None
    BY <2>1 DEF PersistKey
  <2>2. CASE job[r].old = None
    BY <2>2 DEF PersistKey
  <2> QED BY <2>1, <2>2, ZenonT(20)
<1>2. pc[r] = "key" /\ InFlight(r)
  BY <1>1, ZenonT(20) DEF Move, InFlight, Ended
<1> DEFINE m == job[r].device
           key == job[r].key
<1>3. m \in Mobile /\ key \in Phone
  BY <1>2, CompletionAt DEF CompletionLocals
<1>4. UNCHANGED <<pairings, credentials, pairingTokens, refreshTokens, lock, licenseVars, granted>>
  BY Zenon DEF PersistKey, licenseVars
<1>5. /\ devices' \in [Mobile -> Phone \cup {NoKey, None}]
      /\ devices'[m] = key /\ key # None
      /\ \A n \in Mobile : n # m => devices'[n] = devices[n]
      /\ \A n \in Mobile : devices[n] # None => devices'[n] # None
      /\ \A n \in Mobile : devices[n] \in Phone => devices'[n] \in Phone
  <2> HIDE DEF m, key
  <2>1. UpsertDevice(m, key)
    BY DEF PersistKey, m, key
  <2> QED BY <1>3, <2>1, DevicesStep
<1>6. StoreTypeOK' /\ (lock \in [License -> Completion \cup {None}])'
  BY <1>4, <1>5, Zenon DEF TypeOK, StoreTypeOK
<1>7. RowsKept
  BY <1>4, <1>5, Zenon DEF RowsKept
<1>8. /\ BaseTypeOK' /\ pc'[r] = to /\ job'[r] = job[r]
      /\ \A s \in Request \ {r} : pc'[s] = pc[s] /\ job'[s] = job[s]
  <2>1. to \in PCs
    BY DEF PCs
  <2>2. Moves(r, to, job[r])
    BY <1>1, CompletionAt, MoveKeepsJob
  <2> QED BY <1>4, <1>6, <2>1, <2>2, CompletionAt, WriteStep, Zenon
<1>9. Frame({r})
  <2>1. devices[m] # None
    BY <1>2, CompletionAt, ZenonT(30) DEF CompletionLocals
  <2>2. \A s \in Mobile : devices[s] = None => devices'[s] = None
    BY <1>5, <2>1, ZenonT(30)
  <2> QED BY <1>4, <1>8, <2>2, Zenon DEF Frame
<1>10. CompletionLocals(r)'
  BY <1>1, <1>2, <1>3, <1>4, <1>5, <1>8, CompletionAt, Zenon DEF CompletionLocals, InFlight, Ended, TokenOf
<1>11. LockHeld(r)' /\ Unregistered(r)' /\ (pc[r] \in Ended => job[r] = Blank)'
  BY <1>1, <1>2, <1>4, <1>8, CompletionAt, Zenon DEF LockHeld, Unregistered, Ended
<1> QED BY <1>7, <1>8, <1>9, <1>10, <1>11, OwnByClass, ZenonT(30) DEF StepOK

LEMMA RebindStep ==
  ASSUME TypeOK, Locals, NEW r \in Completion, Rebind(r)
  PROVE  StepOK(r)
<1>1. Move(r, "rebind", "evict") /\ UNCHANGED job /\ pc[r] = "rebind" /\ InFlight(r)
  BY DEF Rebind, Move, InFlight, Ended
<1>2. UNCHANGED <<devices, credentials, pairingTokens, refreshTokens, lock, licenseVars, granted>>
  BY Zenon DEF Rebind, licenseVars
<1>3. PICK p \in Pair, m \in Mobile, d \in Desktop :
        /\ p = job[r].pair /\ pairings[p] # None
        /\ UpdatePairingDevices(p, m, d)
  <2>1. /\ job[r].pair \in Pair /\ pairings[job[r].pair] # None
        /\ job[r].device \in Mobile /\ TokenOf(r).desktop \in Desktop
    BY <1>1, CompletionAt, ZenonT(30) DEF CompletionLocals
  <2> QED BY <2>1, ZenonT(30) DEF Rebind
<1>4. /\ pairings' \in [Pair -> PairingRow \cup {None}]
      /\ pairings'[p] # None /\ pairings'[p].license = pairings[p].license
      /\ \A q \in Pair : q # p => pairings'[q] = pairings[q]
  <2>1. /\ pairings' \in [Pair -> PairingRow \cup {None}]
        /\ pairings'[p] = [license |-> pairings[p].license, mobile |-> m,
                           desktop |-> d, status |-> pairings[p].status]
        /\ pairings'[p] # None
        /\ \A q \in Pair : q # p => pairings'[q] = pairings[q]
    BY <1>3, UpdatePairingStep, ZenonT(30)
  <2>2. pairings'[p].license = pairings[p].license
    <3>1. IsRow(pairings'[p], pairings[p].license, m, d, pairings[p].status)
      BY <2>1, Zenon DEF IsRow
    <3> QED BY ONLY <3>1, RowOf, ZenonT(60)
  <2> QED BY <2>1, <2>2, Zenon
<1>5. StoreTypeOK' /\ (lock \in [License -> Completion \cup {None}])'
  BY <1>2, <1>4, Zenon DEF TypeOK, StoreTypeOK
<1>6. /\ \A q \in Pair : pairings[q] # None =>
           pairings'[q] # None /\ pairings'[q].license = pairings[q].license
      /\ \A q \in Pair : pairings[q] = None => pairings'[q] = None
  BY <1>3, <1>4
<1>7. RowsKept
  BY <1>2, <1>6, Zenon DEF RowsKept
<1>8. /\ BaseTypeOK' /\ pc'[r] = "evict" /\ job'[r] = job[r]
      /\ \A s \in Request \ {r} : pc'[s] = pc[s] /\ job'[s] = job[s]
  <2>1. "evict" \in PCs
    BY DEF PCs
  <2>2. Moves(r, "evict", job[r])
    BY <1>1, CompletionAt, MoveKeepsJob, Zenon
  <2> QED BY <1>2, <1>5, <2>1, <2>2, CompletionAt, WriteStep, Zenon
<1>9. Frame({r})
  BY <1>2, <1>6, <1>8, Zenon DEF Frame
<1>10. CompletionLocals(r)'
  BY <1>1, <1>2, <1>6, <1>8, CompletionAt, Zenon DEF CompletionLocals, InFlight, Ended, TokenOf
<1>11. LockHeld(r)' /\ Unregistered(r)' /\ (pc[r] \in Ended => job[r] = Blank)'
  BY <1>1, <1>2, <1>8, CompletionAt, Zenon DEF LockHeld, Unregistered, Ended
<1> QED BY <1>7, <1>8, <1>9, <1>10, <1>11, OwnByClass, Zenon DEF StepOK

\* A revocation keeps every refresh token's row.
LEMMA RevokedKept ==
  ASSUME \A y \in TokenRequest : Revoked(y) \/ refreshTokens'[y] = refreshTokens[y]
  PROVE  /\ \A x \in TokenRequest : refreshTokens[x] # None =>
              refreshTokens'[x] # None /\ refreshTokens'[x].pair = refreshTokens[x].pair
         /\ \A x \in TokenRequest : refreshTokens[x] = None => refreshTokens'[x] = None
BY Zenon DEF Revoked

LEMMA EvictStep ==
  ASSUME TypeOK, Locals, NEW r \in Completion, Evict(r)
  PROVE  StepOK(r)
<1>1. Move(r, "evict", "credential") /\ UNCHANGED job /\ pc[r] = "evict" /\ InFlight(r)
  BY Zenon DEF Evict, Move, InFlight, Ended
<1>2. UNCHANGED <<devices, pairings, credentials, pairingTokens, lock, licenseVars, granted>>
  BY Zenon DEF Evict, licenseVars
<1>3. /\ refreshTokens' \in [TokenRequest -> RefreshTokenRow \cup {None}]
      /\ \A y \in TokenRequest : Revoked(y) \/ refreshTokens'[y] = refreshTokens[y]
  <2>1. CASE RevokeRefreshTokensByDevice(job[r].old)
    BY <2>1, RevokeDeviceStep, Zenon
  <2>2. CASE UNCHANGED refreshTokens
    BY <2>2, Zenon DEF TypeOK, StoreTypeOK
  <2> QED BY <2>1, <2>2 DEF Evict
<1>4. StoreTypeOK' /\ (lock \in [License -> Completion \cup {None}])'
  BY <1>2, <1>3, Zenon DEF TypeOK, StoreTypeOK
<1>5. RowsKept
  BY <1>2, <1>3, RevokedKept, Zenon DEF RowsKept
<1>6. /\ BaseTypeOK' /\ pc'[r] = "credential" /\ job'[r] = job[r]
      /\ \A s \in Request \ {r} : pc'[s] = pc[s] /\ job'[s] = job[s]
  <2>1. "credential" \in PCs
    BY ZenonT(20) DEF PCs
  <2>2. Moves(r, "credential", job[r])
    BY <1>1, CompletionAt, MoveKeepsJob, ZenonT(20)
  <2> QED BY <1>2, <1>4, <2>1, <2>2, CompletionAt, WriteStep, Zenon
<1>7. Frame({r})
  BY <1>2, <1>3, <1>6, RevokedKept, Zenon DEF Frame
<1>8. CompletionLocals(r)'
  BY <1>1, <1>2, <1>6, CompletionAt, ZenonT(30) DEF CompletionLocals, InFlight, Ended, TokenOf
<1>9. LockHeld(r)' /\ Unregistered(r)' /\ (pc[r] \in Ended => job[r] = Blank)'
  BY <1>1, <1>2, <1>6, CompletionAt, ZenonT(30) DEF LockHeld, Unregistered, Ended
<1> QED BY <1>5, <1>6, <1>7, <1>8, <1>9, OwnByClass, Zenon DEF StepOK

LEMMA LockLicenseStep ==
  ASSUME TypeOK, Locals, NEW r \in Completion, LockLicense(r)
  PROVE  StepOK(r)
<1>1. Move(r, "lock", "count") /\ UNCHANGED job /\ pc[r] = "lock" /\ InFlight(r)
  BY DEF LockLicense, Move, InFlight, Ended
<1>2. UNCHANGED <<devices, pairings, credentials, pairingTokens, refreshTokens, licenseVars, granted>>
  BY Zenon DEF LockLicense, storeVars, licenseVars
<1>3. PICK l \in License : l = TokenOf(r).license /\ lock[l] = None /\ lock' = [lock EXCEPT ![l] = r]
  BY <1>1, CompletionAt, Zenon DEF LockLicense
<1>4. /\ lock' \in [License -> Completion \cup {None}] /\ None \notin Completion
      /\ lock'[l] = r /\ \A k \in License : k # l => lock'[k] = lock[k]
  BY <1>3, PairingAssumption, Zenon DEF TypeOK
<1>5. StoreTypeOK' /\ (lock \in [License -> Completion \cup {None}])'
  BY <1>2, <1>4, Zenon DEF TypeOK, StoreTypeOK
<1>6. RowsKept
  BY <1>2, Zenon DEF RowsKept
<1>7. /\ BaseTypeOK' /\ pc'[r] = "count" /\ job'[r] = job[r]
      /\ \A s \in Request \ {r} : pc'[s] = pc[s] /\ job'[s] = job[s]
  <2>1. "count" \in PCs
    BY DEF PCs
  <2>2. Moves(r, "count", job[r])
    BY <1>1, CompletionAt, MoveKeepsJob, Zenon
  <2> QED BY <1>2, <1>5, <2>1, <2>2, CompletionAt, WriteStep, Zenon
<1>8. Frame({r})
  <2>1. \A k \in License, s \in Completion : s # r => (lock'[k] = s <=> lock[k] = s)
    BY <1>3, <1>4
  <2> QED BY <1>2, <1>7, <2>1, Zenon DEF Frame
<1>9. CompletionLocals(r)'
  BY <1>1, <1>2, <1>7, CompletionAt, ZenonT(30) DEF CompletionLocals, InFlight, Ended, TokenOf
<1>10. LockHeld(r)'
  <2>1. TokenOf(r)' = TokenOf(r)
    BY <1>2, <1>7, Zenon DEF TokenOf
  <2>2. \A k \in License : lock[k] # r
    <3>1. LockHeld(r)
      BY CompletionAt, Zenon
    <3> QED BY <1>1, <3>1, Zenon DEF LockHeld
  <2>3. \A k \in License : lock'[k] = r <=> TokenOf(r).license = k
    BY <1>3, <1>4, <2>2, Zenon
  <2>4. pc'[r] \in {"count", "commit"}
    BY <1>7, Zenon
  <2> QED BY <2>1, <2>3, <2>4, Zenon DEF LockHeld
<1>11. Unregistered(r)' /\ (pc[r] \in Ended => job[r] = Blank)'
  BY <1>7, ZenonT(30) DEF Unregistered, Ended
<1> QED BY <1>6, <1>7, <1>8, <1>9, <1>10, <1>11, OwnByClass, Zenon DEF StepOK

LEMMA CountPairsStep ==
  ASSUME TypeOK, Locals, NEW r \in Completion, CountPairs(r)
  PROVE  StepOK(r)
<1>1. pc[r] = "count" /\ InFlight(r)
  BY DEF CountPairs, End, Move, InFlight, Ended
<1>2. UNCHANGED <<storeVars, licenseVars>>
  BY ZenonT(30) DEF CountPairs
<1>3. CASE Move(r, "count", "commit") /\ UNCHANGED <<job, lock>>
  <2>1. UNCHANGED <<storeVars, lock, licenseVars>>
    BY <1>2, <1>3, ZenonT(20)
  <2>2. Moves(r, "commit", job[r]) /\ "commit" \in PCs
    BY <1>3, CompletionAt, MoveKeepsJob DEF PCs
  <2>3. BaseTypeOK' /\ RowsKept /\ Frame({r}) /\ pc'[r] = "commit" /\ job'[r] = job[r]
    BY <2>1, <2>2, CompletionAt, QuietStep, ZenonT(30)
  <2>4. UNCHANGED <<devices, pairings, pairingTokens, lock, granted>>
    BY <2>1, Zenon DEF storeVars, licenseVars
  <2>5. CompletionLocals(r)'
    BY <1>1, <2>3, <2>4, CompletionAt, ZenonT(30) DEF CompletionLocals, InFlight, Ended, TokenOf
  <2>6. LockHeld(r)' /\ Unregistered(r)' /\ (pc[r] \in Ended => job[r] = Blank)'
    <3>1. TokenOf(r)' = TokenOf(r) /\ LockHeld(r)
      BY <2>3, <2>4, CompletionAt, ZenonT(30) DEF TokenOf
    <3>2. pc[r] \in {"count", "commit"} /\ pc'[r] \in {"count", "commit"}
      BY <1>1, <2>3, Zenon
    <3>3. LockHeld(r)'
      BY <2>4, <3>1, <3>2, Zenon DEF LockHeld
    <3> QED BY <2>3, <3>3, Zenon DEF Unregistered, Ended
  <2> QED BY <2>3, <2>5, <2>6, OwnByClass, ZenonT(20) DEF StepOK
<1>4. CASE End(r, "count", "failed") /\ Unlock(r)
  <2>1. Moves(r, "failed", Blank) /\ "failed" \in PCs
    BY <1>4 DEF End, Move, Moves, PCs
  <2>2. UNCHANGED <<devices, pairings, credentials, pairingTokens, refreshTokens, granted>>
    BY <1>2, ZenonT(30) DEF storeVars, licenseVars
  <2>3. /\ lock' \in [License -> Completion \cup {None}]
        /\ \A l \in License : lock'[l] # r
        /\ \A l \in License, s \in Completion \ {r} : lock'[l] = s <=> lock[l] = s
    BY <1>4, CompletionAt, UnlockStep, ZenonT(20)
  <2>4. StoreTypeOK'
    BY <2>2, Zenon DEF TypeOK, StoreTypeOK
  <2>5. /\ BaseTypeOK' /\ pc'[r] = "failed" /\ job'[r] = Blank
        /\ \A s \in Request \ {r} : pc'[s] = pc[s] /\ job'[s] = job[s]
    <3>1. UNCHANGED licenseVars
      BY <1>2
    <3>2. r \in Request /\ Blank \in Job /\ (lock \in [License -> Completion \cup {None}])'
      BY <2>3, BlankJob, CompletionAt, Zenon
    <3> QED BY <2>1, <2>4, <3>1, <3>2, WriteStep, Zenon
  <2>6. RowsKept
    BY <2>2, Zenon DEF RowsKept
  <2>7. Frame({r})
    BY <2>2, <2>3, <2>5, Zenon DEF Frame
  <2>8. r \notin TokenRequest
    BY PairingAssumption, ZenonT(20)
  <2> QED BY <2>3, <2>5, <2>6, <2>7, <2>8, CompletionAt, EndedOwn, Zenon DEF StepOK
<1> QED BY <1>3, <1>4, Zenon DEF CountPairs

LEMMA CommitPairingStep ==
  ASSUME TypeOK, Locals, NEW r \in Completion, CommitPairing(r)
  PROVE  StepOK(r)
<1>1. /\ Move(r, "commit", "credential") /\ UNCHANGED job /\ pc[r] = "commit" /\ InFlight(r)
      /\ Unlock(r)
  BY DEF CommitPairing, Move, InFlight, Ended
<1>2. UNCHANGED <<devices, credentials, pairingTokens, refreshTokens, licenseVars, granted>>
  BY Zenon DEF CommitPairing, licenseVars
<1>3. job[r].pair = r
  <2>1. None \notin Mobile
    BY PairingAssumption, ZenonT(20) DEF Mobile
  <2> QED BY <1>1, <2>1, CompletionAt, Zenon DEF CompletionLocals
<1>4. PICK l \in License, m \in Mobile, d \in Desktop : InsertPairing(r, l, m, d)
  <2>1. /\ job[r].device \in Mobile
        /\ TokenOf(r).license \in License /\ TokenOf(r).desktop \in Desktop
    BY <1>1, CompletionAt, ZenonT(30) DEF CompletionLocals
  <2> QED BY <1>3, <2>1 DEF CommitPairing
<1>5. pairings[r] = None /\ r \in Pair
  BY <1>1, CompletionAt, Zenon DEF CompletionLocals
<1>6. /\ pairings' \in [Pair -> PairingRow \cup {None}]
      /\ pairings'[r] # None
      /\ \A q \in Pair : q # r => pairings'[q] = pairings[q]
  BY <1>4, <1>5, InsertPairingStep, Zenon
<1>7. /\ lock' \in [License -> Completion \cup {None}]
      /\ \A k \in License : lock'[k] # r
      /\ \A k \in License, s \in Completion \ {r} : lock'[k] = s <=> lock[k] = s
  BY <1>1, CompletionAt, UnlockStep, Zenon
<1>8. StoreTypeOK'
  BY <1>2, <1>6, Zenon DEF TypeOK, StoreTypeOK
<1>9. RowsKept
  <2>1. \A q \in Pair : pairings[q] # None =>
          pairings'[q] # None /\ pairings'[q].license = pairings[q].license
    BY <1>5, <1>6, Zenon
  <2> QED BY <1>2, <2>1, Zenon DEF RowsKept
<1>10. /\ BaseTypeOK' /\ pc'[r] = "credential" /\ job'[r] = job[r]
      /\ \A s \in Request \ {r} : pc'[s] = pc[s] /\ job'[s] = job[s]
  <2>1. "credential" \in PCs
    BY DEF PCs
  <2>2. Moves(r, "credential", job[r])
    BY <1>1, CompletionAt, MoveKeepsJob, Zenon
  <2> QED BY <1>2, <1>7, <1>8, <2>1, <2>2, CompletionAt, WriteStep, Zenon
<1>11. Frame({r})
  <2>1. SUFFICES ASSUME NEW s \in Request, s # r
                 PROVE  /\ \A k \in License : s \in Completion => (lock'[k] = s <=> lock[k] = s)
                        /\ s \in Pair /\ pairings[s] = None => pairings'[s] = None
    BY <1>2, <1>10, Zenon DEF Frame
  <2>2. \A k \in License : s \in Completion => (lock'[k] = s <=> lock[k] = s)
    BY <1>7, <2>1
  <2> QED BY <1>6, <2>1, <2>2, Zenon
<1>12. CompletionLocals(r)'
  BY <1>1, <1>2, <1>6, <1>10, <1>3, CompletionAt, Zenon DEF CompletionLocals, InFlight, Ended, TokenOf
<1>13. LockHeld(r)' /\ Unregistered(r)' /\ (pc[r] \in Ended => job[r] = Blank)'
  BY <1>7, <1>10, ZenonT(30) DEF LockHeld, Unregistered, Ended
<1> QED BY <1>9, <1>10, <1>11, <1>12, <1>13, OwnByClass, ZenonT(20) DEF StepOK

LEMMA PutCredentialStep ==
  ASSUME TypeOK, Locals, NEW r \in Completion, PutCredential(r)
  PROVE  StepOK(r)
<1>1. Moves(r, "done", Blank) /\ pc[r] = "credential" /\ "done" \in PCs /\ InFlight(r)
  BY DEF PutCredential, End, Move, Moves, PCs, InFlight, Ended
<1>2. UNCHANGED <<devices, pairings, pairingTokens, refreshTokens, lock, licenseVars, granted>>
  BY Zenon DEF PutCredential, licenseVars
<1>3. credentials' \in [Pair -> CredentialRow \cup {None}]
  <2>1. job[r].pair \in Pair /\ job[r].device \in Mobile
    BY <1>1, CompletionAt, Zenon DEF CompletionLocals
  <2> QED BY <2>1, CredentialsStep, Zenon DEF PutCredential
<1>4. StoreTypeOK' /\ (lock \in [License -> Completion \cup {None}])'
  BY <1>2, <1>3, Zenon DEF TypeOK, StoreTypeOK
<1>5. /\ BaseTypeOK' /\ pc'[r] = "done" /\ job'[r] = Blank
      /\ \A s \in Request \ {r} : pc'[s] = pc[s] /\ job'[s] = job[s]
  BY <1>1, <1>2, <1>4, BlankJob, CompletionAt, WriteStep, Zenon
<1>6. RowsKept /\ Frame({r})
  <2>1. RowsKept
    BY <1>2, Zenon DEF RowsKept
  <2>2. Frame({r})
    BY <1>2, <1>5, ZenonT(30) DEF Frame
  <2> QED BY <2>1, <2>2
<1>7. r \notin TokenRequest /\ \A l \in License : lock'[l] # r
  BY <1>1, <1>2, CompletionAt, PairingAssumption, ZenonT(20) DEF LockHeld
<1> QED BY <1>5, <1>6, <1>7, CompletionAt, EndedOwn, Zenon DEF StepOK

----------------------------------------------------------------------------
(* Unpairing, aborts and the environment.                                  *)

\* The status of a pairing that exists changes: every row stays.
LEMMA RevokedPairingKept ==
  ASSUME TypeOK, NEW p \in Pair, pairings[p] # None, SetPairingStatus(p)
  PROVE  /\ pairings' \in [Pair -> PairingRow \cup {None}]
         /\ \A q \in Pair : pairings[q] # None =>
              pairings'[q] # None /\ pairings'[q].license = pairings[q].license
         /\ \A q \in Pair : pairings[q] = None => pairings'[q] = None
BY RevokePairingStep

LEMMA BeginUnpairStep ==
  ASSUME TypeOK, Locals, NEW r \in Unpair, NEW p \in Pair, BeginUnpair(r, p)
  PROVE  StepOK(r)
<1>1. /\ r \in Request /\ job[r] \in Job /\ pc[r] = "idle" /\ pairings[p] # None
      /\ SetPairingStatus(p)
  BY DEF Request, TypeOK, BeginUnpair, Move
<1>2. UNCHANGED <<devices, credentials, pairingTokens, refreshTokens, lock, licenseVars, granted>>
  BY Zenon DEF BeginUnpair, licenseVars
<1> DEFINE j == Fields(job[r].tok, job[r].key, job[r].device, p, job[r].old, job[r].max)
<1>3. Moves(r, "revoke", j)
  <2>1. job' = [job EXCEPT ![r] = j]
    BY <1>1, SetOne, Zenon DEF BeginUnpair
  <2> QED BY <2>1, Zenon DEF BeginUnpair, Move, Moves
<1>4. j \in Job /\ "revoke" \in PCs /\ j.pair = p
  BY <1>1, ZenonT(30) DEF Job, Fields, PCs
<1> HIDE DEF j
<1>5. /\ pairings' \in [Pair -> PairingRow \cup {None}]
      /\ \A q \in Pair : pairings[q] # None =>
           pairings'[q] # None /\ pairings'[q].license = pairings[q].license
      /\ \A q \in Pair : pairings[q] = None => pairings'[q] = None
  BY <1>1, RevokedPairingKept, Zenon
<1>6. StoreTypeOK' /\ (lock \in [License -> Completion \cup {None}])'
  BY <1>2, <1>5, Zenon DEF TypeOK, StoreTypeOK
<1>7. /\ BaseTypeOK' /\ pc'[r] = "revoke" /\ job'[r] = j
      /\ \A s \in Request \ {r} : pc'[s] = pc[s] /\ job'[s] = job[s]
  BY <1>1, <1>2, <1>3, <1>4, <1>6, WriteStep, Zenon
<1>8. RowsKept
  BY <1>2, <1>5, Zenon DEF RowsKept
<1>9. Frame({r})
  BY <1>2, <1>5, <1>7, ZenonT(30) DEF Frame
<1>10. UnpairLocals(r)' /\ (pc[r] \in Ended => job[r] = Blank)'
  BY <1>4, <1>7, ZenonT(20) DEF UnpairLocals, InFlight, Ended
<1> QED BY <1>7, <1>8, <1>9, <1>10, OwnByClass, Zenon DEF StepOK

LEMMA RevokeCredentialStep ==
  ASSUME TypeOK, Locals, NEW r \in Unpair, RevokeCredential(r)
  PROVE  StepOK(r)
<1>1. /\ r \in Request /\ Moves(r, "done", Blank) /\ pc[r] = "revoke" /\ "done" \in PCs
      /\ UnpairLocals(r)
  BY DEF Request, RevokeCredential, End, Move, Moves, PCs, Locals, Own
<1>2. UNCHANGED <<devices, pairings, pairingTokens, refreshTokens, lock, licenseVars, granted>>
  BY Zenon DEF RevokeCredential, licenseVars
<1>3. credentials' \in [Pair -> CredentialRow \cup {None}]
  <2>1. job[r].pair \in Pair
    BY <1>1 DEF UnpairLocals, InFlight, Ended
  <2>2. CASE RevokePairCredential(job[r].pair)
    BY <2>1, <2>2, CredentialsStep, Zenon
  <2>3. CASE UNCHANGED credentials
    BY <2>3, Zenon DEF TypeOK, StoreTypeOK
  <2> QED BY <2>2, <2>3, ZenonT(20) DEF RevokeCredential
<1>4. StoreTypeOK' /\ (lock \in [License -> Completion \cup {None}])'
  BY <1>2, <1>3, Zenon DEF TypeOK, StoreTypeOK
<1>5. /\ BaseTypeOK' /\ pc'[r] = "done" /\ job'[r] = Blank
      /\ \A s \in Request \ {r} : pc'[s] = pc[s] /\ job'[s] = job[s]
  BY <1>1, <1>2, <1>4, BlankJob, WriteStep, Zenon
<1>6. RowsKept
  BY <1>2, Zenon DEF RowsKept
<1>7. Frame({r})
  BY <1>2, <1>5, Zenon DEF Frame
<1>8. r \notin TokenRequest /\ r \notin Completion
  BY PairingAssumption, ZenonT(20)
<1> QED BY <1>1, <1>5, <1>6, <1>7, <1>8, EndedOwn, Zenon DEF StepOK

LEMMA AbortStep ==
  ASSUME TypeOK, Locals, NEW r \in Request, Abort(r)
  PROVE  StepOK(r)
<1>1. /\ Moves(r, "failed", Blank) /\ InFlight(r) /\ Unlock(r) /\ "failed" \in PCs
      /\ UNCHANGED <<storeVars, licenseVars>> /\ Own(r)
  BY DEF Abort, End, Move, Moves, PCs, Locals
<1>2. UNCHANGED <<devices, pairings, credentials, pairingTokens, refreshTokens, granted>>
  BY <1>1, Zenon DEF storeVars, licenseVars
<1>3. /\ lock' \in [License -> Completion \cup {None}]
      /\ \A l \in License : r \in Completion => lock'[l] # r
      /\ \A l \in License, s \in Completion \ {r} : lock'[l] = s <=> lock[l] = s
  BY <1>1, UnlockStep, Zenon
<1>4. StoreTypeOK'
  BY <1>2, Zenon DEF TypeOK, StoreTypeOK
<1>5. /\ BaseTypeOK' /\ pc'[r] = "failed" /\ job'[r] = Blank
      /\ \A s \in Request \ {r} : pc'[s] = pc[s] /\ job'[s] = job[s]
  <2>1. UNCHANGED licenseVars /\ Blank \in Job /\ (lock \in [License -> Completion \cup {None}])'
    BY <1>1, <1>3, BlankJob
  <2> QED BY <1>1, <1>4, <2>1, WriteStep, Zenon
<1>6. RowsKept
  BY <1>2, Zenon DEF RowsKept
<1>7. Frame({r})
  BY <1>2, <1>3, <1>5, Zenon DEF Frame
<1>8. r \in TokenRequest => refreshTokens'[r] = None
  BY <1>1, <1>2, Zenon DEF Own, TokenLocals, InFlight, Ended
<1> QED BY <1>3, <1>5, <1>6, <1>7, <1>8, EndedOwn, ZenonT(20) DEF StepOK

\* Steps of no request: a new pairing token, a change of the subscription, and
\* enforcement.
EnvironmentStep ==
  \/ \E t \in PairingToken, l \in License, d \in Desktop : CreatePairingToken(t, l, d)
  \/ \E l \in License, n \in Quota, ok \in BOOLEAN : ChangeSubscription(l, n, ok)
  \/ \E p \in Pair : EnforcePairing(p)

LEMMA EnvironmentKeeps ==
  ASSUME TypeOK, EnvironmentStep
  PROVE  BaseTypeOK' /\ RowsKept /\ Frame({})
<1>1. ASSUME NEW t \in PairingToken, NEW l \in License, NEW d \in Desktop,
             CreatePairingToken(t, l, d)
      PROVE  BaseTypeOK' /\ RowsKept /\ Frame({})
  <2>1. UNCHANGED <<devices, pairings, credentials, refreshTokens, pc, job, lock,
                    maxPairs, issuable, changes, granted>>
    BY <1>1, ZenonT(30) DEF CreatePairingToken, pairingVars, licenseVars
  <2>2. /\ pairingTokens' \in [PairingToken -> PairingTokenRow \cup {None}]
        /\ \A u \in PairingToken : u # t => pairingTokens'[u] = pairingTokens[u]
        /\ pairingTokens[t] = None
    BY <1>1, InsertTokenStep DEF CreatePairingToken
  <2>3. BaseTypeOK'
    BY <2>1, <2>2, BaseType, Zenon DEF BaseTypeOK, StoreTypeOK
  <2>4. RowsKept
    <3>1. \A u \in PairingToken : pairingTokens[u] # None => pairingTokens'[u] = pairingTokens[u]
      BY <2>2
    <3> QED BY <2>1, <3>1, Zenon DEF RowsKept
  <2>5. Frame({})
    BY <2>1, Zenon DEF Frame
  <2> QED BY <2>3, <2>4, <2>5
<1>2. ASSUME NEW l \in License, NEW n \in Quota, NEW ok \in BOOLEAN, ChangeSubscription(l, n, ok)
      PROVE  BaseTypeOK' /\ RowsKept /\ Frame({})
  <2>1. UNCHANGED <<devices, pairings, credentials, pairingTokens, refreshTokens, pc, job, lock>>
    BY <1>2, ZenonT(30) DEF ChangeSubscription, storeVars
  <2>2. changes' \in 0..MaxChanges
    <3>1. changes < MaxChanges /\ changes' = changes + 1 /\ changes \in 0..MaxChanges
      BY <1>2, Zenon DEF TypeOK, ChangeSubscription
    <3>2. MaxChanges \in Nat
      BY PairingAssumption, Zenon
    <3> QED BY <3>1, <3>2
  <2>3. issuable' \in [License -> BOOLEAN] /\ maxPairs' \in [License -> Quota]
    BY <1>2, ZenonT(30) DEF TypeOK, ChangeSubscription
  <2>4. /\ granted' \in [License -> SUBSET Quota]
        /\ \A k \in License : granted[k] \subseteq granted'[k]
    BY <1>2 DEF TypeOK, ChangeSubscription
  <2>5. BaseTypeOK'
    BY <2>1, <2>2, <2>3, <2>4, BaseType, Zenon DEF BaseTypeOK, StoreTypeOK
  <2>6. RowsKept
    BY <2>1, <2>4, Zenon DEF RowsKept
  <2>7. Frame({})
    BY <2>1, Zenon DEF Frame
  <2> QED BY <2>5, <2>6, <2>7
<1>3. ASSUME NEW p \in Pair, EnforcePairing(p)
      PROVE  BaseTypeOK' /\ RowsKept /\ Frame({})
  <2>1. UNCHANGED <<devices, credentials, pairingTokens, refreshTokens, pc, job, lock,
                    maxPairs, issuable, changes, granted>>
    BY <1>3, Zenon DEF EnforcePairing, pairingVars, licenseVars
  <2>2. pairings[p] # None /\ SetPairingStatus(p)
    BY <1>3, ZenonT(20) DEF EnforcePairing, PairingActive
  <2>3. /\ pairings' \in [Pair -> PairingRow \cup {None}]
        /\ \A q \in Pair : pairings[q] # None =>
             pairings'[q] # None /\ pairings'[q].license = pairings[q].license
        /\ \A q \in Pair : pairings[q] = None => pairings'[q] = None
    BY <2>2, RevokedPairingKept
  <2>4. BaseTypeOK'
    BY <2>1, <2>3, BaseType, Zenon DEF BaseTypeOK, StoreTypeOK
  <2>5. RowsKept
    BY <2>1, <2>3, Zenon DEF RowsKept
  <2>6. Frame({})
    BY <2>1, <2>3, Zenon DEF Frame
  <2> QED BY <2>4, <2>5, <2>6
<1> QED BY <1>1, <1>2, <1>3, ZenonT(20) DEF EnvironmentStep

----------------------------------------------------------------------------
(* Token requests.                                                         *)

LEMMA TokenRequestAt ==
  ASSUME TypeOK, Locals, NEW r \in TokenRequest
  PROVE  /\ r \in Request /\ job[r] \in Job /\ TokenLocals(r) /\ r \notin Completion
         /\ pc[r] \in Ended => job[r] = Blank
BY PairingAssumption, ZenonT(30) DEF Request, TypeOK, Locals, Own

LEMMA BeginIssueStep ==
  ASSUME TypeOK, Locals, NEW r \in TokenRequest, NEW p \in Pair, NEW d \in Device,
         BeginIssue(r, p, d)
  PROVE  StepOK(r) /\ pc'[r] = "license" /\ job'[r] = Fields(None, None, d, p, None, 0)
<1>1. pc[r] = "idle" /\ pairings[p] # None /\ UNCHANGED <<storeVars, lock, licenseVars>>
  BY ZenonT(20) DEF BeginIssue, Move, PairingActive
<1>2. job[r] = Fields(None, None, None, None, None, 0)
  BY <1>1, TokenRequestAt DEF Ended, Blank, Fields
<1> DEFINE j == Fields(None, None, d, p, None, 0)
<1>3. Moves(r, "license", j)
  <2>1. job' = SetDevicePair(r, d, p)
    BY Zenon DEF BeginIssue, SetDevicePair
  <2>2. SetDevicePair(r, d, p) =
          [job EXCEPT ![r] = Fields(job[r].tok, job[r].key, d, p, job[r].old, job[r].max)]
    BY TokenRequestAt, SetTwo, ZenonT(30)
  <2>3. Fields(job[r].tok, job[r].key, d, p, job[r].old, job[r].max) = j
    <3>1. /\ job[r].tok = None /\ job[r].key = None /\ job[r].old = None /\ job[r].max = 0
      <4>1. IsFields(job[r], None, None, None, None, None, 0)
        BY <1>2, Zenon DEF IsFields
      <4> QED BY <4>1, FieldsOf, Zenon
    <3> QED BY <3>1, ZenonT(30)
  <2> QED BY <2>1, <2>2, <2>3, Zenon DEF BeginIssue, Move, Moves
<1>4. j \in Job /\ "license" \in PCs
  BY ZenonT(20) DEF Job, Fields, PCs
<1>5. j.device = d /\ j.pair = p /\ j.old = None
  BY ZenonT(20) DEF Fields
<1> HIDE DEF j
<1>6. BaseTypeOK' /\ RowsKept /\ Frame({r}) /\ pc'[r] = "license" /\ job'[r] = j
  BY <1>1, <1>3, <1>4, TokenRequestAt, QuietStep, Zenon
<1>7. UNCHANGED <<pairings, refreshTokens>>
  BY <1>1, Zenon DEF storeVars
<1>8. TokenLocals(r)' /\ (pc[r] \in Ended => job[r] = Blank)'
  BY <1>1, <1>5, <1>6, <1>7, TokenRequestAt, ZenonT(30) DEF TokenLocals, InFlight, Ended
<1> QED BY <1>6, <1>8, OwnByClass, Zenon DEF StepOK, j

LEMMA BeginRefreshStep ==
  ASSUME TypeOK, Locals, NEW r \in TokenRequest, NEW x \in TokenRequest, BeginRefresh(r, x)
  PROVE  /\ StepOK(r) /\ pc'[r] \in {"reuse", "member"} /\ job'[r].old = x
<1>1. /\ pc[r] = "idle" /\ refreshTokens[x] # None
      /\ UNCHANGED <<storeVars, lock, licenseVars>>
  BY DEF BeginRefresh, Move
<1>2. PICK to \in {"reuse", "member"} : Move(r, "idle", to)
  BY Zenon DEF BeginRefresh
<1>3. job[r] = Fields(None, None, None, None, None, 0)
  BY <1>1, TokenRequestAt, ZenonT(30) DEF Ended, Blank, Fields
<1>4. PICK d \in Device, p \in Pair : d = refreshTokens[x].device /\ p = refreshTokens[x].pair
  BY <1>1, Zenon DEF TypeOK, StoreTypeOK, RefreshTokenRow
<1> DEFINE j == Fields(None, None, d, p, x, 0)
<1>5. Moves(r, to, j)
  <2>1. job' = SetDevicePairOld(r, d, p, x)
    BY <1>4, ZenonT(30) DEF BeginRefresh, SetDevicePairOld
  <2>2. SetDevicePairOld(r, d, p, x) =
          [job EXCEPT ![r] = Fields(job[r].tok, job[r].key, d, p, x, job[r].max)]
    BY TokenRequestAt, SetThree, ZenonT(20)
  <2>3. Fields(job[r].tok, job[r].key, d, p, x, job[r].max) = j
    <3>1. /\ job[r].tok = None /\ job[r].key = None /\ job[r].max = 0
      <4>1. IsFields(job[r], None, None, None, None, None, 0)
        BY <1>3, Zenon DEF IsFields
      <4> QED BY <4>1, FieldsOf, Zenon
    <3> QED BY <3>1, Zenon
  <2> QED BY <1>2, <2>1, <2>2, <2>3, ZenonT(30) DEF Move, Moves
<1>6. j \in Job /\ to \in PCs
  BY ZenonT(20) DEF Job, Fields, PCs
<1>7. j.device = d /\ j.pair = p /\ j.old = x
  BY DEF Fields
<1> HIDE DEF j
<1>8. BaseTypeOK' /\ RowsKept /\ Frame({r}) /\ pc'[r] = to /\ job'[r] = j
  BY <1>1, <1>5, <1>6, TokenRequestAt, QuietStep, ZenonT(30)
<1>9. UNCHANGED <<pairings, refreshTokens>> /\ pairings[p] # None
  BY <1>1, <1>4, TokenRequestAt DEF storeVars, TokenLocals
<1>10. TokenLocals(r)' /\ (pc[r] \in Ended => job[r] = Blank)'
  <2>1. TokenLocals(r) /\ refreshTokens[r] = None
    BY <1>1, TokenRequestAt, Zenon DEF TokenLocals
  <2>2. pc'[r] \notin Ended
    BY <1>8 DEF Ended
  <2>3. /\ job'[r].device = d /\ job'[r].pair = p /\ job'[r].old = x
        /\ refreshTokens' = refreshTokens /\ pairings' = pairings
    BY <1>7, <1>8, <1>9, ZenonT(30)
  <2>4. x # None
    BY PairingAssumption, ZenonT(20)
  <2> QED BY <1>1, <1>8, <1>9, <2>1, <2>2, <2>3, <2>4, Zenon DEF TokenLocals, InFlight
<1> QED BY <1>7, <1>8, <1>10, OwnByClass, Zenon DEF StepOK

\* A token request that leaves the tables alone but for revocations.
LEMMA TokenWriteStep ==
  ASSUME TypeOK, Locals, NEW r \in TokenRequest, NEW to \in PCs, NEW j \in Job, Moves(r, to, j),
         UNCHANGED <<devices, pairings, credentials, pairingTokens, lock, licenseVars>>,
         refreshTokens' \in [TokenRequest -> RefreshTokenRow \cup {None}],
         \A y \in TokenRequest : Revoked(y) \/ refreshTokens'[y] = refreshTokens[y]
  PROVE  BaseTypeOK' /\ RowsKept /\ Frame({r}) /\ pc'[r] = to /\ job'[r] = j
<1>1. StoreTypeOK' /\ (lock \in [License -> Completion \cup {None}])' /\ UNCHANGED granted
  BY Zenon DEF TypeOK, StoreTypeOK, licenseVars
<1>2. /\ BaseTypeOK' /\ pc'[r] = to /\ job'[r] = j
      /\ \A s \in Request \ {r} : pc'[s] = pc[s] /\ job'[s] = job[s]
  <2>1. UNCHANGED licenseVars
    OBVIOUS
  <2> QED BY <1>1, <2>1, TokenRequestAt, WriteStep, ZenonT(60)
<1>3. RowsKept
  BY <1>1, RevokedKept, ZenonT(30) DEF RowsKept
<1>4. Frame({r})
  BY <1>2, RevokedKept, Zenon DEF Frame
<1> QED BY <1>2, <1>3, <1>4, ZenonT(20)

\* A token request that ends without storing a token.
LEMMA TokenFails ==
  ASSUME TypeOK, Locals, NEW r \in TokenRequest, NEW from, End(r, from, "failed"), from # "done",
         UNCHANGED <<devices, pairings, credentials, pairingTokens, lock, licenseVars>>,
         refreshTokens' \in [TokenRequest -> RefreshTokenRow \cup {None}],
         \A y \in TokenRequest : Revoked(y) \/ refreshTokens'[y] = refreshTokens[y]
  PROVE  StepOK(r) /\ pc'[r] = "failed"
<1>1. Moves(r, "failed", Blank) /\ pc[r] = from /\ "failed" \in PCs
  BY ZenonT(20) DEF End, Move, Moves, PCs
<1>2. BaseTypeOK' /\ RowsKept /\ Frame({r}) /\ pc'[r] = "failed" /\ job'[r] = Blank
  <2>1. Blank \in Job
    BY BlankJob
  <2> QED BY <1>1, <2>1, TokenWriteStep, ZenonT(30)
<1>3. refreshTokens'[r] = None
  BY <1>1, TokenRequestAt, RevokedKept, Zenon DEF TokenLocals
<1> QED BY <1>2, <1>3, TokenRequestAt, EndedOwn, ZenonT(30) DEF StepOK

LEMMA UnchangedTokens ==
  ASSUME TypeOK, UNCHANGED refreshTokens
  PROVE  /\ refreshTokens' \in [TokenRequest -> RefreshTokenRow \cup {None}]
         /\ \A y \in TokenRequest : Revoked(y) \/ refreshTokens'[y] = refreshTokens[y]
BY Zenon DEF TypeOK, StoreTypeOK

LEMMA RevokeChainStep ==
  ASSUME TypeOK, Locals, NEW r \in TokenRequest, RevokeChain(r)
  PROVE  /\ StepOK(r) /\ pc'[r] = "failed"
         /\ \A y \in TokenRequest : Revoked(y) \/ refreshTokens'[y] = refreshTokens[y]
<1>1. /\ refreshTokens' \in [TokenRequest -> RefreshTokenRow \cup {None}]
      /\ \A y \in TokenRequest : Revoked(y) \/ refreshTokens'[y] = refreshTokens[y]
  <2>1. CASE RevokeRefreshTokensByDevice(job[r].device)
    BY <2>1, RevokeDeviceStep, Zenon
  <2>2. CASE UNCHANGED refreshTokens
    BY <2>2, UnchangedTokens
  <2> QED BY <2>1, <2>2 DEF RevokeChain
<1>2. /\ UNCHANGED <<devices, pairings, credentials, pairingTokens, lock, licenseVars>>
      /\ End(r, "reuse", "failed")
  BY ZenonT(30) DEF RevokeChain
<1> QED BY <1>1, <1>2, TokenFails, ZenonT(30)

\* A rejection revokes at most the token presented.
LEMMA RejectStep ==
  ASSUME TypeOK, Locals, NEW r \in TokenRequest, NEW from \in {"member", "license"}, Reject(r, from),
         UNCHANGED <<devices, pairings, credentials, pairingTokens, lock, licenseVars>>
  PROVE  /\ StepOK(r) /\ pc'[r] = "failed"
         /\ \A y \in TokenRequest : Revoked(y) \/ refreshTokens'[y] = refreshTokens[y]
<1>1. End(r, from, "failed") /\ pc[r] = from
  BY ZenonT(20) DEF Reject, End, Move
<1>2. /\ refreshTokens' \in [TokenRequest -> RefreshTokenRow \cup {None}]
      /\ \A y \in TokenRequest : Revoked(y) \/ refreshTokens'[y] = refreshTokens[y]
  <2>1. CASE IsRefresh(r) /\ RevokeRefreshToken(job[r].old)
    <3>1. job[r].old \in TokenRequest /\ refreshTokens[job[r].old] # None
      BY <1>1, <2>1, TokenRequestAt, Zenon DEF TokenLocals, InFlight, Ended, IsRefresh
    <3>2. PICK x \in TokenRequest : refreshTokens[x] # None /\ RevokeRefreshToken(x)
      BY <2>1, <3>1, Zenon
    <3>3. /\ refreshTokens' \in [TokenRequest -> RefreshTokenRow \cup {None}]
          /\ Revoked(x)
          /\ \A y \in TokenRequest : y # x => refreshTokens'[y] = refreshTokens[y]
      BY <3>2, RevokeTokenStep, Zenon
    <3> QED BY <3>3, Zenon
  <2>2. CASE UNCHANGED refreshTokens
    BY <2>2, UnchangedTokens
  <2> QED BY <2>1, <2>2 DEF Reject
<1> QED BY <1>1, <1>2, TokenFails, ZenonT(20)

\* A token request that passes a check goes on with the same locals.
LEMMA PassesCheck ==
  ASSUME TypeOK, Locals, NEW r \in TokenRequest, NEW from, NEW to, Move(r, from, to),
         from \in {"member", "license"}, to \in {"license", "rotate", "mint"},
         to = "rotate" => IsRefresh(r),
         UNCHANGED <<job, refreshTokens, devices, pairings, credentials, pairingTokens, lock, licenseVars>>
  PROVE  StepOK(r) /\ pc'[r] = to /\ job'[r] = job[r]
<1>1. Moves(r, to, job[r]) /\ to \in PCs /\ pc[r] = from
  BY TokenRequestAt, MoveKeepsJob, ZenonT(30) DEF PCs, Move
<1>2. UNCHANGED <<storeVars, lock, licenseVars>>
  BY Zenon DEF storeVars
<1>3. BaseTypeOK' /\ RowsKept /\ Frame({r}) /\ pc'[r] = to /\ job'[r] = job[r]
  BY <1>1, <1>2, TokenRequestAt, QuietStep, Zenon
<1>4. TokenLocals(r)' /\ (pc[r] \in Ended => job[r] = Blank)'
  BY <1>1, <1>3, TokenRequestAt, ZenonT(30) DEF TokenLocals, InFlight, Ended, IsRefresh
<1> QED BY <1>3, <1>4, OwnByClass, ZenonT(30) DEF StepOK

LEMMA CheckMemberStep ==
  ASSUME TypeOK, Locals, NEW r \in TokenRequest, CheckMember(r)
  PROVE  /\ StepOK(r)
         /\ \A y \in TokenRequest : Revoked(y) \/ refreshTokens'[y] = refreshTokens[y]
         /\ \/ pc'[r] = "failed"
            \/ /\ pc'[r] = "license" /\ job'[r] = job[r] /\ UNCHANGED pairings
               /\ PairingActive(job[r].pair) /\ pairingHasDevice(job[r].pair, job[r].device)
<1>1. UNCHANGED <<devices, pairings, credentials, pairingTokens, lock, licenseVars>>
  BY Zenon DEF CheckMember
<1>2. CASE Reject(r, "member")
  BY <1>1, <1>2, RejectStep, ZenonT(30)
<1>3. CASE /\ PairingActive(job[r].pair) /\ pairingHasDevice(job[r].pair, job[r].device)
           /\ Move(r, "member", "license") /\ UNCHANGED <<job, refreshTokens>>
  BY <1>1, <1>3, PassesCheck, UnchangedTokens, ZenonT(30)
<1> QED BY <1>2, <1>3, Zenon DEF CheckMember

LEMMA CheckLicenseStep ==
  ASSUME TypeOK, Locals, NEW r \in TokenRequest, CheckLicense(r)
  PROVE  /\ StepOK(r) /\ pc[r] = "license"
         /\ \A y \in TokenRequest : Revoked(y) \/ refreshTokens'[y] = refreshTokens[y]
         /\ \/ pc'[r] = "failed"
            \/ /\ pc'[r] = (IF IsRefresh(r) THEN "rotate" ELSE "mint") /\ job'[r] = job[r]
               /\ UNCHANGED <<pairings, issuable>>
               /\ issuable[pairings[job[r].pair].license]
<1>1. /\ UNCHANGED <<devices, pairings, credentials, pairingTokens, lock, licenseVars, issuable>>
      /\ pc[r] = "license"
  BY Zenon DEF CheckLicense, licenseVars
<1>2. CASE Reject(r, "license")
  BY <1>1, <1>2, RejectStep, ZenonT(30)
<1>3. CASE /\ issuable[pairings[job[r].pair].license]
           /\ Move(r, "license", IF IsRefresh(r) THEN "rotate" ELSE "mint")
           /\ UNCHANGED <<job, refreshTokens>>
  <2>1. PICK to \in {"rotate", "mint"} :
          /\ to = IF IsRefresh(r) THEN "rotate" ELSE "mint"
          /\ Move(r, "license", to)
    BY <1>3, Zenon
  <2>2. StepOK(r) /\ pc'[r] = to /\ job'[r] = job[r]
    BY <1>1, <1>3, <2>1, PassesCheck, ZenonT(30)
  <2> QED BY <1>1, <1>3, <2>1, <2>2, UnchangedTokens, ZenonT(30)
<1> QED BY <1>2, <1>3, Zenon DEF CheckLicense

LEMMA RotateStep ==
  ASSUME TypeOK, Locals, NEW r \in TokenRequest, Rotate(r)
  PROVE  /\ StepOK(r) /\ pc[r] = "rotate"
         /\ \/ pc'[r] = "failed" /\ UNCHANGED refreshTokens
            \/ /\ pc'[r] = "mint" /\ job'[r] = job[r] /\ IsRefresh(r)
               /\ job[r].old \in TokenRequest
               /\ RefreshTokenActive(job[r].old) /\ Revoked(job[r].old)
               /\ \A y \in TokenRequest : y # job[r].old => refreshTokens'[y] = refreshTokens[y]
<1>1. /\ UNCHANGED <<devices, pairings, credentials, pairingTokens, lock, licenseVars>>
      /\ pc[r] = "rotate"
  BY Zenon DEF Rotate, End, Move
<1>2. job[r].old \in TokenRequest /\ refreshTokens[job[r].old] # None /\ IsRefresh(r)
  BY <1>1, TokenRequestAt, ZenonT(30) DEF TokenLocals, InFlight, Ended, IsRefresh
<1>3. CASE End(r, "rotate", "failed") /\ UNCHANGED refreshTokens
  <2>1. StepOK(r) /\ pc'[r] = "failed"
    BY <1>1, <1>3, TokenFails, UnchangedTokens, ZenonT(20)
  <2> QED BY <1>1, <1>3, <2>1, ZenonT(30)
<1>4. CASE Move(r, "rotate", "mint") /\ ConsumeRefreshToken(job[r].old) /\ UNCHANGED job
  <2>1. PICK x \in TokenRequest : x = job[r].old /\ refreshTokens[x] # None /\ ConsumeRefreshToken(x)
    BY <1>2, <1>4, Zenon
  <2>2. RefreshTokenActive(x) /\ RevokeRefreshToken(x)
    BY <2>1, Zenon DEF ConsumeRefreshToken, RefreshTokenActive, RevokeRefreshToken
  <2>3. /\ refreshTokens' \in [TokenRequest -> RefreshTokenRow \cup {None}]
        /\ Revoked(x)
        /\ \A y \in TokenRequest : y # x => refreshTokens'[y] = refreshTokens[y]
    BY <2>1, <2>2, RevokeTokenStep, Zenon
  <2>4. \A y \in TokenRequest : Revoked(y) \/ refreshTokens'[y] = refreshTokens[y]
    BY <2>3, Zenon
  <2>5. Moves(r, "mint", job[r]) /\ "mint" \in PCs
    BY <1>4, TokenRequestAt, MoveKeepsJob, Zenon DEF PCs
  <2>6. BaseTypeOK' /\ RowsKept /\ Frame({r}) /\ pc'[r] = "mint" /\ job'[r] = job[r]
    BY <1>1, <2>3, <2>4, <2>5, TokenRequestAt, TokenWriteStep, Zenon
  <2>7. TokenLocals(r)' /\ (pc[r] \in Ended => job[r] = Blank)'
    BY <1>1, <1>2, <2>4, <2>6, TokenRequestAt, RevokedKept, ZenonT(30) DEF TokenLocals, InFlight, Ended
  <2>8. StepOK(r)
    BY <2>6, <2>7, OwnByClass, ZenonT(30) DEF StepOK
  <2> QED BY <1>1, <1>2, <2>1, <2>2, <2>3, <2>6, <2>8, ZenonT(30)
<1> QED BY <1>3, <1>4, Zenon DEF Rotate

LEMMA MintStep ==
  ASSUME TypeOK, Locals, NEW r \in TokenRequest, Mint(r)
  PROVE  /\ StepOK(r) /\ pc[r] = "mint" /\ pc'[r] = "done"
         /\ refreshTokens[r] = None /\ refreshTokens'[r] # None
         /\ \A y \in TokenRequest : y # r => refreshTokens'[y] = refreshTokens[y]
         /\ job[r].old \in TokenRequest \cup {None}
         /\ job[r].old # None => refreshTokens[job[r].old] # None
<1>1. /\ UNCHANGED <<devices, pairings, credentials, pairingTokens, lock, licenseVars, granted>>
      /\ pc[r] = "mint" /\ Moves(r, "done", Blank) /\ "done" \in PCs
  BY DEF Mint, End, Move, Moves, licenseVars, PCs
<1>2. PICK d \in Device, p \in Pair : PutRefreshToken(r, d, p) /\ pairings[p] # None
  <2>1. job[r].device \in Device /\ job[r].pair \in Pair /\ pairings[job[r].pair] # None
    BY <1>1, TokenRequestAt, Zenon DEF TokenLocals, InFlight, Ended
  <2> QED BY <2>1, Zenon DEF Mint
<1>3. /\ refreshTokens' \in [TokenRequest -> RefreshTokenRow \cup {None}]
      /\ refreshTokens'[r] = [device |-> d, pair |-> p, revoked |-> FALSE]
      /\ refreshTokens'[r] # None
      /\ \A y \in TokenRequest : y # r => refreshTokens'[y] = refreshTokens[y]
  BY <1>2, PutTokenStep, ZenonT(30)
<1>4. refreshTokens'[r].pair = p
  BY <1>3
<1>5. StoreTypeOK' /\ (lock \in [License -> Completion \cup {None}])' /\ UNCHANGED licenseVars
  BY <1>1, <1>3, Zenon DEF TypeOK, StoreTypeOK
<1>6. /\ BaseTypeOK' /\ pc'[r] = "done" /\ job'[r] = Blank
      /\ \A s \in Request \ {r} : pc'[s] = pc[s] /\ job'[s] = job[s]
  <2>1. Blank \in Job
    BY BlankJob
  <2> QED BY <1>1, <1>5, <2>1, TokenRequestAt, WriteStep, Zenon
<1>7. /\ refreshTokens[r] = None
      /\ job[r].old \in TokenRequest \cup {None}
      /\ job[r].old # None => refreshTokens[job[r].old] # None
  BY <1>1, TokenRequestAt, Zenon DEF TokenLocals, InFlight, Ended
<1>8. RowsKept
  <2>1. \A x \in TokenRequest : refreshTokens[x] # None => refreshTokens'[x] = refreshTokens[x]
    BY <1>3, <1>7, Zenon
  <2> QED BY <1>1, <2>1, Zenon DEF RowsKept
<1>9. Frame({r})
  BY <1>1, <1>3, <1>6, Zenon DEF Frame
<1>10. Own(r)'
  BY <1>1, <1>2, <1>4, <1>6, TokenRequestAt, EndedOwn, Zenon
<1> QED BY <1>1, <1>3, <1>6, <1>7, <1>8, <1>9, <1>10, Zenon DEF StepOK

----------------------------------------------------------------------------
(* Type correctness and the requests' locals, together.                    *)

\* The steps of request r.
Acts(r) ==
  \/ r \in Completion /\ \E t \in PairingToken, key \in Phone : BeginCompletion(r, t, key)
  \/ r \in Registration /\ \E key \in Phone \cup {NoKey} : BeginRegistration(r, key)
  \/ r \in Mobile /\ (FindDevice(r) \/ RegisterDevice(r))
  \/ r \in Completion /\ CompletionStep(r)
  \/ r \in Unpair /\ \E p \in Pair : BeginUnpair(r, p)
  \/ r \in Unpair /\ RevokeCredential(r)
  \/ Abort(r)
  \/ r \in TokenRequest /\ \E p \in Pair, d \in Device : BeginIssue(r, p, d)
  \/ r \in TokenRequest /\ \E x \in TokenRequest : BeginRefresh(r, x)
  \/ r \in TokenRequest /\
       (RevokeChain(r) \/ CheckMember(r) \/ CheckLicense(r) \/ Rotate(r) \/ Mint(r))

LEMMA EveryStep ==
  PairingStep \/ TokenStep => EnvironmentStep \/ \E r \in Request : Acts(r)
<1>1. Completion \cup Registration = Mobile
  BY DEF Mobile
<1>2. /\ Completion \subseteq Request /\ Mobile \subseteq Request
      /\ Unpair \subseteq Request /\ TokenRequest \subseteq Request /\ Registration \subseteq Request
  BY DEF Request, Mobile
<1> QED BY <1>1, <1>2, ZenonT(30) DEF PairingStep, TokenStep, EnvironmentStep, Acts

LEMMA ActsStep ==
  ASSUME TypeOK, Locals, GrantInv, NEW r \in Request, Acts(r)
  PROVE  StepOK(r)
<1>1. CASE r \in Completion /\ CompletionStep(r)
  BY <1>1, FindExistingStep, CheckCapacityStep, ConsumeTokenOK, PersistKeyStep, RebindStep,
     EvictStep, LockLicenseStep, CountPairsStep, CommitPairingStep, PutCredentialStep, ZenonT(30)
     DEF CompletionStep
<1>2. CASE r \in Mobile /\ (FindDevice(r) \/ RegisterDevice(r))
  BY <1>2, FindDeviceStep, RegisterDeviceStep
<1>3. CASE r \in TokenRequest /\ (RevokeChain(r) \/ CheckMember(r) \/ CheckLicense(r) \/ Rotate(r) \/ Mint(r))
  BY <1>3, RevokeChainStep, CheckMemberStep, CheckLicenseStep, RotateStep, MintStep, Zenon
<1> QED
  BY <1>1, <1>2, <1>3, BeginCompletionStep, BeginRegistrationStep, BeginUnpairStep, RevokeCredentialStep,
     AbortStep, BeginIssueStep, BeginRefreshStep, Zenon DEF Acts

\* A token starts a chain of its own or continues that of the token it replaces.
LEMMA ChainStep ==
  ASSUME TypeOK, Locals, Next
  PROVE  /\ chain' \in [TokenRequest -> TokenRequest \cup {None}]
         /\ \/ UNCHANGED chain /\ ~ \E r \in TokenRequest : Mint(r)
            \/ \E r \in TokenRequest : Mint(r)
<1>1. chain \in [TokenRequest -> TokenRequest \cup {None}]
  BY DEF TypeOK
<1>2. ASSUME NEW r \in TokenRequest, Mint(r)
      PROVE  chain' \in [TokenRequest -> TokenRequest \cup {None}]
  <2>1. /\ IsRefresh(r) => job[r].old \in TokenRequest
        /\ chain' = [chain EXCEPT ![r] = IF IsRefresh(r) THEN chain[job[r].old] ELSE r]
    BY <1>2, MintStep, Zenon DEF IsRefresh, Mint
  <2> QED BY <1>1, <2>1, ZenonT(20)
<1>3. (\E r \in TokenRequest : Mint(r)) \/ UNCHANGED chain
  BY Zenon DEF Next, TokenStep, BeginIssue, BeginRefresh, RevokeChain, CheckMember, CheckLicense, Rotate
<1> QED BY <1>1, <1>2, <1>3, ZenonT(20)

LEMMA NextBase ==
  ASSUME TypeOK, Locals, GrantInv, Next
  PROVE  TypeOK' /\ Locals' /\ RowsKept
<1>1. BaseTypeOK' /\ RowsKept /\ Locals'
  <2>1. PairingStep \/ TokenStep
    BY Zenon DEF Next
  <2>2. CASE EnvironmentStep
    <3>1. BaseTypeOK' /\ RowsKept /\ Frame({})
      BY <2>2, EnvironmentKeeps
    <3>2. \A q \in {} : q \in Request => Own(q)'
      OBVIOUS
    <3> QED BY <3>1, <3>2, OthersKeep
  <2>3. ASSUME NEW r \in Request, Acts(r)
        PROVE  BaseTypeOK' /\ RowsKept /\ Locals'
    <3>1. BaseTypeOK' /\ RowsKept /\ Frame({r})
      BY <2>3, ActsStep, Zenon DEF StepOK
    <3>2. \A q \in {r} : q \in Request => Own(q)'
      BY <2>3, ActsStep, Zenon DEF StepOK
    <3> QED BY <3>1, <3>2, OthersKeep
  <2> QED BY <2>1, <2>2, <2>3, EveryStep, Zenon
<1>3. wasMember' \in [TokenRequest -> BOOLEAN] /\ wasIssuable' \in [TokenRequest -> BOOLEAN]
  BY Zenon DEF Next, Observe
<1>4. TypeOK'
  BY <1>1, <1>3, ChainStep, Zenon DEF TypeOK, BaseTypeOK
<1> QED BY <1>1, <1>4

----------------------------------------------------------------------------
(* Writers of shared tables, and the grants of a license.                  *)

\* Which steps of a request write the tables that requests share.
LEMMA ActsWrites ==
  ASSUME NEW r, Acts(r)
  PROVE  /\ UNCHANGED licenseVars
         /\ \/ UNCHANGED pairings
            \/ r \in Completion /\ (CommitPairing(r) \/ Rebind(r))
            \/ r \in Unpair /\ \E p \in Pair : BeginUnpair(r, p)
         /\ UNCHANGED pairingTokens \/ (r \in Completion /\ ConsumeToken(r))
<1> USE DEF Acts, CompletionStep, BeginCompletion, BeginRegistration, FindDevice, RegisterDevice,
     FindExisting, CheckCapacity, PersistKey, Evict, LockLicense, CountPairs, PutCredential,
     RevokeCredential, Abort, BeginIssue, BeginRefresh, RevokeChain, CheckMember, CheckLicense,
     Rotate, Mint, storeVars
<1>1. UNCHANGED licenseVars
  BY ZenonT(30) DEF BeginUnpair, ConsumeToken, CommitPairing, Rebind
<1>2. \/ UNCHANGED pairings
      \/ r \in Completion /\ (CommitPairing(r) \/ Rebind(r))
      \/ r \in Unpair /\ \E p \in Pair : BeginUnpair(r, p)
  BY ZenonT(30) DEF ConsumeToken
<1>3. UNCHANGED pairingTokens \/ (r \in Completion /\ ConsumeToken(r))
  BY ZenonT(30) DEF BeginUnpair, CommitPairing, Rebind
<1> QED BY <1>1, <1>2, <1>3, Zenon

LEMMA EnvironmentWrites ==
  ASSUME EnvironmentStep
  PROVE  /\ \/ \E l \in License, n \in Quota, ok \in BOOLEAN : ChangeSubscription(l, n, ok)
            \/ UNCHANGED licenseVars
         /\ UNCHANGED pairings \/ \E p \in Pair : EnforcePairing(p)
         /\ UNCHANGED <<pc, job, lock>>
BY ZenonT(30) DEF EnvironmentStep, CreatePairingToken, ChangeSubscription, EnforcePairing,
   pairingVars, licenseVars, storeVars

LEMMA NextGrant ==
  ASSUME TypeOK, GrantInv, Next
  PROVE  GrantInv'
<1>1. ASSUME NEW l \in License, NEW n \in Quota, NEW ok \in BOOLEAN, ChangeSubscription(l, n, ok)
      PROVE  GrantInv'
  BY <1>1 DEF TypeOK, GrantInv, ChangeSubscription
<1>2. ASSUME UNCHANGED licenseVars PROVE GrantInv'
  BY <1>2, Zenon DEF GrantInv, licenseVars
<1>3. PairingStep \/ TokenStep
  BY Zenon DEF Next
<1> QED BY <1>1, <1>2, <1>3, EveryStep, ActsWrites, EnvironmentWrites, ZenonT(20)

----------------------------------------------------------------------------
(* The desktop's poll.                                                     *)

LEMMA TransactionSteps ==
  ASSUME NEW r, Acts(r), \A a, b : Move(r, a, b) => pc[r] = a, \A a, b : End(r, a, b) => pc[r] = a,
         pc[r] # "idle", pc[r] # "find", pc[r] # "register", pc[r] # "existing",
         pc[r] # "capacity", pc[r] # "consume", pc[r] # "rebind", pc[r] # "evict",
         pc[r] # "credential", pc[r] # "revoke", pc[r] # "reuse", pc[r] # "member",
         pc[r] # "license", pc[r] # "rotate", pc[r] # "mint"
  PROVE  PersistKey(r) \/ LockLicense(r) \/ CountPairs(r) \/ CommitPairing(r) \/ Abort(r)
BY ZenonT(60)
   DEF Acts, CompletionStep, BeginCompletion, BeginRegistration, FindDevice, RegisterDevice,
   HaveDevice, FindExisting, CheckCapacity, ConsumeToken, Rebind, Evict,
   PutCredential, BeginUnpair, RevokeCredential, BeginIssue, BeginRefresh,
   RevokeChain, CheckMember, CheckLicense, Rotate, Mint, Reject

\* Where a completion may go between consuming its token and inserting its row.
LEMMA Transaction ==
  ASSUME TypeOK, NEW r \in Completion, Acts(r), job[r].old = None,
         pc[r] \in {"key", "lock", "count", "commit"}
  PROVE  \/ pc'[r] = "failed"
         \/ pc'[r] \in {"lock", "count", "commit"} /\ job'[r] = job[r]
         \/ CommitPairing(r)
<1>1. \A a, b : Move(r, a, b) => pc[r] = a /\ pc'[r] = b
  BY DEF TypeOK, Request, Move
<1>2. \A a, b : End(r, a, b) => pc[r] = a /\ pc'[r] = b
  BY <1>1, ZenonT(30) DEF End
<1>3. /\ pc[r] # "idle" /\ pc[r] # "find" /\ pc[r] # "register" /\ pc[r] # "existing"
      /\ pc[r] # "capacity" /\ pc[r] # "consume" /\ pc[r] # "rebind" /\ pc[r] # "evict"
      /\ pc[r] # "credential" /\ pc[r] # "revoke" /\ pc[r] # "reuse" /\ pc[r] # "member"
      /\ pc[r] # "license" /\ pc[r] # "rotate" /\ pc[r] # "mint"
  OBVIOUS
<1>4. PersistKey(r) \/ LockLicense(r) \/ CountPairs(r) \/ CommitPairing(r) \/ Abort(r)
  BY <1>1, <1>2, <1>3, TransactionSteps, Zenon
<1> QED BY <1>1, <1>2, <1>4, Zenon DEF PersistKey, LockLicense, CountPairs, Abort

\* A request that has ended takes no step, but one that is idle may begin.
LEMMA NothingAfter ==
  ASSUME TypeOK, NEW r \in Request, pc[r] \in {"done", "failed"}
  PROVE  ~Acts(r)
<1>1. \A a, b : Move(r, a, b) => pc[r] = a
  BY DEF Move
<1>2. \A a, b : End(r, a, b) => pc[r] = a
  BY <1>1, Zenon DEF End
<1>3. ~InFlight(r)
  BY DEF InFlight, Ended
<1> QED BY <1>1, <1>2, <1>3, ZenonT(60)
     DEF Acts, CompletionStep, BeginCompletion, BeginRegistration, FindDevice, RegisterDevice,
     HaveDevice, FindExisting, CheckCapacity, ConsumeToken, PersistKey, Rebind, Evict, LockLicense,
     CountPairs, CommitPairing, PutCredential, BeginUnpair, RevokeCredential, Abort, BeginIssue,
     BeginRefresh, RevokeChain, CheckMember, CheckLicense, Rotate, Mint, Reject

\* A pairing that is inserted or taken over names a device that has a key.
LEMMA PairedPhone ==
  ASSUME TypeOK, Locals, Next, NEW p \in Pair, pairings'[p] # None
  PROVE  \/ pairings[p] # None /\ pairings'[p].mobile = pairings[p].mobile
         \/ pairings'[p].mobile \in Mobile /\ devices[pairings'[p].mobile] \in Phone
<1>1. PairingStep \/ TokenStep
  BY Zenon DEF Next
<1>2. ASSUME UNCHANGED pairings
      PROVE  pairings[p] # None /\ pairings'[p].mobile = pairings[p].mobile
  BY <1>2, ZenonT(30)
<1>3. ASSUME NEW q \in Pair, pairings[q] # None, SetPairingStatus(q)
      PROVE  pairings[p] # None /\ pairings'[p].mobile = pairings[p].mobile
  BY <1>3 DEF SetPairingStatus, TypeOK, StoreTypeOK, PairingRow
<1>4. ASSUME NEW r \in Completion, Rebind(r)
      PROVE  \/ pairings[p] # None /\ pairings'[p].mobile = pairings[p].mobile
             \/ pairings'[p].mobile \in Mobile /\ devices[pairings'[p].mobile] \in Phone
  <2>1. PICK q \in Pair, m \in Mobile, d \in Desktop :
          pairings[q] # None /\ UpdatePairingDevices(q, m, d) /\ devices[m] \in Phone
    <3>1. pc[r] = "rebind" /\ InFlight(r)
      BY <1>4 DEF Rebind, Move, InFlight, Ended
    <3>2. /\ job[r].pair \in Pair /\ pairings[job[r].pair] # None
          /\ job[r].device \in Mobile /\ TokenOf(r).desktop \in Desktop
          /\ devices[job[r].device] \in Phone
      BY <3>1, CompletionAt, Zenon DEF CompletionLocals
    <3> QED BY <1>4, <3>2, ZenonT(20) DEF Rebind
  <2>2. /\ pairings'[q] = [license |-> pairings[q].license, mobile |-> m,
                           desktop |-> d, status |-> pairings[q].status]
        /\ \A s \in Pair : s # q => pairings'[s] = pairings[s]
    BY <2>1, UpdatePairingStep, ZenonT(30)
  <2>3. pairings'[q].mobile = m
    <3>1. IsRow(pairings'[q], pairings[q].license, m, d, pairings[q].status)
      BY <2>2, Zenon DEF IsRow
    <3> QED BY ONLY <3>1, RowOf, ZenonT(60)
  <2> QED BY <2>1, <2>2, <2>3, ZenonT(30)
<1>5. ASSUME NEW r \in Completion, CommitPairing(r)
      PROVE  \/ pairings[p] # None /\ pairings'[p].mobile = pairings[p].mobile
             \/ pairings'[p].mobile \in Mobile /\ devices[pairings'[p].mobile] \in Phone
  <2>1. pc[r] = "commit" /\ InFlight(r)
    BY <1>5, ZenonT(20) DEF CommitPairing, Move, InFlight, Ended
  <2>2. PICK q \in Pair, l \in License, m \in Mobile, d \in Desktop :
          InsertPairing(q, l, m, d) /\ devices[m] \in Phone
    <3>1. /\ job[r].pair \in Pair /\ job[r].device \in Mobile
          /\ TokenOf(r).license \in License /\ TokenOf(r).desktop \in Desktop
          /\ devices[job[r].device] \in Phone
      BY <2>1, CompletionAt, ZenonT(30) DEF CompletionLocals
    <3> QED BY <1>5, <3>1, ZenonT(20) DEF CommitPairing
  <2>3. /\ pairings'[q].mobile = m
        /\ \A s \in Pair : s # q => pairings'[s] = pairings[s]
    BY <2>2, ZenonT(20) DEF InsertPairing, TypeOK, StoreTypeOK
  <2> QED BY <2>2, <2>3, ZenonT(30)
<1>6. ASSUME NEW r, NEW q \in Pair, BeginUnpair(r, q)
      PROVE  pairings[q] # None /\ SetPairingStatus(q)
  BY <1>6, Zenon DEF BeginUnpair
<1>7. ASSUME NEW q \in Pair, EnforcePairing(q)
      PROVE  pairings[q] # None /\ SetPairingStatus(q)
  BY <1>7, Zenon DEF EnforcePairing, PairingActive
<1> QED BY <1>1, <1>2, <1>3, <1>4, <1>5, <1>6, <1>7, EveryStep, ActsWrites, EnvironmentWrites, ZenonT(30)

\* A pairing token is consumed once, by the completion that presents it, for the
\* pairing that completion takes over or is about to insert.
LEMMA TokenResult ==
  ASSUME TypeOK, Locals, Next, NEW t \in PairingToken,
         pairingTokens'[t] # None, pairingTokens'[t].result # None
  PROVE  \/ pairingTokens[t] # None /\ pairingTokens[t].result = pairingTokens'[t].result
         \/ \E r \in Completion :
              /\ pc[r] = "consume" /\ pc'[r] = "key" /\ job'[r] = job[r]
              /\ pairingTokens'[t].result = job[r].pair
<1>1. PairingStep \/ TokenStep
  BY Zenon DEF Next
<1>2. ASSUME UNCHANGED pairingTokens
      PROVE  pairingTokens[t] # None /\ pairingTokens[t].result = pairingTokens'[t].result
  BY <1>2, ZenonT(30)
<1>3. ASSUME NEW u \in PairingToken, NEW l \in License, NEW d \in Desktop, CreatePairingToken(u, l, d)
      PROVE  pairingTokens[t] # None /\ pairingTokens[t].result = pairingTokens'[t].result
  BY <1>3, Zenon DEF CreatePairingToken, InsertPairingToken, TypeOK, StoreTypeOK
<1>4. ASSUME NEW r \in Completion, ConsumeToken(r)
      PROVE  \/ pairingTokens[t] # None /\ pairingTokens[t].result = pairingTokens'[t].result
             \/ /\ pc[r] = "consume" /\ pc'[r] = "key" /\ job'[r] = job[r]
                /\ pairingTokens'[t].result = job[r].pair
  <2>1. CASE /\ Move(r, "consume", "key")
             /\ ConsumePairingToken(job[r].tok, job[r].pair)
             /\ UNCHANGED job
    <3>1. pc[r] = "consume" /\ pc'[r] = "key" /\ InFlight(r)
      BY <2>1, ZenonT(20) DEF Move, TypeOK, Request, InFlight, Ended
    <3>2. /\ job[r].tok \in PairingToken
          /\ pairingTokens[job[r].tok] \in PairingTokenRow
      BY <3>1, CompletionAt, Zenon DEF TokenOf
    <3>3. /\ t = job[r].tok => pairingTokens'[t].result = job[r].pair
          /\ t # job[r].tok => pairingTokens'[t] = pairingTokens[t]
      BY <2>1, <3>2, ZenonT(20) DEF ConsumePairingToken, TypeOK, StoreTypeOK, PairingTokenRow
    <3> QED BY <2>1, <3>1, <3>3, ZenonT(30)
  <2>2. CASE UNCHANGED pairingTokens
    BY <1>2, <2>2
  <2> QED BY <1>4, <2>1, <2>2, Zenon DEF ConsumeToken
<1>5. UNCHANGED pairingTokens \/ (\E u \in PairingToken, l \in License, d \in Desktop : CreatePairingToken(u, l, d))
        \/ \E r \in Completion : ConsumeToken(r)
  <2>1. EnvironmentStep => \/ UNCHANGED pairingTokens
                           \/ \E u \in PairingToken, l \in License, d \in Desktop : CreatePairingToken(u, l, d)
    BY ZenonT(30) DEF EnvironmentStep, ChangeSubscription, EnforcePairing, storeVars
  <2> QED BY <1>1, <2>1, EveryStep, ActsWrites, Zenon
<1> QED BY <1>2, <1>3, <1>4, <1>5, Zenon

LEMMA NextPoll ==
  ASSUME TypeOK, Locals, GrantInv, PollInv, Next
  PROVE  PollInv'
<1>1. TypeOK' /\ Locals' /\ RowsKept
  BY NextBase, Zenon
<1>2. ASSUME NEW p \in Pair, pairings'[p] # None
      PROVE  devices'[pairings'[p].mobile] \in Phone
  <2>1. CASE pairings[p] # None /\ pairings'[p].mobile = pairings[p].mobile
    <3>1. pairings[p].mobile \in Mobile
      BY <2>1, ZenonT(20) DEF TypeOK, StoreTypeOK, PairingRow
    <3> QED BY <1>1, <2>1, <3>1, ZenonT(20) DEF PollInv, RowsKept
  <2>2. CASE pairings'[p].mobile \in Mobile /\ devices[pairings'[p].mobile] \in Phone
    BY <1>1, <2>2, ZenonT(20) DEF RowsKept
  <2> QED BY <1>2, <2>1, <2>2, PairedPhone, ZenonT(20)
<1>3. ASSUME NEW t \in PairingToken, pairingTokens'[t] # None, pairingTokens'[t].result # None,
             NEW p \in Completion, p = pairingTokens'[t].result
      PROVE  \/ pairings'[p] # None
             \/ pc'[p] = "failed"
             \/ pc'[p] \in {"key", "lock", "count", "commit"} /\ job'[p].old = None
  <2>1. ASSUME NEW r \in Completion, pc[r] = "consume", pc'[r] = "key", job'[r] = job[r],
               p = job[r].pair
        PROVE  \/ pairings'[p] # None
               \/ pc'[p] \in {"key", "lock", "count", "commit"} /\ job'[p].old = None
    <3>1. pairings[p] # None \/ (job[r].old = None /\ p = r)
      BY <2>1, CompletionAt, ZenonT(30) DEF CompletionLocals
    <3> QED BY <1>1, <2>1, <3>1, ZenonT(20) DEF RowsKept, Pair
  <2>2. CASE pairingTokens[t] # None /\ pairingTokens[t].result = p
    <3>1. \/ pairings[p] # None
          \/ pc[p] = "failed"
          \/ pc[p] \in {"key", "lock", "count", "commit"} /\ job[p].old = None
      BY <1>3, <2>2, ZenonT(20) DEF PollInv
    <3>2. CASE pairings[p] # None
      BY <1>1, <3>2 DEF RowsKept, Pair
    <3>3. CASE pc'[p] = pc[p] /\ job'[p] = job[p]
      BY <1>1, <3>1, <3>2, <3>3, ZenonT(30)
    <3>4. CASE Acts(p)
      <4>1. p \in Request
        BY DEF Request
      <4>2. pairings[p] # None \/ (pc[p] \in {"key", "lock", "count", "commit"} /\ job[p].old = None)
        BY <3>1, <3>4, <4>1, NothingAfter, Zenon
      <4>3. ASSUME CommitPairing(p), job[p].old = None PROVE pairings'[p] # None
        <5>1. pc[p] = "commit" /\ InFlight(p)
          BY <4>3 DEF CommitPairing, Move, InFlight, Ended
        <5>2. None \notin Mobile
          BY PairingAssumption, ZenonT(20) DEF Mobile
        <5>3. job[p].pair = p /\ p \in Pair /\ pairings[p] = None
          BY <5>1, <5>2, CompletionAt, ZenonT(30) DEF CompletionLocals
        <5>4. PICK l \in License, m \in Mobile, d \in Desktop : InsertPairing(p, l, m, d)
          <6>1. /\ job[p].device \in Mobile
                /\ TokenOf(p).license \in License /\ TokenOf(p).desktop \in Desktop
            BY <5>1, CompletionAt, Zenon DEF CompletionLocals
          <6> QED BY <4>3, <5>3, <6>1, ZenonT(20) DEF CommitPairing
        <5> QED BY <5>3, <5>4, InsertPairingStep, Zenon
      <4>4. ASSUME pc[p] \in {"key", "lock", "count", "commit"}, job[p].old = None
            PROVE  \/ pairings'[p] # None
                   \/ pc'[p] = "failed"
                   \/ pc'[p] \in {"key", "lock", "count", "commit"} /\ job'[p].old = None
        BY <3>4, <4>3, <4>4, Transaction, ZenonT(20)
      <4> QED BY <3>2, <4>2, <4>4, ZenonT(20)
    <3>5. Acts(p) \/ (pc'[p] = pc[p] /\ job'[p] = job[p])
      <4>1. ASSUME NEW s \in Request, Acts(s), s # p
            PROVE  pc'[p] = pc[p] /\ job'[p] = job[p]
        <5>1. Frame({s}) /\ p \in Request
          BY <4>1, ActsStep, Zenon DEF StepOK, Request
        <5> QED BY <4>1, <5>1 DEF Frame
      <4>2. PairingStep \/ TokenStep
        BY ZenonT(30) DEF Next
      <4> QED BY <4>1, <4>2, EveryStep, EnvironmentWrites, ZenonT(30)
    <3> QED BY <3>3, <3>4, <3>5, ZenonT(30)
  <2> QED BY <1>3, <2>1, <2>2, TokenResult, ZenonT(20)
<1>4. ASSUME NEW t \in PairingToken, pairingTokens'[t] # None, pairingTokens'[t].result # None
      PROVE  pairingTokens'[t].result \in Completion
  BY <1>1, <1>4, ZenonT(30) DEF TypeOK, StoreTypeOK, PairingTokenRow, Pair
<1> QED BY <1>2, <1>3, <1>4, Zenon DEF PollInv, Pair

LEMMA PollFromInv ==
  ASSUME TypeOK, PollInv
  PROVE  PollConsistent
<1> SUFFICES ASSUME NEW t \in PairingToken, pairingTokens[t] # None
             PROVE  /\ PollAnswer(t) # NoKey
                    /\ PollAnswer(t) = "store_error" => pc[pairingTokens[t].result] # "done"
  BY DEF PollConsistent
<1>1. NoKey \notin Phone /\ "store_error" \notin Phone /\ NoKey = "no key"
  BY PairingAssumption, Zenon DEF NoKey
<1>2. PICK p \in Pair \cup {None} : p = pairingTokens[t].result
  BY Zenon DEF TypeOK, StoreTypeOK, PairingTokenRow
<1>3. CASE p = None
  BY <1>1, <1>2, <1>3, Zenon DEF PollAnswer
<1>4. CASE p # None /\ pairings[p] = None
  <2>1. PollAnswer(t) = "store_error"
    BY <1>2, <1>4, ZenonT(20) DEF PollAnswer
  <2>2. pc[p] # "done"
    BY <1>2, <1>4, ZenonT(20) DEF PollInv
  <2> QED BY <1>1, <1>2, <2>1, <2>2, Zenon
<1>5. CASE p # None /\ pairings[p] # None
  <2>1. PollAnswer(t) = devices[pairings[p].mobile]
    BY <1>2, <1>5, ZenonT(20) DEF PollAnswer
  <2>2. devices[pairings[p].mobile] \in Phone
    BY <1>2, <1>5 DEF PollInv
  <2> QED BY <1>1, <2>1, <2>2, Zenon
<1> QED BY <1>3, <1>4, <1>5, ZenonT(20)

----------------------------------------------------------------------------
(* Tokens are minted for members only.                                     *)

\* The steps of a token request are those of its two handlers.
LEMMA TokenActs ==
  ASSUME NEW r \in TokenRequest, Acts(r)
  PROVE  \/ Abort(r)
         \/ \E p \in Pair, d \in Device : BeginIssue(r, p, d)
         \/ \E x \in TokenRequest : BeginRefresh(r, x)
         \/ RevokeChain(r) \/ CheckMember(r) \/ CheckLicense(r) \/ Rotate(r) \/ Mint(r)
<1>1. r \notin Completion /\ r \notin Registration /\ r \notin Unpair /\ r \notin Mobile
  BY PairingAssumption DEF Mobile
<1> QED BY <1>1, ZenonT(30) DEF Acts

\* A request other than the one that acts stays where it is.
LEMMA OthersStay ==
  ASSUME TypeOK, Locals, GrantInv, Next, NEW r \in Request
  PROVE  Acts(r) \/ (pc'[r] = pc[r] /\ job'[r] = job[r])
<1>1. ASSUME NEW s \in Request, Acts(s), s # r
      PROVE  pc'[r] = pc[r] /\ job'[r] = job[r]
  <2>1. Frame({s})
    BY <1>1, ActsStep, Zenon DEF StepOK
  <2> QED BY <1>1, <2>1 DEF Frame
<1>2. PairingStep \/ TokenStep
  BY ZenonT(30) DEF Next
<1> QED BY <1>1, <1>2, EveryStep, EnvironmentWrites, ZenonT(30)

\* How a token request gets past its checks.
LEMMA TokenMoves ==
  ASSUME TypeOK, Locals, NEW r \in TokenRequest, Acts(r)
  PROVE  /\ pc'[r] = "license" =>
              (PairingActive(job[r].pair) /\ pairingHasDevice(job[r].pair, job[r].device))'
         /\ pc'[r] \in {"rotate", "mint"} => pc[r] \in {"license", "rotate"}
         /\ pc'[r] \in {"rotate", "mint"} /\ pc[r] = "license" =>
              issuable'[pairings'[job'[r].pair].license]
<1>0. r \in Request
  BY ZenonT(20) DEF Request
<1>1. CASE Abort(r)
  <2>1. pc'[r] = "failed"
    BY <1>0, <1>1, ZenonT(20) DEF Abort, End, Move, TypeOK
  <2> QED BY <2>1, ZenonT(30)
<1>2. ASSUME NEW p \in Pair, NEW d \in Device, BeginIssue(r, p, d)
      PROVE  /\ pc'[r] = "license"
             /\ (PairingActive(job[r].pair) /\ pairingHasDevice(job[r].pair, job[r].device))'
  <2>1. pc'[r] = "license" /\ job'[r].pair = p /\ job'[r].device = d
    <3>1. pc'[r] = "license" /\ job'[r] = Fields(None, None, d, p, None, 0)
      BY <1>2, BeginIssueStep, Zenon
    <3>2. job'[r].pair = p /\ job'[r].device = d
      <4>1. IsFields(job'[r], None, None, d, p, None, 0)
        BY <3>1, Zenon DEF IsFields
      <4> QED BY <4>1, FieldsOf, Zenon
    <3> QED BY <3>1, <3>2, Zenon
  <2>2. UNCHANGED pairings /\ PairingActive(p) /\ pairingHasDevice(p, d)
    BY <1>2, Zenon DEF BeginIssue, storeVars
  <2> QED BY <2>1, <2>2, ZenonT(30) DEF PairingActive, pairingHasDevice
<1>3. ASSUME NEW x \in TokenRequest, BeginRefresh(r, x) PROVE pc'[r] \in {"reuse", "member"}
  BY <1>3, BeginRefreshStep, ZenonT(30)
<1>4. CASE RevokeChain(r)
  <2>1. pc'[r] = "failed"
    BY <1>4, RevokeChainStep, ZenonT(20)
  <2> QED BY <2>1, ZenonT(20)
<1>5. CASE CheckMember(r)
  <2>1. \/ pc'[r] = "failed"
        \/ /\ pc'[r] = "license" /\ job'[r] = job[r] /\ UNCHANGED pairings
           /\ PairingActive(job[r].pair) /\ pairingHasDevice(job[r].pair, job[r].device)
    BY <1>5, CheckMemberStep, Zenon
  <2>2. CASE pc'[r] = "failed"
    BY <2>2, ZenonT(20)
  <2>3. CASE /\ pc'[r] = "license" /\ job'[r] = job[r] /\ UNCHANGED pairings
             /\ PairingActive(job[r].pair) /\ pairingHasDevice(job[r].pair, job[r].device)
    <3>1. (PairingActive(job[r].pair) /\ pairingHasDevice(job[r].pair, job[r].device))'
      BY <2>3, Zenon DEF PairingActive, pairingHasDevice
    <3> QED BY <2>3, <3>1
  <2> QED BY <2>1, <2>2, <2>3, Zenon
<1>6. CASE CheckLicense(r)
  <2>1. /\ pc[r] = "license"
        /\ \/ pc'[r] = "failed"
           \/ /\ pc'[r] = (IF IsRefresh(r) THEN "rotate" ELSE "mint") /\ job'[r] = job[r]
              /\ UNCHANGED <<pairings, issuable>>
              /\ issuable[pairings[job[r].pair].license]
    BY <1>6, CheckLicenseStep, ZenonT(30)
  <2>2. pc'[r] # "license"
    BY <2>1, ZenonT(20)
  <2>3. CASE pc'[r] = "failed"
    BY <2>3
  <2>4. CASE /\ job'[r] = job[r] /\ UNCHANGED <<pairings, issuable>>
             /\ issuable[pairings[job[r].pair].license]
    <3>1. issuable'[pairings'[job'[r].pair].license]
      BY <2>4, ZenonT(30)
    <3> QED BY <2>1, <2>2, <3>1, Zenon
  <2> QED BY <2>1, <2>3, <2>4, Zenon
<1>7. CASE Rotate(r)
  <2>1. pc[r] = "rotate" /\ pc'[r] \in {"failed", "mint"}
    BY <1>7, RotateStep
  <2> QED BY <2>1, ZenonT(20)
<1>8. CASE Mint(r)
  <2>1. pc'[r] = "done"
    BY <1>8, MintStep
  <2> QED BY <2>1, ZenonT(20)
<1> QED BY <1>1, <1>2, <1>3, <1>4, <1>5, <1>6, <1>7, <1>8, TokenActs, ZenonT(30)

LEMMA NextMember ==
  ASSUME TypeOK, Locals, GrantInv, MemberInv, Next
  PROVE  MemberInv'
<1> SUFFICES ASSUME NEW r \in TokenRequest
             PROVE  /\ pc'[r] \in {"license", "rotate", "mint"} => wasMember'[r]
                    /\ pc'[r] \in {"rotate", "mint"} => wasIssuable'[r]
  BY Zenon DEF MemberInv
<1>0. r \in Request
  BY DEF Request
<1>1. /\ wasMember'[r] = (InFlight(r)' /\ (wasMember[r] \/ Member(r)'))
      /\ wasIssuable'[r] = (InFlight(r)' /\ (wasIssuable[r] \/ issuable'[pairings'[job'[r].pair].license]))
  BY Zenon DEF Next, Observe
<1>2. pc'[r] \in {"license", "rotate", "mint"} => InFlight(r)'
  BY DEF InFlight, Ended
<1>3. /\ pc[r] \in {"license", "rotate", "mint"} => wasMember[r]
      /\ pc[r] \in {"rotate", "mint"} => wasIssuable[r]
  BY Zenon DEF MemberInv
<1>4. CASE pc'[r] = pc[r]
  BY <1>1, <1>2, <1>3, <1>4, Zenon
<1>5. CASE Acts(r)
  <2>1. /\ pc'[r] = "license" =>
              (PairingActive(job[r].pair) /\ pairingHasDevice(job[r].pair, job[r].device))'
        /\ pc'[r] \in {"rotate", "mint"} => pc[r] \in {"license", "rotate"}
        /\ pc'[r] \in {"rotate", "mint"} /\ pc[r] = "license" =>
              issuable'[pairings'[job'[r].pair].license]
    BY <1>5, TokenMoves, Zenon
  <2>2. pc'[r] = "license" => Member(r)'
    BY <2>1, Zenon DEF Member
  <2> QED BY <1>1, <1>2, <1>3, <2>1, <2>2, Zenon
<1> QED BY <1>0, <1>4, <1>5, OthersStay, Zenon

----------------------------------------------------------------------------
(* Rotation keeps a chain linear.                                          *)

LEMMA LiveMember ==
  ASSUME NEW c, NEW y
  PROVE  y \in Live(c) <=>
           /\ y \in TokenRequest
           /\ \/ chain[y] = c /\ RefreshTokenActive(y)
              \/ pc[y] = "mint" /\ IsRefresh(y) /\ chain[job[y].old] = c
BY Zenon DEF Live

\* Who writes refresh tokens.
LEMMA RefreshWrites ==
  ASSUME NEW r, Acts(r)
  PROVE  \/ UNCHANGED refreshTokens
         \/ r \in Completion /\ Evict(r)
         \/ r \in TokenRequest /\
              (RevokeChain(r) \/ CheckMember(r) \/ CheckLicense(r) \/ Rotate(r) \/ Mint(r))
BY ZenonT(30)
   DEF Acts, CompletionStep, BeginCompletion, BeginRegistration, FindDevice, RegisterDevice,
   FindExisting, CheckCapacity, ConsumeToken, PersistKey, Rebind, LockLicense,
   CountPairs, CommitPairing, PutCredential, BeginUnpair, RevokeCredential, Abort, BeginIssue,
   BeginRefresh, storeVars

\* A rotation that has consumed the token it presented.
Rotated(r) ==
  /\ pc[r] = "rotate" /\ pc'[r] = "mint" /\ job'[r] = job[r] /\ IsRefresh(r)
  /\ job[r].old \in TokenRequest
  /\ RefreshTokenActive(job[r].old) /\ Revoked(job[r].old)
  /\ \A y \in TokenRequest : y # job[r].old => refreshTokens'[y] = refreshTokens[y]

\* A step inserts one refresh token, rotates one, or revokes some.
LEMMA RefreshCases ==
  ASSUME TypeOK, Locals, Next
  PROVE  \/ \A y \in TokenRequest : Revoked(y) \/ refreshTokens'[y] = refreshTokens[y]
         \/ \E r \in TokenRequest : Rotate(r) /\ Rotated(r)
         \/ \E r \in TokenRequest : Mint(r)
<1>1. PairingStep \/ TokenStep
  BY Zenon DEF Next
<1>2. ASSUME UNCHANGED refreshTokens
      PROVE  \A y \in TokenRequest : Revoked(y) \/ refreshTokens'[y] = refreshTokens[y]
  BY <1>2, Zenon
<1>3. ASSUME NEW r \in Completion, Evict(r)
      PROVE  \A y \in TokenRequest : Revoked(y) \/ refreshTokens'[y] = refreshTokens[y]
  BY <1>2, <1>3, RevokeDeviceStep, Zenon DEF Evict
<1>4. EnvironmentStep => UNCHANGED refreshTokens
  BY Zenon DEF EnvironmentStep, CreatePairingToken, ChangeSubscription, EnforcePairing, storeVars
<1>5. ASSUME NEW r \in TokenRequest, Rotate(r)
      PROVE  (UNCHANGED refreshTokens) \/ Rotated(r)
  BY <1>5, RotateStep, Zenon DEF Rotated
<1>6. ASSUME NEW r \in TokenRequest, RevokeChain(r) \/ CheckMember(r) \/ CheckLicense(r)
      PROVE  \A y \in TokenRequest : Revoked(y) \/ refreshTokens'[y] = refreshTokens[y]
  BY <1>6, RevokeChainStep, CheckMemberStep, CheckLicenseStep, Zenon
<1> QED BY <1>1, <1>2, <1>3, <1>4, <1>5, <1>6, EveryStep, RefreshWrites, ZenonT(30)

\* A request that is about to mint for a refresh has rotated, now or before.
LEMMA IntoMint ==
  ASSUME TypeOK, Locals, GrantInv, Next, NEW s \in TokenRequest, pc'[s] = "mint", IsRefresh(s)'
  PROVE  \/ pc[s] = "mint" /\ job'[s] = job[s] /\ IsRefresh(s)
         \/ Rotate(s) /\ Rotated(s)
<1>0. s \in Request
  BY DEF Request
<1>1. CASE pc'[s] = pc[s] /\ job'[s] = job[s]
  BY <1>1, Zenon DEF IsRefresh
<1>2. CASE Acts(s)
  <2>1. ASSUME Abort(s) PROVE pc'[s] = "failed"
    BY <1>0, <2>1, ZenonT(20) DEF Abort, End, Move, TypeOK
  <2>2. ASSUME NEW p \in Pair, NEW d \in Device, BeginIssue(s, p, d) PROVE pc'[s] = "license"
    BY <2>2, BeginIssueStep, Zenon
  <2>3. ASSUME NEW x \in TokenRequest, BeginRefresh(s, x) PROVE pc'[s] \in {"reuse", "member"}
    BY <2>3, BeginRefreshStep, Zenon
  <2>4. ASSUME RevokeChain(s) \/ CheckMember(s) PROVE pc'[s] \in {"failed", "license"}
    BY <2>4, RevokeChainStep, CheckMemberStep, Zenon
  <2>5. ASSUME CheckLicense(s) PROVE FALSE
    <3>1. /\ pc'[s] = (IF IsRefresh(s) THEN "rotate" ELSE "mint")
          /\ job'[s] = job[s]
      BY <2>5, CheckLicenseStep
    <3>2. IsRefresh(s)
      BY <3>1, Zenon DEF IsRefresh
    <3> QED BY <3>1, <3>2, ZenonT(20)
  <2>6. ASSUME Mint(s) PROVE pc'[s] = "done"
    BY <2>6, MintStep, ZenonT(30)
  <2>7. ASSUME Rotate(s) PROVE Rotated(s)
    BY <2>7, RotateStep, ZenonT(20) DEF Rotated
  <2>8. pc'[s] \notin {"failed", "license", "reuse", "member", "done"}
    OBVIOUS
  <2> QED BY <1>2, <2>1, <2>2, <2>3, <2>4, <2>5, <2>6, <2>7, <2>8, TokenActs, ZenonT(30)
<1> QED BY <1>0, <1>1, <1>2, OthersStay, Zenon

\* The first token of a chain belongs to a request that is done, and stays so.
LEMMA DoneStays ==
  ASSUME TypeOK, Locals, GrantInv, Next, NEW c \in TokenRequest, pc[c] = "done"
  PROVE  pc'[c] = "done"
<1>1. c \in Request
  BY DEF Request
<1> QED BY <1>1, OthersStay, NothingAfter, Zenon

LEMMA RevokedIsInactive ==
  ASSUME NEW y, Revoked(y)
  PROVE  ~RefreshTokenActive(y)'
BY ZenonT(30) DEF Revoked, RefreshTokenActive

\* A step that mints nothing adds no live token to a chain: one it has afterwards was
\* live before, or is the refresh that rotates the live one.
LEMMA ChainQuiet ==
  ASSUME TypeOK, Locals, GrantInv, ChainInv, Next, UNCHANGED chain,
         \A y \in TokenRequest : Revoked(y) \/ refreshTokens'[y] = refreshTokens[y],
         NEW c \in TokenRequest, NEW y, y \in Live(c)'
  PROVE  y \in Live(c) \/ (Rotate(y) /\ Rotated(y) /\ chain[job[y].old] = c)
<1>1. /\ y \in TokenRequest
      /\ \/ chain[y] = c /\ RefreshTokenActive(y)'
         \/ pc'[y] = "mint" /\ IsRefresh(y)' /\ chain[job'[y].old] = c
  BY Zenon DEF Live
<1>2. CASE chain[y] = c /\ RefreshTokenActive(y)'
  <2>1. RefreshTokenActive(y)
    BY <1>1, <1>2, RevokedIsInactive, Zenon DEF RefreshTokenActive
  <2> QED BY <1>1, <1>2, <2>1, LiveMember, ZenonT(30)
<1>3. CASE pc'[y] = "mint" /\ IsRefresh(y)' /\ chain[job'[y].old] = c
  <2>1. CASE pc[y] = "mint" /\ job'[y] = job[y] /\ IsRefresh(y)
    BY <1>1, <1>3, <2>1, LiveMember, Zenon
  <2>2. CASE Rotate(y) /\ Rotated(y)
    BY <1>3, <2>2, Zenon DEF Rotated
  <2> QED BY <1>1, <1>3, <2>1, <2>2, IntoMint, ZenonT(30)
<1> QED BY <1>1, <1>2, <1>3, ZenonT(20)

LEMMA NextChainQuiet ==
  ASSUME TypeOK, Locals, GrantInv, ChainInv, Next, ~ \E r \in TokenRequest : Mint(r)
  PROVE  ChainInv'
<1>1. UNCHANGED chain
  BY ChainStep, Zenon
<1>2. \A y \in TokenRequest : Revoked(y) \/ refreshTokens'[y] = refreshTokens[y]
  BY RefreshCases, ZenonT(30) DEF Rotated
<1>3. ASSUME NEW x \in TokenRequest, chain'[x] # None PROVE pc'[chain'[x]] = "done"
  <2>1. chain[x] \in TokenRequest /\ pc[chain[x]] = "done"
    BY <1>1, <1>3, ZenonT(20) DEF ChainInv, TypeOK
  <2>2. PICK c \in TokenRequest : c = chain[x] /\ pc[c] = "done"
    BY <2>1
  <2> QED BY <1>1, <2>2, DoneStays, ZenonT(20)
<1>4. ASSUME NEW x \in TokenRequest PROVE chain'[x] # None <=> refreshTokens'[x] # None
  BY <1>1, <1>2, Zenon DEF ChainInv, Revoked
<1>5. ASSUME NEW c \in TokenRequest, NEW x \in TokenRequest, NEW y \in TokenRequest,
             x \in Live(c)', y \in Live(c)', x # y
      PROVE  FALSE
  <2>1. \/ x \in Live(c)
        \/ Rotate(x) /\ Rotated(x) /\ chain[job[x].old] = c
    BY <1>1, <1>2, <1>5, ChainQuiet, Zenon
  <2>2. \/ y \in Live(c)
        \/ Rotate(y) /\ Rotated(y) /\ chain[job[y].old] = c
    BY <1>1, <1>2, <1>5, ChainQuiet, Zenon
  \* The rotation took the only live token of the chain.
  <2>3. ASSUME NEW r \in TokenRequest, NEW z \in TokenRequest, Rotate(r), Rotated(r),
               chain[job[r].old] = c, z # r, z \in Live(c)', z \in Live(c)
        PROVE  FALSE
    <3>1. PICK o \in TokenRequest : o = job[r].old
      BY <2>3 DEF Rotated
    <3>2. o \in Live(c)
      BY <2>3, <3>1, LiveMember, ZenonT(30) DEF Rotated
    <3>3. z = o
      BY <2>3, <3>2 DEF ChainInv
    <3>4. ~RefreshTokenActive(z)'
      BY <2>3, <3>1, <3>3, RevokedIsInactive, Zenon DEF Rotated
    <3>5. pc'[z] = "mint"
      BY <2>3, <3>4, Zenon DEF Live
    <3>6. refreshTokens[z] # None
      BY <2>3, <3>1, <3>3, Zenon DEF Rotated, RefreshTokenActive
    <3>7. pc[z] = "done"
      BY <3>6, TokenRequestAt, ZenonT(30) DEF TokenLocals
    <3>8. pc'[z] = "done"
      BY <3>7, DoneStays, ZenonT(20)
    <3> QED BY <3>5, <3>8, ZenonT(20)
  <2>4. ASSUME Rotate(x), Rotated(x), Rotate(y), Rotated(y) PROVE FALSE
    <3>1. Acts(x) /\ x \in Request
      BY <2>4, Zenon DEF Acts, Request
    <3>2. Frame({x}) /\ y \in Request
      BY <3>1, ActsStep, ZenonT(30) DEF StepOK, Request
    <3>3. pc'[y] = pc[y]
      BY <1>5, <3>2 DEF Frame
    <3> QED BY <2>4, <3>3 DEF Rotated
  <2>5. ASSUME x \in Live(c), y \in Live(c) PROVE FALSE
    BY <1>5, <2>5, Zenon DEF ChainInv
  <2> QED BY <1>5, <2>1, <2>2, <2>3, <2>4, <2>5, ZenonT(30)
<1> QED BY <1>3, <1>4, <1>5, Zenon DEF ChainInv

LEMMA NextChainMint ==
  ASSUME TypeOK, Locals, GrantInv, ChainInv, Next, NEW r \in TokenRequest, Mint(r)
  PROVE  ChainInv'
<1>1. /\ pc[r] = "mint" /\ pc'[r] = "done"
      /\ refreshTokens[r] = None /\ refreshTokens'[r] # None
      /\ \A y \in TokenRequest : y # r => refreshTokens'[y] = refreshTokens[y]
      /\ job[r].old \in TokenRequest \cup {None}
      /\ job[r].old # None => refreshTokens[job[r].old] # None
  BY MintStep, ZenonT(30)
<1>2. /\ chain'[r] = IF IsRefresh(r) THEN chain[job[r].old] ELSE r
      /\ \A y \in TokenRequest : y # r => chain'[y] = chain[y]
  BY ZenonT(20) DEF Mint, TypeOK
<1>3. PICK first \in TokenRequest : first = chain'[r] /\ pc'[first] = "done" /\
        (IsRefresh(r) => chain[job[r].old] = first) /\ (~IsRefresh(r) => first = r)
  <2>1. CASE IsRefresh(r)
    <3>1. PICK o \in TokenRequest : o = job[r].old /\ refreshTokens[o] # None
      BY <1>1, <2>1, ZenonT(20) DEF IsRefresh
    <3>2. PICK c \in TokenRequest : c = chain[o] /\ pc[c] = "done"
      BY <3>1 DEF ChainInv, TypeOK
    <3> QED BY <1>2, <2>1, <3>1, <3>2, DoneStays, ZenonT(30)
  <2>2. CASE ~IsRefresh(r)
    BY <1>1, <1>2, <2>2, ZenonT(30)
  <2> QED BY <2>1, <2>2
<1>4. None \notin TokenRequest
  BY PairingAssumption, ZenonT(20)
<1>5. ASSUME NEW x \in TokenRequest, chain'[x] # None PROVE pc'[chain'[x]] = "done"
  <2>1. CASE x = r
    BY <1>3, <2>1, Zenon
  <2>2. CASE x # r
    <3>1. PICK c \in TokenRequest : c = chain[x] /\ pc[c] = "done"
      BY <1>2, <1>5, <2>2, ZenonT(30) DEF ChainInv, TypeOK
    <3> QED BY <1>2, <2>2, <3>1, DoneStays, ZenonT(30)
  <2> QED BY <2>1, <2>2
<1>6. ASSUME NEW x \in TokenRequest PROVE chain'[x] # None <=> refreshTokens'[x] # None
  <2>1. CASE x = r
    BY <1>1, <1>3, <1>4, <2>1, Zenon
  <2>2. CASE x # r
    BY <1>1, <1>2, <2>2, ZenonT(30) DEF ChainInv
  <2> QED BY <2>1, <2>2, Zenon
\* No token is on the chain of a request that has not minted yet.
<1>7. ASSUME NEW x \in TokenRequest PROVE chain[x] # r
  BY <1>1, <1>4, ZenonT(20) DEF ChainInv
\* Apart from the new token, a live token was live before, and on the same chain.
<1>8. ASSUME NEW c \in TokenRequest, NEW y \in TokenRequest, y \in Live(c)', y # r
      PROVE  y \in Live(c) /\ c # r
  <2>1. CASE chain'[y] = c /\ RefreshTokenActive(y)'
    <3>1. chain[y] = c /\ RefreshTokenActive(y)
      BY <1>1, <1>2, <1>8, <2>1, ZenonT(30) DEF RefreshTokenActive
    <3> QED BY <1>7, <3>1, LiveMember, Zenon
  <2>2. CASE pc'[y] = "mint" /\ IsRefresh(y)' /\ chain'[job'[y].old] = c
    <3>1. pc[y] = "mint" /\ job'[y] = job[y]
      <4>1. Acts(r) /\ r \in Request
        BY Zenon DEF Acts, Request
      <4>2. Frame({r}) /\ y \in Request
        BY <4>1, ActsStep, Zenon DEF StepOK, Request
      <4> QED BY <1>8, <2>2, <4>2, ZenonT(20) DEF Frame
    <3>2. IsRefresh(y)
      BY <2>2, <3>1, ZenonT(30) DEF IsRefresh
    <3>3. PICK o \in TokenRequest : o = job[y].old /\ refreshTokens[o] # None
      BY <3>1, <3>2, TokenRequestAt, ZenonT(30) DEF TokenLocals, InFlight, Ended, IsRefresh
    <3>4. o # r
      BY <1>1, <3>3, Zenon
    <3>5. chain[job[y].old] = c
      BY <1>2, <2>2, <3>1, <3>3, <3>4, Zenon
    <3> QED BY <1>7, <3>1, <3>2, <3>3, <3>5, LiveMember, ZenonT(30)
  <2> QED BY <1>8, <2>1, <2>2, Zenon DEF Live
\* The new token takes the place of the request that mints it.
<1>9. ASSUME NEW c \in TokenRequest, r \in Live(c)'
      PROVE  r \in Live(c) \/ c = r
  <2>1. chain'[r] = c
    BY <1>1, <1>9, Zenon DEF Live
  <2> QED BY <1>1, <1>3, <2>1, LiveMember, Zenon
<1>10. ASSUME NEW c \in TokenRequest, NEW x \in TokenRequest, NEW y \in TokenRequest,
              x \in Live(c)', y \in Live(c)', x # y
       PROVE  FALSE
  <2>1. ASSUME NEW z \in TokenRequest, z # r, z \in Live(c)', r \in Live(c)' PROVE FALSE
    <3>1. z \in Live(c) /\ r \in Live(c)
      BY <1>8, <1>9, <2>1, ZenonT(30)
    <3> QED BY <2>1, <3>1, Zenon DEF ChainInv
  <2>2. ASSUME x # r, y # r PROVE FALSE
    <3>1. x \in Live(c) /\ y \in Live(c)
      BY <1>8, <1>10, <2>2, Zenon
    <3> QED BY <1>10, <3>1, Zenon DEF ChainInv
  <2> QED BY <1>10, <2>1, <2>2, ZenonT(30)
<1> QED BY <1>5, <1>6, <1>10, Zenon DEF ChainInv

=============================================================================
