------------------------------ MODULE AuthStore ------------------------------
(***************************************************************************)
(* The tables of the auth service that pairing and token handlers share     *)
(* (internal/authstore), with one operator per store method.  A method is   *)
(* one statement, hence one atomic step, of the Postgres store; the         *)
(* exception, the transaction CreatePairingWithinCapacity, is three steps   *)
(* of module Pairing.                                                       *)
(*                                                                          *)
(* Abstractions:                                                            *)
(*  - one account: the ownership checks only reject rows of other accounts; *)
(*  - ids are drawn at random by the request that inserts a row, so a row   *)
(*    carries the name of that request: a pairing that of a completion, a   *)
(*    mobile device that of a completion or registration, a refresh token   *)
(*    that of a token request;                                              *)
(*  - desktops are registered, with their key, before a token names them;   *)
(*  - a secret is known by the row it opens;                                *)
(*  - a pairing token or refresh token that has expired is refused without  *)
(*    any effect: that is a request that does not begin.                    *)
(***************************************************************************)
EXTENDS Naturals, FiniteSets

CONSTANTS
  Completion,    \* requests to POST /v1/pairings
  Registration,  \* requests to POST /v1/devices
  TokenRequest,  \* requests to POST /v1/tokens and /v1/tokens/refresh
  Desktop,       \* desktop device ids
  Phone,         \* phones, by their X25519 public key
  License,       \* license ids
  PairingToken,  \* pairing tokens, by the hash of their secret
  None           \* "no row"

VARIABLES
  devices,        \* devices[m]: the public key on mobile device m, NoKey, or None
  pairings,       \* pairings[p]: the row of pair p, or None
  credentials,    \* credentials[p]: the credential of pair p, or None
  pairingTokens,  \* pairingTokens[t]: the row of pairing token t, or None
  refreshTokens   \* refreshTokens[x]: the row of refresh token x, or None

storeVars == <<devices, pairings, credentials, pairingTokens, refreshTokens>>

NoKey  == "no key"
Pair   == Completion
Mobile == Completion \cup Registration
Device == Mobile \cup Desktop

PairingRow == [license : License, mobile : Mobile, desktop : Desktop,
               status : {"active", "revoked"}]
CredentialRow == [mobile : Mobile, secret : Completion, revoked : BOOLEAN]
PairingTokenRow == [license : License, desktop : Desktop, result : Pair \cup {None}]
RefreshTokenRow == [device : Device, pair : Pair, revoked : BOOLEAN]

StoreTypeOK ==
  /\ devices \in [Mobile -> Phone \cup {NoKey, None}]
  /\ pairings \in [Pair -> PairingRow \cup {None}]
  /\ credentials \in [Pair -> CredentialRow \cup {None}]
  /\ pairingTokens \in [PairingToken -> PairingTokenRow \cup {None}]
  /\ refreshTokens \in [TokenRequest -> RefreshTokenRow \cup {None}]

StoreInit ==
  /\ devices = [m \in Mobile |-> None]
  /\ pairings = [p \in Pair |-> None]
  /\ credentials = [p \in Pair |-> None]
  /\ pairingTokens = [t \in PairingToken |-> None]
  /\ refreshTokens = [x \in TokenRequest |-> None]

----------------------------------------------------------------------------
(* Devices.                                                                *)

UpsertDevice(m, key) == devices' = [devices EXCEPT ![m] = key]

CountDevicesByAccount ==
  Cardinality(Desktop) + Cardinality({m \in Mobile : devices[m] # None})

\* The store returns one of them (the oldest, the smallest id); no key never
\* matches.
FindDevicesByKey(key) == {m \in Mobile : key # NoKey /\ devices[m] = key}

----------------------------------------------------------------------------
(* Pairings and their credentials.                                         *)

PairingActive(p) == pairings[p] # None /\ pairings[p].status = "active"

ListActivePairingsByLicense(l) == {p \in Pair : PairingActive(p) /\ pairings[p].license = l}

ActivePairCount(l) == Cardinality(ListActivePairingsByLicense(l))

\* Mutation of InsertPairing: the two device columns swapped.
InsertPairingSwapped(p, l, m, d) ==
  pairings' = [pairings EXCEPT ![p] =
                 [license |-> l, mobile |-> d, desktop |-> m, status |-> "active"]]

InsertPairing(p, l, m, d) ==
  pairings' = [pairings EXCEPT ![p] =
                 [license |-> l, mobile |-> m, desktop |-> d, status |-> "active"]]

SetPairingStatus(p) == pairings' = [pairings EXCEPT ![p].status = "revoked"]

\* Mutation of UpdatePairingDevices: the update also reactivates the row.
ReactivatePairing(p, m, d) ==
  pairings' = [pairings EXCEPT ![p].mobile = m, ![p].desktop = d, ![p].status = "active"]

UpdatePairingDevices(p, m, d) ==
  pairings' = [pairings EXCEPT ![p].mobile = m, ![p].desktop = d]

\* Upsert by pair id; the new secret is that of the completion r.
PutPairCredential(p, m, r) ==
  credentials' = [credentials EXCEPT ![p] = [mobile |-> m, secret |-> r, revoked |-> FALSE]]

\* Idempotent: a missing credential is not an error.
RevokePairCredential(p) ==
  credentials' = IF credentials[p] = None THEN credentials
                 ELSE [credentials EXCEPT ![p].revoked = TRUE]

----------------------------------------------------------------------------
(* Pairing tokens.                                                         *)

PairingTokenActive(t) == pairingTokens[t] # None /\ pairingTokens[t].result = None

InsertPairingToken(t, l, d) ==
  pairingTokens' = [pairingTokens EXCEPT ![t] =
                      [license |-> l, desktop |-> d, result |-> None]]

\* UPDATE ... WHERE consumed_at IS NULL; otherwise ErrConflict.
ConsumePairingToken(t, p) ==
  /\ pairingTokens[t].result = None
  /\ pairingTokens' = [pairingTokens EXCEPT ![t].result = p]

----------------------------------------------------------------------------
(* Refresh tokens.                                                         *)

RefreshTokenActive(x) == refreshTokens[x] # None /\ ~refreshTokens[x].revoked

PutRefreshToken(x, d, p) ==
  refreshTokens' = [refreshTokens EXCEPT ![x] = [device |-> d, pair |-> p, revoked |-> FALSE]]

RevokeRefreshToken(x) == refreshTokens' = [refreshTokens EXCEPT ![x].revoked = TRUE]

\* Mutation of ConsumeRefreshToken: an UPDATE without the IS NULL condition.
ConsumeAnyRefreshToken(x) == refreshTokens' = [refreshTokens EXCEPT ![x].revoked = TRUE]

\* UPDATE ... WHERE revoked_at IS NULL; otherwise ErrConflict.
ConsumeRefreshToken(x) ==
  /\ ~refreshTokens[x].revoked
  /\ refreshTokens' = [refreshTokens EXCEPT ![x].revoked = TRUE]

RevokeRefreshTokensByDevice(d) ==
  refreshTokens' = [x \in TokenRequest |->
                      IF refreshTokens[x] # None /\ refreshTokens[x].device = d
                      THEN [refreshTokens[x] EXCEPT !.revoked = TRUE]
                      ELSE refreshTokens[x]]
=============================================================================
