-------------------------------- MODULE Tokens --------------------------------
(***************************************************************************)
(* Connection tokens (internal/authservice/handlers.go): a device obtains a *)
(* JWT and a refresh token, and exchanges the refresh token, once, for the  *)
(* next ones.  Composed with Pairing, whose requests evict devices, unpair  *)
(* and revoke tokens between any two steps of a token request.              *)
(*                                                                          *)
(* A token request may present any refresh token that was ever stored, as   *)
(* often as it likes: a client whose answer was lost presents an old one.   *)
(***************************************************************************)
EXTENDS Pairing

VARIABLES
  wasMember,    \* history: the device of request r has been an active member of
                \* the pairing at some moment since r began
  wasIssuable,  \* history: so has the license been issuable
  chain         \* history: chain[x]: the first refresh token of x's chain

tokenVars == <<wasMember, wasIssuable, chain>>
tvars == <<vars, tokenVars>>

pairingHasDevice(p, d) == d = pairings[p].mobile \/ d = pairings[p].desktop

\* Issue and refresh requests are told apart by the refresh token presented.
IsRefresh(r) == job[r].old # None

TokensInit ==
  /\ PairingInit
  /\ wasMember = [r \in TokenRequest |-> FALSE]
  /\ wasIssuable = [r \in TokenRequest |-> FALSE]
  /\ chain = [r \in TokenRequest |-> None]

----------------------------------------------------------------------------
(* handleIssueToken.                                                       *)

\* The account secret opens every pairing of the account, so that a phone's
\* credential, which opens only its own, adds no request of its own.
BeginIssue(r, p, d) ==
  /\ PairingActive(p)
  /\ pairingHasDevice(p, d)
  /\ Move(r, "idle", "license")
  /\ job' = [job EXCEPT ![r].device = d, ![r].pair = p]
  /\ UNCHANGED <<storeVars, lock, licenseVars, chain>>

----------------------------------------------------------------------------
(* handleRefreshToken.                                                     *)

\* A token that is already revoked has been presented before: reuse.
BeginRefresh(r, x) ==
  /\ refreshTokens[x] # None
  /\ Move(r, "idle", IF refreshTokens[x].revoked THEN "reuse" ELSE "member")
  /\ job' = [job EXCEPT ![r].device = refreshTokens[x].device,
                        ![r].pair = refreshTokens[x].pair, ![r].old = x]
  /\ UNCHANGED <<storeVars, lock, licenseVars, chain>>

\* Reuse ends every token of the device.  A failure is logged and ignored.
RevokeChain(r) ==
  /\ End(r, "reuse", "failed")
  /\ RevokeRefreshTokensByDevice(job[r].device) \/ UNCHANGED refreshTokens
  /\ UNCHANGED <<devices, pairings, credentials, pairingTokens, lock, licenseVars, chain>>

\* A rejected refresh revokes the token it presented, or fails to.
Reject(r, from) ==
  /\ End(r, from, "failed")
  /\ \/ IsRefresh(r) /\ RevokeRefreshToken(job[r].old)
     \/ UNCHANGED refreshTokens

\* Mutation of CheckMember: the status of the pairing is all that is checked.
CheckActiveOnly(r) ==
  LET ok == PairingActive(job[r].pair)
  IN /\ pc[r] = "member"
     /\ \/ ok /\ Move(r, "member", "license") /\ UNCHANGED <<job, refreshTokens>>
        \/ ~ok /\ Reject(r, "member")
     /\ UNCHANGED <<devices, pairings, credentials, pairingTokens, lock, licenseVars, chain>>

\* The pairing must be active and the device still one of its two members.
CheckMember(r) ==
  LET ok == PairingActive(job[r].pair) /\ pairingHasDevice(job[r].pair, job[r].device)
  IN /\ pc[r] = "member"
     /\ \/ ok /\ Move(r, "member", "license") /\ UNCHANGED <<job, refreshTokens>>
        \/ ~ok /\ Reject(r, "member")
     /\ UNCHANGED <<devices, pairings, credentials, pairingTokens, lock, licenseVars, chain>>

\* pairingIssuable, for both handlers.
CheckLicense(r) ==
  LET ok == issuable[pairings[job[r].pair].license]
  IN /\ pc[r] = "license"
     /\ \/ /\ ok
           /\ Move(r, "license", IF IsRefresh(r) THEN "rotate" ELSE "mint")
           /\ UNCHANGED <<job, refreshTokens>>
        \/ ~ok /\ Reject(r, "license")
     /\ UNCHANGED <<devices, pairings, credentials, pairingTokens, lock, licenseVars, chain>>

\* The single-use gate: the loser of two rotations gets ErrConflict.
Rotate(r) ==
  /\ \/ /\ Move(r, "rotate", "mint")
        /\ ConsumeRefreshToken(job[r].old)
        /\ UNCHANGED job
     \/ /\ End(r, "rotate", "failed")
        /\ refreshTokens[job[r].old].revoked
        /\ UNCHANGED refreshTokens
  /\ UNCHANGED <<devices, pairings, credentials, pairingTokens, lock, licenseVars, chain>>

\* issueTokenPair: the JWT is signed and the next refresh token stored.
Mint(r) ==
  /\ End(r, "mint", "done")
  /\ PutRefreshToken(r, job[r].device, job[r].pair)
  /\ chain' = [chain EXCEPT ![r] = IF IsRefresh(r) THEN chain[job[r].old] ELSE r]
  /\ UNCHANGED <<devices, pairings, credentials, pairingTokens, lock, licenseVars>>

TokenStep ==
  \/ \E r \in TokenRequest, p \in Pair, d \in Device : BeginIssue(r, p, d)
  \/ \E r, x \in TokenRequest : BeginRefresh(r, x)
  \/ \E r \in TokenRequest :
       \/ RevokeChain(r) \/ CheckMember(r) \/ CheckLicense(r) \/ Rotate(r) \/ Mint(r)

\* What request r has seen hold since it began; a request that ended forgets.
Member(r) == LET j == job[r] IN PairingActive(j.pair) /\ pairingHasDevice(j.pair, j.device)

Observe ==
  /\ wasMember' = [r \in TokenRequest |-> InFlight(r)' /\ (wasMember[r] \/ Member(r)')]
  /\ wasIssuable' = [r \in TokenRequest |->
       InFlight(r)' /\ (wasIssuable[r] \/ issuable'[pairings'[job'[r].pair].license])]

Next ==
  /\ \/ PairingStep /\ UNCHANGED chain
     \/ TokenStep
  /\ Observe

Spec == TokensInit /\ [][Next]_tvars

----------------------------------------------------------------------------
(* Type correctness.                                                       *)

PCs == {"idle", "done", "failed", "find", "register", "existing", "capacity", "consume", "key",
        "rebind", "evict", "lock", "count", "commit", "credential", "revoke",
        "reuse", "member", "license", "rotate", "mint"}

Job == [tok : PairingToken \cup {None}, key : Phone \cup {NoKey, None},
        device : Device \cup {None}, pair : Pair \cup {None},
        old : Mobile \cup TokenRequest \cup {None}, max : Quota \cup {0}]

\* Type correctness of the tables, of the requests' local variables and of the
\* license lock.
TypeOK ==
  /\ StoreTypeOK
  /\ pc \in [Request -> PCs]
  /\ job \in [Request -> Job]
  /\ lock \in [License -> Completion \cup {None}]
  /\ maxPairs \in [License -> Quota]
  /\ issuable \in [License -> BOOLEAN]
  /\ changes \in 0..MaxChanges
  /\ granted \in [License -> SUBSET Quota]
  /\ wasMember \in [TokenRequest -> BOOLEAN]
  /\ wasIssuable \in [TokenRequest -> BOOLEAN]
  /\ chain \in [TokenRequest -> TokenRequest \cup {None}]

----------------------------------------------------------------------------
(* Safety.                                                                 *)

\* A license never has more active pairings than the largest max_pairs its
\* subscription has had, however many completions race for the last slot.
CapacityHeld ==
  \A l \in License : \E max \in granted[l] : ActivePairCount(l) <= max

\* The desktop's poll never answers with a pairing whose phone has no key, and
\* answers store_error only when the completion that consumed the token is still
\* at work or did not succeed.
PollConsistent ==
  \A t \in PairingToken :
    pairingTokens[t] # None =>
      /\ PollAnswer(t) # NoKey
      /\ PollAnswer(t) = "store_error" => pc[pairingTokens[t].result] # "done"

\* When a request is about to mint tokens, its device has been an active member of
\* the pairing, and the license issuable, at some moment since the request began:
\* a device that was evicted or unpaired before it asked gets nothing.
MintedForMember ==
  \A r \in TokenRequest : pc[r] = "mint" => wasMember[r] /\ wasIssuable[r]

\* Rotation keeps a chain linear: of the tokens that descend from one issue, at
\* most one is active or about to be replaced by a rotation that consumed it.
Live(c) ==
  {x \in TokenRequest : chain[x] = c /\ RefreshTokenActive(x)}
    \cup {r \in TokenRequest : pc[r] = "mint" /\ IsRefresh(r) /\ chain[job[r].old] = c}
ChainLinear == \A c \in TokenRequest : Cardinality(Live(c)) <= 1

----------------------------------------------------------------------------
(* Refinement: the Postgres transaction implements the atomic create.      *)

slotsOf == [p \in Pair |-> IF pairings[p] = None THEN None
                           ELSE [license |-> pairings[p].license, status |-> pairings[p].status]]

\* Every step of the composed system is, on the pairing table, a step of the
\* contract the in-memory store meets by its mutex.
Slots == INSTANCE PairSlots WITH slots <- slotsOf, granted <- granted,
                                 Pair <- Pair, License <- License, Quota <- Quota, None <- None
ImplementsSlots == Slots!Spec

\* "No row" is no row of the contract's table either.
ASSUME SlotsAssumption == None \notin Slots!Row
=============================================================================
