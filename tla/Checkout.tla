------------------------------ MODULE Checkout ------------------------------
(***************************************************************************)
(* Desktop onboarding (internal/authservice/checkout.go and the account     *)
(* handlers): a desktop starts a checkout under its own nonce, the webhook  *)
(* binds the purchase to the waiting claim, the browser's return mints a    *)
(* one-time code, and the desktop exchanges the code or the nonce for its   *)
(* credential.  With billing disabled the start itself provisions the       *)
(* account.  An administrator can create an account or rotate its secret.   *)
(*                                                                          *)
(* Requests run concurrently; a step of one is a store call of it that the  *)
(* others can interleave with.  What a request mints is named after the     *)
(* request: a Start its Stripe session, claim row and account, a Start or a *)
(* Return its code, a Claim or an Admin its secret.                         *)
(*                                                                          *)
(* Abstractions: a secret or code and its hash are the same value; the      *)
(* expiry of a claim is a flag that the clock sets; the licenses of an      *)
(* account are counted.  Requests the handlers refuse for their shape (bad  *)
(* JSON, nonce or redirect) change nothing and are left out.                *)
(***************************************************************************)
EXTENDS Naturals, FiniteSets

CONSTANTS
  Nonce,     \* nonces of the desktop
  Start,     \* requests: POST /v1/checkout/start
  Return,    \* GET /v1/checkout/return
  Claim,     \* POST /v1/accounts/claim, repeated until it gives a credential
  Admin,     \* POST /v1/accounts
  MaxFaults, \* bound on requests that die half-way
  None

ASSUME CheckoutAssumption ==
  /\ Start \cap (Return \cup Claim \cup Admin) = {}
  /\ Return \cap (Claim \cup Admin) = {} /\ Claim \cap Admin = {}
  /\ None \notin Start \cup Return \cup Claim \cup Admin \cup Nonce \cup {"lost"}
  /\ IsFiniteSet(Admin) /\ MaxFaults \in Nat

VARIABLES
  billing,  \* the service runs with billing enabled
  claims,   \* claims[n]: the checkout_claims row of nonce n, or None
  accounts, \* accounts[a]: the row of account a, or None
  licenses, \* licenses[a]: how many active licenses a has
  sold,     \* sold[s]: "no", "paid", or "applied" once the webhook is processed
  codes,    \* the codes that reached the desktop
  pc,       \* pc[r]: the next step of request r
  job,      \* job[r]: the nonce it works for, the row it has consumed
  outcome,  \* history: outcome[s]: who was handed the credential of s, or "lost"
  faults    \* requests that died

Request == Start \cup Return \cup Claim \cup Admin
Account == Start \cup Admin
Code    == Start \cup Return
Secret  == Claim \cup Admin

requests == <<pc, job>>
history  == <<outcome, faults>>
vars == <<billing, claims, accounts, licenses, sold, codes, requests, history>>

\* by: the Start that inserted the row.
ClaimRow == [by : Start, session : Start \cup {None}, code : Code \cup {None},
             account : Account \cup {None}, status : {"pending", "ready", "consumed"},
             expired : BOOLEAN]
AccountRow == [customer : BOOLEAN, secret : Secret \cup {None}]
NoAccount  == [customer |-> FALSE, secret |-> None]
Idle       == [nonce |-> None, row |-> None]

\* "No row" is not a row.
ASSUME RowAssumption == None \notin ClaimRow \cup AccountRow

Init ==
  /\ billing \in BOOLEAN
  /\ claims = [n \in Nonce |-> None]
  /\ accounts = [a \in Account |-> None]
  /\ licenses = [a \in Account |-> 0]
  /\ sold = [s \in Start |-> "no"]
  /\ codes = {}
  /\ pc = [r \in Request |-> "idle"]
  /\ job = [r \in Request |-> Idle]
  /\ outcome = [s \in Start |-> None]
  /\ faults = 0

Goto(r, to) == pc' = [pc EXCEPT ![r] = to]
Move(r, from, to) == pc[r] = from /\ Goto(r, to)

----------------------------------------------------------------------------
(* The store.                                                              *)

\* Mutant: the row is replaced.
ReplaceAccount(a, row) == accounts' = [accounts EXCEPT ![a] = row]

\* Empty fields of an existing account are merged, never cleared.
UpsertAccount(a, row) ==
  LET old == IF accounts[a] = None THEN NoAccount ELSE accounts[a]
  IN accounts' = [accounts EXCEPT ![a] =
       [customer |-> old.customer \/ row.customer,
        secret |-> IF row.secret = None THEN old.secret ELSE row.secret]]

CreateCheckoutClaim(n, s, session) ==
  /\ claims[n] = None
  /\ claims' = [claims EXCEPT ![n] =
       [by |-> s, session |-> session, code |-> None, account |-> None,
        status |-> "pending", expired |-> FALSE]]

HasStatus(n, status) == claims[n] # None /\ claims[n].status = status

\* Mutant: a claim that has progressed is bound again.
RebindClaim(n, a, session) ==
  claims' = IF claims[n] = None THEN claims
            ELSE [claims EXCEPT ![n].account = a, ![n].status = "ready", ![n].session = session]

\* Missing or already progressed: nothing happens.
MarkCheckoutClaimReady(n, a, session) ==
  claims' = IF ~HasStatus(n, "pending") THEN claims
            ELSE [claims EXCEPT ![n].account = a, ![n].status = "ready",
                                ![n].session = IF session = None THEN @ ELSE session]

SetCheckoutClaimCode(n, code) ==
  HasStatus(n, "ready") /\ claims' = [claims EXCEPT ![n].code = code]

\* Mutant: the update does not ask for the status.
ConsumeAnyClaim(n) == claims[n] # None /\ claims' = [claims EXCEPT ![n].status = "consumed"]

ConsumeCheckoutClaim(n) ==
  HasStatus(n, "ready") /\ claims' = [claims EXCEPT ![n].status = "consumed"]

DeleteExpiredCheckoutClaims ==
  claims' = [n \in Nonce |-> IF claims[n] # None /\ claims[n].expired THEN None ELSE claims[n]]

----------------------------------------------------------------------------
(* Starting a checkout.                                                    *)

\* handleStartCheckout: the session is created at Stripe, then the claim.
handleStartCheckout(s, n) ==
  /\ billing
  /\ Move(s, "idle", "done")
  /\ CreateCheckoutClaim(n, s, s)
  /\ job' = [job EXCEPT ![s].nonce = n]
  /\ UNCHANGED <<billing, accounts, licenses, sold, codes, history>>

\* The customer pays in the session whose URL the desktop was given.
Pay(s) ==
  /\ billing /\ pc[s] = "done" /\ sold[s] = "no"
  /\ sold' = [sold EXCEPT ![s] = "paid"]
  /\ UNCHANGED <<billing, claims, accounts, licenses, codes, requests, history>>

\* Mutant: every delivery of the event provisions a license.
LinkPurchaseAgain(s) ==
  /\ sold[s] = "paid"
  /\ UpsertAccount(s, [NoAccount EXCEPT !.customer = TRUE])
  /\ licenses' = [licenses EXCEPT ![s] = @ + 1]
  /\ UNCHANGED <<billing, claims, sold, codes, requests, history>>

\* handleCheckoutCompleted: the account is linked and its license provisioned.
LinkPurchase(s) ==
  /\ sold[s] = "paid" /\ accounts[s] = None
  /\ UpsertAccount(s, [NoAccount EXCEPT !.customer = TRUE])
  /\ licenses' = [licenses EXCEPT ![s] = 1]
  /\ UNCHANGED <<billing, claims, sold, codes, requests, history>>

\* Then the claim of the session's nonce is bound to it.
BindPurchase(s) ==
  /\ sold[s] = "paid" /\ accounts[s] # None
  /\ MarkCheckoutClaimReady(job[s].nonce, s, s)
  /\ sold' = [sold EXCEPT ![s] = "applied"]
  /\ UNCHANGED <<billing, accounts, licenses, codes, requests, history>>

\* startCheckoutOpen: a fresh account with an open license, that nobody else
\* knows of yet; a claim for it; the claim made ready; a code for it.
ProvisionOpen(s, n) ==
  /\ ~billing
  /\ Move(s, "idle", "claim")
  /\ UpsertAccount(s, NoAccount)
  /\ licenses' = [licenses EXCEPT ![s] = 1]
  /\ job' = [job EXCEPT ![s].nonce = n]
  /\ UNCHANGED <<billing, claims, sold, codes, history>>

ClaimOpen(s) ==
  /\ pc[s] = "claim"
  /\ \/ CreateCheckoutClaim(job[s].nonce, s, None) /\ Goto(s, "bind")
     \/ claims[job[s].nonce] # None /\ Goto(s, "done") /\ UNCHANGED claims
  /\ UNCHANGED <<billing, accounts, licenses, sold, codes, job, history>>

BindOpen(s) ==
  /\ Move(s, "bind", "code")
  /\ MarkCheckoutClaimReady(job[s].nonce, s, None)
  /\ UNCHANGED <<billing, accounts, licenses, sold, codes, job, history>>

----------------------------------------------------------------------------
(* The browser's return.                                                   *)

\* handleCheckoutReturn: a claim that is ready and has not expired gets a code.
\* Any other claim is only reported on.
BrowserReturn(r, s) ==
  LET n == job[s].nonce
  IN /\ billing /\ pc[s] = "done" /\ sold[s] # "no"
     /\ Move(r, "idle", "code")
     /\ HasStatus(n, "ready") /\ ~claims[n].expired
     /\ claims[n].session \in {None, s}
     /\ job' = [job EXCEPT ![r].nonce = n]
     /\ UNCHANGED <<billing, claims, accounts, licenses, sold, codes, history>>

\* The code is stored, by a return or by an open start, and redirected to the
\* desktop; or the claim is no longer ready and the request ends in an error.
MintCode(r) ==
  /\ Move(r, "code", "done")
  /\ \/ SetCheckoutClaimCode(job[r].nonce, r) /\ codes' = codes \cup {r}
     \/ ~HasStatus(job[r].nonce, "ready") /\ UNCHANGED <<claims, codes>>
  /\ UNCHANGED <<billing, accounts, licenses, sold, job, history>>

----------------------------------------------------------------------------
(* The claim.                                                              *)

\* Mutant: the claim must have a code, even for the desktop that polls by nonce.
FindCodedClaim(c, n) ==
  /\ Move(c, "idle", "consume")
  /\ HasStatus(n, "ready") /\ ~claims[n].expired /\ claims[n].code # None
  /\ job' = [job EXCEPT ![c].nonce = n]
  /\ UNCHANGED <<billing, claims, accounts, licenses, sold, codes, history>>

\* handleClaimAccount finds the claim by a code it was redirected with, or by its
\* nonce.  Every answer but the ready one leaves the desktop polling.
FindClaim(c, n) ==
  /\ Move(c, "idle", "consume")
  /\ HasStatus(n, "ready") /\ ~claims[n].expired
  /\ job' = [job EXCEPT ![c].nonce = n]
  /\ UNCHANGED <<billing, claims, accounts, licenses, sold, codes, history>>

FindClaimByCode(c) == \E n \in Nonce : claims[n] # None /\ claims[n].code \in codes /\ FindClaim(c, n)

\* The claim is consumed, whoever found it first.
ConsumeClaim(c) ==
  LET n == job[c].nonce
  IN /\ pc[c] = "consume"
     /\ \/ /\ ConsumeCheckoutClaim(n)
           /\ Goto(c, "secret")
           /\ job' = [job EXCEPT ![c] = [nonce |-> None, row |-> claims[n]]]
        \/ /\ ~HasStatus(n, "ready")
           /\ Goto(c, "idle")
           /\ job' = [job EXCEPT ![c] = Idle]
           /\ UNCHANGED claims
     /\ UNCHANGED <<billing, accounts, licenses, sold, codes, history>>

\* The secret is minted, stored and handed out.
HandOut(c) ==
  LET row == job[c].row
  IN /\ Move(c, "secret", "done")
     /\ UpsertAccount(row.account, [NoAccount EXCEPT !.secret = c])
     /\ outcome' = [outcome EXCEPT ![row.by] = c]
     /\ UNCHANGED <<billing, claims, licenses, sold, codes, job, faults>>

----------------------------------------------------------------------------
(* Administration.                                                         *)

\* handleCreateAccount for a new account, or one that exists.
AdminSecret(a, x) ==
  /\ accounts[x] # None \/ x = a
  /\ Move(a, "idle", IF billing THEN "done" ELSE "list")
  /\ UpsertAccount(x, [NoAccount EXCEPT !.secret = a])
  /\ job' = [job EXCEPT ![a].nonce = x]
  /\ UNCHANGED <<billing, claims, licenses, sold, codes, history>>

\* provisionOpenLicense: list, then create on the first call.
ListLicenses(a) ==
  /\ Move(a, "list", IF licenses[job[a].nonce] > 0 THEN "done" ELSE "create")
  /\ UNCHANGED <<billing, claims, accounts, licenses, sold, codes, job, history>>

CreateOpenLicense(a) ==
  /\ Move(a, "create", "done")
  /\ licenses' = [licenses EXCEPT ![job[a].nonce] = @ + 1]
  /\ UNCHANGED <<billing, claims, accounts, sold, codes, job, history>>

----------------------------------------------------------------------------
(* Time and faults.                                                        *)

Expire(n) ==
  /\ claims[n] # None /\ ~claims[n].expired
  /\ claims' = [claims EXCEPT ![n].expired = TRUE]
  /\ UNCHANGED <<billing, accounts, licenses, sold, codes, requests, history>>

\* The collector of expired rows.
Collect ==
  /\ \E n \in Nonce : claims[n] # None /\ claims[n].expired
  /\ DeleteExpiredCheckoutClaims
  /\ UNCHANGED <<billing, accounts, licenses, sold, codes, requests, history>>

\* A request dies between two of its calls.  The desktop goes on polling.
Die(r) ==
  /\ faults < MaxFaults
  /\ pc[r] \notin {"idle", "done"}
  /\ faults' = faults + 1
  /\ Goto(r, IF r \in Claim THEN "idle" ELSE "done")
  /\ job' = [job EXCEPT ![r] = Idle]
  /\ outcome' = IF pc[r] = "secret" THEN [outcome EXCEPT ![job[r].row.by] = "lost"] ELSE outcome
  /\ UNCHANGED <<billing, claims, accounts, licenses, sold, codes>>

----------------------------------------------------------------------------
(* The specification.                                                      *)

Webhook(s) == LinkPurchase(s) \/ BindPurchase(s)
StartStep(s) == ClaimOpen(s) \/ BindOpen(s) \/ MintCode(s)
Poll(c) == (\E n \in Nonce : FindClaim(c, n)) \/ ConsumeClaim(c) \/ HandOut(c)
AdminStep(a) == ListLicenses(a) \/ CreateOpenLicense(a)

Next ==
  \/ \E s \in Start, n \in Nonce : handleStartCheckout(s, n) \/ ProvisionOpen(s, n)
  \/ \E s \in Start : Pay(s) \/ Webhook(s) \/ StartStep(s)
  \/ \E r \in Return, s \in Start : BrowserReturn(r, s)
  \/ \E r \in Return : MintCode(r)
  \/ \E c \in Claim : FindClaimByCode(c) \/ Poll(c)
  \/ \E a \in Admin, x \in Account : AdminSecret(a, x)
  \/ \E a \in Admin : AdminStep(a)
  \/ \E n \in Nonce : Expire(n)
  \/ Collect
  \/ \E r \in Request : Die(r)

Spec == Init /\ [][Next]_vars

\* Requests run on, the webhook is applied, and the desktop keeps polling.
Fairness ==
  /\ \A s \in Start : WF_vars(Webhook(s)) /\ WF_vars(StartStep(s))
  /\ \A c \in Claim : WF_vars(Poll(c))

FairSpec == Spec /\ Fairness

----------------------------------------------------------------------------
(* Properties.                                                             *)

\* Type correctness of the claim and account tables and of the requests.
TypeOK ==
  /\ billing \in BOOLEAN
  /\ claims \in [Nonce -> ClaimRow \cup {None}]
  /\ accounts \in [Account -> AccountRow \cup {None}]
  /\ licenses \in [Account -> 0..(1 + Cardinality(Admin))]
  /\ sold \in [Start -> {"no", "paid", "applied"}]
  /\ codes \subseteq Code
  /\ pc \in [Request -> {"idle", "claim", "bind", "code", "consume", "secret", "list", "create", "done"}]
  /\ job \in [Request -> [nonce : Nonce \cup Account \cup {None}, row : ClaimRow \cup {None}]]
  /\ outcome \in [Start -> Claim \cup {None, "lost"}]
  /\ faults \in 0..MaxFaults

\* The credential of a claim is handed out at most once, however the browser's
\* code and the desktop's poll race: nobody is on the way to hand out what has
\* been handed out, or what somebody else is about to.
HandedOnce ==
  \A c \in Claim : pc[c] = "secret" =>
    /\ outcome[job[c].row.by] = None
    /\ \A d \in Claim : pc[d] = "secret" /\ job[d].row.by = job[c].row.by => c = d

\* handleGetSubscription and handleBillingPortal answer a holder of the account's
\* secret: the account has a license, and with billing on a Stripe customer.
Answers(a, secret) ==
  /\ accounts[a] # None /\ accounts[a].secret = secret
  /\ licenses[a] > 0
  /\ billing => accounts[a].customer

\* A desktop that was handed a credential can use it at once and for good, unless
\* an administrator rotated the secret: the purchase was linked and licensed
\* before its claim became ready, and storing the secret kept the link.
HandedIsUsable ==
  \A c \in Claim : pc[c] = "done" /\ job[c].row # None =>
    LET a == job[c].row.account
    IN Answers(a, c) \/ (accounts[a].secret \in Admin /\ Answers(a, accounts[a].secret))

\* A claim only moves forward: pending, ready, consumed; and it is forgotten only
\* after it has expired.  A late webhook, return or collector run does not revive
\* or drop it.
Rank(status) == CASE status = "pending" -> 1 [] status = "ready" -> 2 [] OTHER -> 3
ClaimForward ==
  [][\A n \in Nonce : claims[n] # None =>
       IF claims'[n] = None THEN claims[n].expired
       ELSE /\ claims'[n].by = claims[n].by
            /\ Rank(claims'[n].status) >= Rank(claims[n].status)
            /\ claims[n].account # None => claims'[n].account = claims[n].account]_vars

\* A claim that is ready reaches the polling desktop: its credential is handed
\* out, unless the claim expires first or the request that consumed it dies.
ReadyIsDelivered ==
  \A s \in Start :
    (\E n \in Nonce : HasStatus(n, "ready") /\ claims[n].by = s)
      ~> (outcome[s] # None \/ \A n \in Nonce : claims[n] # None /\ claims[n].by = s => claims[n].expired)
=============================================================================
