--------------------------- MODULE CheckoutProofs ---------------------------
(***************************************************************************)
(* Proofs about desktop onboarding (Checkout), for every number of nonces,  *)
(* starts, returns, polls and administrators, with billing on or off, and   *)
(* for every interleaving of their store calls with webhooks, expiry, the   *)
(* collector and requests that die half-way.                                *)
(***************************************************************************)
EXTENDS Checkout, FiniteSetTheorems, TLAPS

----------------------------------------------------------------------------
(* The inductive invariant, in parts.                                      *)

\* What a request knows at each of its steps.  Only an open start has steps between
\* its first and its last; a claim request holds a row from its consumption on.
StartLocals(s) ==
  /\ pc[s] \in {"idle", "claim", "bind", "code", "done"}
  /\ pc[s] \in {"claim", "bind", "code"} => ~billing /\ job[s].nonce \in Nonce
  /\ pc[s] = "done" /\ billing => job[s].nonce \in Nonce
  /\ sold[s] # "no" => billing /\ pc[s] = "done"
ReturnLocals(r) ==
  /\ pc[r] \in {"idle", "code", "done"}
  /\ pc[r] = "code" => job[r].nonce \in Nonce
ClaimLocals(c) ==
  /\ pc[c] \in {"idle", "consume", "secret", "done"}
  /\ pc[c] = "consume" => job[c].nonce \in Nonce
  /\ job[c].row # None <=> pc[c] \in {"secret", "done"}
AdminLocals(a) ==
  /\ pc[a] \in {"idle", "list", "create", "done"}
  /\ pc[a] \in {"list", "create"} => job[a].nonce \in Account

Locals ==
  /\ \A s \in Start : StartLocals(s)
  /\ \A r \in Return : ReturnLocals(r)
  /\ \A c \in Claim : ClaimLocals(c)
  /\ \A a \in Admin : AdminLocals(a)

\* The administrators whose request is over: each has created at most one license.
Finished == {a \in Admin : pc[a] = "done"}
LicenseInv == \A x \in Account : licenses[x] <= 1 + Cardinality(Finished)

\* The purchase or the open start s has been bound to a claim, or never will be.
Bound(s) == sold[s] = "applied" \/ (~billing /\ pc[s] \notin {"idle", "claim", "bind"})

\* A started account is licensed, and with billing on linked to its customer,
\* before it can be bound.
AccountInv ==
  \A s \in Start :
    /\ accounts[s] # None => licenses[s] > 0 /\ (billing => accounts[s].customer)
    /\ sold[s] = "applied" \/ (~billing /\ pc[s] # "idle") => accounts[s] # None

\* A claim names an account from the moment it is ready, and that account is bound.
RowOK(row) ==
  /\ row.status = "pending" <=> row.account = None
  /\ row.account # None => row.account \in Start /\ Bound(row.account)
RowInv ==
  /\ \A n \in Nonce : claims[n] # None => RowOK(claims[n])
  /\ \A c \in Claim : job[c].row # None => RowOK(job[c].row) /\ job[c].row.account # None

\* An account is bound to one claim only, and one request at most has consumed it.
OwnerInv ==
  /\ \A n, m \in Nonce : claims[n] # None /\ claims[m] # None /\ claims[n].account # None
       /\ claims[n].account = claims[m].account => n = m
  /\ \A n \in Nonce, c \in Claim : HasStatus(n, "ready") /\ job[c].row # None
       => claims[n].account # job[c].row.account
  /\ \A c, d \in Claim : job[c].row # None /\ job[d].row # None
       /\ job[c].row.account = job[d].row.account => c = d

\* The secret of an account whose credential was handed out is that credential, or
\* an administrator's.
SecretInv ==
  \A c \in Claim : pc[c] = "done" =>
    accounts[job[c].row.account].secret \in {c} \cup Admin

\* The credential of s has been handed out or lost, or is about to be.
Spent(s) == outcome[s] # None \/ \E c \in Claim : pc[c] = "secret" /\ job[c].row.by = s

\* A start inserts one row at most, and once its credential is spent no row of it
\* can be consumed again.
OnceInv ==
  /\ \A n \in Nonce : claims[n] # None => pc[claims[n].by] \notin {"idle", "claim"}
  /\ \A n, m \in Nonce : claims[n] # None /\ claims[m] # None /\ claims[n].by = claims[m].by => n = m
  /\ \A s \in Start : Spent(s) =>
       /\ pc[s] \notin {"idle", "claim"}
       /\ \A n \in Nonce : claims[n] # None /\ claims[n].by = s => claims[n].status = "consumed"
  /\ HandedOnce

Inv == TypeOK /\ Locals /\ LicenseInv /\ AccountInv /\ RowInv /\ OwnerInv /\ SecretInv /\ OnceInv

----------------------------------------------------------------------------
(* Sets, rows and locals.                                                  *)

LEMMA Kinds ==
  /\ Start \subseteq Request /\ Return \subseteq Request /\ Claim \subseteq Request /\ Admin \subseteq Request
  /\ Start \subseteq Account /\ Admin \subseteq Account /\ Start \subseteq Code /\ Return \subseteq Code
  /\ Claim \subseteq Secret /\ Admin \subseteq Secret
  /\ \A r \in Start : r \notin Return /\ r \notin Claim /\ r \notin Admin
  /\ \A r \in Return : r \notin Start /\ r \notin Claim /\ r \notin Admin
  /\ \A r \in Claim : r \notin Start /\ r \notin Return /\ r \notin Admin
  /\ \A r \in Admin : r \notin Start /\ r \notin Return /\ r \notin Claim
  /\ None \notin Start /\ None \notin Claim /\ None \notin Nonce /\ None \notin Account /\ None # "lost"
BY CheckoutAssumption DEF Request, Account, Code, Secret

\* No row, account or job is None.
LEMMA RowsAreRows ==
  /\ \A row \in ClaimRow : row.by \in Start /\ row.account \in Account \cup {None}
                             /\ row.status \in {"pending", "ready", "consumed"} /\ row.expired \in BOOLEAN
                             /\ row.session \in Start \cup {None} /\ row.code \in Code \cup {None}
  /\ \A b \in Start, s \in Start \cup {None}, c \in Code \cup {None}, a \in Account \cup {None},
        st \in {"pending", "ready", "consumed"}, e \in BOOLEAN :
        [by |-> b, session |-> s, code |-> c, account |-> a, status |-> st, expired |-> e] \in ClaimRow
BY DEF ClaimRow

\* The store's writes to a claim, field by field.
SetReady(row, a, s) == [row EXCEPT !.account = a, !.status = "ready",
                                   !.session = IF s = None THEN @ ELSE s]

LEMMA SetReadyRow ==
  ASSUME NEW row \in ClaimRow, NEW a \in Start, NEW s \in Start \cup {None}
  PROVE  SetReady(row, a, s) =
           [by |-> row.by, session |-> IF s = None THEN row.session ELSE s, code |-> row.code,
            account |-> a, status |-> "ready", expired |-> row.expired]
<1>1. [row EXCEPT !.account = a] = [by |-> row.by, session |-> row.session, code |-> row.code,
            account |-> a, status |-> row.status, expired |-> row.expired]
  BY DEF ClaimRow
<1>2. [[by |-> row.by, session |-> row.session, code |-> row.code,
            account |-> a, status |-> row.status, expired |-> row.expired] EXCEPT !.status = "ready"] =
      [by |-> row.by, session |-> row.session, code |-> row.code,
            account |-> a, status |-> "ready", expired |-> row.expired]
  OBVIOUS
<1>3. ASSUME NEW v
      PROVE  [[by |-> row.by, session |-> row.session, code |-> row.code,
            account |-> a, status |-> "ready", expired |-> row.expired] EXCEPT !.session = v] =
      [by |-> row.by, session |-> v, code |-> row.code,
            account |-> a, status |-> "ready", expired |-> row.expired]
  OBVIOUS
<1>4. SetReady(row, a, s) = [[[row EXCEPT !.account = a] EXCEPT !.status = "ready"]
                               EXCEPT !.session = IF s = None THEN row.session ELSE s]
  <2>1. [[row EXCEPT !.account = a] EXCEPT !.status = "ready"].session = row.session
    BY <1>1, <1>2
  <2>2. SetReady(row, a, s) = [[[row EXCEPT !.account = a] EXCEPT !.status = "ready"]
            EXCEPT !.session = IF s = None THEN [[row EXCEPT !.account = a] EXCEPT !.status = "ready"].session ELSE s]
    BY Zenon DEF SetReady
  <2> QED BY <2>1, <2>2, Zenon
<1> QED BY <1>1, <1>2, <1>3, <1>4, Zenon

\* Row n becomes row.
Writes(n, row) == claims' = [claims EXCEPT ![n] = row]

LEMMA InsertClaim ==
  ASSUME TypeOK, NEW n \in Nonce, NEW s \in Start, NEW session \in Start \cup {None},
         CreateCheckoutClaim(n, s, session)
  PROVE  \E row \in ClaimRow : /\ claims[n] = None /\ Writes(n, row)
                               /\ row.by = s /\ row.account = None /\ row.status = "pending"
<1> DEFINE row == [by |-> s, session |-> session, code |-> None, account |-> None,
                   status |-> "pending", expired |-> FALSE]
<1>1. row \in ClaimRow
  BY RowsAreRows, Zenon
<1>2. row.by = s /\ row.account = None /\ row.status = "pending"
  OBVIOUS
<1>3. claims[n] = None /\ Writes(n, row)
  BY DEF CreateCheckoutClaim, Writes
<1> QED BY <1>1, <1>2, <1>3

LEMMA ReadyClaim ==
  ASSUME TypeOK, NEW n \in Nonce, NEW a \in Start, NEW session \in Start \cup {None},
         MarkCheckoutClaimReady(n, a, session)
  PROVE  \/ claims' = claims
         \/ /\ HasStatus(n, "pending")
            /\ \E row \in ClaimRow : /\ Writes(n, row) /\ row.by = claims[n].by
                                     /\ row.account = a /\ row.status = "ready"
<1>1. CASE ~HasStatus(n, "pending")
  BY <1>1, Zenon DEF MarkCheckoutClaimReady
<1>2. CASE HasStatus(n, "pending")
  <2>1. claims \in [Nonce -> ClaimRow \cup {None}] /\ claims[n] \in ClaimRow
    BY <1>2 DEF TypeOK, HasStatus
  <2>2. claims' = [claims EXCEPT ![n] = SetReady(claims[n], a, session)]
    BY <1>2, <2>1, Zenon DEF MarkCheckoutClaimReady, SetReady
  <2>3. PICK row : row = SetReady(claims[n], a, session)
    OBVIOUS
  <2>4. row = [by |-> claims[n].by, session |-> IF session = None THEN claims[n].session ELSE session,
               code |-> claims[n].code, account |-> a, status |-> "ready", expired |-> claims[n].expired]
    BY <2>1, <2>3, SetReadyRow, Zenon
  <2>5. row.by = claims[n].by /\ row.account = a /\ row.status = "ready"
    BY <2>4
  <2>6. row \in ClaimRow
    <3>1. a \in Account \cup {None} /\ "ready" \in {"pending", "ready", "consumed"}
      BY Kinds
    <3>2. (IF session = None THEN claims[n].session ELSE session) \in Start \cup {None}
      BY <2>1, RowsAreRows
    <3> QED BY <2>1, <2>4, <3>1, <3>2, RowsAreRows, Zenon
  <2> QED BY <1>2, <2>2, <2>3, <2>5, <2>6, Zenon DEF Writes
<1> QED BY <1>1, <1>2

LEMMA SetField ==
  ASSUME NEW row \in ClaimRow, NEW v
  PROVE  /\ [row EXCEPT !.code = v] =
              [by |-> row.by, session |-> row.session, code |-> v, account |-> row.account,
               status |-> row.status, expired |-> row.expired]
         /\ [row EXCEPT !.expired = v] =
              [by |-> row.by, session |-> row.session, code |-> row.code, account |-> row.account,
               status |-> row.status, expired |-> v]
BY DEF ClaimRow

\* The code and the expiry of a claim leave the rest of it alone.
LEMMA CodeClaim ==
  ASSUME TypeOK, NEW n \in Nonce, NEW code \in Code, SetCheckoutClaimCode(n, code)
  PROVE  /\ claims[n] # None
         /\ \E row \in ClaimRow : /\ Writes(n, row) /\ row.by = claims[n].by
                                  /\ row.account = claims[n].account /\ row.status = claims[n].status
<1>1. claims \in [Nonce -> ClaimRow \cup {None}] /\ claims[n] # None /\ claims[n] \in ClaimRow
  BY DEF TypeOK, SetCheckoutClaimCode, HasStatus
<1> DEFINE row == [by |-> claims[n].by, session |-> claims[n].session, code |-> code,
                   account |-> claims[n].account, status |-> claims[n].status, expired |-> claims[n].expired]
<1>2. [claims[n] EXCEPT !.code = code] = row
  BY <1>1, SetField, Zenon
<1>3. row \in ClaimRow
  BY <1>1, RowsAreRows
<1>4. claims' = [claims EXCEPT ![n] = row]
  BY <1>1, <1>2, Zenon DEF SetCheckoutClaimCode
<1> QED BY <1>1, <1>3, <1>4, Zenon DEF Writes

LEMMA ExpireClaim ==
  ASSUME TypeOK, NEW n \in Nonce, Expire(n)
  PROVE  /\ claims[n] # None
         /\ \E row \in ClaimRow : /\ Writes(n, row) /\ row.by = claims[n].by
                                  /\ row.account = claims[n].account /\ row.status = claims[n].status
<1>1. claims \in [Nonce -> ClaimRow \cup {None}] /\ claims[n] # None /\ claims[n] \in ClaimRow
  BY DEF TypeOK, Expire
<1> DEFINE row == [by |-> claims[n].by, session |-> claims[n].session, code |-> claims[n].code,
                   account |-> claims[n].account, status |-> claims[n].status, expired |-> TRUE]
<1>2. [claims[n] EXCEPT !.expired = TRUE] = row
  BY <1>1, SetField, Zenon
<1>3. row \in ClaimRow
  BY <1>1, RowsAreRows, Zenon
<1>4. claims' = [claims EXCEPT ![n] = row]
  BY <1>1, <1>2, Zenon DEF Expire
<1> QED BY <1>1, <1>3, <1>4, Zenon DEF Writes

LEMMA ConsumeRow ==
  ASSUME TypeOK, NEW n \in Nonce, ConsumeCheckoutClaim(n)
  PROVE  /\ HasStatus(n, "ready")
         /\ \E row \in ClaimRow : /\ Writes(n, row) /\ row.by = claims[n].by
                                  /\ row.account = claims[n].account /\ row.status = "consumed"
<1>1. claims \in [Nonce -> ClaimRow \cup {None}] /\ claims[n] # None /\ claims[n] \in ClaimRow
  BY DEF TypeOK, ConsumeCheckoutClaim, HasStatus
<1> DEFINE row == [by |-> claims[n].by, session |-> claims[n].session, code |-> claims[n].code,
                   account |-> claims[n].account, status |-> "consumed", expired |-> claims[n].expired]
<1>2. [claims[n] EXCEPT !.status = "consumed"] = row /\ row \in ClaimRow
  BY <1>1, RowsAreRows DEF ClaimRow
<1>3. claims' = [claims EXCEPT ![n] = row]
  BY <1>1, <1>2, Zenon DEF ConsumeCheckoutClaim
<1> QED BY <1>1, <1>2, <1>3, Zenon DEF Writes, ConsumeCheckoutClaim

\* A written table is a table.
LEMMA WritesType ==
  ASSUME TypeOK, NEW n \in Nonce, NEW row \in ClaimRow \cup {None}, Writes(n, row)
  PROVE  /\ claims' \in [Nonce -> ClaimRow \cup {None}]
         /\ claims'[n] = row /\ \A m \in Nonce : m # n => claims'[m] = claims[m]
BY DEF TypeOK, Writes

\* Storing an account keeps what is already known of it.
LEMMA Upsert ==
  ASSUME TypeOK, NEW a \in Account, NEW cust \in BOOLEAN, NEW sec \in Secret \cup {None},
         UpsertAccount(a, [customer |-> cust, secret |-> sec])
  PROVE  \E new \in AccountRow :
           /\ accounts' = [accounts EXCEPT ![a] = new]
           /\ cust \/ (accounts[a] # None /\ accounts[a].customer) => new.customer
           /\ sec # None => new.secret = sec
           /\ sec = None /\ accounts[a] # None => new.secret = accounts[a].secret
<1>1. PICK old \in AccountRow : old = IF accounts[a] = None THEN NoAccount ELSE accounts[a]
  <2>1. NoAccount \in AccountRow
    BY DEF NoAccount, AccountRow
  <2> QED BY <2>1 DEF TypeOK
<1> DEFINE new == [customer |-> old.customer \/ cust, secret |-> IF sec = None THEN old.secret ELSE sec]
<1>2. accounts' = [accounts EXCEPT ![a] = new]
  BY <1>1, Zenon DEF UpsertAccount
<1>3. old.customer \in BOOLEAN /\ old.secret \in Secret \cup {None}
  BY DEF AccountRow
<1>4. (old.customer \/ cust) \in BOOLEAN
  BY <1>3
<1>5. (IF sec = None THEN old.secret ELSE sec) \in Secret \cup {None}
  BY <1>3
<1>6. new \in AccountRow
  BY <1>4, <1>5, Zenon DEF AccountRow
<1>7. accounts[a] # None => old = accounts[a]
  BY <1>1
<1>8. new.customer = (old.customer \/ cust) /\ new.secret = IF sec = None THEN old.secret ELSE sec
  OBVIOUS
<1>9. (cust \/ (accounts[a] # None /\ accounts[a].customer)) => new.customer
  BY <1>7, <1>8, Zenon
<1>10. /\ sec # None => new.secret = sec
       /\ sec = None /\ accounts[a] # None => new.secret = accounts[a].secret
  BY <1>7, <1>8
<1> HIDE DEF new
<1> WITNESS new \in AccountRow
<1> QED BY <1>2, <1>9, <1>10, Zenon

LEMMA AccountFields ==
  /\ NoAccount = [customer |-> FALSE, secret |-> None]
  /\ [NoAccount EXCEPT !.customer = TRUE] = [customer |-> TRUE, secret |-> None]
  /\ \A c : [NoAccount EXCEPT !.secret = c] = [customer |-> FALSE, secret |-> c]
<1>1. NoAccount = [customer |-> FALSE, secret |-> None]
  BY DEF NoAccount
<1>2. NoAccount \in AccountRow /\ NoAccount.secret = None
  BY DEF NoAccount, AccountRow
<1>3. NoAccount.customer = FALSE
  BY <1>1, Zenon
<1>4. ASSUME NEW row \in AccountRow, NEW v
      PROVE  /\ [row EXCEPT !.customer = v] = [customer |-> v, secret |-> row.secret]
             /\ [row EXCEPT !.secret = v] = [customer |-> row.customer, secret |-> v]
  BY DEF AccountRow
<1>5. [NoAccount EXCEPT !.customer = TRUE] = [customer |-> TRUE, secret |-> None]
  BY <1>2, <1>4, Zenon
<1>6. ASSUME NEW c
      PROVE  [NoAccount EXCEPT !.secret = c] = [customer |-> FALSE, secret |-> c]
  BY <1>2, <1>3, <1>4, Zenon
<1> QED BY <1>1, <1>5, <1>6, Zenon

JobRow == [nonce : Nonce \cup Account \cup {None}, row : ClaimRow \cup {None}]

LEMMA SetNonce ==
  ASSUME TypeOK, NEW r \in Request, NEW v \in Nonce \cup Account, job' = [job EXCEPT ![r].nonce = v]
  PROVE  /\ job' \in [Request -> JobRow]
         /\ job'[r].nonce = v /\ job'[r].row = job[r].row
         /\ \A q \in Request : q # r => job'[q] = job[q]
<1>1. job \in [Request -> JobRow] /\ job[r] \in JobRow
  BY DEF TypeOK, JobRow
<1>2. job' = [job EXCEPT ![r] = [job[r] EXCEPT !.nonce = v]]
  BY <1>1, Zenon
<1>3. \A j \in JobRow : [j EXCEPT !.nonce = v] = [nonce |-> v, row |-> j.row] /\ j.row \in ClaimRow \cup {None}
  BY DEF JobRow
<1>4. job' = [job EXCEPT ![r] = [nonce |-> v, row |-> job[r].row]] /\ job[r].row \in ClaimRow \cup {None}
  BY <1>1, <1>2, <1>3, Zenon
<1>5. [nonce |-> v, row |-> job[r].row] \in JobRow
  BY <1>4 DEF JobRow
<1> QED BY <1>1, <1>4, <1>5, Zenon

LEMMA SetJob ==
  ASSUME TypeOK, NEW r \in Request, NEW row \in ClaimRow \cup {None},
         job' = [job EXCEPT ![r] = [nonce |-> None, row |-> row]]
  PROVE  /\ job' \in [Request -> JobRow]
         /\ job'[r].row = row
         /\ \A q \in Request : q # r => job'[q] = job[q]
<1>1. job \in [Request -> JobRow]
  BY DEF TypeOK, JobRow
<1>2. [nonce |-> None, row |-> row] \in JobRow
  BY DEF JobRow
<1> QED BY <1>1, <1>2

Pcs == {"idle", "claim", "bind", "code", "consume", "secret", "list", "create", "done"}

LEMMA SetPc ==
  ASSUME TypeOK, NEW r \in Request,
         NEW to \in Pcs, Goto(r, to)
  PROVE  /\ pc' \in [Request -> Pcs]
         /\ pc'[r] = to /\ \A q \in Request : q # r => pc'[q] = pc[q]
BY DEF TypeOK, Goto, Pcs

----------------------------------------------------------------------------
(* Types and locals: every action.                                         *)

\* TypeOK without the bound on licenses, which is an invariant of its own.
BaseTypeOK ==
  /\ billing \in BOOLEAN
  /\ claims \in [Nonce -> ClaimRow \cup {None}]
  /\ accounts \in [Account -> AccountRow \cup {None}]
  /\ licenses \in [Account -> Nat]
  /\ sold \in [Start -> {"no", "paid", "applied"}]
  /\ codes \subseteq Code
  /\ pc \in [Request -> Pcs]
  /\ job \in [Request -> JobRow]
  /\ outcome \in [Start -> Claim \cup {None, "lost"}]
  /\ faults \in 0..MaxFaults

LEMMA BaseType == TypeOK => BaseTypeOK
<1> SUFFICES ASSUME TypeOK PROVE BaseTypeOK
  OBVIOUS
<1>1. 0..(1 + Cardinality(Admin)) \subseteq Nat
  OBVIOUS
<1>2. licenses \in [Account -> Nat]
  BY <1>1 DEF TypeOK
<1> QED BY <1>2, Zenon DEF TypeOK, BaseTypeOK, Pcs, JobRow

Own(r) ==
  /\ r \in Start => StartLocals(r)
  /\ r \in Return => ReturnLocals(r)
  /\ r \in Claim => ClaimLocals(r)
  /\ r \in Admin => AdminLocals(r)

\* Nothing but request r moves.
Frame(r) ==
  /\ billing' = billing
  /\ \A q \in Request : q # r => pc'[q] = pc[q] /\ job'[q] = job[q]
  /\ \A q \in Start : q # r => sold'[q] = sold[q]

StepOK(r) == BaseTypeOK' /\ Frame(r) /\ Own(r)'

LEMMA OthersKeep ==
  ASSUME Locals, NEW r \in Request, StepOK(r)
  PROVE  BaseTypeOK' /\ Locals'
<1>1. ASSUME NEW s \in Start PROVE StartLocals(s)'
  <2>1. CASE s = r
    BY <2>1, Zenon DEF StepOK, Own
  <2>2. CASE s # r
    BY <2>2, Kinds DEF StepOK, Frame, Locals, StartLocals
  <2> QED BY <2>1, <2>2
<1>2. ASSUME NEW s \in Return PROVE ReturnLocals(s)'
  <2>1. CASE s = r
    BY <2>1, Zenon DEF StepOK, Own
  <2>2. CASE s # r
    BY <2>2, Kinds DEF StepOK, Frame, Locals, ReturnLocals
  <2> QED BY <2>1, <2>2
<1>3. ASSUME NEW s \in Claim PROVE ClaimLocals(s)'
  <2>1. CASE s = r
    BY <2>1, Zenon DEF StepOK, Own
  <2>2. CASE s # r
    BY <2>2, Kinds DEF StepOK, Frame, Locals, ClaimLocals
  <2> QED BY <2>1, <2>2
<1>4. ASSUME NEW s \in Admin PROVE AdminLocals(s)'
  <2>1. CASE s = r
    BY <2>1, Zenon DEF StepOK, Own
  <2>2. CASE s # r
    BY <2>2, Kinds DEF StepOK, Frame, Locals, AdminLocals
  <2> QED BY <2>1, <2>2
<1> QED BY <1>1, <1>2, <1>3, <1>4 DEF Locals, StepOK

\* A request's own locals are those of its kind.
LEMMA OwnByKind ==
  ASSUME NEW r
  PROVE  /\ r \in Start /\ StartLocals(r)' => Own(r)'
         /\ r \in Return /\ ReturnLocals(r)' => Own(r)'
         /\ r \in Claim /\ ClaimLocals(r)' => Own(r)'
         /\ r \in Admin /\ AdminLocals(r)' => Own(r)'
BY Kinds, Zenon DEF Own

LEMMA handleStartCheckoutStep ==
  ASSUME TypeOK, Locals, NEW s \in Start, NEW n \in Nonce, handleStartCheckout(s, n)
  PROVE  StepOK(s)
<1>1. BaseTypeOK /\ s \in Request
  BY BaseType, Kinds
<1>2. claims' \in [Nonce -> ClaimRow \cup {None}]
  BY InsertClaim, WritesType, Zenon DEF handleStartCheckout
<1>3. /\ job' \in [Request -> JobRow]
      /\ job'[s].nonce = n /\ \A q \in Request : q # s => job'[q] = job[q]
  BY <1>1, SetNonce, Zenon DEF handleStartCheckout
<1>4. pc' \in [Request -> Pcs] /\ pc'[s] = "done" /\ \A q \in Request : q # s => pc'[q] = pc[q]
  BY <1>1, SetPc, Zenon DEF handleStartCheckout, Move, Pcs
<1>5. /\ UNCHANGED <<billing, accounts, licenses, sold, codes, outcome, faults>> /\ billing /\ pc[s] = "idle"
  BY Zenon DEF handleStartCheckout, history, Move
<1>6. BaseTypeOK' /\ Frame(s)
  BY <1>1, <1>2, <1>3, <1>4, <1>5, Zenon DEF BaseTypeOK, Frame
<1>7. StartLocals(s)'
  BY <1>3, <1>4, <1>5, Zenon DEF StartLocals
<1> QED BY <1>6, <1>7, OwnByKind, Zenon DEF StepOK

LEMMA PayStep ==
  ASSUME TypeOK, Locals, NEW s \in Start, Pay(s)
  PROVE  StepOK(s)
<1>1. BaseTypeOK /\ s \in Request /\ StartLocals(s)
  BY BaseType, Kinds DEF Locals
<1>2. UNCHANGED <<billing, claims, accounts, licenses, codes, pc, job, outcome, faults>> /\ billing /\ pc[s] = "done"
  BY Zenon DEF Pay, requests, history
<1>3. sold' \in [Start -> {"no", "paid", "applied"}] /\ \A q \in Start : q # s => sold'[q] = sold[q]
  <2>1. sold \in [Start -> {"no", "paid", "applied"}] /\ sold' = [sold EXCEPT ![s] = "paid"]
    BY <1>1, Zenon DEF BaseTypeOK, Pay
  <2> QED BY <2>1
<1>4. BaseTypeOK' /\ Frame(s)
  BY <1>1, <1>2, <1>3, Zenon DEF BaseTypeOK, Frame
<1>5. StartLocals(s)'
  BY <1>1, <1>2, Zenon DEF StartLocals
<1> QED BY <1>4, <1>5, OwnByKind, Zenon DEF StepOK

LEMMA LinkPurchaseStep ==
  ASSUME TypeOK, Locals, NEW s \in Start, LinkPurchase(s)
  PROVE  StepOK(s)
<1>1. BaseTypeOK /\ s \in Request /\ s \in Account /\ StartLocals(s)
  BY BaseType, Kinds DEF Locals
<1>2. UNCHANGED <<billing, claims, sold, codes, pc, job, outcome, faults>>
  BY Zenon DEF LinkPurchase, requests, history
<1>3. PICK new \in AccountRow : accounts' = [accounts EXCEPT ![s] = new]
  <2>1. UpsertAccount(s, [customer |-> TRUE, secret |-> None])
    BY AccountFields, Zenon DEF LinkPurchase
  <2>2. TRUE \in BOOLEAN /\ None \in Secret \cup {None}
    OBVIOUS
  <2> QED BY <1>1, <2>1, <2>2, Upsert, Zenon
<1>4. accounts' \in [Account -> AccountRow \cup {None}]
  BY <1>1, <1>3 DEF BaseTypeOK
<1>5. licenses' \in [Account -> Nat]
  <2>1. licenses \in [Account -> Nat] /\ licenses' = [licenses EXCEPT ![s] = 1]
    BY <1>1, Zenon DEF BaseTypeOK, LinkPurchase
  <2> QED BY <2>1, Zenon
<1>6. BaseTypeOK' /\ Frame(s)
  BY <1>1, <1>2, <1>4, <1>5, Zenon DEF BaseTypeOK, Frame
<1>7. StartLocals(s)'
  BY <1>1, <1>2, Zenon DEF StartLocals
<1> QED BY <1>6, <1>7, OwnByKind, Zenon DEF StepOK

LEMMA BindPurchaseStep ==
  ASSUME TypeOK, Locals, NEW s \in Start, BindPurchase(s)
  PROVE  StepOK(s)
<1>1. BaseTypeOK /\ s \in Request /\ StartLocals(s)
  BY BaseType, Kinds DEF Locals
<1>2. UNCHANGED <<billing, accounts, licenses, codes, pc, job, outcome, faults>> /\ sold[s] = "paid"
  BY Zenon DEF BindPurchase, requests, history
<1>3. job[s].nonce \in Nonce /\ billing /\ pc[s] = "done"
  BY <1>1, <1>2 DEF StartLocals
<1>4. claims' \in [Nonce -> ClaimRow \cup {None}]
  <2>1. PICK n \in Nonce : n = job[s].nonce
    BY <1>3
  <2>2. MarkCheckoutClaimReady(n, s, s)
    BY <2>1 DEF BindPurchase
  <2>3. claims' = claims \/ \E row \in ClaimRow : Writes(n, row)
    BY <2>2, ReadyClaim, Zenon
  <2> QED BY <2>3, WritesType, <1>1, Zenon DEF BaseTypeOK
<1>5. sold' \in [Start -> {"no", "paid", "applied"}] /\ \A q \in Start : q # s => sold'[q] = sold[q]
  BY <1>1 DEF BaseTypeOK, BindPurchase
<1>6. BaseTypeOK' /\ Frame(s)
  BY <1>1, <1>2, <1>4, <1>5, Zenon DEF BaseTypeOK, Frame
<1>7. StartLocals(s)'
  BY <1>1, <1>2, <1>3, Zenon DEF StartLocals
<1> QED BY <1>6, <1>7, OwnByKind, Zenon DEF StepOK

LEMMA ProvisionOpenStep ==
  ASSUME TypeOK, Locals, NEW s \in Start, NEW n \in Nonce, ProvisionOpen(s, n)
  PROVE  StepOK(s)
<1>1. BaseTypeOK /\ s \in Request /\ s \in Account /\ StartLocals(s)
  BY BaseType, Kinds DEF Locals
<1>2. UNCHANGED <<billing, claims, sold, codes, outcome, faults>> /\ ~billing /\ pc[s] = "idle"
  BY Zenon DEF ProvisionOpen, history, Move
<1>3. PICK new \in AccountRow : accounts' = [accounts EXCEPT ![s] = new]
  BY <1>1, Upsert, AccountFields, Zenon DEF ProvisionOpen
<1>4. accounts' \in [Account -> AccountRow \cup {None}]
  BY <1>1, <1>3 DEF BaseTypeOK
<1>5. licenses' \in [Account -> Nat]
  <2>1. licenses \in [Account -> Nat] /\ licenses' = [licenses EXCEPT ![s] = 1]
    BY <1>1, Zenon DEF BaseTypeOK, ProvisionOpen
  <2> QED BY <2>1, Zenon
<1>6. /\ job' \in [Request -> JobRow]
      /\ job'[s].nonce = n /\ \A q \in Request : q # s => job'[q] = job[q]
  BY <1>1, SetNonce, Zenon DEF ProvisionOpen
<1>7. pc' \in [Request -> Pcs] /\ pc'[s] = "claim" /\ \A q \in Request : q # s => pc'[q] = pc[q]
  BY <1>1, SetPc, Zenon DEF ProvisionOpen, Move, Pcs
<1>8. BaseTypeOK' /\ Frame(s)
  BY <1>1, <1>2, <1>4, <1>5, <1>6, <1>7, Zenon DEF BaseTypeOK, Frame
<1>9. StartLocals(s)'
  BY <1>1, <1>2, <1>6, <1>7 DEF StartLocals
<1> QED BY <1>8, <1>9, OwnByKind, Zenon DEF StepOK

\* Creating the claim, and making it ready, in an open start.
LEMMA OpenStep ==
  ASSUME TypeOK, Locals, NEW s \in Start, ClaimOpen(s) \/ BindOpen(s)
  PROVE  StepOK(s)
<1>1. BaseTypeOK /\ s \in Request /\ StartLocals(s)
  BY BaseType, Kinds DEF Locals
<1>2. UNCHANGED <<billing, accounts, licenses, sold, codes, job, outcome, faults>> /\ pc[s] \in {"claim", "bind"}
  BY Zenon DEF ClaimOpen, BindOpen, history, Move
<1>3. job[s].nonce \in Nonce /\ ~billing
  BY <1>1, <1>2 DEF StartLocals
<1>4. PICK n \in Nonce : n = job[s].nonce
  BY <1>3
<1>5. claims' = claims \/ \E row \in ClaimRow : Writes(n, row)
  BY <1>4, ReadyClaim, InsertClaim, Zenon DEF ClaimOpen, BindOpen
<1>6. claims' \in [Nonce -> ClaimRow \cup {None}]
  BY <1>5, WritesType, <1>1, Zenon DEF BaseTypeOK
<1>7. PICK to \in {"bind", "code", "done"} : Goto(s, to)
  BY Zenon DEF ClaimOpen, BindOpen, Move
<1>8. pc' \in [Request -> Pcs] /\ pc'[s] = to /\ \A q \in Request : q # s => pc'[q] = pc[q]
  BY <1>1, <1>7, SetPc DEF Pcs
<1>9. BaseTypeOK' /\ Frame(s)
  BY <1>1, <1>2, <1>6, <1>8, Zenon DEF BaseTypeOK, Frame
<1>10. StartLocals(s)'
  BY <1>1, <1>2, <1>3, <1>8 DEF StartLocals
<1> QED BY <1>9, <1>10, OwnByKind, Zenon DEF StepOK

LEMMA BrowserReturnStep ==
  ASSUME TypeOK, Locals, NEW r \in Return, NEW s \in Start, BrowserReturn(r, s)
  PROVE  StepOK(r)
<1>1. BaseTypeOK /\ r \in Request /\ r \notin Start /\ StartLocals(s)
  BY BaseType, Kinds DEF Locals
<1>2. UNCHANGED <<billing, claims, accounts, licenses, sold, codes, outcome, faults>>
      /\ billing /\ pc[s] = "done"
  BY Zenon DEF BrowserReturn, history
<1>3. PICK n \in Nonce : n = job[s].nonce
  BY <1>1, <1>2 DEF StartLocals
<1>4. /\ job' \in [Request -> JobRow]
      /\ job'[r].nonce = n /\ \A q \in Request : q # r => job'[q] = job[q]
  BY <1>1, <1>3, SetNonce, Zenon DEF BrowserReturn
<1>5. pc' \in [Request -> Pcs] /\ pc'[r] = "code" /\ \A q \in Request : q # r => pc'[q] = pc[q]
  BY <1>1, SetPc, Zenon DEF BrowserReturn, Move, Pcs
<1>6. BaseTypeOK' /\ Frame(r)
  BY <1>1, <1>2, <1>4, <1>5, Zenon DEF BaseTypeOK, Frame
<1>7. ReturnLocals(r)'
  BY <1>4, <1>5 DEF ReturnLocals
<1> QED BY <1>6, <1>7, OwnByKind, Zenon DEF StepOK

LEMMA MintCodeStep ==
  ASSUME TypeOK, Locals, NEW r \in Code, MintCode(r)
  PROVE  StepOK(r)
<1>1. BaseTypeOK /\ r \in Request /\ (r \in Start \/ r \in Return)
  BY BaseType, Kinds DEF Code
<1>2. UNCHANGED <<billing, accounts, licenses, sold, job, outcome, faults>> /\ pc[r] = "code"
  BY Zenon DEF MintCode, history, Move
<1>3. PICK n \in Nonce : n = job[r].nonce
  BY <1>1, <1>2 DEF Locals, StartLocals, ReturnLocals
<1>4. claims' = claims \/ \E row \in ClaimRow : Writes(n, row)
  BY <1>3, CodeClaim, Zenon DEF MintCode
<1>5. claims' \in [Nonce -> ClaimRow \cup {None}]
  BY <1>4, WritesType, <1>1, Zenon DEF BaseTypeOK
<1>6. codes' \subseteq Code
  BY <1>1 DEF BaseTypeOK, MintCode
<1>7. pc' \in [Request -> Pcs] /\ pc'[r] = "done" /\ \A q \in Request : q # r => pc'[q] = pc[q]
  BY <1>1, SetPc, Zenon DEF MintCode, Move, Pcs
<1>8. BaseTypeOK' /\ Frame(r)
  BY <1>1, <1>2, <1>5, <1>6, <1>7, Zenon DEF BaseTypeOK, Frame
<1>9. r \in Start => StartLocals(r)'
  BY <1>1, <1>2, <1>7 DEF Locals, StartLocals
<1>10. r \in Return => ReturnLocals(r)'
  BY <1>2, <1>7 DEF ReturnLocals
<1> QED BY <1>1, <1>8, <1>9, <1>10, OwnByKind, Zenon DEF StepOK

LEMMA FindClaimStep ==
  ASSUME TypeOK, Locals, NEW c \in Claim, NEW n \in Nonce, FindClaim(c, n)
  PROVE  StepOK(c)
<1>1. BaseTypeOK /\ c \in Request /\ ClaimLocals(c)
  BY BaseType, Kinds DEF Locals
<1>2. UNCHANGED <<billing, claims, accounts, licenses, sold, codes, outcome, faults>> /\ pc[c] = "idle"
  BY Zenon DEF FindClaim, history, Move
<1>3. /\ job' \in [Request -> JobRow]
      /\ job'[c].nonce = n /\ job'[c].row = job[c].row /\ \A q \in Request : q # c => job'[q] = job[q]
  BY <1>1, SetNonce, Zenon DEF FindClaim
<1>4. pc' \in [Request -> Pcs] /\ pc'[c] = "consume" /\ \A q \in Request : q # c => pc'[q] = pc[q]
  BY <1>1, SetPc, Zenon DEF FindClaim, Move, Pcs
<1>5. BaseTypeOK' /\ Frame(c)
  BY <1>1, <1>2, <1>3, <1>4, Zenon DEF BaseTypeOK, Frame
<1>6. ClaimLocals(c)'
  BY <1>1, <1>2, <1>3, <1>4 DEF ClaimLocals
<1> QED BY <1>5, <1>6, OwnByKind, Zenon DEF StepOK

LEMMA ConsumeClaimStep ==
  ASSUME TypeOK, Locals, NEW c \in Claim, ConsumeClaim(c)
  PROVE  StepOK(c)
<1>1. BaseTypeOK /\ c \in Request /\ ClaimLocals(c)
  BY BaseType, Kinds DEF Locals
<1>2. UNCHANGED <<billing, accounts, licenses, sold, codes, outcome, faults>> /\ pc[c] = "consume"
  BY Zenon DEF ConsumeClaim, history
<1>3. PICK n \in Nonce : n = job[c].nonce
  BY <1>1, <1>2 DEF ClaimLocals
<1>4. CASE ~HasStatus(n, "ready")
  <2>1. claims' = claims /\ Goto(c, "idle") /\ job' = [job EXCEPT ![c] = Idle]
    BY <1>3, <1>4, Zenon DEF ConsumeClaim, ConsumeCheckoutClaim
  <2>2. /\ job' \in [Request -> JobRow]
        /\ job'[c].row = None /\ \A q \in Request : q # c => job'[q] = job[q]
    BY <1>1, <2>1, SetJob, Zenon DEF Idle
  <2>3. pc' \in [Request -> Pcs] /\ pc'[c] = "idle" /\ \A q \in Request : q # c => pc'[q] = pc[q]
    BY <1>1, <2>1, SetPc, Zenon DEF Pcs
  <2>4. BaseTypeOK' /\ Frame(c)
    BY <1>1, <1>2, <2>1, <2>2, <2>3, Zenon DEF BaseTypeOK, Frame
  <2>5. ClaimLocals(c)'
    BY <2>2, <2>3 DEF ClaimLocals
  <2> QED BY <2>4, <2>5, OwnByKind, Zenon DEF StepOK
<1>5. CASE HasStatus(n, "ready")
  <2>1. /\ ConsumeCheckoutClaim(n) /\ Goto(c, "secret")
        /\ job' = [job EXCEPT ![c] = [nonce |-> None, row |-> claims[n]]]
    BY <1>3, <1>5, Zenon DEF ConsumeClaim
  <2>2. claims[n] \in ClaimRow /\ claims[n] # None
    BY <1>1, <1>5 DEF HasStatus, BaseTypeOK
  <2>3. /\ job' \in [Request -> JobRow]
        /\ job'[c].row = claims[n] /\ \A q \in Request : q # c => job'[q] = job[q]
    <3>1. PICK row \in ClaimRow : row = claims[n]
      BY <2>2
    <3> QED BY <1>1, <2>1, <3>1, SetJob, Zenon
  <2>4. pc' \in [Request -> Pcs] /\ pc'[c] = "secret" /\ \A q \in Request : q # c => pc'[q] = pc[q]
    BY <1>1, <2>1, SetPc, Zenon DEF Pcs
  <2>5. claims' \in [Nonce -> ClaimRow \cup {None}]
    BY <2>1, ConsumeRow, WritesType, Zenon
  <2>6. BaseTypeOK' /\ Frame(c)
    BY <1>1, <1>2, <2>3, <2>4, <2>5, Zenon DEF BaseTypeOK, Frame
  <2>7. ClaimLocals(c)'
    BY <2>2, <2>3, <2>4 DEF ClaimLocals
  <2> QED BY <2>6, <2>7, OwnByKind, Zenon DEF StepOK
<1> QED BY <1>4, <1>5

\* The row that a request holds.
LEMMA HeldRow ==
  ASSUME TypeOK, RowInv, NEW c \in Claim, job[c].row # None
  PROVE  /\ job[c].row \in ClaimRow /\ job[c].row.by \in Start /\ job[c].row.account \in Start
         /\ Bound(job[c].row.account)
<1>1. job[c] \in JobRow /\ c \in Request
  BY BaseType, Kinds DEF BaseTypeOK
<1>2. job[c].row \in ClaimRow
  BY <1>1 DEF JobRow
<1>3. job[c].row.by \in Start
  BY <1>2, RowsAreRows
<1> QED BY <1>2, <1>3 DEF RowInv, RowOK

LEMMA HandOutStep ==
  ASSUME TypeOK, Locals, RowInv, NEW c \in Claim, HandOut(c)
  PROVE  StepOK(c)
<1>1. BaseTypeOK /\ c \in Request /\ ClaimLocals(c) /\ c \in Secret
  BY BaseType, Kinds DEF Locals
<1>2. UNCHANGED <<billing, claims, licenses, sold, codes, job, faults>> /\ pc[c] = "secret"
  BY Zenon DEF HandOut, Move
<1>3. job[c].row # None
  BY <1>1, <1>2 DEF ClaimLocals
<1>4. PICK a \in Account, b \in Start : a = job[c].row.account /\ b = job[c].row.by
  BY <1>3, HeldRow, Kinds
<1>5. PICK new \in AccountRow : accounts' = [accounts EXCEPT ![a] = new]
  <2>1. UpsertAccount(a, [customer |-> FALSE, secret |-> c])
    BY <1>4, AccountFields, Zenon DEF HandOut
  <2>2. FALSE \in BOOLEAN /\ c \in Secret \cup {None}
    BY <1>1
  <2> QED BY <2>1, <2>2, Upsert, Zenon
<1>6. accounts' \in [Account -> AccountRow \cup {None}]
  BY <1>1, <1>5 DEF BaseTypeOK
<1>7. outcome' \in [Start -> Claim \cup {None, "lost"}]
  <2>1. outcome' = [outcome EXCEPT ![b] = c] /\ outcome \in [Start -> Claim \cup {None, "lost"}]
    BY <1>1, <1>4, Zenon DEF HandOut, BaseTypeOK
  <2> QED BY <2>1
<1>8. pc' \in [Request -> Pcs] /\ pc'[c] = "done" /\ \A q \in Request : q # c => pc'[q] = pc[q]
  BY <1>1, SetPc, Zenon DEF HandOut, Move, Pcs
<1>9. BaseTypeOK' /\ Frame(c)
  BY <1>1, <1>2, <1>6, <1>7, <1>8, Zenon DEF BaseTypeOK, Frame
<1>10. ClaimLocals(c)'
  BY <1>2, <1>3, <1>8 DEF ClaimLocals
<1> QED BY <1>9, <1>10, OwnByKind, Zenon DEF StepOK

LEMMA AdminSecretStep ==
  ASSUME TypeOK, Locals, NEW a \in Admin, NEW x \in Account, AdminSecret(a, x)
  PROVE  StepOK(a)
<1>1. BaseTypeOK /\ a \in Request /\ a \in Secret
  BY BaseType, Kinds
<1>2. UNCHANGED <<billing, claims, licenses, sold, codes, outcome, faults>>
  BY Zenon DEF AdminSecret, history
<1>3. PICK new \in AccountRow : accounts' = [accounts EXCEPT ![x] = new]
  <2>1. UpsertAccount(x, [customer |-> FALSE, secret |-> a])
    BY AccountFields, Zenon DEF AdminSecret
  <2>2. FALSE \in BOOLEAN /\ a \in Secret \cup {None}
    BY <1>1
  <2> QED BY <2>1, <2>2, Upsert, Zenon
<1>4. accounts' \in [Account -> AccountRow \cup {None}]
  BY <1>1, <1>3 DEF BaseTypeOK
<1>5. /\ job' \in [Request -> JobRow]
      /\ job'[a].nonce = x /\ \A q \in Request : q # a => job'[q] = job[q]
  BY <1>1, SetNonce, Zenon DEF AdminSecret
<1>6. PICK to \in {"done", "list"} : Goto(a, to)
  BY DEF AdminSecret, Move
<1>7. pc' \in [Request -> Pcs] /\ pc'[a] = to /\ \A q \in Request : q # a => pc'[q] = pc[q]
  BY <1>1, <1>6, SetPc DEF Pcs
<1>8. BaseTypeOK' /\ Frame(a)
  BY <1>1, <1>2, <1>4, <1>5, <1>7, Zenon DEF BaseTypeOK, Frame
<1>9. AdminLocals(a)'
  BY <1>5, <1>7 DEF AdminLocals
<1> QED BY <1>8, <1>9, OwnByKind, Zenon DEF StepOK

LEMMA AdminSteps ==
  ASSUME TypeOK, Locals, NEW a \in Admin, AdminStep(a)
  PROVE  StepOK(a)
<1>1. BaseTypeOK /\ a \in Request /\ AdminLocals(a)
  BY BaseType, Kinds DEF Locals
<1>2. UNCHANGED <<billing, claims, accounts, sold, codes, job, outcome, faults>> /\ pc[a] \in {"list", "create"}
  BY Zenon DEF AdminStep, ListLicenses, CreateOpenLicense, history, Move
<1>3. PICK x \in Account : x = job[a].nonce
  BY <1>1, <1>2 DEF AdminLocals
<1>4. licenses' \in [Account -> Nat]
  <2>1. licenses' = licenses \/ licenses' = [licenses EXCEPT ![x] = licenses[x] + 1]
    BY <1>3, Zenon DEF AdminStep, ListLicenses, CreateOpenLicense
  <2> QED BY <1>1, <2>1 DEF BaseTypeOK
<1>5. PICK to \in {"done", "create"} : Goto(a, to)
  BY DEF AdminStep, ListLicenses, CreateOpenLicense, Move
<1>6. pc' \in [Request -> Pcs] /\ pc'[a] = to /\ \A q \in Request : q # a => pc'[q] = pc[q]
  BY <1>1, <1>5, SetPc DEF Pcs
<1>7. BaseTypeOK' /\ Frame(a)
  BY <1>1, <1>2, <1>4, <1>6, Zenon DEF BaseTypeOK, Frame
<1>8. AdminLocals(a)'
  BY <1>2, <1>3, <1>6 DEF AdminLocals
<1> QED BY <1>7, <1>8, OwnByKind, Zenon DEF StepOK

LEMMA DieStep ==
  ASSUME TypeOK, Locals, RowInv, NEW r \in Request, Die(r)
  PROVE  StepOK(r)
<1>1. BaseTypeOK
  BY BaseType
<1>2. UNCHANGED <<billing, claims, accounts, licenses, sold, codes>> /\ pc[r] \notin {"idle", "done"}
  BY Zenon DEF Die
<1>3. /\ job' \in [Request -> JobRow]
      /\ job'[r].row = None /\ \A q \in Request : q # r => job'[q] = job[q]
  BY SetJob, Zenon DEF Die, Idle
<1>4. PICK to \in {"idle", "done"} : Goto(r, to) /\ to = IF r \in Claim THEN "idle" ELSE "done"
  BY DEF Die
<1>5. pc' \in [Request -> Pcs] /\ pc'[r] = to /\ \A q \in Request : q # r => pc'[q] = pc[q]
  BY <1>4, SetPc DEF Pcs
<1>6. faults' \in 0..MaxFaults
  <2>1. faults' = faults + 1 /\ faults < MaxFaults /\ faults \in 0..MaxFaults
    BY <1>1, Zenon DEF Die, BaseTypeOK
  <2> QED BY <2>1, CheckoutAssumption
<1>7. outcome' \in [Start -> Claim \cup {None, "lost"}]
  <2>1. CASE pc[r] = "secret"
    <3>1. r \in Claim
      BY <2>1 DEF Locals, StartLocals, ReturnLocals, AdminLocals, Request
    <3>2. PICK b \in Start : b = job[r].row.by
      BY <2>1, <3>1, HeldRow DEF Locals, ClaimLocals
    <3>3. outcome' = [outcome EXCEPT ![b] = "lost"] /\ outcome \in [Start -> Claim \cup {None, "lost"}]
      BY <1>1, <2>1, <3>2, Zenon DEF Die, BaseTypeOK
    <3> QED BY <3>3
  <2>2. CASE pc[r] # "secret"
    BY <1>1, <2>2, Zenon DEF Die, BaseTypeOK
  <2> QED BY <2>1, <2>2
<1>8. BaseTypeOK' /\ Frame(r)
  BY <1>1, <1>2, <1>3, <1>5, <1>6, <1>7, Zenon DEF BaseTypeOK, Frame
<1>9. r \in Start => StartLocals(r)'
  BY <1>2, <1>4, <1>5, Kinds DEF Locals, StartLocals
<1>10. r \in Return => ReturnLocals(r)'
  BY <1>4, <1>5, Kinds DEF ReturnLocals
<1>11. r \in Claim => ClaimLocals(r)'
  BY <1>3, <1>4, <1>5 DEF ClaimLocals
<1>12. r \in Admin => AdminLocals(r)'
  BY <1>4, <1>5, Kinds DEF AdminLocals
<1> QED BY <1>8, <1>9, <1>10, <1>11, <1>12, Zenon DEF StepOK, Own

\* The clock and the collector only touch the claims.
Sweep == (\E n \in Nonce : Expire(n)) \/ Collect

LEMMA SweepStep ==
  ASSUME TypeOK, Locals, Sweep
  PROVE  BaseTypeOK' /\ Locals'
<1>1. BaseTypeOK
  BY BaseType
<1>2. UNCHANGED <<billing, accounts, licenses, sold, codes, pc, job, outcome, faults>>
  BY Zenon DEF Sweep, Expire, Collect, requests, history
<1>3. claims' \in [Nonce -> ClaimRow \cup {None}]
  <2>1. CASE Collect
    BY <1>1, <2>1 DEF Collect, DeleteExpiredCheckoutClaims, BaseTypeOK
  <2>2. ASSUME NEW n \in Nonce, Expire(n) PROVE claims' \in [Nonce -> ClaimRow \cup {None}]
    BY <2>2, ExpireClaim, WritesType, Zenon
  <2> QED BY <2>1, <2>2 DEF Sweep
<1>4. BaseTypeOK'
  BY <1>1, <1>2, <1>3, Zenon DEF BaseTypeOK
<1> QED BY <1>2, <1>4 DEF Locals, StartLocals, ReturnLocals, ClaimLocals, AdminLocals

LEMMA NextBase ==
  ASSUME TypeOK, Locals, RowInv, Next
  PROVE  BaseTypeOK' /\ Locals'
<1>1. CASE Sweep
  BY <1>1, SweepStep
<1>2. ASSUME NEW s \in Start, NEW n \in Nonce, handleStartCheckout(s, n) \/ ProvisionOpen(s, n)
      PROVE  BaseTypeOK' /\ Locals'
  BY <1>2, handleStartCheckoutStep, ProvisionOpenStep, OthersKeep, Kinds
<1>3. ASSUME NEW s \in Start, Pay(s) \/ Webhook(s) \/ StartStep(s)
      PROVE  BaseTypeOK' /\ Locals'
  <2>1. StepOK(s)
    BY <1>3, PayStep, LinkPurchaseStep, BindPurchaseStep, OpenStep, MintCodeStep, Kinds DEF Webhook, StartStep
  <2> QED BY <2>1, OthersKeep, Kinds
<1>4. ASSUME NEW r \in Return, NEW s \in Start, BrowserReturn(r, s)
      PROVE  BaseTypeOK' /\ Locals'
  BY <1>4, BrowserReturnStep, OthersKeep, Kinds
<1>5. ASSUME NEW r \in Return, MintCode(r)
      PROVE  BaseTypeOK' /\ Locals'
  BY <1>5, MintCodeStep, OthersKeep, Kinds
<1>6. ASSUME NEW c \in Claim, FindClaimByCode(c) \/ Poll(c)
      PROVE  BaseTypeOK' /\ Locals'
  <2>1. StepOK(c)
    BY <1>6, FindClaimStep, ConsumeClaimStep, HandOutStep DEF FindClaimByCode, Poll
  <2> QED BY <2>1, OthersKeep, Kinds
<1>7. ASSUME NEW a \in Admin, NEW x \in Account, AdminSecret(a, x)
      PROVE  BaseTypeOK' /\ Locals'
  BY <1>7, AdminSecretStep, OthersKeep, Kinds
<1>8. ASSUME NEW a \in Admin, AdminStep(a)
      PROVE  BaseTypeOK' /\ Locals'
  BY <1>8, AdminSteps, OthersKeep, Kinds
<1>9. ASSUME NEW r \in Request, Die(r)
      PROVE  BaseTypeOK' /\ Locals'
  BY <1>9, DieStep, OthersKeep
<1> QED BY <1>1, <1>2, <1>3, <1>4, <1>5, <1>6, <1>7, <1>8, <1>9, Zenon DEF Next, Sweep

----------------------------------------------------------------------------
(* How requests move on.                                                   *)

\* A request that is over does not move; a start never goes back.
Onward(r, to) ==
  /\ pc[r] # "done"
  /\ r \in Start => /\ to # "idle" /\ (to = "claim" => pc[r] = "idle") /\ (to = "bind" => pc[r] = "claim")

LEMMA PcStep ==
  ASSUME TypeOK, Next
  PROVE  UNCHANGED pc \/ \E r \in Request, to \in Pcs : Goto(r, to) /\ Onward(r, to)
<1> DEFINE Goal == UNCHANGED pc \/ \E r \in Request, to \in Pcs : Goto(r, to) /\ Onward(r, to)
<1>1. CASE Sweep
  BY <1>1, Zenon DEF Sweep, Expire, Collect, requests
<1>2. ASSUME NEW s \in Start, NEW n \in Nonce, handleStartCheckout(s, n) \/ ProvisionOpen(s, n)
      PROVE  Goal
  BY <1>2, Kinds DEF handleStartCheckout, ProvisionOpen, Move, Onward, Pcs
<1>3. ASSUME NEW s \in Start, Pay(s) \/ Webhook(s) \/ StartStep(s)
      PROVE  Goal
  <2>1. CASE Pay(s) \/ Webhook(s)
    BY <2>1, Zenon DEF Pay, Webhook, LinkPurchase, BindPurchase, requests
  <2>2. CASE StartStep(s)
    BY <2>2, Kinds DEF StartStep, ClaimOpen, BindOpen, MintCode, Move, Onward, Pcs
  <2> QED BY <1>3, <2>1, <2>2
<1>4. ASSUME NEW r \in Return, NEW s \in Start, BrowserReturn(r, s)
      PROVE  Goal
  BY <1>4, Kinds DEF BrowserReturn, Move, Onward, Pcs
<1>5. ASSUME NEW r \in Return, MintCode(r)
      PROVE  Goal
  BY <1>5, Kinds DEF MintCode, Move, Onward, Pcs
<1>6. ASSUME NEW c \in Claim, FindClaimByCode(c) \/ Poll(c)
      PROVE  Goal
  BY <1>6, Kinds DEF FindClaimByCode, Poll, FindClaim, ConsumeClaim, HandOut, Move, Onward, Pcs
<1>7. ASSUME NEW a \in Admin, NEW x \in Account, AdminSecret(a, x)
      PROVE  Goal
  BY <1>7, Kinds DEF AdminSecret, Move, Onward, Pcs
<1>8. ASSUME NEW a \in Admin, AdminStep(a)
      PROVE  Goal
  BY <1>8, Kinds DEF AdminStep, ListLicenses, CreateOpenLicense, Move, Onward, Pcs
<1>9. ASSUME NEW r \in Request, Die(r)
      PROVE  Goal
  BY <1>9, Kinds DEF Die, Onward, Pcs
<1> QED BY <1>1, <1>2, <1>3, <1>4, <1>5, <1>6, <1>7, <1>8, <1>9, Zenon DEF Next, Sweep

LEMMA GoOn ==
  ASSUME TypeOK, Next
  PROVE  /\ \A r \in Request : pc[r] = "done" => pc'[r] = "done"
         /\ \A s \in Start : /\ pc'[s] = "idle" => pc[s] = "idle"
                             /\ pc'[s] = "claim" => pc[s] \in {"idle", "claim"}
                             /\ pc'[s] = "bind" => pc[s] \in {"claim", "bind"}
<1>1. CASE UNCHANGED pc
  BY <1>1
<1>2. ASSUME NEW r \in Request, NEW to \in Pcs, Goto(r, to) /\ Onward(r, to)
      PROVE  /\ \A q \in Request : pc[q] = "done" => pc'[q] = "done"
             /\ \A s \in Start : /\ pc'[s] = "idle" => pc[s] = "idle"
                                 /\ pc'[s] = "claim" => pc[s] \in {"idle", "claim"}
                                 /\ pc'[s] = "bind" => pc[s] \in {"claim", "bind"}
  BY <1>2, SetPc, Kinds DEF Onward
<1> QED BY <1>1, <1>2, PcStep

\* Billing never changes, and what is sold stays sold.
LEMMA SoldStep ==
  ASSUME TypeOK, Next
  PROVE  /\ billing' = billing
         /\ \/ sold' = sold
            \/ \E s \in Start : Pay(s) \/ BindPurchase(s)
BY Zenon DEF Next, handleStartCheckout, ProvisionOpen, Webhook, LinkPurchase, BindPurchase, Pay, StartStep,
  ClaimOpen, BindOpen, MintCode, BrowserReturn, FindClaimByCode, Poll, FindClaim, ConsumeClaim, HandOut,
  AdminSecret, AdminStep, ListLicenses, CreateOpenLicense, Expire, Collect, Die

LEMMA BoundStays ==
  ASSUME TypeOK, Next, NEW s \in Start, Bound(s)
  PROVE  Bound(s)'
<1>1. CASE sold[s] = "applied"
  <2>1. sold'[s] = "applied"
    <3>1. ASSUME NEW q \in Start, Pay(q) \/ BindPurchase(q) PROVE sold'[s] = "applied"
      BY <1>1, <3>1 DEF Pay, BindPurchase, TypeOK
    <3> QED BY <1>1, <3>1, SoldStep
  <2> QED BY <2>1 DEF Bound
<1>2. CASE ~billing /\ pc[s] \notin {"idle", "claim", "bind"}
  BY <1>2, GoOn, SoldStep, Kinds DEF Bound
<1> QED BY <1>1, <1>2 DEF Bound

----------------------------------------------------------------------------
(* Licenses.                                                               *)

LEMMA FinishedStep ==
  ASSUME TypeOK, Next
  PROVE  /\ IsFiniteSet(Finished') /\ Finished \subseteq Finished'
         /\ Cardinality(Finished) \in Nat /\ Cardinality(Finished') \in Nat
         /\ Cardinality(Finished) <= Cardinality(Finished')
         /\ \A a \in Finished' : a \notin Finished => Cardinality(Finished) + 1 <= Cardinality(Finished')
<1>1. IsFiniteSet(Finished) /\ IsFiniteSet(Finished')
  <2>1. Finished \subseteq Admin /\ Finished' \subseteq Admin
    BY DEF Finished
  <2> QED BY <2>1, FS_Subset, CheckoutAssumption
<1>2. Finished \subseteq Finished'
  BY GoOn, Kinds DEF Finished
<1>3. Cardinality(Finished) \in Nat /\ Cardinality(Finished') \in Nat
  BY <1>1, FS_CardinalityType
<1>4. Cardinality(Finished) <= Cardinality(Finished')
  BY <1>1, <1>2, FS_Subset
<1>5. ASSUME NEW a \in Finished', a \notin Finished
      PROVE  Cardinality(Finished) + 1 <= Cardinality(Finished')
  <2>1. Finished \cup {a} \subseteq Finished'
    BY <1>2
  <2>2. Cardinality(Finished \cup {a}) <= Cardinality(Finished')
    BY <1>1, <2>1, FS_Subset
  <2>3. Cardinality(Finished \cup {a}) = Cardinality(Finished) + 1
    BY <1>1, <1>5, FS_AddElement, Zenon
  <2> QED BY <2>2, <2>3
<1> QED BY <1>1, <1>2, <1>3, <1>4, <1>5

LEMMA LicensesStep ==
  ASSUME TypeOK, Next
  PROVE  \/ licenses' = licenses
         \/ \E s \in Start : LinkPurchase(s) \/ \E n \in Nonce : ProvisionOpen(s, n)
         \/ \E a \in Admin : CreateOpenLicense(a)
BY Zenon DEF Next, handleStartCheckout, ProvisionOpen, Webhook, LinkPurchase, BindPurchase, Pay, StartStep,
  ClaimOpen, BindOpen, MintCode, BrowserReturn, FindClaimByCode, Poll, FindClaim, ConsumeClaim, HandOut,
  AdminSecret, AdminStep, ListLicenses, CreateOpenLicense, Expire, Collect, Die

LEMMA NextLicense ==
  ASSUME TypeOK, Locals, LicenseInv, Next
  PROVE  LicenseInv'
<1>1. \A x \in Account : licenses[x] \in Nat
  BY BaseType DEF BaseTypeOK
<1>2. licenses \in [Account -> Nat] /\ \A x \in Account : licenses[x] <= 1 + Cardinality(Finished)
  BY BaseType DEF BaseTypeOK, LicenseInv
<1>3. PICK old \in Nat, new \in Nat : /\ old = Cardinality(Finished) /\ new = Cardinality(Finished') /\ old <= new
                                      /\ \A a \in Finished' : a \notin Finished => old + 1 <= new
  BY FinishedStep
<1>4. SUFFICES \A x \in Account : licenses'[x] <= 1 + new
  BY <1>3 DEF LicenseInv
<1>5. CASE licenses' = licenses
  BY <1>1, <1>2, <1>3, <1>5
<1>6. ASSUME NEW s \in Start, licenses' = [licenses EXCEPT ![s] = 1]
      PROVE  \A x \in Account : licenses'[x] <= 1 + new
  BY <1>1, <1>2, <1>3, <1>6
<1>7. ASSUME NEW a \in Admin, CreateOpenLicense(a)
      PROVE  \A x \in Account : licenses'[x] <= 1 + new
  <2>1. pc[a] = "create" /\ pc'[a] = "done"
    BY <1>7, SetPc, Kinds DEF CreateOpenLicense, Move, Pcs
  <2>2. a \in Finished' /\ a \notin Finished
    BY <2>1 DEF Finished
  <2>3. PICK y : licenses' = [licenses EXCEPT ![y] = licenses[y] + 1]
    BY <1>7, Zenon DEF CreateOpenLicense
  <2> QED BY <1>1, <1>2, <1>3, <2>2, <2>3
<1> QED BY <1>5, <1>6, <1>7, LicensesStep DEF LinkPurchase, ProvisionOpen

LEMMA TypeFromBase ==
  ASSUME BaseTypeOK', LicenseInv'
  PROVE  TypeOK'
<1>1. Cardinality(Finished') \in Nat /\ Cardinality(Admin) \in Nat /\ Cardinality(Finished') <= Cardinality(Admin)
  <2>1. Finished' \subseteq Admin
    BY DEF Finished
  <2> QED BY <2>1, FS_Subset, FS_CardinalityType, CheckoutAssumption
<1>2. licenses' \in [Account -> 0..(1 + Cardinality(Admin))]
  BY <1>1 DEF BaseTypeOK, LicenseInv
<1> QED BY <1>2, Zenon DEF TypeOK, BaseTypeOK, Pcs, JobRow

----------------------------------------------------------------------------
(* Accounts.                                                               *)

LEMMA AccountsStep ==
  ASSUME TypeOK, Next
  PROVE  \/ accounts' = accounts
         \/ \E s \in Start : LinkPurchase(s) \/ \E n \in Nonce : ProvisionOpen(s, n)
         \/ \E c \in Claim : HandOut(c)
         \/ \E a \in Admin, x \in Account : AdminSecret(a, x)
BY Zenon DEF Next, handleStartCheckout, ProvisionOpen, Webhook, LinkPurchase, BindPurchase, Pay, StartStep,
  ClaimOpen, BindOpen, MintCode, BrowserReturn, FindClaimByCode, Poll, FindClaim, ConsumeClaim, HandOut,
  AdminSecret, AdminStep, ListLicenses, CreateOpenLicense, Expire, Collect, Die

\* An account is never forgotten, and never loses its customer or its licenses.
LEMMA AccountKept ==
  ASSUME TypeOK, Locals, RowInv, AccountInv, Next, NEW x \in Account, accounts[x] # None
  PROVE  accounts'[x] # None /\ (accounts[x].customer => accounts'[x].customer)
<1>1. accounts \in [Account -> AccountRow \cup {None}] /\ None \notin AccountRow
  BY RowAssumption DEF TypeOK
<1>2. CASE accounts' = accounts
  BY <1>2
<1>3. ASSUME NEW a \in Account, NEW cust \in BOOLEAN, NEW sec \in Secret \cup {None},
             UpsertAccount(a, [customer |-> cust, secret |-> sec])
      PROVE  accounts'[x] # None /\ (accounts[x].customer => accounts'[x].customer)
  <2>1. PICK new \in AccountRow :
           /\ accounts' = [accounts EXCEPT ![a] = new]
           /\ cust \/ (accounts[a] # None /\ accounts[a].customer) => new.customer
           /\ sec # None => new.secret = sec
           /\ sec = None /\ accounts[a] # None => new.secret = accounts[a].secret
    BY <1>3, Upsert, SMTT(20)
  <2>2. CASE x = a
    <3>1. accounts'[x] = new /\ new # None
      BY <1>1, <2>1, <2>2
    <3> QED BY <2>1, <2>2, <3>1, Zenon
  <2>3. CASE x # a
    <3>1. accounts'[x] = accounts[x]
      BY <1>1, <2>1, <2>3
    <3> QED BY <3>1, Zenon
  <2> QED BY <2>2, <2>3
<1>4. TRUE \in BOOLEAN /\ FALSE \in BOOLEAN /\ None \in Secret \cup {None}
  OBVIOUS
<1>5. ASSUME NEW s \in Start, LinkPurchase(s) \/ \E n \in Nonce : ProvisionOpen(s, n)
      PROVE  accounts'[x] # None /\ (accounts[x].customer => accounts'[x].customer)
  <2>1. s \in Account
    BY Kinds
  <2>2. UpsertAccount(s, [customer |-> TRUE, secret |-> None]) \/ UpsertAccount(s, [customer |-> FALSE, secret |-> None])
    BY <1>5, AccountFields, Zenon DEF LinkPurchase, ProvisionOpen
  <2> QED BY <1>3, <1>4, <2>1, <2>2, Zenon
<1>6. ASSUME NEW c \in Claim, HandOut(c)
      PROVE  accounts'[x] # None /\ (accounts[x].customer => accounts'[x].customer)
  <2>1. job[c].row # None
    BY <1>6 DEF HandOut, Move, Locals, ClaimLocals
  <2>2. PICK a \in Account : a = job[c].row.account
    BY <2>1, HeldRow, Kinds
  <2>3. UpsertAccount(a, [customer |-> FALSE, secret |-> c])
    BY <1>6, <2>2, AccountFields, Zenon DEF HandOut
  <2>4. c \in Secret \cup {None}
    BY Kinds
  <2> QED BY <1>3, <1>4, <2>3, <2>4, Zenon
<1>7. ASSUME NEW a \in Admin, NEW y \in Account, AdminSecret(a, y)
      PROVE  accounts'[x] # None /\ (accounts[x].customer => accounts'[x].customer)
  <2>1. UpsertAccount(y, [customer |-> FALSE, secret |-> a])
    BY <1>7, AccountFields, Zenon DEF AdminSecret
  <2>2. a \in Secret \cup {None}
    BY Kinds
  <2> QED BY <1>3, <1>4, <2>1, <2>2, Zenon
<1> QED BY <1>2, <1>5, <1>6, <1>7, AccountsStep, Zenon

LEMMA LicensesKept ==
  ASSUME TypeOK, Next, NEW x \in Account, licenses[x] > 0
  PROVE  licenses'[x] > 0
<1>1. licenses \in [Account -> Nat]
  BY BaseType DEF BaseTypeOK
<1>2. ASSUME NEW y, licenses' = [licenses EXCEPT ![y] = 1] PROVE licenses'[x] > 0
  BY <1>1, <1>2
<1>3. ASSUME NEW y, licenses' = [licenses EXCEPT ![y] = licenses[y] + 1] PROVE licenses'[x] > 0
  BY <1>1, <1>3
<1>4. (\E y : licenses' = [licenses EXCEPT ![y] = 1] \/ licenses' = [licenses EXCEPT ![y] = licenses[y] + 1])
      \/ licenses' = licenses
  BY LicensesStep, Zenon DEF LinkPurchase, ProvisionOpen, CreateOpenLicense
<1> QED BY <1>2, <1>3, <1>4

\* A started account appears with its license, and with billing on with its customer.
LEMMA AccountAppears ==
  ASSUME TypeOK, Locals, RowInv, AccountInv, Next, NEW s \in Start, accounts[s] = None, accounts'[s] # None
  PROVE  licenses'[s] > 0 /\ (billing => accounts'[s].customer)
<1>1. accounts \in [Account -> AccountRow \cup {None}] /\ s \in Account /\ licenses \in [Account -> Nat]
  BY Kinds, BaseType DEF BaseTypeOK
<1>2. accounts' # accounts
  OBVIOUS
<1>3. ASSUME NEW q \in Start, LinkPurchase(q) PROVE licenses'[s] > 0 /\ (billing => accounts'[s].customer)
  <2>1. PICK new \in AccountRow : accounts' = [accounts EXCEPT ![q] = new] /\ new.customer
    <3>1. UpsertAccount(q, [customer |-> TRUE, secret |-> None])
      BY <1>3, AccountFields, Zenon DEF LinkPurchase
    <3>2. TRUE \in BOOLEAN /\ None \in Secret \cup {None} /\ q \in Account
      BY Kinds
    <3> QED BY <3>1, <3>2, Upsert, Zenon
  <2>2. q = s /\ accounts'[s] = new
    BY <1>1, <2>1
  <2>3. accounts'[s].customer
    BY <2>1, <2>2, Zenon
  <2>4. licenses'[s] = 1
    BY <1>1, <1>3, <2>2 DEF LinkPurchase
  <2> QED BY <2>3, <2>4
<1>4. ASSUME NEW q \in Start, NEW n \in Nonce, ProvisionOpen(q, n)
      PROVE  licenses'[s] > 0 /\ (billing => accounts'[s].customer)
  <2>1. accounts' = [accounts EXCEPT ![q] = accounts'[q]]
    BY <1>1, <1>4, ZenonT(30) DEF ProvisionOpen, UpsertAccount
  <2>2. q = s
    BY <1>1, <2>1
  <2>3. licenses'[s] = 1 /\ ~billing
    BY <1>1, <1>4, <2>2 DEF ProvisionOpen
  <2> QED BY <2>3
<1>5. ASSUME NEW c \in Claim, HandOut(c) PROVE FALSE
  <2>1. job[c].row # None
    BY <1>5 DEF HandOut, Move, Locals, ClaimLocals
  <2>2. PICK a \in Start : a = job[c].row.account /\ Bound(a)
    BY <2>1, HeldRow
  <2>3. accounts[a] # None
    BY <2>2 DEF Bound, AccountInv
  <2>4. accounts' = [accounts EXCEPT ![a] = accounts'[a]]
    BY <1>1, <1>5, <2>2, Zenon DEF HandOut, UpsertAccount
  <2> QED BY <1>1, <2>3, <2>4
<1>6. ASSUME NEW a \in Admin, NEW y \in Account, AdminSecret(a, y) PROVE FALSE
  <2>1. accounts' = [accounts EXCEPT ![y] = accounts'[y]]
    BY <1>1, <1>6 DEF AdminSecret, UpsertAccount
  <2>2. y = s /\ s # a
    BY <1>1, <2>1, Kinds
  <2> QED BY <1>6, <2>2 DEF AdminSecret
<1> QED BY <1>2, <1>3, <1>4, <1>5, <1>6, AccountsStep, Zenon

\* With billing off, the first step of a start is to provision its account.
LEMMA OpensFirst ==
  ASSUME TypeOK, Locals, Next, NEW s \in Start, ~billing, pc[s] = "idle", pc'[s] # "idle"
  PROVE  \E n \in Nonce : ProvisionOpen(s, n)
<1>1. s \in Request /\ pc \in [Request -> Pcs]
  BY Kinds, BaseType DEF BaseTypeOK
<1>2. ASSUME NEW r \in Request, NEW to, Goto(r, to), r # s PROVE FALSE
  BY <1>1, <1>2 DEF Goto
<1>3. \A r \in Request : \A from, to : Move(r, from, to) => r = s /\ from = "idle"
  BY <1>2 DEF Move
<1>4. pc' # pc
  OBVIOUS
<1>5. ~Sweep /\ \A q \in Start : ~Pay(q) /\ ~Webhook(q)
  BY <1>4, Zenon DEF Sweep, Expire, Collect, Pay, Webhook, LinkPurchase, BindPurchase, requests
<1>6. \A q \in Start : ~StartStep(q)
  BY <1>2, Kinds DEF StartStep, ClaimOpen, BindOpen, MintCode, Move
<1>7. \A r \in Return : ~MintCode(r) /\ \A q \in Start : ~BrowserReturn(r, q)
  BY <1>3, Kinds DEF MintCode, BrowserReturn
<1>8. \A c \in Claim : ~FindClaimByCode(c) /\ ~Poll(c)
  BY <1>2, <1>3, Kinds DEF FindClaimByCode, Poll, FindClaim, ConsumeClaim, HandOut
<1>9. \A a \in Admin : ~AdminStep(a) /\ \A x \in Account : ~AdminSecret(a, x)
  BY <1>3, Kinds DEF AdminStep, ListLicenses, CreateOpenLicense, AdminSecret
<1>10. \A r \in Request : ~Die(r)
  BY <1>2 DEF Die
<1>11. \A q \in Start, n \in Nonce : ~handleStartCheckout(q, n)
  BY DEF handleStartCheckout
<1>12. \A q \in Start, n \in Nonce : ProvisionOpen(q, n) => q = s
  BY <1>3, Kinds DEF ProvisionOpen
<1> QED BY <1>5, <1>6, <1>7, <1>8, <1>9, <1>10, <1>11, <1>12, Zenon DEF Next, Sweep

\* What the webhook applies, or an open start has begun with, has an account.
LEMMA NextAccount ==
  ASSUME TypeOK, Locals, RowInv, AccountInv, Next
  PROVE  AccountInv'
<1> SUFFICES ASSUME NEW s \in Start
             PROVE  /\ accounts'[s] # None => licenses'[s] > 0 /\ (billing => accounts'[s].customer)
                    /\ sold'[s] = "applied" \/ (~billing /\ pc'[s] # "idle") => accounts'[s] # None
  BY SoldStep DEF AccountInv
<1>1. s \in Account /\ s \in Request
  BY Kinds
<1>2. ASSUME accounts'[s] # None
      PROVE  licenses'[s] > 0 /\ (billing => accounts'[s].customer)
  <2>1. CASE accounts[s] = None
    BY <1>2, <2>1, AccountAppears
  <2>2. CASE accounts[s] # None
    <3>1. licenses[s] > 0 /\ (billing => accounts[s].customer)
      BY <2>2, Zenon DEF AccountInv
    <3>2. licenses'[s] > 0
      BY <1>1, <3>1, LicensesKept
    <3>3. accounts[s].customer => accounts'[s].customer
      BY <1>1, <2>2, AccountKept, Zenon
    <3> QED BY <3>1, <3>2, <3>3, Zenon
  <2> QED BY <2>1, <2>2
<1>3. CASE accounts[s] # None
  BY <1>1, <1>2, <1>3, AccountKept, Zenon
<1>4. CASE accounts[s] = None
  <2>1. sold[s] # "applied" /\ (~billing => pc[s] = "idle")
    BY <1>4 DEF AccountInv
  <2>2. sold'[s] # "applied"
    <3>1. ASSUME NEW q \in Start, BindPurchase(q) PROVE sold'[s] # "applied"
      <4>1. q # s
        BY <1>4, <3>1 DEF BindPurchase
      <4> QED BY <2>1, <3>1, <4>1 DEF BindPurchase, TypeOK
    <3>2. ASSUME NEW q \in Start, Pay(q) PROVE sold'[s] # "applied"
      BY <2>1, <3>2 DEF Pay, TypeOK
    <3> QED BY <2>1, <3>1, <3>2, SoldStep
  <2>3. ~billing /\ pc'[s] # "idle" => accounts'[s] # None
    <3> SUFFICES ASSUME ~billing, pc'[s] # "idle" PROVE accounts'[s] # None
      OBVIOUS
    <3>1. PICK n \in Nonce : ProvisionOpen(s, n)
      BY <1>1, <2>1, OpensFirst
    <3>2. PICK new \in AccountRow : accounts' = [accounts EXCEPT ![s] = new]
      BY <1>1, <3>1, Upsert, AccountFields, Zenon DEF ProvisionOpen
    <3> QED BY <1>1, <3>2, RowAssumption DEF TypeOK
  <2> QED BY <1>2, <2>2, <2>3, Zenon
<1> QED BY <1>3, <1>4

----------------------------------------------------------------------------
(* What a step does to the claims and to those who hold one.               *)

\* Row n keeps its start, its account and its status.
SameRow(n) ==
  \/ claims'[n] = claims[n]
  \/ /\ claims[n] # None /\ claims'[n] # None /\ claims'[n].by = claims[n].by
     /\ claims'[n].account = claims[n].account /\ claims'[n].status = claims[n].status

\* Nothing happens to the claims but that some expire and are collected.
KeepsRows ==
  \A n \in Nonce : SameRow(n) \/ (claims[n] # None /\ claims[n].expired /\ claims'[n] = None)

OtherRows(n) == \A m \in Nonce : m # n => claims'[m] = claims[m]

Holds(c) == /\ job'[c].row = job[c].row
            /\ pc'[c] = "secret" <=> pc[c] = "secret"
            /\ pc'[c] = "done" <=> pc[c] = "done"
KeepsHolders == \A c \in Claim : Holds(c)

Inserts(n, s) ==
  /\ claims[n] = None /\ claims'[n] # None /\ OtherRows(n)
  /\ claims'[n].by = s /\ claims'[n].account = None /\ claims'[n].status = "pending"
  /\ pc[s] \in {"idle", "claim"} /\ pc'[s] \notin {"idle", "claim"}

Readies(n, s) ==
  /\ HasStatus(n, "pending") /\ claims'[n] # None /\ OtherRows(n)
  /\ claims'[n].by = claims[n].by /\ claims'[n].account = s /\ claims'[n].status = "ready"
  /\ ~Bound(s) /\ Bound(s)'

Consumes(n, c) ==
  /\ HasStatus(n, "ready") /\ claims'[n] # None /\ OtherRows(n)
  /\ claims'[n].by = claims[n].by /\ claims'[n].account = claims[n].account /\ claims'[n].status = "consumed"
  /\ pc[c] = "consume" /\ pc'[c] = "secret" /\ job'[c].row = claims[n]
  /\ \A d \in Claim : d # c => Holds(d)

\* The credential that c was about to hand out is handed out, or lost with c.
Spends(c) ==
  /\ claims' = claims
  /\ pc[c] = "secret"
  /\ \/ job'[c].row = job[c].row /\ pc'[c] = "done" /\ HandOut(c)
     \/ job'[c].row = None /\ pc'[c] = "idle"
  /\ outcome'[job[c].row.by] # None
  /\ \A s \in Start : s # job[c].row.by => outcome'[s] = outcome[s]
  /\ \A d \in Claim : d # c => Holds(d)

Effect ==
  \/ KeepsRows /\ KeepsHolders /\ outcome' = outcome
  \/ KeepsHolders /\ outcome' = outcome /\ \E n \in Nonce, s \in Start : Inserts(n, s) \/ Readies(n, s)
  \/ outcome' = outcome /\ \E n \in Nonce, c \in Claim : Consumes(n, c)
  \/ \E c \in Claim : Spends(c)

LEMMA FrameHolders ==
  ASSUME NEW r, Frame(r)
  PROVE  /\ \A d \in Claim : d # r => Holds(d)
         /\ r \notin Claim => KeepsHolders
BY Kinds DEF Frame, Holds, KeepsHolders

LEMMA NoRowsTouched ==
  ASSUME claims' = claims
  PROVE  KeepsRows
BY DEF KeepsRows, SameRow

\* A row that is written, and the rows that are not.
LEMMA WrittenRow ==
  ASSUME TypeOK, NEW n \in Nonce, NEW row \in ClaimRow, Writes(n, row)
  PROVE  claims'[n] = row /\ claims'[n] # None /\ OtherRows(n)
BY WritesType, RowAssumption DEF OtherRows

LEMMA TouchedRow ==
  ASSUME TypeOK, NEW n \in Nonce, claims[n] # None, NEW row \in ClaimRow, Writes(n, row),
         row.by = claims[n].by, row.account = claims[n].account, row.status = claims[n].status
  PROVE  KeepsRows
BY WrittenRow DEF KeepsRows, SameRow, OtherRows

LEMMA InsertEffect ==
  ASSUME TypeOK, NEW n \in Nonce, NEW s \in Start, NEW session \in Start \cup {None},
         CreateCheckoutClaim(n, s, session), pc[s] \in {"idle", "claim"}, pc'[s] \notin {"idle", "claim"}
  PROVE  Inserts(n, s)
<1>1. PICK row \in ClaimRow : /\ claims[n] = None /\ Writes(n, row)
                              /\ row.by = s /\ row.account = None /\ row.status = "pending"
  BY InsertClaim
<1> QED BY <1>1, WrittenRow DEF Inserts

LEMMA ReadyEffect ==
  ASSUME TypeOK, NEW n \in Nonce, NEW s \in Start, NEW session \in Start \cup {None},
         MarkCheckoutClaimReady(n, s, session), ~Bound(s), Bound(s)'
  PROVE  KeepsRows \/ Readies(n, s)
<1>1. CASE claims' = claims
  BY <1>1, NoRowsTouched
<1>2. CASE HasStatus(n, "pending") /\ \E row \in ClaimRow : /\ Writes(n, row) /\ row.by = claims[n].by
                                                           /\ row.account = s /\ row.status = "ready"
  BY <1>2, WrittenRow DEF Readies
<1> QED BY <1>1, <1>2, ReadyClaim

LEMMA CodeEffect ==
  ASSUME TypeOK, Locals, NEW r \in Code, MintCode(r)
  PROVE  KeepsRows
<1>1. CASE UNCHANGED claims
  BY <1>1, NoRowsTouched
<1>2. CASE SetCheckoutClaimCode(job[r].nonce, r)
  <2>1. PICK n \in Nonce : n = job[r].nonce
    BY DEF MintCode, Move, Code, Locals, StartLocals, ReturnLocals
  <2>2. PICK row \in ClaimRow : /\ claims[n] # None /\ Writes(n, row) /\ row.by = claims[n].by
                               /\ row.account = claims[n].account /\ row.status = claims[n].status
    BY <1>2, <2>1, CodeClaim, Zenon
  <2> QED BY <2>2, TouchedRow, ZenonT(30)
<1> QED BY <1>1, <1>2, Zenon DEF MintCode

\* What the steps of a start do.
LEMMA StartEffect ==
  ASSUME TypeOK, Locals, NEW s \in Start,
         \/ \E n \in Nonce : handleStartCheckout(s, n) \/ ProvisionOpen(s, n)
         \/ Pay(s) \/ Webhook(s) \/ StartStep(s)
  PROVE  Effect
<1>1. s \in Request /\ s \notin Claim /\ s \in Code /\ StartLocals(s)
  BY Kinds DEF Locals
<1>2. StepOK(s) /\ outcome' = outcome
  <2>1. StepOK(s)
    BY <1>1, handleStartCheckoutStep, ProvisionOpenStep, PayStep, LinkPurchaseStep, BindPurchaseStep, OpenStep,
       MintCodeStep, Zenon DEF Webhook, StartStep
  <2>2. outcome' = outcome
    BY Zenon DEF handleStartCheckout, ProvisionOpen, Pay, Webhook, LinkPurchase, BindPurchase, StartStep,
       ClaimOpen, BindOpen, MintCode, history
  <2> QED BY <2>1, <2>2
<1>3. KeepsHolders
  BY <1>1, <1>2, FrameHolders, Zenon DEF StepOK
<1>4. SUFFICES KeepsRows \/ \E n \in Nonce : Inserts(n, s) \/ Readies(n, s)
  BY <1>2, <1>3, Zenon DEF Effect
<1>5. BaseTypeOK /\ pc \in [Request -> Pcs]
  BY BaseType, Zenon DEF BaseTypeOK
<1>6. ASSUME NEW to, Goto(s, to) PROVE pc'[s] = to
  BY <1>1, <1>5, <1>6 DEF Goto
<1>7. ASSUME NEW n \in Nonce, handleStartCheckout(s, n) PROVE Inserts(n, s)
  <2>1. pc[s] = "idle" /\ pc'[s] = "done" /\ CreateCheckoutClaim(n, s, s) /\ s \in Start \cup {None}
    BY <1>6, <1>7, Zenon DEF handleStartCheckout, Move
  <2>2. pc[s] \in {"idle", "claim"} /\ pc'[s] \notin {"idle", "claim"}
    BY <2>1
  <2> QED BY <2>1, <2>2, InsertEffect, Zenon
<1>8. CASE ClaimOpen(s)
  <2>1. CASE UNCHANGED claims
    BY <2>1, NoRowsTouched
  <2>2. CASE CreateCheckoutClaim(job[s].nonce, s, None) /\ Goto(s, "bind")
    <3>1. PICK n \in Nonce : n = job[s].nonce
      BY <1>1, <1>8 DEF ClaimOpen, StartLocals
    <3>2. pc[s] = "claim" /\ pc'[s] = "bind" /\ None \in Start \cup {None}
      BY <1>6, <1>8, <2>2, Zenon DEF ClaimOpen
    <3>3. pc[s] \in {"idle", "claim"} /\ pc'[s] \notin {"idle", "claim"}
      BY <3>2
    <3> QED BY <2>2, <3>1, <3>2, <3>3, InsertEffect, ZenonT(30)
  <2> QED BY <1>8, <2>1, <2>2, Zenon DEF ClaimOpen
<1>9. CASE BindOpen(s)
  <2>1. PICK n \in Nonce : n = job[s].nonce
    BY <1>1, <1>9 DEF BindOpen, Move, StartLocals
  <2>2. pc[s] = "bind" /\ pc'[s] = "code" /\ None \in Start \cup {None}
    BY <1>6, <1>9, Zenon DEF BindOpen, Move
  <2>3. ~billing /\ UNCHANGED <<billing, sold>>
    BY <1>1, <1>9, <2>2, ZenonT(30) DEF StartLocals, BindOpen
  <2>4. ~Bound(s) /\ Bound(s)'
    BY <1>1, <2>2, <2>3 DEF Bound, StartLocals
  <2>5. MarkCheckoutClaimReady(n, s, None)
    BY <1>9, <2>1, Zenon DEF BindOpen
  <2> QED BY <2>2, <2>4, <2>5, ReadyEffect, ZenonT(30)
<1>10. CASE BindPurchase(s)
  <2>1. sold[s] = "paid" /\ UNCHANGED <<billing, pc>> /\ s \in Start \cup {None}
    BY <1>10, Zenon DEF BindPurchase, requests
  <2>2. PICK n \in Nonce : n = job[s].nonce
    BY <1>1, <2>1 DEF StartLocals
  <2>3. sold'[s] = "applied"
    BY <1>5, <1>10 DEF BindPurchase, BaseTypeOK
  <2>4. ~Bound(s) /\ Bound(s)'
    BY <1>1, <2>1, <2>3 DEF Bound, StartLocals
  <2>5. MarkCheckoutClaimReady(n, s, s)
    BY <1>10, <2>2, Zenon DEF BindPurchase
  <2> QED BY <2>1, <2>4, <2>5, ReadyEffect, Zenon
<1>11. CASE MintCode(s)
  BY <1>1, <1>11, CodeEffect
<1>12. CASE Pay(s) \/ LinkPurchase(s) \/ \E n \in Nonce : ProvisionOpen(s, n)
  <2>1. claims' = claims
    BY <1>12, Zenon DEF Pay, LinkPurchase, ProvisionOpen
  <2> QED BY <2>1, NoRowsTouched
<1> QED BY <1>7, <1>8, <1>9, <1>10, <1>11, <1>12, Zenon DEF Webhook, StartStep

\* What the steps of a claim request do, and a request that dies.
LEMMA ClaimEffect ==
  ASSUME TypeOK, Locals, RowInv, NEW c \in Claim, FindClaimByCode(c) \/ Poll(c)
  PROVE  Effect
<1>1. c \in Request /\ ClaimLocals(c) /\ BaseTypeOK /\ pc \in [Request -> Pcs] /\ job \in [Request -> JobRow]
  BY Kinds, BaseType, Zenon DEF Locals, BaseTypeOK
<1>2. ASSUME NEW to, Goto(c, to) PROVE pc'[c] = to
  BY <1>1, <1>2 DEF Goto
<1>3. CASE \E n \in Nonce : FindClaim(c, n)
  <2>1. PICK n \in Nonce : FindClaim(c, n)
    BY <1>3
  <2>2. Frame(c)
    BY <2>1, FindClaimStep, Zenon DEF StepOK
  <2>3. pc[c] = "idle" /\ pc'[c] = "consume" /\ claims' = claims /\ outcome' = outcome
    BY <1>2, <2>1, Zenon DEF FindClaim, Move, history
  <2>4. job'[c].row = job[c].row
    BY <1>1, <2>1, SetNonce DEF FindClaim
  <2>5. Holds(c)
    BY <2>3, <2>4 DEF Holds
  <2>6. KeepsHolders
    BY <2>2, <2>5, FrameHolders, Zenon DEF KeepsHolders
  <2> QED BY <2>3, <2>6, NoRowsTouched, Zenon DEF Effect
<1>4. CASE ConsumeClaim(c)
  <2>1. pc[c] = "consume" /\ outcome' = outcome
    BY <1>4, Zenon DEF ConsumeClaim, history
  <2>2. PICK n \in Nonce : n = job[c].nonce
    BY <1>1, <2>1 DEF ClaimLocals
  <2>3. Frame(c)
    BY <1>4, ConsumeClaimStep, Zenon DEF StepOK
  <2>4. CASE ~HasStatus(n, "ready")
    <3>1. claims' = claims /\ Goto(c, "idle") /\ job' = [job EXCEPT ![c] = Idle]
      BY <1>4, <2>2, <2>4, Zenon DEF ConsumeClaim, ConsumeCheckoutClaim
    <3>2. job'[c].row = None
      BY <1>1, <3>1 DEF Idle
    <3>3. job[c].row = None /\ pc'[c] = "idle"
      BY <1>1, <1>2, <2>1, <3>1 DEF ClaimLocals
    <3>4. Holds(c)
      BY <2>1, <3>2, <3>3 DEF Holds
    <3>5. KeepsHolders
      BY <2>3, <3>4, FrameHolders, Zenon DEF KeepsHolders
    <3> QED BY <2>1, <3>1, <3>5, NoRowsTouched, Zenon DEF Effect
  <2>5. CASE HasStatus(n, "ready")
    <3>1. /\ ConsumeCheckoutClaim(n) /\ Goto(c, "secret")
          /\ job' = [job EXCEPT ![c] = [nonce |-> None, row |-> claims[n]]]
      BY <1>4, <2>2, <2>5, Zenon DEF ConsumeClaim
    <3>2. job'[c].row = claims[n] /\ pc'[c] = "secret"
      BY <1>1, <1>2, <3>1
    <3>3. PICK row \in ClaimRow : /\ Writes(n, row) /\ row.by = claims[n].by
                                  /\ row.account = claims[n].account /\ row.status = "consumed"
      BY <3>1, ConsumeRow, Zenon
    <3>4. claims'[n] = row /\ claims'[n] # None /\ OtherRows(n)
      BY <3>3, WrittenRow, Zenon
    <3>5. \A d \in Claim : d # c => Holds(d)
      BY <2>3, FrameHolders, Zenon
    <3>6. Consumes(n, c)
      BY <2>1, <2>5, <3>2, <3>3, <3>4, <3>5, Zenon DEF Consumes
    <3> QED BY <2>1, <3>6, Zenon DEF Effect
  <2> QED BY <2>4, <2>5
<1>5. CASE HandOut(c)
  <2>1. pc[c] = "secret" /\ pc'[c] = "done" /\ claims' = claims /\ job' = job
    BY <1>2, <1>5, Zenon DEF HandOut, Move
  <2>2. PICK b \in Start : b = job[c].row.by
    BY <1>1, <2>1, HeldRow DEF ClaimLocals
  <2>3. outcome' = [outcome EXCEPT ![b] = c] /\ outcome \in [Start -> Claim \cup {None, "lost"}]
    BY <1>1, <1>5, <2>2, Zenon DEF HandOut, BaseTypeOK
  <2>4. outcome'[b] # None /\ \A s \in Start : s # b => outcome'[s] = outcome[s]
    BY <2>3, Kinds
  <2>5. \A d \in Claim : d # c => Holds(d)
    BY <1>5, HandOutStep, FrameHolders, Zenon DEF StepOK
  <2>6. Spends(c)
    BY <1>5, <2>1, <2>2, <2>4, <2>5, Zenon DEF Spends
  <2> QED BY <2>6, Zenon DEF Effect
<1> QED BY <1>3, <1>4, <1>5, Zenon DEF FindClaimByCode, Poll

LEMMA DieEffect ==
  ASSUME TypeOK, Locals, RowInv, NEW r \in Request, Die(r)
  PROVE  Effect
<1>1. /\ pc \in [Request -> Pcs] /\ job \in [Request -> JobRow]
      /\ outcome \in [Start -> Claim \cup {None, "lost"}]
  BY BaseType, Zenon DEF BaseTypeOK
<1>2. claims' = claims /\ Frame(r) /\ pc[r] \notin {"idle", "done"}
  BY DieStep, Zenon DEF StepOK, Die
<1>3. \A d \in Claim : d # r => Holds(d)
  BY <1>2, FrameHolders, Zenon
<1>4. job'[r].row = None /\ (r \in Claim => pc'[r] = "idle")
  BY <1>1 DEF Die, Idle, Goto
<1>5. CASE pc[r] = "secret"
  <2>1. r \in Claim
    BY <1>5 DEF Locals, StartLocals, ReturnLocals, AdminLocals, Request
  <2>2. PICK b \in Start : b = job[r].row.by
    BY <1>5, <2>1, HeldRow DEF Locals, ClaimLocals
  <2>3. outcome' = [outcome EXCEPT ![b] = "lost"]
    BY <1>5, <2>2, Zenon DEF Die
  <2>4. outcome'[b] # None /\ \A s \in Start : s # b => outcome'[s] = outcome[s]
    BY <1>1, <2>3, Kinds
  <2>5. Spends(r)
    BY <1>2, <1>3, <1>4, <1>5, <2>1, <2>2, <2>4, Zenon DEF Spends
  <2> QED BY <2>1, <2>5, Zenon DEF Effect
<1>6. CASE pc[r] # "secret"
  <2>1. outcome' = outcome
    BY <1>6, Zenon DEF Die
  <2>2. r \in Claim => Holds(r)
    <3> SUFFICES ASSUME r \in Claim PROVE Holds(r)
      OBVIOUS
    <3>1. ClaimLocals(r)
      BY DEF Locals
    <3>2. job[r].row = None
      BY <1>2, <1>6, <3>1 DEF ClaimLocals
    <3> QED BY <1>2, <1>4, <1>6, <3>2 DEF Holds
  <2>3. KeepsHolders
    BY <1>3, <2>2, Zenon DEF KeepsHolders
  <2> QED BY <1>2, <2>1, <2>3, NoRowsTouched, Zenon DEF Effect
<1> QED BY <1>5, <1>6

LEMMA NextEffect ==
  ASSUME TypeOK, Locals, RowInv, Next
  PROVE  Effect
<1>1. CASE Sweep
  <2>1. UNCHANGED <<pc, job, outcome>>
    BY <1>1, Zenon DEF Sweep, Expire, Collect, requests, history
  <2>2. KeepsHolders
    BY <2>1, Zenon DEF KeepsHolders, Holds
  <2>3. CASE Collect
    <3>1. \A n \in Nonce : claims'[n] = IF claims[n] # None /\ claims[n].expired THEN None ELSE claims[n]
      BY <2>3, Zenon DEF Collect, DeleteExpiredCheckoutClaims
    <3>2. KeepsRows
      BY <3>1, Zenon DEF KeepsRows, SameRow
    <3> QED BY <2>1, <2>2, <3>2, Zenon DEF Effect
  <2>4. ASSUME NEW n \in Nonce, Expire(n) PROVE KeepsRows
    BY <2>4, ExpireClaim, TouchedRow, Zenon
  <2> QED BY <1>1, <2>1, <2>2, <2>3, <2>4, Zenon DEF Sweep, Effect
<1>2. ASSUME NEW r, r \in Return \cup Admin, StepOK(r), KeepsRows, outcome' = outcome
      PROVE  Effect
  <2>1. r \notin Claim
    BY <1>2, Kinds
  <2> QED BY <1>2, <2>1, FrameHolders, Zenon DEF StepOK, Effect
<1>3. ASSUME NEW r \in Return, NEW s \in Start, BrowserReturn(r, s)
      PROVE  Effect
  <2>1. claims' = claims /\ outcome' = outcome
    BY <1>3, Zenon DEF BrowserReturn, history
  <2> QED BY <1>2, <1>3, <2>1, BrowserReturnStep, NoRowsTouched
<1>4. ASSUME NEW r \in Return, MintCode(r)
      PROVE  Effect
  <2>1. outcome' = outcome
    BY <1>4, Zenon DEF MintCode, history
  <2> QED BY <1>2, <1>4, <2>1, MintCodeStep, CodeEffect, Kinds
<1>5. ASSUME NEW a \in Admin, AdminStep(a) \/ \E x \in Account : AdminSecret(a, x)
      PROVE  Effect
  <2>1. claims' = claims /\ outcome' = outcome
    BY <1>5, Zenon DEF AdminStep, ListLicenses, CreateOpenLicense, AdminSecret, history
  <2> QED BY <1>2, <1>5, <2>1, AdminSteps, AdminSecretStep, NoRowsTouched
<1> QED BY <1>1, <1>3, <1>4, <1>5, StartEffect, ClaimEffect, DieEffect, ZenonT(30) DEF Next, Sweep

----------------------------------------------------------------------------
(* The claims.                                                             *)

\* Every row that is there after a step, and where its fields come from.
LEMMA RowCases ==
  ASSUME TypeOK, Locals, RowInv, Next, NEW n \in Nonce, claims'[n] # None
  PROVE  \/ SameRow(n) /\ claims[n] # None
         \/ \E s \in Start : Inserts(n, s)
         \/ \E s \in Start : Readies(n, s)
         \/ \E c \in Claim : Consumes(n, c)
<1>1. CASE KeepsRows
  BY <1>1, Zenon DEF KeepsRows, SameRow
<1>2. ASSUME claims'[n] = claims[n] PROVE SameRow(n) /\ claims[n] # None
  BY <1>2 DEF SameRow
<1>3. ASSUME NEW m \in Nonce, OtherRows(m), m # n PROVE SameRow(n) /\ claims[n] # None
  BY <1>2, <1>3 DEF OtherRows
<1>4. ASSUME NEW m \in Nonce, NEW s \in Start, Inserts(m, s) \/ Readies(m, s) PROVE m = n \/ (SameRow(n) /\ claims[n] # None)
  BY <1>3, <1>4, Zenon DEF Inserts, Readies
<1>5. ASSUME NEW m \in Nonce, NEW c \in Claim, Consumes(m, c) PROVE m = n \/ (SameRow(n) /\ claims[n] # None)
  BY <1>3, <1>5, Zenon DEF Consumes
<1>6. ASSUME NEW c \in Claim, Spends(c) PROVE SameRow(n) /\ claims[n] # None
  BY <1>2, <1>6, Zenon DEF Spends
<1> QED BY <1>1, <1>4, <1>5, <1>6, NextEffect, Zenon DEF Effect

\* Every row that a request holds after a step.
LEMMA HeldCases ==
  ASSUME TypeOK, Locals, RowInv, Next, NEW c \in Claim, job'[c].row # None
  PROVE  \/ /\ job'[c].row = job[c].row
            /\ pc'[c] = "secret" => pc[c] = "secret"
            /\ pc'[c] = "done" => pc[c] = "done" \/ HandOut(c)
         \/ \E n \in Nonce : Consumes(n, c)
<1>1. ASSUME NEW n \in Nonce, NEW d \in Claim, Consumes(n, d) PROVE c = d \/ Holds(c)
  BY <1>1, Zenon DEF Consumes
<1>2. ASSUME NEW d \in Claim, Spends(d)
      PROVE Holds(c) \/ (job'[c].row = job[c].row /\ pc'[c] = "done" /\ HandOut(c))
  BY <1>2, Zenon DEF Spends
<1>3. KeepsHolders => Holds(c)
  BY DEF KeepsHolders
<1>4. "done" # "secret"
  OBVIOUS
<1> QED BY <1>1, <1>2, <1>3, <1>4, NextEffect, Zenon DEF Effect, Holds

LEMMA NextRow ==
  ASSUME TypeOK, Locals, RowInv, Next
  PROVE  RowInv'
<1>1. \A s \in Start : Bound(s) => Bound(s)'
  BY BoundStays
<1>2. ASSUME NEW n \in Nonce, claims'[n] # None PROVE RowOK(claims[n])'
  <2>1. claims[n] # None => RowOK(claims[n])
    BY SMTT(30) DEF RowInv
  <2>2. CASE SameRow(n) /\ claims[n] # None
    BY <1>1, <2>1, <2>2 DEF SameRow, RowOK, Bound
  <2>3. ASSUME NEW s \in Start, Inserts(n, s) PROVE RowOK(claims[n])'
    BY <2>3 DEF Inserts, RowOK
  <2>4. ASSUME NEW s \in Start, Readies(n, s) PROVE RowOK(claims[n])'
    BY <2>4, Kinds, SMTT(30) DEF Readies, RowOK, Bound
  <2>5. ASSUME NEW c \in Claim, Consumes(n, c) PROVE RowOK(claims[n])'
    BY <1>1, <2>1, <2>5 DEF Consumes, HasStatus, RowOK, Bound
  <2> QED BY <1>2, <2>2, <2>3, <2>4, <2>5, RowCases, Zenon
<1>3. ASSUME NEW c \in Claim, job'[c].row # None
      PROVE  RowOK(job[c].row)' /\ job'[c].row.account # None
  <2>1. CASE job'[c].row = job[c].row
    BY <1>1, <1>3, <2>1 DEF RowInv, RowOK, Bound
  <2>2. ASSUME NEW n \in Nonce, Consumes(n, c) PROVE RowOK(job[c].row)' /\ job'[c].row.account # None
    <3>1. job'[c].row = claims[n] /\ claims[n] # None /\ claims[n].status = "ready"
      BY <2>2, Zenon DEF Consumes, HasStatus
    <3>2. RowOK(claims[n])
      BY <3>1, Zenon DEF RowInv
    <3> QED BY <1>1, <3>1, <3>2 DEF RowOK, Bound
  <2> QED BY <1>3, <2>1, <2>2, HeldCases, ZenonT(30)
<1> QED BY <1>2, <1>3 DEF RowInv

\* The account a row names after a step: it named it before, or it was not bound.
LEMMA RowAccount ==
  ASSUME TypeOK, Locals, RowInv, Next, NEW n \in Nonce, claims'[n] # None, claims'[n].account # None
  PROVE  \/ /\ claims[n] # None /\ claims'[n].account = claims[n].account /\ Bound(claims[n].account)
            /\ claims'[n].status = "ready" => claims[n].status = "ready"
         \/ ~Bound(claims'[n].account)
<1>1. claims[n] # None => RowOK(claims[n])
  BY DEF RowInv
<1>2. CASE SameRow(n) /\ claims[n] # None
  BY <1>1, <1>2, SMTT(30) DEF SameRow, RowOK
<1>3. ASSUME NEW c \in Claim, Consumes(n, c)
      PROVE  /\ claims[n] # None /\ claims'[n].account = claims[n].account /\ Bound(claims[n].account)
             /\ claims'[n].status # "ready"
  BY <1>1, <1>3 DEF Consumes, HasStatus, RowOK
<1>4. ASSUME NEW s \in Start, Readies(n, s) PROVE ~Bound(claims'[n].account)
  BY <1>4, Zenon DEF Readies
<1>5. ASSUME NEW s \in Start, Inserts(n, s) PROVE FALSE
  BY <1>5 DEF Inserts
<1> QED BY <1>2, <1>3, <1>4, <1>5, RowCases, Zenon

\* The account of the row a request holds after a step: it held it before, or it
\* has just consumed the row.
LEMMA HeldAccount ==
  ASSUME TypeOK, Locals, RowInv, Next, NEW c \in Claim, job'[c].row # None
  PROVE  \/ job[c].row # None /\ job'[c].row = job[c].row /\ Bound(job[c].row.account)
         \/ \E n \in Nonce : /\ Consumes(n, c) /\ HasStatus(n, "ready") /\ job'[c].row = claims[n]
                             /\ claims[n].account # None /\ Bound(claims[n].account)
<1>1. CASE job'[c].row = job[c].row
  BY <1>1, Zenon DEF RowInv, RowOK
<1>2. ASSUME NEW n \in Nonce, Consumes(n, c)
      PROVE  /\ HasStatus(n, "ready") /\ job'[c].row = claims[n]
             /\ claims[n].account # None /\ Bound(claims[n].account)
  <2>1. HasStatus(n, "ready") /\ job'[c].row = claims[n] /\ claims[n] # None /\ claims[n].status = "ready"
    BY <1>2, Zenon DEF Consumes, HasStatus
  <2>2. RowOK(claims[n])
    BY <2>1, Zenon DEF RowInv
  <2> QED BY <2>1, <2>2 DEF RowOK
<1> QED BY <1>1, <1>2, HeldCases, Zenon

LEMMA NextOwner ==
  ASSUME TypeOK, Locals, RowInv, OwnerInv, Next
  PROVE  OwnerInv'
<1>1. ASSUME NEW n \in Nonce, NEW m \in Nonce, claims'[n] # None, claims'[m] # None,
             claims'[n].account # None, claims'[n].account = claims'[m].account, n # m
      PROVE  FALSE
  <2> DEFINE Kept(k) == claims[k] # None /\ claims'[k].account = claims[k].account /\ Bound(claims[k].account)
             Fresh(k) == ~Bound(claims'[k].account)
  <2>1. Kept(n) \/ Fresh(n)
    BY <1>1, RowAccount, Zenon
  <2>2. Kept(m) \/ Fresh(m)
    BY <1>1, RowAccount, Zenon
  <2>3. CASE Kept(n) /\ Kept(m)
    BY <1>1, <2>3, Zenon DEF OwnerInv
  <2>4. CASE Fresh(n) /\ Fresh(m)
    <3>1. ASSUME NEW k \in Nonce, claims'[k] # None, claims'[k].account # None, Fresh(k)
          PROVE  OtherRows(k)
      <4>1. ~Kept(k)
        BY <3>1, Zenon
      <4>2. claims[k] # None => RowOK(claims[k])
        BY DEF RowInv
      <4>3. ~SameRow(k) \/ claims[k] = None
        BY <3>1, <4>1, <4>2 DEF SameRow, RowOK
      <4> QED BY <3>1, <4>3, RowCases, Zenon DEF Inserts, Readies, Consumes
    <3>2. claims'[m] = claims[m]
      BY <1>1, <2>4, <3>1, Zenon DEF OtherRows
    <3>3. RowOK(claims[m])
      BY <1>1, <3>2, Zenon DEF RowInv
    <3> QED BY <1>1, <2>4, <3>2, <3>3, Zenon DEF RowOK
  <2> QED BY <1>1, <2>1, <2>2, <2>3, <2>4, Zenon
<1>2. ASSUME NEW n \in Nonce, NEW c \in Claim, claims'[n] # None, claims'[n].status = "ready", job'[c].row # None,
             claims'[n].account = job'[c].row.account
      PROVE  FALSE
  <2>1. claims'[n].account # None
    BY <1>2, NextRow DEF RowInv, RowOK
  <2>2. Bound(job'[c].row.account)
    BY <1>2, HeldAccount, Zenon
  <2>3. claims[n] # None /\ claims'[n].account = claims[n].account /\ claims[n].status = "ready"
    BY <1>2, <2>1, <2>2, RowAccount, Zenon
  <2>4. CASE job[c].row # None /\ job'[c].row = job[c].row
    BY <1>2, <2>3, <2>4, Zenon DEF OwnerInv, HasStatus
  <2>5. ASSUME NEW m \in Nonce, Consumes(m, c), job'[c].row = claims[m], claims[m].account # None
        PROVE  FALSE
    <3>1. claims[m] # None /\ claims'[m].status = "consumed"
      BY <2>5, Zenon DEF Consumes, HasStatus
    <3>2. n = m
      BY <1>2, <2>3, <2>5, <3>1, Zenon DEF OwnerInv
    <3> QED BY <1>2, <3>1, <3>2
  <2> QED BY <1>2, <2>4, <2>5, HeldAccount, ZenonT(30)
<1>3. ASSUME NEW c \in Claim, NEW d \in Claim, job'[c].row # None, job'[d].row # None,
             job'[c].row.account = job'[d].row.account, c # d
      PROVE  FALSE
  <2> DEFINE Old(e) == job[e].row # None /\ job'[e].row = job[e].row
             New(e) == \E n \in Nonce : Consumes(n, e) /\ HasStatus(n, "ready") /\ job'[e].row = claims[n]
  <2>1. (Old(c) \/ New(c)) /\ (Old(d) \/ New(d))
    BY <1>3, HeldAccount, Zenon
  <2>2. CASE Old(c) /\ Old(d)
    BY <1>3, <2>2, Zenon DEF OwnerInv
  <2>3. CASE New(c) /\ Old(d)
    BY <1>3, <2>3, Zenon DEF OwnerInv
  <2>4. CASE Old(c) /\ New(d)
    BY <1>3, <2>4, Zenon DEF OwnerInv
  <2>5. ~(New(c) /\ New(d))
    <3> SUFFICES ASSUME New(c), New(d) PROVE FALSE
      OBVIOUS
    <3>1. PICK n \in Nonce : Consumes(n, c)
      OBVIOUS
    <3>2. PICK m \in Nonce : Consumes(m, d)
      OBVIOUS
    <3>3. pc[d] = "consume" /\ pc'[d] = "secret" /\ Holds(d)
      BY <1>3, <3>1, <3>2, Zenon DEF Consumes
    <3> QED BY <3>3 DEF Holds
  <2> QED BY <2>1, <2>2, <2>3, <2>4, <2>5, Zenon
<1> QED BY <1>1, <1>2, <1>3, Zenon DEF OwnerInv, HasStatus

----------------------------------------------------------------------------
(* The secret of an account that was handed out.                           *)

\* An account's secret is replaced only by the claim request that hands out a new
\* one, or by an administrator.
LEMMA SecretWrites ==
  ASSUME TypeOK, Locals, RowInv, Next, NEW x \in Account, accounts[x] # None
  PROVE  \/ accounts'[x].secret = accounts[x].secret
         \/ \E c \in Claim : HandOut(c) /\ job[c].row # None /\ job[c].row.account = x
         \/ accounts'[x].secret \in Admin
<1>1. accounts \in [Account -> AccountRow \cup {None}]
  BY DEF TypeOK
<1>2. ASSUME NEW a \in Account, NEW cust \in BOOLEAN, NEW sec \in Secret \cup {None},
             UpsertAccount(a, [customer |-> cust, secret |-> sec])
      PROVE  \/ accounts'[x].secret = accounts[x].secret
             \/ x = a /\ sec # None /\ accounts'[x].secret = sec
  <2>1. PICK new \in AccountRow :
           /\ accounts' = [accounts EXCEPT ![a] = new]
           /\ cust \/ (accounts[a] # None /\ accounts[a].customer) => new.customer
           /\ sec # None => new.secret = sec
           /\ sec = None /\ accounts[a] # None => new.secret = accounts[a].secret
    BY <1>2, Upsert, SMTT(20)
  <2>2. accounts'[x] = IF x = a THEN new ELSE accounts[x]
    BY <1>1, <2>1
  <2> QED BY <2>1, <2>2, Zenon
<1>3. TRUE \in BOOLEAN /\ FALSE \in BOOLEAN /\ None \in Secret \cup {None}
  OBVIOUS
<1>4. ASSUME NEW s \in Start, LinkPurchase(s) \/ \E n \in Nonce : ProvisionOpen(s, n)
      PROVE  accounts'[x].secret = accounts[x].secret
  <2>1. s \in Account
    BY Kinds
  <2>2. UpsertAccount(s, [customer |-> TRUE, secret |-> None]) \/ UpsertAccount(s, [customer |-> FALSE, secret |-> None])
    BY <1>4, AccountFields, Zenon DEF LinkPurchase, ProvisionOpen
  <2> QED BY <1>2, <1>3, <2>1, <2>2, Zenon
<1>5. ASSUME NEW c \in Claim, HandOut(c)
      PROVE  accounts'[x].secret = accounts[x].secret \/ (job[c].row # None /\ job[c].row.account = x)
  <2>1. job[c].row # None
    BY <1>5 DEF HandOut, Move, Locals, ClaimLocals
  <2>2. PICK a \in Account : a = job[c].row.account
    BY <2>1, HeldRow, Kinds
  <2>3. UpsertAccount(a, [customer |-> FALSE, secret |-> c])
    BY <1>5, <2>2, AccountFields, Zenon DEF HandOut
  <2>4. c \in Secret \cup {None}
    BY Kinds
  <2> QED BY <1>2, <1>3, <2>1, <2>2, <2>3, <2>4, Zenon
<1>6. ASSUME NEW a \in Admin, NEW y \in Account, AdminSecret(a, y)
      PROVE  accounts'[x].secret = accounts[x].secret \/ accounts'[x].secret \in Admin
  <2>1. UpsertAccount(y, [customer |-> FALSE, secret |-> a])
    BY <1>6, AccountFields, Zenon DEF AdminSecret
  <2>2. a \in Secret \cup {None}
    BY Kinds
  <2> QED BY <1>2, <1>3, <2>1, <2>2, Zenon
<1>7. CASE accounts' = accounts
  BY <1>7, Zenon
<1> QED BY <1>4, <1>5, <1>6, <1>7, AccountsStep, ZenonT(30)

LEMMA HandedSecret ==
  ASSUME TypeOK, Locals, RowInv, NEW c \in Claim, HandOut(c)
  PROVE  accounts'[job[c].row.account].secret = c
<1>1. job[c].row # None
  BY DEF HandOut, Move, Locals, ClaimLocals
<1>2. PICK a \in Account : a = job[c].row.account
  BY <1>1, HeldRow, Kinds
<1>3. UpsertAccount(a, [customer |-> FALSE, secret |-> c])
  BY <1>2, AccountFields, Zenon DEF HandOut
<1>4. c \in Secret \cup {None} /\ FALSE \in BOOLEAN /\ c # None
  BY Kinds
<1>5. PICK new \in AccountRow : accounts' = [accounts EXCEPT ![a] = new] /\ new.secret = c
  <2>1. PICK cust \in BOOLEAN, sec \in Secret \cup {None} : cust = FALSE /\ sec = c
    BY <1>4, Zenon
  <2>2. UpsertAccount(a, [customer |-> cust, secret |-> sec])
    BY <1>3, <2>1, ZenonT(30)
  <2> QED BY <1>4, <2>1, <2>2, Upsert, Zenon
<1> QED BY <1>2, <1>5 DEF TypeOK

\* A bound account is there.
LEMMA BoundAccount ==
  ASSUME Locals, AccountInv, NEW s \in Start, Bound(s)
  PROVE  accounts[s] # None
BY DEF AccountInv, Bound

LEMMA NextSecret ==
  ASSUME TypeOK, Locals, AccountInv, RowInv, OwnerInv, SecretInv, Next
  PROVE  SecretInv'
<1> SUFFICES ASSUME NEW c \in Claim, pc'[c] = "done"
             PROVE  accounts'[job'[c].row.account].secret \in {c} \cup Admin
  BY DEF SecretInv
<1>1. job'[c].row # None
  BY NextBase DEF Locals, ClaimLocals
<1>2. ~\E n \in Nonce : Consumes(n, c)
  BY DEF Consumes
<1>3. job'[c].row = job[c].row /\ (pc[c] = "done" \/ HandOut(c))
  BY <1>1, <1>2, HeldCases, Zenon
<1>4. CASE HandOut(c)
  BY <1>3, <1>4, HandedSecret, ZenonT(30)
<1>5. CASE pc[c] = "done"
  <2>1. accounts[job[c].row.account].secret \in {c} \cup Admin
    BY <1>5, Zenon DEF SecretInv
  <2>2. PICK s \in Start : s = job[c].row.account /\ Bound(s)
    BY <1>1, <1>3, HeldRow, ZenonT(30)
  <2>3. s \in Account /\ accounts[s] # None
    BY <2>2, BoundAccount, Kinds
  <2>4. ~\E d \in Claim : HandOut(d) /\ job[d].row # None /\ job[d].row.account = s
    <3> SUFFICES ASSUME NEW d \in Claim, HandOut(d), job[d].row # None, job[d].row.account = s PROVE FALSE
      OBVIOUS
    <3>1. d = c
      BY <1>1, <1>3, <2>2, Zenon DEF OwnerInv
    <3> QED BY <1>5, <3>1 DEF HandOut, Move
  <2>5. accounts'[s].secret = accounts[s].secret \/ accounts'[s].secret \in Admin
    BY <2>3, <2>4, SecretWrites, Zenon
  <2> QED BY <1>3, <2>1, <2>2, <2>5
<1> QED BY <1>3, <1>4, <1>5

----------------------------------------------------------------------------
(* Once only.                                                              *)

LEMMA SpentStep ==
  ASSUME TypeOK, Locals, RowInv, Next, NEW s \in Start, Spent(s)'
  PROVE  Spent(s) \/ \E n \in Nonce, c \in Claim : Consumes(n, c) /\ claims[n].by = s
<1>1. ASSUME NEW c \in Claim, Holds(c), pc'[c] = "secret", job'[c].row.by = s PROVE Spent(s)
  BY <1>1, Zenon DEF Holds, Spent
<1>2. CASE KeepsHolders /\ outcome' = outcome
  BY <1>1, <1>2, Zenon DEF Spent, KeepsHolders
<1>3. ASSUME NEW n \in Nonce, NEW c \in Claim, Consumes(n, c), outcome' = outcome
      PROVE  Spent(s) \/ claims[n].by = s
  <2>1. CASE outcome'[s] # None
    BY <1>3, <2>1, Zenon DEF Spent
  <2>2. ASSUME NEW d \in Claim, pc'[d] = "secret", job'[d].row.by = s
        PROVE  Spent(s) \/ claims[n].by = s
    BY <1>1, <1>3, <2>2, Zenon DEF Consumes
  <2> QED BY <2>1, <2>2, Zenon DEF Spent
<1>4. ASSUME NEW c \in Claim, Spends(c)
      PROVE  Spent(s)
  <2>1. CASE s = job[c].row.by
    BY <1>4, <2>1, Zenon DEF Spends, Spent
  <2>2. CASE s # job[c].row.by /\ outcome'[s] # None
    BY <1>4, <2>2, Zenon DEF Spends, Spent
  <2>3. ASSUME NEW d \in Claim, pc'[d] = "secret", job'[d].row.by = s
        PROVE  Spent(s)
    <3>1. d # c
      BY <1>4, <2>3 DEF Spends
    <3> QED BY <1>1, <1>4, <2>3, <3>1, ZenonT(30) DEF Spends
  <2> QED BY <2>1, <2>2, <2>3, Zenon DEF Spent
<1> QED BY <1>2, <1>3, <1>4, NextEffect, Zenon DEF Effect

LEMMA StartedStays ==
  ASSUME TypeOK, Next, NEW s \in Start, pc[s] \notin {"idle", "claim"}
  PROVE  pc'[s] \notin {"idle", "claim"}
BY GoOn

\* The start that inserted a row: the row is new, or it was there.
LEMMA RowStart ==
  ASSUME TypeOK, Locals, RowInv, Next, NEW n \in Nonce, claims'[n] # None
  PROVE  /\ claims'[n].by \in Start
         /\ \/ claims[n] # None /\ claims'[n].by = claims[n].by
            \/ Inserts(n, claims'[n].by)
<1>1. claims'[n].by \in Start
  <2>1. claims'[n] \in ClaimRow
    BY NextBase DEF BaseTypeOK
  <2> QED BY <2>1, RowsAreRows
<1>2. ASSUME NEW s \in Start, Inserts(n, s) PROVE Inserts(n, claims'[n].by)
  BY <1>2, Zenon DEF Inserts
<1> QED BY <1>1, <1>2, RowCases, ZenonT(30) DEF SameRow, Readies, Consumes, HasStatus

LEMMA NextOnce ==
  ASSUME TypeOK, Locals, RowInv, OnceInv, Next
  PROVE  OnceInv'
<1>1. ASSUME NEW n \in Nonce, claims'[n] # None PROVE pc'[claims'[n].by] \notin {"idle", "claim"}
  <2>1. CASE claims[n] # None /\ claims'[n].by = claims[n].by
    <3>1. PICK s \in Start : s = claims[n].by
      BY <1>1, <2>1, RowStart, Zenon
    <3>2. pc[s] \notin {"idle", "claim"}
      BY <2>1, <3>1, Zenon DEF OnceInv
    <3> QED BY <2>1, <3>1, <3>2, StartedStays, Zenon
  <2>2. CASE Inserts(n, claims'[n].by)
    BY <2>2, Zenon DEF Inserts
  <2> QED BY <1>1, <2>1, <2>2, RowStart, Zenon
<1>2. ASSUME NEW n \in Nonce, NEW m \in Nonce, claims'[n] # None, claims'[m] # None,
             claims'[n].by = claims'[m].by, n # m
      PROVE  FALSE
  <2>1. ASSUME NEW k \in Nonce, NEW j \in Nonce, k # j, claims'[k] # None, claims'[j] # None,
               claims'[k].by = claims'[j].by, Inserts(k, claims'[k].by)
        PROVE  FALSE
    <3>1. claims[j] = claims'[j]
      BY <2>1, Zenon DEF Inserts, OtherRows
    <3>2. pc[claims'[j].by] \notin {"idle", "claim"}
      BY <2>1, <3>1, Zenon DEF OnceInv
    <3> QED BY <2>1, <3>2, Zenon DEF Inserts
  <2>2. CASE claims[n] # None /\ claims'[n].by = claims[n].by /\ claims[m] # None /\ claims'[m].by = claims[m].by
    BY <1>2, <2>2, Zenon DEF OnceInv
  <2> QED BY <1>2, <2>1, <2>2, RowStart, Zenon
<1>3. ASSUME NEW s \in Start, Spent(s)'
      PROVE  /\ pc'[s] \notin {"idle", "claim"}
             /\ \A n \in Nonce : claims'[n] # None /\ claims'[n].by = s => claims'[n].status = "consumed"
  <2>1. CASE Spent(s)
    <3>1. pc[s] \notin {"idle", "claim"}
      BY <2>1, Zenon DEF OnceInv
    <3>2. pc'[s] \notin {"idle", "claim"}
      BY <3>1, StartedStays, Zenon
    <3>3. ASSUME NEW n \in Nonce, claims'[n] # None, claims'[n].by = s
          PROVE  claims'[n].status = "consumed"
      <4>1. claims[n] # None /\ claims[n].by = s
        BY <3>1, <3>3, RowStart, Zenon DEF Inserts
      <4>2. claims[n].status = "consumed"
        BY <2>1, <4>1, Zenon DEF OnceInv
      <4>3. ~HasStatus(n, "pending")
        BY <4>2 DEF HasStatus
      <4> QED BY <3>3, <4>1, <4>2, <4>3, RowCases, Zenon DEF SameRow, Inserts, Readies, Consumes
    <3> QED BY <3>2, <3>3
  <2>2. ASSUME NEW n \in Nonce, NEW c \in Claim, Consumes(n, c), claims[n].by = s
        PROVE  /\ pc'[s] \notin {"idle", "claim"}
               /\ \A m \in Nonce : claims'[m] # None /\ claims'[m].by = s => claims'[m].status = "consumed"
    <3>1. claims[n] # None /\ claims'[n] # None /\ claims'[n].by = s /\ claims'[n].status = "consumed"
      BY <2>2, Zenon DEF Consumes, HasStatus
    <3>2. pc'[s] \notin {"idle", "claim"}
      BY <1>1, <3>1, Zenon
    <3>3. \A m \in Nonce : claims'[m] # None /\ claims'[m].by = s => m = n
      BY <1>2, <3>1, Zenon
    <3> QED BY <3>1, <3>2, <3>3, Zenon
  <2> QED BY <1>3, <2>1, <2>2, SpentStep, Zenon
<1>4. HandedOnce'
  <2> SUFFICES ASSUME NEW c \in Claim, pc'[c] = "secret"
               PROVE  /\ outcome'[job'[c].row.by] = None
                      /\ \A d \in Claim : pc'[d] = "secret" /\ job'[d].row.by = job'[c].row.by => c = d
    BY Zenon DEF HandedOnce
  <2> DEFINE Busy(d) == pc[d] = "secret" /\ job'[d].row = job[d].row
             Goal == /\ outcome'[job'[c].row.by] = None
                     /\ \A d \in Claim : pc'[d] = "secret" /\ job'[d].row.by = job'[c].row.by => c = d
  <2>1. \A d \in Claim : Holds(d) /\ pc'[d] = "secret" => Busy(d)
    BY Zenon DEF Holds
  <2>2. CASE KeepsHolders /\ outcome' = outcome
    <3>1. \A d \in Claim : pc'[d] = "secret" => Busy(d)
      BY <2>1, <2>2, Zenon DEF KeepsHolders
    <3> QED BY <2>2, <3>1, ZenonT(30) DEF OnceInv, HandedOnce
  <2>3. ASSUME NEW e \in Claim, Spends(e) PROVE Goal
    <3>1. pc[e] = "secret" /\ pc'[e] # "secret"
      BY <2>3 DEF Spends
    <3>2. \A d \in Claim : pc'[d] = "secret" => Busy(d) /\ d # e
      BY <2>1, <2>3, <3>1, Zenon DEF Spends
    <3>3. job[c].row.by # job[e].row.by /\ outcome[job[c].row.by] = None
      BY <3>1, <3>2, ZenonT(30) DEF OnceInv, HandedOnce
    <3>4. job[c].row.by \in Start
      BY <3>2, HeldRow DEF Locals, ClaimLocals
    <3>5. outcome'[job[c].row.by] = None
      BY <2>3, <3>3, <3>4, Zenon DEF Spends
    <3>6. ASSUME NEW d \in Claim, pc'[d] = "secret", job'[d].row.by = job'[c].row.by PROVE c = d
      <4>1. pc[d] = "secret" /\ job[d].row.by = job[c].row.by /\ pc[c] = "secret"
        BY <3>2, <3>6, Zenon
      <4> QED BY <4>1, Zenon DEF OnceInv, HandedOnce
    <3>7. job'[c].row.by = job[c].row.by
      BY <3>2, ZenonT(30)
    <3> QED BY <3>5, <3>6, <3>7, Zenon
  <2>4. ASSUME NEW n \in Nonce, NEW e \in Claim, Consumes(n, e), outcome' = outcome PROVE Goal
    <3>1. claims[n] # None /\ claims[n].status = "ready" /\ job'[e].row = claims[n]
      BY <2>4, ZenonT(30) DEF Consumes, HasStatus
    <3>2. claims[n].by \in Start /\ claims[n].status # "consumed"
      <4>1. claims[n] \in ClaimRow
        BY <3>1, BaseType DEF BaseTypeOK
      <4> QED BY <3>1, <4>1, RowsAreRows
    <3>3. ~Spent(claims[n].by)
      BY <3>1, <3>2, Zenon DEF OnceInv
    <3>4. outcome[claims[n].by] = None /\ \A d \in Claim : pc[d] = "secret" => job[d].row.by # claims[n].by
      BY <3>3, Zenon DEF Spent
    <3>5. \A d \in Claim : d # e /\ pc'[d] = "secret" => Busy(d)
      BY <2>1, <2>4, Zenon DEF Consumes
    <3>6. CASE c = e
      BY <2>4, <3>1, <3>4, <3>5, <3>6, Zenon
    <3>7. CASE c # e
      <4>1. outcome[job[c].row.by] = None /\ job'[c].row = job[c].row /\ pc[c] = "secret"
        BY <3>5, <3>7, Zenon DEF OnceInv, HandedOnce
      <4>2. ASSUME NEW d \in Claim, pc'[d] = "secret", job'[d].row.by = job'[c].row.by PROVE c = d
        <5>1. d # e
          <6> SUFFICES ASSUME d = e PROVE FALSE
            OBVIOUS
          <6>1. job'[d].row.by = claims[n].by
            BY <3>1, Zenon
          <6> QED BY <3>4, <4>1, <4>2, <6>1, Zenon
        <5>2. pc[d] = "secret" /\ job[d].row.by = job[c].row.by
          BY <3>5, <4>1, <4>2, <5>1, Zenon
        <5> QED BY <4>1, <5>2, Zenon DEF OnceInv, HandedOnce
      <4> QED BY <2>4, <4>1, <4>2, Zenon
    <3> QED BY <3>6, <3>7
  <2> QED BY <2>2, <2>3, <2>4, NextEffect, Zenon DEF Effect
<1> QED BY <1>1, <1>2, <1>3, <1>4, Zenon DEF OnceInv

----------------------------------------------------------------------------
(* The theorems.                                                           *)

LEMMA InitInv == Init => Inv
<1> SUFFICES ASSUME Init PROVE Inv
  OBVIOUS
<1>1. /\ billing \in BOOLEAN /\ claims = [n \in Nonce |-> None] /\ accounts = [a \in Account |-> None]
      /\ licenses = [a \in Account |-> 0] /\ sold = [s \in Start |-> "no"] /\ codes = {}
      /\ pc = [r \in Request |-> "idle"] /\ job = [r \in Request |-> Idle]
      /\ outcome = [s \in Start |-> None] /\ faults = 0
  BY Zenon DEF Init
<1>2. /\ \A n \in Nonce : claims[n] = None
      /\ \A a \in Account : accounts[a] = None /\ licenses[a] = 0
      /\ \A s \in Start : sold[s] = "no" /\ outcome[s] = None
      /\ \A r \in Request : pc[r] = "idle" /\ job[r] = Idle
  BY <1>1, Zenon
<1>3. Idle \in JobRow /\ Idle.row = None
  BY DEF Idle, JobRow
<1>4. Cardinality(Admin) \in Nat /\ MaxFaults \in Nat
  BY CheckoutAssumption, FS_CardinalityType
<1>5. TypeOK
  <2>1. 0 \in 0..(1 + Cardinality(Admin)) /\ faults \in 0..MaxFaults
    BY <1>1, <1>4
  <2>2. licenses \in [Account -> 0..(1 + Cardinality(Admin))]
    BY <1>1, <2>1
  <2>3. job \in [Request -> JobRow]
    BY <1>1, <1>3
  <2>4. /\ claims \in [Nonce -> ClaimRow \cup {None}] /\ accounts \in [Account -> AccountRow \cup {None}]
        /\ sold \in [Start -> {"no", "paid", "applied"}] /\ codes \subseteq Code
        /\ pc \in [Request -> {"idle", "claim", "bind", "code", "consume", "secret", "list", "create", "done"}]
        /\ outcome \in [Start -> Claim \cup {None, "lost"}]
    BY <1>1, SMTT(30)
  <2> QED BY <1>1, <2>1, <2>2, <2>3, <2>4, ZenonT(30) DEF TypeOK, JobRow
<1>6. Locals
  BY <1>2, <1>3, Kinds, SMTT(30) DEF Locals, StartLocals, ReturnLocals, ClaimLocals, AdminLocals
<1>7. LicenseInv
  <2>1. Finished = {}
    BY <1>2, Kinds DEF Finished
  <2> QED BY <1>2, <2>1, FS_EmptySet DEF LicenseInv
<1>8. AccountInv
  BY <1>2, Kinds, SMTT(30) DEF AccountInv
<1>9. RowInv /\ OwnerInv /\ SecretInv
  BY <1>2, <1>3, Kinds DEF RowInv, OwnerInv, SecretInv, HasStatus
<1>10. OnceInv
  <2>1. \A c \in Claim : pc[c] # "secret"
    BY <1>2, Kinds
  <2>2. \A s \in Start : ~Spent(s)
    BY <1>2, <2>1, Zenon DEF Spent
  <2> QED BY <1>2, <2>1, <2>2, Zenon DEF OnceInv, HandedOnce
<1> QED BY <1>5, <1>6, <1>7, <1>8, <1>9, <1>10, Zenon DEF Inv

LEMMA StutterInv == Inv /\ UNCHANGED vars => Inv'
<1> SUFFICES ASSUME Inv, UNCHANGED vars PROVE Inv'
  OBVIOUS
<1>1. UNCHANGED <<billing, claims, accounts, licenses, sold, codes, pc, job, outcome, faults>>
  BY Zenon DEF vars, requests, history
<1>2. TypeOK'
  BY <1>1, Zenon DEF Inv, TypeOK
<1>3. Locals'
  BY <1>1, Zenon DEF Inv, Locals, StartLocals, ReturnLocals, ClaimLocals, AdminLocals
<1>4. LicenseInv' /\ AccountInv'
  BY <1>1, Zenon DEF Inv, LicenseInv, Finished, AccountInv
<1>5. RowInv' /\ OwnerInv' /\ SecretInv'
  BY <1>1, Zenon DEF Inv, RowInv, RowOK, Bound, OwnerInv, SecretInv, HasStatus
<1>6. OnceInv'
  BY <1>1, Zenon DEF Inv, OnceInv, Spent, HandedOnce
<1> QED BY <1>2, <1>3, <1>4, <1>5, <1>6, Zenon DEF Inv

LEMMA NextInv == Inv /\ Next => Inv'
<1> SUFFICES ASSUME Inv, Next PROVE Inv'
  OBVIOUS
<1>1. TypeOK /\ Locals /\ LicenseInv /\ AccountInv /\ RowInv /\ OwnerInv /\ SecretInv /\ OnceInv
  BY Zenon DEF Inv
<1>2. BaseTypeOK' /\ Locals'
  BY <1>1, NextBase, Zenon
<1>3. LicenseInv'
  BY <1>1, NextLicense, Zenon
<1>4. TypeOK'
  BY <1>2, <1>3, TypeFromBase, Zenon
<1>5. AccountInv' /\ RowInv' /\ OwnerInv' /\ SecretInv' /\ OnceInv'
  BY <1>1, NextAccount, NextRow, NextOwner, NextSecret, NextOnce, Zenon
<1> QED BY <1>2, <1>3, <1>4, <1>5, Zenon DEF Inv

\* Every reachable state satisfies the inductive invariant.
THEOREM CheckoutInvariant == Spec => []Inv
<1>1. Inv /\ [Next]_vars => Inv'
  BY NextInv, StutterInv, Zenon
<1> QED BY <1>1, InitInv, PTL DEF Spec

\* The claim and account tables and the requests are always well-typed; in
\* particular an account has at most one license more than there are administrators.
THEOREM TypeCorrect == Spec => []TypeOK
<1>1. Inv => TypeOK
  BY Zenon DEF Inv
<1> QED BY <1>1, CheckoutInvariant, PTL

\* Of any number of requests that race for a claim, by code and by nonce, one at
\* most is on the way to hand out its credential, and only while nobody has:
\* ConsumeCheckoutClaim's conditional update elects it.
THEOREM CredentialHandedOnce == Spec => []HandedOnce
<1>1. Inv => HandedOnce
  BY Zenon DEF Inv, OnceInv
<1> QED BY <1>1, CheckoutInvariant, PTL

LEMMA UsableFromInv ==
  ASSUME Inv
  PROVE  HandedIsUsable
<1> SUFFICES ASSUME NEW c \in Claim, pc[c] = "done", job[c].row # None
             PROVE  LET a == job[c].row.account
                    IN Answers(a, c) \/ (accounts[a].secret \in Admin /\ Answers(a, accounts[a].secret))
  BY Zenon DEF HandedIsUsable
<1>1. TypeOK /\ Locals /\ AccountInv /\ RowInv /\ SecretInv
  BY Zenon DEF Inv
<1>2. PICK a \in Start : a = job[c].row.account /\ Bound(a)
  BY <1>1, HeldRow, Zenon
<1>3. accounts[a] # None
  BY <1>1, <1>2, BoundAccount, Zenon
<1>4. licenses[a] > 0 /\ (billing => accounts[a].customer)
  BY <1>1, <1>3, ZenonT(30) DEF AccountInv
<1>5. accounts[a].secret = c \/ accounts[a].secret \in Admin
  BY <1>1, <1>2 DEF SecretInv
<1> QED BY <1>2, <1>3, <1>4, <1>5, Zenon DEF Answers

\* The desktop that was handed a credential has an account with a license and, with
\* billing on, a Stripe customer, and its secret is the account's unless an
\* administrator rotated it: the webhook links before it binds, and UpsertAccount
\* merges.
THEOREM CredentialIsUsable == Spec => []HandedIsUsable
<1>1. Inv => HandedIsUsable
  BY UsableFromInv
<1> QED BY <1>1, CheckoutInvariant, PTL

LEMMA ForwardStep ==
  ASSUME TypeOK, Locals, RowInv, Next, NEW n \in Nonce, claims[n] # None
  PROVE  IF claims'[n] = None THEN claims[n].expired
         ELSE /\ claims'[n].by = claims[n].by
              /\ Rank(claims'[n].status) >= Rank(claims[n].status)
              /\ claims[n].account # None => claims'[n].account = claims[n].account
<1>1. CASE claims'[n] = None
  <2>1. ~SameRow(n) /\ ~(claims'[n] = claims[n])
    BY <1>1, Zenon DEF SameRow
  <2>2. ASSUME NEW m \in Nonce, OtherRows(m), claims'[m] # None PROVE FALSE
    BY <1>1, <2>1, <2>2, Zenon DEF OtherRows
  <2>3. KeepsRows
    BY <2>1, <2>2, NextEffect, Zenon DEF Effect, Inserts, Readies, Consumes, Spends
  <2> QED BY <1>1, <2>1, <2>3, Zenon DEF KeepsRows
<1>2. CASE claims'[n] # None
  <2>1. RowOK(claims[n]) /\ claims[n] \in ClaimRow
    BY BaseType, SMTT(30) DEF RowInv, BaseTypeOK
  <2>2. claims[n].status \in {"pending", "ready", "consumed"}
    BY <2>1, RowsAreRows, Zenon
  <2>3. CASE SameRow(n)
    <3>1. /\ claims'[n].by = claims[n].by /\ claims'[n].account = claims[n].account
          /\ claims'[n].status = claims[n].status
      BY <2>3, Zenon DEF SameRow
    <3>2. Rank(claims'[n].status) >= Rank(claims[n].status)
      BY <2>2, <3>1 DEF Rank
    <3> QED BY <1>2, <3>1, <3>2, Zenon
  <2>4. ASSUME NEW s \in Start, Readies(n, s)
        PROVE  /\ claims'[n].by = claims[n].by /\ claims[n].account = None
               /\ Rank(claims'[n].status) >= Rank(claims[n].status)
    <3>1. /\ claims'[n].by = claims[n].by
          /\ claims[n].status = "pending" /\ claims'[n].status = "ready"
      BY <2>4, Zenon DEF Readies, HasStatus
    <3> QED BY <2>1, <3>1 DEF RowOK, Rank
  <2>5. ASSUME NEW c \in Claim, Consumes(n, c)
        PROVE  /\ claims'[n].by = claims[n].by /\ claims'[n].account = claims[n].account
               /\ Rank(claims'[n].status) >= Rank(claims[n].status)
    <3>1. /\ claims'[n].by = claims[n].by /\ claims'[n].account = claims[n].account
          /\ claims[n].status = "ready" /\ claims'[n].status = "consumed"
      BY <2>5, Zenon DEF Consumes, HasStatus
    <3> QED BY <3>1 DEF Rank
  <2> QED BY <1>2, <2>3, <2>4, <2>5, RowCases, ZenonT(30) DEF Inserts
<1> QED BY <1>1, <1>2

\* A claim only moves forward, keeps its start and its account, and is forgotten
\* only after it has expired, whatever order the webhook, the return, the polls and
\* the collector run in.
THEOREM ClaimsMoveForward == Spec => ClaimForward
<1> DEFINE F == \A n \in Nonce : claims[n] # None =>
                  IF claims'[n] = None THEN claims[n].expired
                  ELSE /\ claims'[n].by = claims[n].by
                       /\ Rank(claims'[n].status) >= Rank(claims[n].status)
                       /\ claims[n].account # None => claims'[n].account = claims[n].account
<1>1. Inv /\ [Next]_vars => [F]_vars
  BY ForwardStep, Zenon DEF Inv
<1> QED BY <1>1, CheckoutInvariant, PTL DEF Spec, ClaimForward
=============================================================================
