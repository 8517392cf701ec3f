--------------------------- MODULE AdmissionProofs ---------------------------
(***************************************************************************)
(* Sweeping is invisible and a new key is known after one refresh interval  *)
(* and one fetch timeout: proved for every burst, threshold, window, idle   *)
(* time, interval and timeout, and for any connections and keys.            *)
(***************************************************************************)
EXTENDS Admission, TLAPS

USE AdmissionAssumption, NoneAssumption

\* The entry of an address in the limiter is the one it would have if nothing were
\* ever swept, or it was swept, and that one is full.  An entry refills by one a
\* tick, so that one which has been idle for longer than Burst is full.
LimitInv ==
  /\ \/ bucket = trueBucket
     \/ bucket = None /\ trueBucket # None /\ trueBucket.tokens = Burst
  /\ bucket # None => bucket.tokens = Burst \/ bucket.tokens >= bucket.seen

\* The same for the tracker: what was swept is neither a ban nor a strike that
\* counts.
BanInv ==
  \/ ban = trueBan
  \/ ban = None /\ trueBan # None /\ trueBan.left = 0 /\ trueBan.age > StrikeWindow

SweepInv == TypeOK /\ LimitInv /\ BanInv

----------------------------------------------------------------------------
(* The operators on entries.                                               *)

LEMMA StrikeType ==
  ASSUME NEW e \in BanEntry \cup {None}
  PROVE  Strike(e) \in BanEntry
BY DEF Strike, BanEntry

LEMMA AgeBanType ==
  ASSUME NEW e \in BanEntry \cup {None}
  PROVE  AgeBan(e) \in BanEntry \cup {None}
BY DEF AgeBan, BanEntry

LEMMA AllowType ==
  ASSUME NEW e \in BucketEntry \cup {None}
  PROVE  Allow(e) \in BucketEntry
BY DEF Allow, Allows, Bucket, FullBucket, BucketEntry

LEMMA AgeBucketType ==
  ASSUME NEW e \in BucketEntry \cup {None}
  PROVE  AgeBucket(e) \in BucketEntry \cup {None}
BY DEF AgeBucket, BucketEntry

\* A strike cannot tell a swept entry from the stale one that was swept.
LEMMA StrikeStale ==
  ASSUME NEW e \in BanEntry, e.left = 0, e.age > StrikeWindow
  PROVE  Strike(e) = Strike(None)
BY DEF Strike, BanEntry

\* A request cannot tell a swept bucket from the full one that was swept.
LEMMA AllowFull ==
  ASSUME NEW e \in BucketEntry, e.tokens = Burst
  PROVE  Allow(e) = Allow(None)
BY DEF Allow, Allows, Bucket, FullBucket, BucketEntry

----------------------------------------------------------------------------
(* Type correctness.                                                       *)

\* The part of TypeOK that is about requests and keys.
LEMMA RequestsType ==
  ASSUME TypeOK, NEW c \in Conn, Answered(c)
  PROVE  /\ pc' \in [Conn -> {"idle", "limit", "verify", "fetch", "lookup", "unknown", "open"}]
         /\ req' \in [Conn -> [kid : Kid \cup {Malformed, None}, answer : (SUBSET Kid) \cup {None},
                              wait : 0..Timeout]]
BY DEF TypeOK, Answered, Goto, NoRequest

LEMMA InitType == Init => TypeOK
<1> SUFFICES ASSUME Init PROVE TypeOK
  OBVIOUS
<1>1. published \in (SUBSET Kid) \ {{}}
  BY DEF Init
<1>2. pubAge \in [Kid -> 0..(MaxLag + 1)]
  BY DEF Init, MaxLag
<1>3. NoRequest \in [kid : Kid \cup {Malformed, None}, answer : (SUBSET Kid) \cup {None}, wait : 0..Timeout]
  BY DEF NoRequest
<1> QED BY <1>1, <1>2, <1>3, Zenon DEF Init, TypeOK

LEMMA NextType ==
  ASSUME TypeOK, [Next]_vars
  PROVE  TypeOK'
<1> USE DEF limits, keys, requests, history
<1>1. ASSUME NEW c \in Conn, NEW k \in Kid \cup {Malformed}, Arrive(c, k) PROVE TypeOK'
  BY <1>1 DEF TypeOK, Arrive, Move, Goto
<1>2. ASSUME NEW c \in Conn, Limit(c) PROVE TypeOK'
  <2>1. Allow(bucket) \in BucketEntry /\ Allow(trueBucket) \in BucketEntry
    BY AllowType DEF TypeOK
  <2>2. CASE Answered(c)
    BY <1>2, <2>1, <2>2, RequestsType DEF TypeOK, Limit
  <2>3. CASE Goto(c, "verify") /\ UNCHANGED req
    BY <1>2, <2>1, <2>3 DEF TypeOK, Limit, Goto
  <2> QED BY <1>2, <2>2, <2>3 DEF Limit
<1>3. ASSUME NEW c \in Conn, Verify(c) PROVE TypeOK'
  <2>1. CASE Answered(c)
    BY <1>3, <2>1, RequestsType DEF TypeOK, Verify
  <2>2. CASE ~Answered(c)
    BY <1>3, <2>2 DEF TypeOK, Verify, Goto
  <2> QED BY <2>1, <2>2
<1>4. ASSUME NEW c \in Conn, FetchKeys(c) PROVE TypeOK'
  BY <1>4 DEF TypeOK, FetchKeys
<1>5. ASSUME NEW c \in Conn, StoreKeys(c) PROVE TypeOK'
  BY <1>5 DEF TypeOK, StoreKeys, Move, Goto, NoRequest
<1>6. ASSUME NEW c \in Conn, FetchFails(c) PROVE TypeOK'
  BY <1>6, RequestsType DEF TypeOK, FetchFails
<1>7. ASSUME NEW c \in Conn, Lookup(c) PROVE TypeOK'
  BY <1>7 DEF TypeOK, Lookup, Goto
<1>8. ASSUME NEW c \in Conn, RejectUnknown(c) PROVE TypeOK'
  BY <1>8, RequestsType DEF TypeOK, RejectUnknown
<1>9. ASSUME NEW c \in Conn, NEW violation \in BOOLEAN, EndSession(c, violation) PROVE TypeOK'
  BY <1>9, RequestsType, StrikeType DEF TypeOK, EndSession
<1>10. ASSUME NEW k \in Kid, Rotate(k) PROVE TypeOK'
  BY <1>10 DEF TypeOK, Rotate, MaxLag
<1>11. CASE SweepLimiters
  BY <1>11 DEF TypeOK, SweepLimiters, SweepBucket, SweepBan
<1>12. CASE Drain
  BY <1>12 DEF TypeOK, Drain
<1>13. CASE Tick
  <2>1. /\ ban' \in BanEntry \cup {None} /\ trueBan' \in BanEntry \cup {None}
        /\ bucket' \in BucketEntry \cup {None} /\ trueBucket' \in BucketEntry \cup {None}
    BY <1>13, AgeBanType, AgeBucketType DEF TypeOK, Tick
  <2>2. fetchAge' \in 0..MinWait \cup {None}
    BY <1>13 DEF TypeOK, Tick
  <2>3. pubAge' \in [Kid -> 0..(MaxLag + 1)]
    BY <1>13 DEF TypeOK, Tick, MaxLag
  <2>4. req' \in [Conn -> [kid : Kid \cup {Malformed, None}, answer : (SUBSET Kid) \cup {None},
                          wait : 0..Timeout]]
    BY <1>13 DEF TypeOK, Tick
  <2> QED BY <1>13, <2>1, <2>2, <2>3, <2>4 DEF TypeOK, Tick
<1>14. CASE UNCHANGED vars
  BY <1>14 DEF TypeOK, vars
<1> QED
  BY <1>1, <1>2, <1>3, <1>4, <1>5, <1>6, <1>7, <1>8, <1>9, <1>10, <1>11, <1>12, <1>13, <1>14 DEF Next

----------------------------------------------------------------------------
(* Sweeping.                                                               *)

LEMMA InitSweepInv == Init => SweepInv
BY InitType DEF Init, SweepInv, LimitInv, BanInv

\* Only Limit, SweepLimiters and Tick change a bucket.
LEMMA NextLimitInv ==
  ASSUME TypeOK, LimitInv, [Next]_vars
  PROVE  LimitInv'
<1>1. ASSUME NEW c \in Conn, Limit(c) PROVE LimitInv'
  <2>1. bucket' = Allow(bucket) /\ trueBucket' = Allow(trueBucket)
    BY <1>1 DEF Limit
  <2>2. bucket' = trueBucket'
    BY <2>1, AllowFull DEF TypeOK, LimitInv
  <2>3. bucket' \in BucketEntry /\ bucket'.seen = 0
    BY <2>1, AllowType DEF TypeOK, Allow
  <2> QED BY <2>2, <2>3 DEF LimitInv, BucketEntry
<1>2. CASE SweepLimiters
  <2>1. trueBucket' = trueBucket /\ bucket' = SweepBucket(bucket)
    BY <1>2 DEF SweepLimiters, history
  <2>2. CASE bucket # None /\ bucket.seen > Idle
    <3>1. bucket.tokens = Burst /\ trueBucket = bucket
      BY <2>2 DEF TypeOK, LimitInv, BucketEntry
    <3> QED BY <2>1, <2>2, <3>1 DEF SweepBucket, LimitInv
  <2>3. CASE ~(bucket # None /\ bucket.seen > Idle)
    BY <2>1, <2>3 DEF SweepBucket, LimitInv
  <2> QED BY <2>2, <2>3
<1>3. CASE Tick
  <2>1. bucket' = AgeBucket(bucket) /\ trueBucket' = AgeBucket(trueBucket)
    BY <1>3 DEF Tick
  <2>2. trueBucket \in BucketEntry /\ trueBucket.tokens = Burst
          => AgeBucket(trueBucket) # None /\ AgeBucket(trueBucket).tokens = Burst
    BY AgeBucketType DEF AgeBucket, BucketEntry
  <2>3. bucket \in BucketEntry => AgeBucket(bucket).tokens = Burst
                                  \/ AgeBucket(bucket).tokens >= AgeBucket(bucket).seen
    BY DEF AgeBucket, BucketEntry, LimitInv
  <2> QED BY <2>1, <2>2, <2>3 DEF LimitInv, TypeOK, AgeBucket
<1>4. CASE UNCHANGED <<bucket, trueBucket>>
  BY <1>4 DEF LimitInv
<1> QED
  BY <1>1, <1>2, <1>3, <1>4
  DEF Next, Arrive, Verify, FetchKeys, StoreKeys, FetchFails, Lookup, RejectUnknown, EndSession,
      Rotate, Drain, limits, history, vars

\* Only EndSession, SweepLimiters and Tick change the tracker.
LEMMA NextBanInv ==
  ASSUME TypeOK, BanInv, [Next]_vars
  PROVE  BanInv'
<1>1. ASSUME NEW c \in Conn, NEW violation \in BOOLEAN, EndSession(c, violation) PROVE BanInv'
  <2>1. CASE violation
    <3>1. ban' = Strike(ban) /\ trueBan' = Strike(trueBan)
      BY <1>1, <2>1 DEF EndSession
    <3> QED BY <3>1, StrikeStale DEF TypeOK, BanInv
  <2>2. CASE ~violation
    BY <1>1, <2>2 DEF EndSession, BanInv
  <2> QED BY <2>1, <2>2
<1>2. CASE SweepLimiters
  <2>1. trueBan' = trueBan /\ ban' = SweepBan(ban)
    BY <1>2 DEF SweepLimiters, history
  <2> QED BY <2>1 DEF SweepBan, Banned, BanInv, TypeOK, BanEntry
<1>3. CASE Tick
  <2>1. ban' = AgeBan(ban) /\ trueBan' = AgeBan(trueBan)
    BY <1>3 DEF Tick
  <2>2. trueBan \in BanEntry /\ trueBan.left = 0 /\ trueBan.age > StrikeWindow
          => AgeBan(trueBan) # None /\ AgeBan(trueBan).left = 0 /\ AgeBan(trueBan).age > StrikeWindow
    BY AgeBanType DEF AgeBan, BanEntry
  <2> QED BY <2>1, <2>2 DEF BanInv, TypeOK, AgeBan
<1>4. CASE UNCHANGED <<ban, trueBan>>
  BY <1>4 DEF BanInv
<1> QED
  BY <1>1, <1>2, <1>3, <1>4
  DEF Next, Arrive, Limit, Verify, FetchKeys, StoreKeys, FetchFails, Lookup, RejectUnknown,
      Rotate, Drain, limits, history, vars

----------------------------------------------------------------------------

\* SweepInv is an invariant of the front door: type correctness, and what sweeping
\* may have removed from the limiter and from the tracker.
THEOREM SweepInvariant == Spec => []SweepInv
<1>1. Init => SweepInv
  BY InitSweepInv
<1>2. SweepInv /\ [Next]_vars => SweepInv'
  BY NextType, NextLimitInv, NextBanInv DEF SweepInv
<1> QED BY <1>1, <1>2, PTL DEF Spec

\* Sweeping idle buckets (KeyedLimiter.Sweep) never gives an address more requests
\* than burst and rate allow, if the idle time covers the refill of a bucket.
THEOREM LimitKept == Spec => []SweepKeepsLimit
<1>1. SweepInv => SweepKeepsLimit
  BY DEF SweepInv, LimitInv, SweepKeepsLimit, Bucket, FullBucket
<1> QED BY <1>1, SweepInvariant, PTL

\* Sweeping the tracker (BanTracker.Sweep) ends no ban and forgets no strike that
\* counts.
THEOREM BanKept == Spec => []SweepKeepsBan
<1>1. SweepInv => SweepKeepsBan
  BY DEF SweepInv, BanInv, SweepKeepsBan, Banned
<1> QED BY <1>1, SweepInvariant, PTL

----------------------------------------------------------------------------
(* Key rotation.                                                           *)

\* A key that is served and was not when a fetch was answered is younger than that
\* fetch.
AnswerLag ==
  \A c \in Conn :
    /\ pc[c] # "fetch" => req[c].answer = None
    /\ req[c].answer # None => \A k \in published \ req[c].answer : pubAge[k] <= req[c].wait

\* So a key that the cache lacks is younger than the fetch the cache came from,
\* which began at most Timeout before it was stored,
CacheLag == Fresh => \A k \in published \ cache : pubAge[k] <= Timeout + fetchAge

\* and a request that is past the refresh looks into a cache that was stored, or
\* found fresh, within this tick.
LookupLag ==
  (\E c \in Conn : pc[c] = "lookup") => \A k \in published \ cache : pubAge[k] <= MaxLag

LagInv == AnswerLag /\ CacheLag /\ LookupLag /\ RotationLag

LEMMA InitLagInv == Init => LagInv
BY DEF Init, LagInv, AnswerLag, CacheLag, LookupLag, RotationLag, Fresh, NoRequest

\* A request that ends, or goes on outside the refresh, lags behind nothing.
LEMMA RequestLag ==
  ASSUME TypeOK, LagInv, NEW c \in Conn, UNCHANGED keys,
         \E to \in {"idle", "limit", "verify", "fetch", "open"} : Goto(c, to),
         \/ req' = req /\ pc[c] # "fetch"
         \/ Answered(c)
         \/ \E k \in Kid \cup {Malformed} : pc[c] = "idle" /\ req' = [req EXCEPT ![c].kid = k]
  PROVE  LagInv'
<1>1. \A d \in Conn : d # c => pc'[d] = pc[d] /\ req'[d] = req[d]
  BY DEF TypeOK, Goto, Answered
<1>2. pc'[c] \notin {"lookup", "unknown"} /\ req'[c].answer = None
  BY DEF TypeOK, Goto, Answered, NoRequest, LagInv, AnswerLag
<1> QED BY <1>1, <1>2 DEF LagInv, AnswerLag, CacheLag, LookupLag, RotationLag, Fresh, keys, MaxLag

LEMMA NextLagInv ==
  ASSUME TypeOK, LagInv, [Next]_vars
  PROVE  LagInv'
<1> USE DEF LagInv
<1>1. ASSUME NEW c \in Conn, NEW k \in Kid \cup {Malformed}, Arrive(c, k) PROVE LagInv'
  BY <1>1, RequestLag, Zenon DEF Arrive, Move
<1>2. ASSUME NEW c \in Conn, Limit(c) PROVE LagInv'
  BY <1>2, RequestLag DEF Limit, Answered
<1>3. ASSUME NEW c \in Conn, Verify(c) PROVE LagInv'
  <2>1. CASE ~Goto(c, "lookup")
    BY <1>3, <2>1, RequestLag DEF Verify, Answered
  <2>2. CASE Goto(c, "lookup")
    <3>1. Fresh /\ UNCHANGED <<keys, req>>
      BY <1>3, <2>2 DEF Verify, Answered, Goto, TypeOK
    <3>2. \A k \in published \ cache : pubAge[k] <= MaxLag
      <4>1. fetchAge \in Int /\ fetchAge < MinWait
        BY <3>1 DEF TypeOK, Fresh
      <4> QED BY <3>1, <4>1 DEF CacheLag, MaxLag, TypeOK
    <3> QED BY <1>3, <2>2, <3>1, <3>2
            DEF Verify, Goto, TypeOK, AnswerLag, CacheLag, LookupLag, RotationLag, Fresh, keys
  <2> QED BY <2>1, <2>2
<1>4. ASSUME NEW c \in Conn, FetchKeys(c) PROVE LagInv'
  <2>1. AnswerLag'
    BY <1>4 DEF FetchKeys, TypeOK, AnswerLag, keys
  <2>2. \A d \in Conn : req'[d].kid = req[d].kid
    BY <1>4 DEF FetchKeys, TypeOK
  <2> QED BY <1>4, <2>1, <2>2 DEF FetchKeys, CacheLag, LookupLag, RotationLag, Fresh, keys
<1>5. ASSUME NEW c \in Conn, StoreKeys(c) PROVE LagInv'
  <2>1. /\ cache' = req[c].answer /\ fetchAge' = 0 /\ UNCHANGED <<published, pubAge>>
        /\ pc' = [pc EXCEPT ![c] = "lookup"]
        /\ req' = [req EXCEPT ![c] = [kid |-> req[c].kid, answer |-> None, wait |-> 0]]
    <3>1. [NoRequest EXCEPT !.kid = req[c].kid] = [kid |-> req[c].kid, answer |-> None, wait |-> 0]
      BY DEF NoRequest
    <3> QED BY <1>5, <3>1, Zenon DEF StoreKeys, Move, Goto
  <2>2. \A k \in published \ cache' : pubAge[k] <= Timeout
    BY <1>5, <2>1 DEF StoreKeys, AnswerLag, TypeOK
  <2>3. AnswerLag'
    BY <2>1 DEF AnswerLag, TypeOK
  <2>4. CacheLag' /\ LookupLag'
    BY <2>1, <2>2 DEF CacheLag, LookupLag, MaxLag, TypeOK
  <2>5. RotationLag'
    BY <2>1 DEF RotationLag, TypeOK
  <2> QED BY <2>3, <2>4, <2>5
<1>6. ASSUME NEW c \in Conn, FetchFails(c) PROVE LagInv'
  BY <1>6, RequestLag, Zenon DEF FetchFails, Answered
<1>7. ASSUME NEW c \in Conn, Lookup(c) PROVE LagInv'
  <2>1. AnswerLag'
    BY <1>7 DEF Lookup, Goto, TypeOK, AnswerLag, keys
  <2>2. RotationLag'
    BY <1>7 DEF Lookup, Goto, TypeOK, LookupLag, RotationLag, keys
  <2>3. CacheLag' /\ LookupLag'
    BY <1>7 DEF Lookup, Goto, TypeOK, CacheLag, LookupLag, Fresh, keys
  <2> QED BY <2>1, <2>2, <2>3
<1>8. ASSUME NEW c \in Conn, RejectUnknown(c) PROVE LagInv'
  BY <1>8, RequestLag, Zenon DEF RejectUnknown, Answered
<1>9. ASSUME NEW c \in Conn, NEW violation \in BOOLEAN, EndSession(c, violation) PROVE LagInv'
  BY <1>9, RequestLag, Zenon DEF EndSession, Answered
<1>10. ASSUME NEW k \in Kid, Rotate(k) PROVE LagInv'
  <2>1. \A j \in published' : pubAge'[j] = 0 \/ (j \in published /\ pubAge'[j] = pubAge[j])
    BY <1>10 DEF Rotate, TypeOK
  <2>2. UNCHANGED <<cache, fetchAge, pc, req>>
    BY <1>10 DEF Rotate, requests
  <2>3. AnswerLag'
    BY <2>1, <2>2 DEF AnswerLag, TypeOK
  <2>4. CacheLag'
    BY <2>1, <2>2 DEF CacheLag, Fresh, TypeOK
  <2>5. LookupLag' /\ RotationLag'
    BY <2>1, <2>2 DEF LookupLag, RotationLag, MaxLag
  <2> QED BY <2>3, <2>4, <2>5
<1>11. CASE Tick
  <2>1. /\ \A c \in Conn : pc[c] \notin {"lookup", "unknown"}
        /\ UNCHANGED <<published, cache, pc>>
        /\ \A k \in published : pubAge'[k] \in Int /\ pubAge'[k] <= pubAge[k] + 1
        /\ fetchAge' = IF fetchAge = None \/ fetchAge >= MinWait THEN fetchAge ELSE fetchAge + 1
    BY <1>11 DEF Tick, TypeOK, MaxLag
  <2>2. \A c \in Conn : /\ req'[c].answer = req[c].answer
                        /\ pc[c] = "fetch" => req'[c].wait = req[c].wait + 1
    BY <1>11 DEF Tick, TypeOK
  <2>3. AnswerLag'
    BY <2>1, <2>2 DEF AnswerLag, TypeOK
  <2>4. CacheLag'
    BY <2>1 DEF CacheLag, Fresh, TypeOK
  <2>5. LookupLag' /\ RotationLag'
    BY <2>1 DEF LookupLag, RotationLag
  <2> QED BY <2>3, <2>4, <2>5
<1>12. CASE UNCHANGED <<keys, requests>>
  BY <1>12 DEF keys, requests, AnswerLag, CacheLag, LookupLag, RotationLag, Fresh
<1> QED
  BY <1>1, <1>2, <1>3, <1>4, <1>5, <1>6, <1>7, <1>8, <1>9, <1>10, <1>11, <1>12
  DEF Next, SweepLimiters, Drain, vars

\* A token is refused as unknown_key only while its key is younger than the refresh
\* interval and the fetch timeout together (JWKSSource.PublicKey and refresh), for
\* all intervals, timeouts, keys and numbers of overlapping fetches.
THEOREM KeysCatchUp == Spec => []RotationLag
<1>1. Init => TypeOK /\ LagInv
  BY InitType, InitLagInv
<1>2. TypeOK /\ LagInv /\ [Next]_vars => TypeOK' /\ LagInv'
  BY NextType, NextLagInv
<1>3. LagInv => RotationLag
  BY DEF LagInv
<1> QED BY <1>1, <1>2, <1>3, PTL DEF Spec
=============================================================================
