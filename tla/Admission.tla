------------------------------ MODULE Admission ------------------------------
(***************************************************************************)
(* The relay's front door (relay/server/connect.go): what a connection      *)
(* request passes before it reaches the hub.  The ban tracker and the rate  *)
(* limiter of its source address (internal/ratelimit), then the token check *)
(* against the cached key set of the auth service (internal/token), which   *)
(* is fetched again on a miss, at most once in MinWait.                     *)
(*                                                                          *)
(* All requests come from one address.  Time passes in ticks; a time stamp  *)
(* is kept as its age, or as the time left to it, up to the age from which  *)
(* on the code cannot tell the difference.  Time therefore never ends.      *)
(* A token is known by the kid it was signed under; one that is malformed,  *)
(* expired or badly signed is refused like a request without a token and    *)
(* is the case Malformed.                                                   *)
(***************************************************************************)
EXTENDS Integers, FiniteSets

CONSTANTS
  Conn,         \* connections, each of them tried again and again
  Kid,          \* key ids the auth service may publish
  Malformed,    \* the kid of a request that no key can verify
  Threshold,    \* strikes that earn a ban
  StrikeWindow, \* ticks within which they count
  BanWindow,    \* ticks a ban lasts
  Burst,        \* size of the token bucket, refilled by one a tick
  Idle,         \* ticks after which an unused bucket may be swept
  MinWait,      \* ticks between fetches of the key set
  Timeout,      \* ticks a fetch may take
  None

ASSUME AdmissionAssumption ==
  /\ Threshold \in Nat \ {0} /\ StrikeWindow \in Nat /\ BanWindow \in Nat \ {0}
  /\ Burst \in Nat \ {0} /\ MinWait \in Nat /\ Timeout \in Nat
  /\ Idle \in Nat /\ Idle >= Burst
  /\ Malformed \notin Kid

VARIABLES
  draining,  \* the server refuses new connections
  ban,       \* the address's entry in the BanTracker, or None
  bucket,    \* its entry in the KeyedLimiter, or None
  published, \* the key ids the auth service serves
  pubAge,    \* pubAge[k]: ticks since k was last published
  cache,     \* JWKSSource.keys
  fetchAge,  \* ticks since lastFetch, or None while that is zero
  pc,        \* pc[c]: the next step of c's request
  req,       \* req[c]: its kid, the key set it has been answered, the ticks it waits
  trueBan,   \* history: the BanTracker's entry if nothing were ever swept
  trueBucket \* history: the same for the KeyedLimiter

limits == <<ban, bucket>>
keys == <<published, pubAge, cache, fetchAge>>
requests == <<pc, req>>
history == <<trueBan, trueBucket>>
vars == <<draining, limits, keys, requests, history>>

MaxLag == MinWait + Timeout

BanEntry    == [strikes : 0..(Threshold - 1), age : 0..(StrikeWindow + 1), left : 0..BanWindow]
BucketEntry == [tokens : 0..Burst, seen : 0..(Idle + 1)]
FullBucket  == [tokens |-> Burst, seen |-> 0]
NoRequest   == [kid |-> None, answer |-> None, wait |-> 0]

\* A missing entry of a map is told apart from every entry.
ASSUME NoneAssumption == None \notin BanEntry \cup BucketEntry

Init ==
  /\ draining = FALSE
  /\ ban = None /\ bucket = None
  /\ \E k \in Kid : published = {k}
  /\ pubAge = [k \in Kid |-> 0]
  /\ cache = {} /\ fetchAge = None
  /\ pc = [c \in Conn |-> "idle"]
  /\ req = [c \in Conn |-> NoRequest]
  /\ trueBan = None /\ trueBucket = None

Goto(c, to) == pc' = [pc EXCEPT ![c] = to]
Move(c, from, to) == pc[c] = from /\ Goto(c, to)
Answered(c) == Goto(c, "idle") /\ req' = [req EXCEPT ![c] = NoRequest]

----------------------------------------------------------------------------
(* BanTracker.                                                             *)

\* left > 0: now is before bannedUntil.  That falls between two ticks, so that left
\* = 0 is after it.
Banned(e) == e # None /\ e.left > 0

\* Strike: the entry after one more offense.  Strikes of a stale window do not count.
Strike(e) ==
  LET old   == IF e = None THEN [strikes |-> 0, age |-> 0, left |-> 0] ELSE e
      stale == old.left = 0 /\ old.age > StrikeWindow
      n     == IF stale THEN 1 ELSE old.strikes + 1
  IN IF n >= Threshold
     THEN [strikes |-> 0, age |-> 0, left |-> BanWindow]
     ELSE [strikes |-> n, age |-> IF stale THEN 0 ELSE old.age, left |-> old.left]

\* Mutant: every entry that is not a ban is swept.
SweepStrikes(e) == IF e # None /\ ~Banned(e) THEN None ELSE e
SweepBan(e) == IF e # None /\ ~Banned(e) /\ e.age > StrikeWindow THEN None ELSE e

AgeBan(e) ==
  IF e = None THEN None
  ELSE [strikes |-> e.strikes, age |-> IF e.age > StrikeWindow THEN e.age ELSE e.age + 1,
        left |-> IF e.left = 0 THEN 0 ELSE e.left - 1]

----------------------------------------------------------------------------
(* KeyedLimiter.                                                           *)

Bucket(e) == IF e = None THEN FullBucket ELSE e
Allows(e) == Bucket(e).tokens > 0
\* Allow touches the entry whether or not it has a token left.
Allow(e) == [tokens |-> IF Allows(e) THEN Bucket(e).tokens - 1 ELSE 0, seen |-> 0]
\* Mutant: a bucket that is not in use is swept, full or not.
SweepUnused(e) == IF e # None /\ e.seen > 0 THEN None ELSE e
SweepBucket(e) == IF e # None /\ e.seen > Idle THEN None ELSE e

AgeBucket(e) ==
  IF e = None THEN None
  ELSE [tokens |-> IF e.tokens = Burst THEN Burst ELSE e.tokens + 1,
        seen |-> IF e.seen > Idle THEN e.seen ELSE e.seen + 1]

\* sweepLimiters, once a minute.
SweepLimiters ==
  /\ bucket' = SweepBucket(bucket) /\ ban' = SweepBan(ban)
  /\ limits' # limits
  /\ UNCHANGED <<draining, keys, requests, history>>

----------------------------------------------------------------------------
(* handleConnect.                                                          *)

\* A request arrives with a token signed under k; the ban is looked up.  Refused
\* requests leave no trace: a draining server's, and a banned address's.
Arrive(c, k) ==
  /\ ~draining /\ ~Banned(ban)
  /\ Move(c, "idle", "limit")
  /\ req' = [req EXCEPT ![c].kid = k]
  /\ UNCHANGED <<draining, limits, keys, history>>

\* The address takes a token from its bucket, or is refused.
Limit(c) ==
  /\ pc[c] = "limit"
  /\ bucket' = Allow(bucket) /\ trueBucket' = Allow(trueBucket)
  /\ IF Allows(bucket) THEN Goto(c, "verify") /\ UNCHANGED req ELSE Answered(c)
  /\ UNCHANGED <<draining, ban, keys, trueBan>>

\* Verify: a kid in the cache is good; otherwise the key set is refreshed, unless
\* it was fetched less than MinWait ago.  A request without a usable token never
\* gets to the cache.
Fresh == fetchAge # None /\ fetchAge < MinWait
Verify(c) ==
  /\ pc[c] = "verify"
  /\ \/ req[c].kid = Malformed /\ Answered(c)
     \/ req[c].kid \in cache /\ Goto(c, "open") /\ UNCHANGED req
     \/ req[c].kid \in Kid \ cache /\ Goto(c, IF Fresh THEN "lookup" ELSE "fetch") /\ UNCHANGED req
  /\ UNCHANGED <<draining, limits, keys, history>>

\* refresh: the auth service answers with the keys it serves at that moment,
FetchKeys(c) ==
  /\ pc[c] = "fetch" /\ req[c].answer = None
  /\ req' = [req EXCEPT ![c].answer = published]
  /\ UNCHANGED <<draining, limits, keys, pc, history>>

\* and the answer becomes the cache when it has been read.
StoreKeys(c) ==
  /\ req[c].answer # None
  /\ Move(c, "fetch", "lookup")
  /\ cache' = req[c].answer /\ fetchAge' = 0
  /\ req' = [req EXCEPT ![c] = [NoRequest EXCEPT !.kid = req[c].kid]]
  /\ UNCHANGED <<draining, limits, published, pubAge, history>>

\* Mutant: a failed fetch counts as one.
FetchFailsFresh(c) ==
  /\ pc[c] = "fetch" /\ Answered(c) /\ fetchAge' = 0
  /\ UNCHANGED <<draining, limits, published, pubAge, cache, history>>

\* The fetch fails or times out: the request is refused, the cache as it was.
FetchFails(c) ==
  /\ pc[c] = "fetch"
  /\ Answered(c)
  /\ UNCHANGED <<draining, limits, keys, history>>

\* The second look into the cache decides.
Lookup(c) ==
  /\ pc[c] = "lookup"
  /\ IF req[c].kid \in cache THEN Goto(c, "open") ELSE Goto(c, "unknown")
  /\ UNCHANGED <<draining, limits, keys, req, history>>

\* The reason unknown_key is returned.
RejectUnknown(c) ==
  /\ pc[c] = "unknown"
  /\ Answered(c)
  /\ UNCHANGED <<draining, limits, keys, history>>

\* The session ends; a protocol violation (close 4005) strikes the address.
EndSession(c, violation) ==
  /\ pc[c] = "open"
  /\ Answered(c)
  /\ ban' = IF violation THEN Strike(ban) ELSE ban
  /\ trueBan' = IF violation THEN Strike(trueBan) ELSE trueBan
  /\ UNCHANGED <<draining, bucket, keys, trueBucket>>

Drain ==
  /\ ~draining /\ draining' = TRUE
  /\ UNCHANGED <<limits, keys, requests, history>>

----------------------------------------------------------------------------
(* The auth service and the clock.                                         *)

\* A new key is published beside the others, or an old one is withdrawn.
Rotate(k) ==
  /\ published' = IF k \in published THEN published \ {k} ELSE published \cup {k}
  /\ published' # {}
  /\ pubAge' = [pubAge EXCEPT ![k] = 0]
  /\ UNCHANGED <<draining, limits, cache, fetchAge, requests, history>>

\* The client's timeout ends every fetch before the clock passes it; a request
\* that has looked into the cache, or has its answer, goes on within the tick.
Tick ==
  /\ \A c \in Conn : pc[c] \notin {"lookup", "unknown"}
  /\ \A c \in Conn : pc[c] = "fetch" => req[c].wait < Timeout
  /\ ban' = AgeBan(ban) /\ trueBan' = AgeBan(trueBan)
  /\ bucket' = AgeBucket(bucket) /\ trueBucket' = AgeBucket(trueBucket)
  /\ fetchAge' = IF fetchAge = None \/ fetchAge >= MinWait THEN fetchAge ELSE fetchAge + 1
  /\ pubAge' = [k \in Kid |-> IF k \in published /\ pubAge[k] <= MaxLag THEN pubAge[k] + 1 ELSE pubAge[k]]
  /\ req' = [c \in Conn |-> IF pc[c] = "fetch" THEN [req[c] EXCEPT !.wait = @ + 1] ELSE req[c]]
  /\ UNCHANGED <<draining, published, cache, pc>>

Next ==
  \/ \E c \in Conn, k \in Kid \cup {Malformed} : Arrive(c, k)
  \/ \E c \in Conn :
       \/ Limit(c) \/ Verify(c) \/ FetchKeys(c) \/ StoreKeys(c) \/ FetchFails(c)
       \/ Lookup(c) \/ RejectUnknown(c)
       \/ \E violation \in BOOLEAN : EndSession(c, violation)
  \/ \E k \in Kid : Rotate(k)
  \/ SweepLimiters \/ Drain \/ Tick

Spec == Init /\ [][Next]_vars

----------------------------------------------------------------------------
(* Properties.                                                             *)

\* Type correctness of the limiter, tracker and cache entries.
TypeOK ==
  /\ draining \in BOOLEAN
  /\ ban \in BanEntry \cup {None} /\ trueBan \in BanEntry \cup {None}
  /\ bucket \in BucketEntry \cup {None} /\ trueBucket \in BucketEntry \cup {None}
  /\ published \in (SUBSET Kid) \ {{}} /\ cache \subseteq Kid
  /\ pubAge \in [Kid -> 0..(MaxLag + 1)]
  /\ fetchAge \in 0..MinWait \cup {None}
  /\ pc \in [Conn -> {"idle", "limit", "verify", "fetch", "lookup", "unknown", "open"}]
  /\ req \in [Conn -> [kid : Kid \cup {Malformed, None}, answer : (SUBSET Kid) \cup {None}, wait : 0..Timeout]]

\* Sweeping is invisible to the rate limit: a bucket is dropped only when it is
\* full again, so that an address never gets more than burst and rate allow.
SweepKeepsLimit == Bucket(bucket).tokens = Bucket(trueBucket).tokens

\* Sweeping is invisible to bans: it ends none early, and it forgets no strike that
\* still counts, so that the same offenses lead to the same bans.
SweepKeepsBan ==
  /\ Banned(ban) = Banned(trueBan)
  /\ Banned(ban) => ban.left = trueBan.left

\* A token is refused as unknown_key only while its key is new: once a key has been
\* served for longer than the refresh interval and the fetch timeout, every relay
\* that is asked knows it, whatever fetches fail, overlap or end out of order.
RotationLag == \A c \in Conn : pc[c] = "unknown" /\ req[c].kid \in published => pubAge[req[c].kid] <= MaxLag
=============================================================================
