------------------------------ MODULE RelayHub ------------------------------
(***************************************************************************)
(* The relay's connection registry: the hubs of all relay instances         *)
(* (internal/relay/hub), the connection handlers that register and          *)
(* deregister sessions (internal/relay/server), the close bookkeeping of    *)
(* each session (internal/relay/session) and the backplane they share       *)
(* (internal/backplane, memory and redis).  Queues, frames and presence     *)
(* messages are added by RelayTraffic.                                      *)
(*                                                                          *)
(* One connection handler is one goroutine.  Each step of Register and      *)
(* Deregister that touches shared state is an action of its own, so that    *)
(* every interleaving of handlers, hub consumers and drains is explored.    *)
(*                                                                          *)
(* Abstractions:                                                            *)
(*  - a SlotKey (pair id, role) is an element of Key; PeerOf is the key of  *)
(*    the same pair with the opposite role;                                 *)
(*  - a RevocationEvent is the set of the keys whose sessions it matches,   *)
(*    whether by pair id or by account id;                                  *)
(*  - a slot's TTL is the flag "live" of its entry; time is not modelled    *)
(*    here;                                                                 *)
(*  - of the close codes, those a session closes itself with are one;       *)
(*  - a backplane call that fails without effect and whose error the caller *)
(*    ignores (a failed renewal) is a stuttering step.                      *)
(***************************************************************************)
EXTENDS Naturals, Sequences, FiniteSets

CONSTANTS
  Conn,          \* connection ids; a reconnecting client uses a new one
  Instance,      \* relay instance ids; a restarted process uses a new one
  Key,           \* slot keys
  PeerOf,        \* PeerOf[k]: the slot key of k's peer
  KeyOf,         \* KeyOf[c]: the slot key in the claims of c's token
  NoConn,        \* "no connection", "no instance"
  Redis,         \* TRUE: redis backplane; FALSE: in-memory backplane
  MayExpire,     \* TRUE: a slot's TTL may run out before it is renewed
  Crashable,     \* instances that may crash
  Drainable,     \* instances that may receive SIGTERM
  Scopes,        \* the revocation events the auth service may publish
  ChanSize       \* capacity of an instance's subscription channels

ASSUME HubAssumption ==
  /\ NoConn \notin Conn /\ NoConn \notin Instance
  /\ PeerOf \in [Key -> Key]
  /\ \A k \in Key : PeerOf[k] # k /\ PeerOf[PeerOf[k]] = k
  /\ KeyOf \in [Conn -> Key]
  /\ Redis \in BOOLEAN /\ MayExpire \in BOOLEAN
  /\ Crashable \subseteq Instance /\ Drainable \subseteq Instance
  /\ Scopes \subseteq SUBSET Key
  /\ ChanSize \in Nat \ {0}

VARIABLES
  pc,         \* pc[c]: where the handler of c stands
  inst,       \* inst[c]: the instance c is connected to
  displaced,  \* displaced[c]: the holder that c's claim displaced, until handled
  wasHolder,  \* wasHolder[c]: the result of c's CompareAndDelete
  closeCode,  \* closeCode[c]: the first code c was closed with
  slots,      \* slots[k]: the backplane's slot table
  local,      \* local[i][k]: the session index of instance i
  evictq,     \* evictq[i]: eviction channel of instance i
  revq,       \* revq[i]: revocation channel of instance i
  phase,      \* phase[i]: life cycle of the process
  newest,     \* history: the last connection that claimed the slot
  published,  \* history: the revocation events published so far
  mustCut     \* history: indexed sessions that a published event matches

connVars == <<pc, inst, displaced, wasHolder>>
histVars == <<newest, published, mustCut>>
vars == <<pc, inst, displaced, wasHolder, closeCode, slots, local, evictq, revq, phase,
          newest, published, mustCut>>

Free == [conn |-> NoConn, inst |-> NoConn, live |-> FALSE]
Entry == [conn : Conn, inst : Instance, live : BOOLEAN]

Open  == "open"
Codes == {"superseded", "revoked", "going_away", "self"}

PCs == {"idle", "verified", "notify", "supersede", "store", "announce",
        "serving", "dereg", "release", "offline", "done"}

\* CloseWith records the first code only (closeOnce).
CloseWith(c, code) == [closeCode EXCEPT ![c] = IF @ = Open THEN code ELSE @]

CloseEach(S, code) ==
  [c \in Conn |-> IF c \in S /\ closeCode[c] = Open THEN code ELSE closeCode[c]]

Goto(c, to) == pc' = [pc EXCEPT ![c] = to]
Move(c, from, to) == pc[c] = from /\ Goto(c, to)

----------------------------------------------------------------------------
(* Backplane channels.                                                     *)

\* An in-process channel takes a message if it is subscribed and has room;
\* pub/sub may lose the message in any case.
Publish(q, i, m) ==
  LET room == phase[i] = "up" /\ Len(q[i]) < ChanSize
  IN {r \in {q, [q EXCEPT ![i] = Append(@, m)]} : IF r = q THEN Redis \/ ~room ELSE room}

\* ctx of the server lifetime: canceled by SIGTERM.  The redis client fails
\* every call made with a canceled context; the in-memory backplane ignores it.
Reachable(i) == Redis => phase[i] = "up"

\* LookupInstance, for a caller on instance i: is the slot held elsewhere?
HeldElsewhere(k, i) == slots[k] # Free /\ slots[k].live /\ slots[k].inst # i

----------------------------------------------------------------------------
(* handleConnect and Hub.Register.                                         *)

\* handleConnect up to the accepted socket: refused while draining.  Bans, rate
\* limits and token verification only reject, which leaves the hub unchanged.
Connect(c, i) ==
  /\ phase[i] = "up"
  /\ Move(c, "idle", "verified")
  /\ inst' = [inst EXCEPT ![c] = i]
  /\ UNCHANGED <<displaced, wasHolder, closeCode, slots, evictq, revq, local, phase, histVars>>

\* ClaimSlot: atomic in both backplanes (mutex, Lua script).  A live holder with
\* another connection id is displaced.  The in-memory backplane notifies the
\* holder's instance under the same mutex, redis publishes afterwards.
ClaimSlot(c) ==
  LET k   == KeyOf[c]
      i   == inst[c]
      cur == slots[k]
      evicts == cur # Free /\ cur.live /\ cur.conn # c
  IN /\ pc[c] = "verified" /\ Reachable(i)
     /\ slots' = [slots EXCEPT ![k] = [conn |-> c, inst |-> i, live |-> TRUE]]
     /\ newest' = [newest EXCEPT ![k] = c]
     /\ \/ /\ ~evicts
           /\ Goto(c, "store")
           /\ UNCHANGED <<displaced, evictq>>
        \/ /\ evicts /\ cur.inst = i
           /\ Goto(c, "supersede")
           /\ displaced' = [displaced EXCEPT ![c] = cur]
           /\ UNCHANGED evictq
        \/ /\ evicts /\ cur.inst # i /\ Redis
           /\ Goto(c, "notify")
           /\ displaced' = [displaced EXCEPT ![c] = cur]
           /\ UNCHANGED evictq
        \/ /\ evicts /\ cur.inst # i /\ ~Redis
           /\ Goto(c, "store")
           /\ evictq' \in Publish(evictq, cur.inst, k)
           /\ UNCHANGED displaced
     /\ UNCHANGED <<inst, wasHolder, closeCode, local, revq, phase,
                    published, mustCut>>

\* ClaimSlot returns an error: the handler rejects the connection and returns
\* without Deregister.  A redis call may time out after the script has run.
ClaimFails(c) ==
  LET k == KeyOf[c]
  IN /\ Redis
     /\ Move(c, "verified", "done")
     /\ \/ UNCHANGED <<slots, newest>>
        \/ /\ phase[inst[c]] = "up"
           /\ slots' = [slots EXCEPT ![k] = [conn |-> c, inst |-> inst[c], live |-> TRUE]]
           /\ newest' = [newest EXCEPT ![k] = c]
     /\ UNCHANGED <<inst, displaced, wasHolder, closeCode, local, evictq, revq,
                    phase, published, mustCut>>

\* Redis: tell the displaced holder's instance, after the claim script.
NotifyEviction(c) ==
  /\ Move(c, "notify", "store")
  /\ evictq' \in Publish(evictq, displaced[c].inst, KeyOf[c])
  /\ displaced' = [displaced EXCEPT ![c] = Free]
  /\ UNCHANGED <<inst, wasHolder, closeCode, slots, local, revq, phase, histVars>>

\* Close a displaced holder of the same instance, if the index still has it.
Supersede(c) ==
  LET old == local[inst[c]][KeyOf[c]]
  IN /\ Move(c, "supersede", "store")
     /\ closeCode' = IF old = displaced[c].conn THEN CloseWith(old, "superseded") ELSE closeCode
     /\ displaced' = [displaced EXCEPT ![c] = Free]
     /\ UNCHANGED <<inst, wasHolder, slots, evictq, revq, local, phase, histVars>>

\* h.local.Store(key, s)
Store(c) ==
  /\ Move(c, "store", "announce")
  /\ local' = [local EXCEPT ![inst[c]][KeyOf[c]] = c]
  /\ UNCHANGED <<inst, displaced, wasHolder, closeCode, slots, evictq, revq, phase, histVars>>

\* announcePresence only queues messages: see RelayTraffic.
AnnouncePresence(c) ==
  /\ Move(c, "announce", "serving")
  /\ UNCHANGED <<inst, displaced, wasHolder, closeCode, slots, local, evictq, revq, phase, histVars>>

----------------------------------------------------------------------------
(* Session.Serve.                                                          *)

\* Mutation of RenewSlot: no ownership check, the renewal writes the slot anew.
RenewUnchecked(c) ==
  /\ pc[c] = "serving"
  /\ slots' = [slots EXCEPT ![KeyOf[c]] = [conn |-> c, inst |-> inst[c], live |-> TRUE]]
  /\ UNCHANGED <<connVars, closeCode, local, evictq, revq, phase, histVars>>

\* Mutation of RenewSlot: ErrNotSlotOwner is left for the next heartbeat.
RenewNoClose(c) ==
  /\ pc[c] = "serving" /\ slots[KeyOf[c]].conn = c
  /\ slots' = [slots EXCEPT ![KeyOf[c]].live = TRUE]
  /\ UNCHANGED <<connVars, closeCode, local, evictq, revq, phase, histVars>>

\* Heartbeat: a pong arrived, so the monitor renews the slot.  The in-memory
\* backplane renews an expired entry, in redis an expired entry is gone.  A
\* renewal in flight when the session is closed still takes effect.
RenewSlot(c) ==
  LET k == KeyOf[c]
  IN /\ pc[c] = "serving"
     /\ \/ /\ slots[k].conn = c
           /\ slots' = [slots EXCEPT ![k].live = TRUE]
           /\ UNCHANGED closeCode
        \/ /\ slots[k].conn # c
           /\ closeCode' = CloseWith(c, "superseded")
           /\ UNCHANGED slots
     /\ UNCHANGED <<connVars, local, evictq, revq, phase, histVars>>

\* The session is closed for a reason of its own: an undecodable frame, a write
\* error, two missed heartbeats, token expiry, or a write queue that its peer's
\* Route found full.
SelfClose(c) ==
  /\ pc[c] \in {"announce", "serving", "dereg"} /\ closeCode[c] = Open
  /\ closeCode' = CloseWith(c, "self")
  /\ UNCHANGED <<connVars, slots, local, evictq, revq, phase, histVars>>

\* Serve returns: the read pump ended, because the session was closed ...
Unwind(c) ==
  /\ closeCode[c] # Open
  /\ Move(c, "serving", "dereg")
  /\ UNCHANGED <<inst, displaced, wasHolder, closeCode, slots, evictq, revq, local, phase, histVars>>

\* ... or because the client went away.
ClientGone(c) ==
  /\ closeCode[c] = Open
  /\ Move(c, "serving", "dereg")
  /\ UNCHANGED <<inst, displaced, wasHolder, closeCode, slots, evictq, revq, local, phase, histVars>>

----------------------------------------------------------------------------
\* Hub.Run consumes its channels until its context is canceled; an item may
\* still be taken after that.
Consuming(i) == phase[i] # "down"

\* evictLocal closes whatever session the index holds under the key.
EvictLocal(i) ==
  /\ Consuming(i) /\ evictq[i] # <<>>
  /\ LET c == local[i][Head(evictq[i])]
     IN closeCode' = IF c # NoConn THEN CloseWith(c, "superseded") ELSE closeCode
  /\ evictq' = [evictq EXCEPT ![i] = Tail(@)]
  /\ UNCHANGED <<connVars, slots, revq, local, phase, histVars>>

\* revoke closes the indexed sessions that the event matches.
Matching(i, scope) == {local[i][k] : k \in scope} \ {NoConn}

Revoke(i) ==
  /\ Consuming(i) /\ revq[i] # <<>>
  /\ closeCode' = CloseEach(Matching(i, Head(revq[i])), "revoked")
  /\ revq' = [revq EXCEPT ![i] = Tail(@)]
  /\ UNCHANGED <<connVars, slots, evictq, local, phase, histVars>>

\* Mutation of PublishRevocation: the event reaches one subscriber only.
PublishToOne(scope) ==
  /\ scope \notin published
  /\ published' = published \cup {scope}
  /\ \E i \in Instance : revq' = [revq EXCEPT ![i] = Append(@, scope)]
  /\ mustCut' = mustCut \cup UNION {Matching(i, scope) : i \in Instance}
  /\ UNCHANGED <<connVars, closeCode, slots, evictq, local, phase, newest>>

\* The auth service publishes a revocation event to every instance.
PublishRevocation(scope) ==
  /\ scope \notin published
  /\ published' = published \cup {scope}
  /\ \E lost \in IF Redis THEN SUBSET Instance ELSE {{}} :
       revq' = [i \in Instance |->
                  IF phase[i] = "up" /\ i \notin lost /\ Len(revq[i]) < ChanSize
                  THEN Append(revq[i], scope) ELSE revq[i]]
  /\ mustCut' = mustCut \cup UNION {Matching(i, scope) : i \in Instance}
  /\ UNCHANGED <<connVars, closeCode, slots, evictq, local, phase, newest>>

----------------------------------------------------------------------------
(* Hub.Deregister.                                                         *)

\* Mutation of Deregister: the index entry is not deleted.
DeregisterKeepsIndex(c) ==
  /\ Move(c, "dereg", "release")
  /\ wasHolder' = [wasHolder EXCEPT ![c] = local[inst[c]][KeyOf[c]] = c]
  /\ UNCHANGED <<inst, displaced, closeCode, slots, local, evictq, revq, phase, histVars>>

\* CompareAndDelete on the local index.
Deregister(c) ==
  LET i == inst[c]
      k == KeyOf[c]
  IN /\ Move(c, "dereg", "release")
     /\ wasHolder' = [wasHolder EXCEPT ![c] = local[i][k] = c]
     /\ local' = [local EXCEPT ![i][k] = IF @ = c THEN NoConn ELSE @]
     /\ UNCHANGED <<inst, displaced, closeCode, slots, evictq, revq, phase, histVars>>

\* Mutations of ReleaseSlot: the slot is released whoever owns it, ...
ReleaseAny(c) ==
  /\ Move(c, "release", "offline")
  /\ slots' = [slots EXCEPT ![KeyOf[c]] = Free]
  /\ UNCHANGED <<inst, displaced, wasHolder, closeCode, local, evictq, revq, phase, histVars>>

\* ... only by a session that was still indexed.
ReleaseIfHolder(c) ==
  LET k == KeyOf[c]
  IN /\ Move(c, "release", "offline")
     /\ slots' = [slots EXCEPT ![k] = IF @.conn = c /\ wasHolder[c] THEN Free ELSE @]
     /\ UNCHANGED <<inst, displaced, wasHolder, closeCode, local, evictq, revq, phase, histVars>>

\* ReleaseSlot frees the slot only if c still owns it; its error is ignored.
ReleaseSlot(c) ==
  LET k == KeyOf[c]
  IN /\ Move(c, "release", "offline")
     /\ \/ /\ Reachable(inst[c])
           /\ slots' = [slots EXCEPT ![k] = IF @.conn = c THEN Free ELSE @]
        \/ /\ Redis
           /\ UNCHANGED slots
     /\ UNCHANGED <<inst, displaced, wasHolder, closeCode, local, evictq, revq,
                    phase, histVars>>

\* A session that was still indexed tells its peer: see RelayTraffic.
NotifyPeer(c) ==
  /\ Move(c, "offline", "done")
  /\ wasHolder' = [wasHolder EXCEPT ![c] = FALSE]
  /\ UNCHANGED <<inst, displaced, closeCode, slots, local, evictq, revq, phase, histVars>>

----------------------------------------------------------------------------
(* Time, drain and process exit.                                           *)

\* Mutation of Expire: the claim sets no TTL.
ExpireNever(k) == k \notin Key /\ UNCHANGED vars

\* A slot's TTL runs out.  Redis deletes the key; the in-memory entry stays and
\* is ignored by ClaimSlot and LookupInstance.
Expire(k) ==
  /\ MayExpire
  /\ slots[k] # Free /\ slots[k].live
  /\ slots' = [slots EXCEPT ![k] = IF Redis THEN Free ELSE [@ EXCEPT !.live = FALSE]]
  /\ UNCHANGED <<connVars, closeCode, local, evictq, revq, phase, histVars>>

Indexed(i) == {local[i][k] : k \in Key} \ {NoConn}

\* SIGTERM: the base context is canceled and Drain refuses new connections (and
\* queues a shutdown warning for every indexed session: see RelayTraffic).
Drain(i) ==
  /\ i \in Drainable /\ phase[i] = "up"
  /\ phase' = [phase EXCEPT ![i] = "draining"]
  /\ UNCHANGED <<connVars, closeCode, slots, evictq, revq, local, histVars>>

\* After the grace period Drain closes every indexed session.
CloseAll(i) ==
  /\ phase[i] = "draining"
  /\ phase' = [phase EXCEPT ![i] = "drained"]
  /\ closeCode' = CloseEach(Indexed(i), "going_away")
  /\ UNCHANGED <<connVars, slots, evictq, revq, local, histVars>>

\* The process ends: after the drain (http.Server.Shutdown does not wait for
\* hijacked connections) or by a crash.  Its handlers stop where they stand and
\* its sockets close; the slots they hold stay in redis (an in-memory backplane
\* ends with its process, and the model with it).
ProcessEnds(i) ==
  /\ Redis
  /\ phase[i] = "drained" \/ (i \in Crashable /\ phase[i] # "down")
  /\ phase' = [phase EXCEPT ![i] = "down"]
  /\ LET gone == {c \in Conn : inst[c] = i /\ pc[c] # "idle"}
     IN /\ pc' = [c \in Conn |-> IF c \in gone THEN "done" ELSE pc[c]]
        /\ displaced' = [c \in Conn |-> IF c \in gone THEN Free ELSE displaced[c]]
        /\ wasHolder' = [c \in Conn |-> IF c \in gone THEN FALSE ELSE wasHolder[c]]
  /\ local' = [local EXCEPT ![i] = [k \in Key |-> NoConn]]
  /\ evictq' = [evictq EXCEPT ![i] = <<>>]
  /\ revq' = [revq EXCEPT ![i] = <<>>]
  /\ UNCHANGED <<inst, closeCode, slots, histVars>>

----------------------------------------------------------------------------
Init ==
  /\ pc = [c \in Conn |-> "idle"]
  /\ inst = [c \in Conn |-> NoConn]
  /\ displaced = [c \in Conn |-> Free]
  /\ wasHolder = [c \in Conn |-> FALSE]
  /\ closeCode = [c \in Conn |-> Open]
  /\ slots = [k \in Key |-> Free]
  /\ local = [i \in Instance |-> [k \in Key |-> NoConn]]
  /\ evictq = [i \in Instance |-> <<>>]
  /\ revq = [i \in Instance |-> <<>>]
  /\ phase = [i \in Instance |-> "up"]
  /\ newest = [k \in Key |-> NoConn]
  /\ published = {}
  /\ mustCut = {}

Handler(c) ==
  \/ \E i \in Instance : Connect(c, i)
  \/ ClaimSlot(c) \/ ClaimFails(c) \/ NotifyEviction(c) \/ Supersede(c) \/ Store(c)
  \/ AnnouncePresence(c)
  \/ RenewSlot(c) \/ SelfClose(c) \/ Unwind(c) \/ ClientGone(c)
  \/ Deregister(c) \/ ReleaseSlot(c) \/ NotifyPeer(c)

Server(i) ==
  EvictLocal(i) \/ Revoke(i) \/ Drain(i) \/ CloseAll(i) \/ ProcessEnds(i)

Next ==
  \/ \E c \in Conn : Handler(c)
  \/ \E i \in Instance : Server(i)
  \/ \E k \in Key : Expire(k)
  \/ \E scope \in Scopes : PublishRevocation(scope)

Spec == Init /\ [][Next]_vars

----------------------------------------------------------------------------
(* Type invariant.                                                         *)

\* Type correctness of the handlers, of the slots and of the indexes.
TypeOK ==
  /\ pc \in [Conn -> PCs]
  /\ inst \in [Conn -> Instance \cup {NoConn}]
  /\ displaced \in [Conn -> Entry \cup {Free}]
  /\ wasHolder \in [Conn -> BOOLEAN]
  /\ closeCode \in [Conn -> Codes \cup {Open}]
  /\ slots \in [Key -> Entry \cup {Free}]
  /\ local \in [Instance -> [Key -> Conn \cup {NoConn}]]
  /\ evictq \in [Instance -> Seq(Key)] /\ \A i \in Instance : Len(evictq[i]) <= ChanSize
  /\ revq \in [Instance -> Seq(SUBSET Key)] /\ \A i \in Instance : Len(revq[i]) <= ChanSize
  /\ phase \in [Instance -> {"up", "draining", "drained", "down"}]
  /\ newest \in [Key -> Conn \cup {NoConn}]
  /\ published \subseteq Scopes
  /\ mustCut \subseteq Conn

----------------------------------------------------------------------------
(* Safety.                                                                 *)

\* A handler that has claimed its slot and not yet released it.
Holding == {"notify", "supersede", "store", "announce", "serving", "dereg", "release"}

\* The index never holds a dead session: what instance i finds under key k is a
\* session of that key and instance whose handler has stored it and not yet
\* deregistered it (Register / Deregister, hub.go).  Otherwise frames,
\* revocations and evictions would be applied to a session nobody serves while
\* the real one is unreachable.
IndexedIsServed ==
  \A i \in Instance, k \in Key :
    LET c == local[i][k]
    IN c # NoConn => /\ KeyOf[c] = k /\ inst[c] = i
                     /\ pc[c] \in {"announce", "serving", "dereg"}

\* Newest wins: whatever claims, renewals, releases and expiries interleave, the
\* slot is held by the last connection that claimed it or by nobody, so a
\* superseded connection never takes the slot back and never releases the
\* winner's (ClaimSlot, RenewSlot, ReleaseSlot of both backplanes).
NewestHolds ==
  \A k \in Key : slots[k] # Free => slots[k].conn = newest[k]

\* The newest connection keeps its slot: from its claim until its own ReleaseSlot
\* no loser's late release, renewal or failed claim takes the slot away.  (In
\* redis an expired key is gone, so there this holds while no TTL runs out.)
NewestKeepsSlot ==
  \A k \in Key :
    newest[k] # NoConn /\ pc[newest[k]] \in Holding => slots[k].conn = newest[k]

\* In process, without a crash, no slot outlives its handler: an entry of the
\* in-memory backplane belongs to a connection whose handler still has to run
\* ReleaseSlot (handleConnect's deferred Deregister).
NoLeakedSlot ==
  \A k \in Key : slots[k] # Free =>
    pc[slots[k].conn] \in Holding

\* The connection that claimed the slot last is never told that it was
\* superseded (close 4001 is final for the client SDK).
NewestNotSuperseded ==
  \A k \in Key : newest[k] # NoConn => closeCode[newest[k]] # "superseded"

----------------------------------------------------------------------------
(* Refinement: the registry implements the lease it promises.              *)

holder == [k \in Key |-> IF slots[k].live THEN slots[k].conn ELSE NoConn]
spent  == {c \in Conn : pc[c] \notin {"idle", "verified"}}

Lease == INSTANCE SlotLease WITH
  Conn <- Conn, Key <- Key, KeyOf <- KeyOf, NoConn <- NoConn,
  holder <- holder, newest <- newest, spent <- spent

\* Both backplanes, driven by the handlers of all instances, implement the
\* newest-wins lease: no renewal, release, expiry, failed claim or crash moves a
\* slot to a connection other than by that connection's own, only claim
\* (ClaimSlot, RenewSlot and ReleaseSlot of memory.go and redis.go).
ImplementsLease == Lease!Spec

----------------------------------------------------------------------------
(* What holds once nothing is in flight.                                   *)

Served(c) == pc[c] = "serving" /\ closeCode[c] = Open

\* Nothing is in flight, and the next heartbeat of every session will succeed.
Quiescent ==
  /\ \A c \in Conn : pc[c] \in {"idle", "done"} \/ (Served(c) /\ slots[KeyOf[c]].conn = c)
  /\ \A i \in Instance : evictq[i] = <<>> /\ revq[i] = <<>>

\* "Register claims the session's slot, evicts any prior holder, indexes the
\* session locally" (hub.go): once nothing is in flight, the session that owns a
\* slot is the one its instance's index finds under the slot's key.
OwnerIsIndexed ==
  Quiescent =>
    \A k \in Key : slots[k] # Free /\ Served(slots[k].conn) =>
      local[slots[k].inst][k] = slots[k].conn

\* A revocation closes the sessions it matches (hub.go revoke, FR-3.6): a session
\* that was indexed when the event was published is no longer served once the
\* event has been consumed.  The one way out is a concurrent registration that
\* took its index entry in between: see OwnerIsIndexed.
RevocationCuts ==
  Quiescent => \A c \in mustCut : Served(c) => local[inst[c]][KeyOf[c]] # c

\* Drain "closes all sessions going-away" (server.go): once a drained instance is
\* quiescent, it serves nobody.
DrainClosesAll ==
  Quiescent => \A c \in Conn : Served(c) => phase[inst[c]] # "drained"

----------------------------------------------------------------------------
(* Liveness.                                                               *)

\* What the code's scheduling justifies: a runnable handler goroutine eventually
\* takes its next step, an open session's heartbeat reaches the backplane in the
\* end (a session without heartbeats is closed: see SessionMonitor), the hub's consumer loop takes its queued items, and
\* the TTL of a slot whose handler is gone runs out.
Fairness ==
  /\ \A c \in Conn :
       /\ WF_vars(ClaimSlot(c) \/ ClaimFails(c)) /\ WF_vars(NotifyEviction(c))
       /\ WF_vars(Supersede(c)) /\ WF_vars(Store(c)) /\ WF_vars(AnnouncePresence(c))
       /\ WF_vars(RenewSlot(c)) /\ WF_vars(Unwind(c))
       /\ WF_vars(Deregister(c)) /\ WF_vars(ReleaseSlot(c)) /\ WF_vars(NotifyPeer(c))
  /\ \A i \in Instance : WF_vars(EvictLocal(i)) /\ WF_vars(Revoke(i))
  /\ \A k \in Key : WF_vars(Expire(k) /\ pc[slots[k].conn] = "done")

FairSpec == Spec /\ Fairness

\* Every connection but the last claimant of its slot is eventually closed, even
\* when the eviction notice is lost or the index no longer holds it: the failed
\* renewal closes it (session.go renew, SG-05).
LoserCloses ==
  \A c \in Conn : (pc[c] = "serving" /\ newest[KeyOf[c]] # c) ~> (pc[c] = "done")

\* A slot whose handler is gone (crash, or a claim or release that failed half
\* way) does not stay taken: it lapses or a new connection takes it over.
DeadSlotFrees ==
  \A k \in Key, c \in Conn :
    (slots[k].conn = c /\ pc[c] = "done") ~> (slots[k].conn # c \/ ~slots[k].live)
=============================================================================
