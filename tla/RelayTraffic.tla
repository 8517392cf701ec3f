---------------------------- MODULE RelayTraffic ----------------------------
(***************************************************************************)
(* Frames and presence on top of the connection registry: each session's    *)
(* bounded write queue (internal/relay/session), Route, announcePresence    *)
(* and the peer_offline notice of the hub (internal/relay/hub), and the     *)
(* backplane's routed-frame channel.  Every action of RelayHub is an action *)
(* here, joined with what the same code does to the queues.                 *)
(*                                                                          *)
(* A frame is its sender and its number; a sys or error message is its      *)
(* kind.  A Load from the index and the Enqueue it is followed by are one   *)
(* step.                                                                    *)
(***************************************************************************)
EXTENDS RelayHub

CONSTANTS
  OutQueueSize,  \* capacity of a session's write queue
  MaxFrames      \* bound: frames a client sends on one connection

ASSUME TrafficAssumption == OutQueueSize \in Nat \ {0} /\ MaxFrames \in Nat

VARIABLES
  out,     \* out[c]: write queue of the session
  frameq,  \* frameq[i]: routed-frame channel of instance i
  sent,    \* sent[c]: frames read from c so far
  view,    \* the last presence message the client of c received
  recv     \* the frames the client of c received

trafficVars == <<out, frameq, sent, view, recv>>
allVars == <<vars, trafficVars>>

Presence  == {"peer_online", "peer_offline"}
Sys(kind) == [kind |-> kind, from |-> NoConn, n |-> 0]
Msg(c, n) == [kind |-> "msg", from |-> c, n |-> n]
Message   == [kind : Presence \cup {"shutdown", "error"}, from : {NoConn}, n : {0}]
               \cup [kind : {"msg"}, from : Conn, n : 1..MaxFrames]

\* Mutation of Enqueue: the queue is not bounded.
EnqueueUnbounded(c, m) ==
  IF pc[c] \in {"dereg", "release", "offline", "done"}
  THEN {[ok |-> b, q |-> out[c]] : b \in BOOLEAN}
  ELSE {[ok |-> TRUE, q |-> Append(out[c], m)]}

\* Enqueue is a select over "room in the queue", "context canceled" and a
\* default: the possible results, and the queue each one leaves behind.  Nobody
\* drains the queue of a session whose Serve has returned, so it is kept empty.
Enqueue(c, m) ==
  IF pc[c] \in {"dereg", "release", "offline", "done"}
  THEN {[ok |-> b, q |-> out[c]] : b \in BOOLEAN}
  ELSE {r \in {[ok |-> TRUE, q |-> Append(out[c], m)], [ok |-> FALSE, q |-> out[c]]} :
          IF r.ok THEN Len(out[c]) < OutQueueSize
                  ELSE Len(out[c]) = OutQueueSize \/ closeCode[c] # Open}

\* SendSys and SendError to c, whose result their callers ignore.
Send(c, m) == \E r \in Enqueue(c, m) : out' = [out EXCEPT ![c] = r.q]

----------------------------------------------------------------------------
(* Presence.                                                               *)

\* announcePresence: a local peer and c are both told; for a peer that the
\* backplane places on another instance only c is told.  The redis lookup fails
\* when the server's context is canceled, and may fail at any time.
Announce(c) ==
  LET k == PeerOf[KeyOf[c]]
      p == local[inst[c]][k]
      remote == HeldElsewhere(k, inst[c])
  IN /\ AnnouncePresence(c)
     /\ \/ /\ p # NoConn
           /\ \E rc \in Enqueue(c, Sys("peer_online")), rp \in Enqueue(p, Sys("peer_online")) :
                out' = [out EXCEPT ![c] = rc.q, ![p] = rp.q]
        \/ p = NoConn /\ remote /\ Reachable(inst[c]) /\ Send(c, Sys("peer_online"))
        \/ p = NoConn /\ (remote => Redis) /\ UNCHANGED out
     /\ UNCHANGED <<frameq, sent, view, recv>>

\* The last step of Deregister: a session that was still indexed tells the peer
\* that the index of the same instance holds now.
PeerOffline(c) ==
  LET p == local[inst[c]][PeerOf[KeyOf[c]]]
  IN /\ NotifyPeer(c)
     /\ \/ wasHolder[c] /\ p # NoConn /\ Send(p, Sys("peer_offline"))
        \/ (wasHolder[c] => p = NoConn) /\ UNCHANGED out
     /\ UNCHANGED <<frameq, sent, view, recv>>

\* DrainNotify warns every indexed session.
DrainNotify(i) ==
  /\ Drain(i)
  /\ \E S \in SUBSET {c \in Indexed(i) : \E r \in Enqueue(c, Sys("shutdown")) : r.ok} :
       /\ \A c \in Indexed(i) \ S : \E r \in Enqueue(c, Sys("shutdown")) : ~r.ok
       /\ out' = [c \in Conn |-> IF c \in S /\ pc[c] # "dereg"
                                 THEN Append(out[c], Sys("shutdown")) ELSE out[c]]
  /\ UNCHANGED <<frameq, sent, view, recv>>

----------------------------------------------------------------------------
(* Frames.                                                                 *)

\* The write pump takes the next frame and writes it to the client.  A canceled
\* session may still write: the pump's select prefers neither branch.
WritePump(c) ==
  /\ pc[c] = "serving" /\ out[c] # <<>>
  /\ LET m == Head(out[c])
     IN /\ view' = IF m.kind \in Presence THEN [view EXCEPT ![c] = m.kind] ELSE view
        /\ recv' = IF m.kind = "msg" THEN [recv EXCEPT ![c] = Append(@, m)] ELSE recv
  /\ out' = [out EXCEPT ![c] = Tail(@)]
  /\ UNCHANGED <<vars, frameq, sent>>

\* Route to a session in the local index.  One that cannot take the frame is
\* closed and the sender is told.
RouteLocal(c, p, m) ==
  \E r \in Enqueue(p, m) :
    \/ /\ r.ok
       /\ out' = [out EXCEPT ![p] = r.q]
       /\ UNCHANGED vars
    \/ /\ ~r.ok
       /\ Send(c, Sys("error"))
       /\ closeCode' = CloseWith(p, "self")
       /\ UNCHANGED <<connVars, slots, local, evictq, revq, phase, histVars>>

\* The read pump hands a frame of c to Route: to the local peer, else to the
\* instance that holds the peer's slot, else the sender is told.  Redis calls
\* fail once c is closed (its context is canceled) and may fail at any time, even
\* after they took effect.
Route(c) ==
  LET k == PeerOf[KeyOf[c]]
      p == local[inst[c]][k]
      m == Msg(c, sent[c] + 1)
      remote == HeldElsewhere(k, inst[c])
  IN /\ pc[c] = "serving" /\ sent[c] < MaxFrames
     /\ sent' = [sent EXCEPT ![c] = @ + 1]
     /\ \/ p # NoConn /\ RouteLocal(c, p, m) /\ UNCHANGED frameq
        \/ /\ p = NoConn /\ remote /\ (Redis => closeCode[c] = Open)
           /\ frameq' \in Publish(frameq, slots[k].inst, [to |-> k, msg |-> m])
           /\ UNCHANGED <<vars, out>>
        \/ /\ p = NoConn /\ ~(remote /\ ~Redis)
           /\ \/ UNCHANGED frameq
              \/ /\ remote /\ closeCode[c] = Open
                 /\ frameq' \in Publish(frameq, slots[k].inst, [to |-> k, msg |-> m])
           /\ Send(c, Sys("error"))
           /\ UNCHANGED vars
     /\ UNCHANGED <<view, recv>>

\* Mutation of DeliverLocal: a frame is taken off the channel only once enqueued,
\* and a failed acknowledgement delivers it again.
DeliverTwice(i) ==
  /\ Consuming(i) /\ frameq[i] # <<>>
  /\ LET f == Head(frameq[i])
         p == local[i][f.to]
     IN IF p # NoConn THEN Send(p, f.msg) ELSE UNCHANGED out
  /\ frameq' \in {frameq, [frameq EXCEPT ![i] = Tail(@)]}
  /\ UNCHANGED <<vars, sent, view, recv>>

\* deliverLocal: the frame is dropped if its addressee is gone or full.
DeliverLocal(i) ==
  /\ Consuming(i) /\ frameq[i] # <<>>
  /\ LET f == Head(frameq[i])
         p == local[i][f.to]
     IN IF p # NoConn THEN Send(p, f.msg) ELSE UNCHANGED out
  /\ frameq' = [frameq EXCEPT ![i] = Tail(@)]
  /\ UNCHANGED <<vars, sent, view, recv>>

----------------------------------------------------------------------------
\* The queue of a session is dropped with it.
ServeReturns(c) ==
  /\ Unwind(c) \/ ClientGone(c)
  /\ out' = [out EXCEPT ![c] = <<>>]
  /\ UNCHANGED <<frameq, sent, view, recv>>

ProcessStops(i) ==
  /\ ProcessEnds(i)
  /\ out' = [c \in Conn |-> IF inst[c] = i THEN <<>> ELSE out[c]]
  /\ frameq' = [frameq EXCEPT ![i] = <<>>]
  /\ UNCHANGED <<sent, view, recv>>

TInit ==
  /\ Init
  /\ out = [c \in Conn |-> <<>>]
  /\ frameq = [i \in Instance |-> <<>>]
  /\ sent = [c \in Conn |-> 0]
  /\ view = [c \in Conn |-> "none"]
  /\ recv = [c \in Conn |-> <<>>]

\* The steps of RelayHub that leave the queues alone.
RegistryStep ==
  /\ \/ \E c \in Conn :
          \/ \E i \in Instance : Connect(c, i)
          \/ ClaimSlot(c) \/ ClaimFails(c) \/ NotifyEviction(c) \/ Supersede(c) \/ Store(c)
          \/ RenewSlot(c) \/ (pc[c] = "serving" /\ SelfClose(c)) \/ Deregister(c) \/ ReleaseSlot(c)
     \/ \E i \in Instance : EvictLocal(i) \/ Revoke(i) \/ CloseAll(i)
     \/ \E k \in Key : Expire(k)
     \/ \E scope \in Scopes : PublishRevocation(scope)
  /\ UNCHANGED trafficVars

TNext ==
  \/ RegistryStep
  \/ \E c \in Conn : Announce(c) \/ PeerOffline(c) \/ WritePump(c) \/ Route(c) \/ ServeReturns(c)
  \/ \E i \in Instance : DrainNotify(i) \/ DeliverLocal(i) \/ ProcessStops(i)

TSpec == TInit /\ [][TNext]_allVars

----------------------------------------------------------------------------
(* Type invariant.                                                         *)

\* Type correctness, and no queue or channel ever holds more than it was made for:
\* what finds no room is dropped or closes the session (Enqueue, Publish).
TTypeOK ==
  /\ TypeOK
  /\ out \in [Conn -> Seq(Message)] /\ \A c \in Conn : Len(out[c]) <= OutQueueSize
  /\ frameq \in [Instance -> Seq([to : Key, msg : Message])]
  /\ \A i \in Instance : Len(frameq[i]) <= ChanSize
  /\ sent \in [Conn -> 0..MaxFrames]
  /\ view \in [Conn -> Presence \cup {"none"}]
  /\ recv \in [Conn -> Seq(Message)]

----------------------------------------------------------------------------
(* Properties.                                                             *)

\* At-most-once, in-order delivery (FR-4.3): a connection receives the frames of
\* one sender in the order they were sent and none of them twice, on whichever
\* path (write queue or routed-frame channel) Route sent them, also when the path
\* changes between two frames.
OrderedDelivery ==
  \A c \in Conn : \A m, n \in DOMAIN recv[c] :
    m < n /\ recv[c][m].from = recv[c][n].from => recv[c][m].n < recv[c][n].n

\* Nothing is in flight and every queued message has been written.
Settled == Quiescent /\ \A c \in Conn : out[c] = <<>>

Paired(c, d) == Served(c) /\ Served(d) /\ KeyOf[d] = PeerOf[KeyOf[c]]

\* A superseded session's deregistration "must not then clobber the peer back to
\* PEER_OFFLINE while the winner is alive" (hub.go Deregister): on one instance,
\* once everything has settled, nobody believes an indexed, served peer offline.
NoOfflineClobber ==
  Settled => \A c, d \in Conn :
    Paired(c, d) /\ local[inst[c]][KeyOf[c]] = c /\ local[inst[d]][KeyOf[d]] = d
      => view[c] # "peer_offline"

\* "announcePresence informs both ends when a pair becomes mutually online"
\* (hub.go): once everything has settled, both ends of a served pair have been
\* told that the peer is online.
BothEndsInformed ==
  Settled => \A c, d \in Conn : Paired(c, d) => view[c] = "peer_online"
=============================================================================
