------------------------------ MODULE SdkClient ------------------------------
(***************************************************************************)
(* The connection manager of the Java client SDK (ConnectionManager.java):  *)
(* it dials, reconnects after every loss, and resolves the future of every  *)
(* message it was given to send.                                            *)
(*                                                                          *)
(* Everything runs on one scheduler thread, which a dial blocks; transport  *)
(* callbacks are posted to its queue from the threads of the transports,    *)
(* and send and close are called from threads of the host.  A transport     *)
(* delivers its callbacks in order; between transports there is no order.   *)
(*                                                                          *)
(* The relay is modelled by what the client sees of it: the newest accepted *)
(* connection holds the slot and the one before is closed as superseded.    *)
(* The peer answers the handshake, and acks or is offline.  Delays of       *)
(* timers are arbitrary (the backoff is jittered from zero).  Disturbances  *)
(* are bounded by MaxFaults.  A transport object is used again once nothing *)
(* refers to it any more.                                                   *)
(***************************************************************************)
EXTENDS Naturals, Sequences, Functions

CONSTANTS
  Transport,  \* transports
  Msg,        \* messages the host sends
  MaxFaults,  \* bound on disturbances
  None

ASSUME SdkAssumption ==
  MaxFaults \in Nat /\ None \notin Transport \cup Msg

VARIABLES
  life,      \* running, terminal and closed, as one state
  shutdown,  \* close() was called: the scheduler takes no more tasks
  active,    \* the transport in use, or None
  shake,     \* the handshake of this connection: "none", "waiting", "complete"
  connects,  \* attemptConnect timers that are running
  dial,      \* the transport the scheduler is blocked on, or None
  tasks,     \* the queue of the scheduler
  token,     \* the token is good
  sendQueue, pendingAcks,
  future,    \* future[m]: "none", "pending", "acked", "failed"
  putting,   \* messages in pendingAcks whose task is not posted yet
  sock,      \* sock[t]: "free", "dialing", "open", "silent", "gone"
  net,       \* net[t]: callbacks on their way from transport t
  slot,      \* the connection that holds this client's slot at the relay
  wire,      \* wire[m]: the transport m was written to and not answered on
  faults,
  takenOver, \* history: another client has taken the slot
  raced      \* history: messages put while pendingAcks was being cleared

manager == <<life, shutdown, active, shake, connects, dial, token>>
sends == <<sendQueue, pendingAcks, future, putting, wire, raced>>
relay == <<sock, net, slot>>
vars == <<manager, sends, relay, tasks, faults, takenOver>>

Ev(kind, t) == [kind |-> kind, of |-> t]
Closes == {"closed", "expired", "superseded", "revoked"}

Init ==
  /\ life = "new" /\ shutdown = FALSE
  /\ active = None /\ shake = "none" /\ connects = 0 /\ dial = None
  /\ tasks = <<>> /\ token = TRUE
  /\ sendQueue = <<>> /\ pendingAcks = {} /\ future = [m \in Msg |-> "none"] /\ putting = {}
  /\ sock = [t \in Transport |-> "free"] /\ net = [t \in Transport |-> <<>>] /\ slot = None
  /\ wire = [m \in Msg |-> None]
  /\ faults = 0 /\ takenOver = FALSE /\ raced = {}

Live == life = "running"

----------------------------------------------------------------------------
(* Pieces of the manager.                                                  *)

\* failPendingAcks walks the map and then clears it: what send() puts in between
\* is cleared without having been failed.
FailFutures(failing, late) ==
  /\ late \in {{}} \cup {{m} : m \in {x \in Msg : future[x] = "none"}}
  /\ future' = [m \in Msg |-> IF m \in failing THEN "failed"
                              ELSE IF m \in late THEN "pending" ELSE future[m]]
  /\ pendingAcks' = {}
  /\ putting' = putting \cup late /\ raced' = raced \cup late
  /\ UNCHANGED wire

failPendingAcks == \E late \in SUBSET Msg : FailFutures(pendingAcks, late)

Reset == active' = None /\ shake' = "none"

\* The client ends the active transport, which later reports its close (a silent
\* one perhaps); failed is a transport that did not open, or None.
Hangup(failed) ==
  /\ sock' = [t \in Transport |-> IF t \in {active, failed} THEN "gone" ELSE sock[t]]
  /\ net' \in IF active = None THEN {net}
             ELSE LET told == [net EXCEPT ![active] = Append(@, Ev("closed", active))]
                  IN CASE sock[active] = "gone" -> {net}
                       [] sock[active] = "silent" -> {net, told}
                       [] OTHER -> {told}
  /\ slot' = IF slot = active THEN None ELSE slot

\* Mutant: an attempt is scheduled only when a connection was torn down.
scheduleReconnectOnce(failed) ==
  /\ Live /\ Hangup(failed) /\ Reset
  /\ failPendingAcks
  /\ connects' = IF active = None THEN connects ELSE connects + 1
  /\ UNCHANGED sendQueue

\* scheduleReconnect: teardownActive, and another attempt.
scheduleReconnect(failed) ==
  \/ /\ ~Live
     /\ sock' = [t \in Transport |-> IF t = failed THEN "gone" ELSE sock[t]]
     /\ UNCHANGED <<active, shake, connects, sends, net, slot>>
  \/ /\ Live
     /\ Hangup(failed) /\ Reset
     /\ failPendingAcks
     /\ connects' = connects + 1
     /\ UNCHANGED sendQueue

----------------------------------------------------------------------------
(* Timers.                                                                 *)

Free(t) ==
  /\ sock[t] \in {"free", "gone"} /\ net[t] = <<>> /\ active # t /\ dial # t
  /\ \A e \in Range(tasks) : e.of # t

\* Mutant: a dial that no timer asked for.
attemptConnectUnasked ==
  /\ dial = None /\ Live
  /\ connects' = connects - 1 /\ dial' = CHOOSE x \in Transport : Free(x)
  /\ sock' = [sock EXCEPT ![dial'] = "dialing"]
  /\ UNCHANGED <<life, shutdown, active, shake, token, sends, net, slot, tasks, faults, takenOver>>

\* attemptConnect: a timer that finds the manager stopped does nothing.
attemptConnect ==
  /\ connects > 0 /\ dial = None /\ \E t \in Transport : Free(t)
  /\ connects' = connects - 1
  /\ IF ~Live THEN UNCHANGED <<dial, sock, wire>>
     ELSE LET t == CHOOSE x \in Transport : Free(x)
          IN
            /\ dial' = t /\ sock' = [sock EXCEPT ![t] = "dialing"]
            /\ wire' = [m \in Msg |-> IF wire[m] = t THEN None ELSE wire[m]]
  /\ UNCHANGED <<life, shutdown, active, shake, token, sendQueue, pendingAcks, future, putting, raced,
                 net, slot, tasks, faults, takenOver>>

\* connect() throws: the token was refused, or the network failed.
DialFails ==
  /\ dial # None /\ sock[dial] = "dialing"
  /\ \/ ~token /\ UNCHANGED faults
     \/ faults < MaxFaults /\ faults' = faults + 1
  /\ dial' = None
  /\ scheduleReconnect(dial)
  /\ UNCHANGED <<life, shutdown, token, tasks, takenOver>>

\* connect() returns after onOpen has been posted.
DialReturns ==
  /\ dial # None /\ sock[dial] # "dialing"
  /\ dial' = None
  /\ tasks' = IF shutdown THEN tasks ELSE Append(tasks, Ev("open", dial))
  /\ UNCHANGED <<life, shutdown, active, shake, connects, token, sends, relay, faults, takenOver>>

\* The refresh timer, which stays armed while the manager runs.
refreshNow ==
  /\ Live /\ dial = None /\ ~token
  /\ token' = TRUE
  /\ UNCHANGED <<life, shutdown, active, shake, connects, dial, sends, relay, tasks, faults, takenOver>>

\* The watchdog finds the connection silent for two heartbeats.
Watchdog ==
  /\ Live /\ dial = None /\ active # None /\ sock[active] = "silent"
  /\ scheduleReconnect(None)
  /\ UNCHANGED <<life, shutdown, dial, token, tasks, faults, takenOver>>

----------------------------------------------------------------------------
(* The host's calls.                                                       *)

start ==
  /\ life = "new" /\ ~shutdown /\ life' = "running" /\ connects' = 1
  /\ UNCHANGED <<shutdown, active, shake, dial, token, sends, relay, tasks, faults, takenOver>>

\* send() puts the future into pendingAcks, then posts its task; a scheduler that
\* has been shut down refuses it.
Put(m) ==
  /\ future[m] = "none"
  /\ future' = [future EXCEPT ![m] = "pending"]
  /\ pendingAcks' = pendingAcks \cup {m} /\ putting' = putting \cup {m}
  /\ UNCHANGED <<manager, relay, sendQueue, wire, raced, tasks, faults, takenOver>>

PostSend(m) ==
  /\ m \in putting /\ putting' = putting \ {m}
  /\ IF shutdown
     THEN /\ future' = [future EXCEPT ![m] = "failed"] /\ pendingAcks' = pendingAcks \ {m}
          /\ UNCHANGED tasks
     ELSE tasks' = Append(tasks, Ev("send", m)) /\ UNCHANGED <<future, pendingAcks>>
  /\ UNCHANGED <<manager, relay, sendQueue, wire, raced, faults, takenOver>>

close ==
  /\ ~shutdown
  /\ shutdown' = TRUE /\ tasks' = Append(tasks, Ev("close", None))
  /\ UNCHANGED <<life, active, shake, connects, dial, token, sends, relay, faults, takenOver>>

----------------------------------------------------------------------------
(* Tasks of the scheduler.  Each takes the head of the queue.              *)

Take(kinds) == dial = None /\ tasks # <<>> /\ Head(tasks).kind \in kinds /\ tasks' = Tail(tasks)
Of == Head(tasks).of

\* Mutant: the handshake of the last connection is kept.
handleOpenOldHandshake ==
  /\ Take({"open"}) /\ active' = Of
  /\ UNCHANGED <<life, shutdown, shake, connects, dial, token, sends, relay, faults, takenOver>>

handleOpen ==
  /\ Take({"open"})
  /\ active' = Of /\ shake' = "waiting"
  /\ UNCHANGED <<life, shutdown, connects, dial, token, sends, relay, faults, takenOver>>

isLiveForData == active # None /\ shake = "complete"

\* Mutant: a session that is over still queues.
SendTaskQueues ==
  /\ Take({"send"})
  /\ IF isLiveForData THEN wire' = [wire EXCEPT ![Of] = active] /\ UNCHANGED sendQueue
     ELSE sendQueue' = Append(sendQueue, Of) /\ UNCHANGED wire
  /\ UNCHANGED <<manager, relay, pendingAcks, future, putting, raced, faults, takenOver>>

\* The send task; a message sent before the handshake waits in the queue.
SendTask ==
  /\ Take({"send"})
  /\ \/ /\ ~Live
        /\ future' = [future EXCEPT ![Of] = "failed"] /\ pendingAcks' = pendingAcks \ {Of}
        /\ UNCHANGED <<sendQueue, wire>>
     \/ /\ Live /\ isLiveForData
        /\ wire' = [wire EXCEPT ![Of] = active]
        /\ UNCHANGED <<future, pendingAcks, sendQueue>>
     \/ /\ Live /\ ~isLiveForData
        /\ sendQueue' = Append(sendQueue, Of)
        /\ UNCHANGED <<future, pendingAcks, wire>>
  /\ UNCHANGED <<manager, relay, putting, raced, faults, takenOver>>

\* A handshake frame completes the session and flushes the queue, but for messages
\* whose future has been resolved.  Before handleOpen it is dropped.
handleMsg ==
  /\ Take({"handshake"})
  /\ IF shake = "none" THEN UNCHANGED <<shake, sendQueue, wire>>
     ELSE /\ shake' = "complete" /\ sendQueue' = <<>>
          /\ wire' = [m \in Msg |->
                        IF m \in pendingAcks \cap Range(sendQueue)
                        THEN active ELSE wire[m]]
  /\ UNCHANGED <<life, shutdown, active, connects, dial, token, pendingAcks, future, putting, raced,
                 relay, faults, takenOver>>

completeAck ==
  /\ Take({"ack"})
  /\ pendingAcks' = pendingAcks \ {Of}
  /\ future' = IF Of \in pendingAcks THEN [future EXCEPT ![Of] = "acked"] ELSE future
  /\ UNCHANGED <<manager, relay, sendQueue, putting, wire, raced, faults, takenOver>>

\* peer_offline fails every send in flight.
handleError ==
  /\ Take({"offline"})
  /\ failPendingAcks
  /\ UNCHANGED <<manager, relay, sendQueue, faults, takenOver>>

\* sys{shutdown}, and an error of the transport in use or of none.
handleLoss ==
  /\ Take({"shutdown", "error"})
  /\ IF Head(tasks).kind = "shutdown" \/ active \in {Of, None}
     THEN scheduleReconnect(None)
     ELSE UNCHANGED <<active, shake, connects, sends, relay>>
  /\ UNCHANGED <<life, shutdown, dial, token, faults, takenOver>>

\* failAllPending: the futures of queued messages fail too, unless they are resolved.
failAllPending ==
  /\ \E late \in SUBSET Msg :
       FailFutures(pendingAcks \cup {m \in Range(sendQueue) : future[m] = "pending"}, late)
  /\ sendQueue' = <<>>

Mine == active \in {Of, None}

\* handleClosed: a close of another transport is ignored; a close by takeover or
\* revocation is final; a close for an expired token fetches a fresh one, which may
\* fail; after any other close the manager reconnects.
handleClosed ==
  /\ Take(Closes)
  /\ \/ ~Mine /\ UNCHANGED <<life, active, shake, connects, token, sends>>
     \/ /\ Mine /\ Head(tasks).kind \in {"superseded", "revoked"}
        /\ Reset /\ failAllPending /\ UNCHANGED <<connects, token>>
        /\ life' = Head(tasks).kind
     \/ /\ Mine /\ Head(tasks).kind \in {"closed", "expired"}
        /\ Reset
        /\ failPendingAcks
        /\ connects' = IF Live THEN connects + 1 ELSE connects
        /\ token' \in IF Head(tasks).kind = "expired" THEN {token, TRUE} ELSE {token}
        /\ UNCHANGED <<life, sendQueue>>
  /\ UNCHANGED <<shutdown, dial, relay, faults, takenOver>>

CloseTask ==
  /\ Take({"close"})
  /\ life' = IF life \in {"new", "running"} THEN "closed" ELSE life
  /\ Hangup(None) /\ active' = None
  /\ failAllPending
  /\ UNCHANGED <<shutdown, shake, connects, dial, token, faults, takenOver>>

----------------------------------------------------------------------------
(* The transports, the relay and the peer.                                 *)

\* A transport thread posts its next callback; after close() it is dropped.
Post(t) ==
  /\ net[t] # <<>> /\ dial # t
  /\ net' = [net EXCEPT ![t] = Tail(@)]
  /\ tasks' = IF shutdown THEN tasks ELSE Append(tasks, Head(net[t]))
  /\ UNCHANGED <<manager, sends, sock, slot, faults, takenOver>>

CloseAt(t, kind) ==
  /\ sock' = [sock EXCEPT ![t] = "gone"]
  /\ net' = [net EXCEPT ![t] = Append(@, Ev(kind, t))]

\* The relay accepts the dial and supersedes the connection before it.
Accept ==
  /\ dial # None /\ sock[dial] = "dialing" /\ token
  /\ slot' = dial
  /\ sock' = [t \in Transport |-> IF t = dial THEN "open"
                                  ELSE IF t = slot /\ sock[t] = "open" THEN "gone" ELSE sock[t]]
  /\ net' = [t \in Transport |-> IF t = slot /\ sock[t] = "open"
                                 THEN Append(net[t], Ev("superseded", t)) ELSE net[t]]
  /\ UNCHANGED <<manager, sends, tasks, faults, takenOver>>

\* The peer's handshake frame arrives on an open connection that lacks it.
PeerHandshake(t) ==
  /\ slot = t /\ sock[t] = "open" /\ dial # t
  /\ ~(active = t /\ shake = "complete")
  /\ Ev("handshake", t) \notin Range(net[t]) \cup Range(tasks)
  /\ net' = [net EXCEPT ![t] = Append(@, Ev("handshake", t))]
  /\ UNCHANGED <<manager, sends, sock, slot, tasks, faults, takenOver>>

\* The peer acks m, or is offline, or the connection is gone and nothing comes.
PeerAnswers(m) ==
  LET t == wire[m]
  IN /\ t # None /\ wire' = [wire EXCEPT ![m] = None]
     /\ IF sock[t] # "open" THEN UNCHANGED net
        ELSE \E e \in {Ev("ack", m), Ev("offline", m)} : net' = [net EXCEPT ![t] = Append(@, e)]
     /\ UNCHANGED <<manager, sendQueue, pendingAcks, future, putting, raced, sock, slot, tasks, faults, takenOver>>

\* What may befall an open connection: the relay drains or closes it, the token
\* expires, the pairing is revoked, another client takes over, the network fails
\* noisily or silently.
Disturb(t) ==
  /\ slot = t /\ sock[t] = "open" /\ dial # t
  /\ faults < MaxFaults /\ faults' = faults + 1
  /\ \/ net' = [net EXCEPT ![t] = Append(@, Ev("shutdown", t))] /\ UNCHANGED <<sock, slot, token, takenOver>>
     \/ \E kind \in Closes \cup {"error"} :
          /\ CloseAt(t, kind) /\ slot' = None
          /\ token' = IF kind = "expired" THEN FALSE ELSE token
          /\ takenOver' = (takenOver \/ kind = "superseded")
     \/ sock' = [sock EXCEPT ![t] = "silent"] /\ slot' = None /\ UNCHANGED <<net, token, takenOver>>
  /\ UNCHANGED <<life, shutdown, active, shake, connects, dial, sends, tasks>>

----------------------------------------------------------------------------
RunTask ==
  \/ handleOpen \/ SendTask \/ handleMsg \/ completeAck \/ handleError
  \/ handleLoss \/ handleClosed \/ CloseTask
Timer == attemptConnect \/ refreshNow \/ Watchdog
DialEnds == DialFails \/ DialReturns

Next ==
  \/ start \/ close \/ RunTask \/ Timer \/ DialEnds \/ Accept
  \/ \E m \in Msg : Put(m) \/ PostSend(m) \/ PeerAnswers(m)
  \/ \E t \in Transport : Post(t) \/ PeerHandshake(t) \/ Disturb(t)

Spec == Init /\ [][Next]_vars

\* The scheduler, its timers and the transports run; a dial is answered; the peer
\* sends its handshake.  Due timers run in the order they fell due, so dialing over
\* and over does not keep the refresh out: it is strongly fair.
Fairness ==
  /\ WF_vars(RunTask) /\ WF_vars(attemptConnect) /\ SF_vars(refreshNow) /\ WF_vars(Watchdog)
  /\ WF_vars(Accept \/ DialEnds)
  /\ \A t \in Transport : WF_vars(Post(t)) /\ WF_vars(PeerHandshake(t))

FairSpec == Spec /\ Fairness

----------------------------------------------------------------------------
(* Properties.                                                             *)

Kinds == Closes \cup {"open", "send", "handshake", "ack", "offline", "shutdown", "error", "close"}
Events == [kind : Kinds, of : Transport \cup Msg \cup {None}]

\* Type correctness of the manager and of the queues between the threads.
TypeOK ==
  /\ life \in {"new", "running", "superseded", "revoked", "closed"} /\ shutdown \in BOOLEAN
  /\ active \in Transport \cup {None} /\ dial \in Transport \cup {None} /\ slot \in Transport \cup {None}
  /\ shake \in {"none", "waiting", "complete"} /\ connects \in Nat /\ token \in BOOLEAN
  /\ tasks \in Seq(Events) /\ net \in [Transport -> Seq(Events)]
  /\ sendQueue \in Seq(Msg) /\ pendingAcks \subseteq Msg /\ putting \subseteq Msg /\ raced \subseteq Msg
  /\ future \in [Msg -> {"none", "pending", "acked", "failed"}]
  /\ sock \in [Transport -> {"free", "dialing", "open", "silent", "gone"}]
  /\ wire \in [Msg -> Transport \cup {None}]
  /\ faults \in 0..MaxFaults

\* Nothing is on its way to the scheduler.
Quiet == tasks = <<>> /\ dial = None /\ \A t \in Transport : net[t] = <<>>

\* A running manager is never stranded: once every callback has been handled it
\* has a connection, or a timer that will dial one, however losses, drains and late
\* closes of old transports were interleaved.
NeverStranded ==
  Live /\ Quiet => connects > 0 \/ (active # None /\ sock[active] \in {"open", "silent"})

\* No future is forgotten: one that is pending is still in pendingAcks, where the
\* next loss fails it; and when the session is over and its tasks have run, none
\* is pending.  Only a send that put its future while the map was being cleared is
\* exempt.
FutureAccounted ==
  \A m \in Msg \ raced : future[m] = "pending" =>
    /\ m \in pendingAcks
    /\ life \in {"superseded", "revoked", "closed"} =>
         m \in putting \/ Ev("send", m) \in Range(tasks)

\* Close 4001 means "connected elsewhere" (docs/ARCHITECTURE.md): the manager ends
\* as superseded only when another client has taken its slot, never on account of
\* its own dials.
SupersededByOther == life = "superseded" => takenOver

\* A manager that is neither closed nor ended by the relay gets back to a complete
\* session after every disturbance.
Reconnects == Live ~> (~Live \/ shutdown \/ (active # None /\ sock[active] = "open" /\ shake = "complete"))
=============================================================================
