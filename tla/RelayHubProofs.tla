--------------------------- MODULE RelayHubProofs ---------------------------
(***************************************************************************)
(* Proofs about RelayHub, for every number of connections, instances and    *)
(* slot keys, both backplanes, and every mix of crashes, drains, expiries,  *)
(* revocations and lost notices.                                            *)
(***************************************************************************)
EXTENDS RelayHub, FiniteSetTheorems, TLAPS

\* Bookkeeping the safety invariants rest on: a connected handler knows its
\* instance, a handler about to notify knows whom it displaced, and the last
\* claimant of a slot has that slot's key.
Bookkeeping ==
  /\ \A c \in Conn : pc[c] # "idle" => inst[c] \in Instance
  /\ \A c \in Conn : pc[c] \in {"notify", "supersede"} => displaced[c] # Free
  /\ \A k \in Key : newest[k] # NoConn => KeyOf[newest[k]] = k

\* The inductive invariant.
HubInv == TypeOK /\ Bookkeeping /\ IndexedIsServed /\ NewestHolds

----------------------------------------------------------------------------
(* The helpers.                                                            *)

\* CloseWith and CloseEach keep the table of close codes well typed.
LEMMA CloseType ==
  ASSUME TypeOK, NEW code \in Codes
  PROVE  /\ \A c : CloseWith(c, code) \in [Conn -> Codes \cup {Open}]
         /\ \A S : CloseEach(S, code) \in [Conn -> Codes \cup {Open}]
BY Zenon DEF TypeOK, CloseWith, CloseEach

\* A publication keeps every channel within its capacity.
LEMMA PublishType ==
  ASSUME NEW S, NEW q \in [Instance -> Seq(S)], \A i \in Instance : Len(q[i]) <= ChanSize,
         NEW j \in Instance, NEW m \in S, NEW r \in Publish(q, j, m)
  PROVE  r \in [Instance -> Seq(S)] /\ \A i \in Instance : Len(r[i]) <= ChanSize
<1>1. r = q \/ (r = [q EXCEPT ![j] = Append(@, m)] /\ Len(q[j]) < ChanSize)
  BY DEF Publish
<1>2. CASE r = q
  BY <1>2
<1>3. CASE r = [q EXCEPT ![j] = Append(@, m)] /\ Len(q[j]) < ChanSize
  <2>1. Append(q[j], m) \in Seq(S) /\ Len(Append(q[j], m)) = Len(q[j]) + 1
    OBVIOUS
  <2>2. ChanSize \in Nat /\ Len(q[j]) \in Nat
    BY HubAssumption
  <2> QED BY <1>3, <2>1, <2>2
<1> QED BY <1>1, <1>2, <1>3

\* So does taking the first item.
LEMMA TailType ==
  ASSUME NEW S, NEW q \in [Instance -> Seq(S)], \A i \in Instance : Len(q[i]) <= ChanSize,
         NEW j \in Instance, q[j] # <<>>
  PROVE  LET r == [q EXCEPT ![j] = Tail(@)]
         IN r \in [Instance -> Seq(S)] /\ \A i \in Instance : Len(r[i]) <= ChanSize
<1>1. Tail(q[j]) \in Seq(S) /\ Len(Tail(q[j])) = Len(q[j]) - 1
  OBVIOUS
<1>2. ChanSize \in Nat /\ Len(q[j]) \in Nat
  BY HubAssumption
<1> QED BY <1>1, <1>2

----------------------------------------------------------------------------
(* The initial state.                                                      *)

LEMMA InitHubInv == Init => HubInv
<1> SUFFICES ASSUME Init PROVE HubInv
  OBVIOUS
<1>1. TypeOK
  BY HubAssumption DEF Init, TypeOK, Free, Entry, PCs, Open
<1>2. Bookkeeping /\ IndexedIsServed /\ NewestHolds
  BY HubAssumption DEF Init, Bookkeeping, IndexedIsServed, NewestHolds
<1> QED BY <1>1, <1>2 DEF HubInv

----------------------------------------------------------------------------
(* Type correctness.                                                       *)

LEMMA HandlerType ==
  ASSUME TypeOK, Bookkeeping, NEW c \in Conn, Handler(c)
  PROVE  TypeOK'
<1> USE HubAssumption DEF TypeOK, PCs, histVars, connVars
<1>0. KeyOf[c] \in Key
  OBVIOUS
<1>1. ASSUME NEW i \in Instance, Connect(c, i) PROVE TypeOK'
  BY <1>1 DEF Connect, Move, Goto
<1>2. CASE ClaimSlot(c)
  <2>1. inst[c] \in Instance
    BY <1>2 DEF ClaimSlot, Bookkeeping
  <2>2. slots' \in [Key -> Entry \cup {Free}] /\ newest' \in [Key -> Conn \cup {NoConn}]
    BY <1>2, <2>1 DEF ClaimSlot, Entry
  <2>3. pc' \in [Conn -> PCs] /\ displaced' \in [Conn -> Entry \cup {Free}]
    <3>1. \E l \in {"store", "supersede", "notify"} : pc' = [pc EXCEPT ![c] = l]
      BY <1>2 DEF ClaimSlot, Goto
    <3>2. UNCHANGED displaced \/ displaced' = [displaced EXCEPT ![c] = slots[KeyOf[c]]]
      BY <1>2 DEF ClaimSlot
    <3>3. pc' \in [Conn -> PCs]
      BY <3>1
    <3>4. slots[KeyOf[c]] \in Entry \cup {Free}
      BY <1>0
    <3>5. displaced' \in [Conn -> Entry \cup {Free}]
      BY <3>2, <3>4, Zenon
    <3> QED BY <3>3, <3>5
  <2>4. /\ evictq' \in [Instance -> Seq(Key)]
        /\ \A i \in Instance : Len(evictq'[i]) <= ChanSize
    <3>1. CASE UNCHANGED evictq
      BY <3>1
    <3>2. CASE ~UNCHANGED evictq
      <4>1. /\ evictq' \in Publish(evictq, slots[KeyOf[c]].inst, KeyOf[c])
            /\ slots[KeyOf[c]] # Free
        BY <1>2, <3>2 DEF ClaimSlot
      <4>2. slots[KeyOf[c]].inst \in Instance
        BY <1>0, <4>1 DEF Entry
      <4> HIDE DEF TypeOK
      <4>3. evictq \in [Instance -> Seq(Key)] /\ \A i \in Instance : Len(evictq[i]) <= ChanSize
        BY DEF TypeOK
      <4>4. PICK j \in Instance : evictq' \in Publish(evictq, j, KeyOf[c])
        BY <4>1, <4>2
      <4> QED BY <1>0, <4>3, <4>4, PublishType
    <3> QED BY <3>1, <3>2
  <2> QED BY <1>2, <2>2, <2>3, <2>4 DEF ClaimSlot
<1>3. CASE ClaimFails(c)
  <2>1. inst[c] \in Instance
    BY <1>3 DEF ClaimFails, Move, Bookkeeping
  <2>2. slots' \in [Key -> Entry \cup {Free}] /\ newest' \in [Key -> Conn \cup {NoConn}]
    <3>1. [conn |-> c, inst |-> inst[c], live |-> TRUE] \in Entry
      BY <2>1 DEF Entry
    <3>2. CASE UNCHANGED <<slots, newest>>
      BY <3>2
    <3>3. CASE /\ slots' = [slots EXCEPT ![KeyOf[c]] = [conn |-> c, inst |-> inst[c], live |-> TRUE]]
               /\ newest' = [newest EXCEPT ![KeyOf[c]] = c]
      BY <3>1, <3>3
    <3> QED BY <1>3, <3>2, <3>3 DEF ClaimFails
  <2> QED BY <1>3, <2>2 DEF ClaimFails, Move, Goto
<1>4. CASE NotifyEviction(c)
  <2>1. displaced[c].inst \in Instance
    BY <1>4 DEF NotifyEviction, Move, Bookkeeping, Entry
  <2>2. /\ evictq' \in [Instance -> Seq(Key)]
        /\ \A i \in Instance : Len(evictq'[i]) <= ChanSize
    <3>1. evictq' \in Publish(evictq, displaced[c].inst, KeyOf[c])
      BY <1>4 DEF NotifyEviction
    <3> HIDE DEF TypeOK
    <3>2. evictq \in [Instance -> Seq(Key)] /\ \A i \in Instance : Len(evictq[i]) <= ChanSize
      BY DEF TypeOK
    <3> QED BY <1>0, <2>1, <3>1, <3>2, PublishType, SMTT(30)
  <2> QED BY <1>4, <2>2 DEF NotifyEviction, Move, Goto
<1>5. CASE Supersede(c)
  <2>1. closeCode' \in [Conn -> Codes \cup {Open}]
    BY <1>5, CloseType DEF Supersede, Codes
  <2> QED BY <1>5, <2>1, ZenonT(30) DEF Supersede, Move, Goto
<1>6. CASE Store(c)
  BY <1>6 DEF Store, Move, Goto, Bookkeeping
<1>7. CASE AnnouncePresence(c)
  BY <1>7 DEF AnnouncePresence, Move, Goto
<1>8. CASE RenewSlot(c)
  <2>1. closeCode' \in [Conn -> Codes \cup {Open}]
    BY <1>8, CloseType DEF RenewSlot, Codes
  <2>2. slots' \in [Key -> Entry \cup {Free}]
    <3>1. CASE slots[KeyOf[c]].conn # c
      BY <1>8, <3>1 DEF RenewSlot
    <3>2. CASE slots[KeyOf[c]].conn = c
      <4>1. slots[KeyOf[c]] \in Entry
        BY <1>0, <3>2 DEF Free
      <4>2. [slots[KeyOf[c]] EXCEPT !.live = TRUE] \in Entry
        BY <4>1, Zenon DEF Entry
      <4>3. slots' = [slots EXCEPT ![KeyOf[c]] = [slots[KeyOf[c]] EXCEPT !.live = TRUE]]
        BY <1>8, <3>2 DEF RenewSlot
      <4> QED BY <1>0, <4>2, <4>3
    <3> QED BY <3>1, <3>2
  <2> QED BY <1>8, <2>1, <2>2 DEF RenewSlot
<1>9. CASE SelfClose(c)
  <2>1. closeCode' \in [Conn -> Codes \cup {Open}]
    BY <1>9, CloseType DEF SelfClose, Codes
  <2> QED BY <1>9, <2>1 DEF SelfClose
<1>10. CASE Unwind(c) \/ ClientGone(c)
  BY <1>10, ZenonT(30) DEF Unwind, ClientGone, Move, Goto
<1>11. CASE Deregister(c)
  <2>1. inst[c] \in Instance
    BY <1>11 DEF Deregister, Move, Bookkeeping
  <2>2. local' \in [Instance -> [Key -> Conn \cup {NoConn}]]
    BY <1>11, <2>1 DEF Deregister
  <2>3. wasHolder' \in [Conn -> BOOLEAN]
    BY <1>11, ZenonT(30) DEF Deregister
  <2> QED BY <1>11, <2>2, <2>3 DEF Deregister, Move, Goto
<1>12. CASE ReleaseSlot(c)
  BY <1>12 DEF ReleaseSlot, Move, Goto
<1>13. CASE NotifyPeer(c)
  BY <1>13, ZenonT(30) DEF NotifyPeer, Move, Goto
<1> QED
  BY <1>1, <1>2, <1>3, <1>4, <1>5, <1>6, <1>7, <1>8, <1>9, <1>10, <1>11, <1>12, <1>13, Zenon DEF Handler

LEMMA ServerType ==
  ASSUME TypeOK, NEW i \in Instance, Server(i)
  PROVE  TypeOK'
<1> USE HubAssumption DEF TypeOK, histVars, connVars
<1>1. CASE EvictLocal(i)
  <2>1. closeCode' \in [Conn -> Codes \cup {Open}]
    BY <1>1, CloseType DEF EvictLocal, Codes
  <2>2. /\ evictq' \in [Instance -> Seq(Key)]
        /\ \A j \in Instance : Len(evictq'[j]) <= ChanSize
    <3>1. evictq[i] # <<>> /\ evictq' = [evictq EXCEPT ![i] = Tail(@)]
      BY <1>1 DEF EvictLocal
    <3> QED BY <3>1, TailType
  <2> QED BY <1>1, <2>1, <2>2, ZenonT(30) DEF EvictLocal
<1>2. CASE Revoke(i)
  <2>1. closeCode' \in [Conn -> Codes \cup {Open}]
    BY <1>2, CloseType DEF Revoke, Codes
  <2>2. /\ revq' \in [Instance -> Seq(SUBSET Key)]
        /\ \A j \in Instance : Len(revq'[j]) <= ChanSize
    <3>1. revq[i] # <<>> /\ revq' = [revq EXCEPT ![i] = Tail(@)]
      BY <1>2 DEF Revoke
    <3> QED BY <3>1, TailType
  <2> QED BY <1>2, <2>1, <2>2, ZenonT(30) DEF Revoke
<1>3. CASE Drain(i)
  BY <1>3 DEF Drain
<1>4. CASE CloseAll(i)
  <2>1. closeCode' \in [Conn -> Codes \cup {Open}]
    BY <1>4, CloseType, ZenonT(30) DEF CloseAll, Codes
  <2> QED BY <1>4, <2>1, ZenonT(30) DEF CloseAll
<1>5. CASE ProcessEnds(i)
  <2>1. /\ pc' \in [Conn -> PCs]
        /\ displaced' \in [Conn -> Entry \cup {Free}]
        /\ wasHolder' \in [Conn -> BOOLEAN]
    BY <1>5, Zenon DEF ProcessEnds, PCs
  <2>2. local' \in [Instance -> [Key -> Conn \cup {NoConn}]]
    BY <1>5 DEF ProcessEnds
  <2>3. /\ evictq' \in [Instance -> Seq(Key)] /\ revq' \in [Instance -> Seq(SUBSET Key)]
        /\ \A j \in Instance : Len(evictq'[j]) <= ChanSize /\ Len(revq'[j]) <= ChanSize
    <3>1. <<>> \in Seq(Key) /\ <<>> \in Seq(SUBSET Key) /\ Len(<<>>) = 0 /\ 0 <= ChanSize
      OBVIOUS
    <3>2. evictq' = [evictq EXCEPT ![i] = <<>>] /\ revq' = [revq EXCEPT ![i] = <<>>]
      BY <1>5 DEF ProcessEnds
    <3> QED BY <3>1, <3>2
  <2>4. phase' \in [Instance -> {"up", "draining", "drained", "down"}]
    BY <1>5 DEF ProcessEnds
  <2> QED BY <1>5, <2>1, <2>2, <2>3, <2>4, Zenon DEF ProcessEnds
<1> QED BY <1>1, <1>2, <1>3, <1>4, <1>5, ZenonT(30) DEF Server

LEMMA NextType ==
  ASSUME TypeOK, Bookkeeping, [Next]_vars
  PROVE  TypeOK'
<1>1. ASSUME NEW c \in Conn, Handler(c) PROVE TypeOK'
  BY <1>1, HandlerType
<1>2. ASSUME NEW i \in Instance, Server(i) PROVE TypeOK'
  BY <1>2, ServerType
<1>3. ASSUME NEW k \in Key, Expire(k) PROVE TypeOK'
  <2>1. slots[k] \in Entry
    BY <1>3 DEF Expire, TypeOK
  <2>2. [slots[k] EXCEPT !.live = FALSE] \in Entry
    BY <2>1, Zenon DEF Entry
  <2>3. slots' \in [Key -> Entry \cup {Free}]
    BY <1>3, <2>2 DEF Expire, TypeOK
  <2> QED BY <1>3, <2>3 DEF Expire, TypeOK, connVars, histVars
<1>4. ASSUME NEW scope \in Scopes, PublishRevocation(scope) PROVE TypeOK'
  <2> USE HubAssumption
  <2>1. PICK lost : revq' = [i \in Instance |->
                      IF phase[i] = "up" /\ i \notin lost /\ Len(revq[i]) < ChanSize
                      THEN Append(revq[i], scope) ELSE revq[i]]
    BY <1>4, ZenonT(30) DEF PublishRevocation
  <2>2. ASSUME NEW i \in Instance
        PROVE  revq'[i] \in Seq(SUBSET Key) /\ Len(revq'[i]) <= ChanSize
    <3>1. scope \in SUBSET Key /\ revq[i] \in Seq(SUBSET Key) /\ Len(revq[i]) <= ChanSize
      BY DEF TypeOK
    <3>2. /\ Append(revq[i], scope) \in Seq(SUBSET Key)
          /\ Len(Append(revq[i], scope)) = Len(revq[i]) + 1
          /\ Len(revq[i]) \in Nat
      BY <3>1
    <3> QED BY <2>1, <3>1, <3>2
  <2>3. revq' \in [Instance -> Seq(SUBSET Key)]
    BY <2>1, <2>2
  <2>4. mustCut' \subseteq Conn
    BY <1>4 DEF PublishRevocation, Matching, TypeOK
  <2> QED BY <1>4, <2>2, <2>3, <2>4 DEF PublishRevocation, TypeOK, connVars
<1>5. CASE UNCHANGED vars
  BY <1>5 DEF vars, TypeOK
<1> QED BY <1>1, <1>2, <1>3, <1>4, <1>5 DEF Next

----------------------------------------------------------------------------
(* The bookkeeping and the two safety invariants.                          *)

\* What ClaimFails and ReleaseSlot do to the slots.
LEMMA ClaimFailsEffect ==
  ASSUME NEW c \in Conn, ClaimFails(c)
  PROVE  /\ pc' = [pc EXCEPT ![c] = "done"]
         /\ \/ slots' = slots /\ newest' = newest
            \/ /\ slots' = [slots EXCEPT ![KeyOf[c]] =
                               [conn |-> c, inst |-> inst[c], live |-> TRUE]]
               /\ newest' = [newest EXCEPT ![KeyOf[c]] = c]
BY Zenon DEF ClaimFails, Move, Goto

LEMMA ReleaseEffect ==
  ASSUME TypeOK, NEW c \in Conn, ReleaseSlot(c)
  PROVE  /\ pc' = [pc EXCEPT ![c] = "offline"]
         /\ newest' = newest
         /\ \/ slots' = slots
            \/ /\ slots[KeyOf[c]].conn = c
               /\ slots' = [slots EXCEPT ![KeyOf[c]] = Free]
<1>1. /\ pc' = [pc EXCEPT ![c] = "offline"]
      /\ newest' = newest
      /\ \/ slots' = slots
         \/ slots' = [slots EXCEPT ![KeyOf[c]] = IF @.conn = c THEN Free ELSE @]
  BY Zenon DEF ReleaseSlot, Move, Goto, histVars
<1>2. slots \in [Key -> Entry \cup {Free}]
  BY DEF TypeOK
<1>3. CASE slots[KeyOf[c]].conn = c
  BY <1>1, <1>3
<1>4. CASE slots[KeyOf[c]].conn # c
  BY <1>1, <1>2, <1>4
<1> QED BY <1>1, <1>3, <1>4

\* A step that moves handlers on, none of them to a notification, and leaves
\* alone what those notifying hold.
LEMMA BookFrame ==
  ASSUME Bookkeeping, inst' = inst, newest' = newest,
         \A d \in Conn : pc'[d] # "idle" => pc[d] # "idle",
         \A d \in Conn : pc'[d] \in {"notify", "supersede"} =>
           pc[d] \in {"notify", "supersede"} /\ displaced'[d] = displaced[d]
  PROVE  Bookkeeping'
BY DEF Bookkeeping

\* One handler moves on.
LEMMA BookMove ==
  ASSUME TypeOK, Bookkeeping, NEW c \in Conn, inst' = inst, newest' = newest, pc[c] # "idle",
         NEW l \in PCs \ {"notify", "supersede"}, pc' = [pc EXCEPT ![c] = l],
         displaced' = displaced \/ displaced' = [displaced EXCEPT ![c] = Free]
  PROVE  Bookkeeping'
<1>1. pc \in [Conn -> PCs] /\ displaced \in [Conn -> Entry \cup {Free}]
  BY DEF TypeOK
<1>2. \A d \in Conn : d # c => pc'[d] = pc[d] /\ displaced'[d] = displaced[d]
  BY <1>1
<1>3. pc'[c] = l
  BY <1>1
<1> QED BY <1>2, <1>3, BookFrame

\* A claim puts a connection of the right key in the history.
LEMMA BookClaim ==
  ASSUME TypeOK, NEW c \in Conn, newest' = [newest EXCEPT ![KeyOf[c]] = c],
         \A k \in Key : newest[k] # NoConn => KeyOf[newest[k]] = k
  PROVE  \A k \in Key : newest'[k] # NoConn => KeyOf[newest'[k]] = k
<1>1. newest \in [Key -> Conn \cup {NoConn}] /\ KeyOf[c] \in Key
  BY HubAssumption DEF TypeOK
<1> QED BY <1>1

LEMMA NextBookkeeping ==
  ASSUME TypeOK, Bookkeeping, [Next]_vars
  PROVE  Bookkeeping'
<1>0. /\ pc \in [Conn -> PCs] /\ inst \in [Conn -> Instance \cup {NoConn}]
      /\ displaced \in [Conn -> Entry \cup {Free}]
  BY DEF TypeOK
<1>1. ASSUME NEW c \in Conn, Handler(c) PROVE Bookkeeping'
  <2>1. ASSUME NEW i \in Instance, Connect(c, i) PROVE Bookkeeping'
    <3>1. /\ pc' = [pc EXCEPT ![c] = "verified"] /\ inst' = [inst EXCEPT ![c] = i]
          /\ newest' = newest /\ displaced' = displaced
      BY <2>1, Zenon DEF Connect, Move, Goto, histVars
    <3>2. \A d \in Conn : d # c => pc'[d] = pc[d] /\ inst'[d] = inst[d]
      BY <1>0, <3>1
    <3>3. pc'[c] = "verified" /\ inst'[c] = i
      BY <1>0, <3>1
    <3> QED BY <3>1, <3>2, <3>3 DEF Bookkeeping
  <2>2. CASE ClaimSlot(c)
    <3>1. /\ pc[c] = "verified" /\ inst' = inst
          /\ newest' = [newest EXCEPT ![KeyOf[c]] = c]
      BY <2>2, ZenonT(30) DEF ClaimSlot
    <3>2. \/ /\ pc' = [pc EXCEPT ![c] = "store"]
             /\ displaced' = displaced
          \/ /\ \E l \in {"notify", "supersede"} : pc' = [pc EXCEPT ![c] = l]
             /\ displaced' = [displaced EXCEPT ![c] = slots[KeyOf[c]]]
             /\ slots[KeyOf[c]] # Free
      BY <2>2, ZenonT(30) DEF ClaimSlot, Goto
    <3>3. \A d \in Conn : d # c => pc'[d] = pc[d] /\ displaced'[d] = displaced[d]
      BY <1>0, <3>2
    <3>4. pc'[c] \in {"notify", "supersede"} => displaced'[c] # Free
      BY <1>0, <3>2
    <3>5. \A k \in Key : newest'[k] # NoConn => KeyOf[newest'[k]] = k
      BY <3>1, BookClaim DEF Bookkeeping
    <3> QED BY <3>1, <3>3, <3>4, <3>5, ZenonT(30) DEF Bookkeeping
  <2>3. CASE ClaimFails(c)
    <3>1. pc[c] = "verified" /\ inst' = inst /\ displaced' = displaced
      BY <2>3, Zenon DEF ClaimFails, Move
    <3>2. pc' = [pc EXCEPT ![c] = "done"]
      BY <2>3, ClaimFailsEffect, Zenon
    <3>3. \A d \in Conn : d # c => pc'[d] = pc[d]
      BY <1>0, <3>2
    <3>4. pc'[c] = "done"
      BY <1>0, <3>2
    <3>5. newest' = newest \/ newest' = [newest EXCEPT ![KeyOf[c]] = c]
      BY <2>3, ClaimFailsEffect, Zenon
    <3>6. \A k \in Key : newest'[k] # NoConn => KeyOf[newest'[k]] = k
      BY <3>5, BookClaim DEF Bookkeeping
    <3> QED BY <3>1, <3>3, <3>4, <3>6 DEF Bookkeeping
  <2>4. CASE NotifyEviction(c) \/ Supersede(c) \/ Store(c) \/ AnnouncePresence(c)
    BY <2>4, BookMove DEF NotifyEviction, Supersede, Store, AnnouncePresence, Move, Goto, histVars, PCs
  <2>5. CASE RenewSlot(c) \/ SelfClose(c)
    BY <2>5, BookFrame DEF RenewSlot, SelfClose, connVars, histVars
  <2>6. CASE Unwind(c) \/ ClientGone(c)
    BY <2>6, BookMove DEF Unwind, ClientGone, Move, Goto, histVars, PCs
  <2>7. CASE Deregister(c) \/ NotifyPeer(c)
    BY <2>7, BookMove DEF Deregister, NotifyPeer, Move, Goto, histVars, PCs
  <2>8. CASE ReleaseSlot(c)
    <3>1. /\ pc[c] # "idle" /\ pc' = [pc EXCEPT ![c] = "offline"]
          /\ inst' = inst /\ newest' = newest /\ displaced' = displaced
      BY <2>8 DEF ReleaseSlot, Move, Goto, histVars
    <3> QED BY <3>1, BookMove, ZenonT(30) DEF PCs
  <2> QED BY <1>1, <2>1, <2>2, <2>3, <2>4, <2>5, <2>6, <2>7, <2>8 DEF Handler
<1>2. ASSUME NEW i \in Instance, Server(i) PROVE Bookkeeping'
  <2>1. CASE ProcessEnds(i)
    <3>1. inst' = inst /\ newest' = newest
      BY <2>1 DEF ProcessEnds, histVars
    <3>2. \A d \in Conn : \/ pc'[d] = pc[d] /\ displaced'[d] = displaced[d]
                          \/ pc'[d] = "done" /\ pc[d] # "idle"
      BY <2>1 DEF ProcessEnds
    <3> QED BY <3>1, <3>2, BookFrame
  <2>2. CASE EvictLocal(i) \/ Revoke(i) \/ Drain(i) \/ CloseAll(i)
    BY <2>2, BookFrame, Zenon DEF EvictLocal, Revoke, Drain, CloseAll, connVars, histVars
  <2> QED BY <1>2, <2>1, <2>2 DEF Server
<1>3. ASSUME NEW k \in Key, Expire(k) PROVE Bookkeeping'
  BY <1>3, BookFrame DEF Expire, connVars, histVars
<1>4. ASSUME NEW scope \in Scopes, PublishRevocation(scope) PROVE Bookkeeping'
  BY <1>4, BookFrame, ZenonT(30) DEF PublishRevocation, connVars
<1>5. CASE UNCHANGED vars
  BY <1>5, BookFrame, ZenonT(30) DEF vars
<1> QED BY <1>1, <1>2, <1>3, <1>4, <1>5 DEF Next

\* A step that changes neither the index nor anybody's instance, and moves no
\* session out of the states in which it may be indexed.
LEMMA IndexFrame ==
  ASSUME TypeOK, IndexedIsServed, UNCHANGED <<inst, local>>,
         \A c \in Conn : pc[c] \in {"announce", "serving", "dereg"}
                           => pc'[c] \in {"announce", "serving", "dereg"}
  PROVE  IndexedIsServed'
BY HubAssumption DEF TypeOK, IndexedIsServed

\* One handler moves on, outside those states or within them.
LEMMA IndexMove ==
  ASSUME TypeOK, IndexedIsServed, NEW c \in Conn, NEW l, inst' = inst, local' = local,
         pc' = [pc EXCEPT ![c] = l],
         \/ pc[c] \notin {"announce", "serving", "dereg"}
         \/ l \in {"announce", "serving", "dereg"}
  PROVE  IndexedIsServed'
<1>1. pc \in [Conn -> PCs]
  BY DEF TypeOK
<1>2. \A d \in Conn : pc'[d] = IF d = c THEN l ELSE pc[d]
  BY <1>1
<1> QED BY <1>2, IndexFrame

LEMMA NextIndexed ==
  ASSUME TypeOK, Bookkeeping, IndexedIsServed, [Next]_vars
  PROVE  IndexedIsServed'
<1> USE HubAssumption
<1>1. ASSUME NEW c \in Conn, Handler(c) PROVE IndexedIsServed'
  <2>0. /\ pc \in [Conn -> PCs] /\ inst \in [Conn -> Instance \cup {NoConn}]
        /\ local \in [Instance -> [Key -> Conn \cup {NoConn}]] /\ KeyOf[c] \in Key
    BY DEF TypeOK
  <2> USE DEF Move, Goto, connVars
  <2>1. ASSUME NEW i \in Instance, Connect(c, i) PROVE IndexedIsServed'
    <3>1. /\ local' = local /\ pc[c] = "idle"
          /\ pc' = [pc EXCEPT ![c] = "verified"] /\ inst' = [inst EXCEPT ![c] = i]
      BY <2>1, Zenon DEF Connect
    <3>2. \A d \in Conn : d # c => pc'[d] = pc[d] /\ inst'[d] = inst[d]
      BY <2>0, <3>1
    <3>3. \A j \in Instance, k \in Key : local[j][k] # c
      BY <3>1, HubAssumption DEF IndexedIsServed
    <3> QED BY <2>0, <3>1, <3>2, <3>3 DEF IndexedIsServed
  <2>2. CASE ClaimSlot(c)
    <3>1. \E l : pc' = [pc EXCEPT ![c] = l]
      BY <2>2, ZenonT(30) DEF ClaimSlot
    <3>2. pc[c] = "verified" /\ inst' = inst /\ local' = local
      BY <2>2, Zenon DEF ClaimSlot
    <3> QED BY <3>1, <3>2, IndexMove, Zenon
  <2>3. CASE ClaimFails(c)
    BY <2>3, IndexMove, Zenon DEF ClaimFails
  <2>4. CASE NotifyEviction(c)
    BY <2>4, IndexMove, Zenon DEF NotifyEviction
  <2>5. CASE Supersede(c)
    BY <2>5, IndexMove, Zenon DEF Supersede
  <2>6. CASE Store(c)
    <3>1. /\ inst' = inst /\ pc[c] = "store" /\ pc' = [pc EXCEPT ![c] = "announce"]
          /\ local' = [local EXCEPT ![inst[c]] = [local[inst[c]] EXCEPT ![KeyOf[c]] = c]]
      BY <2>6, Zenon DEF Store
    <3>2. \A d \in Conn : pc'[d] = IF d = c THEN "announce" ELSE pc[d]
      BY <2>0, <3>1
    <3>3. \A j \in Instance, k \in Key :
            local'[j][k] = IF j = inst[c] /\ k = KeyOf[c] THEN c ELSE local[j][k]
      BY <2>0, <3>1
    <3> QED BY <2>0, <3>1, <3>2, <3>3 DEF IndexedIsServed
  <2>7. CASE AnnouncePresence(c)
    BY <2>7, IndexMove, ZenonT(30) DEF AnnouncePresence
  <2>8. CASE RenewSlot(c) \/ SelfClose(c)
    BY <2>8, IndexFrame, ZenonT(30) DEF RenewSlot, SelfClose
  <2>9. CASE Unwind(c) \/ ClientGone(c)
    BY <2>9, IndexMove DEF Unwind, ClientGone
  <2>10. CASE Deregister(c)
    <3>1. /\ inst' = inst /\ pc[c] = "dereg" /\ pc' = [pc EXCEPT ![c] = "release"]
          /\ local' = [local EXCEPT ![inst[c]] = [local[inst[c]] EXCEPT ![KeyOf[c]] =
                                                    IF @ = c THEN NoConn ELSE @]]
      BY <2>10, Zenon DEF Deregister
    <3>2. \A d \in Conn : d # c => pc'[d] = pc[d]
      BY <2>0, <3>1
    <3>3. \A j \in Instance, k \in Key :
            local'[j][k] = IF j = inst[c] /\ k = KeyOf[c] /\ local[j][k] = c
                           THEN NoConn ELSE local[j][k]
      BY <2>0, <3>1
    <3>4. \A j \in Instance, k \in Key : local[j][k] = c => j = inst[c] /\ k = KeyOf[c]
      BY HubAssumption DEF IndexedIsServed
    <3> QED BY <2>0, <3>1, <3>2, <3>3, <3>4 DEF IndexedIsServed
  <2>11. CASE ReleaseSlot(c)
    BY <2>11, IndexMove, Zenon DEF ReleaseSlot
  <2>12. CASE NotifyPeer(c)
    BY <2>12, IndexMove, Zenon DEF NotifyPeer
  <2> QED
    BY <1>1, <2>1, <2>2, <2>3, <2>4, <2>5, <2>6, <2>7, <2>8, <2>9, <2>10, <2>11, <2>12, ZenonT(30) DEF Handler
<1>2. ASSUME NEW i \in Instance, Server(i) PROVE IndexedIsServed'
  <2>1. CASE ProcessEnds(i)
    BY <2>1 DEF ProcessEnds, TypeOK, IndexedIsServed
  <2>2. CASE EvictLocal(i) \/ Revoke(i) \/ Drain(i) \/ CloseAll(i)
    BY <2>2, IndexFrame, Zenon DEF EvictLocal, Revoke, Drain, CloseAll, connVars
  <2> QED BY <1>2, <2>1, <2>2, ZenonT(30) DEF Server
<1>3. ASSUME NEW k \in Key, Expire(k) PROVE IndexedIsServed'
  BY <1>3, IndexFrame DEF Expire, connVars
<1>4. ASSUME NEW scope \in Scopes, PublishRevocation(scope) PROVE IndexedIsServed'
  BY <1>4, IndexFrame, Zenon DEF PublishRevocation, connVars
<1>5. CASE UNCHANGED vars
  BY <1>5, IndexFrame, ZenonT(30) DEF vars
<1> QED BY <1>1, <1>2, <1>3, <1>4, <1>5, ZenonT(30) DEF Next

\* A claim makes its connection the holder and the newest of its key.
LEMMA ClaimNewest ==
  ASSUME TypeOK, NewestHolds, NEW c \in Conn,
         slots' = [slots EXCEPT ![KeyOf[c]] = [conn |-> c, inst |-> inst[c], live |-> TRUE]],
         newest' = [newest EXCEPT ![KeyOf[c]] = c]
  PROVE  NewestHolds'
<1>1. slots \in [Key -> Entry \cup {Free}] /\ newest \in [Key -> Conn \cup {NoConn}]
  BY DEF TypeOK
<1>2. ASSUME NEW k \in Key, slots'[k] # Free PROVE slots'[k].conn = newest'[k]
  <2>1. CASE k = KeyOf[c]
    BY <1>1, <2>1, Zenon
  <2>2. CASE k # KeyOf[c]
    BY <1>1, <1>2, <2>2 DEF NewestHolds
  <2> QED BY <2>1, <2>2, ZenonT(30)
<1> QED BY <1>2, ZenonT(30) DEF NewestHolds

\* A step that leaves the claims alone.
LEMMA NewestFrame ==
  ASSUME NewestHolds, slots' = slots, newest' = newest
  PROVE  NewestHolds'
BY DEF NewestHolds

LEMMA NextNewest ==
  ASSUME TypeOK, NewestHolds, [Next]_vars
  PROVE  NewestHolds'
<1>0. slots \in [Key -> Entry \cup {Free}] /\ newest \in [Key -> Conn \cup {NoConn}]
  BY DEF TypeOK
<1>1. ASSUME NEW c \in Conn, Handler(c) PROVE NewestHolds'
  <2> USE DEF histVars
  <2>1. ASSUME NEW i \in Instance, Connect(c, i) PROVE NewestHolds'
    BY <2>1, NewestFrame DEF Connect
  <2>2. CASE ClaimSlot(c)
    BY <2>2, ClaimNewest, ZenonT(30) DEF ClaimSlot
  <2>3. CASE ClaimFails(c)
    BY <2>3, ClaimFailsEffect, ClaimNewest, NewestFrame, ZenonT(30)
  <2>4. CASE NotifyEviction(c) \/ Supersede(c) \/ Store(c) \/ AnnouncePresence(c)
    BY <2>4, NewestFrame DEF NotifyEviction, Supersede, Store, AnnouncePresence
  <2>5. CASE RenewSlot(c)
    <3>1. CASE UNCHANGED slots
      BY <2>5, <3>1, NewestFrame DEF RenewSlot
    <3>2. CASE slots' = [slots EXCEPT ![KeyOf[c]].live = TRUE] /\ slots[KeyOf[c]].conn = c
      <4>1. \A k \in Key : slots'[k].conn = slots[k].conn
        BY <1>0, <3>2 DEF Entry, Free
      <4>2. slots[KeyOf[c]] # Free
        BY <3>2, HubAssumption DEF Free
      <4>3. \A k \in Key : k # KeyOf[c] => slots'[k] = slots[k]
        BY <1>0, <3>2
      <4>4. newest' = newest
        BY <2>5, ZenonT(30) DEF RenewSlot
      <4> QED BY <4>1, <4>2, <4>3, <4>4 DEF NewestHolds
    <3> QED BY <2>5, <3>1, <3>2 DEF RenewSlot
  <2>6. CASE SelfClose(c) \/ Unwind(c) \/ ClientGone(c)
    BY <2>6, NewestFrame DEF SelfClose, Unwind, ClientGone
  <2>7. CASE Deregister(c) \/ NotifyPeer(c)
    BY <2>7, NewestFrame DEF Deregister, NotifyPeer
  <2>8. CASE ReleaseSlot(c)
    <3>1. CASE slots' = slots
      BY <2>8, <3>1, ReleaseEffect, NewestFrame
    <3>2. CASE slots' = [slots EXCEPT ![KeyOf[c]] = Free]
      BY <1>0, <2>8, <3>2, ReleaseEffect DEF NewestHolds
    <3> QED BY <2>8, <3>1, <3>2, ReleaseEffect
  <2> QED BY <1>1, <2>1, <2>2, <2>3, <2>4, <2>5, <2>6, <2>7, <2>8 DEF Handler
<1>2. ASSUME NEW i \in Instance, Server(i) PROVE NewestHolds'
  BY <1>2, NewestFrame, Zenon DEF Server, EvictLocal, Revoke, Drain, CloseAll, ProcessEnds, histVars
<1>3. ASSUME NEW k \in Key, Expire(k) PROVE NewestHolds'
  <2>1. newest' = newest /\ \A j \in Key : j # k => slots'[j] = slots[j]
    BY <1>0, <1>3 DEF Expire, histVars
  <2>2. slots'[k] = Free \/ slots'[k].conn = slots[k].conn
    BY <1>0, <1>3 DEF Expire, Entry
  <2>3. slots[k] # Free
    BY <1>3 DEF Expire
  <2> QED BY <2>1, <2>2, <2>3 DEF NewestHolds
<1>4. ASSUME NEW scope \in Scopes, PublishRevocation(scope) PROVE NewestHolds'
  BY <1>4, NewestFrame, Zenon DEF PublishRevocation
<1>5. CASE UNCHANGED vars
  BY <1>5, NewestFrame DEF vars
<1> QED BY <1>1, <1>2, <1>3, <1>4, <1>5 DEF Next

----------------------------------------------------------------------------
(* Theorems.                                                               *)

\* Every step of the registry preserves the inductive invariant.
THEOREM HubInvariant == Spec => []HubInv
<1>1. Init => HubInv
  BY InitHubInv
<1>2. HubInv /\ [Next]_vars => HubInv'
  BY NextType, NextBookkeeping, NextIndexed, NextNewest DEF HubInv
<1> QED BY <1>1, <1>2, PTL DEF Spec

\* The registry's state stays well typed: in particular no channel grows beyond
\* its capacity.
THEOREM TypeCorrect == Spec => []TypeOK
<1>1. HubInv => TypeOK
  BY DEF HubInv
<1> QED BY <1>1, HubInvariant, PTL

\* The session index never holds a dead session (Register and Deregister).
THEOREM IndexSound == Spec => []IndexedIsServed
<1>1. HubInv => IndexedIsServed
  BY DEF HubInv
<1> QED BY <1>1, HubInvariant, PTL

\* Newest wins: a slot is held by its last claimant or by nobody (ClaimSlot,
\* RenewSlot and ReleaseSlot of both backplanes).
THEOREM NewestWins == Spec => []NewestHolds
<1>1. HubInv => NewestHolds
  BY ZenonT(30) DEF HubInv
<1> QED BY <1>1, HubInvariant, PTL

----------------------------------------------------------------------------
(* The newest connection keeps its slot.                                   *)

LEMMA KeepFrame ==
  ASSUME TypeOK, NewestKeepsSlot, UNCHANGED <<slots, newest>>,
         \A c \in Conn : pc'[c] \in Holding => pc[c] \in Holding
  PROVE  NewestKeepsSlot'
BY HubAssumption DEF TypeOK, NewestKeepsSlot, Holding

LEMMA NextKeeps ==
  ASSUME HubInv, NewestKeepsSlot, [Next]_vars, ~Redis \/ ~MayExpire
  PROVE  NewestKeepsSlot'
<1> USE HubAssumption
<1>0. TypeOK /\ NewestHolds /\ Bookkeeping
  BY ZenonT(30) DEF HubInv
<1>1. ASSUME NEW c \in Conn, Handler(c) PROVE NewestKeepsSlot'
  <2> USE <1>0 DEF Move, Goto, connVars, histVars
  <2>1. ASSUME NEW i \in Instance, Connect(c, i) PROVE NewestKeepsSlot'
    BY <2>1, KeepFrame, ZenonT(30) DEF Connect, TypeOK, Holding
  <2>2. CASE ClaimSlot(c)
    <3>1. /\ slots' = [slots EXCEPT ![KeyOf[c]] = [conn |-> c, inst |-> inst[c], live |-> TRUE]]
          /\ newest' = [newest EXCEPT ![KeyOf[c]] = c]
          /\ \E l : pc' = [pc EXCEPT ![c] = l]
      BY <2>2, ZenonT(30) DEF ClaimSlot
    <3>2. \A k \in Key : k # KeyOf[c] => newest[k] # c
      BY ZenonT(30) DEF Bookkeeping
    <3> QED BY <3>1, <3>2 DEF TypeOK, NewestKeepsSlot
  <2>3. CASE ClaimFails(c)
    <3>1. CASE UNCHANGED <<slots, newest>>
      BY <2>3, <3>1, KeepFrame, ZenonT(30) DEF ClaimFails, TypeOK, Holding
    <3>2. CASE /\ slots' = [slots EXCEPT ![KeyOf[c]] = [conn |-> c, inst |-> inst[c], live |-> TRUE]]
               /\ newest' = [newest EXCEPT ![KeyOf[c]] = c]
      <4>1. pc' = [pc EXCEPT ![c] = "done"]
        BY <2>3, ZenonT(30) DEF ClaimFails
      <4>2. \A k \in Key : k # KeyOf[c] => newest[k] # c
        BY DEF Bookkeeping
      <4> QED BY <3>2, <4>1, <4>2 DEF TypeOK, NewestKeepsSlot
    <3> QED BY <2>3, <3>1, <3>2, ZenonT(30) DEF ClaimFails
  <2>4. CASE NotifyEviction(c)
    BY <2>4, KeepFrame DEF NotifyEviction, TypeOK, Holding
  <2>5. CASE Supersede(c)
    BY <2>5, KeepFrame, ZenonT(30) DEF Supersede, TypeOK, Holding
  <2>6. CASE Store(c)
    BY <2>6, KeepFrame, ZenonT(30) DEF Store, TypeOK, Holding
  <2>7. CASE AnnouncePresence(c)
    BY <2>7, KeepFrame DEF AnnouncePresence, TypeOK, Holding
  <2>8. CASE RenewSlot(c)
    <3>1. \A k \in Key : slots'[k].conn = slots[k].conn
      <4>1. \/ UNCHANGED slots
            \/ slots' = [slots EXCEPT ![KeyOf[c]] = [slots[KeyOf[c]] EXCEPT !.live = TRUE]]
        BY <2>8 DEF RenewSlot
      <4>2. slots \in [Key -> Entry \cup {Free}]
        BY DEF TypeOK
      <4> QED BY <4>1, <4>2 DEF Entry, Free
    <3> QED BY <2>8, <3>1 DEF RenewSlot, TypeOK, NewestKeepsSlot
  <2>9. CASE SelfClose(c)
    BY <2>9, KeepFrame, ZenonT(30) DEF SelfClose
  <2>10. CASE Unwind(c) \/ ClientGone(c)
    BY <2>10, KeepFrame, ZenonT(30) DEF Unwind, ClientGone, TypeOK, Holding
  <2>11. CASE Deregister(c)
    BY <2>11, KeepFrame, ZenonT(30) DEF Deregister, TypeOK, Holding
  <2>12. CASE ReleaseSlot(c)
    <3>1. pc' = [pc EXCEPT ![c] = "offline"] /\ newest' = newest
      BY <2>12, ReleaseEffect, ZenonT(30)
    <3>2. \A d \in Conn : pc'[d] \in Holding => pc[d] \in Holding /\ d # c
      BY <3>1 DEF TypeOK, Holding
    <3>3. CASE slots' = slots
      BY <3>1, <3>2, <3>3, KeepFrame, ZenonT(30)
    <3>4. CASE slots[KeyOf[c]].conn = c /\ slots' = [slots EXCEPT ![KeyOf[c]] = Free]
      <4>1. slots[KeyOf[c]] # Free
        BY <3>4 DEF Free
      <4>2. newest[KeyOf[c]] = c
        BY <3>4, <4>1 DEF NewestHolds
      <4>3. \A k \in Key : k # KeyOf[c] => slots'[k] = slots[k]
        BY <3>4, ZenonT(30) DEF TypeOK
      <4>4. newest \in [Key -> Conn \cup {NoConn}]
        BY ZenonT(30) DEF TypeOK
      <4> QED BY <3>1, <3>2, <4>2, <4>3, <4>4, ZenonT(30) DEF NewestKeepsSlot
    <3> QED BY <2>12, <3>3, <3>4, ReleaseEffect
  <2>13. CASE NotifyPeer(c)
    BY <2>13, KeepFrame DEF NotifyPeer, TypeOK, Holding
  <2> QED
    BY <1>1, <2>1, <2>2, <2>3, <2>4, <2>5, <2>6, <2>7, <2>8, <2>9, <2>10, <2>11, <2>12, <2>13,
       ZenonT(30) DEF Handler
<1>2. ASSUME NEW i \in Instance, Server(i) PROVE NewestKeepsSlot'
  <2>1. CASE ProcessEnds(i)
    BY <1>0, <2>1, KeepFrame DEF ProcessEnds, TypeOK, Holding, histVars
  <2>2. CASE EvictLocal(i) \/ Revoke(i) \/ Drain(i) \/ CloseAll(i)
    BY <1>0, <2>2, KeepFrame, Zenon DEF EvictLocal, Revoke, Drain, CloseAll, connVars, histVars
  <2> QED BY <1>2, <2>1, <2>2, ZenonT(30) DEF Server
<1>3. ASSUME NEW k \in Key, Expire(k) PROVE NewestKeepsSlot'
  <2>1. slots' = [slots EXCEPT ![k] = [@ EXCEPT !.live = FALSE]]
    BY <1>3 DEF Expire
  <2>2. \A j \in Key : slots'[j].conn = slots[j].conn
    BY <1>0, <2>1 DEF TypeOK, Entry, Free
  <2> QED BY <1>0, <1>3, <2>2 DEF Expire, TypeOK, NewestKeepsSlot, connVars, histVars
<1>4. ASSUME NEW scope \in Scopes, PublishRevocation(scope) PROVE NewestKeepsSlot'
  BY <1>0, <1>4, KeepFrame, ZenonT(30) DEF PublishRevocation, connVars
<1>5. CASE UNCHANGED vars
  BY <1>0, <1>5, KeepFrame DEF vars
<1> QED BY <1>1, <1>2, <1>3, <1>4, <1>5 DEF Next

\* With the in-memory backplane, and with redis as long as no TTL runs out, the
\* last claimant of a slot holds it until its own handler releases it.
THEOREM NewestKeeps ==
  ASSUME ~Redis \/ ~MayExpire
  PROVE  Spec => []NewestKeepsSlot
<1>1. Init => NewestKeepsSlot
  BY HubAssumption DEF Init, NewestKeepsSlot
<1>2. HubInv /\ NewestKeepsSlot /\ [Next]_vars => NewestKeepsSlot'
  BY NextKeeps
<1> QED BY <1>1, <1>2, HubInvariant, PTL DEF Spec

----------------------------------------------------------------------------
(* The registry implements SlotLease.                                      *)

\* A step that leaves the slots alone and spends no connection is a stutter of
\* the lease.
LEMMA LeaseStutter ==
  ASSUME UNCHANGED <<slots, newest>>,
         \A c \in Conn : (pc'[c] \in {"idle", "verified"}) <=> (pc[c] \in {"idle", "verified"})
  PROVE  UNCHANGED <<holder, newest, spent>>
<1>1. UNCHANGED holder
  BY DEF holder
<1>2. UNCHANGED spent
  BY ZenonT(30) DEF spent
<1> QED BY <1>1, <1>2

\* A write of a live entry for c is a claim.
LEMMA LeaseClaim ==
  ASSUME TypeOK, NEW c \in Conn, pc[c] = "verified",
         slots' = [slots EXCEPT ![KeyOf[c]] = [conn |-> c, inst |-> inst[c], live |-> TRUE]],
         newest' = [newest EXCEPT ![KeyOf[c]] = c],
         \E l \in PCs \ {"idle", "verified"} : pc' = [pc EXCEPT ![c] = l]
  PROVE  Lease!Claim(c)
<1>1. c \notin spent /\ spent' = spent \cup {c}
  BY ZenonT(30) DEF spent, TypeOK
<1>2. holder' = [holder EXCEPT ![KeyOf[c]] = c]
  BY HubAssumption, Zenon DEF holder, TypeOK
<1> QED BY <1>1, <1>2, ZenonT(30) DEF Lease!Claim

LEMMA LeaseHandler ==
  ASSUME HubInv, NEW c \in Conn, Handler(c)
  PROVE  Lease!Next \/ UNCHANGED <<holder, newest, spent>>
<1>0. TypeOK /\ NewestHolds /\ KeyOf[c] \in Key
  BY HubAssumption DEF HubInv
<1> USE <1>0 DEF Move, Goto, connVars, histVars
<1>1. ASSUME NEW i \in Instance, Connect(c, i) PROVE UNCHANGED <<holder, newest, spent>>
  BY <1>1, LeaseStutter DEF Connect, TypeOK
<1>2. CASE ClaimSlot(c)
  <2>1. \E l \in PCs \ {"idle", "verified"} : pc' = [pc EXCEPT ![c] = l]
    BY <1>2, ZenonT(30) DEF ClaimSlot, PCs
  <2>2. Lease!Claim(c)
    BY <1>2, <2>1, LeaseClaim, ZenonT(30) DEF ClaimSlot
  <2> QED BY <2>2 DEF Lease!Next
<1>3. CASE ClaimFails(c)
  <2>1. pc[c] = "verified" /\ pc' = [pc EXCEPT ![c] = "done"]
    BY <1>3 DEF ClaimFails
  <2>2. CASE UNCHANGED <<slots, newest>>
    <3>1. UNCHANGED holder
      BY <2>2, ZenonT(30) DEF holder
    <3>2. spent' = spent \cup {c}
      BY <2>1 DEF spent, TypeOK
    <3>3. Lease!GiveUp
      BY <2>2, <3>1, <3>2, Zenon DEF Lease!GiveUp
    <3> QED BY <3>3, ZenonT(30) DEF Lease!Next
  <2>3. CASE /\ slots' = [slots EXCEPT ![KeyOf[c]] = [conn |-> c, inst |-> inst[c], live |-> TRUE]]
             /\ newest' = [newest EXCEPT ![KeyOf[c]] = c]
    <3>1. \E l \in PCs \ {"idle", "verified"} : pc' = [pc EXCEPT ![c] = l]
      BY <2>1, ZenonT(30) DEF PCs
    <3>2. Lease!Claim(c)
      BY <2>1, <2>3, <3>1, LeaseClaim, Zenon
    <3> QED BY <3>2 DEF Lease!Next
  <2> QED BY <1>3, <2>2, <2>3, ZenonT(30) DEF ClaimFails
<1>4. CASE NotifyEviction(c)
  BY <1>4, LeaseStutter DEF NotifyEviction, TypeOK
<1>5. CASE Supersede(c)
  BY <1>5, LeaseStutter, ZenonT(30) DEF Supersede, TypeOK
<1>6. CASE Store(c)
  BY <1>6, LeaseStutter, ZenonT(30) DEF Store, TypeOK
<1>7. CASE AnnouncePresence(c)
  BY <1>7, LeaseStutter DEF AnnouncePresence, TypeOK
<1>8. CASE RenewSlot(c)
  <2>1. UNCHANGED <<newest, spent>>
    BY <1>8, ZenonT(30) DEF RenewSlot, spent
  <2>2. CASE UNCHANGED slots
    BY <2>1, <2>2, ZenonT(30) DEF holder
  <2>3. CASE /\ slots' = [slots EXCEPT ![KeyOf[c]] = [slots[KeyOf[c]] EXCEPT !.live = TRUE]]
             /\ slots[KeyOf[c]].conn = c
    <3>1. slots[KeyOf[c]] \in Entry /\ slots[KeyOf[c]] # Free
      BY <2>3, HubAssumption DEF TypeOK, Free
    <3>2. newest[KeyOf[c]] = c
      BY <2>3, <3>1 DEF NewestHolds
    <3>3. holder' = [holder EXCEPT ![KeyOf[c]] = c]
      BY <2>3, <3>1, ZenonT(30) DEF holder, TypeOK, Entry
    <3>4. CASE slots[KeyOf[c]].live
      <4>1. holder[KeyOf[c]] = c /\ holder = [k \in Key |-> holder[k]]
        BY <2>3, <3>4 DEF holder
      <4> QED BY <2>1, <3>3, <4>1
    <3>5. CASE ~slots[KeyOf[c]].live
      <4>1. holder[KeyOf[c]] = NoConn
        BY <3>5 DEF holder
      <4>2. Lease!Resume(KeyOf[c])
        BY <2>1, <3>2, <3>3, <4>1 DEF Lease!Resume
      <4> QED BY <4>2 DEF Lease!Next
    <3> QED BY <3>4, <3>5
  <2> QED BY <1>8, <2>2, <2>3 DEF RenewSlot
<1>9. CASE SelfClose(c)
  BY <1>9, LeaseStutter, ZenonT(30) DEF SelfClose
<1>10. CASE Unwind(c) \/ ClientGone(c)
  BY <1>10, LeaseStutter, ZenonT(30) DEF Unwind, ClientGone, TypeOK
<1>11. CASE Deregister(c)
  BY <1>11, LeaseStutter DEF Deregister, TypeOK
<1>12. CASE ReleaseSlot(c)
  <2>1. UNCHANGED <<newest, spent>>
    BY <1>12, Zenon DEF ReleaseSlot, spent, TypeOK
  <2>2. CASE UNCHANGED slots
    BY <2>1, <2>2 DEF holder
  <2>3. CASE slots' = [slots EXCEPT ![KeyOf[c]] = Free]
    <3>1. holder' = [holder EXCEPT ![KeyOf[c]] = NoConn]
      BY <2>3, Zenon DEF holder, TypeOK, Free
    <3>2. Lease!End(KeyOf[c])
      BY <2>1, <3>1 DEF Lease!End
    <3> QED BY <3>2 DEF Lease!Next
  <2>4. UNCHANGED slots \/ slots' = [slots EXCEPT ![KeyOf[c]] = Free]
    BY <1>12, ZenonT(30) DEF ReleaseSlot, TypeOK
  <2> QED BY <2>2, <2>3, <2>4
<1>13. CASE NotifyPeer(c)
  BY <1>13, LeaseStutter DEF NotifyPeer, TypeOK
<1> QED
  BY <1>1, <1>2, <1>3, <1>4, <1>5, <1>6, <1>7, <1>8, <1>9, <1>10, <1>11, <1>12, <1>13,
     Handler(c) DEF Handler

LEMMA LeaseNext ==
  ASSUME HubInv, [Next]_vars
  PROVE  Lease!Next \/ UNCHANGED <<holder, newest, spent>>
<1>0. TypeOK
  BY DEF HubInv
<1>1. ASSUME NEW c \in Conn, Handler(c)
      PROVE  Lease!Next \/ UNCHANGED <<holder, newest, spent>>
  BY <1>1, LeaseHandler
<1>2. ASSUME NEW i \in Instance, Server(i)
      PROVE  Lease!Next \/ UNCHANGED <<holder, newest, spent>>
  <2>1. CASE ProcessEnds(i)
    <3>1. UNCHANGED <<holder, newest>>
      BY <2>1, ZenonT(30) DEF ProcessEnds, holder, histVars
    <3>2. spent' = spent \cup {c \in Conn : inst[c] = i /\ pc[c] # "idle"}
      BY <1>0, <2>1 DEF ProcessEnds, spent, TypeOK
    <3>3. Lease!GiveUp
      BY <3>1, <3>2, Zenon DEF Lease!GiveUp
    <3> QED BY <3>3, ZenonT(30) DEF Lease!Next
  <2>2. CASE EvictLocal(i) \/ Revoke(i) \/ Drain(i) \/ CloseAll(i)
    BY <2>2, LeaseStutter DEF EvictLocal, Revoke, Drain, CloseAll, connVars, histVars
  <2> QED BY <1>2, <2>1, <2>2 DEF Server
<1>3. ASSUME NEW k \in Key, Expire(k) PROVE Lease!Next
  <2>1. holder' = [holder EXCEPT ![k] = NoConn]
    BY <1>0, <1>3, ZenonT(30) DEF Expire, holder, TypeOK, Entry, Free
  <2>2. UNCHANGED <<newest, spent>>
    BY <1>3 DEF Expire, spent, connVars, histVars
  <2>3. Lease!End(k)
    BY <2>1, <2>2 DEF Lease!End
  <2> QED BY <2>3 DEF Lease!Next
<1>4. ASSUME NEW scope \in Scopes, PublishRevocation(scope)
      PROVE  UNCHANGED <<holder, newest, spent>>
  BY <1>4, LeaseStutter, Zenon DEF PublishRevocation, connVars
<1>5. CASE UNCHANGED vars
  BY <1>5, LeaseStutter DEF vars
<1> QED BY <1>1, <1>2, <1>3, <1>4, <1>5 DEF Next

\* The registry, on either backplane, implements the newest-wins lease.
THEOREM RegistryImplementsLease == Spec => ImplementsLease
<1>1. Init => Lease!Init
  <2> SUFFICES ASSUME Init PROVE Lease!Init
    OBVIOUS
  <2>1. holder = [k \in Key |-> NoConn]
    BY DEF Init, holder, Free
  <2>2. spent = {}
    BY DEF Init, spent
  <2> QED BY <2>1, <2>2 DEF Init, Lease!Init
<1>2. HubInv /\ [Next]_vars => [Lease!Next]_(Lease!leaseVars)
  BY LeaseNext DEF Lease!leaseVars
<1> QED BY <1>1, <1>2, HubInvariant, PTL DEF Spec, ImplementsLease, Lease!Spec

----------------------------------------------------------------------------
(* No slot outlives its handler.                                           *)

\* The entry of a slot is a connection of the slot's key.
LEMMA HolderKey ==
  ASSUME HubInv, NEW k \in Key, slots[k] # Free
  PROVE  slots[k].conn \in Conn /\ KeyOf[slots[k].conn] = k
<1>1. TypeOK /\ NewestHolds /\ Bookkeeping
  BY Zenon DEF HubInv
<1>2. slots[k] \in Entry
  BY <1>1 DEF TypeOK
<1>3. slots[k].conn \in Conn
  BY <1>2 DEF Entry
<1>4. newest[k] = slots[k].conn /\ newest[k] # NoConn
  BY <1>1, <1>3, HubAssumption DEF NewestHolds
<1> QED BY <1>1, <1>3, <1>4, Zenon DEF Bookkeeping

\* A step that gives no slot away and takes no handler past its release.
LEMMA LeakFrame ==
  ASSUME HubInv, NoLeakedSlot,
         \A k \in Key : slots'[k] # Free => slots[k] # Free /\ slots'[k].conn = slots[k].conn,
         \A c \in Conn : pc[c] \in Holding => pc'[c] \in Holding
  PROVE  NoLeakedSlot'
BY HolderKey, Zenon DEF NoLeakedSlot

\* One handler moves on, and was not holding or is still.
LEMMA LeakMove ==
  ASSUME HubInv, NoLeakedSlot, slots' = slots, NEW c \in Conn, NEW from, NEW to,
         Move(c, from, to), from \notin Holding \/ to \in Holding
  PROVE  NoLeakedSlot'
<1>1. pc \in [Conn -> PCs]
  BY Zenon DEF HubInv, TypeOK
<1>2. \A d \in Conn : pc[d] \in Holding => pc'[d] \in Holding
  BY <1>1 DEF Move, Goto
<1> QED BY <1>2, LeakFrame, Zenon

\* An entry is renewed or runs out.
LEMMA LeaseKeepsConn ==
  ASSUME HubInv, NEW k \in Key, slots[k] # Free, NEW b,
         slots' = [slots EXCEPT ![k] = [slots[k] EXCEPT !.live = b]]
  PROVE  \A j \in Key : slots'[j] # Free => slots[j] # Free /\ slots'[j].conn = slots[j].conn
<1>1. slots \in [Key -> Entry \cup {Free}]
  BY Zenon DEF HubInv, TypeOK
<1>2. slots[k] \in Entry
  BY <1>1, Zenon
<1>3. [slots[k] EXCEPT !.live = b].conn = slots[k].conn
  BY ONLY <1>2 DEF Entry
<1>4. slots'[k].conn = slots[k].conn /\ \A j \in Key : j # k => slots'[j] = slots[j]
  BY <1>1, <1>3, Zenon
<1> QED BY <1>4, Zenon

LEMMA NextNoLeak ==
  ASSUME HubInv, NoLeakedSlot, [Next]_vars, ~Redis
  PROVE  NoLeakedSlot'
<1>0. /\ TypeOK
      /\ pc \in [Conn -> PCs] /\ slots \in [Key -> Entry \cup {Free}] /\ KeyOf \in [Conn -> Key]
  BY HubAssumption, Zenon DEF HubInv, TypeOK
<1>1. /\ {"store", "announce", "serving", "dereg", "release"} \subseteq Holding
      /\ "idle" \notin Holding /\ "offline" \notin Holding
  BY DEF Holding
<1>2. ASSUME NEW c \in Conn, Handler(c) PROVE NoLeakedSlot'
  <2>1. ASSUME NEW i \in Instance, Connect(c, i) PROVE NoLeakedSlot'
    BY <1>1, <2>1, LeakMove, Zenon DEF Connect
  <2>2. CASE ClaimSlot(c)
    <3>1. /\ slots' = [slots EXCEPT ![KeyOf[c]] = [conn |-> c, inst |-> inst[c], live |-> TRUE]]
          /\ pc[c] = "verified"
          /\ \E l \in Holding : pc' = [pc EXCEPT ![c] = l]
      BY <2>2 DEF ClaimSlot, Goto, Holding
    <3>2. pc'[c] \in Holding /\ \A d \in Conn : d # c => pc'[d] = pc[d]
      BY <1>0, <3>1
    <3>3. slots'[KeyOf[c]].conn = c
      BY <1>0, <3>1
    <3>4. \A k \in Key : k # KeyOf[c] => slots'[k] = slots[k]
      BY <1>0, <3>1
    <3>5. \A d \in Conn : pc[d] \in Holding => pc'[d] \in Holding
      BY <3>2, Zenon
    <3> QED BY <3>2, <3>3, <3>4, <3>5, HolderKey, Zenon DEF NoLeakedSlot
  <2>3. CASE ClaimFails(c)
    BY <2>3, Zenon DEF ClaimFails
  <2>4. CASE NotifyEviction(c)
    BY <1>1, <2>4, LeakMove, Zenon DEF NotifyEviction
  <2>5. CASE Supersede(c)
    BY <1>1, <2>5, LeakMove, Zenon DEF Supersede
  <2>6. CASE Store(c)
    BY <1>1, <2>6, LeakMove, Zenon DEF Store
  <2>7. CASE AnnouncePresence(c)
    BY <1>1, <2>7, LeakMove, Zenon DEF AnnouncePresence
  <2>8. CASE RenewSlot(c)
    <3>1. /\ pc' = pc
          /\ \/ slots' = slots
             \/ /\ slots[KeyOf[c]].conn = c
                /\ slots' = [slots EXCEPT ![KeyOf[c]] = [slots[KeyOf[c]] EXCEPT !.live = TRUE]]
      BY <2>8 DEF RenewSlot, connVars
    <3>2. slots[KeyOf[c]].conn = c => slots[KeyOf[c]] # Free
      BY HubAssumption DEF Free
    <3>3. \A k \in Key : slots'[k] # Free => slots[k] # Free /\ slots'[k].conn = slots[k].conn
      BY <1>0, <3>1, <3>2, LeaseKeepsConn, Zenon
    <3> QED BY <3>1, <3>3, LeakFrame, Zenon
  <2>9. CASE SelfClose(c)
    BY <2>9, LeakFrame, Zenon DEF SelfClose, connVars
  <2>10. CASE Unwind(c) \/ ClientGone(c)
    BY <1>1, <2>10, LeakMove, Zenon DEF Unwind, ClientGone
  <2>11. CASE Deregister(c)
    BY <1>1, <2>11, LeakMove, Zenon DEF Deregister
  <2>12. CASE ReleaseSlot(c)
    <3>1. /\ pc' = [pc EXCEPT ![c] = "offline"]
          /\ slots' = [slots EXCEPT ![KeyOf[c]] = IF @.conn = c THEN Free ELSE @]
      BY <2>12, Zenon DEF ReleaseSlot, Move, Goto
    <3>2. \A k \in Key : slots'[k] # Free =>
            slots'[k] = slots[k] /\ (k = KeyOf[c] => slots[k].conn # c)
      BY <1>0, <3>1
    <3>3. \A d \in Conn : d # c => pc'[d] = pc[d]
      BY <1>0, <3>1
    <3> QED BY <3>2, <3>3, HolderKey, Zenon DEF NoLeakedSlot
  <2>13. CASE NotifyPeer(c)
    BY <1>1, <2>13, LeakMove, Zenon DEF NotifyPeer
  <2> QED
    BY <1>2, <2>1, <2>2, <2>3, <2>4, <2>5, <2>6, <2>7, <2>8, <2>9, <2>10, <2>11, <2>12, <2>13,
       ZenonT(30) DEF Handler
<1>3. ASSUME NEW i \in Instance, Server(i) PROVE NoLeakedSlot'
  <2>1. CASE ProcessEnds(i)
    BY <2>1, Zenon DEF ProcessEnds
  <2>2. CASE EvictLocal(i) \/ Revoke(i) \/ Drain(i) \/ CloseAll(i)
    BY <2>2, LeakFrame, Zenon DEF EvictLocal, Revoke, Drain, CloseAll, connVars
  <2> QED BY <1>3, <2>1, <2>2, Zenon DEF Server
<1>4. ASSUME NEW k \in Key, Expire(k) PROVE NoLeakedSlot'
  <2>1. pc' = pc /\ slots[k] # Free /\ slots' = [slots EXCEPT ![k] = [slots[k] EXCEPT !.live = FALSE]]
    BY <1>4 DEF Expire, connVars
  <2>2. \A j \in Key : slots'[j] # Free => slots[j] # Free /\ slots'[j].conn = slots[j].conn
    BY <1>0, <2>1, LeaseKeepsConn, Zenon
  <2> QED BY <2>1, <2>2, LeakFrame, Zenon
<1>5. ASSUME NEW scope \in Scopes, PublishRevocation(scope) PROVE NoLeakedSlot'
  BY <1>5, LeakFrame, Zenon DEF PublishRevocation, connVars
<1>6. CASE UNCHANGED vars
  BY <1>6, LeakFrame, Zenon DEF vars
<1> QED BY <1>2, <1>3, <1>4, <1>5, <1>6, Zenon DEF Next

\* With the in-memory backplane every entry of the slot table belongs to a handler
\* that still has its ReleaseSlot to run (handleConnect's deferred Deregister).
THEOREM SlotsAreReleased ==
  ASSUME ~Redis
  PROVE  Spec => []NoLeakedSlot
<1>1. Init => NoLeakedSlot
  BY DEF Init, NoLeakedSlot
<1>2. HubInv /\ NoLeakedSlot /\ [Next]_vars => NoLeakedSlot'
  BY NextNoLeak
<1> QED BY <1>1, <1>2, HubInvariant, PTL DEF Spec

----------------------------------------------------------------------------
(* A revocation reaches every session it matches.                          *)

\* What RevocationCuts rests on: no instance is draining, a channel holds at most
\* the events published so far, and a session that must be cut has registered and,
\* while it is indexed and open, an event that matches it is still queued.
RevocationInv ==
  /\ \A i \in Instance : phase[i] = "up" /\ Len(revq[i]) <= Cardinality(published)
  /\ \A c \in mustCut :
       /\ pc[c] \in {"announce", "serving", "dereg", "release", "offline", "done"}
       /\ local[inst[c]][KeyOf[c]] = c /\ closeCode[c] = Open =>
            \E n \in 1 .. Len(revq[inst[c]]) : KeyOf[c] \in revq[inst[c]][n]

\* A step that leaves the channels alone, indexes no registered session anew and
\* reopens none.
LEMMA RevocationFrame ==
  ASSUME RevocationInv, UNCHANGED <<phase, revq, published, mustCut>>,
         \A c \in mustCut : inst'[c] = inst[c],
         \A c \in mustCut :
           pc'[c] \in {"announce", "serving", "dereg", "release", "offline", "done"},
         \A c \in mustCut : local'[inst[c]][KeyOf[c]] = c => local[inst[c]][KeyOf[c]] = c,
         \A c \in mustCut : closeCode'[c] = Open => closeCode[c] = Open
  PROVE  RevocationInv'
<1>1. \A i \in Instance : phase'[i] = "up" /\ Len(revq'[i]) <= Cardinality(published')
  BY Zenon DEF RevocationInv
<1>2. ASSUME NEW c \in mustCut', local'[inst'[c]][KeyOf[c]] = c, closeCode'[c] = Open
      PROVE  \E n \in 1 .. Len(revq'[inst'[c]]) : KeyOf[c] \in revq'[inst'[c]][n]
  <2>1. c \in mustCut /\ inst'[c] = inst[c] /\ revq' = revq
    BY Zenon
  <2>2. local[inst[c]][KeyOf[c]] = c /\ closeCode[c] = Open
    BY <1>2, <2>1, Zenon
  <2>3. \E n \in 1 .. Len(revq[inst[c]]) : KeyOf[c] \in revq[inst[c]][n]
    BY <2>1, <2>2, Zenon DEF RevocationInv
  <2> QED BY <2>1, <2>3, Zenon
<1> QED BY <1>1, <1>2, Zenon DEF RevocationInv

\* The close code of a session, once set, stays.
LEMMA CloseStays ==
  ASSUME TypeOK, NEW code \in Codes, NEW c \in Conn
  PROVE  /\ \A d : CloseWith(d, code)[c] = Open => closeCode[c] = Open
         /\ \A S : CloseEach(S, code)[c] = Open => closeCode[c] = Open /\ c \notin S
<1>1. closeCode \in [Conn -> Codes \cup {Open}] /\ code # Open
  BY DEF TypeOK, Codes, Open
<1>2. \A d : CloseWith(d, code)[c] = Open => closeCode[c] = Open
  BY <1>1 DEF CloseWith
<1>3. \A S : CloseEach(S, code)[c] = Open => closeCode[c] = Open /\ c \notin S
  BY <1>1, Zenon DEF CloseEach
<1> QED BY <1>2, <1>3, Zenon

LEMMA HandlerRevocation ==
  ASSUME HubInv, RevocationInv, ~Redis, NEW c \in Conn, Handler(c)
  PROVE  RevocationInv'
<1> DEFINE Past == {"announce", "serving", "dereg", "release", "offline", "done"}
<1>0. /\ pc \in [Conn -> PCs] /\ inst \in [Conn -> Instance \cup {NoConn}]
      /\ local \in [Instance -> [Key -> Conn \cup {NoConn}]] /\ mustCut \subseteq Conn
      /\ KeyOf \in [Conn -> Key] /\ TypeOK
  BY HubAssumption, Zenon DEF HubInv, TypeOK
<1>1. \A d \in mustCut : pc[d] \in Past
  BY Zenon DEF RevocationInv
<1>2. /\ "announce" \in Past /\ "serving" \in Past /\ "dereg" \in Past /\ "release" \in Past
      /\ "offline" \in Past /\ "done" \in Past
      /\ "idle" \notin Past /\ "verified" \notin Past /\ "notify" \notin Past
      /\ "supersede" \notin Past /\ "store" \notin Past
  OBVIOUS
<1>3. Codes = {"superseded", "revoked", "going_away", "self"}
  BY DEF Codes
<1> HIDE DEF Past
<1>4. ASSUME NEW from, NEW to, Move(c, from, to), from \notin Past \/ to \in Past
      PROVE  \A d \in mustCut : pc'[d] \in Past
  <2>1. pc[c] = from /\ pc'[c] = to /\ \A d \in Conn : d # c => pc'[d] = pc[d]
    BY <1>0, <1>4 DEF Move, Goto
  <2> QED BY <1>0, <1>1, <1>4, <2>1, Zenon
<1>5. ASSUME UNCHANGED <<phase, revq, published, mustCut>>,
             \A d \in mustCut : inst'[d] = inst[d], \A d \in mustCut : pc'[d] \in Past,
             \A d \in mustCut : local'[inst[d]][KeyOf[d]] = d => local[inst[d]][KeyOf[d]] = d,
             \A d \in mustCut : closeCode'[d] = Open => closeCode[d] = Open
      PROVE  RevocationInv'
  BY <1>5, RevocationFrame, Zenon DEF Past
<1>6. ASSUME NEW i \in Instance, Connect(c, i) PROVE RevocationInv'
  <2>1. \A d \in mustCut : inst'[d] = inst[d]
    BY <1>0, <1>1, <1>2, <1>6 DEF Connect, Move
  <2> QED BY <1>2, <1>4, <1>5, <1>6, <2>1, Zenon DEF Connect, histVars
<1>7. CASE ClaimSlot(c)
  <2>1. \E l : Move(c, "verified", l)
    BY <1>7 DEF ClaimSlot, Move
  <2> QED BY <1>2, <1>4, <1>5, <1>7, <2>1, Zenon DEF ClaimSlot
<1>8. CASE ClaimFails(c)
  BY <1>8, Zenon DEF ClaimFails
<1>9. CASE NotifyEviction(c)
  BY <1>2, <1>4, <1>5, <1>9, Zenon DEF NotifyEviction, histVars
<1>10. CASE Supersede(c)
  <2>1. closeCode' = closeCode \/ \E d : closeCode' = CloseWith(d, "superseded")
    BY <1>10, Zenon DEF Supersede
  <2>2. \A d \in mustCut : closeCode'[d] = Open => closeCode[d] = Open
    BY <1>0, <1>3, <2>1, CloseStays
  <2> QED BY <1>2, <1>4, <1>5, <1>10, <2>2, Zenon DEF Supersede, histVars
<1>11. CASE Store(c)
  <2>1. pc[c] = "store" /\ local' = [local EXCEPT ![inst[c]][KeyOf[c]] = c]
    BY <1>11, Zenon DEF Store, Move
  <2>2. inst[c] \in Instance
    BY <2>1 DEF HubInv, Bookkeeping
  <2>3. \A i \in Instance, k \in Key : local'[i][k] = local[i][k] \/ local'[i][k] = c
    BY <1>0, <2>1, <2>2
  <2>4. \A d \in mustCut : d # c /\ d \in Conn /\ inst[d] \in Instance /\ KeyOf[d] \in Key
    BY <1>0, <1>1, <1>2, <2>1, Zenon DEF HubInv, Bookkeeping
  <2>5. \A d \in mustCut : local'[inst[d]][KeyOf[d]] = d => local[inst[d]][KeyOf[d]] = d
    BY <2>3, <2>4, Zenon
  <2> QED BY <1>2, <1>4, <1>5, <1>11, <2>5, Zenon DEF Store, histVars
<1>12. CASE AnnouncePresence(c)
  BY <1>2, <1>4, <1>5, <1>12, Zenon DEF AnnouncePresence, histVars
<1>13. CASE RenewSlot(c) \/ SelfClose(c)
  <2>1. closeCode' = closeCode \/ \E code \in Codes : closeCode' = CloseWith(c, code)
    BY <1>3, <1>13 DEF RenewSlot, SelfClose
  <2>2. \A d \in mustCut : closeCode'[d] = Open => closeCode[d] = Open
    BY <1>0, <2>1, CloseStays
  <2> QED BY <1>1, <1>5, <1>13, <2>2, Zenon DEF RenewSlot, SelfClose, connVars, histVars
<1>14. CASE Unwind(c) \/ ClientGone(c)
  BY <1>2, <1>4, <1>5, <1>14, Zenon DEF Unwind, ClientGone, histVars
<1>15. CASE Deregister(c)
  <2>1. /\ pc[c] = "dereg"
        /\ \E v \in {NoConn, local[inst[c]][KeyOf[c]]} :
             local' = [local EXCEPT ![inst[c]][KeyOf[c]] = v]
    BY <1>15, Zenon DEF Deregister, Move
  <2>2. inst[c] \in Instance
    BY <2>1 DEF HubInv, Bookkeeping
  <2>3. \A i \in Instance, k \in Key : local'[i][k] = local[i][k] \/ local'[i][k] = NoConn
    BY <1>0, <2>1, <2>2
  <2>4. \A d \in mustCut : d \in Conn /\ inst[d] \in Instance /\ KeyOf[d] \in Key
    BY <1>0, <1>1, <1>2, Zenon DEF HubInv, Bookkeeping
  <2>5. \A d \in mustCut : local'[inst[d]][KeyOf[d]] = d => local[inst[d]][KeyOf[d]] = d
    BY <2>3, <2>4, HubAssumption, Zenon
  <2> QED BY <1>2, <1>4, <1>5, <1>15, <2>5, Zenon DEF Deregister, histVars
<1>16. CASE ReleaseSlot(c)
  BY <1>2, <1>4, <1>5, <1>16, Zenon DEF ReleaseSlot, histVars
<1>17. CASE NotifyPeer(c)
  BY <1>2, <1>4, <1>5, <1>17, Zenon DEF NotifyPeer, histVars
<1> QED
  BY <1>6, <1>7, <1>8, <1>9, <1>10, <1>11, <1>12, <1>13, <1>14, <1>15, <1>16, <1>17,
     ZenonT(30) DEF Handler

\* The number of events published is a number.
LEMMA PublishedCount ==
  ASSUME HubInv, IsFiniteSet(Scopes)
  PROVE  IsFiniteSet(published) /\ Cardinality(published) \in Nat
<1>1. published \in SUBSET Scopes
  BY Zenon DEF HubInv, TypeOK
<1>2. IsFiniteSet(published)
  BY <1>1, FS_Subset, Zenon
<1> QED BY <1>2, FS_CardinalityType, Zenon

LEMMA ServerRevocation ==
  ASSUME HubInv, RevocationInv, ~Redis, Drainable = {}, IsFiniteSet(Scopes),
         NEW i \in Instance, Server(i)
  PROVE  RevocationInv'
<1>0. /\ mustCut \subseteq Conn /\ KeyOf \in [Conn -> Key] /\ TypeOK
      /\ revq \in [Instance -> Seq(SUBSET Key)]
  BY HubAssumption, Zenon DEF HubInv, TypeOK
<1>1. phase[i] = "up"
  BY Zenon DEF RevocationInv
<1>2. CASE EvictLocal(i)
  <2>1. closeCode' = closeCode \/ \E d : closeCode' = CloseWith(d, "superseded")
    BY <1>2, Zenon DEF EvictLocal
  <2>2. "superseded" \in Codes
    BY DEF Codes
  <2>3. \A d \in mustCut : closeCode'[d] = Open => closeCode[d] = Open
    BY <1>0, <2>1, <2>2, CloseStays, Zenon
  <2>4. \A d \in mustCut :
          pc[d] \in {"announce", "serving", "dereg", "release", "offline", "done"}
    BY Zenon DEF RevocationInv
  <2> QED BY <1>2, <2>3, <2>4, RevocationFrame, Zenon DEF EvictLocal, connVars, histVars
<1>3. CASE Revoke(i)
  <2>1. /\ revq[i] # <<>>
        /\ closeCode' = CloseEach(Matching(i, Head(revq[i])), "revoked")
        /\ revq' = [revq EXCEPT ![i] = Tail(@)]
        /\ UNCHANGED <<pc, inst, local, phase, published, mustCut>>
    BY <1>3, Zenon DEF Revoke, connVars, histVars
  <2>2. "revoked" \in Codes
    BY DEF Codes
  <2>3. /\ revq'[i] = Tail(revq[i]) /\ Len(Tail(revq[i])) = Len(revq[i]) - 1
        /\ \A j \in Instance : j # i => revq'[j] = revq[j]
    BY <1>0, <2>1
  <2>4. \A n \in 2 .. Len(revq[i]) :
          n - 1 \in 1 .. Len(Tail(revq[i])) /\ Tail(revq[i])[n - 1] = revq[i][n]
    BY <1>0, <2>1
  <2>5. Head(revq[i]) = revq[i][1]
    BY <1>0, <2>1
  <2>6. \A j \in Instance : phase'[j] = "up" /\ Len(revq'[j]) <= Cardinality(published')
    <3>1. Len(revq'[i]) <= Cardinality(published)
      <4>1. Len(revq[i]) <= Cardinality(published)
        BY Zenon DEF RevocationInv
      <4>2. Len(revq[i]) \in Nat /\ Cardinality(published) \in Nat
        BY <1>0, PublishedCount
      <4> QED BY <2>3, <4>1, <4>2
    <3> QED BY <2>1, <2>3, <3>1, Zenon DEF RevocationInv
  <2>7. ASSUME NEW c \in mustCut, local[inst[c]][KeyOf[c]] = c, closeCode'[c] = Open
        PROVE  \E n \in 1 .. Len(revq'[inst[c]]) : KeyOf[c] \in revq'[inst[c]][n]
    <3>1. c \in Conn /\ closeCode[c] = Open /\ c \notin Matching(i, Head(revq[i]))
      BY <1>0, <2>1, <2>2, <2>7, CloseStays, Zenon
    <3>2. PICK n \in 1 .. Len(revq[inst[c]]) : KeyOf[c] \in revq[inst[c]][n]
      BY <2>7, <3>1, Zenon DEF RevocationInv
    <3>3. CASE inst[c] # i
      <4>1. inst[c] \in Instance
        BY <3>1 DEF RevocationInv, HubInv, Bookkeeping
      <4> QED BY <2>3, <3>2, <3>3, <4>1, Zenon
    <3>4. CASE inst[c] = i
      <4>1. c # NoConn
        BY <3>1, HubAssumption, Zenon
      <4>2. KeyOf[c] \notin revq[i][1]
        BY <2>5, <2>7, <3>1, <3>4, <4>1, Zenon DEF Matching
      <4>3. n # 1
        BY <3>2, <3>4, <4>2, Zenon
      <4>4. n \in 2 .. Len(revq[i])
        BY <1>0, <3>2, <3>4, <4>3
      <4> QED BY <2>3, <2>4, <3>2, <3>4, <4>4, Zenon
    <3> QED BY <3>3, <3>4, Zenon
  <2> QED BY <2>1, <2>6, <2>7, Zenon DEF RevocationInv
<1>4. CASE Drain(i)
  BY <1>4, Zenon DEF Drain
<1>5. CASE CloseAll(i)
  BY <1>1, <1>5 DEF CloseAll
<1>6. CASE ProcessEnds(i)
  BY <1>6, Zenon DEF ProcessEnds
<1> QED BY <1>2, <1>3, <1>4, <1>5, <1>6, Zenon DEF Server

\* An event joins the ones that are queued.
LEMMA AppendKeeps ==
  ASSUME NEW S, NEW q \in Seq(S), NEW m \in S
  PROVE  \A n \in 1 .. Len(q) : n \in 1 .. Len(Append(q, m)) /\ Append(q, m)[n] = q[n]
OBVIOUS

LEMMA PublishRevocationStep ==
  ASSUME HubInv, RevocationInv, ~Redis, IsFiniteSet(Scopes), Cardinality(Scopes) <= ChanSize,
         NEW scope \in Scopes, PublishRevocation(scope)
  PROVE  RevocationInv'
<1>0. /\ mustCut \subseteq Conn /\ published \subseteq Scopes /\ TypeOK
      /\ revq \in [Instance -> Seq(SUBSET Key)] /\ ChanSize \in Nat
  BY HubAssumption DEF HubInv, TypeOK
<1>1. /\ scope \notin published /\ published' = published \cup {scope}
      /\ revq' = [i \in Instance |->
                    IF phase[i] = "up" /\ i \notin {} /\ Len(revq[i]) < ChanSize
                    THEN Append(revq[i], scope) ELSE revq[i]]
      /\ mustCut' = mustCut \cup UNION {Matching(i, scope) : i \in Instance}
      /\ UNCHANGED <<pc, inst, local, phase, closeCode>>
  BY DEF PublishRevocation, connVars
<1>2. /\ Cardinality(published) \in Nat /\ Cardinality(published) < ChanSize
      /\ Cardinality(published') = Cardinality(published) + 1
  <2>1. IsFiniteSet(published) /\ published' \in SUBSET Scopes
    BY <1>0, <1>1, FS_Subset
  <2>2. Cardinality(published') = Cardinality(published) + 1 /\ Cardinality(published) \in Nat
    BY <1>1, <2>1, FS_AddElement, FS_CardinalityType
  <2>3. Cardinality(published') <= Cardinality(Scopes) /\ Cardinality(Scopes) \in Nat
    BY <2>1, FS_Subset, FS_CardinalityType
  <2> QED BY <1>0, <2>2, <2>3
<1>3. \A i \in Instance : phase[i] = "up" /\ Len(revq[i]) <= Cardinality(published)
  BY Zenon DEF RevocationInv
<1>4. ASSUME NEW i \in Instance
      PROVE  revq'[i] = Append(revq[i], scope) /\ Len(revq'[i]) = Len(revq[i]) + 1
  <2>1. phase[i] = "up" /\ Len(revq[i]) < ChanSize
    BY <1>0, <1>2, <1>3
  <2>2. revq'[i] = Append(revq[i], scope)
    BY <1>1, <2>1, Zenon
  <2>3. scope \in SUBSET Key
    BY HubAssumption
  <2> QED BY <1>0, <2>2, <2>3
<1>5. \A i \in Instance : phase'[i] = "up" /\ Len(revq'[i]) <= Cardinality(published')
  BY <1>0, <1>1, <1>2, <1>4, <1>3
<1>6. ASSUME NEW c \in mustCut'
      PROVE  /\ pc[c] \in {"announce", "serving", "dereg", "release", "offline", "done"}
             /\ local[inst[c]][KeyOf[c]] = c /\ closeCode[c] = Open =>
                  \E n \in 1 .. Len(revq'[inst[c]]) : KeyOf[c] \in revq'[inst[c]][n]
  <2>1. CASE c \in mustCut
    <3>1. inst[c] \in Instance
      BY <1>0, <2>1 DEF RevocationInv, HubInv, Bookkeeping
    <3>2. \A n \in 1 .. Len(revq[inst[c]]) :
            n \in 1 .. Len(revq'[inst[c]]) /\ revq'[inst[c]][n] = revq[inst[c]][n]
      <4>1. revq[inst[c]] \in Seq(SUBSET Key) /\ scope \in SUBSET Key
        BY <1>0, <3>1, HubAssumption
      <4>2. revq'[inst[c]] = Append(revq[inst[c]], scope)
        BY <1>4, <3>1
      <4> QED BY <4>1, <4>2, AppendKeeps
    <3> QED BY <2>1, <3>2, Zenon DEF RevocationInv
  <2>2. CASE c \in UNION {Matching(i, scope) : i \in Instance}
    <3>1. PICK i \in Instance : c \in Matching(i, scope)
      BY <2>2, Zenon
    <3>2. PICK k \in scope : c = local[i][k] /\ c # NoConn
      BY <3>1, Zenon DEF Matching
    <3>3. k \in Key
      BY HubAssumption, <3>2, Zenon
    <3>4. KeyOf[c] = k /\ inst[c] = i /\ pc[c] \in {"announce", "serving", "dereg"}
      BY <3>2, <3>3, Zenon DEF HubInv, IndexedIsServed
    <3>5. Len(revq'[i]) \in 1 .. Len(revq'[i]) /\ revq'[i][Len(revq'[i])] = scope
      BY <1>0, <1>4
    <3> QED BY <3>2, <3>4, <3>5, Zenon
  <2> QED BY <1>1, <1>6, <2>1, <2>2, Zenon
<1> QED BY <1>1, <1>5, <1>6, Zenon DEF RevocationInv

\* With the in-memory backplane, no drain, and channels with room for every event
\* the auth service publishes, an event cuts every session that was indexed when it
\* was published, whatever registrations, evictions and closes it interleaves with
\* (hub.go revoke).
THEOREM RevocationIsApplied ==
  ASSUME ~Redis, Drainable = {}, IsFiniteSet(Scopes), Cardinality(Scopes) <= ChanSize
  PROVE  Spec => []RevocationCuts
<1>1. Init => RevocationInv
  <2>1. SUFFICES ASSUME Init PROVE RevocationInv
    OBVIOUS
  <2>2. Cardinality(published) = 0 /\ mustCut = {}
    BY <2>1, FS_EmptySet, Zenon DEF Init
  <2>3. \A i \in Instance : phase[i] = "up" /\ Len(revq[i]) = 0
    BY <2>1 DEF Init
  <2> QED BY <2>2, <2>3 DEF RevocationInv
<1>2. HubInv /\ RevocationInv /\ [Next]_vars => RevocationInv'
  <2>1. SUFFICES ASSUME HubInv, RevocationInv, [Next]_vars PROVE RevocationInv'
    OBVIOUS
  <2>2. CASE UNCHANGED vars
    BY <2>1, <2>2, RevocationFrame, Zenon DEF vars, RevocationInv
  <2>3. ASSUME NEW k \in Key, Expire(k) PROVE RevocationInv'
    BY <2>1, <2>3, RevocationFrame, Zenon DEF Expire, RevocationInv, connVars, histVars
  <2> QED
    BY <2>1, <2>2, <2>3, HandlerRevocation, ServerRevocation, PublishRevocationStep, Zenon DEF Next
<1>3. HubInv /\ RevocationInv => RevocationCuts
  <2>1. SUFFICES ASSUME HubInv, RevocationInv, Quiescent, NEW c \in mustCut, Served(c),
                        local[inst[c]][KeyOf[c]] = c
                 PROVE  FALSE
    BY Zenon DEF RevocationCuts
  <2>2. c \in Conn /\ inst[c] \in Instance
    BY <2>1, Zenon DEF HubInv, TypeOK, Bookkeeping, Served
  <2>3. \E n \in 1 .. Len(revq[inst[c]]) : TRUE
    BY <2>1, Zenon DEF RevocationInv, Served
  <2>4. Len(revq[inst[c]]) = 0
    BY <2>1, <2>2 DEF Quiescent
  <2> QED BY <2>3, <2>4
<1> QED BY <1>1, <1>2, <1>3, HubInvariant, PTL DEF Spec
=============================================================================
