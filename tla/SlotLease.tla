------------------------------ MODULE SlotLease ------------------------------
(***************************************************************************)
(* What the slot registry promises (the Backplane contract of               *)
(* internal/backplane/backplane.go, "newest wins"): every slot is a lease   *)
(* with at most one holder.  A connection claims it at most once, and the   *)
(* claim always succeeds and takes the lease over.  A lease ends by release *)
(* or lapse, and only the connection that claimed it last can resume a      *)
(* lapsed lease.                                                            *)
(***************************************************************************)
CONSTANTS Conn, Key, KeyOf, NoConn

VARIABLES
  holder,  \* holder[k]: the connection that holds the lease, or NoConn
  newest,  \* newest[k]: the last connection that claimed it, or NoConn
  spent    \* the connections that have claimed or given up

leaseVars == <<holder, newest, spent>>

Init ==
  /\ holder = [k \in Key |-> NoConn]
  /\ newest = [k \in Key |-> NoConn]
  /\ spent = {}

Claim(c) ==
  /\ c \notin spent
  /\ spent' = spent \cup {c}
  /\ holder' = [holder EXCEPT ![KeyOf[c]] = c]
  /\ newest' = [newest EXCEPT ![KeyOf[c]] = c]

\* Connections end before they claim.
GiveUp ==
  /\ \E C \in SUBSET Conn : spent' = spent \cup C
  /\ UNCHANGED <<holder, newest>>

\* The holder releases the lease, or its TTL runs out.
End(k) ==
  /\ holder' = [holder EXCEPT ![k] = NoConn]
  /\ UNCHANGED <<newest, spent>>

\* A late renewal by the last claimant, while nobody holds the lease.
Resume(k) ==
  /\ holder[k] = NoConn
  /\ holder' = [holder EXCEPT ![k] = newest[k]]
  /\ UNCHANGED <<newest, spent>>

Next ==
  \/ \E c \in Conn : Claim(c)
  \/ GiveUp
  \/ \E k \in Key : End(k) \/ Resume(k)

Spec == Init /\ [][Next]_leaseVars
=============================================================================
