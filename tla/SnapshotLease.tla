---------------------------- MODULE SnapshotLease ----------------------------
(****************************************************************************)
(* What the engine needs from those who hold its snapshots, and what the    *)
(* RPC server promises: a snapshot is opened once, is called only while it  *)
(* is open, and is closed once, when no call on it is running.  SSTableRefs *)
(* makes the same assumption under the name Exclusive.                      *)
(****************************************************************************)
CONSTANTS Ids, Requests

VARIABLES
  lease,  \* snapshot -> none, open, closed
  users   \* snapshot -> the requests that are calling it

Init == lease = [i \in Ids |-> "none"] /\ users = [i \in Ids |-> {}]

Grant(i) ==
  /\ lease[i] = "none"
  /\ lease' = [lease EXCEPT ![i] = "open"] /\ UNCHANGED users

Use(i, q) ==
  /\ lease[i] = "open" /\ q \notin users[i]
  /\ users' = [users EXCEPT ![i] = @ \cup {q}] /\ UNCHANGED lease

Finish(i, q) ==
  /\ q \in users[i]
  /\ users' = [users EXCEPT ![i] = @ \ {q}] /\ UNCHANGED lease

Revoke(i) ==
  /\ lease[i] = "open" /\ users[i] = {}
  /\ lease' = [lease EXCEPT ![i] = "closed"] /\ UNCHANGED users

Next == \E i \in Ids : Grant(i) \/ Revoke(i) \/ \E q \in Requests : Use(i, q) \/ Finish(i, q)

Spec == Init /\ [][Next]_<<lease, users>>
==============================================================================
