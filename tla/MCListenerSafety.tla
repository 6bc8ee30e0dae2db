-------------------------- MODULE MCListenerSafety --------------------------
(***************************************************************************)
(* Listener for TLC, in two settings: `side` says which one is explored.   *)
(* In "beats" one call of Start runs beside Dispose, and the wait for a    *)
(* heartbeat loop may expire, so that an old loop lives on beside the new  *)
(* one; the signer keeps to what it signs with.  In "status" Start is      *)
(* called a second time, and an outside call prepares the listener or asks *)
(* for its status; no wait expires.                                        *)
(***************************************************************************)
EXTENDS Listener, TLC

CONSTANT Extra   \* the calls that only the second setting makes

VARIABLE side

Made == IF side = "beats" THEN Call \ Extra ELSE Call \ Disposer
Expires(p) ==
  /\ call[p].pc = "waitbeat" /\ call'[p].pc # "waitbeat"
  /\ loop[call[p].beat].pc # "done"

MCInit == side \in {"beats", "status"} /\ Init
MCNext ==
  /\ Next /\ UNCHANGED side
  /\ \A p \in Call \ Made : UNCHANGED call[p]
  /\ side = "beats" => UNCHANGED fallback
  /\ side = "status" => \A p \in Made : ~Expires(p)
MCSpec == MCInit /\ [][MCNext]_<<side, vars>>

Perms == Permutations(Conn) \cup Permutations(Loop)
=============================================================================
