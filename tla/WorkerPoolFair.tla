--------------------------- MODULE WorkerPoolFair ---------------------------
(***************************************************************************)
(* WorkerPool implements FairLease for sessions that play by its rules:    *)
(* a lease is renewed or released within its TTL, an acquire is not        *)
(* cancelled, and a session has one acquire outstanding at a time          *)
(* (MayExpire, MayCancel and MayOverlap are FALSE).                        *)
(***************************************************************************)
EXTENDS WorkerPool

HolderOf(r) ==
    IF \E s \in Sessions : HoldsLeaseOn(s, r)
    THEN CHOOSE s \in Sessions : HoldsLeaseOn(s, r)
    ELSE None

LineOf(r) == [i \in 1..Len(queues[r]) |-> calls[queues[r][i]].session]

LateSessions ==
    {calls[c].session : c \in {d \in Calls : calls[d].late /\ InQueue(d, calls[d].resource)}}

Fair == INSTANCE FairLease
            WITH open   <- phase # "stopped",
                 holder <- [r \in Resources |-> HolderOf(r)],
                 line   <- [r \in Resources |-> LineOf(r)],
                 late   <- LateSessions

(* The pool is a fair exclusive lease service.                             *)
ImplementsFairLease == Fair!Spec
=============================================================================
