------------------------------ MODULE FairLease ------------------------------
(***************************************************************************)
(* What a pool of pinned workers promises the sessions that keep their     *)
(* leases alive: each resource has one holder at a time, whoever finds it  *)
(* taken stands in line, nobody overtakes a line, and the holder's         *)
(* departure hands the resource at once to the first in line who is still  *)
(* patient.                                                                *)
(***************************************************************************)
EXTENDS Integers, Sequences

CONSTANTS Sessions, Resources, None

VARIABLES
    open,      \* FALSE once the service has shut down
    holder,    \* the session that holds a resource, or None
    line,      \* the sessions in line for a resource
    late       \* the sessions in line whose patience has run out

Init ==
    /\ open = TRUE
    /\ holder = [r \in Resources |-> None]
    /\ line = [r \in Resources |-> <<>>]
    /\ late = {}

InLine(l) == {l[i] : i \in 1..Len(l)}

(* A free resource with nobody in line is taken.                           *)
Take(r) ==
    /\ holder[r] = None
    /\ line[r] = <<>>
    /\ holder'[r] \in Sessions
    /\ line'[r] = <<>>

(* A session that finds the resource taken goes to the end of the line.    *)
Join(r) ==
    /\ holder[r] # None
    /\ holder'[r] = holder[r]
    /\ \E s \in Sessions \ ({holder[r]} \cup InLine(line[r])) : line'[r] = Append(line[r], s)

(* A late session leaves the line; the others keep their places.           *)
Leave(r) ==
    /\ holder'[r] = holder[r]
    /\ \E i \in 1..Len(line[r]) :
          /\ line[r][i] \in late
          /\ line'[r] = SubSeq(line[r], 1, i - 1) \o SubSeq(line[r], i + 1, Len(line[r]))

(* The holder leaves and the first session in line that is not late holds  *)
(* the resource; the late ones before it are sent away.                    *)
HandOver(r) ==
    /\ holder[r] # None
    /\ \E i \in 1..Len(line[r]) :
          /\ line[r][i] \notin late
          /\ \A j \in 1..(i - 1) : line[r][j] \in late
          /\ holder'[r] = line[r][i]
          /\ line'[r] = SubSeq(line[r], i + 1, Len(line[r]))

(* The holder leaves and there is nobody to hand over to.                  *)
Vacate(r) ==
    /\ holder[r] # None
    /\ InLine(line[r]) \subseteq late
    /\ holder'[r] = None
    /\ line'[r] = <<>>

Step(r) == Take(r) \/ Join(r) \/ Leave(r) \/ HandOver(r) \/ Vacate(r)

(* A session that moves from one resource to another steps both at once.   *)
Serve ==
    /\ open' = open
    /\ \A r \in Resources :
          Step(r) \/ (holder'[r] = holder[r] /\ line'[r] = line[r])

Close ==
    /\ open /\ ~open'
    /\ holder' = [r \in Resources |-> None]
    /\ line' = [r \in Resources |-> <<>>]

(* A session becomes late while it is in line, and is late until it leaves.*)
Lateness ==
    /\ late' \subseteq UNION {InLine(line'[r]) : r \in Resources}
    /\ \A r \in Resources : late \cap InLine(line'[r]) \subseteq late'

Next == (Serve \/ Close) /\ Lateness

Spec == Init /\ [][Next]_<<open, holder, line, late>>
=============================================================================
