--------------------------------- MODULE MCParts ---------------------------------
(***************************************************************************)
(* Three small components that share no state, explored one at a time in   *)
(* one run.  The first state picks the part that moves; the others rest in *)
(* a state in which none of their fair steps is enabled.                   *)
(***************************************************************************)
EXTENDS SessionLifecycle, AdaptiveQuality, SentenceStream, TLC

CONSTANTS d1, d2, p1, i1, i2, i3

\* Every request names a session of its own.
OwnIds == d1 :> i1 @@ d2 :> i2 @@ p1 :> i3

VARIABLE part

partsVars == <<part, lifecycleVars, adaptiveVars, textVars>>

(* A controller whose players are all well: another report changes nothing.*)
AdaptiveRest ==
    /\ link = [c \in 1..Clients |-> "healthy"]
    /\ average = "low"
    /\ tier = 0 /\ since = MinHold /\ streak = 0
    /\ recent = [i \in 1..RecoverStreak |-> "healthy"]

PartsInit ==
    /\ part \in {"lifecycle", "tiers", "text"}
    /\ LifecycleInit
    /\ IF part = "tiers" THEN AdaptiveInit ELSE AdaptiveRest
    /\ TextInit

PartsNext ==
    /\ UNCHANGED part
    /\ \/ part = "lifecycle" /\ LifecycleNext /\ UNCHANGED <<adaptiveVars, textVars>>
       \/ part = "tiers" /\ AdaptiveNext /\ UNCHANGED <<lifecycleVars, textVars>>
       \/ part = "text" /\ TextNext /\ UNCHANGED <<lifecycleVars, adaptiveVars>>

PartsSpec ==
    PartsInit /\ [][PartsNext]_partsVars /\ LifecycleFairness /\ AdaptiveFairness
=============================================================================
