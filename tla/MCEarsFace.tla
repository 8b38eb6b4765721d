-------------------------------- MODULE MCEarsFace --------------------------------
(***************************************************************************)
(* The worker's ears and the avatar worker, which share no state, explored *)
(* one at a time in one run.  The first state picks the one that moves; the*)
(* other rests in a state in which none of its fair steps is enabled.      *)
(***************************************************************************)
EXTENDS AudioInput, AvatarWorker

VARIABLE part

earsFaceVars == <<part, inputVars, avatarVars>>

EarsFaceInit ==
    /\ part \in {"ears", "face"}
    /\ InputInit /\ (part = "face" => ears = "local")
    /\ AvatarInit

EarsFaceNext ==
    /\ UNCHANGED part
    /\ \/ part = "ears" /\ InputNext /\ UNCHANGED avatarVars
       \/ part = "face" /\ AvatarNext /\ UNCHANGED inputVars

EarsFaceSpec ==
    EarsFaceInit /\ [][EarsFaceNext]_earsFaceVars /\ InputFairness /\ AvatarFairness
=============================================================================
