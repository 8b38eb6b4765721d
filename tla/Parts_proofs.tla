------------------------------ MODULE Parts_proofs ------------------------------
(***************************************************************************)
(* Theorems about the small components, which share no state: the sessions *)
(* of SessionLifecycle, for any set of requests as long as every request   *)
(* names a session id of its own; AdaptiveQuality, for any numbers of      *)
(* players and tiers and any lengths of hold and streak; SentenceStream,   *)
(* for any minimal length and any text, cut anywhere.                      *)
(***************************************************************************)
EXTENDS SessionLifecycle, AdaptiveQuality, SentenceStream, WellFoundedInduction, SequenceTheorems,
        TLAPS

-----------------------------------------------------------------------------
(* SessionLifecycle.                                                       *)

(* No id is used by two requests.                                          *)
OwnId == \A r, s \in Requests : IdOf[r] = IdOf[s] => r = s

-----------------------------------------------------------------------------
(* The type invariant.                                                     *)

Loops == [Pools -> {"new", "on", "off", "dead"}]

Object == [at : Stages, running : BOOLEAN, consumer : BOOLEAN, renewer : Loops]

(* What only a duplex session does.                                        *)
OnlyDuplex ==
    \A r \in Requests : object[r].at \in {"voice", "asr", "ending"} => r \in Duplex

LifecycleTyped == LifecycleTypeOK /\ OnlyDuplex

LEMMA LifecycleTypeInit == LifecycleInit => LifecycleTyped
BY LifecycleAssumption
DEF LifecycleInit, LifecycleTyped, LifecycleTypeOK, OnlyDuplex, NewObject, Stages

LEMMA ObjectTyped == LifecycleTyped => object \in [Requests -> Object]
BY DEF LifecycleTyped, LifecycleTypeOK, Object, Loops

(* A step of one request changes its own object, and keeps its type.       *)
LEMMA ObjectStep ==
    ASSUME LifecycleTyped, NEW r \in Requests, NEW new \in Object,
           object' = [object EXCEPT ![r] = new],
           new.at \in {"voice", "asr", "ending"} => r \in Duplex,
           serving' \in BOOLEAN,
           duplexes' \in [Ids -> Duplex \cup {None}],
           pushes' \in [Ids -> Push \cup {None}],
           lease' \in [Pools -> Ids \cup {None}]
    PROVE  LifecycleTyped'
BY DEF LifecycleTyped, LifecycleTypeOK, OnlyDuplex, Object, Loops

LEMMA LifecycleTypeStep ==
    LifecycleTyped /\ [LifecycleNext]_lifecycleVars => LifecycleTyped'
<1> SUFFICES ASSUME LifecycleTyped, [LifecycleNext]_lifecycleVars PROVE LifecycleTyped'
    OBVIOUS
<1> USE LifecycleAssumption
<1>1. ASSUME NEW r \in Requests, Opens(r) PROVE LifecycleTyped'
  <2> PICK stage \in {"refused", "voice", "avatar"} :
          /\ object' = [object EXCEPT ![r].at = stage]
          /\ stage = "voice" => r \in Duplex
    <3> DEFINE refused == Refused(IF r \in Duplex THEN duplexes ELSE pushes, r)
               chosen == CASE refused                   -> "refused"
                           [] ~refused /\ r \in Duplex -> "voice"
                           [] ~refused /\ r \in Push   -> "avatar"
    <3>1. object' = [object EXCEPT ![r].at = chosen]
      BY <1>1 DEF Opens
    <3>2. chosen \in {"refused", "voice", "avatar"} /\ (chosen = "voice" => r \in Duplex)
      <4>1. CASE r \in Duplex
        BY <4>1
      <4>2. CASE r \in Push /\ r \notin Duplex
        BY <4>2
      <4> QED
        BY <4>1, <4>2 DEF Requests
    <3> HIDE DEF chosen
    <3> QED
      BY <3>1, <3>2
  <2> DEFINE new == [object[r] EXCEPT !.at = stage]
  <2>1. new \in Object /\ object' = [object EXCEPT ![r] = new] /\ new.at = stage
    <3>1. object \in [Requests -> Object]
      BY ObjectTyped
    <3>2. new \in Object /\ new.at = stage
      BY <3>1 DEF Object, Loops, Stages
    <3>3. object' = [object EXCEPT ![r] = new]
      BY <3>1 DEF Object
    <3> QED
      BY <3>2, <3>3
  <2>8. /\ serving' \in BOOLEAN
        /\ duplexes' \in [Ids -> Duplex \cup {None}]
        /\ pushes' \in [Ids -> Push \cup {None}]
        /\ lease' \in [Pools -> Ids \cup {None}]
    BY <1>1, <2>1 DEF Opens, LifecycleTyped, LifecycleTypeOK
  <2>9. new.at \in {"voice", "asr", "ending"} => r \in Duplex
    BY <1>1, <2>1 DEF LifecycleTyped, OnlyDuplex
  <2> HIDE DEF new
  <2> QED
    BY <2>1, <2>8, <2>9, ObjectStep
<1>2. ASSUME NEW r \in Requests, VoiceLeased(r) PROVE LifecycleTyped'
  <2> DEFINE new == [object[r] EXCEPT !.at = "avatar", !.renewer["voice"] = "new"]
  <2>1. new \in Object /\ object' = [object EXCEPT ![r] = new] /\ new.at = "avatar"
    <3>1. object \in [Requests -> Object]
      BY ObjectTyped
    <3>2. new \in Object /\ new.at = "avatar"
      BY <1>2, <3>1 DEF Object, Loops, Stages, Pools
    <3>3. object' = [object EXCEPT ![r] = new]
      BY <1>2, <3>1 DEF VoiceLeased, Object
    <3> QED
      BY <3>2, <3>3
  <2>2. lease' \in [Pools -> Ids \cup {None}]
    BY <1>2 DEF VoiceLeased, Leased, LifecycleTyped, LifecycleTypeOK
  <2>8. /\ serving' \in BOOLEAN
        /\ duplexes' \in [Ids -> Duplex \cup {None}]
        /\ pushes' \in [Ids -> Push \cup {None}]
        /\ lease' \in [Pools -> Ids \cup {None}]
    BY <1>2, <2>1, <2>2 DEF VoiceLeased, LifecycleTyped, LifecycleTypeOK
  <2>9. new.at \in {"voice", "asr", "ending"} => r \in Duplex
    BY <1>2, <2>1, <2>2 DEF LifecycleTyped, OnlyDuplex
  <2> HIDE DEF new
  <2> QED
    BY <2>1, <2>8, <2>9, ObjectStep
<1>3. ASSUME NEW r \in Requests, AvatarLeased(r) PROVE LifecycleTyped'
  <2>1. lease' \in [Pools -> Ids \cup {None}]
    BY <1>3 DEF AvatarLeased, Leased, LifecycleTyped, LifecycleTypeOK
  <2>2. CASE r \in Duplex
    <3> DEFINE new == [object[r] EXCEPT !.at = "asr", !.consumer = TRUE,
                                        !.renewer["avatar"] = "new"]
    <3>2. object' = [object EXCEPT ![r].at = "asr", ![r].consumer = TRUE,
                                   ![r].renewer["avatar"] = "new"]
      BY <1>3, <2>2 DEF AvatarLeased
    <3>3. object \in [Requests -> Object]
      BY DEF LifecycleTyped, LifecycleTypeOK, Object, Loops
    <3>4. new \in Object
      BY <3>3 DEF Object, Loops, Stages, Pools
    <3>5. object' = [object EXCEPT ![r] = new]
      BY <3>2, <3>3 DEF Object
    <3>1. new \in Object /\ object' = [object EXCEPT ![r] = new]
      BY <3>4, <3>5
    <3>8. /\ serving' \in BOOLEAN
          /\ duplexes' \in [Ids -> Duplex \cup {None}]
          /\ pushes' \in [Ids -> Push \cup {None}]
          /\ lease' \in [Pools -> Ids \cup {None}]
      BY <1>3, <2>1, <2>2, <3>1 DEF AvatarLeased, LifecycleTyped, LifecycleTypeOK
    <3>9. new.at \in {"voice", "asr", "ending"} => r \in Duplex
      BY <1>3, <2>1, <2>2, <3>1 DEF LifecycleTyped, OnlyDuplex
    <3> HIDE DEF new
    <3> QED
      BY <3>1, <3>8, <3>9, ObjectStep
  <2>3. CASE r \notin Duplex
    <3> DEFINE new == [object[r] EXCEPT !.at = "open", !.consumer = TRUE]
    <3>1. new \in Object /\ object' = [object EXCEPT ![r] = new] /\ new.at = "open"
      <4>1. object \in [Requests -> Object]
        BY ObjectTyped
      <4>2. new \in Object /\ new.at = "open"
        BY <1>3, <2>3, <4>1 DEF Object, Loops, Stages
      <4>3. object' = [object EXCEPT ![r] = new]
        BY <1>3, <2>3, <4>1 DEF AvatarLeased, Object
      <4> QED
        BY <4>2, <4>3
    <3>2. pushes' \in [Ids -> Push \cup {None}]
      BY <1>3, <2>3 DEF AvatarLeased, LifecycleTyped, LifecycleTypeOK, Requests
    <3>8. /\ serving' \in BOOLEAN
          /\ duplexes' \in [Ids -> Duplex \cup {None}]
          /\ pushes' \in [Ids -> Push \cup {None}]
          /\ lease' \in [Pools -> Ids \cup {None}]
      BY <1>3, <2>1, <2>3, <3>1, <3>2 DEF AvatarLeased, LifecycleTyped, LifecycleTypeOK
    <3>9. new.at \in {"voice", "asr", "ending"} => r \in Duplex
      BY <1>3, <2>1, <2>3, <3>1, <3>2 DEF LifecycleTyped, OnlyDuplex
    <3> HIDE DEF new
    <3> QED
      BY <3>1, <3>8, <3>9, ObjectStep
  <2> QED
    BY <2>2, <2>3
<1>4. ASSUME NEW r \in Requests, AsrConnects(r) PROVE LifecycleTyped'
  <2> DEFINE new == [object[r] EXCEPT !.at = "open", !.running = TRUE]
  <2>1. new \in Object /\ object' = [object EXCEPT ![r] = new] /\ new.at = "open"
    <3>1. object \in [Requests -> Object]
      BY ObjectTyped
    <3>2. new \in Object /\ new.at = "open"
      BY <1>4, <3>1 DEF Object, Loops, Stages
    <3>3. object' = [object EXCEPT ![r] = new]
      BY <1>4, <3>1 DEF AsrConnects, Object
    <3> QED
      BY <3>2, <3>3
  <2>2. duplexes' \in [Ids -> Duplex \cup {None}]
    BY <1>4 DEF AsrConnects, LifecycleTyped, LifecycleTypeOK, OnlyDuplex
  <2>8. /\ serving' \in BOOLEAN
        /\ duplexes' \in [Ids -> Duplex \cup {None}]
        /\ pushes' \in [Ids -> Push \cup {None}]
        /\ lease' \in [Pools -> Ids \cup {None}]
    BY <1>4, <2>1, <2>2 DEF AsrConnects, LifecycleTyped, LifecycleTypeOK
  <2>9. new.at \in {"voice", "asr", "ending"} => r \in Duplex
    BY <1>4, <2>1, <2>2 DEF LifecycleTyped, OnlyDuplex
  <2> HIDE DEF new
  <2> QED
    BY <2>1, <2>8, <2>9, ObjectStep
<1>5. ASSUME NEW r \in Requests, StartFails(r) PROVE LifecycleTyped'
  <2> DEFINE new == [object[r] EXCEPT !.at = "failed"]
  <2>1. new \in Object /\ object' = [object EXCEPT ![r] = new] /\ new.at = "failed"
    <3>1. object \in [Requests -> Object]
      BY ObjectTyped
    <3>2. new \in Object /\ new.at = "failed"
      BY <1>5, <3>1 DEF Object, Loops, Stages
    <3>3. object' = [object EXCEPT ![r] = new]
      BY <1>5, <3>1 DEF StartFails, Object
    <3> QED
      BY <3>2, <3>3
  <2>8. /\ serving' \in BOOLEAN
        /\ duplexes' \in [Ids -> Duplex \cup {None}]
        /\ pushes' \in [Ids -> Push \cup {None}]
        /\ lease' \in [Pools -> Ids \cup {None}]
    BY <1>5, <2>1 DEF StartFails, LifecycleTyped, LifecycleTypeOK
  <2>9. new.at \in {"voice", "asr", "ending"} => r \in Duplex
    BY <1>5, <2>1 DEF LifecycleTyped, OnlyDuplex
  <2> HIDE DEF new
  <2> QED
    BY <2>1, <2>8, <2>9, ObjectStep
<1>6. ASSUME NEW r \in Requests, Closes(r) PROVE LifecycleTyped'
  <2> DEFINE stage == IF r \in Duplex THEN "ending" ELSE "releasing"
             new == [object[r] EXCEPT !.at = stage, !.running = FALSE]
  <2>3. stage \in {"ending", "releasing"} /\ (stage = "ending" => r \in Duplex)
    OBVIOUS
  <2>4. object' = [object EXCEPT ![r].at = stage, ![r].running = FALSE]
    BY <1>6 DEF Closes, StopBegins
  <2> HIDE DEF stage
  <2>1. new \in Object /\ object' = [object EXCEPT ![r] = new] /\ new.at = stage
    <3>1. object \in [Requests -> Object]
      BY ObjectTyped
    <3>2. new \in Object /\ new.at = stage
      BY <2>3, <2>4, <3>1 DEF Object, Loops, Stages
    <3>3. object' = [object EXCEPT ![r] = new]
      BY <2>3, <2>4, <3>1 DEF Object
    <3> QED
      BY <3>2, <3>3
  <2>2. /\ duplexes' \in [Ids -> Duplex \cup {None}]
        /\ pushes' \in [Ids -> Push \cup {None}]
    BY <1>6 DEF Closes, LifecycleTyped, LifecycleTypeOK
  <2>8. /\ serving' \in BOOLEAN
        /\ duplexes' \in [Ids -> Duplex \cup {None}]
        /\ pushes' \in [Ids -> Push \cup {None}]
        /\ lease' \in [Pools -> Ids \cup {None}]
    BY <1>6, <2>1, <2>2 DEF Closes, LifecycleTyped, LifecycleTypeOK
  <2>9. new.at \in {"voice", "asr", "ending"} => r \in Duplex
    BY <2>1, <2>3
  <2> HIDE DEF new
  <2> QED
    BY <2>1, <2>8, <2>9, ObjectStep
<1>7. ASSUME NEW r \in Requests, VoiceReleased(r) PROVE LifecycleTyped'
  <2> lease' \in [Pools -> Ids \cup {None}]
    BY <1>7 DEF VoiceReleased, Released, LifecycleTyped, LifecycleTypeOK
  <2>1. CASE object[r].renewer["voice"] = "dead"
    <3> DEFINE new == [object[r] EXCEPT !.at = "broken"]
    <3>1. new \in Object /\ object' = [object EXCEPT ![r] = new] /\ new.at = "broken"
      <4>1. object \in [Requests -> Object]
        BY ObjectTyped
      <4>2. new \in Object /\ new.at = "broken"
        BY <1>7, <2>1, <4>1 DEF Object, Loops, Stages
      <4>3. object' = [object EXCEPT ![r] = new]
        BY <1>7, <2>1, <4>1 DEF VoiceReleased, Object
      <4> QED
        BY <4>2, <4>3
    <3>8. /\ serving' \in BOOLEAN
          /\ duplexes' \in [Ids -> Duplex \cup {None}]
          /\ pushes' \in [Ids -> Push \cup {None}]
          /\ lease' \in [Pools -> Ids \cup {None}]
      BY <1>7, <3>1 DEF VoiceReleased, LifecycleTyped, LifecycleTypeOK
    <3>9. new.at \in {"voice", "asr", "ending"} => r \in Duplex
      BY <1>7, <3>1 DEF LifecycleTyped, OnlyDuplex
    <3> HIDE DEF new
    <3> QED
      BY <3>1, <3>8, <3>9, ObjectStep
  <2>2. CASE object[r].renewer["voice"] # "dead"
    <3> DEFINE new == [object[r] EXCEPT !.at = "releasing", !.renewer["voice"] = "off"]
    <3>2. object' = [object EXCEPT ![r].at = "releasing", ![r].renewer["voice"] = "off"]
      BY <1>7, <2>2 DEF VoiceReleased
    <3> PICK o \in Object : o = object[r]
      BY ObjectTyped
    <3> DEFINE loops == [o.renewer EXCEPT !["voice"] = "off"]
    <3>3. loops \in Loops
      BY DEF Object, Loops
    <3>4. new = [o EXCEPT !.at = "releasing", !.renewer = loops]
      BY DEF Object
    <3>5. object' = [object EXCEPT ![r] = new]
      BY <3>2
    <3> HIDE DEF loops
    <3>6. new \in Object /\ new.at = "releasing"
      BY <3>3, <3>4 DEF Object, Stages
    <3>1. new \in Object /\ object' = [object EXCEPT ![r] = new] /\ new.at = "releasing"
      BY <3>5, <3>6
    <3>8. /\ serving' \in BOOLEAN
          /\ duplexes' \in [Ids -> Duplex \cup {None}]
          /\ pushes' \in [Ids -> Push \cup {None}]
          /\ lease' \in [Pools -> Ids \cup {None}]
      BY <1>7, <3>1 DEF VoiceReleased, LifecycleTyped, LifecycleTypeOK
    <3>9. new.at \in {"voice", "asr", "ending"} => r \in Duplex
      BY <1>7, <3>1 DEF LifecycleTyped, OnlyDuplex
    <3> HIDE DEF new
    <3> QED
      BY <3>1, <3>8, <3>9, ObjectStep
  <2> QED
    BY <2>1, <2>2
<1>8. ASSUME NEW r \in Requests, AvatarReleased(r) PROVE LifecycleTyped'
  <2> DEFINE new == [object[r] EXCEPT !.at = "closed", !.consumer = FALSE,
                                      !.renewer["avatar"] = "off"]
  <2>1. new \in Object /\ object' = [object EXCEPT ![r] = new] /\ new.at = "closed"
    <3>1. object \in [Requests -> Object]
      BY ObjectTyped
    <3>2. new \in Object /\ new.at = "closed"
      BY <1>8, <3>1 DEF Object, Loops, Stages, Pools
    <3>3. object' = [object EXCEPT ![r] = new]
      BY <1>8, <3>1 DEF AvatarReleased, Object
    <3> QED
      BY <3>2, <3>3
  <2>2. lease' \in [Pools -> Ids \cup {None}]
    BY <1>8 DEF AvatarReleased, Released, LifecycleTyped, LifecycleTypeOK
  <2>8. /\ serving' \in BOOLEAN
        /\ duplexes' \in [Ids -> Duplex \cup {None}]
        /\ pushes' \in [Ids -> Push \cup {None}]
        /\ lease' \in [Pools -> Ids \cup {None}]
    BY <1>8, <2>1, <2>2 DEF AvatarReleased, LifecycleTyped, LifecycleTypeOK
  <2>9. new.at \in {"voice", "asr", "ending"} => r \in Duplex
    BY <1>8, <2>1, <2>2 DEF LifecycleTyped, OnlyDuplex
  <2> HIDE DEF new
  <2> QED
    BY <2>1, <2>8, <2>9, ObjectStep
<1>9. ASSUME NEW r \in Requests, NEW p \in Pools, RenewStep(r, p) PROVE LifecycleTyped'
  <2>1. lease' \in [Pools -> Ids \cup {None}]
    BY <1>9 DEF RenewStep, RenewerStarts, Renews, Leased, LifecycleTyped, LifecycleTypeOK
  <2>2. CASE UNCHANGED object
    BY <1>9, <2>1, <2>2
    DEF RenewStep, RenewerStarts, Renews, LifecycleTyped, LifecycleTypeOK, OnlyDuplex
  <2>3. CASE object' # object
    <3> PICK state \in {"on", "off", "dead"} :
            object' = [object EXCEPT ![r].renewer[p] = state]
      BY <1>9, <2>3 DEF RenewStep, RenewerStarts, Renews, Pools
    <3> DEFINE new == [object[r] EXCEPT !.renewer[p] = state]
    <3>1. new \in Object /\ object' = [object EXCEPT ![r] = new] /\ new.at = object[r].at
      <4>1. object \in [Requests -> Object]
        BY ObjectTyped
      <4>2. new \in Object /\ new.at = object[r].at
        BY <4>1 DEF Object, Loops
      <4>3. object' = [object EXCEPT ![r] = new]
        BY <4>1 DEF Object
      <4> QED
        BY <4>2, <4>3
    <3>8. /\ serving' \in BOOLEAN
          /\ duplexes' \in [Ids -> Duplex \cup {None}]
          /\ pushes' \in [Ids -> Push \cup {None}]
          /\ lease' \in [Pools -> Ids \cup {None}]
      BY <1>9, <2>1, <3>1 DEF RenewStep, RenewerStarts, Renews, LifecycleTyped, LifecycleTypeOK
    <3>9. new.at \in {"voice", "asr", "ending"} => r \in Duplex
      BY <1>9, <2>1, <3>1 DEF LifecycleTyped, OnlyDuplex
    <3> HIDE DEF new
    <3> QED
      BY <3>1, <3>8, <3>9, ObjectStep
  <2> QED
    BY <2>2, <2>3
<1>10. ASSUME NEW p \in Pools, Expires(p) PROVE LifecycleTyped'
  BY <1>10 DEF Expires, LifecycleTyped, LifecycleTypeOK, OnlyDuplex
<1>11. CASE ShutsDown
  BY <1>11 DEF ShutsDown, LifecycleTyped, LifecycleTypeOK, OnlyDuplex
<1>12. CASE PoolsStop
  BY <1>12 DEF PoolsStop, LifecycleTyped, LifecycleTypeOK, OnlyDuplex
<1>13. CASE UNCHANGED lifecycleVars
  BY <1>13 DEF lifecycleVars, LifecycleTyped, LifecycleTypeOK, OnlyDuplex
<1> QED
  BY <1>1, <1>2, <1>3, <1>4, <1>5, <1>6, <1>7, <1>8, <1>9, <1>10, <1>11, <1>12, <1>13
  DEF LifecycleNext, StartStep, StopStep

(* Every variable keeps its type: the tables hold sessions of their own    *)
(* mode only (publish/state.py, session_manager.py).                       *)
THEOREM LifecycleTypeCorrect == LifecycleSpec => []LifecycleTypeOK
<1> LifecycleTyped => LifecycleTypeOK
    BY DEF LifecycleTyped
<1> QED
    BY LifecycleTypeInit, LifecycleTypeStep, PTL DEF LifecycleSpec

-----------------------------------------------------------------------------
(* The inductive invariant.                                                *)

(* Whoever renews a worker holds it: since an acquire takes a worker only  *)
(* from nobody or from its own session id, nobody can have taken it.       *)
Held ==
    \A r \in Requests, p \in Pools :
        object[r].renewer[p] \in {"new", "on"}
            => \/ object[r].at = "failed"
               \/ /\ object[r].at \in {"avatar", "asr", "open", "ending", "releasing"}
                  /\ lease[p] = IdOf[r]

(* Hence no renew loop dies and no stop breaks.                            *)
NeverDead ==
    \A r \in Requests :
        object[r].at # "broken" /\ \A p \in Pools : object[r].renewer[p] # "dead"

LoopsEnded ==
    \A r \in Requests :
        /\ object[r].at = "releasing" => object[r].renewer["voice"] = "off"
        /\ r \in Push => \A p \in Pools : object[r].renewer[p] = "off"

RunsWhileOpen ==
    \A r \in Requests :
        /\ object[r].running => object[r].at = "open"
        /\ object[r].consumer
               => object[r].at \in {"asr", "open", "ending", "releasing", "failed"}

OpenRegistered ==
    \A r \in Requests :
        object[r].at = "open" => \/ r \in Duplex /\ duplexes[IdOf[r]] = r
                                 \/ r \in Push /\ pushes[IdOf[r]] = r

NobodyInFlight == ~serving => \A r \in Requests : ~InFlight(r)

GivenBack ==
    \A r \in Requests :
        /\ r \in Push \/ object[r].at \in {"releasing", "closed"} => lease["voice"] # IdOf[r]
        /\ object[r].at = "closed" => lease["avatar"] # IdOf[r]

LifecycleInv ==
    /\ LifecycleTyped
    /\ Held /\ NeverDead /\ LoopsEnded /\ RunsWhileOpen
    /\ OpenRegistered /\ NobodyInFlight /\ GivenBack

LEMMA LifecycleInvInit == LifecycleInit => LifecycleInv
BY LifecycleTypeInit, LifecycleAssumption
DEF LifecycleInit, LifecycleInv, Held, NeverDead, LoopsEnded, RunsWhileOpen, OpenRegistered,
    NobodyInFlight, InFlight, GivenBack, NewObject, Requests, Pools

(* Only the object of one request changes.                                 *)
Alone(r) == \A s \in Requests : s # r => object'[s] = object[s]

LEMMA OpensKeeps ==
    ASSUME LifecycleInv, OwnId, NEW r \in Requests, Opens(r), LifecycleTyped'
    PROVE  LifecycleInv'
<1> USE DEF LifecycleInv
<1>1. /\ Alone(r)
      /\ object'[r].at \in {"refused", "voice", "avatar"}
      /\ object'[r].running = object[r].running
      /\ object'[r].consumer = object[r].consumer
      /\ object'[r].renewer = object[r].renewer
  <2> DEFINE refused == Refused(IF r \in Duplex THEN duplexes ELSE pushes, r)
             chosen == CASE refused                   -> "refused"
                         [] ~refused /\ r \in Duplex -> "voice"
                         [] ~refused /\ r \in Push   -> "avatar"
  <2>1. object' = [object EXCEPT ![r].at = chosen]
    BY DEF Opens
  <2>2. chosen \in {"refused", "voice", "avatar"}
    <3>1. CASE r \in Duplex
      BY <3>1
    <3>2. CASE r \in Push /\ r \notin Duplex
      BY <3>2
    <3> QED
      BY <3>1, <3>2 DEF Requests
  <2> HIDE DEF chosen
  <2> QED
    BY <2>1, <2>2 DEF LifecycleTyped, LifecycleTypeOK, Alone
<1>2. object[r].at = "none" /\ serving /\ UNCHANGED <<serving, duplexes, pushes, lease>>
    BY DEF Opens
<1>3. Held' /\ NeverDead' /\ LoopsEnded'
    BY <1>1, <1>2 DEF Alone, Held, NeverDead, LoopsEnded
<1>4. RunsWhileOpen' /\ OpenRegistered' /\ NobodyInFlight' /\ GivenBack'
    BY <1>1, <1>2 DEF Alone, RunsWhileOpen, OpenRegistered, NobodyInFlight, GivenBack
<1> QED
    BY <1>3, <1>4

(* A lease that request r takes was free or its own.                       *)
LEMMA LeasedKeeps ==
    ASSUME LifecycleTypeOK, OwnId, NEW r \in Requests, NEW p \in Pools,
           Available(p, r), Leased(p, r)
    PROVE  /\ lease'[p] = IdOf[r]
           /\ \A q \in Pools : q # p => lease'[q] = lease[q]
           /\ \A s \in Requests, q \in Pools : lease[q] = IdOf[s] => lease'[q] = IdOf[s]
           /\ \A s \in Requests, q \in Pools :
                  s # r /\ lease[q] # IdOf[s] => lease'[q] # IdOf[s]
BY LifecycleAssumption DEF LifecycleTypeOK, OwnId, Available, Leased

(* A release takes only the lease of request r.                            *)
LEMMA ReleasedKeeps ==
    ASSUME LifecycleTypeOK, OwnId, NEW r \in Requests, NEW p \in Pools, Released(p, r)
    PROVE  /\ lease'[p] # IdOf[r]
           /\ \A q \in Pools : q # p => lease'[q] = lease[q]
           /\ \A s \in Requests, q \in Pools :
                  s # r /\ lease[q] = IdOf[s] => lease'[q] = IdOf[s]
           /\ \A s \in Requests, q \in Pools : lease[q] # IdOf[s] => lease'[q] # IdOf[s]
BY LifecycleAssumption DEF LifecycleTypeOK, OwnId, Released

LEMMA VoiceLeasedKeeps ==
    ASSUME LifecycleInv, OwnId, NEW r \in Requests, VoiceLeased(r), LifecycleTyped'
    PROVE  LifecycleInv'
<1> USE DEF LifecycleInv
<1>1. /\ Alone(r)
      /\ object'[r].at = "avatar"
      /\ object'[r].running = object[r].running
      /\ object'[r].consumer = object[r].consumer
      /\ object'[r].renewer["avatar"] = object[r].renewer["avatar"]
      /\ object'[r].renewer["voice"] = "new"
    BY DEF VoiceLeased, LifecycleTyped, LifecycleTypeOK, Alone, Pools
<1>2. /\ lease'["voice"] = IdOf[r]
      /\ lease'["avatar"] = lease["avatar"]
      /\ \A s \in Requests, q \in Pools : lease[q] = IdOf[s] => lease'[q] = IdOf[s]
      /\ \A s \in Requests, q \in Pools : s # r /\ lease[q] # IdOf[s] => lease'[q] # IdOf[s]
    BY LeasedKeeps DEF VoiceLeased, LifecycleTyped, Pools
<1>3. /\ object[r].at = "voice" /\ r \in Duplex /\ r \notin Push
      /\ UNCHANGED <<serving, duplexes, pushes>>
    BY LifecycleAssumption DEF VoiceLeased, LifecycleTyped, OnlyDuplex
<1>4. Held' /\ NeverDead' /\ LoopsEnded'
    BY <1>1, <1>2, <1>3 DEF Alone, Held, NeverDead, LoopsEnded, Pools
<1>5. RunsWhileOpen' /\ OpenRegistered' /\ NobodyInFlight' /\ GivenBack'
    BY <1>1, <1>2, <1>3
    DEF Alone, RunsWhileOpen, OpenRegistered, NobodyInFlight, InFlight, GivenBack, Pools
<1> QED
    BY <1>4, <1>5

LEMMA AvatarLeasedKeeps ==
    ASSUME LifecycleInv, OwnId, NEW r \in Requests, AvatarLeased(r), LifecycleTyped'
    PROVE  LifecycleInv'
<1> USE DEF LifecycleInv
<1>1. /\ Alone(r)
      /\ object'[r].running = object[r].running
      /\ object'[r].consumer = TRUE
      /\ object'[r].renewer["voice"] = object[r].renewer["voice"]
      /\ r \in Duplex => /\ object'[r].at = "asr"
                         /\ object'[r].renewer["avatar"] = "new"
      /\ r \notin Duplex => /\ object'[r].at = "open"
                            /\ object'[r].renewer["avatar"] = object[r].renewer["avatar"]
  <2>1. CASE r \in Duplex
    <3> object' = [object EXCEPT ![r].at = "asr", ![r].consumer = TRUE,
                                 ![r].renewer["avatar"] = "new"]
      BY <2>1 DEF AvatarLeased
    <3> QED
      BY <2>1 DEF LifecycleTyped, LifecycleTypeOK, Alone, Pools
  <2>2. CASE r \notin Duplex
    BY <2>2 DEF AvatarLeased, LifecycleTyped, LifecycleTypeOK, Alone
  <2> QED
    BY <2>1, <2>2
<1>2. /\ lease'["avatar"] = IdOf[r]
      /\ lease'["voice"] = lease["voice"]
      /\ \A s \in Requests, q \in Pools : lease[q] = IdOf[s] => lease'[q] = IdOf[s]
      /\ \A s \in Requests, q \in Pools : s # r /\ lease[q] # IdOf[s] => lease'[q] # IdOf[s]
    BY LeasedKeeps DEF AvatarLeased, LifecycleTyped, Pools
<1>3. /\ object[r].at = "avatar" /\ (r \in Duplex <=> r \notin Push)
      /\ UNCHANGED <<serving, duplexes>>
      /\ r \in Duplex => UNCHANGED pushes
      /\ r \notin Duplex => pushes' = [pushes EXCEPT ![IdOf[r]] = r]
    BY LifecycleAssumption DEF AvatarLeased, Requests
<1>4. Held' /\ NeverDead' /\ LoopsEnded'
    BY <1>1, <1>2, <1>3 DEF Alone, Held, NeverDead, LoopsEnded, Pools
<1>5. OpenRegistered'
    BY <1>1, <1>3, LifecycleAssumption
    DEF Alone, OpenRegistered, LifecycleTyped, LifecycleTypeOK, OwnId
<1>6. RunsWhileOpen' /\ NobodyInFlight' /\ GivenBack'
    BY <1>1, <1>2, <1>3 DEF Alone, RunsWhileOpen, NobodyInFlight, InFlight, GivenBack, Pools
<1> QED
    BY <1>4, <1>5, <1>6

LEMMA AsrConnectsKeeps ==
    ASSUME LifecycleInv, OwnId, NEW r \in Requests, AsrConnects(r), LifecycleTyped'
    PROVE  LifecycleInv'
<1> USE DEF LifecycleInv
<1>1. /\ Alone(r)
      /\ object'[r].at = "open" /\ object'[r].running
      /\ object'[r].consumer = object[r].consumer
      /\ object'[r].renewer = object[r].renewer
    BY DEF AsrConnects, LifecycleTyped, LifecycleTypeOK, Alone
<1>2. /\ object[r].at = "asr" /\ r \in Duplex /\ r \notin Push
      /\ UNCHANGED <<serving, pushes, lease>>
      /\ duplexes' = [duplexes EXCEPT ![IdOf[r]] = r]
    BY LifecycleAssumption DEF AsrConnects, LifecycleTyped, OnlyDuplex
<1>3. Held' /\ NeverDead' /\ LoopsEnded'
    BY <1>1, <1>2 DEF Alone, Held, NeverDead, LoopsEnded
<1>4. OpenRegistered'
    BY <1>1, <1>2, LifecycleAssumption
    DEF Alone, OpenRegistered, LifecycleTyped, LifecycleTypeOK, OwnId
<1>5. RunsWhileOpen' /\ NobodyInFlight' /\ GivenBack'
    BY <1>1, <1>2 DEF Alone, RunsWhileOpen, NobodyInFlight, InFlight, GivenBack
<1> QED
    BY <1>3, <1>4, <1>5

LEMMA StartFailsKeeps ==
    ASSUME LifecycleInv, OwnId, NEW r \in Requests, StartFails(r), LifecycleTyped'
    PROVE  LifecycleInv'
<1> USE DEF LifecycleInv
<1>1. /\ Alone(r)
      /\ object'[r].at = "failed"
      /\ object'[r].running = object[r].running
      /\ object'[r].consumer = object[r].consumer
      /\ object'[r].renewer = object[r].renewer
    BY DEF StartFails, LifecycleTyped, LifecycleTypeOK, Alone
<1>2. /\ object[r].at \in {"voice", "avatar", "asr"}
      /\ UNCHANGED <<serving, duplexes, pushes, lease>>
    BY DEF StartFails
<1>3. Held' /\ NeverDead' /\ LoopsEnded'
    BY <1>1, <1>2 DEF Alone, Held, NeverDead, LoopsEnded
<1>4. RunsWhileOpen' /\ OpenRegistered' /\ NobodyInFlight' /\ GivenBack'
    BY <1>1, <1>2
    DEF Alone, RunsWhileOpen, OpenRegistered, NobodyInFlight, InFlight, GivenBack
<1> QED
    BY <1>3, <1>4

LEMMA ClosesKeeps ==
    ASSUME LifecycleInv, OwnId, NEW r \in Requests, Closes(r), LifecycleTyped'
    PROVE  LifecycleInv'
<1> USE DEF LifecycleInv
<1>1. /\ Alone(r)
      /\ object'[r].at = IF r \in Duplex THEN "ending" ELSE "releasing"
      /\ ~object'[r].running
      /\ object'[r].consumer = object[r].consumer
      /\ object'[r].renewer = object[r].renewer
  <2> DEFINE stage == IF r \in Duplex THEN "ending" ELSE "releasing"
  <2>1. object' = [object EXCEPT ![r].at = stage, ![r].running = FALSE]
    BY DEF Closes, StopBegins
  <2> HIDE DEF stage
  <2>2. /\ Alone(r)
        /\ object'[r].at = stage /\ ~object'[r].running
        /\ object'[r].consumer = object[r].consumer
        /\ object'[r].renewer = object[r].renewer
    BY <2>1 DEF LifecycleTyped, LifecycleTypeOK, Alone
  <2> QED
    BY <2>2 DEF stage
<1>2. /\ object[r].at = "open" /\ (r \in Duplex <=> r \notin Push)
      /\ UNCHANGED <<serving, lease>>
      /\ \A i \in Ids : i # IdOf[r] => duplexes'[i] = duplexes[i] /\ pushes'[i] = pushes[i]
  <2>1. \A i \in Ids : i # IdOf[r] => duplexes'[i] = duplexes[i]
    BY DEF Closes, LifecycleTyped, LifecycleTypeOK
  <2>2. \A i \in Ids : i # IdOf[r] => pushes'[i] = pushes[i]
    BY DEF Closes, LifecycleTyped, LifecycleTypeOK
  <2>3. r \in Duplex <=> r \notin Push
    BY LifecycleAssumption DEF Requests
  <2>4. object[r].at = "open" /\ UNCHANGED <<serving, lease>>
    BY DEF Closes
  <2> QED
    BY <2>1, <2>2, <2>3, <2>4
<1>3. Held' /\ NeverDead' /\ LoopsEnded'
    BY <1>1, <1>2 DEF Alone, Held, NeverDead, LoopsEnded, Pools
<1>4. OpenRegistered'
    BY <1>1, <1>2, LifecycleAssumption DEF Alone, OpenRegistered, OwnId
<1>5. RunsWhileOpen' /\ NobodyInFlight' /\ GivenBack'
    BY <1>1, <1>2 DEF Alone, RunsWhileOpen, NobodyInFlight, InFlight, GivenBack
<1> QED
    BY <1>3, <1>4, <1>5

LEMMA VoiceReleasedKeeps ==
    ASSUME LifecycleInv, OwnId, NEW r \in Requests, VoiceReleased(r), LifecycleTyped'
    PROVE  LifecycleInv'
<1> USE DEF LifecycleInv
<1>1. /\ object[r].at = "ending" /\ r \in Duplex /\ r \notin Push
      /\ object[r].renewer["voice"] # "dead"
    BY LifecycleAssumption DEF VoiceReleased, NeverDead, LifecycleTyped, OnlyDuplex, Pools
<1>2. object' = [object EXCEPT ![r].at = "releasing", ![r].renewer["voice"] = "off"]
    BY <1>1 DEF VoiceReleased
<1>3. /\ Alone(r)
      /\ object'[r].at = "releasing"
      /\ object'[r].running = object[r].running
      /\ object'[r].consumer = object[r].consumer
      /\ object'[r].renewer["avatar"] = object[r].renewer["avatar"]
      /\ object'[r].renewer["voice"] = "off"
    BY <1>2 DEF LifecycleTyped, LifecycleTypeOK, Alone, Pools
<1>4. /\ UNCHANGED <<serving, duplexes, pushes>>
      /\ lease'["voice"] # IdOf[r]
      /\ lease'["avatar"] = lease["avatar"]
      /\ \A s \in Requests, q \in Pools : s # r /\ lease[q] = IdOf[s] => lease'[q] = IdOf[s]
      /\ \A s \in Requests, q \in Pools : lease[q] # IdOf[s] => lease'[q] # IdOf[s]
    BY <1>1, ReleasedKeeps DEF VoiceReleased, LifecycleTyped, Pools
<1>5. Held' /\ NeverDead' /\ LoopsEnded'
    BY <1>1, <1>3, <1>4 DEF Alone, Held, NeverDead, LoopsEnded, Pools
<1>6. RunsWhileOpen' /\ OpenRegistered' /\ NobodyInFlight' /\ GivenBack'
    BY <1>1, <1>3, <1>4
    DEF Alone, RunsWhileOpen, OpenRegistered, NobodyInFlight, InFlight, GivenBack, Pools
<1> QED
    BY <1>5, <1>6

LEMMA AvatarReleasedKeeps ==
    ASSUME LifecycleInv, OwnId, NEW r \in Requests, AvatarReleased(r), LifecycleTyped'
    PROVE  LifecycleInv'
<1> USE DEF LifecycleInv
<1>1. object' = [object EXCEPT ![r].at = "closed", ![r].consumer = FALSE,
                               ![r].renewer["avatar"] = "off"]
    BY DEF AvatarReleased
<1>2. /\ Alone(r)
      /\ object'[r].at = "closed" /\ ~object'[r].consumer
      /\ object'[r].running = object[r].running
      /\ object'[r].renewer["voice"] = object[r].renewer["voice"]
      /\ object'[r].renewer["avatar"] = "off"
    BY <1>1 DEF LifecycleTyped, LifecycleTypeOK, Alone, Pools
<1>3. /\ object[r].at = "releasing"
      /\ UNCHANGED <<serving, duplexes, pushes>>
      /\ lease'["avatar"] # IdOf[r]
      /\ lease'["voice"] = lease["voice"]
      /\ \A s \in Requests, q \in Pools : s # r /\ lease[q] = IdOf[s] => lease'[q] = IdOf[s]
      /\ \A s \in Requests, q \in Pools : lease[q] # IdOf[s] => lease'[q] # IdOf[s]
    BY ReleasedKeeps DEF AvatarReleased, LifecycleTyped, Pools
<1>4. Held' /\ NeverDead' /\ LoopsEnded'
    BY <1>2, <1>3 DEF Alone, Held, NeverDead, LoopsEnded, Pools
<1>5. RunsWhileOpen' /\ OpenRegistered' /\ NobodyInFlight' /\ GivenBack'
    BY <1>2, <1>3
    DEF Alone, RunsWhileOpen, OpenRegistered, NobodyInFlight, InFlight, GivenBack, Pools
<1> QED
    BY <1>4, <1>5

(* A renewal finds the lease its own, so it changes nothing.               *)
LEMMA RenewStepKeeps ==
    ASSUME LifecycleInv, OwnId, NEW r \in Requests, NEW p \in Pools, RenewStep(r, p),
           LifecycleTyped'
    PROVE  LifecycleInv'
<1> USE DEF LifecycleInv
<1>1. UNCHANGED <<serving, duplexes, pushes>> /\ object[r].renewer[p] \in {"new", "on"}
    BY DEF RenewStep, RenewerStarts, Renews
<1>2. object[r].running => object[r].at = "open" /\ lease[p] = IdOf[r]
    BY <1>1 DEF RunsWhileOpen, Held
<1>3. UNCHANGED lease
  <2>1. CASE UNCHANGED lease
    BY <2>1
  <2>2. CASE object[r].running /\ Leased(p, r)
    BY <1>2, <2>2 DEF Leased, LifecycleTyped, LifecycleTypeOK
  <2> QED
    BY <2>1, <2>2 DEF RenewStep, RenewerStarts, Renews
<1>4. CASE UNCHANGED object
  <2>1. Held' /\ NeverDead' /\ LoopsEnded'
    BY <1>1, <1>3, <1>4 DEF Held, NeverDead, LoopsEnded
  <2>2. RunsWhileOpen' /\ OpenRegistered' /\ NobodyInFlight' /\ GivenBack'
    BY <1>1, <1>3, <1>4
    DEF RunsWhileOpen, OpenRegistered, NobodyInFlight, InFlight, GivenBack
  <2> QED
    BY <2>1, <2>2
<1>5. CASE object' # object
  <2>1. PICK state \in {"on", "off"} : object' = [object EXCEPT ![r].renewer[p] = state]
    <3>1. CASE RenewerStarts(r, p)
      BY <3>1 DEF RenewerStarts
    <3>2. CASE Renews(r, p)
      <4>1. ~object[r].running
        <5> SUFFICES ASSUME object[r].running PROVE UNCHANGED object
          BY <1>5
        <5>1. Available(p, r)
          BY <1>2 DEF Available
        <5> QED
          BY <5>1, <3>2 DEF Renews
      <4> QED
        BY <4>1, <3>2 DEF Renews
    <3> QED
      BY <3>1, <3>2 DEF RenewStep
  <2>2. /\ Alone(r)
        /\ object'[r].at = object[r].at
        /\ object'[r].running = object[r].running
        /\ object'[r].consumer = object[r].consumer
        /\ object'[r].renewer[p] = state
        /\ \A q \in Pools : q # p => object'[r].renewer[q] = object[r].renewer[q]
    BY <2>1 DEF LifecycleTyped, LifecycleTypeOK, Alone
  <2>3. Held' /\ NeverDead'
    BY <1>1, <1>3, <2>2 DEF Alone, Held, NeverDead
  <2>4. LoopsEnded'
    BY <1>1, <2>2 DEF Alone, LoopsEnded, Pools
  <2>5. RunsWhileOpen' /\ OpenRegistered' /\ NobodyInFlight' /\ GivenBack'
    BY <1>1, <1>3, <2>2
    DEF Alone, RunsWhileOpen, OpenRegistered, NobodyInFlight, InFlight, GivenBack
  <2> QED
    BY <2>3, <2>4, <2>5
<1> QED
    BY <1>4, <1>5

(* The steps that only take leases away, from requests that do not renew.  *)
LEMMA LeasesEndKeeps ==
    ASSUME LifecycleInv, LifecycleTyped', UNCHANGED <<duplexes, pushes, object>>,
           ~serving' => \A r \in Requests : ~InFlight(r),
           \A r \in Requests, p \in Pools :
               lease[p] # IdOf[r] => lease'[p] # IdOf[r],
           \A r \in Requests, p \in Pools :
               object[r].renewer[p] \in {"new", "on"} /\ object[r].at # "failed"
                   => lease'[p] = lease[p]
    PROVE  LifecycleInv'
<1> USE DEF LifecycleInv
<1>1. Held' /\ NeverDead' /\ LoopsEnded'
    BY DEF Held, NeverDead, LoopsEnded
<1>2. RunsWhileOpen' /\ OpenRegistered' /\ NobodyInFlight'
    BY DEF RunsWhileOpen, OpenRegistered, NobodyInFlight, InFlight
<1>3. GivenBack'
    BY DEF GivenBack, Pools
<1> QED
    BY <1>1, <1>2, <1>3

LEMMA ExpiresKeeps ==
    ASSUME LifecycleInv, NEW p \in Pools, Expires(p), LifecycleTyped'
    PROVE  LifecycleInv'
<1>1. \A r \in Requests, q \in Pools : lease[q] # IdOf[r] => lease'[q] # IdOf[r]
    BY LifecycleAssumption DEF Expires, LifecycleInv, LifecycleTyped, LifecycleTypeOK
<1>2. \A r \in Requests, q \in Pools :
          object[r].renewer[q] \in {"new", "on"} /\ object[r].at # "failed"
              => lease'[q] = lease[q]
    BY DEF Expires, LifecycleInv, Held, LifecycleTyped, LifecycleTypeOK
<1> QED
    BY <1>1, <1>2, LeasesEndKeeps DEF Expires, LifecycleInv, NobodyInFlight

(* The pools stop when every session is closed: who renews is not there.   *)
LEMMA PoolsStopKeeps ==
    ASSUME LifecycleInv, PoolsStop, LifecycleTyped'
    PROVE  LifecycleInv'
<1>1. \A r \in Requests, q \in Pools : lease[q] # IdOf[r] => lease'[q] # IdOf[r]
    BY LifecycleAssumption DEF PoolsStop
<1>2. \A r \in Requests : object[r].at # "open"
    BY LifecycleAssumption
    DEF PoolsStop, LifecycleInv, OpenRegistered, Registered, Requests
<1>3. \A r \in Requests : ~InFlight(r)
    BY DEF PoolsStop, LifecycleInv, NobodyInFlight
<1>4. \A r \in Requests, q \in Pools :
          object[r].renewer[q] \in {"new", "on"} => object[r].at = "failed"
    BY <1>2, <1>3 DEF PoolsStop, LifecycleInv, Held, InFlight
<1> QED
    BY <1>1, <1>3, <1>4, LeasesEndKeeps DEF PoolsStop

LEMMA LifecycleInvStep ==
    OwnId /\ LifecycleInv /\ [LifecycleNext]_lifecycleVars => LifecycleInv'
<1> SUFFICES ASSUME OwnId, LifecycleInv, [LifecycleNext]_lifecycleVars
             PROVE  LifecycleInv'
    OBVIOUS
<1>1. LifecycleTyped'
    BY LifecycleTypeStep DEF LifecycleInv
<1>2. ASSUME NEW r \in Requests, Opens(r) \/ StartStep(r) \/ Closes(r) \/ StopStep(r)
      PROVE  LifecycleInv'
    BY <1>1, <1>2, OpensKeeps, VoiceLeasedKeeps, AvatarLeasedKeeps, AsrConnectsKeeps,
       StartFailsKeeps, ClosesKeeps, VoiceReleasedKeeps, AvatarReleasedKeeps
    DEF StartStep, StopStep
<1>3. ASSUME NEW r \in Requests, NEW p \in Pools, RenewStep(r, p) PROVE LifecycleInv'
    BY <1>1, <1>3, RenewStepKeeps
<1>4. ASSUME NEW p \in Pools, Expires(p) PROVE LifecycleInv'
    BY <1>1, <1>4, ExpiresKeeps
<1>5. CASE ShutsDown
    BY <1>1, <1>5, LeasesEndKeeps DEF ShutsDown
<1>6. CASE PoolsStop
    BY <1>1, <1>6, PoolsStopKeeps
<1>7. CASE UNCHANGED lifecycleVars
    BY <1>1, <1>7, LeasesEndKeeps DEF lifecycleVars, LifecycleInv, NobodyInFlight
<1> QED
    BY <1>2, <1>3, <1>4, <1>5, <1>6, <1>7 DEF LifecycleNext

LEMMA LifecycleInvHolds == OwnId /\ LifecycleSpec => []LifecycleInv
<1>1. OwnId /\ LifecycleInv /\ [LifecycleNext]_lifecycleVars => LifecycleInv'
    BY LifecycleInvStep
<1>2. OwnId => []OwnId
  <2>1. OwnId => OwnId'
    BY DEF OwnId
  <2> QED
    BY <2>1, PTL
<1> QED
    BY <1>1, <1>2, LifecycleInvInit, PTL DEF LifecycleSpec

-----------------------------------------------------------------------------
(* The properties.                                                         *)

(* An open session whose renew loop runs has the worker that it renews     *)
(* (duplex.py:351-379).                                                    *)
THEOREM RenewedLeaseIsHeld == OwnId /\ LifecycleSpec => []RenewedLeaseHeld
<1>1. LifecycleInv => RenewedLeaseHeld
    BY DEF LifecycleInv, Held, RenewedLeaseHeld
<1> QED
    BY <1>1, LifecycleInvHolds, PTL

(* Nothing runs for a session that is in no table, but for those whose     *)
(* start failed (duplex.py:185-194).                                       *)
THEOREM OrphansNever == OwnId /\ LifecycleSpec => []NoOrphans
<1>1. LifecycleInv => NoOrphans
    BY DEF LifecycleInv, RunsWhileOpen, OpenRegistered, NoOrphans
<1> QED
    BY <1>1, LifecycleInvHolds, PTL

(* A closed session has given back what it leased (duplex.py:213-244).     *)
THEOREM ClosedGaveBack == OwnId /\ LifecycleSpec => []ClosedHoldsNothing
<1>1. LifecycleInv => ClosedHoldsNothing
    BY DEF LifecycleInv, GivenBack, ClosedHoldsNothing, Pools
<1> QED
    BY <1>1, LifecycleInvHolds, PTL

-----------------------------------------------------------------------------
(* AdaptiveQuality.                                                        *)

(* The counter of the streak says no more than the reports did.            *)
StreakInv ==
    /\ streak <= Len(recent)
    /\ \A i \in 1..Len(recent) : i > Len(recent) - streak => recent[i] = "healthy"

AdaptiveInv == AdaptiveTypeOK /\ StreakInv

LEMMA AdaptiveInvInit == AdaptiveInit => AdaptiveInv
BY AdaptiveAssumption DEF AdaptiveInit, AdaptiveInv, AdaptiveTypeOK, StreakInv

(* What a report does to the history.                                      *)
LEMMA RecentAfter ==
    ASSUME AdaptiveInv, NEW c \in 1..Clients, Report(c)
    PROVE  /\ recent' \in Seq(Rates) /\ Len(recent') <= RecoverStreak
           /\ recent'[Len(recent')] = link[c] /\ Len(recent') \in Nat \ {0}
           /\ Len(recent') = IF Len(recent) < RecoverStreak THEN Len(recent) + 1
                                                            ELSE RecoverStreak
           /\ \A i \in 1..(Len(recent') - 1) :
                 LET j == IF Len(recent) < RecoverStreak THEN i ELSE i + 1
                 IN  j \in 1..Len(recent) /\ recent'[i] = recent[j]
<1>1. /\ link[c] \in Rates /\ recent \in Seq(Rates) /\ Len(recent) \in Nat
      /\ Len(recent) <= RecoverStreak /\ RecoverStreak \in Nat \ {0}
  BY AdaptiveAssumption DEF AdaptiveInv, AdaptiveTypeOK
<1>2. CASE Len(recent) < RecoverStreak
  <2>1. recent' = Append(recent, link[c])
    BY <1>2 DEF Report
  <2> QED
    BY <1>1, <1>2, <2>1
<1>3. CASE ~(Len(recent) < RecoverStreak)
  <2>1. recent' = Append(Tail(recent), link[c]) /\ Len(recent) = RecoverStreak
    BY <1>1, <1>3 DEF Report
  <2>2. /\ Tail(recent) \in Seq(Rates) /\ Len(Tail(recent)) = RecoverStreak - 1
        /\ \A i \in 1..(RecoverStreak - 1) : Tail(recent)[i] = recent[i + 1]
    BY <1>1, <2>1
  <2> QED
    BY <1>1, <1>3, <2>1, <2>2
<1> QED
  BY <1>2, <1>3

LEMMA ReportKeeps ==
    ASSUME AdaptiveInv, NEW c \in 1..Clients, Report(c)
    PROVE  /\ AdaptiveInv'
           /\ tier' < tier => Len(recent') = RecoverStreak /\ AllHealthy(recent')
<1>1. /\ link \in [1..Clients -> Rates] /\ link[c] \in Rates
      /\ tier \in 0..(Tiers - 1) /\ since \in 0..MinHold /\ streak \in 0..(RecoverStreak - 1)
      /\ average \in {"none", "low", "high"} /\ streak <= Len(recent)
      /\ Tiers \in Nat \ {0} /\ MinHold \in Nat \ {0} /\ RecoverStreak \in Nat \ {0}
      /\ Len(recent) \in Nat
  BY AdaptiveAssumption DEF AdaptiveInv, AdaptiveTypeOK, StreakInv
<1>2. link' = link /\ average' \in {"none", "low", "high"}
  BY <1>1 DEF Report, AveragesAfter
<1>3. Counted \in 0..MinHold
  BY <1>1 DEF Counted
<1>4. CASE \/ tier' \in {tier, tier + 1} /\ tier' <= Tiers - 1
              /\ since' \in {0, Counted} /\ streak' = 0
  <2>1. AdaptiveTypeOK'
    BY <1>1, <1>2, <1>3, <1>4, RecentAfter DEF AdaptiveTypeOK
  <2>2. StreakInv'
    BY <1>1, <1>4, RecentAfter DEF StreakInv
  <2> QED
    BY <1>1, <1>4, <2>1, <2>2 DEF AdaptiveInv
<1>5. CASE Heal(link[c])
  <2>1. \A i \in 1..Len(recent') : i >= Len(recent') - streak => recent'[i] = "healthy"
    <3> SUFFICES ASSUME NEW i \in 1..Len(recent'), i >= Len(recent') - streak
                 PROVE  recent'[i] = "healthy"
      OBVIOUS
    <3>1. CASE i = Len(recent')
      BY <1>5, <3>1, RecentAfter DEF Heal, Healing
    <3>2. CASE i < Len(recent')
      <4> DEFINE j == IF Len(recent) < RecoverStreak THEN i ELSE i + 1
      <4>1. j \in 1..Len(recent) /\ recent'[i] = recent[j]
        BY <3>2, RecentAfter
      <4>2. j > Len(recent) - streak
        BY <1>1, <3>2, RecentAfter DEF AdaptiveInv, AdaptiveTypeOK
      <4> QED
        BY <4>1, <4>2 DEF AdaptiveInv, StreakInv
    <3> QED
      BY <3>1, <3>2, RecentAfter
  <2>2. CASE streak + 1 >= RecoverStreak
    <3>1. tier' = 0 /\ since' = 0 /\ streak' = 0
      BY <1>5, <2>2 DEF Heal, Changes
    <3>2. Len(recent') = RecoverStreak
      BY <1>1, <2>2, RecentAfter DEF AdaptiveInv, AdaptiveTypeOK
    <3>3. AllHealthy(recent')
      BY <1>1, <2>1, <2>2, <3>2 DEF AllHealthy
    <3>4. AdaptiveTypeOK'
      BY <1>1, <1>2, <3>1, RecentAfter DEF AdaptiveTypeOK
    <3>5. StreakInv'
      BY <3>1, RecentAfter DEF StreakInv
    <3> QED
      BY <3>2, <3>3, <3>4, <3>5 DEF AdaptiveInv
  <2>3. CASE ~(streak + 1 >= RecoverStreak)
    <3>1. tier' = tier /\ since' = Counted /\ streak' = streak + 1
      BY <1>5, <2>3 DEF Heal, Stays
    <3>2. AdaptiveTypeOK'
      BY <1>1, <1>2, <1>3, <2>3, <3>1, RecentAfter DEF AdaptiveTypeOK
    <3>3. streak' <= Len(recent')
      BY <1>1, <2>3, <3>1, RecentAfter
    <3>4. StreakInv'
      BY <1>1, <2>1, <3>1, <3>3, RecentAfter DEF StreakInv
    <3> QED
      BY <1>1, <3>1, <3>2, <3>4 DEF AdaptiveInv
  <2> QED
    BY <2>2, <2>3
<1>6. CASE Degrade(link[c]) \/ Rest(link[c])
  BY <1>1, <1>4, <1>6 DEF Degrade, Degrading, Rest, Changes, Stays
<1> QED
  BY <1>5, <1>6 DEF Report

LEMMA AdaptiveStep ==
    ASSUME AdaptiveInv, [AdaptiveNext]_adaptiveVars
    PROVE  /\ AdaptiveInv'
           /\ tier' < tier => Len(recent') = RecoverStreak /\ AllHealthy(recent')
<1>1. CASE UNCHANGED adaptiveVars
  BY <1>1 DEF adaptiveVars, AdaptiveInv, AdaptiveTypeOK, StreakInv
<1>2. ASSUME NEW c \in 1..Clients, LinkChanges(c)
      PROVE  /\ AdaptiveInv'
             /\ tier' < tier => Len(recent') = RecoverStreak /\ AllHealthy(recent')
  <2>1. link' \in [1..Clients -> Rates]
    BY <1>2 DEF LinkChanges, AdaptiveInv, AdaptiveTypeOK
  <2> QED
    BY <1>2, <2>1 DEF LinkChanges, AdaptiveInv, AdaptiveTypeOK, StreakInv
<1> QED
  BY <1>1, <1>2, ReportKeeps DEF AdaptiveNext

(* Every variable keeps its type: the tier stays on the ladder.            *)
THEOREM AdaptiveTyped == AdaptiveSpec => []AdaptiveTypeOK
<1>1. AdaptiveInv => AdaptiveTypeOK
  BY DEF AdaptiveInv
<1> QED
  BY <1>1, AdaptiveInvInit, AdaptiveStep, PTL DEF AdaptiveSpec

(* Quality is restored only by RECOVER_STREAK healthy reports in a row     *)
(* (adaptive.py:97-100): the counter never outruns the reports.            *)
THEOREM RecoveryIsVerified == AdaptiveSpec => RecoveryVerified
<1>1. AdaptiveInv /\ [AdaptiveNext]_adaptiveVars
      => [tier' < tier => Len(recent') = RecoverStreak /\ AllHealthy(recent')]_adaptiveVars
  BY AdaptiveStep
<1>2. AdaptiveInv /\ [AdaptiveNext]_adaptiveVars => AdaptiveInv'
  BY AdaptiveStep
<1> QED
  BY <1>1, <1>2, AdaptiveInvInit, PTL DEF AdaptiveSpec, RecoveryVerified

-----------------------------------------------------------------------------
(* SentenceStream.                                                         *)

(* A set of numbers that is bounded has a greatest one.                    *)
LEMMA LeastOf ==
    ASSUME NEW S \in SUBSET Nat, S # {}
    PROVE  \E m \in S : \A k \in S : m <= k
<1>1. IsWellFoundedOn(OpToRel(<, Nat), Nat)
  BY NatLessThanWellFounded
<1>2. PICK m \in S : \A k \in S : ~(<<k, m>> \in OpToRel(<, Nat))
  BY <1>1, WFMin
<1>3. m \in Nat /\ \A k \in S : k \in Nat
  OBVIOUS
<1>4. \A k \in S : ~(k < m)
  BY <1>2, <1>3 DEF OpToRel
<1>5. \A k \in S : m <= k
  BY <1>3, <1>4
<1> QED BY <1>5

LEMMA MaxOf ==
    ASSUME NEW n \in Nat, NEW S \in SUBSET (0 .. n), S # {}
    PROVE  Max(S) \in S /\ \A x \in S : x <= Max(S)
<1> DEFINE T == {n - x : x \in S}
<1>1. T \in SUBSET Nat /\ T # {}
  <2>1. \A x \in S : n - x \in Nat
    OBVIOUS
  <2>2. \E x \in S : n - x \in T
    OBVIOUS
  <2> QED BY <2>1, <2>2
<1>2. PICK m \in T : \A k \in T : m <= k
  BY <1>1, LeastOf
<1>3. PICK x \in S : m = n - x
  BY <1>2
<1>4. \A y \in S : n - y \in T
  OBVIOUS
<1>5. \A y \in S : x >= y
  BY <1>2, <1>3, <1>4
<1>6. \E z \in S : \A y \in S : z >= y
  BY <1>5
<1>7. Max(S) \in S /\ \A y \in S : Max(S) >= y
  BY <1>6 DEF Max
<1> QED BY <1>7

LEMMA LastEndOf ==
    ASSUME NEW s \in Seq(Chars)
    PROVE  /\ LastEnd(s) \in 0 .. Len(s)
           /\ LastEnd(s) \in Ends(s) \union {0}
           /\ \A i \in Ends(s) : i <= LastEnd(s)
<1>1. Len(s) \in Nat /\ Ends(s) \union {0} \in SUBSET (0 .. Len(s)) /\ Ends(s) \union {0} # {}
  BY DEF Ends
<1> QED BY <1>1, MaxOf DEF LastEnd

(* A sentence is as long as the distance to the end before it.             *)
LEMMA SentenceLengthOf ==
    ASSUME NEW s \in Seq(Chars), NEW i \in Ends(s), NEW j \in Ends(s) \union {0}, j < i
    PROVE  SentenceLength(s, i) \in Nat /\ SentenceLength(s, i) <= i - j
<1> DEFINE S == {k \in Ends(s) : k < i} \union {0}
<1>1. Len(s) \in Nat /\ S \in SUBSET (0 .. Len(s)) /\ S # {} /\ i \in 1..Len(s) /\ j \in S
  BY DEF Ends
<1>2. Max(S) \in S /\ \A k \in S : k <= Max(S)
  BY <1>1, MaxOf
<1>3. j <= Max(S) /\ Max(S) < i /\ Max(S) \in Nat /\ j \in Nat
  BY <1>1, <1>2
<1>4. SentenceLength(s, i) = i - Max(S)
  BY DEF SentenceLength
<1> HIDE DEF S
<1> QED BY <1>1, <1>3, <1>4

(* The ends of a text stay where they are when it grows.                   *)
LEMMA EndsStay ==
    ASSUME NEW a \in Seq(Chars), NEW b \in Seq(Chars), Len(a) <= Len(b),
           \A i \in 1..Len(a) : b[i] = a[i]
    PROVE  /\ \A i \in 1..Len(a) : i \in Ends(b) <=> i \in Ends(a)
           /\ Ends(a) \subseteq Ends(b)
           /\ \A i \in Ends(a) : SentenceLength(b, i) = SentenceLength(a, i)
<1>1. Len(a) \in Nat /\ Len(b) \in Nat
  OBVIOUS
<1>2. ASSUME NEW i \in 1..Len(a)
      PROVE  i \in Ends(b) <=> i \in Ends(a)
  <2>1. i \in 1..Len(b) /\ b[i] = a[i] /\ (i > 1 => b[i - 1] = a[i - 1])
    BY <1>1
  <2> QED BY <2>1 DEF Ends
<1>3. Ends(a) \subseteq 1..Len(a)
  BY DEF Ends
<1>4. ASSUME NEW i \in Ends(a)
      PROVE  SentenceLength(b, i) = SentenceLength(a, i)
  <2>1. i \in 1..Len(a)
    BY <1>3
  <2>2. \A j \in Ends(b) : j < i => j \in 1..Len(a)
    BY <1>1, <2>1 DEF Ends
  <2>3. {j \in Ends(b) : j < i} = {j \in Ends(a) : j < i}
    BY <1>2, <1>3, <2>2
  <2> QED BY <2>3 DEF SentenceLength
<1> QED BY <1>2, <1>3, <1>4

(* What follows an end has the ends of the whole text.                     *)
LEMMA EndsOfRest ==
    ASSUME NEW a \in Seq(Chars), NEW b \in Seq(Chars), NEW off \in Nat,
           Len(a) = off + Len(b), off \in Ends(a) \union {0},
           \A j \in 1..Len(b) : b[j] = a[off + j],
           NEW j \in 1..Len(b)
    PROVE  j \in Ends(b) <=> off + j \in Ends(a)
<1>1. /\ Len(a) \in Nat /\ Len(b) \in Nat /\ j \in Nat /\ off + j \in 1..Len(a)
      /\ b[j] = a[off + j]
  OBVIOUS
<1>2. CASE j > 1
  <2>1. j - 1 \in 1..Len(b) /\ off + (j - 1) = (off + j) - 1 /\ off + j > 1
    BY <1>1, <1>2
  <2>2. b[j - 1] = a[(off + j) - 1]
    BY <2>1
  <2> QED BY <1>1, <1>2, <2>1, <2>2 DEF Ends
<1>3. CASE j = 1
  <2>1. off > 0 => a[off] # "dot"
    BY DEF Ends, Blank
  <2>2. (off + j) - 1 = off /\ (off + j > 1 <=> off > 0)
    BY <1>3
  <2> QED BY <1>1, <1>3, <2>1, <2>2 DEF Ends
<1> QED BY <1>1, <1>2, <1>3

(* The position of the last character that has left the buffer.            *)
Cut == Len(answer) - Len(buf)

(* Until which position the answer has been dealt with.                    *)
Reached == IF over THEN Len(answer) ELSE Cut

Long(text) == \A i \in Ends(text) : SentenceLength(text, i) >= MinPiece

TextTyped ==
    /\ answer \in Seq(Chars) /\ buf \in Seq(Chars) /\ over \in BOOLEAN
    /\ pieces \in Seq([from : Nat, to : Nat])

(* The buffer is the rest of the answer, behind the last end of a sentence.*)
BufferIsRest ==
    /\ Len(buf) <= Len(answer)
    /\ \A j \in 1..Len(buf) : buf[j] = answer[Cut + j]
    /\ Cut \in Ends(answer) \union {0}
    /\ \A i \in Ends(answer) : i <= Cut

PiecesAscend ==
    /\ \A n \in 1..(Len(pieces) - 1) : pieces[n].to < pieces[n + 1].from
    /\ \A n \in 1..Len(pieces) : pieces[n].to <= Reached

(* What has left the buffer has been passed on, unless a sentence was      *)
(* short.                                                                  *)
ReachedSpoken ==
    Long(answer) =>
        \A i \in 1..Reached :
            answer[i] \notin Blank => \E p \in Range(pieces) : i \in p.from .. p.to

TextInv == TextTyped /\ BufferIsRest /\ PiecesAscend /\ ReachedSpoken

LEMMA TextInvInit == TextInit => TextInv
<1> SUFFICES ASSUME TextInit PROVE TextInv
  OBVIOUS
<1>1. answer = <<>> /\ buf = <<>> /\ pieces = <<>> /\ over = FALSE
  BY DEF TextInit
<1>2. Len(answer) = 0 /\ Len(buf) = 0 /\ Len(pieces) = 0 /\ Cut = 0 /\ Reached = 0
  BY <1>1 DEF Cut, Reached
<1>3. Ends(answer) = {}
  BY <1>2 DEF Ends
<1>4. TextTyped
  <2>1. <<>> \in Seq(Chars) /\ <<>> \in Seq([from : Nat, to : Nat])
    OBVIOUS
  <2> QED BY <1>1, <2>1 DEF TextTyped
<1>5. BufferIsRest
  BY <1>2, <1>3 DEF BufferIsRest
<1>6. PiecesAscend
  BY <1>2 DEF PiecesAscend
<1>7. ReachedSpoken
  BY <1>2 DEF ReachedSpoken
<1> QED BY <1>4, <1>5, <1>6, <1>7 DEF TextInv

(* One more piece, behind the others, speaks what it covers.               *)
LEMMA PieceAdded ==
    ASSUME TextTyped, PiecesAscend, ReachedSpoken,
           NEW from \in Nat, NEW to \in Nat, from = Reached + 1, Reached \in Nat, from <= to,
           pieces' = Append(pieces, [from |-> from, to |-> to])
    PROVE  /\ pieces' \in Seq([from : Nat, to : Nat])
           /\ Range(pieces) \subseteq Range(pieces')
           /\ [from |-> from, to |-> to] \in Range(pieces')
           /\ \A n \in 1..(Len(pieces') - 1) : pieces'[n].to < pieces'[n + 1].from
           /\ \A n \in 1..Len(pieces') : pieces'[n].to <= to
<1> DEFINE new == [from |-> from, to |-> to]
<1>1. pieces \in Seq([from : Nat, to : Nat]) /\ Len(pieces) \in Nat
  BY DEF TextTyped
<1>2. /\ new \in [from : Nat, to : Nat] /\ new.from = from /\ new.to = to
      /\ pieces' = Append(pieces, new)
  OBVIOUS
<1> HIDE DEF new
<1>3. /\ pieces' \in Seq([from : Nat, to : Nat]) /\ Len(pieces') = Len(pieces) + 1
      /\ pieces'[Len(pieces) + 1] = new
      /\ \A n \in 1..Len(pieces) : pieces'[n] = pieces[n]
  BY <1>1, <1>2
<1>4. DOMAIN pieces = 1..Len(pieces) /\ DOMAIN pieces' = 1..(Len(pieces) + 1)
  BY <1>1, <1>3
<1>5. Range(pieces) \subseteq Range(pieces')
  BY <1>1, <1>3, <1>4 DEF Range
<1>6. new \in Range(pieces')
  BY <1>1, <1>3, <1>4 DEF Range
<1>7. \A n \in 1..Len(pieces) : pieces[n].to \in Nat /\ pieces[n].to <= Reached
  <2>1. \A n \in 1..Len(pieces) : pieces[n] \in [from : Nat, to : Nat]
    BY <1>1, ElementOfSeq
  <2>2. \A n \in 1..Len(pieces) : pieces[n].to \in Nat
    BY <2>1
  <2>3. \A n \in 1..Len(pieces) : pieces[n].to <= Reached
    BY DEF PiecesAscend
  <2> QED BY <2>2, <2>3
<1>8. ASSUME NEW n \in 1..(Len(pieces') - 1)
      PROVE  pieces'[n].to < pieces'[n + 1].from
  <2>1. n \in 1..Len(pieces) /\ pieces'[n] = pieces[n]
    BY <1>1, <1>3
  <2>2. CASE n = Len(pieces)
    BY <1>2, <1>3, <1>7, <2>1, <2>2
  <2>3. CASE n # Len(pieces)
    <3>1. n \in 1..(Len(pieces) - 1) /\ n + 1 \in 1..Len(pieces)
      BY <1>1, <2>1, <2>3
    <3> QED BY <1>3, <2>1, <3>1 DEF PiecesAscend
  <2> QED BY <2>2, <2>3
<1>9. ASSUME NEW n \in 1..Len(pieces')
      PROVE  pieces'[n].to <= to
  <2>1. CASE n \in 1..Len(pieces)
    BY <1>3, <1>7, <2>1
  <2>2. CASE n = Len(pieces) + 1
    BY <1>2, <1>3, <2>2
  <2> QED BY <1>1, <1>3, <2>1, <2>2
<1> QED BY <1>3, <1>5, <1>6, <1>8, <1>9 DEF new
(* A chunk of text: what follows its last sentence end is kept, and what   *)
(* precedes it is passed on.                                               *)
LEMMA ChunkStep ==
    ASSUME TextInv, NEW chunk \in Seq(Chars), ChunkComes(chunk)
    PROVE  TextInv'
<1> DEFINE text == buf \o chunk
           cut == LastEnd(text)
           piece == SubSeq(text, 1, cut)
           rest == SubSeq(text, cut + 1, Len(text))
           off == Cut
<1>1. /\ answer \in Seq(Chars) /\ buf \in Seq(Chars) /\ over = FALSE
      /\ Len(answer) \in Nat /\ Len(buf) \in Nat /\ Len(chunk) \in Nat
      /\ pieces \in Seq([from : Nat, to : Nat])
  BY DEF TextInv, TextTyped, ChunkComes
<1>2. /\ answer' = answer \o chunk /\ buf' = rest /\ over' = over
      /\ pieces' = IF IsBlank(piece) \/ TooShort(piece, rest) THEN pieces ELSE PassedOn(piece)
  BY DEF ChunkComes
<1>3. /\ answer' \in Seq(Chars) /\ Len(answer') = Len(answer) + Len(chunk)
      /\ \A i \in 1..Len(answer) : answer'[i] = answer[i]
      /\ \A j \in 1..Len(chunk) : answer'[Len(answer) + j] = chunk[j]
  BY <1>1, <1>2, ConcatProperties
<1>4. /\ text \in Seq(Chars) /\ Len(text) = Len(buf) + Len(chunk)
      /\ \A i \in 1..Len(buf) : text[i] = buf[i]
      /\ \A j \in 1..Len(chunk) : text[Len(buf) + j] = chunk[j]
  BY <1>1, ConcatProperties
<1>5. /\ off = Len(answer) - Len(buf) /\ off \in Nat /\ off + Len(buf) = Len(answer)
      /\ Reached = off
  BY <1>1 DEF TextInv, BufferIsRest, Cut, Reached
<1>6. /\ off \in Ends(answer) \union {0}
      /\ \A i \in Ends(answer) : i <= off
      /\ \A j \in 1..Len(buf) : buf[j] = answer[off + j]
  BY DEF TextInv, BufferIsRest
<1>7. /\ cut \in 0 .. Len(text) /\ cut \in Ends(text) \union {0}
      /\ \A i \in Ends(text) : i <= cut
  BY <1>4, LastEndOf
<1> HIDE DEF text, cut, off
<1>8. cut \in Nat /\ Len(text) \in Nat /\ Len(answer') \in Nat /\ Len(answer') = off + Len(text)
  BY <1>1, <1>3, <1>4, <1>5, <1>7
<1>9. ASSUME NEW j \in 1..Len(text)
      PROVE  text[j] = answer'[off + j]
  <2>1. CASE j <= Len(buf)
    <3>1. j \in 1..Len(buf) /\ off + j \in 1..Len(answer)
      BY <1>1, <1>5, <2>1
    <3> QED BY <1>3, <1>4, <1>6, <3>1
  <2>2. CASE j > Len(buf)
    <3>1. j - Len(buf) \in 1..Len(chunk)
      BY <1>1, <1>4, <2>2
    <3>2. j = Len(buf) + (j - Len(buf)) /\ off + j = Len(answer) + (j - Len(buf))
      BY <1>1, <1>5
    <3>3. text[Len(buf) + (j - Len(buf))] = chunk[j - Len(buf)]
      BY <1>4, <3>1
    <3>4. answer'[Len(answer) + (j - Len(buf))] = chunk[j - Len(buf)]
      BY <1>3, <3>1
    <3> QED BY <3>2, <3>3, <3>4
  <2> QED BY <1>1, <2>1, <2>2
<1>10. /\ \A i \in 1..Len(answer) : i \in Ends(answer') <=> i \in Ends(answer)
       /\ Ends(answer) \subseteq Ends(answer')
       /\ \A i \in Ends(answer) : SentenceLength(answer', i) = SentenceLength(answer, i)
  BY <1>1, <1>3, EndsStay
<1>11. off \in Ends(answer') \union {0}
  BY <1>6, <1>10
<1>12. ASSUME NEW j \in 1..Len(text)
       PROVE  j \in Ends(text) <=> off + j \in Ends(answer')
  <2>1. answer' \in Seq(Chars) /\ text \in Seq(Chars) /\ off \in Nat
    BY <1>3, <1>4, <1>5
  <2>2. \A k \in 1..Len(text) : text[k] = answer'[off + k]
    BY <1>9
  <2> QED BY <1>8, <1>11, <2>1, <2>2, EndsOfRest
<1>13. Long(answer)' => Long(answer)
  BY <1>10 DEF Long
<1>14. rest \in Seq(Chars) /\ Len(rest) = Len(text) - cut
       /\ \A j \in 1..Len(rest) : rest[j] = text[cut + j]
  BY <1>4, <1>7, <1>8
<1>15. Cut' = off + cut /\ Reached' = off + cut
  <2>1. Len(buf') = Len(text) - cut
    BY <1>2, <1>14
  <2>2. Cut' = off + cut
    BY <1>5, <1>8, <2>1 DEF Cut
  <2> QED BY <1>1, <1>2, <2>2 DEF Reached
<1>16. piece \in Seq(Chars) /\ Len(piece) = cut
       /\ \A j \in 1..cut : piece[j] = text[j]
  BY <1>4, <1>7, <1>8
<1> HIDE DEF rest, piece
<1>17. BufferIsRest'
  <2>1. Len(buf') <= Len(answer')
    BY <1>2, <1>5, <1>8, <1>14
  <2>2. \A j \in 1..Len(buf') : buf'[j] = answer'[Cut' + j]
    <3> TAKE j \in 1..Len(buf')
    <3>1. j \in 1..Len(rest) /\ cut + j \in 1..Len(text) /\ off + (cut + j) = Cut' + j
      BY <1>2, <1>5, <1>8, <1>14, <1>15
    <3> QED BY <1>2, <1>9, <1>14, <3>1
  <2>3. Cut' \in Ends(answer') \union {0}
    <3>1. CASE cut = 0
      BY <1>5, <1>11, <1>15, <3>1
    <3>2. CASE cut # 0
      BY <1>7, <1>12, <1>15, <3>2
    <3> QED BY <3>1, <3>2
  <2>4. ASSUME NEW i \in Ends(answer')
        PROVE  i <= Cut'
    <3>1. i \in 1..Len(answer')
      BY DEF Ends
    <3>2. CASE i <= off
      BY <1>5, <1>8, <1>15, <3>1, <3>2
    <3>3. CASE i > off
      <4>1. i - off \in 1..Len(text) /\ off + (i - off) = i
        BY <1>5, <1>8, <3>1, <3>3
      <4>2. i - off \in Ends(text)
        BY <1>12, <4>1
      <4>3. i - off <= cut
        BY <1>7, <4>2
      <4> QED BY <1>5, <1>8, <1>15, <3>1, <4>3
    <3> QED BY <1>5, <3>1, <3>2, <3>3
  <2> QED BY <2>1, <2>2, <2>3, <2>4 DEF BufferIsRest
<1>18. ASSUME Long(answer)', NEW i \in 1..Reached', answer'[i] \notin Blank, i <= off
        PROVE  \E p \in Range(pieces) : i \in p.from .. p.to
  <2>1. i \in 1..Len(answer) /\ i \in 1..Reached
    BY <1>1, <1>5, <1>8, <1>15, <1>18
  <2>2. answer[i] \notin Blank
    BY <1>3, <1>18, <2>1
  <2>3. Long(answer)
    BY <1>13, <1>18
  <2> QED BY <2>1, <2>2, <2>3 DEF TextInv, ReachedSpoken
<1>19. ASSUME Long(answer)', cut # 0
        PROVE  ~TooShort(piece, rest)
  <2>1. off + cut \in Ends(answer') /\ off < off + cut
    BY <1>5, <1>7, <1>8, <1>12, <1>19
  <2>2. SentenceLength(answer', off + cut) \in Nat /\ SentenceLength(answer', off + cut) <= (off + cut) - off
    BY <1>3, <1>11, <2>1, SentenceLengthOf
  <2>3. SentenceLength(answer', off + cut) >= MinPiece
    BY <1>19, <2>1 DEF Long
  <2>4. cut >= MinPiece
    BY <1>5, <1>8, <2>2, <2>3, SentenceAssumption
  <2> QED BY <1>8, <1>16, <2>4, SentenceAssumption DEF TooShort
<1>20. PassedOn(piece) # pieces
  BY <1>1 DEF PassedOn
<1>21. CASE pieces' = pieces
  <2>1. TextTyped'
    BY <1>1, <1>2, <1>3, <1>14, <1>21 DEF TextTyped
  <2>2. PiecesAscend'
    <3>1. \A n \in 1..Len(pieces) : pieces[n] \in [from : Nat, to : Nat]
      BY <1>1, ElementOfSeq
    <3>2. \A n \in 1..Len(pieces) : pieces[n].to \in Nat
      BY <3>1
    <3>3. \A n \in 1..Len(pieces) : pieces[n].to <= off
      BY <1>5 DEF TextInv, PiecesAscend
    <3>4. \A n \in 1..Len(pieces) : pieces[n].to <= off + cut
      BY <1>5, <1>8, <3>2, <3>3
    <3> QED BY <1>15, <1>21, <3>4 DEF TextInv, PiecesAscend
  <2>3. ASSUME Long(answer)', NEW i \in 1..Reached', answer'[i] \notin Blank
        PROVE  \E p \in Range(pieces') : i \in p.from .. p.to
    <3>1. CASE i <= off
      BY <1>18, <1>21, <2>3, <3>1
    <3>2. CASE i > off
      <4>1. i - off \in 1..cut /\ off + (i - off) = i /\ i - off \in 1..Len(text)
        BY <1>5, <1>7, <1>8, <1>15, <3>2
      <4>2. piece[i - off] \notin Blank
        BY <1>9, <1>16, <2>3, <4>1
      <4>3. ~IsBlank(piece)
        BY <1>16, <4>1, <4>2 DEF IsBlank
      <4>4. ~TooShort(piece, rest)
        BY <1>19, <2>3, <4>1, <1>8
      <4>5. pieces' = PassedOn(piece)
        BY <1>2, <4>3, <4>4
      <4>6. pieces' # pieces
        BY <1>20, <4>1, <4>5, <1>8
      <4> QED BY <1>21, <4>6
    <3> QED BY <1>5, <1>8, <1>15, <3>1, <3>2
  <2> QED BY <1>17, <2>1, <2>2, <2>3 DEF TextInv, ReachedSpoken
<1>22. CASE pieces' # pieces
  <2>1. pieces' = PassedOn(piece) /\ ~IsBlank(piece)
    BY <1>2, <1>22
  <2>2. cut # 0
    BY <1>8, <1>16, <2>1 DEF IsBlank
  <2>3. /\ pieces' = Append(pieces, [from |-> off + 1, to |-> off + cut])
        /\ off + 1 \in Nat /\ off + cut \in Nat /\ off + 1 <= off + cut
    BY <1>5, <1>8, <1>16, <2>1, <2>2 DEF PassedOn
  <2>4. TextTyped /\ PiecesAscend /\ ReachedSpoken
    BY DEF TextInv
  <2>5. /\ pieces' \in Seq([from : Nat, to : Nat])
        /\ [from |-> off + 1, to |-> off + cut] \in Range(pieces')
        /\ Range(pieces) \subseteq Range(pieces')
        /\ \A n \in 1..(Len(pieces') - 1) : pieces'[n].to < pieces'[n + 1].from
        /\ \A n \in 1..Len(pieces') : pieces'[n].to <= off + cut
    BY <1>5, <2>3, <2>4, PieceAdded
  <2>6. TextTyped'
    BY <1>1, <1>2, <1>3, <1>14, <2>5 DEF TextTyped
  <2>7. PiecesAscend'
    BY <1>15, <2>5 DEF PiecesAscend
  <2>8. ASSUME Long(answer)', NEW i \in 1..Reached', answer'[i] \notin Blank
        PROVE  \E p \in Range(pieces') : i \in p.from .. p.to
    <3>1. CASE i <= off
      BY <1>18, <2>5, <2>8, <3>1
    <3>2. CASE i > off
      <4>1. i \in (off + 1) .. (off + cut)
        BY <1>5, <1>8, <1>15, <3>2
      <4> QED BY <2>5, <4>1
    <3> QED BY <1>5, <1>8, <1>15, <3>1, <3>2
  <2> QED BY <1>17, <2>6, <2>7, <2>8 DEF TextInv, ReachedSpoken
<1> QED BY <1>21, <1>22
(* The rest is passed on when the stream ends.                             *)
LEMMA EndStep ==
    ASSUME TextInv, StreamEnds
    PROVE  TextInv'
<1>1. /\ answer \in Seq(Chars) /\ buf \in Seq(Chars) /\ over = FALSE
      /\ Len(answer) \in Nat /\ Len(buf) \in Nat
      /\ pieces \in Seq([from : Nat, to : Nat])
  BY DEF TextInv, TextTyped, StreamEnds
<1>2. /\ answer' = answer /\ buf' = buf /\ over' = TRUE
      /\ pieces' = IF IsBlank(buf) THEN pieces ELSE PassedOn(buf)
  BY DEF StreamEnds
<1>3. /\ Cut = Len(answer) - Len(buf) /\ Cut \in Nat /\ Cut + Len(buf) = Len(answer)
      /\ Reached = Cut
  BY <1>1 DEF TextInv, BufferIsRest, Cut, Reached
<1>4. Cut' = Cut /\ Reached' = Len(answer) /\ (Long(answer)' <=> Long(answer))
  BY <1>2 DEF Cut, Reached, Long
<1>5. \A j \in 1..Len(buf) : buf[j] = answer[Cut + j]
  BY DEF TextInv, BufferIsRest
<1>6. BufferIsRest'
  BY <1>2, <1>4 DEF TextInv, BufferIsRest
<1>7. ASSUME Long(answer)', NEW i \in 1..Reached', answer'[i] \notin Blank, i <= Cut
      PROVE  \E p \in Range(pieces) : i \in p.from .. p.to
  <2>1. i \in 1..Reached
    BY <1>1, <1>3, <1>4, <1>7
  <2> QED BY <1>2, <1>4, <1>7, <2>1 DEF TextInv, ReachedSpoken
<1>8. CASE IsBlank(buf)
  <2>1. TextTyped'
    BY <1>1, <1>2, <1>8 DEF TextTyped
  <2>2. PiecesAscend'
    <3>1. \A n \in 1..Len(pieces) : pieces[n] \in [from : Nat, to : Nat]
      BY <1>1, ElementOfSeq
    <3>2. \A n \in 1..Len(pieces) : pieces[n].to \in Nat
      BY <3>1
    <3>3. \A n \in 1..Len(pieces) : pieces[n].to <= Cut
      BY <1>3 DEF TextInv, PiecesAscend
    <3>4. \A n \in 1..Len(pieces) : pieces[n].to <= Len(answer)
      BY <1>1, <1>3, <3>2, <3>3
    <3> QED BY <1>2, <1>4, <1>8, <3>4 DEF TextInv, PiecesAscend
  <2>3. ASSUME Long(answer)', NEW i \in 1..Reached', answer'[i] \notin Blank
        PROVE  \E p \in Range(pieces') : i \in p.from .. p.to
    <3>1. CASE i <= Cut
      BY <1>2, <1>7, <1>8, <2>3, <3>1
    <3>2. CASE i > Cut
      <4>1. i - Cut \in 1..Len(buf) /\ Cut + (i - Cut) = i
        BY <1>1, <1>3, <1>4, <3>2
      <4>2. buf[i - Cut] = answer[i]
        BY <1>5, <4>1
      <4> QED BY <1>2, <1>8, <2>3, <4>1, <4>2 DEF IsBlank
    <3> QED BY <1>3, <1>4, <1>1, <3>1, <3>2
  <2> QED BY <1>6, <2>1, <2>2, <2>3 DEF TextInv, ReachedSpoken
<1>9. CASE ~IsBlank(buf)
  <2>1. Len(buf) # 0
    BY <1>1, <1>9 DEF IsBlank
  <2>2. /\ pieces' = Append(pieces, [from |-> Cut + 1, to |-> Len(answer)])
        /\ Cut + 1 \in Nat /\ Cut + 1 <= Len(answer)
    BY <1>1, <1>2, <1>3, <1>9, <2>1 DEF PassedOn
  <2>3. TextTyped /\ PiecesAscend /\ ReachedSpoken
    BY DEF TextInv
  <2>4. /\ pieces' \in Seq([from : Nat, to : Nat])
        /\ [from |-> Cut + 1, to |-> Len(answer)] \in Range(pieces')
        /\ Range(pieces) \subseteq Range(pieces')
        /\ \A n \in 1..(Len(pieces') - 1) : pieces'[n].to < pieces'[n + 1].from
        /\ \A n \in 1..Len(pieces') : pieces'[n].to <= Len(answer)
    BY <1>1, <1>3, <2>2, <2>3, PieceAdded
  <2>5. TextTyped'
    BY <1>1, <1>2, <2>4 DEF TextTyped
  <2>6. PiecesAscend'
    BY <1>4, <2>4 DEF PiecesAscend
  <2>7. ASSUME Long(answer)', NEW i \in 1..Reached', answer'[i] \notin Blank
        PROVE  \E p \in Range(pieces') : i \in p.from .. p.to
    <3>1. CASE i <= Cut
      BY <1>7, <2>4, <2>7, <3>1
    <3>2. CASE i > Cut
      <4>1. i \in (Cut + 1) .. Len(answer)
        BY <1>1, <1>3, <1>4, <3>2
      <4> QED BY <2>4, <4>1
    <3> QED BY <1>1, <1>3, <1>4, <3>1, <3>2
  <2> QED BY <1>6, <2>5, <2>6, <2>7 DEF TextInv, ReachedSpoken
<1> QED BY <1>8, <1>9

LEMMA TextInvStep == TextInv /\ [TextNext]_textVars => TextInv'
<1> SUFFICES ASSUME TextInv, [TextNext]_textVars PROVE TextInv'
  OBVIOUS
<1>1. ASSUME NEW n \in 1..2, NEW chunk \in [1..n -> Chars], ChunkComes(chunk)
      PROVE  TextInv'
  <2>1. chunk \in Seq(Chars)
    BY <1>1
  <2> QED BY <1>1, <2>1, ChunkStep
<1>2. CASE StreamEnds
  BY <1>2, EndStep
<1>3. CASE UNCHANGED textVars
  <2>1. answer' = answer /\ buf' = buf /\ pieces' = pieces /\ over' = over
    BY <1>3 DEF textVars
  <2>2. Cut' = Cut
    BY <2>1 DEF Cut
  <2>3. Reached' = Reached
    BY <2>1, <2>2 DEF Reached
  <2>4. TextTyped' /\ BufferIsRest' /\ PiecesAscend' /\ ReachedSpoken'
    BY <2>1, <2>2, <2>3
       DEF TextInv, TextTyped, BufferIsRest, PiecesAscend, ReachedSpoken, Long
  <2> QED BY <2>4 DEF TextInv
<1> QED BY <1>1, <1>2, <1>3 DEF TextNext

(* Wherever the chunks of an answer are cut, all of it is spoken, in order,*)
(* if no sentence in it is shorter than a piece may be: nothing that has   *)
(* left the buffer of sentence_stream is lost, and the buffer begins right *)
(* behind the last end (text_source.py:66-90).                             *)
THEOREM LongSentencesAreSpoken == TextSpec => []LongSentencesSpoken
<1>1. TextInv => LongSentencesSpoken
  <2> SUFFICES ASSUME TextInv, over,
                      \A i \in Ends(answer) : SentenceLength(answer, i) >= MinPiece
               PROVE  AllSpoken
    BY DEF LongSentencesSpoken
  <2>1. Long(answer) /\ Reached = Len(answer)
    BY DEF Long, Reached
  <2> QED BY <2>1 DEF TextInv, PiecesAscend, ReachedSpoken, AllSpoken
<1> QED BY <1>1, TextInvInit, TextInvStep, PTL DEF TextSpec

===============================================================================
