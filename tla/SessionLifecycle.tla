--------------------------- MODULE SessionLifecycle ---------------------------
(***************************************************************************)
(* How sessions are opened, kept and closed (publish/routes.py,            *)
(* publish/session_manager.py, pipeline.py, start and stop of duplex.py,   *)
(* of adapter.py and of tts.py).  A duplex session leases a voice and an   *)
(* avatar and renews both; a push session leases an avatar and does not.   *)
(* The pools appear as what WorkerPoolFair shows of them: a worker has one *)
(* holder, known by its session id, and an acquire waits or times out.     *)
(* All sessions want the same voice and the same avatar.                   *)
(***************************************************************************)
EXTENDS Naturals, FiniteSets

CONSTANTS
    Duplex, Push,      \* the requests that create a session of either mode
    Ids, IdOf,         \* the session id of a request
    MaxSessions,       \* max_sessions
    Failing,           \* which of "avatar" and "asr" may raise in start
    None

Requests == Duplex \cup Push

ASSUME LifecycleAssumption ==
    /\ Duplex \cap Push = {}
    /\ IdOf \in [Requests -> Ids]
    /\ MaxSessions \in Nat \ {0}
    /\ Failing \subseteq {"avatar", "asr"}
    /\ None \notin Ids \cup Requests

VARIABLES
    serving,           \* FALSE once the service has begun to shut down
    duplexes,          \* state.duplex_sessions
    pushes,            \* pipeline._sessions
    lease,             \* who holds the worker of each pool, by session id
    object             \* the session that each request makes

lifecycleVars == <<serving, duplexes, pushes, lease, object>>

Pools == {"voice", "avatar"}

(***************************************************************************)
(* at: where start or stop of the session is.  voice, avatar and asr are   *)
(* the awaits of start; ending and releasing those of stop.  running:      *)
(* _running.  consumer: the avatar adapter's task.  renewer: the two renew *)
(* loops; one is "new" until its first step, and "dead" of an exception.   *)
(***************************************************************************)
Stages == {"none", "refused", "voice", "avatar", "asr", "failed", "open",
           "ending", "releasing", "broken", "closed"}

NewObject == [at |-> "none", running |-> FALSE, consumer |-> FALSE,
              renewer |-> [p \in Pools |-> "off"]]

Registered(table) == {i \in Ids : table[i] # None}

InFlight(r) == object[r].at \in {"voice", "avatar", "asr"}

-----------------------------------------------------------------------------
(* Leases.                                                                 *)

(* acquire: a lease of the same session id is renewed in place.            *)
Available(p, r) == lease[p] \in {None, IdOf[r]}

Leased(p, r) == lease' = [lease EXCEPT ![p] = IdOf[r]]

\* Mutant: the worker is freed whoever holds it.
Released_Anyone(p, r) == lease' = [lease EXCEPT ![p] = None]

(* release_async, by session id.                                           *)
Released(p, r) == lease' = [lease EXCEPT ![p] = IF @ = IdOf[r] THEN None ELSE @]

(* acquire gives up while another session holds the worker.                *)
TimesOut(p, r) == ~Available(p, r)

(* The reaper takes a lease that nobody renews; renewal is far more        *)
(* frequent than expiry.                                                   *)
Expires(p) ==
    /\ lease[p] # None
    /\ \A r \in Requests : IdOf[r] = lease[p] => object[r].renewer[p] \notin {"new", "on"}
    /\ lease' = [lease EXCEPT ![p] = None]
    /\ UNCHANGED <<serving, duplexes, pushes, object>>

-----------------------------------------------------------------------------
(* Opening.  The id and the limit are checked first; the table is written  *)
(* when start has returned, several awaits later.                          *)

Refused(table, r) ==
    \/ table[IdOf[r]] # None
    \/ Cardinality(Registered(table)) >= MaxSessions

Opens(r) ==
    /\ serving
    /\ object[r].at = "none"
    /\ LET refused == Refused(IF r \in Duplex THEN duplexes ELSE pushes, r)
       IN  object' = [object EXCEPT ![r].at = CASE refused                   -> "refused"
                                                [] ~refused /\ r \in Duplex -> "voice"
                                                [] ~refused /\ r \in Push   -> "avatar"]
    /\ UNCHANGED <<serving, duplexes, pushes, lease>>

(* The lease is there and its renew loop is created; it runs at the next   *)
(* await.                                                                  *)
VoiceLeased(r) ==
    /\ object[r].at = "voice"
    /\ Available("voice", r)
    /\ Leased("voice", r)
    /\ object' = [object EXCEPT ![r].at = "avatar", ![r].renewer["voice"] = "new"]
    /\ UNCHANGED <<serving, duplexes, pushes>>

(* The avatar adapter has its lease and starts its consumer; a push        *)
(* session is then open.                                                   *)
AvatarLeased(r) ==
    /\ object[r].at = "avatar"
    /\ Available("avatar", r)
    /\ Leased("avatar", r)
    /\ IF r \in Duplex
       THEN /\ object' = [object EXCEPT ![r].at = "asr", ![r].consumer = TRUE,
                                        ![r].renewer["avatar"] = "new"]
            /\ UNCHANGED pushes
       ELSE /\ object' = [object EXCEPT ![r].at = "open", ![r].consumer = TRUE]
            /\ pushes' = [pushes EXCEPT ![IdOf[r]] = r]
    /\ UNCHANGED <<serving, duplexes>>

(* The recogniser connects; worker, sink and drain start without an await. *)
AsrConnects(r) ==
    /\ object[r].at = "asr"
    /\ object' = [object EXCEPT ![r].at = "open", ![r].running = TRUE]
    /\ duplexes' = [duplexes EXCEPT ![IdOf[r]] = r]
    /\ UNCHANGED <<serving, pushes, lease>>

(* start raises: nothing that it has done so far is undone.                *)
StartFails(r) ==
    /\ \/ object[r].at = "voice" /\ TimesOut("voice", r)
       \/ object[r].at = "avatar" /\ (TimesOut("avatar", r) \/ "avatar" \in Failing)
       \/ object[r].at = "asr" /\ "asr" \in Failing
    /\ object' = [object EXCEPT ![r].at = "failed"]
    /\ UNCHANGED <<serving, duplexes, pushes, lease>>

-----------------------------------------------------------------------------
(* The renew loop of pool p.                                               *)

(* Its first step ends it if the session is not running yet.               *)
RenewerStarts(r, p) ==
    /\ object[r].renewer[p] = "new"
    /\ object' = [object EXCEPT ![r].renewer[p] = IF object[r].running THEN "on" ELSE "off"]
    /\ UNCHANGED <<serving, duplexes, pushes, lease>>

(* The interval is over.  A voice that cannot be had any more ends the loop*)
(* with an exception; that of an avatar is logged.                         *)
Renews(r, p) ==
    /\ object[r].renewer[p] = "on"
    /\ IF object[r].running /\ Available(p, r)
       THEN Leased(p, r) /\ UNCHANGED object
       ELSE /\ object' = [object EXCEPT ![r].renewer[p] =
                             CASE ~object[r].running                 -> "off"
                               [] object[r].running /\ p = "voice"   -> "dead"
                               [] object[r].running /\ p = "avatar"  -> "on"]
            /\ UNCHANGED lease
    /\ UNCHANGED <<serving, duplexes, pushes>>

\* Mutant: the loop runs for ever, and does not look at _running.
RenewStep_Forever(r, p) ==
    /\ object[r].renewer[p] \in {"new", "on"}
    /\ object' = [object EXCEPT ![r].renewer[p] = "on"]
    /\ UNCHANGED <<serving, duplexes, pushes, lease>>

RenewStep(r, p) == RenewerStarts(r, p) \/ Renews(r, p)

-----------------------------------------------------------------------------
(* Closing.  The session leaves its table first; then it is stopped.       *)

\* Mutant: the session is only taken from the table.
StopBegins_PopOnly(r) == UNCHANGED object

StopBegins(r) ==
    object' = [object EXCEPT ![r].at = IF r \in Duplex THEN "ending" ELSE "releasing",
                             ![r].running = FALSE]

\* Mutant: the session stays in its table.
Closes_Unpopped(r) ==
    /\ object[r].at = "open"
    /\ r \in {duplexes[IdOf[r]], pushes[IdOf[r]]}
    /\ StopBegins(r)
    /\ UNCHANGED <<serving, duplexes, pushes, lease>>

(* DELETE, or the socket of a duplex session is gone, or the service shuts *)
(* down.                                                                   *)
Closes(r) ==
    /\ object[r].at = "open"
    /\ \/ /\ duplexes[IdOf[r]] = r
          /\ duplexes' = [duplexes EXCEPT ![IdOf[r]] = None]
          /\ UNCHANGED pushes
       \/ /\ pushes[IdOf[r]] = r
          /\ pushes' = [pushes EXCEPT ![IdOf[r]] = None]
          /\ UNCHANGED duplexes
    /\ StopBegins(r)
    /\ UNCHANGED <<serving, lease>>

\* Mutant: the voice is not given back.
VoiceReleased_Kept(r) ==
    /\ object[r].at = "ending"
    /\ object' = [object EXCEPT ![r].at = "releasing", ![r].renewer["voice"] = "off"]
    /\ UNCHANGED <<serving, duplexes, pushes, lease>>

(* Drain and worker are stopped.  The voice's renew loop is cancelled and  *)
(* awaited before the lease is given back; the exception of one that is    *)
(* dead ends stop there.                                                   *)
VoiceReleased(r) ==
    /\ object[r].at = "ending"
    /\ IF object[r].renewer["voice"] = "dead"
       THEN /\ object' = [object EXCEPT ![r].at = "broken"]
            /\ UNCHANGED lease
       ELSE /\ object' = [object EXCEPT ![r].at = "releasing", ![r].renewer["voice"] = "off"]
            /\ Released("voice", r)
    /\ UNCHANGED <<serving, duplexes, pushes>>

(* The same for the avatar, whose consumer ends too.                       *)
AvatarReleased(r) ==
    /\ object[r].at = "releasing"
    /\ object' = [object EXCEPT ![r].at = "closed", ![r].consumer = FALSE,
                                ![r].renewer["avatar"] = "off"]
    /\ Released("avatar", r)
    /\ UNCHANGED <<serving, duplexes, pushes>>

StopStep(r) == VoiceReleased(r) \/ AvatarReleased(r)

(* Shutdown, once all requests are answered: every session is closed, then *)
(* the pools drop what leases are left.                                    *)
ShutsDown ==
    /\ serving
    /\ \A r \in Requests : ~InFlight(r)
    /\ serving' = FALSE
    /\ UNCHANGED <<duplexes, pushes, lease, object>>

PoolsStop ==
    /\ ~serving
    /\ Registered(duplexes) \cup Registered(pushes) = {}
    /\ \A r \in Requests : object[r].at \notin {"ending", "releasing"}
    /\ lease # [p \in Pools |-> None]
    /\ lease' = [p \in Pools |-> None]
    /\ UNCHANGED <<serving, duplexes, pushes, object>>

-----------------------------------------------------------------------------
LifecycleInit ==
    /\ serving = TRUE
    /\ duplexes = [i \in Ids |-> None]
    /\ pushes = [i \in Ids |-> None]
    /\ lease = [p \in Pools |-> None]
    /\ object = [r \in Requests |-> NewObject]

StartStep(r) == VoiceLeased(r) \/ AvatarLeased(r) \/ AsrConnects(r) \/ StartFails(r)

LifecycleNext ==
    \/ \E r \in Requests : Opens(r) \/ StartStep(r) \/ Closes(r) \/ StopStep(r)
    \/ \E r \in Requests, p \in Pools : RenewStep(r, p)
    \/ \E p \in Pools : Expires(p)
    \/ ShutsDown
    \/ PoolsStop

LifecycleSpec == LifecycleInit /\ [][LifecycleNext]_lifecycleVars

(* Tasks run, the reaper runs, and a shutdown goes on to its end; nothing  *)
(* is assumed of clients.                                                  *)
LifecycleFairness ==
    /\ \A r \in Requests : /\ WF_lifecycleVars(StartStep(r))
                           /\ WF_lifecycleVars(StopStep(r))
                           /\ WF_lifecycleVars(~serving /\ Closes(r))
    /\ \A r \in Requests, p \in Pools : WF_lifecycleVars(RenewStep(r, p))
    /\ \A p \in Pools : WF_lifecycleVars(Expires(p))
    /\ WF_lifecycleVars(PoolsStop)

LifecycleFairSpec == LifecycleSpec /\ LifecycleFairness

-----------------------------------------------------------------------------
(* Properties.                                                             *)

(* Type invariant.                                                         *)
LifecycleTypeOK ==
    /\ serving \in BOOLEAN
    /\ duplexes \in [Ids -> Duplex \cup {None}]
    /\ pushes \in [Ids -> Push \cup {None}]
    /\ lease \in [Pools -> Ids \cup {None}]
    /\ object \in [Requests -> [at : Stages, running : BOOLEAN, consumer : BOOLEAN,
                                renewer : [Pools -> {"new", "on", "off", "dead"}]]]

(* A session whose renew loop runs has not lost the worker it speaks or    *)
(* moves with to another session (duplex.py:351-379): however starts,      *)
(* failures, stops and expiries of the others interleave.                  *)
RenewedLeaseHeld ==
    \A r \in Requests, p \in Pools :
        object[r].at = "open" /\ object[r].renewer[p] = "on" => lease[p] = IdOf[r]

(* A session that serves nobody does nothing: only sessions that are in a  *)
(* table, on their way there or on their way out run, and those whose start*)
(* has failed after the avatar was leased (duplex.py:185-194).             *)
NoOrphans ==
    \A r \in Requests :
        object[r].running \/ object[r].consumer
            => \/ object[r].at = "open" /\ (duplexes[IdOf[r]] = r \/ pushes[IdOf[r]] = r)
               \/ object[r].at \in {"asr", "ending", "releasing", "failed"}

(* A session that is closed has given back both workers, though its renew  *)
(* loops were running until then (duplex.py:213-244).                      *)
ClosedHoldsNothing ==
    \A r \in Requests, p \in Pools : object[r].at = "closed" => lease[p] # IdOf[r]

(* What a failed start has leased comes back: nothing renews it, and the   *)
(* reaper takes it (duplex.py:183-187).                                    *)
FailedLeaseEnds ==
    \A r \in Requests, p \in Pools :
        object[r].at = "failed" /\ lease[p] = IdOf[r] ~> lease[p] # IdOf[r]

(* After a shutdown no session is left and no worker is leased             *)
(* (session_manager.py:116-130).                                           *)
ShutdownEnds ==
    ~serving ~> /\ Registered(duplexes) \cup Registered(pushes) = {}
                /\ \A p \in Pools : lease[p] = None
=============================================================================
