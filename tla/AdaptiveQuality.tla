---------------------------- MODULE AdaptiveQuality ----------------------------
(***************************************************************************)
(* The quality of a video sink (adaptive.py, apply_feedback of ws_sink.py):*)
(* the players report how many frames they missed, a FeedbackAggregator    *)
(* smooths the reports of all of them, a QualityController turns them into *)
(* one of a few tiers.  A gap rate is "healthy" (below RECOVER_GAP),       *)
(* "congested" (above DEGRADE_GAP) or "lossy"; a report of no frames at all*)
(* is healthy.  Of the moving average it only matters whether it exceeds   *)
(* DEGRADE_GAP: it lies between the old average and the new sample.        *)
(***************************************************************************)
EXTENDS Integers, Sequences

CONSTANTS
    Clients,           \* how many players are connected: 1..Clients
    Tiers,             \* len(TIERS)
    MinHold,           \* MIN_HOLD_REPORTS
    RecoverStreak      \* RECOVER_STREAK

ASSUME AdaptiveAssumption ==
    /\ Clients \in Nat \ {0} /\ Tiers \in Nat \ {0}
    /\ MinHold \in Nat \ {0} /\ RecoverStreak \in Nat \ {0}

VARIABLES
    link,              \* external: what each player's reports say at present
    average,           \* gap_rate: "none", "low" or "high"
    tier,              \* tier_index
    since,             \* _since_change, which matters up to MinHold
    streak,            \* _healthy_streak
    recent             \* history: the last reports, RecoverStreak at most

adaptiveVars == <<link, average, tier, since, streak, recent>>

Rates == {"healthy", "lossy", "congested"}

-----------------------------------------------------------------------------
(* FeedbackAggregator.                                                     *)

AveragesAfter(rate) ==
    IF average = "none"
    THEN {IF rate = "congested" THEN "high" ELSE "low"}
    ELSE {a \in {"low", "high"} :
            /\ a = "high" => average = "high" \/ rate = "congested"
            /\ a = "low" => average = "low" \/ rate # "congested"}

-----------------------------------------------------------------------------
(* QualityController.update, with average' the new average.                *)

Counted == IF since < MinHold THEN since + 1 ELSE since

Changes(t) == tier' = t /\ since' = 0 /\ streak' = 0

Stays(n) == UNCHANGED tier /\ since' = Counted /\ streak' = n

Degrading(rate) == average' = "high" /\ rate # "healthy" /\ tier < Tiers - 1

Healing(rate) == rate = "healthy" /\ tier > 0

(* A tier worse, if the last change is two reports past.                   *)
Degrade(rate) ==
    /\ Degrading(rate)
    /\ IF since + 1 >= MinHold \div 2 THEN Changes(tier + 1) ELSE Stays(0)

\* Mutant: a healthy report starts the streak anew.
Heal_Restarts(rate) ==
    /\ Healing(rate)
    /\ IF streak + 1 >= RecoverStreak THEN Changes(0) ELSE Stays(1)

(* The last of enough healthy reports restores the best tier at once.      *)
Heal(rate) ==
    /\ Healing(rate)
    /\ IF streak + 1 >= RecoverStreak THEN Changes(0) ELSE Stays(streak + 1)

\* Mutant: a report between the thresholds does not end the streak.
Rest_KeepStreak(rate) ==
    /\ ~Degrading(rate) /\ ~Healing(rate)
    /\ Stays(streak)

Rest(rate) ==
    /\ ~Degrading(rate) /\ ~Healing(rate)
    /\ Stays(0)

-----------------------------------------------------------------------------
(* apply_feedback, of a report of player c.                                *)
Report(c) ==
    LET rate == link[c]
    IN  /\ average' \in AveragesAfter(rate)
        /\ Degrade(rate) \/ Heal(rate) \/ Rest(rate)
        /\ recent' = IF Len(recent) < RecoverStreak
                     THEN Append(recent, rate)
                     ELSE Append(Tail(recent), rate)
        /\ UNCHANGED link

(* External: the network changes.                                          *)
LinkChanges(c) ==
    /\ \E rate \in Rates : link' = [link EXCEPT ![c] = rate]
    /\ UNCHANGED <<average, tier, since, streak, recent>>

AdaptiveInit ==
    /\ link \in [1..Clients -> Rates]
    /\ average = "none"
    /\ tier = 0 /\ since = 0 /\ streak = 0
    /\ recent = <<>>

AdaptiveNext == \E c \in 1..Clients : Report(c) \/ LinkChanges(c)

AdaptiveSpec == AdaptiveInit /\ [][AdaptiveNext]_adaptiveVars

(* Every player reports again and again, by a timer of half a second.      *)
AdaptiveFairness == \A c \in 1..Clients : WF_adaptiveVars(Report(c))

AdaptiveFairSpec == AdaptiveSpec /\ AdaptiveFairness

-----------------------------------------------------------------------------
(* Properties.                                                             *)

(* Type invariant.                                                         *)
AdaptiveTypeOK ==
    /\ link \in [1..Clients -> Rates]
    /\ average \in {"none", "low", "high"}
    /\ tier \in 0..(Tiers - 1)
    /\ since \in 0..MinHold
    /\ streak \in 0..(RecoverStreak - 1)
    /\ recent \in Seq(Rates) /\ Len(recent) <= RecoverStreak

AllHealthy(reports) == \A i \in 1..Len(reports) : reports[i] = "healthy"

(* Quality is restored only by RECOVER_STREAK healthy reports in a row,    *)
(* whatever came between them and changed the counters                     *)
(* (adaptive.py:97-100).                                                   *)
RecoveryVerified ==
    [][tier' < tier => Len(recent') = RecoverStreak /\ AllHealthy(recent')]_adaptiveVars

(* Once every player's link has healed for good, quality returns and stays:*)
(* neither the average's tail nor a counter keeps it down                  *)
(* (adaptive.py:17-20).                                                    *)
QualityReturns ==
    <>[](\A c \in 1..Clients : link[c] = "healthy") => <>[](tier = 0)
=============================================================================
