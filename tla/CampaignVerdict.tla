--------------------------- MODULE CampaignVerdict ---------------------------
(***************************************************************************)
(* tools/rmg-eze4/analysis/validator.py and aggregator.py: the verdict on a*)
(* campaign of trials, each run in some boot of the tablet under one of two*)
(* conditions.  A trial is filed by appending its record, and the verdict  *)
(* is taken of the records so far.                                         *)
(*                                                                         *)
(* Data abstraction.  Neither program looks at the order of the records,   *)
(* nor at a trial key but to compare it: the file is a set of records, and *)
(* `serial` tells apart those that are otherwise equal.  A record that     *)
(* fails validation, or repeats a key, settles the verdict for good, so    *)
(* `refused` stands for it.  Fields no decision depends on are one flag.   *)
(***************************************************************************)
EXTENDS Naturals, FiniteSets

CONSTANTS
  Boots,      \* boot_id
  Conditions, \* SETTLED_NOMINAL and ELEVATED_VALID
  Outcomes,   \* the ways a trial may end
  Recorded    \* outcome -> what its record says

VARIABLES
  trials,     \* the records filed that pass validation
  refused     \* a record did not, or repeated the key of another

campaign == <<trials, refused>>

(***************************************************************************)
(* validate_observation_record, on the record o of an outcome.             *)
(***************************************************************************)

\* The device, the artefacts and the condition are the canonical ones, and the
\* clock fields agree with one another.
Canonical(o) == o.canonical /\ o.clocks

\* The attempt is spawned before it is reaped, in events of this trial.
EventsInOrder(o) == o.events = "in_order"

\* A confounder that was there, or may have been, and the trial counts.  C3
\* bars a timeout only.
Confounded(o) ==
  /\ o.validity = "VALID"
  /\ \/ o.c1 \in {"PRESENT", "UNKNOWN"}
     \/ o.c2 \in {"PRESENT", "UNKNOWN"}
     \/ o.c3 = "UNKNOWN"
     \/ o.c3 = "PRESENT" /\ o.terminal = "SUPERVISOR_OVERALL_TIMEOUT"

VoteAllowed(o) ==
  /\ o.vote = "COMPATIBLE_VOTE" =>
       /\ o.validity = "VALID" /\ o.terminal = "QUALIFYING_COMPLETION"
       /\ o.seconds <= 2195
  /\ o.vote = "INCOMPATIBLE_VOTE" =>
       /\ o.validity = "VALID" /\ o.terminal = "SUPERVISOR_OVERALL_TIMEOUT"
       /\ o.seconds >= 2200

ValidRecord(o) == Canonical(o) /\ EventsInOrder(o) /\ ~Confounded(o) /\ VoteAllowed(o)

(***************************************************************************)
(* aggregate_campaign, on a set T of records and the flag.                 *)
(***************************************************************************)
ValidTrials(T) == {t \in T : Recorded[t.outcome].validity = "VALID"}
InvalidTrials(T) == {t \in T : Recorded[t.outcome].validity = "INVALID"}
Timeouts(T) ==
  {t \in ValidTrials(T) : /\ Recorded[t.outcome].vote = "INCOMPATIBLE_VOTE"
                          /\ Recorded[t.outcome].terminal = "SUPERVISOR_OVERALL_TIMEOUT"}
Cell(T, b, c) == {t \in T : t.boot = b /\ t.condition = c}
BootsSeen(T) == {t.boot : t \in T}

\* Bug: a cap that more trials raise.
CapsExceededByShare(T) == 4 * Cardinality(InvalidTrials(T)) > Cardinality(T) + 4

\* One invalid trial in each boot, two in all.
CapsExceeded(T) ==
  \/ \E b \in Boots : Cardinality({t \in InvalidTrials(T) : t.boot = b}) > 1
  \/ Cardinality(InvalidTrials(T)) > 2

\* Three attributable timeouts under one condition, in two boots.
Falsified(T) ==
  \E c \in Conditions :
    LET late == {t \in Timeouts(T) : t.condition = c} IN
    Cardinality(late) >= 3 /\ Cardinality(BootsSeen(late)) >= 2

\* Both conditions in each of three boots, twice; twelve valid trials.
EnoughTrials(T) ==
  /\ Cardinality(BootsSeen(T)) >= 3
  /\ \A b \in BootsSeen(T), c \in Conditions : Cardinality(Cell(ValidTrials(T), b, c)) >= 2
  /\ Cardinality(ValidTrials(T)) >= 12

\* Bug: a trial that counts need not have completed, if it did not time out.
NobodyAgainst(T) == Timeouts(T) = {}

Unanimous(T) ==
  /\ Timeouts(T) = {}
  /\ \A t \in ValidTrials(T) : Recorded[t.outcome].vote = "COMPATIBLE_VOTE"

VerdictOf(T, bad) ==
  IF bad \/ CapsExceeded(T) THEN "INVALID_EXPERIMENT"
  ELSE IF Falsified(T) THEN "INCOMPATIBLE"
  ELSE IF EnoughTrials(T) /\ Unanimous(T) THEN "COMPATIBLE"
  ELSE "INCONCLUSIVE"

Verdict == VerdictOf(trials, refused)

(***************************************************************************)
(* A campaign.                                                             *)
(***************************************************************************)
CampaignInit == trials = {} /\ refused = FALSE

Alike(b, c, o) == {t \in trials : t.boot = b /\ t.condition = c /\ t.outcome = o}

\* The next trial; its serial number is the next among its likes.
File(b, c, o) ==
  IF ValidRecord(Recorded[o])
  THEN /\ trials' = trials \cup {[boot |-> b, condition |-> c, outcome |-> o,
                                  serial |-> Cardinality(Alike(b, c, o))]}
       /\ UNCHANGED refused
  ELSE refused' = TRUE /\ UNCHANGED trials

\* A record is filed a second time.
FileAgain == trials # {} /\ refused' = TRUE /\ UNCHANGED trials

CampaignNext == (\E b \in Boots, c \in Conditions, o \in Outcomes : File(b, c, o)) \/ FileAgain

CampaignSpec == CampaignInit /\ [][CampaignNext]_campaign

-----------------------------------------------------------------------------
\* Only records that passed the validator are counted.
OnlyAccepted == IsFiniteSet(trials) /\ \A t \in trials : ValidRecord(Recorded[t.outcome])

\* COMPATIBLE is earned trial by trial: in every boot that was ever seen and
\* under each condition two trials completed with five seconds to spare and no
\* C1 or C2 confounder in doubt, and no trial that counts ended otherwise: not in
\* a timeout, nor in a crash that voted neither way.
CompatibleIsEarned ==
  Verdict = "COMPATIBLE" =>
    /\ Cardinality(BootsSeen(trials)) >= 3
    /\ \A b \in BootsSeen(trials), c \in Conditions :
         \E T \in SUBSET Cell(trials, b, c) :
           /\ Cardinality(T) >= 2
           /\ \A t \in T : /\ Recorded[t.outcome].terminal = "QUALIFYING_COMPLETION"
                           /\ Recorded[t.outcome].seconds <= 2195
                           /\ {Recorded[t.outcome].c1, Recorded[t.outcome].c2}
                                \cap {"PRESENT", "UNKNOWN"} = {}
    /\ \A t \in trials : Recorded[t.outcome].validity = "VALID" =>
         Recorded[t.outcome].terminal = "QUALIFYING_COMPLETION" /\ Recorded[t.outcome].seconds <= 2195

\* What has been settled stays settled, whatever is filed later: an invalid
\* experiment cannot be rescued by more trials, nor an incompatibility voted
\* down (only more invalid trials can take it back, by spoiling it).
FatalIsFinal ==
  [][(Verdict \in {"INCOMPATIBLE", "INVALID_EXPERIMENT"})
       => Verdict' \in {Verdict, "INVALID_EXPERIMENT"}]_campaign
===============================================================================
