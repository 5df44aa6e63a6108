-------------------------- MODULE MCCampaignVerdict --------------------------
(* A small instance of CampaignVerdict for TLC. *)
EXTENDS CampaignVerdict, TLC

CONSTANTS b1, b2, b3, nominal, elevated

MCBoots == {b1, b2, b3}
MCConditions == {nominal, elevated}
MCSymmetry == Permutations(MCBoots) \cup Permutations(MCConditions)

Completion ==
  [canonical |-> TRUE, clocks |-> TRUE, events |-> "in_order",
   terminal |-> "QUALIFYING_COMPLETION", validity |-> "VALID",
   vote |-> "COMPATIBLE_VOTE", seconds |-> 2195,
   c1 |-> "ABSENT", c2 |-> "ABSENT", c3 |-> "PRESENT"]
Timeout ==
  [Completion EXCEPT !.terminal = "SUPERVISOR_OVERALL_TIMEOUT",
     !.vote = "INCOMPATIBLE_VOTE", !.seconds = 2200, !.c3 = "ABSENT"]
Crash == [Completion EXCEPT !.terminal = "CHILD_SIGNAL_FAILURE", !.vote = "NO_VOTE"]
Spoilt == [Timeout EXCEPT !.validity = "INVALID", !.vote = "NO_VOTE", !.c2 = "PRESENT"]
Doubtful == [Spoilt EXCEPT !.validity = "INCONCLUSIVE", !.c2 = "UNKNOWN"]

\* Five outcomes the validator accepts, and four it refuses by a hair.
MCRecorded ==
  [completion |-> Completion, timeout |-> Timeout, crash |-> Crash,
   spoilt |-> Spoilt, doubtful |-> Doubtful,
   late |-> [Completion EXCEPT !.seconds = 2196],
   early |-> [Timeout EXCEPT !.seconds = 2199],
   unsure |-> [Completion EXCEPT !.c2 = "UNKNOWN"],
   hot |-> [Timeout EXCEPT !.c3 = "PRESENT"]]
MCOutcomes == DOMAIN MCRecorded

\* Bounds: two completions in a cell; three other records in all, one of them
\* a crash or a doubtful one; a record is refused in a campaign with none of
\* these, and nothing follows it.
MaxOther == 3
MayFile(b, c, o, others) ==
  \/ o = "completion" /\ Cardinality({t \in Cell(trials, b, c) : t.outcome = o}) < 2
  \/ o \in {"timeout", "spoilt"} /\ Cardinality(others) < MaxOther
  \/ /\ o \in {"crash", "doubtful"} /\ Cardinality(others) < MaxOther
     /\ \A t \in others : t.outcome \notin {"crash", "doubtful"}
  \/ ~ValidRecord(Recorded[o]) /\ others = {}

MCNext ==
  LET others == {t \in trials : t.outcome # "completion"} IN
  /\ ~refused
  /\ \/ \E b \in Boots, c \in Conditions, o \in Outcomes :
          MayFile(b, c, o, others) /\ File(b, c, o)
     \/ others = {} /\ FileAgain

MCSpec == CampaignInit /\ [][MCNext]_campaign
===============================================================================
