------------------------------- MODULE ObsTrial -------------------------------
(***************************************************************************)
(* A trial watched by the C2 or the C3 collector and judged by its         *)
(* analyzer.  The analyzer may be given the file at any time: every        *)
(* property of a verdict is about every file the collector can leave, be   *)
(* it finished, given up, killed or still running.                         *)
(***************************************************************************)
EXTENDS ObsCollect, ObsAnalyze

Class == IF tool = "c2" THEN C2Status(file) ELSE C3Class(file)

Beats == Heartbeats(file)

-----------------------------------------------------------------------------
\* The sources that show the episode and that "absent" answers for.  Of the two
\* power counters only one has to be read in full: an episode that shows in the other
\* alone is denied.  So is an excursion whose trip points discovery could not read, a
\* clamp of a limit that it could not read, and one of a limit that was low already.
AnsweredFor ==
  {s \in episode.seenBy :
     /\ s \in Counters => found[s] = "AVAILABLE" /\ ~Incomplete(file, s)
     /\ s = "temperature" => found["trip_points"] = "AVAILABLE"
     /\ s = "max_freq" => found["max_freq"] = "AVAILABLE" /\ episode.from > 0}

\* "Absent" is an answer about the whole interval: whatever was slow, failed, was given
\* up or killed, the analyzers never say it of a file whose second and last heartbeats
\* a suspend or a wakeup falls between that a counter in AnsweredFor shows, nor of one
\* whose heartbeats enclose a freeze, excursion, clamp or stray of two gaps that such
\* a source shows.  (A shorter one may fall between two readings of its source.)  Of
\* an episode that shows in no source, or in none of those, it says nothing: "stability
\* alone cannot prove that no transition occurred" (C2_OBS_01_DESIGN.md:94-95).
AbsenceIsCovered ==
  Class = "ABSENT" =>
    /\ Cardinality(Beats) >= 2
    /\ \A s \in AnsweredFor, i, j \in Beats :
         IF s \in Counters
         THEN (\E h \in Beats : h < i)
                => ~(file[i].at < episode.from /\ episode.from <= file[j].at)
         ELSE ~(/\ file[i].at <= episode.from
                /\ episode.to <= file[j].at
                /\ episode.to - episode.from >= 2 * MaxGap)

\* c3_obs_01_analyze.py:4-6: the analyzer "never turns a missing or malformed signal
\* into evidence that C3 was absent".  With "absent", then, discovery could read every
\* signal that a presence would have shown in.
MissingIsNotAbsence ==
  tool = "c3" /\ Class = "ABSENT" => \A s \in Discovered : found[s] = "AVAILABLE"

\* "Present" is never made up: there was an episode by now, or, for C2, a
\* heartbeat took longer than the gap, which passes for a jump of the boot
\* time.  For C3 it also needs the canonical device and no blind interval.
PresenceIsReal ==
  Class = "PRESENT" =>
    /\ \/ episode.kind # "none" /\ episode.from <= now
       \/ tool = "c2" /\ \E i \in Beats : file[i].took > MaxGap
    /\ tool = "c3" =>
         /\ ident /\ C3Status(file) # "BLOCKED"
         /\ \A i, j \in Beats : Adjacent(Beats, i, j) => file[j].at - file[i].at <= MaxGap
         /\ \A i \in DOMAIN file : file[i].status = "AVAILABLE"

\* The ticks missed while a reading was slow are made up for without a pause,
\* but the collector never runs ahead: by time t it has taken no more
\* heartbeats than the schedule has ticks.
NeverAheadOfSchedule ==
  \A i \in Beats : file[i].at >= file[1].at + Cardinality({j \in Beats : j < i}) * Interval

\* A collector that is not killed ends: adb calls time out and a late cycle
\* does not move the deadline.
CollectorEnds == <>(pc \in Ended)
===============================================================================
