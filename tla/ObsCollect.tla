------------------------------ MODULE ObsCollect ------------------------------
(***************************************************************************)
(* tools/rmg-eze4/c2_obs_01_collect.py and c3_obs_01_collect.py: a host    *)
(* process samples a tablet over adb, one `adb shell cat` for each source, *)
(* and appends one JSON line for every reading.  The two collectors share  *)
(* one loop and differ in their sources.                                   *)
(*                                                                         *)
(* Data abstraction.  Time is host monotonic time in units a configuration *)
(* chooses; the clock moves only while a reading is taken or the collector *)
(* sleeps.  A reading takes some of Delays and shows the device as it was  *)
(* at its start or at its end.  Its value is whether it shows the episode: *)
(* one freeze, suspend, thermal excursion, clamp or migration of the trial *)
(* process.  An episode may show in all, in some or in none of the sources *)
(* that can show its kind: a suspend need not move a counter, and a freeze *)
(* not show in the path that was bound at discovery.  One thermal zone and *)
(* one cpufreq policy stand for all, and a --trial-pid and --declared-cpus *)
(* were given.  suspend_fail, which no verdict uses, is left out.          *)
(***************************************************************************)
EXTENDS Naturals, Sequences, FiniteSets

CONSTANTS
  Interval,    \* --interval-ms
  Duration,    \* --duration-seconds
  Delays,      \* how long a reading may take; 0 is the normal case
  Episodes,    \* what may happen to the device: [kind, from, to, seenBy]
  MaxTrouble,  \* bound on slow or failed readings and sources not found
  None

ASSUME TimeAssumption ==
  /\ Interval \in Nat \ {0} /\ Duration \in Nat \ {0}
  /\ 0 \in Delays /\ Delays \subseteq Nat
  /\ MaxTrouble \in Nat
  /\ \A e \in Episodes : e.from \in Nat /\ e.to \in Nat

Counters == {"suspend_success", "wakeup_count"}

\* The kinds of episode that a source can show.
Senses == [suspend_success |-> {"suspend"}, wakeup_count |-> {"suspend", "wakeup"},
           cgroup |-> {"freeze"}, temperature |-> {"excursion"},
           effective_freq |-> {}, max_freq |-> {"clamp"}, trial_cpu |-> {"stray"}]

ASSUME EpisodeAssumption ==
  \A e \in Episodes : e.seenBy \subseteq {s \in DOMAIN Senses : e.kind \in Senses[s]}

VARIABLES
  tool,      \* which collector runs: "c2" or "c3"
  episode,   \* what happens to the device in this trial
  taken,     \* the output path existed before
  ident,     \* the device and the boot are the canonical ones
  found,     \* source -> its status at discovery
  now,       \* host monotonic time
  pc,
  deadline,  \* when the loop stops
  due,       \* next_tick
  todo,      \* the sources this cycle has still to read: places in SourcesOf
  file,      \* the lines written
  trouble    \* slow or failed readings so far

setup == <<tool, episode, taken>>
vars == <<setup, ident, found, now, pc, deadline, due, todo, file, trouble>>

Running == {"discover", "open", "cycle", "sample"}
Ended   == {"done", "failed", "killed"}

\* The order in which each loop reads its sources.
SourcesOf == [c2 |-> <<"wakeup_count", "suspend_success", "cgroup">>,
              c3 |-> <<"temperature", "effective_freq", "max_freq", "trial_cpu">>]
Sources == {SourcesOf[tool][i] : i \in DOMAIN SourcesOf[tool]}

\* The trip points of a zone are read at discovery and never again.
Discovered == Sources \cup (IF tool = "c3" THEN {"trip_points"} ELSE {})

KindsOf == [c2 |-> {"none", "suspend", "wakeup", "freeze"},
            c3 |-> {"none", "excursion", "clamp", "stray"}]

\* Whether the source shows the episode at time t; a counter never goes back.
Shows(source, t) ==
  /\ source \in episode.seenBy
  /\ episode.from <= t
  /\ source \in Counters \/ t < episode.to

\* classify_read: a failure adb reports is a status, not an exception.
Statuses == {"AVAILABLE", "UNAVAILABLE", "AMBIGUOUS"}

Init ==
  /\ tool \in DOMAIN SourcesOf
  /\ episode \in {e \in Episodes : e.kind \in KindsOf[tool]}
  /\ taken \in BOOLEAN
  /\ ident = FALSE
  /\ found = [s \in Discovered |-> "MISSING"]
  /\ now = 0 /\ deadline = 0 /\ due = 0
  /\ pc = "discover"
  /\ todo = {} /\ file = <<>>
  /\ trouble = 0

Trouble(d, status) == (IF d = 0 THEN 0 ELSE 1) + (IF status = "AVAILABLE" THEN 0 ELSE 1)

\* AdbReader.read_path: it takes d and shows the device at some time of it.
Reading(d, status, shown) ==
  /\ d \in Delays /\ status \in Statuses /\ shown \in {now, now + d}
  /\ trouble + Trouble(d, status) <= MaxTrouble
  /\ trouble' = trouble + Trouble(d, status)
  /\ now' = now + d

Emit(record) == file' = Append(file, [record EXCEPT !.sequence = Len(file)])

\* base_record: `at` is the time stamp, `took` the duration of the reading.
Record(source, measurement, at, took, status, value) ==
  [sequence |-> 0, source |-> source, measurement |-> measurement, at |-> at,
   took |-> took, status |-> status, value |-> value]

RawRead(source, d, status, shown) ==
  Record(source, "raw_read", now + d, d, status,
         IF status = "AVAILABLE" THEN Shows(source, shown) ELSE None)

(***************************************************************************)
(* Steps with plausible bugs, which no specification uses.                 *)
(***************************************************************************)

\* The tick that was missed is not made up for: a burst follows.
TickAtOnce ==
  /\ pc = "sample" /\ todo = {}
  /\ now' = now
  /\ due' = due + Interval
  /\ pc' = "cycle"
  /\ UNCHANGED <<setup, ident, found, deadline, todo, file, trouble>>

\* The collector goes on sampling until a tick falls on the deadline.
FinishOnTime ==
  /\ pc = "cycle" /\ now = deadline
  /\ pc' = "done"
  /\ UNCHANGED <<setup, ident, found, now, deadline, due, todo, file, trouble>>

(***************************************************************************)
(* The collector.                                                          *)
(***************************************************************************)

\* collect, up to opening the output: get-state, discover_sources and
\* read_metadata.  A source that is not readable is kept with its status.
Discover ==
  /\ pc = "discover"
  /\ \E f \in [Discovered -> {"AVAILABLE", "DENIED", "MISSING"}], i \in BOOLEAN :
       LET lost == Cardinality({s \in Discovered : f[s] # "AVAILABLE"}) + (IF i THEN 0 ELSE 1) IN
       /\ lost <= MaxTrouble
       /\ trouble' = lost
       /\ found' = f /\ ident' = i
  /\ pc' = "open"
  /\ UNCHANGED <<setup, now, deadline, due, todo, file>>

\* open(output, "x"), the metadata record, and the start of the schedule.
OpenOutput ==
  /\ pc = "open"
  /\ IF taken
     THEN pc' = "failed" /\ UNCHANGED <<file, deadline, due>>
     ELSE /\ pc' = "cycle"
          /\ Emit(Record("collector", "metadata", now, 0, "AVAILABLE",
                         [found |-> found, ident |-> ident,
                          clamped |-> tool = "c3" /\ Shows("max_freq", now)]))
          /\ deadline' = now + Duration
          /\ due' = now
  /\ UNCHANGED <<setup, ident, found, now, todo, trouble>>

\* _sample_sources: what discovery could read.
Sampled == {i \in DOMAIN SourcesOf[tool] : found[SourcesOf[tool][i]] = "AVAILABLE"}

\* The heartbeat: /proc/uptime, stamped with the time at which it was asked.
Heartbeat ==
  /\ pc = "cycle" /\ now < deadline
  /\ \E d \in Delays, status \in Statuses : \E shown \in {now, now + d} :
       /\ Reading(d, status, shown)
       /\ Emit(Record("collector", "heartbeat", now, d, status,
                      IF status = "AVAILABLE" THEN shown ELSE None))
  /\ todo' = Sampled
  /\ pc' = "sample"
  /\ UNCHANGED <<setup, ident, found, deadline, due>>

\* One raw reading, of the next source of the loop, stamped when it is over.
Sample ==
  /\ pc = "sample"
  /\ \E next \in todo :
       /\ \A i \in todo : next <= i
       /\ \E d \in Delays, status \in Statuses : \E shown \in {now, now + d} :
            /\ Reading(d, status, shown)
            /\ Emit(RawRead(SourcesOf[tool][next], d, status, shown))
       /\ todo' = todo \ {next}
  /\ UNCHANGED <<setup, ident, found, pc, deadline, due>>

\* The end of a cycle: sleep until the next tick, or not at all when late.
Tick ==
  /\ pc = "sample" /\ todo = {}
  /\ due' = due + Interval
  /\ now' = IF now < due' THEN due' ELSE now
  /\ pc' = "cycle"
  /\ UNCHANGED <<setup, ident, found, deadline, todo, file, trouble>>

Finish ==
  /\ pc = "cycle" /\ now >= deadline
  /\ Emit(Record("collector", "end", now, 0, "AVAILABLE", None))
  /\ pc' = "done"
  /\ UNCHANGED <<setup, ident, found, now, deadline, due, todo, trouble>>

\* An adb command that hangs (subprocess.TimeoutExpired) or cannot be run: an
\* exception that main turns into exit status 2.  The file stays as it is.
Disconnect ==
  /\ pc = "discover" \/ (pc = "cycle" /\ now < deadline) \/ (pc = "sample" /\ todo # {})
  /\ pc' = "failed"
  /\ UNCHANGED <<setup, ident, found, now, deadline, due, todo, file, trouble>>

\* The collector is killed between two writes, or in the metadata record, the
\* only one that does not fit the buffer of the file.
Kill ==
  /\ pc \in Running
  /\ pc' = "killed"
  /\ \/ file' = file
     \/ /\ pc = "open" /\ ~taken
        /\ Emit(Record("collector", "torn", now, 0, "AVAILABLE", None))
  /\ UNCHANGED <<setup, ident, found, now, deadline, due, todo, trouble>>

Collect == Discover \/ OpenOutput \/ Heartbeat \/ Sample \/ Tick \/ Finish

Next == Collect \/ Disconnect \/ Kill

Spec == Init /\ [][Next]_vars

\* Every adb command returns or is given up after its timeout (AdbReader.run,
\* 5 s), and a sleep ends: a collector that is not killed keeps going.
FairSpec == Spec /\ WF_vars(Collect)
===============================================================================
