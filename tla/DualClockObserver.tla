--------------------------- MODULE DualClockObserver ---------------------------
(***************************************************************************)
(* tools/rmg-eze4/c2_dual_clock_observer.c on a device that suspends, with *)
(* a trial process that may exit, stay a zombie until it is reaped, be     *)
(* replaced by another one with the same PID, move to another cgroup, and  *)
(* whose cgroup may be frozen.  A reboot ends the observer: the boot_id it *)
(* reads is one and the same, if it can be read.                           *)
(*                                                                         *)
(* Time passes in the observer's own steps: between two clock readings and *)
(* in its sleep.  A suspend lets BOOTTIME run ahead of MONOTONIC.          *)
(***************************************************************************)
EXTENDS DualClockAnalyze

CONSTANTS
  Interval, Duration,  \* --interval-ms, --duration-ms
  Offset0,             \* BOOTTIME minus MONOTONIC when the observer starts
  Delays,              \* how long the scheduler may hold up a reading
  Suspends,            \* how long a suspend may last
  MaxJolts,            \* bound on how often either happens
  Cgroups,             \* the cgroups the trial process may be in
  MaxEvents            \* bound on what happens to the process and its cgroup,
                       \* and on the readings of boot_id that fail

ASSUME TimeAssumption ==
  /\ {Interval, Duration, Offset0, MaxJolts, MaxEvents} \subseteq Nat
  /\ Delays \subseteq Nat /\ Suspends \subseteq Nat

VARIABLES
  mono, boot, jolts,         \* the clocks
  holder,                    \* of the trial PID: "nobody", a "process", a "zombie"
  started,                   \* start time of the latest holder, in clock ticks
  gone,                      \* number of records when the bound process was reaped
  twin,                      \* its PID went to a process started in the same tick
  where,                     \* its cgroup
  frozen,                    \* the frozen cgroups
  events,
  opc, phase,                \* the observer's next step; the record it prepares
  first,                     \* MONOTONIC before the BOOTTIME reading
  now, previous, start,      \* clock_sample
  bind,                      \* cgroup_binding
  cg,                        \* status and values of the last read_cgroup
  out, closed,               \* the records emitted; the file closed
  truth                      \* BOOTTIME ahead of MONOTONIC at the first and latest BOOTTIME reading

clockVars  == <<mono, boot, jolts>>
deviceVars == <<holder, started, gone, twin, where, frozen, events>>
sampleVars == <<first, now, previous, start, truth>>
fileVars   == <<out, closed>>
observerVars == <<clockVars, deviceVars, opc, phase, sampleVars, bind, cg, fileVars>>

NoSample == [mono |-> 0, boot |-> 0, span |-> 0]
Unread(status) == [status |-> status, frozen |-> Null, populated |-> Null]

InitObserver ==
  /\ mono = 0 /\ boot = Offset0 /\ jolts = 0
  /\ holder \in {"nobody", "process", "zombie"} /\ started = 1 /\ gone = Null /\ twin = FALSE
  /\ where \in Cgroups /\ frozen \in SUBSET Cgroups /\ events = 0
  /\ opc = "before" /\ phase = "metadata"
  /\ first = 0 /\ now = NoSample /\ previous = NoSample /\ start = NoSample
  /\ bind = [status |-> "AVAILABLE", path |-> Null, starttime |-> 0]
  /\ cg = Unread("AVAILABLE")
  /\ out = <<>> /\ closed = FALSE
  /\ truth = [from |-> Offset0, to |-> Offset0]

(***************************************************************************)
(* The clocks.                                                             *)
(***************************************************************************)

\* The next `least` ticks pass, or more, or the device also suspends.
Pass(least) ==
  \/ /\ mono' = mono + least /\ boot' = boot + least
     /\ UNCHANGED jolts
  \/ /\ jolts < MaxJolts
     /\ jolts' = jolts + 1
     /\ \/ \E d \in Delays : mono' = mono + least + d /\ boot' = boot + least + d
        \/ \E s \in Suspends : mono' = mono + least /\ boot' = boot + least + s

\* read_clock_sample: MONOTONIC, BOOTTIME, MONOTONIC.
ReadBefore ==
  /\ opc = "before"
  /\ first' = mono
  /\ opc' = "boottime"
  /\ UNCHANGED <<clockVars, deviceVars, phase, now, previous, start, truth, bind, cg, fileVars>>

ReadBoottime ==
  /\ opc = "boottime"
  /\ Pass(0)
  /\ now' = [now EXCEPT !.boot = boot']
  /\ truth' = [from |-> IF phase = "metadata" THEN boot' - mono' ELSE truth.from, to |-> boot' - mono']
  /\ opc' = "after"
  /\ UNCHANGED <<deviceVars, phase, first, previous, start, bind, cg, fileVars>>

\* The pair's MONOTONIC time is the middle of the two readings around it.
ReadAfter ==
  LET here == [now EXCEPT !.mono = first + (mono' - first) \div 2, !.span = mono' - first] IN
  /\ opc = "after"
  /\ Pass(0)
  /\ now' = here
  /\ IF phase = "metadata"
     THEN start' = here /\ opc' = "bindpath"
     ELSE UNCHANGED start /\ opc' = IF bind.status = "AVAILABLE" THEN "starttime" ELSE "emit"
  /\ UNCHANGED <<deviceVars, phase, first, previous, truth, bind, cg, fileVars>>

(***************************************************************************)
(* The cgroup of the trial process.                                        *)
(***************************************************************************)

Unbound(status) ==
  bind' = [bind EXCEPT !.status = status] /\ opc' = "emit" /\ cg' = Unread(status)

\* bind_cgroup: the path and its cgroup.events first, the start time after it.
BindPath ==
  /\ opc = "bindpath"
  /\ \/ /\ holder # "nobody"
        /\ bind' = [bind EXCEPT !.path = where] /\ opc' = "bindstart" /\ UNCHANGED cg
     \/ Unbound(IF holder = "nobody" THEN "UNAVAILABLE" ELSE "PERMISSION_DENIED")
  /\ UNCHANGED <<clockVars, deviceVars, phase, sampleVars, fileVars>>

BindStarttime ==
  /\ opc = "bindstart"
  /\ IF holder = "nobody"
     THEN Unbound("UNAVAILABLE")
     ELSE bind' = [bind EXCEPT !.starttime = started] /\ opc' = "starttime" /\ UNCHANGED cg
  /\ UNCHANGED <<clockVars, deviceVars, phase, sampleVars, fileVars>>

\* Bug: a binding, once made, is not validated again.
ReadStarttimeNever ==
  /\ opc = "starttime"
  /\ opc' = "events"
  /\ UNCHANGED <<clockVars, deviceVars, phase, sampleVars, bind, cg, fileVars>>

\* validate_binding: the process still has its start time, then its path.  Both
\* can be read of a zombie, too.
ReadStarttime ==
  /\ opc = "starttime"
  /\ \/ /\ holder # "nobody" /\ started = bind.starttime
        /\ opc' = "path" /\ UNCHANGED cg
     \/ /\ holder = "nobody" \/ started # bind.starttime
        /\ cg' = Unread(IF holder = "nobody" THEN "PID_EXITED" ELSE "PID_REUSED")
        /\ opc' = "emit"
  /\ UNCHANGED <<clockVars, deviceVars, phase, sampleVars, bind, fileVars>>

ReadPath ==
  /\ opc = "path"
  /\ \/ /\ holder # "nobody" /\ where = bind.path
        /\ opc' = "events" /\ UNCHANGED cg
     \/ /\ holder = "nobody" \/ where # bind.path
        /\ cg' = Unread(IF holder = "nobody" THEN "UNAVAILABLE" ELSE "CGROUP_DRIFT")
        /\ opc' = "emit"
  /\ UNCHANGED <<clockVars, deviceVars, phase, sampleVars, bind, fileVars>>

\* read_cgroup, after the validation: cgroup.events of the bound path, which
\* other processes may populate, too.  A zombie does not.
ReadEvents ==
  /\ opc = "events"
  /\ \E others \in BOOLEAN :
     cg' = [status |-> "AVAILABLE",
            frozen |-> IF bind.path \in frozen THEN 1 ELSE 0,
            populated |-> IF (holder = "process" /\ where = bind.path) \/ others THEN 1 ELSE 0]
  /\ opc' = "emit"
  /\ UNCHANGED <<clockVars, deviceVars, phase, sampleVars, bind, fileVars>>

(***************************************************************************)
(* The records.                                                            *)
(***************************************************************************)

\* Bug: the delta is reckoned from an offset of zero.
AbsoluteDelta == IF Offset(now) >= 0 THEN Offset(now) ELSE Null

\* suspend_delta_ns is left out when an offset is negative.
Delta == IF Offset(now) >= 0 /\ Offset(start) >= 0 THEN Offset(now) - Offset(start) ELSE Null

\* The boot_id of a record.  One that is read is compared with the first, which
\* is empty if that was not read.
BootId(read) ==
  IF ~read THEN "UNAVAILABLE"
  ELSE IF phase = "metadata" \/ out[1].bootId = "AVAILABLE" THEN "AVAILABLE"
  ELSE "MISMATCH"

Record(read) ==
  [kind |-> phase, mono |-> now.mono, boot |-> now.boot, span |-> now.span,
   delta |-> Delta, bound |-> bind.status,
   status |-> cg.status, frozen |-> cg.frozen, populated |-> cg.populated,
   bootId |-> BootId(read)]

\* The loop ends with the first sample past the duration, in BOOTTIME.
Emit ==
  /\ opc = "emit"
  /\ \/ out' = Append(out, Record(TRUE)) /\ UNCHANGED events
     \/ out' = Append(out, Record(FALSE)) /\ events < MaxEvents /\ events' = events + 1
  /\ \/ /\ phase = "metadata"
        /\ phase' = "sample" /\ opc' = "sleep" /\ previous' = start
     \/ /\ phase = "sample"
        /\ previous' = now
        /\ IF now.boot - start.boot >= Duration
           THEN phase' = "end" /\ opc' = "before"
           ELSE UNCHANGED phase /\ opc' = "sleep"
     \/ /\ phase = "end"
        /\ opc' = "close" /\ UNCHANGED <<phase, previous>>
  /\ UNCHANGED <<clockVars, holder, started, gone, twin, where, frozen,
                 first, now, start, truth, bind, cg, closed>>

Sleep ==
  /\ opc = "sleep"
  /\ Pass(Interval)
  /\ opc' = "before"
  /\ UNCHANGED <<deviceVars, phase, sampleVars, bind, cg, fileVars>>

Close ==
  /\ opc = "close"
  /\ closed' = TRUE
  /\ opc' = "done"
  /\ UNCHANGED <<clockVars, deviceVars, phase, sampleVars, bind, cg, out>>

\* A reading, the sleep or the output fails, or the observer is killed.
Fail ==
  /\ opc \notin {"done", "failed"}
  /\ opc' = "failed"
  /\ UNCHANGED <<clockVars, deviceVars, phase, sampleVars, bind, cg, fileVars>>

Observe ==
  \/ ReadBefore \/ ReadBoottime \/ ReadAfter \/ BindPath \/ BindStarttime \/ ReadStarttime
  \/ ReadPath \/ ReadEvents \/ Emit \/ Sleep \/ Close \/ Fail

(***************************************************************************)
(* The rest of the device.                                                 *)
(***************************************************************************)
Happens == events < MaxEvents /\ events' = events + 1
ObserverUnchanged == UNCHANGED <<clockVars, opc, phase, sampleVars, bind, cg, fileVars>>

FreezeOrThaw ==
  /\ Happens
  /\ \E c \in Cgroups : frozen' = IF c \in frozen THEN frozen \ {c} ELSE frozen \cup {c}
  /\ UNCHANGED <<holder, started, gone, twin, where>> /\ ObserverUnchanged

\* The process ends; until its parent has waited for it, it is a zombie.
Exits ==
  /\ Happens
  /\ holder = "process" /\ holder' = "zombie"
  /\ UNCHANGED <<started, gone, twin, where, frozen>> /\ ObserverUnchanged

Reaped ==
  /\ holder = "zombie" /\ holder' = "nobody"
  /\ gone' = IF gone = Null /\ bind.starttime = started THEN Len(out) ELSE gone
  /\ UNCHANGED <<started, twin, where, frozen, events>> /\ ObserverUnchanged

\* The PID is given to a new process, in some cgroup, in the same clock tick as
\* the one before or in a later one.
Reused ==
  /\ Happens
  /\ holder = "nobody" /\ holder' = "process"
  /\ started' \in {started, started + 1}
  /\ twin' = (twin \/ (gone # Null /\ started' = bind.starttime))
  /\ where' \in Cgroups
  /\ UNCHANGED <<gone, frozen>> /\ ObserverUnchanged

Moves ==
  /\ Happens
  /\ holder = "process" /\ where' \in Cgroups \ {where}
  /\ UNCHANGED <<holder, started, gone, twin, frozen>> /\ ObserverUnchanged

Device == FreezeOrThaw \/ Exits \/ Reaped \/ Reused \/ Moves
===============================================================================
