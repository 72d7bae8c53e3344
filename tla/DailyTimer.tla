----------------------------- MODULE DailyTimer -----------------------------
(***************************************************************************)
(* The daily timer of billing and auth (packages/shared/src/cron): a       *)
(* setTimeout loop that runs a job at a whole local hour of a time zone    *)
(* with daylight saving.                                                   *)
(*                                                                         *)
(* Time is UTC in whole hours. The zone is one hour ahead, and two from    *)
(* 01:00 UTC on SpringDay to 01:00 UTC on AutumnDay; a local date and hour *)
(* are the day and the hour of UTC plus the offset. A time within an hour  *)
(* is the hour's start: the code compares with a whole hour only.          *)
(***************************************************************************)
EXTENDS Integers

CONSTANTS Days,        \* bound: days of the clock
          SpringDay,   \* the day the clock is put forward
          AutumnDay,   \* the day it is put back
          Hours,       \* hours the timer may be started with
          MaxLate,     \* hours a timeout may be late
          MaxRun,      \* hours a job may take
          MaxCrashes,  \* bound: ends of the process
          NoTime

\* What is assumed of the constants; asserted where they get their values.
TimerAssumption ==
  /\ {Days, SpringDay, AutumnDay, MaxLate, MaxRun, MaxCrashes} \subseteq Nat /\ Days > 0
  /\ SpringDay < AutumnDay
  /\ Hours \subseteq 0..23
  /\ NoTime \notin Int

VARIABLES
  now,      \* the clock
  hour,     \* the hour of this timer
  proc,     \* "down", "waiting", "running", "stopping", "stopped" or "failed"
  upSince,  \* when the process started
  armedAt,  \* when the pending timeout was set
  at,       \* when it is due
  runFrom,  \* when the job started
  started,  \* history: jobs started for each local date
  crashes

timerVars == <<now, hour, proc, upSince, armedAt, at, runFrom, started, crashes>>

Clock == 0..(24 * Days - 1)

-----------------------------------------------------------------------------
(* Local time.                                                             *)

Offset(t) == IF 24 * SpringDay + 1 <= t /\ t < 24 * AutumnDay + 1 THEN 2 ELSE 1

\* The local wall clock read as if it were UTC (localParts and Date.UTC).
localParts(t) == t + Offset(t)

LocalDate(t) == localParts(t) \div 24
LocalHour(t) == localParts(t) % 24

\* Mutant of utcInstantForLocalWallTime: one correction fewer.
OneCorrection(date, h) ==
  LET wall == 24 * date + h
      correct(guess) == guess + (wall - localParts(guess))
      tries == {wall, correct(wall)}
      hits == {g \in tries : localParts(g) = wall}
  IN IF hits = {} THEN NoTime ELSE CHOOSE g \in hits : TRUE

\* Three guesses, each corrected by what the one before missed; the first that
\* reads back as the wanted time is the answer, and none is an error.
utcInstantForLocalWallTime(date, h) ==
  LET wall == 24 * date + h
      correct(guess) == guess + (wall - localParts(guess))
      guess1 == correct(wall)
      guess2 == correct(guess1)
  IN IF localParts(wall) = wall THEN wall
     ELSE IF localParts(guess1) = wall THEN guess1
     ELSE IF localParts(guess2) = wall THEN guess2
     ELSE NoTime

\* Mutant of nextDailyRunAt: at exactly the hour, today is still to come.
TodayAgain(from, h) ==
  utcInstantForLocalWallTime(
    IF LocalHour(from) > h THEN LocalDate(from) + 1 ELSE LocalDate(from), h)

\* Mutant of nextDailyRunAt: tomorrow is twenty-four hours after today's run.
In24Hours(from, h) ==
  LET today == utcInstantForLocalWallTime(LocalDate(from), h)
  IN IF LocalHour(from) >= h /\ today # NoTime THEN today + 24 ELSE today

nextDailyRunAt(from, h) ==
  utcInstantForLocalWallTime(
    IF LocalHour(from) >= h THEN LocalDate(from) + 1 ELSE LocalDate(from), h)

-----------------------------------------------------------------------------
TimerInit ==
  /\ now = 0
  /\ hour \in Hours
  /\ proc = "down"
  /\ upSince = 0
  /\ armedAt = 0
  /\ at = NoTime
  /\ runFrom = 0
  /\ started = [d \in 0..Days |-> 0]
  /\ crashes = 0

\* An hour that does not exist on the next date is an error: at the start it
\* ends the process, after a job it is a rejection nobody handles.
scheduleNext ==
  LET next == nextDailyRunAt(now, hour)
  IN /\ at' = next
     /\ armedAt' = now
     /\ proc' = IF next = NoTime THEN "failed" ELSE "waiting"

startDailyTimer ==
  /\ proc = "down"
  /\ upSince' = now
  /\ scheduleNext
  /\ UNCHANGED <<now, hour, runFrom, started, crashes>>

\* The timeout fires; a due time that has passed is a delay of zero.
tick ==
  /\ proc = "waiting"
  /\ at <= now
  /\ proc' = "running"
  /\ runFrom' = now
  /\ started' = [started EXCEPT ![LocalDate(at)] = @ + 1]
  /\ UNCHANGED <<now, hour, upSince, armedAt, at, crashes>>

\* Mutant of runEnds: after a job the next one is sought from a day later, so
\* as not to be today's again.
FromTomorrow ==
  /\ proc = "running"
  /\ at' = nextDailyRunAt(now + 24, hour)
  /\ armedAt' = now + 24
  /\ proc' = IF at' = NoTime THEN "failed" ELSE "waiting"
  /\ UNCHANGED <<now, hour, upSince, runFrom, started, crashes>>

\* The job returns or throws: either way the next one is scheduled.
runEnds ==
  /\ proc = "running"
  /\ scheduleNext
  /\ UNCHANGED <<now, hour, upSince, runFrom, started, crashes>>

\* stop clears the timeout; a job that is running ends without a successor.
stop ==
  /\ proc \in {"waiting", "running"}
  /\ proc' = IF proc = "waiting" THEN "stopped" ELSE "stopping"
  /\ UNCHANGED <<now, hour, upSince, armedAt, at, runFrom, started, crashes>>

stoppedRunEnds ==
  /\ proc = "stopping"
  /\ proc' = "stopped"
  /\ UNCHANGED <<now, hour, upSince, armedAt, at, runFrom, started, crashes>>

\* The process ends; a failed or stopped one is replaced as well.
processEnds ==
  /\ proc # "down"
  /\ crashes < MaxCrashes
  /\ crashes' = crashes + 1
  /\ proc' = "down"
  /\ at' = NoTime
  /\ UNCHANGED <<now, hour, upSince, armedAt, runFrom, started>>

\* An hour passes. A timeout is at most MaxLate late and a job takes at most
\* MaxRun.
hourPasses ==
  /\ now + 1 \in Clock
  /\ proc = "waiting" => now < at + MaxLate
  /\ proc = "running" => now < runFrom + MaxRun
  /\ now' = now + 1
  /\ UNCHANGED <<hour, proc, upSince, armedAt, at, runFrom, started, crashes>>

TimerNext ==
  \/ startDailyTimer \/ tick \/ runEnds \/ stop \/ stoppedRunEnds
  \/ processEnds \/ hourPasses

TimerSpec == TimerInit /\ [][TimerNext]_timerVars

-----------------------------------------------------------------------------
(* Properties.                                                             *)

\* The state has its types, and a process that waits has a due time.
TimerTypeOK ==
  /\ now \in Clock /\ hour \in Hours /\ upSince \in Clock /\ armedAt \in Clock /\ runFrom \in Clock
  /\ proc \in {"down", "waiting", "running", "stopping", "stopped", "failed"}
  /\ at \in Int \cup {NoTime}
  /\ proc \in {"waiting", "running"} => at # NoTime
  /\ started \in [0..Days -> Nat]
  /\ crashes \in 0..MaxCrashes

\* Over restarts, quick jobs and the two days with a changed clock, the job
\* starts at most once for a local date, also when its local hour comes twice.
OncePerDate == \A d \in 0..Days : started[d] <= 1

\* What nextDailyRunAt answers is the first moment from the one asked about
\* at which the zone's clock strikes the hour; only where it strikes the same
\* hour twice may one of the two be passed over.
ArmedForNext ==
  proc = "waiting" =>
    /\ LocalHour(at) = hour
    /\ armedAt <= at
    /\ \A t \in (armedAt + 1)..(at - 1) :
         LocalHour(t) = hour => localParts(t) \in {localParts(at), localParts(armedAt)}

\* The timer gives up only if the hour it was to arm for does not exist on
\* that date; three o'clock, the hour both services use, always does.
FailsOnlyInGap ==
  proc = "failed" =>
    /\ hour # 3
    /\ \A t \in armedAt..(armedAt + 48) :
         LocalHour(t) = hour =>
           \/ LocalDate(t) = LocalDate(armedAt) /\ LocalHour(armedAt) >= hour
           \/ LocalDate(t) > LocalDate(armedAt)
                + (IF LocalHour(armedAt) >= hour THEN 1 ELSE 0)

\* While one process stays up no night is passed over: once the local hour of
\* a date (the first of the two, where it comes twice) lies further back than a
\* late timeout and the job before it explain, the job of that date has started.
NoNightSkipped ==
  proc \in {"waiting", "running"} =>
    \A t \in (upSince + 1)..(now - MaxLate - MaxRun - 1) :
      LocalHour(t) = hour /\ localParts(t - 1) # localParts(t)
        => started[LocalDate(t)] > 0

\* The nightly job starts once at most for a local date and, while one process
\* stays up, passes over no night: it is armed for the next time the zone's clock
\* strikes its hour, and gives up only for an hour its date does not have
\* (shared/cron).
NightlyOnce == OncePerDate /\ NoNightSkipped /\ ArmedForNext /\ FailsOnlyInGap
=============================================================================
