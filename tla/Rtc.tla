-------------------------------- MODULE Rtc --------------------------------
(***************************************************************************)
(* The clock of src/src/rtc.c: Timer0 counts down from its reload value    *)
(* and starts again there, rtc_get_seconds divides what it has counted by  *)
(* the clock frequency.  Time is in units of a fixed number of cycles;     *)
(* `elapsed' is a history variable, the units since rtc_init.  `seen'      *)
(* is the last hh:mm:ss of the `time' command and `seenAt' its instant.    *)
(***************************************************************************)
EXTENDS Naturals

CONSTANTS Reload,     \* 0xFFFFFFFF, in units
          Hz,         \* 50000000, in units
          MaxElapsed  \* the bound on elapsed

ASSUME ClockAssumption ==
    Reload \in Nat \ {0} /\ Hz \in Nat \ {0} /\ MaxElapsed \in Nat

VARIABLES tav, elapsed, seen, seenAt

clockVars == <<tav, elapsed, seen, seenAt>>

rtc_get_seconds == (Reload - tav) \div Hz

\* The fields of rtc_get_time that the `time' command prints.
rtc_get_time(t) ==
    [tm_sec |-> t % 60, tm_min |-> (t \div 60) % 60, tm_hour |-> ((t \div 60) \div 60) % 24]

\* rtc_init: the timer starts at its reload value.
ClockInit == tav = Reload /\ elapsed = 0 /\ seen = rtc_get_time(0) /\ seenAt = 0

\* The timer: periodic mode, counting down.
TimerCounts ==
    /\ elapsed < MaxElapsed
    /\ tav' = IF tav = 0 THEN Reload ELSE tav - 1
    /\ elapsed' = elapsed + 1
    /\ UNCHANGED <<seen, seenAt>>

\* The `time' command of main.
TimeCommand ==
    /\ seen' = rtc_get_time(rtc_get_seconds)
    /\ seenAt' = elapsed
    /\ UNCHANGED <<tav, elapsed>>

ClockNext == TimerCounts \/ TimeCommand

ClockSpec == ClockInit /\ [][ClockNext]_clockVars
-----------------------------------------------------------------------------
\* The ranges of the counter and of the fields of struct rtc_time.
ClockTypeOK ==
    /\ tav \in 0..Reload /\ elapsed \in 0..MaxElapsed /\ seenAt \in 0..elapsed
    /\ seen \in [tm_sec : 0..59, tm_min : 0..59, tm_hour : 0..23]

SecondsShown(s) == (s.tm_hour * 60 + s.tm_min) * 60 + s.tm_sec

(* What `time' shows is the time since the start of the timer's lap, to    *)
(* the second, as long as a lap is shorter than a day.                     *)
ShownExactInLap ==
    SecondsShown(seen) = ((seenAt % (Reload + 1)) \div Hz) % 86400

(* The comment on rtc_init: the timer is there "untuk menghitung detik     *)
(* sejak boot", to count the seconds since boot.                           *)
CountsSinceBoot == rtc_get_seconds = elapsed \div Hz
=============================================================================
