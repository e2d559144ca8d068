------------------------------ MODULE Timeouts ------------------------------
(***************************************************************************)
(* The timers of lwIP (src/src/lwip/core/timeouts.c) under NO_SYS: one     *)
(* list sorted by due time, taken from by sys_check_timeouts in lwip_poll, *)
(* with cyclic timers that put themselves back and a TCP timer that exists *)
(* while there are TCP pcbs.  Time is a counter of Clock values (2^32 in   *)
(* the code) that SysTick advances at any moment, also inside a handler,   *)
(* by its 10 ms, the unit here.                                            *)
(***************************************************************************)
EXTENDS Naturals, Sequences, SequencesExt

CONSTANTS Clock,     \* number of values of sys_now()
          Cyclic,    \* the entries of lwip_cyclic_timers after tcp_tmr
          Interval,  \* their interval_ms, and that of Tcp
          Tcp,       \* tcpip_tcp_timer
          NumSysTimeout, \* MEMP_NUM_SYS_TIMEOUT
          MaxLag     \* how late a timer's handler may be over

Timers == Cyclic \cup {Tcp}
Half == Clock \div 2

(* The superloop comes round, and handlers end, within MaxLag; with the    *)
(* longest interval that stays clear of half the clock, 24 days in the     *)
(* code.  The pool has the size lwIP's init.c demands.                     *)
ASSUME TimerAssumption ==
    /\ Clock \in Nat /\ MaxLag \in Nat \ {0} /\ Tcp \notin Cyclic
    /\ Interval \in [Timers -> Nat \ {0}]
    /\ \A t \in Timers : Interval[t] + 2 * MaxLag < Half

None == "none"

VARIABLES now,     \* sys_now()
          list,    \* next_timeout and its successors
          start,   \* `now' of sys_check_timeouts
          due,     \* current_timeout_due_time
          cur,     \* the timer whose handler runs
          checking,\* sys_check_timeouts is running
          active,  \* tcpip_tcp_timer_active
          pcbs     \* tcp_active_pcbs || tcp_tw_pcbs

timeoutVars == <<now, list, start, due, cur, checking, active, pcbs>>

TIME_LESS_THAN(t, u) == (Clock + t - u) % Clock >= Half

\* Mutant: the times are compared as plain unsigned numbers.
PutUnsigned(l, e) ==
    LET before == {k \in 0..Len(l) : \A j \in 1..k : l[j].time <= e.time}
        k == CHOOSE k \in before : \A j \in before : j <= k
    IN  InsertAt(l, k + 1, e)

\* sys_timeout_abs's search: before the first entry that is due later.
Put(l, e) ==
    LET before == {k \in 0..Len(l) : \A j \in 1..k : ~TIME_LESS_THAN(e.time, l[j].time)}
        k == CHOOSE k \in before : \A j \in before : j <= k
    IN  InsertAt(l, k + 1, e)

\* memp_malloc fails when the pool is empty, and the timer is not put back.
sys_timeout_abs(l, time, t) ==
    IF Len(l) < NumSysTimeout THEN Put(l, [time |-> time % Clock, timer |-> t]) ELSE l

sys_timeout(l, t) == sys_timeout_abs(l, now + Interval[t], t)

\* sys_timeouts_init puts the timers in one after the other.
TimeoutsInit ==
    /\ now = 0 /\ start = 0 /\ due = 0 /\ cur = None /\ checking = FALSE
    /\ active = FALSE /\ pcbs = FALSE
    /\ list = FoldSet(LAMBDA t, l : sys_timeout(l, t), << >>, Cyclic)

Lag(t) == (Clock + now - t) % Clock

\* SysTick, as long as no timer is MaxLag behind, waiting or in its handler.
Tick ==
    /\ list # << >> => TIME_LESS_THAN(now, Head(list).time) \/ Lag(Head(list).time) < MaxLag
    /\ cur # None => Lag(due) < MaxLag
    /\ now' = (now + 1) % Clock
    /\ UNCHANGED <<list, start, due, cur, checking, active, pcbs>>

\* The main loop calls sys_check_timeouts.
CheckBegin ==
    /\ ~checking /\ checking' = TRUE
    /\ start' = now
    /\ UNCHANGED <<now, list, due, cur, active, pcbs>>

\* Due at the time the call began: later ones wait for the next call.
Due == list # << >> /\ ~TIME_LESS_THAN(start, Head(list).time)

\* The head is taken off the list and its handler called.
Fire ==
    /\ checking /\ cur = None /\ Due
    /\ list' = Tail(list)
    /\ due' = Head(list).time /\ cur' = Head(list).timer
    /\ UNCHANGED <<now, start, checking, active, pcbs>>

CheckEnd ==
    /\ checking /\ cur = None /\ ~Due
    /\ checking' = FALSE
    /\ UNCHANGED <<now, list, start, due, cur, active, pcbs>>

\* The next due time of a cyclic timer, without correction when it is late.
NextDue(t) == IF TIME_LESS_THAN((due + Interval[t]) % Clock, now)
                THEN now + Interval[t] ELSE due + Interval[t]


\* lwip_cyclic_timer, after the handler.
CyclicEnd ==
    /\ cur \in Cyclic
    /\ list' = sys_timeout_abs(list, NextDue(cur), cur)
    /\ cur' = None
    /\ UNCHANGED <<now, start, due, checking, active, pcbs>>

\* tcpip_tcp_timer, after tcp_tmr.
TcpEnd ==
    /\ cur = Tcp
    /\ IF pcbs THEN list' = sys_timeout(list, Tcp) /\ UNCHANGED active
               ELSE active' = FALSE /\ UNCHANGED list
    /\ cur' = None
    /\ UNCHANGED <<now, start, due, checking, pcbs>>

\* TCP_REG of a first pcb, from the main loop or a handler: tcp_timer_needed.
PcbReg ==
    /\ ~pcbs /\ pcbs' = TRUE
    /\ IF active THEN UNCHANGED <<active, list>>
                 ELSE active' = TRUE /\ list' = sys_timeout(list, Tcp)
    /\ UNCHANGED <<now, start, due, cur, checking>>

\* The last pcb is removed, from the main loop or a handler.
PcbRmv == pcbs /\ pcbs' = FALSE /\ UNCHANGED <<now, list, start, due, cur, checking, active>>

TimeoutsNext ==
    Tick \/ CheckBegin \/ Fire \/ CheckEnd \/ CyclicEnd \/ TcpEnd \/ PcbReg \/ PcbRmv

TimeoutsSpec == TimeoutsInit /\ [][TimeoutsNext]_timeoutVars

(* SysTick keeps coming, and every turn of the loop and every handler      *)
(* ends: nothing in the superloop blocks.                                  *)
TimeoutsFairness ==
    /\ WF_timeoutVars(Tick) /\ WF_timeoutVars(CheckBegin)
    /\ WF_timeoutVars(Fire) /\ WF_timeoutVars(CheckEnd)
    /\ WF_timeoutVars(CyclicEnd) /\ WF_timeoutVars(TcpEnd)

TimeoutsFairSpec == TimeoutsSpec /\ TimeoutsFairness
-----------------------------------------------------------------------------
\* The types; no more timers than the pool has room for.
TimeoutsTypeOK ==
    /\ {now, start, due} \subseteq 0..(Clock - 1)
    /\ list \in Seq([time : 0..(Clock - 1), timer : Timers]) /\ Len(list) <= NumSysTimeout
    /\ cur \in Timers \cup {None} /\ {checking, active, pcbs} \subseteq BOOLEAN
    /\ cur # None => checking

(* The list is in the order of the due times, across the wraparound of the *)
(* clock: sys_check_timeouts, which stops at the first timer that is not   *)
(* due, never passes over one that is.                                     *)
Sorted == \A j, k \in 1..Len(list) : j < k => ~TIME_LESS_THAN(list[k].time, list[j].time)

(* No timer is lost and none is doubled, whatever registers or removes     *)
(* pcbs while handlers run, with a pool of the size lwIP demands: a cyclic *)
(* timer is in the list once or running, and the TCP timer is while it is  *)
(* marked active.                                                          *)
EachOnce ==
    \A t \in Timers :
        LET times == Len(SelectSeq(list, LAMBDA e : e.timer = t)) + (IF cur = t THEN 1 ELSE 0)
        IN  times = IF t = Tcp /\ ~active THEN 0 ELSE 1

\* While TCP has a pcb, its timer is going to run.
TcpTimerRuns == pcbs => active

(* The three together, with the types: what sys_check_timeouts and the     *)
(* handlers keep of the list of timeouts.                                  *)
ListSound == TimeoutsTypeOK /\ Sorted /\ EachOnce /\ TcpTimerRuns

(* A timer that put itself back is not due again in the same call: its due *)
(* time is not before the instant it is put back at.                       *)
NotInThePast ==
    [][\A t \in Timers : cur = t /\ cur' = None =>
          \A k \in 1..Len(list') :
              list'[k].timer = t => ~TIME_LESS_THAN(list'[k].time, now)]_timeoutVars

(* sys_check_timeouts returns: however slow the handlers are, timers that  *)
(* become due meanwhile wait for the next call.                            *)
CheckReturns == checking ~> ~checking

\* Every cyclic timer of lwIP runs again and again.
CyclicRun == \A t \in Cyclic : []<>(cur = t)
=============================================================================
