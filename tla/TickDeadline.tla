---------------------------- MODULE TickDeadline ----------------------------
(***************************************************************************)
(* The tick clock of server-epoll/tick_logic.h as main's loop drives it:   *)
(* the deadline, the overrun rule and the per-period phase accumulators.   *)
(*                                                                         *)
(* The program reads the clock at the steps below; between any two of them *)
(* any amount of time may pass (Elapse).  Time is counted from init, up to *)
(* MaxNow.  The tick is enabled (CHAT_TICK_HZ set): disabled, every hook   *)
(* returns before it touches anything.                                     *)
(***************************************************************************)
EXTENDS Integers

CONSTANTS
    period,     \* time between deadlines
    MaxNow,     \* bound: the clock stops here
    MaxWakes    \* bound: wakes for an event in one period

ASSUME TickAssumption ==
    /\ period \in Nat \ {0} /\ MaxNow \in Nat /\ MaxWakes \in Nat \ {0}

VARIABLES
    now,        \* the monotonic clock
    tick_pc,         \* where the loop is
    wake,       \* when the wait in progress times out
    deadline,
    t_mark,     \* start of the phase in progress
    t0,         \* start of the tick in progress
    drain_acc, flush_acc, wakes, ticks, overruns,
    ended, before   \* when the last tick ended, and the one before (history)

clock == <<deadline, t0, ticks, overruns, ended, before>>
phases == <<t_mark, drain_acc, flush_acc, wakes>>
tick_vars == <<now, tick_pc, wake, clock, phases>>

TickPc == {"loop", "wait", "drain", "due", "tick", "tail", "flush"}

(* init, right after the clock was read for the first deadline. *)
TickInit ==
    /\ now = 0 /\ tick_pc = "loop" /\ wake = 0
    /\ deadline = period
    /\ t_mark = 0 /\ t0 = 0 /\ drain_acc = 0 /\ flush_acc = 0 /\ wakes = 0
    /\ ticks = 0 /\ overruns = 0 /\ ended = 0 /\ before = 0

(* Fault: the wait blocks although a tick will be due. *)
timeout_ns_block == MaxNow + 1

(* How long the wait may take. *)
timeout_ns == IF deadline - now > 0 THEN deadline - now ELSE 0

begin_wait ==
    /\ tick_pc = "loop"
    /\ wake' = now + timeout_ns
    /\ tick_pc' = "wait"
    /\ UNCHANGED <<now, clock, phases>>

(* EINTR: back to the top of the loop, with a new timeout.  The kernel     *)
(* reports it from a wait that would sleep, never from one that is over.   *)
interrupted ==
    /\ tick_pc = "wait"
    /\ now < wake
    /\ tick_pc' = "loop"
    /\ UNCHANGED <<now, wake, clock, phases>>

(* The wait returns with events or because it timed out. *)
drain_begin ==
    /\ t_mark' = now
    /\ wakes' = wakes + 1
    /\ tick_pc' = "drain"
    /\ UNCHANGED <<now, wake, clock, drain_acc, flush_acc>>

event == tick_pc = "wait" /\ wakes < MaxWakes /\ drain_begin
timed_out == tick_pc = "wait" /\ now >= wake /\ drain_begin

drain_end ==
    /\ tick_pc = "drain"
    /\ drain_acc' = drain_acc + (now - t_mark)
    /\ tick_pc' = "due"
    /\ UNCHANGED <<now, wake, clock, t_mark, flush_acc, wakes>>

not_due ==
    /\ tick_pc = "due"
    /\ now < deadline
    /\ tick_pc' = "tail"
    /\ UNCHANGED <<now, wake, clock, phases>>

tick_begin ==
    /\ tick_pc = "due"
    /\ now >= deadline
    /\ t0' = now
    /\ tick_pc' = "tick"
    /\ UNCHANGED <<now, wake, deadline, ticks, overruns, ended, before, phases>>

(* Fault: a missed deadline is caught up. *)
NextDeadline_catch_up == deadline + period

(* An overrun resets the deadline; otherwise it moves by one period. *)
NextDeadline == IF now > deadline + period THEN now + period ELSE deadline + period

(* Fault: the drain of the period is counted again in the next one. *)
tick_end_kept ==
    /\ tick_pc = "tick"
    /\ ticks' = ticks + 1
    /\ overruns' = overruns + (IF now > deadline + period THEN 1 ELSE 0)
    /\ deadline' = NextDeadline
    /\ flush_acc' = 0 /\ wakes' = 0
    /\ ended' = now /\ before' = ended
    /\ tick_pc' = "tail"
    /\ UNCHANGED <<now, wake, t0, t_mark, drain_acc>>

(* The walk is over: record the period, start the next one. *)
tick_end ==
    /\ tick_pc = "tick"
    /\ ticks' = ticks + 1
    /\ overruns' = overruns + (IF now > deadline + period THEN 1 ELSE 0)
    /\ deadline' = NextDeadline
    /\ drain_acc' = 0 /\ flush_acc' = 0 /\ wakes' = 0
    /\ ended' = now /\ before' = ended
    /\ tick_pc' = "tail"
    /\ UNCHANGED <<now, wake, t0, t_mark>>

flush_begin ==
    /\ tick_pc = "tail"
    /\ t_mark' = now
    /\ tick_pc' = "flush"
    /\ UNCHANGED <<now, wake, clock, drain_acc, flush_acc, wakes>>

flush_end ==
    /\ tick_pc = "flush"
    /\ flush_acc' = flush_acc + (now - t_mark)
    /\ tick_pc' = "loop"
    /\ UNCHANGED <<now, wake, clock, t_mark, drain_acc, wakes>>

(* Time passes. *)
Elapse ==
    /\ now < MaxNow
    /\ now' = now + 1
    /\ UNCHANGED <<tick_pc, wake, clock, phases>>

TickLoop ==
    \/ begin_wait \/ timed_out \/ drain_end \/ not_due \/ tick_begin
    \/ tick_end \/ flush_begin \/ flush_end

TickNext == TickLoop \/ event \/ interrupted \/ Elapse

TickSpec == TickInit /\ [][TickNext]_tick_vars

-----------------------------------------------------------------------------
(* The time marks of the tick loop lie in the past, and an overrun is     *)
(* counted at most once a tick: the type invariant of tick_logic.h.       *)
TickTypeOK ==
    /\ now \in 0..MaxNow /\ tick_pc \in TickPc /\ wake \in Nat /\ deadline \in Nat
    /\ t_mark \in 0..now /\ t0 \in 0..now /\ ended \in 0..now /\ before \in 0..ended
    /\ drain_acc \in Nat /\ flush_acc \in Nat
    /\ wakes \in 0..(MaxWakes + 1) /\ ticks \in Nat /\ overruns \in 0..ticks

(* Ticks are never caught up in a burst ("back-to-back catch-up ticks      *)
(* would starve the drain", tick_logic.h:45-48): whatever each one costs,  *)
(* a tick begins at least a period after the end of the last but one.      *)
NoBurst == tick_pc = "tick" /\ ticks >= 2 => t0 >= before + period

(* The deadlines never run ahead of the clock's grid, and stay on it until *)
(* an overrun moves them off.                                              *)
Cadence ==
    /\ deadline >= (ticks + 1) * period
    /\ overruns = 0 => deadline = (ticks + 1) * period

(* No nanosecond is credited twice: the phases of the current period,      *)
(* drained and flushed over any number of wakes, fit in the time since the *)
(* last tick ended.                                                        *)
AccountedOnce ==
    drain_acc + flush_acc <=
        (IF tick_pc \in {"drain", "flush"} THEN t_mark ELSE now) - ended

(* A tick that is due runs, whether or not any client ever sends anything: *)
(* the wait is bounded by the deadline, also after an EINTR.  (No run has  *)
(* more ticks than periods.)                                               *)
DueTickRuns ==
    \A k \in 0..(MaxNow \div period) : ticks = k /\ now >= deadline ~> ticks > k
=============================================================================
