------------------------------- MODULE Tools -------------------------------
(***************************************************************************)
(* The engine's library (vectors, locks, profiler) and the two ends of a   *)
(* load generator run (what it is set up with, and its verdict), which     *)
(* share no state, side by side: one of them, `part`, runs.                *)
(***************************************************************************)
EXTENDS MallocVector, Locks, Profiler, RunSetup, Verdict

VARIABLE part

tools_vars == <<part, vector_vars, locks_vars, profiler_vars, setup_vars, verdict_vars>>

(* The limits and readings a run starts with matter to that run only. *)
ToolsInit ==
    /\ part \in {"vectors", "locks", "profiler", "setup", "verdict"}
    /\ VectorInit /\ LocksInit /\ ProfilerInit
    /\ SetupInit /\ (part = "setup" \/ rlim = CHOOSE r \in FdLimits : TRUE)
    /\ VerdictInit /\ (part = "verdict" \/ cpu0 = Unread)

Runs(p) ==
    /\ part = p /\ UNCHANGED part
    /\ p # "vectors" => UNCHANGED vector_vars
    /\ p # "locks" => UNCHANGED locks_vars
    /\ p # "profiler" => UNCHANGED profiler_vars
    /\ p # "setup" => UNCHANGED setup_vars
    /\ p # "verdict" => UNCHANGED verdict_vars

ToolsNext ==
    \/ Runs("vectors") /\ VectorNext
    \/ Runs("locks") /\ LocksNext
    \/ Runs("profiler") /\ ProfilerNext
    \/ Runs("setup") /\ SetupNext
    \/ Runs("verdict") /\ VerdictNext

ToolsSpec == ToolsInit /\ [][ToolsNext]_tools_vars
=============================================================================
