------------------------------ MODULE Profiler ------------------------------
(***************************************************************************)
(* engine-uring/src/diagnostic/profiler_scope: scopes of one thread, the   *)
(* thread_local manager that keeps their records and the reports it makes. *)
(* A time in a unit is the pair of its nanoseconds and the divisor; memory *)
(* for a record is always found (MallocVector has the other case).         *)
(***************************************************************************)
EXTENDS Integers, Sequences, FiniteSets, SequencesExt, FiniteSetsExt

CONSTANTS Scope, Name,       \* scope variables, scope names
          Divisor,           \* UNIT_DIVISOR: nanoseconds in each unit
          MaxNs, MaxCalls    \* bounds: the clock, scopes ever constructed

ASSUME ProfilerAssumption ==
    \A unit \in DOMAIN Divisor : Divisor[unit] \in Nat \ {0}

VARIABLES now_ns,            \* CLOCK_MONOTONIC
          scope,             \* variable -> scope object
          _records,          \* name -> records, for the names that have any
          calls              \* history: the scopes that ended since clear()

profiler_vars == <<now_ns, scope, _records, calls>>

Outside == [live |-> FALSE]

ProfilerInit ==
    /\ now_ns = 0
    /\ scope = [s \in Scope |-> Outside]
    /\ _records = << >>
    /\ calls = [all |-> 0, ended |-> {}]

clock_ticks == /\ now_ns < MaxNs
               /\ now_ns' = now_ns + 1
               /\ UNCHANGED <<scope, _records, calls>>

(* "id" is history: which construction this is. *)
enter(s) ==
    \E name \in Name :
      /\ ~scope[s].live /\ calls.all < MaxCalls
      /\ scope' = [scope EXCEPT ![s] =
           [live |-> TRUE, _scope_name |-> name, _enter_ns |-> now_ns,
            _stopped |-> FALSE, id |-> calls.all]]
      /\ calls' = [calls EXCEPT !.all = @ + 1]
      /\ UNCHANGED <<now_ns, _records>>

(* operator[] makes the list on the name's first record. *)
manager_add(name, enter_ns, leave_ns) ==
    LET old == IF name \in DOMAIN _records THEN _records[name] ELSE << >>
    IN  [n \in DOMAIN _records \cup {name} |->
           IF n = name THEN Append(old, [enter_ns |-> enter_ns, leave_ns |-> leave_ns])
                       ELSE _records[n]]

(* Fault: the destructor of a stopped scope records it again. *)
stop_records_again(o) == manager_add(o._scope_name, o._enter_ns, now_ns)

(* The records after stop() of an object. *)
stop_records(o) ==
    IF o._stopped THEN _records ELSE manager_add(o._scope_name, o._enter_ns, now_ns)

(* History: a construction ends once, by stop() or by its destructor. *)
End(o) ==
    IF o._stopped THEN calls
    ELSE [calls EXCEPT !.ended = @ \cup {[id |-> o.id, name |-> o._scope_name,
                                          ns |-> now_ns - o._enter_ns]}]

stop(s) ==
    /\ scope[s].live
    /\ _records' = stop_records(scope[s])
    /\ calls' = End(scope[s])
    /\ scope' = [scope EXCEPT ![s]._stopped = TRUE]
    /\ UNCHANGED now_ns

leave(s) ==
    /\ scope[s].live
    /\ _records' = stop_records(scope[s])
    /\ calls' = End(scope[s])
    /\ scope' = [scope EXCEPT ![s] = Outside]
    /\ UNCHANGED now_ns

manager_clear == /\ _records' = << >>
         /\ calls' = [calls EXCEPT !.ended = {}]
         /\ UNCHANGED <<now_ns, scope>>

ProfilerNext ==
    \/ clock_ticks
    \/ \E s \in Scope : enter(s) \/ stop(s) \/ leave(s)
    \/ manager_clear

ProfilerSpec == ProfilerInit /\ [][ProfilerNext]_profiler_vars

(***************************************************************************)
(* What the manager tells                                                  *)
(***************************************************************************)
records_for(name) == IF name \in DOMAIN _records THEN _records[name] ELSE << >>

summarize(records) ==
    LET elapsed(r) == r.leave_ns - r.enter_ns
        ns == [i \in DOMAIN records |-> elapsed(records[i])]
    IN  [call_count |-> Len(records),
         total_ns |-> FoldSeq(LAMBDA a, b : a + b, 0, ns),
         min_ns |-> IF records = << >> THEN 0 ELSE Min({ns[i] : i \in DOMAIN ns}),
         max_ns |-> Max({ns[i] : i \in DOMAIN ns} \cup {0})]

(* Every report has these numbers for the names that have records. *)
report_line(name, unit) ==
    LET s == summarize(records_for(name))
    IN  [calls |-> s.call_count,
         total |-> <<s.total_ns, Divisor[unit]>>,
         avg   |-> <<s.total_ns, Divisor[unit] * s.call_count>>,
         min   |-> <<s.min_ns, Divisor[unit]>>,
         max   |-> <<s.max_ns, Divisor[unit]>>]

report_names == {name \in DOMAIN _records : _records[name] # << >>}

(***************************************************************************)
(* Properties                                                              *)
(***************************************************************************)
Of(name) == {c \in calls.ended : c.name = name}

(* The reports are about the scopes that ended since the last clear():     *)
(* each counts once, under its name and with its whole time, whether it    *)
(* was stopped, destroyed or both, and also when it was entered before the *)
(* clear(); a name no scope of which ended is left out.                    *)
ReportsAreExact ==
    /\ report_names = {c.name : c \in calls.ended}
    /\ \A name \in report_names, unit \in DOMAIN Divisor :
         LET line == report_line(name, unit)
             per  == Divisor[unit]
         IN  /\ line.calls = Cardinality(Of(name))
             /\ line.total = <<MapThenSumSet(LAMBDA c : c.ns, Of(name)), per>>
             /\ line.min = <<Min({c.ns : c \in Of(name)}), per>>
             /\ line.max = <<Max({c.ns : c \in Of(name)}), per>>
             /\ line.min[1] * line.avg[2] <= line.avg[1] * line.min[2]
             /\ line.avg[1] * line.max[2] <= line.max[1] * line.avg[2]

(***************************************************************************)
(* The inductive invariant behind it                                       *)
(***************************************************************************)
ScopeObject ==
    [live : {TRUE}, _scope_name : Name, _enter_ns : Nat, _stopped : BOOLEAN, id : Nat]

ProfilerTypeOK ==
    /\ now_ns \in Nat
    /\ scope \in [Scope -> ScopeObject \cup {Outside}]
    /\ DOMAIN _records \subseteq Name
    /\ \A name \in DOMAIN _records :
         _records[name] \in Seq([enter_ns : Nat, leave_ns : Nat])
    /\ calls \in [all : Nat, ended : SUBSET [id : Nat, name : Name, ns : Nat]]
    /\ IsFiniteSet(calls.ended)

(* The constructions that ended are not the ones still under way. *)
EndsOnce ==
    /\ \A c \in calls.ended : c.id < calls.all
    /\ \A s \in Scope : scope[s].live =>
         /\ scope[s].id < calls.all /\ scope[s]._enter_ns <= now_ns
         /\ ~scope[s]._stopped => \A c \in calls.ended : c.id # scope[s].id
         /\ \A t \in Scope : scope[t].live /\ scope[t].id = scope[s].id => t = s

(* The records of a name are the constructions that ended under it. *)
RecordsTell(name) ==
    LET records == _records[name]
        ns == [i \in DOMAIN records |-> records[i].leave_ns - records[i].enter_ns]
    IN  /\ Len(records) = Cardinality(Of(name))
        /\ FoldSeq(LAMBDA a, b : a + b, 0, ns) = MapThenSumSet(LAMBDA c : c.ns, Of(name))
        /\ {ns[i] : i \in DOMAIN ns} = {c.ns : c \in Of(name)}

ProfilerInv ==
    /\ ProfilerTypeOK /\ EndsOnce
    /\ DOMAIN _records = {c.name : c \in calls.ended}
    /\ \A name \in DOMAIN _records : RecordsTell(name)
=============================================================================
