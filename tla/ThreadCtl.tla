------------------------------ MODULE ThreadCtl -----------------------------
(***************************************************************************)
(* The life of a role thread of server-uring: the control block            *)
(* (thread_ctl.h/.cpp), the worker and acceptor trampolines                *)
(* (worker_ctl.cpp, acceptor_ctl.cpp) and the engines' run_loop.           *)
(*                                                                         *)
(* Any number of threads may call request_stop on any control block at any *)
(* moment, before its thread starts, during its preamble and after it      *)
(* stopped; request_stop is its load and then compare-exchanges, each a    *)
(* step of its own.  install_pipes, start and join belong to the owner of  *)
(* the block, who starts a wired block once and joins it once.             *)
(* The heartbeat counter and the thread's name are left out.               *)
(***************************************************************************)
EXTENDS Naturals

CONSTANTS
    Ctl,        \* the control blocks
    Caller,     \* threads that may call request_stop
    Nobody      \* not a control block

ASSUME NobodyAssumption == Nobody \notin Ctl

VARIABLES
    _state,     \* thread_ctl::_state
    _kernel_tid,\* whether the thread has published its tid (0 until then)
    pipes,      \* whether install_pipes has run
    joinable,   \* lnx::thread::_joinable of _thread
    tpc,        \* where the trampoline stands ("none": no thread yet)
    call,       \* per caller: the block it is stopping, and what it observed
    asked,      \* blocks on which some request_stop has returned
    trapped     \* an LNX_CHECK failed

ctlVars == <<_state, _kernel_tid, pipes, joinable, tpc, call, asked, trapped>>

State == {"starting", "running", "draining", "stopped"}
TrampolinePc == {"none", "entry", "attach", "promote", "loop", "drained",
                 "skipped", "exit"}
Idle == [ctl |-> Nobody, observed |-> "stopped"]

CtlInit ==
    /\ _state = [c \in Ctl |-> "starting"]
    /\ _kernel_tid = [c \in Ctl |-> FALSE]
    /\ pipes = [c \in Ctl |-> FALSE]
    /\ joinable = [c \in Ctl |-> FALSE]
    /\ tpc = [c \in Ctl |-> "none"]
    /\ call = [k \in Caller |-> Idle]
    /\ asked = {}
    /\ trapped = FALSE

-----------------------------------------------------------------------------
(* The owner *)

install_pipes(c) ==
    /\ pipes' = [pipes EXCEPT ![c] = TRUE]
    /\ UNCHANGED <<_state, _kernel_tid, joinable, tpc, call, asked, trapped>>

(* start: the mesh edges are checked, then lnx::thread's move-assignment   *)
(* checks that no thread is attached; pthread_create makes the thread.     *)
start(c) ==
    IF pipes[c] /\ ~joinable[c]
      THEN /\ joinable' = [joinable EXCEPT ![c] = TRUE]
           /\ tpc' = [tpc EXCEPT ![c] = "entry"]
           /\ UNCHANGED <<_state, _kernel_tid, pipes, call, asked, trapped>>
      ELSE /\ trapped' = TRUE
           /\ UNCHANGED <<_state, _kernel_tid, pipes, joinable, tpc, call, asked>>

(* join: pthread_join returns once the thread has exited; then the state   *)
(* must be stopped.                                                        *)
join(c) ==
    /\ joinable[c] => tpc[c] = "exit"
    /\ joinable' = [joinable EXCEPT ![c] = FALSE]
    /\ trapped' = (trapped \/ _state[c] # "stopped")
    /\ UNCHANGED <<_state, _kernel_tid, pipes, tpc, call, asked>>

-----------------------------------------------------------------------------
(* request_stop, by any thread *)

(* The acquire load.  Past the window (draining, stopped) it is a no-op. *)
request_stop(k, c) ==
    /\ call[k] = Idle
    /\ IF _state[c] \in {"starting", "running"}
         THEN /\ call' = [call EXCEPT ![k] = [ctl |-> c, observed |-> _state[c]]]
              /\ UNCHANGED asked
         ELSE /\ asked' = asked \cup {c}
              /\ UNCHANGED call
    /\ UNCHANGED <<_state, _kernel_tid, pipes, joinable, tpc, trapped>>

(* One compare_exchange(draining, observed) of the loop. *)
stop_cas(k) ==
    LET c == call[k].ctl
    IN  /\ call[k] # Idle
        /\ IF _state[c] = call[k].observed
             THEN /\ _state' = [_state EXCEPT ![c] = "draining"]
                  /\ call' = [call EXCEPT ![k] = Idle]
                  /\ asked' = asked \cup {c}
             ELSE /\ IF _state[c] \in {"starting", "running"}
                       THEN /\ call' = [call EXCEPT ![k].observed = _state[c]]
                            /\ UNCHANGED asked
                       ELSE /\ call' = [call EXCEPT ![k] = Idle]
                            /\ asked' = asked \cup {c}
                  /\ UNCHANGED _state
        /\ UNCHANGED <<_kernel_tid, pipes, joinable, tpc, trapped>>

-----------------------------------------------------------------------------
(* The thread itself *)

GoTo(c, from, to) == tpc[c] = from /\ tpc' = [tpc EXCEPT ![c] = to]

(* (1)-(3) role token, name, and the tid published before running. *)
publish_tid(c) ==
    /\ GoTo(c, "entry", "attach")
    /\ _kernel_tid' = [_kernel_tid EXCEPT ![c] = TRUE]
    /\ UNCHANGED <<_state, pipes, joinable, call, asked, trapped>>

(* (4) the thread-local pool and engine are built; attach. *)
attach(c) ==
    /\ GoTo(c, "attach", "promote")
    /\ UNCHANGED <<_state, _kernel_tid, pipes, joinable, call, asked, trapped>>

(* Fault: running is stored over whatever a stop request left. *)
promote_store(c) ==
    /\ GoTo(c, "promote", "loop")
    /\ _state' = [_state EXCEPT ![c] = "running"]
    /\ UNCHANGED <<_kernel_tid, pipes, joinable, call, asked, trapped>>

(* (5) compare_exchange(running, starting). *)
promote(c) ==
    /\ IF _state[c] = "starting"
         THEN /\ GoTo(c, "promote", "loop")
              /\ _state' = [_state EXCEPT ![c] = "running"]
              /\ UNCHANGED trapped
         ELSE /\ GoTo(c, "promote", "skipped")
              /\ trapped' = (trapped \/ _state[c] # "draining")
              /\ UNCHANGED _state
    /\ UNCHANGED <<_kernel_tid, pipes, joinable, call, asked>>

(* Fault: the loop runs until it observes stopped. *)
leave_loop_on_stopped(c) ==
    /\ _state[c] = "stopped"
    /\ GoTo(c, "loop", "drained")
    /\ UNCHANGED <<_state, _kernel_tid, pipes, joinable, call, asked, trapped>>

(* run_loop leaves its loop when it no longer observes running. *)
leave_loop(c) ==
    /\ _state[c] # "running"
    /\ GoTo(c, "loop", "drained")
    /\ UNCHANGED <<_state, _kernel_tid, pipes, joinable, call, asked, trapped>>

(* store_release(stopped), at the end of run_loop or instead of it; the    *)
(* trampoline returns.                                                     *)
publish_stopped(c) ==
    /\ GoTo(c, "drained", "exit") \/ GoTo(c, "skipped", "exit")
    /\ _state' = [_state EXCEPT ![c] = "stopped"]
    /\ UNCHANGED <<_kernel_tid, pipes, joinable, call, asked, trapped>>

Trampoline(c) ==
    publish_tid(c) \/ attach(c) \/ promote(c) \/ leave_loop(c) \/ publish_stopped(c)

-----------------------------------------------------------------------------
(* What an owner does: wire, start once, join a started thread once. *)
Owner(c) ==
    \/ ~pipes[c] /\ install_pipes(c)
    \/ pipes[c] /\ tpc[c] = "none" /\ start(c)
    \/ joinable[c] /\ join(c)

CtlNext ==
    \/ \E c \in Ctl : Owner(c) \/ Trampoline(c)
    \/ \E k \in Caller, c \in Ctl : request_stop(k, c)
    \/ \E k \in Caller : stop_cas(k)

(* Threads are scheduled fairly; nobody has to call request_stop. *)
CtlFairness ==
    /\ \A c \in Ctl : WF_ctlVars(Trampoline(c)) /\ WF_ctlVars(Owner(c))
    /\ \A k \in Caller : WF_ctlVars(stop_cas(k))

CtlSpec == CtlInit /\ [][CtlNext]_ctlVars
FairCtlSpec == CtlSpec /\ CtlFairness

-----------------------------------------------------------------------------
CtlTypeOK ==
    /\ _state \in [Ctl -> State]
    /\ _kernel_tid \in [Ctl -> BOOLEAN]
    /\ pipes \in [Ctl -> BOOLEAN]
    /\ joinable \in [Ctl -> BOOLEAN]
    /\ tpc \in [Ctl -> TrampolinePc]
    /\ call \in [Caller -> [ctl : Ctl \cup {Nobody}, observed : State]]
    /\ asked \subseteq Ctl
    /\ trapped \in BOOLEAN

(* No LNX_CHECK of the lifecycle fires: start finds its edges wired and no *)
(* thread attached, the trampoline's failed promotion observes draining,   *)
(* and join finds stopped, under every interleaving with stop requests.    *)
NoTrap == ~trapped

(* A stop request is never lost: once some request_stop has returned, the  *)
(* block is draining or stopped, even when it raced with the trampoline's  *)
(* promotion to running.                                                   *)
StopSticks == \A c \in asked : _state[c] \in {"draining", "stopped"}

(* kernel_tid() never returns 0 after observing running: the tid is        *)
(* published before the promotion and stays.                               *)
TidBeforeRunning == \A c \in Ctl : _state[c] = "running" => _kernel_tid[c]

(* The state agrees with where the thread is: only a thread that was       *)
(* promoted is in its loop, running is never seen once the thread left the *)
(* loop, and stopped means that the trampoline is past its last store.     *)
StateMatchesThread ==
    \A c \in Ctl :
        /\ _state[c] = "running" => tpc[c] = "loop"
        /\ _state[c] = "stopped" <=> tpc[c] = "exit"

(* The lifecycle only moves forward: starting to running or draining,      *)
(* running to draining, draining to stopped.  In particular running is     *)
(* never published over a draining, and nothing restarts a stopped block.  *)
LegalStep(a, b) ==
    <<a, b>> \in {<<"starting", "running">>, <<"starting", "draining">>,
                  <<"running", "draining">>, <<"draining", "stopped">>}
LifecycleForward ==
    [][\A c \in Ctl : _state'[c] # _state[c] => LegalStep(_state[c], _state'[c])]_ctlVars

(* A stop request that has returned on a block that gets started is        *)
(* followed by the thread's exit and by the owner's join, with none of     *)
(* the LNX_CHECKs on the way having failed.                                *)
StopLeadsToJoin == \A c \in Ctl :
    c \in asked ~> tpc[c] = "exit" /\ ~joinable[c] /\ ~trapped

-----------------------------------------------------------------------------
(* The inductive strengthening used by the proofs: which states are        *)
(* possible at each point of the trampoline, and what a caller in the      *)
(* middle of request_stop may have observed.                               *)
ThreadInv(c) ==
    /\ tpc[c] \in {"none", "entry", "attach", "promote"}
         => _state[c] \in {"starting", "draining"}
    /\ tpc[c] = "loop" => _state[c] \in {"running", "draining"}
    /\ tpc[c] \in {"drained", "skipped"} => _state[c] = "draining"
    /\ tpc[c] = "exit" => _state[c] = "stopped"
    /\ tpc[c] \notin {"none", "entry"} => _kernel_tid[c]
    /\ tpc[c] = "none" => ~joinable[c]

CallInv ==
    \A k \in Caller : call[k] # Idle =>
        call[k].ctl \in Ctl /\ call[k].observed \in {"starting", "running"}

CtlInv ==
    /\ CtlTypeOK
    /\ \A c \in Ctl : ThreadInv(c)
    /\ CallInv
    /\ NoTrap
    /\ StopSticks
=============================================================================
