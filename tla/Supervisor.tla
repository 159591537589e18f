----------------------------- MODULE Supervisor -----------------------------
(***************************************************************************)
(* server-uring's main (main.cpp): ordered boot, wait for a termination    *)
(* signal, ordered shutdown, composed with the threads it supervises       *)
(* (ThreadCtl).  Blocks 0..K-1 are the workers, block K is the acceptor.   *)
(*                                                                         *)
(* Behaviour starts after install_signal_mask: from then on a termination  *)
(* signal may become pending at any moment and is only taken by sigwait.   *)
(***************************************************************************)
EXTENDS Roster

CONSTANT Main   \* the supervisor thread

VARIABLES
    _state, _kernel_tid, pipes, joinable, tpc, call, asked, trapped,
    mpc,        \* which loop or call of main is running
    nth,        \* its loop index
    pending     \* a termination signal is pending

(* Not the index of a block. *)
NoBlock == -1

INSTANCE ThreadCtl WITH Ctl <- 0..K, Caller <- {Main}, Nobody <- NoBlock

mainVars == <<mpc, nth>>
threadVars == <<_state, _kernel_tid, pipes, joinable, tpc, call, asked, trapped>>
vars == <<_state, _kernel_tid, pipes, joinable, tpc, call, asked, trapped,
          mpc, nth, pending>>

Init ==
    /\ CtlInit
    /\ mpc = "construct"
    /\ nth = 0
    /\ pending = FALSE

(* The loop over the workers moves on, and after the last one to next. *)
Advance(next) ==
    IF nth + 1 < K THEN nth' = nth + 1 /\ mpc' = mpc
                   ELSE nth' = 0 /\ mpc' = next

(* emplace_back and install_pipes, per worker. *)
construct_worker ==
    /\ mpc = "construct"
    /\ install_pipes(nth)
    /\ Advance("start")
    /\ UNCHANGED pending

start_worker ==
    /\ mpc = "start"
    /\ start(nth)
    /\ Advance("barrier")
    /\ UNCHANGED pending

(* Fault: main does not wait for the workers. *)
worker_barrier_skipped ==
    /\ mpc = "barrier"
    /\ Advance("construct_acceptor")
    /\ UNCHANGED threadVars
    /\ UNCHANGED pending

(* while (!w.is_running()) yield *)
worker_barrier ==
    /\ mpc = "barrier"
    /\ _state[nth] = "running"
    /\ Advance("construct_acceptor")
    /\ UNCHANGED threadVars
    /\ UNCHANGED pending

(* Fault: the acceptor's edges are not installed. *)
construct_acceptor_unwired ==
    /\ mpc = "construct_acceptor"
    /\ mpc' = "start_acceptor"
    /\ UNCHANGED <<nth, pending>>
    /\ UNCHANGED threadVars

construct_acceptor ==
    /\ mpc = "construct_acceptor"
    /\ install_pipes(Acceptor)
    /\ mpc' = "start_acceptor"
    /\ UNCHANGED <<nth, pending>>

start_acceptor ==
    /\ mpc = "start_acceptor"
    /\ start(Acceptor)
    /\ mpc' = "acceptor_barrier"
    /\ UNCHANGED <<nth, pending>>

(* Fault: signals that came during boot are discarded. *)
acceptor_barrier_discards ==
    /\ mpc = "acceptor_barrier"
    /\ _state[Acceptor] = "running"
    /\ mpc' = "sigwait"
    /\ pending' = FALSE
    /\ UNCHANGED nth
    /\ UNCHANGED threadVars

acceptor_barrier ==
    /\ mpc = "acceptor_barrier"
    /\ _state[Acceptor] = "running"
    /\ mpc' = "sigwait"
    /\ UNCHANGED <<nth, pending>>
    /\ UNCHANGED threadVars

sigwait ==
    /\ mpc = "sigwait"
    /\ pending
    /\ pending' = FALSE
    /\ mpc' = "stop_acceptor"
    /\ UNCHANGED nth
    /\ UNCHANGED threadVars

(* acceptor.request_stop(): called, then retried until it returns. *)
stop_acceptor ==
    /\ mpc = "stop_acceptor"
    /\ request_stop(Main, Acceptor)
    /\ mpc' = "join_acceptor"
    /\ UNCHANGED <<nth, pending>>

join_acceptor ==
    /\ mpc = "join_acceptor"
    /\ call[Main] = Idle
    /\ join(Acceptor)
    /\ mpc' = "stop"
    /\ UNCHANGED <<nth, pending>>

stop_worker ==
    /\ mpc = "stop"
    /\ request_stop(Main, nth)
    /\ Advance("join")
    /\ UNCHANGED pending

(* Fault: the workers are not joined. *)
join_worker_skipped ==
    /\ mpc = "join"
    /\ call[Main] = Idle
    /\ Advance("return")
    /\ UNCHANGED pending
    /\ UNCHANGED threadVars

join_worker ==
    /\ mpc = "join"
    /\ call[Main] = Idle
    /\ join(nth)
    /\ Advance("return")
    /\ UNCHANGED pending

(* main returns: ~thread of every block checks that it was joined. *)
return ==
    /\ mpc = "return"
    /\ mpc' = "done"
    /\ trapped' = (trapped \/ \E c \in 0..K : joinable[c])
    /\ UNCHANGED <<_state, _kernel_tid, pipes, joinable, tpc, call, asked, nth, pending>>

MainStep ==
    \/ construct_worker \/ start_worker \/ worker_barrier
    \/ construct_acceptor \/ start_acceptor \/ acceptor_barrier
    \/ sigwait \/ stop_acceptor \/ join_acceptor
    \/ stop_worker \/ join_worker \/ return

(* The retry loop inside a request_stop of main. *)
MainCas ==
    /\ stop_cas(Main)
    /\ UNCHANGED mainVars
    /\ UNCHANGED pending

RoleThread(c) ==
    /\ Trampoline(c)
    /\ UNCHANGED mainVars
    /\ UNCHANGED pending

(* SIGINT or SIGTERM is sent to the process. *)
raise_signal ==
    /\ mpc # "done"
    /\ ~pending
    /\ pending' = TRUE
    /\ UNCHANGED mainVars
    /\ UNCHANGED threadVars

Terminated == mpc = "done" /\ UNCHANGED vars

Next ==
    \/ MainStep \/ MainCas
    \/ \E c \in 0..K : RoleThread(c)
    \/ raise_signal
    \/ Terminated

(* The scheduler runs every thread; signals need never come. *)
Spec ==
    /\ Init /\ [][Next]_vars
    /\ WF_vars(MainStep) /\ WF_vars(MainCas)
    /\ \A c \in 0..K : WF_vars(RoleThread(c))

-----------------------------------------------------------------------------
MainPc == {"construct", "start", "barrier", "construct_acceptor",
           "start_acceptor", "acceptor_barrier", "sigwait", "stop_acceptor",
           "join_acceptor", "stop", "join", "return", "done"}

TypeOK ==
    /\ CtlTypeOK
    /\ mpc \in MainPc
    /\ nth \in Worker
    /\ pending \in BOOLEAN

(* The handoff producer is only ever alive among live consumers: from the  *)
(* acceptor's pthread_create to its exit, every worker has published       *)
(* running and has not been asked to stop (main.cpp steps 5, 6 and 8).     *)
ProducerHasConsumers ==
    tpc[Acceptor] \notin {"none", "exit"} =>
        \A w \in Worker : _state[w] = "running" /\ w \notin asked

(* The mesh edges live in main's frame: main returns only after every      *)
(* thread that can reach them has exited and been joined.                  *)
FrameOutlivesThreads ==
    mpc \in {"return", "done"} =>
        \A c \in 0..K : tpc[c] = "exit" /\ ~joinable[c]

(* main is an owner in ThreadCtl's sense (wires before it starts, starts   *)
(* once, joins once), so what holds of ThreadCtl holds of this program.    *)
MainIsOwner == CtlSpec

(* A termination signal is never lost, however early it arrives: main      *)
(* eventually returns.                                                     *)
SignalShutsDown == pending ~> mpc = "done"

-----------------------------------------------------------------------------
(* The inductive strengthening used by the proofs: how far main has brought *)
(* each block follows from where main stands.                              *)
Started(w) == mpc # "construct" /\ (mpc = "start" => w < nth)
Joined(w) == mpc \in {"return", "done"} \/ (mpc = "join" /\ w < nth)
AcceptorAlive == {"acceptor_barrier", "sigwait", "stop_acceptor", "join_acceptor"}
AcceptorGone == {"stop", "join", "return", "done"}
Up(w) ==
    \/ mpc = "barrier" /\ w < nth
    \/ mpc \in {"construct_acceptor", "start_acceptor"} \cup AcceptorAlive

WorkerInv(w) ==
    /\ pipes[w] <=> (mpc = "construct" => w < nth)
    /\ tpc[w] # "none" <=> Started(w)
    /\ joinable[w] <=> Started(w) /\ ~Joined(w)
    /\ Joined(w) => tpc[w] = "exit"
    /\ Up(w) => _state[w] = "running"

AcceptorInv ==
    /\ pipes[Acceptor] <=> mpc \in {"start_acceptor"} \cup AcceptorAlive \cup AcceptorGone
    /\ tpc[Acceptor] # "none" <=> mpc \in AcceptorAlive \cup AcceptorGone
    /\ joinable[Acceptor] <=> mpc \in AcceptorAlive
    /\ mpc \in AcceptorGone => tpc[Acceptor] = "exit"

(* Until the acceptor is joined main has stopped nobody else. *)
StopInv ==
    /\ mpc \notin {"join_acceptor"} \cup AcceptorGone => call[Main] = Idle /\ asked = {}
    /\ mpc = "join_acceptor" => /\ asked \subseteq {Acceptor}
                                /\ call[Main] # Idle => call[Main].ctl = Acceptor

SupInv ==
    /\ TypeOK
    /\ CtlInv
    /\ \A w \in Worker : WorkerInv(w)
    /\ AcceptorInv
    /\ StopInv
=============================================================================
