----------------------------- MODULE UringParts -----------------------------
(***************************************************************************)
(* The parts of server-uring that share no state, side by side: an edge of *)
(* the mesh, control blocks under any owner and callers, main with the     *)
(* blocks it owns, and the acceptor's session table.  One of them, `part`, *)
(* runs.                                                                   *)
(***************************************************************************)
EXTENDS Mesh, ThreadCtl, SessionTable, Roster

CONSTANT Main

VARIABLES
    part,
    m_state, m_kernel_tid, m_pipes, m_joinable, m_tpc, m_call, m_asked, m_trapped,
    mpc, nth, pending       \* main and its blocks

M == INSTANCE Supervisor WITH
        _state <- m_state, _kernel_tid <- m_kernel_tid, pipes <- m_pipes,
        joinable <- m_joinable, tpc <- m_tpc, call <- m_call, asked <- m_asked,
        trapped <- m_trapped

main_vars == <<m_state, m_kernel_tid, m_pipes, m_joinable, m_tpc, m_call, m_asked,
               m_trapped, mpc, nth, pending>>

uring_vars == <<part, mesh_vars, ctlVars, main_vars, table_vars>>

UringInit ==
    /\ part \in {"mesh", "threads", "main", "sessions"}
    /\ MeshInit /\ CtlInit /\ M!Init /\ TableInit

(* What a step of one part leaves alone. *)
InMesh == part = "mesh" /\ UNCHANGED <<part, ctlVars, main_vars, table_vars>>
InThreads == part = "threads" /\ UNCHANGED <<part, mesh_vars, main_vars, table_vars>>
InMain == part = "main" /\ UNCHANGED <<part, mesh_vars, ctlVars, table_vars>>
InSessions == part = "sessions" /\ UNCHANGED <<part, mesh_vars, ctlVars, main_vars>>

UringNext ==
    \/ InMesh /\ MeshNext
    \/ InThreads /\ CtlNext
    \/ InMain /\ M!Next
    \/ InSessions /\ TableNext

(* The owner of a consuming end polls its edge for ever (the fairness of   *)
(* MeshSpec); the scheduler runs every thread (FairCtlSpec, and Spec of    *)
(* Supervisor).                                                            *)
UringSpec ==
    /\ UringInit /\ [][UringNext]_uring_vars
    /\ WF_uring_vars(InMesh /\ mesh_try_recv)
    /\ \A c \in Ctl : /\ WF_uring_vars(InThreads /\ Trampoline(c))
                      /\ WF_uring_vars(InThreads /\ Owner(c))
    /\ \A k \in Caller : WF_uring_vars(InThreads /\ stop_cas(k))
    /\ WF_uring_vars(InMain /\ M!MainStep) /\ WF_uring_vars(InMain /\ M!MainCas)
    /\ \A c \in 0..K : WF_uring_vars(InMain /\ M!RoleThread(c))

(***************************************************************************)
(* Properties of main (main.cpp), stated in Supervisor                     *)
(***************************************************************************)
(* The acceptor, the producer of handoffs, lives among running workers     *)
(* that nobody has asked to stop (main.cpp steps 5, 6 and 8).              *)
ProducerHasConsumers == M!ProducerHasConsumers

(* main's frame, where the mesh edges live, outlasts every thread.         *)
FrameOutlivesThreads == M!FrameOutlivesThreads

(* main wires, starts, stops and joins its blocks as ThreadCtl allows.     *)
MainIsOwner == M!MainIsOwner

(* A termination signal, even one of boot, makes main return.              *)
SignalShutsDown == M!SignalShutsDown
=============================================================================
