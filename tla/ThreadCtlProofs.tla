--------------------------- MODULE ThreadCtlProofs --------------------------
(***************************************************************************)
(* Proofs about ThreadCtl, for any set of control blocks and any set of    *)
(* threads calling request_stop on them.                                   *)
(***************************************************************************)
EXTENDS ThreadCtl, TLAPS

(* Nothing has started: every block is starting and unwired. *)
LEMMA InitCtlInv == CtlInit => CtlInv
  <1> SUFFICES ASSUME CtlInit PROVE CtlInv
    OBVIOUS
  <1>1. Idle \in [ctl : Ctl \cup {Nobody}, observed : State]
    BY DEF Idle, State
  <1>2. CtlTypeOK
    BY <1>1 DEF CtlInit, CtlTypeOK, State, TrampolinePc
  <1>3. \A c \in Ctl : ThreadInv(c)
    BY DEF CtlInit, ThreadInv
  <1>4. CallInv /\ NoTrap /\ StopSticks
    BY DEF CtlInit, CallInv, NoTrap, StopSticks
  <1>5. QED
    BY <1>2, <1>3, <1>4 DEF CtlInv

(* The steps of a block's owner. *)
LEMMA OwnerCtlInv ==
    ASSUME CtlInv, NEW c \in Ctl, Owner(c)
    PROVE  CtlInv'
  <1>1. CASE ~pipes[c] /\ install_pipes(c)
    BY <1>1 DEF CtlInv, CtlTypeOK, ThreadInv, CallInv, NoTrap, StopSticks,
                install_pipes
  <1>2. CASE pipes[c] /\ tpc[c] = "none" /\ start(c)
    <2>1. ~joinable[c]
      BY <1>2 DEF CtlInv, ThreadInv
    <2>2. /\ joinable' = [joinable EXCEPT ![c] = TRUE]
          /\ tpc' = [tpc EXCEPT ![c] = "entry"]
          /\ UNCHANGED <<_state, _kernel_tid, pipes, call, asked, trapped>>
      BY <1>2, <2>1 DEF start
    <2>3. _state[c] \in {"starting", "draining"}
      BY <1>2 DEF CtlInv, ThreadInv
    <2>4. QED
      BY <2>2, <2>3 DEF CtlInv, CtlTypeOK, ThreadInv, CallInv, NoTrap,
                        StopSticks, TrampolinePc
  <1>3. CASE joinable[c] /\ join(c)
    <2>1. _state[c] = "stopped"
      BY <1>3 DEF CtlInv, ThreadInv, join
    <2>2. QED
      BY <1>3, <2>1 DEF CtlInv, CtlTypeOK, ThreadInv, CallInv, NoTrap,
                        StopSticks, join
  <1>4. QED
    BY <1>1, <1>2, <1>3 DEF Owner

(* The load of a request_stop. *)
LEMMA RequestStopCtlInv ==
    ASSUME CtlInv, NEW k \in Caller, NEW c \in Ctl, request_stop(k, c)
    PROVE  CtlInv'
  <1>1. CASE _state[c] \in {"starting", "running"}
    BY <1>1 DEF CtlInv, CtlTypeOK, ThreadInv, CallInv, NoTrap, StopSticks,
                request_stop, State
  <1>2. CASE _state[c] \notin {"starting", "running"}
    BY <1>2 DEF CtlInv, CtlTypeOK, ThreadInv, CallInv, NoTrap, StopSticks,
                request_stop, State
  <1>3. QED
    BY <1>1, <1>2

(* A compare-exchange of a request_stop, successful or not. *)
LEMMA StopCasCtlInv ==
    ASSUME CtlInv, NEW k \in Caller, stop_cas(k)
    PROVE  CtlInv'
  <1> DEFINE c == call[k].ctl
  <1>1. c \in Ctl /\ call[k].observed \in {"starting", "running"}
    BY DEF CtlInv, CallInv, stop_cas
  <1>2. Idle \in [ctl : Ctl \cup {Nobody}, observed : State]
    BY DEF Idle, State
  <1>3. CASE _state[c] = call[k].observed
    <2>1. /\ _state' = [_state EXCEPT ![c] = "draining"]
          /\ call' = [call EXCEPT ![k] = Idle]
          /\ asked' = asked \cup {c}
          /\ UNCHANGED <<_kernel_tid, pipes, joinable, tpc, trapped>>
      BY <1>3 DEF stop_cas
    <2> HIDE DEF c
    <2>2. _state[c] \in {"starting", "running"}
      BY <1>1, <1>3 DEF c
    <2>3. CtlTypeOK'
      BY <1>1, <1>2, <2>1 DEF CtlInv, CtlTypeOK, State
    <2>4. ASSUME NEW d \in Ctl PROVE ThreadInv(d)'
      BY <1>1, <2>1, <2>2, <2>4 DEF CtlInv, CtlTypeOK, ThreadInv, TrampolinePc
    <2>5. CallInv' /\ NoTrap' /\ StopSticks'
      BY <1>1, <2>1 DEF CtlInv, CtlTypeOK, CallInv, NoTrap, StopSticks
    <2>6. QED
      BY <2>3, <2>4, <2>5 DEF CtlInv
  <1>4. CASE _state[c] # call[k].observed /\ _state[c] \in {"starting", "running"}
    <2>1. /\ call' = [call EXCEPT ![k].observed = _state[c]]
          /\ UNCHANGED <<_state, asked, _kernel_tid, pipes, joinable, tpc, trapped>>
      BY <1>4 DEF stop_cas
    <2>2. QED
      BY <1>1, <1>4, <2>1 DEF CtlInv, CtlTypeOK, ThreadInv, CallInv, NoTrap,
                              StopSticks, Idle, State
  <1>5. CASE _state[c] \notin {"starting", "running"}
    <2>1. /\ call' = [call EXCEPT ![k] = Idle] /\ asked' = asked \cup {c}
          /\ UNCHANGED <<_state, _kernel_tid, pipes, joinable, tpc, trapped>>
      BY <1>1, <1>5 DEF stop_cas
    <2>2. QED
      BY <1>1, <1>2, <1>5, <2>1 DEF CtlInv, CtlTypeOK, ThreadInv, CallInv,
                                    NoTrap, StopSticks, State
  <1>6. QED
    BY <1>3, <1>4, <1>5

(* The steps of the thread: the promotion is where a stop may have won. *)
LEMMA TrampolineCtlInv ==
    ASSUME CtlInv, NEW c \in Ctl, Trampoline(c)
    PROVE  CtlInv'
  <1> USE DEF CtlInv, CtlTypeOK, ThreadInv, CallInv, NoTrap, StopSticks, GoTo,
              TrampolinePc, State
  <1>1. CASE publish_tid(c)
    BY <1>1 DEF publish_tid
  <1>2. CASE attach(c)
    BY <1>2 DEF attach
  <1>3. CASE promote(c)
    <2>1. CASE _state[c] = "starting"
      BY <1>3, <2>1 DEF promote
    <2>2. CASE _state[c] # "starting"
      <3>1. _state[c] = "draining"
        BY <1>3, <2>2 DEF promote
      <3>2. QED
        BY <1>3, <2>2, <3>1 DEF promote
    <2>3. QED
      BY <2>1, <2>2
  <1>4. CASE leave_loop(c)
    BY <1>4 DEF leave_loop
  <1>5. CASE publish_stopped(c)
    BY <1>5 DEF publish_stopped
  <1>6. QED
    BY <1>1, <1>2, <1>3, <1>4, <1>5 DEF Trampoline

(* Every step preserves the inductive invariant. *)
LEMMA StepCtlInv == CtlInv /\ [CtlNext]_ctlVars => CtlInv'
  <1> SUFFICES ASSUME CtlInv, [CtlNext]_ctlVars PROVE CtlInv'
    OBVIOUS
  <1>1. CASE UNCHANGED ctlVars
    BY <1>1 DEF ctlVars, CtlInv, CtlTypeOK, ThreadInv, CallInv, NoTrap, StopSticks
  <1>2. CASE CtlNext
    BY <1>2, OwnerCtlInv, TrampolineCtlInv, RequestStopCtlInv, StopCasCtlInv
       DEF CtlNext
  <1>3. QED
    BY <1>1, <1>2

(* The inductive invariant of the lifecycle. *)
THEOREM CtlInvariance == CtlSpec => []CtlInv
  <1>1. QED
    BY InitCtlInv, StepCtlInv, PTL DEF CtlSpec

(* No LNX_CHECK of the lifecycle fires, however stop requests interleave   *)
(* with the trampoline.                                                    *)
THEOREM NeverTraps == CtlSpec => []NoTrap
  <1>1. CtlInv => NoTrap
    BY DEF CtlInv
  <1>2. QED
    BY <1>1, CtlInvariance, PTL

(* A request_stop that returned is never undone, not even by a promotion   *)
(* that was already under way.                                             *)
THEOREM StopNeverLost == CtlSpec => []StopSticks
  <1>1. CtlInv => StopSticks
    BY DEF CtlInv
  <1>2. QED
    BY <1>1, CtlInvariance, PTL

(* Whoever observes running also finds the published tid. *)
THEOREM TidIsPublished == CtlSpec => []TidBeforeRunning
  <1>1. CtlInv => TidBeforeRunning
    BY DEF CtlInv, CtlTypeOK, ThreadInv, TidBeforeRunning, TrampolinePc
  <1>2. QED
    BY <1>1, CtlInvariance, PTL

(* The published state tells where the thread is. *)
THEOREM StateIsTruthful == CtlSpec => []StateMatchesThread
  <1>1. CtlInv => StateMatchesThread
    BY DEF CtlInv, CtlTypeOK, ThreadInv, StateMatchesThread, TrampolinePc
  <1>2. QED
    BY <1>1, CtlInvariance, PTL

(* The state only moves forward along the lifecycle. *)
THEOREM ForwardOnly == CtlSpec => LifecycleForward
  <1> DEFINE A == \A c \in Ctl : _state'[c] # _state[c]
                                   => LegalStep(_state[c], _state'[c])
  <1>1. CtlInv /\ [CtlNext]_ctlVars => [A]_ctlVars
    <2> SUFFICES ASSUME CtlInv, CtlNext PROVE A
      OBVIOUS
    <2>1. ASSUME NEW c \in Ctl, Owner(c) PROVE A
      BY <2>1 DEF Owner, install_pipes, start, join
    <2>2. ASSUME NEW c \in Ctl, Trampoline(c) PROVE A
      BY <2>2 DEF CtlInv, CtlTypeOK, ThreadInv, Trampoline, publish_tid, attach,
                  promote, leave_loop, publish_stopped, GoTo, LegalStep
    <2>3. ASSUME NEW k \in Caller, NEW c \in Ctl, request_stop(k, c) PROVE A
      BY <2>3 DEF request_stop
    <2>4. ASSUME NEW k \in Caller, stop_cas(k) PROVE A
      BY <2>4 DEF CtlInv, CtlTypeOK, CallInv, stop_cas, LegalStep
    <2>5. QED
      BY <2>1, <2>2, <2>3, <2>4 DEF CtlNext
  <1>2. QED
    BY <1>1, CtlInvariance, PTL DEF CtlSpec, LifecycleForward
=============================================================================
