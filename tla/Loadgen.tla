------------------------------ MODULE Loadgen ------------------------------
(***************************************************************************)
(* The load generator's connections through its three phases: run_connect  *)
(* (client-bench/src/connect.cpp) opens a window of them and greets, and   *)
(* run_traffic (traffic.cpp) sends on the ones that are up and then drains.*)
(*                                                                         *)
(* A descriptor closed while others open may be the next one handed out.   *)
(* Bytes are counts.  A send takes any part of what it is offered or       *)
(* fails; how many messages are due is left to chance; what was received   *)
(* is not looked at (a read works or ends the connection).  An epoll_wait  *)
(* error other than EINTR is left out.                                     *)
(***************************************************************************)
EXTENDS Integers, Sequences, FiniteSets, SequencesExt

CONSTANTS
    Fd,             \* descriptors the kernel may hand out
    cfg_conns, cfg_inflight,
    Hello,          \* bytes of the nick and join frames
    FrameSize,      \* sizes a message may have
    k_pending_max,  \* above this a connection is skipped (64 KiB)
    MaxMessages     \* bound: messages that come due

ASSUME LoadgenAssumption ==
    /\ IsFiniteSet(Fd) /\ cfg_conns \in Nat /\ cfg_inflight \in Nat \ {0}
    /\ Hello \in Nat \ {0} /\ FrameSize \subseteq Nat \ {0}
    /\ k_pending_max \in Nat /\ MaxMessages \in Nat

VARIABLES
    conns,          \* descriptor -> state, unsent tail, EPOLLOUT registered
    started, established, failed, inflight,
    live,           \* descriptors of the connections that are up
    m, lost_conns,  \* messages that came due; deaths counted after connect
    phase,          \* "connect", "traffic", "drain", "done"
    pc,             \* "top", "start", "wait", "batch"
    batch,          \* descriptors with an event not handled yet
    g_stop

counters == <<started, established, failed, inflight>>
load == <<m, lost_conns>>
vars == <<conns, counters, live, load, phase, pc, batch, g_stop>>

(* conn{}: what a closed descriptor's record is reset to. *)
conn == [state |-> "none", pending |-> 0, out_armed |-> FALSE]

Init ==
    /\ conns = [fd \in Fd |-> conn]
    /\ started = 0 /\ established = 0 /\ failed = 0 /\ inflight = 0
    /\ live = << >> /\ m = 0 /\ lost_conns = 0
    /\ phase = "connect" /\ pc = "top" /\ batch = {} /\ g_stop = FALSE

In(s) == {fd \in Fd : conns[fd].state = s}

(* SIGINT. *)
on_signal ==
    /\ ~g_stop
    /\ g_stop' = TRUE
    /\ UNCHANGED <<conns, counters, live, load, phase, pc, batch>>

-----------------------------------------------------------------------------
(* Fault: a connection that failed is waited for. *)
Resolved_ready_only == established >= cfg_conns

(* Every attempt has ended one way or the other. *)
Resolved == established + failed >= cfg_conns

(* run_traffic returns at once when nothing is up. *)
BeginTraffic ==
    /\ phase' = IF live = << >> THEN "done" ELSE "traffic"
    /\ pc' = "top"

connect_top ==
    /\ phase = "connect" /\ pc = "top"
    /\ IF g_stop \/ Resolved THEN BeginTraffic ELSE pc' = "start" /\ phase' = phase
    /\ UNCHANGED <<conns, counters, live, load, batch, g_stop>>

WindowOpen == inflight < cfg_inflight /\ started < cfg_conns

(* start_connect and the registration for EPOLLOUT succeed. *)
start_connect(fd) ==
    /\ phase = "connect" /\ pc = "start" /\ WindowOpen
    /\ conns[fd].state = "none"
    /\ conns' = [conns EXCEPT ![fd].state = "connecting", ![fd].out_armed = TRUE]
    /\ started' = started + 1 /\ inflight' = inflight + 1
    /\ UNCHANGED <<established, failed, live, load, phase, pc, batch, g_stop>>

(* One of them fails: the descriptor, if there was one, is closed. *)
start_fails ==
    /\ phase = "connect" /\ pc = "start" /\ WindowOpen
    /\ started' = started + 1 /\ failed' = failed + 1
    /\ UNCHANGED <<conns, established, inflight, live, load, phase, pc, batch, g_stop>>

window_full ==
    /\ phase = "connect" /\ pc = "start" /\ ~WindowOpen
    /\ pc' = "wait"
    /\ UNCHANGED <<conns, counters, live, load, phase, batch, g_stop>>

-----------------------------------------------------------------------------
(* epoll_wait of the three loops: a batch of events. *)
epoll_wait(ready) ==
    /\ phase # "done" /\ pc = "wait"
    /\ ready # {} /\ ready \subseteq In("ready") \cup In("connecting")
    /\ batch' = ready
    /\ pc' = "batch"
    /\ UNCHANGED <<conns, counters, live, load, phase, g_stop>>

(* Nothing until the timeout, or EINTR. *)
wait_empty ==
    /\ phase # "done" /\ pc = "wait"
    /\ IF phase = "connect" /\ inflight = 0 /\ started >= cfg_conns
         THEN BeginTraffic ELSE pc' = "top" /\ phase' = phase
    /\ UNCHANGED <<conns, counters, live, load, batch, g_stop>>

batch_over ==
    /\ pc = "batch" /\ batch = {}
    /\ pc' = "top"
    /\ UNCHANGED <<conns, counters, live, load, phase, batch, g_stop>>

Handle(fd, s) ==
    /\ pc = "batch" /\ fd \in batch /\ conns[fd].state = s
    /\ batch' = batch \ {fd}
    /\ UNCHANGED <<started, m, phase, pc, g_stop>>

(* Out of the set, closed, and the record made new. *)
Reset(fd) == conns' = [conns EXCEPT ![fd] = conn]

(* Refused or timed out. *)
connect_fails(fd) ==
    /\ Handle(fd, "connecting")
    /\ failed' = failed + 1 /\ inflight' = inflight - 1
    /\ Reset(fd)
    /\ UNCHANGED <<established, live, lost_conns>>

(* Connected: the greeting goes behind what the record holds, is flushed,  *)
(* and EPOLLOUT stays only for a tail.                                     *)
connect_ready(fd) ==
    /\ Handle(fd, "connecting")
    /\ inflight' = inflight - 1 /\ established' = established + 1
    /\ live' = Append(live, fd)
    /\ \E tail \in 0..(conns[fd].pending + Hello) :
         conns' = [conns EXCEPT ![fd] = [state |-> "ready", pending |-> tail,
                                         out_armed |-> tail > 0]]
    /\ UNCHANGED <<failed, lost_conns>>

(* Connected, but the flush meets an error: all of it undone. *)
greeting_fails(fd) ==
    /\ Handle(fd, "connecting")
    /\ inflight' = inflight - 1 /\ failed' = failed + 1
    /\ Reset(fd)
    /\ UNCHANGED <<established, live, lost_conns>>

(* A read that works (join notices, deliveries).  *)
readable(fd) ==
    /\ Handle(fd, "ready")
    /\ UNCHANGED <<conns, established, failed, inflight, live, lost_conns>>

(* EPOLLOUT: flush the tail, disarm when it is gone, then read.  The drain *)
(* only reads.                                                             *)
writable(fd) ==
    /\ phase # "drain" /\ conns[fd].out_armed
    /\ Handle(fd, "ready")
    /\ \E tail \in 0..conns[fd].pending :
         conns' = [conns EXCEPT ![fd].pending = tail, ![fd].out_armed = tail > 0]
    /\ UNCHANGED <<established, failed, inflight, live, lost_conns>>

(* Fault: a connection that dies stays established. *)
ready_dies_established(fd) ==
    /\ phase = "connect"
    /\ Handle(fd, "ready")
    /\ failed' = failed + 1
    /\ live' = RemoveFirst(live, fd)
    /\ Reset(fd)
    /\ UNCHANGED <<established, inflight, lost_conns>>

(* A connection that was up dies while others are opened: the first entry  *)
(* with its descriptor leaves the list.                                    *)
ready_dies(fd) ==
    /\ phase = "connect"
    /\ Handle(fd, "ready")
    /\ established' = established - 1 /\ failed' = failed + 1
    /\ live' = RemoveFirst(live, fd)
    /\ Reset(fd)
    /\ UNCHANGED <<inflight, lost_conns>>

(* It dies under load or in the drain: closed and counted. *)
traffic_dies(fd) ==
    /\ phase \in {"traffic", "drain"}
    /\ Handle(fd, "ready")
    /\ conns' = [conns EXCEPT ![fd].state = "dead"]
    /\ lost_conns' = lost_conns + 1
    /\ UNCHANGED <<established, failed, inflight, live>>

-----------------------------------------------------------------------------
(* The time is over, or a signal; g_stop also skips the drain. *)
next_phase ==
    /\ phase \in {"traffic", "drain"} /\ pc = "top"
    /\ phase' = IF phase = "traffic" /\ ~g_stop THEN "drain" ELSE "done"
    /\ UNCHANGED <<conns, counters, live, load, pc, batch, g_stop>>

traffic_top ==
    /\ phase \in {"traffic", "drain"} /\ pc = "top" /\ ~g_stop
    /\ pc' = IF phase = "traffic" THEN "start" ELSE "wait"
    /\ UNCHANGED <<conns, counters, live, load, phase, batch, g_stop>>

(* Message m is the turn of one connection of the list. *)
Due(fd) ==
    /\ phase = "traffic" /\ pc = "start" /\ m < MaxMessages
    /\ fd = live[(m % Len(live)) + 1]
    /\ m' = m + 1
    /\ UNCHANGED <<counters, live, phase, pc, batch, g_stop>>

(* A connection that is up and whose tail is not over the bound. *)
MaySend(fd) ==
    conns[fd].state = "ready" /\ conns[fd].pending <= k_pending_max

(* Fault: the write interest is left as it was. *)
send_frame_unarmed(fd, n) ==
    \E tail \in 0..(conns[fd].pending + n) :
        conns' = [conns EXCEPT ![fd].pending = tail]

(* The frame goes behind the tail; what the kernel did not take is the     *)
(* tail, and has EPOLLOUT registered.  Nothing is disarmed here.           *)
send_frame(fd, n) ==
    \E tail \in 0..(conns[fd].pending + n) :
        conns' = [conns EXCEPT ![fd].pending = tail,
                               ![fd].out_armed = @ \/ tail > 0]

issue(fd, n) ==
    /\ Due(fd) /\ MaySend(fd)
    /\ send_frame(fd, n)
    /\ UNCHANGED lost_conns

(* send fails: the connection is marked dead, and that is all. *)
issue_error(fd) ==
    /\ Due(fd) /\ MaySend(fd)
    /\ conns' = [conns EXCEPT ![fd].state = "dead"]
    /\ UNCHANGED lost_conns

(* Not up any more, or backpressed: the turn is lost. *)
issue_skip(fd) ==
    /\ Due(fd) /\ ~MaySend(fd)
    /\ UNCHANGED <<conns, lost_conns>>

(* Nothing more is due, or the burst is over. *)
issue_over ==
    /\ phase = "traffic" /\ pc = "start"
    /\ pc' = "wait"
    /\ UNCHANGED <<conns, counters, live, load, phase, batch, g_stop>>

-----------------------------------------------------------------------------
Event(fd) ==
    \/ connect_fails(fd) \/ connect_ready(fd) \/ greeting_fails(fd)
    \/ readable(fd) \/ writable(fd) \/ ready_dies(fd) \/ traffic_dies(fd)

Issue(fd) ==
    \/ \E n \in FrameSize : issue(fd, n)
    \/ issue_error(fd) \/ issue_skip(fd)

Loop ==
    \/ connect_top \/ start_fails \/ window_full \/ wait_empty \/ batch_over
    \/ next_phase \/ traffic_top \/ issue_over
    \/ \E fd \in Fd : start_connect(fd) \/ Event(fd) \/ Issue(fd)
    \/ \E ready \in SUBSET Fd : epoll_wait(ready)

Next == Loop \/ on_signal

(* The kernel reports every attempt's end sooner or later: a wait with an  *)
(* attempt outstanding does not stay empty for ever.                       *)
Reported(fd) == \E ready \in SUBSET Fd : fd \in ready /\ epoll_wait(ready)

Spec == Init /\ [][Next]_vars
FairSpec ==
    /\ Spec /\ WF_vars(Loop)
    /\ \A fd \in Fd : SF_vars(conns[fd].state = "connecting" /\ Reported(fd))

-----------------------------------------------------------------------------
TypeOK ==
    /\ conns \in [Fd -> [state : {"none", "connecting", "ready", "dead"},
                         pending : Nat, out_armed : BOOLEAN]]
    /\ started \in 0..cfg_conns /\ established \in 0..cfg_conns
    /\ failed \in 0..cfg_conns /\ inflight \in 0..cfg_inflight
    /\ m \in 0..MaxMessages /\ lost_conns \in 0..cfg_conns
    /\ live \in Seq(Fd) /\ batch \subseteq Fd
    /\ phase \in {"connect", "traffic", "drain", "done"}
    /\ pc \in {"top", "start", "wait", "batch"}

(* Whatever fails at whichever step of run_connect, every attempt is       *)
(* counted once as what it is now, and the list run_traffic sends on is    *)
(* exactly the connections that are up, although descriptors are reused.   *)
ConnsAccounted ==
    /\ started = established + failed + inflight
    /\ inflight = Cardinality(In("connecting"))
    /\ established = Cardinality(In("ready") \cup In("dead"))
    /\ Len(live) = established /\ ToSet(live) = In("ready") \cup In("dead")

(* An unsent tail always has the write interest that gets it moving, also  *)
(* one the greeting left for the traffic phase.                            *)
TailIsArmed ==
    \A fd \in In("ready") : conns[fd].pending > 0 => conns[fd].out_armed

(* What makes the two inductive: no descriptor is on the list twice, a     *)
(* record dies for good only under load, and the deaths lost_conns counts  *)
(* are some of those.                                                      *)
NoDuplicates == \A i, j \in 1..Len(live) : live[i] = live[j] => i = j

DeathsInv ==
    /\ phase = "connect" => In("dead") = {}
    /\ lost_conns <= Cardinality(In("dead"))

LoadInv == TypeOK /\ ConnsAccounted /\ TailIsArmed /\ NoDuplicates /\ DeathsInv

(* run_connect ends, and unless it was stopped nothing is left in flight.  *)
ConnectEnds == <>(phase # "connect" /\ (g_stop \/ (inflight = 0 /\ Resolved)))

(* traffic.cpp:599-600 and 618: the run is void when lost_conns says that  *)
(* too many "connections died during the run", because "a connection that  *)
(* dies mid-run stops offering load".                                      *)
DeathsCounted == Cardinality(In("dead")) = lost_conns
=============================================================================
