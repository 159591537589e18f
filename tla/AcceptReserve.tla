---------------------------- MODULE AcceptReserve ----------------------------
(***************************************************************************)
(* on_accept of the chat servers when the process runs out of descriptors  *)
(* (LESSON 6 of server.cpp): the reserve descriptor is given up to accept  *)
(* and close one pending connection, then opened again.                    *)
(*                                                                         *)
(* Descriptors are a count, limited by RLIMIT_NOFILE (EMFILE).  The ones   *)
(* open from boot to exit are not counted.                                 *)
(***************************************************************************)
EXTENDS Integers

CONSTANTS
    NoFile,         \* descriptors left to connections and the reserve
    g_max_conns,
    MaxClients      \* bound: clients that ever connect

ASSUME AcceptAssumption ==
    NoFile \in Nat \ {0} /\ g_max_conns \in Nat /\ MaxClients \in Nat

VARIABLES
    came,       \* clients that connected
    gone,       \* clients taken off the backlog
    conns,      \* connections served
    g_reserve,  \* g_reserve >= 0
    accept_pc   \* "wait", "accept", "shed", "victim", "reopen"

accept_vars == <<came, gone, conns, g_reserve, accept_pc>>

AcceptInit ==
    /\ came = 0 /\ gone = 0 /\ conns = 0
    /\ g_reserve = TRUE /\ accept_pc = "wait"

Used == conns + (IF g_reserve THEN 1 ELSE 0) + (IF accept_pc = "victim" THEN 1 ELSE 0)
EMFILE == Used >= NoFile
Pending == gone < came

-----------------------------------------------------------------------------
client_connects ==
    /\ came < MaxClients
    /\ came' = came + 1
    /\ UNCHANGED <<gone, conns, g_reserve, accept_pc>>

(* A connection is reaped. *)
conn_closes ==
    /\ accept_pc = "wait" /\ conns > 0
    /\ conns' = conns - 1
    /\ UNCHANGED <<came, gone, g_reserve, accept_pc>>

-----------------------------------------------------------------------------
(* The listener is readable, level-triggered. *)
listen_readable ==
    /\ accept_pc = "wait" /\ Pending
    /\ accept_pc' = "accept"
    /\ UNCHANGED <<came, gone, conns, g_reserve>>

(* A pending client is taken: served, refused by the cap or for want of an *)
(* epoll registration, or found to have vanished (ECONNABORTED).           *)
accept_client ==
    /\ accept_pc = "accept" /\ Pending /\ ~EMFILE
    /\ gone' = gone + 1
    /\ \/ conns < g_max_conns /\ conns' = conns + 1
       \/ UNCHANGED conns
    /\ UNCHANGED <<came, g_reserve, accept_pc>>

accept_drained ==
    /\ accept_pc = "accept" /\ ~Pending /\ ~EMFILE
    /\ accept_pc' = "wait"
    /\ UNCHANGED <<came, gone, conns, g_reserve>>

(* Out of descriptors (the kernel says so before it looks at the backlog): *)
(* shed a connection if there is a reserve to do it with.                  *)
accept_full ==
    /\ accept_pc = "accept" /\ EMFILE
    /\ g_reserve' = FALSE
    /\ accept_pc' = IF g_reserve THEN "shed" ELSE "wait"
    /\ UNCHANGED <<came, gone, conns>>

shed_accept ==
    /\ accept_pc = "shed"
    /\ IF Pending /\ ~EMFILE
       THEN gone' = gone + 1 /\ accept_pc' = "victim"
       ELSE UNCHANGED gone /\ accept_pc' = "reopen"
    /\ UNCHANGED <<came, conns, g_reserve>>

(* Fault: the reserve is opened before the victim is closed. *)
close_victim_late ==
    /\ accept_pc = "victim"
    /\ g_reserve' = ~EMFILE
    /\ accept_pc' = "wait"
    /\ UNCHANGED <<came, gone, conns>>

close_victim ==
    /\ accept_pc = "victim"
    /\ accept_pc' = "reopen"
    /\ UNCHANGED <<came, gone, conns, g_reserve>>

reopen ==
    /\ accept_pc = "reopen"
    /\ g_reserve' = ~EMFILE
    /\ accept_pc' = "wait"
    /\ UNCHANGED <<came, gone, conns>>

AcceptLoop ==
    \/ listen_readable \/ accept_client \/ accept_drained \/ accept_full
    \/ shed_accept \/ close_victim \/ reopen

AcceptNext == AcceptLoop \/ client_connects \/ conn_closes

-----------------------------------------------------------------------------
(* Every client that connects is accepted or turned away, also when the    *)
(* process has no descriptor left and nobody ever leaves: the reserve is   *)
(* there each time it is needed (no livelock on a listener that stays      *)
(* readable, server.cpp:464-469).                                          *)
EveryClientAnswered == \A k \in 1..MaxClients : came >= k ~> gone >= k
=============================================================================
