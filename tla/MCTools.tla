------------------------------ MODULE MCTools ------------------------------
(* Instance of Tools for TLC. *)
EXTENDS Tools

(* Nanoseconds and microseconds. *)
MCDivisor == <<1, 1000>>

(* Filler: three classes that fit in a blob and one that does not. *)
MCSizeClasses == <<2, 3, 5, 8>>

MCDefaults ==
    [conns |-> 3, per_room |-> 1, src_ips |-> 1, src_ip_base |-> 1, inflight |-> 1,
     server_pid |-> 0, rate |-> 1, duration |-> 1, size |-> 2, node |-> 0, corpus_seed |-> 1]

(* A value on either side of every limit parse_args has. *)
MCValues ==
    [conns |-> {0, 9}, per_room |-> {0}, src_ips |-> {0, 2, 255}, src_ip_base |-> {0, 2, 254},
     inflight |-> {0}, server_pid |-> {-1}, rate |-> {-1, 0}, duration |-> {-1, 0},
     size |-> {-1, 7, 20}, node |-> {-1, 1}, corpus_seed |-> {-1}]

(* Lines of characters one and three bytes long. *)
MCPool == {<<1>>, <<3>>, <<3, 3>>, <<1, 3>>, <<1, 3, 3>>}

(* A hard limit that is too low, one that is not, and a soft limit that    *)
(* is high already.                                                        *)
MCFdLimits ==
    {[cur |-> 2, max |-> 4], [cur |-> 2, max |-> 20], [cur |-> 16, max |-> 20]}

(* A negative latency, one in the second and the third bucket, and one     *)
(* past the range.                                                         *)
MCNs == {-1, 2, 5, 7}
=============================================================================
