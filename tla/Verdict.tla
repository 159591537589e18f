------------------------------ MODULE Verdict ------------------------------
(***************************************************************************)
(* Whether a load generator run may be quoted: the histograms              *)
(* (client-bench/src/histogram.h, .cpp), what run_traffic (traffic.cpp)    *)
(* puts in its statistics, the samples of the server's CPU time around the *)
(* traffic window, the report, with its dump and the exit status, and what *)
(* merge.py makes of the dump.                                             *)
(*                                                                         *)
(* Percentages are ratios of integers; a second is one unit of time and    *)
(* the server spends all or none of it.  The pid is not reused.            *)
(***************************************************************************)
EXTENDS Integers, FiniteSets, FiniteSetsExt

CONSTANTS
    bucket_ns, buckets,      \* histogram: width and number of buckets
    Printed, PDen, P99,      \* percentiles out of PDen: printed, and the verdict's
    per_room, cfg_conns,
    Tol, LossPm,             \* fan-out tolerance in percent, losses per mille
    k_lag_ratio, k_lag_floor_ns,
    Ns,                      \* latencies and lags that occur
    MaxSent, MaxIn, MaxSamples, MaxWall   \* bounds: sends, deliveries, samples, seconds

ASSUME VerdictAssumption ==
    /\ bucket_ns \in Nat \ {0} /\ buckets \in Nat \ {0}
    /\ PDen \in Nat \ {0} /\ Printed \subseteq 1..PDen /\ P99 \in Printed
    /\ {per_room, cfg_conns, Tol, LossPm, k_lag_ratio, k_lag_floor_ns} \subseteq Nat
    /\ per_room > 0
    /\ Ns \subseteq Int /\ IsFiniteSet(Ns)

VARIABLES
    phase,                   \* "traffic", "drain", "reported"
    st,                      \* traffic_stats
    cpu0, now,               \* first reading of the server's CPU; readings now
    seen,                    \* history: the samples, and the seconds of the window
    out                      \* the verdict, the note on the CPU, the dump

verdict_vars == <<phase, st, cpu0, now, seen, out>>

Unread == -1

INT64_MAX == 1000000

histogram == [counts |-> [b \in 0..(buckets - 1) |-> 0], total |-> 0, overflow |-> 0,
              max_ns |-> 0, min_ns |-> INT64_MAX]

VerdictInit ==
    /\ phase = "traffic"
    /\ st = [latency |-> histogram, self_lag |-> histogram, sent |-> 0, frames_in |-> 0,
             lost_conns |-> 0, cpu |-> Unread, wall |-> 0]
    /\ cpu0 \in {Unread, 0}          \* --server-pid given and readable, or not
    /\ now = [cpu |-> 0, wall |-> 0]
    /\ seen = [latency |-> [v \in Ns |-> 0], self_lag |-> [v \in Ns |-> 0], cpu |-> 0, wall |-> 0]
    /\ out = [verdict |-> "none"]

(***************************************************************************)
(* struct histogram                                                        *)
(***************************************************************************)
Tallied(h, v) == [h EXCEPT !.total = @ + 1, !.max_ns = Max({@, v}), !.min_ns = Min({@, v})]

(* Fault: samples beyond the range go to the last bucket. *)
histogram_add_clamped(h, ns) ==
    LET v == Max({ns, 0})
    IN  [Tallied(h, v) EXCEPT !.counts[Min({v \div bucket_ns, buckets - 1})] = @ + 1]

histogram_add(h, ns) ==
    LET v == Max({ns, 0})
        b == v \div bucket_ns
    IN  IF b >= buckets THEN [Tallied(h, v) EXCEPT !.overflow = @ + 1]
                        ELSE [Tallied(h, v) EXCEPT !.counts[b] = @ + 1]

UpTo(counts, b) == MapThenSumSet(LAMBDA c : counts[c], 0..b)

pct(h, p) ==
    LET want == (p * h.total) \div PDen
        at   == {b \in 0..(buckets - 1) : UpTo(h.counts, b) >= want}
    IN  CASE h.total = 0 -> [ns |-> 0, beyond |-> FALSE]
          [] h.total > 0 /\ at # {} -> [ns |-> Min(at) * bucket_ns, beyond |-> FALSE]
          [] OTHER -> [ns |-> buckets * bucket_ns, beyond |-> TRUE]

print_histogram(h) ==
    IF h.total = 0 THEN << >> ELSE [p \in Printed |-> pct(h, p)]

(* The occupied buckets and the counts beside them. *)
dump_histogram(h) ==
    [total |-> h.total, overflow |-> h.overflow, max_ns |-> h.max_ns,
     min_ns |-> IF h.total > 0 THEN h.min_ns ELSE 0,
     rows |-> {<<b, h.counts[b]>> : b \in {c \in DOMAIN h.counts : h.counts[c] > 0}}]

(***************************************************************************)
(* run_traffic                                                             *)
(***************************************************************************)
Sampled(h, ns) == [seen EXCEPT ![h][ns] = @ + 1]

(* A message comes due; its lag is sampled, whether or not it is sent. *)
issue ==
    /\ phase = "traffic" /\ st.self_lag.total < MaxSent
    /\ \E lag \in {v \in Ns : v >= 0}, sends \in BOOLEAN :
         /\ st' = [st EXCEPT !.self_lag = histogram_add(@, lag), !.sent = IF sends THEN @ + 1 ELSE @]
         /\ seen' = Sampled("self_lag", lag)
    /\ UNCHANGED <<phase, cpu0, now, out>>

(* A frame arrives: a notice or another node's chat, or one with a sample. *)
deliver ==
    /\ phase \in {"traffic", "drain"} /\ st.frames_in < MaxIn
    /\ \/ /\ st' = [st EXCEPT !.frames_in = @ + 1]
          /\ UNCHANGED seen
       \/ \E ns \in Ns :
            /\ st.latency.total < MaxSamples
            /\ st' = [st EXCEPT !.frames_in = @ + 1, !.latency = histogram_add(@, ns)]
            /\ seen' = Sampled("latency", ns)
    /\ UNCHANGED <<phase, cpu0, now, out>>

lose ==
    /\ phase \in {"traffic", "drain"} /\ st.lost_conns < cfg_conns
    /\ st' = [st EXCEPT !.lost_conns = @ + 1]
    /\ UNCHANGED <<phase, cpu0, now, seen, out>>

(* A second passes; after the window the server has nothing to do. *)
second_passes ==
    /\ phase \in {"traffic", "drain"} /\ now.wall < MaxWall
    /\ \E busy \in {0, 1} : /\ phase = "drain" => busy = 0
                            /\ now' = [cpu |-> now.cpu + busy, wall |-> now.wall + 1]
    /\ UNCHANGED <<phase, st, cpu0, seen, out>>

(* The window closes: the second reading, if the server is still there. *)
read_cpu(alive) ==
    IF cpu0 # Unread /\ alive /\ now.wall > 0
    THEN [st EXCEPT !.cpu = now.cpu - cpu0, !.wall = now.wall] ELSE st

window_closes ==
    /\ phase = "traffic"
    /\ phase' = "drain"
    /\ \E alive \in BOOLEAN : st' = read_cpu(alive)
    /\ seen' = [seen EXCEPT !.cpu = now.cpu, !.wall = now.wall]
    /\ UNCHANGED <<cpu0, now, out>>

(***************************************************************************)
(* report, dump_stats, and main's exit status                              *)
(***************************************************************************)
fanout_bad(s) ==
    /\ s.sent > 0
    /\ \/ 100 * s.frames_in > per_room * (100 + Tol) * s.sent
       \/ 100 * s.frames_in < per_room * (100 - Tol) * s.sent

too_many_lost(s) == s.lost_conns > (LossPm * cfg_conns) \div 1000

verdict(s) ==
    LET lat == pct(s.latency, P99)
        lag == pct(s.self_lag, P99)
        big == lag.ns * k_lag_ratio > lat.ns
    IN  CASE fanout_bad(s) \/ too_many_lost(s) \/ s.latency.total = 0 -> "VOID"
          [] OTHER -> IF lat.beyond \/ (big /\ lag.ns >= k_lag_floor_ns) THEN "VOID"
                      ELSE IF big THEN "WARN" ELSE "OK"

(* The remark that the server was below one core. *)
cpu_note(s) == IF s.cpu # Unread /\ 100 * s.cpu < 95 * s.wall THEN "below" ELSE "none"

dump_stats(s) ==
    [latency |-> dump_histogram(s.latency), self_lag |-> dump_histogram(s.self_lag),
     sent |-> s.sent, frames_in |-> s.frames_in, lost_conns |-> s.lost_conns]

report ==
    /\ phase = "drain"
    /\ phase' = "reported"
    /\ out' = [verdict |-> verdict(st), note |-> cpu_note(st),
               latency |-> print_histogram(st.latency),
               self_lag |-> print_histogram(st.self_lag), dump |-> dump_stats(st)]
    /\ UNCHANGED <<st, cpu0, now, seen>>

(* main: 3 when the run is void. *)
exit_status == IF out.verdict = "VOID" THEN 3 ELSE 0

VerdictNext == issue \/ deliver \/ lose \/ second_passes \/ window_closes \/ report

VerdictSpec == VerdictInit /\ [][VerdictNext]_verdict_vars

(***************************************************************************)
(* merge.py, given the dump of one process                                 *)
(***************************************************************************)
parsed(d) ==
    [total |-> d.total,
     counts |-> [b \in {row[1] : row \in d.rows} |->
                   MapThenSumSet(LAMBDA row : row[2], {row \in d.rows : row[1] = b})]]

parse(d) == [d EXCEPT !.latency = parsed(@), !.self_lag = parsed(@)]

SeenUpTo(counts, b) == MapThenSumSet(LAMBDA c : counts[c], {c \in DOMAIN counts : c <= b})

(* Here the wanted count is not truncated. *)
merge_pct(h, p) ==
    LET at == {b \in DOMAIN h.counts : PDen * SeenUpTo(h.counts, b) >= p * h.total}
    IN  CASE h.total = 0 -> [ns |-> 0, beyond |-> FALSE]
          [] h.total > 0 /\ at # {} -> [ns |-> Min(at) * bucket_ns, beyond |-> FALSE]
          [] OTHER -> [ns |-> IF DOMAIN h.counts = {} THEN 0
                              ELSE Max(DOMAIN h.counts) * bucket_ns,
                       beyond |-> TRUE]

(* The thresholds are those in the header of the dump. *)
merge_verdict(d) ==
    LET lat == merge_pct(d.latency, P99)
        lag == merge_pct(d.self_lag, P99)
        big == lag.ns * k_lag_ratio > lat.ns
    IN  CASE \/ fanout_bad(d) \/ 1000 * d.lost_conns > LossPm * cfg_conns
             \/ d.latency.total = 0 \/ lat.beyond -> "VOID"
          [] OTHER -> IF big /\ (lag.ns >= k_lag_floor_ns \/ lag.beyond) THEN "VOID"
                      ELSE IF big THEN "WARN" ELSE "OK"

(***************************************************************************)
(* Properties                                                              *)
(***************************************************************************)
Count(s) == MapThenSumSet(LAMBDA v : s[v], Ns)

EndOfScale == bucket_ns * buckets

(* The k-th smallest sample, as a histogram can tell it: the start of its  *)
(* bucket, or the end of the range.                                        *)
Ranked(s, k) ==
    LET at  == {v \in Ns : MapThenSumSet(LAMBDA w : s[w], {w \in Ns : w <= v}) >= k}
        low == Max({0, Min(at)})
    IN  Min({(low \div bucket_ns) * bucket_ns, EndOfScale})

(* The least number of samples that is a share p of them or more, and the  *)
(* percentile: the sample at which that number is reached.                 *)
WholeShare(s, p) == (p * Count(s)) % PDen = 0
Asked(s, p) == (p * Count(s)) \div PDen + (IF WholeShare(s, p) THEN 0 ELSE 1)
Percentile(s, p) == IF Count(s) = 0 THEN 0 ELSE Ranked(s, Asked(s, p))

(* Whether a run with percentiles lat and lag may be quoted. *)
Quotable(lat, lag) ==
    /\ st.sent > 0 => /\ st.frames_in * 100 <= st.sent * per_room * (100 + Tol)
                      /\ st.frames_in * 100 >= st.sent * per_room * (100 - Tol)
    /\ st.lost_conns * 1000 <= LossPm * cfg_conns
    /\ Count(seen.latency) > 0
    /\ lat < EndOfScale
    /\ lag * k_lag_ratio <= lat \/ lag < k_lag_floor_ns

(* What is reported is the percentile, or is low by one sample where the   *)
(* share of the samples is not a whole number.                             *)
NearlyExact(r, s, p) ==
    /\ r.ns <= Percentile(s, p)
    /\ r.ns # Percentile(s, p) =>
         ~WholeShare(s, p) /\ (Asked(s, p) > 1 => r.ns = Ranked(s, Asked(s, p) - 1))
    /\ r.beyond <=> r.ns = EndOfScale

IsExact(r, s, p) ==
    /\ r.beyond <=> Percentile(s, p) = EndOfScale
    /\ ~r.beyond => r.ns = Percentile(s, p)

PercentilesHold ==
    \A h \in {"latency", "self_lag"} :
      \A p \in DOMAIN out[h] : NearlyExact(out[h][p], seen[h], p)

Shown99(h) == IF Count(seen[h]) = 0 THEN 0 ELSE out[h][P99].ns

FleetHolds ==
    LET d == parse(out.dump)
    IN  /\ \A h \in {"latency", "self_lag"} :
             \A p \in Printed : IsExact(merge_pct(d[h], p), seen[h], p)
        /\ ~merge_pct(d.self_lag, P99).beyond =>
             (merge_verdict(d) # "VOID" <=>
                Quotable(Percentile(seen.latency, P99), Percentile(seen.self_lag, P99)))

(* What a run reports is what happened in it (traffic.cpp:463-682).  Each  *)
(* percentile printed is the sample of its rank, to the bucket, or the one *)
(* before it when the rank is not a whole number, for histogram.h:53 cuts  *)
(* it to one (what that costs is BeyondRangeIsSaid).  The exit status says *)
(* a run may be quoted exactly when the deliveries were the asked fan-out, *)
(* no more connections than the bound were lost, and of those percentiles  *)
(* the latency is within the range and the client's own lag is small       *)
(* against it.  merge.py, from the dump alone, finds every percentile and  *)
(* which are past the range, and voids what the percentiles void unless    *)
(* that of the lag is itself past the range.  The server is called less    *)
(* than busy only if it was, over the traffic window.                      *)
VerdictIsJustified ==
    phase = "reported" =>
      /\ PercentilesHold
      /\ exit_status = 0 <=> Quotable(Shown99("latency"), Shown99("self_lag"))
      /\ FleetHolds
      /\ out.note = "below" => 100 * seen.cpu < 95 * seen.wall

(* histogram.h:46-48: "Overflow entries are the largest samples, so a      *)
(* percentile that falls inside them is reported as "beyond range" rather  *)
(* than invented."                                                         *)
BeyondRangeIsSaid ==
    phase = "reported" =>
      \A h \in {"latency", "self_lag"} : \A p \in DOMAIN out[h] :
        Percentile(seen[h], p) = EndOfScale => out[h][p].beyond

(***************************************************************************)
(* The inductive invariant behind it                                       *)
(***************************************************************************)
Histogram ==
    [counts : [0..(buckets - 1) -> Nat], total : Nat, overflow : Nat, max_ns : Int, min_ns : Int]

VerdictTypeOK ==
    /\ phase \in {"traffic", "drain", "reported"}
    /\ st \in [latency : Histogram, self_lag : Histogram, sent : Nat, frames_in : Nat,
               lost_conns : Nat, cpu : Int, wall : Nat]
    /\ cpu0 \in {Unread, 0}
    /\ now \in [cpu : Nat, wall : Nat]
    /\ seen \in [latency : [Ns -> Nat], self_lag : [Ns -> Nat], cpu : Nat, wall : Nat]

(* The samples of the buckets up to b. *)
Low(b) == {v \in Ns : Max({v, 0}) \div bucket_ns <= b}

(* A histogram counts each sample once, and where it belongs. *)
Tells(h, s) ==
    /\ h.total = Count(s)
    /\ \A b \in 0..(buckets - 1) :
         UpTo(h.counts, b) = MapThenSumSet(LAMBDA v : s[v], Low(b))

VerdictInv ==
    /\ VerdictTypeOK
    /\ Tells(st.latency, seen.latency) /\ Tells(st.self_lag, seen.self_lag)
    /\ phase = "traffic" => st.cpu = Unread
    /\ phase # "traffic" /\ st.cpu # Unread =>
         st.cpu = seen.cpu /\ st.wall = seen.wall
    /\ phase = "reported" =>
         out = [verdict |-> verdict(st), note |-> cpu_note(st),
                latency |-> print_histogram(st.latency),
                self_lag |-> print_histogram(st.self_lag), dump |-> dump_stats(st)]
=============================================================================
