------------------------------ MODULE RunSetup ------------------------------
(***************************************************************************)
(* What a load generator run is made of, from the command line to the      *)
(* frames: parse_args (client-bench/src/config.cpp), the descriptor limit  *)
(* (netutil.cpp, main.cpp), the corpus (corpus.cpp) and the frame buffer   *)
(* of run_traffic (traffic.cpp).                                           *)
(*                                                                         *)
(* A byte of text is <<w, k>>: the k-th of a character w bytes long.  The  *)
(* corpus draws its lines from its pools by a seeded generator; here it    *)
(* draws any line.  The ints of a command line do not overflow in          *)
(* parse_args; getrlimit works.                                            *)
(***************************************************************************)
EXTENDS Integers, Sequences, FiniteSets, SequencesExt, FiniteSetsExt

CONSTANTS
    k_max_payload, k_prefix_slack, k_blob_header,
    k_size_classes,           \* the four filler lengths of --size-mix
    Defaults, Values,         \* the int options: defaults, values on a command line
    Pool,                     \* corpus_data: lines, as sequences of widths
    Entries,                  \* lines in the corpus (4096)
    k_least_fds, k_spare_fds, k_spare_conns,   \* 65536, 256 and 16 in main()
    FdLimits,                 \* RLIMIT_NOFILE: pairs of soft and hard limit
    MaxArgs, MaxFrames        \* bounds: options given, frames built

k_max_blob == k_max_payload - k_prefix_slack

SIZE_MAX == 1000000

Options == {"conns", "per_room", "src_ips", "src_ip_base", "inflight", "server_pid",
            "rate", "duration", "size", "node", "corpus_seed"}
Flags == {"size_mix", "use_corpus"}

(* A payload has room for the header of a blob; the last size class is the *)
(* greatest; no limit is above its hard limit.                             *)
ASSUME SetupAssumption ==
    /\ k_max_payload \in Nat /\ k_prefix_slack \in Nat /\ k_blob_header \in Nat
    /\ k_max_blob - k_blob_header \in 0..SIZE_MAX
    /\ \A class \in 1..4 : k_size_classes[class] \in 0..k_size_classes[4]
    /\ DOMAIN Defaults = Options /\ \A o \in Options : Defaults[o] \in Int
    /\ DOMAIN Values \subseteq Options /\ \A o \in DOMAIN Values : Values[o] \subseteq Int
    /\ \A line \in Pool : line \in Seq(Nat \ {0})
    /\ Entries \in Nat \ {0}
    /\ k_least_fds \in Nat /\ k_spare_fds \in Nat /\ k_spare_conns \in Nat
    /\ \A r \in FdLimits : r \in [cur : Nat, max : Nat] /\ r.cur <= r.max

VARIABLES
    stage,                    \* "args", "limits", "corpus", "traffic",
                              \* "idle" (no traffic asked for), "rejected"
    cfg, argc,                \* the options so far and how many were given
    rlim,                     \* the process's RLIMIT_NOFILE
    limit,                    \* what main() believes it is
    corpus,                   \* lines_, cursor_, total_, min_, max_
    class_cursor,
    frame                     \* the last one: text copied, and source length

setup_vars == <<stage, cfg, argc, rlim, limit, corpus, class_cursor, frame>>

SetupInit ==
    /\ stage = "args" /\ argc = 0
    /\ cfg = [o \in Options \cup Flags |-> IF o \in Options THEN Defaults[o] ELSE FALSE]
    /\ rlim \in FdLimits
    /\ limit = 0 /\ class_cursor = 0
    /\ corpus = [lines_ |-> << >>, cursor_ |-> 0, total_ |-> 0, min_ |-> 0, max_ |-> 0]
    /\ frame = [sent |-> 0, text |-> << >>, source |-> 0]

(***************************************************************************)
(* parse_args                                                              *)
(***************************************************************************)
(* One option, its value with it. *)
parse_option ==
    /\ stage = "args" /\ argc < MaxArgs
    /\ argc' = argc + 1
    /\ \/ \E o \in DOMAIN Values : \E n \in Values[o] :
            /\ stage' = IF o \in {"node", "corpus_seed"} /\ n < 0 THEN "rejected" ELSE "args"
            /\ cfg' = [cfg EXCEPT ![o] = n]
       \/ \E flag \in Flags :
            cfg' = [cfg EXCEPT ![flag] = TRUE] /\ UNCHANGED stage
    /\ UNCHANGED <<rlim, limit, corpus, class_cursor, frame>>

(* An option that is not known, or that ends the command line without its value. *)
parse_unknown ==
    /\ stage = "args"
    /\ stage' = "rejected"
    /\ UNCHANGED <<cfg, argc, rlim, limit, corpus, class_cursor, frame>>

Refused(c) ==
    \/ \E count \in {"conns", "per_room", "src_ips", "inflight"} : c[count] <= 0
    \/ c.src_ip_base < 1 \/ c.src_ip_base + c.src_ips - 1 > 255
    \/ c.server_pid < 0
    \/ c.rate < 0 \/ c.duration < 0

clamp_size(size) ==
    LET n == IF size < 0 THEN 0 ELSE size
    IN  IF n + k_blob_header > k_max_blob THEN k_max_blob - k_blob_header ELSE n

parse_end ==
    /\ stage = "args"
    /\ stage' = IF Refused(cfg) THEN "rejected" ELSE "limits"
    /\ cfg' = IF Refused(cfg) THEN cfg ELSE [cfg EXCEPT !.size = clamp_size(@)]
    /\ UNCHANGED <<argc, rlim, limit, corpus, class_cursor, frame>>

(***************************************************************************)
(* main: the descriptor limit, then the tables                             *)
(***************************************************************************)
raise_fd_limit(want, ok) ==
    LET target == Min({want, rlim.max})
        raised == rlim.cur < target
    IN  IF raised /\ ~ok THEN [rlim |-> rlim, got |-> rlim.cur]
        ELSE [rlim |-> [rlim EXCEPT !.cur = Max({@, target})], got |-> target]

set_limits ==
    /\ stage = "limits"
    /\ \E ok \in BOOLEAN :
         LET r == raise_fd_limit(Max({k_least_fds, cfg.conns + k_spare_fds}), ok)
         IN  rlim' = r.rlim /\ limit' = r.got
    /\ stage' = IF cfg.rate = 0 \/ cfg.duration = 0 THEN "idle"
                ELSE IF cfg.use_corpus THEN "corpus" ELSE "traffic"
    /\ corpus' = [corpus EXCEPT !.min_ = IF cfg.use_corpus THEN SIZE_MAX ELSE 0]
    /\ UNCHANGED <<cfg, argc, class_cursor, frame>>

(* The last octet of the address a connection is bound to, if it is bound. *)
bind_source(index) ==
    IF cfg.src_ips <= 1 THEN {} ELSE {cfg.src_ip_base + (index % cfg.src_ips)}

(***************************************************************************)
(* corpus::build, a line at a time                                         *)
(***************************************************************************)
Bytes(line) == FlattenSeq([i \in DOMAIN line |-> [k \in 1..line[i] |-> <<line[i], k>>]])

Drawn == {Bytes(line) : line \in Pool} \cup
         {Bytes(a \o << 1 >> \o b) : a, b \in Pool}

Continues(byte) == byte[2] > 1

(* Fault: the byte budget splits a character. *)
cut_at_budget(s, max_bytes) == SubSeq(s, 1, Min({Len(s), max_bytes}))

(* Cut back, from max_bytes, to a byte that begins a character. *)
cut(s, max_bytes) ==
    IF Len(s) <= max_bytes THEN s
    ELSE SubSeq(s, 1, Max({c \in 0..max_bytes : c = 0 \/ ~Continues(s[c + 1])}))

build_line ==
    /\ stage = "corpus" /\ Len(corpus.lines_) < Entries
    /\ \E drawn \in Drawn :
         LET s == cut(drawn, k_max_blob - k_blob_header)
         IN  corpus' = [corpus EXCEPT !.lines_ = Append(@, s), !.total_ = @ + Len(s),
                          !.min_ = Min({@, Len(s)}), !.max_ = Max({@, Len(s)})]
    /\ stage' = IF Len(corpus.lines_) + 1 = Entries THEN "traffic" ELSE "corpus"
    /\ UNCHANGED <<cfg, argc, rlim, limit, class_cursor, frame>>

(***************************************************************************)
(* run_traffic: one frame.  Filler is one-byte characters.                 *)
(***************************************************************************)
Filler == Max({cfg.size, k_size_classes[4]})

frame_of_corpus ==
    LET line == corpus.lines_[corpus.cursor_ + 1]
    IN  /\ cfg.use_corpus
        /\ frame' = [sent |-> frame.sent + 1, text |-> line, source |-> Len(line)]
        /\ corpus' = [corpus EXCEPT !.cursor_ = (@ + 1) % Len(corpus.lines_)]
        /\ UNCHANGED class_cursor

frame_of_filler ==
    LET fill == IF cfg.size_mix THEN k_size_classes[(class_cursor % 4) + 1] ELSE cfg.size
        n    == Min({fill, k_max_blob - k_blob_header})
    IN  /\ ~cfg.use_corpus
        /\ frame' = [sent |-> frame.sent + 1, text |-> [i \in 1..n |-> <<1, 1>>],
                     source |-> Filler]
        /\ class_cursor' = IF cfg.size_mix THEN class_cursor + 1 ELSE class_cursor
        /\ UNCHANGED corpus

build_frame ==
    /\ stage = "traffic" /\ frame.sent < MaxFrames
    /\ frame_of_corpus \/ frame_of_filler
    /\ UNCHANGED <<stage, cfg, argc, rlim, limit>>

SetupNext == parse_option \/ parse_unknown \/ parse_end \/ set_limits \/ build_line \/ build_frame

SetupSpec == SetupInit /\ [][SetupNext]_setup_vars

(***************************************************************************)
(* Properties                                                              *)
(***************************************************************************)
Whole(text) == text = << >> \/ Last(text)[1] = Last(text)[2]

FrameFits ==
    /\ Len(frame.text) <= frame.source
    /\ k_blob_header + Len(frame.text) <= k_max_blob
    /\ Whole(frame.text)

CorpusMeasured ==
    LET sizes == {Len(corpus.lines_[i]) : i \in DOMAIN corpus.lines_}
    IN  /\ sizes # {} => corpus.min_ = Min(sizes) /\ corpus.max_ = Max(sizes)
        /\ corpus.total_ = FoldSeq(LAMBDA s, n : Len(s) + n, 0, corpus.lines_)

(* The descriptors connections get are below the soft limit, and no higher *)
(* than the connections and the few others that are open.                  *)
TableHolds ==
    \A fd \in 0..(Min({rlim.cur, cfg.conns + k_spare_fds}) - 1) : fd < limit + k_spare_conns

(* A run that parse_args accepted and main() set up is sound: every frame  *)
(* fits its buffer and the server's payload cap, is read from text that    *)
(* long, and ends with a whole character, as does every corpus line; a     *)
(* connection that is bound has one of 127.0.0.1 to 127.0.0.255; and the   *)
(* connection table has a record for every descriptor a connection gets.   *)
AcceptedRunIsSound ==
    stage \in {"corpus", "traffic"} =>
      /\ FrameFits /\ CorpusMeasured /\ TableHolds
      /\ \A i \in DOMAIN corpus.lines_ : Whole(corpus.lines_[i])
      /\ \A index \in 0..(cfg.conns - 1) : bind_source(index) \subseteq 1..255

(***************************************************************************)
(* The inductive invariant behind it                                       *)
(***************************************************************************)
TextByte == (Nat \ {0}) \X (Nat \ {0})

(* Only the last byte of a character is before one that begins another.    *)
IsText(s) ==
    /\ s \in Seq(TextByte) /\ Whole(s)
    /\ \A i \in 1..(Len(s) - 1) : Continues(s[i + 1]) \/ s[i][1] = s[i][2]

IsCarried(s) == k_blob_header + Len(s) <= k_max_blob

SetupTypeOK ==
    /\ stage \in {"args", "limits", "corpus", "traffic", "idle", "rejected"}
    /\ DOMAIN cfg = Options \cup Flags
    /\ \A o \in Options : cfg[o] \in Int
    /\ rlim \in [cur : Nat, max : Nat] /\ rlim.cur <= rlim.max /\ limit \in Nat
    /\ class_cursor \in Nat
    /\ corpus \in [lines_ : Seq(Seq(TextByte)), cursor_ : 0..(Entries - 1),
                   total_ : Nat, min_ : Nat, max_ : Nat]
    /\ frame \in [sent : Nat, text : Seq(TextByte), source : Nat]

(* What is known at each stage. *)
StageHolds ==
    /\ stage \in {"limits", "corpus", "traffic"} =>
         ~Refused(cfg) /\ cfg.size \in 0..(k_max_blob - k_blob_header)
    /\ stage \in {"corpus", "traffic"} => TableHolds
    /\ stage \notin {"corpus", "traffic"} => corpus.lines_ = << >>
    /\ stage = "corpus" => Len(corpus.lines_) < Entries
    /\ stage = "traffic" /\ cfg.use_corpus => Len(corpus.lines_) = Entries

CorpusHolds ==
    /\ \A i \in DOMAIN corpus.lines_ : IsText(corpus.lines_[i]) /\ IsCarried(corpus.lines_[i])
    /\ CorpusMeasured
    /\ corpus.lines_ = << >> => corpus.max_ = 0
    /\ corpus.lines_ = << >> /\ stage = "corpus" => corpus.min_ = SIZE_MAX

SetupInv == SetupTypeOK /\ StageHolds /\ CorpusHolds /\ FrameFits
=============================================================================
