----------------------------- MODULE BenchRunner -----------------------------
(***************************************************************************)
(* sim/tools/bench_runner.py: one session of the benchmark runner.  a is   *)
(* its arguments, [compare, hs, pp, bp, cm, rp, li, ld, ve, be, ldb, me,   *)
(* l2, pf]: the --compare-* flag and the 13 parameters of the core.  A     *)
(* simulation's output is stood for by <<name, configuration>>, what it    *)
(* measured; e is how the tools it calls behave in one run_bench.          *)
(***************************************************************************)
EXTENDS Integers, Sequences, SequencesExt, FiniteSets

Fields == {"hs", "pp", "bp", "cm", "rp", "li", "ld", "ve", "be", "ldb", "me", "l2", "pf"}
OOO_COMPATIBLE_BENCHES == <<"bench_fib", "bench_sum_array">>
VECTOR_PAIR == <<"bench_vecadd_scalar", "bench_vecadd_vector">>
EXPECTED_X10 == {"bench_fib", "bench_sum_array", "bench_bubble_sort"}
None == <<>>

-----------------------------------------------------------------------------
(* What a --compare-* flag forces, so that its axis is no no-op, and the   *)
(* configurations it runs: one per key.                                    *)
Least(v, default) == IF v = 0 THEN default ELSE v
forced(a) ==
  CASE a.compare = "latency" /\ a.li = 0 /\ a.ld = 0 -> [a EXCEPT !.li = 3, !.ld = 3]
    [] a.compare \in {"replacement", "victim_cache", "mshr"} -> [a EXCEPT !.cm = 1]
    [] a.compare = "burst" -> [a EXCEPT !.cm = 1, !.be = 1, !.ld = Least(@, 5)]
    [] a.compare = "l2" -> [a EXCEPT !.cm = 1, !.l2 = Least(@, 8192)]
    [] a.compare = "prefetch" -> [a EXCEPT !.cm = 1, !.me = IF @ <= 1 THEN 2 ELSE @, !.pf = Least(@, 1)]
    [] OTHER -> a

AxisField ==
  [strategies |-> "hs", profiles |-> "pp", predictors |-> "bp", cache |-> "cm", replacement |-> "rp", victim_cache |-> "ve",
   burst |-> "ldb", mshr |-> "me", l2 |-> "l2", prefetch |-> "pf"]
keys(a) ==
  CASE a.compare \in {"strategies", "profiles", "cache", "latency", "burst"} -> <<0, 1>>
    [] a.compare = "predictors" -> <<0, 1, 2, 3>>
    [] a.compare = "replacement" -> <<0, 1, 2>>
    [] a.compare = "victim_cache" -> <<0, 4>>
    [] a.compare = "mshr" -> <<1, 2, 4>>
    [] a.compare = "l2" -> <<0, a.l2>>
    [] a.compare = "prefetch" -> <<0, a.pf>>
    [] a.compare = "none" -> <<a.hs>>
held(a) == [f \in Fields |-> a[f]]
pairs(a) ==
  CASE a.compare = "none" -> <<held(a)>>
    [] a.compare = "latency" -> <<[held(a) EXCEPT !["li"] = 0, !["ld"] = 0], held(a)>>
    [] a.compare = "burst" -> <<[held(a) EXCEPT !["ldb"] = a.ld], [held(a) EXCEPT !["ldb"] = 0]>>
    [] a.compare \in DOMAIN AxisField \ {"burst"} -> [k \in DOMAIN keys(a) |-> [held(a) EXCEPT ![AxisField[a.compare]] = keys(a)[k]]]

-----------------------------------------------------------------------------
(* run_bench and its two OOOCore variants.  files maps the tag of an       *)
(* output file in the work directory, which the session shares, to its     *)
(* content.  "silent": the simulator ends well and writes nothing.         *)
Outcomes == {"assembler error", "ISS error", "wrong x10", "compile error", "simulation error", "silent", "ok"}
OooOutcomes == Outcomes \cup {"no fence", "TIMEOUT"}
DefaultCore == [f \in Fields |-> IF f = "me" THEN 1 ELSE 0]
tag_no_l2(name, c) == <<name, "pipelined", [f \in Fields |-> IF f = "l2" THEN 0 ELSE c[f]]>>
tag(name, c) == <<name, "pipelined", c>>
tag_ooo(name, variant) == <<name, variant, DefaultCore>>

stops_before_simulation(e, checked) == e \in {"assembler error", "ISS error", "compile error"} \/ (e = "wrong x10" /\ checked)
\* vvp: the output files it leaves, and what is read back from out_path.
vvp(files, t, measured, e) ==
  LET after == IF e \in {"ok", "wrong x10", "TIMEOUT"} THEN [x \in DOMAIN files \cup {t} |-> IF x = t THEN measured ELSE files[x]] ELSE files
  IN [files |-> after, result |-> IF e \in {"simulation error", "TIMEOUT"} \/ t \notin DOMAIN after THEN None ELSE after[t]]
run_bench(files, name, c, e) ==
  IF stops_before_simulation(e, name \in EXPECTED_X10) THEN [files |-> files, result |-> None]
  ELSE vvp(files, tag(name, c), <<name, c>>, e)
\* strip_halt_trailer_for_ooo raises on a benchmark with no fence, which main
\* does not catch.
run_bench_ooo(files, name, e) ==
  IF stops_before_simulation(e, name \in EXPECTED_X10) THEN [files |-> files, result |-> None]
  ELSE vvp(files, tag_ooo(name, "ooo"), <<name, DefaultCore>>, e)
run_bench_ooo_vector(files, name, e) ==
  LET r == vvp(files, tag_ooo(name, "ooovec"), <<name, DefaultCore>>, e)
  IN IF e \in {"assembler error", "compile error"} THEN [files |-> files, result |-> None]
     ELSE IF e = "wrong x10" THEN [r EXCEPT !.result = None] ELSE r

-----------------------------------------------------------------------------
(* main(): o is the session.  key and prog say which run is next; results  *)
(* is all_results; reported is the list of printed comparisons; exit is    *)
(* the exit status once the session has ended.                             *)
Session(a, progs) ==
  [a |-> forced(a), progs |-> progs, key |-> 1, prog |-> 1, files |-> [t \in {} |-> None],
   results |-> [k \in ToSet(keys(forced(a))) |-> <<>>], reported |-> <<>>, failed |-> FALSE, exit |-> IF progs = <<>> THEN {1} ELSE {}]
OooSession(a) ==
  [a |-> a, progs |-> IF a.compare = "vector" THEN VECTOR_PAIR ELSE OOO_COMPATIBLE_BENCHES, key |-> 1, prog |-> 1,
   files |-> [t \in {} |-> None], results |-> <<>>, reported |-> <<>>, failed |-> FALSE, exit |-> {}]
start(a, progs) == IF a.compare \in {"ooo", "vector"} THEN OooSession(a) ELSE Session(a, progs)

axis_run(o, e) ==
  LET name == o.progs[o.prog]
      k == keys(o.a)[o.key]
      r == run_bench(o.files, name, pairs(o.a)[o.key], e)
      last == o.prog = Len(o.progs)
  IN [o EXCEPT !.files = r.files, !.results[k] = Append(@, <<name, r.result>>), !.failed = @ \/ r.result = None,
               !.prog = IF last THEN 1 ELSE @ + 1, !.key = IF last THEN @ + 1 ELSE @]

\* by_name_key.get(name): dict() keeps the last of a name.
by_name(results, name) ==
  LET own == SelectSeq(results, LAMBDA r : r[1] = name) IN IF own = <<>> THEN None ELSE Last(own)[2]
comparison(o, key) ==
  LET base == o.results[keys(o.a)[1]]
      line(r) == [name |-> r[1], from |-> r[2], to |-> by_name(o.results[key], r[1])]
  IN SelectSeq([j \in DOMAIN base |-> line(base[j])], LAMBDA d : d.from # None /\ d.to # None)
report(o) ==
  [o EXCEPT !.reported = IF o.a.compare = "none" THEN <<>> ELSE FlattenSeq([j \in 1 .. Len(keys(o.a)) - 1 |-> comparison(o, keys(o.a)[j + 1])]),
            !.exit = {IF o.failed THEN 1 ELSE 0}]

\* --compare-ooo: both cores on each benchmark; --compare-vector: the pair on
\* OOOCore.  Either ends with sys.exit(0), unless an exception ends it first.
ooo_run(o, e, e2) ==
  LET name == o.progs[o.prog]
      p == run_bench(o.files, name, DefaultCore, e)
      r == run_bench_ooo(p.files, name, e2)
      complete == p.result # None /\ r.result # None
  IN IF e2 = "no fence" THEN [o EXCEPT !.files = p.files, !.exit = {1}]
     ELSE [o EXCEPT !.files = r.files, !.prog = @ + 1, !.failed = @ \/ ~complete,
                    !.reported = IF complete THEN Append(@, [name |-> name, from |-> p.result, to |-> r.result]) ELSE @]
vector_run(o, e) ==
  LET name == o.progs[o.prog]
      r == run_bench_ooo_vector(o.files, name, e)
  IN IF e = "no fence" THEN [o EXCEPT !.exit = {1}]
     ELSE [o EXCEPT !.files = r.files, !.prog = @ + 1, !.failed = @ \/ r.result = None,
                    !.results = IF r.result = None THEN @ ELSE Append(@, r.result)]
not_found(o) == [o EXCEPT !.prog = @ + 1, !.failed = TRUE]
finish_ooo(o) ==
  [o EXCEPT !.exit = {0},
            !.reported = IF o.a.compare = "vector" /\ Len(o.results) = Len(VECTOR_PAIR)
                         THEN <<[name |-> "vector", from |-> o.results[1], to |-> o.results[2]]>> ELSE @]
=============================================================================
