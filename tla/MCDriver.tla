------------------------------ MODULE MCDriver ------------------------------
(* The kinds of workload the driver distinguishes.                          *)
EXTENDS BenchDriver

\* Three threads, inserts before lookups: one thread has no insert, so its part
\* of the first phase is empty.
Phased ==
  [ops |-> <<<<INSERT, LOOKUP>>, <<INSERT, INSERT, LOOKUP>>, <<LOOKUP>>>>,
   flag |-> 0, blocks |-> 1, repeats |-> 1, build |-> FALSE,
   through |-> TRUE, verify |-> FALSE, err |-> FALSE]

\* Two threads, mixed operations in one phase, two repeats.
Mixed ==
  [ops |-> <<<<LOOKUP, INSERT, RANGE_QUERY>>, <<INSERT, LOOKUP>>>>,
   flag |-> 1, blocks |-> 1, repeats |-> 2, build |-> FALSE,
   through |-> TRUE, verify |-> FALSE, err |-> FALSE]

\* Two threads, latencies of two phases that share the array individual_ns,
\* results verified on an index that may be wrong.
Verified ==
  [ops |-> <<<<INSERT, INSERT, LOOKUP>>, <<INSERT, LOOKUP, RANGE_QUERY>>>>,
   flag |-> 0, blocks |-> 1, repeats |-> 1, build |-> FALSE,
   through |-> FALSE, verify |-> TRUE, err |-> TRUE]

\* One thread, two blocks, verified; the last operation has an undefined code.
Blocks ==
  [ops |-> <<<<INSERT, LOOKUP, RANGE_QUERY, LOOKUP,
               INSERT, INSERT, LOOKUP, "UNDEFINED">>>>,
   flag |-> 0, blocks |-> 2, repeats |-> 1, build |-> FALSE,
   through |-> FALSE, verify |-> TRUE, err |-> TRUE]

\* Only the bulk loading is measured.
Loading == [Mixed EXCEPT !.build = TRUE]

AllWorkloads == {Phased, Mixed, Verified, Blocks, Loading}
MixedOnce == {[Mixed EXCEPT !.repeats = 1]}
VerifiedOnly == {Verified}
=============================================================================
