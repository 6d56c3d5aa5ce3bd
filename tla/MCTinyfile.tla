----------------------------- MODULE MCTinyfile -----------------------------
(* Instances of Tinyfile for TLC: which threads issue which requests. *)
EXTENDS TinyfileRefinement, TLC

CONSTANTS t1, t2, t3, r1, r2, r3, r4

\* Three threads that collect their own results; t3 makes two calls.
SyncProgram == (t1 :> <<r1>>) @@ (t2 :> <<r2>>) @@ (t3 :> <<r4, r3>>)

\* One thread that issues a batch and then joins.
BatchProgram == t1 :> <<r1, r2, r3, r4>>
SmallBatch == t1 :> <<r1, r2, r3>>

\* Two threads: one issues while the other waits; r4 is refused.
RaceProgram == (t1 :> <<r1, r2>>) @@ (t2 :> <<r4, r3>>)

\* client.c --state ASYNC: the main thread issues, the others collect.
AppProgram == (t1 :> <<r1, r2>>) @@ (t2 :> << >>) @@ (t3 :> << >>)
AppCollect == (t1 :> << >>) @@ (t2 :> <<r1>>) @@ (t3 :> <<r2>>)

\* Calls of both kinds at once: t1 issues, t2 collects, t3 makes a blocking call.
MixedProgram == (t1 :> <<r1, r2>>) @@ (t2 :> << >>) @@ (t3 :> <<r3>>)
MixedCollect == (t1 :> << >>) @@ (t2 :> <<r1, r2>>) @@ (t3 :> <<r3>>)

OnePriority == [r \in Requests |-> 1]
MixedPriorities == [r \in Requests |-> CASE r = r3 -> 31 [] r = r4 -> 32 [] OTHER -> 1]

\* The service threads of a client are alike.
WorkerSymmetry == Permutations(Workers)

AllOk == [r \in Requests |-> "ok"]
MixedOutcomes ==
  [r \in Requests |-> CASE r = r1 -> "ok" [] r = r2 -> "unwritable"
                        [] OTHER -> "unreadable"]
=============================================================================
