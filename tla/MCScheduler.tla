---------------------------- MODULE MCScheduler -----------------------------
(* Instances of Scheduler for TLC.                                         *)
EXTENDS Scheduler, TLC

CONSTANTS s1, s2, s3, s4, u1, x, y

\* s1 and s2 share a phase and no table, s3 conflicts with s1, and s4 writes
\* the table of s1 in a later phase.
MCSystem == {s1, s2, s3, s4}
MCPhase  == s1 :> 1 @@ s2 :> 1 @@ s3 :> 1 @@ s4 :> 2
MCReads  == s1 :> {} @@ s2 :> {x} @@ s3 :> {} @@ s4 :> {}
MCWrites == s1 :> {x} @@ s2 :> {y} @@ s3 :> {x} @@ s4 :> {x}

\* The driver enqueues between ticks, or other threads do at any time and
\* consumers fail.
Serial == [faulty |-> {}, concurrent |-> FALSE]
MCSettings == {Serial, [faulty |-> {s4, u1}, concurrent |-> TRUE]}
MCReliable == {[faulty |-> {}, concurrent |-> TRUE]}
=============================================================================
