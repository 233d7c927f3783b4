------------------------------ MODULE MCBridge ------------------------------
(* One busy part at a time: the command queue, the registry of entities or *)
(* the view and its dirty set.                                             *)
EXTENDS BevyBridge

MCConfigs == <<[keep |-> {1, 2}, max |-> 1], [keep |-> {2}, max |-> 2]>>

Scenario(part, by) == [pushes |-> part = "pushes", systems |-> part = "systems",
                            sync |-> part = "sync", refresh |-> by]

MCScenarios == {Scenario(part, "callback") : part \in {"pushes", "systems", "sync"}}
                 \cup {Scenario("sync", "frame")}

\* The view alone, with a frame that refreshes it: the scenarios in which
\* RefreshedAfterSignal fails.
FrameScenarios == {Scenario("view", by) : by \in {"frame", "both"}}
=============================================================================
