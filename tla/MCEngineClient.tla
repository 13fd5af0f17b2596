-------------------------- MODULE MCEngineClient --------------------------
\* A parallel family of two children, a plain request that publishes two
\* events, or (in process) two plain requests that compete for the queue, with
\* two ids (s3, s4) or with one (s3, s5).
EXTENDS EngineClient

MCSubs == {"s1", "s2", "s3", "s4", "s5"}
MCNoSub == "none"
MCCallers == {{"s1"}, {"s2"}, {"s3", "s4"}, {"s3", "s5"}}
MCModes == [m \in {"inproc", "zmq"} |->
               IF m = "inproc" THEN MCCallers ELSE {{"s1"}, {"s2"}}]
MCIdOf == [u \in MCSubs |->
              CASE u = "s1" -> "p" [] u = "s2" -> "q" [] u \in {"s3", "s5"} -> "r" [] u = "s4" -> "t"]
MCKids == [r \in {"p", "q", "r", "t"} |-> IF r = "p" THEN {"c0", "c1"} ELSE {}]
MCMaxEvents == [x \in {"c0", "c1", "q", "r", "t"} |-> IF x = "q" THEN 2 ELSE 1]
=============================================================================
