------------------------------- MODULE MCPodLogs ------------------------------
(* Two pods, logs of up to three lines and a viewer that keeps two.        *)
EXTENDS PodLogs, TLC

CONSTANTS podA, podB, main

MCPods == {podA, podB}
MCOnePod == {podA}
MCOneContainer == {main}
MCSources == MCPods \X MCOneContainer
MCOneSource == MCOnePod \X MCOneContainer
MCQueries == {{1, 2}}
MCNoQueries == {}
MCSymmetry == Permutations(MCPods)
===============================================================================
