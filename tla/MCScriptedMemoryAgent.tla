----------------------- MODULE MCScriptedMemoryAgent -----------------------
\* A small instance of the scripted memory agent.
EXTENDS ScriptedMemoryAgent

MCRequests ==
    {[write |-> FALSE, addr |-> 1, data |-> Zero, mask |-> {}, latency |-> n] : n \in {0, 2}}
    \cup {[write |-> TRUE, addr |-> 1, data |-> [b \in 0 .. Size - 1 |-> v],
           mask |-> m, latency |-> 1] : v \in {1, 2}, m \in {{}, {0}}}

MCPattern == <<FALSE, TRUE, TRUE>>
=============================================================================
