-------------------------- MODULE MCAgentExecutor --------------------------
EXTENDS AgentExecutor

\* The in-memory store inside a process that survives unhandled rejections, and the
\* bucket behind a server that does not, with overlapping reconstructions of a task
\* that an earlier process left there.
TwoSettings ==
    {[store |-> "memory", overlap |-> FALSE, exits |-> FALSE, stored |-> None],
     [store |-> "bucket", overlap |-> TRUE, exits |-> TRUE,
      stored |-> "input-required"]}
=============================================================================
