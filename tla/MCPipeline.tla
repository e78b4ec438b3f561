----------------------------- MODULE MCPipeline -----------------------------
EXTENDS Pipeline, TLC

\* Subscriptions are interchangeable: no action compares or orders them.
SubSymmetry == Permutations(Sub)
=============================================================================
