-------------------------- MODULE MCTokioScheduler --------------------------
EXTENDS TokioSchedulerHooks, TLC
Sym == Permutations(Fibers)
=============================================================================
