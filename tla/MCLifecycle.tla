---------------------------- MODULE MCLifecycle -----------------------------
EXTENDS Lifecycle

MCTrees == {<<0, 2>>, <<1, 2>>}
=============================================================================
