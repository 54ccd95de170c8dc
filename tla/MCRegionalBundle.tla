-------------------------- MODULE MCRegionalBundle --------------------------
EXTENDS RegionalBundle

\* Two regions that share a feature; the second has one of its own.
MCInRegion == [north |-> {"border"}, south |-> {"border", "inland"}]

\* The target reads of the master's side only finished bundles and published
\* diffs, and both only grow: nothing is lost when they are all there before
\* the first install, since the target's poll may stop after any diff.
MasterFirst ==
    IF <<worldVars, exportVars>> # <<worldVars, exportVars>>'
    THEN installs = 0
    ELSE export.pc = "idle" /\ master = tip

\* Behaviours are followed until the sequence is known to be too high.
SequenceTrusted == flaw = {}

\* The bundles that lack their slice of nodes.dat; none does ...
Damaged == {b \in 1..Len(bundles) : bundles[b].slice # "whole"}
NoMishap == Damaged = {}

\* ... or one does, or one install breaks off; no diff changes the node file, and
\* one diff is enough with the former.
OneMishap ==
    /\ Cardinality(Damaged) + breaks <= 1
    /\ Damaged # {} => tip <= 1
=============================================================================
