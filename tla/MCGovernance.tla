---------------------------- MODULE MCGovernance ----------------------------
(* Instances of Governance. *)
EXTENDS Governance

CONSTANTS g1, g2

Good == [ev |-> 60, friction |-> 30, lag |-> 12, tradability |-> 90, quote |-> 80,
         ghost |-> 10, candidates |-> 2, slip |-> 10, adverse |-> 10]
Late == [Good EXCEPT !.lag = 30]
Poor == [Good EXCEPT !.ev = -5, !.tradability = 20]
SomeKinds == {Good, Late, Poor}

AllMatched == {[g \in MarketGroups |-> "matched"]}

Sound == [errorSamples |-> 20, bestMae |-> 20,
          cal |-> [samples |-> 30, runs |-> 5, mae |-> 10, biases |-> {3, 5}],
          now |-> [samples |-> 30, model |-> 5, carry |-> 10, linear |-> 12, buckets |-> 3]]
Weak == [Sound EXCEPT !.bestMae = 60, !.now.model = 20, !.cal.mae = 45]
Young == [Sound EXCEPT !.errorSamples = 5, !.cal.samples = 12, !.now.samples = 10]
SomeForecasts == {Sound, Weak, Young}

\* A win, a loss, and half a cent either way: two batches may make exactly nothing.
WinOrLose == {300, -200, 5, -5}
=============================================================================
