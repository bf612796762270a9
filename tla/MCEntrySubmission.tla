-------------------------- MODULE MCEntrySubmission --------------------------
(* Instances of EntrySubmission for TLC.                                   *)
EXTENDS EntrySubmission, TLC

CONSTANTS c1, c2, c3, r1, r2, r3, p1, p2, w1, w2, fpA, fpB

\* c1 and c3 carry one intent under two different approval chains.
AllCapsules == {c1, c2, c3}
ClashingRequestOf == (c1 :> r1) @@ (c2 :> r2) @@ (c3 :> r1)
ClashingFingerprintOf == (c1 :> fpA) @@ (c2 :> fpA) @@ (c3 :> fpB)
MarketAndLimit == (r1 :> "MARKET") @@ (r2 :> "LIMIT")
DistinctMagic == (r1 :> 1) @@ (r2 :> 2)
SharedScope == (p1 :> {r1, r2})
OnePermit == (w1 :> p1) @@ (w2 :> p1)
\* Two canary workers armed for different capsules but with the same permit.
TwoCanaries == (w1 :> c1) @@ (w2 :> c2)
SameCanary == (w1 :> c1) @@ (w2 :> c1)
OneWorkerPermit == (w1 :> p1)
OneWorkerCanary == (w1 :> c1)

OneCapsule == {c1}
OneRequestOf == (c1 :> r1)
OneFingerprintOf == (c1 :> fpA)
OneMarket == (r1 :> "MARKET")
OneLimit == (r1 :> "LIMIT")
\* r3 is a stranger's order whose magic happens to be that of r1.
LimitAndStranger == (r1 :> "LIMIT") @@ (r3 :> "LIMIT")
StrangersMagic == (r1 :> 1) @@ (r3 :> 1)
OneMagic == (r1 :> 1)
OneScope == (p1 :> {r1})
==============================================================================
