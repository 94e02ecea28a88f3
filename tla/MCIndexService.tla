--------------------------- MODULE MCIndexService ---------------------------
EXTENDS IndexService, TLC

CONSTANTS u1, h1, h2, h3, c1, c2, w1, w2, w3, w4

MCUrls == {u1}
MCHashes == {h1, h2, h3}
MCTwoHashes == {h1, h2}
MCOneHash == {h1}
MCCallers == {c1, c2}
\* Concurrency indexers each start Concurrency goroutines: 4 for 2, 1 for 1.
MCWorkers == {w1, w2, w3, w4}
MCOneWorker == {w1}
WorkerSymmetry == Permutations(MCWorkers)
====
