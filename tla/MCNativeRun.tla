---------------------------- MODULE MCNativeRun -----------------------------
EXTENDS NativeRun, TLC

CONSTANTS r1, r2, c1, c2, a, b

MCReqs == {r1, r2}
MCConns == {c1, c2}

\* An origin that may speak HTTP/2, asked for with and without a demand for
\* HTTP/1, and one that cannot.
MCAsks == {<<a, "any">>, <<a, "H1">>, <<b, "any">>}
OneAsk == {<<a, "any">>}

\* Requests and connections are interchangeable; safety only.
Interchangeable == Permutations(MCReqs) \cup Permutations(MCConns)
=============================================================================
