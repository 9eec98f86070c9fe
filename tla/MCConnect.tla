------------------------------ MODULE MCConnect ------------------------------
EXTENDS Connect

\* Two IPv6 answers and one IPv4 answer: enough for a family to take its turn
\* twice, and for an address to follow a failure.
MCAnswers == [f \in Families |-> IF f = "v6" THEN 2 ELSE 1]
MCItems == [f \in Families |-> IF f = "v6" THEN {"addr", "fail"}
                                           ELSE {"addr", "other"}]
=============================================================================
