------------------------- MODULE MCEvidenceTransfer -------------------------
EXTENDS EvidenceTransfer, TLC

\* Requests and quotes are interchangeable as long as no liveness is checked.
Symmetry == Permutations(Requests) \cup Permutations(Quotes)
=============================================================================
