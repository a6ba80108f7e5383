----------------------------- MODULE MCRatchets -----------------------------
\* Small instances of Ratchets for TLC.
EXTENDS Ratchets, TLC

Interchangeable == Permutations(Skills) \cup Permutations(Jobs)
=============================================================================
