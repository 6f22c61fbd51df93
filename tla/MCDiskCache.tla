----------------------------- MODULE MCDiskCache -----------------------------
EXTENDS DiskCache

CONSTANTS p1, p2, s

MCShaderOf == [p \in Pipeline |-> s]
=============================================================================
