------------------------- MODULE MCMemoryTransfers -------------------------
(* An instance of MemoryTransfers: chunks of three units.                  *)
EXTENDS MemoryTransfers

Request(size, alignment, zeroed, dedicated) ==
  [size |-> size, alignment |-> alignment, zeroed |-> zeroed, dedicated |-> dedicated]

MCRequests == {Request(1, 1, TRUE, FALSE), Request(2, 1, FALSE, FALSE),
               Request(1, 1, TRUE, TRUE)}
=============================================================================
