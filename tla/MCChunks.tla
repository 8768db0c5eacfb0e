------------------------------ MODULE MCChunks ------------------------------
(* A small instance of Chunks for TLC: a value of which two share a data page,  *)
(* and one that takes a chain of two overflow pages.                        *)
EXTENDS Chunks, TLC

CONSTANTS small, chained, x, y

MCValues == {small, chained}
MCSize == small :> 2 @@ chained :> 0
MCParts == small :> 0 @@ chained :> 2
MCPageIds == 1..8
MCBatches == {<<1, 2>>, <<2, 2>>}
MCRatios == {<<1, 1>>}
=============================================================================
