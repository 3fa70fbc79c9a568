---------------------------- MODULE MC_Normalize ----------------------------
(* Inputs for Normalize: 4-bit words stand for uint64 and int32/uint32.    *)
EXTENDS Normalize

\* Processor requests, the negative one of the unit tests included.
MCProcRequests == {-1, 0, 1, 2, 4, 7}
=============================================================================
