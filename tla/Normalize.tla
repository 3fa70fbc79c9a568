------------------------------ MODULE Normalize ------------------------------
(***************************************************************************)
(* Sizing of a utility VM's memory and processors (vmutils/normalize.go).  *)
(*                                                                         *)
(* NormalizeMemorySize rounds the requested MemorySizeInMB up to an even   *)
(* number with uint64 arithmetic; NormalizeProcessorCount caps the         *)
(* requested int32 CPU count at the host's logical processor count, a      *)
(* uint32 that HCS reports and the code converts to int32.  Machine words  *)
(* are kept with their wrap-around at a reduced width: MemWidth bits for   *)
(* uint64, IntWidth bits for int32/uint32.  Each request is an input       *)
(* chosen by the caller; normalising it is one step.                       *)
(***************************************************************************)
EXTENDS Integers, Bitwise

CONSTANTS
    MemWidth,       \* bits of the uint64 memory size
    IntWidth,       \* bits of the int32 request and uint32 host count
    MemRequests,    \* requested memory sizes (uint64 values)
    ProcRequests,   \* requested processor counts (int32 values)
    HostLPCounts,   \* LogicalProcessorCount values HCS may report (uint32)
    None

ASSUME /\ MemWidth \in Nat \ {0} /\ IntWidth \in Nat \ {0}
       /\ MemRequests \subseteq 0 .. 2^MemWidth - 1
       /\ ProcRequests \subseteq -(2^(IntWidth - 1)) .. 2^(IntWidth - 1) - 1
       /\ HostLPCounts \subseteq 0 .. 2^IntWidth - 1

VARIABLES
    memReq, memAssigned,           \* NormalizeMemorySize's input and result
    procReq, hostLPs, procAssigned \* NormalizeProcessorCount's inputs and result

vars == <<memReq, memAssigned, procReq, hostLPs, procAssigned>>

\* uint64 addition wraps modulo 2^64.
UintAdd(x, y) == (x + y) % 2^MemWidth

\* Go's x &^ y (AND NOT) on uint64.
UintAndNot(x, y) == x & ((2^MemWidth - 1) - y)

\* int32(u) for a uint32 u: the same bits read as two's complement.
Int32OfUint32(u) == IF u >= 2^(IntWidth - 1) THEN u - 2^IntWidth ELSE u

\* Mutation of NormalizeMemorySize: the +1 is missing, so it rounds down.
NormalizeMemorySizeDown(requested) == UintAndNot(requested, 1)

NormalizeMemorySize(requested) == UintAndNot(UintAdd(requested, 1), 1)

NormalizeProcessorCount(requested, lpCount) ==
    LET hostCount == Int32OfUint32(lpCount)
    IN  IF requested > hostCount THEN hostCount ELSE requested

Init ==
    /\ memReq \in MemRequests /\ memAssigned = None
    /\ procReq \in ProcRequests /\ hostLPs \in HostLPCounts /\ procAssigned = None

\* A call of NormalizeMemorySize on the pending request.
NormalizeMemory ==
    /\ memAssigned = None
    /\ memAssigned' = NormalizeMemorySize(memReq)
    /\ UNCHANGED <<memReq, procReq, hostLPs, procAssigned>>

\* A call of NormalizeProcessorCount on the pending request.
NormalizeProcessors ==
    /\ procAssigned = None
    /\ procAssigned' = NormalizeProcessorCount(procReq, hostLPs)
    /\ UNCHANGED <<memReq, memAssigned, procReq, hostLPs>>

\* The caller sizes another utility VM.
NewRequest ==
    /\ memAssigned # None /\ procAssigned # None
    /\ memReq' \in MemRequests /\ memAssigned' = None
    /\ procReq' \in ProcRequests /\ hostLPs' \in HostLPCounts /\ procAssigned' = None

Next == NormalizeMemory \/ NormalizeProcessors \/ NewRequest

Spec == Init /\ [][Next]_vars

-----------------------------------------------------------------------------
(***************************************************************************)
(* Properties.                                                             *)
(***************************************************************************)

\* The results are machine words of their widths.
TypeOK ==
    /\ memReq \in 0 .. 2^MemWidth - 1
    /\ memAssigned \in (0 .. 2^MemWidth - 1) \cup {None}
    /\ procReq \in -(2^(IntWidth - 1)) .. 2^(IntWidth - 1) - 1
    /\ hostLPs \in 0 .. 2^IntWidth - 1
    /\ procAssigned \in (-(2^(IntWidth - 1)) .. 2^(IntWidth - 1) - 1) \cup {None}

\* The least even number not below n, in unbounded arithmetic.
EvenCeiling(n) == IF n % 2 = 0 THEN n ELSE n + 1

\* NormalizeMemorySize "aligns the requested memory size to an even number"
\* rounding up: the result is the least even size not below the request.
MemoryAlignedUp == memAssigned # None => memAssigned = EvenCeiling(memReq)

=============================================================================
