---------------------------- MODULE NumaTopology ----------------------------
(***************************************************************************)
(* vNUMA topology preparation and validation (internal/vm/vmutils numa):   *)
(* the Structural Validator `validate`, the Topology Builder               *)
(* `PrepareVNumaTopology` and the Budget Reconciler `ValidateNumaForVM`.   *)
(* The implementation file is not part of the sources at hand; its         *)
(* behaviour is taken from the specification and from numa_test.go.       *)
(*                                                                         *)
(* The three are pure functions called once per VM-creation request.  A   *)
(* behaviour is one request: a call of one of them on an input drawn from  *)
(* the bounded sets, then possibly the Reconciler on the Builder's output, *)
(* then the next request.                                                  *)
(* `call` records the call and its result so that the checks can relate   *)
(* an output to its input.  The host capability (`hostSupported`) may     *)
(* change before the call, and is read by the call itself.                 *)
(***************************************************************************)
EXTENDS Integers, Sequences, Functions

CONSTANTS
    Configs,      \* NumaConfig records a caller may pass to the Builder
    Topologies,   \* settings sequences handed directly to Validator/Reconciler
    ProcTotals,   \* UVM processor counts given to the Reconciler
    MemTotals,    \* UVM memory-block counts given to the Reconciler
    None          \* model value: an absent output

VARIABLES
    hostSupported, \* the host build supports vNUMA topology configuration
    call           \* the last call made and what it returned

vars == <<hostSupported, call>>

\* numaChildNodeCountMax, numaTopologyNodeCountMax and the wildcard sentinel.
VirtualNodeMax  == 64
PhysicalNodeMax == 64
WildcardNode    == 255

\* One NumaSetting; the memory backing type is always "physical" and omitted.
Setting(v, p, s, c, m) ==
    [vnode |-> v, pnode |-> p, socket |-> s, procs |-> c, mems |-> m]

ErrorKinds == {"VirtualNodeRange", "PhysicalNodeRange", "NoMemory",
               "PartialAllocation", "Duplicate", "WildcardMix"}

-----------------------------------------------------------------------------
(***************************************************************************)
(* Structural Validator.                                                   *)
(***************************************************************************)

\* Mutations of EntryError: checks 3 and 4 swapped; check 4 dropped.
EntryErrorPartialFirst(e) ==
    CASE e.vnode > VirtualNodeMax                           -> "VirtualNodeRange"
      [] e.pnode # WildcardNode /\ e.pnode >= PhysicalNodeMax -> "PhysicalNodeRange"
      [] e.procs = 0                                         -> "PartialAllocation"
      [] e.mems = 0                                          -> "NoMemory"
      [] OTHER                                               -> "ok"
EntryErrorNoPartialCheck(e) ==
    CASE e.vnode > VirtualNodeMax                           -> "VirtualNodeRange"
      [] e.pnode # WildcardNode /\ e.pnode >= PhysicalNodeMax -> "PhysicalNodeRange"
      [] e.mems = 0                                          -> "NoMemory"
      [] OTHER                                               -> "ok"

\* Checks 1-4 of one entry, in the order the validator evaluates them.
EntryError(e) ==
    CASE e.vnode > VirtualNodeMax                           -> "VirtualNodeRange"
      [] e.pnode # WildcardNode /\ e.pnode >= PhysicalNodeMax -> "PhysicalNodeRange"
      [] e.mems = 0                                          -> "NoMemory"
      [] e.procs = 0                                         -> "PartialAllocation"
      [] OTHER                                               -> "ok"

\* Checks 5 and 6 over the whole collection.
CollectionError(s) ==
    LET wild == {i \in DOMAIN s : s[i].pnode = WildcardNode}
    IN  CASE \E i, j \in DOMAIN s : i < j /\ s[i].vnode = s[j].vnode -> "Duplicate"
          [] wild # {} /\ wild # DOMAIN s                          -> "WildcardMix"
          [] OTHER                                                 -> "ok"

\* The per-entry loop: the first entry that fails stops the scan.
RECURSIVE ScanEntries(_, _)
ScanEntries(s, i) ==
    IF i > Len(s) THEN CollectionError(s)
    ELSE IF EntryError(s[i]) # "ok" THEN EntryError(s[i])
    ELSE ScanEntries(s, i + 1)

validate(s) == IF s = <<>> THEN "ok" ELSE ScanEntries(s, 1)

-----------------------------------------------------------------------------
(***************************************************************************)
(* Topology Builder.                                                       *)
(***************************************************************************)

\* Any of the vNUMA field groups is set.
RequestsVNuma(c) ==
    \/ c.maxProcs # 0 \/ c.maxMem # 0 \/ c.preferred # <<>>
    \/ c.mapped # <<>> \/ c.procCounts # <<>> \/ c.memCounts # <<>>

\* One setting per index; virtual node and socket numbers are sequential.
ExplicitSettings(c) ==
    [i \in 1..Len(c.mapped) |->
        Setting(i - 1, c.mapped[i], i - 1, c.procCounts[i], c.memCounts[i])]

Result(numa, proc, err) == [numa |-> numa, proc |-> proc, err |-> err]

Topo(c, s) == [count |-> Len(s), maxSize |-> 0, preferred |-> c.preferred, settings |-> s]

\* Mutation of ValidatedTopology: the topology is returned with the error.
ValidatedTopologyLeaky(c) ==
    LET s == ExplicitSettings(c)
    IN  Result(Topo(c, s), None, validate(s))

\* Explicit mode: the assembled topology is run through the Validator and
\* its error propagated unchanged.
ValidatedTopology(c) ==
    LET s == ExplicitSettings(c)
    IN  IF validate(s) # "ok" THEN Result(None, None, validate(s))
        ELSE Result(Topo(c, s), None, "ok")

\* PrepareVNumaTopology(ctx, config) -> (numa, numaProcessors, error).
PrepareVNumaTopology(c, supported) ==
    CASE ~supported /\ RequestsVNuma(c) ->
            Result(None, None, "NotSupported")
      [] c.maxProcs # 0 /\ c.maxMem = 0 ->
            Result(None, None, "MaxSizeUnset")
      [] c.maxProcs # 0 ->
            Result([count |-> 0, maxSize |-> c.maxMem, preferred |-> c.preferred,
                    settings |-> <<>>], c.maxProcs, "ok")
      [] c.mapped # <<>> /\ (Len(c.procCounts) # Len(c.mapped)
                            \/ Len(c.memCounts) # Len(c.mapped)) ->
            Result(None, None, "LengthMismatch")
      [] c.mapped # <<>> ->
            ValidatedTopology(c)
      [] OTHER ->   \* neither mode: a warning is logged and nothing is returned
            Result(None, None, "ok")

-----------------------------------------------------------------------------
(***************************************************************************)
(* Budget Reconciler.                                                      *)
(***************************************************************************)

SumOf(s, field) == SumFunction([i \in DOMAIN s |-> s[i][field]])

\* ValidateNumaForVM(numa, procCount, memInMb).  A resource is only checked
\* when no entry declares zero of it.
ValidateNumaForVM(s, procTotal, memTotal) ==
    CASE s = <<>> -> "ok"
      [] (\A i \in DOMAIN s : s[i].procs # 0) /\ SumOf(s, "procs") # procTotal ->
            "ProcMismatch"
      [] (\A i \in DOMAIN s : s[i].mems # 0) /\ SumOf(s, "mems") # memTotal ->
            "MemMismatch"
      [] OTHER -> "ok"

-----------------------------------------------------------------------------
(***************************************************************************)
(* The calls.                                                              *)
(***************************************************************************)

Init ==
    /\ hostSupported \in BOOLEAN
    /\ call = [op |-> "none"]

\* The Builder, capability queried at call time.
Prepare(c) ==
    /\ call.op = "none"
    /\ LET r == PrepareVNumaTopology(c, hostSupported)
       IN  call' = [op |-> "prepare", config |-> c,
                    numa |-> r.numa, proc |-> r.proc, err |-> r.err]
    /\ UNCHANGED hostSupported

\* The Validator on a topology assembled by some other caller.
Validate(s) ==
    /\ call.op = "none"
    /\ call' = [op |-> "validate", topo |-> s, result |-> validate(s)]
    /\ UNCHANGED hostSupported

\* The Reconciler on a hand-built topology.
Reconcile(s, p, m) ==
    /\ call.op = "none"
    /\ call' = [op |-> "reconcile", source |-> "caller", topo |-> s,
                procTotal |-> p, memTotal |-> m, result |-> ValidateNumaForVM(s, p, m)]
    /\ UNCHANGED hostSupported

\* The Reconciler on the topology the Builder has just returned.
ReconcileBuilt(p, m) ==
    /\ call.op = "prepare"
    /\ call.numa # None
    /\ call' = [op |-> "reconcile", source |-> "builder", topo |-> call.numa.settings,
                procTotal |-> p, memTotal |-> m,
                result |-> ValidateNumaForVM(call.numa.settings, p, m)]
    /\ UNCHANGED hostSupported

\* The request completes and the host serves the next VM-creation request.
NextRequest ==
    /\ call.op # "none"
    /\ call' = [op |-> "none"]
    /\ UNCHANGED hostSupported

\* The host is updated to a build that supports vNUMA (long-lived hosts).
HostUpgrade ==
    /\ ~hostSupported
    /\ hostSupported' = TRUE
    /\ UNCHANGED call

Next ==
    \/ \E c \in Configs : Prepare(c)
    \/ \E s \in Topologies : Validate(s)
    \/ \E s \in Topologies, p \in ProcTotals, m \in MemTotals : Reconcile(s, p, m)
    \/ \E p \in ProcTotals, m \in MemTotals : ReconcileBuilt(p, m)
    \/ NextRequest
    \/ HostUpgrade

Spec == Init /\ [][Next]_vars

-----------------------------------------------------------------------------
(***************************************************************************)
(* Properties.                                                             *)
(***************************************************************************)

Topology(S) == [count : Nat, maxSize : Nat, preferred : Seq(Nat), settings : S]

\* The Builder follows the Go convention that a call returning an error
\* returns no topology and no processor constraint.
TypeOK ==
    /\ hostSupported \in BOOLEAN
    /\ call.op \in {"none", "prepare", "validate", "reconcile"}
    /\ call.op = "prepare" =>
         \/ /\ call.err \in ErrorKinds \cup {"NotSupported", "MaxSizeUnset", "LengthMismatch"}
            /\ call.numa = None /\ call.proc = None
         \/ /\ call.err = "ok"
            /\ call.numa \in Topology(Seq([vnode : Nat, pnode : Nat, socket : Nat,
                                           procs : Nat, mems : Nat])) \cup {None}
            /\ call.proc \in Nat \cup {None}
    /\ call.op \in {"validate", "reconcile"} =>
         call.result \in ErrorKinds \cup {"ok", "ProcMismatch", "MemMismatch"}

\* The validator's contract as the specification states it: a non-empty
\* topology is valid iff every entry passes checks 1-4 and the collection
\* passes checks 5-6; otherwise the error is the first failing check of the
\* first failing entry, and a collection error only when no entry fails.
FailsCheck(k, e) ==
    CASE k = 1 -> e.vnode > 64
      [] k = 2 -> e.pnode # 255 /\ e.pnode > 63
      [] k = 3 -> e.mems = 0
      [] k = 4 -> e.procs = 0 /\ e.mems > 0
CheckName == <<"VirtualNodeRange", "PhysicalNodeRange", "NoMemory", "PartialAllocation">>
Least(S) == CHOOSE x \in S : \A y \in S : x <= y

ValidateReference(s) ==
    LET bad == {i \in DOMAIN s : \E k \in 1..4 : FailsCheck(k, s[i])}
    IN  IF bad # {} THEN
            CheckName[Least({k \in 1..4 : FailsCheck(k, s[Least(bad)])})]
        ELSE IF \E i, j \in DOMAIN s : i # j /\ s[i].vnode = s[j].vnode THEN "Duplicate"
        ELSE IF /\ \E i \in DOMAIN s : s[i].pnode = 255
                /\ \E i \in DOMAIN s : s[i].pnode # 255 THEN "WildcardMix"
        ELSE "ok"

\* `validate` (numa_test.go TestValidate) reports exactly the verdict and the
\* error the specification's check order prescribes, for every topology.
ValidatorMatchesReference ==
    call.op = "validate" => call.result = ValidateReference(call.topo)

\* A topology the Builder hands off can never slip a budget mismatch past
\* the Reconciler: its zero-count escape hatch is unreachable for Builder
\* output, because the Validator rejects zero memory and partial
\* allocation.  So reconciling Builder output succeeds iff both totals match.
BuilderOutputReconcilesExactly ==
    (call.op = "reconcile" /\ call.source = "builder" /\ call.topo # <<>>) =>
        (call.result = "ok" <=> /\ SumOf(call.topo, "procs") = call.procTotal
                                /\ SumOf(call.topo, "mems") = call.memTotal)

=============================================================================
