# TLA+ models of the utility-VM control plane

This directory holds TLA+ specifications of the code under `src/`, the TLC
configurations that check them, and `PROJECT.json`. PROJECT.json is the
machine-readable index of the components, runs, mutants, source map,
findings and hazards.

## The system

The repository holds four independent pieces of a host-side utility VM (UVM)
control plane and one piece of the guest:

| Part | Source | What it does |
|------|--------|--------------|
| vNUMA validator, builder, reconciler | implementation not under `src/`; tests in `vmutils/numa_test.go`; `spec.md` | Turn an operator's NUMA configuration into an `hcsschema.Numa` topology, validate it, and reconcile a topology against a VM's processor and memory budget. All three are pure functions. The builder also re-reads the host's vNUMA capability on each call. |
| UVM sizing | `vmutils/normalize.go` | Round the memory request up to an even MB count (`uint64`). Cap the CPU request at the host's logical processor count, which is a `uint32` converted to `int32`. |
| LCOW boot files path | `vmutils/lcow.go` | Picks the `LinuxBootFiles` directory beside the executable, as `os.Args[0]` names it, when `os.Stat` finds it, and `%ProgramFiles%\Linux Containers` otherwise. |
| UtilityVM | `vmmanager/uvm.go`, `lifetime.go`, `network.go` | `Create` makes the HCS compute system, reads its runtime ID, and cleans up in a `defer` unless ownership passed to the returned `UtilityVM`. The lifetime and NIC methods forward to the `hcs.System`. |
| Guest manager | `guestmanager/*.go` | Each method builds one guest modification request for `gm.modify`, or forwards to the GCS connection. `Guest`, `modify` and `CreateConnection` are not in the repository. |
| VMSMB bring-up | `gcs-sidecar/vsmb.go` | Runs in the guest sidecar. It configures and starts the LanmanWorkstation service, enables SeLoadDriverPrivilege, opens the redirector, starts the VMSMB RDR instance with an FSCTL, opens the VMSMB device and binds the VMBus transport. |

How the parts interact (from the package documentation):
1. An orchestrator sizes the VM with `Normalize*`.
2. It builds the NUMA topology and embeds it in the compute-system document.
3. It calls `vmmanager.Create`, then `Start`.
4. It opens the guest connection and issues guest-manager requests.

The only concurrency inside the repository's code is between utility VMs
created at the same time, between a goroutine blocked in `Wait` and the
other calls on the same UVM, and between the code and its environment:
- HCS and the guest, which may stop on their own;
- the Windows service control manager, which completes a service start asynchronously;
- the sidecar process, which may die and be restarted while the redirector's state survives.

## Modules

| Module | Models | State | Actions |
|--------|--------|-------|---------|
| `NumaTopology` (+ `MC_NumaTopology`) | validator, builder, reconciler, from `spec.md` (marked `spec_modelled`) | `hostSupported`, plus `call`, the last request and its result | `Prepare(c)`, `Validate(s)`, `Reconcile(s,p,m)`, `ReconcileBuilt(p,m)`, `NextRequest`, `HostUpgrade` |
| `VsmbInit` | `VsmbMain` and its helpers | `pc`, the open `handles`, `privHeld`; service `svc`; driver `instance` and `bound`; run bookkeeping | one action per statement group of `VsmbMain`; `ServiceStarted`, `ServiceStartFailed`, `SidecarRestart` for the environment |
| `VsmbBuffers` | the two FSCTL input buffers `VsmbMain` builds | the instance and transport names (bounded sequences of code points), `startBuffer` and `bindBuffer` (byte sequences) | `BuildStartInstance`, `BuildBindTransport`; operators for Go's struct layout (`Offsets`, `Sizeof`), the struct's memory (`Encode`), `StringToUTF16` and the two copies (`CopyInto`) |
| `UtilityVM` | `Create` and the `LifetimeManager` methods | per UVM ID: `create` (control point, then result), the HCS `sys` state, the `hcs.System` `handle`, `owned`, `lastCall`, and `ctxDone`, whether Create's context has ended; `waitBlock` (the `hcs.System` wait block: open, exited or closed), `waiter` (the Wait goroutine) and `waitCtxDone`, whether Wait's context has ended; `crashed`, whether the system stopped without being asked (HCS's unexpected exit), and `exitErr`, what the last `ExitError` returned | `CreateComputeSystem`, `GetProperties`, `DeferTerminate`, `DeferWait`; `Start`, `Pause`, `Resume`, `Save`, `Terminate`, `Close`, `Wait` (the call), `WaitReturn` (`cs.WaitCtx` returning) and `ExitError`; for the environment, `SystemExit`, `TerminateCompletes`, `CancelCreate`, `ExitNotified` and `CancelWait` |
| `GuestResourceSpec` | what the interface comments of the guest manager and `NetworkManager` promise | `present` (the resources of each kind), the caller's `call` and its phase, the last `outcome`, and `strays`, the bag of changes of abandoned calls | `Begin`, `FailFast`, `Land`, `Finish`, `StrayLand`, `StrayLost` |
| `GuestManager` | every guest-manager method that changes state, and `AddNIC`, `RemoveNIC`, `UpdateNIC` | `res` (the resources of each kind in the guest or the VM), `caller`, the bag of requests `inflight`, the `reply` to the waiting call, `outcome` | one action per method, each building its request literal as the code does (`GuestRequest`, `HostRequest`, `Rpc`, `NetworkModifyRequest`); for the transport, `Deliver`, `Fail`, `Return`, `Timeout` |
| `LcowBootFiles` | `DefaultLCOWOSBootFilesPath` | the environment: `exeDir`, `args0`, `cwd`, `programFiles` and `fs` (the existing `LinuxBootFiles` directories); `result` | `DefaultLCOWOSBootFilesPath`, with `Dir`, `Join` and `Stat` on abstract paths |
| `Normalize` (+ `MC_Normalize`) | `NormalizeMemorySize`, `NormalizeProcessorCount` | one pending request and its result for each function | `NormalizeMemory`, `NormalizeProcessors`, `NewRequest` |

How the code is translated:
- **Validator.** It is a `RECURSIVE` scan (`ScanEntries`) that returns the first failing check in sequence order. It is checked against `ValidateReference`, a declarative definition: the least failing index, then the least failing check.
- **Builder.** `PrepareVNumaTopology` is a `CASE` whose branches follow the code's order: gate, implicit, length mismatch, explicit, fallback.
- **VsmbBuffers.** Each request struct is a sequence of fields; `Offsets` and `Sizeof` follow Go's layout rules, which give 120 bytes for `LMRStartInstanceRequest` and 12 for `LMRBindUnbindTransportRequest`. `Encode` is the struct's memory, as the unsafe copy sees it: fields little-endian, with padding and omitted fields zero. `CopyInto` is `make` followed by the two `copy` calls, which stop at the end of the shorter slice. uint16 fields wrap at 2^16. The properties read the buffers back through an independent little-endian and UTF-16 decoder.
- **LcowBootFiles.** A path is a root (a drive, or none) and a sequence of elements. `Dir` drops the last element, so a bare name gives ".". `Join` appends an element; an empty string contributes nothing, as in `filepath.Join`. `Stat` resolves a relative path against the current directory. `os.Args[0]` is the executable's full path, or its bare name, as when the shim was started from the current directory or found on PATH. A shim started by bare name from another directory, say found on PATH, looks in the current directory and not in the executable's, which the doc comment names (hazard in PROJECT.json). `AlwaysAbsolute` catches this when a `LinuxBootFiles` directory is found there, because the returned path is then relative.
- **VsmbInit.** Every early `return` of `VsmbMain` is a `Return(why)` that empties `handles`, because the deferred `CloseHandle` calls run on every path. The FSCTL statuses are only logged, so those actions go on to the next statement whatever the driver answered.
- **UtilityVM.** `Close` on a closed handle returns nil. `Wait` runs in a goroutine of its own and blocks in `cs.WaitCtx`. Its select takes any ready case: the wait block closed by the exit notification (nil), the wait block closed by `Close` (ErrAlreadyClosed), or its context (ctx.Err()). HCS closes the wait block once, by whichever of the exit notification and `Close` comes first; the deferred WaitCtx of `Create` waits on the same block. `ExitError` reads the block without waiting: while it is open, an error saying the system has not exited; once closed, the wait error if there is one (ErrAlreadyClosed after `Close`), otherwise the exit error, which HCS sets only for an unexpected exit. Wait returns only the wait error, so it returns nil for a guest that crashed, and `ExitError` is how a caller tells the two apart. The defer is split into its two calls, so that a guest exit can interleave with them. The caller may cancel Create's context at any step; a create call made under a cancelled context creates nothing in the model, although vmcompute might still create the system in the background with no handle returned to anyone (not modelled). An HCS call made under a done context fails at once, and a Terminate issued that way leaves the system `stopping` until HCS finishes it.
- **Guest manager.** A method is two steps, because the call blocks while the transport and the guest run. The first step is the method's own code: it builds the request and sends it (`Send`). The second is `Return`, when the call answers, or `Timeout`, when the caller's context ends first. The owner of the resource (the guest, HCS for NICs) handles each request at most once, in `Deliver`. It reads the request's kind, change and target in `ChangeOfRequest`: the `ResourceType` and outer `RequestType` of a guest request, the NIC ID at the end of an HCS resource path, or the RPC. A request whose caller has timed out stays in flight, unwatched, and may still be handled. The connection may fail any request (`Fail`).
- **Refinement.** `GuestManager` instantiates `GuestResourceSpec` with `present <- res`. The caller's call maps to pending while its request is in flight or failed, and to effected or rejected once the owner has answered. The abandoned requests map to the bag of stray changes. `ImplementsContract` is the abstract `Spec`, checked as a property.
- **Machine words.** `uint64` is modelled as a `MemWidth`-bit word: addition wraps with `% 2^MemWidth`, and `&^` is Bitwise `&` with the complemented mask. `int32(uint32)` reinterprets the bits as two's complement at `IntWidth` bits.

## Runs

| Run | Result | What it shows |
|-----|--------|---------------|
| `numa_topology` | pass, about 48k states | `ValidatorMatchesReference`: the sequential validator equals the declarative one on every topology of up to 2 entries over boundary values (v ∈ {0,64,65}, p ∈ {0,63,64,255}, procs ∈ {0,4}, mems ∈ {0,1024}). `BuilderOutputReconcilesExactly`: a topology the builder hands out passes the reconciler exactly when both budgets equal its sums, so the reconciler's zero escape hatch can never hide a mismatch for builder-made topologies. `TypeOK` includes "an error means no topology and no constraint". |
| `vsmb_bringup` | pass | Faults are on, the privilege may or may not be assignable, and there are up to 3 sidecar runs. `FreshRunBringsUpVsmb`: a first run without faults that can get the privilege ends with the instance started and the transport bound, however the service start races the 3 s sleep. |
| `vsmb_buffers` | pass, 4800 states | All instance and transport names of up to three characters over `A`, `\` and U+1F600 (a surrogate pair). `StartBufferDescribesName`: the instance name follows the start struct (at its `Sizeof`, 120 bytes), `DeviceNameLength` counts its bytes without the NUL, and the buffer ends there. Neither property reads `StructureSize`, whose meaning only the driver defines. `BindBufferCarriesName`: the same for the transport name, which follows the 12-byte bind struct. |
| `lcow_relative` | violation of `AlwaysAbsolute` | With ProgramFiles unset, or `os.Args[0]` a bare name, the result is relative. `lcow_test.go:78` says it should always be absolute. |
| `vsmb_restart` | violation of `EventuallyVsmbReady` | Without faults, a restart after `sc start` leads to a second `sc start` that fails on the running service. VMSMB is never brought up. |
| `vsmb_privilege` | violation of `StartWithPrivilege` | When the token lacks the privilege, `enablePrivilege` still returns nil, and the START_INSTANCE FSCTL is issued without it. |
| `uvm_lifecycle` | pass, about 900 states | A UVM is created and taken through any sequence of lifetime calls, `ExitError` queries, guest exits and context cancellations. `CreateAllOrNothing` (action property): `Create` returns either an owned, created, untouched compute system, or an error with nothing left running except a termination under way. `FailedCreateStops` (liveness): a compute system whose Create failed eventually stops, even when the cancelled context made the deferred Terminate and WaitCtx return at once. `WaitOkMeansStopped`: Wait returns nil only for a stopped system, whatever the race between the exit, `Close` and its context. `WaitReturns` (liveness): a blocked Wait returns once the system has stopped, the UVM has been closed, or its context has ended. `ExitErrorStable` (action property): once `ExitError` has returned nil, the unexpected exit's error or ErrAlreadyClosed, every later call returns the same, whatever `Close` does after the exit. `ExitErrorAgreesWithWait`: once a Wait has failed other than by its own context, `ExitError` never answers nil or the exit error in place of the wait error, as the LifetimeManager comment promises. |
| `uvm_create_leak` | violation of `NoHandleLeakOnError` | A failed `Properties` leaves the `hcs.System` handle open after `Create` returns its error. |
| `guest_lcow`, `guest_wcow_host` | pass, about 158k and 446k states | `ImplementsContract` (refinement) for the LCOW methods, and for the WCOW, NIC and GCS-RPC methods together. Each method changes the kind its comment names, in the way it names. A nil return means the owner made that change. An error return comes from a refusal, a failed connection or an ended context. After an error, each abandoned call leaves at most one late change of that same kind, with up to two abandoned requests in flight at once in the LCOW run, and one in the other. |
| `normalize` | pass, 864 states | `MemoryAlignedUp`: below the top of the word, memory is rounded up to the least even size not below the request. `NormalizeProcessorCount` is modelled and exercised, but no property checks it: for host counts below 2^31 its result is its own if-statement, and no host reports more. |
| `normalize_overflow` | violation of `MemoryAlignedUp` | The largest `uint64` request normalises to 0. |

Every property of a passing run has a mutant in PROJECT.json. A mutant is a
plausible slip in the code under that property, and TLC finds it:
- the partial-allocation check moved before the zero-memory check, or dropped;
- an explicit topology returned together with its error;
- `enablePrivilege` disabling all privileges;
- the `cs = nil` hand-over forgotten;
- the deferred Terminate skipped once the context is done;
- `RemoveNetworkNamespace` sending `RequestTypeAdd`, `InjectPolicyFragment` sending `ResourceTypeSecurityPolicy`, and `UpdateNIC`'s nil check returning nil;
- the deferred return values swapped;
- `DeviceNameLength` and `TransportIdLength` counting the NUL;
- `Wait` taking its own cancellation for a clean exit, or calling `cs.Wait()` without the context;
- `ExitError` checking the handle before the wait block, or returning the exit error without the wait error;
- rounding down.

## Bounds and why they suffice

- **NUMA.** Every range check is exercised on both sides of its boundary: 64/65, 63/64, and the wildcard 255. Zero values are covered for processors and memory. Two entries are enough for duplicates and wildcard mixes. Configurations cover implicit, explicit, mismatched and empty modes.
- **VMSMB.** Three runs allow a restart at each statement and a second restart after it. Two values of `assignable` and the fault switch cover every error branch.
- **VsmbBuffers.** Names of zero to three characters cover the empty name and a surrogate pair next to other characters. Every length computation is linear in the name, so longer names add nothing new.
- **LcowBootFiles.** Two directories let the executable and the current directory differ or coincide. The environment ranges over both forms of `os.Args[0]`, ProgramFiles set or unset, and every subset of the `LinuxBootFiles` directories.
- **UtilityVM.** One ID. The UVMs a shim creates share no state in this code: each has its own `hcs.System`, wait block and contexts, so a second ID only multiplies the states (two IDs take over six minutes and show nothing new). The HCS state machine is finite, so there are no counters. One Wait goroutine per UVM is enough, since every Wait blocks on the same wait block; a returned Wait may be called again with a fresh context.
- **Guest manager.** One resource identity is enough, because every method touches one resource and the owner's rules look at that resource only. A second identity would only multiply states. `MaxStrays = 2` in the LCOW run lets two abandoned requests, the same or different, be in flight while a third call runs. The other run has eleven methods and bounds one; with two it takes over seven minutes. Every method sends through the same transport, so the two-stray case of the LCOW run stands for them all. Each split run starts from every subset of resources of its kinds, so every accept and refuse branch is reached.
- **Normalize.** Four-bit words keep the wrap-around and sign behaviour of the real widths: the top value 15 stands for 2^64-1, and host counts up to 7 stand for realistic LP counts (below the int32 sign bit).

## Fairness

- **VsmbInit.** Only `vsmb_restart` checks liveness. It assumes weak fairness of `VsmbMain`: no statement of it blocks, and each returns or fails. It also assumes weak fairness of `ServiceStarted`, because the service control manager completes a start it has accepted. Restarts and failures are not fair.
- **UtilityVM.** It assumes weak fairness of `TerminateCompletes`, because HCS finishes a termination it has accepted; of `ExitNotified`, because HCS delivers the exit notification of a stopped system; and of `WaitReturn`, because the Go scheduler runs a goroutine whose select has a ready case. Guest exits, cancellations and the lifetime calls are not fair.
- **Other modules.** No other module checks liveness. The deadlock check is off where the system really stops: a failed `Create` is final, and after `Close` or a finished `VsmbMain` nothing is left to do, `VsmbBuffers` builds each buffer once, and `DefaultLCOWOSBootFilesPath` returns once.

## Not modelled, and the plan

- Whether the LanmanRedirector or VMSMB device can be missing while LanmanWorkstation is still start-pending. `OpenLmr` does not depend on the service state, so the race between the 3 s sleep and the SCM cannot change a run's outcome in the model. The dependence is the driver's and the SCM's behaviour, outside the repository.
- `Guest`, `gm.modify`, `CreateConnection` and the guest's request handlers are not in the repository. The guest's rules for accepting a change are the contract's own `Accepts`. An Add is refused when the resource exists, except for processes. A Remove or an Update is refused when the resource is absent, except for the HvSocket address, which is always replaced. How the guest treats the inner `RequestType` of a `NetworkModifyRequest` is not modelled (hazard in PROJECT.json).
- `Capabilities`, `DumpStacks` and the `ID`/`RuntimeID`/`PropertiesV2` getters only read state that no method changes.
- Composing `GuestManager` with `UtilityVM`, and a composed bring-up (Normalize, NUMA build and reconcile, Create, Start). The order "Create, Start, then CreateConnection, then guest requests" is made by callers outside the repository (the doc.go files describe it, no code here enforces it), and what HCS and the guest do with a request to a UVM that is not running is not in the repository either. A composed model would only check an order it assumed.
- `DefaultProcessorCountForUVM`: a stateless read of `runtime.NumCPU`, out of scope. In `lcow.go`, `os.Stat` finding a file, not a directory, named `LinuxBootFiles` is not modelled.
- What the LanmanRedirector driver expects in the bind request's `StructureSize`, and as its `Type`. The bind request passes Sizeof + 4 and the literal 2, while the start request passes Sizeof and the file declares `SmbCeTransportTypeVmbus = 3`. Only the driver defines which is right, so `VsmbBuffers` does not constrain these two fields (hazard in PROJECT.json).
