------------------------------ MODULE VsmbInit ------------------------------
(***************************************************************************)
(* VMSMB redirector bring-up of the gcs-sidecar (gcs-sidecar/vsmb.go,      *)
(* VsmbMain and the helpers it calls).                                     *)
(*                                                                         *)
(* VsmbMain runs once per start of the sidecar process.  It configures and *)
(* starts the LanmanWorkstation service, sleeps, queries the service,      *)
(* enables SeLoadDriverPrivilege, opens the LanmanRedirector device, asks  *)
(* it to start the VMSMB RDR instance, opens the VMSMB device and binds    *)
(* the VMBus transport to it.  Every step but the status query and the two *)
(* FSCTLs returns early on error; the FSCTL statuses are only logged.      *)
(*                                                                         *)
(* The environment: the service control manager, which completes a start  *)
(* asynchronously; the redirector driver, whose instance and binding       *)
(* outlive the sidecar process; Win32 calls that may fail (when Faults);   *)
(* and the sidecar process itself, which may die at any point and be       *)
(* started again (at most MaxRuns runs), losing its handles and its token  *)
(* privileges but not the service or driver state.                         *)
(***************************************************************************)
EXTENDS Naturals

CONSTANTS
    Faults,              \* TRUE: Win32 calls may fail for environmental reasons
    PrivilegeAssignable, \* subset of BOOLEAN: token may hold SeLoadDriverPrivilege
    MaxRuns              \* bound on the number of runs of VsmbMain

ASSUME Faults \in BOOLEAN
ASSUME PrivilegeAssignable \subseteq BOOLEAN /\ PrivilegeAssignable # {}
ASSUME MaxRuns \in Nat \ {0}

VARIABLES
    pc,          \* the statement of VsmbMain the sidecar is at
    handles,     \* device handles the current run holds open
    privHeld,    \* the sidecar's token has SeLoadDriverPrivilege enabled
    assignable,  \* the privilege is present in the sidecar's token
    svc,         \* LanmanWorkstation service state
    instance,    \* the VMSMB RDR instance is started in the redirector
    bound,       \* the VMBus transport is bound to the VMSMB instance
    run,         \* number of the current run of VsmbMain
    exit,        \* where the current run returned
    faulted,     \* a Win32 call failed for an environmental reason this run
    runStart     \* service and driver state when the current run began

vars == <<pc, handles, privHeld, assignable, svc, instance, bound, run, exit,
          faulted, runStart>>

\* A Win32 call's environmental failure; TRUE only when faults are modelled.
CanFail == Faults

\* The current run returns at this statement; its deferred CloseHandle
\* calls release every device handle it opened.
Return(why) ==
    /\ pc' = "done"
    /\ exit' = why
    /\ handles' = {}

Goto(l) == pc' = l /\ UNCHANGED exit

Init ==
    /\ pc = "configure"
    /\ handles = {}
    /\ privHeld = FALSE
    /\ assignable \in PrivilegeAssignable
    /\ svc = "stopped"
    /\ instance = FALSE
    /\ bound = FALSE
    /\ run = 1
    /\ exit = "none"
    /\ faulted = FALSE
    /\ runStart = [svc |-> "stopped", instance |-> FALSE]

-----------------------------------------------------------------------------
(***************************************************************************)
(* VsmbMain.                                                               *)
(***************************************************************************)

\* configureAndStartLanmanWorkstation: connect to the SCM, open the service,
\* `sc config ... start= auto`, `sc start`.  `sc start` fails when the
\* service is already running or start-pending (ERROR_SERVICE_ALREADY_RUNNING).
Configure ==
    /\ pc = "configure"
    /\ \/ /\ CanFail                         \* Connect/OpenService/sc config/sc start
          /\ faulted' = TRUE
          /\ Return("setupFailed")
          /\ UNCHANGED svc
       \/ /\ svc # "stopped"                 \* sc start on a started service
          /\ Return("setupFailed")
          /\ UNCHANGED <<svc, faulted>>
       \/ /\ svc = "stopped"
          /\ svc' = "startPending"
          /\ Goto("query")
          /\ UNCHANGED <<handles, faulted>>
    /\ UNCHANGED <<privHeld, assignable, instance, bound, run, runStart>>

\* time.Sleep(3s) then isLanmanWorkstationRunning: the result is only
\* logged, and VsmbMain goes on whether or not the service is running.
QueryService ==
    /\ pc = "query"
    /\ Goto("privilege")
    /\ UNCHANGED <<handles, privHeld, assignable, svc, instance, bound, run,
                   faulted, runStart>>

\* Mutation of EnablePrivilege: AdjustTokenPrivileges called with
\* DisableAllPrivileges set.
EnablePrivilegeDisableAll ==
    /\ pc = "privilege"
    /\ privHeld' = FALSE
    /\ Goto("openLmr")
    /\ UNCHANGED <<handles, faulted, assignable, svc, instance, bound, run, runStart>>

\* enablePrivilege(SE_LOAD_DRIVER_NAME).  OpenProcessToken, LookupPrivilege-
\* Value and AdjustTokenPrivileges errors return early.  AdjustTokenPrivileges
\* succeeds when the privilege is absent from the token (ERROR_NOT_ALL_ASSIGNED
\* is only visible through GetLastError), and enablePrivilege returns nil
\* whatever GetLastError reports: the privilege is enabled iff assignable.
EnablePrivilege ==
    /\ pc = "privilege"
    /\ \/ /\ CanFail
          /\ faulted' = TRUE
          /\ Return("privilegeFailed")
          /\ UNCHANGED privHeld
       \/ /\ privHeld' = assignable
          /\ Goto("openLmr")
          /\ UNCHANGED <<handles, faulted>>
    /\ UNCHANGED <<assignable, svc, instance, bound, run, runStart>>

\* CreateFile(GLOBAL_RDR_DEVICE_NAME); on success its CloseHandle is deferred.
OpenLmr ==
    /\ pc = "openLmr"
    /\ \/ /\ CanFail
          /\ faulted' = TRUE
          /\ Return("lmrOpenFailed")
       \/ /\ handles' = handles \cup {"lmr"}
          /\ Goto("startInstance")
          /\ UNCHANGED faulted
    /\ UNCHANGED <<privHeld, assignable, svc, instance, bound, run, runStart>>

\* NtFsControlFile(FSCTL_LMR_START_INSTANCE).  The redirector refuses it
\* without the privilege and answers STATUS_OBJECT_NAME_COLLISION
\* (0xC0000035, "already started") when the instance exists.  Every status
\* is only logged and VsmbMain goes on to the VMSMB device.
StartInstance ==
    /\ pc = "startInstance"
    /\ \/ /\ privHeld /\ ~instance
          /\ instance' = TRUE
          /\ UNCHANGED faulted
       \/ /\ privHeld /\ ~instance /\ CanFail
          /\ faulted' = TRUE
          /\ UNCHANGED instance
       \/ /\ ~privHeld \/ instance
          /\ UNCHANGED <<instance, faulted>>
    /\ Goto("openVmsmb")
    /\ UNCHANGED <<handles, privHeld, assignable, svc, bound, run, runStart>>

\* CreateFile(GLOBAL_VMSMB_DEVICE_NAME).  The \Device\vmsmb object is the
\* instance's device, so the open fails while no instance is started.
OpenVmsmb ==
    /\ pc = "openVmsmb"
    /\ \/ /\ ~instance
          /\ Return("vmsmbOpenFailed")
          /\ UNCHANGED faulted
       \/ /\ instance /\ CanFail
          /\ faulted' = TRUE
          /\ Return("vmsmbOpenFailed")
       \/ /\ instance
          /\ handles' = handles \cup {"vmsmb"}
          /\ Goto("bind")
          /\ UNCHANGED faulted
    /\ UNCHANGED <<privHeld, assignable, svc, instance, bound, run, runStart>>

\* NtFsControlFile(FSCTL_LMR_BIND_TO_TRANSPORT), status logged, then
\* VsmbMain returns and both deferred CloseHandle calls run.  What the
\* driver answers to a second bind is not known, and either way the
\* transport stays bound.
Bind ==
    /\ pc = "bind"
    /\ \/ /\ bound' = TRUE
          /\ UNCHANGED faulted
       \/ /\ CanFail /\ ~bound
          /\ faulted' = TRUE
          /\ UNCHANGED bound
    /\ Return("completed")
    /\ UNCHANGED <<privHeld, assignable, svc, instance, run, runStart>>

-----------------------------------------------------------------------------
(***************************************************************************)
(* Environment.                                                            *)
(***************************************************************************)

\* The service control manager finishes starting LanmanWorkstation ...
ServiceStarted ==
    /\ svc = "startPending"
    /\ svc' = "running"
    /\ UNCHANGED <<pc, handles, privHeld, assignable, instance, bound, run, exit,
                   faulted, runStart>>

\* ... or the start fails.
ServiceStartFailed ==
    /\ Faults
    /\ svc = "startPending"
    /\ svc' = "stopped"
    /\ UNCHANGED <<pc, handles, privHeld, assignable, instance, bound, run, exit,
                   faulted, runStart>>

\* The sidecar process exits (crash or stop) at any statement and is started
\* again: the OS closes its handles, the new token has the privilege
\* disabled, and VsmbMain runs from the top.  Service and driver state stay.
SidecarRestart ==
    /\ run < MaxRuns
    /\ pc' = "configure"
    /\ handles' = {}
    /\ privHeld' = FALSE
    /\ run' = run + 1
    /\ exit' = "none"
    /\ faulted' = FALSE
    /\ runStart' = [svc |-> svc, instance |-> instance]
    /\ UNCHANGED <<assignable, svc, instance, bound>>

VsmbMain ==
    \/ Configure \/ QueryService \/ EnablePrivilege \/ OpenLmr
    \/ StartInstance \/ OpenVmsmb \/ Bind

Next ==
    \/ VsmbMain
    \/ ServiceStarted \/ ServiceStartFailed
    \/ SidecarRestart

\* VsmbMain's statements never wait, so the running sidecar keeps stepping;
\* the SCM completes a start it has accepted.  Restarts are not fair.
Fairness ==
    /\ WF_vars(VsmbMain)
    /\ WF_vars(ServiceStarted)

Spec == Init /\ [][Next]_vars /\ Fairness

-----------------------------------------------------------------------------
(***************************************************************************)
(* Properties.                                                             *)
(***************************************************************************)

\* A run on a guest where neither the service nor the RDR instance has been
\* started, that meets no Win32 failure and may enable the privilege, ends
\* at the end of VsmbMain with the instance started and the transport bound,
\* whatever the service's progress during the sleep.
FreshRunBringsUpVsmb ==
    (pc = "done" /\ ~faulted /\ assignable
       /\ runStart.svc = "stopped" /\ ~runStart.instance)
      => exit = "completed" /\ instance /\ bound

\* The VMSMB redirector is eventually up even when the sidecar is restarted:
\* the "VMSMB RDR instance already started" branch (vsmb.go:288) is there
\* for a run that finds the instance from an earlier run.
EventuallyVsmbReady == <>(instance /\ bound)

\* FSCTL_LMR_START_INSTANCE is only issued with SeLoadDriverPrivilege
\* enabled in the sidecar's token, as the enablePrivilege call before it
\* is there to ensure.
StartWithPrivilege == [][pc = "startInstance" /\ pc' # pc => privHeld]_vars

=============================================================================
