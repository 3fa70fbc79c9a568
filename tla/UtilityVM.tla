------------------------------ MODULE UtilityVM ------------------------------
(***************************************************************************)
(* Host-side utility VM (vmmanager/uvm.go Create, vmmanager/lifetime.go).  *)
(*                                                                         *)
(* Create asks HCS to create the compute system, then reads its            *)
(* properties for the runtime ID.  A deferred function terminates and      *)
(* waits for the compute system unless ownership has passed to the         *)
(* returned UtilityVM (`cs = nil`).  The LifetimeManager methods forward   *)
(* to the hcs.System and wrap its error.                                   *)
(*                                                                         *)
(* The HCS compute system is the environment.  Its states follow the       *)
(* LifetimeManager comments: Start powers a created system on, Pause and   *)
(* Resume move between running and paused, Save snapshots a paused        *)
(* system, Terminate powers it off, Close terminates it and releases the   *)
(* handle, Wait returns once it has stopped; a started system may also    *)
(* stop on its own (guest shutdown or crash).  A call HCS rejects in the   *)
(* current state returns an error and changes nothing.                     *)
(*                                                                         *)
(* Create's context may be cancelled while it runs.  An HCS call made      *)
(* under a cancelled context returns the context's error at once; the      *)
(* call itself is still issued in the background (vmcompute runs the      *)
(* syscall in its own goroutine), so a Terminate requested that way       *)
(* completes later.                                                        *)
(*                                                                         *)
(* Wait runs in a goroutine of its own, beside the other calls.  It        *)
(* blocks in WaitCtx until the hcs.System's wait block is closed or its    *)
(* own context ends.  HCS closes the wait block once, with the exit        *)
(* result when the exit notification arrives, or with ErrAlreadyClosed     *)
(* when Close comes first.                                                 *)
(***************************************************************************)
EXTENDS Naturals

CONSTANTS
    Ids,                \* utility VM IDs the shim creates, concurrently
    PropertiesMayFail   \* TRUE: HCS may fail the properties query in Create

ASSUME PropertiesMayFail \in BOOLEAN

\* Each variable maps a utility VM ID to:
VARIABLES
    create,   \* Create's control point, then how it returned
    sys,      \* the HCS compute system's state
    handle,   \* the hcs.System handle Create opened
    owned,    \* the returned UtilityVM holds the system (uvm.cs set)
    lastCall, \* the last LifetimeManager call and whether it succeeded
    ctxDone,  \* Create's context has been cancelled
    waitBlock,   \* the hcs.System's wait block: open, exited or closed
    waiter,      \* the Wait goroutine: idle, waiting, or what it returned
    waitCtxDone, \* the context of the pending Wait has ended
    crashed,     \* the system stopped without being asked (an unexpected exit)
    exitErr      \* what the last ExitError call returned

waitVars == <<waitBlock, waiter, waitCtxDone, crashed, exitErr>>
vars == <<create, sys, handle, owned, lastCall, ctxDone, waitVars>>

SysStates == {"none", "created", "running", "paused", "stopping", "stopped"}
Ops == {"none", "Start", "Pause", "Resume", "Save", "Terminate", "Close"}

Init ==
    /\ create = [i \in Ids |-> "start"]
    /\ sys = [i \in Ids |-> "none"]
    /\ handle = [i \in Ids |-> "none"]
    /\ owned = [i \in Ids |-> FALSE]
    /\ lastCall = [i \in Ids |-> [op |-> "none", ok |-> TRUE]]
    /\ ctxDone = [i \in Ids |-> FALSE]
    /\ waitBlock = [i \in Ids |-> "open"]
    /\ waiter = [i \in Ids |-> "idle"]
    /\ waitCtxDone = [i \in Ids |-> FALSE]
    /\ crashed = [i \in Ids |-> FALSE]
    /\ exitErr = [i \in Ids |-> "none"]

-----------------------------------------------------------------------------
(***************************************************************************)
(* Create.                                                                 *)
(***************************************************************************)

\* hcs.CreateComputeSystem: on error Create returns it, nothing to clean up.
CreateComputeSystem(i) ==
    /\ create[i] = "start"
    /\ \/ /\ ~ctxDone[i]
          /\ sys' = [sys EXCEPT ![i] = "created"]
          /\ handle' = [handle EXCEPT ![i] = "open"]
          /\ create' = [create EXCEPT ![i] = "properties"]
       \/ /\ create' = [create EXCEPT ![i] = "failed"]
          /\ UNCHANGED <<sys, handle>>
    /\ UNCHANGED <<owned, lastCall, ctxDone, waitVars>>

\* Mutation of GetProperties: ownership passes but `cs = nil` is missing.
GetPropertiesKeepingCleanup(i) ==
    /\ create[i] = "properties"
    /\ owned' = [owned EXCEPT ![i] = TRUE]
    /\ create' = [create EXCEPT ![i] = "deferTerminate"]
    /\ UNCHANGED <<sys, handle, lastCall, ctxDone, waitVars>>

\* cs.Properties: on error the deferred cleanup runs on the way out; on
\* success the runtime ID is cached, uvm.cs = cs and cs = nil, so the
\* deferred function finds nothing to clean up.
GetProperties(i) ==
    /\ create[i] = "properties"
    /\ \/ /\ PropertiesMayFail \/ ctxDone[i]
          /\ create' = [create EXCEPT ![i] = "deferTerminate"]
          /\ UNCHANGED owned
       \/ /\ ~ctxDone[i]
          /\ owned' = [owned EXCEPT ![i] = TRUE]
          /\ create' = [create EXCEPT ![i] = "ok"]
    /\ UNCHANGED <<sys, handle, lastCall, ctxDone, waitVars>>

Alive == {"created", "running", "paused"}

\* Mutation of DeferTerminate: cleanup skipped once the context is done.
DeferTerminateUnlessCancelled(i) ==
    /\ create[i] = "deferTerminate"
    /\ sys' = [sys EXCEPT ![i] = IF @ \in Alive /\ ~ctxDone[i] THEN "stopped" ELSE @]
    /\ create' = [create EXCEPT ![i] = "deferWait"]
    /\ UNCHANGED <<handle, owned, lastCall, ctxDone, waitVars>>

\* The deferred `_ = cs.Terminate(ctx)`, error ignored.  Under a cancelled
\* context it returns at once and the termination completes later.
DeferTerminate(i) ==
    /\ create[i] = "deferTerminate"
    /\ sys' = [sys EXCEPT ![i] = IF @ \notin Alive THEN @
                                 ELSE IF ctxDone[i] THEN "stopping" ELSE "stopped"]
    /\ create' = [create EXCEPT ![i] = "deferWait"]
    /\ UNCHANGED <<handle, owned, lastCall, ctxDone, waitVars>>

\* Mutation of DeferWait: the returned value and error are swapped.
DeferWaitSwapped(i) ==
    /\ create[i] = "deferWait"
    /\ waitBlock[i] # "open" \/ ctxDone[i]
    /\ create' = [create EXCEPT ![i] = IF owned[i] THEN "failed" ELSE "ok"]
    /\ UNCHANGED <<sys, handle, owned, lastCall, ctxDone, waitVars>>

\* The deferred `_ = cs.WaitCtx(ctx)`, which returns when the wait block
\* is closed or the context is done; then Create returns: with the error
\* when it still owned cs, with the UtilityVM otherwise.  Neither path
\* closes the hcs.System.
DeferWait(i) ==
    /\ create[i] = "deferWait"
    /\ waitBlock[i] # "open" \/ ctxDone[i]
    /\ create' = [create EXCEPT ![i] = IF owned[i] THEN "ok" ELSE "failed"]
    /\ UNCHANGED <<sys, handle, owned, lastCall, ctxDone, waitVars>>

-----------------------------------------------------------------------------
(***************************************************************************)
(* LifetimeManager.                                                        *)
(***************************************************************************)

\* A method forwarding to HCS on the UtilityVM Create returned: it succeeds
\* and moves the system from a state in `from` to `to`, or fails unchanged
\* (HCS rejects the state, or the handle is already closed).
Forward(i, op, from, to) ==
    /\ create[i] = "ok"
    /\ \/ /\ handle[i] = "open"
          /\ sys[i] \in from
          /\ sys' = [sys EXCEPT ![i] = to]
          /\ lastCall' = [lastCall EXCEPT ![i] = [op |-> op, ok |-> TRUE]]
       \/ /\ handle[i] # "open" \/ sys[i] \notin from
          /\ lastCall' = [lastCall EXCEPT ![i] = [op |-> op, ok |-> FALSE]]
          /\ UNCHANGED sys
    /\ UNCHANGED <<create, handle, owned, ctxDone, waitVars>>

Start(i)     == Forward(i, "Start", {"created"}, "running")
Pause(i)     == Forward(i, "Pause", {"running"}, "paused")
Resume(i)    == Forward(i, "Resume", {"paused"}, "running")
Save(i)      == Forward(i, "Save", {"paused"}, "paused")
Terminate(i) == Forward(i, "Terminate", {"created", "running", "paused"}, "stopped")

\* Close: CloseCtx terminates the system, releases the handle and closes
\* the wait block with ErrAlreadyClosed unless the exit closed it first;
\* on a handle already closed it does nothing and returns nil.
Close(i) ==
    /\ create[i] = "ok"
    /\ \/ /\ handle[i] = "open"
          /\ sys' = [sys EXCEPT ![i] = IF @ = "none" THEN @ ELSE "stopped"]
          /\ handle' = [handle EXCEPT ![i] = "closed"]
          /\ owned' = [owned EXCEPT ![i] = FALSE]
          /\ waitBlock' = [waitBlock EXCEPT ![i] = IF @ = "open" THEN "closed" ELSE @]
       \/ /\ handle[i] = "closed"
          /\ UNCHANGED <<sys, handle, owned, waitBlock>>
    /\ lastCall' = [lastCall EXCEPT ![i] = [op |-> "Close", ok |-> TRUE]]
    /\ UNCHANGED <<create, ctxDone, waiter, waitCtxDone, crashed, exitErr>>

\* Wait: a goroutine calls uvm.Wait(ctx) with a context of its own and
\* blocks in cs.WaitCtx.
Wait(i) ==
    /\ create[i] = "ok"
    /\ waiter[i] # "waiting"
    /\ waiter' = [waiter EXCEPT ![i] = "waiting"]
    /\ waitCtxDone' = [waitCtxDone EXCEPT ![i] = FALSE]
    /\ UNCHANGED <<create, sys, handle, owned, lastCall, ctxDone, waitBlock, crashed, exitErr>>

\* Mutation of WaitReturn: the context's error is taken for a clean exit.
WaitReturnNilOnCancel(i) ==
    /\ waiter[i] = "waiting"
    /\ \/ /\ waitBlock[i] = "exited" \/ waitCtxDone[i]
          /\ waiter' = [waiter EXCEPT ![i] = "ok"]
       \/ /\ waitBlock[i] = "closed"
          /\ waiter' = [waiter EXCEPT ![i] = "err"]
    /\ UNCHANGED <<create, sys, handle, owned, lastCall, ctxDone, waitBlock, waitCtxDone, crashed, exitErr>>

\* Mutation of WaitReturn: cs.Wait() in place of cs.WaitCtx(ctx).
WaitReturnIgnoringCtx(i) ==
    /\ waiter[i] = "waiting"
    /\ \/ /\ waitBlock[i] = "exited"
          /\ waiter' = [waiter EXCEPT ![i] = "ok"]
       \/ /\ waitBlock[i] = "closed"
          /\ waiter' = [waiter EXCEPT ![i] = "err"]
    /\ UNCHANGED <<create, sys, handle, owned, lastCall, ctxDone, waitBlock, waitCtxDone, crashed, exitErr>>

\* `return uvm.cs.WaitCtx(ctx)`: the select takes any ready case, the
\* exit (nil, the exit's own error aside), the wait block closed by Close
\* (ErrAlreadyClosed) or the context (ctx.Err()).
WaitReturn(i) ==
    /\ waiter[i] = "waiting"
    /\ \/ /\ waitBlock[i] = "exited"
          /\ waiter' = [waiter EXCEPT ![i] = "ok"]
       \/ /\ waitBlock[i] = "closed" \/ waitCtxDone[i]
          /\ waiter' = [waiter EXCEPT ![i] = "err"]
    /\ UNCHANGED <<create, sys, handle, owned, lastCall, ctxDone, waitBlock, waitCtxDone, crashed, exitErr>>

\* Mutation of ExitError: the exit error alone, the wait error dropped.
ExitErrorIgnoringWaitError(i) ==
    /\ create[i] = "ok"
    /\ exitErr' = [exitErr EXCEPT ![i] = IF waitBlock[i] = "open" THEN "notExited"
                                         ELSE IF crashed[i] THEN "unexpected" ELSE "nil"]
    /\ UNCHANGED <<create, sys, handle, owned, lastCall, ctxDone, waitBlock, waiter, waitCtxDone, crashed>>

\* Mutation of ExitError: a closed handle reported before the wait block.
ExitErrorCheckingHandle(i) ==
    /\ create[i] = "ok"
    /\ exitErr' = [exitErr EXCEPT ![i] = CASE handle[i] = "closed"  -> "closed"
                                           [] waitBlock[i] = "open"   -> "notExited"
                                           [] waitBlock[i] = "closed" -> "closed"
                                           [] crashed[i]              -> "unexpected"
                                           [] OTHER                   -> "nil"]
    /\ UNCHANGED <<create, sys, handle, owned, lastCall, ctxDone, waitBlock, waiter, waitCtxDone, crashed>>

\* `return uvm.cs.ExitError()`: while the wait block is open, an error that
\* the system has not exited; once it is closed, the wait error when there
\* is one (ErrAlreadyClosed, Close having closed it), otherwise the exit
\* error, which HCS sets only for an unexpected exit.
ExitError(i) ==
    /\ create[i] = "ok"
    /\ exitErr' = [exitErr EXCEPT ![i] = CASE waitBlock[i] = "open"   -> "notExited"
                                           [] waitBlock[i] = "closed" -> "closed"
                                           [] crashed[i]              -> "unexpected"
                                           [] OTHER                   -> "nil"]
    /\ UNCHANGED <<create, sys, handle, owned, lastCall, ctxDone, waitBlock, waiter, waitCtxDone, crashed>>

\* The guest shuts down or crashes: HCS will report an unexpected exit.
SystemExit(i) ==
    /\ sys[i] \in {"running", "paused"}
    /\ sys' = [sys EXCEPT ![i] = "stopped"]
    /\ crashed' = [crashed EXCEPT ![i] = TRUE]
    /\ UNCHANGED <<create, handle, owned, lastCall, ctxDone, waitBlock, waiter, waitCtxDone, exitErr>>

\* HCS completes a termination issued in the background.
TerminateCompletes(i) ==
    /\ sys[i] = "stopping"
    /\ sys' = [sys EXCEPT ![i] = "stopped"]
    /\ UNCHANGED <<create, handle, owned, lastCall, ctxDone, waitVars>>

\* The caller cancels Create's context (or its deadline passes).
CancelCreate(i) ==
    /\ create[i] \notin {"ok", "failed"}
    /\ ~ctxDone[i]
    /\ ctxDone' = [ctxDone EXCEPT ![i] = TRUE]
    /\ UNCHANGED <<create, sys, handle, owned, lastCall, waitVars>>

\* HCS delivers the exit notification of a stopped system; the first of it
\* and Close closes the wait block.
ExitNotified(i) ==
    /\ sys[i] = "stopped"
    /\ waitBlock[i] = "open"
    /\ waitBlock' = [waitBlock EXCEPT ![i] = "exited"]
    /\ UNCHANGED <<create, sys, handle, owned, lastCall, ctxDone, waiter, waitCtxDone, crashed, exitErr>>

\* The caller of Wait cancels its context.
CancelWait(i) ==
    /\ waiter[i] = "waiting"
    /\ ~waitCtxDone[i]
    /\ waitCtxDone' = [waitCtxDone EXCEPT ![i] = TRUE]
    /\ UNCHANGED <<create, sys, handle, owned, lastCall, ctxDone, waitBlock, waiter, crashed, exitErr>>

Next ==
    \E i \in Ids :
        \/ CreateComputeSystem(i) \/ GetProperties(i) \/ DeferTerminate(i) \/ DeferWait(i)
        \/ Start(i) \/ Pause(i) \/ Resume(i) \/ Save(i) \/ Terminate(i) \/ Close(i)
        \/ Wait(i) \/ WaitReturn(i) \/ ExitError(i)
        \/ SystemExit(i) \/ TerminateCompletes(i) \/ CancelCreate(i)
        \/ ExitNotified(i) \/ CancelWait(i)

\* HCS finishes a termination it has accepted and delivers the exit
\* notification of a stopped system; a Wait goroutine whose select has a
\* ready case is scheduled.
Fairness ==
    /\ \A i \in Ids : WF_vars(TerminateCompletes(i))
    /\ \A i \in Ids : WF_vars(ExitNotified(i))
    /\ \A i \in Ids : WF_vars(WaitReturn(i))

Spec == Init /\ [][Next]_vars /\ Fairness

-----------------------------------------------------------------------------
(***************************************************************************)
(* Properties.                                                             *)
(***************************************************************************)

\* Every variable keeps to its domain; only the returned UtilityVM owns the
\* system, it owns one that exists, and until Close it does own it.
TypeOK ==
    /\ create \in [Ids -> {"start", "properties", "deferTerminate", "deferWait", "ok", "failed"}]
    /\ sys \in [Ids -> SysStates]
    /\ handle \in [Ids -> {"none", "open", "closed"}]
    /\ owned \in [Ids -> BOOLEAN]
    /\ lastCall \in [Ids -> [op : Ops, ok : BOOLEAN]]
    /\ ctxDone \in [Ids -> BOOLEAN]
    /\ waitBlock \in [Ids -> {"open", "exited", "closed"}]
    /\ waiter \in [Ids -> {"idle", "waiting", "ok", "err"}]
    /\ waitCtxDone \in [Ids -> BOOLEAN]
    /\ crashed \in [Ids -> BOOLEAN]
    /\ exitErr \in [Ids -> {"none", "notExited", "closed", "unexpected", "nil"}]
    /\ \A i \in Ids : owned[i] => create[i] \in {"ok", "deferTerminate", "deferWait"} /\ sys[i] # "none"
    /\ \A i \in Ids : create[i] = "ok" /\ handle[i] = "open" => owned[i]

\* Create is all or nothing (uvm.go Create, the deferred cleanup and the
\* `cs = nil` hand-over): when it returns a UtilityVM, the compute system is
\* created, untouched by the cleanup and owned by the UtilityVM; when it
\* returns an error, no compute system it created is left running without
\* a termination under way.
CreateAllOrNothing ==
    [][\A i \in Ids :
         create[i] \notin {"ok", "failed"} /\ create'[i] \in {"ok", "failed"} =>
           /\ create'[i] = "ok" => sys'[i] = "created" /\ owned'[i]
           /\ create'[i] = "failed" => sys'[i] \in {"none", "stopping", "stopped"}
                                       /\ ~owned'[i]]_vars

\* A compute system whose Create failed stops, even when the context that
\* failed Create is the one its deferred Terminate and WaitCtx run under.
FailedCreateStops ==
    \A i \in Ids : create[i] = "failed" ~> sys[i] \in {"none", "stopped"}

\* Wait returns nil only for a system that has stopped (lifetime.go Wait):
\* neither a Close racing the exit nor the caller's own cancellation is
\* reported as a clean exit.
WaitOkMeansStopped == \A i \in Ids : waiter[i] = "ok" => sys[i] = "stopped"

\* A blocked Wait returns once the system has stopped, the UtilityVM has
\* been closed, or its context has ended.
WaitReturns ==
    \A i \in Ids :
        waiter[i] = "waiting" /\ (sys[i] = "stopped" \/ handle[i] = "closed" \/ waitCtxDone[i])
            ~> waiter[i] # "waiting"

\* ExitError keeps its answer once the system has exited (lifetime.go
\* ExitError, "the exit error of the utility VM, if it has exited"): a nil,
\* the unexpected exit's error or ErrAlreadyClosed, once returned, is what
\* every later call returns, whatever Close or Wait does in between.
ExitErrorStable ==
    [][\A i \in Ids : exitErr[i] \notin {"none", "notExited"} =>
                        exitErr'[i] = exitErr[i]]_vars

\* ExitError reports Wait's error (the LifetimeManager comment: "if the
\* Utility VM experienced an error after Wait returned, it will return the
\* wait error"): once a Wait has failed other than by its own context,
\* ExitError never answers nil, nor the unexpected exit in its place.
ExitErrorAgreesWithWait ==
    \A i \in Ids : waiter[i] = "err" /\ ~waitCtxDone[i] =>
                     exitErr[i] \in {"none", "notExited", "closed"}

\* The hcs.System handle Create opened is closed on its error path: the
\* error returns nil, so no caller can ever close it.
NoHandleLeakOnError == \A i \in Ids : create[i] = "failed" => handle[i] # "open"

=============================================================================
