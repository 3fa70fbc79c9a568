----------------------------- MODULE GuestManager -----------------------------
(***************************************************************************)
(* The resource methods of guestmanager.Guest and of vmmanager's           *)
(* NetworkManager, at the level of the requests they send.                 *)
(*                                                                         *)
(* Each method builds one request and blocks on it:                        *)
(*  - a guest modification (gm.modify) with a ResourceType, a RequestType  *)
(*    and Settings;                                                        *)
(*  - an HCS modification (uvm.cs.Modify) with a RequestType and a         *)
(*    ResourcePath naming the NIC;                                         *)
(*  - a GCS connection RPC (gm.gc.CreateContainer, CreateProcess,          *)
(*    DeleteContainerState).                                               *)
(* Each method returns nil when the call does, and the wrapped error       *)
(* otherwise.  UpdateNIC refuses nil settings before sending anything.     *)
(*                                                                         *)
(* The transport is the environment.  A request is handled at most once,   *)
(* by the component that owns the resource, which may refuse it.  The      *)
(* caller's context may end while the request is in flight: the method     *)
(* returns the context's error, and the request may still be handled       *)
(* later.  The connection may fail a request, and the method then returns  *)
(* the failure.                                                            *)
(***************************************************************************)
EXTENDS Naturals, FiniteSets, Bags, BagsExt, FiniteSetsExt

CONSTANTS
    Ops,        \* the methods the caller invokes
    Items,      \* resource identities: IDs, adapter IDs, paths
    MaxStrays   \* bound on abandoned requests still in flight

ASSUME MaxStrays \in 1 .. 3

VARIABLES
    res,       \* res[k]: the resources of kind k in the guest or the VM
    caller,    \* the caller's method call: pc, op, item
    inflight,  \* the bag of requests sent and not yet handled, each as the
               \* change its owner reads from it: [kind, rt, item, waiter]
    reply,     \* the answer the waiting call has received
    outcome    \* the last method call that returned, and its result

vars == <<res, caller, inflight, reply, outcome>>

Idle == [pc |-> "idle", op |-> "none", item |-> "none"]

-----------------------------------------------------------------------------
(***************************************************************************)
(* How the owner reads a request: the kind, the change and the target.     *)
(***************************************************************************)

\* hcsschema.ModifySettingRequest with a GuestRequest, as gm.modify sends it.
GuestRequest(resourceType, requestType, settings) ==
    [via |-> "guest", ResourceType |-> resourceType,
     RequestType |-> requestType, Settings |-> settings]

\* hcsschema.ModifySettingRequest addressed by path, as uvm.cs.Modify sends it.
\* fmt.Sprintf(resourcepaths.NetworkResourceFormat, nicID) names the NIC.
HostRequest(requestType, nicID, settings) ==
    [via |-> "hcs", RequestType |-> requestType,
     ResourcePath |-> <<"VirtualMachine", "Devices", "NetworkAdapters", nicID>>,
     Settings |-> settings]

\* A call on the GCS connection.
Rpc(name, arg) == [via |-> "rpc", rpc |-> name, arg |-> arg]

RpcChange == [CreateContainer |-> [kind |-> "Container", rt |-> "Add"],
              DeleteContainerState |-> [kind |-> "Container", rt |-> "Remove"],
              CreateProcess |-> [kind |-> "Process", rt |-> "Add"]]

\* The guest finds the target in the settings: the adapter of a
\* NetworkModifyRequest, the ID of any other resource.
GuestTarget(s) == IF "AdapterId" \in DOMAIN s THEN s.AdapterId ELSE s.id

ChangeOfRequest(r) ==
    CASE r.via = "guest" -> [kind |-> r.ResourceType, rt |-> r.RequestType,
                             item |-> GuestTarget(r.Settings)]
      [] r.via = "hcs"   -> [kind |-> "NetworkAdapter", rt |-> r.RequestType,
                             item |-> r.ResourcePath[4]]
      [] r.via = "rpc"   -> [kind |-> RpcChange[r.rpc].kind,
                             rt |-> RpcChange[r.rpc].rt, item |-> r.arg]

\* A request in flight, and whether the caller is still waiting for it.
Message(req, waiter) ==
    LET ch == ChangeOfRequest(req)
    IN  [kind |-> ch.kind, rt |-> ch.rt, item |-> ch.item, waiter |-> waiter]

\* The abandoned requests in flight, and how many of them there are.
Strays == {m \in DOMAIN inflight : ~m.waiter}
StrayCount == MapThenSumSet(LAMBDA m : inflight[m], Strays)

(***************************************************************************)
(* The refinement mapping.  The caller's call is pending while its request *)
(* is in flight or the connection has failed it, effected or rejected     *)
(* once the owner has answered; an abandoned request is a stray change.   *)
(***************************************************************************)
AbsCall ==
    IF caller.pc = "idle"
    THEN [op |-> "none", item |-> "none", phase |-> "idle"]
    ELSE [op |-> caller.op, item |-> caller.item,
          phase |-> CASE reply \in {"none", "failed"} -> "pending"
                      [] reply = "ok"                -> "effected"
                      [] reply = "rejected"          -> "rejected"]

ChangeOf(m) == [kind |-> m.kind, rt |-> m.rt, item |-> m.item]

AbsStrays ==
    [ch \in {ChangeOf(m) : m \in Strays} |->
        MapThenSumSet(LAMBDA m : inflight[m], {m \in Strays : ChangeOf(m) = ch})]

\* The contract these methods are checked against.  Its Accepts and Effect
\* also say how the owner of a resource handles a change.
Contract == INSTANCE GuestResourceSpec
    WITH present <- res, call <- AbsCall, outcome <- outcome, strays <- AbsStrays

Init ==
    /\ res \in [Contract!Kinds -> SUBSET Items]
    /\ caller = Idle
    /\ inflight = EmptyBag
    /\ reply = "none"
    /\ outcome = [op |-> "none", item |-> "none", result |-> "none"]

-----------------------------------------------------------------------------
(***************************************************************************)
(* The methods.  Each sends its request and waits for the answer.          *)
(***************************************************************************)

Send(op, x, req) ==
    /\ op \in Ops
    /\ caller.pc = "idle"
    /\ caller' = [pc |-> "waiting", op |-> op, item |-> x]
    /\ inflight' = BagAdd(inflight, Message(req, TRUE))
    /\ UNCHANGED <<res, reply, outcome>>

AddLCOWNetworkInterface(x) ==
    Send("AddLCOWNetworkInterface", x, GuestRequest("Network", "Add", [id |-> x]))

RemoveLCOWNetworkInterface(x) ==
    Send("RemoveLCOWNetworkInterface", x, GuestRequest("Network", "Remove", [id |-> x]))

AddNetworkNamespace(x) ==
    Send("AddNetworkNamespace", x, GuestRequest("NetworkNamespace", "Add", [id |-> x]))

\* Mutation of RemoveNetworkNamespace: the Add request copied, type unchanged.
RemoveNetworkNamespaceAsAdd(x) ==
    Send("RemoveNetworkNamespace", x, GuestRequest("NetworkNamespace", "Add", [id |-> x]))

RemoveNetworkNamespace(x) ==
    Send("RemoveNetworkNamespace", x, GuestRequest("NetworkNamespace", "Remove", [id |-> x]))

\* The caller's requestType travels inside a NetworkModifyRequest; the
\* outer RequestType is fixed by the method.
NetworkModifyRequest(x, requestType) ==
    [AdapterId |-> x, RequestType |-> requestType, Settings |-> "endpoint"]

AddNetworkInterface(x, requestType) ==
    Send("AddNetworkInterface", x,
         GuestRequest("Network", "Add", NetworkModifyRequest(x, requestType)))

RemoveNetworkInterface(x, requestType) ==
    Send("RemoveNetworkInterface", x,
         GuestRequest("Network", "Remove", NetworkModifyRequest(x, requestType)))

RemoveSCSIDevice(x) ==
    Send("RemoveSCSIDevice", x, GuestRequest("SCSIDevice", "Remove", [id |-> x]))

updateHvSocketAddress(x) ==
    Send("updateHvSocketAddress", x, GuestRequest("HvSocket", "Update", [id |-> x]))

AddMappedDirectory(x) ==
    Send("AddMappedDirectory", x, GuestRequest("MappedDirectory", "Add", [id |-> x]))

AddSecurityPolicy(x) ==
    Send("AddSecurityPolicy", x, GuestRequest("SecurityPolicy", "Add", [id |-> x]))

\* Mutation of InjectPolicyFragment: AddSecurityPolicy's ResourceType copied.
InjectPolicyFragmentAsPolicy(x) ==
    Send("InjectPolicyFragment", x, GuestRequest("SecurityPolicy", "Add", [id |-> x]))

InjectPolicyFragment(x) ==
    Send("InjectPolicyFragment", x,
         GuestRequest("SecurityPolicyFragment", "Add", [id |-> x]))

CreateContainer(x)      == Send("CreateContainer", x, Rpc("CreateContainer", x))
DeleteContainerState(x) == Send("DeleteContainerState", x, Rpc("DeleteContainerState", x))
CreateProcess(x)        == Send("CreateProcess", x, Rpc("CreateProcess", x))

AddNIC(x, settings)    == Send("AddNIC", x, HostRequest("Add", x, settings))
RemoveNIC(x, settings) == Send("RemoveNIC", x, HostRequest("Remove", x, settings))

\* Mutation of UpdateNIC: the nil check returns nil instead of the error.
UpdateNICReturningNil(x, settings) ==
    /\ "UpdateNIC" \in Ops
    /\ caller.pc = "idle"
    /\ \/ /\ settings = "nil"
          /\ outcome' = [op |-> "UpdateNIC", item |-> x, result |-> "ok"]
          /\ UNCHANGED <<caller, inflight>>
       \/ /\ settings # "nil"
          /\ caller' = [pc |-> "waiting", op |-> "UpdateNIC", item |-> x]
          /\ inflight' = BagAdd(inflight,
                 Message(HostRequest("Update", x, settings), TRUE))
          /\ UNCHANGED outcome
    /\ UNCHANGED <<res, reply>>

\* UpdateNIC returns an error for nil settings and sends nothing.
UpdateNIC(x, settings) ==
    /\ "UpdateNIC" \in Ops
    /\ caller.pc = "idle"
    /\ \/ /\ settings = "nil"
          /\ outcome' = [op |-> "UpdateNIC", item |-> x, result |-> "err"]
          /\ UNCHANGED <<caller, inflight>>
       \/ /\ settings # "nil"
          /\ caller' = [pc |-> "waiting", op |-> "UpdateNIC", item |-> x]
          /\ inflight' = BagAdd(inflight,
                 Message(HostRequest("Update", x, settings), TRUE))
          /\ UNCHANGED outcome
    /\ UNCHANGED <<res, reply>>

-----------------------------------------------------------------------------
(***************************************************************************)
(* The transport and the owners of the resources.                          *)
(***************************************************************************)

Accepted(ch) == Contract!Accepts(ch.kind, ch.rt, res[ch.kind], ch.item)

\* The owner handles a request, the waiting call's or an abandoned one.
Deliver(m) ==
    /\ m \in DOMAIN inflight
    /\ LET ch == ChangeOf(m) IN
       /\ res' = IF Accepted(ch)
                 THEN [res EXCEPT ![ch.kind] =
                          Contract!Effect(ch.kind, ch.rt, @, ch.item)]
                 ELSE res
       /\ reply' = IF m.waiter THEN (IF Accepted(ch) THEN "ok" ELSE "rejected")
                   ELSE reply
    /\ inflight' = BagRemove(inflight, m)
    /\ UNCHANGED <<caller, outcome>>

\* The connection fails a request: the waiting call gets the failure; an
\* abandoned request is gone.
Fail(m) ==
    /\ m \in DOMAIN inflight
    /\ inflight' = BagRemove(inflight, m)
    /\ reply' = IF m.waiter THEN "failed" ELSE reply
    /\ UNCHANGED <<res, caller, outcome>>

\* The method returns what the call returned.
Return ==
    /\ caller.pc = "waiting"
    /\ reply # "none"
    /\ outcome' = [op |-> caller.op, item |-> caller.item,
                   result |-> IF reply = "ok" THEN "ok" ELSE "err"]
    /\ caller' = Idle
    /\ reply' = "none"
    /\ UNCHANGED <<res, inflight>>

\* The caller's context ends first: the method returns its error, and a
\* request not yet handled stays in flight with nobody waiting for it.
Timeout ==
    /\ caller.pc = "waiting"
    /\ StrayCount < MaxStrays
    /\ outcome' = [op |-> caller.op, item |-> caller.item, result |-> "err"]
    /\ inflight' = IF \E m \in DOMAIN inflight : m.waiter
                    THEN LET w == CHOOSE m \in DOMAIN inflight : m.waiter
                         IN  BagAdd(BagRemove(inflight, w), [w EXCEPT !.waiter = FALSE])
                    ELSE inflight
    /\ caller' = Idle
    /\ reply' = "none"
    /\ UNCHANGED res

Next ==
    \/ \E x \in Items :
        \/ AddLCOWNetworkInterface(x) \/ RemoveLCOWNetworkInterface(x)
        \/ AddNetworkNamespace(x) \/ RemoveNetworkNamespace(x)
        \/ \E rt \in {"Add", "Remove"} :
               AddNetworkInterface(x, rt) \/ RemoveNetworkInterface(x, rt)
        \/ RemoveSCSIDevice(x) \/ updateHvSocketAddress(x) \/ AddMappedDirectory(x)
        \/ AddSecurityPolicy(x) \/ InjectPolicyFragment(x)
        \/ CreateContainer(x) \/ DeleteContainerState(x) \/ CreateProcess(x)
        \/ \E s \in {"adapter", "nil"} : AddNIC(x, s) \/ RemoveNIC(x, s) \/ UpdateNIC(x, s)
    \/ \E m \in DOMAIN inflight : Deliver(m) \/ Fail(m)
    \/ Return \/ Timeout

Spec == Init /\ [][Next]_vars

-----------------------------------------------------------------------------
(***************************************************************************)
(* Properties.                                                             *)
(***************************************************************************)

\* The methods keep the promise of their interface comments: each changes
\* the resource kind its comment names, in the way it names; a nil return
\* means the owner made the change; an error return, by a refusal, a
\* failed connection or an ended context, leaves at most one late change
\* of that same kind behind.
ImplementsContract == Contract!Spec

====
