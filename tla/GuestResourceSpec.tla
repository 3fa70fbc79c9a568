-------------------------- MODULE GuestResourceSpec --------------------------
(***************************************************************************)
(* What the resource methods of guestmanager.Guest and vmmanager's         *)
(* NetworkManager promise, as their interface comments state them: each    *)
(* method adds, removes or updates one resource of one kind in the guest   *)
(* (or, for NICs, in the utility VM).  The component that owns the         *)
(* resource may refuse the change.                                         *)
(*                                                                         *)
(* A method call is not atomic.  The effect lands at most once while the   *)
(* call is pending.  A call that returns success has had its effect.  A    *)
(* call that returns an error may have had it, or may leave it to land     *)
(* later (a stray), after the caller has given up.                         *)
(***************************************************************************)
EXTENDS FiniteSets, Bags, BagsExt

CONSTANTS
    Ops,        \* the methods the caller may invoke
    Items       \* resource identities

C(kind, rt) == [kind |-> kind, rt |-> rt]

\* Contract[op]: the kind of resource the method changes, and how, as the
\* comment of each interface method says.
Contract ==
    [AddLCOWNetworkInterface    |-> C("Network", "Add"),
     RemoveLCOWNetworkInterface |-> C("Network", "Remove"),
     AddNetworkNamespace        |-> C("NetworkNamespace", "Add"),
     RemoveNetworkNamespace     |-> C("NetworkNamespace", "Remove"),
     AddNetworkInterface        |-> C("Network", "Add"),
     RemoveNetworkInterface     |-> C("Network", "Remove"),
     RemoveSCSIDevice           |-> C("SCSIDevice", "Remove"),
     updateHvSocketAddress      |-> C("HvSocket", "Update"),
     AddMappedDirectory         |-> C("MappedDirectory", "Add"),
     AddSecurityPolicy          |-> C("SecurityPolicy", "Add"),
     InjectPolicyFragment       |-> C("SecurityPolicyFragment", "Add"),
     CreateContainer            |-> C("Container", "Add"),
     DeleteContainerState       |-> C("Container", "Remove"),
     CreateProcess              |-> C("Process", "Add"),
     AddNIC                     |-> C("NetworkAdapter", "Add"),
     RemoveNIC                  |-> C("NetworkAdapter", "Remove"),
     UpdateNIC                  |-> C("NetworkAdapter", "Update")]

ASSUME Ops \subseteq DOMAIN Contract

Kinds == {Contract[op].kind : op \in Ops}

\* What the owner of a kind accepts, and what accepting does.
Accepts(kind, rt, set, x) ==
    CASE rt = "Add"    -> kind = "Process" \/ x \notin set
      [] rt = "Remove" -> x \in set
      [] rt = "Update" -> kind = "HvSocket" \/ x \in set

Effect(kind, rt, set, x) ==
    CASE rt = "Add"    -> set \cup {x}
      [] rt = "Remove" -> set \ {x}
      [] rt = "Update" -> IF kind = "HvSocket" THEN {x} ELSE set

VARIABLES
    present,   \* present[k]: the resources of kind k that exist
    call,      \* the caller's call in progress and its phase
    outcome,   \* the last call that returned, and its result
    strays     \* the bag of changes of calls that returned an error, still
               \* to land: two abandoned calls may make the same change

vars == <<present, call, outcome, strays>>

Changes == [kind : Kinds, rt : {"Add", "Remove", "Update"}, item : Items]

Init ==
    /\ present \in [Kinds -> SUBSET Items]
    /\ call = [op |-> "none", item |-> "none", phase |-> "idle"]
    /\ outcome = [op |-> "none", item |-> "none", result |-> "none"]
    /\ strays = EmptyBag

ChangeOf(c) == [kind |-> Contract[c.op].kind, rt |-> Contract[c.op].rt, item |-> c.item]

Apply(ch) ==
    IF Accepts(ch.kind, ch.rt, present[ch.kind], ch.item)
    THEN [present EXCEPT ![ch.kind] = Effect(ch.kind, ch.rt, @, ch.item)]
    ELSE present

Begin(op, x) ==
    /\ call.phase = "idle"
    /\ call' = [op |-> op, item |-> x, phase |-> "pending"]
    /\ UNCHANGED <<present, outcome, strays>>

\* The call is refused before it is made.
FailFast(op, x) ==
    /\ call.phase = "idle"
    /\ outcome' = [op |-> op, item |-> x, result |-> "err"]
    /\ UNCHANGED <<present, call, strays>>

\* The owner of the resource handles the pending call.
Land ==
    /\ call.phase = "pending"
    /\ LET ch == ChangeOf(call) IN
       /\ present' = Apply(ch)
       /\ call' = [call EXCEPT !.phase =
                      IF Accepts(ch.kind, ch.rt, present[ch.kind], ch.item)
                      THEN "effected" ELSE "rejected"]
    /\ UNCHANGED <<outcome, strays>>

\* The call returns: success only once it has had its effect.
Finish ==
    /\ call.phase # "idle"
    /\ \/ /\ call.phase = "effected"
          /\ outcome' = [op |-> call.op, item |-> call.item, result |-> "ok"]
          /\ UNCHANGED strays
       \/ /\ outcome' = [op |-> call.op, item |-> call.item, result |-> "err"]
          /\ \/ UNCHANGED strays
             \/ call.phase = "pending" /\ strays' = BagAdd(strays, ChangeOf(call))
    /\ call' = [op |-> "none", item |-> "none", phase |-> "idle"]
    /\ UNCHANGED present

\* A stray change lands, or is lost.
StrayLand(ch) ==
    /\ ch \in DOMAIN strays
    /\ present' = Apply(ch)
    /\ strays' = BagRemove(strays, ch)
    /\ UNCHANGED <<call, outcome>>

StrayLost(ch) ==
    /\ ch \in DOMAIN strays
    /\ strays' = BagRemove(strays, ch)
    /\ UNCHANGED <<present, call, outcome>>

Next ==
    \/ \E op \in Ops, x \in Items : Begin(op, x) \/ FailFast(op, x)
    \/ Land \/ Finish
    \/ \E ch \in DOMAIN strays : StrayLand(ch) \/ StrayLost(ch)

Spec == Init /\ [][Next]_vars

=============================================================================
