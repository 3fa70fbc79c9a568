\* The WCOW guest's network namespace, network interface and mapped directory
\* methods, with the utility VM's NIC methods and the GCS connection's
\* container and process calls; one abandoned request at a time (the LCOW
\* run bounds two).
CONSTANTS
    Ops = {"AddNetworkNamespace", "RemoveNetworkNamespace", "AddNetworkInterface", "RemoveNetworkInterface", "AddMappedDirectory", "AddNIC", "RemoveNIC", "UpdateNIC", "CreateContainer", "DeleteContainerState", "CreateProcess"}
    Items = {n1}
    MaxStrays = 1
SPECIFICATION Spec
PROPERTY ImplementsContract
