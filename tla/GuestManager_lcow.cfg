\* The LCOW guest's network, SCSI, HvSocket and security policy methods.
CONSTANTS
    Ops = {"AddLCOWNetworkInterface", "RemoveLCOWNetworkInterface", "RemoveSCSIDevice", "updateHvSocketAddress", "AddSecurityPolicy", "InjectPolicyFragment"}
    Items = {n1}
    MaxStrays = 2
SPECIFICATION Spec
PROPERTY ImplementsContract
