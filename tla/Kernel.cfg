SPECIFICATION Spec
CONSTANTS
    Node = {n1, n2}
    Plugin <- MCPlugin
    Core = "core"
    Requires <- MCRequires
    Provides <- MCProvides
    Resolves <- MCResolves
    KernelServices <- RunServices
    Versions <- MCVersions
    Orders <- MCOrders
    Routed = {"combat"}
    MaxBoots = 2
    MaxToggles = 1
CHECK_DEADLOCK FALSE
INVARIANTS
    LifecycleOrder
    MigrationsInOrder
