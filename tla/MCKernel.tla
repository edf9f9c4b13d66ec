------------------------------ MODULE MCKernel ------------------------------
EXTENDS Kernel, Plugins

MCPlugin == DOMAIN Catalog
MCRequires == [p \in MCPlugin |-> Catalog[p].requires]
MCResolves == [p \in MCPlugin |-> Catalog[p].resolves]
MCProvides == [p \in MCPlugin |-> Catalog[p].provides]
MCVersions == [p \in MCPlugin |-> Catalog[p].versions]

\* main's order, its reverse, a plugin without what it requires, and one twice.
MCOrders ==
    {MainOrder, [i \in 1 .. Len(MainOrder) |-> MainOrder[Len(MainOrder) + 1 - i]],
     <<"auth">>, <<"stat", "stat">>}
=============================================================================
