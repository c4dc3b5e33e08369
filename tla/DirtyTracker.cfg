CONSTANTS
    ram0 = ram0
    ram1 = ram1
    bar = bar
    sysram = sysram
    barram = barram
    Page = {ram0, bar}
    Region = {sysram, barram}
    RegionOf <- RegionsOfRamAndBar
    Remappable = {bar}
    Hosts = {"mmio_kvm"}
    MaxToken = 2
    MaxHarvests = 3
    MaxStores = 1
SPECIFICATION Spec
INVARIANTS TypeOK NoStoreLost HandoffObserved MovedGenNamesPages
PROPERTIES GenNeverGoesBack ImplementsWitness
CHECK_DEADLOCK FALSE
