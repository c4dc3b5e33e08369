CONSTANTS
    ram0 = ram0
    ram1 = ram1
    bar = bar
    sysram = sysram
    barram = barram
    Page = {ram0}
    Region = {sysram}
    RegionOf <- RegionsOfRam
    Remappable = {}
    Hosts = {"mmio_tcg"}
    MaxToken = 2
    MaxHarvests = 4
    MaxStores = 2
SPECIFICATION Spec
INVARIANT NoStoreLostAnywhere
CHECK_DEADLOCK FALSE
