CONSTANTS
    ram0 = ram0
    ram1 = ram1
    bar = bar
    sysram = sysram
    barram = barram
    Page = {ram0, bar}
    Region = {sysram, barram}
    RegionOf <- RegionsOfRamAndBar
    Remappable = {}
    Hosts = {"pci_tcg"}
    MaxToken = 2
    MaxHarvests = 3
    MaxStores = 1
SPECIFICATION ExposedSpec
INVARIANTS ArmedIsLogged NoStoreLostUnexposed HandoffObservedUnexposed
CHECK_DEADLOCK FALSE
