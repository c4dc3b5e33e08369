CONSTANTS
    ram0 = ram0
    ram1 = ram1
    bar = bar
    sysram = sysram
    barram = barram
    Page = {ram0}
    Region = {sysram}
    RegionOf <- RegionsOfRam
    Remappable = {}
    Hosts = {"pci_kvm"}
    MaxToken = 1
    MaxHarvests = 4
    MaxStores = 2
SPECIFICATION ExposedSpec
INVARIANT NoStoreLostToTheClear
CHECK_DEADLOCK FALSE
