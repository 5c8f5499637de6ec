SPECIFICATION VspSpec

CHECK_DEADLOCK FALSE

CONSTANTS
    n1 = n1
    n2 = n2
    bf = bf
    dsc = dsc
    Nodes = {n1}
    Others = {n2}
    Units = {1, 2}
    Slots = {1, 2}
    Cards = {bf, dsc}
    Vendors = {"nvidia", "amd"}
    VendorOf <- MCVendorOf
    ProductOf <- MCProductOf
    Requested <- MCRequested
    Filter <- MCFilter
    FirstStamps <- MCFirstStamps
    FirstBus <- MCFirstBus
    Blank = Blank
    None = None
    MaxEdits = 3
    FirstConfig = "present"
    MaxFaults = 1

INVARIANTS
    TypeOK

PROPERTIES
    LiveCardKept
    NoCardTwice
    
    DaemonReports
