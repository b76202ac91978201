SPECIFICATION FairSetup
CHECK_DEADLOCK FALSE
CONSTANTS
    Resources <- MCResources
    Top = "top"
    Locs <- MCLocs
    Serves <- MCServes
    IndexOf <- MCIndexOf
    Confs <- AllSites
    Disks <- AllDisks
    RedirectLimit = 5
INVARIANTS
    RefusalsStayRefused
    TouchesTheAsked
    AllowDescribesRefusal
PROPERTIES
    Terminates
