SPECIFICATION FairSetup
CHECK_DEADLOCK FALSE
CONSTANTS
    Resources <- MCResources
    Top = "top"
    Locs <- MCLocs
    Serves <- MCServes
    IndexOf <- MCIndexOf
    Confs <- UnlistedSites
    Disks <- AllDisks
    RedirectLimit = 5
PROPERTIES
    AlwaysTerminates
