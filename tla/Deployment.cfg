SPECIFICATION Spec
CONSTANTS
    Ports = {2, 3}
    InstallOpts <- MCInstalls
    UninstallOpts <- MCUninstalls
    UpgradeOpts <- MCUpgrades
    Layouts = {TRUE, FALSE}
    MaxCommands = 2
    MaxGen = 2
    MaxSettings = 2
    MaxReloads = 2
    MaxFaults = 1
INVARIANTS
    RecordMatchesKey
    
    
PROPERTIES
    ReloadComesBack
CHECK_DEADLOCK FALSE
