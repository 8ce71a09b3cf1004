SPECIFICATION FairSpec
CONSTANTS
    MaxCrashes = 1
PROPERTIES
    UpgradeCompletes
CHECK_DEADLOCK FALSE
