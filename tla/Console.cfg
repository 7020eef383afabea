\* The four personas of the console and an engineer who signs in to it.
SPECIFICATION ConsoleSpec
CONSTANTS
    People = {"ZONAL_MANAGER", "CENTRAL_SERVICE_MANAGER", "OPERATIONS_HEAD",
              "WAREHOUSE_MANAGER", "SERVICE_ENGINEER"}
    MaxKeys = 2
    MaxSent = 2
INVARIANTS
    OfferedIsAllowed
PROPERTIES
    ShownIsChosen
CHECK_DEADLOCK FALSE
