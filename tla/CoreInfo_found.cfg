SPECIFICATION Spec
CONSTANTS
    HMAP_STARTING_CAPACITY = 4
    HMAP_DEFAULT_CAPACITY = 36
    hash_fn <- MCHash
    Machines <- MCMachines
    Calls <- MCCalls
    Capacities = {4, 8}
INVARIANTS CoresAreFound
PROPERTIES MapIsAFunction
CHECK_DEADLOCK FALSE
