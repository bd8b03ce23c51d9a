SPECIFICATION LiveSpec
CONSTANTS
    MaxInstalls = 2
    MaxFaults = 1
PROPERTIES
    ReplayConverges
