\* The three drills in any order, interrupted and with answers lost.
SPECIFICATION DrillsSpec
CONSTANTS
    deployer = deployer
    user = user
    NoOne = NoOne
    MaxRepeats = 2
    MaxDeaths = 2
INVARIANTS
    RotationRestores
PROPERTIES
    OperatorComesBack
    TheStopIsLifted
