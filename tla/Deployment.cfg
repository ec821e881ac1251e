\* Both scripts, run and resumed in any order, with losses, delays and
\* interruptions.
SPECIFICATION FairSpec
CONSTANTS
    Targets = {TRUE, FALSE}
    MaxAttempts = 2
    MaxContracts = 2
    MaxFlights = 2
    MaxDeaths = 1
PROPERTIES
    OperatorComesLast
    DeploymentCompletes
