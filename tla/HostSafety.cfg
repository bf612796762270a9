SPECIFICATION Spec
CONSTANTS
    Procs = {paper, loop}
    paper = paper
    loop = loop
    Paper = paper
    Missing = Missing
    MaxSaves = 3
    MaxFaults = 2
    MaxBoots = 3
INVARIANTS
    HaltOutlivesTheDatabase
    OneAutomaticClearPerBoot
PROPERTIES
    StartsSeeEveryTrip
CHECK_DEADLOCK FALSE
