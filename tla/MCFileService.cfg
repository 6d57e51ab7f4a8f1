\* Three calls of two callers in one machine or two, one fault.
SPECIFICATION FilesSpec
CONSTANTS
    c1 = c1
    c2 = c2
    f1 = f1
    f2 = f2
    f3 = f3
    NoFile = NoFile
    Callers = {c1, c2}
    vm = vm
    Machines <- MCMachines
    Names = {"a", "b", "h"}
    HiddenNames = {"h"}
    TextNames = {"a", "b"}
    Inodes = {f1, f2, f3}
    Texts = {"text"}
    Configs <- MCConfigs
    Rels <- MCRels
    Seeds <- MCSeeds
    MaxCalls = 3
    MaxFaults = 1
SYMMETRY MCSymmetry
INVARIANTS KeptUnlessRaced
PROPERTIES NamesKeepTheirFile AloneIsExact
CHECK_DEADLOCK FALSE
