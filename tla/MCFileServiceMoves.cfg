\* A directory move beside an upload into its new directory.
SPECIFICATION FilesSpec
CONSTANTS
    c1 = c1
    c2 = c2
    f1 = f1
    f2 = f2
    f3 = f3
    NoFile = NoFile
    Callers = {c1, c2}
    vm = vm
    Machines <- MCMachines
    Names = {"a", "b", "h"}
    HiddenNames = {"h"}
    TextNames = {"a", "b"}
    Inodes = {f1, f2, f3}
    Texts = {"text"}
    Configs <- MCConfigs
    Rels <- MCRels
    Seeds <- MCSeeds
    MaxCalls = 3
    MaxFaults = 1
SYMMETRY MCSymmetry
PROPERTY RenameOverwritesNothing
CHECK_DEADLOCK FALSE
