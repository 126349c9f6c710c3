SPECIFICATION Spec
CONSTANTS
    n1 = n1
    n2 = n2
    m1 = m1
    m2 = m2
    a1 = a1
    None = None
    Missing = Missing
    Names <- TwoNames
    Models <- TwoModels
    Agents <- OneAgent
    MaxTools = 2
    MaxBases = 2
    Restarts = 2
SYMMETRY Alike
PROPERTIES StartUpgrades
CHECK_DEADLOCK FALSE
