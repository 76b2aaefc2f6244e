CONSTANTS
    Boards <- MCBoards
    Size <- MCSize
    Roles <- MCRoles
    ServiceTokens <- MCServiceTokens
    NoToken = ""
    References <- MCReferences
    Stem <- MCStem
    OtherJobs <- MCOtherJobs
    PageSizes = {1, 2, 50}
    Tabs = {t1, t2}
    Accounts <- MCAccounts
    Configs <- MCConfigs
    MaxKeys = 2
    Txns = {x1, x2, x3, x4}
    None = None
SYMMETRY LoginSymmetry
SPECIFICATION Spec
INVARIANTS LoginTypeOK GenuineAccepted UndisturbedLogin AccessIsDue NoExistenceOracle
