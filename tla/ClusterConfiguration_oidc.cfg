SPECIFICATION Spec
CONSTANTS
    Users = {"ann"}
    Specs <- MCTwoIssuers
    Issuers = {"i1", "i2", "default"}
    Undefined = "undefined"
    DefaultTenant = "default"
    Parts <- MCParts
    Docs = 2
    DeploymentAt = 2
    MaxEdits = 0
    MaxKcp = 0
    MaxFaults = 1
    MaxTamper = 0
    Trouble = {}
INVARIANT NoIssuerMissing
CHECK_DEADLOCK FALSE
