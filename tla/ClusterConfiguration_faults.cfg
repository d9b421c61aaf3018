SPECIFICATION FairSpec
CONSTANTS
    Users = {"ann", "bob"}
    Specs <- MCSpecs
    Issuers = {"i1", "i2", "default"}
    Undefined = "undefined"
    DefaultTenant = "default"
    Parts <- MCParts
    Docs = 2
    DeploymentAt = 2
    MaxEdits = 1
    MaxKcp = 1
    MaxFaults = 1
    MaxTamper = 1
    Trouble = {"share", "deploy"}
INVARIANTS TypeOK AdministratorsBound IssuersTrusted BootstrapperInstalled
PROPERTIES AccessKept Configured
CHECK_DEADLOCK FALSE
