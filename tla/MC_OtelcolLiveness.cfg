CONSTANTS
    Payloads <- MCPayloads
    ShootNamespace = "shoot--garden--local"
    MaxFaults = 1
    MaxEdits = 2
SPECIFICATION Spec
PROPERTIES
    Convergence
    DeletionCompletes
