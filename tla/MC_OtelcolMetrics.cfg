CONSTANTS
    Payloads <- MCPayloads
    ShootNamespace = "shoot--garden--local"
    MaxFaults = 0
    MaxEdits = 1
SPECIFICATION Spec
INVARIANT EveryTriggerCounted
