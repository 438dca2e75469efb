CONSTANTS
    Payloads <- MCPayloads
    ShootNamespace = "shoot--garden--local"
    MaxFaults = 1
    MaxEdits = 3
SPECIFICATION Spec
INVARIANTS
    TypeOK
    NoOrphanManagedResource
    NoOrphanInv
    AdmittedConfigNeverFailsReconcile
    BundleWired
    CallIntentInv
    AdmittedInv
    SuccessMeansConverged
