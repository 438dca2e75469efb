CONSTANTS
    EndpointSample <- EndpointsParsing
    BufferSample <- Buffers
    RefSample <- RefsTwo
SPECIFICATION Spec
INVARIANT ValidateReportsEveryDefect
