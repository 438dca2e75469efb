CONSTANTS
    EndpointSample <- EndpointsSpec
    BufferSample <- Buffers
    RefSample <- RefsTwo
SPECIFICATION Spec
INVARIANT SpecURLRule
