CONSTANTS
    PktLen = 3
    Packets = 3
    MaxBuffers = 3
SPECIFICATION Spec
PROPERTY
    PacketsHandled
