SPECIFICATION Spec
CONSTANT Kinds <- Scene
CONSTANT MaxStreams = 3
CONSTANT MaxTurns = 2
CONSTANT TimeoutBlanks = 0
CONSTANT SpinLimit = 2
INVARIANT NoDeviceRejection
