SPECIFICATION Spec
CONSTANTS
  MaxNesting = 2
  NumPriorities = 2
  MaxAPDU = 300
  DeviceId = 300
  Devices <- MCDevices
  Inputs <- MCInputs
  PutPriorities <- MCPutPriorities
  Indexes <- MCIndexes
  OddOctets = {0, 14, 63, 85, 255}
  MaxPuts = 2
INVARIANTS InBounds RoundTrip ReadsBack
PROPERTIES Progress
