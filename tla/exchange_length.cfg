SPECIFICATION Spec
CONSTANTS
  MaxNesting = 2
  NumPriorities = 2
  MaxAPDU = 300
  DeviceId = 300
  Devices <- LongDevices
  Inputs <- MCInputs
  PutPriorities <- MCPutPriorities
  Indexes <- MCIndexes
  OddOctets = {}
  MaxPuts = 0
INVARIANTS RoundTrip
