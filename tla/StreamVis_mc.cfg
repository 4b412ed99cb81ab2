SPECIFICATION StreamSpec
CONSTANTS
  ringbuffer_size = 3
  SeriesKind = "int"
  MaxRows = 4
  Nan = Nan  None = None
  Magnitude <- McMagnitude
  c1 = c1
  Contexts = {c1}
  plotter = c1
  MaxCalls = 3
INVARIANTS Resampled StorageHolds BoxOfStorage UploadMatches
PROPERTIES RegisteredShown CatchesUp
