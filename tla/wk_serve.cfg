\* Bounds: three attempts, as the decorator makes, of two requests each (botocore makes
\* three); one failure of the start-up calls or replacement of the process.
SPECIFICATION WorkerSpec
CONSTANTS
  Attempts = 3
  Sends = 2
  MaxFaults = 1
  Environment <- Environments
  Host <- Hosts
  Input <- Inputs
INVARIANTS
  WorkerTypeOK
  NoCallBeforeFips
  ConsumersAgree
  RowsPublishable
  AcknowledgedIsRecorded
  OneVerdict
  DiagnosticsWritten
PROPERTIES
  CallIsRemoteCall
  MessageAnswered
  ConfiguredServes
