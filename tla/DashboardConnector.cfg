SPECIFICATION FairSpec
CONSTANTS
  Posts = {"post"}
  AlertCommands = {"alert"}
  ListCommands = {"list"}
  Uploads = {"upload"}
  Targets = {"s3", "sns"}
  AwsFails = TRUE
  Room = 2
  AlertLimit = 1
  ChatLimit = 1
  MaxInputs = 4
  MaxConns = 2
  MaxChanges = 0
  MaxAlerts = 1
  MaxStops = 1
INVARIANTS TypeOK RegisterFirst UploadedBeforeShown NoFalseSuccess
PROPERTIES RequestsAnswered EchoShown ThreadStops AlertsPublished
