SPECIFICATION DashboardSpec
CONSTANTS
  Posts = {}
  AlertCommands = {}
  ListCommands = {}
  Uploads = {}
  Targets = {"s3"}
  AwsFails = FALSE
  Room = 2
  AlertLimit = 1
  ChatLimit = 1
  MaxConns = 2
  MaxChanges = 1
  MaxAlerts = 1
  MaxStops = 0
  MaxInputs = 1
  Nothing = Nothing
  Fetches = {"first", "second"}
  HistoryLimit = 1
  MaxIncidents = 1
INVARIANT PageTypeOK
PROPERTY PageShowsServer
