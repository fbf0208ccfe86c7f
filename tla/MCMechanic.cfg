SPECIFICATION Spec
CONSTANTS
  ann = ann
  ben = ben
  old = old
  x = x
  y = y
  Emails = {ann, ben, old}
  Codes = {x, y}
  Taken = {old}
  Rows = {1, 2}
  Present = {1}
  ReportIds = {"1", "01", "2"}
  IdOf <- MCIdOf
  NoReport = no_report
  FilesLimit = 2
  Requests <- MCRequests
  MaxRequests = 3
  NoRequest = no_request
INVARIANTS
  Inv
  StatusKept
  ReportsKept
CHECK_DEADLOCK FALSE
