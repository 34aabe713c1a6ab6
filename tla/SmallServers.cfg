CONSTANTS
    NONE = NONE  Clients = {c1, c2}  Messages = 3  MaxFailures = 1
    FileSizes = {0, 1, 2, 3, 4, 5}  CHUNK = 2
    Students = {314, 1000, 1001}  Deleted = 314  Enrolled = {314, 1000}  Rows = {100}
    MaxErrors = 2  MaxOthers = 2
CHECK_DEADLOCK FALSE
SPECIFICATION Spec
INVARIANT ServersInv
PROPERTY ServersEnd
