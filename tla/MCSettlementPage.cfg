SPECIFICATION MCSpec
CONSTANTS
    Months = {june, july}
    Codes = {w}
    CurrentMonth = june
    Nothing = Nothing
    MaxClicks = 3
    MaxChanges = 1
    a = a  b = b
    Staff = {a, b}
    ActiveEmployees = {a}
    Nobody = Nobody
    InitialLedger <- MCRows
    InitialLog <- MCLog
    ListSize = 2
    MaxPayoutRows = 2
    MaxExportRows = 3
    DefaultSpan = 1
    MaxSpan = 2
    MaxEntries = 5
    MaxInstant = 3
    MaxReports = 2
    MaxWrites = 2
INVARIANTS PageInv ReportsInv AuditInv
PROPERTIES OnlyAgreedWarningsAreSent ActionsEnd
CHECK_DEADLOCK FALSE
