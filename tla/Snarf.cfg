\* Every command line of up to three options, up to three header lines.
CONSTANTS
  Argvs <- MCArgvs
  UrlOf <- MCUrlOf
  Codes = {200, 404, 256}
  Keys = {"date", "server"}
  MaxHeaders = 3
  MaxBody = 2
SPECIFICATION Spec
CHECK_DEADLOCK FALSE
INVARIANTS
  ArgumentsIntact
  AllReleased
  HeadersExact
  QueriesAnswered
  SuccessMeans
