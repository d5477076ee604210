SPECIFICATION MCSpec
CONSTANTS
  Headers = {0, 2}
  MaxContent = 4
  MaxPiece = 7
  Programs = {"http_client.cc", "http.cc"}
  MayLackHeaders = {"http.cc"}
INVARIANTS
  ShownIsWhatCame
PROPERTIES
  Ends
CHECK_DEADLOCK FALSE
