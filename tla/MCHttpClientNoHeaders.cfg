SPECIFICATION MCSpec
CONSTANTS
  Headers = {0}
  MaxContent = 2
  MaxPiece = 7
  Programs = {"http_client.cc"}
  MayLackHeaders = {"http_client.cc"}
PROPERTIES
  BlankLineEndsHeaders
CHECK_DEADLOCK FALSE
