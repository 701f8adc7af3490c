SPECIFICATION Spec
CONSTANTS
    Connections <- MCConnections
    Encode <- MCEncode
    Meaning <- MCMeaning
    Digit <- MCDigit
    MAX_BODY_SIZE = 17
    MAX_REQUEST_LINE_SIZE = 3
    MAX_HEADER_LINE_SIZE = 7
    MAX_HEADERS_SIZE = 19
    MaxHex = 3
CHECK_DEADLOCK FALSE
INVARIANT Framed
