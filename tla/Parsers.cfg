SPECIFICATION Spec
CONSTANTS
    Texts <- AllTexts
    Requests <- AllRequests
    Responses <- AllResponses
    WordLength <- Lengths
    MaxReads = 2
INVARIANTS
    TypeOK
    UriPartsAgree
    UriAuthorityAgrees
    RequestLineAgrees
    RequestHeaderAgrees
    StatusLineAgrees
    ResponseHeaderAgrees
    FramingAgrees
