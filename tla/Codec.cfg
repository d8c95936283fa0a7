SPECIFICATION Spec
CONSTANTS
    UserOctets = 14
    MaxSegments = 3
    Basic <- MCBasic
    Extension <- MCExtension
    Texts <- MCTexts
    References <- MCReferences
    Recipients <- MCRecipients
    Foreign <- MCForeign
INVARIANTS
    AcceptedIsEncodable
    SegmentsWellFormed
    MessageSurvives
    ForeignReadOrRefused
CHECK_DEADLOCK FALSE
