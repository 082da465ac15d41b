SPECIFICATION RepliesSpec
CONSTANTS
    Usable <- GlibcUsable
    MaxEntities = 3
    MaxLength = 3
    Codes <- MCCodes
    Ports <- MCPorts
INVARIANTS
    TypeOK
    IntactOnlyIfOne
    TypedIfValued
    FreedUnlessUnhandled
    CrashOnlyIfMalformed
    TextsWhole
    ResponseCutIfWide
CHECK_DEADLOCK FALSE
