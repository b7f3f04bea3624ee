\* One connection: one statement of any short text, or a transaction of three requests.
SPECIFICATION Spec
CONSTANTS
    Words <- MCWords
    Upper <- MCUpper
    Spelling <- MCSpelling
    Scripts <- MCScripts
    Results <- MCResults
    Startups <- MCStartups
    ServerParams <- MCServerParams
    MaxStartupLen = 40
INVARIANTS WireTypeOK RequestsUnderstood RepliesUnderstood InStep WritesReachPrimary CommentsStripped
CHECK_DEADLOCK FALSE
