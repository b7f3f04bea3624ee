\* One connection: a statement behind a line comment that ends with a carriage return.
SPECIFICATION Spec
CONSTANTS
    Words <- MCWords
    Upper <- MCUpper
    Spelling <- MCSpelling
    Scripts <- LoneCRScripts
    Results <- MCResults
    Startups <- MCStartups
    ServerParams <- MCServerParams
    MaxStartupLen = 40
INVARIANT ReplicaGetsReads
CHECK_DEADLOCK FALSE
