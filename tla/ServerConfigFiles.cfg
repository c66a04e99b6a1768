\* Up to four servers, every replica number around the valid ones, every command
\* line of up to four arguments.
CONSTANTS
    Starts <- MCStarts
    MaxServers = 4
    Values = {0, 1, 2, 3, 4, 5}
    MaxArguments = 4
SPECIFICATION Spec
INVARIANTS TypeOK OptionsObeyed QuorumsIntersect ValidQuorumsKept DocumentedAccepted
\* The configuration is read once.
CHECK_DEADLOCK FALSE
