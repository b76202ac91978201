CONSTANTS
    Lines <- MCLines
    MaxLines = 4
SPECIFICATION ParserSpec
INVARIANTS
    TokensAreTheText
    QuietIffWellFormed
    TreeMatchesBraces
    RefusedBlockRefusesFile
