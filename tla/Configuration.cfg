SPECIFICATION ConfigurationSpec
CHECK_DEADLOCK FALSE
CONSTANTS
    Words <- MCWords
    MaxDirectives = 3
    MaxBlocks = 4
    A = A
    B = B
    n1 = n1
    n2 = n2
    Addresses = {A, B}
    Names = {n1, n2}
    Blocks <- MCServerBlocks
    MaxServers = 3
    Params <- MCParams
    Uris <- MCUris
    Root <- MCRoot
    MaxLocations = 3
    MaxDepth = 3
INVARIANTS
    
    DefaultIsDeclared
    RoutedByName
    AllAddressesServed
    RefusedIsAmbiguous
    AnswerIsBest
PROPERTIES
    Narrows
