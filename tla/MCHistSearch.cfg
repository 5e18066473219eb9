CONSTANTS
    Vals = {0, 1, 3}
    MaxLength = 4
    Searches <- MCSearches
SPECIFICATION SearchSpec
INVARIANTS GreatestIndex Monotone
PROPERTY Terminates
