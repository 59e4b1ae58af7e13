SPECIFICATION Spec
CONSTANTS
    NumTokens = 5
    Template <- MCTemplate
INVARIANTS
    TypeOK
    NestInv
    TokensAreRight
    CommandIsRead
