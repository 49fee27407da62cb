\* Two threads, two texts with any of the secrets anywhere in them; nothing
\* keeps their calls of _token_for apart.
SPECIFICATION Spec
CONSTANTS
    mail = mail
    password = password
    url = url
    Secrets <- MCSecrets
    Natural <- MCNatural
    Threads = {t1, t2}
    MaxTexts = 2
CHECK_DEADLOCK FALSE
INVARIANTS
    MaskerInv
    DifferentSecretsDifferentTokens
    SameKindSameToken
    TokensAreNumbered
