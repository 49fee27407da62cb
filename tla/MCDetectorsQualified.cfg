SPECIFICATION Spec
CONSTANTS
    CommandWords <- MCCommandWords
    PathWords <- MCPathWords
    RootName = "cert.pem"
    MaxLength = 4
    MaxEdits = 1
PROPERTIES
    QualifiedStaysBlocked
CHECK_DEADLOCK FALSE
