SPECIFICATION Spec
CONSTANTS
    CommandWords <- MCCommandWords
    PathWords <- MCPathWords
    RootName = "cert.pem"
    MaxLength = 4
    MaxEdits = 2
PROPERTIES
    SameIntent
    LongerIsNoSafer
    MovingDoesNotHide
CHECK_DEADLOCK FALSE
