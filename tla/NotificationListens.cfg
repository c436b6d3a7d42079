SPECIFICATION Spec
CONSTANTS
    Sockets = {s1, s2}
    Channels = {"alerts"}
    Payloads = {"json"}
    MaxMessages = 2
    Spares = {1}
PROPERTY
    KeepsListening
CHECK_DEADLOCK FALSE
