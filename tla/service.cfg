\* The client and a browser on the records of two sites.
CONSTANTS
    Sites <- MCSites
    SizeMax = 1000
    Transports <- MCTransports
    Parameters <- MCParameters
    Calls <- MCCalls
SPECIFICATION Spec
INVARIANTS WireAgrees ErrorsAreTold RefusedChangesNothing EnoughRows NavIsTree
CHECK_DEADLOCK FALSE
