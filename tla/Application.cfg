\* Settings of every kind are started and stopped; two requests under three.
SPECIFICATION Spec
CONSTANTS
    Request = {r1, r2}
    Configurations <- MCConfigurations
    Loaded <- MCLoaded
INVARIANTS
    OpenersFindTheirServices
    UsersCloseFirst
    NothingClosedUnderRequests
    DrainingIsSeen
    OneResponse
PROPERTIES
    ObservedOnce
    SignalStops
CHECK_DEADLOCK FALSE
