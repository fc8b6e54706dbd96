\* One dispatcher with the default scan, a death, an event no send confirms, history.
SPECIFICATION FairSpec
CONSTANTS
    MaxEvents = 3
    MaxHistory = 1
    Recipients = {"secretary"}
    Relays = {"r1"}
    Watchers = {"w1"}
    Epoch = 1
    Floors = {1}
    Limits = {3}
    Undeliverable = {2}
    AttemptCap = 2
    MaxCrashes = 1
CHECK_DEADLOCK FALSE
INVARIANTS QuietHistory
PROPERTIES EventuallyDelivered
