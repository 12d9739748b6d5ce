SPECIFICATION FairSpec
CONSTANTS
    w1 = w1
    None = None
    Window = {w1}
    Sizes = {2, 3}
    OutputSize = 3
    MaxSize = 3
    SocketRoom = 1
    MaxTickets = 3
    MaxUpsets = 1
    DeviceLimit = 2
CHECK_DEADLOCK FALSE
PROPERTY DrainFollows
