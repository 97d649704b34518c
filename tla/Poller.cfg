SPECIFICATION Spec
CONSTANTS
    Chans = {a, b, c}
    Fds = {1, 2, 3}
    Events = {in, out}
    InitEventListSize = 1
    ReEnabled = {"epoll"}
    None = None
INVARIANTS Consistent
PROPERTIES IsRegistry
CHECK_DEADLOCK FALSE
