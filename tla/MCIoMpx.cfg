\* An eventfd with one or two users, an epoll instance with room for two
\* interests, and one task each in epoll_wait, epoll_ctl and poll or select.
CONSTANTS
    u1 = u1
    u2 = u2
    w1 = w1
    c1 = c1
    p1 = p1
    File = {f1}
    Task <- MCTask
    User = {u1,u2}
    Entry = {i1, i2}
    MAX = 3
    Value = {2}
    Waiter = {w1}
    Controller = {c1}
    Poller = {p1}
    Workload <- MCWorkload
    MaxEvents = 2
    Mask <- MCMask
    None = None
    Ep = Ep
SYMMETRY MCSymmetry
SPECIFICATION Spec
INVARIANTS
    
    QueuedOnce
    OneShotOnce
    NeverDeaf
    
    PollerNotStranded
CHECK_DEADLOCK FALSE
