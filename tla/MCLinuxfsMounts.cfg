SPECIFICATION MCSpec
CONSTANTS
    m1 = m1
    m2 = m2
    u1 = u1
    c1 = c1
    d1 = d1
    d2 = d2
    NoMount = NoMount
    Mounts = {m1, m2}
    Unmounts = {u1}
    Cleans = {c1}
    DeviceOf <- MCDeviceOf
    PortOf <- MCPortEach
    MaxFaults = 1
INVARIANTS TypeOK ListedUnlessRaced NothingLeft 
 
