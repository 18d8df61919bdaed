SPECIFICATION Spec
CONSTANTS
    Macs = {a, x, y}
    a = a
    x = x
    y = y
    Stations = {a}
    ServerIp = 1
    HalfNet = 128
    MaxLease = 2
    MaxStations = 2
    LeaseTime = 5
    RequestTries = 1
    MinRetry = 1
    MaxLate = 1
    MaxStrange = 2
    MaxRestarts = 1
INVARIANTS LeasesConsistent LeaseCovered
PROPERTIES GetsAddress
CHECK_DEADLOCK FALSE
