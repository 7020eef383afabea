\* Two executions: the manager's leg and the customer's at one time.
SPECIFICATION Spec
CONSTANTS
    d1 = d1  d2 = d2  m1 = m1  m2 = m2  m3 = m3
    Devices = {d1, d2}
    Markings = {m1, m2, m3}
    DeviceOf <- MCDeviceOf
    Qualifying = {m1}
    Workers = {w1, w2}
    MaxRecovery = 2
INVARIANT NoLegLost
CHECK_DEADLOCK FALSE
