\* Executions do not overlap; two devices.
SPECIFICATION Spec
CONSTANTS
    d1 = d1  d2 = d2  m1 = m1  m2 = m2  m3 = m3
    Devices = {d1, d2}
    Markings = {m1, m2, m3}
    DeviceOf <- MCDeviceOf
    Qualifying = {m1}
    Workers = {w1}
    MaxRecovery = 2
INVARIANTS
    OneRecoveryTicket
    CustomerCanAnswer
CHECK_DEADLOCK FALSE
