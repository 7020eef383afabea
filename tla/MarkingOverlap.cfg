\* Two executions overlap.
SPECIFICATION Spec
CONSTANTS
    d1 = d1  d2 = d2  m1 = m1  m2 = m2  m3 = m3
    Devices = {d1}
    Markings = {m1, m2}
    DeviceOf <- MCDeviceOf
    Qualifying = {m1}
    Workers = {w1, w2}
    MaxRecovery = 3
SYMMETRY WorkerSymmetry
INVARIANTS
    TypeOK
    OneConfirmedPerDevice
    EffectNeedsBothParties
CHECK_DEADLOCK FALSE
