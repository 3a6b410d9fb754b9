SPECIFICATION Spec
CONSTANTS
  Devices <- MCDevices
  Notices <- MCDevices
  Workers = {w1, w2}
  Duration = 1
  Window = 2
  MaxFaults = 1
  Consoles = {v1}
  Capacity = 2
  MaxChannel = 1
INVARIANTS
  MonitoringTypeOK
  NoAlertLost
PROPERTIES
  CommitsAreCurrent
  AlertsFollowDevices
