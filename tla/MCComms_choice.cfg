\* When its commands are used up nothing more happens.
SPECIFICATION Spec
CONSTANTS
  Devices <- MCDevices
  Default <- MCDefault
  Commands = 5
INVARIANTS TypeOK StartedIsSetUp ModemIsModem LteOffStays SettingKept RolesAsSaved
CHECK_DEADLOCK FALSE
