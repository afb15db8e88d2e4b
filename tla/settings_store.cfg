SPECIFICATION Spec
CONSTANTS
  LoraKeys = {"app_key"}
  AppKeys = {"power_offset", "bluetooth_name"}
  Name = "bluetooth_name"
  ShellKeys = {"app_key", "power_offset"}
  DownlinkKeys = {"power_offset", "bluetooth_name"}
  Bytes = {1, 2}
  NameSize = 3
  None = None
  MaxSets = 3
INVARIANTS StoredIsCurrent PromiseKept NameTerminated
PROPERTY HandlersReturn
