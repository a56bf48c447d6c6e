SPECIFICATION TimingsSpec
CONSTANTS
  PIOModes = {0, 2, 3, 4}
  DMAModes = {1, 2}
  UDMAModes = {0, 1, 2, 3, 4, 5}
  Drives <- MCDrives
  Configs <- MCConfigs
  Cables <- MCCables
  Ejectable = {1}
INVARIANT
  NoFasterThanAsked
PROPERTY
  OtherChannelKeepsTimings
