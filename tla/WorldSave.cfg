\* Two save tasks may overlap; the game changes a world of three versions.
CONSTANTS
  s1 = s1
  s2 = s2
  Saver = {s1, s2}
  MaxVersion = 3
SPECIFICATION Spec
INVARIANTS TypeOK QuietDisk CleanExit
PROPERTIES LoadFailedKeepsFile SignalObeyed
