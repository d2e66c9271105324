\* A kill and an I/O error, in any order of Apply and Revert.
SPECIFICATION Spec
CONSTANTS
  NoFile = NoFile
  Torn = Torn
  MaxKills = 1
  MaxErrors = 1
  Keys = {self, key}
  Self = self
  MaxSeq = 2
INVARIANTS SettingsUntilFault ConfigUntilKill SoundUntilFault PublishedKept
CHECK_DEADLOCK FALSE
