SPECIFICATION Spec
CONSTANTS
  Names <- MCNames
  Volumes <- MCVolumes
  VolumeName <- MCVolumeName
  None = None
  Submitted <- MCSubmitted
  MaxRounds = 1
INVARIANT TypeOK
INVARIANT NeverRefused
INVARIANT MountedOnce
INVARIANT KeepsTheRest
CHECK_DEADLOCK FALSE
