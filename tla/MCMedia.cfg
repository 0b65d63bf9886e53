\* A block device that does not answer stops the task for good.
CHECK_DEADLOCK FALSE
SPECIFICATION MediaSpec
CONSTANTS
  NoByte = NoByte
  Mounts <- MCMounts
  MediaRegions <- MCRegions
INVARIANTS InBounds CopiedRight
