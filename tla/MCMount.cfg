\* A mount that fails halfway may stop in an oops, or leave memory behind.
CHECK_DEADLOCK FALSE
SPECIFICATION Spec
CONSTANTS
  Images <- MCImages
  MayFail = {"sbi", "metadata", "vmalloc", "ioremap", "root", "dentry", "profiling", "buffers"}
INVARIANTS MountsRight NothingLeft FreedAsObtained
