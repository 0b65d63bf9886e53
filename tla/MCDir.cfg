SPECIFICATION Spec
SYMMETRY SlotSymmetry
CONSTANTS
  f1 = f1
  s1 = s1
  s2 = s2
  s3 = s3
  mode <- MCmode
  inode_name <- MCname
  inode_num_entries <- MCnum_entries
  inode_array_index <- MCarray_index
  inode_file_size <- MCfile_size
  Names <- MCNames
  CHAR_MIN <- MCCharMin
  Garbage = {0, 1}
  Slots = {s1, s2, s3}
  Files = {f1}
  ReadSizes = {1, 3}
  MaxSeek = 3
  MaxCached = 3
INVARIANTS LookupRight OneInUse ListingRight
