SPECIFICATION Spec
CONSTANTS
  WordMod = 1024
  EPOCH = 10
  MICRO = 4
  NANO = 2
  SizeMod = 65536
  IntMod = 6
  INT64_MAX = 32767
  MAX_TABLESPACE_OIDS = 2
  MountDir <- MCMountDir
  DiskAvail <- MCDiskAvail
  SymLink <- MCSymLink
  Catalog <- MCCatalog
  Mnt = {m1, m2}
  NONE = NONE
  BlockSize = {1, 2}
  Mode = {384, 420}
  Uid = {1}
  Time <- MCTime
  Now <- MCNow
SYMMETRY Symmetry
INVARIANTS
  TypeOK
  GetattrShowsWhatWasSet
  TimesAreKept
  BlockSizesAgree
  StatfsReportsTheDisk
