CONSTANTS
  Writer = {w1, w2}
  Doc = {d1, d2}
  TempName = {t1, t2}
  Inode = {i1, i2, i3, i4}
  NoDoc = NoDoc
  Torn = Torn
  NoInode = NoInode
  NoSave = NoSave
  Target = Target
SYMMETRY Symmetry
SPECIFICATION Spec
INVARIANTS
  TypeOK
  NeverCorrupt
  NoLitter
  OpenFilesPrivate
PROPERTIES
  ImplementsAtomicFile
