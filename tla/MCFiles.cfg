SPECIFICATION Spec
CONSTANTS
    Procs = {p, q}
    Inodes = {i1, i2, i3}
    None = None
    MaxData = 1
  
PROPERTY NothingOverwritten
