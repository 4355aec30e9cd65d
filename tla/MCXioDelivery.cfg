SPECIFICATION Spec
CONSTANTS
  Handle = {h1, h2}
  NULL = null
  Fp = {stdout, fp1}
  Disk = {tty, disk1}
  Stdout = stdout
  Tty = tty
  BufSize = 3
  Unknown <- MCUnknown
  UpperHex = FALSE
  NoFp = nofp
  Text <- MCText
  Fallible = {tty, disk1}
  MaxBytes = 4
SYMMETRY MCSymmetry
INVARIANTS TypeOK Delivered DeliveredAtClose
