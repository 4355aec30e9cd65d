SPECIFICATION Spec
CONSTANTS
  Handle = {h1, h2, h3}
  NULL = null
  Fp = {stdout, fp1}
  Disk = {tty, disk1}
  Stdout = stdout
  Tty = tty
  BufSize = 2
  Unknown <- MCUnknown
  UpperHex = FALSE
  NoFp = nofp
  Text <- MCLetter
  Fallible = {}
  MaxBytes = 2
SYMMETRY MCSymmetry
INVARIANTS NoDangling NoLeak FileOwnership NothingLeftBehind
