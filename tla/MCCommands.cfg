SPECIFICATION Spec
CONSTANTS
  Handle <- MCHandle
  NULL = 0
  In = 1
  Out = 2
  Fp = {stdin, stdout, fp1, fp2, fp3}
  Disk = {kbd, tty, disk1, disk2}
  Stdin = stdin
  Stdout = stdout
  Kbd = kbd
  Tty = tty
  InDisk = disk1
  OutDisk = disk2
  NoFp = nofp
  Unknown <- MCUnknown
  UpperHex = FALSE
  BufSize = 2
  InBuf = 3
  Cmd <- AllCmd
  Input <- MCInput
  InForm = {"BIN", "HEX"}
  OutForm = {"BIN", "HEX"}
  ArgCount = {0, 1}
  Items = {0, 2}
  Repl = {FALSE}
  NoEol = {TRUE, FALSE}
  Fallible = {tty, disk2}
  MaxRuns = 1
CHECK_DEADLOCK FALSE
INVARIANTS GlobalStreams Released OutputRight OutputPrefix
PROPERTY Returns
