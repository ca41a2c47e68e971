SPECIFICATION SettleSpec
CONSTANTS
  None = None
  src = src
  src2 = src2
  src3 = src3
  csw = csw
  nsw = nsw
  p1 = p1
  p2 = p2
  j1 = j1
  j2 = j2
  j3 = j3
  j4 = j4
  proj = proj
  Jobs = {j1}
  Tasks = {src, csw, nsw}
  RoleOf <- OneRole
  ProcOf <- OneProc
  Delivers <- OneGives
  ProjectOf <- NoProject
  Legacy = {}
  Shapes = {"none", "direct", "tiebreak", "ambiguous"}
  GuardEnabled = TRUE
  Timely = TRUE
  MaxCrashes = 1
  MaxErrors = 1
PROPERTY EveryJobSettles
