CONSTANTS
  p = p
  q = q
  root = root
  ann = ann
  good = good
  bad = bad
  weak = weak
  adminRole = adminRole
  staff = staff
  Conn = {p, q}
  User = {root, ann}
  Role = {adminRole, staff}
  Password = {good, bad, weak}
  Permission <- AllPermissions
  Pattern <- Patterns1
  AdminRole = adminRole
  Admin = "admin"
  Star <- EveryKey
  Weak = {weak}
  DefaultUser = ann
  DefaultPassword = bad
  None = None
  Nobody = Nobody
  AnyPeer = AnyPeer
  Scenes <- AllScenes
SPECIFICATION Spec
CHECK_DEADLOCK FALSE
INVARIANTS
  ScansWithinGrants
  AdminRemains
  AppliedAuthorized
  ExecWhole
  
  AuditVerifies
  
PROPERTIES
  OnlyGetExWrites
