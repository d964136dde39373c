SPECIFICATION PartsSpec
CONSTANTS
  sign_ann = sign_ann  sign_b1 = sign_b1  sign_b2 = sign_b2  sign_bob = sign_bob  sign_r1 = sign_r1  sign_w1 = sign_w1
  sign_w2 = sign_w2  bundles_ann = bundles_ann  bundles_assign = bundles_assign  bundles_bob = bundles_bob  bundles_editor = bundles_editor  bundles_manage = bundles_manage
  bundles_other = bundles_other  bundles_p1 = bundles_p1  bundles_p2 = bundles_p2  bundles_q1 = bundles_q1  bundles_q2 = bundles_q2  bundles_staff = bundles_staff
  library_a = library_a  library_b = library_b  library_h1 = library_h1  library_h2 = library_h2  library_ops = library_ops  library_ours = library_ours
  library_q1 = library_q1  library_q2 = library_q2  library_s1 = library_s1  library_s2 = library_s2  library_s3 = library_s3  offers_w1 = offers_w1
  offers_w2 = offers_w2  upkeep_h1 = upkeep_h1  upkeep_h2 = upkeep_h2  upkeep_p1 = upkeep_p1
  Browsers = {sign_b1, sign_b2}
  Accounts = {sign_ann, sign_bob}
  Workspaces = {sign_w1, sign_w2}
  Roles = {sign_r1}
  Admins = {sign_bob}
  Managers = {sign_bob}
  Methods = {1, 2, 3, 4}
  AccessLife = 1
  RefreshLife = 1
  MaxTime = 2
  MaxRows = 3
  Budget <- SignSeveral
  None = None
  Boot <- SignTwoMethods
  Standing <- SignBothFirst
CHECK_DEADLOCK FALSE
INVARIANTS SessionsSound RolesSound SkillsSound CatalogSound
SYMMETRY Symmetric
