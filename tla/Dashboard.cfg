SPECIFICATION Spec
CONSTANTS
  Tabs = {t1, t2}
  t1 = t1
  t2 = t2
  Partners <- MCPartners
  UserRoles = {"OWNER", "ANALYST"}
  Visited <- MCVisited
  Forms <- MCForms
  MaxSignIns = 2
  MaxSecrets = 1
  MaxChanges = 1
  MaxClears = 1
SYMMETRY MCSymmetry
INVARIANTS
  TypeOK
  NavigationIsHonest
  FormsAreHonest
  SecretsAreShown
