SPECIFICATION LicensesSpec
CONSTANTS
  Licenses = {l1, l2}
  Termed = {l2}
  NoLicense = NoLicense
  Grants = {g1, g2, g3}
  Links = {k1}
  NoLink = NoLink
  MaxCut = 0
CHECK_DEADLOCK FALSE
INVARIANT RevokingStopsRenewals
