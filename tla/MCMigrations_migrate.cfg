SPECIFICATION Spec
CONSTANTS
  Proposal = {p1, p2}
  MaxIncidents = 1
  MaxApprovals = 2
  Nil = Nil
  Cent = 10
  Charge = {3, 10}
INVARIANTS TypeOK FindingsSurvive MigrationsApply HeadMatchesModels ApprovalRefsStayUsable ErasureNeverRefused
