CONSTANTS
  e1 = e1
  e2 = e2
  Enrollment <- TwoEnrollments
  None = None
  MaxStreams = 1
  Overlap = {"report"}
  DrainedFrom <- Present
  Crashes = TRUE
SYMMETRY Symmetry
SPECIFICATION Spec
INVARIANT EligibleHasIdentity
PROPERTY NoCredentialRevival
