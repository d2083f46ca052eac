\* Scripts and the user change the same objects.
SPECIFICATION Spec
CONSTANTS
  None = None
  Components = {c1, c2}
  Objects = {c1, c2, t1, t2}
  Pages = {p1, p2}
  Smobs = {s1, s2, s3}
SYMMETRY Symmetric
CONSTRAINT Orderly
INVARIANTS HandlesAreValid CollectorOwnsLooseObjects AttachmentsStayTogether
