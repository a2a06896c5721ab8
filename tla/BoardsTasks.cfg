SPECIFICATION Spec
CONSTANTS
  Slugs = {s1, s2}
  NoSlug = NoSlug
  pump = pump
  Requests = {r1, r2}
  MaxPosts = 2
  MaxFaults = 1
SYMMETRY Interchangeable
INVARIANTS
  TypeOK
  PostsBelong
  AckedIsDurable
  DeletedOnce
