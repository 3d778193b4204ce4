SPECIFICATION Spec
CONSTANTS
  Readers = {r1, r2, r3}
  Publishers = {p1, p2}
  NoThread = NoThread
  InitUids <- FirstUid
  UidMax = 5
  RefMax = 3
  Grace = 2
  MaxClock = 4
  MaxLeaks = 1
SYMMETRY ThreadSymmetry
INVARIANTS TypeOK RefcountExact StaleLeaseBound ReservationExclusive
PROPERTIES GraceRespected ClaimOnlyWhenUnreferenced ImplementsBlockLease
