SPECIFICATION Spec
CONSTANTS
  Origins = {alice}
  Relays = {r1, r2}
  Tids = {t1}
  Lifetime = 1
  MaxRequests = 2
  MaxClock = 2
INVARIANTS
  NeverSilence
