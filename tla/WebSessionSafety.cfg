\* One browser and two requests at a time: setup, init, two sessions or two
\* secrets, expiry, logout and sign-out everywhere in every order.
CONSTANTS
  b1 = b1
  r1 = r1
  r2 = r2
  s1 = s1
  s2 = s2
  Browser = {b1}
  Request = {r1, r2}
  Password = {1}
  Secret = {s1, s2}
  MaxSession = 2
SPECIFICATION Spec
CONSTRAINT SecretsOrSessions
SYMMETRY Symmetry
INVARIANTS
  TypeOK
  FirstRunCloses
  SignedOutStaysOut
PROPERTIES
  NoResurrection
