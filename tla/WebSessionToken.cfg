\* One browser, one request at a time: the forms of the pages and the token.
CONSTANTS
  b1 = b1
  r1 = r1
  r2 = r2
  s1 = s1
  s2 = s2
  Browser = {b1}
  Request = {r1}
  Password = {1}
  Secret = {s1, s2}
  MaxSession = 1
SPECIFICATION Spec
INVARIANTS
  PostsCarryToken
