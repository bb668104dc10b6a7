SPECIFICATION OpSpec
CONSTANTS
  MaxVersion = 1
  Handlers = {h1, h2}
  Unanswered = Unanswered
  Ops = {"deleteVersion"}
INVARIANTS
  PolicyIsServed
