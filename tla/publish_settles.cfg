CONSTANTS
  Client = {c1}
  Handler = {h1, h2}
  Reader = {r1}
  Platform = {ios}
  Content = {b1}
  Asset = {a1}
  MaxId = 2
  ListLimit = 2
  Env = {"crash", "retry", "early_mark"}
  None = None
SPECIFICATION FairSpec
PROPERTY EventuallyFresh
