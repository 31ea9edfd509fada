SPECIFICATION FairSpec
CONSTANTS
  t1 = t1
  c1 = c1
  c2 = c2
  f1 = f1
  Families <- MCFamilies
  Callers <- MCCallers
  Tabs <- MCTabs
  TabOf <- MCTabOf
  MaxGen <- MCMaxGen
  NoToken = NoToken
  Kinds = {"native"}
  Bare = Bare
  MaxChecks = 1
  MaxDepth = 2
PROPERTY LogoutEnds
