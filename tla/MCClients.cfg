SPECIFICATION MCSpec
CONSTANTS
  t1 = t1
  c1 = c1
  c2 = c2
  Families <- MCFamilies
  Callers <- MCCallers
  Tabs <- MCTabs
  TabOf <- MCTabOf
  MaxGen <- MCMaxGen
  f1 = f1
  Bare = Bare
  NoToken = NoToken
  Kinds = {"console", "react", "native"}
  MaxChecks = 1
  MaxDepth = 2
INVARIANT ClientsTypeOK
INVARIANT StoredTokenLive
INVARIANT ReuseHasCause
INVARIANT PairTogether
INVARIANT AlwaysRefreshing
PROPERTY NoRollback
PROPERTY ImplementsTokenClient
PROPERTY RefreshesEnd
