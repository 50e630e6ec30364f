SPECIFICATION FairSpec
CONSTANTS
  o1 = o1
  o2 = o2
  o3 = o3
  l1 = l1
  l2 = l2
  l3 = l3
  g1 = g1
  g2 = g2
  Objects <- AllObjects
  Lists <- AllLists
  Graphs <- AllGraphs
  Nil = Nil
  MaxActs = 1
  MaxEdits = 1
PROPERTIES
  Recovers
