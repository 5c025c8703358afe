CONSTANTS
  Nil = Nil
  AVLKeys = {1, 2, 3, 4, 5, 6, 7, 8, 9}
  AVLAddr = {n1, n2, n3, n4, n5, n6, n7, n8, n9}
  BKeys = {1, 2, 3, 4, 5, 6, 7, 8, 9}
  BAddr = {n1, n2, n3, n4, n5, n6, n7, n8, n9, n10, n11, n12, n13, n14}
  Orders = {3, 4, 5}
  PKeys = {1, 2, 3, 4, 5, 6, 7}
  PAddr = {n1, n2, n3, n4, n5, n6, n7, n8, n9, n10, n11, n12, n13, n14}
  Degrees = {2, 3, 4}
  SKeys = {1, 2, 3, 4, 5}
  SAddr = {n1, n2, n3, n4, n5, n6}
  MaxLevel = 3
SPECIFICATION Spec
INVARIANTS AVLIsTheMap AVLBalanced BTreeIsTheMap BTreeShape BPlusIsTheMap BPlusShape BPlusChain SkipListInOrder
VIEW View
CHECK_DEADLOCK FALSE
