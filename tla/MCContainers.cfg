CONSTANTS Node = {1, 2, 3, 4, 5, 6, 7}
          NULL = NULL
          k1 = k1
          k2 = k2
          k3 = k3
          k4 = k4
          Value = {v1, v2}
          MaxSize = 6
          Elem = {a, b}
          Raw = Raw
          Default = Default
          Moved = Moved
          MaxLength = 4
          Lists = {l1, l2}
          ListNode = {n1, n2, n3}
          KfNode = {1, 2, 3, 4, 5, 6}
          SizeMod = 4
          Box = {b1, b2, b3}
          Cell = {1, 2}
          SetKey = {x, y}
SPECIFICATION ContainersSpec
SYMMETRY DataSymmetry
INVARIANTS TreesOrdered NodesOwned InterruptWalks FindAgrees WalksAgree
PROPERTIES ImplementsDict ElementsKept
CHECK_DEADLOCK FALSE
