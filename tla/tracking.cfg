CONSTANTS
  main = main
  f = f
  g = g
  elision = elision
  NoFunc = NoFunc
  Func <- MCFunc
  Special <- MCSpecial
  Insn <- MCInsn
  Programs <- MCPrograms
  Roots <- MCRoots
  Unreadable <- MCUnreadable

SPECIFICATION Spec

INVARIANTS
  OnlyReachable
  AllReachable
  EachOnce
  LosesAtMostOneRow
