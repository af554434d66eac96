CONSTANTS
  Nil = Nil
  Adders = {a1, a2, a3}
  Size = 3
  MaxAdds = 6
SPECIFICATION Spec
INVARIANTS CountAccounted QuietContents ReadsAreRecent
CHECK_DEADLOCK FALSE
