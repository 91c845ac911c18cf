\* One save task: nothing overlaps, only a crash comes in between.
CONSTANTS
  s1 = s1
  s2 = s2
  Saver = {s1}
  MaxVersion = 3
SPECIFICATION Spec
INVARIANT SavedStaysSaved
