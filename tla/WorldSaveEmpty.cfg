\* One save task is enough: none is needed to lose the world.
CONSTANTS
  s1 = s1
  s2 = s2
  Saver = {s1}
  MaxVersion = 3
SPECIFICATION Spec
INVARIANT OnlyLoadedWorldIsSaved
