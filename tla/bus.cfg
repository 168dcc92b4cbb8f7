SPECIFICATION FairSpec
CONSTANTS
  capsense = capsense
  weather = weather
  Display = Display
  Main = Main
  Nobody = Nobody
  Data = {0, 1}
  Pollers <- TwoPollers
  Priority <- CodePriorities
INVARIANT NoCollision
PROPERTIES ReadsAreAtomic ScreenDrawn
