SPECIFICATION PSpec
CONSTANT MaxHour = 10
INVARIANTS
  SearchSound
  FoundUnlessProbedBefore
