SPECIFICATION WebSpec
CONSTANTS
  Names = {"Id", "sub", "last"}
  Words = {"", "x", "y"}
  Routes <- OverlappingOrRefused
  Uris <- ManyUris
  Methods = {"GET", "PUT"}
  Controllers = {"type", "page", "shy"}
  Declining = {"shy"}
  IdName = "Id"
  MaxRoutes = 2
INVARIANTS
  FirstRouteAnswers
  OwnParameters
  ParsesWellFormed
