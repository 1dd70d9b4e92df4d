SPECIFICATION Spec
CONSTANTS
  Programs <- MCPrograms
  Players <- MCPlayers
  MaxForeign = 1
  MaxNatural = 1
  MaxNoise = 1
  MaxWire = 1
  Retain = 0
INVARIANTS OwnEventsHarmless OutcomeHonest
PROPERTIES SentKnowing StopNotOverruled ConfirmedIsDone
