SPECIFICATION FairSpec
CONSTANTS
  Choices <- SomeChoices
  Loaded <- SomeLoaded
  Volts = {48, 53}
  Pots = {0, 60}
PROPERTIES
  CommandsAreWanted
  SettlesOnSettings
