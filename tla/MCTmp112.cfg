SPECIFICATION SensorSpec
CONSTANTS
  BUFSIZE = 3
  Requests <- Asked
INVARIANT ConfigurationIsAddressed
PROPERTY WholeReadings
