SPECIFICATION WitnessSpec
CONSTANTS
  Sources <- MCSources
  Packages <- MCPackages
  Origins <- MCOrigins
  OriginKey <- MCOriginKey
  MaxOrigins = 3
  MaxWitnesses = 2
CHECK_DEADLOCK FALSE
INVARIANTS WitnessTypeOK WitnessCanonical
