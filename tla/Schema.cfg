\* sequelize-cli on one database, with two migrations broken off at a time.
CONSTANT MaxBroken = 2
SPECIFICATION Spec
INVARIANTS
  TypeOK
  SchemaMatchesRecord
  AppReachesItsTables
PROPERTIES
  FailsForAReason
