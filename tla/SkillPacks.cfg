SPECIFICATION Spec
CONSTANTS
  Publishers = {p1, p2, p3}
  Creators = {c1, c2}
  Boot = Boot
  Contents = {"good", "warned", "invalid"}
  Valid = {"good", "warned"}
  Acknowledged = {"good"}
  Seeds = {"warned", "absent"}
  SeedParts = {"good", "invalid"}
  Absent = "absent"
  MaxVersions = 4
  MaxRestarts = 2
SYMMETRY MCSymmetry
INVARIANTS TypeOK VersionsSound NextVersionFree SeedPublished PublishedIsValid
PROPERTIES VersionsImmutable
