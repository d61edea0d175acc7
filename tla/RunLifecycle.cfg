SPECIFICATION Spec
CONSTANTS
  RunIds = {r1, r2}
  Instances = {i1}
  Keys = {k1}
  NoInstance = NoInstance
  NoKey = NoKey
  NoRecord = NoRecord
  Profiles <- MCProfiles
  MaxResumes = 1
SYMMETRY Symmetry
INVARIANTS
  TypeOK
  AdmissionIsSound
  OneDispatchPerKey
  RecordsAreTrue
PROPERTIES
  RecordsStand
  RunsFollowTheirRecords
