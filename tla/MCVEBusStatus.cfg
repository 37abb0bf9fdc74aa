\* Web server and control task read what four kinds of frames store.
SPECIFICATION Spec
CONSTANTS
  Readers = {web, control}
  Phases = {l1, l2}
  Values = {a, b}
  Nobody = Nobody
  Decoder = Decoder
SYMMETRY DataSymmetry
INVARIANTS
  SnapshotIsWhole
  NewsIsFlagged
PROPERTY
  StoredFollowsBus
