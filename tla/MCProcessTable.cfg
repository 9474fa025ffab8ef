SPECIFICATION FairSpec
CONSTANTS
  Pids = {p1, p2}
  Images = {a, r}
  Remote = {r}
  NoImage = NoImage
  States = {s1}
  NoState = NoState
  None = None
  MaxBorn = 2
  MaxVersion = 3
INVARIANTS TypeOK DiffsSuffice ImagesCoherent JudgedAfresh VerdictNeverOlder
PROPERTIES JudgedInTheEnd
