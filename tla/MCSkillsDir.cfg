CONSTANTS
  Names = {s1}
  Slugs = {s1}
  Root = Root
  SlugOf <- OwnSlug
  Contents = {c1, c2}
  Long = {c1}
  Syncers = {p1, p2}
  HandKinds = {"mine", "unparsable"}
SPECIFICATION FairSpec
INVARIANT
  DirTypeOK
PROPERTIES
  WholeIfAlone
  MirrorsIfAlone
