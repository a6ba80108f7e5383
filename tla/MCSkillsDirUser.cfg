CONSTANTS
  Names = {s1, dots}
  Slugs = {s1}
  Root = Root
  SlugOf <- OwnSlug
  Contents = {c1}
  Long = {}
  Syncers = {p1}
  HandKinds = {"mine", "unparsable"}
SPECIFICATION Spec
PROPERTY
  HandAuthoredKept
