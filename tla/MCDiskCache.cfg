SPECIFICATION FairSpec
CONSTANTS
  p1 = p1
  p2 = p2
  s = s
  Pipeline = {p1, p2}
  Shader = {s}
  ShaderOf <- MCShaderOf
  Build = {b1, b2}
  NoBuild = nobuild
  NoFile = nofile
  MaxItems = 1
  MaxMishaps = 2
INVARIANTS
  TypeOK
  OnlyReadRemains
  ShadersAreStored
  SavedBeforeExit
PROPERTIES
  StoredSurvives
  EventuallyPromoted
