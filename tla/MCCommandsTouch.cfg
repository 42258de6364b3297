SPECIFICATION Spec
CONSTANTS
  Cmds = {c1, c2}
  Methods = {"skip", "reduce"}
  Flags = {"include_docs"}
  Raw <- RawStrings
  Values = {"v"}
  Params = {p1, p2}
  Strings = {s1, s2}
  MaxArgs = 2
  c1 = c1
  c2 = c2
  p1 = p1
  p2 = p2
  s1 = s1
  s2 = s2
SYMMETRY Symmetry
INVARIANT SentAsAsked
