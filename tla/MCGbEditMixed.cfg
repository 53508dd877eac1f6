\* A bond of a thousand dollars, copied and pasted.
CONSTANTS
  v1 = v1
  v2 = v2
  p1 = p1
  p2 = p2
  p3 = p3
  p4 = p4
  p5 = p5
  View = {v1, v2}
  Ptr = {p1, p2, p3, p4, p5}
  Content <- MixedContent
  NoSN = NoSN
  NullText = NullText
  Other = Other
  OtherData <- OtherPlain
  Nil = Nil
SPECIFICATION Spec
SYMMETRY PtrSymmetry
PROPERTY PasteKeepsBonds
