\* Two windows and three bonds: cut, copy, paste and the delete loop, with
\* another program taking selections and answering pastes late.
CONSTANTS
  v1 = v1
  v2 = v2
  p1 = p1
  p2 = p2
  p3 = p3
  p4 = p4
  p5 = p5
  View = {v1, v2}
  Ptr = {p1, p2, p3}
  Content <- PlainContent
  NoSN = NoSN
  NullText = NullText
  Other = Other
  OtherData <- OtherPlain
  Nil = Nil
SPECIFICATION Spec
SYMMETRY PtrSymmetry
INVARIANT TypeOK
INVARIANT OwnedOnce
INVARIANT PasteKeepsUnique
INVARIANT QueueAlive
INVARIANT SparedStay
INVARIANT CopyAvailable
