SPECIFICATION SmpSpec
CONSTANTS
  Empty = Empty
  Response = Response
  Nil = Nil
  Sizes <- MCSizes
  Payloads <- MCPayloads
  MaxFragments = 4
  MaxPartials = 4
INVARIANT PollsMatchPartials
