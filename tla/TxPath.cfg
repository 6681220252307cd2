SPECIFICATION FairSpec
CONSTANT Sites <- BothSides
INVARIANTS OnceEach SentIsRight
PROPERTIES KeepsOrder AskedIsQueued
