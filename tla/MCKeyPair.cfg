\* Two handlers at a time.  A key lives as long as a token here (30 days against 15
\* minutes in the code), so that within the few instants of the model a key runs out
\* by itself and tokens outlive the activity of their key.  Rotations are as frequent
\* as they like; up to three newer keys appear within the life of a token before they
\* count as crowded, and JwksSize is 4, the least that JwksSuffices of KeyPairProofs
\* allows for these constants.  One token is followed at a time, any of those given
\* out: the properties speak of each token by itself.
SPECIFICATION FairSpec
CONSTANTS
  Workers = {w1, w2}
  KeyLife = 2
  TokenLife = 2
  JwksSize = 4
  MaxRecent = 1
  MaxTokens = 1
  MaxKeys = 5
  MaxTime = 3
  MaxAborts = 1
INVARIANTS
  RefusedMeansSuperseded
  LiveTokensVerify
PROPERTIES
  HandlersEnd
CHECK_DEADLOCK FALSE
