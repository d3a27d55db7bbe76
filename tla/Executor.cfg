\* Up to three validators on two pools, and a caller that may cancel at any time.
SPECIFICATION Spec
CONSTANTS
    N = 3
    Category <- TwoGitOneCpu
    PoolSize <- Default
    NoReply = NoReply
    NoOne = NoOne
    MayCancel = TRUE
INVARIANTS TypeOK PoolsBounded QuietAfterReturn
PROPERTIES Implements Returns
CHECK_DEADLOCK FALSE
