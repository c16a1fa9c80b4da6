----------------------------- MODULE MCRedisJobs -----------------------------
EXTENDS RedisJobs, TLC

\* Jobs are interchangeable if they agree on who cancels them and on an upload.
Symmetry ==
  Permutations(Workers) \cup
  UNION {Permutations(k) : k \in {Cancellable \cap Uploads, Cancellable \ Uploads,
                                  Uploads \ Cancellable,
                                  Jobs \ (Cancellable \cup Uploads)}}
=============================================================================
