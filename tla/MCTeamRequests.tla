--------------------------- MODULE MCTeamRequests ---------------------------
EXTENDS TeamRequests, TLC

CONSTANTS ann, bob, w1, w2, pipe, pipe2, host, src, reg

MCUsers == {ann, bob}
MCAdmins == {ann, bob}
MCWorkers == {w1, w2}
MCResources == {pipe, pipe2, host, src, reg}
MCKindOf == (pipe :> "pipeline") @@ (pipe2 :> "pipeline") @@ (host :> "host")
              @@ (src :> "git_source") @@ (reg :> "registry")
MCSymmetry ==
    Permutations(MCUsers) \cup Permutations(MCWorkers) \cup Permutations({pipe, pipe2})
=============================================================================
