----------------------- MODULE MCBruteForceDetector -----------------------
(* Small instances of BruteForceDetector. *)
EXTENDS BruteForceDetector, TLC

CONSTANTS h1, h2, h3, h4, ip1

HandlerSymmetry == Permutations(Handler)
============================================================================
