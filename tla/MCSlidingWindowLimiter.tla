----------------------- MODULE MCSlidingWindowLimiter -----------------------
(* A small instance of SlidingWindowLimiter: two handlers that register from
   one address, and one that chats while others clean its client up. *)
EXTENDS SlidingWindowLimiter, TLC

CONSTANTS h1, h2, h3, c1, ip1, s1

SharedAddress == h1 :> ip1 @@ h2 :> ip1 @@ h3 :> s1

HandlerSymmetry == Permutations({h1, h2})
============================================================================
