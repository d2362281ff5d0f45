----------------------------- MODULE MCJobQueue -----------------------------
(* Small instances of JobQueue. *)
EXTENDS JobQueue, TLC

CONSTANTS j1, j2, d1, d2, s1, s2, r1, linux, gpu

\* Two runs of one repository; the second needs a label only d2 offers.
MCDeviceOfPair     == (s1 :> d1) @@ (s2 :> d2)
MCDeviceOfLone     == (s2 :> d2)
MCRepositoryOfPair == (j1 :> r1) @@ (j2 :> r1)
MCNeedsPair        == (j1 :> {linux}) @@ (j2 :> {linux, gpu})
MCOffers           == (d1 :> {linux}) @@ (d2 :> {linux, gpu})
=============================================================================
