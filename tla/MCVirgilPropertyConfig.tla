------------------------ MODULE MCVirgilPropertyConfig ------------------------
(* A small instance of VirgilPropertyConfig for TLC.                        *)
EXTENDS VirgilPropertyConfig, TLC

CONSTANTS w1, w2, k1, k2, k3, kX, b1, b2, bX, x1, x2

(* k1 is read by one binder and republished by another; k2 has neither name *)
(* to republish to; k3 names a binder that nobody defined.                *)
MCExchange == b1 :> x1 @@ b2 :> x2
MCReadBinderName == k1 :> b1 @@ k2 :> b2 @@ k3 :> bX
MCRepublishBinderName == k1 :> b2 @@ k2 :> Null @@ k3 :> b1

Symmetry == Permutations(Threads)
=============================================================================
