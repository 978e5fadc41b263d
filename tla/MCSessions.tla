----------------------------- MODULE MCSessions -----------------------------
(***************************************************************************)
(* One user with two devices, in a deployment with two secrets and in one  *)
(* with a single secret.                                                   *)
(***************************************************************************)
EXTENDS Sessions, TLC

CONSTANTS mona, laptop, phone, renew, leave, fetch, admin

Alike == Permutations({laptop, phone})
=============================================================================
