-------------------------- MODULE MCPayloadCacheLoops --------------------------
(* Three keys, two of them at one index; sizes that make either limit the  *)
(* one that is exceeded.                                                   *)
EXTENDS PayloadCacheLoops

MCCacheIds == {<<1, 0>>, <<1, 1>>, <<2, 1>>}
=============================================================================
