-------------------------- MODULE MCFreePageReport --------------------------
(***************************************************************************)
(* A guest with three zones: one block on the only list of the first, no   *)
(* managed pages in the second, and three blocks on two lists of the       *)
(* third.  It boots with one of these in use.                              *)
(***************************************************************************)
EXTENDS FreePageReport, TLC

CONSTANTS dma, normal, device, low, high, none, only, b1, b2, b3, b4

ThreeZones == <<dma, device, normal>>
ThreeLists == {low, high, only}
AllLists   == ThreeLists \cup {none}
Loops      == <<only, none, low, high>>
ListZones  == low :> normal @@ high :> normal @@ none :> device @@ only :> dma
AllBlocks  == {b1, b2, b3, b4}
BlockZones == b1 :> normal @@ b2 :> normal @@ b3 :> dma @@ b4 :> normal
Booted     == low :> <<b1, b2>> @@ high :> <<>> @@ none :> <<>> @@ only :> <<b3>>
=============================================================================
