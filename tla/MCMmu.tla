-------------------------------- MODULE MCMmu --------------------------------
(* Three 4 KiB guest pages: page 0 in host frame 1, page 1 in host frame 0 *)
(* and page 2 unmapped; host frame 2 is memory no guest page maps.         *)
EXTENDS Mmu, TLC

MCPageMap == (0 :> 1 @@ 1 :> 0 @@ 2 :> None)

(* Accesses at the last naturally aligned 8 bytes of a page: every width *)
(* ends at or before the page's end.                                       *)
MCAlignedOffsets == {PageSize - 8}

=============================================================================
