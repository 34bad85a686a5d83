--------------------------- MODULE MCMemoryDumps ---------------------------
(* Small instances of MemoryDumps for TLC. *)
EXTENDS MemoryDumps

MCCells == -10..26

(* The second is the first with its low byte cleared. *)
MCHandles == {<<1, 1>>, <<0, 1>>}
MCStack == [h \in MCHandles |-> IF h = <<1, 1>> THEN <<"s1">> ELSE <<"s1", "s2">>]

MCFilterSets == {Filters, {"unaccounted"}, {"unaccounted", "anon"}, {"slab", "file"}}
MCFileFilter == {{"file"}}

MCPage(l, s, w, h) == [lru |-> l, slab |-> s, swapbacked |-> w, handle |-> h]
MCPageKinds ==
  {MCPage(FALSE, FALSE, FALSE, h) : h \in MCHandles} \cup
  {MCPage(TRUE, FALSE, TRUE, <<1, 1>>), MCPage(TRUE, FALSE, FALSE, <<0, 1>>),
   MCPage(FALSE, TRUE, FALSE, <<1, 1>>)}

MCCacheName == [c \in {1, 2} |-> 2]

MCBuf(e, s, a) == [excl |-> e, shared |-> s, attached |-> a]
MCBufKinds == {MCBuf(TRUE, 0, 1), MCBuf(FALSE, 2, 0), MCBuf(FALSE, 0, 2)}

(* "b2" and "b3" have the same hash. *)
MCBufHash == [b \in {"b1", "b2", "b3"} |-> IF b = "b1" THEN 1 ELSE 2]
MCFdTable == [f \in {"f1", "f2", "f3"} |->
                IF f = "f1" THEN <<"b1", "b2", "b1">>
                ELSE IF f = "f2" THEN <<"b3", "b2">> ELSE <<>>]

(* Shared files, own files, an exited leader with live threads, no buffers, a
   zombie. *)
MCProcKinds == {<<"f1", "f1">>, <<"f1", "f2">>, <<NoFiles, "f2", "f2">>,
                <<"f3", NoFiles>>, <<NoFiles>>}

(* The first of these is taken by one walk, the others are held by some object of
   their kind, which a walk may meet or not. *)
MCStopped == {{}, {"call_site"}, Locks \ {"call_site"}}

MCRegistered == {{"pageowner"}, {"slabowner"}, {"dma_info"}, {"dma_procs"},
                 {"dma_info", "dma_procs"}}
=============================================================================
