---------------------------- MODULE MCLogRegions ----------------------------
(* Small instances of LogRegions for TLC. *)
EXTENDS LogRegions

MCNames == {"KMSG", "S0_0", "S0_1", "S1_0", "S1_1", "SS_0", "SS_1", "STASK", "KFTRACE",
            "KMODULES", "KRUNQUEUE", "DMA_INFO", "MEMDUMP", "0_m", "1_m"}
MCNameLen == [n \in MCNames |-> 1]
MCModuleName == <<"0_m", "1_m">>

(* Two CPUs and two tasks, stacks of one page. *)
MCTasks == {"t1", "t2"}
MCStackOf == [t1 |-> <<100>>, t2 |-> <<108>>]
MCTaskAt == [t1 |-> 200, t2 |-> 204]
MCKstack == [c \in {0, 1} |-> IF c = 0 THEN <<"S0_0">> ELSE <<"S1_0">>]
MCKsuspstk == <<"SS_0">>

(* Three tasks, stacks of two pages. *)
MCThreeTasks == {"t1", "t2", "t3"}
MCThreeStacks == [t1 |-> <<100, 104>>, t2 |-> <<108, 112>>, t3 |-> <<116, 120>>]
MCThreeTaskAt == [t1 |-> 200, t2 |-> 204, t3 |-> 208]
MCTwoPages == [c \in {0, 1} |-> IF c = 0 THEN <<"S0_0", "S0_1">> ELSE <<"S1_0", "S1_1">>]
MCTwoSuspPages == <<"SS_0", "SS_1">>

MCRegion(n, a, s) == [name |-> n, virt_addr |-> a + 1, phys_addr |-> a, size |-> s]
MCMsg == MCRegion("KMSG", 300, 12)
MCPstore == <<MCRegion("KFTRACE", 340, 8)>>
MCTrace == MCRegion("KFTRACE", 360, 12)
MCModules == MCRegion("KMODULES", 380, 8)
MCNoPanic == <<>>
MCPanic == <<MCRegion("KRUNQUEUE", 390, 8)>>
MCMemdump == {MCRegion("MEMDUMP", 440, 8)}
MCDump == {MCRegion("DMA_INFO", 400, 16)}

(* All of these, with the pages of every stack and of the module. *)
MCRegions ==
  {MCMsg, MCTrace, MCPstore[1], MCModules, MCPanic[1]} \cup MCDump \cup MCMemdump
    \cup {PageRegion(n, a) : n \in MCNames \ {"DMA_INFO", "MEMDUMP"}, a \in 100..220 \cup 500..560}

(* What the proofs assume of the constants. *)
ASSUME LogHypotheses == RegionsKnown /\ NamesApart /\ DumpApart /\ ModuleValid
=============================================================================
