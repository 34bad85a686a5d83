--------------------------- MODULE RegionRegistry ---------------------------
(***************************************************************************)
(* What minidump.h promises the clients of the region table, and what the  *)
(* boot loader relies on, without tables, numbers or headers.              *)
(*                                                                         *)
(* A client owns a name.  It registers memory under it, moves it, takes it *)
(* back; nobody else's memory is touched by that.  The boot loader is off  *)
(* until the driver comes up, which publishes what was registered before,  *)
(* one region after the other: a crash meanwhile finds some of them.       *)
(* Nobody is served until that is complete; from then on the boot loader,  *)
(* whenever it is on, would save exactly what is registered at that moment.*)
(***************************************************************************)
EXTENDS Naturals

CONSTANTS
  Names,
  Owned       \* name -> the memory its client has, and may register

VARIABLES
  registry,   \* name -> the memory registered under it, or Nothing
  collecting, \* the boot loader finds a valid table of contents
  collected   \* the set of what it would save now

rvars == <<registry, collecting, collected>>

Nothing == [phys_addr |-> 0, size |-> 0]

(* What is registered, as the boot loader lists it. *)
Listing(reg) ==
  {[name |-> n, phys_addr |-> reg[n].phys_addr, size |-> reg[n].size] :
     n \in {m \in Names : reg[m] # Nothing}}

(* Outside of a publication the boot loader sees the whole registry or nothing. *)
Seen(reg, on) == IF on THEN Listing(reg) ELSE {}

(* No publication is under way: what a client's call waits for. *)
Published == collected = Seen(registry, collecting)

Init ==
  /\ registry = [n \in Names |-> Nothing]
  /\ collecting = FALSE
  /\ collected = {}

(* Only what is registered under n changes. *)
OnlyOwn(n) == registry' = [registry EXCEPT ![n] = registry'[n]]

(* A new name; msm_minidump_add_region. *)
Register(n) ==
  /\ Published
  /\ registry[n] = Nothing
  /\ registry'[n] \in Owned[n]
  /\ OnlyOwn(n)
  /\ collecting' = collecting
  /\ collected' = Seen(registry', collecting)

(* Another place of the client, the size stays; msm_minidump_update_region. *)
Move(n) ==
  /\ Published
  /\ registry[n] # Nothing
  /\ \E mem \in Owned[n] : registry'[n] = [registry[n] EXCEPT !.phys_addr = mem.phys_addr]
  /\ OnlyOwn(n)
  /\ collecting' = collecting
  /\ collected' = Seen(registry', collecting)

(* The name is free again; msm_minidump_remove_region.  The driver may find
   its headers broken and switch the collection off, and on again when a
   later remove finds nothing wrong. *)
Unregister(n) ==
  /\ Published
  /\ registry[n] # Nothing
  /\ registry' = [registry EXCEPT ![n] = Nothing]
  /\ collecting' \in BOOLEAN
  /\ collected' = Seen(registry', collecting')

(* The driver comes up: the table of contents is valid, and empty. *)
Enable ==
  /\ ~collecting
  /\ collecting' = TRUE
  /\ collected' = {}
  /\ UNCHANGED registry

(* One more of the regions registered before is published. *)
Publish ==
  /\ collecting
  /\ \E r \in Listing(registry) \ collected : collected' = collected \cup {r}
  /\ UNCHANGED <<registry, collecting>>

Next ==
  \/ Enable
  \/ Publish
  \/ \E n \in Names : Register(n) \/ Move(n) \/ Unregister(n)

Spec == Init /\ [][Next]_rvars
=============================================================================
