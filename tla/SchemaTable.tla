----------------------------- MODULE SchemaTable -----------------------------
(* The schema names (crucible/SchemaTable.h) under the phase word that lets  *)
(* them be read with no lock (crucible/RegistrationSeal.h).  Producers       *)
(* register names in the global table while it is open; once it is sealed    *)
(* the names go to the late table, which nothing seals.  A seal may land     *)
(* between the moment a producer mints its view and its write.               *)
EXTENDS Naturals, Sequences, SequencesExt, FiniteSets

CONSTANTS Producers, Sealers,
          Hashes, Names,        \* hashes are naturals: the tables are sorted by them
          MaxRegistrations      \* bound on the calls of one producer

Tables == {"global", "late"}

VARIABLES phase,      \* per table: Open, Writing or Sealed
          entries,    \* per table: the written prefix of the array
          count,      \* per table: size_
          producer,   \* per producer: step, table, registration, calls made
          sealer,     \* per sealer: idle, sealing or done
          registered  \* history: the hashes whose registration returned

vars == <<phase, entries, count, producer, sealer, registered>>

TypeOK ==
  /\ phase \in [Tables -> {"Open", "Writing", "Sealed"}]
  /\ \A t \in Tables : count[t] \in 0..Cardinality(Hashes) /\ Len(entries[t]) \in count[t]..(count[t] + 1)
  /\ sealer \in [Sealers -> {"idle", "sealing", "done"}]
  /\ registered \subseteq Hashes

Init ==
  /\ phase = [t \in Tables |-> "Open"]
  /\ entries = [t \in Tables |-> <<>>]
  /\ count = [t \in Tables |-> 0]
  /\ producer = [p \in Producers |-> [pc |-> "idle", table |-> "global", hash |-> 0, name |-> 0, calls |-> 0]]
  /\ sealer = [s \in Sealers |-> "idle"]
  /\ registered = {}

(* std::ranges::lower_bound over the first n entries, then the comparison:   *)
(* the index of the hash, or 0.  An unsorted table is searched all the same. *)
lookup_entry(table, n, h) ==
  LET lower[first \in 0..n, len \in 0..n] ==
        IF len = 0 THEN first
        ELSE LET half == len \div 2
             IN  IF table[first + half + 1].hash < h THEN lower[first + half + 1, len - half - 1]
                 ELSE lower[first, half]
      i == lower[0, n] + 1
  IN  IF i <= n /\ table[i].hash = h THEN i ELSE 0

Goto(p, pc) == producer' = [producer EXCEPT ![p].pc = pc]

(* register_schema_name: the view of the global table is minted only before  *)
(* its seal; without it the late table is used.                              *)
MintView(p, h, n) ==
  LET c == producer[p]
  IN  /\ c.pc = "idle" /\ c.calls < MaxRegistrations
      /\ producer' = [producer EXCEPT ![p] =
           [pc |-> "enter", table |-> IF phase["global"] = "Sealed" THEN "late" ELSE "global",
            hash |-> h, name |-> n, calls |-> c.calls + 1]]
      /\ UNCHANGED <<phase, entries, count, sealer, registered>>

\* Faulty: the view of the phase is not checked.
Enter_trust_view(p) ==
  LET t == producer[p].table
  IN  /\ producer[p].pc = "enter" /\ phase[t] # "Writing"
      /\ phase' = [phase EXCEPT ![t] = "Writing"]
      /\ Goto(p, "write")
      /\ UNCHANGED <<entries, count, sealer, registered>>

(* enter_writer_: a compare-exchange from Open, repeated while another       *)
(* writer is in the section.  A sealed table refuses, and the late one is    *)
(* next.                                                                     *)
Enter(p) ==
  LET t == producer[p].table
  IN  /\ producer[p].pc = "enter" /\ phase[t] # "Writing"
      /\ IF phase[t] = "Open"
         THEN phase' = [phase EXCEPT ![t] = "Writing"] /\ Goto(p, "write")
         ELSE UNCHANGED phase /\ producer' = [producer EXCEPT ![p].table = "late"]
      /\ UNCHANGED <<entries, count, sealer, registered>>

(* write_name_: a known hash gets the new name, a new one goes behind the    *)
(* last entry, then is counted, then sorted into place.                      *)
WriteName(p) ==
  LET c == producer[p]
      t == c.table
      at == lookup_entry(entries[t], count[t], c.hash)
      new == [hash |-> c.hash, name |-> c.name]
  IN  /\ c.pc = "write"
      /\ IF at # 0
         THEN entries' = [entries EXCEPT ![t][at] = new] /\ Goto(p, "leave")
         ELSE entries' = [entries EXCEPT ![t] = Append(@, new)] /\ Goto(p, "bump")
      /\ UNCHANGED <<phase, count, sealer, registered>>

BumpCount(p) ==
  /\ producer[p].pc = "bump"
  /\ count' = [count EXCEPT ![producer[p].table] = @ + 1]
  /\ Goto(p, "sort")
  /\ UNCHANGED <<phase, entries, sealer, registered>>

SortEntries(p) ==
  /\ producer[p].pc = "sort"
  /\ entries' = [entries EXCEPT ![producer[p].table] = SortSeq(@, LAMBDA a, b : a.hash < b.hash)]
  /\ Goto(p, "leave")
  /\ UNCHANGED <<phase, count, sealer, registered>>

\* Faulty: the phase stays Writing.
Leave_open(p) ==
  /\ producer[p].pc = "leave"
  /\ Goto(p, "idle")
  /\ registered' = registered \union {producer[p].hash}
  /\ UNCHANGED <<phase, entries, count, sealer>>

(* The section closes and the call returns.                                  *)
Leave(p) ==
  /\ producer[p].pc = "leave"
  /\ phase' = [phase EXCEPT ![producer[p].table] = "Open"]
  /\ Goto(p, "idle")
  /\ registered' = registered \union {producer[p].hash}
  /\ UNCHANGED <<entries, count, sealer>>

(* seal waits for the section, and a second seal finds it done.              *)
CallSeal(s) ==
  /\ sealer[s] = "idle"
  /\ sealer' = [sealer EXCEPT ![s] = "sealing"]
  /\ UNCHANGED <<phase, entries, count, producer, registered>>

Seal(s) ==
  /\ sealer[s] = "sealing" /\ phase["global"] # "Writing"
  /\ phase' = [phase EXCEPT !["global"] = "Sealed"]
  /\ sealer' = [sealer EXCEPT ![s] = "done"]
  /\ UNCHANGED <<entries, count, producer, registered>>

Register(p) == Enter(p) \/ WriteName(p) \/ BumpCount(p) \/ SortEntries(p) \/ Leave(p)

Next ==
  \/ \E p \in Producers : Register(p) \/ \E h \in Hashes, n \in Names : MintView(p, h, n)
  \/ \E s \in Sealers : CallSeal(s) \/ Seal(s)

(* A thread inside register_schema_name or seal keeps running.               *)
Fairness == /\ \A p \in Producers : WF_vars(Register(p))
            /\ \A s \in Sealers : WF_vars(Seal(s))

Spec == Init /\ [][Next]_vars /\ Fairness

Resolves(t, h) == lookup_entry(entries[t], count[t], h) # 0

(* A sealed table is complete and still: no registration is half written     *)
(* into it, so a reader that saw the seal finds by binary search every entry *)
(* it holds, with no lock (steps 2 to 5 of RegistrationSeal's ordering       *)
(* argument).                                                                *)
SealedTableIsWhole ==
  phase["global"] = "Sealed" =>
    /\ Len(entries["global"]) = count["global"]
    /\ \A i \in 1..count["global"] : Resolves("global", entries["global"][i].hash)
    /\ \A p \in Producers : producer[p].table = "global" => producer[p].pc \in {"idle", "enter"}

(* Nothing changes in the global table after the seal, although a producer   *)
(* may hold a view that was minted before it (with_write_section admits the  *)
(* write again at the write itself).                                         *)
StillStep ==
  phase["global"] = "Sealed" => phase'["global"] = "Sealed" /\ entries'["global"] = entries["global"]

SealedTableIsStill == [][StillStep]_vars

(* A registered name is never dropped: once register_schema_name returned,   *)
(* schema_name finds the hash in one of the two tables whenever no write is  *)
(* in progress, whichever side of the seal the call fell on.                 *)
NameNeverDropped ==
  (\A t \in Tables : phase[t] # "Writing") =>
    \A h \in registered : Resolves("global", h) \/ Resolves("late", h)

(* Every registration and every seal returns: the section is always left,    *)
(* and the waits on it end.                                                  *)
CallsReturn ==
  /\ \A p \in Producers : producer[p].pc # "idle" ~> producer[p].pc = "idle"
  /\ \A s \in Sealers : sealer[s] = "sealing" ~> sealer[s] = "done"

(* What a reader of the tables relies on: their shape, a sealed table that   *)
(* is whole, and every registered name found.                                *)
SchemaInv == TypeOK /\ SealedTableIsWhole /\ NameNeverDropped
===========================================================================
