---------------------------- MODULE SaveManager ----------------------------
(***************************************************************************)
(* The buffer that keeps a copy of a cartridge's save memory for the       *)
(* frontend or for a save file, src/libretro/sram.cpp.  The console        *)
(* reports every write to its save memory; Flush brings the copy up to     *)
(* date.  Bytes are numbered from 0, as in the code.                       *)
(***************************************************************************)
EXTENDS Integers

(* A manager is [length, sram]; the optional without a value has length 0. *)
NoManager == [length |-> 0, sram |-> <<>>]

Blank == "blank"  \* what new memory is filled with

NewManager(initialLength) ==
  [length |-> initialLength, sram |-> [i \in 0..initialLength - 1 |-> Blank]]

(* The bytes that writelen bytes from writeoffset touch in a memory of     *)
(* savelen bytes; a write past the end continues at the beginning.         *)
Touched(savelen, writeoffset, writelen) ==
  {i \in 0..savelen - 1 : \/ writeoffset <= i /\ i < writeoffset + writelen
                          \/ i + savelen < writeoffset + writelen}

FlushToEnd(m, savedata, savelen, writeoffset, writelen) ==  \* mutant of Flush: no wrap
  LET copied(i) == writeoffset <= i /\ i < writeoffset + writelen
  IN IF m.length # savelen
     THEN [length |-> savelen, sram |-> savedata]
     ELSE [length |-> savelen,
           sram |-> [i \in 0..savelen - 1 |-> IF copied(i) THEN savedata[i] ELSE m.sram[i]]]

(* SaveManager::Flush: savedata is the whole memory after the write.       *)
Flush(m, savedata, savelen, writeoffset, writelen) ==
  LET toEnd == savelen - writeoffset
      wraps == writeoffset + writelen > savelen
      first == IF wraps THEN toEnd ELSE writelen
      rest == IF ~wraps THEN 0
              ELSE IF writelen - toEnd > savelen THEN savelen ELSE writelen - toEnd
      copied(i) == \/ writeoffset <= i /\ i < writeoffset + first
                   \/ i < rest
  IN IF m.length # savelen
     THEN [length |-> savelen, sram |-> savedata]
     ELSE [length |-> savelen,
           sram |-> [i \in 0..savelen - 1 |-> IF copied(i) THEN savedata[i] ELSE m.sram[i]]]
=============================================================================
