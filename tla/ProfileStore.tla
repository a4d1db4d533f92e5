----------------------------- MODULE ProfileStore -----------------------------
(***************************************************************************)
(* ProfileStore (core/src/ProfileStore.cpp): the profiles in memory, the    *)
(* file they are kept in, and the save that writes a temporary file and     *)
(* moves it into place.  Between any two of its steps the program may be    *)
(* killed; the disk may be full; the move may fail, and then the file is    *)
(* copied instead.                                                         *)
(*                                                                         *)
(* Editing happens in memory, through upsert and remove; the next program   *)
(* loads what the last one left.                                           *)
(***************************************************************************)
EXTENDS ProfileText, TLC

CONSTANTS
    Printers,           \* the printers a user enters
    Memories,           \* the bound: the lists of printers memory may hold
    Block               \* the tokens that reach the disk at a time

Length(memory) == Len(ToJson(memory))

\* The function itself, which TLC evaluates once, for the comparison.
Tabled(f) == CHOOSE g \in {f} : g = f

\* What fromJson makes of the first tokens of what toJson makes of a list.
Readings ==
    Tabled([memory \in Memories |->
               Tabled([tokens \in 0 .. Length(memory) |->
                          FromJson(SubSeq(ToJson(memory), 1, tokens))])])

Kept(memory) == Readings[memory][Length(memory)]

\* What is read of a text, whole or cut off, can be held in memory.
ASSUME StoreAssumption ==
    /\ Block \in Nat \ {0}
    /\ <<>> \in Memories
    /\ \A memory \in Memories :
          /\ memory \in Seq(SavedPrinter)
          /\ \A tokens \in 0 .. Length(memory) : Readings[memory][tokens] \in Memories

VARIABLES
    printers,           \* m_printers
    target,             \* profiles.json
    temporary,          \* profiles.json.tmp
    pc,                 \* where the program is: outside of save, or in it
    returned,           \* what the last save returned
    trouble             \* the file system has let the last save down

storeVars == <<printers, target, temporary, pc, returned, trouble>>

\* A file holds the first tokens of the text of a list.
File(list, tokens) == [exists |-> TRUE, list |-> list, tokens |-> tokens]
Missing == [exists |-> FALSE, list |-> <<>>, tokens |-> 0]

StoreInit ==
    /\ printers = <<>>
    /\ target = Missing /\ temporary = Missing
    /\ pc = "idle" /\ returned = "nothing"
    /\ trouble = FALSE

-----------------------------------------------------------------------------
(***************************************************************************)
(* In memory                                                               *)
(***************************************************************************)

\* The first of that name, or 0.
Find(name) == FirstOf({i \in DOMAIN printers : printers[i].name = name})

Upserted(printer) ==
    LET existing == Find(printer.name)
    IN  IF existing # 0 THEN [printers EXCEPT ![existing] = printer]
        ELSE Append(printers, printer)

Upsert(printer) ==
    /\ pc = "idle"
    /\ printers' = Upserted(printer) /\ printers' \in Memories
    /\ UNCHANGED <<target, temporary, pc, returned, trouble>>

RemovePrinter(name) ==
    /\ pc = "idle"
    /\ printers' = SelectSeq(printers, LAMBDA printer : printer.name # name)
    /\ printers' \in Memories
    /\ UNCHANGED <<target, temporary, pc, returned, trouble>>

-----------------------------------------------------------------------------
(***************************************************************************)
(* save                                                                    *)
(***************************************************************************)

GoTo(place) == pc' = place

Return(value) == pc' = "idle" /\ returned' = value

\* The stream is opened and empties what an earlier save left behind.
OpenTemporary ==
    /\ pc = "idle"
    /\ temporary' = File(printers, 0)
    /\ GoTo("writing")
    /\ trouble' = FALSE
    /\ UNCHANGED <<printers, target, returned>>

OpenFails ==
    /\ pc = "idle"
    /\ Return("false")
    /\ UNCHANGED <<printers, target, temporary, trouble>>

\* The tokens on the disk when one more block of `all` has reached it.
More(tokens, all) == Min({all, tokens + Block})

WriteBlock ==
    /\ pc = "writing" /\ temporary.tokens < Length(printers)
    /\ temporary' = File(printers, More(temporary.tokens, Length(printers)))
    /\ UNCHANGED <<printers, target, pc, returned, trouble>>

\* Mutant of Flushed: the file is moved while the stream still holds a block.
FlushedEarly == More(temporary.tokens, Length(printers)) = Length(printers)

\* The stream's destructor has written everything there is.
Flushed == temporary.tokens = Length(printers)

CloseTemporary ==
    /\ pc = "writing" /\ Flushed
    /\ GoTo("moving")
    /\ UNCHANGED <<printers, target, temporary, returned, trouble>>

\* The disk is full: the rest of the text is lost, and nobody looks.
DiskFull ==
    /\ pc = "writing" /\ temporary.tokens < Length(printers)
    /\ GoTo("moving")
    /\ trouble' = TRUE
    /\ UNCHANGED <<printers, target, temporary, returned>>

Rename ==
    /\ pc = "moving"
    /\ target' = temporary
    /\ temporary' = Missing
    /\ Return("true")
    /\ UNCHANGED <<printers, trouble>>

RenameFails ==
    /\ pc = "moving"
    /\ GoTo("failed")
    /\ trouble' = TRUE
    /\ UNCHANGED <<printers, target, temporary, returned>>

\* copy_file, which truncates the target before it fills it.
BeginCopy ==
    /\ pc = "failed"
    /\ target' = File(temporary.list, 0)
    /\ GoTo("copying")
    /\ UNCHANGED <<printers, temporary, returned, trouble>>

CopyBlock ==
    /\ pc = "copying" /\ target.tokens < temporary.tokens
    /\ target' = File(temporary.list, More(target.tokens, temporary.tokens))
    /\ UNCHANGED <<printers, temporary, pc, returned, trouble>>

\* The copy is done, or has failed before or behind its first step: its error
\* code is overwritten, the temporary file removed, and the save has succeeded.
RemoveTemporary ==
    /\ pc \in {"failed", "copying"}
    /\ temporary' = Missing
    /\ Return("true")
    /\ UNCHANGED <<printers, target, trouble>>

-----------------------------------------------------------------------------
(***************************************************************************)
(* load                                                                    *)
(***************************************************************************)

\* A missing file is a first run.
Load == IF target.exists THEN Readings[target.list][target.tokens] ELSE <<>>

\* The program ends, wherever it is, and the next one loads the file.
CrashAndLoad ==
    /\ printers' = Load
    /\ pc' = "idle" /\ returned' = "nothing"
    /\ UNCHANGED <<target, temporary, trouble>>

-----------------------------------------------------------------------------

EditStep ==
    \/ \E printer \in Printers : Upsert(printer)
    \/ \E printer \in Printers : RemovePrinter(printer.name)

SaveStep ==
    \/ OpenTemporary \/ OpenFails \/ WriteBlock \/ CloseTemporary \/ DiskFull
    \/ Rename \/ RenameFails \/ BeginCopy \/ CopyBlock \/ RemoveTemporary

StoreNext == EditStep \/ SaveStep \/ CrashAndLoad

StoreSpec == StoreInit /\ [][StoreNext]_storeVars

-----------------------------------------------------------------------------
(***************************************************************************)
(* Properties                                                              *)
(***************************************************************************)

\* The strings that a round trip is not to be asked of: those that are spelled
\* like a key and those that end in a backslash.
Keys == {"printers", "name", "rise", "startMacro", "maxVelocity", "filaments",
         "type", "lowFlow"}

StringsOf(printer) ==
    {printer.name, printer.startMacro}
        \cup UNION {{f.name, f.type} : f \in Range(printer.filaments)}
Plain(list) ==
    (UNION {StringsOf(printer) : printer \in Range(list)}) \cap (BackslashTails \cup Keys) = {}

\* "Profiles survive a round trip": behind a save that nothing has let down (load()
\* of what toJson wrote), whatever was cut short before it and edited since, a
\* program finds what was saved, in its order, numbers to the digits that are
\* printed, and a second save keeps that as it is.
SavedIsReadBack ==
    pc = "idle" /\ returned = "true" /\ ~trouble /\ Plain(target.list)
        => /\ Load = Storable(target.list)
           /\ Kept(Load) = Load

NamesOf(list) == [i \in DOMAIN list |-> list[i].name]

\* "Names containing quotes and backslashes survive": without the exception.
NamesSurvive == NamesOf(Kept(printers)) = NamesOf(Named(printers))

\* "An interrupted save cannot destroy existing profiles": the file in place is
\* a register that a save replaces in one step or not at all, whatever the disk
\* and the move do.
Register == INSTANCE ProfileRegister
                WITH memory <- printers, kept <- Load, Storable <- Kept
KeepsLikeARegister == Register!RegisterSpec

\* Killed anywhere, a save has replaced the file in one step or not at all; where
\* the move fails or the disk is full, what is read is still the first printers
\* of the one save, though perhaps not all of them.
OneSave == INSTANCE OneSaveRegister
               WITH memory <- printers, kept <- Load, Storable <- Kept
KeepsOneSave == OneSave!OneSaveSpec
=============================================================================
