------------------------------ MODULE EvStorage ------------------------------
(***************************************************************************)
(* EvStorage (ev_storage.cpp): the BIOS environment variables, a vector of  *)
(* entries in memory and the file /var/lib/chif/evs.dat.  Every mutation    *)
(* changes the vector and then calls save(), which serialises it to a       *)
(* temporary file and copies that over the file: open with truncation, then *)
(* one write after the other.  The daemon may die and the BMC lose power    *)
(* between any two of those; nothing is synced, so a power loss goes back   *)
(* to what the kernel last wrote out.                                       *)
(*                                                                          *)
(* An entry's data is a member of Values: the code looks at its size, the   *)
(* properties at which value it is.                                         *)
(***************************************************************************)
EXTENDS Sums

CONSTANTS
    NoValue,        \* what an absent name maps to
    Names,          \* the names the host uses
    BadNames,       \* those set() refuses: empty, or maxEvNameLen and longer
    Values,
    Size,           \* bytes of each value
    MaxFile,        \* maxEvFileSize
    MaxData,        \* maxEvDataSize
    HeaderSize,     \* headerSize
    Overhead,       \* entryOverhead
    PowerFails      \* bound: may the BMC lose power

ASSUME EvAssumption ==
    /\ BadNames \subseteq Names
    /\ Size \in [Values -> Nat]
    /\ {MaxFile, MaxData, HeaderSize, Overhead} \subseteq Nat
    /\ HeaderSize <= MaxFile
    /\ PowerFails \in BOOLEAN

VARIABLES
    entries,    \* entries_
    file,       \* evs.dat as a process reads it
    flash,      \* evs.dat as it is after a power loss
    pc,         \* where the daemon is in a call of EvStorage
    ok          \* what the last call returned

vars == <<entries, file, flash, pc, ok>>

Entry == [name : Names, data : Values]

\* A file: how much of its header is written, and the entries that are
\* complete.  A partial last entry is one load() does not get.
Absent == [header |-> "absent", body |-> <<>>]
Empty  == [header |-> "none", body |-> <<>>]
Headers == {"absent", "none", "magic", "count"}

\* serializedSize, and the bytes of each entry in it.
EntrySizes(es) == [i \in 1..Len(es) |-> Overhead + Size[es[i].data]]

SerializedSize(es) == HeaderSize + Total(EntrySizes(es))

remainingSize ==
    IF SerializedSize(entries) < MaxFile
    THEN MaxFile - SerializedSize(entries) ELSE 0

Has(es, n) == \E i \in 1..Len(es) : es[i].name = n

\* std::find_if by name
First(es, n, i) ==
    /\ i \in 1..Len(es) /\ es[i].name = n
    /\ \A j \in 1..(i - 1) : es[j].name # n

Without(es, i) == [j \in 1..(Len(es) - 1) |-> IF j < i THEN es[j] ELSE es[j + 1]]

-----------------------------------------------------------------------------
Init ==
    /\ entries = <<>> /\ file = Absent /\ flash = Absent
    /\ pc = "down" /\ ok = FALSE

\* Bytes of the first k entries of a file and its header, as load() counts them.
Loadable(es, k) == SerializedSize(SubSeq(es, 1, k)) <= MaxFile

\* load(): no file, no magic or no count gives an empty store; entries are read
\* until one is missing or would pass the limit.
Load ==
    /\ pc = "down"
    /\ IF file.header # "count"
       THEN entries' = <<>>
       ELSE \E k \in 0..Len(file.body) :
               /\ \A i \in 1..k : Loadable(file.body, i)
               /\ k < Len(file.body) => ~Loadable(file.body, k + 1)
               /\ entries' = SubSeq(file.body, 1, k)
    /\ pc' = "idle"
    /\ UNCHANGED <<file, flash, ok>>

\* The file cannot be opened: load() returns -1 and main goes on with an empty
\* store, which the next save() puts in place of the file.
LoadFails ==
    /\ pc = "down" /\ file.header # "absent"
    /\ entries' = <<>>
    /\ pc' = "idle"
    /\ UNCHANGED <<file, flash, ok>>

\* A call that returns false without saving.
Reject ==
    /\ pc' = "done" /\ ok' = FALSE
    /\ UNCHANGED <<entries, file, flash>>

\* A mutation of the vector, kept whatever becomes of the save() that follows.
Mutate(es) ==
    /\ entries' = es
    /\ pc' = "save"
    /\ UNCHANGED <<file, flash, ok>>

\* Mutant of Room: a replacement is not checked.
RoomUnchecked(n, v) ==
    Has(entries, n) \/ SerializedSize(entries) + Overhead + Size[v] <= MaxFile

\* set(): the new size is checked only if the data grows.
Room(n, v) ==
    \/ \E i \in 1..Len(entries) :
          /\ First(entries, n, i)
          /\ \/ Size[v] <= Size[entries[i].data]
             \/ SerializedSize(entries) + Size[v] - Size[entries[i].data] <= MaxFile
    \/ /\ ~Has(entries, n)
       /\ SerializedSize(entries) + Overhead + Size[v] <= MaxFile

Acceptable(n, v) == n \notin BadNames /\ Size[v] <= MaxData /\ Room(n, v)

\* Mutant of Set: an existing entry is not looked for.
SetAppends(n, v) ==
    /\ pc = "idle"
    /\ \/ ~Acceptable(n, v) /\ Reject
       \/ /\ Acceptable(n, v)
          /\ Mutate(Append(entries, [name |-> n, data |-> v]))

Set(n, v) ==
    /\ pc = "idle"
    /\ \/ ~Acceptable(n, v) /\ Reject
       \/ /\ Acceptable(n, v) /\ ~Has(entries, n)
          /\ Mutate(Append(entries, [name |-> n, data |-> v]))
       \/ /\ Acceptable(n, v)
          /\ \E i \in 1..Len(entries) :
                First(entries, n, i) /\ Mutate([entries EXCEPT ![i].data = v])

\* Mutant of Del: the entry's data is dropped, the entry is kept.
DelBlanks(n) ==
    /\ pc = "idle"
    /\ \/ ~Has(entries, n) /\ Reject
       \/ \E i \in 1..Len(entries) :
             First(entries, n, i) /\ Mutate([entries EXCEPT ![i].data = NoValue])

Del(n) ==
    /\ pc = "idle"
    /\ \/ ~Has(entries, n) /\ Reject
       \/ \E i \in 1..Len(entries) :
             First(entries, n, i) /\ Mutate(Without(entries, i))

DeleteAll ==
    /\ pc = "idle"
    /\ Mutate(<<>>)

-----------------------------------------------------------------------------
(* save()                                                                   *)

\* The temporary file cannot be written, or evs.dat cannot be opened.
SaveRefused ==
    /\ pc = "save"
    /\ Reject

\* copy_file opens evs.dat with truncation.
CopyOpen ==
    /\ pc = "save"
    /\ file' = Empty
    /\ pc' = "copy"
    /\ UNCHANGED <<entries, flash, ok>>

Copied == file.header = "count" /\ Len(file.body) = Len(entries)

\* The next piece of the image of entries reaches the file.
CopyWrite ==
    /\ pc = "copy" /\ ~Copied
    /\ file' = CASE file.header = "none"  -> [file EXCEPT !.header = "magic"]
                 [] file.header = "magic" -> [file EXCEPT !.header = "count"]
                 [] OTHER -> [file EXCEPT !.body =
                                 Append(@, entries[Len(file.body) + 1])]
    /\ UNCHANGED <<entries, flash, pc, ok>>

\* Mutant of CopyFails: save() does not look at copy_file's error.
CopyFailsUnseen ==
    /\ pc = "copy" /\ ~Copied
    /\ pc' = "done" /\ ok' = TRUE
    /\ UNCHANGED <<entries, file, flash>>

\* No space left, or an I/O error: copy_file gives up and leaves the file so.
CopyFails ==
    /\ pc = "copy" /\ ~Copied
    /\ Reject

CopyDone ==
    /\ pc = "copy" /\ Copied
    /\ pc' = "done" /\ ok' = TRUE
    /\ UNCHANGED <<entries, file, flash>>

Save == SaveRefused \/ CopyOpen \/ CopyWrite \/ CopyFails \/ CopyDone

-----------------------------------------------------------------------------
Return ==
    /\ pc = "done"
    /\ pc' = "idle"
    /\ UNCHANGED <<entries, file, flash, ok>>

\* The kernel writes its cached pages of the file to flash, when it likes.
Writeback ==
    /\ PowerFails
    /\ flash' = file
    /\ UNCHANGED <<entries, file, pc, ok>>

Crash ==
    /\ pc # "down"
    /\ pc' = "down" /\ entries' = <<>>
    /\ UNCHANGED <<file, flash, ok>>

PowerLoss ==
    /\ PowerFails
    /\ pc' = "down" /\ entries' = <<>>
    /\ file' = flash
    /\ UNCHANGED <<flash, ok>>

Next ==
    \/ Load \/ LoadFails
    \/ \E n \in Names : Del(n) \/ \E v \in Values : Set(n, v)
    \/ DeleteAll
    \/ Save \/ Return
    \/ Writeback \/ Crash \/ PowerLoss

Spec == Init /\ [][Next]_vars

-----------------------------------------------------------------------------
(* Properties                                                               *)

TypeOK ==
    /\ entries \in Seq(Entry)
    /\ {file, flash} \subseteq [header : Headers, body : Seq(Entry)]
    /\ pc \in {"down", "idle", "save", "copy", "done"}
    /\ ok \in BOOLEAN

Unique(es) == \A i, j \in 1..Len(es) : es[i].name = es[j].name => i = j

\* No variable has two entries, in memory or in any file a crash can leave:
\* getByName and del look at the first one only.
UniqueNames == \A es \in {entries, file.body, flash.body} : Unique(es)

\* What the daemon holds, and what it could load, respects maxEvFileSize up to
\* its last entry, so load() never cuts a file that save() wrote.
WithinLimit ==
    \A es \in {entries, file.body, flash.body} :
        \A k \in 0..Len(es) : Loadable(es, k)

\* What load() gets of a file within the limit.
Loaded(f) == IF f.header = "count" THEN f.body ELSE <<>>

\* "All mutations persist to disk immediately via atomic write": a step leaves
\* on disk what was there or what is in memory, never a part of it.
AtomicWrite ==
    [][pc # "down" => Loaded(file') \in {Loaded(file), entries}]_vars

\* The abstract map of a vector of entries.
AsMap(es) ==
    [n \in Names |-> IF Has(es, n)
                     THEN es[CHOOSE i \in 1..Len(es) : First(es, n, i)].data
                     ELSE NoValue]

Phase ==
    CASE pc \in {"save", "copy"} -> "busy"
      [] pc = "done" /\ ok       -> "acked"
      [] pc = "done" /\ ~ok      -> "refused"
      [] OTHER                   -> pc

Abstract == INSTANCE EvStore WITH
    kv <- AsMap(entries), durable <- AsMap(Loaded(file)),
    flashed <- AsMap(Loaded(flash)), phase <- Phase

\* EvStorage implements the abstract store: an operation changes the map at
\* one name, success is answered only once a restart would recover the whole
\* map, and a restart recovers a part of it at worst.
ImplementsEvStore == Abstract!Spec
=============================================================================
