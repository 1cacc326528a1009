------------------------------- MODULE SmifEv -------------------------------
(***************************************************************************)
(* The environment-variable commands of SmifService (smif_service.cpp) over *)
(* EvStorage: the host's request is checked, the storage called, and what   *)
(* it returned turned into an error code or an entry.  The host sends one   *)
(* request at a time and knows of the store only what the replies say; what *)
(* it may conclude from them is kept beside the model.                      *)
(***************************************************************************)
EXTENDS EvStorage

CONSTANTS
    Requests,       \* bound: the set and delete requests the host makes
    MaxIndex        \* bound: largest index the host asks for

VARIABLES
    call,       \* what the handler does with the result of its storage call
    reply,      \* the last reply; NoReply while a request is handled
    known,      \* the store as the acknowledged requests leave it
    unsure,     \* names of which a refused or interrupted request left open
                \* whether it took effect
    synced      \* memory and file agree: nothing changed since the last
                \* save or load that succeeded

smifVars == <<call, reply, known, unsure, synced>>
allVars == <<vars, smifVars>>

\* A payload ends before its flags, in its name field, before the length, in its
\* data, or is whole.  A name field is terminated if its last byte is NUL; the
\* name meant is its first 31 bytes up to a NUL, which a set takes also of a
\* field that is not terminated.
Payloads == {"none", "flags", "name", "length", "whole"}
Flags == {"set", "delete", "deleteAll"}
ZeroLength == "zero length"     \* dataLen = 0
TooLong == "too long"           \* dataLen > maxEvDataSize

SetDeleteRequest ==
    [flags : SUBSET Flags, payload : Payloads, name : Names,
     terminated : BOOLEAN, data : Values \cup {ZeroLength, TooLong}]

ASSUME SmifAssumption ==
    Requests \subseteq SetDeleteRequest /\ MaxIndex \in Nat

Codes == {"success", "deviceError", "noSuchEv", "nameTooLong", "dataTooLarge",
          "unsupported"}
Error(c) == [error |-> c]
NoReply == Error("none")

NoCall == [names |-> {}, value |-> NoValue, refused |-> "success"]

SmifInit ==
    /\ Init
    /\ call = NoCall /\ reply = NoReply
    /\ known = [n \in Names |-> NoValue] /\ unsure = {} /\ synced = TRUE

-----------------------------------------------------------------------------
(* handleSetDeleteEv                                                        *)

HasName(r)   == r.payload \in {"name", "length", "whole"}
HasLength(r) == r.payload \in {"length", "whole"}

\* Flags are looked at in this order; the first one set decides.
IsDeleteAll(r) == r.payload # "none" /\ "deleteAll" \in r.flags
IsDelete(r) ==
    r.payload # "none" /\ "delete" \in r.flags /\ "deleteAll" \notin r.flags
IsSet(r) == r.payload # "none" /\ r.flags = {"set"}

\* The call of EvStorage; its result decides between success and `refused'.
Calling(names, value, refused) ==
    /\ call' = [names |-> names, value |-> value, refused |-> refused]
    /\ reply' = NoReply
    /\ synced' = (synced /\ pc' = "done")
    /\ UNCHANGED <<known, unsure>>

SetDeleteCall(r) ==
    \/ IsDeleteAll(r) /\ DeleteAll /\ Calling(Names, NoValue, "nameTooLong")
    \/ /\ IsDelete(r) /\ HasName(r) /\ r.terminated
       /\ Del(r.name) /\ Calling({r.name}, NoValue, "deviceError")
    \/ \* a set of length zero deletes; what del() returns is ignored
       /\ IsSet(r) /\ HasLength(r) /\ r.data = ZeroLength
       /\ Del(r.name) /\ Calling({r.name}, NoValue, "success")
    \/ /\ IsSet(r) /\ r.payload = "whole" /\ r.data \in Values
       /\ Size[r.data] <= MaxData
       /\ Set(r.name, r.data) /\ Calling({r.name}, r.data, "nameTooLong")

\* The requests that never reach the storage.
SetDeleteError(r) ==
    CASE r.payload = "none"               -> "noSuchEv"
      [] IsDelete(r) /\ ~HasName(r)       -> "noSuchEv"
      [] IsDelete(r) /\ HasName(r) /\ ~r.terminated -> "nameTooLong"
      [] IsSet(r) /\ ~HasLength(r)        -> "noSuchEv"
      [] IsSet(r) /\ HasLength(r) /\ r.data = TooLong -> "dataTooLarge"
      [] IsSet(r) /\ HasLength(r) /\ r.data \in Values ->
            IF Size[r.data] > MaxData THEN "dataTooLarge"
            ELSE IF r.payload # "whole" THEN "noSuchEv" ELSE "call"
      [] r.payload # "none" /\ r.flags = {} -> "unsupported"
      [] OTHER -> "call"

Answer(a) ==
    /\ pc = "idle"
    /\ reply' = a
    /\ UNCHANGED <<vars, call, known, unsure, synced>>

SetDeleteEv(r) ==
    \/ SetDeleteCall(r)
    \/ SetDeleteError(r) # "call" /\ Answer(Error(SetDeleteError(r)))

\* Mutant of SetDeleteReturn: what the storage call returned is ignored.
SetDeleteReturnIgnoring ==
    /\ Return
    /\ reply' = Error("success")
    /\ known' = [n \in Names |->
                    IF n \in call.names THEN call.value ELSE known[n]]
    /\ unsure' = unsure \ call.names
    /\ synced' = (synced \/ ok)
    /\ call' = NoCall

\* The storage call returns and the handler answers.
SetDeleteReturn ==
    /\ Return
    /\ LET result == IF ok THEN "success" ELSE call.refused IN
       /\ reply' = Error(result)
       /\ IF result = "success"
          THEN /\ known' = [n \in Names |->
                               IF n \in call.names THEN call.value ELSE known[n]]
               /\ unsure' = unsure \ call.names
          ELSE /\ unsure' = unsure \cup call.names
               /\ UNCHANGED known
    /\ synced' = (synced \/ ok)
    /\ call' = NoCall

-----------------------------------------------------------------------------
(* The reading commands: they change nothing but the reply.                 *)

EntryReply(e) == [error |-> "success", name |-> e.name, data |-> e.data]

GetEvByIndex(i) ==
    Answer(IF i < Len(entries) THEN EntryReply(entries[i + 1])
           ELSE Error("noSuchEv"))

GetEvByName(n, terminated) ==
    \/ ~terminated /\ Answer(Error("nameTooLong"))
    \/ terminated /\ ~Has(entries, n) /\ Answer(Error("noSuchEv"))
    \/ /\ terminated
       /\ \E i \in 1..Len(entries) :
             First(entries, n, i) /\ Answer(EntryReply(entries[i]))

\* A payload too short for its index, or for its name.
ShortGet == Answer(Error("deviceError")) \/ Answer(Error("noSuchEv"))

EvStats ==
    Answer([error |-> "success", remaining |-> remainingSize,
            count |-> Len(entries)])

-----------------------------------------------------------------------------
(* The steps of EvStorage itself, as the host's knowledge sees them         *)

Quiet == (Save \/ Writeback) /\ UNCHANGED smifVars

SmifLoad == Load /\ synced' = TRUE /\ UNCHANGED <<call, reply, known, unsure>>

\* A restart keeps what the host knows if memory and file agreed.
Lost(kept) ==
    /\ unsure' = IF kept THEN unsure ELSE Names
    /\ synced' = (synced /\ kept)
    /\ call' = NoCall /\ reply' = NoReply
    /\ UNCHANGED known

SmifCrash == Crash /\ Lost(synced)
SmifPowerLoss == PowerLoss /\ Lost(synced /\ flash = file)
SmifLoadFails == LoadFails /\ Lost(FALSE)

SmifNext ==
    \/ \E r \in Requests : SetDeleteEv(r)
    \/ SetDeleteReturn
    \/ \E i \in 0..MaxIndex : GetEvByIndex(i)
    \/ \E n \in Names, terminated \in BOOLEAN : GetEvByName(n, terminated)
    \/ ShortGet \/ EvStats
    \/ Quiet \/ SmifLoad \/ SmifCrash \/ SmifPowerLoss \/ SmifLoadFails

SmifSpec == SmifInit /\ [][SmifNext]_allVars

-----------------------------------------------------------------------------
(* Properties                                                               *)

\* What the host was told it set or deleted is what getByName finds, after any
\* sequence of refused and acknowledged requests, crashes and restarts that
\* leaves no doubt about the name.
ReadYourWrites ==
    pc = "idle" => \A n \in Names \ unsure : AsMap(entries)[n] = known[n]

\* ... and what a restart of the daemon would find, unless a save has failed
\* since.
SurvivesRestart ==
    pc \in {"idle", "down"} /\ synced =>
        \A n \in Names \ unsure : AsMap(Loaded(file))[n] = known[n]

\* "All mutations persist to disk immediately": when a request is answered with
\* success, the file agrees with memory about the variables it was for.  A set of
\* length zero is answered so whatever del() returned, and left out.
SuccessIsDurable ==
    [][SetDeleteReturn /\ reply' = Error("success") /\ call.refused # "success" =>
          \A n \in call.names :
              AsMap(Loaded(file))[n] = AsMap(entries)[n]]_allVars
=============================================================================
