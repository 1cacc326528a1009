--------------------------- MODULE EvStorageProofs ---------------------------
(***************************************************************************)
(* Theorems about EvStorage, and about SmifEv over it, for any names,       *)
(* values, sizes, limits and requests.                                      *)
(*                                                                          *)
(* UniqueNames is not inductive: while save() copies, the file holds the    *)
(* entries written so far, and the next one must not repeat a name of       *)
(* theirs.  IInv adds that the file is then a prefix of the vector.  The    *)
(* same fact keeps the file within maxEvFileSize, since sizes only grow     *)
(* from one entry to the next; and a file within the limit is one that      *)
(* load() gets whole, so that EvStorage implements EvStore: each of its     *)
(* steps is a step of the abstract store or changes nothing there.          *)
(*                                                                          *)
(* What the host was told of its variables is not inductive either: HostInv *)
(* follows a request through its storage call, which names the call is      *)
(* about, what they map to once the vector has changed, and when file and   *)
(* vector are the same.                                                     *)
(***************************************************************************)
EXTENDS SmifEv, SumsTheorems, SequenceTheorems

\* While save() copies: the header comes before the entries, and these are the
\* first ones of the vector.
CopyPrefix ==
    pc = "copy" =>
        /\ file.header \in {"none", "magic", "count"}
        /\ file.header # "count" => file.body = <<>>
        /\ Len(file.body) <= Len(entries)
        /\ \A i \in 1..Len(file.body) : file.body[i] = entries[i]

IInv == TypeOK /\ UniqueNames /\ CopyPrefix

-----------------------------------------------------------------------------
(* Lemmas about the operators on entries                                    *)

\* std::vector::erase: what is left are entries, each at its place or the one
\* after it.
LEMMA WithoutType ==
    ASSUME NEW es \in Seq(Entry), NEW i \in 1..Len(es)
    PROVE  /\ Without(es, i) \in Seq(Entry)
           /\ Len(Without(es, i)) = Len(es) - 1
           /\ \A j \in 1..(Len(es) - 1) :
                 Without(es, i)[j] = IF j < i THEN es[j] ELSE es[j + 1]
<1>1. Len(es) \in Nat /\ Len(es) - 1 \in Nat
  OBVIOUS
<1>2. \A j \in 1..(Len(es) - 1) :
         (IF j < i THEN es[j] ELSE es[j + 1]) \in Entry
  <2> TAKE j \in 1..(Len(es) - 1)
  <2>1. j \in 1..Len(es) /\ j + 1 \in 1..Len(es)
    BY <1>1
  <2> QED  BY <2>1, ElementOfSeq
<1>3. Without(es, i) \in [1..(Len(es) - 1) -> Entry]
  BY <1>2 DEF Without
<1>4. Without(es, i) \in Seq(Entry) /\ Len(Without(es, i)) = Len(es) - 1
  BY <1>1, <1>3
<1> QED  BY <1>4 DEF Without

\* Erasing an entry keeps names distinct.
LEMMA WithoutUnique ==
    ASSUME NEW es \in Seq(Entry), NEW i \in 1..Len(es), Unique(es)
    PROVE  Unique(Without(es, i))
<1> DEFINE ws == Without(es, i)
<1>1. SUFFICES ASSUME NEW j \in 1..Len(ws), NEW k \in 1..Len(ws),
                      ws[j].name = ws[k].name
               PROVE  j = k
  BY DEF Unique
<1>2. Len(ws) = Len(es) - 1 /\ Len(es) \in Nat
  BY WithoutType
<1>3. /\ ws[j] = IF j < i THEN es[j] ELSE es[j + 1]
      /\ ws[k] = IF k < i THEN es[k] ELSE es[k + 1]
  BY <1>2, WithoutType
<1>4. \A m, n \in 1..Len(es) : es[m].name = es[n].name => m = n
  BY DEF Unique
<1> HIDE DEF ws
<1> QED  BY <1>1, <1>2, <1>3, <1>4

\* push_back of a name that is not there keeps names distinct.
LEMMA AppendUnique ==
    ASSUME NEW es \in Seq(Entry), NEW e \in Entry, Unique(es), ~Has(es, e.name)
    PROVE  Append(es, e) \in Seq(Entry) /\ Unique(Append(es, e))
<1> DEFINE as == Append(es, e)
<1>1. as \in Seq(Entry) /\ Len(as) = Len(es) + 1 /\ Len(es) \in Nat
  OBVIOUS
<1>2. as[Len(es) + 1] = e /\ \A j \in 1..Len(es) : as[j] = es[j]
  OBVIOUS
<1>3. \A j \in 1..Len(es) : es[j].name # e.name
  BY DEF Has
<1>4. \A m, n \in 1..Len(es) : es[m].name = es[n].name => m = n
  BY DEF Unique
<1> HIDE DEF as
<1>5. \A j \in 1..Len(as) : j \in 1..Len(es) \/ j = Len(es) + 1
  BY <1>1
<1>6. ASSUME NEW j \in 1..Len(as), NEW k \in 1..Len(as),
             as[j].name = as[k].name
      PROVE  j = k
  <2>1. CASE j \in 1..Len(es) /\ k \in 1..Len(es)
    BY <1>2, <1>4, <1>6, <2>1
  <2>2. CASE j = Len(es) + 1 /\ k \in 1..Len(es)
    BY <1>2, <1>3, <1>6, <2>2
  <2>3. CASE j \in 1..Len(es) /\ k = Len(es) + 1
    BY <1>2, <1>3, <1>6, <2>3
  <2> QED  BY <1>5, <2>1, <2>2, <2>3
<1> QED  BY <1>1, <1>6 DEF Unique, as

\* Replacing the data of an entry keeps the names.
LEMMA ReplaceUnique ==
    ASSUME NEW es \in Seq(Entry), NEW i \in 1..Len(es), NEW v \in Values,
           Unique(es)
    PROVE  /\ [es EXCEPT ![i].data = v] \in Seq(Entry)
           /\ Unique([es EXCEPT ![i].data = v])
<1> DEFINE rs == [es EXCEPT ![i].data = v]
<1>1. es[i] \in Entry
  BY ElementOfSeq
<1>2. [es[i] EXCEPT !.data = v] \in Entry
  BY <1>1 DEF Entry
<1>3. rs = [es EXCEPT ![i] = [es[i] EXCEPT !.data = v]]
  OBVIOUS
<1>4. rs \in Seq(Entry) /\ Len(rs) = Len(es)
  BY <1>2, <1>3, ExceptSeq
<1>5. \A j \in 1..Len(es) : rs[j].name = es[j].name
  <2> TAKE j \in 1..Len(es)
  <2>1. es[j] \in Entry
    BY ElementOfSeq
  <2> QED  BY <1>1, <1>3, <2>1 DEF Entry
<1> HIDE DEF rs
<1>6. Unique(rs)
  BY <1>4, <1>5 DEF Unique
<1> QED  BY <1>4, <1>6 DEF rs

\* A prefix of a vector with distinct names has distinct names.
LEMMA SubSeqUnique ==
    ASSUME NEW es \in Seq(Entry), NEW k \in 0..Len(es), Unique(es)
    PROVE  SubSeq(es, 1, k) \in Seq(Entry) /\ Unique(SubSeq(es, 1, k))
<1>1. /\ SubSeq(es, 1, k) \in Seq(Entry)
      /\ Len(SubSeq(es, 1, k)) = k
      /\ \A j \in 1..k : SubSeq(es, 1, k)[j] = es[j]
  OBVIOUS
<1>2. \A m, n \in 1..Len(es) : es[m].name = es[n].name => m = n
  BY DEF Unique
<1> QED  BY <1>1, <1>2 DEF Unique

-----------------------------------------------------------------------------
(* The inductive invariant                                                  *)

LEMMA InitInv == Init => IInv
<1> SUFFICES ASSUME Init PROVE IInv
  OBVIOUS
<1>1. <<>> \in Seq(Entry) /\ Unique(<<>>)
  BY DEF Unique
<1>2. Absent \in [header : Headers, body : Seq(Entry)] /\ Absent.body = <<>>
  BY <1>1 DEF Absent, Headers
<1> QED  BY <1>1, <1>2 DEF Init, IInv, TypeOK, UniqueNames, CopyPrefix

\* A step that leaves the files alone and does not copy need only keep the
\* entries well formed.
LEMMA EntriesStep ==
    ASSUME IInv, UNCHANGED <<file, flash>>, entries' \in Seq(Entry),
           Unique(entries'), pc' \in {"down", "idle", "save", "done"},
           ok' \in BOOLEAN
    PROVE  IInv'
  BY DEF IInv, TypeOK, UniqueNames, CopyPrefix

\* load() gets a prefix of the file.
LEMMA LoadInv == IInv /\ Load => IInv'
<1> SUFFICES ASSUME IInv, Load PROVE IInv'
  OBVIOUS
<1> USE DEF Load
<1>1. file.body \in Seq(Entry) /\ Unique(file.body)
  BY DEF IInv, TypeOK, UniqueNames
<1>2. entries' \in Seq(Entry) /\ Unique(entries')
  <2>1. CASE file.header # "count"
    <3>1. entries' = <<>>
      BY <2>1
    <3> QED  BY <3>1 DEF Unique
  <2>2. CASE file.header = "count"
    <3>1. PICK k \in 0..Len(file.body) : entries' = SubSeq(file.body, 1, k)
      BY <2>2
    <3> QED  BY <1>1, <3>1, SubSeqUnique
  <2> QED  BY <2>1, <2>2
<1> QED  BY <1>2, EntriesStep DEF IInv, TypeOK

LEMMA SetInv ==
    ASSUME NEW n \in Names, NEW v \in Values, IInv, Set(n, v)
    PROVE  IInv'
<1>1. entries \in Seq(Entry) /\ Unique(entries) /\ ok \in BOOLEAN
  BY DEF IInv, TypeOK, UniqueNames
<1>2. CASE Reject
  BY <1>1, <1>2, EntriesStep DEF Reject
<1>3. CASE ~Has(entries, n) /\ Mutate(Append(entries, [name |-> n, data |-> v]))
  <2> DEFINE e == [name |-> n, data |-> v]
  <2>1. e \in Entry /\ e.name = n
    BY DEF Entry
  <2>2. Append(entries, e) \in Seq(Entry) /\ Unique(Append(entries, e))
    BY <1>1, <1>3, <2>1, AppendUnique
  <2> QED  BY <1>1, <1>3, <2>2, EntriesStep DEF Mutate
<1>4. ASSUME NEW i \in 1..Len(entries), Mutate([entries EXCEPT ![i].data = v])
      PROVE  IInv'
  BY <1>1, <1>4, ReplaceUnique, EntriesStep DEF Mutate
<1> QED  BY <1>2, <1>3, <1>4 DEF Set

LEMMA DelInv ==
    ASSUME NEW n \in Names, IInv, Del(n)
    PROVE  IInv'
<1>1. entries \in Seq(Entry) /\ Unique(entries) /\ ok \in BOOLEAN
  BY DEF IInv, TypeOK, UniqueNames
<1>2. CASE Reject
  BY <1>1, <1>2, EntriesStep DEF Reject
<1>3. ASSUME NEW i \in 1..Len(entries), Mutate(Without(entries, i))
      PROVE  IInv'
  BY <1>1, <1>3, WithoutType, WithoutUnique, EntriesStep DEF Mutate
<1> QED  BY <1>2, <1>3 DEF Del

\* Copying adds to the file the entry that comes next in the vector.
LEMMA CopyWriteInv == IInv /\ CopyWrite => IInv'
<1> SUFFICES ASSUME IInv, CopyWrite PROVE IInv'
  OBVIOUS
<1> DEFINE k == Len(file.body)
<1>1. /\ entries \in Seq(Entry) /\ Unique(entries) /\ Unique(flash.body)
      /\ file.body \in Seq(Entry) /\ file.header \in Headers
      /\ file = [header |-> file.header, body |-> file.body]
      /\ flash \in [header : Headers, body : Seq(Entry)]
      /\ pc = "copy" /\ ok \in BOOLEAN
  BY DEF IInv, TypeOK, UniqueNames, CopyWrite
<1>2. /\ file.header \in {"none", "magic", "count"}
      /\ file.header # "count" => file.body = <<>>
      /\ k <= Len(entries)
      /\ \A i \in 1..k : file.body[i] = entries[i]
  BY <1>1 DEF IInv, CopyPrefix
<1>3. UNCHANGED <<entries, flash, pc, ok>>
  BY DEF CopyWrite
<1>4. CASE file.header # "count"
  <2>1. /\ file' \in [header : Headers, body : Seq(Entry)]
        /\ file'.header \in {"none", "magic", "count"}
        /\ file'.body = <<>>
    BY <1>1, <1>2, <1>4 DEF CopyWrite, Headers
  <2>2. Unique(file'.body) /\ Len(file'.body) = 0
    BY <2>1 DEF Unique
  <2> QED  BY <1>1, <1>3, <2>1, <2>2
           DEF IInv, TypeOK, UniqueNames, Unique, CopyPrefix
<1>5. CASE file.header = "count"
  <2>1. k \in Nat /\ k + 1 \in 1..Len(entries)
    BY <1>1, <1>2, <1>5 DEF CopyWrite, Copied
  <2>2. file'.body = Append(file.body, entries[k + 1]) /\ file'.header = "count"
        /\ file' = [header |-> "count", body |-> Append(file.body, entries[k + 1])]
    BY <1>1, <1>5 DEF CopyWrite
  <2>3. entries[k + 1] \in Entry
    BY <1>1, <2>1, ElementOfSeq
  <2>4. file'.body \in Seq(Entry) /\ Len(file'.body) = k + 1
    BY <1>1, <2>1, <2>2, <2>3
  <2>5. \A i \in 1..(k + 1) : file'.body[i] = entries[i]
    BY <1>1, <1>2, <2>1, <2>2, <2>3
  <2>6. Unique(file'.body)
    <3>1. \A i \in 1..(k + 1) : i \in 1..Len(entries)
      BY <1>1, <2>1
    <3> HIDE DEF k
    <3> QED  BY <1>1, <2>4, <2>5, <3>1 DEF Unique
  <2> HIDE DEF k
  <2> QED  BY <1>1, <1>3, <2>1, <2>2, <2>4, <2>5, <2>6
           DEF IInv, TypeOK, UniqueNames, Headers, CopyPrefix
<1> QED  BY <1>4, <1>5

\* Every step of EvStorage keeps IInv.
LEMMA NextInv == IInv /\ [Next]_vars => IInv'
<1> SUFFICES ASSUME IInv, [Next]_vars PROVE IInv'
  OBVIOUS
<1>1. /\ entries \in Seq(Entry) /\ Unique(entries) /\ ok \in BOOLEAN
      /\ Unique(<<>>) /\ <<>> \in Seq(Entry)
  BY DEF IInv, TypeOK, UniqueNames, Unique
<1>2. CASE Load
  BY <1>2, LoadInv
<1>3. CASE LoadFails
  BY <1>1, <1>3, EntriesStep DEF LoadFails
<1>4. ASSUME NEW n \in Names, Del(n) PROVE IInv'
  BY <1>4, DelInv
<1>5. ASSUME NEW n \in Names, NEW v \in Values, Set(n, v) PROVE IInv'
  BY <1>5, SetInv
<1>6. CASE DeleteAll
  BY <1>1, <1>6, EntriesStep DEF DeleteAll, Mutate
<1>7. CASE Save
  <2>1. CASE SaveRefused
    BY <1>1, <2>1, EntriesStep DEF SaveRefused, Reject
  <2>2. CASE CopyOpen
    BY <1>1, <2>2 DEF CopyOpen, Empty, IInv, TypeOK, UniqueNames, Headers,
                      CopyPrefix
  <2>3. CASE CopyWrite
    BY <2>3, CopyWriteInv
  <2>4. CASE CopyFails
    BY <1>1, <2>4, EntriesStep DEF CopyFails, Reject
  <2>5. CASE CopyDone
    BY <1>1, <2>5, EntriesStep DEF CopyDone
  <2> QED  BY <1>7, <2>1, <2>2, <2>3, <2>4, <2>5 DEF Save
<1>8. CASE Return
  BY <1>1, <1>8, EntriesStep DEF Return
<1>9. CASE Writeback
  BY <1>9 DEF Writeback, IInv, TypeOK, UniqueNames, CopyPrefix
<1>10. CASE Crash
  BY <1>1, <1>10, EntriesStep DEF Crash
<1>11. CASE PowerLoss
  BY <1>1, <1>11 DEF PowerLoss, IInv, TypeOK, UniqueNames, CopyPrefix
<1>12. CASE UNCHANGED vars
  BY <1>12 DEF vars, IInv, TypeOK, UniqueNames, Unique, CopyPrefix
<1> QED  BY <1>2, <1>3, <1>4, <1>5, <1>6, <1>7, <1>8, <1>9, <1>10, <1>11, <1>12
         DEF Next

-----------------------------------------------------------------------------
(* Theorems                                                                 *)

\* Types, names and what may lie between memory and a file hold in every state
\* (EvStorage's operations, each inductive with all three).
THEOREM Invariance == Spec => []IInv
<1> QED  BY InitInv, NextInv, PTL DEF Spec

\* EvStorage's variables keep their types: in particular a file never holds
\* anything but entries of the vector's type.
THEOREM TypeCorrect == Spec => []TypeOK
<1>1. IInv => TypeOK
  BY DEF IInv
<1> QED  BY <1>1, Invariance, PTL

\* For any number of names, values and limits, and after any crashes, failed
\* saves and power losses: a variable has at most one entry in memory and in
\* every file that load() may read (set, del, load, save).
THEOREM NamesUnique == Spec => []UniqueNames
<1>1. IInv => UniqueNames
  BY DEF IInv
<1> QED  BY <1>1, Invariance, PTL
-----------------------------------------------------------------------------
(* The limit on the file                                                    *)

Fits(es) == SerializedSize(es) <= MaxFile

WithinInv == Fits(entries) /\ Fits(file.body) /\ Fits(flash.body)

\* What serializedSize() adds up.
LEMMA SizesType ==
    ASSUME NEW es \in Seq(Entry)
    PROVE  /\ EntrySizes(es) \in Seq(Nat) /\ Len(EntrySizes(es)) = Len(es)
           /\ \A i \in 1..Len(es) : EntrySizes(es)[i] = Overhead + Size[es[i].data]
           /\ Total(EntrySizes(es)) \in Nat
           /\ SerializedSize(es) = HeaderSize + Total(EntrySizes(es))
           /\ SerializedSize(es) \in Nat
<1>1. Len(es) \in Nat
  OBVIOUS
<1>2. \A i \in 1..Len(es) : Overhead + Size[es[i].data] \in Nat
  <2> TAKE i \in 1..Len(es)
  <2>1. es[i] \in Entry
    BY ElementOfSeq
  <2> QED  BY <2>1, EvAssumption DEF Entry
<1>3. EntrySizes(es) \in [1..Len(es) -> Nat]
  BY <1>2 DEF EntrySizes
<1>4. EntrySizes(es) \in Seq(Nat) /\ Len(EntrySizes(es)) = Len(es)
  BY <1>1, <1>3
<1>5. Total(EntrySizes(es)) \in Nat
  BY <1>4, TotalType
<1>6. SerializedSize(es) \in Nat
  BY <1>5, EvAssumption DEF SerializedSize
<1> QED  BY <1>4, <1>5, <1>6 DEF SerializedSize, EntrySizes

LEMMA FitsEmpty == Fits(<<>>)
<1>1. EntrySizes(<<>>) = <<>>
  BY DEF EntrySizes
<1> QED  BY <1>1, TotalEmpty, EvAssumption DEF Fits, SerializedSize

\* A vector within the limit is within it at each of its entries.
LEMMA FitsPrefix ==
    ASSUME NEW es \in Seq(Entry), NEW fs \in Seq(Entry), Fits(es), Prefix(fs, es)
    PROVE  Fits(fs)
<1> DEFINE t == EntrySizes(es)  u == EntrySizes(fs)
<1>1. /\ t \in Seq(Nat) /\ u \in Seq(Nat) /\ Prefix(u, t)
      /\ Total(t) \in Nat /\ Total(u) \in Nat
  <2>1. Len(fs) <= Len(es) /\ \A i \in 1..Len(fs) : fs[i] = es[i]
    BY DEF Prefix
  <2>2. Len(fs) \in Nat /\ Len(es) \in Nat
    OBVIOUS
  <2>3. \A i \in 1..Len(fs) : i \in 1..Len(es)
    BY <2>1, <2>2
  <2>4. \A i \in 1..Len(fs) : u[i] = t[i]
    BY <2>1, <2>3, SizesType
  <2>5. Len(u) = Len(fs) /\ Len(t) = Len(es)
    BY SizesType
  <2>6. t \in Seq(Nat) /\ u \in Seq(Nat) /\ Total(t) \in Nat /\ Total(u) \in Nat
    BY SizesType
  <2> HIDE DEF t, u
  <2> QED  BY <2>1, <2>4, <2>5, <2>6 DEF Prefix
<1> HIDE DEF t, u
<1>2. Total(u) <= Total(t)
  BY <1>1, TotalPrefix
<1> QED  BY <1>1, <1>2, EvAssumption DEF Fits, SerializedSize, t, u

LEMMA FitsLoadable ==
    ASSUME NEW es \in Seq(Entry), Fits(es), NEW k \in 0..Len(es)
    PROVE  Fits(SubSeq(es, 1, k)) /\ Loadable(es, k)
<1>1. /\ SubSeq(es, 1, k) \in Seq(Entry) /\ Len(SubSeq(es, 1, k)) = k
      /\ \A j \in 1..k : SubSeq(es, 1, k)[j] = es[j]
      /\ k <= Len(es)
  OBVIOUS
<1>2. Prefix(SubSeq(es, 1, k), es)
  BY <1>1 DEF Prefix
<1> QED  BY <1>1, <1>2, FitsPrefix DEF Fits, Loadable

\* push_back adds the bytes of the new entry.
LEMMA SizeAppend ==
    ASSUME NEW es \in Seq(Entry), NEW e \in Entry
    PROVE  SerializedSize(Append(es, e)) =
              SerializedSize(es) + Overhead + Size[e.data]
<1> DEFINE t == EntrySizes(es)  x == Overhead + Size[e.data]  as == Append(es, e)
<1>1. t \in Seq(Nat) /\ Len(t) = Len(es) /\ Total(t) \in Nat
  BY SizesType
<1>2. x \in Nat /\ Size[e.data] \in Nat
  BY EvAssumption DEF Entry
<1>3. /\ as \in Seq(Entry) /\ Len(as) = Len(es) + 1 /\ Len(es) \in Nat
      /\ as[Len(es) + 1] = e /\ \A i \in 1..Len(es) : as[i] = es[i]
  OBVIOUS
<1> HIDE DEF as
<1>4. EntrySizes(as) = Append(t, x)
  <2>1. EntrySizes(as) \in Seq(Nat) /\ Len(EntrySizes(as)) = Len(es) + 1
    BY <1>3, SizesType
  <2>2. /\ Append(t, x) \in Seq(Nat) /\ Len(Append(t, x)) = Len(es) + 1
        /\ Append(t, x)[Len(es) + 1] = x
        /\ \A i \in 1..Len(es) : Append(t, x)[i] = t[i]
    <3> HIDE DEF t, x
    <3> QED  BY <1>1, <1>2, <1>3
  <2>3. ASSUME NEW i \in 1..(Len(es) + 1)
        PROVE  EntrySizes(as)[i] = Append(t, x)[i]
    <3>1. EntrySizes(as)[i] = Overhead + Size[as[i].data]
      BY <1>3, SizesType
    <3>2. CASE i = Len(es) + 1
      BY <1>3, <2>2, <3>1, <3>2
    <3>3. CASE i \in 1..Len(es)
      <4>1. t[i] = Overhead + Size[es[i].data]
        BY <3>3, SizesType
      <4> QED  BY <1>3, <2>2, <3>1, <3>3, <4>1
    <3>4. Len(es) \in Nat
      BY <1>3
    <3>5. i = Len(es) + 1 \/ i \in 1..Len(es)
      BY <3>4
    <3> QED  BY <3>2, <3>3, <3>5
  <2> HIDE DEF t, x
  <2> QED  BY <2>1, <2>2, <2>3, SeqEqual
<1>5. Total(EntrySizes(as)) = Total(t) + x
  <2> HIDE DEF t, x
  <2> QED  BY <1>1, <1>2, <1>4, TotalAppend
<1> DEFINE p == Total(t)  q == Total(EntrySizes(as))  a == Size[e.data]
<1>6. /\ SerializedSize(es) = HeaderSize + p /\ SerializedSize(as) = HeaderSize + q
      /\ p \in Nat /\ q \in Nat /\ q = p + (Overhead + a) /\ a \in Nat
      /\ HeaderSize \in Nat /\ Overhead \in Nat
  BY <1>2, <1>3, <1>5, SizesType, EvAssumption
<1> HIDE DEF p, q, a
<1>7. HeaderSize + q = HeaderSize + p + Overhead + a
  BY <1>6
<1> QED  BY <1>6, <1>7 DEF as, a

\* Other data for an entry makes the difference of their sizes.
LEMMA SizeReplace ==
    ASSUME NEW es \in Seq(Entry), NEW i \in 1..Len(es), NEW v \in Values
    PROVE  SerializedSize([es EXCEPT ![i].data = v]) =
              SerializedSize(es) + Size[v] - Size[es[i].data]
<1> DEFINE rs == [es EXCEPT ![i].data = v]
           t == EntrySizes(es)  u == EntrySizes(rs)
           a == Size[es[i].data]  b == Size[v]
<1>1. es[i] \in Entry /\ es[i].data \in Values
  <2>1. es[i] \in Entry
    BY ElementOfSeq
  <2> QED  BY <2>1 DEF Entry
<1>2. rs \in Seq(Entry) /\ Len(rs) = Len(es)
  <2>1. [es[i] EXCEPT !.data = v] \in Entry
    BY <1>1 DEF Entry
  <2>2. rs = [es EXCEPT ![i] = [es[i] EXCEPT !.data = v]]
    OBVIOUS
  <2> QED  BY <2>1, <2>2, ExceptSeq
<1>3. rs[i].data = v /\ \A j \in 1..Len(es) : j # i => rs[j] = es[j]
  BY <1>1 DEF Entry
<1>4. a \in Nat /\ b \in Nat /\ Overhead \in Nat /\ HeaderSize \in Nat
  BY <1>1, EvAssumption
<1> HIDE DEF rs
<1> DEFINE p == Total(t)  q == Total(u)
<1>5. /\ t \in Seq(Nat) /\ u \in Seq(Nat) /\ p \in Nat /\ q \in Nat
      /\ t[i] = Overhead + a /\ u[i] = Overhead + b
      /\ SerializedSize(es) = HeaderSize + p /\ SerializedSize(rs) = HeaderSize + q
  BY <1>2, <1>3, SizesType
<1>6. Replaced(u, t, i) /\ i \in 1..Len(t)
  <2>1. \A j \in 1..Len(es) : j # i => u[j] = t[j]
    BY <1>2, <1>3, SizesType
  <2> QED  BY <1>2, <2>1, SizesType DEF Replaced
<1>7. q + (Overhead + a) = p + (Overhead + b)
  <2> HIDE DEF t, u, a, b
  <2> QED  BY <1>5, <1>6, TotalReplace
<1> HIDE DEF t, u, a, b, p, q
<1>8. HeaderSize + q = HeaderSize + p + b - a
  BY <1>4, <1>5, <1>7
<1> QED  BY <1>5, <1>8 DEF rs, a, b

\* Erasing an entry makes the vector smaller.
LEMMA SizeWithout ==
    ASSUME NEW es \in Seq(Entry), NEW i \in 1..Len(es)
    PROVE  SerializedSize(Without(es, i)) <= SerializedSize(es)
<1> DEFINE ws == Without(es, i)  t == EntrySizes(es)  u == EntrySizes(ws)
<1>1. /\ ws \in Seq(Entry) /\ Len(ws) = Len(es) - 1 /\ Len(es) \in Nat
      /\ \A j \in 1..Len(ws) : ws[j] = IF j < i THEN es[j] ELSE es[j + 1]
  <2>1. Len(es) \in Nat
    OBVIOUS
  <2> QED  BY <2>1, WithoutType
<1> HIDE DEF ws
<1>2. /\ t \in Seq(Nat) /\ u \in Seq(Nat) /\ Len(t) = Len(es)
      /\ Len(u) = Len(es) - 1 /\ Total(t) \in Nat /\ Total(u) \in Nat
  BY <1>1, SizesType
<1>3. Removed(u, t, i)
  <2>1. ASSUME NEW j \in 1..Len(ws)
        PROVE  u[j] = IF j < i THEN t[j] ELSE t[j + 1]
    <3>1. j \in 1..Len(es) /\ j + 1 \in 1..Len(es)
      BY <1>1
    <3>2. /\ u[j] = Overhead + Size[ws[j].data]
          /\ t[j] = Overhead + Size[es[j].data]
          /\ t[j + 1] = Overhead + Size[es[j + 1].data]
      BY <1>1, <3>1, SizesType
    <3> QED  BY <1>1, <3>2
  <2> QED  BY <1>1, <1>2, <2>1 DEF Removed
<1> DEFINE p == Total(t)  q == Total(u)  x == t[i]
<1>4. x \in Nat /\ p \in Nat /\ q \in Nat
  BY <1>2
<1>5. q + x = p
  <2> HIDE DEF t, u
  <2> QED  BY <1>2, <1>3, TotalRemove
<1>6. SerializedSize(es) = HeaderSize + p /\ SerializedSize(ws) = HeaderSize + q
  BY <1>1, SizesType
<1> HIDE DEF p, q, x
<1>7. HeaderSize + q <= HeaderSize + p
  BY <1>4, <1>5, EvAssumption
<1> QED  BY <1>6, <1>7 DEF ws

\* set() checks the size that the vector will have.
LEMMA SetFits ==
    ASSUME NEW n \in Names, NEW v \in Values, IInv, Fits(entries), Set(n, v)
    PROVE  Fits(entries')
<1>1. entries \in Seq(Entry) /\ Unique(entries)
  BY DEF IInv, TypeOK, UniqueNames
<1>2. SerializedSize(entries) \in Nat /\ MaxFile \in Nat
  BY <1>1, SizesType, EvAssumption
<1>3. CASE Reject
  BY <1>3 DEF Reject
<1>4. CASE /\ Acceptable(n, v) /\ ~Has(entries, n)
           /\ Mutate(Append(entries, [name |-> n, data |-> v]))
  <2> DEFINE e == [name |-> n, data |-> v]
  <2>1. e \in Entry /\ e.data = v
    BY DEF Entry
  <2>2. SerializedSize(entries) + Overhead + Size[v] <= MaxFile
    BY <1>4 DEF Acceptable, Room, Has, First
  <2>3. entries' = Append(entries, e)
    BY <1>4 DEF Mutate
  <2> HIDE DEF e
  <2>4. SerializedSize(Append(entries, e)) = SerializedSize(entries) + Overhead + Size[v]
    BY <1>1, <2>1, SizeAppend
  <2> QED  BY <2>2, <2>3, <2>4 DEF Fits
<1>5. ASSUME NEW i \in 1..Len(entries), Acceptable(n, v), First(entries, n, i),
             Mutate([entries EXCEPT ![i].data = v])
      PROVE  Fits(entries')
  <2>1. /\ entries' = [entries EXCEPT ![i].data = v]
        /\ SerializedSize(entries') =
              SerializedSize(entries) + Size[v] - Size[entries[i].data]
    BY <1>1, <1>5, SizeReplace DEF Mutate
  <2>2. entries[i] \in Entry
    BY <1>1, ElementOfSeq
  <2>3. Size[v] \in Nat /\ Size[entries[i].data] \in Nat
    BY <2>2, EvAssumption DEF Entry
  <2>4. \/ Size[v] <= Size[entries[i].data]
        \/ SerializedSize(entries) + Size[v] - Size[entries[i].data] <= MaxFile
    <3>1. Has(entries, n)
      BY <1>5 DEF Has, First
    <3>2. \A j \in 1..Len(entries) : First(entries, n, j) => j = i
      BY <1>1, <1>5 DEF First, Unique
    <3> QED  BY <1>5, <3>1, <3>2 DEF Acceptable, Room
  <2>5. SerializedSize(entries) <= MaxFile
    BY DEF Fits
  <2>6. SerializedSize(entries) + Size[v] - Size[entries[i].data] <= MaxFile
    BY <1>2, <2>3, <2>4, <2>5
  <2> QED  BY <2>1, <2>6 DEF Fits
<1> QED  BY <1>3, <1>4, <1>5 DEF Set

\* A step that leaves the files alone need only keep the vector within the limit.
LEMMA LimitNext == IInv /\ IInv' /\ WithinInv /\ [Next]_vars => WithinInv'
<1> SUFFICES ASSUME IInv, IInv', WithinInv, [Next]_vars PROVE WithinInv'
  OBVIOUS
<1>1. /\ entries \in Seq(Entry) /\ file.body \in Seq(Entry)
      /\ entries' \in Seq(Entry) /\ file'.body \in Seq(Entry)
      /\ Fits(entries) /\ Fits(file.body) /\ Fits(flash.body) /\ Fits(<<>>)
  BY FitsEmpty DEF IInv, TypeOK, WithinInv
<1>2. CASE Load
  <2>1. CASE file.header # "count"
    BY <1>1, <1>2, <2>1 DEF Load, WithinInv
  <2>2. CASE file.header = "count"
    <3>1. PICK k \in 0..Len(file.body) : entries' = SubSeq(file.body, 1, k)
      BY <1>2, <2>2 DEF Load
    <3>2. Fits(entries')
      BY <1>1, <3>1, FitsLoadable
    <3> QED  BY <1>1, <1>2, <3>2 DEF Load, WithinInv
  <2> QED  BY <2>1, <2>2
<1>3. CASE LoadFails \/ DeleteAll \/ Crash
  BY <1>1, <1>3 DEF LoadFails, DeleteAll, Mutate, Crash, WithinInv
<1>4. ASSUME NEW n \in Names, Del(n) PROVE WithinInv'
  <2>1. CASE Reject
    BY <1>1, <2>1 DEF Reject, WithinInv
  <2>2. ASSUME NEW i \in 1..Len(entries), Mutate(Without(entries, i))
        PROVE  WithinInv'
    <3>1. entries' = Without(entries, i) /\ UNCHANGED <<file, flash>>
      BY <2>2 DEF Mutate
    <3>2. SerializedSize(entries') <= SerializedSize(entries)
      BY <1>1, <3>1, SizeWithout
    <3>3. SerializedSize(entries') \in Nat /\ SerializedSize(entries) \in Nat
      BY <1>1, SizesType
    <3>4. Fits(entries')
      BY <1>1, <3>2, <3>3, EvAssumption DEF Fits
    <3> QED  BY <1>1, <3>1, <3>4 DEF WithinInv
  <2> QED  BY <1>4, <2>1, <2>2 DEF Del
<1>5. ASSUME NEW n \in Names, NEW v \in Values, Set(n, v) PROVE WithinInv'
  <2>1. Fits(entries')
    BY <1>1, <1>5, SetFits
  <2>2. UNCHANGED <<file, flash>>
    BY <1>5 DEF Set, Reject, Mutate
  <2> QED  BY <1>1, <2>1, <2>2 DEF WithinInv
<1>6. CASE Save
  <2>1. CASE SaveRefused \/ CopyFails \/ CopyDone
    BY <1>1, <2>1 DEF SaveRefused, CopyFails, CopyDone, Reject, WithinInv
  <2>2. CASE CopyOpen
    BY <1>1, <2>2 DEF CopyOpen, Empty, WithinInv
  <2>3. CASE CopyWrite
    <3>1. UNCHANGED <<entries, flash, pc>> /\ pc = "copy"
      BY <2>3 DEF CopyWrite
    <3>2. Prefix(file'.body, entries')
      BY <3>1 DEF IInv, CopyPrefix, Prefix
    <3>3. Fits(entries')
      BY <1>1, <3>1
    <3>4. Fits(file'.body)
      BY <1>1, <3>2, <3>3, FitsPrefix
    <3> QED  BY <1>1, <3>1, <3>4 DEF WithinInv
  <2> QED  BY <1>6, <2>1, <2>2, <2>3 DEF Save
<1>7. CASE Return \/ UNCHANGED vars
  BY <1>1, <1>7 DEF Return, vars, WithinInv
<1>8. CASE Writeback
  BY <1>1, <1>8 DEF Writeback, WithinInv
<1>9. CASE PowerLoss
  BY <1>1, <1>9 DEF PowerLoss, WithinInv
<1> QED  BY <1>2, <1>3, <1>4, <1>5, <1>6, <1>7, <1>8, <1>9 DEF Next

LEMMA LimitHolds == IInv /\ WithinInv => WithinLimit
<1> SUFFICES ASSUME IInv, WithinInv,
                    NEW es \in {entries, file.body, flash.body},
                    NEW k \in 0..Len(es)
             PROVE  Loadable(es, k)
  BY DEF WithinLimit
<1>1. es \in Seq(Entry) /\ Fits(es)
  BY DEF IInv, TypeOK, WithinInv
<1> QED  BY <1>1, FitsLoadable

\* Whatever the host sets and deletes, and whatever crash or power loss cuts a
\* save() short: the daemon's entries, and those of every file it may find, are
\* within maxEvFileSize, so that load() never drops an entry that save() wrote.
THEOREM LimitKept == Spec => []WithinLimit
<1>1. Init => WithinInv
  BY FitsEmpty DEF Init, Absent, WithinInv
<1>2. IInv /\ IInv' /\ WithinInv /\ [Next]_vars => WithinInv'
  BY LimitNext
<1> QED  BY <1>1, <1>2, LimitHolds, Invariance, PTL DEF Spec

-----------------------------------------------------------------------------
(* The abstract map of a vector of entries                                  *)

\* With distinct names, the abstract map at a name is the data of the entry
\* that has it.
LEMMA AsMapAt ==
    ASSUME NEW es \in Seq(Entry), Unique(es), NEW i \in 1..Len(es)
    PROVE  es[i].name \in Names /\ AsMap(es)[es[i].name] = es[i].data
<1> DEFINE n == es[i].name
<1>1. es[i] \in Entry
  BY ElementOfSeq
<1>2. n \in Names /\ Has(es, n)
  BY <1>1 DEF Entry, Has
<1>3. \A j, k \in 1..Len(es) : es[j].name = es[k].name => j = k
  BY DEF Unique
<1>4. First(es, n, i)
  BY <1>3 DEF First
<1>5. \A j \in 1..Len(es) : First(es, n, j) => j = i
  BY <1>3 DEF First
<1>6. (CHOOSE j \in 1..Len(es) : First(es, n, j)) = i
  BY <1>4, <1>5
<1> QED  BY <1>2, <1>6 DEF AsMap

LEMMA AsMapNone ==
    ASSUME NEW es, NEW n \in Names, ~Has(es, n)
    PROVE  AsMap(es)[n] = NoValue
  BY DEF AsMap

LEMMA AsMapType ==
    ASSUME NEW es \in Seq(Entry), Unique(es)
    PROVE  AsMap(es) \in Abstract!Map
<1>1. \A n \in Names : AsMap(es)[n] \in Values \cup {NoValue}
  <2> TAKE n \in Names
  <2>1. CASE Has(es, n)
    <3>1. PICK i \in 1..Len(es) : es[i].name = n
      BY <2>1 DEF Has
    <3>2. es[i] \in Entry
      BY ElementOfSeq
    <3> QED  BY <3>1, <3>2, AsMapAt DEF Entry
  <2>2. CASE ~Has(es, n)
    BY <2>2, AsMapNone
  <2> QED  BY <2>1, <2>2
<1>2. AsMap(es) = [n \in Names |-> AsMap(es)[n]]
  BY DEF AsMap
<1> QED  BY <1>1, <1>2 DEF Abstract!Map

LEMMA AsMapEmpty == AsMap(<<>>) = Abstract!Nothing
  BY DEF AsMap, Has, Abstract!Nothing

\* Two vectors with the same value at every name are the same map.
LEMMA AsMapEqual ==
    ASSUME NEW es, NEW m, m = [n \in Names |-> m[n]],
           \A n \in Names : AsMap(es)[n] = m[n]
    PROVE  AsMap(es) = m
<1>1. AsMap(es) = [n \in Names |-> AsMap(es)[n]]
  BY DEF AsMap
<1> QED  BY <1>1

\* A vector whose entries are among those of another one is a part of its map.
LEMMA AsMapPart ==
    ASSUME NEW es \in Seq(Entry), Unique(es), NEW fs \in Seq(Entry), Unique(fs),
           \A i \in 1..Len(fs) : \E j \in 1..Len(es) : fs[i] = es[j]
    PROVE  Abstract!SubMap(AsMap(fs), AsMap(es))
<1>1. SUFFICES ASSUME NEW n \in Names
               PROVE  AsMap(fs)[n] \in {AsMap(es)[n], NoValue}
  BY DEF Abstract!SubMap
<1>2. CASE Has(fs, n)
  <2>1. PICK i \in 1..Len(fs) : fs[i].name = n
    BY <1>2 DEF Has
  <2>2. PICK j \in 1..Len(es) : fs[i] = es[j]
    BY <2>1
  <2>3. AsMap(fs)[n] = fs[i].data /\ AsMap(es)[n] = es[j].data
    BY <2>1, <2>2, AsMapAt
  <2> QED  BY <2>2, <2>3
<1>3. CASE ~Has(fs, n)
  BY <1>3, AsMapNone
<1> QED  BY <1>2, <1>3

\* Changing a map at one name.
LEMMA MapExcept ==
    ASSUME NEW es, NEW x \in Names, NEW v
    PROVE  [AsMap(es) EXCEPT ![x] = v] =
              [n \in Names |-> IF n = x THEN v ELSE AsMap(es)[n]]
<1> DEFINE m == AsMap(es)
<1>1. m = [n \in Names |-> m[n]]
  BY DEF AsMap
<1> HIDE DEF m
<1>2. [m EXCEPT ![x] = v] = [n \in Names |-> IF n = x THEN v ELSE m[n]]
  BY <1>1
<1> QED  BY <1>2 DEF m

\* push_back changes the map at the new name.
LEMMA AsMapAppend ==
    ASSUME NEW es \in Seq(Entry), Unique(es), NEW e \in Entry, ~Has(es, e.name)
    PROVE  AsMap(Append(es, e)) = [AsMap(es) EXCEPT ![e.name] = e.data]
<1> DEFINE as == Append(es, e)
           m  == [AsMap(es) EXCEPT ![e.name] = e.data]
<1>1. as \in Seq(Entry) /\ Unique(as)
  BY AppendUnique
<1>2. Len(as) = Len(es) + 1 /\ Len(es) \in Nat
  OBVIOUS
<1>6. as[Len(es) + 1] = e /\ \A j \in 1..Len(es) : as[j] = es[j]
  OBVIOUS
<1>3. e.name \in Names
  BY DEF Entry
<1>4. m = [n \in Names |-> IF n = e.name THEN e.data ELSE AsMap(es)[n]]
  BY <1>3, MapExcept
<1> HIDE DEF as, m
<1>5. ASSUME NEW n \in Names PROVE AsMap(as)[n] = m[n]
  <2>1. CASE n = e.name
    <3>1. Len(es) + 1 \in 1..Len(as)
      BY <1>2
    <3>2. AsMap(as)[as[Len(es) + 1].name] = as[Len(es) + 1].data
      BY <1>1, <3>1, AsMapAt
    <3> QED  BY <1>4, <1>6, <2>1, <3>2
  <2>2. CASE n # e.name /\ Has(es, n)
    <3>1. PICK i \in 1..Len(es) : es[i].name = n
      BY <2>2 DEF Has
    <3>2. i \in 1..Len(as)
      BY <1>2
    <3>5. as[i] = es[i]
      BY <1>6
    <3>3. AsMap(as)[n] = es[i].data
      BY <1>1, <3>1, <3>2, <3>5, AsMapAt
    <3>4. AsMap(es)[n] = es[i].data
      BY <3>1, AsMapAt
    <3> QED  BY <1>4, <2>2, <3>3, <3>4
  <2>3. CASE n # e.name /\ ~Has(es, n)
    <3>1. \A i \in 1..Len(as) : i \in 1..Len(es) \/ i = Len(es) + 1
      BY <1>2
    <3>2. ~Has(as, n)
      BY <1>6, <2>3, <3>1 DEF Has
    <3> QED  BY <1>4, <2>3, <3>2, AsMapNone
  <2> QED  BY <2>1, <2>2, <2>3
<1> QED  BY <1>4, <1>5, AsMapEqual DEF as, m

\* Replacing the data of the entry with a name changes the map there.
LEMMA AsMapReplace ==
    ASSUME NEW es \in Seq(Entry), Unique(es), NEW i \in 1..Len(es),
           NEW v \in Values
    PROVE  AsMap([es EXCEPT ![i].data = v]) =
              [AsMap(es) EXCEPT ![es[i].name] = v]
<1> DEFINE rs == [es EXCEPT ![i].data = v]
           x  == es[i].name
           m  == [AsMap(es) EXCEPT ![x] = v]
<1>1. rs \in Seq(Entry) /\ Unique(rs)
  BY ReplaceUnique
<1>2. es[i] \in Entry /\ x \in Names
  <2>1. es[i] \in Entry
    BY ElementOfSeq
  <2> QED  BY <2>1 DEF Entry
<1>3. Len(rs) = Len(es) /\ rs[i].data = v
  BY <1>2 DEF Entry
<1>4. \A j \in 1..Len(es) : rs[j].name = es[j].name
  <2> TAKE j \in 1..Len(es)
  <2>1. es[j] \in Entry
    BY ElementOfSeq
  <2> QED  BY <1>2, <2>1 DEF Entry
<1>5. \A j \in 1..Len(es) : j # i => rs[j] = es[j]
  OBVIOUS
<1>6. m = [n \in Names |-> IF n = x THEN v ELSE AsMap(es)[n]]
  BY <1>2, MapExcept
<1>7. \A j, k \in 1..Len(es) : es[j].name = es[k].name => j = k
  BY DEF Unique
<1> HIDE DEF rs, m
<1>8. ASSUME NEW n \in Names PROVE AsMap(rs)[n] = m[n]
  <2>1. CASE n = x
    <3>1. AsMap(rs)[rs[i].name] = rs[i].data
      BY <1>1, <1>3, AsMapAt
    <3> QED  BY <1>3, <1>4, <1>6, <2>1, <3>1
  <2>2. CASE n # x /\ Has(es, n)
    <3>1. PICK j \in 1..Len(es) : es[j].name = n
      BY <2>2 DEF Has
    <3>2. j # i /\ rs[j] = es[j]
      BY <1>5, <2>2, <3>1
    <3>3. AsMap(rs)[n] = es[j].data
      BY <1>1, <1>3, <3>1, <3>2, AsMapAt
    <3>4. AsMap(es)[n] = es[j].data
      BY <3>1, AsMapAt
    <3> QED  BY <1>6, <2>2, <3>3, <3>4
  <2>3. CASE n # x /\ ~Has(es, n)
    <3>1. ~Has(rs, n)
      BY <1>3, <1>4, <2>3 DEF Has
    <3> QED  BY <1>6, <2>3, <3>1, AsMapNone
  <2> QED  BY <2>1, <2>2, <2>3
<1> QED  BY <1>6, <1>8, AsMapEqual DEF rs, m

\* Erasing the entry with a name removes the name from the map.
LEMMA AsMapWithout ==
    ASSUME NEW es \in Seq(Entry), Unique(es), NEW i \in 1..Len(es)
    PROVE  AsMap(Without(es, i)) = [AsMap(es) EXCEPT ![es[i].name] = NoValue]
<1> DEFINE ws == Without(es, i)
           x  == es[i].name
           m  == [AsMap(es) EXCEPT ![x] = NoValue]
<1>1. ws \in Seq(Entry) /\ Unique(ws)
  BY WithoutType, WithoutUnique
<1>2. Len(ws) = Len(es) - 1 /\ Len(es) \in Nat
  BY WithoutType
<1>3. \A j \in 1..Len(ws) : ws[j] = IF j < i THEN es[j] ELSE es[j + 1]
  BY <1>2, WithoutType
<1>4. es[i] \in Entry /\ x \in Names
  <2>1. es[i] \in Entry
    BY ElementOfSeq
  <2> QED  BY <2>1 DEF Entry
<1>5. m = [n \in Names |-> IF n = x THEN NoValue ELSE AsMap(es)[n]]
  BY <1>4, MapExcept
<1>6. \A j, k \in 1..Len(es) : es[j].name = es[k].name => j = k
  BY DEF Unique
<1> HIDE DEF ws, m
<1>7. ASSUME NEW n \in Names PROVE AsMap(ws)[n] = m[n]
  <2>1. CASE n = x
    <3>1. ASSUME NEW j \in 1..Len(ws), ws[j].name = x PROVE FALSE
      <4>1. CASE j < i
        <5>1. j \in 1..Len(es) /\ ws[j] = es[j]
          BY <1>2, <1>3, <4>1
        <5> QED  BY <1>6, <3>1, <4>1, <5>1
      <4>2. CASE ~(j < i)
        <5>1. j + 1 \in 1..Len(es) /\ j + 1 # i
          BY <1>2, <4>2
        <5>2. ws[j] = es[j + 1]
          BY <1>3, <4>2
        <5> QED  BY <1>6, <3>1, <5>1, <5>2
      <4> QED  BY <4>1, <4>2
    <3>2. ~Has(ws, n)
      BY <2>1, <3>1 DEF Has
    <3> QED  BY <1>5, <2>1, <3>2, AsMapNone
  <2>2. CASE n # x /\ Has(es, n)
    <3>1. PICK j \in 1..Len(es) : es[j].name = n
      BY <2>2 DEF Has
    <3>2. PICK k \in 1..Len(ws) : ws[k] = es[j]
      <4>1. j # i
        BY <2>2, <3>1
      <4>2. CASE j < i
        <5>1. j \in 1..Len(ws)
          BY <1>2, <4>2
        <5> QED  BY <1>3, <4>2, <5>1
      <4>3. CASE i < j
        <5>1. j - 1 \in 1..Len(ws) /\ ~(j - 1 < i) /\ (j - 1) + 1 = j
          BY <1>2, <4>3
        <5> QED  BY <1>3, <5>1
      <4> QED  BY <4>1, <4>2, <4>3
    <3>3. AsMap(ws)[n] = es[j].data
      BY <1>1, <3>1, <3>2, AsMapAt
    <3>4. AsMap(es)[n] = es[j].data
      BY <3>1, AsMapAt
    <3> QED  BY <1>5, <2>2, <3>3, <3>4
  <2>3. CASE n # x /\ ~Has(es, n)
    <3>1. ASSUME NEW j \in 1..Len(ws)
          PROVE  \E k \in 1..Len(es) : ws[j] = es[k]
      <4>1. j \in 1..Len(es) /\ j + 1 \in 1..Len(es)
        BY <1>2
      <4> QED  BY <1>3, <4>1
    <3>2. ~Has(ws, n)
      BY <2>3, <3>1 DEF Has
    <3> QED  BY <1>5, <2>3, <3>2, AsMapNone
  <2> QED  BY <2>1, <2>2, <2>3
<1> QED  BY <1>5, <1>7, AsMapEqual DEF ws, m

-----------------------------------------------------------------------------
(* Initial states, and one lemma per kind of step                           *)

LEMMA RefineInit == Init => Abstract!Init
<1> SUFFICES ASSUME Init PROVE Abstract!Init
  OBVIOUS
<1>1. /\ AsMap(entries) = Abstract!Nothing
      /\ AsMap(Loaded(file)) = Abstract!Nothing
      /\ AsMap(Loaded(flash)) = Abstract!Nothing
  BY AsMapEmpty DEF Init, Loaded, Absent
<1>2. Phase = "down"
  BY DEF Init, Phase
<1> QED  BY <1>1, <1>2 DEF Abstract!Init

\* What IInv says of the entries and of what load() may get.
LEMMA Facts ==
    ASSUME IInv
    PROVE  /\ entries \in Seq(Entry) /\ Unique(entries)
           /\ Loaded(file) \in Seq(Entry) /\ Unique(Loaded(file))
           /\ file.body \in Seq(Entry) /\ Unique(file.body)
<1>1. <<>> \in Seq(Entry) /\ Unique(<<>>)
  BY DEF Unique
<1>2. /\ entries \in Seq(Entry) /\ Unique(entries)
      /\ file.body \in Seq(Entry) /\ Unique(file.body)
  BY DEF IInv, TypeOK, UniqueNames
<1> QED  BY <1>1, <1>2 DEF Loaded

\* A file within the limit is loaded whole.
LEMMA LoadsAll ==
    ASSUME IInv, WithinLimit, Load
    PROVE  entries' = Loaded(file)
<1>1. CASE file.header # "count"
  BY <1>1 DEF Load, Loaded
<1>2. CASE file.header = "count"
  <2>1. PICK k \in 0..Len(file.body) :
           /\ k < Len(file.body) => ~Loadable(file.body, k + 1)
           /\ entries' = SubSeq(file.body, 1, k)
    BY <1>2 DEF Load
  <2>2. file.body \in Seq(Entry) /\ Len(file.body) \in Nat
    BY Facts
  <2>3. \A j \in 0..Len(file.body) : Loadable(file.body, j)
    BY DEF WithinLimit
  <2>4. k = Len(file.body)
    <3>1. k < Len(file.body) => k + 1 \in 0..Len(file.body)
      BY <2>2
    <3> QED  BY <2>1, <2>2, <2>3, <3>1
  <2>5. SubSeq(file.body, 1, Len(file.body)) = file.body
    BY <2>2
  <2> QED  BY <1>2, <2>1, <2>4, <2>5 DEF Loaded
<1> QED  BY <1>1, <1>2

LEMMA RefineLoad ==
    ASSUME IInv, WithinLimit, Load
    PROVE  Abstract!Recover
<1>1. entries' = Loaded(file)
  BY LoadsAll
<1>2. Phase = "down" /\ Phase' = "idle"
  BY DEF Load, Phase
<1>3. UNCHANGED <<file, flash>>
  BY DEF Load
<1> QED  BY <1>1, <1>2, <1>3 DEF Abstract!Recover, Loaded

LEMMA RefineLoadFails == LoadFails => Abstract!RecoverNothing
<1> SUFFICES ASSUME LoadFails PROVE Abstract!RecoverNothing
  OBVIOUS
<1>1. AsMap(entries)' = Abstract!Nothing
  BY AsMapEmpty DEF LoadFails
<1>2. Phase = "down" /\ Phase' = "idle" /\ UNCHANGED <<file, flash>>
  BY DEF LoadFails, Phase
<1> QED  BY <1>1, <1>2 DEF Abstract!RecoverNothing, Loaded

\* A call that returns false.
LEMMA RefineReject ==
    ASSUME Reject, pc \in {"idle", "save", "copy"}
    PROVE  Abstract!Refuse
<1>1. Phase \in {"idle", "busy"} /\ Phase' = "refused"
  BY DEF Reject, Phase
<1>2. UNCHANGED <<entries, file, flash>>
  BY DEF Reject
<1> QED  BY <1>1, <1>2 DEF Abstract!Refuse, AsMap, Loaded

\* A mutation that changes the map at one name.
LEMMA RefineMutate ==
    ASSUME NEW es, pc = "idle", Mutate(es), NEW n \in Names,
           NEW v \in Values \cup {NoValue},
           AsMap(es) = [AsMap(entries) EXCEPT ![n] = v]
    PROVE  Abstract!Assign
<1>1. Phase = "idle" /\ Phase' = "busy"
  BY DEF Mutate, Phase
<1>2. UNCHANGED <<file, flash>> /\ entries' = es
  BY DEF Mutate
<1>3. AsMap(entries)' = [AsMap(entries) EXCEPT ![n] = v]
  BY <1>2
<1> QED  BY <1>1, <1>2, <1>3 DEF Abstract!Assign, Loaded

LEMMA RefineSet ==
    ASSUME NEW n \in Names, NEW v \in Values, IInv, Set(n, v)
    PROVE  Abstract!Assign \/ Abstract!Refuse
<1>1. pc = "idle"
  BY DEF Set
<1>2. CASE Reject
  BY <1>1, <1>2, RefineReject
<1>3. CASE ~Has(entries, n) /\ Mutate(Append(entries, [name |-> n, data |-> v]))
  <2> DEFINE e == [name |-> n, data |-> v]
  <2>1. e \in Entry /\ e.name = n /\ e.data = v
    BY DEF Entry
  <2>2. AsMap(Append(entries, e)) = [AsMap(entries) EXCEPT ![n] = v]
    <3> HIDE DEF e
    <3> QED  BY <1>3, <2>1, Facts, AsMapAppend
  <2> QED  BY <1>1, <1>3, <2>2, RefineMutate
<1>4. ASSUME NEW i \in 1..Len(entries), First(entries, n, i),
             Mutate([entries EXCEPT ![i].data = v])
      PROVE  Abstract!Assign
  <2>1. entries[i].name = n
    BY <1>4 DEF First
  <2>2. AsMap([entries EXCEPT ![i].data = v]) = [AsMap(entries) EXCEPT ![n] = v]
    BY <2>1, Facts, AsMapReplace
  <2> QED  BY <1>1, <1>4, <2>2, RefineMutate
<1> QED  BY <1>2, <1>3, <1>4 DEF Set

LEMMA RefineDel ==
    ASSUME NEW n \in Names, IInv, Del(n)
    PROVE  Abstract!Assign \/ Abstract!Refuse
<1>1. pc = "idle"
  BY DEF Del
<1>2. CASE Reject
  BY <1>1, <1>2, RefineReject
<1>3. ASSUME NEW i \in 1..Len(entries), First(entries, n, i),
             Mutate(Without(entries, i))
      PROVE  Abstract!Assign
  <2>1. entries[i].name = n
    BY <1>3 DEF First
  <2>2. AsMap(Without(entries, i)) = [AsMap(entries) EXCEPT ![n] = NoValue]
    BY <2>1, Facts, AsMapWithout
  <2> QED  BY <1>1, <1>3, <2>2, RefineMutate
<1> QED  BY <1>2, <1>3 DEF Del

LEMMA RefineDeleteAll == DeleteAll => Abstract!Clear
<1> SUFFICES ASSUME DeleteAll PROVE Abstract!Clear
  OBVIOUS
<1>1. AsMap(entries)' = Abstract!Nothing
  BY AsMapEmpty DEF DeleteAll, Mutate
<1>2. Phase = "idle" /\ Phase' = "busy" /\ UNCHANGED <<file, flash>>
  BY DEF DeleteAll, Mutate, Phase
<1> QED  BY <1>1, <1>2 DEF Abstract!Clear, Loaded

\* The steps of save() that change the file: what it holds is a part of the map.
LEMMA RefineCopy ==
    ASSUME IInv, IInv', CopyOpen \/ CopyWrite
    PROVE  Abstract!Persist
<1>1. pc' = "copy" /\ Phase = "busy" /\ Phase' = "busy"
  BY DEF CopyOpen, CopyWrite, Phase
<1>2. UNCHANGED <<entries, flash>>
  BY DEF CopyOpen, CopyWrite
<1>3. /\ entries \in Seq(Entry) /\ Unique(entries)
      /\ Loaded(file)' \in Seq(Entry) /\ Unique(Loaded(file)')
  <2>1. entries \in Seq(Entry) /\ Unique(entries)
    BY Facts
  <2>2. <<>> \in Seq(Entry) /\ Unique(<<>>)
    BY DEF Unique
  <2>3. file'.body \in Seq(Entry) /\ Unique(file'.body)
    BY DEF IInv, TypeOK, UniqueNames
  <2> QED  BY <2>1, <2>2, <2>3 DEF Loaded
<1>4. \A i \in 1..Len(Loaded(file)') :
         \E j \in 1..Len(entries) : Loaded(file)'[i] = entries[j]
  <2>1. CASE file'.header = "count"
    <3>1. /\ Len(file'.body) <= Len(entries)
          /\ \A i \in 1..Len(file'.body) : file'.body[i] = entries[i]
      BY <1>1, <1>2 DEF IInv, CopyPrefix
    <3>2. Len(file'.body) \in Nat /\ Len(entries) \in Nat
      BY <1>3, <2>1 DEF Loaded
    <3>3. \A i \in 1..Len(file'.body) : i \in 1..Len(entries)
      BY <3>1, <3>2
    <3> QED  BY <2>1, <3>1, <3>3 DEF Loaded
  <2>2. CASE file'.header # "count"
    BY <2>2 DEF Loaded
  <2> QED  BY <2>1, <2>2
<1>5. /\ AsMap(Loaded(file))' \in Abstract!Map
      /\ Abstract!SubMap(AsMap(Loaded(file))', AsMap(entries))
  BY <1>3, <1>4, AsMapType, AsMapPart
<1> QED  BY <1>1, <1>2, <1>5 DEF Abstract!Persist, AsMap, Loaded

\* copy_file returns when the whole vector is in the file.
LEMMA CopiedAll ==
    ASSUME IInv, pc = "copy", Copied
    PROVE  Loaded(file) = entries
<1>1. /\ file.header = "count" /\ Len(file.body) = Len(entries)
      /\ \A i \in 1..Len(file.body) : file.body[i] = entries[i]
  BY DEF IInv, CopyPrefix, Copied
<1>2. file.body = entries
  BY <1>1, Facts, SeqEqual
<1> QED  BY <1>1, <1>2 DEF Loaded

LEMMA RefineCopyDone ==
    ASSUME IInv, CopyDone
    PROVE  Abstract!Ack
<1>1. pc = "copy" /\ Copied /\ UNCHANGED <<entries, file, flash>>
      /\ Phase = "busy" /\ Phase' = "acked"
  BY DEF CopyDone, Phase
<1>2. Loaded(file) = entries
  BY <1>1, CopiedAll
<1>3. AsMap(Loaded(file)) = AsMap(entries)
  BY <1>2
<1>4. UNCHANGED <<AsMap(entries), AsMap(Loaded(file)), AsMap(Loaded(flash))>>
  BY <1>1 DEF AsMap, Loaded
<1> QED  BY <1>1, <1>3, <1>4 DEF Abstract!Ack

LEMMA RefineRest ==
    ASSUME IInv, Return \/ Writeback \/ Crash \/ PowerLoss
    PROVE  Abstract!Next
<1>1. CASE Return
  <2>1. Phase \in {"acked", "refused"} /\ Phase' = "idle"
    BY <1>1 DEF Return, Phase, IInv, TypeOK
  <2> QED  BY <1>1, <2>1
           DEF Return, Abstract!Next, Abstract!Return, AsMap, Loaded
<1>2. CASE Writeback
  <2>1. Phase' = Phase
    BY <1>2 DEF Writeback, Phase
  <2> QED  BY <1>2, <2>1
           DEF Writeback, Abstract!Next, Abstract!Writeback, AsMap, Loaded
<1>3. CASE Crash
  <2>1. Phase # "down" /\ Phase' = "down" /\ UNCHANGED <<file, flash>>
    BY <1>3 DEF Crash, Phase, IInv, TypeOK
  <2>2. AsMap(entries)' = Abstract!Nothing
    BY <1>3, AsMapEmpty DEF Crash
  <2> QED  BY <2>1, <2>2 DEF Abstract!Next, Abstract!Crash, Loaded
<1>4. CASE PowerLoss
  <2>1. Phase' = "down" /\ file' = flash /\ flash' = flash
    BY <1>4 DEF PowerLoss, Phase
  <2>2. AsMap(entries)' = Abstract!Nothing
    BY <1>4, AsMapEmpty DEF PowerLoss
  <2> QED  BY <2>1, <2>2 DEF Abstract!Next, Abstract!PowerLoss, Loaded
<1> QED  BY <1>1, <1>2, <1>3, <1>4

LEMMA RefineNext ==
    ASSUME IInv, IInv', WithinLimit, [Next]_vars
    PROVE  [Abstract!Next]_(Abstract!vars)
<1>1. CASE Load
  BY <1>1, RefineLoad DEF Abstract!Next
<1>2. CASE LoadFails
  BY <1>2, RefineLoadFails DEF Abstract!Next
<1>3. ASSUME NEW n \in Names, Del(n) PROVE Abstract!Next
  BY <1>3, RefineDel DEF Abstract!Next
<1>4. ASSUME NEW n \in Names, NEW v \in Values, Set(n, v) PROVE Abstract!Next
  BY <1>4, RefineSet DEF Abstract!Next
<1>5. CASE DeleteAll
  BY <1>5, RefineDeleteAll DEF Abstract!Next
<1>6. CASE Save
  <2>1. CASE SaveRefused
    <3>1. Reject /\ pc = "save"
      BY <2>1 DEF SaveRefused
    <3> QED  BY <3>1, RefineReject DEF Abstract!Next
  <2>2. CASE CopyFails
    <3>1. Reject /\ pc = "copy"
      BY <2>2 DEF CopyFails
    <3> QED  BY <3>1, RefineReject DEF Abstract!Next
  <2>3. CASE CopyOpen \/ CopyWrite
    BY <2>3, RefineCopy DEF Abstract!Next
  <2>4. CASE CopyDone
    BY <2>4, RefineCopyDone DEF Abstract!Next
  <2> QED  BY <1>6, <2>1, <2>2, <2>3, <2>4 DEF Save
<1>7. CASE Return \/ Writeback \/ Crash \/ PowerLoss
  BY <1>7, RefineRest
<1>8. CASE UNCHANGED vars
  BY <1>8 DEF vars, Abstract!vars, AsMap, Loaded, Phase
<1> QED  BY <1>1, <1>2, <1>3, <1>4, <1>5, <1>6, <1>7, <1>8 DEF Next

-----------------------------------------------------------------------------
\* EvStorage implements the abstract store: an operation changes the map at one
\* name (or clears it), save() leaves a part of it on disk at worst, success is
\* answered only when the file holds all of it, and load() gets all the file
\* holds.
THEOREM Implements == Spec => ImplementsEvStore
<1>1. IInv /\ IInv' /\ WithinLimit /\ [Next]_vars => [Abstract!Next]_(Abstract!vars)
  BY RefineNext
<1> QED  BY <1>1, RefineInit, Invariance, LimitKept, PTL
         DEF Spec, ImplementsEvStore, Abstract!Spec
-----------------------------------------------------------------------------
(* SmifEv                                                                   *)

SmifTypeOK ==
    /\ known \in [Names -> Values \cup {NoValue}]
    /\ unsure \subseteq Names
    /\ synced \in BOOLEAN
    /\ call.names \subseteq Names /\ call.value \in Values \cup {NoValue}

\* The host's knowledge is right about these names.
Right(map, names) == \A n \in names \ unsure : map[n] = known[n]

\* Between a change of the vector and the end of its save they differ.
SavingUnsynced == pc \in {"save", "copy"} => ~synced

FileIsVector ==
    (pc = "done" /\ ok) \/ (synced /\ pc \in {"idle", "done"}) =>
        Loaded(file) = entries

\* A request whose storage call changed nothing leaves all names right.
KnownRight ==
    pc = "idle" \/ (pc = "done" /\ synced) => Right(AsMap(entries), Names)

OthersRight ==
    pc \in {"save", "copy", "done"} =>
        Right(AsMap(entries), Names \ call.names)

\* The names of a request that is or will be answered with success.
CalledRight ==
    \/ pc \in {"save", "copy"}
    \/ pc = "done" /\ (ok \/ call.refused = "success")
    => \A n \in call.names : AsMap(entries)[n] = call.value

DownRight == pc = "down" => Right(AsMap(Loaded(file)), Names)

HostInv ==
    /\ SmifTypeOK /\ SavingUnsynced /\ FileIsVector /\ KnownRight
    /\ OthersRight /\ CalledRight /\ DownRight

-----------------------------------------------------------------------------
(* What a storage call does to the map                                      *)

SameMap(names) == \A m \in names : AsMap(entries')[m] = AsMap(entries)[m]

\* del() of a name: refused if the name is absent, and the name is absent then
\* in either case.
LEMMA DelEffect ==
    ASSUME NEW n \in Names, IInv, Del(n)
    PROVE  /\ pc = "idle" /\ UNCHANGED <<file, flash>>
           /\ AsMap(entries')[n] = NoValue /\ SameMap(Names \ {n})
           /\ \/ pc' = "done" /\ ok' = FALSE /\ entries' = entries
              \/ pc' = "save"
<1>1. pc = "idle" /\ entries \in Seq(Entry) /\ Unique(entries)
  BY Facts DEF Del
<1>2. CASE ~Has(entries, n) /\ Reject
  <2>1. AsMap(entries)[n] = NoValue
    BY <1>2, AsMapNone
  <2> QED  BY <1>1, <1>2, <2>1 DEF Reject, SameMap
<1>3. ASSUME NEW i \in 1..Len(entries), First(entries, n, i),
             Mutate(Without(entries, i))
      PROVE  /\ UNCHANGED <<file, flash>> /\ pc' = "save"
             /\ AsMap(entries')[n] = NoValue /\ SameMap(Names \ {n})
  <2>1. entries[i].name = n /\ entries' = Without(entries, i)
    BY <1>3 DEF First, Mutate
  <2>2. AsMap(entries') = [AsMap(entries) EXCEPT ![n] = NoValue]
    BY <1>1, <2>1, AsMapWithout
  <2>3. AsMap(entries') =
           [m \in Names |-> IF m = n THEN NoValue ELSE AsMap(entries)[m]]
    BY <2>2, MapExcept
  <2> QED  BY <1>3, <2>3 DEF Mutate, SameMap
<1> QED  BY <1>1, <1>2, <1>3 DEF Del

LEMMA SetEffect ==
    ASSUME NEW n \in Names, NEW v \in Values, IInv, Set(n, v)
    PROVE  /\ pc = "idle" /\ UNCHANGED <<file, flash>>
           /\ SameMap(Names \ {n})
           /\ \/ pc' = "done" /\ ok' = FALSE /\ entries' = entries
              \/ pc' = "save" /\ AsMap(entries')[n] = v
<1>1. pc = "idle" /\ entries \in Seq(Entry) /\ Unique(entries)
  BY Facts DEF Set
<1>2. CASE Reject
  BY <1>1, <1>2 DEF Reject, SameMap
<1>3. ASSUME NEW es, Mutate(es), AsMap(es) = [AsMap(entries) EXCEPT ![n] = v]
      PROVE  /\ UNCHANGED <<file, flash>> /\ pc' = "save"
             /\ AsMap(entries')[n] = v /\ SameMap(Names \ {n})
  <2>1. AsMap(es) = [m \in Names |-> IF m = n THEN v ELSE AsMap(entries)[m]]
    BY <1>3, MapExcept
  <2>2. entries' = es
    BY <1>3 DEF Mutate
  <2> QED  BY <1>3, <2>1, <2>2 DEF Mutate, SameMap
<1>4. CASE ~Has(entries, n) /\ Mutate(Append(entries, [name |-> n, data |-> v]))
  <2> DEFINE e == [name |-> n, data |-> v]
  <2>1. e \in Entry /\ e.name = n /\ e.data = v
    BY DEF Entry
  <2>2. AsMap(Append(entries, e)) = [AsMap(entries) EXCEPT ![n] = v]
    <3> HIDE DEF e
    <3> QED  BY <1>1, <1>4, <2>1, AsMapAppend
  <2> QED  BY <1>1, <1>3, <1>4, <2>2
<1>5. ASSUME NEW i \in 1..Len(entries), First(entries, n, i),
             Mutate([entries EXCEPT ![i].data = v])
      PROVE  /\ UNCHANGED <<file, flash>> /\ pc' = "save"
             /\ AsMap(entries')[n] = v /\ SameMap(Names \ {n})
  <2>1. entries[i].name = n
    BY <1>5 DEF First
  <2>2. AsMap([entries EXCEPT ![i].data = v]) = [AsMap(entries) EXCEPT ![n] = v]
    BY <1>1, <2>1, AsMapReplace
  <2> QED  BY <1>3, <1>5, <2>2
<1> QED  BY <1>1, <1>2, <1>4, <1>5 DEF Set

LEMMA DeleteAllEffect ==
    ASSUME DeleteAll
    PROVE  /\ pc = "idle" /\ UNCHANGED <<file, flash>> /\ pc' = "save"
           /\ \A n \in Names : AsMap(entries')[n] = NoValue
<1>1. entries' = <<>>
  BY DEF DeleteAll, Mutate
<1>2. \A n \in Names : ~Has(<<>>, n)
  BY DEF Has
<1> QED  BY <1>1, <1>2, AsMapNone DEF DeleteAll, Mutate

\* What the handler of a set or delete request has done when its storage call
\* has changed the vector or refused to.
LEMMA CallEffect ==
    ASSUME NEW r \in Requests, IInv, SetDeleteCall(r)
    PROVE  /\ pc = "idle" /\ UNCHANGED <<file, flash, known, unsure>>
           /\ call'.names \subseteq Names /\ call'.value \in Values \cup {NoValue}
           /\ SameMap(Names \ call'.names)
           /\ \/ pc' = "done" /\ ok' = FALSE /\ entries' = entries
              \/ pc' = "save"
           /\ pc' = "save" \/ call'.refused = "success" =>
                 \A n \in call'.names : AsMap(entries')[n] = call'.value
           /\ synced' = (synced /\ pc' = "done")
<1>1. r.name \in Names
  BY SmifAssumption DEF SetDeleteRequest
<1>2. CASE DeleteAll /\ Calling(Names, NoValue, "nameTooLong")
  BY <1>2, DeleteAllEffect DEF Calling, SameMap
<1>3. ASSUME NEW c, Del(r.name), Calling({r.name}, NoValue, c)
      PROVE  /\ pc = "idle" /\ UNCHANGED <<file, flash, known, unsure>>
             /\ call' = [names |-> {r.name}, value |-> NoValue, refused |-> c]
             /\ AsMap(entries')[r.name] = NoValue /\ SameMap(Names \ {r.name})
             /\ \/ pc' = "done" /\ ok' = FALSE /\ entries' = entries
                \/ pc' = "save"
             /\ synced' = (synced /\ pc' = "done")
  BY <1>1, <1>3, DelEffect DEF Calling
<1>4. CASE Del(r.name) /\ Calling({r.name}, NoValue, "deviceError")
  <2>1. /\ pc = "idle" /\ UNCHANGED <<file, flash, known, unsure>>
        /\ call' = [names |-> {r.name}, value |-> NoValue,
                    refused |-> "deviceError"]
        /\ AsMap(entries')[r.name] = NoValue /\ SameMap(Names \ {r.name})
        /\ \/ pc' = "done" /\ ok' = FALSE /\ entries' = entries
           \/ pc' = "save"
        /\ synced' = (synced /\ pc' = "done")
    BY <1>3, <1>4
  <2> QED  BY <1>1, <2>1
<1>5. CASE Del(r.name) /\ Calling({r.name}, NoValue, "success")
  <2>1. /\ pc = "idle" /\ UNCHANGED <<file, flash, known, unsure>>
        /\ call' = [names |-> {r.name}, value |-> NoValue,
                    refused |-> "success"]
        /\ AsMap(entries')[r.name] = NoValue /\ SameMap(Names \ {r.name})
        /\ \/ pc' = "done" /\ ok' = FALSE /\ entries' = entries
           \/ pc' = "save"
        /\ synced' = (synced /\ pc' = "done")
    BY <1>3, <1>5
  <2> QED  BY <1>1, <2>1
<1>6. CASE /\ r.data \in Values
           /\ Set(r.name, r.data) /\ Calling({r.name}, r.data, "nameTooLong")
  BY <1>1, <1>6, SetEffect DEF Calling
<1> QED  BY <1>2, <1>4, <1>5, <1>6 DEF SetDeleteCall

-----------------------------------------------------------------------------
(* Every step of SmifEv is one of EvStorage, or leaves it alone             *)

LEMMA SmifStep == [SmifNext]_allVars => [Next]_vars
<1> SUFFICES ASSUME SmifNext PROVE [Next]_vars
  BY DEF allVars
<1>1. ASSUME NEW r \in Requests, SetDeleteCall(r) PROVE Next
  <2>1. r.name \in Names
    BY SmifAssumption DEF SetDeleteRequest
  <2> QED  BY <1>1, <2>1 DEF SetDeleteCall, Next
<1>2. ASSUME NEW a, Answer(a) PROVE UNCHANGED vars
  BY <1>2 DEF Answer
<1>3. ASSUME NEW r \in Requests, SetDeleteEv(r) PROVE [Next]_vars
  BY <1>1, <1>2, <1>3 DEF SetDeleteEv
<1>4. ASSUME NEW i, GetEvByIndex(i) PROVE UNCHANGED vars
  BY <1>2, <1>4 DEF GetEvByIndex
<1>5. ASSUME NEW n, NEW t, GetEvByName(n, t) PROVE UNCHANGED vars
  BY <1>2, <1>5 DEF GetEvByName
<1>6. ShortGet \/ EvStats => UNCHANGED vars
  BY <1>2 DEF ShortGet, EvStats
<1>7. SetDeleteReturn \/ Quiet \/ SmifLoad \/ SmifCrash \/ SmifPowerLoss
      \/ SmifLoadFails => Next
  BY DEF SetDeleteReturn, Quiet, SmifLoad, SmifCrash, SmifPowerLoss,
         SmifLoadFails, Next
<1> QED  BY <1>3, <1>4, <1>5, <1>6, <1>7 DEF SmifNext
-----------------------------------------------------------------------------
(* HostInv holds initially and after every step                             *)

LEMMA SmifInitInv == SmifInit => HostInv
<1> SUFFICES ASSUME SmifInit PROVE HostInv
  OBVIOUS
<1>1. pc = "down" /\ entries = <<>> /\ file = Absent /\ ok = FALSE
      /\ call = NoCall /\ known = [n \in Names |-> NoValue] /\ unsure = {}
      /\ synced = TRUE
  BY DEF SmifInit, Init
<1>2. \A n \in Names : AsMap(<<>>)[n] = NoValue
  BY AsMapNone DEF Has
<1>3. Loaded(file) = <<>>
  BY <1>1 DEF Loaded, Absent
<1>4. SmifTypeOK /\ DownRight
  BY <1>1, <1>2, <1>3 DEF SmifTypeOK, NoCall, DownRight, Right
<1> QED  BY <1>1, <1>4 DEF HostInv, SavingUnsynced, FileIsVector, KnownRight,
                          OthersRight, CalledRight

\* A reply changes nothing the invariant speaks of.
LEMMA SameInv ==
    ASSUME HostInv, UNCHANGED <<vars, call, known, unsure, synced>>
    PROVE  HostInv'
<1>1. UNCHANGED <<entries, file, flash, pc, ok>>
  BY DEF vars
<1>2. AsMap(entries)' = AsMap(entries) /\ Loaded(file)' = Loaded(file)
      /\ AsMap(Loaded(file))' = AsMap(Loaded(file))
  BY <1>1 DEF AsMap, Loaded
<1> QED  BY <1>1, <1>2 DEF HostInv, SmifTypeOK, SavingUnsynced, FileIsVector,
              KnownRight, OthersRight, CalledRight, DownRight, Right

LEMMA CallInv ==
    ASSUME NEW r \in Requests, IInv, HostInv, SetDeleteCall(r)
    PROVE  HostInv'
<1>1. /\ pc = "idle" /\ UNCHANGED <<file, flash, known, unsure>>
      /\ call'.names \subseteq Names /\ call'.value \in Values \cup {NoValue}
      /\ SameMap(Names \ call'.names)
      /\ \/ pc' = "done" /\ ok' = FALSE /\ entries' = entries
         \/ pc' = "save"
      /\ synced' = (synced /\ pc' = "done")
  BY CallEffect
<1>2. pc' = "save" \/ call'.refused = "success" =>
         \A n \in call'.names : AsMap(entries')[n] = call'.value
  BY CallEffect
<1>3. /\ Right(AsMap(entries), Names) /\ (synced => Loaded(file) = entries)
      /\ SmifTypeOK
  BY <1>1 DEF HostInv, KnownRight, FileIsVector
<1>4. SmifTypeOK' /\ SavingUnsynced' /\ DownRight'
  BY <1>1, <1>3 DEF SmifTypeOK, SavingUnsynced, DownRight
<1>5. FileIsVector'
  BY <1>1, <1>3 DEF FileIsVector, Loaded
<1>6. KnownRight'
  BY <1>1, <1>3 DEF KnownRight, Right
<1>7. OthersRight'
  BY <1>1, <1>3 DEF OthersRight, Right, SameMap
<1>8. CalledRight'
  BY <1>1, <1>2 DEF CalledRight
<1> QED  BY <1>4, <1>5, <1>6, <1>7, <1>8 DEF HostInv

\* The call returns: what it changed, or may have changed, the host knows.
LEMMA ReturnInv ==
    ASSUME IInv, HostInv, SetDeleteReturn
    PROVE  HostInv'
<1>1. /\ pc = "done" /\ pc' = "idle" /\ UNCHANGED <<entries, file, flash, ok>>
      /\ synced' = (synced \/ ok) /\ call' = NoCall
  BY DEF SetDeleteReturn, Return
<1>2. /\ Right(AsMap(entries), Names \ call.names)
      /\ (ok \/ call.refused = "success" =>
            \A n \in call.names : AsMap(entries)[n] = call.value)
      /\ SmifTypeOK
  BY <1>1 DEF HostInv, OthersRight, CalledRight
<1>3. ok \in BOOLEAN
  BY DEF IInv, TypeOK
<1>4. ASSUME ok \/ call.refused = "success"
      PROVE  SmifTypeOK' /\ Right(AsMap(entries), Names)'
  <2>1. /\ known' = [n \in Names |->
                       IF n \in call.names THEN call.value ELSE known[n]]
        /\ unsure' = unsure \ call.names
    BY <1>4 DEF SetDeleteReturn
  <2>2. SmifTypeOK'
    BY <1>1, <1>2, <1>3, <2>1 DEF SmifTypeOK, NoCall
  <2>3. Right(AsMap(entries), Names)'
    BY <1>1, <1>2, <1>4, <2>1 DEF Right
  <2> QED  BY <2>2, <2>3
<1>5. ASSUME ~(ok \/ call.refused = "success")
      PROVE  SmifTypeOK' /\ Right(AsMap(entries), Names)'
  <2>1. known' = known /\ unsure' = unsure \cup call.names
    BY <1>5 DEF SetDeleteReturn
  <2>2. SmifTypeOK'
    BY <1>1, <1>2, <1>3, <2>1 DEF SmifTypeOK, NoCall
  <2>3. Right(AsMap(entries), Names)'
    BY <1>1, <1>2, <2>1 DEF Right
  <2> QED  BY <2>2, <2>3
<1>6. SmifTypeOK' /\ Right(AsMap(entries), Names)'
  BY <1>4, <1>5
<1>7. FileIsVector'
  BY <1>1 DEF HostInv, FileIsVector, Loaded
<1> QED  BY <1>1, <1>6, <1>7 DEF HostInv, SavingUnsynced, KnownRight,
              OthersRight, CalledRight, DownRight

\* save() and write-back go on while the handler waits.
LEMMA QuietInv ==
    ASSUME IInv, HostInv, Quiet
    PROVE  HostInv'
<1>1. UNCHANGED <<call, reply, known, unsure, synced>> /\ entries' = entries
  BY DEF Quiet, smifVars, Save, SaveRefused, CopyOpen, CopyWrite, CopyFails,
         CopyDone, Reject, Writeback
<1>2. CASE Writeback
  BY <1>1, <1>2, SameInv DEF Writeback, HostInv, SmifTypeOK, SavingUnsynced,
     FileIsVector, KnownRight, OthersRight, CalledRight, DownRight, Right, Loaded
<1>3. CASE Save
  <2>1. /\ pc \in {"save", "copy"} /\ pc' \in {"copy", "done"} /\ ~synced
        /\ pc' = "done" => \/ ok' = FALSE
                           \/ ok' = TRUE /\ CopyDone
    BY <1>3 DEF HostInv, SavingUnsynced, Save, SaveRefused, CopyOpen, CopyWrite,
                CopyFails, CopyDone, Reject
  <2>2. CopyDone => Loaded(file)' = entries'
    BY <1>1, CopiedAll DEF CopyDone, Loaded
  <2>3. SmifTypeOK' /\ SavingUnsynced' /\ DownRight' /\ KnownRight'
    BY <1>1, <2>1 DEF HostInv, SmifTypeOK, SavingUnsynced, DownRight, KnownRight
  <2>4. FileIsVector'
    BY <1>1, <2>1, <2>2 DEF FileIsVector
  <2>5. OthersRight' /\ CalledRight'
    BY <1>1, <2>1 DEF HostInv, OthersRight, CalledRight, Right
  <2> QED  BY <2>3, <2>4, <2>5 DEF HostInv
<1> QED  BY <1>2, <1>3 DEF Quiet

\* The daemon ends and file and vector were the same, or nothing is known.
LEMMA LostInv ==
    ASSUME IInv, HostInv, NEW kept \in BOOLEAN, Lost(kept), pc' = "down",
           kept => synced /\ file' = file
    PROVE  HostInv'
<1>1. /\ unsure' = IF kept THEN unsure ELSE Names
      /\ synced' = (synced /\ kept) /\ call' = NoCall /\ known' = known
  BY DEF Lost
<1>2. SmifTypeOK'
  BY <1>1 DEF HostInv, SmifTypeOK, NoCall
<1>3. DownRight'
  <2>1. CASE kept
    <3>1. Right(AsMap(Loaded(file)), Names)
      <4>1. CASE pc = "down"
        BY <4>1 DEF HostInv, DownRight
      <4>2. CASE pc # "down"
        <5>1. pc \in {"idle", "done"}
          BY <2>1, <4>2 DEF IInv, TypeOK, HostInv, SavingUnsynced
        <5> QED  BY <2>1, <5>1 DEF HostInv, FileIsVector, KnownRight
      <4> QED  BY <4>1, <4>2
    <3> QED  BY <1>1, <2>1, <3>1 DEF DownRight, Right, Loaded
  <2>2. CASE ~kept
    BY <1>1, <2>2 DEF DownRight, Right
  <2> QED  BY <2>1, <2>2
<1> QED  BY <1>2, <1>3 DEF HostInv, SavingUnsynced, FileIsVector, KnownRight,
              OthersRight, CalledRight

LEMMA SmifLoadInv ==
    ASSUME IInv, WithinLimit, HostInv, SmifLoad
    PROVE  HostInv'
<1>1. /\ entries' = Loaded(file) /\ UNCHANGED <<file, call, known, unsure>>
      /\ pc = "down" /\ pc' = "idle" /\ synced' = TRUE
  BY LoadsAll DEF SmifLoad, Load
<1>2. Loaded(file)' = Loaded(file)
  BY <1>1 DEF Loaded
<1>3. Right(AsMap(Loaded(file)), Names)
  BY <1>1 DEF HostInv, DownRight
<1>4. KnownRight' /\ FileIsVector'
  BY <1>1, <1>2, <1>3 DEF KnownRight, FileIsVector, Right
<1> QED  BY <1>1, <1>4 DEF HostInv, SmifTypeOK, SavingUnsynced, OthersRight,
              CalledRight, DownRight

LEMMA SmifLoadFailsInv ==
    ASSUME HostInv, SmifLoadFails
    PROVE  HostInv'
<1>1. /\ pc' = "idle" /\ unsure' = Names /\ synced' = FALSE /\ call' = NoCall
      /\ known' = known
  BY DEF SmifLoadFails, LoadFails, Lost, HostInv, SmifTypeOK
<1> QED  BY <1>1 DEF HostInv, SmifTypeOK, SavingUnsynced, FileIsVector,
              KnownRight, OthersRight, CalledRight, DownRight, Right, NoCall

LEMMA SmifNextInv == IInv /\ WithinLimit /\ HostInv /\ [SmifNext]_allVars => HostInv'
<1> SUFFICES ASSUME IInv, WithinLimit, HostInv, [SmifNext]_allVars PROVE HostInv'
  OBVIOUS
<1>1. ASSUME NEW a, Answer(a) PROVE HostInv'
  BY <1>1, SameInv DEF Answer
<1>2. ASSUME NEW r \in Requests, SetDeleteEv(r) PROVE HostInv'
  BY <1>1, <1>2, CallInv DEF SetDeleteEv
<1>3. ASSUME NEW i, GetEvByIndex(i) PROVE HostInv'
  BY <1>1, <1>3 DEF GetEvByIndex
<1>4. ASSUME NEW n, NEW t, GetEvByName(n, t) PROVE HostInv'
  BY <1>1, <1>4 DEF GetEvByName
<1>5. CASE ShortGet \/ EvStats
  BY <1>1, <1>5 DEF ShortGet, EvStats
<1>6. CASE SetDeleteReturn
  BY <1>6, ReturnInv
<1>7. CASE Quiet
  BY <1>7, QuietInv
<1>8. CASE SmifLoad
  BY <1>8, SmifLoadInv
<1>9. CASE SmifCrash
  <2>1. synced \in BOOLEAN /\ Lost(synced) /\ pc' = "down" /\ file' = file
    BY <1>9 DEF SmifCrash, Crash, HostInv, SmifTypeOK
  <2> QED  BY <2>1, LostInv
<1>10. CASE SmifPowerLoss
  <2> DEFINE kept == synced /\ flash = file
  <2>1. kept \in BOOLEAN /\ Lost(kept) /\ pc' = "down"
    BY <1>10 DEF SmifPowerLoss, PowerLoss
  <2>2. kept => synced /\ file' = file
    BY <1>10 DEF SmifPowerLoss, PowerLoss
  <2> HIDE DEF kept
  <2> QED  BY <2>1, <2>2, LostInv
<1>11. CASE SmifLoadFails
  BY <1>11, SmifLoadFailsInv
<1>12. CASE UNCHANGED allVars
  BY <1>12, SameInv DEF allVars, smifVars
<1> QED  BY <1>2, <1>3, <1>4, <1>5, <1>6, <1>7, <1>8, <1>9, <1>10, <1>11, <1>12
         DEF SmifNext

-----------------------------------------------------------------------------
(* Theorems                                                                 *)

\* The commands use the store as EvStorage says it is used: what is proved of
\* EvStorage, the abstract store it implements included, holds under them.
THEOREM CommandsUseStore == SmifSpec => Spec /\ ImplementsEvStore
<1>1. SmifInit => Init
  BY DEF SmifInit
<1> QED  BY <1>1, SmifStep, Implements, PTL DEF SmifSpec, Spec

\* What the host knows of the store holds in every state of the commands
\* (handleSetDeleteEv, handleGetEvByName, handleEvIndex and the restarts).
THEOREM SmifInvariance == SmifSpec => []HostInv
<1>1. IInv /\ WithinLimit /\ HostInv /\ [SmifNext]_allVars => HostInv'
  BY SmifNextInv
<1> QED  BY <1>1, SmifInitInv, CommandsUseStore, Invariance, LimitKept, PTL
         DEF SmifSpec

\* Between requests the variables are what the replies said, for every name of
\* which no refused or interrupted request left a doubt: after any sets and
\* deletes, failing saves, crashes and power losses (handleSetDeleteEv).
THEOREM WritesAreRead == SmifSpec => []ReadYourWrites
<1>1. HostInv => ReadYourWrites
  BY DEF HostInv, KnownRight, Right, ReadYourWrites
<1> QED  BY <1>1, SmifInvariance, PTL

\* What a restart would load is what the replies said, for the same names, as
\* long as no save has failed since the last one that did not (handleSetDeleteEv,
\* EvStorage::load).
THEOREM WritesSurvive == SmifSpec => []SurvivesRestart
<1>1. HostInv => SurvivesRestart
  <2> SUFFICES ASSUME HostInv, pc \in {"idle", "down"}, synced
               PROVE  Right(AsMap(Loaded(file)), Names)
    BY DEF SurvivesRestart, Right
  <2> QED  BY DEF HostInv, KnownRight, FileIsVector, DownRight
<1> QED  BY <1>1, SmifInvariance, PTL

\* A success that stands for a storage call's own is sent only with the file on
\* disk agreeing with memory about the variables of the request.
THEOREM SuccessDurable == SmifSpec => SuccessIsDurable
<1>1. HostInv /\ [SmifNext]_allVars =>
        [SetDeleteReturn /\ reply' = Error("success") /\ call.refused # "success"
         => \A n \in call.names :
               AsMap(Loaded(file))[n] = AsMap(entries)[n]]_allVars
  <2> SUFFICES ASSUME HostInv, SetDeleteReturn, reply' = Error("success"),
                      call.refused # "success"
               PROVE  AsMap(Loaded(file)) = AsMap(entries)
    OBVIOUS
  <2>1. pc = "done" /\ reply' = Error(IF ok THEN "success" ELSE call.refused)
    BY DEF SetDeleteReturn, Return
  <2>2. reply'.error = "success" /\ reply'.error = IF ok THEN "success" ELSE call.refused
    BY <2>1 DEF Error
  <2>3. ok
    BY <2>2
  <2> QED  BY <2>1, <2>3 DEF HostInv, FileIsVector
<1> QED  BY <1>1, SmifInvariance, PTL DEF SmifSpec, SuccessIsDurable
=============================================================================
