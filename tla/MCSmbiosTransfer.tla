-------------------------- MODULE MCSmbiosTransfer --------------------------
(***************************************************************************)
(* Two blobs: the first one announces more records than it carries, the     *)
(* second more than MaxRecords, and its second record is cut off.           *)
(***************************************************************************)
EXTENDS SmbiosTransfer

MCBlobs == <<[count |-> 3, records |-> <<1, 2>>],
             [count |-> 1001, records |-> <<3, 4, 1>>]>>

\* A large record between two small ones.
MCRecSize == <<1, 3, 1, 0>>
=============================================================================
