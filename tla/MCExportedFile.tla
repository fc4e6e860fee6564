--------------------------- MODULE MCExportedFile ---------------------------
(* Small instances of the contract whose storage is exported. *)
EXTENDS ExportedFile, TLC

CONSTANTS a1, a2, a3, a4, zero, m1, none

\* Slots that begin with a zero digit: the fields of the eviction of a1, and what
\* the nomination of a3 keeps about its voters.
MCZeroLed ==
    {Field(evictionListSlot, a1, f) : f \in 1 .. 6}
      \cup {Voter(nomineeListSlot, a3, 5, k) : k \in 0 .. 2}

\* What the contract stores: no step reads the receipt of the last transaction.
Stored == <<storage, accepts>>
=============================================================================
