---------------------------- MODULE CatalogTransfer ----------------------------
(***************************************************************************)
(* What the catalogs promise while book files move between Incoming and    *)
(* the Library (docs/decisions.md, ADR-049): a file move and two catalog   *)
(* writes cannot form one transaction, so a record follows its file.  The  *)
(* file moves first, while the catalog it leaves lists it; the other       *)
(* catalog takes the record; only then does the first one drop it.  At     *)
(* every moment each file has a record in one of the two, and an           *)
(* overwritten copy keeps its record until its file is gone.               *)
(***************************************************************************)

CONSTANT Books

VARIABLES
    file,         \* [Books -> {"source", "destination", "gone"}]
    copies,       \* the other copies, each at a book's destination
    incoming,     \* the books that Incoming lists
    library       \* the books and the copies that the Library lists

tvars == <<file, copies, incoming, library>>

OnlyIncoming(b) == b \in incoming /\ b \notin library.books
OnlyLibrary(b) == b \in library.books /\ b \notin incoming

TransferInit ==
    /\ \A b \in Books : \/ file[b] = "source" /\ OnlyIncoming(b)
                        \/ file[b] = "destination" /\ OnlyLibrary(b)
    /\ copies = library.copies

\* A file moves, or goes away for good.
Goes(b, place) == file' = [file EXCEPT ![b] = place] /\ UNCHANGED <<copies, incoming, library>>
Adopt(b) == file[b] = "source" /\ OnlyIncoming(b) /\ b \notin copies /\ Goes(b, "destination")
Return(b) == file[b] = "destination" /\ OnlyLibrary(b) /\ Goes(b, "source")
Discard(b) == file[b] = "source" /\ OnlyIncoming(b) /\ Goes(b, "gone")

\* The copy that a book is to overwrite goes away.
Overwrite(b) ==
    /\ b \in copies /\ OnlyIncoming(b)
    /\ copies' = copies \ {b}
    /\ UNCHANGED <<file, incoming, library>>

\* A catalog is written.  It takes the records of files that have come and drops
\* those of files that have gone and are listed elsewhere.
WriteLibrary ==
    /\ \A b \in library'.books \ library.books : file[b] = "destination" /\ b \in incoming
    /\ \A b \in library.books \ library'.books : file[b] = "source" /\ b \in incoming
    /\ copies \subseteq library'.copies /\ library'.copies \subseteq library.copies
    /\ UNCHANGED <<file, copies, incoming>>

WriteIncoming ==
    /\ \A b \in incoming' \ incoming : file[b] = "source" /\ b \in library.books
    /\ \A b \in incoming \ incoming' : \/ file[b] = "destination" /\ b \in library.books
                                       \/ file[b] = "gone"
    /\ UNCHANGED <<file, copies, library>>

TransferNext ==
    \/ \E b \in Books : Adopt(b) \/ Return(b) \/ Discard(b) \/ Overwrite(b)
    \/ WriteLibrary
    \/ WriteIncoming

TransferSpec == TransferInit /\ [][TransferNext]_tvars
================================================================================
