---------------------------- MODULE PageStore ----------------------------
(***************************************************************************)
(* What a page file promises to the index that is stored in it.           *)
(*                                                                         *)
(* pages is what a caller sees, disk is what the file has been given.      *)
(* There is no cache, no eviction order and no dirty bit: the file may be  *)
(* brought up to date one page at a time and at any moment, and it is what *)
(* remains when the object is destroyed without a flush.  Only the page    *)
(* given last may be loose: the file can still lose it, when it fails or   *)
(* when the object is destroyed.                                           *)
(***************************************************************************)
EXTENDS Naturals

CONSTANTS
    PageId,   \* page numbers
    Data,     \* contents a caller can write
    Zero,     \* contents of a page nobody has written
    Torn      \* contents of a page whose write was cut short

VARIABLES
    pages,    \* what read_page answers for each page
    disk,     \* what the file has been given for each page
    loose,    \* the page the file may still lose: at most one
    failed,   \* the file has refused something since it was opened
    ret       \* answer of the last call that returned

vars == <<pages, disk, loose, failed, ret>>

Content == Data \cup {Zero, Torn}

OkReturn    == [kind |-> "ok"]
ErrorReturn == [kind |-> "error"]
SyncReturn  == [kind |-> "synced"]
PageReturn(p, d) == [kind |-> "page", page |-> p, data |-> d]
NoReturn    == [kind |-> "none"]

Init ==
    /\ pages = [p \in PageId |-> Zero]
    /\ disk = pages
    /\ loose = {}
    /\ failed = FALSE
    /\ ret = NoReturn

\* The file is given d for page p: what it was given before is settled.
Give(p, d) ==
    /\ disk' = [disk EXCEPT ![p] = d]
    /\ loose' \in {{}, {p}}

\* A call that returned normally after storing d in page p.
Write(p, d) ==
    /\ pages' = [pages EXCEPT ![p] = d]
    /\ Give(p, d) \/ UNCHANGED <<disk, loose>>
    /\ ret' = OkReturn
    /\ UNCHANGED failed

\* A call that answered with the contents of page p.
Read(p) ==
    /\ ret' = PageReturn(p, pages[p])
    /\ loose' \in {{}, loose}
    /\ UNCHANGED <<pages, disk, failed>>

\* One page of the file catches up with what callers see.
WriteBack(p) ==
    /\ Give(p, pages[p])
    /\ UNCHANGED <<pages, failed, ret>>

\* The loose page is settled, by a call that goes on.
Settle ==
    /\ loose' = {}
    /\ UNCHANGED <<pages, disk, failed, ret>>

\* A call that threw.  At most one page of the file is damaged; callers see
\* the damage unless the store still remembers the page.
Fail(p) ==
    /\ ret' = ErrorReturn
    /\ disk' \in {disk, [disk EXCEPT ![p] = Torn]}
    /\ pages' \in {pages, [pages EXCEPT ![p] = disk'[p]]}
    /\ pages' # pages => disk' # disk
    /\ loose' \in {{}, loose}
    /\ failed' \in {failed, TRUE}

\* A flush that returned normally: the file has been given everything, and
\* unless it has failed it has lost nothing of it.
Sync ==
    /\ disk = pages
    /\ ret' = SyncReturn
    /\ \/ loose' = {} /\ UNCHANGED failed
       \/ UNCHANGED loose /\ failed' = TRUE
    /\ UNCHANGED <<pages, disk>>

\* A call with no effect on the contents returned normally.
Return ==
    /\ ret' = OkReturn
    /\ UNCHANGED <<pages, disk, loose, failed>>

\* The file loses the page it may lose, while it is being closed.
Drop(p) ==
    /\ p \in loose
    /\ \E d \in Content : disk' = [disk EXCEPT ![p] = d]
    /\ pages' \in {pages, [pages EXCEPT ![p] = disk'[p]]}
    /\ loose' = {}
    /\ failed' = TRUE
    /\ UNCHANGED ret

\* The file has been closed, and may be opened again or created anew: it has
\* everything callers saw, unless it has failed.
Reopen ==
    /\ failed \/ pages = disk
    /\ loose = {}
    /\ disk' \in {disk, [p \in PageId |-> Zero]}
    /\ pages' = disk'
    /\ failed' \in BOOLEAN
    /\ ret' \in {OkReturn, ErrorReturn}
    /\ UNCHANGED loose

\* The object is destroyed: only the file survives, and the loose page may
\* not.
Lose ==
    /\ \E d \in Content :
          disk' \in {disk, [p \in PageId |-> IF p \in loose THEN d ELSE disk[p]]}
    /\ pages' = disk'
    /\ loose' = {}
    /\ failed' = FALSE
    /\ ret' = NoReturn

Next ==
    \/ \E p \in PageId :
          \/ \E d \in Data \cup {Zero} : Write(p, d)
          \/ Read(p)
          \/ WriteBack(p)
          \/ Fail(p)
          \/ Drop(p)
    \/ Settle
    \/ Sync
    \/ Return
    \/ Reopen
    \/ Lose

Spec == Init /\ [][Next]_vars
==========================================================================
