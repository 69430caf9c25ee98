--------------------------- MODULE SnapshotVector ---------------------------
(***************************************************************************)
(* What a cowvector promises its readers: whoever asks for a view gets the *)
(* elements published last and sees exactly those until it lets go,        *)
(* whatever the writer does in the meantime.                               *)
(***************************************************************************)
CONSTANTS Reader, None

VARIABLES
  committed,  \* the bulk load is over, readers may come
  published,  \* the elements a reader that comes now gets
  working,    \* the elements the writer has prepared
  snap        \* snap[r]: the elements reader r sees, None outside a query

vars == <<committed, published, working, snap>>

Init ==
  /\ committed = FALSE
  /\ working = published
  /\ snap = [r \in Reader |-> None]

\* Before the commit there is only one view.
BulkLoad ==
  /\ ~committed
  /\ working' = published'
  /\ UNCHANGED snap

\* The writer changes what will be published next, and nothing else.
Write ==
  /\ committed
  /\ UNCHANGED <<committed, published, snap>>

Publish ==
  /\ committed
  /\ published' = working
  /\ UNCHANGED <<committed, working, snap>>

\* The vector is destroyed once its readers have left.
Close ==
  /\ committed
  /\ \A r \in Reader : snap[r] = None
  /\ committed' = FALSE
  /\ working' = published'
  /\ UNCHANGED snap

Acquire(r) ==
  /\ committed
  /\ snap[r] = None
  /\ snap' = [snap EXCEPT ![r] = published]
  /\ UNCHANGED <<committed, published, working>>

Release(r) ==
  /\ snap[r] # None
  /\ snap' = [snap EXCEPT ![r] = None]
  /\ UNCHANGED <<committed, published, working>>

Next ==
  \/ BulkLoad
  \/ Write
  \/ Publish
  \/ Close
  \/ \E r \in Reader : Acquire(r) \/ Release(r)

Spec == Init /\ [][Next]_vars
=============================================================================
