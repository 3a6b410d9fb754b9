----------------------------- MODULE Attachments -----------------------------
(***************************************************************************)
(* Ticket attachments: files on a private volume, the rows that name them,  *)
(* and the outbox through which deleted rows get their files removed.       *)
(*                                                                          *)
(* The volume and the database do not share a transaction.  An upload       *)
(* stores the file and then inserts its row; a deletion removes the row,    *)
(* queues the path in the outbox in the same statement, and then tries once *)
(* to unlink the file itself.  Deleting a ticket does so for all its        *)
(* attachments, as far as its statement's snapshot shows them, while the    *)
(* foreign key removes every row.  An outbox worker retries what is queued. *)
(* Stored names are random, so each upload has a file of its own.           *)
(***************************************************************************)
EXTENDS Naturals, FiniteSets

CONSTANTS
  Files,         \* stored filenames, one per upload
  Tickets,       \* tickets that exist at the start
  Workers,       \* concurrent calls of process_pending_attachment_deletions
  BatchSize,     \* items claimed by one call (20)
  MaxAttempts,   \* deletions tried for one outbox row (5)
  CrashAllowed   \* may a request or a worker end half-way?

ASSUME SizesAssumption == {BatchSize, MaxAttempts} \subseteq Nat \ {0}
ASSUME CrashAssumption == CrashAllowed \in BOOLEAN

VARIABLES
  disk,        \* files on the volume
  rows,        \* ticket_attachments, committed
  owner,       \* the ticket each upload is for
  upload,      \* where each upload_attachment request is
  ticket,      \* "open", "deleting" (its DELETE waits) or "deleted"
  snapshot,    \* attachments the DELETE of each ticket sees
  unlinks,     \* files a deletion request is about to unlink itself
  outbox,      \* attachment_deletions_outbox: status of each row
  attempts,    \*   and its attempts
  claimed,     \* items each worker still has to settle
  result,      \* what the unlink of each worker's current item returned
  uncertain,   \* history: uploads whose commit was not acknowledged
  overlooked,  \* history: rows removed by a DELETE that did not see them
  stranded     \* history: outbox rows whose worker disappeared

databaseVars == <<rows, owner, ticket, snapshot, outbox, attempts>>
workerVars   == <<claimed, result>>
historyVars  == <<uncertain, overlooked, stranded>>
vars == <<disk, databaseVars, upload, unlinks, workerVars, historyVars>>

\* An outbox row: the file and the request that queued it.
Items == Files \X {"attachment", "ticket"}
FileOf(i) == i[1]
NoItem == <<>>
NoResult == [item |-> NoItem, gone |-> FALSE]

TypeOK ==
  /\ {disk, rows, unlinks, uncertain, overlooked} \subseteq SUBSET Files
  /\ owner \in [Files -> Tickets]
  /\ upload \in [Files -> {"none", "stored", "inserted", "undo", "done", "ended"}]
  /\ ticket \in [Tickets -> {"open", "deleting", "deleted"}]
  /\ snapshot \in [Tickets -> SUBSET Files]
  /\ outbox \in [Items -> {"NONE", "PENDING", "PROCESSING", "COMPLETED", "FAILED"}]
  /\ attempts \in [Items -> 0..MaxAttempts]
  /\ claimed \in [Workers -> SUBSET Items]
  /\ result \in [Workers -> [item : Items \cup {NoItem}, gone : BOOLEAN]]
  /\ stranded \subseteq Items

Init ==
  /\ disk = {} /\ rows = {}
  /\ owner \in [Files -> Tickets]
  /\ upload = [f \in Files |-> "none"]
  /\ ticket = [t \in Tickets |-> "open"]
  /\ snapshot = [t \in Tickets |-> {}]
  /\ unlinks = {}
  /\ outbox = [i \in Items |-> "NONE"]
  /\ attempts = [i \in Items |-> 0]
  /\ claimed = [w \in Workers |-> {}]
  /\ result = [w \in Workers |-> NoResult]
  /\ uncertain = {} /\ overlooked = {} /\ stranded = {}

Move(f, from, to) == upload[f] = from /\ upload' = [upload EXCEPT ![f] = to]
-----------------------------------------------------------------------------
(* upload_attachment.                                                       *)

StoreFile(f) ==
  /\ Move(f, "none", "stored")
  /\ disk' = disk \cup {f}
  /\ UNCHANGED <<databaseVars, unlinks, workerVars, historyVars>>

\* create_attachment: INSERT ... WHERE the ticket EXISTS.  The foreign key keeps
\* the ticket from being deleted until the transaction ends.
InsertRow(f) ==
  /\ Move(f, "stored", IF ticket[owner[f]] = "deleted" THEN "undo" ELSE "inserted")
  /\ UNCHANGED <<disk, databaseVars, unlinks, workerVars, historyVars>>

\* COMMIT.  When its acknowledgement is lost the request takes the error path.
CommitRow(f) ==
  /\ rows' = rows \cup {f}
  /\ \/ Move(f, "inserted", "done") /\ UNCHANGED uncertain
     \/ Move(f, "inserted", "undo") /\ uncertain' = uncertain \cup {f}
  /\ UNCHANGED <<disk, owner, ticket, snapshot, outbox, attempts, unlinks,
                 workerVars, overlooked, stranded>>

\* The transaction rolls back: lost connection, audit insert refused.
FailRow(f) ==
  /\ Move(f, "inserted", "undo")
  /\ UNCHANGED <<disk, databaseVars, unlinks, workerVars, historyVars>>

\* The error path deletes the file.
UndoUpload(f) ==
  /\ Move(f, "undo", "ended")
  /\ disk' = disk \ {f}
  /\ UNCHANGED <<databaseVars, unlinks, workerVars, historyVars>>

\* The process dies, or the error path cannot delete the file.
UploadDies(f) ==
  /\ CrashAllowed
  /\ upload[f] \in {"stored", "inserted", "undo"}
  /\ upload' = [upload EXCEPT ![f] = "ended"]
  /\ UNCHANGED <<disk, databaseVars, unlinks, workerVars, historyVars>>
-----------------------------------------------------------------------------
(* delete_attachment and delete_ticket.                                     *)

Queue(items) == outbox' = [i \in Items |-> IF i \in items THEN "PENDING" ELSE outbox[i]]

\* Faulty variant of DeleteAttachment: the request unlinks the file but queues
\* nothing.
DeleteRowOnly(f) ==
  /\ f \in rows
  /\ rows' = rows \ {f}
  /\ unlinks' = unlinks \cup {f}
  /\ UNCHANGED <<disk, owner, upload, ticket, snapshot, outbox, attempts,
                 workerVars, historyVars>>

\* Faulty variant of DeleteAttachment: the file goes before its row does.
UnlinkFirst(f) ==
  /\ f \in rows
  /\ disk' = disk \ {f}
  /\ UNCHANGED <<databaseVars, upload, unlinks, workerVars, historyVars>>

\* One statement: DELETE the row, INSERT into the outbox.
DeleteAttachment(f) ==
  /\ f \in rows
  /\ rows' = rows \ {f}
  /\ Queue({<<f, "attachment">>})
  /\ unlinks' = unlinks \cup {f}
  /\ UNCHANGED <<disk, owner, upload, ticket, snapshot, attempts, workerVars,
                 historyVars>>

\* delete_ticket: the statement starts and reads the ticket's attachments.
StartTicketDelete(t) ==
  /\ ticket[t] = "open"
  /\ ticket' = [ticket EXCEPT ![t] = "deleting"]
  /\ snapshot' = [snapshot EXCEPT ![t] = {f \in rows : owner[f] = t}]
  /\ UNCHANGED <<disk, rows, owner, outbox, attempts, upload, unlinks, workerVars,
                 historyVars>>

\* No transaction holds the ticket through the foreign key.
Unreferenced(t) == \A f \in Files : owner[f] = t => upload[f] # "inserted"

\* Faulty variant of FinishTicketDelete: it does not wait for the foreign key.
FinishWithoutLock(t) ==
  /\ ticket[t] = "deleting"
  /\ ticket' = [ticket EXCEPT ![t] = "deleted"]
  /\ rows' = {f \in rows : owner[f] # t}
  /\ Queue({<<f, "ticket">> : f \in snapshot[t]})
  /\ unlinks' = unlinks \cup snapshot[t]
  /\ snapshot' = [snapshot EXCEPT ![t] = {}]
  /\ overlooked' = overlooked \cup
       ({f \in rows : owner[f] = t} \ snapshot[t])
  /\ UNCHANGED <<disk, owner, attempts, upload, workerVars, uncertain, stranded>>

\* The DELETE obtains the ticket's lock and commits: the cascade removes every
\* row of the ticket, the outbox gets those of the snapshot.
FinishTicketDelete(t) ==
  /\ ticket[t] = "deleting"
  /\ Unreferenced(t)
  /\ ticket' = [ticket EXCEPT ![t] = "deleted"]
  /\ rows' = {f \in rows : owner[f] # t}
  /\ Queue({<<f, "ticket">> : f \in snapshot[t]})
  /\ unlinks' = unlinks \cup snapshot[t]
  /\ snapshot' = [snapshot EXCEPT ![t] = {}]
  /\ overlooked' = overlooked \cup
       ({f \in rows : owner[f] = t} \ snapshot[t])
  /\ UNCHANGED <<disk, owner, attempts, upload, workerVars, uncertain, stranded>>

\* After the commit the request unlinks the files itself.
Unlink(f) ==
  /\ f \in unlinks
  /\ unlinks' = unlinks \ {f}
  /\ disk' = disk \ {f}
  /\ UNCHANGED <<databaseVars, upload, workerVars, historyVars>>

\* ... and ignores an error.
UnlinkFails(f) ==
  /\ f \in unlinks
  /\ unlinks' = unlinks \ {f}
  /\ UNCHANGED <<disk, databaseVars, upload, workerVars, historyVars>>
-----------------------------------------------------------------------------
(* process_pending_attachment_deletions.                                    *)

\* Faulty variant of Claimable: rows that are being processed are taken over.
ClaimableInProcess == {i \in Items : /\ outbox[i] \in {"PENDING", "PROCESSING", "FAILED"}
                                     /\ attempts[i] < MaxAttempts}

Claimable == {i \in Items : /\ outbox[i] \in {"PENDING", "FAILED"}
                            /\ attempts[i] < MaxAttempts}

\* claim_pending_attachment_deletions: UPDATE ... FOR UPDATE SKIP LOCKED.
ClaimItems(w) ==
  /\ claimed[w] = {}
  /\ \E S \in SUBSET Claimable \ {{}} :
       /\ Cardinality(S) <= BatchSize
       /\ S # Claimable => Cardinality(S) = BatchSize
       /\ claimed' = [claimed EXCEPT ![w] = S]
       /\ outbox' = [i \in Items |-> IF i \in S THEN "PROCESSING" ELSE outbox[i]]
  /\ UNCHANGED <<disk, rows, owner, ticket, snapshot, attempts, upload, unlinks,
                 result, historyVars>>

\* storage.delete, for which a missing file is no error.
TryUnlink(w, i) ==
  /\ i \in claimed[w] /\ result[w] = NoResult
  /\ \/ /\ disk' = disk \ {FileOf(i)}
        /\ result' = [result EXCEPT ![w] = [item |-> i, gone |-> TRUE]]
     \/ /\ UNCHANGED disk
        /\ result' = [result EXCEPT ![w] = [item |-> i, gone |-> FALSE]]
  /\ UNCHANGED <<databaseVars, upload, unlinks, claimed, historyVars>>

Settle(w) == /\ claimed' = [claimed EXCEPT ![w] = @ \ {result[w].item}]
             /\ result' = [result EXCEPT ![w] = NoResult]
             /\ UNCHANGED <<disk, rows, owner, ticket, snapshot, upload, unlinks,
                            historyVars>>

\* Faulty variant of MarkCompleted: the outcome of the unlink is not looked at.
MarkAnyCompleted(w) ==
  /\ result[w] # NoResult
  /\ outbox' = [outbox EXCEPT ![result[w].item] = "COMPLETED"]
  /\ Settle(w)
  /\ UNCHANGED attempts

MarkCompleted(w) ==
  /\ result[w].gone
  /\ outbox' = [outbox EXCEPT ![result[w].item] = "COMPLETED"]
  /\ Settle(w)
  /\ UNCHANGED attempts

\* mark_attachment_deletion_failed: the unlink failed, or recording its success.
MarkFailed(w) ==
  LET i == result[w].item IN
  /\ result[w] # NoResult
  /\ outbox' = [outbox EXCEPT ![i] = IF attempts[i] + 1 >= MaxAttempts
                                       THEN "FAILED" ELSE "PENDING"]
  /\ attempts' = [attempts EXCEPT ![i] = @ + 1]
  /\ Settle(w)

\* The worker dies, or the failure cannot be recorded: what it claimed stays
\* PROCESSING.
WorkerDies(w) ==
  /\ CrashAllowed
  /\ claimed[w] # {}
  /\ stranded' = stranded \cup claimed[w]
  /\ claimed' = [claimed EXCEPT ![w] = {}]
  /\ result' = [result EXCEPT ![w] = NoResult]
  /\ UNCHANGED <<disk, databaseVars, upload, unlinks, uncertain, overlooked>>
-----------------------------------------------------------------------------
UploadStep(f) == \/ StoreFile(f) \/ InsertRow(f) \/ CommitRow(f) \/ FailRow(f)
                 \/ UndoUpload(f) \/ UploadDies(f)

DeleteStep == \/ \E f \in Files : DeleteAttachment(f) \/ Unlink(f) \/ UnlinkFails(f)
              \/ \E t \in Tickets : StartTicketDelete(t) \/ FinishTicketDelete(t)

WorkerStep(w) == \/ ClaimItems(w)
                 \/ \E i \in claimed[w] : TryUnlink(w, i)
                 \/ MarkCompleted(w) \/ MarkFailed(w) \/ WorkerDies(w)

Next == \/ \E f \in Files : UploadStep(f)
        \/ DeleteStep
        \/ \E w \in Workers : WorkerStep(w)

Spec == Init /\ [][Next]_vars
-----------------------------------------------------------------------------
(* Properties.                                                              *)

\* Every attachment listed can be downloaded: no deletion, retry or failed
\* upload removes the file of a row that remains.  The exception is an upload
\* whose commit was not acknowledged, which deletes the file of its own row.
RowHasFile == rows \subseteq disk \cup uncertain

\* An upload that races with the deletion of its ticket leaves no row behind.
RowHasTicket == \A f \in rows : ticket[owner[f]] # "deleted"

\* A file had a row, the row was deleted, but the file is still on the volume.
Leftover == {f \in disk \ rows : upload[f] = "done" \/ f \in uncertain}

\* Outbox row i will still remove its file, or has used up its attempts.
Pursued(i) == \/ i \in Claimable
              \/ \E w \in Workers : i \in claimed[w]
              \/ outbox[i] = "FAILED" /\ attempts[i] = MaxAttempts

\* The only files that outlive their row and that no outbox row pursues are those
\* a DELETE of the ticket overlooked and those whose worker died.
LeftoversExplained ==
  \A f \in Leftover : \/ f \in overlooked
                      \/ \E i \in Items : FileOf(i) = f /\ (Pursued(i) \/ i \in stranded)

\* The outbox says COMPLETED only of a file that is gone, although two outbox
\* rows may name the same file and workers and requests unlink concurrently.
CompletedIsGone == \A i \in Items : outbox[i] = "COMPLETED" => FileOf(i) \notin disk

\* A claimed row has one worker: nothing is settled twice.
ClaimIsExclusive ==
  \A v, w \in Workers : v # w => claimed[v] \cap claimed[w] = {}

\* "Outbox durable con reintentos idempotentes para eliminación física de
\* adjuntos": a deleted attachment whose file remains is queued.
LeftoverIsQueued ==
  \A f \in Leftover : \E i \in Items : FileOf(i) = f /\ outbox[i] # "NONE"
-----------------------------------------------------------------------------
(* The inductive invariant behind the properties above.                     *)

\* The row of f was committed, whatever the upload request was told.
Committed(f) == upload[f] = "done" \/ f \in uncertain

\* Which uploads have a file, a row and a ticket.
UploadInv ==
  \A f \in Files :
    /\ f \in rows => Committed(f)
    /\ f \in uncertain => upload[f] \in {"undo", "ended"}
    /\ upload[f] \in {"stored", "inserted"} => f \in disk
    /\ upload[f] = "inserted" => ticket[owner[f]] # "deleted"

\* Only files of deleted rows are unlinked, and the outbox knows them unless the
\* deletion overlooked them.
DeletedInv ==
  \A f \in Files :
    /\ f \in unlinks => Committed(f) /\ f \notin rows
    /\ Committed(f) /\ f \notin rows =>
         f \in overlooked \/ \E i \in Items : FileOf(i) = f /\ outbox[i] # "NONE"

SnapshotInv ==
  \A t \in Tickets, f \in Files : f \in snapshot[t] => Committed(f) /\ owner[f] = t

\* Only deleted rows are queued, by each request once.
QueueInv ==
  \A i \in Items : outbox[i] # "NONE" =>
    /\ Committed(FileOf(i)) /\ FileOf(i) \notin rows
    /\ i[2] = "ticket" => ticket[owner[FileOf(i)]] = "deleted"

\* What the status of an outbox row says of its attempts and its worker.
OutboxInv ==
  \A i \in Items :
    /\ outbox[i] \in {"PENDING", "PROCESSING"} => attempts[i] < MaxAttempts
    /\ outbox[i] = "NONE" => attempts[i] = 0
    /\ outbox[i] = "FAILED" => attempts[i] = MaxAttempts
    /\ outbox[i] = "PROCESSING" => i \in stranded \/ \E w \in Workers : i \in claimed[w]

WorkerInv ==
  \A w \in Workers :
    /\ \A i \in claimed[w] : outbox[i] = "PROCESSING"
    /\ result[w] # NoResult => result[w].item \in claimed[w]
    /\ result[w].gone => result[w].item \in claimed[w] /\ FileOf(result[w].item) \notin disk

IInv == /\ TypeOK
        /\ UploadInv
        /\ DeletedInv
        /\ SnapshotInv
        /\ QueueInv
        /\ OutboxInv
        /\ WorkerInv
        /\ ClaimIsExclusive
        /\ RowHasFile
        /\ RowHasTicket
        /\ CompletedIsGone
=============================================================================
