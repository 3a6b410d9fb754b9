------------------------- MODULE Attachments_proofs -------------------------
(***************************************************************************)
(* Proofs about Attachments, for every set of files, tickets and workers,   *)
(* any batch size and any number of attempts.                               *)
(***************************************************************************)
EXTENDS Attachments, TLAPS

-----------------------------------------------------------------------------
(* Items of the outbox.                                                     *)

LEMMA ItemFacts ==
  /\ \A i \in Items : FileOf(i) \in Files /\ i[2] \in {"attachment", "ticket"}
  /\ \A f \in Files, k \in {"attachment", "ticket"} :
       <<f, k>> \in Items /\ FileOf(<<f, k>>) = f /\ <<f, k>>[2] = k
  /\ NoItem \notin Items
  BY DEF Items, FileOf, NoItem

LEMMA NothingSettled == ~NoResult.gone
  BY DEF NoResult

\* A result belongs to an item that its worker has claimed.
LEMMA ResultFacts ==
  ASSUME IInv, NEW w \in Workers, result[w] # NoResult
  PROVE  /\ result[w].item \in claimed[w] /\ result[w].item \in Items
         /\ outbox[result[w].item] = "PROCESSING"
         /\ attempts[result[w].item] < MaxAttempts
  BY DEF IInv, TypeOK, WorkerInv, OutboxInv

\* The parts of the invariant that concern the outbox and its workers.
OutboxSide == OutboxInv /\ WorkerInv /\ ClaimIsExclusive /\ CompletedIsGone

\* They survive every step that leaves outbox and workers alone and brings back
\* no file that has been queued.
LEMMA OutboxSideKept ==
  ASSUME IInv, UNCHANGED <<outbox, attempts, claimed, result, stranded>>,
         \A i \in Items : outbox[i] # "NONE" => FileOf(i) \notin disk' \ disk
  PROVE  OutboxSide'
<1>1. WorkerInv'
  <2>1. \A w \in Workers : \A i \in claimed[w] : i \in Items /\ outbox[i] # "NONE"
    BY DEF IInv, TypeOK, WorkerInv
  <2> QED
    BY <2>1 DEF IInv, WorkerInv
<1>2. CompletedIsGone'
  BY DEF IInv, CompletedIsGone
<1> QED
  BY <1>1, <1>2 DEF IInv, OutboxSide, OutboxInv, ClaimIsExclusive
-----------------------------------------------------------------------------
(* The upload.                                                              *)

LEMMA StoreFileKeeps == ASSUME IInv, NEW f \in Files, StoreFile(f) PROVE IInv'
<1>1. /\ upload' = [upload EXCEPT ![f] = "stored"] /\ upload[f] = "none"
      /\ disk' = disk \cup {f}
      /\ UNCHANGED <<rows, owner, ticket, snapshot, outbox, attempts, unlinks, claimed,
                     result, uncertain, overlooked, stranded>>
  BY DEF StoreFile, Move, databaseVars, workerVars, historyVars
<1>2. \A g \in Files : Committed(g)' <=> Committed(g)
  BY <1>1 DEF IInv, TypeOK, UploadInv, Committed
<1>3. TypeOK'
  BY <1>1 DEF IInv, TypeOK
<1>4. UploadInv'
  BY <1>1, <1>2 DEF IInv, TypeOK, UploadInv
<1>5. \A i \in Items : outbox[i] # "NONE" => FileOf(i) # f
  BY <1>1, ItemFacts DEF IInv, QueueInv, Committed, UploadInv
<1>6. OutboxSide'
  BY <1>1, <1>5, OutboxSideKept
<1>7. DeletedInv' /\ SnapshotInv'
  BY <1>1, <1>2 DEF IInv, DeletedInv, SnapshotInv
<1>8. QueueInv'
  BY <1>1, <1>2, ItemFacts DEF IInv, QueueInv
<1>9. RowHasFile' /\ RowHasTicket'
  BY <1>1 DEF IInv, RowHasFile, RowHasTicket
<1> QED
  BY <1>3, <1>4, <1>6, <1>7, <1>8, <1>9 DEF IInv, OutboxSide

\* An upload goes on and no row, file or queue changes.
LEMMA UploadMoves ==
  ASSUME IInv, NEW f \in Files,
         NEW to \in {"inserted", "undo", "ended"}, upload' = [upload EXCEPT ![f] = to],
         upload[f] \in {"stored", "inserted", "undo"},
         to = "inserted" => upload[f] = "stored" /\ ticket[owner[f]] # "deleted",
         UNCHANGED <<disk, databaseVars, unlinks, workerVars, historyVars>>
  PROVE  IInv'
<1>1. UNCHANGED <<disk, rows, owner, ticket, snapshot, outbox, attempts, unlinks, claimed,
                  result, uncertain, overlooked, stranded>>
  BY DEF databaseVars, workerVars, historyVars
<1>2. \A g \in Files : Committed(g)' <=> Committed(g)
  BY <1>1 DEF IInv, TypeOK, Committed
<1>3. TypeOK'
  BY <1>1 DEF IInv, TypeOK
<1>4. UploadInv'
  BY <1>1, <1>2 DEF IInv, TypeOK, UploadInv
<1>5. OutboxSide'
  BY <1>1, OutboxSideKept
<1>6. DeletedInv' /\ SnapshotInv'
  BY <1>1, <1>2 DEF IInv, DeletedInv, SnapshotInv
<1>7. QueueInv'
  BY <1>1, <1>2, ItemFacts DEF IInv, QueueInv
<1>8. RowHasFile' /\ RowHasTicket'
  BY <1>1 DEF IInv, RowHasFile, RowHasTicket
<1> QED
  BY <1>3, <1>4, <1>5, <1>6, <1>7, <1>8 DEF IInv, OutboxSide

LEMMA InsertRowKeeps == ASSUME IInv, NEW f \in Files, InsertRow(f) PROVE IInv'
<1>1. CASE ticket[owner[f]] = "deleted"
  BY <1>1, UploadMoves DEF InsertRow, Move
<1>2. CASE ticket[owner[f]] # "deleted"
  BY <1>2, UploadMoves DEF InsertRow, Move
<1> QED
  BY <1>1, <1>2

LEMMA FailRowKeeps == ASSUME IInv, NEW f \in Files, FailRow(f) PROVE IInv'
  BY UploadMoves DEF FailRow, Move

LEMMA UploadDiesKeeps == ASSUME IInv, NEW f \in Files, UploadDies(f) PROVE IInv'
  BY UploadMoves DEF UploadDies

LEMMA CommitRowKeeps == ASSUME IInv, NEW f \in Files, CommitRow(f) PROVE IInv'
<1>1. /\ upload[f] = "inserted" /\ rows' = rows \cup {f}
      /\ UNCHANGED <<disk, owner, ticket, snapshot, outbox, attempts, unlinks, claimed,
                     result, overlooked, stranded>>
  BY DEF CommitRow, Move, workerVars
<1>2. \/ upload' = [upload EXCEPT ![f] = "done"] /\ uncertain' = uncertain
      \/ upload' = [upload EXCEPT ![f] = "undo"] /\ uncertain' = uncertain \cup {f}
  BY DEF CommitRow, Move
<1>3. \A g \in Files : Committed(g)' <=> Committed(g) \/ g = f
  BY <1>1, <1>2 DEF IInv, TypeOK, Committed
<1>4. ~Committed(f) /\ f \notin uncertain /\ f \in disk /\ ticket[owner[f]] # "deleted"
  BY <1>1 DEF IInv, UploadInv, Committed
<1>5. TypeOK'
  BY <1>1, <1>2 DEF IInv, TypeOK
<1>6. UploadInv'
  BY <1>1, <1>2, <1>3, <1>4 DEF IInv, TypeOK, UploadInv
<1>7. OutboxSide'
  BY <1>1, OutboxSideKept
<1>8. DeletedInv' /\ SnapshotInv'
  BY <1>1, <1>3, <1>4 DEF IInv, DeletedInv, SnapshotInv
<1>9. QueueInv'
  BY <1>1, <1>3, <1>4, ItemFacts DEF IInv, QueueInv
<1>10. RowHasFile' /\ RowHasTicket'
  BY <1>1, <1>2, <1>4 DEF IInv, RowHasFile, RowHasTicket
<1> QED
  BY <1>5, <1>6, <1>7, <1>8, <1>9, <1>10 DEF IInv, OutboxSide

LEMMA UndoUploadKeeps == ASSUME IInv, NEW f \in Files, UndoUpload(f) PROVE IInv'
<1>1. /\ upload[f] = "undo" /\ upload' = [upload EXCEPT ![f] = "ended"]
      /\ disk' = disk \ {f}
      /\ UNCHANGED <<rows, owner, ticket, snapshot, outbox, attempts, unlinks, claimed,
                     result, uncertain, overlooked, stranded>>
  BY DEF UndoUpload, Move, databaseVars, workerVars, historyVars
<1>2. \A g \in Files : Committed(g)' <=> Committed(g)
  BY <1>1 DEF IInv, TypeOK, Committed
<1>3. TypeOK'
  BY <1>1 DEF IInv, TypeOK
<1>4. UploadInv'
  BY <1>1, <1>2 DEF IInv, TypeOK, UploadInv
<1>5. OutboxSide'
  BY <1>1, OutboxSideKept
<1>6. DeletedInv' /\ SnapshotInv'
  BY <1>1, <1>2 DEF IInv, DeletedInv, SnapshotInv
<1>7. QueueInv'
  BY <1>1, <1>2, ItemFacts DEF IInv, QueueInv
<1>8. RowHasFile' /\ RowHasTicket'
  <2>1. f \in rows => f \in uncertain
    BY <1>1 DEF IInv, UploadInv, Committed
  <2> QED
    BY <1>1, <2>1 DEF IInv, RowHasFile, RowHasTicket
<1> QED
  BY <1>3, <1>4, <1>5, <1>6, <1>7, <1>8 DEF IInv, OutboxSide
-----------------------------------------------------------------------------
(* Deletions.                                                               *)

\* A statement that removes rows, queues some of their files for the first time
\* and knows that it overlooks the others.
LEMMA RowsDeleted ==
  ASSUME IInv, NEW gone \in SUBSET rows, NEW items \in SUBSET Items, NEW missed \in SUBSET Files,
         rows' = rows \ gone, Queue(items),
         overlooked' = overlooked \cup missed,
         \A f \in gone : f \in missed \/ \E i \in items : FileOf(i) = f,
         \A i \in items : /\ outbox[i] = "NONE" /\ Committed(FileOf(i))
                          /\ FileOf(i) \notin rows \ gone
                          /\ i[2] = "ticket" => ticket'[owner[FileOf(i)]] = "deleted",
         \A f \in Files : f \in unlinks' \ unlinks => Committed(f) /\ f \notin rows \ gone,
         ticket' \in [Tickets -> {"open", "deleting", "deleted"}],
         unlinks' \subseteq Files,
         \A t \in Tickets : ticket[t] = "deleted" => ticket'[t] = "deleted",
         \A f \in Files : upload[f] = "inserted" \/ f \in rows \ gone =>
                            ticket'[owner[f]] # "deleted",
         snapshot' \in [Tickets -> SUBSET Files],
         \A t \in Tickets : snapshot'[t] \subseteq snapshot[t],
         UNCHANGED <<disk, owner, upload, attempts, workerVars, uncertain, stranded>>
  PROVE  IInv'
<1>1. UNCHANGED <<claimed, result>>
  BY DEF workerVars
<1>2. /\ outbox' \in [Items -> {"NONE", "PENDING", "PROCESSING", "COMPLETED", "FAILED"}]
      /\ \A i \in Items : outbox'[i] = IF i \in items THEN "PENDING" ELSE outbox[i]
  BY DEF Queue, IInv, TypeOK
<1>3. \A g \in Files : Committed(g)' <=> Committed(g)
  BY DEF Committed
<1>4. TypeOK'
  BY <1>1, <1>2 DEF IInv, TypeOK
<1>5. UploadInv'
  BY <1>3 DEF IInv, UploadInv
<1>6. DeletedInv'
  BY <1>2, <1>3 DEF IInv, DeletedInv
<1>7. SnapshotInv'
  BY <1>3 DEF IInv, SnapshotInv, TypeOK
<1>8. QueueInv'
  BY <1>2, <1>3, ItemFacts DEF IInv, QueueInv, TypeOK
<1>9. OutboxInv'
  BY <1>1, <1>2, SizesAssumption DEF IInv, OutboxInv
<1>10. WorkerInv'
  <2>1. \A w \in Workers : \A i \in claimed[w] : i \in Items /\ i \notin items
    BY DEF IInv, TypeOK, WorkerInv
  <2> QED
    BY <1>1, <1>2, <2>1 DEF IInv, WorkerInv
<1>11. CompletedIsGone' /\ ClaimIsExclusive'
  BY <1>1, <1>2 DEF IInv, CompletedIsGone, ClaimIsExclusive
<1>12. RowHasFile' /\ RowHasTicket'
  BY DEF IInv, RowHasFile, RowHasTicket, TypeOK
<1> QED
  BY <1>4, <1>5, <1>6, <1>7, <1>8, <1>9, <1>10, <1>11, <1>12 DEF IInv

LEMMA DeleteAttachmentKeeps == ASSUME IInv, NEW f \in Files, DeleteAttachment(f) PROVE IInv'
<1> DEFINE i == <<f, "attachment">>
<1>1. /\ f \in rows /\ rows' = rows \ {f} /\ Queue({i}) /\ unlinks' = unlinks \cup {f}
      /\ UNCHANGED <<disk, owner, upload, ticket, snapshot, attempts, workerVars,
                     uncertain, overlooked, stranded>>
  BY DEF DeleteAttachment, historyVars
<1>2. i \in Items /\ FileOf(i) = f /\ i[2] = "attachment"
  BY ItemFacts
<1>3. Committed(f) /\ outbox[i] = "NONE"
  BY <1>1, <1>2 DEF IInv, UploadInv, QueueInv
<1>4. /\ overlooked' = overlooked \cup {} /\ unlinks' \subseteq Files
      /\ ticket' \in [Tickets -> {"open", "deleting", "deleted"}]
      /\ snapshot' \in [Tickets -> SUBSET Files]
  BY <1>1 DEF IInv, TypeOK
<1>5. \A g \in Files : upload[g] = "inserted" \/ g \in rows \ {f} => ticket'[owner[g]] # "deleted"
  BY <1>1 DEF IInv, UploadInv, RowHasTicket
<1>6. {f} \in SUBSET rows /\ {i} \in SUBSET Items /\ {} \in SUBSET Files
  BY <1>1, <1>2
<1> HIDE DEF i
<1> QED
  BY <1>1, <1>2, <1>3, <1>4, <1>5, <1>6, RowsDeleted, ZenonT(60)

LEMMA FinishTicketDeleteKeeps ==
  ASSUME IInv, NEW t \in Tickets, FinishTicketDelete(t)
  PROVE  IInv'
<1> DEFINE gone   == {f \in rows : owner[f] = t}
           items  == {<<f, "ticket">> : f \in snapshot[t]}
           missed == gone \ snapshot[t]
<1>1. /\ ticket[t] = "deleting" /\ Unreferenced(t)
      /\ ticket' = [ticket EXCEPT ![t] = "deleted"]
      /\ rows' = rows \ gone /\ Queue(items) /\ unlinks' = unlinks \cup snapshot[t]
      /\ snapshot' = [snapshot EXCEPT ![t] = {}]
      /\ overlooked' = overlooked \cup missed
      /\ UNCHANGED <<disk, owner, upload, attempts, workerVars, uncertain, stranded>>
  BY DEF FinishTicketDelete
<1>2. snapshot[t] \subseteq Files /\ rows \subseteq Files
  BY DEF IInv, TypeOK
<1>3. items \in SUBSET Items /\ missed \in SUBSET Files /\ gone \in SUBSET rows
  BY <1>2, ItemFacts
<1>4. \A i \in items : /\ FileOf(i) \in snapshot[t] /\ i[2] = "ticket"
  <2> SUFFICES ASSUME NEW f \in snapshot[t]
               PROVE  FileOf(<<f, "ticket">>) \in snapshot[t] /\ <<f, "ticket">>[2] = "ticket"
    OBVIOUS
  <2>1. f \in Files
    BY <1>2
  <2> QED
    BY <2>1, ItemFacts
<1>5. \A f \in gone : f \in missed \/ \E i \in items : FileOf(i) = f
  <2> SUFFICES ASSUME NEW f \in snapshot[t] PROVE \E i \in items : FileOf(i) = f
    BY DEF missed
  <2> QED
    BY <1>2, ItemFacts
<1>6. \A f \in snapshot[t] : Committed(f) /\ owner[f] = t /\ f \notin rows \ gone
  BY <1>2 DEF IInv, SnapshotInv
<1>7. /\ ticket' \in [Tickets -> {"open", "deleting", "deleted"}]
      /\ ticket'[t] = "deleted"
      /\ \A u \in Tickets : u # t => ticket'[u] = ticket[u]
      /\ snapshot' \in [Tickets -> SUBSET Files]
      /\ \A u \in Tickets : snapshot'[u] \subseteq snapshot[u]
      /\ unlinks' \subseteq Files
  BY <1>1, <1>2 DEF IInv, TypeOK
<1>8. \A i \in items : /\ outbox[i] = "NONE" /\ Committed(FileOf(i))
                       /\ FileOf(i) \notin rows \ gone
                       /\ i[2] = "ticket" => ticket'[owner[FileOf(i)]] = "deleted"
  BY <1>1, <1>3, <1>4, <1>6, <1>7 DEF IInv, QueueInv
<1>9. \A f \in Files : upload[f] = "inserted" \/ f \in rows \ gone => ticket'[owner[f]] # "deleted"
  <2>1. \A f \in Files : owner[f] \in Tickets
    BY DEF IInv, TypeOK
  <2>2. \A f \in Files : upload[f] = "inserted" \/ f \in rows \ gone => owner[f] # t
    BY <1>1 DEF Unreferenced
  <2> QED
    BY <1>7, <2>1, <2>2 DEF IInv, UploadInv, RowHasTicket
<1> HIDE DEF gone, items, missed
<1>10. \A f \in Files : f \in unlinks' \ unlinks => Committed(f) /\ f \notin rows \ gone
  BY <1>1, <1>6
<1>11. \A u \in Tickets : ticket[u] = "deleted" => ticket'[u] = "deleted"
  BY <1>7
<1> QED
  BY <1>1, <1>3, <1>5, <1>7, <1>8, <1>9, <1>10, <1>11, RowsDeleted

LEMMA StartTicketDeleteKeeps ==
  ASSUME IInv, NEW t \in Tickets, StartTicketDelete(t)
  PROVE  IInv'
<1>1. /\ ticket[t] = "open" /\ ticket' = [ticket EXCEPT ![t] = "deleting"]
      /\ snapshot' = [snapshot EXCEPT ![t] = {f \in rows : owner[f] = t}]
      /\ UNCHANGED <<disk, rows, owner, outbox, attempts, upload, unlinks, claimed, result,
                     uncertain, overlooked, stranded>>
  BY DEF StartTicketDelete, workerVars, historyVars
<1>2. \A g \in Files : Committed(g)' <=> Committed(g)
  BY <1>1 DEF Committed
<1>3. TypeOK'
  BY <1>1 DEF IInv, TypeOK
<1>4. \A u \in Tickets : ticket'[u] = "deleted" <=> ticket[u] = "deleted"
  BY <1>1 DEF IInv, TypeOK
<1>5. \A f \in Files : owner[f] \in Tickets
  BY DEF IInv, TypeOK
<1>6. UploadInv'
  BY <1>1, <1>2, <1>4, <1>5 DEF IInv, UploadInv
<1>7. DeletedInv'
  BY <1>1, <1>2 DEF IInv, DeletedInv
<1>8. SnapshotInv'
  BY <1>1, <1>2 DEF IInv, TypeOK, SnapshotInv, UploadInv
<1>9. QueueInv'
  BY <1>1, <1>2, <1>4, <1>5, ItemFacts DEF IInv, QueueInv
<1>10. OutboxSide'
  BY <1>1, OutboxSideKept
<1>11. RowHasFile' /\ RowHasTicket'
  BY <1>1, <1>4, <1>5 DEF IInv, TypeOK, RowHasFile, RowHasTicket
<1> QED
  BY <1>3, <1>6, <1>7, <1>8, <1>9, <1>10, <1>11 DEF IInv, OutboxSide

\* A file goes whose row is gone.
LEMMA FileGoes ==
  ASSUME IInv, NEW f \in Files, Committed(f), f \notin rows,
         disk' = disk \ {f} \/ UNCHANGED disk, unlinks' \subseteq unlinks,
         UNCHANGED <<rows, owner, upload, ticket, snapshot, uncertain, overlooked, outbox, attempts>>
  PROVE  /\ UploadInv' /\ DeletedInv' /\ SnapshotInv' /\ QueueInv'
         /\ CompletedIsGone' /\ RowHasFile' /\ RowHasTicket'
<1>1. \A g \in Files : Committed(g)' <=> Committed(g)
  BY DEF Committed
<1>2. UploadInv'
  BY <1>1 DEF IInv, UploadInv, Committed
<1>3. DeletedInv' /\ SnapshotInv'
  BY <1>1 DEF IInv, DeletedInv, SnapshotInv
<1>4. QueueInv'
  BY <1>1, ItemFacts DEF IInv, QueueInv
<1>5. CompletedIsGone' /\ RowHasFile' /\ RowHasTicket'
  BY DEF IInv, CompletedIsGone, RowHasFile, RowHasTicket
<1> QED
  BY <1>2, <1>3, <1>4, <1>5

LEMMA UnlinkKeeps ==
  ASSUME IInv, NEW f \in Files, Unlink(f) \/ UnlinkFails(f)
  PROVE  IInv'
<1>1. /\ f \in unlinks /\ unlinks' = unlinks \ {f} /\ (disk' = disk \ {f} \/ UNCHANGED disk)
      /\ UNCHANGED <<rows, owner, ticket, snapshot, outbox, attempts, upload, claimed, result,
                     uncertain, overlooked, stranded>>
  BY DEF Unlink, UnlinkFails, databaseVars, workerVars, historyVars
<1>2. Committed(f) /\ f \notin rows
  BY <1>1 DEF IInv, DeletedInv
<1>3. TypeOK'
  BY <1>1 DEF IInv, TypeOK
<1>4. OutboxSide'
  BY <1>1, OutboxSideKept
<1> QED
  BY <1>1, <1>2, <1>3, <1>4, FileGoes DEF IInv, OutboxSide
-----------------------------------------------------------------------------
(* The worker.                                                              *)

\* The parts of the invariant that a step of a worker which only handles outbox
\* rows leaves alone.
LEMMA WorkerSpares ==
  ASSUME IInv, UNCHANGED <<disk, rows, owner, ticket, snapshot, upload, unlinks, uncertain,
                           overlooked>>,
         \A i \in Items : outbox'[i] = "NONE" <=> outbox[i] = "NONE"
  PROVE  /\ UploadInv' /\ DeletedInv' /\ SnapshotInv' /\ QueueInv'
         /\ RowHasFile' /\ RowHasTicket'
<1>1. \A g \in Files : Committed(g)' <=> Committed(g)
  BY DEF Committed
<1>2. UploadInv'
  BY <1>1 DEF IInv, UploadInv
<1>3. DeletedInv' /\ SnapshotInv'
  BY <1>1 DEF IInv, DeletedInv, SnapshotInv
<1>4. QueueInv'
  BY <1>1, ItemFacts DEF IInv, QueueInv
<1> QED
  BY <1>2, <1>3, <1>4 DEF IInv, RowHasFile, RowHasTicket

LEMMA ClaimItemsKeeps == ASSUME IInv, NEW w \in Workers, ClaimItems(w) PROVE IInv'
<1>1. PICK S \in SUBSET Claimable :
         /\ claimed' = [claimed EXCEPT ![w] = S]
         /\ outbox' = [i \in Items |-> IF i \in S THEN "PROCESSING" ELSE outbox[i]]
  BY DEF ClaimItems
<1>2. /\ claimed[w] = {}
      /\ UNCHANGED <<disk, rows, owner, ticket, snapshot, attempts, upload, unlinks,
                     result, uncertain, overlooked, stranded>>
  BY DEF ClaimItems, historyVars
<1>3. \A i \in S : i \in Items /\ outbox[i] \in {"PENDING", "FAILED"} /\ attempts[i] < MaxAttempts
  BY <1>1 DEF Claimable
<1>4. \A v \in Workers, i \in Items : i \in claimed[v] => i \notin S
  BY <1>3 DEF IInv, WorkerInv
<1>5. TypeOK'
  BY <1>1, <1>2, <1>3 DEF IInv, TypeOK
<1>6. UploadInv' /\ DeletedInv' /\ SnapshotInv' /\ QueueInv' /\ RowHasFile' /\ RowHasTicket'
  BY <1>1, <1>2, <1>3, WorkerSpares
<1>7. OutboxInv'
  BY <1>1, <1>2, <1>3 DEF IInv, TypeOK, OutboxInv
<1>8. result[w] = NoResult
  BY <1>2 DEF IInv, WorkerInv
<1>9. WorkerInv'
  <2>1. \A v \in Workers : v # w => claimed'[v] = claimed[v] /\ claimed[v] \subseteq Items
    BY <1>1 DEF IInv, TypeOK
  <2>2. claimed'[w] = S
    BY <1>1 DEF IInv, TypeOK
  <2>3. ASSUME NEW v \in Workers, NEW i \in claimed'[v] PROVE outbox'[i] = "PROCESSING"
    <3>1. i \in Items
      BY <1>3, <2>1, <2>2, <2>3
    <3>2. CASE v = w
      BY <1>1, <2>2, <2>3, <3>1, <3>2
    <3>3. CASE v # w
      BY <1>1, <2>1, <2>3, <3>1, <3>3 DEF IInv, WorkerInv
    <3> QED
      BY <3>2, <3>3
  <2> QED
    BY <1>2, <1>8, <2>1, <2>3 DEF IInv, WorkerInv, NoResult
<1>10. ClaimIsExclusive'
  BY <1>1, <1>3, <1>4 DEF IInv, TypeOK, ClaimIsExclusive
<1>11. CompletedIsGone'
  BY <1>1, <1>2 DEF IInv, CompletedIsGone
<1> QED
  BY <1>5, <1>6, <1>7, <1>9, <1>10, <1>11 DEF IInv

LEMMA TryUnlinkKeeps ==
  ASSUME IInv, NEW w \in Workers, NEW i \in claimed[w], TryUnlink(w, i)
  PROVE  IInv'
<1>1. UNCHANGED <<rows, owner, ticket, snapshot, outbox, attempts, upload, unlinks, claimed,
                  uncertain, overlooked, stranded>>
  BY DEF TryUnlink, databaseVars, historyVars
<1>2. i \in Items /\ outbox[i] = "PROCESSING"
  BY DEF IInv, TypeOK, WorkerInv
<1>3. FileOf(i) \in Files /\ Committed(FileOf(i)) /\ FileOf(i) \notin rows
  BY <1>2, ItemFacts DEF IInv, QueueInv
<1>4. disk' = disk \ {FileOf(i)} \/ UNCHANGED disk
  BY DEF TryUnlink
<1>5. PICK g \in BOOLEAN : /\ result' = [result EXCEPT ![w] = [item |-> i, gone |-> g]]
                           /\ g => FileOf(i) \notin disk'
  <2>1. CASE disk' = disk \ {FileOf(i)} /\ result' = [result EXCEPT ![w] = [item |-> i, gone |-> TRUE]]
    BY <2>1
  <2>2. CASE UNCHANGED disk /\ result' = [result EXCEPT ![w] = [item |-> i, gone |-> FALSE]]
    BY <2>2
  <2> QED
    BY <2>1, <2>2 DEF TryUnlink
<1>6. TypeOK'
  BY <1>1, <1>2, <1>4, <1>5 DEF IInv, TypeOK
<1>7. WorkerInv'
  <2>1. /\ result'[w] = [item |-> i, gone |-> g]
        /\ \A v \in Workers : v # w => result'[v] = result[v]
    BY <1>5 DEF IInv, TypeOK
  <2> QED
    BY <1>1, <1>4, <1>5, <2>1 DEF IInv, WorkerInv
<1>8. OutboxInv' /\ ClaimIsExclusive'
  BY <1>1 DEF IInv, OutboxInv, ClaimIsExclusive
<1> QED
  BY <1>1, <1>3, <1>4, <1>6, <1>7, <1>8, FileGoes DEF IInv

\* A worker settles its item: the row gets its new status and is released.
LEMMA Settled ==
  ASSUME IInv, NEW w \in Workers, NEW i, i = result[w].item, result[w] # NoResult, Settle(w),
         NEW status \in {"COMPLETED", "PENDING", "FAILED"}, outbox' = [outbox EXCEPT ![i] = status],
         NEW n \in Nat, attempts' = [attempts EXCEPT ![i] = n], n <= MaxAttempts,
         status = "PENDING" => n < MaxAttempts, status = "FAILED" => n = MaxAttempts,
         status = "COMPLETED" => FileOf(i) \notin disk
  PROVE  IInv'
<1>1. /\ i \in claimed[w] /\ i \in Items /\ outbox[i] = "PROCESSING"
      /\ attempts[i] < MaxAttempts
  BY ResultFacts
<1>2. /\ claimed' = [claimed EXCEPT ![w] = @ \ {i}]
      /\ result' = [result EXCEPT ![w] = NoResult]
      /\ UNCHANGED <<disk, rows, owner, ticket, snapshot, upload, unlinks, uncertain,
                     overlooked, stranded>>
  BY DEF Settle, historyVars
<1>3. MaxAttempts \in Nat
  BY SizesAssumption
<1>4. TypeOK'
  <2>1. outbox' \in [Items -> {"NONE", "PENDING", "PROCESSING", "COMPLETED", "FAILED"}]
    BY <1>1 DEF IInv, TypeOK
  <2>2. attempts' \in [Items -> 0..MaxAttempts]
    BY <1>1, <1>3 DEF IInv, TypeOK
  <2>3. claimed' \in [Workers -> SUBSET Items]
    BY <1>2 DEF IInv, TypeOK
  <2>4. result' \in [Workers -> [item : Items \cup {NoItem}, gone : BOOLEAN]]
    BY <1>2 DEF IInv, TypeOK, NoResult
  <2> QED
    BY <1>2, <2>1, <2>2, <2>3, <2>4 DEF IInv, TypeOK
<1>5. /\ outbox'[i] = status /\ attempts'[i] = n
      /\ \A j \in Items : j # i => outbox'[j] = outbox[j] /\ attempts'[j] = attempts[j]
      /\ claimed'[w] = claimed[w] \ {i}
      /\ \A v \in Workers : v # w => claimed'[v] = claimed[v] /\ result'[v] = result[v]
      /\ result'[w] = NoResult
  BY <1>1, <1>2 DEF IInv, TypeOK
<1>6. \A v \in Workers : v # w => i \notin claimed[v]
  BY <1>1 DEF IInv, ClaimIsExclusive
<1>7. UploadInv' /\ DeletedInv' /\ SnapshotInv' /\ QueueInv' /\ RowHasFile' /\ RowHasTicket'
  BY <1>1, <1>2, <1>5, WorkerSpares
<1>8. OutboxInv'
  <2> SUFFICES ASSUME NEW j \in Items
      PROVE /\ outbox'[j] \in {"PENDING", "PROCESSING"} => attempts'[j] < MaxAttempts
            /\ outbox'[j] = "NONE" => attempts'[j] = 0
            /\ outbox'[j] = "FAILED" => attempts'[j] = MaxAttempts
            /\ outbox'[j] = "PROCESSING" => j \in stranded' \/ \E v \in Workers : j \in claimed'[v]
    BY DEF OutboxInv
  <2>1. CASE j = i
    BY <1>5, <2>1
  <2>2. CASE j # i
    <3>1. \A v \in Workers : j \in claimed[v] => j \in claimed'[v]
      BY <1>5, <2>2
    <3> QED
      BY <1>2, <1>5, <2>2, <3>1 DEF IInv, OutboxInv
  <2> QED
    BY <2>1, <2>2
<1>9. WorkerInv'
  <2>1. \A v \in Workers : \A j \in claimed'[v] : j \in Items /\ j # i /\ j \in claimed[v]
    BY <1>5, <1>6 DEF IInv, TypeOK
  <2> QED
    BY <1>2, <1>5, <2>1, NothingSettled DEF IInv, WorkerInv
<1>10. ClaimIsExclusive'
  BY <1>2, <1>5 DEF IInv, TypeOK, ClaimIsExclusive
<1>11. CompletedIsGone'
  BY <1>2, <1>5 DEF IInv, CompletedIsGone
<1> QED
  BY <1>4, <1>7, <1>8, <1>9, <1>10, <1>11 DEF IInv

LEMMA MarkCompletedKeeps == ASSUME IInv, NEW w \in Workers, MarkCompleted(w) PROVE IInv'
<1> DEFINE i == result[w].item
<1>1. result[w].gone /\ outbox' = [outbox EXCEPT ![i] = "COMPLETED"] /\ Settle(w) /\ UNCHANGED attempts
  BY DEF MarkCompleted
<1>2. result[w] # NoResult /\ FileOf(i) \notin disk
  BY <1>1 DEF IInv, WorkerInv, NoResult
<1>3. i \in Items
  BY <1>2, ResultFacts
<1>4. /\ attempts[i] \in Nat /\ attempts[i] <= MaxAttempts
      /\ attempts' = [attempts EXCEPT ![i] = attempts[i]]
  BY <1>1, <1>3, SizesAssumption DEF IInv, TypeOK
<1> QED
  BY <1>1, <1>2, <1>4, Settled

LEMMA MarkFailedKeeps == ASSUME IInv, NEW w \in Workers, MarkFailed(w) PROVE IInv'
<1> DEFINE i == result[w].item
           status == IF attempts[i] + 1 >= MaxAttempts THEN "FAILED" ELSE "PENDING"
<1>1. /\ result[w] # NoResult /\ outbox' = [outbox EXCEPT ![i] = status]
      /\ attempts' = [attempts EXCEPT ![i] = @ + 1] /\ Settle(w)
  BY DEF MarkFailed
<1>2. i \in Items /\ attempts[i] < MaxAttempts
  BY <1>1, ResultFacts
<1>3. attempts[i] \in Nat /\ MaxAttempts \in Nat
  BY <1>2, SizesAssumption DEF IInv, TypeOK
<1>4. /\ attempts[i] + 1 \in Nat /\ attempts[i] + 1 <= MaxAttempts
      /\ status = "FAILED" => attempts[i] + 1 = MaxAttempts
      /\ status = "PENDING" => attempts[i] + 1 < MaxAttempts
      /\ attempts' = [attempts EXCEPT ![i] = attempts[i] + 1]
  BY <1>1, <1>2, <1>3
<1>5. status \in {"COMPLETED", "PENDING", "FAILED"} /\ status # "COMPLETED"
  OBVIOUS
<1> HIDE DEF status
<1> QED
  BY <1>1, <1>4, <1>5, Settled

LEMMA WorkerDiesKeeps == ASSUME IInv, NEW w \in Workers, WorkerDies(w) PROVE IInv'
<1>1. /\ stranded' = stranded \cup claimed[w] /\ claimed' = [claimed EXCEPT ![w] = {}]
      /\ result' = [result EXCEPT ![w] = NoResult]
      /\ UNCHANGED <<disk, rows, owner, ticket, snapshot, outbox, attempts, upload, unlinks,
                     uncertain, overlooked>>
  BY DEF WorkerDies, databaseVars
<1>2. TypeOK'
  BY <1>1 DEF IInv, TypeOK, NoResult
<1>3. /\ claimed'[w] = {} /\ result'[w] = NoResult
      /\ \A v \in Workers : v # w => claimed'[v] = claimed[v] /\ result'[v] = result[v]
  BY <1>1 DEF IInv, TypeOK
<1>4. UploadInv' /\ DeletedInv' /\ SnapshotInv' /\ QueueInv' /\ RowHasFile' /\ RowHasTicket'
  BY <1>1, WorkerSpares
<1>5. OutboxInv'
  BY <1>1, <1>3 DEF IInv, OutboxInv
<1>6. WorkerInv'
  BY <1>1, <1>3, NothingSettled DEF IInv, WorkerInv
<1>7. ClaimIsExclusive' /\ CompletedIsGone'
  BY <1>1, <1>3 DEF IInv, ClaimIsExclusive, CompletedIsGone
<1> QED
  BY <1>2, <1>4, <1>5, <1>6, <1>7 DEF IInv
-----------------------------------------------------------------------------
(* The theorems.                                                            *)

LEMMA InitInv == Init => IInv
<1> SUFFICES ASSUME Init PROVE IInv
  OBVIOUS
<1>1. TypeOK
  BY SizesAssumption DEF Init, TypeOK, NoResult
<1>2. /\ UploadInv /\ DeletedInv /\ SnapshotInv /\ QueueInv /\ OutboxInv /\ WorkerInv
      /\ ClaimIsExclusive /\ RowHasFile /\ RowHasTicket /\ CompletedIsGone
  BY SizesAssumption
     DEF Init, UploadInv, DeletedInv, SnapshotInv, QueueInv, OutboxInv, WorkerInv, Committed,
         ClaimIsExclusive, RowHasFile, RowHasTicket, CompletedIsGone, NoResult
<1> QED
  BY <1>1, <1>2 DEF IInv

LEMMA StutterKeeps == IInv /\ UNCHANGED vars => IInv'
  BY DEF vars, databaseVars, workerVars, historyVars, IInv, TypeOK, UploadInv, DeletedInv,
         SnapshotInv, QueueInv, OutboxInv, WorkerInv, Committed, ClaimIsExclusive, RowHasFile,
         RowHasTicket, CompletedIsGone

LEMMA NextKeeps == IInv /\ [Next]_vars => IInv'
<1> SUFFICES ASSUME IInv, [Next]_vars PROVE IInv'
  OBVIOUS
<1>1. ASSUME NEW f \in Files, UploadStep(f) PROVE IInv'
  BY <1>1, StoreFileKeeps, InsertRowKeeps, CommitRowKeeps, FailRowKeeps, UndoUploadKeeps,
     UploadDiesKeeps DEF UploadStep
<1>2. ASSUME NEW f \in Files, DeleteAttachment(f) \/ Unlink(f) \/ UnlinkFails(f) PROVE IInv'
  BY <1>2, DeleteAttachmentKeeps, UnlinkKeeps
<1>3. ASSUME NEW t \in Tickets, StartTicketDelete(t) \/ FinishTicketDelete(t) PROVE IInv'
  BY <1>3, StartTicketDeleteKeeps, FinishTicketDeleteKeeps
<1>4. ASSUME NEW w \in Workers, WorkerStep(w) PROVE IInv'
  BY <1>4, ClaimItemsKeeps, TryUnlinkKeeps, MarkCompletedKeeps, MarkFailedKeeps,
     WorkerDiesKeeps DEF WorkerStep
<1>5. CASE UNCHANGED vars
  BY <1>5, StutterKeeps
<1> QED
  BY <1>1, <1>2, <1>3, <1>4, <1>5 DEF Next, DeleteStep

\* The inductive invariant of uploads, deletions and the outbox holds in every
\* reachable state.
THEOREM Invariance == Spec => []IInv
  BY InitInv, NextKeeps, PTL DEF Spec

\* Every variable keeps its type; in particular no outbox row is tried more often
\* than MAX_ATTEMPTS allows (mark_attachment_deletion_failed).
THEOREM TypeCorrect == Spec => []TypeOK
<1>1. IInv => TypeOK
  BY DEF IInv
<1> QED
  BY <1>1, Invariance, PTL

\* Nothing removes the file of a row that remains, but an upload whose commit was
\* not acknowledged (upload_attachment, delete_attachment, the outbox worker).
THEOREM FilesKept == Spec => []RowHasFile
<1>1. IInv => RowHasFile
  BY DEF IInv
<1> QED
  BY <1>1, Invariance, PTL

\* An upload that races with the deletion of its ticket leaves no row.
THEOREM NoOrphanRows == Spec => []RowHasTicket
<1>1. IInv => RowHasTicket
  BY DEF IInv
<1> QED
  BY <1>1, Invariance, PTL

\* The outbox says COMPLETED only of a file that is gone.
THEOREM CompletionTrue == Spec => []CompletedIsGone
<1>1. IInv => CompletedIsGone
  BY DEF IInv
<1> QED
  BY <1>1, Invariance, PTL

\* No two workers hold the same outbox row.
THEOREM ClaimsExclusive == Spec => []ClaimIsExclusive
<1>1. IInv => ClaimIsExclusive
  BY DEF IInv
<1> QED
  BY <1>1, Invariance, PTL

\* A file that outlives its row is pursued by an outbox row, was given up after
\* MAX_ATTEMPTS, or is one of the two named exceptions: overlooked by the DELETE
\* of its ticket, or stranded by the end of a worker.
LEMMA LeftoversPursued == IInv => LeftoversExplained
<1> SUFFICES ASSUME IInv, NEW f \in Leftover, f \notin overlooked
             PROVE  \E i \in Items : FileOf(i) = f /\ (Pursued(i) \/ i \in stranded)
  BY DEF LeftoversExplained
<1>1. f \in Files /\ f \in disk /\ f \notin rows /\ Committed(f)
  BY DEF Leftover, Committed, IInv, TypeOK
<1>2. PICK i \in Items : FileOf(i) = f /\ outbox[i] # "NONE"
  BY <1>1 DEF IInv, DeletedInv
<1>3. outbox[i] \in {"PENDING", "PROCESSING", "FAILED"}
  BY <1>1, <1>2 DEF IInv, TypeOK, CompletedIsGone
<1>4. CASE outbox[i] = "PENDING"
  BY <1>2, <1>4 DEF IInv, OutboxInv, Pursued, Claimable
<1>5. CASE outbox[i] = "PROCESSING"
  BY <1>2, <1>5 DEF IInv, OutboxInv, Pursued
<1>6. CASE outbox[i] = "FAILED"
  BY <1>2, <1>6 DEF IInv, OutboxInv, Pursued
<1> QED
  BY <1>3, <1>4, <1>5, <1>6

THEOREM LeftoversAccounted == Spec => []LeftoversExplained
  BY LeftoversPursued, Invariance, PTL
=============================================================================
