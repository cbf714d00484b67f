----------------------------- MODULE KeyRotation -----------------------------
(***************************************************************************)
(* Rotation of the key encryption key (KEK) under the wrapped data keys of *)
(* pii_encrypted_fields: batches that an operator starts, resumes,         *)
(* verifies and rolls back, each worked on by background runs of           *)
(* executeRotation that may overlap, fail at the KMS or die with their     *)
(* process.                                                                *)
(*                                                                         *)
(* Records are numbered in the order of created_at; no code inserts one.   *)
(* A wrapped data key is abstracted to the key it is wrapped under: the    *)
(* KEK whose id is given when PII_KMS_ENDPOINT is set, and otherwise the   *)
(* one PII_KEK_KEY of the processes, whatever id is given.                 *)
(***************************************************************************)
EXTENDS Naturals, Sequences, FiniteSets

CONSTANTS
    NRecords, Batches, NoBatch,
    Keys,               \* the ids of KEKs that PII_KEK_ID and requests may name
    LocalKey,           \* PII_KEK_KEY
    Runs,               \* concurrent calls of executeRotation
    PageSize,           \* ROTATION_CONFIG.BATCH_SIZE
    MaxRotationFaults   \* bound on KMS failures and lost processes

ASSUME RotationAssumption ==
    NRecords \in Nat /\ PageSize \in Nat \ {0} /\ MaxRotationFaults \in Nat

VARIABLES
    kms,            \* whether PII_KMS_ENDPOINT is set
    piiFields,      \* record -> its dek_kek_id and the key dek_wrapped is under
    rotationBatch,  \* key_rotation_batch
    rotationRows,   \* key_rotation_record: batch -> record -> status
    rotationRun,    \* the calls of executeRotation under way
    rotationFaults

rotationVars == <<kms, piiFields, rotationBatch, rotationRows, rotationRun, rotationFaults>>

-------------------------------------------------------------------------------
PiiRecords == 1..NRecords

Wrapped(key) == [label |-> key, under |-> IF kms THEN key ELSE LocalKey]

Unstarted == [status |-> "none", oldKey |-> LocalKey, newKey |-> LocalKey, failed |-> FALSE,
              last |-> FALSE, verified |-> FALSE]

NoRun == [pc |-> "idle", batch |-> NoBatch, offset |-> 0, todo |-> <<>>, size |-> 0,
          failed |-> FALSE]

RotationInit ==
    /\ kms \in BOOLEAN
    /\ \E key \in Keys : piiFields = [r \in PiiRecords |-> Wrapped(key)]
    /\ rotationBatch = [b \in Batches |-> Unstarted]
    /\ rotationRows = [b \in Batches |-> [r \in PiiRecords |-> "none"]]
    /\ rotationRun = [x \in Runs |-> NoRun]
    /\ rotationFaults = 0

Spawned(x, b) == [rotationRun EXCEPT ![x] = [NoRun EXCEPT !.pc = "read", !.batch = b]]

(* Only a batch already in progress is refused; the new one is 'pending'    *)
(* until its run sets it, so two may be started.  The answer of             *)
(* validateKekAccess lies between the check and the insert: "checked"       *)
(* stands for a call of startRotation that has passed the check.            *)
StartRotation(b) ==
    /\ rotationBatch[b].status = "none"
    /\ \A c \in Batches : rotationBatch[c].status # "in_progress"
    /\ rotationBatch' = [rotationBatch EXCEPT ![b].status = "checked"]
    /\ UNCHANGED <<kms, piiFields, rotationRows, rotationRun, rotationFaults>>

(* old is PII_KEK_ID of the process that serves the request, which an       *)
(* operator may have set to any key, before or after the records were       *)
(* rotated; new is the request's, and may be the same.                      *)
InsertBatch(b, x, old, new) ==
    /\ rotationBatch[b].status = "checked"
    /\ rotationRun[x].pc = "idle"
    /\ rotationBatch' = [rotationBatch EXCEPT ![b].status = "pending", ![b].oldKey = old,
                                              ![b].newKey = new]
    /\ rotationRun' = Spawned(x, b)
    /\ UNCHANGED <<kms, piiFields, rotationRows, rotationFaults>>

ResumeRotation(b, x) ==
    /\ rotationBatch[b].status \in {"pending", "in_progress", "failed"}
    /\ rotationRun[x].pc = "idle"
    /\ rotationBatch' = [rotationBatch EXCEPT ![b].status = "in_progress"]
    /\ rotationRun' = Spawned(x, b)
    /\ UNCHANGED <<kms, piiFields, rotationRows, rotationFaults>>

\* Mutant: a batch worked on before starts two records in.
OffsetTooFar(b) == IF rotationBatch[b].last THEN 2 ELSE 0

Offset(b) == IF rotationBatch[b].last THEN 1 ELSE 0

(* executeRotation reads the batch, whose keys never change, marks it, and  *)
(* starts one record in if a page of it has been worked through before.     *)
ReadBatch(x) ==
    LET b == rotationRun[x].batch
    IN  /\ rotationRun[x].pc = "read"
        /\ rotationRun' = [rotationRun EXCEPT ![x].pc = "scan", ![x].offset = Offset(b)]
        /\ rotationBatch' = [rotationBatch EXCEPT ![b].status = "in_progress"]
        /\ UNCHANGED <<kms, piiFields, rotationRows, rotationFaults>>

(* The page: records labelled with the batch's old key, oldest first.       *)
Page(key, offset) ==
    LET old[n \in 0..NRecords] ==
            IF n = 0 THEN <<>>
            ELSE IF piiFields[n].label = key THEN Append(old[n - 1], n) ELSE old[n - 1]
        left == Len(old[NRecords])
        end == IF left < offset + PageSize THEN left ELSE offset + PageSize
    IN  SubSeq(old[NRecords], offset + 1, end)

ScanRecords(x) ==
    LET b == rotationRun[x].batch
        page == Page(rotationBatch[b].oldKey, rotationRun[x].offset)
    IN  /\ rotationRun[x].pc = "scan"
        /\ \/ /\ page = <<>>
              /\ rotationBatch' = [rotationBatch EXCEPT ![b].status = "completed"]
              /\ rotationRun' = [rotationRun EXCEPT ![x] = NoRun]
           \/ /\ page # <<>>
              /\ rotationRun' = [rotationRun EXCEPT ![x].pc = "rotate", ![x].todo = page,
                                                    ![x].size = Len(page)]
              /\ UNCHANGED rotationBatch
        /\ UNCHANGED <<kms, piiFields, rotationRows, rotationFaults>>

Rewrapped(r, key) == [piiFields EXCEPT ![r] = Wrapped(key)]

(* rotateRecordWithRetry: the data key read with the page is unwrapped and  *)
(* wrapped again, and key and label are written by id, whatever the record  *)
(* has become.  The 'rotated' row it then inserts has no batch id, which    *)
(* the table refuses, so the record is counted as failed either way; the    *)
(* KMS may also have failed on every retry.                                 *)
RotateRecord(x) ==
    LET run == rotationRun[x]
        r == Head(run.todo)
    IN  /\ run.pc = "rotate" /\ run.todo # <<>>
        /\ \/ /\ piiFields' = Rewrapped(r, rotationBatch[run.batch].newKey)
              /\ UNCHANGED rotationFaults
           \/ /\ rotationFaults < MaxRotationFaults
              /\ rotationFaults' = rotationFaults + 1
              /\ UNCHANGED piiFields
        /\ rotationRows' = [rotationRows EXCEPT ![run.batch][r] = "failed"]
        /\ rotationRun' = [rotationRun EXCEPT ![x].todo = Tail(@), ![x].failed = TRUE]
        /\ UNCHANGED <<kms, rotationBatch>>

(* Progress is recorded; a full page is followed by another one.            *)
EndPage(x) ==
    LET run == rotationRun[x]
    IN  /\ run.pc = "rotate" /\ run.todo = <<>>
        /\ rotationBatch' = [rotationBatch EXCEPT ![run.batch].last = TRUE,
                                                  ![run.batch].failed = @ \/ run.failed]
        /\ rotationRun' = [rotationRun EXCEPT
                             ![x] = [NoRun EXCEPT !.pc = IF run.size = PageSize THEN "read" ELSE "end",
                                                  !.batch = run.batch]]
        /\ UNCHANGED <<kms, piiFields, rotationRows, rotationFaults>>

EndRotation(x) ==
    LET b == rotationRun[x].batch
    IN  /\ rotationRun[x].pc = "end"
        /\ rotationBatch' = [rotationBatch EXCEPT
                               ![b].status = IF rotationBatch[b].failed THEN "failed" ELSE "completed"]
        /\ rotationRun' = [rotationRun EXCEPT ![x] = NoRun]
        /\ UNCHANGED <<kms, piiFields, rotationRows, rotationFaults>>

(* verifyRotation unwraps a sample of the rows marked 'rotated' with the    *)
(* new key; no row, no failure.                                             *)
VerifyRotation(b) ==
    /\ rotationBatch[b].status \notin {"none", "checked"}
    /\ rotationBatch' =
         [rotationBatch EXCEPT
            ![b].verified = \A r \in PiiRecords : rotationRows[b][r] = "rotated"
                                                => piiFields[r].under = Wrapped(rotationBatch[b].newKey).under]
    /\ UNCHANGED <<kms, piiFields, rotationRows, rotationRun, rotationFaults>>

(* rollbackRotation marks rows and the batch; no data key is wrapped again. *)
RollbackRotation(b) ==
    /\ rotationBatch[b].status \notin {"none", "checked"}
    /\ rotationRows' = [rotationRows EXCEPT
                          ![b] = [r \in PiiRecords |-> IF @[r] = "rotated" THEN "rolled_back" ELSE @[r]]]
    /\ rotationBatch' = [rotationBatch EXCEPT ![b].status = "rolled_back"]
    /\ UNCHANGED <<kms, piiFields, rotationRun, rotationFaults>>

(* A query fails or the process of a run stops; the batch keeps its status. *)
RunLost(x) ==
    /\ rotationRun[x].pc # "idle" /\ rotationFaults < MaxRotationFaults
    /\ rotationFaults' = rotationFaults + 1
    /\ rotationRun' = [rotationRun EXCEPT ![x] = NoRun]
    /\ UNCHANGED <<kms, piiFields, rotationBatch, rotationRows>>

RotationNext ==
    \/ \E b \in Batches :
          \/ StartRotation(b) \/ VerifyRotation(b) \/ RollbackRotation(b)
          \/ \E x \in Runs : ResumeRotation(b, x) \/ \E old, new \in Keys : InsertBatch(b, x, old, new)
    \/ \E x \in Runs :
          \/ ReadBatch(x) \/ ScanRecords(x) \/ RotateRecord(x) \/ EndPage(x) \/ EndRotation(x)
          \/ RunLost(x)

RotationSpec == RotationInit /\ [][RotationNext]_rotationVars

-------------------------------------------------------------------------------
IsInserted(b) == rotationBatch[b].status \notin {"none", "checked"}

(* A batch is completed only when no more than one record is labelled with  *)
(* the key it was to leave, and, where a KMS wraps the data keys, only when *)
(* no more than one is wrapped under it: whatever runs overlap, fail or are *)
(* lost, whichever batch rotated a record, and however often the batch is   *)
(* resumed, as long as that key is not the new key of any batch.            *)
CompletedLeavesOne ==
    \A b \in Batches :
        LET old == rotationBatch[b].oldKey
        IN  /\ rotationBatch[b].status = "completed"
            /\ \A c \in Batches : IsInserted(c) => rotationBatch[c].newKey # old
            => /\ Cardinality({r \in PiiRecords : piiFields[r].label = old}) <= 1
               /\ kms => Cardinality({r \in PiiRecords : piiFields[r].under = old}) <= 1
==============================================================================
