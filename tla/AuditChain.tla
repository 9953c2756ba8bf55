------------------------------ MODULE AuditChain ------------------------------
(***************************************************************************)
(* ChainedAuditLog of shared/audit_chain.py.                               *)
(*                                                                         *)
(* A record's signature is over its own fields and the signature of the    *)
(* record before it; here it is that pair itself, which is as hard to      *)
(* reproduce with other contents.  When the log is full it is rotated:     *)
(* only the last signature of the old records is kept.  The log has no     *)
(* lock and is used by one thread.                                         *)
(***************************************************************************)
EXTENDS Naturals, Sequences, SequencesExt

CONSTANTS
    Events,
    NoSignature,    \* previous_hmac of the very first record
    Limits,         \* the values of the parameter max_records, made 0 if negative
    RecordBound     \* records appended in a behaviour

ASSUME AuditAssumption == Limits \subseteq Nat

VARIABLES
    max_records,    \* _max_records: 0 is unlimited
    records,        \* _records
    rotations,      \* _rotations
    sequence,       \* _global_sequence
    archive         \* history: every record ever appended

auditVars == <<max_records, records, rotations, sequence, archive>>

AuditInit ==
    /\ max_records \in Limits
    /\ records = <<>>
    /\ rotations = <<>>
    /\ sequence = 0
    /\ archive = <<>>

\* hmac over the record's payload: equal for equal payloads only.  The chain below
\* is represented by its length and its last event.
Sign(seq, event, previous) ==
    [seq |-> seq, event |-> event,
     chain |-> IF previous = NoSignature THEN <<>> ELSE Append(previous.chain, previous.event)]

RotationRecord ==
    [record_count |-> Len(records), first_sequence |-> Head(records).sequence,
     last_sequence |-> Last(records).sequence, last_hmac |-> Last(records).hmac]

PreviousInSegment(recs, rots) ==    \* mutant: the chain starts afresh after a rotation
    IF recs # <<>> THEN Last(recs).hmac ELSE NoSignature

Previous(recs, rots) ==
    IF recs # <<>> THEN Last(recs).hmac
    ELSE IF rots # <<>> THEN Last(rots).last_hmac
    ELSE NoSignature

\* rotate(): nothing to do on an empty log.
Rotate ==
    /\ records # <<>>
    /\ rotations' = Append(rotations, RotationRecord)
    /\ records' = <<>>
    /\ UNCHANGED <<max_records, sequence, archive>>

\* append(): a full log is rotated first.
AppendRecord(event) ==
    /\ sequence < RecordBound
    /\ LET full == max_records > 0 /\ Len(records) >= max_records
           recs == IF full THEN <<>> ELSE records
           rots == IF full THEN Append(rotations, RotationRecord) ELSE rotations
           previous == Previous(recs, rots)
           record == [sequence |-> sequence, event |-> event, previous_hmac |-> previous,
                      hmac |-> Sign(sequence, event, previous)]
       IN  /\ records' = Append(recs, record)
           /\ rotations' = rots
           /\ archive' = Append(archive, record)
    /\ sequence' = sequence + 1
    /\ UNCHANGED max_records

AuditNext == Rotate \/ \E event \in Events : AppendRecord(event)

AuditSpec == AuditInit /\ [][AuditNext]_auditVars

\* verify(): no violation in the records kept.
Verifies ==
    \A i \in DOMAIN records :
      LET r == records[i]
          expected == IF i = 1 THEN Previous(<<>>, rotations) ELSE records[i - 1].hmac
      IN  r.previous_hmac = expected /\ r.hmac = Sign(r.sequence, r.event, r.previous_hmac)
-----------------------------------------------------------------------------
\* The number of records that have been rotated away.
RotatedAway == IF rotations = <<>> THEN 0 ELSE Last(rotations).last_sequence + 1

\* The chain survives its rotations: the log verifies, the records kept are the
\* newest ones and within the limit, and all records ever appended, rotated away
\* or not, are numbered without a gap and chained each to the one before, with
\* the rotation records naming the ends of the segments.
ChainUnbroken ==
    /\ Verifies
    /\ max_records > 0 => Len(records) <= max_records
    /\ RotatedAway + Len(records) = Len(archive) /\ sequence = Len(archive)
    /\ \A i \in DOMAIN records : records[i] = archive[RotatedAway + i]
    /\ \A i \in DOMAIN archive :
         /\ archive[i].sequence = i - 1
         /\ archive[i].previous_hmac = IF i = 1 THEN NoSignature ELSE archive[i - 1].hmac
    /\ \A k \in DOMAIN rotations :
         /\ rotations[k].last_hmac = archive[rotations[k].last_sequence + 1].hmac
         /\ rotations[k].first_sequence = IF k = 1 THEN 0 ELSE rotations[k - 1].last_sequence + 1
         /\ rotations[k].record_count = rotations[k].last_sequence - rotations[k].first_sequence + 1
=============================================================================
