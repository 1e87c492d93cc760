------------------------------ MODULE RecordCodec ------------------------------
(***************************************************************************)
(* The on-disk form of a record: RaftLogAction::encode and decode          *)
(* (src/src/raft_log/raft_log_action.rs), the codec of RaftLogState        *)
(* (state_machine/raft_log_state.rs), and a chunk's bytes read back after  *)
(* a crash or damage, from the start or at a record's segment.             *)
(*                                                                         *)
(* The bytes are a sequence of tokens, one for each field the code writes: *)
(* the record type, a version, an Option's flag, a number, a length or one *)
(* byte of a string.  A checksum is a token that holds what it covers.     *)
(***************************************************************************)
EXTENDS RaftLogTypes, Sequences

CONSTANTS
  Records,      \* the records written
  Flips,        \* the numbers damage may leave in a field
  MaxWritten    \* bound on the records of the chunk

ASSUME CodecAssumption ==
  /\ Records \subseteq RaftLogRecord
  /\ Flips \subseteq Nat
  /\ MaxWritten \in Nat

VARIABLES
  records,   \* the records encoded so far
  bytes,     \* the chunk
  ends,      \* the end of each record's segment, from what encode returned
  fault,     \* what happened to the chunk: "open" while it is written, then
             \* "intact", "cut", "flip" or "zeros"
  flipped,   \* the token that was damaged, or 0
  at,        \* the reader's offset
  decoded,   \* what it has decoded
  outcome    \* "reading", "end", or the error that stopped it

vars == <<records, bytes, ends, fault, flipped, at, decoded, outcome>>

---------------------------------------------------------------------------
(* Tokens.                                                                 *)

Num(n) == [n |-> n, over |-> <<>>]

\* The bytes of a checksum are no number a field would hold.
Noise == 1000

Crc(covered) == [n |-> Noise, over |-> covered]

\* A field, and any token: the checksum of a record covers fields only.
Field == [n : Nat, over : {<<>>}]
Token == [n : Nat, over : Seq(Field)]

CHECKPOINT_RECORD_TYPE == 5

---------------------------------------------------------------------------
(* Encoding.                                                               *)

encode_log_id(id) == <<Num(id[1]), Num(id[2])>>

\* A payload is its size: a length and that many bytes.
encode_string(size) == <<Num(size)>> \o [k \in 1 .. size |-> Num(0)]

encode_option(value, none, encoded) ==
  IF value = none THEN <<Num(0)>> ELSE <<Num(1)>> \o encoded

encode_number(n) == <<Num(n)>>

\* RaftLogState::encode.
encode_state(s) ==
  <<Num(1)>> \o encode_option(s.vote, NoVote, encode_number(s.vote))
             \o encode_option(s.last, None, encode_log_id(s.last))
             \o encode_option(s.committed, None, encode_log_id(s.committed))
             \o encode_option(s.purged, None, encode_log_id(s.purged))
             \o encode_option(s.user_data, NoUserData, encode_string(s.user_data))

\* Mutant: a purge is written as a commit.
record_type_shared(rec) ==
  CASE rec.type = "SaveVote" -> 0
    [] rec.type = "Append" -> 1
    [] rec.type = "TruncateAfter" -> 3
    [] rec.type \in {"Commit", "PurgeUpto"} -> 2
    [] rec.type = "Checkpoint" -> CHECKPOINT_RECORD_TYPE

record_type(rec) ==
  CASE rec.type = "SaveVote" -> 0
    [] rec.type = "Append" -> 1
    [] rec.type = "Commit" -> 2
    [] rec.type = "TruncateAfter" -> 3
    [] rec.type = "PurgeUpto" -> 4
    [] rec.type = "Checkpoint" -> CHECKPOINT_RECORD_TYPE

encode_payload(rec) ==
  CASE rec.type = "SaveVote" -> encode_number(rec.vote)
    [] rec.type = "Append" -> encode_log_id(rec.log_id) \o encode_string(rec.payload)
    [] rec.type = "TruncateAfter" ->
         encode_option(rec.log_id, None, encode_log_id(rec.log_id))
    [] rec.type \in {"Commit", "PurgeUpto"} -> encode_log_id(rec.log_id)
    [] rec.type = "Checkpoint" -> encode_state(rec.state)

\* An action must not use the checkpoint's type.
Encodable(rec) == rec.type = "Checkpoint" \/ record_type(rec) # CHECKPOINT_RECORD_TYPE

encode(rec) ==
  LET body == <<Num(record_type(rec))>> \o encode_payload(rec)
  IN Append(body, Crc(body))

\* Mutant: the checksum is not counted.
encode_size_short(rec) == 1 + Len(encode_payload(rec))

\* What encode returns: the type, the payload and the checksum.
encode_size(rec) == 1 + Len(encode_payload(rec)) + 1

---------------------------------------------------------------------------
(* Decoding: a value and the place after it, or an error.                  *)

Ok(value, place) == [err |-> "", value |-> value, at |-> place]
Err(kind) == [err |-> kind, value |-> 0, at |-> 0]

Failures == {"eof", "invalid", "checksum"}

\* r, then what F makes of it: the `?` of the code.
Then(r, F(_, _)) == IF r.err = "" THEN F(r.value, r.at) ELSE r

decode_number(b, p) == IF p > Len(b) THEN Err("eof") ELSE Ok(b[p].n, p + 1)

decode_log_id(b, p) ==
  IF p + 1 > Len(b) THEN Err("eof") ELSE Ok(<<b[p].n, b[p + 1].n>>, p + 2)

decode_string(b, p) ==
  Then(decode_number(b, p), LAMBDA size, q :
    IF q + size - 1 > Len(b) THEN Err("eof") ELSE Ok(size, q + size))

decode_option(D(_, _), none, b, p) ==
  Then(decode_number(b, p), LAMBDA flag, q :
    CASE flag = 0 -> Ok(none, q)
      [] flag = 1 -> D(b, q)
      [] OTHER -> Err("invalid"))

\* RaftLogState::decode.
decode_state(b, p) ==
  Then(decode_number(b, p), LAMBDA ver, p1 :
    IF ver # 1 THEN Err("invalid") ELSE
    Then(decode_option(decode_number, NoVote, b, p1), LAMBDA vote, p2 :
    Then(decode_option(decode_log_id, None, b, p2), LAMBDA last, p3 :
    Then(decode_option(decode_log_id, None, b, p3), LAMBDA committed, p4 :
    Then(decode_option(decode_log_id, None, b, p4), LAMBDA purged, p5 :
    Then(decode_option(decode_string, NoUserData, b, p5), LAMBDA user_data, p6 :
      Ok([vote |-> vote, last |-> last, committed |-> committed,
          purged |-> purged, user_data |-> user_data], p6)))))))

decode_payload(typ, b, p) ==
  CASE typ = 0 -> Then(decode_number(b, p), LAMBDA vote, q : Ok(SaveVoteAction(vote), q))
    [] typ = 1 -> Then(decode_log_id(b, p), LAMBDA id, q :
                    Then(decode_string(b, q), LAMBDA payload, q2 :
                      Ok(AppendAction(id, payload), q2)))
    [] typ = 2 -> Then(decode_log_id(b, p), LAMBDA id, q : Ok(CommitAction(id), q))
    [] typ = 3 -> Then(decode_option(decode_log_id, None, b, p), LAMBDA id, q :
                    Ok(TruncateAfterAction(id), q))
    [] typ = 4 -> Then(decode_log_id(b, p), LAMBDA id, q : Ok(PurgeUptoAction(id), q))
    [] typ = CHECKPOINT_RECORD_TYPE ->
         Then(decode_state(b, p), LAMBDA s, q : Ok(CheckpointRecord(s), q))
    [] OTHER -> Err("invalid")

\* Mutant: any checksum will do.
verify_checksum_any(b, from, p, rec) ==
  IF p > Len(b) THEN Err("eof") ELSE Ok(rec, p + 1)

\* The checksum covers everything read since the record's first byte.
verify_checksum(b, from, p, rec) ==
  CASE p > Len(b) -> Err("eof")
    [] p <= Len(b) /\ b[p] = Crc(SubSeq(b, from, p - 1)) -> Ok(rec, p + 1)
    [] OTHER -> Err("checksum")

decode(b, p) ==
  Then(decode_number(b, p), LAMBDA typ, q :
    Then(decode_payload(typ, b, q), LAMBDA rec, q2 : verify_checksum(b, p, q2, rec)))

---------------------------------------------------------------------------
(* A chunk that is written, suffers a fault, and is read.                  *)

Start(k) == IF k = 1 THEN 0 ELSE ends[k - 1]

AppendRecord(rec) ==
  /\ fault = "open" /\ Len(records) < MaxWritten
  /\ Encodable(rec)
  /\ records' = Append(records, rec)
  /\ bytes' = bytes \o encode(rec)
  /\ ends' = Append(ends, Start(Len(records) + 1) + encode_size(rec))
  /\ UNCHANGED <<fault, flipped, at, decoded, outcome>>

Close(kind, left, token) ==
  /\ fault = "open"
  /\ fault' = kind
  /\ bytes' = left
  /\ flipped' = token
  /\ UNCHANGED <<records, ends, at, decoded, outcome>>

Intact == Close("intact", bytes, 0)

\* A crash: the file ends anywhere.
Cut == \E n \in 0 .. Len(bytes) - 1 : Close("cut", SubSeq(bytes, 1, n), 0)

\* Damage: one field holds another number.
Flip == \E k \in 1 .. Len(bytes), n \in Flips :
          Num(n) # bytes[k] /\ Close("flip", [bytes EXCEPT ![k] = Num(n)], k)

\* A crash on a filesystem that leaves zeros at the end.
Zeros == \E n \in 1 .. 4 : Close("zeros", bytes \o [k \in 1 .. n |-> Num(0)], 0)

\* The reader decodes the records of a chunk one after another.
DecodeNext ==
  LET r == decode(bytes, at + 1) IN
  /\ fault # "open" /\ outcome = "reading"
  /\ \/ /\ at = Len(bytes)
        /\ outcome' = "end"
        /\ UNCHANGED <<at, decoded>>
     \/ /\ at < Len(bytes)
        /\ IF r.err = ""
             THEN /\ at' = r.at - 1
                  /\ decoded' = Append(decoded, r.value)
                  /\ UNCHANGED outcome
             ELSE /\ outcome' = r.err
                  /\ UNCHANGED <<at, decoded>>
  /\ UNCHANGED <<records, bytes, ends, fault, flipped>>

Init ==
  /\ records = <<>> /\ bytes = <<>> /\ ends = <<>>
  /\ fault = "open" /\ flipped = 0
  /\ at = 0 /\ decoded = <<>> /\ outcome = "reading"

Next == (\E rec \in Records : AppendRecord(rec))
          \/ Intact \/ Cut \/ Flip \/ Zeros \/ DecodeNext

Spec == Init /\ [][Next]_vars

---------------------------------------------------------------------------
(* Properties.                                                             *)

\* The records that lie whole in front of the first missing or damaged byte.
Whole ==
  {k \in 1 .. Len(records) :
     /\ ends[k] <= Len(bytes)
     /\ fault = "flip" => ends[k] < flipped}

\* Whatever a crash or damage did to the chunk, decoding yields exactly the
\* records in front of it, each equal to the one encoded and none made of the
\* bytes of two (RaftLogAction::decode "does not consume next record").
DecodesWhatWasWritten ==
  /\ Len(decoded) <= Len(records)
  /\ decoded = SubSeq(records, 1, Len(decoded))
  /\ outcome # "reading" => {k \in 1 .. Len(records) : k <= Len(decoded)} = Whole

\* Decoding ends without an error exactly when nothing is wrong: a cut inside
\* a record, a damaged field (of the type, a length or a flag too, which shift
\* everything after them) or a tail of zeros, which starts like a SaveVote, is
\* never taken for the end of the chunk.
FaultsAreErrors ==
  outcome # "reading" =>
    (outcome = "end" <=> \/ fault = "intact"
                         \/ fault = "cut" /\ Len(bytes) \in {0} \cup {ends[k] : k \in 1 .. Len(ends)})

\* A record can be read at its segment alone (RaftLog::read), however far the
\* reader of the chunk got: the sizes encode returned lead to its first byte
\* and its decoder stops at its last. Damage of other records is no matter.
SegmentsReadBack ==
  \A k \in 1 .. Len(records) :
    LET hit == fault = "flip" /\ Start(k) < flipped /\ flipped <= ends[k]
        r == decode(bytes, Start(k) + 1)
    IN IF ends[k] <= Len(bytes) /\ ~hit THEN r = Ok(records[k], ends[k] + 1)
       ELSE r.err # ""

---------------------------------------------------------------------------
(* The inductive invariant behind the theorems of RecordCodecProofs.       *)

\* Where the last record ends.
Total == Start(Len(records) + 1)

\* The segments follow each other without gap or overlap.
SegmentsTile ==
  /\ records \in Seq(RaftLogRecord)
  /\ ends \in Seq(Nat) /\ Len(ends) = Len(records)
  /\ \A k \in 1 .. Len(records) : ends[k] = Start(k) + Len(encode(records[k]))
  /\ \A k \in 1 .. Len(records) : \A j \in 1 .. k - 1 : ends[j] <= Start(k)
  /\ \A q \in 1 .. Total : \E k \in 1 .. Len(records) : Start(k) < q /\ q <= ends[k]

\* In a segment are the bytes encode made, except for the damaged one, which
\* differs; behind the segments and in the damaged place there is no checksum.
BytesHeld ==
  /\ bytes \in Seq(Token)
  /\ \A k \in 1 .. Len(records) : \A i \in 1 .. Len(encode(records[k])) :
       Start(k) + i <= Len(bytes) =>
         (bytes[Start(k) + i] = encode(records[k])[i] <=> Start(k) + i # flipped)
  /\ \A q \in 1 .. Len(bytes) : q = flipped \/ q > Total => bytes[q].over = <<>>

FaultPlaced ==
  /\ fault \in {"open", "intact", "cut", "flip", "zeros"}
  /\ fault = "flip" => flipped \in 1 .. Total
  /\ fault # "flip" => flipped = 0
  /\ fault \in {"open", "intact", "flip"} => Len(bytes) = Total
  /\ fault = "cut" => Len(bytes) < Total
  /\ fault = "zeros" => Len(bytes) > Total

\* The reader stands behind the last record it has decoded, all of it in front
\* of the fault, and stopped at the end of the bytes or where decode fails.
ReaderPlaced ==
  /\ fault = "open" => decoded = <<>> /\ outcome = "reading"
  /\ Len(decoded) <= Len(records)
  /\ decoded = SubSeq(records, 1, Len(decoded))
  /\ at = Start(Len(decoded) + 1)
  /\ \A k \in 1 .. Len(decoded) : k \in Whole
  /\ outcome \in {"reading", "end"} \cup Failures
  /\ outcome = "end" => at = Len(bytes)
  /\ outcome \in Failures => at < Len(bytes) /\ decode(bytes, at + 1).err # ""

\* However the chunk was written and whatever happened to it, its tokens, the
\* segments encode reported, the fault and the reader agree: what makes
\* RaftLogAction::decode stop at a record's last byte or fail.
CodecInv == SegmentsTile /\ BytesHeld /\ FaultPlaced /\ ReaderPlaced
=============================================================================
