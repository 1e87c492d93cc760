--------------------------- MODULE RecordCodecProofs ---------------------------
(***************************************************************************)
(* Theorems about the record codec, for every record and every fault.      *)
(***************************************************************************)
EXTENDS RecordCodec, SequenceTheorems, TLAPS

---------------------------------------------------------------------------
(* What a decoder does with any bytes: it fails, or stops further on.      *)

Result(r, p) ==
  \/ r.err \in Failures
  \/ r.err = "" /\ r.at \in Nat \ {0} /\ r.at >= p

\* What a successful result holds.
LEMMA OkFields == ASSUME NEW v, NEW q PROVE Ok(v, q).err = "" /\ Ok(v, q).value = v /\ Ok(v, q).at = q
  BY DEF Ok

\* What a failed result holds.
LEMMA ErrFields == ASSUME NEW k PROVE Err(k).err = k
  BY DEF Err

\* A success at or after p is a result of a decoder that started at p.
LEMMA OkResult ==
  ASSUME NEW p \in Nat \ {0}, NEW v, NEW q \in Nat, q >= p PROVE Result(Ok(v, q), p)
<1>1. Ok(v, q).err = "" /\ Ok(v, q).at = q
   BY OkFields, Zenon
<1>2. q \in Nat \ {0}
  OBVIOUS
<1> QED
  BY <1>1, <1>2, Zenon DEF Result
  
\* So is a failure.
LEMMA ErrResult ==
  ASSUME NEW p, NEW k \in Failures
  PROVE Result(Err(k), p) /\ Err(k).err # ""
<1>1. Err(k).err = k
   BY ErrFields, Zenon
<1>2. k # ""
  BY DEF Failures
<1> QED
  BY <1>1, <1>2, Zenon DEF Result

\* Where a successful decoder stopped.
LEMMA ResultOk ==
  ASSUME NEW p, NEW r, Result(r, p), r.err = ""
  PROVE  r.at \in Nat \ {0} /\ r.at >= p
<1>1. "" \notin Failures
  BY DEF Failures
<1> QED
  BY <1>1, Zenon DEF Result

\* A failure is a failure wherever decoding started.
LEMMA ResultErr ==
  ASSUME NEW p, NEW r, Result(r, p), r.err # "", NEW q
  PROVE  Result(r, q)
  BY Zenon DEF Result

\* A result of a decoder that started later.
LEMMA ResultEarlier ==
  ASSUME NEW p \in Nat \ {0}, NEW q \in Nat \ {0}, q >= p, NEW r, Result(r, q)
  PROVE  Result(r, p)
<1>1. \A x \in Nat \ {0} : x >= q => x >= p
  OBVIOUS
<1> QED
  BY <1>1, Zenon DEF Result

\* The errors of a decoder.
LEMMA FailureKinds == "eof" \in Failures /\ "invalid" \in Failures /\ "checksum" \in Failures
  BY DEF Failures

\* A fixed-size number is read from one token, or the bytes have ended.
LEMMA NumberResult ==
  ASSUME NEW b \in Seq(Token), NEW p \in Nat \ {0}
  PROVE  /\ Result(decode_number(b, p), p)
         /\ decode_number(b, p).err = "" =>
              /\ decode_number(b, p).value \in Nat
              /\ decode_number(b, p).at = p + 1
<1>1. CASE p > Len(b)
  <2>1. decode_number(b, p) = Err("eof")
    BY <1>1, Zenon DEF decode_number
  <2> QED
    BY <2>1, ErrResult, FailureKinds, Zenon
<1>2. CASE ~(p > Len(b))
  <2>1. decode_number(b, p) = Ok(b[p].n, p + 1)
    BY <1>2, Zenon DEF decode_number
  <2>2. b[p] \in Token
    BY <1>2
  <2>3. b[p].n \in Nat
    BY <2>2 DEF Token
  <2>4. p + 1 \in Nat /\ p + 1 >= p
    OBVIOUS
  <2>5. Result(Ok(b[p].n, p + 1), p)
    BY <2>4, OkResult, Zenon
  <2>6. /\ Ok(b[p].n, p + 1).value = b[p].n
        /\ Ok(b[p].n, p + 1).at = p + 1
    BY OkFields, Zenon
  <2> QED
    BY <2>1, <2>3, <2>5, <2>6, Zenon
<1> QED
  BY <1>1, <1>2, Zenon

\* Decoding a log id succeeds further on or fails.
LEMMA LogIdResult ==
  ASSUME NEW b \in Seq(Token), NEW p \in Nat \ {0}
  PROVE  Result(decode_log_id(b, p), p)
<1>1. \/ decode_log_id(b, p) = Err("eof")
      \/ decode_log_id(b, p) = Ok(<<b[p].n, b[p + 1].n>>, p + 2)
  BY Zenon DEF decode_log_id
<1>2. p + 2 \in Nat /\ p + 2 >= p
  OBVIOUS
<1> QED
  BY <1>1, <1>2, OkResult, ErrResult, FailureKinds, Zenon

\* Decoding a string, by how its length decodes.
LEMMA StringCases ==
  ASSUME NEW b, NEW p
  PROVE  LET r == decode_number(b, p) IN
         /\ r.err # "" => decode_string(b, p) = r
         /\ r.err = "" /\ r.at + r.value - 1 > Len(b) => decode_string(b, p) = Err("eof")
         /\ r.err = "" /\ ~(r.at + r.value - 1 > Len(b)) =>
              decode_string(b, p) = Ok(r.value, r.at + r.value)
  BY Zenon DEF decode_string, Then

\* Decoding a string succeeds further on or fails, whatever its length says.
LEMMA StringResult ==
  ASSUME NEW b \in Seq(Token), NEW p \in Nat \ {0}
  PROVE  Result(decode_string(b, p), p)
<1> DEFINE r == decode_number(b, p)
<1>1. CASE r.err # ""
  BY <1>1, NumberResult, StringCases, Zenon
<1>2. CASE r.err = ""
  <2>1. \A v, q \in Nat : q = p + 1 => q + v \in Nat /\ q + v >= p
    OBVIOUS
  <2>2. p + 1 \in Nat
    OBVIOUS
  <2>3. r.at + r.value \in Nat /\ r.at + r.value >= p
    BY <1>2, <2>1, <2>2, NumberResult, Zenon
  <2> QED
    BY <1>2, <2>3, StringCases, OkResult, ErrResult, FailureKinds, Zenon
<1> QED
  BY <1>1, <1>2, Zenon

\* Decoding an Option<Vote>, by its flag.
LEMMA OptNumberCases ==
  ASSUME NEW b, NEW p
  PROVE  LET r == decode_number(b, p)
             o == decode_option(decode_number, NoVote, b, p) IN
         /\ r.err # "" => o = r
         /\ r.err = "" /\ r.value = 0 => o = Ok(NoVote, r.at)
         /\ r.err = "" /\ r.value = 1 => o = decode_number(b, r.at)
         /\ r.err = "" /\ r.value # 0 /\ r.value # 1 => o = Err("invalid")
<1>1. 0 # 1
  OBVIOUS
<1> QED
  BY <1>1, Zenon DEF decode_option, Then

\* Decoding an Option<LogId>, by its flag.
LEMMA OptLogIdCases ==
  ASSUME NEW b, NEW p
  PROVE  LET r == decode_number(b, p)
             o == decode_option(decode_log_id, None, b, p) IN
         /\ r.err # "" => o = r
         /\ r.err = "" /\ r.value = 0 => o = Ok(None, r.at)
         /\ r.err = "" /\ r.value = 1 => o = decode_log_id(b, r.at)
         /\ r.err = "" /\ r.value # 0 /\ r.value # 1 => o = Err("invalid")
<1>1. 0 # 1
  OBVIOUS
<1> QED
  BY <1>1, Zenon DEF decode_option, Then

\* Decoding the optional user data, by its flag.
LEMMA OptStringCases ==
  ASSUME NEW b, NEW p
  PROVE  LET r == decode_number(b, p)
             o == decode_option(decode_string, NoUserData, b, p) IN
         /\ r.err # "" => o = r
         /\ r.err = "" /\ r.value = 0 => o = Ok(NoUserData, r.at)
         /\ r.err = "" /\ r.value = 1 => o = decode_string(b, r.at)
         /\ r.err = "" /\ r.value # 0 /\ r.value # 1 => o = Err("invalid")
<1>1. 0 # 1
  OBVIOUS
<1> QED
  BY <1>1, Zenon DEF decode_option, Then

\* Decoding an Option succeeds further on or fails.
LEMMA OptionResults ==
  ASSUME NEW b \in Seq(Token), NEW p \in Nat \ {0}
  PROVE  /\ Result(decode_option(decode_number, NoVote, b, p), p)
         /\ Result(decode_option(decode_log_id, None, b, p), p)
         /\ Result(decode_option(decode_string, NoUserData, b, p), p)
<1> DEFINE r == decode_number(b, p)
<1>1. CASE r.err # ""
  BY <1>1, NumberResult, OptNumberCases, OptLogIdCases, OptStringCases, Zenon
<1>2. CASE r.err = ""
  <2>1. p + 1 \in Nat \ {0} /\ p + 1 \in Nat /\ p + 1 >= p
    OBVIOUS
  <2>2. r.at \in Nat \ {0} /\ r.at \in Nat /\ r.at >= p
    BY <1>2, <2>1, NumberResult, Zenon
  <2>3. /\ Result(decode_number(b, r.at), p)
        /\ Result(decode_log_id(b, r.at), p)
        /\ Result(decode_string(b, r.at), p)
    BY <2>2, NumberResult, LogIdResult, StringResult, ResultEarlier, Zenon
  <2>4. /\ Result(Ok(NoVote, r.at), p) /\ Result(Ok(None, r.at), p)
        /\ Result(Ok(NoUserData, r.at), p) /\ Result(Err("invalid"), p)
    BY <2>2, OkResult, ErrResult, FailureKinds, Zenon
  <2> QED
    BY <1>2, <2>3, <2>4, OptNumberCases, OptLogIdCases, OptStringCases, Zenon
<1> QED
  BY <1>1, <1>2, Zenon

\* RaftLogState::decode, by the first of its parts that fails.
LEMMA StateCases ==
  ASSUME NEW b, NEW p
  PROVE  LET r1 == decode_number(b, p)
             r2 == decode_option(decode_number, NoVote, b, r1.at)
             r3 == decode_option(decode_log_id, None, b, r2.at)
             r4 == decode_option(decode_log_id, None, b, r3.at)
             r5 == decode_option(decode_log_id, None, b, r4.at)
             r6 == decode_option(decode_string, NoUserData, b, r5.at)
             s == decode_state(b, p) IN
         \/ r1.err # "" /\ s = r1
         \/ r1.err = "" /\ r1.value # 1 /\ s = Err("invalid")
         \/ /\ r1.err = "" /\ r1.value = 1
            /\ \/ r2.err # "" /\ s = r2
               \/ r2.err = "" /\ r3.err # "" /\ s = r3
               \/ r2.err = "" /\ r3.err = "" /\ r4.err # "" /\ s = r4
               \/ r2.err = "" /\ r3.err = "" /\ r4.err = "" /\ r5.err # "" /\ s = r5
               \/ /\ r2.err = "" /\ r3.err = "" /\ r4.err = "" /\ r5.err = ""
                  /\ \/ r6.err # "" /\ s = r6
                     \/ r6.err = "" /\ s = Ok([vote |-> r2.value, last |-> r3.value,
                                               committed |-> r4.value, purged |-> r5.value,
                                               user_data |-> r6.value], r6.at)
  BY Zenon DEF decode_state, Then

\* RaftLogState::decode succeeds further on or fails.
LEMMA StateResult ==
  ASSUME NEW b \in Seq(Token), NEW p \in Nat \ {0}
  PROVE  Result(decode_state(b, p), p)
<1> DEFINE r1 == decode_number(b, p)
           r2 == decode_option(decode_number, NoVote, b, r1.at)
           r3 == decode_option(decode_log_id, None, b, r2.at)
           r4 == decode_option(decode_log_id, None, b, r3.at)
           r5 == decode_option(decode_log_id, None, b, r4.at)
           r6 == decode_option(decode_string, NoUserData, b, r5.at)
           Good(r) == r.at \in Nat \ {0} /\ r.at >= p
<1>0. \A q \in Nat \ {0} : \A r : q >= p /\ Result(r, q) => Result(r, p)
  BY ResultEarlier, Zenon
<1>1. Result(r1, p) /\ (r1.err = "" => Good(r1))
  BY NumberResult, ResultOk, Zenon
<1>2. r1.err = "" => Result(r2, p) /\ (r2.err = "" => Good(r2))
  BY <1>0, <1>1, OptionResults, ResultOk, Zenon
<1>3. r1.err = "" /\ r2.err = "" => Result(r3, p) /\ (r3.err = "" => Good(r3))
  BY <1>0, <1>1, <1>2, OptionResults, ResultOk, Zenon
<1>4. r1.err = "" /\ r2.err = "" /\ r3.err = "" => Result(r4, p) /\ (r4.err = "" => Good(r4))
  BY <1>0, <1>1, <1>2, <1>3, OptionResults, ResultOk, Zenon
<1>5. r1.err = "" /\ r2.err = "" /\ r3.err = "" /\ r4.err = "" =>
        Result(r5, p) /\ (r5.err = "" => Good(r5))
  BY <1>0, <1>1, <1>2, <1>3, <1>4, OptionResults, ResultOk, Zenon
<1>6. r1.err = "" /\ r2.err = "" /\ r3.err = "" /\ r4.err = "" /\ r5.err = "" =>
        Result(r6, p) /\ (r6.err = "" => Good(r6))
  BY <1>0, <1>1, <1>2, <1>3, <1>4, <1>5, OptionResults, ResultOk, Zenon
<1>7. Result(Err("invalid"), p)
  BY ErrResult, FailureKinds, Zenon
<1>8. \A v, q : q \in Nat \ {0} /\ q >= p => Result(Ok(v, q), p)
  BY OkResult, Zenon
<1> HIDE DEF r1, r2, r3, r4, r5, r6
<1>9. \/ r1.err # "" /\ decode_state(b, p) = r1
      \/ decode_state(b, p) = Err("invalid")
      \/ /\ r1.err = ""
         /\ \/ r2.err # "" /\ decode_state(b, p) = r2
            \/ r2.err = "" /\ r3.err # "" /\ decode_state(b, p) = r3
            \/ r2.err = "" /\ r3.err = "" /\ r4.err # "" /\ decode_state(b, p) = r4
            \/ r2.err = "" /\ r3.err = "" /\ r4.err = "" /\ r5.err # "" /\ decode_state(b, p) = r5
            \/ /\ r2.err = "" /\ r3.err = "" /\ r4.err = "" /\ r5.err = ""
               /\ \/ decode_state(b, p) = r6
                  \/ r6.err = "" /\ \E v : decode_state(b, p) = Ok(v, r6.at)
  BY StateCases, Zenon DEF r1, r2, r3, r4, r5, r6
<1> QED
  BY <1>1, <1>2, <1>3, <1>4, <1>5, <1>6, <1>7, <1>8, <1>9, Zenon

\* The record types differ.
LEMMA TypesDiffer ==
  /\ 0 # 1 /\ 0 # 2 /\ 0 # 3 /\ 0 # 4 /\ 0 # 5 /\ 1 # 2 /\ 1 # 3 /\ 1 # 4 /\ 1 # 5
  /\ 2 # 3 /\ 2 # 4 /\ 2 # 5 /\ 3 # 4 /\ 3 # 5 /\ 4 # 5
  OBVIOUS

\* decode_payload of a SaveVote.
LEMMA SaveVotePayload ==
  ASSUME NEW b, NEW p
  PROVE  LET r == decode_number(b, p) IN
         /\ r.err # "" => decode_payload(0, b, p) = r
         /\ r.err = "" => decode_payload(0, b, p) = Ok(SaveVoteAction(r.value), r.at)
  BY TypesDiffer, Zenon DEF decode_payload, Then, CHECKPOINT_RECORD_TYPE

\* decode_payload of a Commit.
LEMMA CommitPayload ==
  ASSUME NEW b, NEW p
  PROVE  LET r == decode_log_id(b, p) IN
         /\ r.err # "" => decode_payload(2, b, p) = r
         /\ r.err = "" => decode_payload(2, b, p) = Ok(CommitAction(r.value), r.at)
  BY TypesDiffer, Zenon DEF decode_payload, Then, CHECKPOINT_RECORD_TYPE

\* decode_payload of a TruncateAfter.
LEMMA TruncatePayload ==
  ASSUME NEW b, NEW p
  PROVE  LET r == decode_option(decode_log_id, None, b, p) IN
         /\ r.err # "" => decode_payload(3, b, p) = r
         /\ r.err = "" => decode_payload(3, b, p) = Ok(TruncateAfterAction(r.value), r.at)
  BY TypesDiffer, Zenon DEF decode_payload, Then, CHECKPOINT_RECORD_TYPE

\* decode_payload of a PurgeUpto.
LEMMA PurgePayload ==
  ASSUME NEW b, NEW p
  PROVE  LET r == decode_log_id(b, p) IN
         /\ r.err # "" => decode_payload(4, b, p) = r
         /\ r.err = "" => decode_payload(4, b, p) = Ok(PurgeUptoAction(r.value), r.at)
  BY TypesDiffer, Zenon DEF decode_payload, Then, CHECKPOINT_RECORD_TYPE

\* The payload of a checkpoint.
LEMMA CheckpointPayload ==
  ASSUME NEW b, NEW p
  PROVE  LET r == decode_state(b, p) IN
         /\ r.err # "" => decode_payload(5, b, p) = r
         /\ r.err = "" => decode_payload(5, b, p) = Ok(CheckpointRecord(r.value), r.at)
  BY TypesDiffer, Zenon DEF decode_payload, Then, CHECKPOINT_RECORD_TYPE

\* decode_payload of an Append.
LEMMA AppendPayload ==
  ASSUME NEW b, NEW p
  PROVE  LET i == decode_log_id(b, p)
             d == decode_string(b, i.at) IN
         /\ i.err # "" => decode_payload(1, b, p) = i
         /\ i.err = "" /\ d.err # "" => decode_payload(1, b, p) = d
         /\ i.err = "" /\ d.err = "" =>
              decode_payload(1, b, p) = Ok(AppendAction(i.value, d.value), d.at)
  BY TypesDiffer, Zenon DEF decode_payload, Then, CHECKPOINT_RECORD_TYPE

\* decode_payload of an unknown type.
LEMMA OtherPayload ==
  ASSUME NEW b, NEW p, NEW typ, typ \notin {0, 1, 2, 3, 4, 5}
  PROVE  decode_payload(typ, b, p) = Err("invalid")
  BY Zenon DEF decode_payload, CHECKPOINT_RECORD_TYPE

\* decode_payload succeeds further on or fails, whatever the type.
LEMMA PayloadResult ==
  ASSUME NEW typ, NEW b \in Seq(Token), NEW p \in Nat \ {0}
  PROVE  Result(decode_payload(typ, b, p), p)
<1>1. \A r, v : Result(r, p) /\ r.err = "" => Result(Ok(v, r.at), p)
  BY ResultOk, OkResult, Zenon
<1>2. Result(Err("invalid"), p)
  BY ErrResult, FailureKinds, Zenon
<1>3. CASE typ = 0
  <2>1. Result(decode_number(b, p), p)
    BY NumberResult, Zenon
  <2>2. Result(decode_payload(0, b, p), p)
    BY <1>1, <2>1, SaveVotePayload, Zenon
  <2> QED
    BY <1>3, <2>2, Zenon
<1>4. CASE typ = 2
  <2>1. Result(decode_log_id(b, p), p)
    BY LogIdResult, Zenon
  <2>2. Result(decode_payload(2, b, p), p)
    BY <1>1, <2>1, CommitPayload, Zenon
  <2> QED
    BY <1>4, <2>2, Zenon
<1>5. CASE typ = 3
  <2>1. Result(decode_option(decode_log_id, None, b, p), p)
    BY OptionResults, Zenon
  <2>2. Result(decode_payload(3, b, p), p)
    BY <1>1, <2>1, TruncatePayload, Zenon
  <2> QED
    BY <1>5, <2>2, Zenon
<1>6. CASE typ = 4
  <2>1. Result(decode_log_id(b, p), p)
    BY LogIdResult, Zenon
  <2>2. Result(decode_payload(4, b, p), p)
    BY <1>1, <2>1, PurgePayload, Zenon
  <2> QED
    BY <1>6, <2>2, Zenon
<1>7. CASE typ = 5
  <2>1. Result(decode_state(b, p), p)
    BY StateResult, Zenon
  <2>2. Result(decode_payload(5, b, p), p)
    BY <1>1, <2>1, CheckpointPayload, Zenon
  <2> QED
    BY <1>7, <2>2, Zenon
<1>8. CASE typ = 1
  <2> DEFINE i == decode_log_id(b, p)
             d == decode_string(b, i.at)
  <2>1. Result(i, p)
    BY LogIdResult, Zenon
  <2>2. i.err = "" => Result(d, p)
    BY <2>1, ResultOk, StringResult, ResultEarlier, Zenon
  <2>3. Result(decode_payload(1, b, p), p)
    BY <1>1, <2>1, <2>2, AppendPayload, Zenon
  <2> QED
    BY <1>8, <2>3, Zenon
<1>9. CASE typ \notin {0, 1, 2, 3, 4, 5}
  BY <1>2, <1>9, OtherPayload, Zenon
<1> QED
  BY <1>3, <1>4, <1>5, <1>6, <1>7, <1>8, <1>9, Zenon

\* decode, by the first of its parts that fails.
LEMMA DecodeCases ==
  ASSUME NEW b, NEW p
  PROVE  LET r == decode_number(b, p)
             x == decode_payload(r.value, b, r.at) IN
         /\ r.err # "" => decode(b, p) = r
         /\ r.err = "" /\ x.err # "" => decode(b, p) = x
         /\ r.err = "" /\ x.err = "" => decode(b, p) = verify_checksum(b, p, x.at, x.value)
  BY Zenon DEF decode, Then

\* decode fails, or stops behind a checksum of all it has read.
LEMMA DecodeResult ==
  ASSUME NEW b \in Seq(Token), NEW p \in Nat \ {0}
  PROVE  /\ decode(b, p).err \in Failures \cup {""}
         /\ decode(b, p).err = "" =>
              \E q \in Nat : /\ p < q /\ q <= Len(b)
                             /\ b[q] = Crc(SubSeq(b, p, q - 1))
                             /\ decode(b, p).at = q + 1
<1> DEFINE r == decode_number(b, p)
           x == decode_payload(r.value, b, r.at)
<1>1. CASE r.err # ""
  BY <1>1, NumberResult, DecodeCases, Zenon DEF Result
<1>2. CASE r.err = ""
  <2>1. p + 1 \in Nat \ {0}
    OBVIOUS
  <2>2. r.at = p + 1 /\ Result(x, p + 1)
    BY <1>2, <2>1, NumberResult, PayloadResult, Zenon
  <2>3. CASE x.err # ""
    BY <1>2, <2>2, <2>3, DecodeCases, Zenon DEF Result
  <2>4. CASE x.err = ""
    <3>1. decode(b, p) = verify_checksum(b, p, x.at, x.value)
      BY <1>2, <2>4, DecodeCases, Zenon
    <3>2. x.at \in Nat \ {0} /\ x.at >= p + 1
      BY <2>2, <2>4, ResultOk, Zenon
    <3>3. PICK q, v : q \in Nat /\ q = x.at /\ v = x.value /\ q >= p + 1
      BY <3>2, Zenon
    <3>4. \/ decode(b, p) = Err("eof")
          \/ decode(b, p) = Err("checksum")
          \/ /\ q <= Len(b) /\ b[q] = Crc(SubSeq(b, p, q - 1))
             /\ decode(b, p) = Ok(v, q + 1)
      BY <3>1, <3>3, Zenon DEF verify_checksum
    <3>5. p < q
      BY <3>3
    <3>6. CASE decode(b, p) = Err("eof") \/ decode(b, p) = Err("checksum")
      BY <3>6, ErrFields, ErrResult, FailureKinds, Zenon
    <3>7. CASE /\ q <= Len(b) /\ b[q] = Crc(SubSeq(b, p, q - 1))
               /\ decode(b, p) = Ok(v, q + 1)
      <4>1. Ok(v, q + 1).err = "" /\ Ok(v, q + 1).at = q + 1
        BY DEF Ok
      <4> QED
        BY <3>3, <3>5, <3>7, <4>1, Zenon
    <3> QED
      BY <3>4, <3>6, <3>7, Zenon
  <2> QED
    BY <2>3, <2>4, Zenon
<1> QED
  BY <1>1, <1>2, Zenon

---------------------------------------------------------------------------
(* Encoding, and reading back what was encoded.                           *)

\* The bytes from p on are those of s.
Holds(b, p, s) ==
  /\ p + Len(s) - 1 <= Len(b)
  /\ \A i \in 1 .. Len(s) : b[p + i - 1] = s[i]

\* A number is a field.
LEMMA NumField == ASSUME NEW n \in Nat PROVE Num(n) \in Field /\ Num(n).n = n
  BY DEF Num, Field

\* Fields are tokens.
LEMMA FieldToken == Field \subseteq Token /\ Seq(Field) \subseteq Seq(Token)
<1>1. <<>> \in Seq(Field)
  OBVIOUS
<1>2. Field \subseteq Token
  BY <1>1 DEF Field, Token
<1> QED
  BY <1>2

\* Bytes that hold two encodings in a row hold each.
LEMMA HoldsConcat ==
  ASSUME NEW b \in Seq(Token), NEW p \in Nat \ {0}, NEW s \in Seq(Field), NEW t \in Seq(Field),
         Holds(b, p, s \o t)
  PROVE  /\ Holds(b, p, s) /\ Holds(b, p + Len(s), t)
         /\ Len(s \o t) = Len(s) + Len(t) /\ p + Len(s) \in Nat \ {0}
<1>1. Len(s) \in Nat /\ Len(t) \in Nat /\ Len(b) \in Nat /\ Len(s \o t) = Len(s) + Len(t)
  OBVIOUS
<1>2. \A i \in 1 .. Len(s) : (s \o t)[i] = s[i]
  OBVIOUS
<1>3. \A i \in 1 .. Len(t) : (s \o t)[i + Len(s)] = t[i]
  OBVIOUS
<1>4. Holds(b, p, s)
  BY <1>1, <1>2 DEF Holds
<1>5. ASSUME NEW i \in 1 .. Len(t) PROVE b[p + Len(s) + i - 1] = t[i]
  <2>1. i + Len(s) \in 1 .. Len(s \o t) /\ p + (i + Len(s)) - 1 = p + Len(s) + i - 1
    BY <1>1
  <2> QED
    BY <2>1, <1>3 DEF Holds
<1> QED
  BY <1>1, <1>4, <1>5 DEF Holds

\* A number is read back.
LEMMA ReadNumber ==
  ASSUME NEW b \in Seq(Token), NEW p \in Nat \ {0}, NEW n \in Nat, Holds(b, p, <<Num(n)>>)
  PROVE  decode_number(b, p) = Ok(n, p + 1)
<1>1. p <= Len(b) /\ b[p] = Num(n)
  BY DEF Holds
<1>2. b[p].n = n
  BY <1>1, NumField
<1>3. ~(p > Len(b))
  BY <1>1
<1> QED
  BY <1>2, <1>3, Zenon DEF decode_number

\* A log id is read back.
LEMMA ReadLogId ==
  ASSUME NEW b \in Seq(Token), NEW p \in Nat \ {0}, NEW id \in LogId, Holds(b, p, encode_log_id(id))
  PROVE  decode_log_id(b, p) = Ok(id, p + 2)
<1>1. id[1] \in Nat /\ id[2] \in Nat /\ id = <<id[1], id[2]>>
  BY DEF LogId
<1>2. p + 1 <= Len(b) /\ b[p] = Num(id[1]) /\ b[p + 1] = Num(id[2])
  BY DEF Holds, encode_log_id
<1>3. b[p].n = id[1] /\ b[p + 1].n = id[2]
  BY <1>1, <1>2, NumField
<1>4. ~(p + 1 > Len(b))
  BY <1>2
<1>5. decode_log_id(b, p) = Ok(<<b[p].n, b[p + 1].n>>, p + 2)
  BY <1>4, Zenon DEF decode_log_id
<1> QED
  BY <1>1, <1>3, <1>5, Zenon

\* The encoding of a log id.
LEMMA LogIdEncoding ==
  ASSUME NEW id \in LogId
  PROVE  encode_log_id(id) \in Seq(Field) /\ Len(encode_log_id(id)) = 2
  BY NumField DEF LogId, encode_log_id

\* The encoding of a number.
LEMMA NumberEncoding ==
  ASSUME NEW n \in Nat
  PROVE  <<Num(n)>> \in Seq(Field) /\ Len(<<Num(n)>>) = 1
  BY NumField

\* The encoding of a string.
LEMMA StringEncoding ==
  ASSUME NEW n \in Nat
  PROVE  /\ encode_string(n) \in Seq(Field) /\ Len(encode_string(n)) = 1 + n
         /\ encode_string(n)[1] = Num(n)
<1> DEFINE z == [k \in 1 .. n |-> Num(0)]
<1>1. Num(0) \in Field
  BY NumField
<1>2. z \in Seq(Field) /\ Len(z) = n
  BY <1>1
<1> HIDE DEF z
<1>3. encode_string(n) = <<Num(n)>> \o z
  BY DEF encode_string, z
<1> QED
  BY <1>2, <1>3, NumberEncoding

\* A string is read back.
LEMMA ReadString ==
  ASSUME NEW b \in Seq(Token), NEW p \in Nat \ {0}, NEW n \in Nat, Holds(b, p, encode_string(n))
  PROVE  decode_string(b, p) = Ok(n, p + (1 + n))
<1>1. p + (1 + n) - 1 <= Len(b) /\ b[p] = Num(n)
  <2>1. 1 \in 1 .. Len(encode_string(n)) /\ p + 1 - 1 = p
    BY StringEncoding
  <2> QED
    BY <2>1, StringEncoding DEF Holds
<1>2. Holds(b, p, <<Num(n)>>)
  BY <1>1 DEF Holds
<1>3. decode_number(b, p) = Ok(n, p + 1)
  BY <1>2, ReadNumber
<1>4. (p + 1) + n = p + (1 + n) /\ ~((p + 1) + n - 1 > Len(b))
  BY <1>1
<1>5. Ok(n, p + 1).err = "" /\ Ok(n, p + 1).value = n /\ Ok(n, p + 1).at = p + 1
  BY DEF Ok
<1> QED
  BY <1>3, <1>4, <1>5, StringCases, Zenon

\* Encodings of fields, concatenated.
LEMMA FieldConcat ==
  ASSUME NEW s \in Seq(Field), NEW t \in Seq(Field)
  PROVE  s \o t \in Seq(Field) /\ Len(s \o t) = Len(s) + Len(t)
  OBVIOUS

\* A number in front of other fields is read back.
LEMMA ReadHead ==
  ASSUME NEW b \in Seq(Token), NEW p \in Nat \ {0}, NEW n \in Nat, NEW c \in Seq(Field),
         Holds(b, p, <<Num(n)>> \o c)
  PROVE  /\ decode_number(b, p) = Ok(n, p + 1)
         /\ Holds(b, p + 1, c) /\ p + 1 \in Nat \ {0}
<1>1. <<Num(n)>> \in Seq(Field) /\ Len(<<Num(n)>>) = 1
  BY NumberEncoding
<1>2. Holds(b, p, <<Num(n)>>) /\ Holds(b, p + Len(<<Num(n)>>), c)
  BY <1>1, HoldsConcat, Zenon
<1>3. Holds(b, p + 1, c)
  BY <1>1, <1>2, Zenon
<1> QED
  BY <1>2, <1>3, ReadNumber

\* The encoding of an Option<Vote>.
LEMMA OptNumberEncoding ==
  ASSUME NEW v \in OptVote
  PROVE  LET e == encode_option(v, NoVote, encode_number(v)) IN
         /\ e \in Seq(Field) /\ Len(e) \in Nat
         /\ v = NoVote => e = <<Num(0)>> /\ Len(e) = 1
         /\ v # NoVote => /\ v \in Nat /\ encode_number(v) \in Seq(Field)
                      /\ Len(encode_number(v)) = 1
                      /\ e = <<Num(1)>> \o encode_number(v) /\ Len(e) = 1 + (1)
<1> DEFINE c == encode_number(v)
           e == encode_option(v, NoVote, c)
<1>1. <<Num(0)>> \in Seq(Field) /\ <<Num(1)>> \in Seq(Field)
  BY NumberEncoding
<1>2. CASE v = NoVote
  <2>1. e = <<Num(0)>>
    BY <1>2, Zenon DEF encode_option
  <2> HIDE DEF e
  <2> QED
    BY <1>1, <1>2, <2>1 DEF e
<1>3. CASE v # NoVote
  <2>1. v \in Nat
    BY <1>3 DEF OptVote
  <2>2. c \in Seq(Field) /\ Len(c) = 1
    BY <2>1, NumberEncoding DEF encode_number
  <2>3. e = <<Num(1)>> \o c
    BY <1>3, Zenon DEF encode_option
  <2> HIDE DEF c, e
  <2>4. e \in Seq(Field) /\ Len(e) = 1 + Len(c)
    BY <1>1, <2>2, <2>3, FieldConcat, NumberEncoding
  <2> QED
    BY <1>3, <2>1, <2>2, <2>3, <2>4 DEF c, e
<1> QED
  BY <1>2, <1>3

\* An Option<Vote> is read back.
LEMMA ReadOptNumber ==
  ASSUME NEW b \in Seq(Token), NEW p \in Nat \ {0}, NEW v \in OptVote,
         Holds(b, p, encode_option(v, NoVote, encode_number(v)))
  PROVE  decode_option(decode_number, NoVote, b, p) = Ok(v, p + Len(encode_option(v, NoVote, encode_number(v))))
<1> DEFINE e == encode_option(v, NoVote, encode_number(v))
<1>0. Holds(b, p, e)
  OBVIOUS
<1>1. CASE v = NoVote
  <2>1. e = <<Num(0)>> /\ Len(e) = 1
    BY <1>1, OptNumberEncoding, Zenon
  <2> HIDE DEF e
  <2>2. decode_number(b, p) = Ok(0, p + 1)
    BY <1>0, <2>1, ReadNumber
  <2>3. Ok(0, p + 1).err = "" /\ Ok(0, p + 1).value = 0 /\ Ok(0, p + 1).at = p + 1
    BY DEF Ok
  <2> QED
    BY <1>1, <2>1, <2>2, <2>3, OptNumberCases, Zenon DEF e
<1>2. CASE v # NoVote
  <2>1. /\ v \in Nat /\ encode_number(v) \in Seq(Field) /\ Len(encode_number(v)) = 1
        /\ e = <<Num(1)>> \o encode_number(v) /\ Len(e) = 1 + (1)
    BY <1>2, OptNumberEncoding, Zenon
  <2> HIDE DEF e
  <2>2. Holds(b, p, <<Num(1)>> \o encode_number(v))
    BY <1>0, <2>1, Zenon
  <2>3. Holds(b, p + 1, encode_number(v)) /\ p + 1 \in Nat \ {0} /\ decode_number(b, p) = Ok(1, p + 1)
    BY <2>1, <2>2, ReadHead
  <2>5. Ok(1, p + 1).err = "" /\ Ok(1, p + 1).value = 1 /\ Ok(1, p + 1).at = p + 1
    BY DEF Ok
  <2>6. decode_number(b, p + 1) = Ok(v, (p + 1) + (1))
    BY <2>1, <2>3, ReadNumber DEF encode_number
  <2>7. (p + 1) + (1) = p + Len(e)
    BY <2>1
  <2> QED
    BY <2>3, <2>5, <2>6, <2>7, OptNumberCases, Zenon DEF e
<1> QED
  BY <1>1, <1>2

\* The encoding of an Option<LogId>.
LEMMA OptLogIdEncoding ==
  ASSUME NEW v \in OptLogId
  PROVE  LET e == encode_option(v, None, encode_log_id(v)) IN
         /\ e \in Seq(Field) /\ Len(e) \in Nat
         /\ v = None => e = <<Num(0)>> /\ Len(e) = 1
         /\ v # None => /\ v \in LogId /\ encode_log_id(v) \in Seq(Field)
                      /\ Len(encode_log_id(v)) = 2
                      /\ e = <<Num(1)>> \o encode_log_id(v) /\ Len(e) = 1 + (2)
<1> DEFINE c == encode_log_id(v)
           e == encode_option(v, None, c)
<1>1. <<Num(0)>> \in Seq(Field) /\ <<Num(1)>> \in Seq(Field)
  BY NumberEncoding
<1>2. CASE v = None
  <2>1. e = <<Num(0)>>
    BY <1>2, Zenon DEF encode_option
  <2> HIDE DEF e
  <2> QED
    BY <1>1, <1>2, <2>1 DEF e
<1>3. CASE v # None
  <2>1. v \in LogId
    BY <1>3 DEF OptLogId
  <2>2. c \in Seq(Field) /\ Len(c) = 2
    BY <2>1, LogIdEncoding
  <2>3. e = <<Num(1)>> \o c
    BY <1>3, Zenon DEF encode_option
  <2> HIDE DEF c, e
  <2>4. e \in Seq(Field) /\ Len(e) = 1 + Len(c)
    BY <1>1, <2>2, <2>3, FieldConcat, NumberEncoding
  <2> QED
    BY <1>3, <2>1, <2>2, <2>3, <2>4 DEF c, e
<1> QED
  BY <1>2, <1>3

\* An Option<LogId> is read back.
LEMMA ReadOptLogId ==
  ASSUME NEW b \in Seq(Token), NEW p \in Nat \ {0}, NEW v \in OptLogId,
         Holds(b, p, encode_option(v, None, encode_log_id(v)))
  PROVE  decode_option(decode_log_id, None, b, p) = Ok(v, p + Len(encode_option(v, None, encode_log_id(v))))
<1> DEFINE e == encode_option(v, None, encode_log_id(v))
<1>0. Holds(b, p, e)
  OBVIOUS
<1>1. CASE v = None
  <2>1. e = <<Num(0)>> /\ Len(e) = 1
    BY <1>1, OptLogIdEncoding, Zenon
  <2> HIDE DEF e
  <2>2. decode_number(b, p) = Ok(0, p + 1)
    BY <1>0, <2>1, ReadNumber
  <2>3. Ok(0, p + 1).err = "" /\ Ok(0, p + 1).value = 0 /\ Ok(0, p + 1).at = p + 1
    BY DEF Ok
  <2> QED
    BY <1>1, <2>1, <2>2, <2>3, OptLogIdCases, Zenon DEF e
<1>2. CASE v # None
  <2>1. /\ v \in LogId /\ encode_log_id(v) \in Seq(Field) /\ Len(encode_log_id(v)) = 2
        /\ e = <<Num(1)>> \o encode_log_id(v) /\ Len(e) = 1 + (2)
    BY <1>2, OptLogIdEncoding, Zenon
  <2> HIDE DEF e
  <2>2. Holds(b, p, <<Num(1)>> \o encode_log_id(v))
    BY <1>0, <2>1, Zenon
  <2>3. Holds(b, p + 1, encode_log_id(v)) /\ p + 1 \in Nat \ {0} /\ decode_number(b, p) = Ok(1, p + 1)
    BY <2>1, <2>2, ReadHead
  <2>5. Ok(1, p + 1).err = "" /\ Ok(1, p + 1).value = 1 /\ Ok(1, p + 1).at = p + 1
    BY DEF Ok
  <2>6. decode_log_id(b, p + 1) = Ok(v, (p + 1) + (2))
    BY <2>1, <2>3, ReadLogId
  <2>7. (p + 1) + (2) = p + Len(e)
    BY <2>1
  <2> QED
    BY <2>3, <2>5, <2>6, <2>7, OptLogIdCases, Zenon DEF e
<1> QED
  BY <1>1, <1>2

\* The encoding of the optional user data.
LEMMA OptStringEncoding ==
  ASSUME NEW v \in OptUserData
  PROVE  LET e == encode_option(v, NoUserData, encode_string(v)) IN
         /\ e \in Seq(Field) /\ Len(e) \in Nat
         /\ v = NoUserData => e = <<Num(0)>> /\ Len(e) = 1
         /\ v # NoUserData => /\ v \in Nat /\ encode_string(v) \in Seq(Field)
                      /\ Len(encode_string(v)) = 1 + v
                      /\ e = <<Num(1)>> \o encode_string(v) /\ Len(e) = 1 + (1 + v)
<1> DEFINE c == encode_string(v)
           e == encode_option(v, NoUserData, c)
<1>1. <<Num(0)>> \in Seq(Field) /\ <<Num(1)>> \in Seq(Field)
  BY NumberEncoding
<1>2. CASE v = NoUserData
  <2>1. e = <<Num(0)>>
    BY <1>2, Zenon DEF encode_option
  <2> HIDE DEF e
  <2> QED
    BY <1>1, <1>2, <2>1 DEF e
<1>3. CASE v # NoUserData
  <2>1. v \in Nat
    BY <1>3 DEF OptUserData
  <2>2. c \in Seq(Field) /\ Len(c) = 1 + v
    BY <2>1, StringEncoding
  <2>3. e = <<Num(1)>> \o c
    BY <1>3, Zenon DEF encode_option
  <2> HIDE DEF c, e
  <2>4. e \in Seq(Field) /\ Len(e) = 1 + Len(c)
    BY <1>1, <2>2, <2>3, FieldConcat, NumberEncoding
  <2> QED
    BY <1>3, <2>1, <2>2, <2>3, <2>4 DEF c, e
<1> QED
  BY <1>2, <1>3

\* Optional user data is read back.
LEMMA ReadOptString ==
  ASSUME NEW b \in Seq(Token), NEW p \in Nat \ {0}, NEW v \in OptUserData,
         Holds(b, p, encode_option(v, NoUserData, encode_string(v)))
  PROVE  decode_option(decode_string, NoUserData, b, p) = Ok(v, p + Len(encode_option(v, NoUserData, encode_string(v))))
<1> DEFINE e == encode_option(v, NoUserData, encode_string(v))
<1>0. Holds(b, p, e)
  OBVIOUS
<1>1. CASE v = NoUserData
  <2>1. e = <<Num(0)>> /\ Len(e) = 1
    BY <1>1, OptStringEncoding, Zenon
  <2> HIDE DEF e
  <2>2. decode_number(b, p) = Ok(0, p + 1)
    BY <1>0, <2>1, ReadNumber
  <2>3. Ok(0, p + 1).err = "" /\ Ok(0, p + 1).value = 0 /\ Ok(0, p + 1).at = p + 1
    BY DEF Ok
  <2> QED
    BY <1>1, <2>1, <2>2, <2>3, OptStringCases, Zenon DEF e
<1>2. CASE v # NoUserData
  <2>1. /\ v \in Nat /\ encode_string(v) \in Seq(Field) /\ Len(encode_string(v)) = 1 + v
        /\ e = <<Num(1)>> \o encode_string(v) /\ Len(e) = 1 + (1 + v)
    BY <1>2, OptStringEncoding, Zenon
  <2> HIDE DEF e
  <2>2. Holds(b, p, <<Num(1)>> \o encode_string(v))
    BY <1>0, <2>1, Zenon
  <2>3. Holds(b, p + 1, encode_string(v)) /\ p + 1 \in Nat \ {0} /\ decode_number(b, p) = Ok(1, p + 1)
    BY <2>1, <2>2, ReadHead
  <2>5. Ok(1, p + 1).err = "" /\ Ok(1, p + 1).value = 1 /\ Ok(1, p + 1).at = p + 1
    BY DEF Ok
  <2>6. decode_string(b, p + 1) = Ok(v, (p + 1) + (1 + v))
    BY <2>1, <2>3, ReadString
  <2>7. (p + 1) + (1 + v) = p + Len(e)
    <3>1. Len(e) = 1 + (1 + v) /\ v \in Nat
      BY <2>1, Zenon
    <3>2. (p + 1) + (1 + v) = p + (1 + (1 + v))
      BY <3>1
    <3> QED
      BY <3>1, <3>2, Zenon
  <2> QED
    BY <2>3, <2>5, <2>6, <2>7, OptStringCases, Zenon DEF e
<1> QED
  BY <1>1, <1>2

\* r is the value v and the place k.
Is(r, v, k) == r.err = "" /\ r.value = v /\ r.at = k

\* A success, taken apart.
LEMMA OkIs ==
  ASSUME NEW r, NEW v, NEW k, r = Ok(v, k)
  PROVE  Is(r, v, k)
  BY DEF Ok, Is

\* The fields of a RaftLogState.
LEMMA StateFields ==
  ASSUME NEW s \in RaftLogState
  PROVE  /\ s.vote \in OptVote /\ s.last \in OptLogId /\ s.committed \in OptLogId
         /\ s.purged \in OptLogId /\ s.user_data \in OptUserData
         /\ s = [vote |-> s.vote, last |-> s.last, committed |-> s.committed,
                 purged |-> s.purged, user_data |-> s.user_data]
  BY DEF RaftLogState

\* RaftLogState::encode writes fields.
LEMMA StateEncoding ==
  ASSUME NEW s \in RaftLogState
  PROVE  encode_state(s) \in Seq(Field)
<1> DEFINE o1 == encode_option(s.vote, NoVote, encode_number(s.vote))
           o2 == encode_option(s.last, None, encode_log_id(s.last))
           o3 == encode_option(s.committed, None, encode_log_id(s.committed))
           o4 == encode_option(s.purged, None, encode_log_id(s.purged))
           o5 == encode_option(s.user_data, NoUserData, encode_string(s.user_data))
<1>1. /\ <<Num(1)>> \in Seq(Field) /\ o1 \in Seq(Field) /\ o2 \in Seq(Field)
      /\ o3 \in Seq(Field) /\ o4 \in Seq(Field) /\ o5 \in Seq(Field)
  BY StateFields, NumberEncoding, OptNumberEncoding, OptLogIdEncoding, OptStringEncoding
<1>2. encode_state(s) = <<Num(1)>> \o o1 \o o2 \o o3 \o o4 \o o5
  BY DEF encode_state
<1> HIDE DEF o1, o2, o3, o4, o5
<1> QED
  BY <1>1, <1>2, FieldConcat

\* RaftLogState::decode reads back what RaftLogState::encode wrote.
LEMMA ReadState ==
  ASSUME NEW b \in Seq(Token), NEW p \in Nat \ {0}, NEW s \in RaftLogState,
         Holds(b, p, encode_state(s))
  PROVE  decode_state(b, p) = Ok(s, p + Len(encode_state(s)))
<1> DEFINE o1 == encode_option(s.vote, NoVote, encode_number(s.vote))
           o2 == encode_option(s.last, None, encode_log_id(s.last))
           o3 == encode_option(s.committed, None, encode_log_id(s.committed))
           o4 == encode_option(s.purged, None, encode_log_id(s.purged))
           o5 == encode_option(s.user_data, NoUserData, encode_string(s.user_data))
           x1 == <<Num(1)>>
           x2 == x1 \o o1
           x3 == x2 \o o2
           x4 == x3 \o o3
           x5 == x4 \o o4
           x6 == x5 \o o5
<1>1. /\ x1 \in Seq(Field) /\ o1 \in Seq(Field) /\ o2 \in Seq(Field)
      /\ o3 \in Seq(Field) /\ o4 \in Seq(Field) /\ o5 \in Seq(Field)
  BY StateFields, NumberEncoding, OptNumberEncoding, OptLogIdEncoding, OptStringEncoding
<1>2. encode_state(s) = x6
  BY DEF encode_state
<1> HIDE DEF o1, o2, o3, o4, o5, x1
<1>3. /\ x2 \in Seq(Field) /\ x3 \in Seq(Field) /\ x4 \in Seq(Field) /\ x5 \in Seq(Field)
  BY <1>1, FieldConcat
<1> HIDE DEF x2, x3, x4, x5
<1>4. Holds(b, p, x5) /\ Holds(b, p + Len(x5), o5) /\ Len(x6) = Len(x5) + Len(o5)
  BY <1>1, <1>2, <1>3, HoldsConcat
<1>5. Holds(b, p, x4) /\ Holds(b, p + Len(x4), o4) /\ Len(x5) = Len(x4) + Len(o4)
  BY <1>1, <1>4, <1>3, HoldsConcat DEF x5
<1>6. Holds(b, p, x3) /\ Holds(b, p + Len(x3), o3) /\ Len(x4) = Len(x3) + Len(o3)
  BY <1>1, <1>5, <1>3, HoldsConcat DEF x4
<1>7. Holds(b, p, x2) /\ Holds(b, p + Len(x2), o2) /\ Len(x3) = Len(x2) + Len(o2)
  BY <1>1, <1>6, <1>3, HoldsConcat DEF x3
<1>8. Holds(b, p, x1) /\ Holds(b, p + Len(x1), o1) /\ Len(x2) = Len(x1) + Len(o1)
  BY <1>1, <1>7, <1>3, HoldsConcat DEF x2
<1> HIDE DEF x6
<1> DEFINE q(x) == p + Len(x)
<1>9. /\ Len(x1) = 1 /\ Len(x2) \in Nat /\ Len(x3) \in Nat /\ Len(x4) \in Nat /\ Len(x5) \in Nat
      /\ Len(o1) \in Nat /\ Len(o2) \in Nat /\ Len(o3) \in Nat /\ Len(o4) \in Nat /\ Len(o5) \in Nat
  BY <1>1, <1>3 DEF x1
<1>10. /\ q(x1) \in Nat \ {0} /\ q(x2) \in Nat \ {0} /\ q(x3) \in Nat \ {0}
       /\ q(x4) \in Nat \ {0} /\ q(x5) \in Nat \ {0}
  BY <1>9
<1>11. /\ q(x1) + Len(o1) = q(x2) /\ q(x2) + Len(o2) = q(x3) /\ q(x3) + Len(o3) = q(x4)
       /\ q(x4) + Len(o4) = q(x5) /\ q(x5) + Len(o5) = q(x6)
  BY <1>9, <1>4, <1>5, <1>6, <1>7, <1>8
<1>12. decode_number(b, p) = Ok(1, q(x1))
  BY <1>8, <1>9, ReadNumber DEF x1
<1>13. decode_option(decode_number, NoVote, b, q(x1)) = Ok(s.vote, q(x2))
  <2>1. decode_option(decode_number, NoVote, b, q(x1)) = Ok(s.vote, q(x1) + Len(o1))
    BY <1>8, <1>10, StateFields, ReadOptNumber, Zenon DEF o1
  <2> QED
    BY <2>1, <1>11, Zenon
<1>14. decode_option(decode_log_id, None, b, q(x2)) = Ok(s.last, q(x3))
  <2>1. decode_option(decode_log_id, None, b, q(x2)) = Ok(s.last, q(x2) + Len(o2))
    BY <1>7, <1>10, StateFields, ReadOptLogId, Zenon DEF o2
  <2> QED
    BY <2>1, <1>11, Zenon
<1>15. decode_option(decode_log_id, None, b, q(x3)) = Ok(s.committed, q(x4))
  <2>1. decode_option(decode_log_id, None, b, q(x3)) = Ok(s.committed, q(x3) + Len(o3))
    BY <1>6, <1>10, StateFields, ReadOptLogId, Zenon DEF o3
  <2> QED
    BY <2>1, <1>11, Zenon
<1>16. decode_option(decode_log_id, None, b, q(x4)) = Ok(s.purged, q(x5))
  <2>1. decode_option(decode_log_id, None, b, q(x4)) = Ok(s.purged, q(x4) + Len(o4))
    BY <1>5, <1>10, StateFields, ReadOptLogId, Zenon DEF o4
  <2> QED
    BY <2>1, <1>11, Zenon
<1>17. decode_option(decode_string, NoUserData, b, q(x5)) = Ok(s.user_data, q(x6))
  <2>1. decode_option(decode_string, NoUserData, b, q(x5)) = Ok(s.user_data, q(x5) + Len(o5))
    BY <1>4, <1>10, StateFields, ReadOptString, Zenon DEF o5
  <2> QED
    BY <2>1, <1>11, Zenon
<1> HIDE DEF q
<1>18. decode_state(b, p) = Ok([vote |-> s.vote, last |-> s.last, committed |-> s.committed,
                                purged |-> s.purged, user_data |-> s.user_data], q(x6))
  <2> DEFINE r1 == decode_number(b, p)
             r2 == decode_option(decode_number, NoVote, b, r1.at)
             r3 == decode_option(decode_log_id, None, b, r2.at)
             r4 == decode_option(decode_log_id, None, b, r3.at)
             r5 == decode_option(decode_log_id, None, b, r4.at)
             r6 == decode_option(decode_string, NoUserData, b, r5.at)
  <2>1. \/ r1.err # ""
        \/ r1.value # 1
        \/ r2.err # "" \/ r3.err # "" \/ r4.err # "" \/ r5.err # "" \/ r6.err # ""
        \/ decode_state(b, p) = Ok([vote |-> r2.value, last |-> r3.value, committed |-> r4.value,
                                    purged |-> r5.value, user_data |-> r6.value], r6.at)
    BY StateCases, Zenon
  <2>2. Is(r1, 1, q(x1))
    BY <1>12, OkIs, Zenon
  <2> HIDE DEF r1
  <2>3. Is(r2, s.vote, q(x2))
    <3>1. r1.at = q(x1)
      BY <2>2, Zenon DEF Is
    <3>2. r2 = Ok(s.vote, q(x2))
      BY <1>13, <3>1, Zenon
    <3> QED
      BY <3>2, OkIs, Zenon
  <2> HIDE DEF r2
  <2>4. Is(r3, s.last, q(x3))
    <3>1. r2.at = q(x2)
      BY <2>3, Zenon DEF Is
    <3>2. r3 = Ok(s.last, q(x3))
      BY <1>14, <3>1, Zenon
    <3> QED
      BY <3>2, OkIs, Zenon
  <2> HIDE DEF r3
  <2>5. Is(r4, s.committed, q(x4))
    <3>1. r3.at = q(x3)
      BY <2>4, Zenon DEF Is
    <3>2. r4 = Ok(s.committed, q(x4))
      BY <1>15, <3>1, Zenon
    <3> QED
      BY <3>2, OkIs, Zenon
  <2> HIDE DEF r4
  <2>6. Is(r5, s.purged, q(x5))
    <3>1. r4.at = q(x4)
      BY <2>5, Zenon DEF Is
    <3>2. r5 = Ok(s.purged, q(x5))
      BY <1>16, <3>1, Zenon
    <3> QED
      BY <3>2, OkIs, Zenon
  <2> HIDE DEF r5
  <2>7. Is(r6, s.user_data, q(x6))
    <3>1. r5.at = q(x5)
      BY <2>6, Zenon DEF Is
    <3>2. r6 = Ok(s.user_data, q(x6))
      BY <1>17, <3>1, Zenon
    <3> QED
      BY <3>2, OkIs, Zenon
  <2> HIDE DEF r6
  <2>8. decode_state(b, p) = Ok([vote |-> r2.value, last |-> r3.value, committed |-> r4.value,
                                 purged |-> r5.value, user_data |-> r6.value], r6.at)
    BY <2>1, <2>2, <2>3, <2>4, <2>5, <2>6, <2>7, Zenon DEF Is
  <2>9. [vote |-> r2.value, last |-> r3.value, committed |-> r4.value,
         purged |-> r5.value, user_data |-> r6.value]
        = [vote |-> s.vote, last |-> s.last, committed |-> s.committed,
           purged |-> s.purged, user_data |-> s.user_data]
    BY <2>3, <2>4, <2>5, <2>6, <2>7 DEF Is
  <2>10. r6.at = q(x6)
    BY <2>7, Zenon DEF Is
  <2> QED
    BY <2>8, <2>9, <2>10, Zenon
<1>19. [vote |-> s.vote, last |-> s.last, committed |-> s.committed,
        purged |-> s.purged, user_data |-> s.user_data] = s
  BY StateFields, Zenon
<1> QED
  BY <1>2, <1>18, <1>19, Zenon DEF q

\* A record is of one of six kinds.
LEMMA RecordKinds ==
  ASSUME NEW rec \in RaftLogRecord
  PROVE  \/ \E v \in Nat : rec = SaveVoteAction(v)
         \/ \E id \in LogId, n \in Nat : rec = AppendAction(id, n)
         \/ \E id \in LogId : rec = CommitAction(id)
         \/ \E id \in OptLogId : rec = TruncateAfterAction(id)
         \/ \E id \in LogId : rec = PurgeUptoAction(id)
         \/ \E s \in RaftLogState : rec = CheckpointRecord(s)
<1>1. CASE rec \in [type : {"SaveVote"}, vote : Nat]
  BY <1>1 DEF SaveVoteAction
<1>2. CASE rec \in [type : {"Append"}, log_id : LogId, payload : Payload]
  BY <1>2 DEF AppendAction, Payload
<1>3. CASE rec \in [type : {"Commit"}, log_id : LogId]
  BY <1>3 DEF CommitAction
<1>4. CASE rec \in [type : {"TruncateAfter"}, log_id : OptLogId]
  BY <1>4 DEF TruncateAfterAction
<1>5. CASE rec \in [type : {"PurgeUpto"}, log_id : LogId]
  BY <1>5 DEF PurgeUptoAction
<1>6. CASE rec \in [type : {"Checkpoint"}, state : RaftLogState]
  BY <1>6 DEF CheckpointRecord
<1> QED
  BY <1>1, <1>2, <1>3, <1>4, <1>5, <1>6, Zenon DEF RaftLogRecord

\* The names of the kinds differ.
LEMMA KindsDiffer ==
  /\ "SaveVote" # "Append" /\ "SaveVote" # "Commit" /\ "SaveVote" # "TruncateAfter"
  /\ "SaveVote" # "PurgeUpto" /\ "SaveVote" # "Checkpoint" /\ "Append" # "Commit"
  /\ "Append" # "TruncateAfter" /\ "Append" # "PurgeUpto" /\ "Append" # "Checkpoint"
  /\ "Commit" # "TruncateAfter" /\ "Commit" # "PurgeUpto" /\ "Commit" # "Checkpoint"
  /\ "TruncateAfter" # "PurgeUpto" /\ "TruncateAfter" # "Checkpoint"
  /\ "PurgeUpto" # "Checkpoint"
  OBVIOUS

\* The fields of each kind.
LEMMA RecordFields ==
  /\ \A v : SaveVoteAction(v).type = "SaveVote" /\ SaveVoteAction(v).vote = v
  /\ \A id, n : /\ AppendAction(id, n).type = "Append" /\ AppendAction(id, n).log_id = id
                /\ AppendAction(id, n).payload = n
  /\ \A id : CommitAction(id).type = "Commit" /\ CommitAction(id).log_id = id
  /\ \A id : TruncateAfterAction(id).type = "TruncateAfter" /\ TruncateAfterAction(id).log_id = id
  /\ \A id : PurgeUptoAction(id).type = "PurgeUpto" /\ PurgeUptoAction(id).log_id = id
  /\ \A s : CheckpointRecord(s).type = "Checkpoint" /\ CheckpointRecord(s).state = s
  BY DEF SaveVoteAction, AppendAction, CommitAction, TruncateAfterAction, PurgeUptoAction,
         CheckpointRecord

\* What is written for a SaveVote.
LEMMA SaveVoteEncoded ==
  ASSUME NEW v
  PROVE  /\ record_type(SaveVoteAction(v)) = 0
         /\ encode_payload(SaveVoteAction(v)) = <<Num(v)>>
  BY KindsDiffer, RecordFields, Zenon DEF record_type, encode_payload, encode_number, CHECKPOINT_RECORD_TYPE

\* What is written for an Append.
LEMMA AppendEncoded ==
  ASSUME NEW id, NEW n
  PROVE  /\ record_type(AppendAction(id, n)) = 1
         /\ encode_payload(AppendAction(id, n)) = encode_log_id(id) \o encode_string(n)
<1> DEFINE a == AppendAction(id, n)
<1>1. a.type = "Append" /\ a.log_id = id /\ a.payload = n
  BY DEF AppendAction
<1> HIDE DEF a
<1>2. record_type(a) = 1
  BY <1>1, KindsDiffer, Zenon DEF record_type
<1>3. encode_payload(a) = encode_log_id(a.log_id) \o encode_string(a.payload)
  BY <1>1, KindsDiffer, Zenon DEF encode_payload
<1>4. encode_payload(a) = encode_log_id(id) \o encode_string(n)
  BY <1>1, <1>3, Zenon
<1> QED
  BY <1>2, <1>4, Zenon DEF a

\* What is written for a Commit.
LEMMA CommitEncoded ==
  ASSUME NEW id
  PROVE  /\ record_type(CommitAction(id)) = 2
         /\ encode_payload(CommitAction(id)) = encode_log_id(id)
  BY KindsDiffer, RecordFields, Zenon DEF record_type, encode_payload, CHECKPOINT_RECORD_TYPE

\* What is written for a TruncateAfter.
LEMMA TruncateEncoded ==
  ASSUME NEW id
  PROVE  /\ record_type(TruncateAfterAction(id)) = 3
         /\ encode_payload(TruncateAfterAction(id)) = encode_option(id, None, encode_log_id(id))
  BY KindsDiffer, RecordFields, Zenon DEF record_type, encode_payload, CHECKPOINT_RECORD_TYPE

\* What is written for a PurgeUpto.
LEMMA PurgeEncoded ==
  ASSUME NEW id
  PROVE  /\ record_type(PurgeUptoAction(id)) = 4
         /\ encode_payload(PurgeUptoAction(id)) = encode_log_id(id)
  BY KindsDiffer, RecordFields, Zenon DEF record_type, encode_payload, CHECKPOINT_RECORD_TYPE

\* What is written for a checkpoint.
LEMMA CheckpointEncoded ==
  ASSUME NEW s
  PROVE  /\ record_type(CheckpointRecord(s)) = 5
         /\ encode_payload(CheckpointRecord(s)) = encode_state(s)
  BY KindsDiffer, RecordFields, Zenon DEF record_type, encode_payload, CHECKPOINT_RECORD_TYPE

\* A payload is made of fields.
LEMMA PayloadEncoding ==
  ASSUME NEW rec \in RaftLogRecord
  PROVE  encode_payload(rec) \in Seq(Field) /\ record_type(rec) \in 0 .. 5
<1>1. ASSUME NEW v \in Nat, rec = SaveVoteAction(v)
      PROVE  encode_payload(rec) \in Seq(Field) /\ record_type(rec) \in 0 .. 5
  <2>1. encode_payload(rec) = <<Num(v)>> /\ record_type(rec) = 0
    BY <1>1, SaveVoteEncoded, Zenon
  <2>2. <<Num(v)>> \in Seq(Field)
    BY NumberEncoding
  <2> QED
    BY <2>1, <2>2
<1>2. ASSUME NEW id \in LogId, NEW n \in Nat, rec = AppendAction(id, n)
      PROVE  encode_payload(rec) \in Seq(Field) /\ record_type(rec) \in 0 .. 5
  <2>1. encode_payload(rec) = encode_log_id(id) \o encode_string(n) /\ record_type(rec) = 1
    BY <1>2, AppendEncoded, Zenon
  <2>2. encode_log_id(id) \in Seq(Field) /\ encode_string(n) \in Seq(Field)
    BY LogIdEncoding, StringEncoding
  <2>3. encode_log_id(id) \o encode_string(n) \in Seq(Field)
    BY <2>2, FieldConcat, Zenon
  <2> QED
    BY <2>1, <2>3
<1>3. ASSUME NEW id \in LogId, rec = CommitAction(id)
      PROVE  encode_payload(rec) \in Seq(Field) /\ record_type(rec) \in 0 .. 5
  BY <1>3, CommitEncoded, LogIdEncoding
<1>4. ASSUME NEW id \in OptLogId, rec = TruncateAfterAction(id)
      PROVE  encode_payload(rec) \in Seq(Field) /\ record_type(rec) \in 0 .. 5
  BY <1>4, TruncateEncoded, OptLogIdEncoding
<1>5. ASSUME NEW id \in LogId, rec = PurgeUptoAction(id)
      PROVE  encode_payload(rec) \in Seq(Field) /\ record_type(rec) \in 0 .. 5
  BY <1>5, PurgeEncoded, LogIdEncoding
<1>6. ASSUME NEW s \in RaftLogState, rec = CheckpointRecord(s)
      PROVE  encode_payload(rec) \in Seq(Field) /\ record_type(rec) \in 0 .. 5
  BY <1>6, CheckpointEncoded, StateEncoding
<1> QED
  BY <1>1, <1>2, <1>3, <1>4, <1>5, <1>6, RecordKinds, Zenon

\* decode_payload reads back the payload of every record.
LEMMA ReadPayload ==
  ASSUME NEW b \in Seq(Token), NEW p \in Nat \ {0}, NEW rec \in RaftLogRecord,
         Holds(b, p, encode_payload(rec))
  PROVE  decode_payload(record_type(rec), b, p) = Ok(rec, p + Len(encode_payload(rec)))
<1> DEFINE goal == decode_payload(record_type(rec), b, p) = Ok(rec, p + Len(encode_payload(rec)))
<1>1. ASSUME NEW v \in Nat, rec = SaveVoteAction(v) PROVE goal
  <2>1. decode_number(b, p) = Ok(v, p + 1) /\ Len(<<Num(v)>>) = 1
    BY <1>1, SaveVoteEncoded, ReadNumber
  <2>2. Is(decode_number(b, p), v, p + 1)
    BY <2>1, OkIs, Zenon
  <2>3. decode_payload(0, b, p) = Ok(SaveVoteAction(v), p + 1)
    BY <2>2, SaveVotePayload, Zenon DEF Is
  <2> QED
    BY <1>1, <2>1, <2>3, SaveVoteEncoded, Zenon
<1>2. ASSUME NEW id \in LogId, NEW n \in Nat, rec = AppendAction(id, n) PROVE goal
  <2> DEFINE e1 == encode_log_id(id)
             e2 == encode_string(n)
  <2>1. e1 \in Seq(Field) /\ Len(e1) = 2 /\ e2 \in Seq(Field) /\ Len(e2) = 1 + n
    BY LogIdEncoding, StringEncoding
  <2>2. Holds(b, p, e1 \o e2)
    BY <1>2, AppendEncoded, Zenon
  <2>3. Holds(b, p, e1) /\ Holds(b, p + 2, e2) /\ Len(e1 \o e2) = 2 + (1 + n) /\ p + 2 \in Nat \ {0}
    <3> HIDE DEF e1, e2
    <3>1. /\ Holds(b, p, e1) /\ Holds(b, p + Len(e1), e2)
          /\ Len(e1 \o e2) = Len(e1) + Len(e2) /\ p + Len(e1) \in Nat \ {0}
      BY <2>1, <2>2, HoldsConcat, Zenon
    <3> QED
      BY <2>1, <3>1
  <2>4. Is(decode_log_id(b, p), id, p + 2)
    BY <2>3, ReadLogId, OkIs, Zenon
  <2>5. Is(decode_string(b, p + 2), n, (p + 2) + (1 + n))
    BY <2>3, ReadString, OkIs, Zenon
  <2>6. (p + 2) + (1 + n) = p + Len(e1 \o e2)
    BY <2>3
  <2>7. decode_payload(1, b, p) = Ok(AppendAction(id, n), (p + 2) + (1 + n))
    BY <2>4, <2>5, AppendPayload, Zenon DEF Is
  <2> QED
    BY <1>2, <2>6, <2>7, AppendEncoded, Zenon
<1>3. ASSUME NEW id \in LogId, rec = CommitAction(id) PROVE goal
  <2>1. decode_log_id(b, p) = Ok(id, p + 2)
    BY <1>3, CommitEncoded, ReadLogId
  <2>2. Is(decode_log_id(b, p), id, p + 2)
    BY <2>1, OkIs, Zenon
  <2>3. decode_payload(2, b, p) = Ok(CommitAction(id), p + 2)
    BY <2>2, CommitPayload, Zenon DEF Is
  <2> QED
    BY <1>3, <2>3, CommitEncoded, LogIdEncoding, Zenon
<1>4. ASSUME NEW id \in OptLogId, rec = TruncateAfterAction(id) PROVE goal
  <2> DEFINE e == encode_option(id, None, encode_log_id(id))
  <2>1. Holds(b, p, e)
    BY <1>4, TruncateEncoded, Zenon
  <2>2. Is(decode_option(decode_log_id, None, b, p), id, p + Len(e))
    BY <2>1, ReadOptLogId, OkIs, Zenon
  <2>3. decode_payload(3, b, p) = Ok(TruncateAfterAction(id), p + Len(e))
    BY <2>2, TruncatePayload, Zenon DEF Is
  <2> QED
    BY <1>4, <2>3, TruncateEncoded, Zenon
<1>5. ASSUME NEW id \in LogId, rec = PurgeUptoAction(id) PROVE goal
  <2>1. decode_log_id(b, p) = Ok(id, p + 2)
    BY <1>5, PurgeEncoded, ReadLogId
  <2>2. Is(decode_log_id(b, p), id, p + 2)
    BY <2>1, OkIs, Zenon
  <2>3. decode_payload(4, b, p) = Ok(PurgeUptoAction(id), p + 2)
    BY <2>2, PurgePayload, Zenon DEF Is
  <2> QED
    BY <1>5, <2>3, PurgeEncoded, LogIdEncoding, Zenon
<1>6. ASSUME NEW s \in RaftLogState, rec = CheckpointRecord(s) PROVE goal
  <2>1. Holds(b, p, encode_state(s))
    BY <1>6, CheckpointEncoded, Zenon
  <2>2. Is(decode_state(b, p), s, p + Len(encode_state(s)))
    BY <2>1, ReadState, OkIs, Zenon
  <2>3. decode_payload(5, b, p) = Ok(CheckpointRecord(s), p + Len(encode_state(s)))
    BY <2>2, CheckpointPayload, Zenon DEF Is
  <2> QED
    BY <1>6, <2>3, CheckpointEncoded, Zenon
<1> HIDE DEF goal
<1>7. goal
  BY <1>1, <1>2, <1>3, <1>4, <1>5, <1>6, RecordKinds, Zenon
<1> QED
  BY <1>7, Zenon DEF goal

\* A record is fields and one checksum, which covers them; encode returns its size.
LEMMA RecordEncoding ==
  ASSUME NEW rec \in RaftLogRecord
  PROVE  LET e == encode(rec) IN
         /\ e \in Seq(Token) /\ Len(e) = encode_size(rec) /\ Len(e) \in Nat /\ Len(e) >= 2
         /\ \A i \in 1 .. Len(e) - 1 : e[i].over = <<>>
         /\ e[Len(e)] = Crc(SubSeq(e, 1, Len(e) - 1))
<1> DEFINE h == <<Num(record_type(rec))>>
           c == encode_payload(rec)
           body == h \o c
           e == encode(rec)
<1>1. h \in Seq(Field) /\ Len(h) = 1 /\ c \in Seq(Field)
  BY PayloadEncoding, NumberEncoding
<1>2. e = Append(body, Crc(body))
  BY Zenon DEF encode
<1> HIDE DEF h, c, e
<1>3. body \in Seq(Field) /\ Len(body) = 1 + Len(c) /\ Len(c) \in Nat
  <2>1. body \in Seq(Field) /\ Len(body) = Len(h) + Len(c)
    BY <1>1, FieldConcat, Zenon
  <2>2. Len(c) \in Nat
    BY <1>1
  <2> QED
    BY <1>1, <2>1, <2>2, Zenon
<1> HIDE DEF body
<1>4. Crc(body) \in Token
  BY <1>3 DEF Crc, Token, Field, Noise
<1>5. body \in Seq(Token)
  BY <1>3, FieldToken
<1>6. e \in Seq(Token) /\ Len(e) = Len(body) + 1
  BY <1>2, <1>4, <1>5
<1>7. Len(e) = encode_size(rec)
  BY <1>3, <1>6 DEF encode_size, c
<1>8. \A i \in 1 .. Len(e) - 1 : e[i] = body[i]
  BY <1>2, <1>5, <1>6
<1>9. \A i \in 1 .. Len(e) - 1 : e[i].over = <<>>
  <2>1. \A i \in 1 .. Len(body) : body[i] \in Field
    BY <1>3
  <2>2. \A x \in Field : x.over = <<>>
    BY DEF Field
  <2> QED
    BY <1>6, <1>8, <2>1, <2>2
<1>10. e[Len(e)] = Crc(body)
  BY <1>2, <1>5, <1>6
<1>11. SubSeq(e, 1, Len(e) - 1) = body
  BY <1>2, <1>4, <1>5, <1>6
<1>12. Len(e) \in Nat /\ Len(e) >= 2
  BY <1>3, <1>6
<1>13. e[Len(e)] = Crc(SubSeq(e, 1, Len(e) - 1))
  BY <1>10, <1>11, Zenon
<1> QED
  BY <1>6, <1>7, <1>9, <1>12, <1>13, Zenon DEF e

\* decode reads back every record encode wrote, and stops behind it.
LEMMA ReadRecord ==
  ASSUME NEW b \in Seq(Token), NEW p \in Nat \ {0}, NEW rec \in RaftLogRecord,
         Holds(b, p, encode(rec))
  PROVE  decode(b, p) = Ok(rec, p + Len(encode(rec)))
<1> DEFINE t == record_type(rec)
           h == <<Num(t)>>
           c == encode_payload(rec)
           body == h \o c
           e == encode(rec)
<1>1. h \in Seq(Field) /\ Len(h) = 1 /\ c \in Seq(Field) /\ t \in Nat
  BY PayloadEncoding, NumberEncoding
<1>2. e = Append(body, Crc(body)) /\ Holds(b, p, e)
  BY Zenon DEF encode
<1> HIDE DEF e
<1>3. body \in Seq(Field) /\ Len(body) = 1 + Len(c) /\ Len(c) \in Nat
  BY <1>1, FieldConcat
<1> DEFINE x == body
<1> HIDE DEF x
<1>4. x \in Seq(Field) /\ Len(x) \in Nat /\ Len(x) = 1 + Len(c) /\ e = Append(x, Crc(x))
  BY <1>2, <1>3 DEF x
<1>5. Len(e) = Len(x) + 1 /\ e[Len(x) + 1] = Crc(x) /\ \A i \in 1 .. Len(x) : e[i] = x[i]
  BY <1>4
<1>6. Holds(b, p, x) /\ p + Len(x) <= Len(b) /\ b[p + Len(x)] = Crc(x)
  <2>1. Len(x) + 1 \in 1 .. Len(e) /\ p + (Len(x) + 1) - 1 = p + Len(x)
    BY <1>4, <1>5
  <2>2. p + Len(e) - 1 <= Len(b) /\ \A i \in 1 .. Len(e) : b[p + i - 1] = e[i]
    BY <1>2 DEF Holds
  <2>3. b[p + Len(x)] = Crc(x)
    BY <1>5, <2>1, <2>2
  <2>4. p + Len(x) <= Len(b) /\ p + Len(x) - 1 <= Len(b)
    BY <1>4, <1>5, <2>2
  <2>5. ASSUME NEW i \in 1 .. Len(x) PROVE b[p + i - 1] = x[i]
    <3>1. i \in 1 .. Len(e)
      BY <1>4, <1>5
    <3> QED
      BY <1>5, <2>2, <3>1, Zenon
  <2> QED
    BY <2>3, <2>4, <2>5 DEF Holds
<1>7. SubSeq(b, p, p + Len(x) - 1) = x
  BY <1>4, <1>6 DEF Holds
<1>8. decode_number(b, p) = Ok(t, p + 1) /\ Holds(b, p + 1, c) /\ p + 1 \in Nat \ {0}
  <2>1. Holds(b, p, h \o c)
    BY <1>6, Zenon DEF x
  <2> QED
    BY <1>1, <2>1, ReadHead
<1>9. Is(decode_number(b, p), t, p + 1)
  BY <1>8, OkIs, Zenon
<1>10. Is(decode_payload(t, b, p + 1), rec, p + Len(x))
  <2>1. decode_payload(t, b, p + 1) = Ok(rec, (p + 1) + Len(c))
    BY <1>8, ReadPayload, Zenon
  <2>2. (p + 1) + Len(c) = p + Len(x)
    BY <1>3, <1>4
  <2> QED
    BY <2>1, <2>2, OkIs, Zenon
<1>11. decode(b, p) = verify_checksum(b, p, p + Len(x), rec)
  BY <1>9, <1>10, DecodeCases, Zenon DEF Is
<1>12. ~(p + Len(x) > Len(b)) /\ p + Len(x) + 1 = p + Len(e)
  BY <1>4, <1>5, <1>6
<1>13. verify_checksum(b, p, p + Len(x), rec) = Ok(rec, p + Len(x) + 1)
  <2>1. PICK q : q = p + Len(x)
    BY Zenon
  <2>2. ~(q > Len(b)) /\ q <= Len(b) /\ b[q] = Crc(SubSeq(b, p, q - 1))
    <3>1. SubSeq(b, p, q - 1) = x
      BY <1>7, <2>1
    <3>2. ~(q > Len(b)) /\ q <= Len(b)
      BY <1>6, <1>12, <2>1, Zenon
    <3>3. b[q] = Crc(x)
      BY <1>6, <2>1, Zenon
    <3> QED
      BY <3>1, <3>2, <3>3, Zenon
  <2>3. verify_checksum(b, p, q, rec) = Ok(rec, q + 1)
    BY <2>2, Zenon DEF verify_checksum
  <2> QED
    BY <2>1, <2>3, Zenon
<1> QED
  BY <1>11, <1>12, <1>13, Zenon DEF e

---------------------------------------------------------------------------
(* A chunk and its segments.                                               *)

\* The segments of the chunk: their starts, ends and lengths.
LEMMA SegmentFacts ==
  ASSUME SegmentsTile, NEW k \in 1 .. Len(records)
  PROVE  /\ records[k] \in RaftLogRecord
         /\ Start(k) \in Nat /\ ends[k] \in Nat
         /\ ends[k] = Start(k) + Len(encode(records[k]))
         /\ Len(encode(records[k])) \in Nat /\ Len(encode(records[k])) >= 2
<1>1. records[k] \in RaftLogRecord
  BY DEF SegmentsTile
<1>2. Start(k) \in Nat /\ ends[k] \in Nat
  BY DEF SegmentsTile, Start
<1> QED
  BY <1>1, <1>2, RecordEncoding DEF SegmentsTile

\* The number of bytes written.
LEMMA TotalFacts ==
  ASSUME SegmentsTile
  PROVE  /\ Total \in Nat
         /\ Len(records) \in Nat
         /\ \A k \in 1 .. Len(records) : ends[k] <= Total
         /\ \A k \in 1 .. Len(records) + 1 : Start(k) <= Total /\ Start(k) \in Nat
         /\ \A j, k \in 1 .. Len(records) + 1 : j < k => Start(j) < Start(k) /\ ends[j] <= Start(k)
<1>1. Len(records) \in Nat /\ Len(ends) = Len(records)
  BY DEF SegmentsTile
<1>2. \A k \in 1 .. Len(records) : ends[k] \in Nat /\ Start(k) \in Nat /\ Start(k) < ends[k]
  BY SegmentFacts
<1>3. \A k \in 1 .. Len(records) + 1 : Start(k) \in Nat
  BY <1>1, <1>2 DEF Start
<1>4. Start(1) = 0 /\ \A k \in 2 .. Len(records) + 1 : Start(k) = ends[k - 1]
  BY <1>1 DEF Start
<1>5. ASSUME NEW j \in 1 .. Len(records), NEW k \in 1 .. Len(records) + 1, j < k
      PROVE  ends[j] <= Start(k)
  <2>1. CASE j = k - 1
    <3>1. Start(k) = ends[j]
      BY <1>1, <1>4, <1>5, <2>1
    <3> QED
      BY <1>2, <3>1
  <2>2. CASE j < k - 1
    <3>1. k - 1 \in 1 .. Len(records) /\ j \in 1 .. (k - 1) - 1 /\ k \in 2 .. Len(records) + 1
      BY <1>1, <2>2
    <3>2. ends[j] <= Start(k - 1)
      BY <3>1 DEF SegmentsTile
    <3>3. Start(k) = ends[k - 1] /\ Start(k - 1) < ends[k - 1] /\ ends[k - 1] \in Nat /\ Start(k - 1) \in Nat
      BY <1>2, <1>4, <3>1
    <3> QED
      BY <1>2, <3>2, <3>3
  <2> QED
    BY <1>1, <1>5, <2>1, <2>2
<1>6. ASSUME NEW j \in 1 .. Len(records) + 1, NEW k \in 1 .. Len(records) + 1, j < k
      PROVE  Start(j) < Start(k) /\ ends[j] <= Start(k)
  <2>1. j \in 1 .. Len(records)
    BY <1>1, <1>6
  <2> QED
    BY <1>2, <1>3, <1>5, <1>6, <2>1
<1>7. Len(records) + 1 \in 1 .. Len(records) + 1 /\ Total = Start(Len(records) + 1)
  BY <1>1 DEF Total
<1>8. ASSUME NEW k \in 1 .. Len(records) PROVE ends[k] <= Total
  BY <1>1, <1>5, <1>7, <1>8
<1>9. ASSUME NEW k \in 1 .. Len(records) + 1 PROVE Start(k) <= Total
  BY <1>1, <1>3, <1>6, <1>7, <1>9
<1> QED
  BY <1>1, <1>3, <1>6, <1>7, <1>8, <1>9

\* Damage in the segment of record k.
Hit(k) == fault = "flip" /\ Start(k) < flipped /\ flipped <= ends[k]

\* A segment that is there whole and undamaged reads back.
LEMMA SegmentReads ==
  ASSUME SegmentsTile, BytesHeld, FaultPlaced, NEW k \in 1 .. Len(records),
         ends[k] <= Len(bytes), ~Hit(k)
  PROVE  decode(bytes, Start(k) + 1) = Ok(records[k], ends[k] + 1)
<1> DEFINE e == encode(records[k])
           p == Start(k) + 1
<1>1. /\ records[k] \in RaftLogRecord /\ Start(k) \in Nat /\ ends[k] = Start(k) + Len(e)
      /\ Len(e) \in Nat /\ p \in Nat \ {0} /\ bytes \in Seq(Token)
  BY SegmentFacts DEF BytesHeld
<1>2. ASSUME NEW i \in 1 .. Len(e) PROVE bytes[p + i - 1] = e[i]
  <2>1. Start(k) + i <= Len(bytes) /\ p + i - 1 = Start(k) + i /\ Start(k) < Start(k) + i
        /\ Start(k) + i <= ends[k] /\ Start(k) + i # 0
    BY <1>1
  <2>2. Start(k) + i # flipped
    BY <2>1 DEF Hit, FaultPlaced
  <2>3. bytes[Start(k) + i] = e[i]
    BY <2>1, <2>2 DEF BytesHeld
  <2> QED
    BY <2>1, <2>3
<1>3. p + Len(e) - 1 <= Len(bytes) /\ p + Len(e) = ends[k] + 1
  BY <1>1
<1> HIDE DEF e, p
<1>4. Holds(bytes, p, e)
  BY <1>2, <1>3 DEF Holds
<1>5. decode(bytes, p) = Ok(records[k], p + Len(e))
  BY <1>1, <1>4, ReadRecord, Zenon DEF e
<1> QED
  BY <1>3, <1>5, Zenon DEF p

\* A checksum that covers something is the last token of a segment.
LEMMA ChecksumPlace ==
  ASSUME SegmentsTile, BytesHeld, FaultPlaced, NEW q \in 1 .. Len(bytes),
         bytes[q].over # <<>>
  PROVE  \E j \in 1 .. Len(records) :
           LET e == encode(records[j]) IN
           /\ q = ends[j]
           /\ bytes[q] = Crc(SubSeq(e, 1, Len(e) - 1))
<1>1. q # flipped /\ ~(q > Total)
  BY DEF BytesHeld
<1>2. q \in 1 .. Total
  BY <1>1, TotalFacts DEF BytesHeld
<1>3. PICK j \in 1 .. Len(records) : Start(j) < q /\ q <= ends[j]
  BY <1>2 DEF SegmentsTile
<1> DEFINE e == encode(records[j])
           i == q - Start(j)
<1>4. /\ records[j] \in RaftLogRecord /\ Start(j) \in Nat /\ ends[j] = Start(j) + Len(e)
      /\ Len(e) \in Nat
  BY SegmentFacts
<1>5. i \in 1 .. Len(e) /\ Start(j) + i = q
  BY <1>3, <1>4 DEF BytesHeld
<1>6. bytes[q] = e[i]
  BY <1>1, <1>5 DEF BytesHeld
<1>7. /\ \A n \in 1 .. Len(e) - 1 : e[n].over = <<>>
      /\ e[Len(e)] = Crc(SubSeq(e, 1, Len(e) - 1))
  BY <1>4, RecordEncoding
<1> HIDE DEF e
<1>8. i = Len(e)
  <2>1. i \notin 1 .. Len(e) - 1
    BY <1>6, <1>7, Zenon
  <2> QED
    BY <1>4, <1>5, <2>1
<1>9. q = ends[j]
  BY <1>4, <1>5, <1>8
<1> QED
  BY <1>6, <1>7, <1>8, <1>9 DEF e

\* The bytes from p on decode.
Decodes(b, p) == decode(b, p).err = ""

\* What a decoder that succeeds at place p has stopped at.
LEMMA DecodedSegment ==
  ASSUME SegmentsTile, BytesHeld, FaultPlaced, NEW p \in Nat \ {0},
         Decodes(bytes, p)
  PROVE  \E j \in 1 .. Len(records) :
           LET e == encode(records[j]) IN
           /\ p = Start(j) + 1 /\ ends[j] <= Len(bytes)
           /\ bytes[ends[j]].over # <<>>
           /\ SubSeq(e, 1, Len(e) - 1) = SubSeq(bytes, p, ends[j] - 1)
<1>0. bytes \in Seq(Token) /\ Len(bytes) \in Nat
  BY DEF BytesHeld
<1>1. PICK q \in Nat : p < q /\ q <= Len(bytes) /\ bytes[q] = Crc(SubSeq(bytes, p, q - 1))
  BY <1>0, DecodeResult, Zenon DEF Decodes
<1> DEFINE s == SubSeq(bytes, p, q - 1)
<1>2. s \in Seq(Token) /\ Len(s) = q - p
  BY <1>0, <1>1
<1>3. bytes[q].over = s
  BY <1>1 DEF Crc
<1> HIDE DEF s
<1>4. s # <<>>
  BY <1>1, <1>2
<1>5. q \in 1 .. Len(bytes)
  BY <1>0, <1>1
<1>6. PICK j \in 1 .. Len(records) :
        LET e == encode(records[j]) IN
        q = ends[j] /\ bytes[q] = Crc(SubSeq(e, 1, Len(e) - 1))
  BY <1>3, <1>4, <1>5, ChecksumPlace, Zenon
<1> DEFINE e == encode(records[j])
           t == SubSeq(e, 1, Len(e) - 1)
<1>7. /\ records[j] \in RaftLogRecord /\ Start(j) \in Nat /\ ends[j] = Start(j) + Len(e)
      /\ Len(e) \in Nat /\ Len(e) >= 2
  BY SegmentFacts
<1>8. e \in Seq(Token)
  BY <1>7, RecordEncoding
<1> HIDE DEF e
<1>9. Len(t) = Len(e) - 1
  BY <1>7, <1>8
<1>10. t = s
  <2>1. bytes[q].over = t
    BY <1>6 DEF Crc, e
  <2> QED
    BY <2>1, <1>3
<1> HIDE DEF t
<1>11. p = Start(j) + 1
  BY <1>2, <1>6, <1>7, <1>9, <1>10
<1>12. t = SubSeq(bytes, p, ends[j] - 1) /\ bytes[ends[j]].over # <<>>
  BY <1>3, <1>4, <1>6, <1>10, Zenon DEF s
<1> QED
  BY <1>1, <1>6, <1>11, <1>12 DEF t, e

\* A segment that is cut or damaged does not decode.
LEMMA SegmentFails ==
  ASSUME SegmentsTile, BytesHeld, FaultPlaced, NEW k \in 1 .. Len(records),
         Decodes(bytes, Start(k) + 1)
  PROVE  ends[k] <= Len(bytes) /\ ~Hit(k)
<1>0. Start(k) \in Nat /\ Start(k) + 1 \in Nat \ {0} /\ ends[k] \in Nat
  BY SegmentFacts
<1>1. PICK j \in 1 .. Len(records) :
           LET e == encode(records[j]) IN
           /\ Start(k) + 1 = Start(j) + 1 /\ ends[j] <= Len(bytes)
           /\ bytes[ends[j]].over # <<>>
           /\ SubSeq(e, 1, Len(e) - 1) = SubSeq(bytes, Start(k) + 1, ends[j] - 1)
  BY <1>0, DecodedSegment, Zenon
<1>2. j = k
  <2>1. Start(j) \in Nat /\ Start(j) = Start(k)
    BY <1>0, <1>1, SegmentFacts
  <2>2. j < k => Start(j) < Start(k)
    BY TotalFacts
  <2>3. k < j => Start(k) < Start(j)
    BY TotalFacts
  <2> QED
    BY <1>0, <2>1, <2>2, <2>3
<1> DEFINE e == encode(records[k])
<1>3. /\ ends[k] <= Len(bytes) /\ bytes[ends[k]].over # <<>>
      /\ SubSeq(e, 1, Len(e) - 1) = SubSeq(bytes, Start(k) + 1, ends[k] - 1)
  BY <1>1, <1>2, Zenon
<1>4. ASSUME Hit(k) PROVE FALSE
  <2> DEFINE i == flipped - Start(k)
  <2>0. /\ ends[k] = Start(k) + Len(e) /\ Len(e) \in Nat /\ Len(e) >= 2
        /\ records[k] \in RaftLogRecord
    BY SegmentFacts
  <2>00. e \in Seq(Token) /\ bytes \in Seq(Token)
    BY <2>0, RecordEncoding DEF BytesHeld
  <2>1. flipped \in 1 .. Total /\ Start(k) < flipped /\ flipped <= ends[k]
    BY <1>4 DEF Hit, FaultPlaced
  <2>2. flipped \in 1 .. Len(bytes)
    BY <1>0, <1>3, <2>00, <2>1
  <2>3. bytes[flipped].over = <<>>
    BY <2>2 DEF BytesHeld
  <2>4. flipped # ends[k]
    BY <1>3, <2>3
  <2>5. i \in 1 .. Len(e) - 1 /\ i \in 1 .. Len(e) /\ Start(k) + i = flipped /\ i \in Nat
    BY <1>0, <2>0, <2>1, <2>4
  <2>6. bytes[flipped] # e[i]
    BY <2>2, <2>5 DEF BytesHeld
  <2> HIDE DEF e, i
  <2>7. SubSeq(e, 1, Len(e) - 1)[i] = e[i]
    BY <2>0, <2>00, <2>5
  <2>8. SubSeq(bytes, Start(k) + 1, ends[k] - 1)[i] = bytes[flipped]
    <3>1. \A m, n \in Nat \ {0} : n <= Len(bytes) =>
            \A x \in 1 .. n - m + 1 : SubSeq(bytes, m, n)[x] = bytes[m + x - 1]
      BY <2>00
    <3>2. /\ Start(k) + 1 \in Nat \ {0} /\ ends[k] - 1 \in Nat \ {0}
          /\ ends[k] - 1 <= Len(bytes)
      <4>1. Len(bytes) \in Nat
        BY <2>00
      <4>2. ends[k] <= Len(bytes)
        BY <1>3, Zenon
      <4>3. \A a, z, l, m \in Nat : z = a + l /\ l >= 2 /\ z <= m =>
              a + 1 \in Nat \ {0} /\ z - 1 \in Nat \ {0} /\ z - 1 <= m
        OBVIOUS
      <4> QED
        BY <1>0, <2>0, <4>1, <4>2, <4>3, Zenon
    <3>3. i \in 1 .. (ends[k] - 1) - (Start(k) + 1) + 1 /\ Start(k) + 1 + i - 1 = flipped
      <4>1. PICK a, z, l, x \in Nat : /\ a = Start(k) /\ z = ends[k] /\ l = Len(e) /\ x = i
                                     /\ z = a + l /\ x \in 1 .. l - 1 /\ a + x = flipped
        BY <1>0, <2>0, <2>5, Zenon
      <4>2. z = a + l /\ x \in 1 .. l - 1
        BY <4>1, Zenon
      <4>3. a + 1 + x - 1 = a + x /\ (z - 1) - (a + 1) + 1 = l - 1
        BY <4>2
      <4> QED
        BY <4>1, <4>2, <4>3, Zenon
    <3> QED
      BY <3>1, <3>2, <3>3
  <2> QED
    BY <1>3, <2>6, <2>7, <2>8
<1> QED
  BY <1>3, <1>4

\* Behind the last record nothing decodes.
LEMMA TailFails ==
  ASSUME SegmentsTile, BytesHeld, FaultPlaced
  PROVE  ~Decodes(bytes, Total + 1)
<1>0. Total \in Nat /\ Total + 1 \in Nat \ {0}
  BY TotalFacts
<1>1. ASSUME Decodes(bytes, Total + 1) PROVE FALSE
  <2>1. PICK j \in 1 .. Len(records) : Total + 1 = Start(j) + 1
    BY <1>0, <1>1, DecodedSegment, Zenon
  <2>2. Start(j) < ends[j] /\ Start(j) \in Nat /\ ends[j] \in Nat
    BY SegmentFacts
  <2>3. ends[j] <= Total
    BY TotalFacts
  <2> QED
    BY <1>0, <2>1, <2>2, <2>3
<1> QED
  BY <1>1

---------------------------------------------------------------------------
(* What the reader meets next.                                             *)

\* Records that lie whole in front of a fault do so after any of them too.
LEMMA WholeDownward ==
  ASSUME SegmentsTile, BytesHeld, FaultPlaced, NEW k \in Whole, NEW j \in 1 .. k
  PROVE  j \in Whole
<1>1. k \in 1 .. Len(records) /\ ends[k] <= Len(bytes) /\ (fault = "flip" => ends[k] < flipped)
  BY Zenon DEF Whole
<1>2. j \in 1 .. Len(records)
  BY <1>1, TotalFacts
<1>3. ends[j] \in Nat /\ ends[k] \in Nat /\ Start(k) \in Nat /\ Start(k) < ends[k]
  BY <1>1, <1>2, SegmentFacts
<1>4. j < k => ends[j] <= Start(k)
  BY <1>1, <1>2, TotalFacts
<1>5. ends[j] <= ends[k]
  BY <1>1, <1>3, <1>4
<1>6. ends[j] <= Len(bytes)
  BY <1>1, <1>3, <1>5 DEF BytesHeld
<1>7. fault = "flip" => ends[j] < flipped
  BY <1>1, <1>3, <1>5, TotalFacts DEF FaultPlaced
<1> QED
  BY <1>2, <1>6, <1>7 DEF Whole

\* Where the reader stands no damage lies behind it.
LEMMA ReaderFacts ==
  ASSUME CodecInv
  PROVE  /\ Len(decoded) \in Nat /\ at \in Nat /\ Len(bytes) \in Nat
         /\ fault = "flip" => at < flipped /\ flipped \in Nat
<1> USE DEF CodecInv
<1>1. /\ Len(decoded) <= Len(records) /\ decoded = SubSeq(records, 1, Len(decoded))
      /\ at = Start(Len(decoded) + 1)
      /\ \A k \in 1 .. Len(decoded) : k \in Whole
  BY DEF ReaderPlaced
<1>2. Len(records) \in Nat /\ records \in Seq(RaftLogRecord) /\ Len(bytes) \in Nat
  BY DEF SegmentsTile, BytesHeld
<1>3. Len(decoded) \in Nat
  BY <1>1, <1>2
<1>4. at \in Nat
  <2>1. Len(decoded) + 1 \in 1 .. Len(records) + 1
    BY <1>1, <1>2, <1>3
  <2> QED
    BY <1>1, <2>1, TotalFacts
<1>5. ASSUME fault = "flip" PROVE at < flipped /\ flipped \in Nat
  <2>0. flipped \in 1 .. Total /\ Total \in Nat
    BY <1>5, TotalFacts DEF FaultPlaced
  <2>1. CASE Len(decoded) = 0
    <3>1. at = 0
      BY <1>1, <2>1 DEF Start
    <3> QED
      BY <2>0, <3>1
  <2>2. CASE Len(decoded) # 0
    <3>1. Len(decoded) \in Whole
      BY <1>1, <1>3, <2>2
    <3>2. at = ends[Len(decoded)]
      BY <1>1, <1>3, <2>2 DEF Start
    <3>3. ends[Len(decoded)] < flipped
      BY <1>5, <3>1, Zenon DEF Whole
    <3> QED
      BY <2>0, <3>2, <3>3
  <2> QED
    BY <2>1, <2>2
<1> QED
  BY <1>2, <1>3, <1>4, <1>5

\* Behind the last record decoded: the next record decodes exactly when it is
\* whole and undamaged, and behind the last record nothing does.
LEMMA ReaderNext ==
  ASSUME CodecInv
  PROVE  LET n == Len(decoded) + 1 IN
         /\ n \in 1 .. Len(records) =>
              /\ at < Total /\ at < ends[n]
              /\ n \in Whole => decode(bytes, at + 1) = Ok(records[n], ends[n] + 1)
              /\ Decodes(bytes, at + 1) => n \in Whole
         /\ n \notin 1 .. Len(records) => at = Total /\ ~Decodes(bytes, at + 1)
<1> USE DEF CodecInv
<1> DEFINE n == Len(decoded) + 1
<1>0. at = Start(n) /\ Len(decoded) <= Len(records)
  BY DEF ReaderPlaced
<1>1. /\ Len(decoded) \in Nat /\ at \in Nat /\ Len(bytes) \in Nat /\ Len(records) \in Nat
      /\ fault = "flip" => at < flipped /\ flipped \in Nat
  BY ReaderFacts, TotalFacts
<1> HIDE DEF n
<1>2. ASSUME n \in 1 .. Len(records)
      PROVE  /\ at < Total /\ at < ends[n]
             /\ n \in Whole => decode(bytes, at + 1) = Ok(records[n], ends[n] + 1)
             /\ Decodes(bytes, at + 1) => n \in Whole
  <2>1. ends[n] \in Nat /\ at < ends[n]
    BY <1>0, <1>2, SegmentFacts
  <2>2. ends[n] <= Total /\ Total \in Nat
    BY <1>2, TotalFacts
  <2>3. at < Total
    BY <1>1, <2>1, <2>2
  <2>4. ASSUME n \in Whole PROVE decode(bytes, at + 1) = Ok(records[n], ends[n] + 1)
    <3>1. ends[n] <= Len(bytes) /\ (fault = "flip" => ends[n] < flipped)
      BY <2>4, Zenon DEF Whole
    <3>2. ~Hit(n)
      BY <1>1, <2>1, <3>1 DEF Hit
    <3> QED
      BY <1>0, <1>2, <3>1, <3>2, SegmentReads, Zenon
  <2>5. ASSUME Decodes(bytes, at + 1) PROVE n \in Whole
    <3>1. ends[n] <= Len(bytes) /\ ~Hit(n)
      BY <1>0, <1>2, <2>5, SegmentFails, Zenon
    <3>2. fault = "flip" => ends[n] < flipped
      BY <1>0, <1>1, <2>1, <3>1 DEF Hit
    <3> QED
      BY <1>2, <3>1, <3>2, Zenon DEF Whole
  <2> QED
    BY <2>1, <2>3, <2>4, <2>5, Zenon
<1>3. ASSUME n \notin 1 .. Len(records)
      PROVE  at = Total /\ ~Decodes(bytes, at + 1)
  <2>1. n = Len(records) + 1
    BY <1>0, <1>1, <1>3 DEF n
  <2>2. at = Total
    BY <1>0, <2>1, Zenon DEF Total
  <2> QED
    BY <2>2, TailFails, Zenon
<1> QED
  BY <1>2, <1>3, Zenon DEF n

---------------------------------------------------------------------------
(* The properties follow from the invariant.                               *)

\* SegmentsReadBack in every state of the invariant.
LEMMA InvReadsBack ==
  ASSUME CodecInv
  PROVE  SegmentsReadBack
<1> USE DEF CodecInv
<1> SUFFICES ASSUME NEW k \in 1 .. Len(records)
             PROVE  IF ends[k] <= Len(bytes) /\ ~Hit(k)
                      THEN decode(bytes, Start(k) + 1) = Ok(records[k], ends[k] + 1)
                      ELSE ~Decodes(bytes, Start(k) + 1)
  BY Zenon DEF SegmentsReadBack, Hit, Decodes
<1> QED
  BY SegmentReads, SegmentFails, Zenon

\* DecodesWhatWasWritten in every state of the invariant.
LEMMA InvDecodesWritten ==
  ASSUME CodecInv
  PROVE  DecodesWhatWasWritten
<1> USE DEF CodecInv
<1>1. /\ Len(decoded) <= Len(records) /\ decoded = SubSeq(records, 1, Len(decoded))
      /\ \A k \in 1 .. Len(decoded) : k \in Whole
      /\ at = Start(Len(decoded) + 1)
  BY DEF ReaderPlaced
<1>2. Len(decoded) \in Nat /\ Len(records) \in Nat /\ at \in Nat /\ Len(bytes) \in Nat
  BY ReaderFacts, TotalFacts
<1>3. ASSUME outcome # "reading", NEW k \in Whole PROVE k <= Len(decoded)
  <2> DEFINE n == Len(decoded) + 1
  <2>0. k \in 1 .. Len(records)
    BY Zenon DEF Whole
  <2>1. SUFFICES ASSUME ~(k <= Len(decoded)) PROVE FALSE
    BY Zenon
  <2>2. n \in 1 .. k /\ n \in 1 .. Len(records)
    BY <1>2, <2>0, <2>1
  <2>3. n \in Whole
    BY <2>2, WholeDownward
  <2>4. at < ends[n] /\ decode(bytes, at + 1) = Ok(records[n], ends[n] + 1)
    BY <2>2, <2>3, ReaderNext, Zenon
  <2>5. ends[n] <= Len(bytes) /\ ends[n] \in Nat
    <3>1. ends[n] <= Len(bytes)
      BY <2>3, Zenon DEF Whole
    <3> QED
      BY <2>2, <3>1, SegmentFacts
  <2>6. outcome # "end"
    <3>1. at < ends[n]
      BY <2>4, Zenon
    <3>2. at # Len(bytes)
      BY <1>2, <2>5, <3>1
    <3> QED
      BY <3>2, Zenon DEF ReaderPlaced
  <2>7. outcome \in Failures
    BY <1>3, <2>6, Zenon DEF ReaderPlaced
  <2>8. decode(bytes, at + 1).err # ""
    BY <2>7, Zenon DEF ReaderPlaced
  <2>9. decode(bytes, at + 1).err = ""
    BY <2>4, OkIs, Zenon DEF Is
  <2> QED
    BY <2>8, <2>9, Zenon
<1>4. Whole \subseteq 1 .. Len(records)
  BY Zenon DEF Whole
<1>5. ASSUME NEW k \in 1 .. Len(records), k <= Len(decoded) PROVE k \in Whole
  <2>1. k \in 1 .. Len(decoded)
    BY <1>2, <1>5
  <2> QED
    BY <1>1, <2>1, Zenon
<1>6. outcome # "reading" => {k \in 1 .. Len(records) : k <= Len(decoded)} = Whole
  BY <1>3, <1>4, <1>5, Zenon
<1> QED
  BY <1>1, <1>6, Zenon DEF DecodesWhatWasWritten

\* FaultsAreErrors in every state of the invariant.
LEMMA InvFaults ==
  ASSUME CodecInv
  PROVE  FaultsAreErrors
<1> USE DEF CodecInv
<1> DEFINE n == Len(decoded) + 1
           cutClean == fault = "cut" /\ Len(bytes) \in {0} \cup {ends[k] : k \in 1 .. Len(ends)}
<1>1. /\ Len(decoded) \in Nat /\ Len(records) \in Nat /\ at \in Nat /\ Len(bytes) \in Nat
      /\ Total \in Nat
      /\ fault = "flip" => at < flipped /\ flipped \in Nat
  BY ReaderFacts, TotalFacts
<1>2. Len(decoded) <= Len(records) /\ at = Start(n) /\ Len(ends) = Len(records)
  BY DEF ReaderPlaced, SegmentsTile
<1>3. at <= Total
  <2>1. n \in 1 .. Len(records) + 1
    BY <1>1, <1>2
  <2> QED
    BY <1>2, <2>1, TotalFacts
<1>4. ASSUME outcome = "end" PROVE fault = "intact" \/ cutClean
  <2>1. at = Len(bytes)
    BY <1>4, Zenon DEF ReaderPlaced
  <2>2. fault # "open"
    BY <1>4 DEF ReaderPlaced
  <2>3. fault # "zeros"
    BY <1>1, <1>3, <2>1 DEF FaultPlaced
  <2>4. fault # "flip"
    <3>1. ASSUME fault = "flip" PROVE FALSE
      <4>1. flipped \in 1 .. Total /\ Len(bytes) = Total /\ at < flipped
        BY <1>1, <3>1 DEF FaultPlaced
      <4> QED
        BY <1>1, <2>1, <4>1
    <3> QED
      BY <3>1
  <2>5. CASE fault = "cut"
    <3>1. CASE Len(decoded) = 0
      BY <1>2, <2>1, <2>5, <3>1 DEF Start
    <3>2. CASE Len(decoded) # 0
      <4>1. Len(decoded) \in 1 .. Len(ends) /\ at = ends[Len(decoded)]
        BY <1>1, <1>2, <3>2 DEF Start
      <4> QED
        BY <2>1, <2>5, <4>1
    <3> QED
      BY <3>1, <3>2
  <2> QED
    BY <2>2, <2>3, <2>4, <2>5 DEF FaultPlaced
<1>5. ASSUME outcome # "reading", outcome # "end", fault = "intact" \/ cutClean PROVE FALSE
  <2>1. outcome \in Failures
    BY <1>5, Zenon DEF ReaderPlaced
  <2>2. at < Len(bytes) /\ ~Decodes(bytes, at + 1)
    BY <2>1, Zenon DEF ReaderPlaced, Decodes
  <2>3. ASSUME NEW k \in 1 .. Len(records), at < ends[k], ends[k] <= Len(bytes) PROVE FALSE
    <3>1. n \in 1 .. Len(records) /\ n <= k
      <4>1. ends[k] \in Nat
        BY SegmentFacts
      <4>2. k < n => ends[k] <= Start(n)
        <5>1. n \in 1 .. Len(records) + 1
          BY <1>1, <1>2
        <5> QED
          BY <1>1, <5>1, TotalFacts
      <4>3. ~(k < n)
        BY <1>1, <1>2, <2>3, <4>1, <4>2
      <4> QED
        BY <1>1, <4>3
    <3>2. k \in Whole
      <4>1. fault # "flip"
        BY <1>5
      <4> QED
        BY <2>3, <4>1, Zenon DEF Whole
    <3>3. n \in 1 .. k
      BY <1>1, <3>1
    <3>4. n \in Whole
      BY <3>2, <3>3, WholeDownward
    <3>5. decode(bytes, at + 1) = Ok(records[n], ends[n] + 1)
      BY <3>1, <3>4, ReaderNext, Zenon
    <3> QED
      BY <2>2, <3>5, OkIs, Zenon DEF Decodes, Is
  <2>4. CASE fault = "intact"
    <3>1. Len(bytes) = Total /\ at < Total
      BY <2>2, <2>4 DEF FaultPlaced
    <3>2. n \in 1 .. Len(records)
      BY <1>1, <3>1, ReaderNext
    <3>3. at < ends[n] /\ ends[n] <= Len(bytes)
      BY <3>1, <3>2, ReaderNext, TotalFacts
    <3> QED
      BY <2>3, <3>2, <3>3, Zenon
  <2>5. CASE cutClean
    <3>1. Len(bytes) # 0
      BY <1>1, <2>2
    <3>2. PICK k \in 1 .. Len(records) : Len(bytes) = ends[k]
      BY <1>2, <2>5, <3>1
    <3>3. at < ends[k] /\ ends[k] <= Len(bytes)
      BY <1>1, <2>2, <3>2
    <3> QED
      BY <2>3, <3>3, Zenon
  <2> QED
    BY <1>5, <2>4, <2>5
<1> QED
  BY <1>4, <1>5, Zenon DEF FaultsAreErrors

---------------------------------------------------------------------------
(* The invariant is inductive.                                             *)

\* An empty chunk.
LEMMA CodecInit ==
  ASSUME Init
  PROVE  CodecInv
<1> USE DEF Init
<1>1. Total = 0 /\ Start(1) = 0 /\ Len(records) = 0 /\ Len(decoded) = 0 /\ Len(bytes) = 0
  BY DEF Total, Start
<1>2. SegmentsTile
  BY <1>1 DEF SegmentsTile
<1>3. BytesHeld
  BY <1>1 DEF BytesHeld
<1>4. FaultPlaced
  BY <1>1 DEF FaultPlaced
<1>5. decoded = SubSeq(records, 1, Len(decoded))
  BY <1>1
<1>6. ReaderPlaced
  BY <1>1, <1>5 DEF ReaderPlaced, Failures
<1> QED
  BY <1>2, <1>3, <1>4, <1>6 DEF CodecInv

\* The chunk as a record is added.
LEMMA AppendTiles ==
  ASSUME CodecInv, NEW rec \in RaftLogRecord, AppendRecord(rec)
  PROVE  /\ SegmentsTile'
         /\ Len(records') = Len(records) + 1 /\ Total' = Total + Len(encode(rec))
         /\ \A k \in 1 .. Len(records) : records'[k] = records[k] /\ ends'[k] = ends[k]
         /\ \A k \in 1 .. Len(records) + 1 : Start(k)' = Start(k)
         /\ records'[Len(records) + 1] = rec
<1> USE DEF CodecInv
<1> DEFINE e == encode(rec)
<1>0. PICK n : n = Len(records)
  BY Zenon
<1>1. /\ records \in Seq(RaftLogRecord) /\ ends \in Seq(Nat) /\ Len(ends) = n /\ n \in Nat
      /\ Total \in Nat
  BY <1>0, TotalFacts DEF SegmentsTile
<1>2. Len(e) \in Nat /\ Len(e) >= 2 /\ Len(e) = encode_size(rec)
  BY RecordEncoding
<1> HIDE DEF e
<1>3. records' = Append(records, rec) /\ ends' = Append(ends, Total + Len(e))
  BY <1>2, Zenon DEF AppendRecord, Total, e
<1>4. /\ records' \in Seq(RaftLogRecord) /\ ends' \in Seq(Nat)
      /\ Len(records') = n + 1 /\ Len(ends') = n + 1
  BY <1>0, <1>1, <1>2, <1>3
<1>5. \A k \in 1 .. n : records'[k] = records[k] /\ ends'[k] = ends[k]
  BY <1>0, <1>1, <1>3
<1>6. records'[n + 1] = rec /\ ends'[n + 1] = Total + Len(e)
  BY <1>0, <1>1, <1>3
<1>7. \A k \in 1 .. n + 1 : Start(k)' = Start(k)
  BY <1>1, <1>5 DEF Start
<1>8. Start(n + 1) = Total /\ Start(n + 1)' = Total
  <2>1. Start(n + 1) = Total
    BY <1>0, Zenon DEF Total
  <2>2. n + 1 \in 1 .. n + 1
    BY <1>1
  <2> QED
    BY <1>7, <2>1, <2>2, Zenon
<1>9. Total' = Total + Len(e)
  BY <1>1, <1>4, <1>6 DEF Total, Start
<1>10. \A k \in 1 .. n : ends[k] = Start(k) + Len(encode(records[k]))
  BY <1>0 DEF SegmentsTile
<1>11. ASSUME NEW k \in 1 .. n + 1
       PROVE  ends'[k] = Start(k)' + Len(encode(records'[k]))
  <2>1. CASE k \in 1 .. n
    BY <1>5, <1>7, <1>10, <2>1
  <2>2. CASE k = n + 1
    BY <1>6, <1>8, <2>2 DEF e
  <2> QED
    BY <1>1, <2>1, <2>2
<1>12. ASSUME NEW k \in 1 .. n + 1, NEW j \in 1 .. k - 1
       PROVE  ends'[j] <= Start(k)'
  <2>1. j \in 1 .. n /\ j \in 1 .. n + 1 /\ j < k
    BY <1>1
  <2>2. ends[j] <= Start(k)
    BY <1>0, <2>1, TotalFacts
  <2> QED
    BY <1>5, <1>7, <2>1, <2>2
<1>13. ASSUME NEW q \in 1 .. Total'
       PROVE  \E k \in 1 .. n + 1 : Start(k)' < q /\ q <= ends'[k]
  <2>1. CASE q <= Total
    <3>1. q \in 1 .. Total
      BY <1>1, <2>1
    <3>2. PICK k \in 1 .. n : Start(k) < q /\ q <= ends[k]
      BY <1>0, <3>1 DEF SegmentsTile
    <3>3. k \in 1 .. n + 1 /\ Start(k)' < q /\ q <= ends'[k]
      BY <1>1, <1>5, <1>7, <3>2
    <3> QED
      BY <3>3
  <2>2. CASE q > Total
    <3>1. n + 1 \in 1 .. n + 1 /\ Start(n + 1)' < q /\ q <= ends'[n + 1]
      BY <1>1, <1>2, <1>6, <1>8, <1>9, <2>2
    <3> QED
      BY <3>1
  <2> QED
    BY <1>1, <1>2, <1>9, <2>1, <2>2
<1>14. SegmentsTile'
  BY <1>4, <1>11, <1>12, <1>13 DEF SegmentsTile
<1> QED
  BY <1>0, <1>4, <1>5, <1>6, <1>7, <1>9, <1>14, Zenon DEF e

\* A chunk that is still written.
LEMMA OpenFacts ==
  ASSUME CodecInv, fault = "open"
  PROVE  /\ flipped = 0 /\ Len(bytes) = Total /\ Total \in Nat /\ bytes \in Seq(Token)
         /\ decoded = <<>> /\ at = 0 /\ outcome = "reading"
         /\ \A k \in 1 .. Len(records) : \A i \in 1 .. Len(encode(records[k])) :
              /\ Start(k) + i \in 1 .. Len(bytes)
              /\ bytes[Start(k) + i] = encode(records[k])[i]
<1> USE DEF CodecInv
<1>1. flipped = 0 /\ Len(bytes) = Total
  BY DEF FaultPlaced
<1>2. Total \in Nat /\ bytes \in Seq(Token)
  BY TotalFacts DEF BytesHeld
<1>3. decoded = <<>> /\ outcome = "reading" /\ at = Start(Len(decoded) + 1)
  BY Zenon DEF ReaderPlaced
<1>4. at = 0
  BY <1>3 DEF Start
<1>5. ASSUME NEW k \in 1 .. Len(records), NEW i \in 1 .. Len(encode(records[k]))
      PROVE  /\ Start(k) + i \in 1 .. Len(bytes)
             /\ bytes[Start(k) + i] = encode(records[k])[i]
  <2>1. /\ Start(k) \in Nat /\ ends[k] = Start(k) + Len(encode(records[k]))
        /\ Len(encode(records[k])) \in Nat
    BY SegmentFacts
  <2>2. ends[k] <= Total
    BY TotalFacts
  <2>3. Start(k) + i \in 1 .. Len(bytes) /\ Start(k) + i # 0 /\ Start(k) + i <= Len(bytes)
    BY <1>1, <1>2, <2>1, <2>2
  <2> QED
    BY <1>1, <2>3 DEF BytesHeld
<1> QED
  BY <1>1, <1>2, <1>3, <1>4, <1>5, Zenon

\* A reader that has not begun is in place whatever the bytes are.
LEMMA ReaderNotBegun ==
  ASSUME SegmentsTile', decoded' = <<>>, at' = 0, outcome' = "reading"
  PROVE  ReaderPlaced'
<1>1. Len(decoded') = 0 /\ records' \in Seq(RaftLogRecord) /\ Len(records') \in Nat
  BY DEF SegmentsTile
<1>2. decoded' = SubSeq(records', 1, Len(decoded'))
  BY <1>1
<1>3. at' = Start(Len(decoded) + 1)'
  BY <1>1 DEF Start
<1> QED
  BY <1>1, <1>2, <1>3 DEF ReaderPlaced, Failures

\* A record is added: its bytes follow those of the others.
LEMMA AppendKeeps ==
  ASSUME CodecInv, NEW rec \in RaftLogRecord, AppendRecord(rec)
  PROVE  CodecInv'
<1> DEFINE e == encode(rec)
<1>0. PICK n : n = Len(records)
  BY Zenon
<1>1. /\ fault = "open" /\ bytes' = bytes \o e
      /\ fault' = fault /\ flipped' = flipped /\ at' = at /\ decoded' = decoded
      /\ outcome' = outcome
  BY DEF AppendRecord
<1>2. /\ flipped = 0 /\ Len(bytes) = Total /\ Total \in Nat /\ bytes \in Seq(Token)
      /\ decoded = <<>> /\ at = 0 /\ outcome = "reading"
      /\ \A k \in 1 .. n : \A i \in 1 .. Len(encode(records[k])) :
           /\ Start(k) + i \in 1 .. Len(bytes)
           /\ bytes[Start(k) + i] = encode(records[k])[i]
  BY <1>0, <1>1, OpenFacts, Zenon
<1>3. e \in Seq(Token) /\ Len(e) \in Nat
  BY RecordEncoding
<1>4. /\ SegmentsTile' /\ Len(records') = n + 1 /\ Total' = Total + Len(e)
      /\ \A k \in 1 .. n : records'[k] = records[k] /\ ends'[k] = ends[k]
      /\ \A k \in 1 .. n + 1 : Start(k)' = Start(k)
      /\ records'[n + 1] = rec
  BY <1>0, AppendTiles, Zenon
<1>5. n \in Nat /\ Start(n + 1) = Total
  BY <1>0, TotalFacts DEF Total, CodecInv
<1> HIDE DEF e
<1>6. /\ bytes' \in Seq(Token) /\ Len(bytes') = Total'
      /\ \A x \in 1 .. Len(bytes) : bytes'[x] = bytes[x]
      /\ \A i \in 1 .. Len(e) : bytes'[Total + i] = e[i]
  <2>1. bytes' \in Seq(Token) /\ Len(bytes') = Len(bytes) + Len(e)
    BY <1>1, <1>2, <1>3
  <2>2. \A x \in 1 .. Len(bytes) : bytes'[x] = bytes[x]
    BY <1>1, <1>2, <1>3
  <2>3. \A i \in 1 .. Len(e) : bytes'[Total + i] = e[i]
    BY <1>1, <1>2, <1>3
  <2> QED
    BY <1>2, <1>4, <2>1, <2>2, <2>3
<1>7. ASSUME NEW k \in 1 .. n + 1, NEW i \in 1 .. Len(encode(records'[k]))
      PROVE  bytes'[Start(k)' + i] = encode(records'[k])[i] /\ Start(k)' + i # 0
  <2>1. CASE k \in 1 .. n
    <3>1. records'[k] = records[k] /\ Start(k)' = Start(k)
      BY <1>4, <1>5, <2>1
    <3>2. Start(k) + i \in 1 .. Len(bytes) /\ bytes[Start(k) + i] = encode(records[k])[i]
      BY <1>2, <2>1, <3>1
    <3> QED
      BY <1>2, <1>6, <3>1, <3>2
  <2>2. CASE k = n + 1
    <3>1. records'[k] = rec /\ Start(k)' = Total /\ i \in 1 .. Len(e)
      BY <1>4, <1>5, <2>2 DEF e
    <3> QED
      BY <1>2, <1>3, <1>6, <3>1 DEF e
  <2> QED
    BY <1>5, <2>1, <2>2
<1>8. BytesHeld'
  <2>1. \A q \in 1 .. Len(bytes') : ~(q = flipped' \/ q > Total')
    BY <1>1, <1>2, <1>3, <1>4, <1>6
  <2> QED
    BY <1>1, <1>2, <1>4, <1>6, <1>7, <2>1 DEF BytesHeld
<1>9. FaultPlaced'
  BY <1>1, <1>2, <1>6 DEF FaultPlaced
<1>10. ReaderPlaced'
  BY <1>1, <1>2, <1>4, ReaderNotBegun
<1> QED
  BY <1>4, <1>8, <1>9, <1>10 DEF CodecInv

\* The chunk is closed: the records, their segments and the reader stay.
LEMMA CloseKeeps ==
  ASSUME CodecInv, fault = "open",
         UNCHANGED <<records, ends, at, decoded, outcome>>,
         FaultPlaced', bytes' \in Seq(Token),
         \A k \in 1 .. Len(records) : \A i \in 1 .. Len(encode(records[k])) :
           Start(k) + i <= Len(bytes') =>
             (bytes'[Start(k) + i] = bytes[Start(k) + i] <=> Start(k) + i # flipped'),
         \A q \in 1 .. Len(bytes') : q = flipped' \/ q > Total => bytes'[q].over = <<>>
  PROVE  CodecInv'
<1>1. /\ decoded = <<>> /\ at = 0 /\ outcome = "reading"
      /\ \A k \in 1 .. Len(records) : \A i \in 1 .. Len(encode(records[k])) :
           bytes[Start(k) + i] = encode(records[k])[i]
  BY OpenFacts, Zenon
<1>2. /\ records' = records /\ ends' = ends /\ at' = at /\ decoded' = decoded
      /\ outcome' = outcome
  OBVIOUS
<1>3. (\A k : Start(k)' = Start(k)) /\ Total' = Total
  BY <1>2 DEF Start, Total
<1>4. SegmentsTile'
  BY <1>2, <1>3 DEF SegmentsTile, CodecInv
<1>5. BytesHeld'
  BY <1>1, <1>2, <1>3 DEF BytesHeld
<1>6. ReaderPlaced'
  BY <1>1, <1>2, <1>4, ReaderNotBegun
<1> QED
  BY <1>4, <1>5, <1>6 DEF CodecInv

\* Nothing happens to the chunk.
LEMMA IntactKeeps ==
  ASSUME CodecInv, Intact
  PROVE  CodecInv'
<1>1. /\ fault = "open" /\ fault' = "intact" /\ bytes' = bytes /\ flipped' = 0
      /\ UNCHANGED <<records, ends, at, decoded, outcome>>
  BY DEF Intact, Close
<1>2. /\ flipped = 0 /\ Len(bytes) = Total /\ Total \in Nat /\ bytes \in Seq(Token)
      /\ \A k \in 1 .. Len(records) : \A i \in 1 .. Len(encode(records[k])) :
           Start(k) + i \in 1 .. Len(bytes)
  BY <1>1, OpenFacts, Zenon
<1>3. Total' = Total
  BY <1>1 DEF Total, Start
<1>4. FaultPlaced'
  BY <1>1, <1>2, <1>3 DEF FaultPlaced
<1>5. \A q \in 1 .. Len(bytes') : ~(q = flipped' \/ q > Total)
  BY <1>1, <1>2
<1>6. \A k \in 1 .. Len(records) : \A i \in 1 .. Len(encode(records[k])) :
        bytes'[Start(k) + i] = bytes[Start(k) + i] /\ Start(k) + i # flipped'
  BY <1>1, <1>2
<1> QED
  BY <1>1, <1>2, <1>4, <1>5, <1>6, CloseKeeps

\* A crash cuts the file.
LEMMA CutKeeps ==
  ASSUME CodecInv, Cut
  PROVE  CodecInv'
<1>1. PICK n \in 0 .. Len(bytes) - 1 : Close("cut", SubSeq(bytes, 1, n), 0)
  BY Zenon DEF Cut
<1>2. /\ fault = "open" /\ fault' = "cut" /\ bytes' = SubSeq(bytes, 1, n) /\ flipped' = 0
      /\ UNCHANGED <<records, ends, at, decoded, outcome>>
  BY <1>1 DEF Close
<1>3. /\ flipped = 0 /\ Len(bytes) = Total /\ Total \in Nat /\ bytes \in Seq(Token)
      /\ \A k \in 1 .. Len(records) : \A i \in 1 .. Len(encode(records[k])) :
           Start(k) + i \in 1 .. Len(bytes)
  BY <1>2, OpenFacts, Zenon
<1>4. /\ bytes' \in Seq(Token) /\ Len(bytes') = n
      /\ \A x \in 1 .. n : bytes'[x] = bytes[x]
  BY <1>2, <1>3
<1>5. Total' = Total
  BY <1>2 DEF Total, Start
<1>6. FaultPlaced'
  BY <1>2, <1>3, <1>4, <1>5 DEF FaultPlaced
<1>7. \A q \in 1 .. Len(bytes') : ~(q = flipped' \/ q > Total)
  BY <1>2, <1>3, <1>4
<1>8. ASSUME NEW k \in 1 .. Len(records), NEW i \in 1 .. Len(encode(records[k])),
             Start(k) + i <= Len(bytes')
      PROVE  bytes'[Start(k) + i] = bytes[Start(k) + i] /\ Start(k) + i # flipped'
  <2>1. Start(k) + i \in 1 .. n
    BY <1>3, <1>4, <1>8
  <2> QED
    BY <1>2, <1>4, <2>1
<1> QED
  BY <1>2, <1>4, <1>6, <1>7, <1>8, CloseKeeps

\* One token is damaged.
LEMMA FlipKeeps ==
  ASSUME CodecInv, Flip
  PROVE  CodecInv'
<1>1. PICK m \in 1 .. Len(bytes), n \in Flips :
        Num(n) # bytes[m] /\ Close("flip", [bytes EXCEPT ![m] = Num(n)], m)
  BY Zenon DEF Flip
<1>2. /\ fault = "open" /\ fault' = "flip" /\ bytes' = [bytes EXCEPT ![m] = Num(n)] /\ flipped' = m
      /\ UNCHANGED <<records, ends, at, decoded, outcome>>
  BY <1>1 DEF Close
<1>3. /\ flipped = 0 /\ Len(bytes) = Total /\ Total \in Nat /\ bytes \in Seq(Token)
      /\ \A k \in 1 .. Len(records) : \A i \in 1 .. Len(encode(records[k])) :
           Start(k) + i \in 1 .. Len(bytes)
  BY <1>2, OpenFacts, Zenon
<1>4. Num(n) \in Token /\ Num(n).over = <<>>
  BY CodecAssumption, NumField, FieldToken DEF Num
<1>5. /\ bytes' \in Seq(Token) /\ Len(bytes') = Len(bytes) /\ bytes'[m] = Num(n)
      /\ \A x \in 1 .. Len(bytes) : x # m => bytes'[x] = bytes[x]
  BY <1>2, <1>3, <1>4
<1>6. Total' = Total
  BY <1>2 DEF Total, Start
<1>7. FaultPlaced'
  BY <1>2, <1>3, <1>5, <1>6 DEF FaultPlaced
<1>8. ASSUME NEW q \in 1 .. Len(bytes'), q = flipped' \/ q > Total
      PROVE  bytes'[q].over = <<>>
  <2>1. q = m
    BY <1>2, <1>3, <1>5, <1>8
  <2> QED
    BY <1>4, <1>5, <2>1, Zenon
<1>9. ASSUME NEW k \in 1 .. Len(records), NEW i \in 1 .. Len(encode(records[k]))
      PROVE  bytes'[Start(k) + i] = bytes[Start(k) + i] <=> Start(k) + i # flipped'
  <2>1. Start(k) + i \in 1 .. Len(bytes)
    BY <1>3
  <2>2. CASE Start(k) + i = m
    BY <1>1, <1>2, <1>5, <2>2, Zenon
  <2>3. CASE Start(k) + i # m
    BY <1>2, <1>5, <2>1, <2>3, Zenon
  <2> QED
    BY <2>2, <2>3
<1> QED
  BY <1>2, <1>5, <1>7, <1>8, <1>9, CloseKeeps

\* The file ends in zeros.
LEMMA ZerosKeeps ==
  ASSUME CodecInv, Zeros
  PROVE  CodecInv'
<1>1. PICK n \in 1 .. 4 : Close("zeros", bytes \o [k \in 1 .. n |-> Num(0)], 0)
  BY Zenon DEF Zeros
<1> DEFINE z == [k \in 1 .. n |-> Num(0)]
<1>2. /\ fault = "open" /\ fault' = "zeros" /\ bytes' = bytes \o z /\ flipped' = 0
      /\ UNCHANGED <<records, ends, at, decoded, outcome>>
  BY <1>1 DEF Close
<1>3. /\ flipped = 0 /\ Len(bytes) = Total /\ Total \in Nat /\ bytes \in Seq(Token)
      /\ \A k \in 1 .. Len(records) : \A i \in 1 .. Len(encode(records[k])) :
           Start(k) + i \in 1 .. Len(bytes)
  BY <1>2, OpenFacts, Zenon
<1>4. Num(0) \in Token /\ Num(0).over = <<>>
  BY NumField, FieldToken DEF Num
<1>5. z \in Seq(Token) /\ Len(z) = n /\ \A x \in 1 .. n : z[x] = Num(0)
  BY <1>4
<1> HIDE DEF z
<1>6. /\ bytes' \in Seq(Token) /\ Len(bytes') = Total + n
      /\ \A x \in 1 .. Total : bytes'[x] = bytes[x]
      /\ \A x \in 1 .. n : bytes'[Total + x] = z[x]
  BY <1>2, <1>3, <1>5
<1>7. Total' = Total
  BY <1>2 DEF Total, Start
<1>8. FaultPlaced'
  BY <1>2, <1>3, <1>6, <1>7 DEF FaultPlaced
<1>9. ASSUME NEW q \in 1 .. Len(bytes'), q = flipped' \/ q > Total
      PROVE  bytes'[q].over = <<>>
  <2>1. q - Total \in 1 .. n /\ Total + (q - Total) = q
    BY <1>2, <1>3, <1>6, <1>9
  <2>2. bytes'[q] = Num(0)
    BY <1>5, <1>6, <2>1
  <2> QED
    BY <1>4, <2>2, Zenon
<1>10. \A k \in 1 .. Len(records) : \A i \in 1 .. Len(encode(records[k])) :
         bytes'[Start(k) + i] = bytes[Start(k) + i] /\ Start(k) + i # flipped'
  BY <1>2, <1>3, <1>6
<1> QED
  BY <1>2, <1>6, <1>8, <1>9, <1>10, CloseKeeps

\* The reader moves on by one record, or stops.
LEMMA DecodeKeeps ==
  ASSUME CodecInv, DecodeNext
  PROVE  CodecInv'
<1> DEFINE r == decode(bytes, at + 1)
<1>0. PICK n : n = Len(decoded) + 1
  BY Zenon
<1>1. /\ fault # "open" /\ outcome = "reading"
      /\ records' = records /\ bytes' = bytes /\ ends' = ends /\ fault' = fault
      /\ flipped' = flipped
  BY DEF DecodeNext
<1>2. (\A k : Start(k)' = Start(k)) /\ Total' = Total /\ Whole' = Whole
  BY <1>1 DEF Start, Total, Whole
<1>3. SegmentsTile' /\ BytesHeld' /\ FaultPlaced'
  BY <1>1, <1>2 DEF CodecInv, SegmentsTile, BytesHeld, FaultPlaced
<1>4. /\ Len(decoded) <= Len(records) /\ decoded = SubSeq(records, 1, Len(decoded))
      /\ at = Start(n) /\ \A k \in 1 .. Len(decoded) : k \in Whole
  BY <1>0 DEF CodecInv, ReaderPlaced
<1>5. /\ Len(decoded) \in Nat /\ at \in Nat /\ Len(bytes) \in Nat /\ Len(records) \in Nat
      /\ records \in Seq(RaftLogRecord) /\ bytes \in Seq(Token)
  BY ReaderFacts, TotalFacts DEF CodecInv, SegmentsTile, BytesHeld
<1>6. CASE at = Len(bytes) /\ outcome' = "end" /\ at' = at /\ decoded' = decoded
  <2>1. "end" \notin Failures
    BY DEF Failures
  <2>2. ReaderPlaced'
    BY <1>0, <1>1, <1>2, <1>4, <1>6, <2>1, Zenon DEF ReaderPlaced
  <2> QED
    BY <1>3, <2>2 DEF CodecInv
<1>7. CASE /\ at < Len(bytes) /\ r.err # "" /\ outcome' = r.err
           /\ at' = at /\ decoded' = decoded
  <2>1. at + 1 \in Nat \ {0}
    BY <1>5
  <2>2. r.err \in Failures
    BY <1>5, <1>7, <2>1, DecodeResult, Zenon
  <2>3. outcome' \in Failures /\ outcome' # "end"
    BY <1>7, <2>2 DEF Failures
  <2>4. at' < Len(bytes') /\ decode(bytes', at' + 1).err # ""
    BY <1>1, <1>7, Zenon
  <2>5. ReaderPlaced'
    BY <1>0, <1>1, <1>2, <1>4, <1>7, <2>3, <2>4, Zenon DEF ReaderPlaced
  <2> QED
    BY <1>3, <2>5 DEF CodecInv
<1>8. CASE /\ r.err = "" /\ at' = r.at - 1 /\ decoded' = Append(decoded, r.value)
           /\ outcome' = outcome
  <2>1. Decodes(bytes, at + 1)
    BY <1>8, Zenon DEF Decodes
  <2>2. n \in 1 .. Len(records) /\ n \in Whole
    BY <1>0, <2>1, ReaderNext, Zenon
  <2>3. r = Ok(records[n], ends[n] + 1)
    BY <1>0, <2>2, ReaderNext, Zenon
  <2>4. r.value = records[n] /\ r.at = ends[n] + 1
    BY <2>3, OkIs, Zenon DEF Is
  <2> HIDE DEF r
  <2>5. ends[n] \in Nat
    BY <2>2, SegmentFacts DEF CodecInv
  <2>6. at' = ends[n]
    <3>1. PICK m : m = r.at /\ at' = m - 1
      BY <1>8, Zenon
    <3>2. m = ends[n] + 1
      BY <2>4, <3>1, Zenon
    <3> QED
      BY <2>5, <3>1, <3>2
  <2>7. decoded' = Append(decoded, records[n])
    BY <1>8, <2>4, Zenon
  <2>8. Len(decoded') = n /\ decoded' = SubSeq(records, 1, n)
    <3>1. decoded \in Seq(RaftLogRecord) /\ Len(decoded) = n - 1 /\ n \in Nat
      BY <1>0, <1>4, <1>5
    <3>2. records[n] \in RaftLogRecord
      BY <1>5, <2>2
    <3>3. Len(decoded') = n
      BY <2>7, <3>1, <3>2
    <3>4. \A k \in 1 .. n - 1 : decoded[k] = records[k]
      BY <1>4, <1>5, <3>1
    <3>5. \A k \in 1 .. n : decoded'[k] = records[k]
      BY <2>7, <3>1, <3>2, <3>4
    <3>6. decoded' \in Seq(RaftLogRecord)
      BY <2>7, <3>1, <3>2
    <3> QED
      BY <1>5, <2>2, <3>1, <3>3, <3>5, <3>6
  <2>9. at' = Start(n + 1)'
    <3>1. n + 1 # 1 /\ n + 1 - 1 = n
      BY <2>2
    <3>2. Start(n + 1)' = Start(n + 1)
      BY <1>2, Zenon
    <3>3. Start(n + 1) = ends[n]
      BY <1>5, <2>2, <3>1 DEF Start
    <3> QED
      BY <2>6, <3>2, <3>3, Zenon
  <2>10. \A k \in 1 .. n : k \in Whole
    BY <2>2, WholeDownward DEF CodecInv
  <2>11. outcome' = "reading" /\ "reading" \notin Failures /\ "reading" # "end"
    BY <1>1, <1>8 DEF Failures
  <2>12. n <= Len(records')
    BY <1>1, <2>2, <1>5
  <2>13. ReaderPlaced'
    BY <1>1, <1>2, <2>8, <2>9, <2>10, <2>11, <2>12, Zenon DEF ReaderPlaced
  <2> QED
    BY <1>3, <2>13 DEF CodecInv
<1> QED
  BY <1>6, <1>7, <1>8, Zenon DEF DecodeNext

\* Every step keeps the invariant.
LEMMA CodecStep ==
  ASSUME CodecInv, [Next]_vars
  PROVE  CodecInv'
<1>1. ASSUME NEW rec \in Records, AppendRecord(rec) PROVE CodecInv'
  BY <1>1, AppendKeeps, CodecAssumption
<1>2. CASE UNCHANGED vars
  <2>1. /\ records' = records /\ bytes' = bytes /\ ends' = ends /\ fault' = fault
        /\ flipped' = flipped /\ at' = at /\ decoded' = decoded /\ outcome' = outcome
    BY <1>2 DEF vars
  <2>2. (\A k : Start(k)' = Start(k)) /\ Total' = Total /\ Whole' = Whole
    BY <2>1 DEF Start, Total, Whole
  <2>3. SegmentsTile' /\ BytesHeld' /\ FaultPlaced'
    BY <2>1, <2>2 DEF CodecInv, SegmentsTile, BytesHeld, FaultPlaced
  <2>4. ReaderPlaced'
    BY <2>1, <2>2, Zenon DEF CodecInv, ReaderPlaced
  <2> QED
    BY <2>3, <2>4 DEF CodecInv
<1> QED
  BY <1>1, <1>2, IntactKeeps, CutKeeps, FlipKeeps, ZerosKeeps, DecodeKeeps, Zenon DEF Next

---------------------------------------------------------------------------
(* The theorems.                                                           *)

\* The chunk's tokens, the segments that encode reported, the fault and the
\* reader agree in every reachable state.
THEOREM CodecInvHolds == Spec => []CodecInv
<1>1. Init => CodecInv
  BY CodecInit
<1>2. CodecInv /\ [Next]_vars => CodecInv'
  BY CodecStep
<1> QED
  BY <1>1, <1>2, PTL DEF Spec

\* Whatever records were encoded and whatever cut, damaged field or tail of
\* zeros followed, RaftLogAction::decode yields exactly the records that lie
\* whole in front of it.
THEOREM DecodesWritten == Spec => []DecodesWhatWasWritten
<1>1. CodecInv => DecodesWhatWasWritten
  BY InvDecodesWritten
<1> QED
  BY <1>1, CodecInvHolds, PTL

\* Decoding a chunk ends without an error exactly when nothing is missing or
\* wrong: no fault is taken for the end of the chunk.
THEOREM FaultsFound == Spec => []FaultsAreErrors
<1>1. CodecInv => FaultsAreErrors
  BY InvFaults
<1> QED
  BY <1>1, CodecInvHolds, PTL

\* A record is read back at the segment encode reported for it, or an error is
\* reported when the segment is cut or damaged.
THEOREM SegmentsRead == Spec => []SegmentsReadBack
<1>1. CodecInv => SegmentsReadBack
  BY InvReadsBack
<1> QED
  BY <1>1, CodecInvHolds, PTL
=============================================================================
