------------------------------ MODULE Packing ------------------------------
(***************************************************************************)
(* The packed-id encoding of the record layer (core/src/engine.rs).  A     *)
(* document id is a signed machine word; its low `bits` bits are a field   *)
(* slot and the bits above them a record id.  The code's word is an i64,   *)
(* W = 63 value bits and a sign; W is a parameter here so that TLC can     *)
(* enumerate every id of a small word.                                     *)
(***************************************************************************)
EXTENDS Integers

CONSTANTS W,            \* value bits of a document id (63 for i64)
          DefaultBits   \* DEFAULT_FIELD_BITS (8)

MaxFieldBits == W - 1

\* What check_field_bits accepts.
FieldBits == 1 .. MaxFieldBits

ASSUME WordAssumption == W \in Nat /\ W >= 2 /\ DefaultBits \in FieldBits

\* The shifts below are products and quotients by powers of two.
ASSUME PowerAssumption ==
  /\ 2^0 = 1
  /\ \A n \in 0 .. W + 1 : 2^n \in Nat \ {0} /\ 2^(n + 1) = 2 * 2^n

Id == -(2^W) .. (2^W - 1)

MaxId == 2^W - 1

\* Two's complement: shl on an i64 keeps the low W + 1 bits of the product.
Wrap(n) == ((n + 2^W) % 2^(W + 1)) - 2^W

\* An arithmetic right shift rounds towards minus infinity, as \div does.
Shr(n, bits) == n \div 2^bits

Shl(n, bits) == Wrap(n * 2^bits)

Mask(bits) == 2^bits - 1

\* a | b, bit by bit over the W + 1 bits of the word.
BitOr(a, b) ==
  LET bit(i) == IF Shr(a, i) % 2 = 1 \/ Shr(b, i) % 2 = 1 THEN 2^i ELSE 0
      sum[i \in 0 .. W] == bit(i) + (IF i = 0 THEN 0 ELSE sum[i - 1])
  IN  Wrap(sum[W])

\* Mutant: accepts one bit too many, leaving no value bit for the record.
check_field_bits_off_by_one(bits) == bits \in 1 .. W

check_field_bits(bits) == bits \in FieldBits

max_record_id(bits) == Shr(MaxId, bits)

record_of(id, bits) == Shr(id, bits)

\* All the slot bits of an id, `id & mask`, as change_field_bits reads them.
slot_bits(id, bits) == id % 2^bits

\* `as u8`: a u8 has as many bits as DEFAULT_FIELD_BITS says.
slot_of(id, bits) == slot_bits(id, bits) % 2^DefaultBits

\* record_id_range(): the two ends are computed from separate loads of
\* field_bits, so they take their bits separately.
range_lo(record, bits) == Shl(record, bits)
\* Mutant: the range stops one slot short.
range_hi_short(lo, bits) == lo + Mask(bits) - 1
range_hi(lo, bits) == BitOr(lo, Mask(bits))

pack(record, slot, bits) == BitOr(Shl(record, bits), slot)
=============================================================================
