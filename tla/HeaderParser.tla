---------------------------- MODULE HeaderParser ----------------------------
(***************************************************************************)
(* FlowFile::from_reader_with_limits: parse_header, then into_memory, with *)
(* the budget of the attributes (Budget), the reservations of a buffer     *)
(* (read_declared) and the two forms of a field length (src/sync.rs,       *)
(* src/format.rs).  src/async_io.rs has the same steps with awaits.        *)
(*                                                                         *)
(* What a header declares is chosen as it is read: the count, each length, *)
(* the keys, the content size.  The input may end or fail in every read.   *)
(* A value is its length; a key is told from the others, since a header    *)
(* may name one twice, and the map that is built keeps the later value.    *)
(***************************************************************************)
EXTENDS Naturals, FiniteSetsExt

CONSTANTS
  Keys,         \* the keys a header may name
  KeyLen,       \* the length of each
  Lengths,      \* the lengths a field may declare
  ContentSizes, \* the sizes a content may declare
  MaxCount,     \* bound: attributes of a header
  ReserveAhead, \* RESERVE_AHEAD
  LongForm,     \* MAX_VALUE_2_BYTES: lengths from here take six bytes
  Top,          \* usize::MAX
  NoLimit,      \* None
  NoKey,        \* no key waits for its value
  AnyLimits     \* the Limits to parse with

ASSUME HeaderParserAssumption ==
  /\ Top \in Nat /\ ReserveAhead \in Nat \ {0} /\ LongForm \in Nat /\ MaxCount \in Nat
  /\ Lengths \subseteq 0 .. Top /\ ContentSizes \subseteq Nat
  /\ KeyLen \in [Keys -> Lengths] /\ IsFiniteSet(Keys)
  /\ NoLimit \notin Nat /\ NoKey \notin Keys
  /\ \A l \in AnyLimits :
       /\ l.attributes \in Nat \cup {NoLimit} /\ l.field \in Nat \cup {NoLimit}
       /\ l.total \in 0 .. Top \cup {NoLimit} /\ l.content \in Nat \cup {NoLimit}

VARIABLES
  limits,   \* the limits of this call
  foreign,  \* the writer gave every length the long form
  phase,    \* "magic", "count", "length", "field", "size", "content", or an end:
            \* "done", "refused" (by a limit), "malformed" (or cut short)
  count,    \* attributes the header declares
  inserted, \* how many of them have been read
  key,      \* the key whose value comes next, or NoKey
  attributes, \* the map: the length of each key's value
  length,   \* what the buffer is to hold: a field, or the content
  done,     \* read_declared: bytes of it that arrived
  capacity, \* and the capacity of the buffer
  spent,    \* Budget: the total of the fields accepted
  size,     \* the content size
  consumed  \* bytes of header taken from the reader

vars == <<limits, foreign, phase, count, inserted, key, attributes,
          length, done, capacity, spent, size, consumed>>

Least(a, b) == IF a < b THEN a ELSE b
Most(a, b)  == IF a < b THEN b ELSE a

Over(n, limit) == limit # NoLimit /\ n > limit

Plus_Wrapping(a, b) == (a + b) % (Top + 1)
\* usize::saturating_add
Plus(a, b) == Least(a + b, Top)

Init ==
  /\ limits \in AnyLimits /\ foreign \in BOOLEAN
  /\ phase = "magic" /\ count = 0
  /\ inserted = 0 /\ key = NoKey /\ attributes = <<>>
  /\ length = 0 /\ done = 0 /\ capacity = 0 /\ spent = 0 /\ size = 0 /\ consumed = 0

(***************************************************************************)
(* The wire format                                                         *)
(***************************************************************************)

Magic == 7

FieldLenBytes_Inclusive(n) == IF n <= LongForm THEN 2 ELSE 6
\* field_len_bytes, what serialized_len goes by.
FieldLenBytes(n) == IF n < LongForm THEN 2 ELSE 6

\* header_len, of a map.
HeaderLen(map) ==
  LET Field(n) == FieldLenBytes(n) + n
  IN  Magic + FieldLenBytes(Cardinality(DOMAIN map))
        + FoldSet(LAMBDA k, sum : sum + Field(KeyLen[k]) + Field(map[k]), 0, DOMAIN map) + 8

\* write_field_len: two bytes that are the length, or a mark and four more.
Prefix(n) == IF n < LongForm /\ ~foreign THEN <<n>> ELSE <<LongForm, n>>

\* read_field_len, and the bytes it takes.
LenOf(prefix)  == IF prefix[1] < LongForm THEN prefix[1] ELSE prefix[2]
Taken(prefix)  == IF prefix[1] < LongForm THEN 2 ELSE 6

(***************************************************************************)
(* parse_header                                                            *)
(***************************************************************************)

ReadMagic ==
  /\ phase = "magic"
  /\ phase' \in {"count", "malformed"}
  /\ consumed' = Magic
  /\ UNCHANGED <<limits, foreign, count, inserted, key, attributes, length, done, capacity, spent, size>>

\* Where the parser goes when the first n attributes are behind it.
After(n, declared) == IF n < declared THEN "length" ELSE "size"

ReadCount ==
  /\ phase = "count"
  /\ \E n \in 0 .. MaxCount :
       /\ count' = LenOf(Prefix(n))
       /\ consumed' = consumed + Taken(Prefix(n))
  /\ phase' = IF Over(count', limits.attributes) THEN "refused" ELSE After(0, count')
  /\ UNCHANGED <<limits, foreign, inserted, key, attributes, length, done, capacity, spent, size>>

Refuses_TooLate(n) == Over(n, limits.field) \/ Over(spent, limits.total)
\* Budget::check, against the projected total.
Refuses(n) == Over(n, limits.field) \/ Over(Plus(spent, n), limits.total)

\* A field's length is checked before a byte of it is read.
ReadLength ==
  /\ phase = "length"
  /\ \E n \in Lengths :
       /\ length' = LenOf(Prefix(n))
       /\ consumed' = consumed + Taken(Prefix(n))
  /\ phase' = IF Refuses(length') THEN "refused" ELSE "field"
  /\ UNCHANGED <<limits, foreign, count, inserted, key, attributes, done, capacity, spent, size>>

Step_Claimed == length - done
\* read_declared: what it reserves, and asks the reader for, in one round.
Step == Least(length - done, Most(done, ReserveAhead))

\* One round of read_declared.  A round without bytes is the end of the
\* input, and the caller finds less than was declared.
ReadBytes ==
  /\ phase \in {"field", "content"} /\ done < length
  /\ capacity' = Most(capacity, done + Step)
  /\ \E n \in 0 .. Step :
       /\ done' = done + n
       /\ consumed' = IF phase = "field" THEN consumed + n ELSE consumed
       /\ phase' = IF n = 0 THEN "malformed" ELSE phase
  /\ UNCHANGED <<limits, foreign, count, inserted, key, attributes, length, spent, size>>

\* read_string: the field is there, and is spent.
Accept ==
  /\ phase = "field" /\ done = length
  /\ spent' = Plus(spent, length)
  /\ done' = 0 /\ capacity' = 0 /\ length' = 0
  /\ UNCHANGED <<limits, foreign, count, size, consumed>>

\* It is a key of that length, or not UTF-8.
AcceptKey ==
  /\ key = NoKey /\ Accept
  /\ \/ key' \in {k \in Keys : KeyLen[k] = length} /\ phase' = "length"
     \/ key' = key /\ phase' = "malformed"
  /\ UNCHANGED <<inserted, attributes>>

\* A map holds one value for a key.
Insert(map, k, v) == [x \in DOMAIN map \cup {k} |-> IF x = k THEN v ELSE map[x]]

\* It is the value, and takes the place of an earlier one under that key.
AcceptValue ==
  /\ key # NoKey /\ Accept
  /\ \/ /\ attributes' = Insert(attributes, key, length)
        /\ key' = NoKey /\ inserted' = inserted + 1
        /\ phase' = After(inserted', count)
     \/ phase' = "malformed" /\ UNCHANGED <<inserted, key, attributes>>

ReadSize ==
  /\ phase = "size"
  /\ size' \in ContentSizes
  /\ consumed' = consumed + 8
  /\ phase' = IF Over(size', limits.content) THEN "refused" ELSE "content"
  /\ length' = size'
  /\ UNCHANGED <<limits, foreign, count, inserted, key, attributes, done, capacity, spent>>

\* into_memory
AcceptContent ==
  /\ phase = "content" /\ done = length
  /\ phase' = "done"
  /\ UNCHANGED <<limits, foreign, count, inserted, key, attributes,
                 length, done, capacity, spent, size, consumed>>

\* A read_exact meets the end of the input, or a read fails.
InputEnds ==
  /\ phase \notin {"done", "refused", "malformed"}
  /\ phase' = "malformed"
  /\ UNCHANGED <<limits, foreign, count, inserted, key, attributes,
                 length, done, capacity, spent, size, consumed>>

-----------------------------------------------------------------------------
Next ==
  \/ ReadMagic \/ ReadCount \/ ReadLength \/ ReadBytes \/ AcceptKey \/ AcceptValue
  \/ ReadSize \/ AcceptContent \/ InputEnds

Spec == Init /\ [][Next]_vars

(***************************************************************************)
(* Limits::check, for a flow file that is in hand                          *)
(***************************************************************************)

\* The total of the entries, added up one by one.
TotalOf(map) == FoldSet(LAMBDA k, total : Plus(Plus(total, KeyLen[k]), map[k]), 0, DOMAIN map)

\* It passes this map and this content size.
Checks(map, contentSize) ==
  /\ ~Over(Cardinality(DOMAIN map), limits.attributes)
  /\ \A k \in DOMAIN map : ~Over(KeyLen[k], limits.field) /\ ~Over(map[k], limits.field)
  /\ ~Over(TotalOf(map), limits.total)
  /\ ~Over(contentSize, limits.content)

(***************************************************************************)
(* What the parser promises                                                *)
(***************************************************************************)

\* Each variable keeps to its type, and a buffer to what it is for
\* (parse_header, read_declared).
TypeOK ==
  /\ limits \in AnyLimits /\ foreign \in BOOLEAN
  /\ phase \in {"magic", "count", "length", "field", "size", "content",
                "done", "refused", "malformed"}
  /\ count \in Nat /\ inserted \in Nat /\ key \in Keys \cup {NoKey}
  /\ DOMAIN attributes \subseteq Keys /\ attributes \in [DOMAIN attributes -> Lengths]
  /\ length \in Nat
  /\ done \in 0 .. length /\ capacity \in Nat /\ spent \in 0 .. Top
  /\ size \in Nat /\ consumed \in Nat

\* "A lying header costs this much and no more": what is reserved beyond the
\* bytes that arrived is at most RESERVE_AHEAD, or as much as arrived, and
\* never more than was declared.  A buffer that fills has exactly the size
\* that was declared, and one of RESERVE_AHEAD or less gets it in one go.
BackedByBytes ==
  /\ capacity <= done + Most(done, ReserveAhead)
  /\ done <= capacity /\ capacity <= length
  /\ length <= ReserveAhead => capacity \in {0, length}
  /\ done = length => capacity = length

\* "The total bounds how much the parser buffers": the fields accepted and
\* the buffer of the one being read, together.
BuffersWithinTotal ==
  limits.total # NoLimit /\ limits.total < Top =>
    spent + (IF phase = "field" THEN capacity ELSE 0) <= limits.total

\* No attribute so far has a key that an earlier one had.
NoKeyTwice == Cardinality(DOMAIN attributes) = inserted

\* The maps that may come of a header which begins as this one did, if it
\* names no key twice: with the attributes that were read, and with the field
\* that was refused in its place.
Announced ==
  {map \in UNION {[keys -> Lengths] : keys \in kSubset(count, Keys)} :
     /\ NoKeyTwice
     /\ \A k \in DOMAIN attributes : k \in DOMAIN map /\ map[k] = attributes[k]
     /\ ~Over(count, limits.attributes) /\ inserted < count =>
          \E k \in DOMAIN map \ DOMAIN attributes :
            IF key = NoKey THEN KeyLen[k] = length ELSE k = key /\ map[k] = length}

\* Limits::check applies "the same limits the parsers apply while reading", to
\* a map.  What the parser lets through it passes, with a key named twice as
\* well.  What the parser refuses it does not, whatever the rest of the header
\* would have been, unless a key is named twice: the parser counts both, and
\* the map has only one of them.
AgreesWithCheck ==
  /\ phase \in {"content", "done"} => Checks(attributes, size)
  /\ phase = "refused" => \A map \in Announced : ~Checks(map, size)

\* The reader is left on the first byte of the content.  That is as far from
\* the header's first as serialized_len says, or further if the header has
\* long forms it did not need, or an attribute that a later one replaced.
StopsAtTheContent ==
  phase \in {"content", "done"} =>
    /\ inserted = count /\ consumed >= HeaderLen(attributes)
    /\ ~foreign /\ NoKeyTwice => consumed = HeaderLen(attributes)
=============================================================================
