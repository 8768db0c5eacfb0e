------------------------------ MODULE PageBody ------------------------------
(***************************************************************************)
(* The inside of one page buffer (src/src/data_page.rs, freemap.rs): a     *)
(* slotted data page, whose directory grows up and whose values grow down, *)
(* and a freemap leaf, whose bytes are a bitmap of free page ids.  A page  *)
(* that is freed is handed out again and may come back as the other kind.  *)
(*                                                                         *)
(* A cell of the body stands for a byte, or for a two-byte field of a      *)
(* directory entry.  The header's fields are separate; its reserved bytes, *)
(* the version byte and the checksum are left out.                         *)
(***************************************************************************)
EXTENDS Integers, Sequences, FiniteSets

CONSTANTS DATA_PAGE_HEADER_SIZE,  \* first cell of the body
          CHECKSUM_OFFSET,        \* first cell behind the body
          Byte,                   \* bytes that occur in values
          MaxValue,               \* bound: length of a value
          BitsPerByte,            \* 8 in the code
          MaxMarked               \* bound: ids marked free at once

ASSUME BodyAssumption ==
    /\ DATA_PAGE_HEADER_SIZE \in Nat \ {0} /\ CHECKSUM_OFFSET \in Nat
    /\ DATA_PAGE_HEADER_SIZE <= CHECKSUM_OFFSET
    /\ Byte \subseteq Nat /\ MaxValue \in Nat
    /\ BitsPerByte \in Nat \ {0} /\ MaxMarked \in Nat

VARIABLES page,    \* the buffer
          values,  \* history: the values inserted since init_page, in order
          free     \* history: the ids marked free and not claimed since init_page

bodyVars == <<page, values, free>>

PAGE_BODY_SIZE == CHECKSUM_OFFSET - DATA_PAGE_HEADER_SIZE
Body == DATA_PAGE_HEADER_SIZE..(CHECKSUM_OFFSET - 1)
SLOT_ENTRY_SIZE == 3    \* offset, length, flags
SLOT_FLAG_LIVE == 1
MAX_INLINE_VALUE == PAGE_BODY_SIZE - SLOT_ENTRY_SIZE
PageType == {"Data", "FreeMap"}

Value == UNION {[1..n -> Byte] : n \in 0..MaxValue}
Capacity == PAGE_BODY_SIZE * BitsPerByte
LeafIds == 0..(Capacity + BitsPerByte)    \* some beyond what the leaf tracks

None == {}
Some(x) == {x}

\* buf.fill(0), then the tag.
Filled(tag) == [tag |-> tag, slot_count |-> 0, free_start |-> 0, free_end |-> 0,
                body |-> [i \in Body |-> 0]]

-----------------------------------------------------------------------------
(* DataPage.                                                                *)

data_init_page ==
    [Filled("Data") EXCEPT !.free_start = DATA_PAGE_HEADER_SIZE,
                           !.free_end = CHECKSUM_OFFSET]

validate_header(pg) ==
    /\ pg.tag = "Data"
    /\ DATA_PAGE_HEADER_SIZE <= pg.free_start
    /\ pg.free_end <= CHECKSUM_OFFSET
    /\ pg.free_start <= pg.free_end
    /\ DATA_PAGE_HEADER_SIZE + pg.slot_count * SLOT_ENTRY_SIZE <= pg.free_start

\* Whether insert returns a slot.
fits(pg, v) ==
    validate_header(pg) /\ pg.free_end - pg.free_start >= SLOT_ENTRY_SIZE + Len(v)

\* A variant that the runs must reject: the directory entry is written first,
\* and the value from free_end up.
insert_upward(pg, v) ==
    [pg EXCEPT
       !.slot_count = pg.slot_count + 1,
       !.free_start = pg.free_start + SLOT_ENTRY_SIZE,
       !.free_end = pg.free_end - Len(v),
       !.body = [i \in Body |->
                   CASE i \in pg.free_end..(pg.free_end + Len(v) - 1) ->
                          v[i - pg.free_end + 1]
                     [] i = pg.free_start     -> pg.free_end
                     [] i = pg.free_start + 1 -> Len(v)
                     [] i = pg.free_start + 2 -> SLOT_FLAG_LIVE
                     [] OTHER                 -> pg.body[i]]]

\* The value just below free_end, its directory entry at free_start.
insert(pg, v) ==
    LET data_offset == pg.free_end - Len(v) IN
    [pg EXCEPT
       !.slot_count = pg.slot_count + 1,
       !.free_start = pg.free_start + SLOT_ENTRY_SIZE,
       !.free_end = data_offset,
       !.body = [i \in Body |->
                   CASE i \in data_offset..(pg.free_end - 1) -> v[i - data_offset + 1]
                     [] i = pg.free_start     -> data_offset
                     [] i = pg.free_start + 1 -> Len(v)
                     [] i = pg.free_start + 2 -> SLOT_FLAG_LIVE
                     [] OTHER                 -> pg.body[i]]]

\* The fields of a directory entry, or None when it reaches out of the body.
read_slot_entry(pg, slot) ==
    LET base == DATA_PAGE_HEADER_SIZE + slot * SLOT_ENTRY_SIZE IN
    IF base + SLOT_ENTRY_SIZE > CHECKSUM_OFFSET THEN None
    ELSE IF \/ pg.body[base] < DATA_PAGE_HEADER_SIZE
            \/ pg.body[base] + pg.body[base + 1] > CHECKSUM_OFFSET THEN None
    ELSE Some([offset |-> pg.body[base], length |-> pg.body[base + 1],
               flags |-> pg.body[base + 2]])

Payload(pg, e) == [i \in 1..e.length |-> pg.body[e.offset + i - 1]]

read(pg, slot) ==
    IF ~validate_header(pg) \/ slot >= pg.slot_count THEN None
    ELSE {Payload(pg, e) : e \in {x \in read_slot_entry(pg, slot) :
                                    x.flags = SLOT_FLAG_LIVE}}

AllSlots(pg) == 0..(pg.slot_count - 1)
Trusted(pg) ==
    validate_header(pg) /\ \A s \in AllSlots(pg) : read_slot_entry(pg, s) # None
Live(pg) == {s \in AllSlots(pg) : \E e \in read_slot_entry(pg, s) : e.flags = SLOT_FLAG_LIVE}

iter_live(pg) ==
    IF Trusted(pg) THEN {<<s, read(pg, s)>> : s \in Live(pg)} ELSE {}

-----------------------------------------------------------------------------
(* FreeMap.                                                                 *)

freemap_init_page == Filled("FreeMap")

bit_position(id) == [byte |-> id \div BitsPerByte, bit |-> id % BitsPerByte]
InLeaf(id) == bit_position(id).byte < PAGE_BODY_SIZE
CellOf(id) == DATA_PAGE_HEADER_SIZE + bit_position(id).byte
BitSet(byte, b) == (byte \div 2^b) % 2 = 1

is_free(pg, id) == InLeaf(id) /\ BitSet(pg.body[CellOf(id)], bit_position(id).bit)

\* byte |= 1 << bit
mark_free(pg, id) ==
    IF ~InLeaf(id) \/ is_free(pg, id) THEN pg
    ELSE [pg EXCEPT !.body[CellOf(id)] = @ + 2^(bit_position(id).bit)]

\* byte &= !(1 << bit)
clear_bit(pg, id) ==
    IF ~is_free(pg, id) THEN pg
    ELSE [pg EXCEPT !.body[CellOf(id)] = @ - 2^(bit_position(id).bit)]

Least(S) == CHOOSE x \in S : \A y \in S : x <= y
trailing_zeros(byte) == Least({b \in 0..(BitsPerByte - 1) : BitSet(byte, b)})

\* A variant that the runs must reject: the first byte is not masked.
Unmasked(pg, lo, k) == pg.body[DATA_PAGE_HEADER_SIZE + k]

\* The k-th byte of the bitmap, without the bits below lo in the byte of lo.
Masked(pg, lo, k) ==
    LET byte == pg.body[DATA_PAGE_HEADER_SIZE + k] IN
    IF k = bit_position(lo).byte THEN byte - (byte % 2^(bit_position(lo).bit)) ELSE byte

first_free_bit_from(pg, lo) ==
    LET found == {k \in bit_position(lo).byte..(PAGE_BODY_SIZE - 1) : Masked(pg, lo, k) # 0}
    IN  IF found = {} THEN None
        ELSE Some(Least(found) * BitsPerByte + trailing_zeros(Masked(pg, lo, Least(found))))

-----------------------------------------------------------------------------
(* The life of the page.  Its owner checks the tag before a bitmap call     *)
(* (check_type); a data call checks it itself (validate_header).            *)

BodyInit == page = Filled("none") /\ values = <<>> /\ free = {}

InitFreeMap == page' = freemap_init_page /\ values' = <<>> /\ free' = {}

\* The packer takes a fresh page for a value.
InsertFresh(v) ==
    /\ Len(v) <= MAX_INLINE_VALUE
    /\ page' = insert(data_init_page, v) /\ values' = <<v>> /\ free' = {}

\* The packer puts a value into the page its cursor names.
Insert(v) ==
    /\ Len(v) <= MAX_INLINE_VALUE /\ fits(page, v)
    /\ page' = insert(page, v) /\ values' = Append(values, v)
    /\ UNCHANGED free

check_type(pg, t) == pg.tag = t

\* persist and the orphan sweep mark pages that are not free yet.
MarkFree(id) ==
    /\ check_type(page, "FreeMap") /\ Cardinality(free) < MaxMarked
    /\ id < Capacity /\ id \notin free
    /\ page' = mark_free(page, id) /\ free' = free \cup {id}
    /\ UNCHANGED values

\* allocate_first: the lowest id from the hint on is claimed.
Claim(lo) ==
    /\ check_type(page, "FreeMap")
    /\ \E id \in first_free_bit_from(page, lo) :
          page' = clear_bit(page, id) /\ free' = free \ {id}
    /\ UNCHANGED values

BodyNext ==
    \/ InitFreeMap
    \/ \E v \in Value : InsertFresh(v) \/ Insert(v)
    \/ \E id \in LeafIds : MarkFree(id) \/ Claim(id)

BodySpec == BodyInit /\ [][BodyNext]_bodyVars

-----------------------------------------------------------------------------
(* Properties.                                                              *)

\* Every value inserted since the page became a data page reads back at the slot
\* insert returned for it, and no other slot reads as anything: directory and
\* values grow towards each other without touching what is there, and nothing of
\* the bitmap the page was before shows through (DataPage::read, iter_live).
ValuesReadBack ==
    page.tag = "Data" =>
        /\ page.slot_count = Len(values)
        /\ \A s \in AllSlots(page) : read(page, s) = Some(values[s + 1])
        /\ iter_live(page) = {<<s, Some(values[s + 1])>> : s \in AllSlots(page)}

\* The bitmap is the set of ids that were marked and not claimed: no operation
\* on one id changes another's bit, and an id beyond the leaf is never free.
\* From every starting point, inside a byte or at its edge or behind the leaf,
\* the scan finds the lowest free id that is not below it, so a hint neither
\* skips a free page nor hands out one below it (FreeMap::mark_free, clear_bit,
\* is_free, first_free_bit_from).
ScanFindsLowest ==
    page.tag = "FreeMap" =>
        /\ {id \in LeafIds : is_free(page, id)} = free
        /\ \A lo \in LeafIds :
              LET above == {id \in free : lo <= id} IN
              first_free_bit_from(page, lo) = IF above = {} THEN None ELSE Some(Least(above))
=============================================================================
