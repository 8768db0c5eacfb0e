----------------------------- MODULE PageProofs -----------------------------
(***************************************************************************)
(* Pages: their bytes, and where the bytes are kept.                       *)
(*                                                                         *)
(* A data page gives back every value put into it, for every size of page, *)
(* header and value (PageBody).  The inductive invariant says where the    *)
(* entry and the bytes of each value lie: entries below free_start, bytes  *)
(* from free_end up, so that insert, which writes between the two, touches *)
(* neither.                                                                *)
(*                                                                         *)
(* PageCache keeps its invariant, for every size of the file, the cache    *)
(* and the spillway; it implements PageStore: every step is a step of      *)
(* PageStore, or none at all; and its counter of dirty pages is exact.     *)
(***************************************************************************)
EXTENDS PageBody, PageCache, TLAPS

-----------------------------------------------------------------------------
(* The body of a data page.                                                 *)


Fields(pg) == [tag |-> pg.tag, slot_count |-> pg.slot_count,
               free_start |-> pg.free_start, free_end |-> pg.free_end,
               body |-> pg.body]

Base(s) == DATA_PAGE_HEADER_SIZE + s * 3

\* Slot s of a body whose values start at lo has an entry for v, and v's bytes.
SlotHolds(body, lo, s, v) ==
    /\ body[Base(s)] \in lo..CHECKSUM_OFFSET
    /\ body[Base(s) + 1] = Len(v)
    /\ body[Base(s) + 2] = 1
    /\ body[Base(s)] + Len(v) <= CHECKSUM_OFFSET
    /\ \A i \in 1..Len(v) : body[body[Base(s)] + i - 1] = v[i]

Holds(pg, vs) ==
    /\ pg.tag = "Data"
    /\ vs \in Seq(Value)
    /\ pg.slot_count = Len(vs)
    /\ pg.free_start = Base(Len(vs))
    /\ pg.free_end \in Nat
    /\ pg.free_start <= pg.free_end
    /\ pg.free_end <= CHECKSUM_OFFSET
    /\ pg.body \in [Body -> Nat]
    /\ \A s \in 0..(Len(vs) - 1) : SlotHolds(pg.body, pg.free_end, s, vs[s + 1])

BodyInv ==
    /\ page = Fields(page)
    /\ page.tag = "Data" => Holds(page, values)

-----------------------------------------------------------------------------
\* A value is a sequence of naturals, and the function it is of its positions.
LEMMA ValueIs ==
    ASSUME NEW v \in Value
    PROVE  /\ Len(v) \in Nat
           /\ \A i \in 1..Len(v) : v[i] \in Nat
           /\ v = [i \in 1..Len(v) |-> v[i]]
<1>1. PICK n \in 0..MaxValue : v \in [1..n -> Byte]
  BY DEF Value
<1>2. v \in Seq(Byte) /\ Len(v) = n
  BY <1>1, BodyAssumption
<1>3. \A i \in 1..Len(v) : v[i] \in Nat
  BY ZenonT(30), <1>1, <1>2, BodyAssumption
<1>4. v = [i \in 1..Len(v) |-> v[i]]
  BY <1>1, <1>2
<1> QED
  BY <1>2, <1>3, <1>4

\* new is the body of pg with v just below free_end and an entry for it at
\* free_start.
CellsAre(new, pg, v) ==
    /\ DOMAIN new = Body
    /\ new = [i \in Body |-> new[i]]
    /\ \A k \in 1..Len(v) : new[(pg.free_end - Len(v)) + k - 1] = v[k]
    /\ new[pg.free_start] = pg.free_end - Len(v)
    /\ new[pg.free_start + 1] = Len(v)
    /\ new[pg.free_start + 2] = 1
    /\ \A i \in Body : (i < pg.free_start \/ i >= pg.free_end) => new[i] = pg.body[i]
    /\ \A i \in Body : \/ i \in (pg.free_end - Len(v))..(pg.free_end - 1)
                       \/ i \in pg.free_start..(pg.free_start + 2)
                       \/ new[i] = pg.body[i]

\* What each cell of the body holds after insert: the bytes of the value, the
\* three fields of its entry, or what it held before.
LEMMA InsertCells ==
    ASSUME NEW pg, NEW v \in Value,
           pg = Fields(pg),
           pg.free_start \in Nat, pg.free_end \in Nat,
           DATA_PAGE_HEADER_SIZE <= pg.free_start,
           pg.free_end <= CHECKSUM_OFFSET,
           pg.free_end - pg.free_start >= 3 + Len(v)
    PROVE  CellsAre(insert(pg, v).body, pg, v)
<1> DEFINE fs == pg.free_start
           fe == pg.free_end
           n == Len(v)
           off == fe - n
           F(i) == CASE i \in off..(fe - 1) -> v[i - off + 1]
                     [] i = fs     -> off
                     [] i = fs + 1 -> n
                     [] i = fs + 2 -> SLOT_FLAG_LIVE
                     [] OTHER                 -> pg.body[i]
           new == insert(pg, v).body
<1>1. n \in Nat /\ fs \in Nat /\ fe \in Nat /\ fe - fs >= 3 + n
  BY ValueIs
<1>2. new = [i \in Body |-> F(i)]
  BY DEF insert, Fields
<1>4. /\ DATA_PAGE_HEADER_SIZE \in Nat /\ CHECKSUM_OFFSET \in Nat
      /\ DATA_PAGE_HEADER_SIZE <= fs /\ fe <= CHECKSUM_OFFSET
  BY BodyAssumption
<1> HIDE DEF fs, fe, n
<1>3. off \in Nat /\ fs + 3 <= off /\ off + n = fe
  BY <1>1
<1> HIDE DEF off
<1>5. \A i \in Body : i \in Int
  BY <1>4 DEF Body
<1>6. ASSUME NEW k \in 1..n PROVE new[off + k - 1] = v[k]
  <2>1. off + k - 1 \in Body /\ off + k - 1 \in off..(fe - 1)
    BY <1>1, <1>3, <1>4 DEF Body
  <2>2. /\ off + k - 1 # fs /\ off + k - 1 # fs + 1 /\ off + k - 1 # fs + 2
        /\ (off + k - 1) - off + 1 = k
    BY <1>1, <1>3
  <2>3. F(off + k - 1) = v[k]
    BY <2>1, <2>2
  <2> QED
    BY <1>2, <2>1, <2>3
<1>7. new[fs] = off
  <2>1. fs \in Body /\ fs \notin off..(fe - 1)
    BY <1>1, <1>3, <1>4 DEF Body
  <2>2. F(fs) = off
    BY <1>1, <2>1
  <2> QED
    BY <1>2, <2>1, <2>2
<1>8. new[fs + 1] = n
  <2>1. /\ fs + 1 \in Body /\ fs + 1 \notin off..(fe - 1)
        /\ fs + 1 # fs
    BY <1>1, <1>3, <1>4 DEF Body
  <2>2. F(fs + 1) = n
    BY <1>1, <2>1
  <2> QED
    BY <1>2, <2>1, <2>2
<1>9. new[fs + 2] = 1
  <2>1. /\ fs + 2 \in Body /\ fs + 2 \notin off..(fe - 1)
        /\ fs + 2 # fs /\ fs + 2 # fs + 1
    BY <1>1, <1>3, <1>4 DEF Body
  <2>2. F(fs + 2) = 1
    BY <2>1 DEF SLOT_FLAG_LIVE
  <2> QED
    BY <1>2, <2>1, <2>2
<1>10. ASSUME NEW i \in Body, i \notin off..(fe - 1),
              i # fs, i # fs + 1, i # fs + 2
       PROVE  new[i] = pg.body[i]
  <2>1. F(i) = pg.body[i]
    BY <1>10
  <2> QED
    BY <1>2, <2>1
<1>11. ASSUME NEW i \in Body, i < fs \/ i >= fe
       PROVE  new[i] = pg.body[i]
  BY <1>1, <1>3, <1>5, <1>10, <1>11
<1>12. ASSUME NEW i \in Body
       PROVE  \/ i \in off..(fe - 1)
              \/ i \in fs..(fs + 2)
              \/ new[i] = pg.body[i]
  <2>1. i = fs \/ i = fs + 1 \/ i = fs + 2 => i \in fs..(fs + 2)
    BY <1>1
  <2> QED
    BY <1>10, <2>1
<1>13. DOMAIN new = Body /\ new = [i \in Body |-> new[i]]
  BY <1>2
<1> USE DEF fs, fe, n, off
<1> QED
  BY <1>6, <1>7, <1>8, <1>9, <1>11, <1>12, <1>13 DEF CellsAre

\* insert leaves every earlier value where it was and adds the new one behind.
LEMMA InsertHolds ==
    ASSUME NEW pg, NEW vs, NEW v \in Value,
           pg = Fields(pg), Holds(pg, vs),
           pg.free_end - pg.free_start >= 3 + Len(v)
    PROVE  insert(pg, v) = Fields(insert(pg, v)) /\ Holds(insert(pg, v), Append(vs, v))
<1> DEFINE fs == pg.free_start
           fe == pg.free_end
           n == Len(v)
           m == Len(vs)
           off == fe - n
           new == insert(pg, v).body
           ws == Append(vs, v)
<1>1. /\ m \in Nat /\ fs = DATA_PAGE_HEADER_SIZE + m * 3 /\ fe \in Nat
      /\ fs <= fe /\ fe <= CHECKSUM_OFFSET /\ fe - fs >= 3 + n
      /\ pg.body \in [Body -> Nat] /\ vs \in Seq(Value)
  BY DEF Holds, Base
<1>2. /\ DATA_PAGE_HEADER_SIZE \in Nat /\ CHECKSUM_OFFSET \in Nat
      /\ n \in Nat /\ \A i \in 1..n : v[i] \in Nat
  BY BodyAssumption, ValueIs
<1>3. fs \in Nat /\ DATA_PAGE_HEADER_SIZE <= fs
  BY <1>1, <1>2
<1>4. /\ DOMAIN new = Body
      /\ new = [i \in Body |-> new[i]]
      /\ \A k \in 1..n : new[off + k - 1] = v[k]
      /\ new[fs] = off /\ new[fs + 1] = n /\ new[fs + 2] = 1
      /\ \A i \in Body : (i < fs \/ i >= fe) => new[i] = pg.body[i]
      /\ \A i \in Body : i \in off..(fe - 1) \/ i \in fs..(fs + 2) \/ new[i] = pg.body[i]
  <2>1. /\ pg.free_start \in Nat /\ pg.free_end \in Nat
        /\ DATA_PAGE_HEADER_SIZE <= pg.free_start
        /\ pg.free_end <= CHECKSUM_OFFSET
        /\ pg.free_end - pg.free_start >= 3 + Len(v)
    BY <1>1, <1>3
  <2>2. CellsAre(insert(pg, v).body, pg, v)
    BY <2>1, InsertCells
  <2> QED
    BY <2>2 DEF CellsAre
<1>5. /\ insert(pg, v) = Fields(insert(pg, v))
      /\ insert(pg, v).tag = pg.tag
      /\ insert(pg, v).slot_count = pg.slot_count + 1
      /\ insert(pg, v).free_start = fs + 3
      /\ insert(pg, v).free_end = off
  <2> DEFINE X == [i \in Body |->
                   CASE i \in off..(fe - 1) -> v[i - off + 1]
                     [] i = fs     -> off
                     [] i = fs + 1 -> n
                     [] i = fs + 2 -> SLOT_FLAG_LIVE
                     [] OTHER      -> pg.body[i]]
  <2>1. insert(pg, v) = [pg EXCEPT !.slot_count = pg.slot_count + 1, !.free_start = fs + 3,
                                   !.free_end = off, !.body = X]
    BY DEF insert, SLOT_ENTRY_SIZE
  <2>2. DOMAIN pg = {"tag", "slot_count", "free_start", "free_end", "body"}
    BY DEF Fields
  <2> HIDE DEF X, fs, fe, off
  <2> QED
    BY ZenonT(30), <2>1, <2>2 DEF Fields
<1>6. /\ ws \in Seq(Value) /\ Len(ws) = m + 1 /\ ws[m + 1] = v
      /\ \A s \in 0..(m - 1) : ws[s + 1] = vs[s + 1]
  BY <1>1
<1>7. \A s \in 0..(m - 1) : SlotHolds(pg.body, fe, s, vs[s + 1]) /\ vs[s + 1] \in Value
  BY <1>1 DEF Holds
<1>8. pg.tag = "Data" /\ pg.slot_count = m
  BY DEF Holds
<1> HIDE DEF fs, fe, n, m, new, ws
<1>9. off \in Nat /\ fs + 3 <= off /\ off <= CHECKSUM_OFFSET /\ off + n = fe
  BY <1>1, <1>2, <1>3
<1> HIDE DEF off
<1>10. new \in [Body -> Nat]
  <2>1. ASSUME NEW i \in Body PROVE new[i] \in Nat
    <3>1. CASE i \in off..(fe - 1)
      <4>1. i - off + 1 \in 1..n /\ off + (i - off + 1) - 1 = i
        BY <1>1, <1>2, <1>9, <3>1
      <4> QED
        BY ZenonT(30), <1>2, <1>4, <4>1
    <3>2. CASE i \in fs..(fs + 2)
      <4>1. i = fs \/ i = fs + 1 \/ i = fs + 2
        BY <1>3, <3>2
      <4> QED
        BY <1>2, <1>4, <1>9, <4>1
    <3>3. CASE new[i] = pg.body[i]
      BY <1>1, <3>3
    <3> QED
      BY <1>4, <3>1, <3>2, <3>3
  <2> QED
    BY <1>4, <2>1
<1>11. ASSUME NEW s \in 0..(m - 1) PROVE SlotHolds(new, off, s, ws[s + 1])
  <2> DEFINE b == Base(s)
             o == pg.body[Base(s)]
             w == vs[s + 1]
  <2>1. /\ o \in fe..CHECKSUM_OFFSET
        /\ pg.body[b + 1] = Len(w) /\ pg.body[b + 2] = 1
        /\ o + Len(w) <= CHECKSUM_OFFSET
        /\ \A i \in 1..Len(w) : pg.body[o + i - 1] = w[i]
        /\ Len(w) \in Nat
    BY <1>7, ValueIs DEF SlotHolds
  <2>2. b \in Nat /\ DATA_PAGE_HEADER_SIZE <= b /\ b + 3 <= fs
    BY <1>1, <1>2 DEF Base
  <2> HIDE DEF b, o, w
  <2>3. /\ b \in Body /\ b + 1 \in Body /\ b + 2 \in Body
        /\ b < fs /\ b + 1 < fs /\ b + 2 < fs
    BY <1>1, <1>2, <1>3, <2>2 DEF Body
  <2>4. new[b] = pg.body[b] /\ new[b + 1] = Len(w) /\ new[b + 2] = 1
    BY <1>4, <2>1, <2>3
  <2>5. ASSUME NEW i \in 1..Len(w) PROVE new[o + i - 1] = w[i]
    <3>1. o + i - 1 \in Body /\ o + i - 1 >= fe
      BY <1>1, <1>2, <1>3, <2>1 DEF Body
    <3> QED
      BY ZenonT(30), <1>4, <2>1, <3>1
  <2>6. o \in off..CHECKSUM_OFFSET
    BY <1>2, <1>9, <2>1
  <2>7. new[b] = o /\ ws[s + 1] = w
    BY <1>6, <2>4 DEF b, o, w
  <2> QED
    BY <2>1, <2>4, <2>5, <2>6, <2>7 DEF SlotHolds, b
<1>12. SlotHolds(new, off, m, v)
  <2>1. Base(m) = fs
    BY <1>1 DEF Base
  <2>2. new[fs] \in off..CHECKSUM_OFFSET /\ new[fs] + n <= CHECKSUM_OFFSET
    <3>1. new[fs] = off
      BY <1>4
    <3>2. off \in off..CHECKSUM_OFFSET /\ off + n <= CHECKSUM_OFFSET
      BY <1>1, <1>2, <1>9
    <3> QED
      BY <3>1, <3>2
  <2> QED
    BY ZenonT(30), <1>4, <2>1, <2>2 DEF SlotHolds, n
<1>13. \A s \in 0..(Len(ws) - 1) : SlotHolds(new, off, s, ws[s + 1])
  <2> SUFFICES ASSUME NEW s \in 0..(Len(ws) - 1) PROVE SlotHolds(new, off, s, ws[s + 1])
    OBVIOUS
  <2>1. s \in 0..(m - 1) \/ s = m
    BY <1>1, <1>6
  <2> QED
    BY <1>6, <1>11, <1>12, <2>1
<1>14. fs + 3 = Base(Len(ws))
  BY <1>1, <1>2, <1>6 DEF Base
<1> QED
  <2>1. insert(pg, v).body = new
    BY DEF new
  <2>2. insert(pg, v).slot_count = Len(ws)
    BY <1>5, <1>6, <1>8
  <2> QED
    BY <1>5, <1>6, <1>8, <1>9, <1>10, <1>13, <1>14, <2>1, <2>2 DEF Holds, ws

\* The header of a page that holds values passes the check of every read.
LEMMA HeaderValid ==
    ASSUME NEW pg, NEW vs, Holds(pg, vs)
    PROVE  validate_header(pg) /\ AllSlots(pg) = 0..(Len(vs) - 1)
<1>1. /\ Len(vs) \in Nat /\ pg.slot_count = Len(vs) /\ pg.tag = "Data"
      /\ pg.free_start = DATA_PAGE_HEADER_SIZE + Len(vs) * 3
      /\ pg.free_start <= pg.free_end /\ pg.free_end <= CHECKSUM_OFFSET
  BY DEF Holds, Base
<1>2. DATA_PAGE_HEADER_SIZE \in Nat
  BY BodyAssumption
<1>3. DATA_PAGE_HEADER_SIZE <= pg.free_start
  BY <1>1, <1>2
<1>4. DATA_PAGE_HEADER_SIZE + pg.slot_count * SLOT_ENTRY_SIZE <= pg.free_start
  BY <1>1, <1>2 DEF SLOT_ENTRY_SIZE
<1> QED
  BY <1>1, <1>3, <1>4 DEF validate_header, AllSlots

\* The directory entry of a slot in use is inside the body and live.
LEMMA EntryIs ==
    ASSUME NEW pg, NEW vs, Holds(pg, vs), NEW s \in 0..(Len(vs) - 1)
    PROVE  read_slot_entry(pg, s) =
             {[offset |-> pg.body[Base(s)], length |-> Len(vs[s + 1]), flags |-> 1]}
<1> DEFINE o == pg.body[Base(s)]
           k == Len(vs[s + 1])
<1>1. /\ Len(vs) \in Nat /\ vs[s + 1] \in Value
      /\ pg.free_start = DATA_PAGE_HEADER_SIZE + Len(vs) * 3
      /\ pg.free_end \in Nat /\ pg.free_start <= pg.free_end /\ pg.free_end <= CHECKSUM_OFFSET
  BY DEF Holds, Base
<1>2. /\ o \in pg.free_end..CHECKSUM_OFFSET /\ o + k <= CHECKSUM_OFFSET
      /\ pg.body[Base(s) + 1] = k /\ pg.body[Base(s) + 2] = 1
  BY DEF Holds, SlotHolds
<1>3. k \in Nat /\ DATA_PAGE_HEADER_SIZE \in Nat /\ CHECKSUM_OFFSET \in Nat
  BY SMTT(30), <1>1, ValueIs, BodyAssumption
<1> HIDE DEF o, k
<1>4. ~(Base(s) + 3 > CHECKSUM_OFFSET)
  BY <1>1, <1>3 DEF Base
<1>5. ~(o < DATA_PAGE_HEADER_SIZE) /\ ~(o + k > CHECKSUM_OFFSET)
  BY <1>1, <1>2, <1>3
<1>6. Base(s) = DATA_PAGE_HEADER_SIZE + s * SLOT_ENTRY_SIZE
  BY DEF Base, SLOT_ENTRY_SIZE
<1>7. ~(pg.body[Base(s)] < DATA_PAGE_HEADER_SIZE)
      /\ ~(pg.body[Base(s)] + pg.body[Base(s) + 1] > CHECKSUM_OFFSET)
  BY <1>2, <1>5 DEF o
<1> QED
  BY SMTT(30), <1>2, <1>4, <1>6, <1>7 DEF read_slot_entry, Some, SLOT_ENTRY_SIZE, k

\* Every slot in use reads as its value.
LEMMA ReadIs ==
    ASSUME NEW pg, NEW vs, Holds(pg, vs), NEW s \in 0..(Len(vs) - 1)
    PROVE  read(pg, s) = {vs[s + 1]}
<1> DEFINE e == [offset |-> pg.body[Base(s)], length |-> Len(vs[s + 1]), flags |-> 1]
<1>1. read_slot_entry(pg, s) = {e}
  BY EntryIs
<1>2. validate_header(pg) /\ pg.slot_count = Len(vs) /\ Len(vs) \in Nat /\ vs[s + 1] \in Value
  BY SMTT(30), HeaderValid DEF Holds
<1>3. ~(s >= pg.slot_count)
  BY <1>2
<1>4. {x \in read_slot_entry(pg, s) : x.flags = SLOT_FLAG_LIVE} = {e}
  BY <1>1 DEF SLOT_FLAG_LIVE
<1>5. Payload(pg, e) = [i \in 1..Len(vs[s + 1]) |-> pg.body[pg.body[Base(s)] + i - 1]]
  BY DEF Payload
<1>6. \A i \in 1..Len(vs[s + 1]) : pg.body[pg.body[Base(s)] + i - 1] = vs[s + 1][i]
  BY DEF Holds, SlotHolds
<1>7. Payload(pg, e) = [i \in 1..Len(vs[s + 1]) |-> vs[s + 1][i]]
  BY ZenonT(30), <1>5, <1>6
<1>8. Payload(pg, e) = vs[s + 1]
  BY <1>2, <1>7, ValueIs
<1> HIDE DEF e
<1>9. read(pg, s) = {Payload(pg, x) : x \in {e}}
  BY <1>2, <1>3, <1>4 DEF read
<1> QED
  BY <1>8, <1>9

\* The walk over the live slots gives every value once.
LEMMA IterIs ==
    ASSUME NEW pg, NEW vs, Holds(pg, vs)
    PROVE  iter_live(pg) = {<<s, {vs[s + 1]}>> : s \in 0..(Len(vs) - 1)}
<1> DEFINE e(s) == [offset |-> pg.body[Base(s)], length |-> Len(vs[s + 1]), flags |-> 1]
<1>1. \A s \in AllSlots(pg) : read_slot_entry(pg, s) = {e(s)} /\ read(pg, s) = {vs[s + 1]}
  BY HeaderValid, EntryIs, ReadIs
<1>2. AllSlots(pg) = 0..(Len(vs) - 1) /\ validate_header(pg)
  BY HeaderValid
<1>3. \A s \in AllSlots(pg) : e(s).flags = SLOT_FLAG_LIVE
  BY DEF SLOT_FLAG_LIVE
<1> HIDE DEF e
<1>4. Trusted(pg)
  BY SMTT(30), <1>1, <1>2 DEF Trusted, None
<1>5. Live(pg) = AllSlots(pg)
  BY <1>1, <1>3 DEF Live
<1>6. iter_live(pg) = {<<s, read(pg, s)>> : s \in AllSlots(pg)}
  BY <1>4, <1>5 DEF iter_live
<1> QED
  BY ZenonT(30), <1>1, <1>2, <1>6

-----------------------------------------------------------------------------
\* A fresh data page holds no value and has room for any inline one.
LEMMA FreshHolds ==
    /\ data_init_page = Fields(data_init_page) /\ Holds(data_init_page, <<>>)
    /\ \A v \in Value : Len(v) <= MAX_INLINE_VALUE =>
          data_init_page.free_end - data_init_page.free_start >= 3 + Len(v)
<1>1. /\ data_init_page = Fields(data_init_page)
      /\ data_init_page.tag = "Data" /\ data_init_page.slot_count = 0
      /\ data_init_page.free_start = DATA_PAGE_HEADER_SIZE
      /\ data_init_page.free_end = CHECKSUM_OFFSET
      /\ data_init_page.body = [i \in Body |-> 0]
  <2> DEFINE z == [i \in Body |-> 0]
             f == [tag |-> "Data", slot_count |-> 0, free_start |-> 0, free_end |-> 0, body |-> z]
  <2>1. data_init_page = [f EXCEPT !.free_start = DATA_PAGE_HEADER_SIZE,
                                   !.free_end = CHECKSUM_OFFSET]
    BY DEF data_init_page, Filled
  <2> HIDE DEF z
  <2>2. data_init_page = [tag |-> "Data", slot_count |-> 0,
                          free_start |-> DATA_PAGE_HEADER_SIZE,
                          free_end |-> CHECKSUM_OFFSET, body |-> z]
    BY ZenonT(30), <2>1
  <2>3. /\ data_init_page = Fields(data_init_page)
        /\ data_init_page.tag = "Data" /\ data_init_page.slot_count = 0
        /\ data_init_page.free_start = DATA_PAGE_HEADER_SIZE
        /\ data_init_page.free_end = CHECKSUM_OFFSET
        /\ data_init_page.body = z
    BY <2>2 DEF Fields
  <2> QED
    BY <2>3 DEF z
<1>2. Holds(data_init_page, <<>>)
  BY <1>1, BodyAssumption DEF Holds, Base
<1>3. ASSUME NEW v \in Value, Len(v) <= MAX_INLINE_VALUE
      PROVE  CHECKSUM_OFFSET - DATA_PAGE_HEADER_SIZE >= 3 + Len(v)
  BY <1>3, ValueIs, BodyAssumption DEF MAX_INLINE_VALUE, PAGE_BODY_SIZE, SLOT_ENTRY_SIZE
<1> QED
  BY <1>1, <1>2, <1>3

\* Bitmap calls leave the tag alone.
LEMMA BitsKeepTag ==
    ASSUME NEW pg, NEW id, pg = Fields(pg)
    PROVE  /\ mark_free(pg, id) = Fields(mark_free(pg, id)) /\ mark_free(pg, id).tag = pg.tag
           /\ clear_bit(pg, id) = Fields(clear_bit(pg, id)) /\ clear_bit(pg, id).tag = pg.tag
<1>1. ASSUME NEW b PROVE LET q == [pg EXCEPT !.body = b] IN q = Fields(q) /\ q.tag = pg.tag
  BY DEF Fields
<1>2. \/ mark_free(pg, id) = pg
      \/ mark_free(pg, id) =
           [pg EXCEPT !.body = [pg.body EXCEPT ![CellOf(id)] = @ + 2^(bit_position(id).bit)]]
  BY DEF mark_free
<1>3. \/ clear_bit(pg, id) = pg
      \/ clear_bit(pg, id) =
           [pg EXCEPT !.body = [pg.body EXCEPT ![CellOf(id)] = @ - 2^(bit_position(id).bit)]]
  BY DEF clear_bit
<1> QED
  BY ZenonT(30), <1>1, <1>2, <1>3

\* The buffer starts with no kind at all.
LEMMA InitBody == BodyInit => BodyInv
<1> SUFFICES ASSUME BodyInit PROVE BodyInv
  OBVIOUS
<1> DEFINE z == [i \in Body |-> 0]
<1>1. page = [tag |-> "none", slot_count |-> 0, free_start |-> 0, free_end |-> 0, body |-> z]
  BY DEF BodyInit, Filled
<1> HIDE DEF z
<1> QED
  BY <1>1 DEF BodyInv, Fields

\* Every operation on the buffer keeps the invariant.
LEMMA StepBody == BodyInv /\ [BodyNext]_bodyVars => BodyInv'
<1> SUFFICES ASSUME BodyInv, [BodyNext]_bodyVars PROVE BodyInv'
  OBVIOUS
<1>1. page = Fields(page) /\ (page.tag = "Data" => Holds(page, values))
  BY DEF BodyInv
<1>2. CASE InitFreeMap
  <2> DEFINE z == [i \in Body |-> 0]
  <2>1. page' = [tag |-> "FreeMap", slot_count |-> 0, free_start |-> 0, free_end |-> 0, body |-> z]
    BY <1>2 DEF InitFreeMap, freemap_init_page, Filled
  <2> HIDE DEF z
  <2>2. page' = Fields(page)' /\ page.tag' = "FreeMap"
    BY <2>1 DEF Fields
  <2> QED
    BY <2>2 DEF BodyInv
<1>3. ASSUME NEW v \in Value, InsertFresh(v) PROVE BodyInv'
  <2>1. Len(v) <= MAX_INLINE_VALUE /\ page' = insert(data_init_page, v) /\ values' = <<v>>
    BY <1>3 DEF InsertFresh
  <2>2. insert(data_init_page, v) = Fields(insert(data_init_page, v))
        /\ Holds(insert(data_init_page, v), Append(<<>>, v))
    BY ZenonT(30), <2>1, FreshHolds, InsertHolds
  <2>3. Append(<<>>, v) = <<v>>
    OBVIOUS
  <2>4. page' = Fields(page') /\ Holds(page', values')
    BY <2>1, <2>2, <2>3
  <2> QED
    BY <2>4 DEF BodyInv, Fields, Holds, SlotHolds
<1>4. ASSUME NEW v \in Value, Insert(v) PROVE BodyInv'
  <2>1. fits(page, v) /\ page' = insert(page, v) /\ values' = Append(values, v)
    BY <1>4 DEF Insert
  <2>2. page.tag = "Data" /\ page.free_end - page.free_start >= 3 + Len(v)
    BY <2>1 DEF fits, validate_header, SLOT_ENTRY_SIZE
  <2>3. insert(page, v) = Fields(insert(page, v)) /\ Holds(insert(page, v), Append(values, v))
    BY <1>1, <2>2, InsertHolds
  <2>4. page' = Fields(page') /\ Holds(page', values')
    BY <2>1, <2>3
  <2> QED
    BY <2>4 DEF BodyInv, Fields, Holds, SlotHolds
<1>5. ASSUME NEW id \in LeafIds, MarkFree(id) PROVE BodyInv'
  <2>1. page.tag = "FreeMap" /\ page' = mark_free(page, id)
    BY <1>5 DEF MarkFree, check_type
  <2>2. page' = Fields(page') /\ page'.tag = "FreeMap"
    BY <1>1, <2>1, BitsKeepTag
  <2> QED
    BY <2>2 DEF BodyInv, Fields
<1>6. ASSUME NEW lo \in LeafIds, Claim(lo) PROVE BodyInv'
  <2>1. PICK id \in first_free_bit_from(page, lo) : page' = clear_bit(page, id)
    BY <1>6 DEF Claim
  <2>2. page.tag = "FreeMap"
    BY <1>6 DEF Claim, check_type
  <2>3. page' = Fields(page') /\ page'.tag = "FreeMap"
    BY <1>1, <2>1, <2>2, BitsKeepTag
  <2> QED
    BY <2>3 DEF BodyInv, Fields
<1>7. CASE UNCHANGED bodyVars
  BY <1>1, <1>7 DEF bodyVars, BodyInv, Fields, Holds, SlotHolds
<1> QED
  BY <1>2, <1>3, <1>4, <1>5, <1>6, <1>7 DEF BodyNext

\* Where the values lie says what the page reads as.
LEMMA BodyReads == BodyInv => ValuesReadBack
<1> SUFFICES ASSUME BodyInv, page.tag = "Data"
             PROVE  /\ page.slot_count = Len(values)
                    /\ \A s \in AllSlots(page) : read(page, s) = Some(values[s + 1])
                    /\ iter_live(page) = {<<s, Some(values[s + 1])>> : s \in AllSlots(page)}
  BY DEF ValuesReadBack
<1>1. Holds(page, values)
  BY DEF BodyInv
<1>2. AllSlots(page) = 0..(Len(values) - 1) /\ page.slot_count = Len(values)
  BY ZenonT(30), <1>1, HeaderValid DEF Holds
<1>3. \A s \in AllSlots(page) : read(page, s) = Some(values[s + 1])
  BY <1>1, <1>2, ReadIs DEF Some
<1>4. iter_live(page) = {<<s, Some(values[s + 1])>> : s \in AllSlots(page)}
  BY <1>1, <1>2, IterIs DEF Some
<1> QED
  BY <1>2, <1>3, <1>4

\* Every value put into a data page since it was initialised reads back at its
\* slot, whatever the sizes of the page, of its header and of the values
\* (DataPage::insert, read, iter_live).
THEOREM ValuesAlwaysReadBack == BodySpec => []ValuesReadBack
<1>1. BodySpec => []BodyInv
  BY InitBody, StepBody, PTL DEF BodySpec
<1> QED
  BY <1>1, BodyReads, PTL
-----------------------------------------------------------------------------
(* The cache.                                                               *)

\* What the spillway and the file do in one step is always unfolded.
USE DEF forget, rehydrate, read_slot, read_page_unit_into, verify_checksum, write_slot, set_page_count

\* A call about another page is a call.  Every step of the proofs sees this
\* fact: a record update among its facts spares tlapm a slow inference of types.
LEMMA SomeCall == \E c \in Calls : c = [NoCall EXCEPT !.page = PageCount]
<1>1. NoCall \in Calls /\ PageCount \in 0..PageCount
  BY CacheAssumption DEF Calls, NoCall
<1>. QED  BY ZenonT(30), <1>1 DEF Calls

LEMMA PageIdsInterval == 0 \in Int /\ PageCount - 1 \in Int /\ PageIds = 0..(PageCount - 1)
BY CacheAssumption DEF PageIds

USE SomeCall

\* A step that moves no bytes keeps the parts of the invariant about them.
LEMMA SamePlaces ==
    ASSUME CacheInv,
           UNCHANGED <<buf, dirty, slots, sidecar, cursor, disk, fileLen, next,
                       total>>,
           txn' \in {"none", "open", "flush1", "persist", "flush2", "dead"},
           phase' \in {"no", "cache", "drain", "trim"}
    PROVE  /\ Shape' /\ OnePlace' /\ SlotsBehind' /\ Unwritten'
           /\ resident' = resident /\ spilled' = spilled
<1>1. resident' = resident /\ spilled' = spilled
  BY DEF resident, spilled
<1>2. Shape'
  BY DEF CacheInv, Shape
<1>3. OnePlace' /\ SlotsBehind'
  BY <1>1 DEF CacheInv, OnePlace, SlotsBehind
<1>4. Unwritten'
  BY <1>1 DEF CacheInv, Unwritten
<1>. QED  BY <1>1, <1>2, <1>3, <1>4

\* CacheInv is preserved by Begin.
LEMMA KeepsBegin ==
    ASSUME CacheInv, Begin
    PROVE  CacheInv'
<1>. USE DEF memVars, spillVars, fileVars, limits, txnVars, flushVars
<1>1. /\ Shape' /\ OnePlace' /\ SlotsBehind' /\ Unwritten'
      /\ resident' = resident /\ spilled' = spilled
  BY SamePlaces DEF CacheInv, Shape, Begin, Ready
<1>2. CallsApart'
  BY <1>1 DEF CacheInv, CallsApart, Flushing, Shape, NoCall, Begin, Ready
<1>3. Flushing'
  BY <1>1 DEF CacheInv, Flushing, CallsApart, Shape, NoCall, Begin, Ready
<1>. QED  BY <1>1, <1>2, <1>3 DEF CacheInv

\* CacheInv is preserved by Miss.
LEMMA KeepsMiss ==
    ASSUME CacheInv, NEW p \in PageIds, Miss(p)
    PROVE  CacheInv'
<1>. USE DEF memVars, spillVars, fileVars, limits, txnVars, flushVars
<1>1. /\ Shape' /\ OnePlace' /\ SlotsBehind' /\ Unwritten'
      /\ resident' = resident /\ spilled' = spilled
  BY SamePlaces DEF CacheInv, Shape, Miss, Ready
<1>2. CallsApart'
  BY <1>1 DEF CacheInv, CallsApart, Flushing, Shape, NoCall, Miss, Ready
<1>3. Flushing'
  BY <1>1 DEF CacheInv, Flushing, CallsApart, Shape, NoCall, Miss, Ready
<1>. QED  BY <1>1, <1>2, <1>3 DEF CacheInv

\* CacheInv is preserved by GetMut.
LEMMA KeepsGetMut ==
    ASSUME CacheInv, NEW p \in PageIds, NEW v \in Values, NEW d \in BOOLEAN, GetMut(p, v, d)
    PROVE  CacheInv'
<1>. USE CacheAssumption DEF CacheInv, PageIds, memVars, spillVars, fileVars,
       limits, txnVars, flushVars
<1>1. Shape'
  BY DEF Shape, Bytes, Slots, GetMut, MayWrite, Ready, NoCall
<1>2. OnePlace'
  BY DEF OnePlace, resident, spilled, Shape, Bytes, Slots, SlotsBehind,
       Flushing, GetMut, MayWrite, Ready, NoCall
<1>3. SlotsBehind'
  BY DEF SlotsBehind, spilled, Shape, Bytes, Slots, GetMut, MayWrite, Ready,
       NoCall
<1>4. Unwritten'
  BY DEF Unwritten, resident, spilled, Shape, Bytes, Slots, OnePlace, Flushing,
       GetMut, MayWrite, Ready, NoCall
<1>5. CallsApart'
  BY DEF CallsApart, NoCall, resident, Flushing, spilled, GetMut, MayWrite,
       Ready
<1>6. Flushing'
  BY DEF Flushing, spilled, CallsApart, NoCall, resident, Shape, Bytes, Slots,
       GetMut, MayWrite, Ready
<1>. QED  BY <1>1, <1>2, <1>3, <1>4, <1>5, <1>6

\* CacheInv is preserved by NewPage.
LEMMA KeepsNewPage ==
    ASSUME CacheInv, NewPage
    PROVE  CacheInv'
<1>. USE CacheAssumption DEF CacheInv, PageIds, memVars, spillVars, fileVars,
       limits, txnVars, flushVars
<1>1. Shape'
  <2>1. next \in PageIds /\ next' \in 0..PageCount
    BY DEF Shape, NewPage
  <2>2. buf' = [buf EXCEPT ![next] = Blank] /\ dirty' = dirty \cup {next}
    BY DEF NewPage, Enter
  <2>3. buf' \in [PageIds -> Bytes \cup {Absent}] /\ dirty' \subseteq PageIds
    BY ZenonT(30), <2>1, <2>2 DEF Shape, Bytes
  <2>. QED  BY <2>1, <2>3 DEF Shape, NewPage
<1>2. OnePlace'
  BY DEF OnePlace, resident, spilled, Shape, Bytes, Slots, SlotsBehind,
       Flushing, NewPage, MayWrite, Ready, Enter, NoCall, Unwritten
<1>3. SlotsBehind'
  BY DEF SlotsBehind, spilled, Shape, Bytes, Slots, NewPage, MayWrite, Ready,
       Enter, NoCall
<1>4. Unwritten'
  BY SMTT(30) DEF Unwritten, resident, spilled, Shape, Bytes, Slots, OnePlace, Flushing,
       NewPage, MayWrite, Ready, Enter, NoCall
<1>5. CallsApart'
  BY DEF CallsApart, NoCall, resident, Flushing, spilled, NewPage, MayWrite,
       Ready, Enter
<1>6. Flushing'
  BY DEF Flushing, spilled, CallsApart, NoCall, resident, Shape, Bytes, Slots,
       NewPage, MayWrite, Ready, Enter
<1>. QED  BY <1>1, <1>2, <1>3, <1>4, <1>5, <1>6

\* CacheInv is preserved by Reissue.
LEMMA KeepsReissue ==
    ASSUME CacheInv, NEW p \in PageIds, Reissue(p)
    PROVE  CacheInv'
<1>. USE CacheAssumption DEF CacheInv, PageIds, memVars, spillVars, fileVars,
       limits, txnVars, flushVars
<1>1. Shape'
  BY DEF Shape, Bytes, Slots, Reissue, MayWrite, Ready, Enter, NoCall
<1>2. OnePlace'
  BY SMTT(30) DEF OnePlace, resident, spilled, Shape, Bytes, Slots, SlotsBehind,
       Flushing, Reissue, MayWrite, Ready, Enter, NoCall
<1>3. SlotsBehind'
  BY DEF SlotsBehind, spilled, Shape, Bytes, Slots, Reissue, MayWrite, Ready,
       Enter, NoCall
<1>4. Unwritten'
  BY SMTT(30) DEF Unwritten, resident, spilled, Shape, Bytes, Slots, OnePlace, Flushing,
       Reissue, MayWrite, Ready, Enter, NoCall
<1>5. CallsApart'
  BY DEF CallsApart, NoCall, resident, Flushing, spilled, Reissue, MayWrite,
       Ready, Enter
<1>6. Flushing'
  BY DEF Flushing, spilled, CallsApart, NoCall, resident, Shape, Bytes, Slots,
       Reissue, MayWrite, Ready, Enter
<1>. QED  BY <1>1, <1>2, <1>3, <1>4, <1>5, <1>6

\* CacheInv is preserved by SetCacheMaxBytes.
LEMMA KeepsSetCacheMaxBytes ==
    ASSUME CacheInv, NEW n \in CacheSizes, SetCacheMaxBytes(n)
    PROVE  CacheInv'
<1>. USE DEF memVars, spillVars, fileVars, limits, txnVars, flushVars
<1>1. /\ Shape' /\ OnePlace' /\ SlotsBehind' /\ Unwritten'
      /\ resident' = resident /\ spilled' = spilled
  BY SamePlaces DEF CacheInv, Shape, SetCacheMaxBytes, Ready
<1>2. CallsApart'
  BY <1>1 DEF CacheInv, CallsApart, Flushing, Shape, NoCall, SetCacheMaxBytes, Ready
<1>3. Flushing'
  BY <1>1 DEF CacheInv, Flushing, CallsApart, Shape, NoCall, SetCacheMaxBytes, Ready
<1>. QED  BY <1>1, <1>2, <1>3 DEF CacheInv

\* CacheInv is preserved by SetSpillwayMaxBytes.
LEMMA KeepsSetSpillwayMaxBytes ==
    ASSUME CacheInv, NEW n \in SpillSizes, SetSpillwayMaxBytes(n)
    PROVE  CacheInv'
<1>. USE DEF memVars, spillVars, fileVars, limits, txnVars, flushVars
<1>1. /\ Shape' /\ OnePlace' /\ SlotsBehind' /\ Unwritten'
      /\ resident' = resident /\ spilled' = spilled
  BY SamePlaces DEF CacheInv, Shape, SetSpillwayMaxBytes, Ready
<1>2. CallsApart'
  BY <1>1 DEF CacheInv, CallsApart, Flushing, Shape, NoCall, SetSpillwayMaxBytes, Ready
<1>3. Flushing'
  BY <1>1 DEF CacheInv, Flushing, CallsApart, Shape, NoCall, SetSpillwayMaxBytes, Ready
<1>. QED  BY <1>1, <1>2, <1>3 DEF CacheInv

\* CacheInv is preserved by EvictClean.
LEMMA KeepsEvictClean ==
    ASSUME CacheInv, NEW p \in PageIds, EvictClean(p)
    PROVE  CacheInv'
<1>. USE CacheAssumption DEF CacheInv, PageIds, memVars, spillVars, fileVars,
       limits, txnVars, flushVars
<1>1. Shape'
  BY DEF Shape, Bytes, Slots, EvictClean, Dropped, NoCall
<1>2. OnePlace'
  BY DEF OnePlace, resident, spilled, Shape, Bytes, Slots, SlotsBehind,
       Flushing, EvictClean, Dropped, NoCall
<1>3. SlotsBehind'
  BY DEF SlotsBehind, spilled, Shape, Bytes, Slots, EvictClean, Dropped, NoCall
<1>4. Unwritten'
  BY DEF Unwritten, resident, spilled, Shape, Bytes, Slots, OnePlace, Flushing,
       EvictClean, Dropped, NoCall
<1>5. CallsApart'
  BY DEF CallsApart, NoCall, resident, Flushing, spilled, EvictClean, Dropped
<1>6. Flushing'
  BY DEF Flushing, spilled, CallsApart, NoCall, resident, Shape, Bytes, Slots,
       EvictClean, Dropped
<1>. QED  BY <1>1, <1>2, <1>3, <1>4, <1>5, <1>6

\* CacheInv is preserved by Spill.
LEMMA KeepsSpill ==
    ASSUME CacheInv, NEW p \in PageIds, Spill(p)
    PROVE  CacheInv'
<1>. USE CacheAssumption DEF CacheInv, PageIds, memVars, spillVars, fileVars,
       limits, txnVars, flushVars
<1>1. Shape'
  BY SMTT(30) DEF Shape, Bytes, Slots, Spill, Dropped, NeedsSpill, SlotFor, Leaving,
       NoCall, resident, spilled
<1>2. OnePlace'
  BY SMTT(30) DEF OnePlace, resident, spilled, Shape, Bytes, Slots, SlotsBehind,
       Flushing, Spill, Dropped, NeedsSpill, SlotFor, Leaving, NoCall
<1>3. SlotsBehind'
  BY SMTT(30) DEF SlotsBehind, spilled, Shape, Bytes, Slots, Spill, Dropped, NeedsSpill,
       SlotFor, Leaving, NoCall
<1>4. Unwritten'
  BY DEF Unwritten, resident, spilled, Shape, Bytes, Slots, OnePlace, Flushing,
       Spill, Dropped, NeedsSpill, SlotFor, Leaving, NoCall
<1>5. CallsApart'
  BY DEF CallsApart, NoCall, resident, Flushing, spilled, Spill, Dropped,
       NeedsSpill, SlotFor, Leaving
<1>6. Flushing'
  BY DEF Flushing, spilled, CallsApart, NoCall, resident, Shape, Bytes, Slots,
       Spill, Dropped, NeedsSpill, SlotFor, Leaving
<1>. QED  BY <1>1, <1>2, <1>3, <1>4, <1>5, <1>6

\* CacheInv is preserved by Full.
LEMMA KeepsFull ==
    ASSUME CacheInv, Full
    PROVE  CacheInv'
<1>. USE DEF memVars, spillVars, fileVars, limits, txnVars, flushVars
<1>1. /\ Shape' /\ OnePlace' /\ SlotsBehind' /\ Unwritten'
      /\ resident' = resident /\ spilled' = spilled
  BY SamePlaces DEF CacheInv, Shape, Full, NeedsSpill
<1>2. CallsApart'
  BY <1>1 DEF CacheInv, CallsApart, Flushing, Shape, NoCall, Full, NeedsSpill
<1>3. Flushing'
  BY <1>1 DEF CacheInv, Flushing, CallsApart, Shape, NoCall, Full, NeedsSpill
<1>. QED  BY <1>1, <1>2, <1>3 DEF CacheInv

\* CacheInv is preserved by AllocDone.
LEMMA KeepsAllocDone ==
    ASSUME CacheInv, AllocDone
    PROVE  CacheInv'
<1>. USE DEF memVars, spillVars, fileVars, limits, txnVars, flushVars
<1>1. /\ Shape' /\ OnePlace' /\ SlotsBehind' /\ Unwritten'
      /\ resident' = resident /\ spilled' = spilled
  BY SamePlaces DEF CacheInv, Shape, AllocDone
<1>2. CallsApart'
  BY <1>1 DEF CacheInv, CallsApart, Flushing, Shape, NoCall, AllocDone
<1>3. Flushing'
  BY <1>1 DEF CacheInv, Flushing, CallsApart, Shape, NoCall, AllocDone
<1>. QED  BY <1>1, <1>2, <1>3 DEF CacheInv

\* CacheInv is preserved by ResizeDone.
LEMMA KeepsResizeDone ==
    ASSUME CacheInv, ResizeDone
    PROVE  CacheInv'
<1>. USE DEF memVars, spillVars, fileVars, limits, txnVars, flushVars
<1>1. /\ Shape' /\ OnePlace' /\ SlotsBehind' /\ Unwritten'
      /\ resident' = resident /\ spilled' = spilled
  BY SamePlaces DEF CacheInv, Shape, ResizeDone
<1>2. CallsApart'
  BY <1>1 DEF CacheInv, CallsApart, Flushing, Shape, NoCall, ResizeDone
<1>3. Flushing'
  BY <1>1 DEF CacheInv, Flushing, CallsApart, Shape, NoCall, ResizeDone
<1>. QED  BY <1>1, <1>2, <1>3 DEF CacheInv

\* CacheInv is preserved by Rehydrate.
LEMMA KeepsRehydrate ==
    ASSUME CacheInv, Rehydrate
    PROVE  CacheInv'
<1>. USE CacheAssumption DEF CacheInv, PageIds, memVars, spillVars, fileVars,
       limits, txnVars, flushVars
<1>0. PICK p \in PageIds :
        /\ p \in spilled /\ sidecar[slots[p]] \in Bytes
        /\ buf' = [buf EXCEPT ![p] = sidecar[slots[p]]]
        /\ slots' = [slots EXCEPT ![p] = Absent]
        /\ dirty' = dirty \cup {p}
  BY ZenonT(30) DEF Rehydrate, Shape, spilled
<1>1. Shape'
  BY ZenonT(30), <1>0 DEF Shape, Rehydrate
<1>2. OnePlace'
  <2>1. resident' = resident \cup {p} /\ spilled' = spilled \ {p}
    BY <1>0 DEF Shape, Bytes, resident, spilled
  <2>2. (\A r, q \in spilled : r # q => slots[r] # slots[q])'
    BY <1>0, <2>1 DEF OnePlace, Shape, spilled
  <2>3. \A q \in resident' \ dirty' : q \in resident \ dirty /\ buf'[q] = buf[q]
    BY <1>0, <2>1 DEF Shape
  <2>. QED  BY <2>1, <2>2, <2>3 DEF OnePlace, Rehydrate
<1>3. SlotsBehind'
  BY DEF SlotsBehind, spilled, Shape, Bytes, Slots, Rehydrate, NoCall
<1>4. Unwritten'
  <2>0. sidecar[slots[call.page]] \in Bytes
    BY DEF Shape, Rehydrate, spilled
  <2>1. call.page \in resident' /\ resident \subseteq resident'
    BY <2>0 DEF Shape, CallsApart, Rehydrate, resident, Bytes
  <2>2. resident' \subseteq resident \cup {call.page} /\ spilled' \subseteq spilled
    BY SMTT(30) DEF Shape, CallsApart, Rehydrate, resident, spilled
  <2>3. dirty \cup spilled \subseteq dirty' \cup spilled'
    BY DEF Shape, CallsApart, Rehydrate, spilled
  <2>. QED  BY <2>1, <2>2, <2>3 DEF Unwritten, CallsApart, Rehydrate
<1>5. CallsApart'
  BY DEF CallsApart, NoCall, resident, Flushing, spilled, Rehydrate
<1>6. Flushing'
  BY SMTT(30) DEF Flushing, spilled, CallsApart, NoCall, resident, Shape, Bytes, Slots,
       Rehydrate
<1>. QED  BY <1>1, <1>2, <1>3, <1>4, <1>5, <1>6

\* CacheInv is preserved by LoadPage.
LEMMA KeepsLoadPage ==
    ASSUME CacheInv, LoadPage
    PROVE  CacheInv'
<1>. USE CacheAssumption DEF CacheInv, PageIds, memVars, spillVars, fileVars,
       limits, txnVars, flushVars
<1>0. PICK p \in PageIds :
        /\ p \notin resident /\ p \notin spilled /\ p < next
        /\ buf' = buf \/ (p < fileLen /\ buf' = [buf EXCEPT ![p] = disk[p]])
  BY DEF LoadPage, CallsApart
<1>1. Shape'
  <2>1. buf' \in [PageIds -> Bytes \cup {Absent}]
    <3>1. CASE buf' = buf
      BY <3>1 DEF Shape
    <3>2. CASE buf' = [buf EXCEPT ![p] = disk[p]]
      BY <3>2 DEF Shape
    <3>. QED  BY <1>0, <3>1, <3>2
  <2>. QED  BY <2>1 DEF Shape, LoadPage
<1>2. OnePlace'
  <2>1. spilled' = spilled /\ resident' \subseteq resident \cup {p}
    BY <1>0 DEF Shape, resident, spilled, LoadPage
  <2>2. \A q \in resident : buf'[q] = buf[q]
    BY SMTT(30), <1>0 DEF Shape, resident
  <2>3. p \in resident' => p < fileLen /\ buf'[p] = disk[p]
    BY <1>0 DEF Shape, resident
  <2>. QED  BY <1>0, <2>1, <2>2, <2>3 DEF OnePlace, LoadPage
<1>3. SlotsBehind'
  BY DEF SlotsBehind, spilled, Shape, Bytes, Slots, LoadPage, NoCall
<1>4. Unwritten'
  <2>1. spilled' = spilled /\ resident \subseteq resident'
    BY SMTT(30), <1>0 DEF Shape, Bytes, resident, spilled, LoadPage
  <2>2. resident' \subseteq resident \cup {p}
    BY <1>0 DEF Shape, resident
  <2>. QED  BY <1>0, <2>1, <2>2 DEF Unwritten, LoadPage
<1>5. CallsApart'
  BY SMTT(30) DEF CallsApart, NoCall, resident, Flushing, spilled, LoadPage
<1>6. Flushing'
  BY SMTT(30) DEF Flushing, spilled, CallsApart, NoCall, resident, Shape, Bytes, Slots,
       LoadPage
<1>. QED  BY <1>1, <1>2, <1>3, <1>4, <1>5, <1>6

\* CacheInv is preserved by FlushStart.
LEMMA KeepsFlushStart ==
    ASSUME CacheInv, FlushStart
    PROVE  CacheInv'
<1>. USE DEF memVars, spillVars, fileVars, limits, txnVars, flushVars
<1>1. /\ Shape' /\ OnePlace' /\ SlotsBehind' /\ Unwritten'
      /\ resident' = resident /\ spilled' = spilled
  BY SamePlaces DEF CacheInv, Shape, FlushStart, Ready
<1>2. CallsApart'
  BY <1>1 DEF CacheInv, CallsApart, Flushing, Shape, NoCall, FlushStart, Ready
<1>3. Flushing'
  BY <1>1 DEF CacheInv, Flushing, CallsApart, Shape, NoCall, FlushStart, Ready
<1>. QED  BY <1>1, <1>2, <1>3 DEF CacheInv

\* CacheInv is preserved by WriteBack.
LEMMA KeepsWriteBack ==
    ASSUME CacheInv, NEW p \in PageIds, WriteBack(p)
    PROVE  CacheInv'
<1>. USE CacheAssumption DEF CacheInv, PageIds, memVars, spillVars, fileVars,
       limits, txnVars, flushVars
<1>1. Shape'
  BY SMTT(30) DEF Shape, Bytes, Slots, WriteBack, WriteFile, Leaving, resident
<1>2. OnePlace'
  BY SMTT(30) DEF OnePlace, resident, spilled, Shape, Bytes, Slots, SlotsBehind,
       Flushing, WriteBack, WriteFile, Leaving
<1>3. SlotsBehind'
  BY DEF SlotsBehind, spilled, Shape, Bytes, Slots, WriteBack, WriteFile,
       Leaving
<1>4. Unwritten'
  BY SMTT(30) DEF Unwritten, resident, spilled, Shape, Bytes, Slots, OnePlace, Flushing,
       WriteBack, WriteFile, Leaving
<1>5. CallsApart'
  BY DEF CallsApart, NoCall, resident, Flushing, spilled, WriteBack, WriteFile,
       Leaving
<1>6. Flushing'
  BY DEF Flushing, spilled, CallsApart, NoCall, resident, Shape, Bytes, Slots,
       WriteBack, WriteFile, Leaving
<1>. QED  BY <1>1, <1>2, <1>3, <1>4, <1>5, <1>6

\* CacheInv is preserved by CacheWritten.
LEMMA KeepsCacheWritten ==
    ASSUME CacheInv, CacheWritten
    PROVE  CacheInv'
<1>. USE DEF memVars, spillVars, fileVars, limits, txnVars, flushVars
<1>1. /\ Shape' /\ OnePlace' /\ SlotsBehind' /\ Unwritten'
      /\ resident' = resident /\ spilled' = spilled
  BY SamePlaces DEF CacheInv, Shape, CacheWritten
<1>2. CallsApart'
  BY <1>1 DEF CacheInv, CallsApart, Flushing, Shape, NoCall, CacheWritten
<1>3. Flushing'
  <2>1. dirty = {} /\ dirty' = {}
    BY DEF CacheInv, Unwritten, CacheWritten
  <2>. QED  BY <1>1, <2>1 DEF CacheInv, Flushing, CacheWritten
<1>. QED  BY <1>1, <1>2, <1>3 DEF CacheInv

\* CacheInv is preserved by DrainBatch.
LEMMA KeepsDrainBatch ==
    ASSUME CacheInv, DrainBatch
    PROVE  CacheInv'
<1>. USE DEF memVars, spillVars, fileVars, limits, txnVars, flushVars
<1>1. /\ Shape' /\ OnePlace' /\ SlotsBehind' /\ Unwritten'
      /\ resident' = resident /\ spilled' = spilled
  BY SamePlaces DEF CacheInv, Shape, DrainBatch
<1>2. CallsApart'
  BY <1>1 DEF CacheInv, CallsApart, Flushing, Shape, NoCall, DrainBatch
<1>3. Flushing'
  BY SMTT(30), <1>1 DEF CacheInv, Flushing, CallsApart, Shape, NoCall, DrainBatch
<1>. QED  BY <1>1, <1>2, <1>3 DEF CacheInv

\* CacheInv is preserved by Drain.
LEMMA KeepsDrain ==
    ASSUME CacheInv, NEW p \in PageIds, Drain(p)
    PROVE  CacheInv'
<1>. USE CacheAssumption DEF CacheInv, PageIds, memVars, spillVars, fileVars,
       limits, txnVars, flushVars
<1>1. Shape'
  BY SMTT(90) DEF Shape, Bytes, Slots, Drain, WriteFile, Flushing, spilled
<1>2. p \in spilled /\ p \notin resident /\ dirty = {} /\ dirty' = {}
  BY DEF Flushing, OnePlace, Drain, Shape
<1>3. /\ buf' = [buf EXCEPT ![p] = sidecar[slots[p]]]
      /\ slots' = [slots EXCEPT ![p] = Absent]
      /\ disk' = [disk EXCEPT ![p] = sidecar[slots[p]]]
      /\ sidecar[slots[p]] \in Bytes
  BY <1>2 DEF Drain, WriteFile, Shape, spilled
<1>4. resident' = resident \cup {p} /\ spilled' = spilled \ {p}
  BY <1>2, <1>3 DEF Shape, Bytes, resident, spilled
<1>5. p < fileLen' /\ fileLen <= fileLen'
  BY SMTT(30) DEF Drain, WriteFile, Shape
<1>6. OnePlace'
  <2>1. (resident \cap spilled = {})'
    BY <1>4 DEF OnePlace
  <2>2. (\A r, q \in spilled : r # q => slots[r] # slots[q])'
    BY <1>3, <1>4 DEF OnePlace, Shape, spilled
  <2>3. ASSUME NEW q \in resident' PROVE q < fileLen' /\ buf'[q] = disk'[q]
    <3>1. CASE q = p
      BY SMTT(30), <3>1, <1>3, <1>5 DEF Shape
    <3>2. CASE q # p
      <4>1. q \in resident \ dirty
        BY SMTT(30), <3>2, <1>2, <1>4
      <4>2. q < fileLen /\ buf[q] = disk[q] /\ q \in Int
        BY SMTT(30), <4>1 DEF OnePlace, resident
      <4>. QED  BY SMTT(30), <4>2, <3>2, <1>3, <1>5 DEF Shape, Drain, WriteFile
    <3>. QED  BY <3>1, <3>2
  <2>. QED  BY SMTT(30), <2>1, <2>2, <2>3, <1>2 DEF OnePlace
<1>7. SlotsBehind'
  BY <1>3, <1>4 DEF SlotsBehind, spilled, Shape, Drain
<1>8. Unwritten'
  <2>1. next' = next /\ p < next
    BY <1>2 DEF Unwritten, Drain
  <2>2. ASSUME NEW q \in PageIds, fileLen' <= q, q < next'
        PROVE  q \in (dirty \cup spilled)'
    BY SMTT(30), <2>1, <2>2, <1>2, <1>4, <1>5 DEF Unwritten, Shape, Drain, WriteFile
  <2>. QED  BY SMTT(30), <2>1, <2>2, <1>2, <1>4 DEF Unwritten
<1>9. CallsApart'
  BY SMTT(30), <1>2, <1>4 DEF CallsApart, NoCall, Flushing, Drain
<1>10. Flushing'
  BY <1>2, <1>4 DEF Flushing, Shape, Drain
<1>. QED  BY <1>1, <1>6, <1>7, <1>8, <1>9, <1>10

\* CacheInv is preserved by Trim.
LEMMA KeepsTrim ==
    ASSUME CacheInv, Trim
    PROVE  CacheInv'
<1>. USE CacheAssumption DEF CacheInv, PageIds, memVars, spillVars, fileVars,
       limits, txnVars, flushVars
<1>0. PICK p : /\ (buf' = buf \/ buf' = [buf EXCEPT ![p] = Absent])
               /\ phase' \in {"trim", "drain"} /\ phase = "trim"
  BY SMTT(30) DEF Trim, Dropped
<1>1. Shape'
  BY SMTT(30), <1>0 DEF Shape, Trim
<1>2. OnePlace'
  <2>1. spilled' = spilled /\ \A q \in resident' : q \in resident /\ buf'[q] = buf[q]
    BY SMTT(30), <1>0 DEF Shape, resident, spilled, Trim
  <2>. QED  BY SMTT(30), <2>1 DEF OnePlace, Trim
<1>3. SlotsBehind'
  BY SMTT(30) DEF SlotsBehind, spilled, Shape, Bytes, Slots, Trim, Dropped
<1>4. Unwritten'
  BY SMTT(30) DEF Unwritten, resident, spilled, Shape, Bytes, Slots, OnePlace, Flushing,
       Trim, Dropped
<1>5. CallsApart'
  BY SMTT(30) DEF CallsApart, NoCall, resident, Flushing, spilled, Trim, Dropped
<1>6. Flushing'
  BY SMTT(30) DEF Flushing, spilled, CallsApart, NoCall, resident, Shape, Bytes, Slots,
       Trim, Dropped
<1>. QED  BY <1>1, <1>2, <1>3, <1>4, <1>5, <1>6

\* CacheInv is preserved by FlushEnd.
LEMMA KeepsFlushEnd ==
    ASSUME CacheInv, FlushEnd
    PROVE  CacheInv'
<1>. USE CacheAssumption DEF CacheInv, PageIds, memVars, spillVars, fileVars,
       limits, txnVars, flushVars
<1>1. Shape'
  BY SMTT(30) DEF Shape, Bytes, Slots, FlushEnd, EmptySidecar
<1>2. OnePlace'
  BY DEF OnePlace, resident, spilled, Shape, Bytes, Slots, SlotsBehind,
       Flushing, FlushEnd, EmptySidecar
<1>3. SlotsBehind'
  BY SMTT(30) DEF SlotsBehind, spilled, Shape, Bytes, Slots, FlushEnd, EmptySidecar
<1>4. Unwritten'
  BY DEF Unwritten, resident, spilled, Shape, Bytes, Slots, OnePlace, Flushing,
       FlushEnd, EmptySidecar
<1>5. CallsApart'
  BY DEF CallsApart, NoCall, resident, Flushing, spilled, FlushEnd,
       EmptySidecar
<1>6. Flushing'
  BY SMTT(30) DEF Flushing, spilled, CallsApart, NoCall, resident, Shape, Bytes, Slots,
       FlushEnd, EmptySidecar
<1>. QED  BY <1>1, <1>2, <1>3, <1>4, <1>5, <1>6

\* CacheInv is preserved by Rollback.
LEMMA KeepsRollback ==
    ASSUME CacheInv, Rollback
    PROVE  CacheInv'
<1>. USE CacheAssumption DEF CacheInv, PageIds, memVars, spillVars, fileVars,
       limits, txnVars, flushVars
<1>1. Shape'
  BY SMTT(30) DEF Shape, Bytes, Slots, Rollback, Ready, Truncate, EmptySidecar
<1>2. OnePlace'
  BY SMTT(30) DEF OnePlace, resident, spilled, Shape, Bytes, Slots, SlotsBehind,
       Flushing, Rollback, Ready, Truncate, EmptySidecar
<1>3. SlotsBehind'
  BY SMTT(30) DEF SlotsBehind, spilled, Shape, Bytes, Slots, Rollback, Ready, Truncate,
       EmptySidecar
<1>4. Unwritten'
  BY SMTT(30) DEF Unwritten, resident, spilled, Shape, Bytes, Slots, OnePlace, Flushing,
       Rollback, Ready, Truncate, EmptySidecar
<1>5. CallsApart'
  BY SMTT(30) DEF CallsApart, NoCall, resident, Flushing, spilled, Rollback, Ready,
       Truncate, EmptySidecar
<1>6. Flushing'
  BY DEF Flushing, spilled, CallsApart, NoCall, resident, Shape, Bytes, Slots,
       Rollback, Ready, Truncate, EmptySidecar
<1>. QED  BY <1>1, <1>2, <1>3, <1>4, <1>5, <1>6

\* CacheInv is preserved by RollbackTo.
LEMMA KeepsRollbackTo ==
    ASSUME CacheInv, NEW n \in 0..PageCount, RollbackTo(n)
    PROVE  CacheInv'
<1>. USE CacheAssumption DEF CacheInv, PageIds, memVars, spillVars, fileVars,
       limits, txnVars, flushVars
<1>0. /\ \A p \in PageIds : p < n =>
            buf'[p] = buf[p] /\ slots'[p] = slots[p] /\ disk'[p] = disk[p]
      /\ \A p \in PageIds : ~(p < n) => buf'[p] = Absent /\ slots'[p] = Absent
  BY SMTT(30) DEF RollbackTo, Truncate, resident, spilled
<1>00. /\ resident' = {p \in resident : p < n} /\ spilled' = {p \in spilled : p < n}
       /\ dirty' = {p \in dirty : p < n} /\ fileLen' = n
  BY SMTT(30), <1>0 DEF RollbackTo, Truncate, resident, spilled
<1>1. Shape'
  <2>1. /\ buf' \in [PageIds -> Bytes \cup {Absent}]
        /\ slots' \in [PageIds -> Slots \cup {Absent}]
        /\ disk' \in [PageIds -> Bytes]
    BY SMTT(30) DEF Shape, Bytes, RollbackTo, Truncate
  <2>2. fileLen' \in 0..PageCount /\ next' \in 0..PageCount
    BY SMTT(30) DEF Shape, RollbackTo, Truncate
  <2>. QED  BY ZenonT(30), <2>1, <2>2, <1>00 DEF Shape, RollbackTo
<1>2. OnePlace'
  BY SMTT(30), <1>0, <1>00 DEF OnePlace, resident, spilled
<1>3. SlotsBehind'
  BY SMTT(30), <1>0, <1>00 DEF SlotsBehind, spilled, RollbackTo
<1>4. Unwritten'
  <2>1. dirty' \subseteq resident'
    BY SMTT(30), <1>00 DEF Unwritten
  <2>2. \A p \in resident' \cup spilled' : p < next'
    BY SMTT(30), <1>00 DEF Unwritten, RollbackTo, Truncate
  <2>3. next' <= fileLen'
    BY SMTT(30) DEF Shape, RollbackTo, Truncate
  <2>. QED  BY SMTT(30), <2>1, <2>2, <2>3 DEF Unwritten, Shape, RollbackTo, Truncate
<1>5. CallsApart'
  BY SMTT(30) DEF CallsApart, NoCall, resident, Flushing, spilled, RollbackTo, Ready,
       Truncate
<1>6. Flushing'
  BY SMTT(30) DEF Flushing, spilled, CallsApart, NoCall, resident, Shape, Bytes, Slots,
       RollbackTo, Ready, Truncate
<1>. QED  BY SMTT(30), <1>1, <1>2, <1>3, <1>4, <1>5, <1>6

\* CacheInv is preserved by Fail.
LEMMA KeepsFail ==
    ASSUME CacheInv, Fail
    PROVE  CacheInv'
<1>. USE DEF memVars, spillVars, fileVars, limits, txnVars, flushVars
<1>1. /\ Shape' /\ OnePlace' /\ SlotsBehind' /\ Unwritten'
      /\ resident' = resident /\ spilled' = spilled
  BY SMTT(30), SamePlaces DEF CacheInv, Shape, Fail
<1>2. CallsApart'
  BY SMTT(30), <1>1 DEF CacheInv, CallsApart, Flushing, Shape, NoCall, Fail
<1>3. Flushing'
  BY SMTT(30), <1>1 DEF CacheInv, Flushing, CallsApart, Shape, NoCall, Fail
<1>. QED  BY <1>1, <1>2, <1>3 DEF CacheInv

\* CacheInv is preserved by Reopen.
LEMMA KeepsReopen ==
    ASSUME CacheInv, Reopen
    PROVE  CacheInv'
<1>. USE CacheAssumption DEF CacheInv, PageIds, memVars, spillVars, fileVars,
       limits, txnVars, flushVars
<1>1. Shape'
  BY SMTT(30) DEF Shape, Bytes, Slots, Reopen, Nowhere, EmptySidecar, NoCall
<1>2. OnePlace'
  BY SMTT(30) DEF OnePlace, resident, spilled, Shape, Bytes, Slots, SlotsBehind,
       Flushing, Reopen, Nowhere, EmptySidecar, NoCall
<1>3. SlotsBehind'
  BY SMTT(30) DEF SlotsBehind, spilled, Shape, Bytes, Slots, Reopen, Nowhere,
       EmptySidecar, NoCall
<1>4. Unwritten'
  BY SMTT(30) DEF Unwritten, resident, spilled, Shape, Bytes, Slots, OnePlace, Flushing,
       Reopen, Nowhere, EmptySidecar, NoCall
<1>5. CallsApart'
  BY SMTT(30) DEF CallsApart, NoCall, resident, Flushing, spilled, Reopen, Nowhere,
       EmptySidecar
<1>6. Flushing'
  BY DEF Flushing, spilled, CallsApart, NoCall, resident, Shape, Bytes, Slots,
       Reopen, Nowhere, EmptySidecar
<1>. QED  BY <1>1, <1>2, <1>3, <1>4, <1>5, <1>6

\* CacheInv does not depend on anything outside vars.
LEMMA KeepsStutter ==
    ASSUME CacheInv, UNCHANGED vars
    PROVE  CacheInv'
<1>. USE DEF vars
<1>1. Shape'  BY SMTT(30) DEF CacheInv, Shape
<1>2. OnePlace'  BY DEF CacheInv, OnePlace, resident, spilled
<1>3. SlotsBehind'  BY SMTT(30) DEF CacheInv, SlotsBehind, spilled
<1>4. Unwritten'  BY DEF CacheInv, Unwritten, resident, spilled
<1>5. CallsApart'  BY DEF CacheInv, CallsApart, resident
<1>6. Flushing'  BY DEF CacheInv, Flushing, spilled
<1>. QED  BY SMTT(30), <1>1, <1>2, <1>3, <1>4, <1>5, <1>6 DEF CacheInv

\* A fresh cache over a file satisfies it.
LEMMA InitInv == Init => CacheInv
<1>. SUFFICES ASSUME Init PROVE CacheInv
  OBVIOUS
<1>. USE CacheAssumption DEF Init, PageIds, Nowhere, EmptySidecar
<1>1. resident = {} /\ spilled = {}
  BY DEF resident, spilled
<1>2. Shape  BY SMTT(30) DEF Shape, Bytes, Slots
<1>3. OnePlace /\ SlotsBehind
  BY <1>1 DEF OnePlace, SlotsBehind
<1>4. Unwritten  BY SMTT(30), <1>1 DEF Unwritten
<1>5. CallsApart /\ Flushing
  BY <1>1 DEF CallsApart, Flushing, NoCall
<1>. QED  BY <1>2, <1>3, <1>4, <1>5 DEF CacheInv

\* Every step of the cache preserves it.
LEMMA NextInv == CacheInv /\ [Next]_vars => CacheInv'
<1>. SUFFICES ASSUME CacheInv, [Next]_vars PROVE CacheInv'
  OBVIOUS
<1>1. CASE Begin \/ NewPage \/ FlushStart \/ Rollback \/ Fail \/ Reopen
  BY <1>1, KeepsBegin, KeepsNewPage, KeepsFlushStart, KeepsRollback, KeepsFail,
     KeepsReopen
<1>2. CASE \E p \in PageIds : Miss(p) \/ Reissue(p)
  BY <1>2, KeepsMiss, KeepsReissue
<1>3. CASE \E p \in PageIds, v \in Values, d \in BOOLEAN : GetMut(p, v, d)
  BY <1>3, KeepsGetMut
<1>4. CASE \E n \in CacheSizes : SetCacheMaxBytes(n)
  BY <1>4, KeepsSetCacheMaxBytes
<1>5. CASE \E n \in SpillSizes : SetSpillwayMaxBytes(n)
  BY <1>5, KeepsSetSpillwayMaxBytes
<1>6. CASE \E n \in 0..PageCount : RollbackTo(n)
  BY <1>6, KeepsRollbackTo
<1>7. CASE EvictStep
  BY <1>7, KeepsEvictClean, KeepsSpill, KeepsFull, KeepsAllocDone,
     KeepsResizeDone, KeepsRehydrate, KeepsLoadPage DEF EvictStep
<1>8. CASE FlushStep
  BY <1>8, KeepsWriteBack, KeepsDrain, KeepsCacheWritten, KeepsDrainBatch,
     KeepsTrim, KeepsFlushEnd DEF FlushStep
<1>9. CASE UNCHANGED vars
  BY <1>9, KeepsStutter
<1>. QED  BY <1>1, <1>2, <1>3, <1>4, <1>5, <1>6, <1>7, <1>8, <1>9 DEF Next

\* The inductive invariant holds for every size of file, cache and spillway.
THEOREM CacheSafe == Spec => []CacheInv
BY InitInv, NextInv, PTL DEF Spec

\* A page is in memory or in one slot of the sidecar file, never in both, and
\* is in the file as it is when clean: in every cache (page_cache.rs,
\* spillway.rs).
THEOREM PagesInOnePlace == Spec => []OnePlace
<1>1. CacheInv => OnePlace
  BY DEF CacheInv
<1>. QED  BY <1>1, CacheSafe, PTL

-----------------------------------------------------------------------------
(* Every step of the cache is a step of PageStore, or none at all.          *)

StoreStep == [Store!Next]_(Store!storeVars)

\* A step that leaves what the pages read as, unless the handle dies.
Unseen == StoreStep /\ (View' = View \/ txn' = "dead")

\* A page below next reads as bytes.
LEMMA HeldBytes ==
    ASSUME CacheInv, NEW p \in PageIds
    PROVE  Held(p) \in Bytes /\ Held(p) # Absent
<1>1. CASE p \in resident
  BY <1>1, CacheAssumption DEF CacheInv, Shape, Held, resident, Bytes
<1>2. CASE p \notin resident /\ p \in spilled
  <2>1. slots[p] \in Slots
    BY <1>2 DEF CacheInv, Shape, spilled
  <2>. QED  BY <1>2, <2>1, CacheAssumption DEF CacheInv, Shape, Held, Bytes
<1>3. CASE p \notin resident /\ p \notin spilled
  BY <1>3, CacheAssumption DEF CacheInv, Shape, Held, Bytes
<1>. QED  BY <1>1, <1>2, <1>3

\* A page is in use in PageStore when it was handed out and the handle lives.
LEMMA InUseIs ==
    ASSUME CacheInv, NEW p \in PageIds
    PROVE  /\ p \in Store!InUse <=> (txn # "dead" /\ p < next)
           /\ p \in Store!InUse => View[p] = Held(p)
BY HeldBytes DEF View, Store!InUse, Store!PageIds, PageIds

\* A step that only moves bytes between memory, spillway and file.
LEMMA SameView ==
    ASSUME UNCHANGED <<disk, total, txn, next>>,
           \A p \in PageIds : p < next => Held(p)' = Held(p)
    PROVE  Unseen
<1>1. View' = View
  BY DEF View
<1>. QED  BY <1>1 DEF Unseen, StoreStep, Store!storeVars

\* Cannot be seen: Miss.
LEMMA HidesMiss ==
    ASSUME NEW p \in PageIds, Miss(p)
    PROVE  Unseen
BY SameView DEF Miss, Held, resident, spilled, memVars, spillVars, fileVars,
     limits, txnVars, flushVars

\* Cannot be seen: SetCacheMaxBytes.
LEMMA HidesSetCacheMaxBytes ==
    ASSUME NEW n \in CacheSizes, SetCacheMaxBytes(n)
    PROVE  Unseen
BY SameView DEF SetCacheMaxBytes, Held, resident, spilled, memVars, spillVars,
     fileVars, limits, txnVars, flushVars

\* Cannot be seen: SetSpillwayMaxBytes.
LEMMA HidesSetSpillwayMaxBytes ==
    ASSUME NEW n \in SpillSizes, SetSpillwayMaxBytes(n)
    PROVE  Unseen
BY SameView DEF SetSpillwayMaxBytes, Held, resident, spilled, memVars,
     spillVars, fileVars, limits, txnVars, flushVars

\* Cannot be seen: AllocDone.
LEMMA HidesAllocDone ==
    ASSUME AllocDone
    PROVE  Unseen
BY SameView DEF AllocDone, Held, resident, spilled, memVars, spillVars,
     fileVars, limits, txnVars, flushVars

\* Cannot be seen: ResizeDone.
LEMMA HidesResizeDone ==
    ASSUME ResizeDone
    PROVE  Unseen
BY SameView DEF ResizeDone, Held, resident, spilled, memVars, spillVars,
     fileVars, limits, txnVars, flushVars

\* Cannot be seen: CacheWritten.
LEMMA HidesCacheWritten ==
    ASSUME CacheWritten
    PROVE  Unseen
BY SameView DEF CacheWritten, Held, resident, spilled, memVars, spillVars,
     fileVars, limits, txnVars, flushVars

\* Cannot be seen: DrainBatch.
LEMMA HidesDrainBatch ==
    ASSUME DrainBatch
    PROVE  Unseen
BY SameView DEF DrainBatch, Held, resident, spilled, memVars, spillVars,
     fileVars, limits, txnVars, flushVars

\* Cannot be seen: a clean page leaves memory, since the file has it.
LEMMA HidesEvictClean ==
    ASSUME CacheInv, NEW p \in PageIds, EvictClean(p)
    PROVE  Unseen
<1>1. ASSUME NEW q \in PageIds PROVE Held(q)' = Held(q)
  BY DEF CacheInv, Shape, OnePlace, EvictClean, Dropped, Held, resident,
       spilled,
         memVars, spillVars, fileVars, limits, txnVars, flushVars
<1>. QED  BY <1>1, SameView DEF EvictClean, memVars, spillVars, fileVars,
       limits, txnVars, flushVars

\* Cannot be seen: a page moves to a slot of its own.
LEMMA HidesSpill ==
    ASSUME CacheInv, NEW p \in PageIds, Spill(p)
    PROVE  Unseen
<1>. USE DEF CacheInv, Shape, OnePlace, memVars, spillVars, fileVars, limits,
       txnVars, flushVars
<1>1. p \in resident /\ p \notin spilled /\ SlotFor(p) = cursor /\ cursor \in Slots
  BY SMTT(30), CacheAssumption DEF Spill, SlotFor, spilled, Slots
<1>2. /\ buf' = [buf EXCEPT ![p] = Absent]
      /\ slots' = [slots EXCEPT ![p] = cursor]
      /\ sidecar' = [sidecar EXCEPT ![cursor] = buf[p]]
  BY <1>1 DEF Spill, Dropped, Leaving
<1>3. Held(p)' = Held(p)
  BY SMTT(30), <1>1, <1>2, CacheAssumption DEF Held, resident, spilled, Slots
<1>4. ASSUME NEW q \in PageIds, q # p PROVE Held(q)' = Held(q)
  <2>1. q \in spilled => slots[q] # cursor
    BY SMTT(30), CacheAssumption DEF SlotsBehind, spilled, Slots
  <2>2. (q \in resident <=> q \in resident') /\ (q \in spilled <=> q \in spilled')
    BY <1>2, <1>4 DEF resident, spilled
  <2>3. buf'[q] = buf[q] /\ slots'[q] = slots[q] /\ disk'[q] = disk[q]
    BY <1>2, <1>4 DEF Spill
  <2>4. q \in spilled => sidecar'[slots[q]] = sidecar[slots[q]]
    BY <1>2, <2>1 DEF spilled
  <2>. QED  BY <2>2, <2>3, <2>4 DEF Held
<1>. QED  BY <1>3, <1>4, SameView DEF Spill

\* Cannot be seen: a page comes back from its slot.
LEMMA HidesRehydrate ==
    ASSUME CacheInv, Rehydrate
    PROVE  Unseen
<1>. USE DEF CacheInv, Shape, memVars, spillVars, fileVars, limits, txnVars,
       flushVars
<1>1. PICK p \in PageIds : p = call.page
  BY DEF Rehydrate, CallsApart
<1>2. /\ p \notin resident /\ p \in spilled
      /\ sidecar[slots[p]] \in Bytes
      /\ buf' = [buf EXCEPT ![p] = sidecar[slots[p]]]
      /\ slots' = [slots EXCEPT ![p] = Absent]
  BY <1>1 DEF Rehydrate, CallsApart, spilled
<1>3. Held(p)' = Held(p)
  BY <1>2, CacheAssumption DEF Held, resident, Bytes
<1>4. ASSUME NEW q \in PageIds, q # p PROVE Held(q)' = Held(q)
  BY <1>2, <1>4 DEF Rehydrate, Held, resident, spilled
<1>. QED  BY <1>3, <1>4, SameView DEF Rehydrate

\* Cannot be seen: clean pages leave memory between the batches of a drain.
LEMMA HidesTrim ==
    ASSUME CacheInv, Trim
    PROVE  Unseen
<1>1. ASSUME NEW q \in PageIds PROVE Held(q)' = Held(q)
  BY DEF CacheInv, Shape, OnePlace, Trim, Dropped, Held, resident, spilled,
         memVars, spillVars, fileVars, limits, txnVars, flushVars
<1>. QED  BY <1>1, SameView DEF Trim, memVars, spillVars, fileVars, limits,
       txnVars, flushVars

\* A handle that dies shows nothing any more.
LEMMA MapsDeath ==
    ASSUME txn' = "dead", UNCHANGED <<disk, total>>
    PROVE  Unseen
<1>1. View' = [p \in PageIds |-> Absent]
  BY DEF View
<1>2. Store!Fail
  BY <1>1 DEF Store!Fail, Store!PageIds, PageIds
<1>. QED  BY <1>2 DEF Unseen, StoreStep, Store!Next

\* A load reads what the file has, or fails.
LEMMA MapsLoadPage ==
    ASSUME CacheInv, LoadPage
    PROVE  Unseen
<1>. USE DEF memVars, spillVars, fileVars, limits, txnVars, flushVars
<1>1. CASE txn' = "dead"
  BY <1>1, MapsDeath DEF LoadPage
<1>2. CASE txn' # "dead"
  <2>1. txn' = txn
    BY <1>2 DEF LoadPage
  <2>2. call.page \in PageIds /\ call.page \notin resident
    BY DEF CacheInv, CallsApart, LoadPage
  <2>3. ASSUME NEW q \in PageIds PROVE Held(q)' = Held(q)
    BY <2>2 DEF CacheInv, Shape, LoadPage, Held, resident, spilled
  <2>. QED  BY <2>1, <2>3, SameView DEF LoadPage
<1>. QED  BY <1>1, <1>2

\* A call that fails for want of room changes nothing, or ends the handle.
LEMMA MapsFull ==
    ASSUME CacheInv, Full
    PROVE  Unseen
<1>. USE DEF memVars, spillVars, fileVars, limits, txnVars, flushVars
<1>1. CASE txn' = "dead"
  BY <1>1, MapsDeath DEF Full
<1>2. CASE txn' # "dead"
  BY <1>2, SameView DEF Full, Held, resident, spilled
<1>. QED  BY <1>1, <1>2

\* A write to a page changes what that page reads as, and nothing else.
LEMMA MapsWrite ==
    ASSUME CacheInv, NEW p \in PageIds, NEW v \in Bytes,
           txn \in {"open", "persist"}, UNCHANGED <<disk, total, txn>>,
           p < next \/ v = Blank,
           p < next', Held(p)' = v,
           \A q \in PageIds : q # p => (q < next <=> q < next'),
           \A q \in PageIds : q # p => Held(q)' = Held(q)
    PROVE  StoreStep
<1>1. View' = [View EXCEPT ![p] = v]
  BY ZenonT(30) DEF View
<1>2. p \in Store!InUse \/ v = Blank
  BY InUseIs
<1>3. Store!Write(p, v)
  BY <1>1, <1>2 DEF Store!Write
<1>. QED  BY <1>3 DEF StoreStep, Store!Next, Store!PageIds, PageIds, Bytes

\* get_mut is a write.
LEMMA MapsGetMut ==
    ASSUME CacheInv, NEW p \in PageIds, NEW v \in Values, NEW d \in BOOLEAN,
           GetMut(p, v, d)
    PROVE  StoreStep
<1>. USE DEF CacheInv, Shape, GetMut, MayWrite, memVars, spillVars, fileVars,
       limits, txnVars, flushVars
<1>1. p < next
  BY DEF Unwritten
<1>2. Held(p)' = v
  BY CacheAssumption DEF Held, resident
<1>3. ASSUME NEW q \in PageIds, q # p PROVE Held(q)' = Held(q)
  BY <1>3 DEF Held, resident, spilled
<1>. HIDE DEF CacheInv
<1>. QED  BY <1>1, <1>2, <1>3, MapsWrite DEF Bytes

\* A new page reads as blank.
LEMMA MapsNewPage ==
    ASSUME CacheInv, NewPage
    PROVE  StoreStep
<1>. USE DEF CacheInv, Shape, NewPage, Enter, MayWrite, memVars, spillVars,
       fileVars, limits, txnVars, flushVars
<1>1. PICK p \in PageIds : p = next
  BY SMTT(30), CacheAssumption DEF PageIds
<1>2. Held(p)' = Blank
  BY <1>1, CacheAssumption DEF Held, resident
<1>3. ASSUME NEW q \in PageIds, q # p PROVE Held(q)' = Held(q)
  BY <1>1, <1>3 DEF Held, resident, spilled
<1>4. p < next' /\ \A q \in PageIds : q # p => (q < next <=> q < next')
  BY SMTT(30), <1>1, CacheAssumption DEF PageIds
<1>. HIDE DEF CacheInv
<1>. QED  BY <1>2, <1>3, <1>4, MapsWrite DEF Bytes

\* A page handed out again reads as blank, wherever it was.
LEMMA MapsReissue ==
    ASSUME CacheInv, NEW p \in PageIds, Reissue(p)
    PROVE  StoreStep
<1>. USE DEF CacheInv, Shape, Reissue, Enter, MayWrite, memVars, spillVars,
       fileVars, limits, txnVars, flushVars
<1>2. Held(p)' = Blank
  BY CacheAssumption DEF Held, resident
<1>3. ASSUME NEW q \in PageIds, q # p PROVE Held(q)' = Held(q)
  BY <1>3 DEF Held, resident, spilled
<1>. HIDE DEF CacheInv
<1>. QED  BY <1>2, <1>3, MapsWrite DEF Bytes

\* A page written to the file is the page as it reads, in memory or not.
LEMMA MapsWriteFile ==
    ASSUME CacheInv, NEW p \in PageIds, txn \in {"flush1", "flush2"}, p < next,
           disk' = [disk EXCEPT ![p] = Held(p)],
           UNCHANGED <<total, txn, next>>,
           \A q \in PageIds : Held(q)' = Held(q)
    PROVE  Unseen
<1>1. View' = View
  BY DEF View
<1>2. p \in Store!InUse /\ View[p] = Held(p)
  BY InUseIs
<1>3. Store!WriteBack(p)
  BY <1>1, <1>2 DEF Store!WriteBack
<1>. QED  BY <1>1, <1>3 DEF Unseen, StoreStep, Store!Next, Store!PageIds,
       PageIds

\* A dirty page in memory is written to the file.
LEMMA MapsWriteBack ==
    ASSUME CacheInv, NEW p \in PageIds, WriteBack(p)
    PROVE  Unseen
<1>. USE DEF CacheInv, Shape, WriteBack, WriteFile, memVars, spillVars,
       fileVars, limits, txnVars, flushVars
<1>1. p < next /\ txn \in {"flush1", "flush2"}
  BY DEF Unwritten, Flushing
<1>2. disk' = [disk EXCEPT ![p] = Held(p)]
  BY DEF Leaving, Held
<1>3. ASSUME NEW q \in PageIds PROVE Held(q)' = Held(q)
  BY DEF Held, resident, spilled
<1>. HIDE DEF CacheInv
<1>. QED  BY ZenonT(30), <1>1, <1>2, <1>3, MapsWriteFile

\* A spilled page is written to the file.
LEMMA MapsDrain ==
    ASSUME CacheInv, NEW p \in PageIds, Drain(p)
    PROVE  Unseen
<1>. USE DEF CacheInv, Shape, Drain, WriteFile, memVars, spillVars, fileVars,
       limits, txnVars, flushVars
<1>1. p \in spilled /\ p \notin resident /\ sidecar[slots[p]] \in Bytes
  BY DEF Flushing, OnePlace, spilled
<1>2. p < next /\ txn \in {"flush1", "flush2"}
  BY <1>1 DEF Unwritten, Flushing
<1>3. disk' = [disk EXCEPT ![p] = Held(p)]
  BY <1>1 DEF Held
<1>4. Held(p)' = Held(p)
  BY <1>1, CacheAssumption DEF Held, resident, Bytes
<1>5. ASSUME NEW q \in PageIds, q # p PROVE Held(q)' = Held(q)
  BY <1>1, <1>5 DEF Held, resident, spilled
<1>. HIDE DEF CacheInv
<1>. QED  BY ZenonT(30), <1>2, <1>3, <1>4, <1>5, MapsWriteFile

\* A flush returns when the file has every page.
LEMMA MapsFlushEnd ==
    ASSUME CacheInv, FlushEnd
    PROVE  Unseen
<1>. USE DEF FlushEnd, memVars, spillVars, fileVars, limits, txnVars, flushVars
<1>1. spilled = {} /\ spilled' = {} /\ resident' = resident /\ dirty = {}
  BY DEF CacheInv, Flushing, spilled, resident
<1>2. txn \in {"flush1", "flush2"}
  BY DEF CacheInv, Flushing, Shape
<1>3. View' = View
  BY <1>1, <1>2 DEF View, Held
<1>4. ASSUME NEW p \in Store!InUse PROVE disk[p] = View[p] /\ p < fileLen
  <2>1. p \in PageIds
    BY DEF Store!InUse, Store!PageIds, PageIds
  <2>2. p < next /\ View[p] = Held(p)
    BY <2>1, InUseIs
  <2>3. disk[p] = Held(p)
    BY <1>1 DEF CacheInv, OnePlace, Held
  <2>4. p < fileLen
    BY SMTT(30), <1>1, <2>1, <2>2, CacheAssumption DEF CacheInv, Shape, Unwritten,
         PageIds
  <2>. QED  BY <2>2, <2>3, <2>4
<1>5. Store!EndFlush
  BY <1>2, <1>3, <1>4 DEF Store!EndFlush, CacheInv, Shape
<1>. QED  BY <1>3, <1>5 DEF Unseen, StoreStep, Store!Next

\* begin, and the start of a flush, change only where the transaction is.
LEMMA MapsBegin ==
    ASSUME Begin \/ FlushStart
    PROVE  StoreStep
<1>. USE DEF Ready, memVars, spillVars, fileVars, limits, txnVars, flushVars
<1>1. View' = View
  BY DEF Begin, FlushStart, View, Held, resident, spilled
<1>2. Store!Begin \/ Store!StartFlush
  BY <1>1 DEF Begin, FlushStart, Store!Begin, Store!StartFlush
<1>. QED  BY <1>2 DEF StoreStep, Store!Next

\* rollback brings the committed pages back as the file has them.
LEMMA MapsRollback ==
    ASSUME CacheInv, Rollback
    PROVE  StoreStep
<1>. USE DEF memVars, spillVars, fileVars, limits, txnVars, flushVars
<1>1. disk' = Store!Shortened(disk, total)
  BY DEF Rollback, Truncate, Store!Shortened, Store!PageIds, PageIds
<1>2. ASSUME NEW p \in PageIds
      PROVE  View'[p] = IF p \in Store!InUse /\ p < total
                          THEN disk[p] ELSE Absent
  <2>1. p < next' <=> p < next /\ p < total
    BY SMTT(30), CacheAssumption DEF CacheInv, Shape, Rollback, Truncate, PageIds
  <2>2. p \in Store!InUse <=> p < next
    BY InUseIs DEF Rollback, Ready
  <2>3. ASSUME p < total PROVE Held(p)' = disk[p]
    <3>1. p \notin spilled' /\ disk'[p] = disk[p]
      BY <2>3 DEF Rollback, Truncate, spilled
    <3>2. p \in resident' => buf'[p] = disk[p]
      BY <2>3 DEF CacheInv, OnePlace, Rollback, Truncate, resident
    <3>. QED  BY <3>1, <3>2 DEF Held
  <2>4. View'[p] = IF p < next' THEN Held(p)' ELSE Absent
    BY DEF View, Rollback
  <2>. QED  BY <2>1, <2>2, <2>3, <2>4
<1>3. View' = [p \in PageIds |-> IF p \in Store!InUse /\ p < total
                                  THEN disk[p] ELSE Absent]
  BY <1>2 DEF View
<1>4. Store!Rollback
  BY <1>1, <1>3 DEF Store!Rollback, Store!PageIds, PageIds, Rollback
<1>. QED  BY <1>4 DEF StoreStep, Store!Next

\* rollback_to drops the pages from the watermark up and keeps the others.
LEMMA MapsRollbackTo ==
    ASSUME CacheInv, NEW n \in 0..PageCount, RollbackTo(n)
    PROVE  StoreStep
<1>. USE DEF memVars, spillVars, fileVars, limits, txnVars, flushVars
<1>1. disk' = Store!Shortened(disk, n)
  BY DEF RollbackTo, Truncate, Store!Shortened, Store!PageIds, PageIds
<1>2. ASSUME NEW p \in PageIds
      PROVE  View'[p] = IF p < n THEN View[p] ELSE Absent
  <2>1. p < next' <=> p < next /\ p < n
    BY SMTT(30), CacheAssumption DEF CacheInv, Shape, RollbackTo, Truncate, PageIds
  <2>2. ASSUME p < n PROVE Held(p)' = Held(p)
    <3>1. /\ buf'[p] = buf[p] /\ slots'[p] = slots[p] /\ disk'[p] = disk[p]
          /\ sidecar' = sidecar
      BY <2>2 DEF RollbackTo, Truncate, resident, spilled
    <3>. QED  BY <3>1 DEF Held, resident, spilled
  <2>. QED  BY <2>1, <2>2 DEF View, RollbackTo
<1>3. View' = Store!Prefix(View, n)
  BY <1>2 DEF View, Store!Prefix, Store!PageIds, PageIds
<1>4. Store!RollbackTo(n)
  BY <1>1, <1>3 DEF Store!RollbackTo, RollbackTo
<1>. QED  BY <1>4 DEF StoreStep, Store!Next

\* Reopening shows the committed pages of the file.
LEMMA MapsReopen ==
    ASSUME Reopen
    PROVE  StoreStep
<1>. USE DEF memVars, spillVars, fileVars, limits, txnVars, flushVars
<1>1. resident' = {} /\ spilled' = {}
  BY DEF Reopen, resident, spilled, Nowhere
<1>2. View' = Store!Prefix(disk, total)
  BY <1>1 DEF Reopen, View, Held, Store!Prefix, Store!PageIds, PageIds
<1>3. Store!Reopen
  BY <1>2 DEF Store!Reopen, Reopen
<1>. QED  BY <1>3 DEF StoreStep, Store!Next

\* Every step of the cache is a step of the memory it implements, or none.
LEMMA WorkUnseen == CacheInv /\ (EvictStep \/ FlushStep) => Unseen
<1>1. ASSUME CacheInv, EvictStep PROVE Unseen
  BY <1>1, HidesEvictClean, HidesSpill, MapsFull, HidesAllocDone,
     HidesResizeDone, HidesRehydrate, MapsLoadPage DEF EvictStep
<1>2. ASSUME CacheInv, FlushStep PROVE Unseen
  BY <1>2, MapsWriteBack, MapsDrain, HidesCacheWritten, HidesDrainBatch,
     HidesTrim, MapsFlushEnd DEF FlushStep
<1>. QED  BY <1>1, <1>2

LEMMA NextMaps == CacheInv /\ [Next]_vars => StoreStep
<1>. SUFFICES ASSUME CacheInv, [Next]_vars PROVE StoreStep
  OBVIOUS
<1>1. CASE Begin \/ NewPage \/ FlushStart \/ Rollback \/ Reopen
  BY <1>1, MapsBegin, MapsNewPage, MapsRollback, MapsReopen
<1>2. CASE Fail
  BY <1>2, MapsDeath DEF Fail, fileVars, Unseen
<1>3. CASE \E p \in PageIds : Miss(p) \/ Reissue(p)
  BY <1>3, HidesMiss, MapsReissue DEF Unseen
<1>4. CASE \E p \in PageIds, v \in Values, d \in BOOLEAN : GetMut(p, v, d)
  BY <1>4, MapsGetMut
<1>5. CASE \E n \in CacheSizes : SetCacheMaxBytes(n)
  BY <1>5, HidesSetCacheMaxBytes DEF Unseen
<1>6. CASE \E n \in SpillSizes : SetSpillwayMaxBytes(n)
  BY <1>6, HidesSetSpillwayMaxBytes DEF Unseen
<1>7. CASE \E n \in 0..PageCount : RollbackTo(n)
  BY <1>7, MapsRollbackTo
<1>8. CASE EvictStep \/ FlushStep
  BY <1>8, WorkUnseen DEF Unseen
<1>9. CASE UNCHANGED vars
  BY <1>9, SameView DEF Unseen, vars, Held, resident, spilled
<1>. QED  BY <1>1, <1>2, <1>3, <1>4, <1>5, <1>6, <1>7, <1>8, <1>9 DEF Next

\* A fresh cache shows the pages of the file.
LEMMA InitMaps == Init => Store!Init
<1>. SUFFICES ASSUME Init PROVE Store!Init
  OBVIOUS
<1>1. resident = {} /\ spilled = {}
  BY DEF Init, Nowhere, resident, spilled
<1>2. View = Store!Prefix(disk, total)
  BY <1>1 DEF Init, View, Held, Store!Prefix, Store!PageIds, PageIds
<1>. QED
  BY <1>2, CacheAssumption DEF Init, Store!Init, Store!PageIds, PageIds, Bytes

\* The page cache with its spillway (page_cache.rs, spillway.rs) behaves as a
\* plain memory over a file, for every size of file, cache and spillway: what
\* is evicted, spilled, read back or drained never shows.
THEOREM CacheImplementsPageStore == Spec => ImplementsPageStore
<1>1. Init => Store!Init
  BY InitMaps
<1>2. CacheInv /\ [Next]_vars => [Store!Next]_(Store!storeVars)
  BY NextMaps DEF StoreStep
<1>. QED  BY <1>1, <1>2, CacheSafe, PTL DEF Spec, ImplementsPageStore,
       Store!Spec

\* Making room and flushing never change what a page reads as, whatever the
\* sizes of cache and spillway (maybe_evict, spill_one, load_page, flush).
THEOREM CacheWorkUnseen == Spec => WorkHidden
<1>1. CacheInv /\ [Next]_vars =>
        [EvictStep \/ FlushStep => View' = View \/ txn' = "dead"]_vars
  BY WorkUnseen DEF Unseen
<1>. QED  BY <1>1, CacheSafe, PTL DEF Spec, WorkHidden

-----------------------------------------------------------------------------
(* The counter of dirty pages.                                              *)

INSTANCE FiniteSetTheorems

Counted == dirtyCount = Cardinality(dirty)

\* A set of pages is finite, and what one page more or less does to its size.
LEMMA PagesFinite ==
    ASSUME NEW S \in SUBSET PageIds
    PROVE  /\ IsFiniteSet(S) /\ Cardinality(S) \in Nat
           /\ \A p : Cardinality(S \cup {p}) =
                        IF p \in S THEN Cardinality(S) ELSE Cardinality(S) + 1
           /\ \A p : Cardinality(S \ {p}) =
                        IF p \in S THEN Cardinality(S) - 1 ELSE Cardinality(S)
<1>1. IsFiniteSet(PageIds)
  BY PageIdsInterval, FS_Interval
<1>2. IsFiniteSet(S)
  BY <1>1, FS_Subset
<1>3. Cardinality(S) \in Nat
  BY <1>2, FS_CardinalityType
<1>4. \A p : Cardinality(S \cup {p}) =
                IF p \in S THEN Cardinality(S) ELSE Cardinality(S) + 1
  BY ZenonT(30), <1>2, FS_AddElement
<1>5. \A p : Cardinality(S \ {p}) =
                IF p \in S THEN Cardinality(S) - 1 ELSE Cardinality(S)
  BY ZenonT(30), <1>2, FS_RemoveElement
<1>. QED  BY <1>2, <1>3, <1>4, <1>5

\* A page becomes dirty: the counter grows if it was not dirty yet.
LEMMA CountsOneMore ==
    ASSUME Counted, dirty \subseteq PageIds, NEW p, dirty' = dirty \cup {p},
           dirtyCount' = IF p \in dirty THEN dirtyCount ELSE dirtyCount + 1
    PROVE  Counted'
<1>1. Cardinality(dirty \cup {p}) =
         IF p \in dirty THEN Cardinality(dirty) ELSE Cardinality(dirty) + 1
  BY PagesFinite
<1>2. dirtyCount' = Cardinality(dirty \cup {p})
  BY <1>1 DEF Counted
<1>. QED  BY <1>2 DEF Counted

\* A dirty page becomes clean, or leaves: the counter, which was positive, falls.
LEMMA CountsOneLess ==
    ASSUME Counted, dirty \subseteq PageIds, NEW p \in dirty, dirty' = dirty \ {p},
           dirtyCount' = IF dirtyCount > 0 THEN dirtyCount - 1 ELSE dirtyCount
    PROVE  Counted'
<1>1. Cardinality(dirty \ {p}) = Cardinality(dirty) - 1 /\ Cardinality(dirty \ {p}) \in Nat
  <2>1. dirty \ {p} \in SUBSET PageIds
    OBVIOUS
  <2>2. Cardinality(dirty \ {p}) \in Nat
    BY <2>1, PagesFinite
  <2>3. Cardinality(dirty \ {p}) = Cardinality(dirty) - 1
    BY PagesFinite
  <2>. QED  BY <2>2, <2>3
<1>2. Cardinality(dirty) \in Nat
  BY PagesFinite
<1>3. dirtyCount' = Cardinality(dirty \ {p})
  BY <1>1, <1>2 DEF Counted
<1>. QED  BY <1>3 DEF Counted

\* rollback_to takes the pages at or above the watermark out, and counts them.
LEMMA CountsRollbackTo ==
    ASSUME Counted, dirty \subseteq PageIds, NEW n \in Nat,
           dirty' = {p \in dirty : p < n},
           dirtyCount' = dirtyCount - Cardinality({p \in dirty : p >= n})
    PROVE  Counted'
<1>. DEFINE low == {p \in dirty : p < n}
            high == {p \in dirty : p >= n}
<1>1. low \in SUBSET PageIds /\ high \in SUBSET PageIds
  OBVIOUS
<1>2. dirty = low \cup high /\ low \cap high = {}
  <2>1. \A p \in dirty : p < n <=> ~(p >= n)
    BY CacheAssumption DEF PageIds
  <2>. QED  BY <2>1
<1>. HIDE DEF low, high
<1>3. /\ IsFiniteSet(low) /\ Cardinality(low) \in Nat
      /\ IsFiniteSet(high) /\ Cardinality(high) \in Nat
  BY <1>1, PagesFinite
<1>4. Cardinality(low \cup high) = Cardinality(low) + Cardinality(high) - Cardinality(low \cap high)
  BY <1>3, FS_Union
<1>5. Cardinality(low \cap high) = 0
  BY ZenonT(30), <1>2, FS_EmptySet
<1>6. Cardinality(dirty) = Cardinality(low) + Cardinality(high)
  BY <1>2, <1>3, <1>4, <1>5
<1>7. dirtyCount' = Cardinality(low)
  BY <1>3, <1>6 DEF Counted, high
<1>. QED  BY <1>7 DEF Counted, low

LEMMA InitCounted == Init => Counted
BY FS_EmptySet DEF Init, Counted

LEMMA NextCounted == CacheInv /\ Counted /\ [Next]_vars => Counted'
<1>. SUFFICES ASSUME CacheInv, Counted, [Next]_vars
              PROVE  Counted'
  OBVIOUS
<1>. USE DEF memVars
<1>1. dirty \subseteq PageIds /\ dirty \subseteq resident /\ next \in Nat
  BY CacheAssumption DEF CacheInv, Shape, Unwritten
<1>2. ASSUME UNCHANGED <<dirty, dirtyCount>> PROVE Counted'
  BY <1>2 DEF Counted
<1>3. ASSUME dirty' = {}, dirtyCount' = 0 PROVE Counted'
  BY <1>3, FS_EmptySet DEF Counted
<1>4. ASSUME NEW p \in PageIds, NEW v \in Values, NEW d \in BOOLEAN, GetMut(p, v, d)
      PROVE  Counted'
  BY <1>1, <1>4, CountsOneMore DEF GetMut
<1>5. ASSUME NewPage \/ \E p \in PageIds : Reissue(p) PROVE Counted'
  BY <1>1, <1>5, CountsOneMore DEF NewPage, Reissue, Enter
<1>6. CASE Rehydrate
  <2>1. call.page \notin dirty
    BY <1>1, <1>6 DEF Rehydrate, CacheInv, CallsApart
  <2>. QED  BY <1>1, <1>6, <2>1, CountsOneMore DEF Rehydrate
<1>7. ASSUME NEW p \in PageIds, Spill(p) PROVE Counted'
  <2>1. CASE p \in dirty
    BY <1>1, <1>7, <2>1, CountsOneLess DEF Spill, untrack_dirty
  <2>2. CASE p \notin dirty
    BY <1>2, <1>7, <2>2 DEF Spill, untrack_dirty
  <2>. QED  BY <2>1, <2>2
<1>8. ASSUME NEW p \in PageIds, WriteBack(p) PROVE Counted'
  <2>1. dirtyCount \in Nat
    BY <1>1, PagesFinite DEF Counted
  <2>2. dirtyCount' = IF dirtyCount > 0 THEN dirtyCount - 1 ELSE dirtyCount
    BY <1>8, <2>1 DEF WriteBack
  <2>. QED  BY <1>1, <1>8, <2>2, CountsOneLess DEF WriteBack
<1>9. CASE CacheWritten
  <2>1. dirty = {}
    BY <1>1, <1>9 DEF CacheWritten
  <2>. QED  BY <1>3, <1>9, <2>1 DEF CacheWritten
<1>10. ASSUME NEW n \in 0..PageCount, RollbackTo(n) PROVE Counted'
  BY <1>1, <1>10, CountsRollbackTo, CacheAssumption DEF RollbackTo
<1>11. CASE Rollback \/ Reopen
  BY SMTT(30), <1>3, <1>11 DEF Rollback, Reopen
<1>12. ASSUME \/ Begin \/ FlushStart \/ Fail \/ Full \/ AllocDone \/ ResizeDone
              \/ LoadPage \/ DrainBatch \/ Trim \/ FlushEnd
       PROVE  Counted'
  BY SMTT(30), <1>2, <1>12 DEF Begin, FlushStart, Fail, Full, AllocDone, ResizeDone, LoadPage,
     DrainBatch, Trim, FlushEnd
<1>13. ASSUME NEW p \in PageIds, Miss(p) \/ EvictClean(p) \/ Drain(p) PROVE Counted'
  BY <1>2, <1>13 DEF Miss, EvictClean, Drain
<1>14. ASSUME NEW n, SetCacheMaxBytes(n) \/ SetSpillwayMaxBytes(n) PROVE Counted'
  BY <1>2, <1>14 DEF SetCacheMaxBytes, SetSpillwayMaxBytes
<1>15. CASE UNCHANGED vars
  BY <1>2, <1>15 DEF vars
<1>16. CASE EvictStep \/ FlushStep
  BY <1>6, <1>7, <1>8, <1>9, <1>12, <1>13, <1>16 DEF EvictStep, FlushStep
<1>. QED  BY SMTT(30), <1>4, <1>5, <1>10, <1>11, <1>12, <1>13, <1>14, <1>15, <1>16 DEF Next

\* dirty_count is the number of dirty entries after every step, so that the
\* saturating subtractions never hide a miscount and the early exit of
\* evict_clean_to_cap can rely on it (page_cache.rs untrack_dirty, truncate).
THEOREM DirtyCountExact == Spec => []CountExact
<1>1. Spec => []Counted
  <2>1. CacheInv /\ Counted /\ [Next]_vars => Counted'
    BY NextCounted
  <2>. QED  BY <2>1, InitCounted, CacheSafe, PTL DEF Spec
<1>2. Counted => CountExact
  BY DEF Counted, CountExact
<1>. QED  BY <1>1, <1>2, PTL
=============================================================================
