--------------------------- MODULE KeySlotsProofs ---------------------------
(***************************************************************************)
(* Machine-checked proofs about KeySlots, for every set of credentials,    *)
(* every size of the key table, every bound and every number of superblock *)
(* slots from three up: no crash leaves a file without a credential, none  *)
(* leaves anything but the old or the new table, and what was revoked is   *)
(* gone for good.                                                          *)
(***************************************************************************)
EXTENDS KeySlots, TLAPS

USE DEF new_empty_encrypted

-----------------------------------------------------------------------------
(* The inductive invariant.                                                *)

\* The superblock write after counter c spares slot i.
Spares(c, i) == (c + 1) % N # i

\* The images as create_new left them.
Fresh(images) ==
    \A i \in SuperblockSlots :
        images[i] = Image(N - 1 - i, images[0].table, load_body(images[0]))

\* The winner holds a credential, and the next superblock write spares it or
\* cannot lose anything, every slot saying the same.
Safe(images) ==
    \E w \in SuperblockSlots :
        /\ IsWinner(images, w)
        /\ images[w].counter >= 1
        /\ Active(images[w].table) # {}
        /\ Spares(images[w].counter, w) \/ Fresh(images)

\* An open would find this table and these roots.
Shows(images, table, roots) ==
    \E w \in SuperblockSlots :
        IsWinner(images, w) /\ images[w].table = table /\ load_body(images[w]) = roots

SealedRight(images) ==
    \A i \in SuperblockSlots : images[i].valid => decrypt_body(images[i])

\* The handle is on the durable winner, with counter c.
OnWinner(c) ==
    \E w \in SuperblockSlots : IsWinner(medium, w) /\ medium[w] = Image(c, header, body)

Staged == Image(counter, staged.table, staged.body)
Target == counter % N

\* One image is written over the target slot and is not durable.
InFlight(image) ==
    /\ counter >= 1
    /\ OnWinner(counter - 1)
    /\ file = [medium EXCEPT ![Target] = image]

\* The new superblock is durable; the others are being scrubbed.
Settled ==
    /\ counter >= 1
    /\ IsWinner(medium, Target)
    /\ medium[Target] = Staged /\ file[Target] = Staged
    /\ \A i \in SuperblockSlots \ {Target} :
          file[i] \in {medium[i], Torn, overwrite_slot_table(medium[i])}

Calling == phase \in RewritePhases \cup CommitPhases \cup {"poisoned"}

ByPhase ==
    /\ phase = "closed" => file = medium
    /\ phase \in {"idle", "active", "flush", "committing"} => file = medium /\ OnWinner(counter)
    /\ phase \in {"barrier", "synching"} => InFlight(Staged)
    /\ phase = "scrub" => /\ Settled
                          /\ left \subseteq SuperblockSlots \ {Target}
                          /\ \A i \in SuperblockSlots \ left :
                                file[i].valid => file[i].table = staged.table
    /\ phase = "poisoned" =>
          \/ file = medium /\ OnWinner(counter)
          \/ InFlight(Staged)
          \/ InFlight(Torn)
          \/ Settled
    /\ phase \in RewritePhases => staged.body = body
    /\ phase \in CommitPhases => staged.table = header
    /\ Calling => Active(staged.table) # {}

SlotsInv == Safe(medium) /\ ByPhase

\* The first n wraps are the only ones in a table, and no two slots hold the same.
Numbered(table, n) ==
    /\ \A i \in TableSlots : table[i].id <= n
    /\ \A i, j \in Active(table) : table[i] = table[j] => i = j

Clean(table, gone) == gone \cap WrapsOf(table) = {}

Good(image, n, gone) == Numbered(image.table, n) /\ (image.valid => Clean(image.table, gone))

WrapsInv ==
    /\ Numbered(header, wraps) /\ Numbered(staged.table, wraps)
    /\ phase # "closed" => Clean(header, revoked)
    /\ \A i \in SuperblockSlots : Good(file[i], wraps, revoked) /\ Good(medium[i], wraps, revoked)
    /\ \A k \in revoked \cup dropping : k.id <= wraps
    /\ Calling => Clean(staged.table, revoked) /\ Clean(staged.table, dropping)

SealedInv == SealedRight(medium) /\ SealedRight(file)

KeyInv == TypeOK /\ SealedInv /\ SlotsInv /\ WrapsInv

-----------------------------------------------------------------------------
(* Slots and images.                                                       *)

\* A counter names a slot, and the next counter names another.
LEMMA ConsecutiveSlots ==
    \A c \in Nat : c % N \in SuperblockSlots /\ (c + 1) % N \in SuperblockSlots
                   /\ (c + 1) % N # c % N
BY SlotsAssumption DEF SuperblockSlots

\* A torn image and a written one have the fields of an image.
LEMMA ImageType ==
    /\ EmptyTable \in Tables
    /\ Torn \in Images
    /\ \A c \in 0..MaxTxnCounter, t \in Tables, b \in 0..MaxBody : Image(c, t, b) \in Images
BY BoundsAssumption, CounterAssumption
   DEF EmptyTable, Tables, KeySlot, EMPTY, Torn, Images, Image, Sealed, seal_body, sb_identity_aad

\* An open picks one superblock.
LEMMA WinnerUnique ==
    ASSUME NEW images \in [SuperblockSlots -> Images],
           NEW v \in SuperblockSlots, NEW w \in SuperblockSlots,
           IsWinner(images, v), IsWinner(images, w)
    PROVE  v = w
BY SlotsAssumption, CounterAssumption DEF IsWinner, SuperblockSlots, Images

\* The counters of create_new fall from slot to slot.
LEMMA FallingCounters ==
    /\ 0 \in SuperblockSlots /\ 1 \in SuperblockSlots /\ 1 <= 1 /\ 0 <= 0
    /\ \A i \in SuperblockSlots : N - 1 - i \in 0..MaxTxnCounter
    /\ \A i \in SuperblockSlots : i # 0 => N - 1 - i < N - 1 - 0
    /\ \A i \in SuperblockSlots : N - 1 - 0 < N - 1 - i \/ N - 1 - 0 = N - 1 - i => i = 0
    /\ \A i \in SuperblockSlots : i # 0 /\ i # 1 => N - 1 - i < N - 1 - 1
    /\ N - 1 - 0 >= 1
BY SlotsAssumption, CounterAssumption DEF SuperblockSlots

\* An invalid image is an image.  Every later step sees this fact: a record
\* update among its facts spares tlapm a slow inference of types.
LEMMA SomeInvalid == \E image \in Images : image = [Torn EXCEPT !.valid = FALSE]
<1>1. Torn \in Images
  BY ImageType
<1> QED
  BY ZenonT(30), <1>1 DEF Images

USE SomeInvalid

\* Tearing another slot leaves the winner.
LEMMA TornElsewhere ==
    ASSUME NEW images \in [SuperblockSlots -> Images],
           NEW w \in SuperblockSlots, NEW t \in SuperblockSlots, t # w,
           IsWinner(images, w)
    PROVE  IsWinner([images EXCEPT ![t] = Torn], w)
BY DEF IsWinner, Torn

\* An image with a higher counter wins from whatever slot it is in.
LEMMA NewerWins ==
    ASSUME NEW images \in [SuperblockSlots -> Images],
           NEW w \in SuperblockSlots, NEW t \in SuperblockSlots,
           IsWinner(images, w),
           NEW image \in Images, image.valid, image.counter > images[w].counter,
           NEW new, new = [images EXCEPT ![t] = image]
    PROVE  IsWinner(new, t)
<1>1. new[t] = image /\ \A j \in SuperblockSlots : j # t => new[j] = images[j]
  OBVIOUS
<1>2. \A j \in SuperblockSlots : images[j].counter \in Int
  BY DEF Images
<1>3. image.counter \in Int
  BY DEF Images
<1>4. ASSUME NEW j \in SuperblockSlots, new[j].valid
      PROVE  \/ new[j].counter < new[t].counter
             \/ new[j].counter = new[t].counter /\ j <= t
  <2>1. CASE j = t
    BY <1>1, <1>3, <2>1, SlotsAssumption DEF SuperblockSlots
  <2>2. CASE j # t
    BY <1>1, <1>2, <1>3, <1>4, <2>2 DEF IsWinner
  <2> QED
    BY <2>1, <2>2
<1> QED
  BY <1>1, <1>4 DEF IsWinner

\* Of fresh images the first slot wins, and the next write goes there.
LEMMA FreshWinner ==
    ASSUME NEW images \in [SuperblockSlots -> Images], Fresh(images),
           NEW w \in SuperblockSlots, IsWinner(images, w)
    PROVE  w = 0 /\ images[w].counter = N - 1 /\ (images[w].counter + 1) % N = 0
<1>1. \A i \in SuperblockSlots : images[i].valid /\ images[i].counter = N - 1 - i
  BY DEF Fresh, Image
<1>2. w = 0
  BY <1>1, FallingCounters DEF IsWinner
<1> QED
  BY SMTT(30), <1>1, <1>2, SlotsAssumption DEF SuperblockSlots

\* A write of the next superblock that fails part way leaves what was there.
LEMMA TornSafe ==
    ASSUME N >= 3,
           NEW images \in [SuperblockSlots -> Images], Safe(images),
           NEW w \in SuperblockSlots, IsWinner(images, w),
           NEW torn, torn = [images EXCEPT ![(images[w].counter + 1) % N] = Torn]
    PROVE  Safe(torn) /\ Shows(torn, images[w].table, load_body(images[w]))
<1> DEFINE t == (images[w].counter + 1) % N
<1>0. images[w].counter \in Nat
  BY CounterAssumption DEF Images
<1>1. t \in SuperblockSlots
  BY <1>0, ConsecutiveSlots
<1>2. /\ images[w].counter >= 1
      /\ Active(images[w].table) # {}
      /\ Spares(images[w].counter, w) \/ Fresh(images)
  BY WinnerUnique DEF Safe
<1>3. CASE Spares(images[w].counter, w)
  <2>1. t # w
    BY <1>3 DEF Spares
  <2>2. IsWinner(torn, w) /\ torn[w] = images[w]
    BY ZenonT(30), <1>1, <2>1, TornElsewhere
  <2> QED
    BY ZenonT(30), <1>2, <1>3, <2>2 DEF Safe, Shows
<1>4. CASE Fresh(images)
  <2>1. w = 0 /\ t = 0
    BY <1>4, FreshWinner
  <2>2. 1 \in SuperblockSlots /\ 0 \in SuperblockSlots
    BY SMTT(30), SlotsAssumption DEF SuperblockSlots
  <2>3. torn[0] = Torn /\ \A i \in SuperblockSlots : i # 0 => torn[i] = images[i]
    BY <2>1, <2>2
  <2>4. \A i \in SuperblockSlots :
           /\ images[i].valid /\ images[i].counter = N - 1 - i
           /\ images[i].table = images[0].table
           /\ load_body(images[i]) = load_body(images[0])
    BY <1>4 DEF Fresh, Image, load_body, seal_body
  <2>5. ~torn[0].valid
    BY <2>3 DEF Torn
  <2>6. IsWinner(torn, 1)
    BY <2>2, <2>3, <2>4, <2>5, FallingCounters DEF IsWinner
  <2>7. torn[1].counter = N - 2 /\ torn[1].table = images[w].table
        /\ load_body(torn[1]) = load_body(images[w])
    BY <2>1, <2>2, <2>3, <2>4, SlotsAssumption
  <2>8. torn[1].counter >= 1 /\ Spares(torn[1].counter, 1)
    BY <2>7, SlotsAssumption DEF Spares
  <2> QED
    BY ZenonT(30), <1>2, <2>2, <2>6, <2>7, <2>8 DEF Safe, Shows
<1> QED
  BY <1>2, <1>3, <1>4

\* The next superblock, once it is whole, wins, and the write after it spares it.
LEMMA WholeSafe ==
    ASSUME NEW images \in [SuperblockSlots -> Images],
           NEW w \in SuperblockSlots, IsWinner(images, w),
           NEW c \in 0..MaxTxnCounter, c = images[w].counter + 1,
           NEW t \in Tables, Active(t) # {}, NEW b \in 0..MaxBody,
           NEW new, new = [images EXCEPT ![c % N] = Image(c, t, b)]
    PROVE  /\ Safe(new)
           /\ IsWinner(new, c % N) /\ new[c % N] = Image(c, t, b)
           /\ Shows(new, t, b)
<1>1. c \in Nat /\ c >= 1 /\ images[w].counter \in Nat
  BY CounterAssumption DEF Images
<1>2. c % N \in SuperblockSlots /\ Spares(c, c % N)
  BY <1>1, ConsecutiveSlots DEF Spares
<1>3. Image(c, t, b) \in Images
  BY ImageType
<1>4. Image(c, t, b).valid /\ Image(c, t, b).counter = c /\ Image(c, t, b).table = t
      /\ load_body(Image(c, t, b)) = b
  BY DEF Image, load_body, seal_body
<1>5. IsWinner(new, c % N)
  <2> DEFINE image == Image(c, t, b)
             slot == c % N
  <2>1. /\ image \in Images /\ image.valid /\ image.counter > images[w].counter
        /\ slot \in SuperblockSlots /\ new = [images EXCEPT ![slot] = image]
    BY <1>1, <1>2, <1>3, <1>4
  <2> HIDE DEF image, slot
  <2>2. IsWinner(new, slot)
    BY ZenonT(30), <2>1, NewerWins
  <2> QED
    BY <2>2 DEF slot
<1>6. new[c % N] = Image(c, t, b)
  BY <1>2
<1> QED
  BY ZenonT(30), <1>1, <1>2, <1>4, <1>5, <1>6 DEF Safe, Shows

\* Where an image verifies, open reads the slots at the right stride.
LEMMA CandidatesAll ==
    ASSUME NEW images \in [SuperblockSlots -> Images],
           NEW i \in SuperblockSlots, images[i].valid
    PROVE  Candidates(images) = images
<1>1. read_candidates(images, "encrypted") = images
  BY DEF read_candidates, read_page_unit
<1>2. encrypted_stride(read_candidates(images, "encrypted"))
  BY <1>1 DEF encrypted_stride
<1> QED
  BY <1>1, <1>2 DEF Candidates

\* An image whose body opens is what serialize_encrypted wrote.
LEMMA ImageSelf ==
    ASSUME NEW image \in Images, image.valid, decrypt_body(image)
    PROVE  image = Image(image.counter, image.table, load_body(image))
BY DEF Images, Sealed, decrypt_body, open_body, sb_identity_aad, Image, seal_body, load_body

\* Distances in the ring of slots.
LEMMA RingDistance ==
    ASSUME NEW c \in Nat, NEW i \in SuperblockSlots
    PROVE  /\ (c + N - i) % N \in Nat
           /\ (c + N - i) % N = 0 <=> i = c % N
BY SlotsAssumption DEF SuperblockSlots

\* The file that rekey builds has its winner where the next write spares it.
LEMMA RotatedSafe ==
    ASSUME NEW winner \in Images, winner.counter >= 1,
           NEW t \in Tables, Active(t) # {}
    PROVE  Safe(build_rotated_file(winner, t))
<1> DEFINE c == winner.counter
           k(i) == (c + N - i) % N
           new == build_rotated_file(winner, t)
           w == c % N
<1>1. c \in Nat /\ c >= 1
  BY CounterAssumption DEF Images
<1>2. w \in SuperblockSlots /\ Spares(c, w)
  BY <1>1, ConsecutiveSlots DEF Spares
<1>3. \A i \in SuperblockSlots :
         /\ new[i].valid /\ new[i].table = t
         /\ new[i].counter = IF k(i) <= c THEN c - k(i) ELSE 0
  BY DEF build_rotated_file, Image
<1>4. \A i \in SuperblockSlots : k(i) \in Nat /\ (k(i) = 0 <=> i = w)
  BY <1>1, RingDistance
<1> HIDE DEF new, k, w, c
<1>5. new[w].counter = c
  BY <1>1, <1>2, <1>3, <1>4
<1>6. \A i \in SuperblockSlots : i # w => new[i].counter < c
  BY <1>1, <1>3, <1>4
<1>7. w <= w
  BY <1>2, SlotsAssumption DEF SuperblockSlots
<1>8. IsWinner(new, w)
  BY <1>2, <1>3, <1>5, <1>6, <1>7 DEF IsWinner
<1>9. Safe(new)
  BY <1>1, <1>2, <1>3, <1>5, <1>8 DEF Safe
<1> QED
  BY <1>9 DEF new

-----------------------------------------------------------------------------
(* Types and sealed bodies.                                                *)

\* Writing, clearing and overwriting keep a table a table.
LEMMA TableType ==
    /\ \A t \in Tables, i \in TableSlots, key \in Keys, id \in 0..MaxWraps :
          Wrapped(t, i, key, id) \in Tables
    /\ \A t \in Tables, i \in TableSlots : Cleared(t, i) \in Tables
    /\ 1 \in TableSlots
BY SlotsAssumption, BoundsAssumption
   DEF Wrapped, Cleared, Tables, KeySlot, wrap_dek, EMPTY, TableSlots

\* The scrub keeps an image an image, with its counter and its body.
LEMMA ScrubType ==
    ASSUME TypeOK, NEW image \in Images
    PROVE  /\ overwrite_slot_table(image) \in Images
           /\ overwrite_slot_table(image).valid = image.valid
           /\ overwrite_slot_table(image).counter = image.counter
           /\ overwrite_slot_table(image).sealed = image.sealed
           /\ image.valid => overwrite_slot_table(image).table = staged.table
           /\ ~image.valid => overwrite_slot_table(image) = image
BY DEF TypeOK, overwrite_slot_table, Images

\* The slots that rekey writes are images with sealed bodies that open.
LEMMA RotatedType ==
    ASSUME NEW winner \in Images, NEW t \in Tables
    PROVE  /\ build_rotated_file(winner, t) \in [SuperblockSlots -> Images]
           /\ SealedRight(build_rotated_file(winner, t))
<1> DEFINE c(i) == LET k == (winner.counter + N - i) % N
                   IN  IF k <= winner.counter THEN winner.counter - k ELSE 0
<1>1. winner.counter \in 0..MaxTxnCounter /\ load_body(winner) \in 0..MaxBody
  BY DEF Images, Sealed, load_body
<1>2. \A i \in SuperblockSlots : c(i) \in 0..MaxTxnCounter
  BY <1>1, RingDistance, CounterAssumption
<1>3. \A i \in SuperblockSlots :
         build_rotated_file(winner, t)[i] = Image(c(i), t, load_body(winner))
  BY DEF build_rotated_file
<1> HIDE DEF c
<1>4. \A i \in SuperblockSlots : Image(c(i), t, load_body(winner)) \in Images
  BY <1>1, <1>2, ImageType
<1>5. \A i \in SuperblockSlots : decrypt_body(Image(c(i), t, load_body(winner)))
  BY DEF decrypt_body, open_body, Image, seal_body
<1>6. build_rotated_file(winner, t) \in [SuperblockSlots -> Images]
  BY <1>3, <1>4 DEF build_rotated_file
<1> QED
  BY <1>3, <1>5, <1>6 DEF SealedRight

\* The first table, and the state of a new file.
LEMMA InitType == Init => TypeOK /\ SealedInv
<1> SUFFICES ASSUME Init PROVE TypeOK /\ SealedInv
  OBVIOUS
<1> PICK key \in Keys :
       /\ medium = [i \in SuperblockSlots |-> Image(N - 1 - i, FirstTable(key), 0)]
       /\ header = FirstTable(key)
       /\ staged = [table |-> FirstTable(key), body |-> 0]
  BY DEF Init
<1>1. FirstTable(key) \in Tables
  BY ImageType, TableType, BoundsAssumption DEF FirstTable
<1>2. \A i \in SuperblockSlots : N - 1 - i \in 0..MaxTxnCounter
  BY FallingCounters
<1>3. \A i \in SuperblockSlots : medium[i] \in Images /\ decrypt_body(medium[i])
  <2> TAKE i \in SuperblockSlots
  <2>1. medium[i] = Image(N - 1 - i, FirstTable(key), 0)
    OBVIOUS
  <2>2. medium[i] \in Images
    BY <1>1, <1>2, <2>1, ImageType, BoundsAssumption
  <2> QED
    BY <2>1, <2>2 DEF decrypt_body, open_body, Image, seal_body
<1>4. medium \in [SuperblockSlots -> Images] /\ file = medium
  BY <1>3 DEF Init
<1>5. staged \in [table : Tables, body : 0..MaxBody] /\ header \in Tables
  BY <1>1, BoundsAssumption
<1>6. /\ counter \in 0..MaxTxnCounter /\ body \in 0..MaxBody /\ wraps \in 0..MaxWraps
      /\ phase \in Phases /\ left = {} /\ dropping = {} /\ revoked = {}
  BY SlotsAssumption, CounterAssumption, BoundsAssumption DEF Init, Phases
<1>7. readOnly \in BOOLEAN
  BY Zenon DEF Init
<1>8. TypeOK
  BY <1>4, <1>5, <1>6, <1>7 DEF TypeOK
<1> QED
  BY <1>3, <1>4, <1>8 DEF SealedInv, SealedRight

\* No call, failure, crash or open leaves the types, and every image that
\* verifies has a body that opens.
LEMMA TypeStep == TypeOK /\ SealedInv /\ [Next]_vars => TypeOK' /\ SealedInv'
<1> SUFFICES ASSUME TypeOK, SealedInv, [Next]_vars PROVE TypeOK' /\ SealedInv'
  OBVIOUS
<1> USE DEF SealedInv
<1>0. /\ \A i \in SuperblockSlots : medium[i] \in Images /\ file[i] \in Images
      /\ ~Torn.valid
      /\ counter \in Nat /\ TargetSlot \in SuperblockSlots
  <2>1. counter \in Nat
    BY CounterAssumption DEF TypeOK
  <2> QED
    BY <2>1, ConsecutiveSlots DEF TypeOK, Torn, TargetSlot
<1>1. CASE UNCHANGED vars
  BY <1>1 DEF vars, TypeOK
<1>2. ASSUME NEW table \in Tables, NEW drops \in SUBSET KeySlot, StartRewrite(table, drops),
             wraps' \in 0..MaxWraps
      PROVE  TypeOK' /\ SealedInv'
  <2>1. staged' \in [table : Tables, body : 0..MaxBody]
    BY <1>2 DEF StartRewrite, TypeOK
  <2> QED
    BY <1>2, <2>1 DEF StartRewrite, TypeOK, Phases, RewritePhases
<1>3. ASSUME NEW existing \in Keys, NEW new \in Keys, add_key(existing, new)
      PROVE  TypeOK' /\ SealedInv'
  <2>1. wraps + 1 \in 0..MaxWraps /\ wraps' = wraps + 1
    BY <1>3, BoundsAssumption DEF add_key, TypeOK
  <2>2. PICK free \in TableSlots : StartRewrite(Wrapped(header, free, new, wraps + 1), {})
    BY <1>3 DEF add_key
  <2>3. Wrapped(header, free, new, wraps + 1) \in Tables
    BY <2>1, TableType DEF TypeOK
  <2> QED
    BY <1>2, <2>1, <2>2, <2>3
<1>4. ASSUME NEW old \in Keys, NEW new \in Keys, rotate_key(old, new)
      PROVE  TypeOK' /\ SealedInv'
  <2>1. wraps + 1 \in 0..MaxWraps /\ wraps' = wraps + 1
    BY <1>4, BoundsAssumption DEF rotate_key, TypeOK
  <2>2. PICK idx \in TableSlots, free \in TableSlots :
           StartRewrite(Cleared(Wrapped(header, free, new, wraps + 1), idx), {header[idx]})
    BY <1>4 DEF rotate_key
  <2>3. Cleared(Wrapped(header, free, new, wraps + 1), idx) \in Tables
    BY <2>1, TableType DEF TypeOK
  <2>4. header[idx] \in KeySlot
    BY DEF TypeOK, Tables
  <2> QED
    BY <1>2, <2>1, <2>2, <2>3, <2>4
<1>5. ASSUME NEW key \in Keys, remove_key(key)
      PROVE  TypeOK' /\ SealedInv'
  <2>1. wraps' \in 0..MaxWraps
    BY <1>5 DEF remove_key, TypeOK
  <2>2. PICK idx \in TableSlots : StartRewrite(Cleared(header, idx), {header[idx]})
    BY <1>5 DEF remove_key
  <2>3. Cleared(header, idx) \in Tables /\ header[idx] \in KeySlot
    BY TableType DEF TypeOK, Tables
  <2> QED
    BY <1>2, <2>1, <2>2, <2>3
<1>6. ASSUME NEW key \in Keys, rekey(key)
      PROVE  TypeOK' /\ SealedInv'
  <2>1. wraps + 1 \in 0..MaxWraps /\ wraps' = wraps + 1
    BY <1>6, BoundsAssumption DEF rekey, TypeOK
  <2>2. PICK i \in SuperblockSlots :
           file' = build_rotated_file(file[i], Wrapped(EmptyTable, 1, key, wraps + 1))
    BY <1>6 DEF rekey
  <2>3. Wrapped(EmptyTable, 1, key, wraps + 1) \in Tables
    BY <2>1, TableType, ImageType
  <2>4. file' \in [SuperblockSlots -> Images] /\ SealedRight(file')
    BY <1>0, <2>2, <2>3, RotatedType
  <2>5. medium' = file'
    BY <1>6 DEF rekey
  <2>6. \A i_1 \in SuperblockSlots : WrapsOf(file[i_1].table) \subseteq KeySlot
    BY <1>0 DEF WrapsOf, Active, Images, Tables
  <2>7. revoked' \in SUBSET KeySlot
    BY <1>6, <2>6 DEF rekey, TypeOK
  <2> QED
    BY <1>6, <2>1, <2>4, <2>5, <2>7 DEF rekey, TypeOK, handleVars, callVars
<1>7. ASSUME WriteTarget \/ CommitSuperblock
      PROVE  TypeOK' /\ SealedInv'
  <2> DEFINE image == Image(counter + 1, staged.table, staged.body)
  <2>1. counter + 1 \in 0..MaxTxnCounter /\ counter' = counter + 1
    BY <1>0, <1>7, CounterAssumption DEF WriteTarget, CommitSuperblock
  <2>2. image \in Images
    BY <2>1, ImageType DEF TypeOK
  <2>3. decrypt_body(image)
    BY DEF decrypt_body, open_body, Image, seal_body
  <2>4. file' = [file EXCEPT ![TargetSlot] = image]
    BY <1>7 DEF WriteTarget, CommitSuperblock
  <2> HIDE DEF image
  <2>5. file' \in [SuperblockSlots -> Images]
    BY <1>0, <2>2, <2>4 DEF TypeOK
  <2>6. SealedRight(file')
    BY <1>0, <2>3, <2>4 DEF SealedRight, TypeOK
  <2> QED
    BY <1>7, <2>1, <2>5, <2>6
       DEF WriteTarget, CommitSuperblock, TypeOK, callVars, Phases, RewritePhases, CommitPhases
<1>8. CASE Barrier
  BY <1>8 DEF Barrier, TypeOK, Phases, RewritePhases
<1>9. ASSUME NEW i \in SuperblockSlots, ScrubSlot(i)
      PROVE  TypeOK' /\ SealedInv'
  <2>1. file' = [file EXCEPT ![i] = overwrite_slot_table(file[i])]
    BY <1>9 DEF ScrubSlot, TypeOK
  <2>2. file' \in [SuperblockSlots -> Images]
    BY <1>0, <2>1, ScrubType DEF TypeOK
  <2>3. SealedRight(file')
    BY <1>0, <2>1, ScrubType DEF SealedRight, TypeOK, decrypt_body
  <2> QED
    BY <1>9, <2>2, <2>3 DEF ScrubSlot, TypeOK, handleVars
<1>10. CASE FinishRewrite
  BY <1>10 DEF FinishRewrite, TypeOK, callVars, Phases
<1>11. CASE Begin \/ Rollback \/ Fails \/ Close
  BY <1>11 DEF Begin, Rollback, Fails, Close, TypeOK, callVars, Phases
<1>12. CASE CommitPages
  <2>1. staged' \in [table : Tables, body : 0..MaxBody]
    BY <1>12, BoundsAssumption DEF CommitPages, TypeOK
  <2> QED
    BY <1>12, <2>1 DEF CommitPages, TypeOK, Phases, CommitPhases
<1>13. CASE CommitSync
  BY <1>13 DEF CommitSync, TypeOK, callVars, Phases
<1>14. ASSUME NEW i \in SuperblockSlots, WriteFails(i)
      PROVE  TypeOK' /\ SealedInv'
  <2>1. counter' \in 0..MaxTxnCounter
    BY <1>0, <1>14, CounterAssumption DEF WriteFails, TypeOK
  <2>2. file' = [file EXCEPT ![i] = Torn]
    BY <1>14 DEF WriteFails
  <2>3. file' \in [SuperblockSlots -> Images]
    BY <2>2, ImageType DEF TypeOK
  <2>4. SealedRight(file')
    BY <1>0, <2>2 DEF SealedRight, TypeOK
  <2> QED
    BY <1>14, <2>1, <2>3, <2>4 DEF WriteFails, TypeOK, callVars, Phases
<1>15. ASSUME NEW whole, NEW torn, PowerLoss(whole, torn)
      PROVE  TypeOK' /\ SealedInv'
  <2>1. \A i \in SuperblockSlots : medium'[i] \in {file[i], Torn, medium[i]}
    BY <1>15 DEF PowerLoss
  <2>2. medium' \in [SuperblockSlots -> Images]
    BY <1>0, <1>15, ImageType DEF PowerLoss
  <2>3. SealedRight(medium')
    BY <1>0, <2>1 DEF SealedRight
  <2> QED
    BY <1>15, <2>2, <2>3 DEF PowerLoss, TypeOK, callVars, Phases
<1>16. ASSUME NEW key \in Keys, NEW i \in SuperblockSlots, NEW ro \in BOOLEAN, Open(key, i, ro)
      PROVE  TypeOK' /\ SealedInv'
  <2>1. header' \in Tables /\ counter' \in 0..MaxTxnCounter /\ body' \in 0..MaxBody
    BY <1>0, <1>16 DEF Open, Images, Sealed, load_body
  <2> QED
    BY <1>16, <2>1 DEF Open, TypeOK, callVars, Phases
<1> QED
  BY <1>1, <1>3, <1>4, <1>5, <1>6, <1>7, <1>8, <1>9, <1>10, <1>11, <1>12, <1>13, <1>14, <1>15, <1>16
     DEF Next, KeyCall, Rewrite, Transaction, Failure, CrashAndOpen

-----------------------------------------------------------------------------
(* The superblocks.                                                        *)

\* While one superblock is in flight, the medium keeps a winner whether the
\* write is lost, torn or whole.
LEMMA InFlightSafe ==
    ASSUME N >= 3, TypeOK, Safe(medium), Active(staged.table) # {},
           counter >= 1, OnWinner(counter - 1),
           NEW m, \/ m = medium
                  \/ m = [medium EXCEPT ![Target] = Torn]
                  \/ m = [medium EXCEPT ![Target] = Staged]
    PROVE  Safe(m) /\ (Shows(m, header, body) \/ Shows(m, staged.table, staged.body))
<1>1. PICK w \in SuperblockSlots : IsWinner(medium, w) /\ medium[w] = Image(counter - 1, header, body)
  BY DEF OnWinner
<1>2. counter \in Nat /\ counter \in 0..MaxTxnCounter /\ medium \in [SuperblockSlots -> Images]
      /\ staged.table \in Tables /\ staged.body \in 0..MaxBody
  BY CounterAssumption DEF TypeOK
<1>3. medium[w].counter = counter - 1 /\ medium[w].table = header /\ load_body(medium[w]) = body
  BY <1>1 DEF Image, load_body, seal_body
<1>4. (medium[w].counter + 1) % N = Target /\ counter = medium[w].counter + 1
  BY <1>2, <1>3 DEF Target
<1>5. CASE m = medium
  BY <1>1, <1>3, <1>5 DEF Shows
<1>6. CASE m = [medium EXCEPT ![Target] = Torn]
  BY ZenonT(30), <1>1, <1>2, <1>3, <1>4, <1>6, TornSafe
<1>7. CASE m = [medium EXCEPT ![Target] = Staged]
  BY ZenonT(30), <1>1, <1>2, <1>4, <1>7, WholeSafe DEF Staged, Target
<1> QED
  BY <1>5, <1>6, <1>7

\* Once the new superblock is durable, it wins whatever becomes of the scrub.
LEMMA SettledSafe ==
    ASSUME TypeOK, Settled, Active(staged.table) # {},
           NEW m \in [SuperblockSlots -> Images], m[Target] = Staged,
           \A i \in SuperblockSlots \ {Target} :
              ~m[i].valid \/ (medium[i].valid /\ m[i].counter = medium[i].counter)
    PROVE  Safe(m) /\ IsWinner(m, Target) /\ Shows(m, staged.table, staged.body)
<1>1. counter \in Nat /\ counter >= 1
  BY CounterAssumption DEF TypeOK, Settled
<1>2. Target \in SuperblockSlots /\ Spares(counter, Target)
  BY <1>1, ConsecutiveSlots DEF Spares, Target
<1>3. /\ Staged.valid /\ Staged.counter = counter /\ Staged.table = staged.table
      /\ load_body(Staged) = staged.body
  BY DEF Staged, Image, load_body, seal_body
<1>4. IsWinner(m, Target)
  BY <1>2, <1>3 DEF IsWinner, Settled
<1> QED
  BY SMTT(30), <1>1, <1>2, <1>3, <1>4 DEF Safe, Shows

\* What the file may hold while the others are scrubbed keeps the counters.
LEMMA ScrubbedCounters ==
    ASSUME TypeOK, Settled, NEW i \in SuperblockSlots, i # Target
    PROVE  /\ ~file[i].valid \/ (medium[i].valid /\ file[i].counter = medium[i].counter)
           /\ ~Torn.valid
<1>1. medium[i] \in Images
  BY DEF TypeOK
<1>2. file[i] \in {medium[i], Torn, overwrite_slot_table(medium[i])}
  BY DEF Settled
<1> QED
  BY <1>1, <1>2, ScrubType DEF Torn

\* A power loss at any step leaves a winner, and it is the old or the new one.
LEMMA CrashSlots ==
    ASSUME N >= 3, TypeOK, TypeOK', SlotsInv, phase # "closed",
           NEW whole \in SUBSET Pending, NEW torn \in SUBSET (Pending \ whole),
           PowerLoss(whole, torn)
    PROVE  /\ Safe(medium')
           /\ \/ phase # "scrub" /\ Shows(medium', header, body)
              \/ Shows(medium', staged.table, staged.body)
<1> USE DEF SlotsInv
<1>0. /\ medium \in [SuperblockSlots -> Images] /\ file \in [SuperblockSlots -> Images]
      /\ medium' \in [SuperblockSlots -> Images]
      /\ \A i \in SuperblockSlots :
            medium'[i] = IF i \in whole THEN file[i] ELSE IF i \in torn THEN Torn ELSE medium[i]
      /\ counter \in Nat /\ Target \in SuperblockSlots
  <2>1. counter \in Nat
    BY CounterAssumption DEF TypeOK
  <2> QED
    BY <2>1, ConsecutiveSlots DEF TypeOK, PowerLoss, Target
<1>1. CASE phase # "scrub" /\ file = medium /\ OnWinner(counter)
  <2>1. medium' = medium
    BY <1>0, <1>1 DEF Pending
  <2>2. Shows(medium, header, body)
    BY <1>1 DEF OnWinner, Shows, Image, load_body, seal_body
  <2> QED
    BY <1>1, <2>1, <2>2
<1>2. ASSUME phase # "scrub", Active(staged.table) # {},
             NEW image \in {Staged, Torn}, InFlight(image)
      PROVE  /\ Safe(medium')
             /\ Shows(medium', header, body) \/ Shows(medium', staged.table, staged.body)
  <2>1. file = [medium EXCEPT ![Target] = image]
    BY <1>2 DEF InFlight
  <2>2. \A i \in SuperblockSlots : i # Target => medium'[i] = medium[i]
    BY <1>0, <2>1 DEF Pending
  <2>3. medium'[Target] \in {medium[Target], Torn, image}
    BY <1>0, <2>1
  <2>4. medium' = [medium EXCEPT ![Target] = medium'[Target]]
    BY <1>0, <2>2
  <2>5. \/ medium' = medium
        \/ medium' = [medium EXCEPT ![Target] = Torn]
        \/ medium' = [medium EXCEPT ![Target] = Staged]
    BY <1>0, <1>2, <2>3, <2>4
  <2> QED
    BY <1>2, <2>5, InFlightSafe DEF InFlight
<1>3. CASE Settled /\ Active(staged.table) # {}
  <2>1. medium'[Target] = Staged
    <3>1. file[Target] = medium[Target] /\ medium[Target] = Staged
      BY <1>3 DEF Settled
    <3>2. Target \notin whole /\ Target \notin torn
      BY <3>1 DEF Pending
    <3> QED
      BY <1>0, <3>1, <3>2
  <2>2. \A i \in SuperblockSlots \ {Target} :
           ~medium'[i].valid \/ (medium[i].valid /\ medium'[i].counter = medium[i].counter)
    BY SMTT(30), <1>0, <1>3, ScrubbedCounters
  <2> QED
    BY <1>0, <1>3, <2>1, <2>2, SettledSafe
<1> QED
  BY <1>1, <1>2, <1>3 DEF ByPhase, Calling, TypeOK, Phases, RewritePhases, CommitPhases

\* A table with one more wrap, and a wrap cleared that is not the only one,
\* holds a credential.
LEMMA StillActive ==
    ASSUME NEW t \in Tables, NEW i \in TableSlots, NEW free \in TableSlots,
           NEW key \in Keys, NEW id \in 0..MaxWraps
    PROVE  /\ Active(Wrapped(t, free, key, id)) # {}
           /\ i # free => Active(Cleared(Wrapped(t, free, key, id), i)) # {}
           /\ ~AtMostOneActive(t) => Active(Cleared(t, i)) # {}
<1>1. is_active(wrap_dek(key, id))
  BY KeysAssumption DEF is_active, wrap_dek, EMPTY
<1>2. Wrapped(t, free, key, id)[free] = wrap_dek(key, id)
  BY DEF Wrapped, Tables
<1>3. i # free => Cleared(Wrapped(t, free, key, id), i)[free] = wrap_dek(key, id)
  BY DEF Wrapped, Cleared, Tables
<1>4. ASSUME ~AtMostOneActive(t) PROVE Active(Cleared(t, i)) # {}
  <2>1. PICK j \in Active(t) : j # i
    BY <1>4 DEF AtMostOneActive
  <2>2. j \in TableSlots /\ Cleared(t, i)[j] = t[j] /\ is_active(t[j])
    BY <2>1 DEF Active, Cleared, Tables
  <2> QED
    BY <2>2 DEF Active
<1> QED
  BY <1>1, <1>2, <1>3, <1>4 DEF Active

\* The slot a credential opens is active, so it is not the free one.
LEMMA UnlockedActive ==
    ASSUME NEW t \in Tables, NEW key \in Keys, NEW idx \in TableSlots, unlock(t, key, idx)
    PROVE  idx \in Active(t) /\ \A free \in TableSlots : free_slot(t, free) => idx # free
BY KeysAssumption DEF unlock, unwrap_dek, Active, is_active, EMPTY, free_slot

\* create_new leaves N images that say the same.
LEMMA InitSlots ==
    ASSUME N >= 3, Init
    PROVE  SlotsInv
<1> PICK key \in Keys :
       /\ medium = [i \in SuperblockSlots |-> Image(N - 1 - i, FirstTable(key), 0)]
       /\ header = FirstTable(key)
  BY DEF Init
<1>1. 0 \in SuperblockSlots /\ FirstTable(key) \in Tables
  BY SMTT(30), SlotsAssumption, ImageType, TableType, BoundsAssumption DEF SuperblockSlots, FirstTable
<1>2. Active(FirstTable(key)) # {}
  BY StillActive, ImageType, TableType, BoundsAssumption DEF FirstTable
<1>3. \A i \in SuperblockSlots :
         /\ medium[i] = Image(N - 1 - i, FirstTable(key), 0)
         /\ medium[i].valid /\ medium[i].counter = N - 1 - i
         /\ medium[i].table = FirstTable(key) /\ load_body(medium[i]) = 0
  BY DEF Image, load_body, seal_body
<1>4. Fresh(medium)
  BY <1>1, <1>3 DEF Fresh
<1>5. IsWinner(medium, 0)
  <2>1. \A j \in SuperblockSlots : medium[j].counter < medium[0].counter \/ j = 0
    BY <1>1, <1>3, FallingCounters
  <2> QED
    BY <1>1, <1>3, <2>1, FallingCounters DEF IsWinner
<1>6. Safe(medium)
  <2>1. medium[0].counter >= 1 /\ Active(medium[0].table) # {}
    BY <1>1, <1>2, <1>3, FallingCounters
  <2> QED
    BY ZenonT(30), <1>1, <1>4, <1>5, <2>1 DEF Safe
<1>7. medium[0] = Image(counter, header, body)
  BY <1>1, <1>3, SlotsAssumption DEF Init
<1>8. file = medium /\ phase = "idle"
  BY DEF Init
<1> QED
  BY ZenonT(30), <1>1, <1>5, <1>6, <1>7, <1>8
     DEF SlotsInv, ByPhase, OnWinner, RewritePhases, CommitPhases, Calling
-----------------------------------------------------------------------------
\* Every step keeps a safe winner on the medium and the file in the shape its
\* phase allows.
LEMMA SlotsStep ==
    ASSUME N >= 3, TypeOK, SealedInv, TypeOK', SlotsInv, [Next]_vars
    PROVE  SlotsInv'
<1> USE DEF RewritePhases, CommitPhases, Calling
<1>0. /\ medium \in [SuperblockSlots -> Images] /\ file \in [SuperblockSlots -> Images]
      /\ counter \in Nat /\ Target \in SuperblockSlots /\ TargetSlot \in SuperblockSlots
      /\ Safe(medium) /\ ByPhase
      /\ \A i \in SuperblockSlots : medium[i] \in Images /\ file[i] \in Images
  <2>1. counter \in Nat
    BY CounterAssumption DEF TypeOK
  <2> QED
    BY <2>1, ConsecutiveSlots DEF TypeOK, Target, TargetSlot, SlotsInv
<1>1. CASE UNCHANGED vars
  BY SMTT(30), <1>0, <1>1 DEF vars, SlotsInv, ByPhase, OnWinner, InFlight, Settled, Staged, Target,
                    overwrite_slot_table
<1>2. ASSUME NEW table, NEW drops, StartRewrite(table, drops), Active(table) # {}
      PROVE  SlotsInv'
  <2>1. /\ phase' = "flush" /\ staged' = [table |-> table, body |-> body]
        /\ UNCHANGED <<medium, file, header, counter, body>>
        /\ file = medium /\ OnWinner(counter)
    BY <1>0, <1>2 DEF StartRewrite, ByPhase
  <2>2. OnWinner(counter)'
    BY <2>1 DEF OnWinner
  <2> QED
    BY SMTT(30), <1>0, <1>2, <2>1, <2>2 DEF SlotsInv, ByPhase
<1>3. ASSUME NEW existing \in Keys, NEW new \in Keys, add_key(existing, new)
      PROVE  SlotsInv'
  <2>1. wraps + 1 \in 0..MaxWraps
    BY <1>3, BoundsAssumption DEF add_key, TypeOK
  <2>2. PICK free \in TableSlots : StartRewrite(Wrapped(header, free, new, wraps + 1), {})
    BY <1>3 DEF add_key
  <2>3. Active(Wrapped(header, free, new, wraps + 1)) # {}
    BY <2>1, StillActive DEF TypeOK
  <2> QED
    BY <1>2, <2>2, <2>3
<1>4. ASSUME NEW old \in Keys, NEW new \in Keys, rotate_key(old, new)
      PROVE  SlotsInv'
  <2>1. wraps + 1 \in 0..MaxWraps
    BY <1>4, BoundsAssumption DEF rotate_key, TypeOK
  <2>2. PICK idx \in TableSlots, free \in TableSlots :
           /\ unlock(header, old, idx) /\ free_slot(header, free)
           /\ StartRewrite(Cleared(Wrapped(header, free, new, wraps + 1), idx), {header[idx]})
    BY <1>4 DEF rotate_key
  <2>3. idx # free
    BY SMTT(30), <2>2, UnlockedActive DEF TypeOK
  <2>4. Active(Cleared(Wrapped(header, free, new, wraps + 1), idx)) # {}
    BY <2>1, <2>3, StillActive DEF TypeOK
  <2> QED
    BY <1>2, <2>2, <2>4
<1>5. ASSUME NEW key \in Keys, remove_key(key)
      PROVE  SlotsInv'
  <2>1. PICK idx \in TableSlots : StartRewrite(Cleared(header, idx), {header[idx]})
    BY ZenonT(30), <1>5 DEF remove_key
  <2>2. Active(Cleared(header, idx)) # {}
    <3>1. header \in Tables /\ 0 \in 0..MaxWraps /\ ~AtMostOneActive(header)
      BY <1>5, BoundsAssumption DEF TypeOK, remove_key
    <3> QED
      BY ZenonT(30), <1>5, <3>1, StillActive
  <2> QED
    BY <1>2, <2>1, <2>2
<1>6. ASSUME NEW key \in Keys, rekey(key)
      PROVE  SlotsInv'
  <2>1. wraps + 1 \in 0..MaxWraps
    BY <1>6, BoundsAssumption DEF rekey, TypeOK
  <2>2. PICK w \in SuperblockSlots, i \in SuperblockSlots :
           /\ Opens(key, w) /\ current_superblock(i, file[w].counter)
           /\ file' = build_rotated_file(file[i], Wrapped(EmptyTable, 1, key, wraps + 1))
    BY SMTT(30), <1>6 DEF rekey
  <2>3. /\ file = medium /\ phase = "closed" /\ phase' = "closed"
        /\ medium' = file'
    BY ZenonT(30), <1>0, <1>6 DEF ByPhase, rekey, handleVars
  <2>4. PICK v \in SuperblockSlots : IsWinner(medium, v) /\ medium[v].counter >= 1
    BY <1>0 DEF Safe
  <2>5. Candidates(file) = file
    BY <1>0, <2>3, <2>4, CandidatesAll DEF IsWinner
  <2>6. w = v
    BY SMTT(30), <1>0, <2>2, <2>3, <2>4, <2>5, WinnerUnique DEF Opens
  <2>7. file[i].counter >= 1
    BY <2>2, <2>3, <2>4, <2>6 DEF current_superblock, Current
  <2>8. Wrapped(EmptyTable, 1, key, wraps + 1) \in Tables
    BY <2>1, TableType, ImageType
  <2>9. Active(Wrapped(EmptyTable, 1, key, wraps + 1)) # {}
    BY <2>1, StillActive, TableType, ImageType
  <2>10. Safe(medium')
    BY SMTT(30), <1>0, <2>2, <2>3, <2>7, <2>8, <2>9, RotatedSafe
  <2> QED
    BY SMTT(30), <2>3, <2>10 DEF SlotsInv, ByPhase
<1>7. ASSUME WriteTarget \/ CommitSuperblock
      PROVE  SlotsInv'
  <2>1. /\ counter' = counter + 1 /\ phase' \in {"barrier", "synching"}
        /\ file' = [medium EXCEPT ![TargetSlot] = Image(counter + 1, staged.table, staged.body)]
        /\ UNCHANGED <<medium, header, body, staged>>
        /\ OnWinner(counter)
    BY <1>0, <1>7 DEF WriteTarget, CommitSuperblock, ByPhase, callVars
  <2>2. Target' = TargetSlot /\ counter' - 1 = counter /\ counter' >= 1
    BY <1>0, <2>1 DEF Target, TargetSlot
  <2>3. OnWinner(counter - 1)'
    BY <2>1, <2>2 DEF OnWinner
  <2>4. InFlight(Staged)'
    BY SMTT(30), <2>1, <2>2, <2>3 DEF InFlight, Staged
  <2>5. /\ phase' = "barrier" => staged.body = body
        /\ phase' = "synching" => staged.table = header
        /\ Active(staged.table) # {}
    BY <1>0, <1>7 DEF WriteTarget, CommitSuperblock, ByPhase
  <2> QED
    BY SMTT(30), <1>0, <2>1, <2>4, <2>5 DEF SlotsInv, ByPhase
<1>8. ASSUME phase \in {"barrier", "synching"}
      PROVE  /\ file = [medium EXCEPT ![Target] = Staged]
             /\ Safe(file) /\ IsWinner(file, Target) /\ file[Target] = Staged
             /\ Active(staged.table) # {} /\ counter >= 1
  <2>1. InFlight(Staged) /\ Active(staged.table) # {}
    BY <1>0, <1>8 DEF ByPhase
  <2>2. PICK w \in SuperblockSlots : IsWinner(medium, w) /\ medium[w] = Image(counter - 1, header, body)
    BY SMTT(30), <2>1 DEF InFlight, OnWinner
  <2>3. counter = medium[w].counter + 1 /\ counter \in 0..MaxTxnCounter
    BY <1>0, <2>2 DEF Image, TypeOK
  <2>4. file = [medium EXCEPT ![counter % N] = Image(counter, staged.table, staged.body)]
    BY SMTT(30), <2>1 DEF InFlight, Staged, Target
  <2>5. Safe(file) /\ IsWinner(file, Target) /\ file[Target] = Staged
    BY ZenonT(30), <1>0, <2>1, <2>2, <2>3, <2>4, WholeSafe DEF TypeOK, Staged, Target
  <2> QED
    BY SMTT(30), <2>1, <2>5 DEF InFlight
<1>9. CASE Barrier
  <2>1. /\ phase = "barrier" /\ phase' = "scrub" /\ medium' = file
        /\ left' = SuperblockSlots \ {Target}
        /\ UNCHANGED <<file, counter, staged, body, header>>
    BY <1>9 DEF Barrier, Target
  <2>2. Settled'
    BY <1>8, <2>1 DEF Settled, Staged, Target
  <2>3. \A i \in SuperblockSlots \ left' : file'[i].valid => file'[i].table = staged'.table
    BY SMTT(30), <1>8, <2>1 DEF Staged, Image
  <2>4. staged.body = body
    BY <1>0, <2>1 DEF ByPhase
  <2>5. Target' = Target
    BY SMTT(30), <2>1 DEF Target
  <2> QED
    BY <1>8, <2>1, <2>2, <2>3, <2>4, <2>5 DEF SlotsInv, ByPhase
<1>10. CASE CommitSync
  <2>1. /\ phase = "synching" /\ phase' = "idle" /\ medium' = file
        /\ body' = staged.body
        /\ UNCHANGED <<file, counter, header>>
    BY SMTT(30), <1>10 DEF CommitSync
  <2>2. staged.table = header
    BY <1>0, <2>1 DEF ByPhase
  <2>3. OnWinner(counter)'
    BY SMTT(30), <1>0, <1>8, <2>1, <2>2 DEF OnWinner, Staged
  <2> QED
    BY <1>8, <2>1, <2>3 DEF SlotsInv, ByPhase
<1>11. ASSUME NEW i \in SuperblockSlots, ScrubSlot(i)
      PROVE  SlotsInv'
  <2>1. /\ phase = "scrub" /\ phase' = "scrub" /\ i \in left /\ left' = left \ {i}
        /\ file' = [file EXCEPT ![i] = overwrite_slot_table(file[i])]
        /\ UNCHANGED <<medium, counter, staged, body, header>>
    BY SMTT(30), <1>0, <1>11 DEF ScrubSlot, IsNext, handleVars
  <2>2. /\ Settled /\ left \subseteq SuperblockSlots \ {Target}
        /\ \A j \in SuperblockSlots \ left : file[j].valid => file[j].table = staged.table
        /\ staged.body = body /\ Active(staged.table) # {}
    BY ZenonT(30), <1>0, <2>1 DEF ByPhase
  <2>3. i # Target
    BY SMTT(30), <2>1, <2>2
  <2>4. overwrite_slot_table(file[i]) \in {Torn, overwrite_slot_table(medium[i])}
    <3>1. file[i] \in {medium[i], Torn, overwrite_slot_table(medium[i])}
      BY <2>2, <2>3 DEF Settled
    <3>2. ~Torn.valid
      BY DEF Torn
    <3>3. overwrite_slot_table(Torn) = Torn
      BY <3>2 DEF overwrite_slot_table
    <3>4. overwrite_slot_table(overwrite_slot_table(medium[i])) = overwrite_slot_table(medium[i])
      BY <1>0 DEF overwrite_slot_table, Images
    <3> QED
      BY <3>1, <3>3, <3>4
  <2>5. /\ file'[i] = overwrite_slot_table(file[i])
        /\ \A j \in SuperblockSlots : j # i => file'[j] = file[j]
    BY SMTT(30), <1>0, <2>1
  <2>6. Settled'
    <3>1. Target' = Target /\ Staged' = Staged
          /\ \A image : overwrite_slot_table(image)' = overwrite_slot_table(image)
      BY SMTT(30), <2>1 DEF Target, Staged, overwrite_slot_table
    <3>2. \A j \in SuperblockSlots \ {Target} :
             file'[j] \in {medium[j], Torn, overwrite_slot_table(medium[j])}
      BY <2>2, <2>4, <2>5 DEF Settled
    <3>3. \A j \in SuperblockSlots \ {Target} :
             file'[j] \in {medium'[j], Torn, overwrite_slot_table(medium[j])'}
      BY SMTT(30), <2>1, <3>2 DEF overwrite_slot_table
    <3> QED
      BY <1>0, <2>1, <2>2, <2>3, <2>5, <3>1, <3>3 DEF Settled
  <2>7. \A j \in SuperblockSlots \ left' : file'[j].valid => file'[j].table = staged'.table
    BY <1>0, <2>1, <2>2, <2>5, ScrubType
  <2>8. Target' = Target
    BY SMTT(30), <2>1 DEF Target
  <2> QED
    BY <1>0, <2>1, <2>2, <2>6, <2>7, <2>8 DEF SlotsInv, ByPhase
<1>12. CASE FinishRewrite
  <2>1. /\ phase = "scrub" /\ phase' = "idle" /\ medium' = file
        /\ header' = staged.table
        /\ UNCHANGED <<file, counter, body>>
    BY SMTT(30), <1>12 DEF FinishRewrite
  <2>2. Settled /\ staged.body = body /\ Active(staged.table) # {}
    BY SMTT(30), <1>0, <2>1 DEF ByPhase
  <2>3. file[Target] = Staged
    BY <2>2 DEF Settled
  <2>4. \A i \in SuperblockSlots \ {Target} :
           ~file[i].valid \/ (medium[i].valid /\ file[i].counter = medium[i].counter)
    BY <2>2, ScrubbedCounters
  <2>5. Safe(file) /\ IsWinner(file, Target)
    BY <1>0, <2>2, <2>3, <2>4, SettledSafe
  <2>6. OnWinner(counter)'
    BY SMTT(30), <1>0, <2>1, <2>2, <2>3, <2>5 DEF OnWinner, Staged
  <2> QED
    BY <2>1, <2>5, <2>6 DEF SlotsInv, ByPhase
<1>13. CASE Begin \/ Rollback
  <2>1. /\ phase' \in {"idle", "active"} /\ file = medium /\ OnWinner(counter)
        /\ UNCHANGED <<medium, file, header, counter, body>>
    BY ZenonT(30), <1>0, <1>13 DEF Begin, Rollback, ByPhase
  <2>2. OnWinner(counter)'
    BY SMTT(30), <2>1 DEF OnWinner
  <2> QED
    BY ZenonT(30), <1>0, <2>1, <2>2 DEF SlotsInv, ByPhase
<1>14. CASE CommitPages
  <2>1. /\ phase' = "committing" /\ file = medium /\ OnWinner(counter)
        /\ staged' = [table |-> header, body |-> body + 1]
        /\ UNCHANGED <<medium, file, header, counter, body>>
    BY ZenonT(30), <1>0, <1>14 DEF CommitPages, ByPhase
  <2>2. OnWinner(counter)'
    BY <2>1 DEF OnWinner
  <2>3. Active(header) # {}
    <3>1. PICK w \in SuperblockSlots : IsWinner(medium, w) /\ medium[w].table = header
      BY SMTT(30), <2>1 DEF OnWinner, Image
    <3> QED
      BY SMTT(30), <1>0, <3>1, WinnerUnique DEF Safe
  <2> QED
    BY ZenonT(30), <1>0, <2>1, <2>2, <2>3 DEF SlotsInv, ByPhase
<1>15. CASE Fails
  <2>1. /\ phase \in RewritePhases \cup CommitPhases /\ phase' = "poisoned"
        /\ UNCHANGED <<medium, file, header, counter, body, staged>>
    BY SMTT(30), <1>15 DEF Fails, callVars
  <2>2. \/ file = medium /\ OnWinner(counter)
        \/ InFlight(Staged)
        \/ Settled
    BY ZenonT(30), <1>0, <2>1 DEF ByPhase
  <2>3. \/ file' = medium' /\ OnWinner(counter)'
        \/ InFlight(Staged)'
        \/ Settled'
    BY SMTT(30), <2>1, <2>2 DEF OnWinner, InFlight, Settled, Staged, Target, overwrite_slot_table
  <2>4. Active(staged.table) # {}
    BY <1>0, <2>1 DEF ByPhase
  <2> QED
    BY <1>0, <2>1, <2>3, <2>4 DEF SlotsInv, ByPhase
<1>16. ASSUME NEW i \in SuperblockSlots, WriteFails(i)
      PROVE  SlotsInv'
  <2>1. /\ phase' = "poisoned" /\ file' = [file EXCEPT ![i] = Torn]
        /\ UNCHANGED <<medium, header, body, staged>>
        /\ phase \in {"flush", "committing", "scrub"}
    BY SMTT(30), <1>16 DEF WriteFails, callVars
  <2>2. Active(staged.table) # {}
    BY SMTT(30), <1>0, <2>1 DEF ByPhase
  <2>3. CASE phase \in {"flush", "committing"}
    <3>1. counter' = counter + 1 /\ i = TargetSlot
      BY SMTT(30), <1>16, <2>3 DEF WriteFails
    <3>2. file = medium /\ OnWinner(counter)
      BY <1>0, <2>3 DEF ByPhase
    <3>3. Target' = TargetSlot /\ counter' - 1 = counter /\ counter' >= 1
      BY <1>0, <3>1 DEF Target, TargetSlot
    <3>4. OnWinner(counter - 1)'
      BY <2>1, <3>2, <3>3 DEF OnWinner
    <3>5. InFlight(Torn)'
      BY SMTT(30), <2>1, <3>1, <3>2, <3>3, <3>4 DEF InFlight
    <3> QED
      BY <1>0, <2>1, <2>2, <3>5 DEF SlotsInv, ByPhase
  <2>4. CASE phase = "scrub"
    <3>1. counter' = counter /\ i \in left
      BY SMTT(30), <1>16, <2>4 DEF WriteFails, IsNext
    <3>2. Settled /\ i # Target
      BY <1>0, <2>4, <3>1 DEF ByPhase
    <3>3. Settled'
      BY SMTT(30), <1>0, <2>1, <3>1, <3>2 DEF Settled, Staged, Target, overwrite_slot_table
    <3> QED
      BY <1>0, <2>1, <2>2, <3>3 DEF SlotsInv, ByPhase
  <2> QED
    BY <2>1, <2>3, <2>4
<1>17. CASE Close
  BY <1>0, <1>17 DEF Close, SlotsInv, ByPhase
<1>18. ASSUME NEW whole \in SUBSET Pending, NEW torn \in SUBSET (Pending \ whole),
              PowerLoss(whole, torn)
      PROVE  SlotsInv'
  <2>1. phase' = "closed" /\ file' = medium'
    BY SMTT(30), <1>18 DEF PowerLoss
  <2>2. CASE phase = "closed"
    <3>1. Pending = {}
      BY <1>0, <2>2 DEF Pending, ByPhase
    <3>2. medium' = medium
      BY SMTT(30), <1>0, <1>18, <3>1 DEF PowerLoss
    <3> QED
      BY SMTT(30), <1>0, <2>1, <3>2 DEF SlotsInv, ByPhase
  <2>3. CASE phase # "closed"
    <3>1. Safe(medium')
      BY SMTT(30), <1>18, <2>3, CrashSlots
    <3> QED
      BY <2>1, <3>1 DEF SlotsInv, ByPhase
  <2> QED
    BY <2>2, <2>3
<1>19. ASSUME NEW key \in Keys, NEW i \in SuperblockSlots, NEW ro \in BOOLEAN, Open(key, i, ro)
      PROVE  SlotsInv'
  <2>1. /\ file = medium /\ phase' = "idle" /\ UNCHANGED <<medium, file>>
        /\ header' = file[i].table /\ counter' = file[i].counter /\ body' = load_body(file[i])
        /\ IsWinner(Candidates(file), i) /\ decrypt_body(file[i])
    BY ZenonT(30), <1>0, <1>19 DEF Open, Opens, ByPhase
  <2>2. PICK v \in SuperblockSlots : medium[v].valid
    BY <1>0 DEF Safe, IsWinner
  <2>3. IsWinner(medium, i)
    BY SMTT(30), <1>0, <2>1, <2>2, CandidatesAll
  <2>4. medium[i] = Image(medium[i].counter, medium[i].table, load_body(medium[i]))
    BY <1>0, <2>1, <2>3, ImageSelf DEF IsWinner
  <2>5. OnWinner(counter)'
    BY <2>1, <2>3, <2>4 DEF OnWinner
  <2> QED
    BY SMTT(30), <1>0, <2>1, <2>5 DEF SlotsInv, ByPhase
<1> QED
  BY <1>1, <1>3, <1>4, <1>5, <1>6, <1>7, <1>9, <1>10, <1>11, <1>12, <1>13, <1>14, <1>15, <1>16,
     <1>17, <1>18, <1>19
     DEF Next, KeyCall, Rewrite, Transaction, Failure, CrashAndOpen

-----------------------------------------------------------------------------
(* The wraps.                                                              *)

\* Later wraps have higher numbers.
LEMMA NumberedMore ==
    ASSUME NEW t \in Tables, NEW n \in Int, NEW m \in Int, n <= m, Numbered(t, n)
    PROVE  Numbered(t, m)
BY SMTT(30), BoundsAssumption DEF Numbered, Tables, KeySlot

\* A table without wraps.
LEMMA EmptyNumbered ==
    ASSUME NEW n \in Nat
    PROVE  Numbered(EmptyTable, n) /\ WrapsOf(EmptyTable) = {} /\ Active(EmptyTable) = {}
BY DEF Numbered, EmptyTable, EMPTY, Active, is_active, WrapsOf

\* A fresh wrap is the only one with its number.
LEMMA WrappedNumbered ==
    ASSUME NEW t \in Tables, NEW n \in Nat, n + 1 \in 0..MaxWraps, Numbered(t, n),
           NEW free \in TableSlots, NEW key \in Keys
    PROVE  /\ Numbered(Wrapped(t, free, key, n + 1), n + 1)
           /\ WrapsOf(Wrapped(t, free, key, n + 1)) \subseteq WrapsOf(t) \cup {wrap_dek(key, n + 1)}
<1> DEFINE new == Wrapped(t, free, key, n + 1)
<1>1. /\ new[free] = wrap_dek(key, n + 1) /\ new[free].id = n + 1
      /\ \A i \in TableSlots : i # free => new[i] = t[i]
  BY DEF Wrapped, Tables, wrap_dek
<1>2. \A i \in TableSlots : t[i].id \in Int /\ t[i].id <= n
  BY DEF Tables, KeySlot, Numbered
<1> HIDE DEF new
<1>3. \A i \in TableSlots : new[i].id <= n + 1
  BY <1>1, <1>2
<1>4. \A i \in Active(new) : i \in TableSlots /\ (i # free => i \in Active(t))
  BY <1>1 DEF Active
<1>5. ASSUME NEW i \in Active(new), NEW j \in Active(new), new[i] = new[j], i # j PROVE FALSE
  <2>1. CASE i # free /\ j # free
    BY SMTT(30), <1>1, <1>4, <1>5, <2>1 DEF Numbered
  <2>2. CASE i = free
    BY <1>1, <1>2, <1>4, <1>5, <2>2
  <2>3. CASE j = free
    BY SMTT(30), <1>1, <1>2, <1>4, <1>5, <2>3
  <2> QED
    BY SMTT(30), <2>1, <2>2, <2>3
<1>6. WrapsOf(new) \subseteq WrapsOf(t) \cup {wrap_dek(key, n + 1)}
  BY <1>1, <1>4 DEF WrapsOf
<1>7. Numbered(new, n + 1)
  BY <1>3, <1>5 DEF Numbered
<1> QED
  BY <1>6, <1>7 DEF new

\* A cleared slot takes its wrap out of the table, and no other.
LEMMA ClearedNumbered ==
    ASSUME NEW t \in Tables, NEW n \in Nat, Numbered(t, n), NEW i \in TableSlots
    PROVE  /\ Numbered(Cleared(t, i), n)
           /\ WrapsOf(Cleared(t, i)) \subseteq WrapsOf(t)
           /\ i \in Active(t) => t[i] \notin WrapsOf(Cleared(t, i))
<1> DEFINE new == Cleared(t, i)
<1>1. /\ new[i] = EMPTY /\ \A j \in TableSlots : j # i => new[j] = t[j]
  BY DEF Cleared, Tables
<1> HIDE DEF new
<1>2. \A j \in Active(new) : j \in TableSlots /\ j # i /\ j \in Active(t) /\ new[j] = t[j]
  BY <1>1 DEF Active, is_active
<1>3. EMPTY.id = 0
  BY DEF EMPTY
<1>4. \A j \in TableSlots : new[j].id <= n
  BY <1>1, <1>3 DEF Numbered
<1>5. Numbered(new, n)
  BY <1>2, <1>4 DEF Numbered
<1>6. WrapsOf(new) \subseteq WrapsOf(t)
  BY <1>2 DEF WrapsOf
<1>7. i \in Active(t) => t[i] \notin WrapsOf(new)
  BY <1>2 DEF WrapsOf, Numbered
<1> QED
  BY <1>5, <1>6, <1>7 DEF new

\* An image stays good while more wraps are made and nothing is revoked.
LEMMA GoodMore ==
    ASSUME NEW image \in Images, NEW n \in Int, NEW m \in Int, n <= m, NEW gone,
           Good(image, n, gone)
    PROVE  Good(image, m, gone)
BY NumberedMore DEF Good, Images

\* A new file has one wrap, and nothing is revoked.
LEMMA InitWraps ==
    ASSUME Init
    PROVE  WrapsInv
<1> PICK key \in Keys :
       /\ medium = [i \in SuperblockSlots |-> Image(N - 1 - i, FirstTable(key), 0)]
       /\ header = FirstTable(key)
       /\ staged = [table |-> FirstTable(key), body |-> 0]
  BY DEF Init
<1>1. Numbered(EmptyTable, 0) /\ 0 + 1 \in 0..MaxWraps /\ 0 + 1 = 1
  BY SMTT(30), EmptyNumbered, BoundsAssumption
<1>2. Numbered(FirstTable(key), 1)
  BY <1>1, WrappedNumbered, ImageType, TableType DEF FirstTable
<1>3. Clean(FirstTable(key), {})
  BY SMTT(30) DEF Clean
<1>4. /\ phase = "idle" /\ file = medium /\ wraps = 1 /\ revoked = {} /\ dropping = {}
      /\ \A i \in SuperblockSlots : medium[i].table = FirstTable(key)
  BY DEF Init, Image
<1> QED
  BY <1>2, <1>3, <1>4 DEF WrapsInv, Good, Calling, RewritePhases, CommitPhases

\* Every superblock of the rotated file holds the new key slot table.
LEMMA RotatedTable ==
  ASSUME NEW winner, NEW t, NEW i \in SuperblockSlots
  PROVE  build_rotated_file(winner, t)[i].table = t
BY SMTT(30) DEF build_rotated_file, Image

\* No step brings back what was revoked: a wrap that a finished call took out
\* is in no table, and later wraps are different from it.
LEMMA WrapsStep ==
    ASSUME TypeOK, TypeOK', SlotsInv, WrapsInv, [Next]_vars
    PROVE  WrapsInv'
<1> USE DEF RewritePhases, CommitPhases, Calling
<1>0. /\ wraps \in Nat /\ wraps \in Int /\ header \in Tables /\ staged.table \in Tables
      /\ \A i \in SuperblockSlots : medium[i] \in Images /\ file[i] \in Images
      /\ file \in [SuperblockSlots -> Images]
      /\ TargetSlot \in SuperblockSlots
  <2>1. counter \in Nat
    BY SMTT(30), CounterAssumption DEF TypeOK
  <2> QED
    BY <2>1, BoundsAssumption, ConsecutiveSlots DEF TypeOK, TargetSlot
<1>1. Good(Torn, wraps, revoked)
  BY SMTT(30), <1>0, EmptyNumbered DEF Good, Torn
<1>2. CASE UNCHANGED vars
  BY SMTT(30), <1>2 DEF vars, WrapsInv
<1>3. ASSUME NEW table \in Tables, NEW drops, StartRewrite(table, drops),
             wraps' \in Int, wraps <= wraps',
             Numbered(table, wraps'), Clean(table, revoked), Clean(table, drops),
             \A k \in drops : k.id <= wraps
      PROVE  WrapsInv'
  <2>1. /\ phase = "idle" /\ phase' = "flush" /\ staged' = [table |-> table, body |-> body]
        /\ dropping' = drops
        /\ UNCHANGED <<medium, file, header, revoked>>
    BY SMTT(30), <1>3 DEF StartRewrite
  <2>2. Numbered(header, wraps')
    BY <1>0, <1>3, NumberedMore DEF WrapsInv
  <2>3. \A i \in SuperblockSlots : Good(file[i], wraps', revoked) /\ Good(medium[i], wraps', revoked)
    BY SMTT(30), <1>0, <1>3, GoodMore DEF WrapsInv
  <2>4. \A k \in revoked \cup drops : k \in KeySlot /\ k.id <= wraps
    BY <1>3, <2>1 DEF WrapsInv, TypeOK
  <2>5. \A k \in revoked \cup drops : k.id <= wraps'
    BY <1>0, <1>3, <2>4 DEF KeySlot
  <2> QED
    BY <1>3, <2>1, <2>2, <2>3, <2>5 DEF WrapsInv
<1>4. ASSUME wraps < MaxWraps, NEW t \in Tables, Numbered(t, wraps), Clean(t, revoked),
             NEW free \in TableSlots, NEW new \in Keys
      PROVE  /\ Wrapped(t, free, new, wraps + 1) \in Tables
             /\ Numbered(Wrapped(t, free, new, wraps + 1), wraps + 1)
             /\ Clean(Wrapped(t, free, new, wraps + 1), revoked)
  <2>1. wraps + 1 \in 0..MaxWraps
    BY <1>0, <1>4, BoundsAssumption
  <2>2. /\ Numbered(Wrapped(t, free, new, wraps + 1), wraps + 1)
        /\ WrapsOf(Wrapped(t, free, new, wraps + 1))
              \subseteq WrapsOf(t) \cup {wrap_dek(new, wraps + 1)}
    BY <1>0, <1>4, <2>1, WrappedNumbered
  <2>3. wrap_dek(new, wraps + 1).id = wraps + 1
    BY DEF wrap_dek
  <2>4. wrap_dek(new, wraps + 1) \notin revoked
    BY <1>0, <2>3 DEF WrapsInv
  <2>5. Wrapped(t, free, new, wraps + 1) \in Tables
    BY SMTT(30), <2>1, TableType
  <2> QED
    BY <1>4, <2>2, <2>4, <2>5 DEF Clean
<1>5. ASSUME NEW existing \in Keys, NEW new \in Keys, add_key(existing, new)
      PROVE  WrapsInv'
  <2>1. wraps < MaxWraps /\ wraps' = wraps + 1
    BY <1>5 DEF add_key
  <2>2. PICK free \in TableSlots : StartRewrite(Wrapped(header, free, new, wraps + 1), {})
    BY SMTT(30), <1>5 DEF add_key
  <2>3. Numbered(header, wraps) /\ Clean(header, revoked)
    BY SMTT(30), <2>2 DEF WrapsInv, StartRewrite
  <2>4. /\ Wrapped(header, free, new, wraps + 1) \in Tables
        /\ Numbered(Wrapped(header, free, new, wraps + 1), wraps + 1)
        /\ Clean(Wrapped(header, free, new, wraps + 1), revoked)
    BY <1>0, <1>4, <2>1, <2>3
  <2>5. Clean(Wrapped(header, free, new, wraps + 1), {})
    BY SMTT(30) DEF Clean
  <2> QED
    BY <1>0, <1>3, <2>1, <2>2, <2>4, <2>5
<1>6. ASSUME NEW old \in Keys, NEW new \in Keys, rotate_key(old, new)
      PROVE  WrapsInv'
  <2>1. wraps < MaxWraps /\ wraps' = wraps + 1
    BY <1>6 DEF rotate_key
  <2>2. PICK idx \in TableSlots, free \in TableSlots :
           /\ unlock(header, old, idx) /\ free_slot(header, free)
           /\ StartRewrite(Cleared(Wrapped(header, free, new, wraps + 1), idx), {header[idx]})
    BY SMTT(30), <1>6 DEF rotate_key
  <2> DEFINE added == Wrapped(header, free, new, wraps + 1)
  <2>3. Numbered(header, wraps) /\ Clean(header, revoked)
    BY <2>2 DEF WrapsInv, StartRewrite
  <2>4. added \in Tables /\ Numbered(added, wraps + 1) /\ Clean(added, revoked)
    BY <1>0, <1>4, <2>1, <2>3
  <2>5. idx \in Active(header) /\ idx # free
    BY SMTT(30), <1>0, <2>2, UnlockedActive
  <2>6. added[idx] = header[idx]
    BY SMTT(30), <1>0, <2>5 DEF Wrapped, Tables
  <2>7. idx \in Active(added)
    BY SMTT(30), <2>5, <2>6 DEF Active
  <2> HIDE DEF added
  <2>8. /\ Numbered(Cleared(added, idx), wraps + 1)
        /\ WrapsOf(Cleared(added, idx)) \subseteq WrapsOf(added)
        /\ header[idx] \notin WrapsOf(Cleared(added, idx))
        /\ Cleared(added, idx) \in Tables
    BY <1>0, <2>4, <2>6, <2>7, ClearedNumbered, TableType
  <2>9. Clean(Cleared(added, idx), revoked) /\ Clean(Cleared(added, idx), {header[idx]})
    BY <2>4, <2>8 DEF Clean
  <2>10. header[idx].id <= wraps
    BY <2>3 DEF Numbered
  <2>11. StartRewrite(Cleared(added, idx), {header[idx]})
    BY SMTT(30), <2>2 DEF added
  <2> QED
    BY <1>0, <1>3, <2>1, <2>8, <2>9, <2>10, <2>11
<1>7. ASSUME NEW key \in Keys, remove_key(key)
      PROVE  WrapsInv'
  <2>1. PICK idx \in TableSlots :
           unlock(header, key, idx) /\ StartRewrite(Cleared(header, idx), {header[idx]})
    BY SMTT(30), <1>7 DEF remove_key
  <2>2. wraps' = wraps /\ Numbered(header, wraps) /\ Clean(header, revoked)
    BY <1>7, <2>1 DEF remove_key, WrapsInv, StartRewrite
  <2>3. idx \in Active(header)
    BY SMTT(30), <1>0, <2>1, UnlockedActive
  <2>4. /\ Numbered(Cleared(header, idx), wraps)
        /\ WrapsOf(Cleared(header, idx)) \subseteq WrapsOf(header)
        /\ header[idx] \notin WrapsOf(Cleared(header, idx))
        /\ Cleared(header, idx) \in Tables
    BY <1>0, <2>2, <2>3, ClearedNumbered, TableType
  <2>5. Clean(Cleared(header, idx), revoked) /\ Clean(Cleared(header, idx), {header[idx]})
    BY SMTT(30), <2>2, <2>4 DEF Clean
  <2>6. header[idx].id <= wraps
    BY SMTT(30), <2>2 DEF Numbered
  <2> QED
    BY <1>0, <1>3, <2>1, <2>2, <2>4, <2>5, <2>6
<1>8. ASSUME NEW key \in Keys, rekey(key)
      PROVE  WrapsInv'
  <2> DEFINE table == Wrapped(EmptyTable, 1, key, wraps + 1)
  <2>1. /\ phase' = "closed" /\ wraps' = wraps + 1 /\ wraps + 1 \in 0..MaxWraps
        /\ medium' = file' /\ UNCHANGED <<header, staged, dropping>>
        /\ revoked' = revoked \cup UNION {WrapsOf(file[i].table) : i \in SuperblockSlots}
    BY <1>0, <1>8, BoundsAssumption DEF rekey, handleVars, callVars
  <2>2. \A i \in SuperblockSlots : file'[i].table = table
    <3>1. PICK w \in SuperblockSlots : file' = build_rotated_file(file[w], table)
      BY <1>8 DEF rekey
    <3> HIDE DEF table
    <3> QED
      BY <3>1, RotatedTable
  <2>3. Numbered(table, wraps + 1) /\ WrapsOf(table) \subseteq {wrap_dek(key, wraps + 1)}
    BY ZenonT(30), <1>0, <2>1, EmptyNumbered, WrappedNumbered, ImageType, TableType
  <2>4. \A k \in revoked' : k \in KeySlot /\ k.id <= wraps
    <3>1. \A i \in SuperblockSlots : \A k \in WrapsOf(file[i].table) : k.id <= wraps
      BY DEF WrapsInv, Good, Numbered, WrapsOf, Active
    <3> QED
      BY SMTT(30), <2>1, <3>1 DEF WrapsInv, TypeOK
  <2>5. wrap_dek(key, wraps + 1).id = wraps + 1
    BY DEF wrap_dek
  <2>6. wrap_dek(key, wraps + 1) \notin revoked'
    BY <1>0, <2>4, <2>5
  <2>7. Clean(table, revoked')
    BY SMTT(30), <2>3, <2>6 DEF Clean
  <2> HIDE DEF table
  <2>8. \A i \in SuperblockSlots : Good(file'[i], wraps', revoked') /\ Good(medium'[i], wraps', revoked')
    BY <2>1, <2>2, <2>3, <2>7 DEF Good
  <2>9. Numbered(header, wraps + 1) /\ Numbered(staged.table, wraps + 1)
    BY SMTT(30), <1>0, NumberedMore DEF WrapsInv
  <2>10. \A k \in revoked' \cup dropping : k \in KeySlot /\ k.id <= wraps
    BY <2>4 DEF WrapsInv, TypeOK
  <2>11. \A k \in revoked' \cup dropping : k.id <= wraps + 1
    BY SMTT(30), <1>0, <2>10 DEF KeySlot
  <2> QED
    BY ZenonT(30), <2>1, <2>8, <2>9, <2>11 DEF WrapsInv
<1>9. ASSUME WriteTarget \/ CommitSuperblock
      PROVE  WrapsInv'
  <2>1. /\ phase' \in {"barrier", "synching"} /\ phase \in {"flush", "committing"}
        /\ UNCHANGED <<medium, header, staged, dropping, wraps, revoked>>
        /\ file' = [file EXCEPT ![TargetSlot] = Image(counter + 1, staged.table, staged.body)]
    BY SMTT(30), <1>9 DEF WriteTarget, CommitSuperblock, callVars
  <2>2. Good(Image(counter + 1, staged.table, staged.body), wraps, revoked)
    BY <2>1 DEF WrapsInv, Good, Image
  <2>3. \A i \in SuperblockSlots : Good(file'[i], wraps, revoked)
    BY SMTT(30), <1>0, <2>1, <2>2 DEF WrapsInv
  <2> QED
    BY SMTT(30), <2>1, <2>3 DEF WrapsInv
<1>10. CASE Barrier
  BY SMTT(30), <1>10 DEF Barrier, WrapsInv
<1>11. CASE CommitSync
  BY SMTT(30), <1>11 DEF CommitSync, WrapsInv, callVars
<1>12. ASSUME NEW i \in SuperblockSlots, ScrubSlot(i)
      PROVE  WrapsInv'
  <2>1. /\ phase = "scrub" /\ phase' = "scrub"
        /\ UNCHANGED <<medium, header, staged, dropping, wraps, revoked>>
        /\ file' = [file EXCEPT ![i] = overwrite_slot_table(file[i])]
    BY SMTT(30), <1>0, <1>12 DEF ScrubSlot, handleVars
  <2>2. Numbered(staged.table, wraps) /\ Clean(staged.table, revoked) /\ Good(file[i], wraps, revoked)
    BY ZenonT(30), <2>1 DEF WrapsInv
  <2>3. Good(overwrite_slot_table(file[i]), wraps, revoked)
    BY SMTT(30), <1>0, <2>2, ScrubType DEF Good
  <2>4. \A j \in SuperblockSlots : Good(file'[j], wraps, revoked)
    BY SMTT(30), <1>0, <2>1, <2>3 DEF WrapsInv
  <2> QED
    BY <2>1, <2>4 DEF WrapsInv
<1>13. CASE FinishRewrite
  <2>1. /\ phase = "scrub" /\ phase' = "idle" /\ left = {} /\ medium' = file
        /\ header' = staged.table /\ revoked' = revoked \cup dropping
        /\ UNCHANGED <<file, staged, dropping, wraps>>
    BY <1>13 DEF FinishRewrite, callVars
  <2>2. \A i \in SuperblockSlots : file[i].valid => file[i].table = staged.table
    BY <2>1 DEF SlotsInv, ByPhase
  <2>3. Clean(staged.table, revoked')
    BY <2>1 DEF WrapsInv, Clean
  <2>4. \A i \in SuperblockSlots : Good(file[i], wraps, revoked')
    BY <2>2, <2>3 DEF WrapsInv, Good
  <2>5. \A k \in revoked' \cup dropping : k.id <= wraps
    BY SMTT(30), <2>1 DEF WrapsInv
  <2> QED
    BY ZenonT(30), <2>1, <2>3, <2>4, <2>5 DEF WrapsInv
<1>14. CASE Begin \/ Rollback \/ Fails \/ Close
  BY SMTT(30), <1>14 DEF Begin, Rollback, Fails, Close, WrapsInv, callVars
<1>15. CASE CommitPages
  <2>1. Clean(header, {})
    BY SMTT(30) DEF Clean
  <2> QED
    BY <1>15, <2>1 DEF CommitPages, WrapsInv
<1>16. ASSUME NEW i \in SuperblockSlots, WriteFails(i)
      PROVE  WrapsInv'
  <2>1. /\ phase \in {"flush", "committing", "scrub"} /\ phase' = "poisoned"
        /\ UNCHANGED <<medium, header, staged, dropping, wraps, revoked>>
        /\ file' = [file EXCEPT ![i] = Torn]
    BY SMTT(30), <1>16 DEF WriteFails, callVars
  <2>2. \A j \in SuperblockSlots : Good(file'[j], wraps, revoked)
    BY SMTT(30), <1>0, <1>1, <2>1 DEF WrapsInv
  <2> QED
    BY <2>1, <2>2 DEF WrapsInv
<1>17. ASSUME NEW whole, NEW torn, PowerLoss(whole, torn)
      PROVE  WrapsInv'
  <2>1. /\ phase' = "closed" /\ file' = medium'
        /\ UNCHANGED <<header, staged, dropping, wraps, revoked>>
        /\ \A i \in SuperblockSlots : medium'[i] \in {file[i], Torn, medium[i]}
    BY SMTT(30), <1>17 DEF PowerLoss, callVars
  <2>2. \A i \in SuperblockSlots : Good(medium'[i], wraps, revoked)
    BY ZenonT(30), <1>1, <2>1 DEF WrapsInv
  <2> QED
    BY SMTT(30), <2>1, <2>2 DEF WrapsInv
<1>18. ASSUME NEW key \in Keys, NEW i \in SuperblockSlots, NEW ro \in BOOLEAN, Open(key, i, ro)
      PROVE  WrapsInv'
  <2>1. /\ phase = "closed" /\ phase' = "idle" /\ header' = file[i].table
        /\ UNCHANGED <<medium, file, staged, dropping, wraps, revoked>>
        /\ IsWinner(Candidates(file), i)
    BY SMTT(30), <1>18 DEF Open, Opens, callVars
  <2>2. PICK v \in SuperblockSlots : file[v].valid
    BY ZenonT(30), <2>1 DEF SlotsInv, ByPhase, Safe, IsWinner
  <2>3. file[i].valid
    BY SMTT(30), <1>0, <2>1, <2>2, CandidatesAll DEF IsWinner
  <2>4. Numbered(header', wraps) /\ Clean(header', revoked)
    BY <2>1, <2>3 DEF WrapsInv, Good
  <2> QED
    BY ZenonT(30), <2>1, <2>4 DEF WrapsInv
<1> QED
  BY SMTT(30), <1>2, <1>5, <1>6, <1>7, <1>8, <1>9, <1>10, <1>11, <1>12, <1>13, <1>14, <1>15, <1>16, <1>17, <1>18
     DEF Next, KeyCall, Rewrite, Transaction, Failure, CrashAndOpen

-----------------------------------------------------------------------------
(* The theorems.                                                           *)

\* The inductive invariant of the key slots, for three superblock slots or more.
THEOREM KeyInvariant == ASSUME N >= 3 PROVE Spec => []KeyInv
<1>1. Init => KeyInv
  BY InitType, InitSlots, InitWraps DEF KeyInv
<1>2. KeyInv /\ [Next]_vars => KeyInv'
  BY TypeStep, SlotsStep, WrapsStep DEF KeyInv
<1> QED
  BY <1>1, <1>2, PTL DEF Spec

\* However add_key, rotate_key, remove_key, rekey or a commit is cut short, the
\* superblock an open picks has a credential and a body that opens.
THEOREM CredentialAlwaysLeft == ASSUME N >= 3 PROVE Spec => []CredentialLeft
<1>1. KeyInv => CredentialLeft
  <2> SUFFICES ASSUME KeyInv PROVE CredentialLeft
    OBVIOUS
  <2>1. medium \in [SuperblockSlots -> Images]
    BY SMTT(30) DEF KeyInv, TypeOK
  <2>2. PICK w \in SuperblockSlots : IsWinner(medium, w) /\ Active(medium[w].table) # {}
    BY DEF KeyInv, SlotsInv, Safe
  <2>3. medium[w].valid
    BY <2>2 DEF IsWinner
  <2>4. Candidates(medium) = medium
    BY <2>1, <2>3, CandidatesAll
  <2>5. decrypt_body(medium[w])
    BY SMTT(30), <2>3 DEF KeyInv, SealedInv, SealedRight
  <2> QED
    BY <2>2, <2>4, <2>5 DEF CredentialLeft
<1> QED
  BY <1>1, KeyInvariant, PTL

\* Between calls the handle holds what is durable.
THEOREM HandleAlwaysOnWinner == ASSUME N >= 3 PROVE Spec => []HandleOnWinner
<1>1. KeyInv => HandleOnWinner
  BY SMTT(30) DEF KeyInv, SlotsInv, ByPhase, OnWinner, HandleOnWinner
<1> QED
  BY <1>1, KeyInvariant, PTL

\* A wrap that a finished remove_key, rotate_key or rekey took out is in no
\* superblock that verifies, and never comes back.
THEOREM RevokedAlwaysGone == ASSUME N >= 3 PROVE Spec => []RevokedGone
<1>1. KeyInv => RevokedGone
  BY DEF KeyInv, WrapsInv, Good, Clean, RevokedGone
<1> QED
  BY <1>1, KeyInvariant, PTL

\* A crash in the middle of a call leaves the table and roots from before it or
\* those it writes, and after its barrier only the latter.
THEOREM CrashAlwaysOldOrNew == ASSUME N >= 3 PROVE Spec => CrashLeavesOldOrNew
<1> DEFINE Left == phase # "closed" /\ phase' = "closed" =>
          \E i \in SuperblockSlots :
              /\ IsWinner(medium', i)
              /\ \/ medium'[i].table = header /\ load_body(medium'[i]) = body /\ phase # "scrub"
                 \/ medium'[i].table = staged.table /\ load_body(medium'[i]) = staged.body
<1>1. ASSUME KeyInv, KeyInv', [Next]_vars PROVE [Left]_vars
  <2> SUFFICES ASSUME Next, phase # "closed", phase' = "closed" PROVE Left
    BY SMTT(30), <1>1
  <2>1. ASSUME NEW whole \in SUBSET Pending, NEW torn \in SUBSET (Pending \ whole),
               PowerLoss(whole, torn)
        PROVE  Left
    <3>1. \/ phase # "scrub" /\ Shows(medium', header, body)
          \/ Shows(medium', staged.table, staged.body)
      BY SMTT(30), <1>1, <2>1, CrashSlots DEF KeyInv
    <3> QED
      BY <3>1 DEF Shows
  <2>2. CASE Close
    <3>1. medium' = medium /\ file = medium /\ phase \in {"idle", "active", "poisoned"}
      BY SMTT(30), <2>2 DEF Close
    <3>2. \/ OnWinner(counter) \/ OnWinner(counter - 1) \/ Settled
      BY SMTT(30), <1>1, <3>1 DEF KeyInv, SlotsInv, ByPhase, InFlight
    <3>3. \/ Shows(medium, header, body)
          \/ Shows(medium, staged.table, staged.body)
      <4>1. counter \in Nat
        BY <1>1, CounterAssumption DEF KeyInv, TypeOK
      <4>2. Target \in SuperblockSlots
        BY SMTT(30), <4>1, ConsecutiveSlots DEF Target
      <4> QED
        BY <3>2, <4>2 DEF OnWinner, Settled, Shows, Staged, Image, load_body, seal_body
    <3> QED
      BY <3>1, <3>3 DEF Shows
  <2>3. Close \/ \E whole \in SUBSET Pending : \E torn \in SUBSET (Pending \ whole) :
                    PowerLoss(whole, torn)
    BY ZenonT(30) DEF Next, KeyCall, Rewrite, Transaction, Failure, CrashAndOpen, add_key, rotate_key,
           remove_key, rekey, StartRewrite, WriteTarget, Barrier, ScrubSlot, FinishRewrite,
           Begin, Rollback, CommitPages, CommitSuperblock, CommitSync, Fails, WriteFails, Open,
           handleVars
  <2> QED
    BY SMTT(30), <2>1, <2>2, <2>3
<1> QED
  BY <1>1, KeyInvariant, PTL DEF Spec, CrashLeavesOldOrNew

=============================================================================
